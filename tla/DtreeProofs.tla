---------------------------- MODULE DtreeProofs ----------------------------
(***************************************************************************)
(* Proof that the cache of inotify_dtree.c loses no watch and keeps no     *)
(* dead entry for good (Tracked), for any tree, number of processes, size  *)
(* of the kernel's queue and of the read buffer.                           *)
(***************************************************************************)
EXTENDS Dtree, SequenceTheorems, WellFoundedInduction, TLAPS

-----------------------------------------------------------------------------
(* The inductive invariant.                                                *)

Dirs == Inodes \cup {Top}
MoveMasks == {"MOVED_FROM", "MOVED_TO", "MOVE_SELF"}
Masks == MoveMasks \cup {"CREATE", "DELETE_SELF", "IGNORED", "Q_OVERFLOW"}
EvNames == Names \cup {NoName}
Events == [wd : Int, mask : Masks, name : EvNames, cookie : Int]
Notes == [dir : Dirs, mask : MoveMasks, name : EvNames, cookie : Int]

\* The types the argument needs.
TreeTypes ==
    /\ DOMAIN place \subseteq Inodes
    /\ place \in [DOMAIN place -> [parent : Dirs, name : Names]]
    /\ ops \in Int
    /\ emit \in [Mutators -> Seq(Notes)]

EventTypes == queue \in Seq(Events) /\ buf \in Seq(Events)

\* The instance gives a directory one watch, and a wd to one directory ever.
WatchInv ==
    /\ nextWd \in Nat
    /\ \A w \in DOMAIN watch : w \in Int /\ w < nextWd
    /\ \A v, w \in DOMAIN watch : watch[v].dir = watch[w].dir => v = w

\* The events that were queued or read and have not been processed.
Pending == Range(buf) \cup Range(queue)

IsDeath(e, w) == e.wd = w /\ e.mask = "DELETE_SELF"

\* An entry whose watch is gone has its end announced; an announced end is the
\* end of a watch the kernel does not have any more, nor will have again.
ToldInv ==
    /\ DOMAIN watch \subseteq DOMAIN cache
    /\ \A w \in DOMAIN cache \ DOMAIN watch :
          \E e \in Pending : IsDeath(e, w) \/ e = Overflow
    /\ \A e \in Pending : e.mask = "DELETE_SELF" => e.wd < nextWd /\ e.wd \notin DOMAIN watch

\* The loop over the buffer has an event to process; nothing is read over an
\* event, and no command is carried out before the events that were read.
BufInv ==
    /\ pc \in {"next", "hang"} => buf # << >>
    /\ pc \in {"select", "read"} => buf = << >>
    /\ job # "event" => buf = << >>

TrackInv == TreeTypes /\ EventTypes /\ WatchInv /\ ToldInv /\ BufInv

-----------------------------------------------------------------------------
(* The queue.                                                              *)

\* The kernel's IN_Q_OVERFLOW is an event like the others.
LEMMA OverflowType == Overflow \in Events
  BY DEF Overflow, Event, Events, Masks, EvNames, NoWd

\* What was queued stays queued.  Of a new event, or of the mark in its place,
\* at least one is in the queue, and nothing else comes into it.
LEMMA EnqueueFacts ==
  ASSUME NEW q \in Seq(Events), NEW e \in Events
  PROVE  /\ Enqueue(q, e) \in Seq(Events)
         /\ Range(q) \subseteq Range(Enqueue(q, e))
         /\ Range(Enqueue(q, e)) \subseteq Range(q) \cup {e, Overflow}
         /\ e \in Range(Enqueue(q, e)) \/ Overflow \in Range(Enqueue(q, e))
  <1>1. ASSUME NEW x \in Events
        PROVE  /\ Append(q, x) \in Seq(Events)
               /\ Range(q) \subseteq Range(Append(q, x))
               /\ Range(Append(q, x)) \subseteq Range(q) \cup {x}
               /\ x \in Range(Append(q, x))
    BY <1>1 DEF Range
  <1>2. q # << >> => q[Len(q)] \in Range(q)
    BY DEF Range
  <1>3. MaxQueue > 0 /\ MaxQueue \in Nat
    BY DtreeAssumption
  <1>4. ~(Len(q) < MaxQueue) => q # << >>
    BY Zenon, <1>3
  <1>5. CASE q # << >> /\ q[Len(q)] = e
    BY Zenon, <1>2, <1>5 DEF Enqueue
  <1>6. CASE ~(q # << >> /\ q[Len(q)] = e) /\ Len(q) < MaxQueue
    <2>1. Enqueue(q, e) = Append(q, e)
      BY Zenon, <1>6 DEF Enqueue
    <2> QED BY Zenon, <1>1, <2>1
  <1>7. CASE ~(q # << >> /\ q[Len(q)] = e) /\ ~(Len(q) < MaxQueue)
    <2>1. Enqueue(q, e) = IF q[Len(q)] = Overflow THEN q ELSE Append(q, Overflow)
      BY Zenon, <1>7 DEF Enqueue
    <2>2. CASE q[Len(q)] = Overflow
      BY Zenon, <1>2, <1>4, <1>7, <2>1, <2>2
    <2>3. CASE q[Len(q)] # Overflow
      BY Zenon, <1>1, <2>1, <2>3, OverflowType
    <2> QED BY Zenon, <2>2, <2>3
  <1> QED BY Zenon, <1>5, <1>6, <1>7

\* A step that drops nothing that is pending, adds no announcement of an end,
\* and leaves the watches and the keys of the cache alone, keeps ToldInv.
LEMMA ToldKept ==
  ASSUME ToldInv,
         UNCHANGED <<watch, nextWd>>, DOMAIN cache' = DOMAIN cache,
         \A e \in Pending : e.mask = "DELETE_SELF" \/ e = Overflow => e \in Pending',
         \A e \in Pending' : e.mask = "DELETE_SELF" => e \in Pending
  PROVE  ToldInv'
  <1>1. DOMAIN watch' \subseteq DOMAIN cache'
    BY Zenon DEF ToldInv
  <1>2. ASSUME NEW w \in DOMAIN cache' \ DOMAIN watch'
        PROVE  \E e \in Pending' : IsDeath(e, w) \/ e = Overflow
    <2>1. PICK e \in Pending : IsDeath(e, w) \/ e = Overflow
      BY Zenon, <1>2 DEF ToldInv
    <2>2. e \in Pending'
      BY Zenon, <2>1 DEF IsDeath
    <2> QED BY Zenon, <2>1, <2>2
  <1>3. \A e \in Pending' : e.mask = "DELETE_SELF" => e.wd < nextWd' /\ e.wd \notin DOMAIN watch'
    BY Zenon DEF ToldInv
  <1> QED BY Zenon, <1>1, <1>2, <1>3 DEF ToldInv, IsDeath

\* Reinitialize starts from nothing.
LEMMA ReinitInv ==
  ASSUME Reinitialize
  PROVE  EventTypes' /\ WatchInv' /\ ToldInv' /\ BufInv'
  <1>1. /\ watch' = << >> /\ nextWd' = 1 /\ queue' = << >> /\ cache' = << >>
        /\ buf' = << >> /\ pc' = "walk"
    BY Zenon DEF Reinitialize, FreeCache
  <1>2. DOMAIN watch' = {} /\ DOMAIN cache' = {} /\ Range(buf') = {} /\ Range(queue') = {}
    BY <1>1 DEF Range
  <1>3. EventTypes'
    BY <1>1 DEF EventTypes
  <1>4. WatchInv'
    BY Zenon, <1>1, <1>2 DEF WatchInv
  <1>5. ToldInv'
    BY Zenon, <1>2 DEF ToldInv, Pending
  <1>6. BufInv'
    BY Zenon, <1>1 DEF BufInv
  <1> QED BY Zenon, <1>3, <1>4, <1>5, <1>6

\* The loop over the buffer moves past n events.
LEMMA ConsumeFacts ==
  ASSUME EventTypes, NEW n \in {1, 2}, n <= Len(buf), Consume(n)
  PROVE  /\ buf' \in Seq(Events)
         /\ Range(buf') \subseteq Range(buf)
         /\ \A e \in Range(buf) : e \in Range(buf') \/ \E i \in 1 .. n : e = buf[i]
  <1>1. buf \in Seq(Events) /\ buf' = SubSeq(buf, n + 1, Len(buf))
    BY Zenon DEF EventTypes, Consume
  <1>2. Len(buf) \in Nat /\ DOMAIN buf = 1 .. Len(buf)
    BY <1>1
  <1>3. /\ buf' \in Seq(Events) /\ DOMAIN buf' = 1 .. Len(buf) - n
        /\ \A i \in 1 .. Len(buf) - n : buf'[i] = buf[i + n]
    <2>1. n \in Nat /\ n + 1 \in 1 .. Len(buf) + 1 /\ Len(buf) - (n + 1) + 1 = Len(buf) - n
      BY <1>2
    <2>2. /\ buf' \in Seq(Events)
          /\ Len(buf') = IF n + 1 <= Len(buf) THEN Len(buf) - (n + 1) + 1 ELSE 0
          /\ \A i \in 1 .. Len(buf) - (n + 1) + 1 : buf'[i] = buf[n + 1 + i - 1]
      BY <1>1, <1>2, <2>1, SubSeqProperties
    <2>3. Len(buf') = Len(buf) - n
      <3>1. Len(buf') = IF n + 1 <= Len(buf) THEN Len(buf) - (n + 1) + 1 ELSE 0
        BY Zenon, <2>2
      <3>2. CASE n = Len(buf)
        BY <1>2, <2>1, <3>1, <3>2
      <3>3. CASE n < Len(buf)
        <4>1. n + 1 <= Len(buf)
          BY <1>2, <2>1, <3>3
        <4> QED BY Zenon, <1>2, <2>1, <3>1, <4>1
      <3>4. n \in Nat /\ Len(buf) \in Nat /\ n <= Len(buf)
        BY Zenon, <1>2, <2>1
      <3>5. n = Len(buf) \/ n < Len(buf)
        BY ONLY <3>4
      <3> QED BY ONLY Zenon, <3>2, <3>3, <3>5
    <2>4. DOMAIN buf' = 1 .. Len(buf')
      BY <2>2
    <2>5. \A i \in 1 .. Len(buf) - n : n + 1 + i - 1 = i + n
      BY <2>1
    <2> QED BY Zenon, <2>1, <2>2, <2>3, <2>4, <2>5
  <1>4. Range(buf') \subseteq Range(buf)
    <2>1. \A i \in 1 .. Len(buf) - n : i + n \in 1 .. Len(buf)
      BY <1>2
    <2> QED BY <1>2, <1>3, <2>1 DEF Range
  <1>5. ASSUME NEW k \in 1 .. Len(buf), k > n
        PROVE  buf[k] \in Range(buf')
    <2>1. k - n \in 1 .. Len(buf) - n /\ (k - n) + n = k
      BY <1>2, <1>5
    <2> QED BY Zenon, <1>3, <2>1 DEF Range
  <1>6. ASSUME NEW e \in Range(buf)
        PROVE  e \in Range(buf') \/ \E i \in 1 .. n : e = buf[i]
    <2>1. PICK k \in 1 .. Len(buf) : e = buf[k]
      BY Zenon, <1>2, <1>6 DEF Range
    <2> QED BY <1>2, <1>5, <2>1
  <1> QED BY Zenon, <1>3, <1>4, <1>6

\* Events that announce no end are processed without a rebuild.
LEMMA ConsumeInv ==
  ASSUME TrackInv, pc = "next", NEW n \in {1, 2}, n <= Len(buf), Consume(n),
         UNCHANGED kernel, DOMAIN cache' = DOMAIN cache, UNCHANGED job,
         \A i \in 1 .. n : buf[i].mask \notin {"DELETE_SELF", "Q_OVERFLOW"},
         \/ AtNext
         \/ pc' \in {"walk", "zap", "exited"}
  PROVE  EventTypes' /\ WatchInv' /\ ToldInv' /\ BufInv'
  <1>1. UNCHANGED <<watch, nextWd, queue>>
    BY Zenon DEF kernel
  <1>2. EventTypes' /\ WatchInv'
    BY Zenon, <1>1, ConsumeFacts DEF TrackInv, EventTypes, WatchInv
  <1>3. /\ Range(buf') \subseteq Range(buf)
        /\ \A e \in Range(buf) : e \in Range(buf') \/ \E i \in 1 .. n : e = buf[i]
    BY Zenon, ConsumeFacts DEF TrackInv
  <1>4. Overflow.mask = "Q_OVERFLOW"
    BY Zenon DEF Overflow, Event
  <1>5. \A e \in Pending : e.mask = "DELETE_SELF" \/ e = Overflow => e \in Pending'
    BY <1>1, <1>3, <1>4 DEF Pending
  <1>6. \A e \in Pending' : e.mask = "DELETE_SELF" => e \in Pending
    BY Zenon, <1>1, <1>3 DEF Pending
  <1>7. ToldInv'
    BY Zenon, <1>1, <1>5, <1>6, ToldKept DEF TrackInv
  <1>8. BufInv'
    <2>1. job = "event"
      BY Zenon DEF TrackInv, BufInv
    <2> QED BY Zenon, <2>1 DEF BufInv, AtNext
  <1> QED BY Zenon, <1>2, <1>7, <1>8

-----------------------------------------------------------------------------
(* Initial states and the processes that change the tree.                  *)

\* At the start nothing is watched and no event is queued.
LEMMA TrackInit == Init => TrackInv
  <1> SUFFICES ASSUME Init PROVE TrackInv
    BY Zenon
  <1>1. PICK s \in Setups : place = s.tree /\ ops = s.ops
    BY Zenon DEF Init
  <1>2. /\ emit = [m \in Mutators |-> << >>]
        /\ watch = << >> /\ nextWd = 1 /\ queue = << >> /\ cache = << >> /\ buf = << >>
        /\ pc = "walk" /\ job = "event"
    BY Zenon DEF Init
  <1>3. TreeTypes
    <2>1. << >> \in Seq(Notes)
      OBVIOUS
    <2> QED BY <1>1, <1>2, <2>1, DtreeAssumption DEF TreeTypes, Dirs
  <1>4. DOMAIN watch = {} /\ DOMAIN cache = {} /\ Range(buf) = {} /\ Range(queue) = {}
    BY <1>2 DEF Range
  <1>5. EventTypes /\ WatchInv /\ ToldInv /\ BufInv
    BY <1>2, <1>4 DEF EventTypes, WatchInv, ToldInv, Pending, BufInv
  <1> QED BY Zenon, <1>3, <1>5 DEF TrackInv

\* The queue after an event that announces no end.
LEMMA PostedFacts ==
  ASSUME TrackInv, NEW d, NEW mask \in Masks \ {"DELETE_SELF"}, NEW name \in EvNames,
         NEW cookie \in Int, queue' = Posted(d, mask, name, cookie),
         UNCHANGED <<watch, nextWd, program>>
  PROVE  EventTypes' /\ WatchInv' /\ ToldInv' /\ BufInv'
  <1>0. UNCHANGED <<pc, job, cache, buf>>
    BY Zenon DEF program
  <1>1. WatchInv' /\ BufInv'
    BY Zenon, <1>0 DEF TrackInv, WatchInv, BufInv
  <1>2. CASE WatchOf(d) = {}
    <2>1. queue' = queue
      BY Zenon, <1>2 DEF Posted
    <2>2. Pending' = Pending
      BY Zenon, <1>0, <2>1 DEF Pending
    <2> QED BY Zenon, <1>0, <1>1, <2>1, <2>2 DEF TrackInv, EventTypes, ToldInv
  <1>3. CASE WatchOf(d) # {}
    <2> DEFINE w == CHOOSE x \in WatchOf(d) : TRUE
               e == Event(w, mask, name, cookie)
    <2>1. w \in DOMAIN watch
      BY Zenon, <1>3 DEF WatchOf
    <2>2. e \in Events /\ e.mask = mask
      BY Zenon, <2>1 DEF TrackInv, WatchInv, Event, Events
    <2>3. queue' = Enqueue(queue, e)
      BY Zenon, <1>3 DEF Posted
    <2>4. queue \in Seq(Events)
      BY Zenon DEF TrackInv, EventTypes
    <2> HIDE DEF e
    <2>5. /\ queue' \in Seq(Events) /\ Range(queue) \subseteq Range(queue')
          /\ Range(queue') \subseteq Range(queue) \cup {e, Overflow}
      BY Zenon, <2>2, <2>3, <2>4, EnqueueFacts
    <2>6. EventTypes'
      BY Zenon, <1>0, <2>5 DEF TrackInv, EventTypes
    <2>7. Overflow.mask # "DELETE_SELF"
      BY Zenon DEF Overflow, Event
    <2>8. /\ Pending \subseteq Pending'
          /\ \A x \in Pending' : x.mask = "DELETE_SELF" => x \in Pending
      BY Zenon, <1>0, <2>2, <2>5, <2>7 DEF Pending
    <2>9. ToldInv'
      BY Zenon, <1>0, <2>8, ToldKept DEF TrackInv
    <2> QED BY Zenon, <1>1, <2>6, <2>9
  <1> QED BY Zenon, <1>2, <1>3

\* mkdir takes the smallest inode that is free.
LEMMA LeastInode ==
  ASSUME NEW S \in SUBSET Inodes, S # {}
  PROVE  \E d \in S : \A e \in S : d <= e
  <1>1. S \subseteq Nat
    BY DtreeAssumption DEF Inodes
  <1>2. PICK n \in S : \A m \in S : ~(<<m, n>> \in OpToRel(<, Nat))
    BY <1>1, NatLessThanWellFounded, WFMin, Zenon
  <1>3. ASSUME NEW m \in S, m < n
        PROVE  FALSE
    <2>1. m \in Nat /\ n \in Nat
      BY Zenon, <1>1
    <2>2. <<m, n>> \in OpToRel(<, Nat)
      BY ZenonT(60), <1>3, <2>1 DEF OpToRel
    <2> QED BY Zenon, <1>2, <2>2
  <1>4. \A m \in S : n <= m
    BY <1>1, <1>3
  <1> QED BY Zenon, <1>4

\* A directory is made: watches and cache stay, and an event is to be queued.
LEMMA MkdirInv ==
  ASSUME TrackInv, NEW m \in Mutators, Mkdir(m)
  PROVE  TrackInv'
  <1>1. PICK p \in DOMAIN place \cup {Top}, n \in Names :
          /\ DOMAIN place # Inodes
          /\ place' = With(place, CHOOSE d \in Inodes \ DOMAIN place :
                                     \A e \in Inodes \ DOMAIN place : d <= e,
                           [parent |-> p, name |-> n])
          /\ queue' = Posted(p, "CREATE", n, 0)
    BY Zenon DEF Mkdir
  <1>2. ops' = ops - 1 /\ UNCHANGED <<emit, watch, nextWd, program>>
    BY Zenon DEF Mkdir
  <1> DEFINE S == Inodes \ DOMAIN place
             d == CHOOSE x \in S : \A e \in S : x <= e
  <1>3. d \in Inodes
    <2>1. S # {} /\ S \in SUBSET Inodes
      BY Zenon, <1>1 DEF TrackInv, TreeTypes
    <2> HIDE DEF S
    <2>2. \E x \in S : \A e \in S : x <= e
      BY Zenon, <2>1, LeastInode
    <2>3. d \in S
      BY Zenon, <2>2
    <2> QED BY Zenon, <2>1, <2>3
  <1>4. place' = With(place, d, [parent |-> p, name |-> n])
    BY Zenon, <1>1
  <1> HIDE DEF d
  <1>5. TreeTypes'
    <2>1. p \in Dirs
      BY Zenon, <1>1 DEF TrackInv, TreeTypes, Dirs
    <2>2. DOMAIN place' = DOMAIN place \cup {d}
      BY Zenon, <1>4 DEF With
    <2>3. \A z \in DOMAIN place' : place'[z] \in [parent : Dirs, name : Names]
      BY <1>1, <1>4, <2>1, <2>2 DEF With, TrackInv, TreeTypes
    <2>4. place' = [z \in DOMAIN place' |-> place'[z]]
      BY Zenon, <1>4, <2>2 DEF With
    <2>5. place' \in [DOMAIN place' -> [parent : Dirs, name : Names]]
      BY Zenon, <2>3, <2>4
    <2> QED BY <1>2, <1>3, <2>2, <2>5 DEF TrackInv, TreeTypes
  <1>6. "CREATE" \in Masks \ {"DELETE_SELF"} /\ n \in EvNames /\ 0 \in Int
    BY <1>1 DEF Masks, EvNames
  <1> QED BY Zenon, <1>1, <1>2, <1>5, <1>6, PostedFacts DEF TrackInv

\* rmdir: the watch of the directory goes, and its end is queued or lost to an
\* overflow.
LEMMA RmdirInv ==
  ASSUME TrackInv, NEW m \in Mutators, Rmdir(m)
  PROVE  TrackInv'
  <1>1. PICK d \in DOMAIN place :
          /\ place' = Without(place, {d})
          /\ watch' = Without(watch, WatchOf(d))
          /\ queue' = IF WatchOf(d) = {} THEN queue
                      ELSE LET w == CHOOSE w \in WatchOf(d) : TRUE
                           IN  Enqueue(Enqueue(queue, Event(w, "DELETE_SELF", NoName, 0)),
                                       Event(w, "IGNORED", NoName, 0))
    BY Zenon DEF Rmdir
  <1>2. ops' = ops - 1 /\ UNCHANGED <<emit, nextWd, pc, job, cache, buf>>
    BY Zenon DEF Rmdir, program
  <1>3. TreeTypes'
    <2>1. /\ DOMAIN place' \subseteq DOMAIN place
          /\ place' = [z \in DOMAIN place' |-> place'[z]]
          /\ \A z \in DOMAIN place' : place'[z] = place[z]
      BY Zenon, <1>1 DEF Without
    <2>2. place' \in [DOMAIN place' -> [parent : Dirs, name : Names]]
      BY Zenon, <2>1 DEF TrackInv, TreeTypes
    <2> QED BY <1>2, <2>1, <2>2 DEF TrackInv, TreeTypes
  <1>4. /\ DOMAIN watch' = DOMAIN watch \ WatchOf(d)
        /\ \A w \in DOMAIN watch' : watch'[w] = watch[w]
    BY Zenon, <1>1 DEF Without
  <1>5. WatchInv'
    BY Zenon, <1>2, <1>4 DEF TrackInv, WatchInv
  <1>6. BufInv'
    BY Zenon, <1>2 DEF TrackInv, BufInv
  <1>7. CASE WatchOf(d) = {}
    <2>1. queue' = queue /\ DOMAIN watch' = DOMAIN watch
      BY Zenon, <1>1, <1>4, <1>7
    <2>2. Pending' = Pending
      BY Zenon, <1>2, <2>1 DEF Pending
    <2>3. EventTypes' /\ ToldInv'
      BY Zenon, <1>2, <2>1, <2>2 DEF TrackInv, EventTypes, ToldInv
    <2> QED BY Zenon, <1>3, <1>5, <1>6, <2>3 DEF TrackInv
  <1>8. CASE WatchOf(d) # {}
    <2> DEFINE w == CHOOSE x \in WatchOf(d) : TRUE
               e1 == Event(w, "DELETE_SELF", NoName, 0)
               e2 == Event(w, "IGNORED", NoName, 0)
               q1 == Enqueue(queue, e1)
    <2>1. w \in WatchOf(d)
      BY Zenon, <1>8
    <2>2. w \in Int /\ w < nextWd /\ WatchOf(d) = {w}
      BY Zenon, <2>1 DEF TrackInv, WatchInv, WatchOf
    <2>3. queue' = Enqueue(q1, e2)
      BY Zenon, <1>1, <1>8
    <2> HIDE DEF w
    <2>4. /\ e1 \in Events /\ e1.mask = "DELETE_SELF" /\ e1.wd = w
          /\ e2 \in Events /\ e2.mask = "IGNORED"
      BY <2>2 DEF Event, Events, Masks, EvNames
    <2>5. queue \in Seq(Events) /\ buf \in Seq(Events)
      BY Zenon DEF TrackInv, EventTypes
    <2> HIDE DEF e1, e2
    <2>6. /\ q1 \in Seq(Events) /\ Range(queue) \subseteq Range(q1)
          /\ Range(q1) \subseteq Range(queue) \cup {e1, Overflow}
          /\ e1 \in Range(q1) \/ Overflow \in Range(q1)
      BY Zenon, <2>4, <2>5, EnqueueFacts
    <2> HIDE DEF q1
    <2>7. /\ queue' \in Seq(Events) /\ Range(q1) \subseteq Range(queue')
          /\ Range(queue') \subseteq Range(q1) \cup {e2, Overflow}
      BY Zenon, <2>3, <2>4, <2>6, EnqueueFacts
    <2>8. EventTypes'
      BY Zenon, <1>2, <2>5, <2>7 DEF EventTypes
    <2>9. Overflow.mask # "DELETE_SELF"
      BY Zenon DEF Overflow, Event
    <2>10. /\ Pending \subseteq Pending'
           /\ \A e \in Pending' : e.mask = "DELETE_SELF" => e \in Pending \/ e = e1
           /\ e1 \in Pending' \/ Overflow \in Pending'
      BY Zenon, <1>2, <2>4, <2>6, <2>7, <2>9 DEF Pending
    <2>11. ToldInv'
      <3>1. DOMAIN watch' = DOMAIN watch \ {w}
        BY Zenon, <1>4, <2>2
      <3>2. DOMAIN watch' \subseteq DOMAIN cache'
        BY Zenon, <1>2, <3>1 DEF TrackInv, ToldInv
      <3>3. ASSUME NEW v \in DOMAIN cache' \ DOMAIN watch'
            PROVE  \E e \in Pending' : IsDeath(e, v) \/ e = Overflow
        <4>1. CASE v = w
          BY Zenon, <2>4, <2>10, <4>1 DEF IsDeath
        <4>2. CASE v # w
          <5>1. v \in DOMAIN cache \ DOMAIN watch
            BY Zenon, <1>2, <3>1, <3>3, <4>2
          <5> QED BY Zenon, <2>10, <5>1 DEF TrackInv, ToldInv
        <4> QED BY Zenon, <4>1, <4>2
      <3>4. \A e \in Pending' :
               e.mask = "DELETE_SELF" => e.wd < nextWd' /\ e.wd \notin DOMAIN watch'
        BY Zenon, <1>2, <2>2, <2>4, <2>10, <3>1 DEF TrackInv, ToldInv
      <3> QED BY Zenon, <3>2, <3>3, <3>4 DEF ToldInv, IsDeath
    <2> QED BY Zenon, <1>3, <1>5, <1>6, <2>8, <2>11 DEF TrackInv
  <1> QED BY Zenon, <1>7, <1>8

\* A directory is renamed: watches and cache stay, two events are to be queued.
LEMMA RenameInv ==
  ASSUME TrackInv, NEW m \in Mutators, Rename(m)
  PROVE  TrackInv'
  <1>1. PICK d \in DOMAIN place, p \in DOMAIN place \cup {Top}, n \in Names :
          /\ place' = [place EXCEPT ![d] = [parent |-> p, name |-> n]]
          /\ emit' = [emit EXCEPT ![m] =
                       << [dir |-> place[d].parent, mask |-> "MOVED_FROM",
                           name |-> place[d].name, cookie |-> ops],
                          [dir |-> p, mask |-> "MOVED_TO",
                           name |-> n, cookie |-> ops],
                          [dir |-> d, mask |-> "MOVE_SELF",
                           name |-> NoName, cookie |-> 0] >>]
    BY Zenon DEF Rename
  <1>2. ops' = ops - 1 /\ UNCHANGED <<watch, nextWd, queue, pc, job, cache, buf>>
    BY Zenon DEF Rename, kernel, program
  <1>3. p \in Dirs /\ d \in Dirs /\ place[d].parent \in Dirs /\ place[d].name \in Names
    BY Zenon, <1>1 DEF TrackInv, TreeTypes, Dirs
  <1>4. place' \in [DOMAIN place' -> [parent : Dirs, name : Names]] /\ DOMAIN place' = DOMAIN place
    BY Zenon, <1>1, <1>3 DEF TrackInv, TreeTypes
  <1> DEFINE a == [dir |-> place[d].parent, mask |-> "MOVED_FROM",
                   name |-> place[d].name, cookie |-> ops]
             b == [dir |-> p, mask |-> "MOVED_TO", name |-> n, cookie |-> ops]
             c == [dir |-> d, mask |-> "MOVE_SELF", name |-> NoName, cookie |-> 0]
  <1>5. a \in Notes /\ b \in Notes /\ c \in Notes
    BY <1>1, <1>3 DEF TrackInv, TreeTypes, Notes, MoveMasks, EvNames
  <1>6. emit' = [emit EXCEPT ![m] = <<a, b, c>>]
    BY Zenon, <1>1
  <1> HIDE DEF a, b, c
  <1>7. emit' \in [Mutators -> Seq(Notes)]
    BY <1>5, <1>6 DEF TrackInv, TreeTypes
  <1>8. TreeTypes'
    BY <1>2, <1>4, <1>7 DEF TrackInv, TreeTypes
  <1>9. EventTypes' /\ WatchInv' /\ ToldInv' /\ BufInv'
    BY Zenon, <1>2 DEF TrackInv, EventTypes, WatchInv, ToldInv, Pending, BufInv
  <1> QED BY Zenon, <1>8, <1>9 DEF TrackInv

\* The kernel queues an event, or the overflow event when the queue is full.
LEMMA NotifyInv ==
  ASSUME TrackInv, NEW m \in Mutators, Notify(m)
  PROVE  TrackInv'
  <1> DEFINE e == Head(emit[m])
  <1>1. /\ emit[m] # << >>
        /\ queue' = IF Wanted(e) THEN Posted(e.dir, e.mask, e.name, e.cookie) ELSE queue
        /\ emit' = [emit EXCEPT ![m] = Tail(emit[m])]
        /\ UNCHANGED <<place, ops, watch, nextWd, program>>
    BY Zenon DEF Notify
  <1>2. emit[m] \in Seq(Notes) /\ e \in Notes /\ Tail(emit[m]) \in Seq(Notes)
    BY <1>1 DEF TrackInv, TreeTypes
  <1>3. TreeTypes'
    BY Zenon, <1>1, <1>2 DEF TrackInv, TreeTypes
  <1>4. /\ e.mask \in Masks \ {"DELETE_SELF"}
        /\ e.name \in EvNames /\ e.cookie \in Int
    BY Zenon, <1>2 DEF Notes, Masks, MoveMasks
  <1> HIDE DEF e
  <1>5. CASE Wanted(e)
    <2>1. queue' = Posted(e.dir, e.mask, e.name, e.cookie)
      BY Zenon, <1>1, <1>5
    <2>2. EventTypes' /\ WatchInv' /\ ToldInv' /\ BufInv'
      BY Zenon, <1>1, <1>4, <2>1, PostedFacts
    <2> QED BY Zenon, <1>3, <2>2 DEF TrackInv
  <1>6. CASE ~Wanted(e)
    <2>1. queue' = queue /\ UNCHANGED <<watch, nextWd, pc, job, cache, buf>>
      BY Zenon, <1>1, <1>6 DEF program
    <2>2. EventTypes' /\ WatchInv' /\ ToldInv' /\ BufInv'
      BY Zenon, <2>1 DEF TrackInv, EventTypes, WatchInv, ToldInv, Pending, BufInv
    <2> QED BY Zenon, <1>3, <2>2 DEF TrackInv
  <1> QED BY Zenon, <1>5, <1>6

-----------------------------------------------------------------------------
(* The program's steps.                                                    *)

\* inotify_add_watch: the directory gets a wd that no announced end names, and
\* the cache an entry for it.
LEMMA VisitInv ==
  ASSUME TrackInv, Visit
  PROVE  TrackInv'
  <1>1. UNCHANGED <<place, emit, ops, queue, pc, job, buf>>
    BY Zenon DEF Visit, tree
  <1>2. TreeTypes' /\ EventTypes' /\ BufInv' /\ Pending' = Pending
    BY Zenon, <1>1 DEF TrackInv, TreeTypes, EventTypes, BufInv, Pending
  <1>3. CASE UNCHANGED <<watch, nextWd, cache>>
    <2>1. WatchInv' /\ ToldInv'
      BY Zenon, <1>2, <1>3 DEF TrackInv, WatchInv, ToldInv
    <2> QED BY Zenon, <1>2, <2>1 DEF TrackInv
  <1>4. CASE \E d \in At(walkPath) : TraverseTree(walkPath, d)
    <2>1. PICK d, path : TraverseTree(path, d)
      BY Zenon, <1>4
    <2> DEFINE w == IF WatchOf(d) = {} THEN nextWd ELSE CHOOSE x \in WatchOf(d) : TRUE
    <2>2. /\ watch' = With(watch, w, [dir |-> d, self |-> IsRoot(path)])
          /\ nextWd' = IF w = nextWd THEN nextWd + 1 ELSE nextWd
          /\ cache' = IF w \in DOMAIN cache THEN cache ELSE With(cache, w, path)
      BY Zenon, <2>1 DEF TraverseTree
    <2>3. \/ WatchOf(d) = {} /\ w = nextWd
          \/ w \in WatchOf(d)
      BY Zenon
    <2> HIDE DEF w
    <2>4. /\ DOMAIN watch' = DOMAIN watch \cup {w} /\ watch'[w].dir = d
          /\ \A v \in DOMAIN watch : v # w => watch'[v] = watch[v]
      BY Zenon, <2>2 DEF With
    <2>5. DOMAIN cache' = DOMAIN cache \cup {w}
      BY Zenon, <2>2 DEF With
    <2>6. nextWd \in Nat /\ w \in Int /\ w < nextWd' /\ nextWd' \in Nat /\ nextWd <= nextWd'
      BY <2>2, <2>3 DEF TrackInv, WatchInv, WatchOf
    <2>7. WatchInv'
      <3>1. \A v \in DOMAIN watch' : v \in Int /\ v < nextWd'
        BY <2>4, <2>6 DEF TrackInv, WatchInv
      <3>2. ASSUME NEW v \in DOMAIN watch, v # w
            PROVE  watch[v].dir # d
        BY Zenon, <2>3, <3>2 DEF TrackInv, WatchInv, WatchOf
      <3>3. ASSUME NEW u \in DOMAIN watch', NEW v \in DOMAIN watch', watch'[u].dir = watch'[v].dir
            PROVE  u = v
        <4>1. CASE u = w \/ v = w
          BY Zenon, <2>4, <3>2, <3>3, <4>1
        <4>2. CASE u # w /\ v # w
          BY Zenon, <2>4, <3>3, <4>2 DEF TrackInv, WatchInv
        <4> QED BY Zenon, <4>1, <4>2
      <3> QED BY Zenon, <2>6, <3>1, <3>3 DEF WatchInv
    <2>8. ToldInv'
      <3>1. DOMAIN watch' \subseteq DOMAIN cache'
        BY Zenon, <2>4, <2>5 DEF TrackInv, ToldInv
      <3>2. \A v \in DOMAIN cache' \ DOMAIN watch' :
               \E e \in Pending' : IsDeath(e, v) \/ e = Overflow
        BY Zenon, <1>2, <2>4, <2>5 DEF TrackInv, ToldInv
      <3>3. ASSUME NEW e \in Pending', e.mask = "DELETE_SELF"
            PROVE  e.wd < nextWd' /\ e.wd \notin DOMAIN watch'
        <4>1. e.wd < nextWd /\ e.wd \notin DOMAIN watch /\ e \in Events
          BY Zenon, <1>2, <3>3, RangeOfSeq DEF TrackInv, ToldInv, Pending, EventTypes
        <4>2. e.wd \in Int
          BY Zenon, <4>1 DEF Events
        <4>3. e.wd # w
          BY <2>3, <2>6, <4>1, <4>2 DEF WatchOf
        <4> QED BY <2>4, <2>6, <4>1, <4>2, <4>3
      <3> QED BY Zenon, <3>1, <3>2, <3>3 DEF ToldInv, IsDeath
    <2> QED BY Zenon, <1>2, <2>7, <2>8 DEF TrackInv
  <1> QED BY Zenon, <1>3, <1>4 DEF Visit

\* inotify_rm_watch: the watch and its entry go together.
LEMMA ZapOneInv ==
  ASSUME TrackInv, ZapOne
  PROVE  TrackInv'
  <1>1. PICK w \in Matching \cap DOMAIN watch :
          /\ watch' = Without(watch, {w})
          /\ queue' = Enqueue(queue, Event(w, "IGNORED", NoName, 0))
          /\ cache' = Without(cache, {w})
    BY Zenon DEF ZapOne
  <1>2. UNCHANGED <<place, emit, ops, nextWd, pc, job, buf>>
    BY Zenon DEF ZapOne, tree
  <1>3. TreeTypes' /\ BufInv'
    BY Zenon, <1>2 DEF TrackInv, TreeTypes, BufInv
  <1>4. /\ DOMAIN watch' = DOMAIN watch \ {w} /\ DOMAIN cache' = DOMAIN cache \ {w}
        /\ \A v \in DOMAIN watch' : watch'[v] = watch[v]
    BY Zenon, <1>1 DEF Without
  <1>5. WatchInv'
    BY Zenon, <1>2, <1>4 DEF TrackInv, WatchInv
  <1> DEFINE e1 == Event(w, "IGNORED", NoName, 0)
  <1>6. e1 \in Events /\ e1.mask = "IGNORED"
    BY <1>1 DEF TrackInv, WatchInv, Event, Events, Masks, EvNames
  <1>7. queue \in Seq(Events) /\ buf \in Seq(Events)
    BY Zenon DEF TrackInv, EventTypes
  <1>8. queue' = Enqueue(queue, e1)
    BY Zenon, <1>1
  <1> HIDE DEF e1
  <1>9. /\ queue' \in Seq(Events) /\ Range(queue) \subseteq Range(queue')
        /\ Range(queue') \subseteq Range(queue) \cup {e1, Overflow}
    BY Zenon, <1>6, <1>7, <1>8, EnqueueFacts
  <1>10. EventTypes'
    BY Zenon, <1>2, <1>7, <1>9 DEF EventTypes
  <1>11. Overflow.mask # "DELETE_SELF"
    BY Zenon DEF Overflow, Event
  <1>12. /\ Pending \subseteq Pending'
         /\ \A e \in Pending' : e.mask = "DELETE_SELF" => e \in Pending
    BY Zenon, <1>2, <1>6, <1>9, <1>11 DEF Pending
  <1>13. ToldInv'
    <2>1. DOMAIN watch' \subseteq DOMAIN cache'
      BY Zenon, <1>4 DEF TrackInv, ToldInv
    <2>2. \A v \in DOMAIN cache' \ DOMAIN watch' :
             \E e \in Pending' : IsDeath(e, v) \/ e = Overflow
      BY Zenon, <1>4, <1>12 DEF TrackInv, ToldInv
    <2>3. \A e \in Pending' :
             e.mask = "DELETE_SELF" => e.wd < nextWd' /\ e.wd \notin DOMAIN watch'
      BY Zenon, <1>2, <1>4, <1>12 DEF TrackInv, ToldInv
    <2> QED BY Zenon, <2>1, <2>2, <2>3 DEF ToldInv, IsDeath
  <1> QED BY Zenon, <1>3, <1>5, <1>10, <1>13 DEF TrackInv

\* Steps that leave the tree, the kernel, the cache and the buffer alone.
LEMMA QuietInv ==
  ASSUME TrackInv, UNCHANGED <<place, emit, ops, watch, nextWd, queue, cache, buf>>,
         BufInv'
  PROVE  TrackInv'
  BY Zenon DEF TrackInv, TreeTypes, EventTypes, WatchInv, ToldInv, Pending

\* The cache is zapped and the tree walked again.
LEMMA WalkZapInv ==
  ASSUME TrackInv, StatDir \/ OpenDir \/ List \/ WalkEnds \/ ZapFails \/ ZapEnds
  PROVE  TrackInv'
  <1>0. UNCHANGED <<place, emit, ops>>
    BY Zenon DEF StatDir, OpenDir, List, WalkEnds, ZapFails, ZapEnds, tree
  <1>1. CASE StatDir \/ OpenDir \/ List
    <2>1. UNCHANGED <<watch, nextWd, queue, pc, job, cache, buf>>
      BY Zenon, <1>1 DEF StatDir, OpenDir, List, kernel
    <2>2. BufInv'
      BY Zenon, <2>1 DEF TrackInv, BufInv
    <2> QED BY Zenon, <1>0, <2>1, <2>2, QuietInv
  <1>2. CASE WalkEnds
    <2>1. /\ UNCHANGED <<watch, nextWd, queue, cache, buf>>
          /\ pc' = Resume /\ job' = IF pc' = "read" THEN job ELSE "event"
      BY Zenon, <1>2 DEF WalkEnds, kernel
    <2>2. BufInv'
      BY Zenon, <2>1 DEF TrackInv, BufInv, Resume
    <2> QED BY Zenon, <1>0, <2>1, <2>2, QuietInv
  <1>3. ASSUME ZapDone, UNCHANGED <<job, buf>>
        PROVE  BufInv'
    <2>1. pc' = "walk" \/ pc' = Resume
      BY Zenon, <1>3 DEF ZapDone
    <2> QED BY Zenon, <1>3, <2>1 DEF TrackInv, BufInv, Resume
  <1>4. CASE ZapFails
    <2>1. CASE Reinitialize
      <3>1. TreeTypes'
        BY Zenon, <1>0 DEF TrackInv, TreeTypes
      <3> QED BY Zenon, <2>1, <3>1, ReinitInv DEF TrackInv
    <2>2. CASE ZapDone /\ UNCHANGED <<kernel, cache, buf>>
      <3>1. UNCHANGED <<watch, nextWd, queue, cache, buf, job>>
        BY Zenon, <1>4, <2>2 DEF ZapFails, kernel
      <3> QED BY Zenon, <1>0, <1>3, <2>2, <3>1, QuietInv
    <2> QED BY Zenon, <1>4, <2>1, <2>2 DEF ZapFails
  <1>5. CASE ZapEnds
    <2>1. ZapDone /\ UNCHANGED <<watch, nextWd, queue, cache, buf, job>>
      BY Zenon, <1>5 DEF ZapEnds, kernel
    <2> QED BY Zenon, <1>0, <1>3, <2>1, QuietInv
  <1> QED BY Zenon, <1>1, <1>2, <1>4, <1>5

\* The end of a directory is processed: no watch is lost with its entry, and no
\* other entry relied on the event.
LEMMA DeleteSelfInv ==
  ASSUME TrackInv, DeleteSelf
  PROVE  TrackInv'
  <1>1. /\ pc = "next" /\ ev.mask = "DELETE_SELF" /\ Consume(1)
        /\ cache' = Without(cache, {ev.wd})
        /\ UNCHANGED <<place, emit, ops, watch, nextWd, queue, job>>
        /\ pc' = "exited" \/ AtNext
    BY Zenon DEF DeleteSelf, Next1, tree, kernel
  <1>2. buf \in Seq(Events) /\ buf # << >> /\ 1 <= Len(buf) /\ ev = buf[1] /\ job = "event"
    BY <1>1 DEF TrackInv, EventTypes, BufInv, ev
  <1>3. /\ buf' \in Seq(Events)
        /\ Range(buf') \subseteq Range(buf)
        /\ \A e \in Range(buf) : e \in Range(buf') \/ \E i \in 1 .. 1 : e = buf[i]
    <2>1. 1 \in {1, 2} /\ EventTypes
      BY Zenon DEF TrackInv
    <2> QED BY Zenon, <1>1, <1>2, <2>1, ConsumeFacts
  <1>4. TreeTypes' /\ EventTypes' /\ WatchInv'
    BY Zenon, <1>1, <1>3 DEF TrackInv, TreeTypes, EventTypes, WatchInv
  <1>5. BufInv'
    BY Zenon, <1>1, <1>2 DEF BufInv, AtNext
  <1>6. /\ Pending' \subseteq Pending
        /\ \A e \in Pending : e \in Pending' \/ e = ev
        /\ ev \in Pending
    <2>1. ev \in Range(buf)
      BY <1>2 DEF Range
    <2>2. \A e \in Range(buf) : e \in Range(buf') \/ e = ev
      BY <1>2, <1>3
    <2> QED BY Zenon, <1>1, <1>3, <2>1, <2>2 DEF Pending
  <1>7. DOMAIN cache' = DOMAIN cache \ {ev.wd}
    BY Zenon, <1>1 DEF Without
  <1>8. ev.wd \notin DOMAIN watch
    BY Zenon, <1>1, <1>6 DEF TrackInv, ToldInv
  <1>9. ToldInv'
    <2>1. DOMAIN watch' \subseteq DOMAIN cache'
      BY Zenon, <1>1, <1>7, <1>8 DEF TrackInv, ToldInv
    <2>2. ASSUME NEW w \in DOMAIN cache' \ DOMAIN watch'
          PROVE  \E e \in Pending' : IsDeath(e, w) \/ e = Overflow
      <3>1. PICK e \in Pending : IsDeath(e, w) \/ e = Overflow
        BY Zenon, <1>1, <1>7, <2>2 DEF TrackInv, ToldInv
      <3>2. Overflow.mask = "Q_OVERFLOW"
        BY Zenon DEF Overflow, Event
      <3>3. e # ev
        BY Zenon, <1>1, <1>7, <2>2, <3>1, <3>2 DEF IsDeath
      <3> QED BY Zenon, <1>6, <3>1, <3>3
    <2>3. \A e \in Pending' :
             e.mask = "DELETE_SELF" => e.wd < nextWd' /\ e.wd \notin DOMAIN watch'
      BY Zenon, <1>1, <1>6 DEF TrackInv, ToldInv
    <2> QED BY Zenon, <2>1, <2>2, <2>3 DEF ToldInv, IsDeath
  <1> QED BY Zenon, <1>4, <1>5, <1>9 DEF TrackInv

\* Every other event.
LEMMA ProcessNextInv ==
  ASSUME TrackInv, ProcessNext
  PROVE  TrackInv'
  <1>0. pc = "next" /\ UNCHANGED <<place, emit, ops, job>>
    BY Zenon DEF ProcessNext, UnknownWatch, NewDirectory, DeleteSelf, MovedWithin, MovedOut,
           Hanging, QueueOverflow, RootMoved, NothingToDo, Next1, tree
  <1>1. TreeTypes'
    BY Zenon, <1>0 DEF TrackInv, TreeTypes
  <1>2. buf \in Seq(Events) /\ 1 <= Len(buf) /\ ev = buf[1] /\ Len(buf) \in Nat
    BY <1>0 DEF TrackInv, EventTypes, BufInv, ev
  <1>3. ASSUME Consume(1), UNCHANGED kernel, UNCHANGED cache,
               ev.mask \notin {"DELETE_SELF", "Q_OVERFLOW"},
               AtNext \/ pc' \in {"walk", "zap", "exited"}
        PROVE  TrackInv'
    <2>1. 1 \in {1, 2} /\ \A i \in 1 .. 1 : buf[i].mask \notin {"DELETE_SELF", "Q_OVERFLOW"}
      BY <1>2, <1>3
    <2>2. DOMAIN cache' = DOMAIN cache
      BY Zenon, <1>3
    <2>3. EventTypes' /\ WatchInv' /\ ToldInv' /\ BufInv'
      BY Zenon, <1>0, <1>2, <1>3, <2>1, <2>2, ConsumeInv
    <2> QED BY Zenon, <1>1, <2>3 DEF TrackInv
  <1>4. CASE UnknownWatch \/ QueueOverflow
    <2>1. Reinitialize
      BY Zenon, <1>4 DEF UnknownWatch, QueueOverflow
    <2> QED BY Zenon, <1>1, <2>1, ReinitInv DEF TrackInv
  <1>5. CASE NewDirectory
    BY Zenon, <1>3, <1>5 DEF NewDirectory
  <1>6. CASE DeleteSelf
    BY Zenon, <1>6, DeleteSelfInv
  <1>7. CASE MovedWithin
    <2>1. CASE Reinitialize
      BY Zenon, <1>1, <2>1, ReinitInv DEF TrackInv
    <2>2. CASE ~Reinitialize
      <3>1. /\ ev.mask = "MOVED_FROM" /\ Paired
            /\ \E old, new : cache' = RewriteCachedPaths(old, new)
            /\ Consume(2) /\ AtNext /\ UNCHANGED kernel
        BY Zenon, <1>7, <2>2 DEF MovedWithin
      <3>2. 2 <= Len(buf) /\ buf[2].mask = "MOVED_TO"
        BY <1>2, <3>1 DEF Paired
      <3>3. 2 \in {1, 2} /\ \A i \in 1 .. 2 : buf[i].mask \notin {"DELETE_SELF", "Q_OVERFLOW"}
        BY <1>2, <3>1, <3>2
      <3>4. DOMAIN cache' = DOMAIN cache
        BY Zenon, <3>1 DEF RewriteCachedPaths
      <3>5. EventTypes' /\ WatchInv' /\ ToldInv' /\ BufInv'
        BY Zenon, <1>0, <3>1, <3>2, <3>3, <3>4, ConsumeInv
      <3> QED BY Zenon, <1>1, <3>5 DEF TrackInv
    <2> QED BY Zenon, <2>1, <2>2
  <1>8. CASE MovedOut
    BY Zenon, <1>3, <1>8 DEF MovedOut
  <1>9. CASE Hanging
    <2>1. pc' = "hang" /\ UNCHANGED <<watch, nextWd, queue, cache, buf>>
      BY Zenon, <1>9 DEF Hanging, kernel
    <2>2. BufInv'
      BY Zenon, <1>0, <2>1 DEF TrackInv, BufInv
    <2> QED BY Zenon, <1>0, <2>1, <2>2, QuietInv
  <1>10. CASE RootMoved
    BY Zenon, <1>3, <1>10 DEF RootMoved
  <1>11. CASE NothingToDo
    BY Zenon, <1>3, <1>11 DEF NothingToDo
  <1> QED BY Zenon, <1>4, <1>5, <1>6, <1>7, <1>8, <1>9, <1>10, <1>11 DEF ProcessNext

\* A read moves events from the queue to the buffer and drops none.
LEMMA ReadInv ==
  ASSUME TrackInv, Read \/ ReadMore
  PROVE  TrackInv'
  <1>0. UNCHANGED <<place, emit, ops, watch, nextWd, cache>>
    BY Zenon DEF Read, ReadMore, tree
  <1>1. queue \in Seq(Events) /\ buf \in Seq(Events) /\ queue # << >> /\ Len(queue) \in Nat
        /\ DOMAIN queue = 1 .. Len(queue) /\ Len(queue) > 0
    BY DEF TrackInv, EventTypes, Read, ReadMore
  <1>2. /\ queue' \in Seq(Events) /\ buf' \in Seq(Events) /\ Pending' = Pending
        /\ BufInv'
    <2>1. CASE Read
      <3> DEFINE n == IF Len(queue) < ReadMax THEN Len(queue) ELSE ReadMax
      <3>1. /\ buf' = SubSeq(queue, 1, n) /\ queue' = SubSeq(queue, n + 1, Len(queue))
            /\ pc = "read" /\ pc' = "next" /\ job' = "event"
        BY Zenon, <2>1 DEF Read
      <3>2. n \in Nat /\ 1 <= n /\ n <= Len(queue)
        BY <1>1, DtreeAssumption
      <3> HIDE DEF n
      <3>3. queue = buf' \o queue' /\ buf' \in Seq(Events) /\ queue' \in Seq(Events)
        <4>1. \A i \in 1 .. Len(queue) : queue[i] \in Events
          BY <1>1
        <4>2. /\ n \in Int /\ n + 1 \in Int /\ Len(queue) \in Int
              /\ \A i \in 1 .. n : i \in 1 .. Len(queue)
              /\ \A i \in n + 1 .. Len(queue) : i \in 1 .. Len(queue)
          BY <1>1, <3>2
        <4>3. buf' \in Seq(Events)
          BY <3>1, <4>1, <4>2, SubSeqProperties
        <4>4. queue' \in Seq(Events)
          BY Zenon, <3>1, <4>1, <4>2, SubSeqProperties
        <4>5. /\ 1 \in 1 .. Len(queue) + 1 /\ n \in 1 - 1 .. Len(queue)
              /\ Len(queue) \in n .. Len(queue)
          BY <1>1, <3>2
        <4>6. SubSeq(queue, 1, n) \o SubSeq(queue, n + 1, Len(queue)) = SubSeq(queue, 1, Len(queue))
          BY <1>1, <4>5, ConcatAdjacentSubSeq, Zenon
        <4>7. SubSeq(queue, 1, Len(queue)) = queue
          BY Zenon, <1>1, SubSeqFull
        <4> QED BY Zenon, <3>1, <4>3, <4>4, <4>6, <4>7
      <3>4. Len(buf') = n
        BY <1>1, <3>1, <3>2
      <3>5. Range(queue) = Range(buf') \cup Range(queue')
        BY <3>3, RangeConcatenation
      <3>6. buf = << >>
        BY Zenon, <3>1 DEF TrackInv, BufInv
      <3>7. Pending' = Pending
        <4>1. Range(buf) = {}
          BY <3>6 DEF Range
        <4> QED BY Zenon, <3>5, <4>1 DEF Pending
      <3>8. buf' # << >>
        BY <3>2, <3>4
      <3>9. BufInv'
        BY Zenon, <3>1, <3>8 DEF BufInv
      <3> QED BY Zenon, <3>3, <3>7, <3>9
    <2>2. CASE ReadMore
      <3>1. buf' = buf \o queue /\ queue' = << >> /\ pc = "hang" /\ pc' = "next" /\ job' = job
        BY Zenon, <2>2 DEF ReadMore
      <3>2. Range(buf') = Range(buf) \cup Range(queue)
        BY <1>1, <3>1, RangeConcatenation
      <3>3. Pending' = Pending
        <4>1. Range(queue') = {}
          BY <3>1 DEF Range
        <4> QED BY Zenon, <3>2, <4>1 DEF Pending
      <3>4. buf' \in Seq(Events) /\ queue' \in Seq(Events) /\ buf' # << >>
        BY <1>1, <3>1
      <3>5. job = "event"
        BY Zenon, <3>1 DEF TrackInv, BufInv
      <3>6. BufInv'
        BY Zenon, <3>1, <3>4, <3>5 DEF BufInv
      <3> QED BY Zenon, <3>3, <3>4, <3>6
    <2> QED BY Zenon, <2>1, <2>2
  <1>3. TreeTypes' /\ EventTypes' /\ WatchInv' /\ ToldInv'
    BY Zenon, <1>0, <1>2 DEF TrackInv, TreeTypes, EventTypes, WatchInv, ToldInv
  <1> QED BY Zenon, <1>2, <1>3 DEF TrackInv

\* The steps of the main program keep the invariant.
LEMMA MainInv ==
  ASSUME TrackInv, Select \/ TimesOut \/ Command
  PROVE  TrackInv'
  <1>0. UNCHANGED <<place, emit, ops>>
    BY Zenon DEF Select, TimesOut, Command, tree
  <1>1. CASE Select
    <2>1. pc = "select" /\ pc' = "read" /\ UNCHANGED <<watch, nextWd, queue, cache, buf, job>>
      BY Zenon, <1>1 DEF Select, kernel
    <2>2. BufInv'
      BY Zenon, <2>1 DEF TrackInv, BufInv
    <2> QED BY Zenon, <1>0, <2>1, <2>2, QuietInv
  <1>2. CASE TimesOut
    <2>1. pc = "hang" /\ pc' = "next" /\ UNCHANGED <<watch, nextWd, queue, cache, buf, job>>
      BY Zenon, <1>2 DEF TimesOut, kernel
    <2>2. BufInv'
      BY Zenon, <2>1 DEF TrackInv, BufInv
    <2> QED BY Zenon, <1>0, <2>1, <2>2, QuietInv
  <1>3. CASE Command
    <2>1. CASE Reinitialize
      <3>1. TreeTypes'
        BY Zenon, <1>0 DEF TrackInv, TreeTypes
      <3> QED BY Zenon, <2>1, <3>1, ReinitInv DEF TrackInv
    <2>2. CASE ~Reinitialize
      <3>1. /\ pc = "select" /\ pc' \in {"zap", "exited"}
            /\ UNCHANGED <<watch, nextWd, queue, cache, buf>>
        BY Zenon, <1>3, <2>2 DEF Command, kernel
      <3>2. BufInv'
        BY Zenon, <3>1 DEF TrackInv, BufInv
      <3> QED BY Zenon, <1>0, <3>1, <3>2, QuietInv
    <2> QED BY Zenon, <2>1, <2>2
  <1> QED BY Zenon, <1>1, <1>2, <1>3

-----------------------------------------------------------------------------
\* Every step keeps the invariant.
LEMMA TrackStep == TrackInv /\ [Next]_vars => TrackInv'
  <1> SUFFICES ASSUME TrackInv, [Next]_vars PROVE TrackInv'
    BY Zenon
  <1>1. CASE Program
    BY Zenon, <1>1, VisitInv, WalkZapInv, ZapOneInv, ProcessNextInv, MainInv, ReadInv
       DEF Program, Walk, Zap
  <1>2. CASE Command
    BY Zenon, <1>2, MainInv
  <1>3. ASSUME NEW m \in Mutators, Change(m) \/ Notify(m)
        PROVE  TrackInv'
    BY Zenon, <1>3, MkdirInv, RmdirInv, RenameInv, NotifyInv DEF Change
  <1>4. CASE UNCHANGED vars
    <2>1. UNCHANGED <<place, emit, ops, watch, nextWd, queue, cache, buf, pc, job>>
      BY Zenon, <1>4 DEF vars, tree, kernel, program
    <2>2. BufInv'
      BY Zenon, <2>1 DEF TrackInv, BufInv
    <2> QED BY Zenon, <2>1, <2>2, QuietInv
  <1> QED BY Zenon, <1>1, <1>2, <1>3, <1>4 DEF Next

\* The invariant speaks of the events that are pending, Tracked of their places.
LEMMA TrackTracked == TrackInv => Tracked
  <1> SUFFICES ASSUME TrackInv PROVE Tracked
    BY Zenon
  <1>1. Range(buf \o queue) = Pending
    BY RangeConcatenation DEF TrackInv, EventTypes, Pending
  <1>2. ASSUME NEW w \in DOMAIN cache \ DOMAIN watch
        PROVE  DeathTold(w, buf \o queue)
    <2>1. PICK e \in Range(buf \o queue) : IsDeath(e, w) \/ e = Overflow
      BY Zenon, <1>1, <1>2 DEF TrackInv, ToldInv
    <2>2. PICK i \in DOMAIN (buf \o queue) : e = (buf \o queue)[i]
      BY Zenon, <2>1 DEF Range
    <2> QED BY Zenon, <2>1, <2>2 DEF DeathTold, IsDeath
  <1>3. DOMAIN watch \subseteq DOMAIN cache
    BY Zenon DEF TrackInv, ToldInv
  <1> QED BY Zenon, <1>2, <1>3 DEF Tracked

\* inotify_dtree.c loses no watch of the kernel and keeps no dead entry in its
\* cache for good, whatever other processes do to the tree meanwhile, for any
\* trees, number of processes, size of the queue and size of the read buffer.
THEOREM WatchesTracked == Spec => []Tracked
  BY TrackInit, TrackStep, TrackTracked, PTL DEF Spec
=============================================================================
