---------------------------- MODULE CalldProofs ----------------------------
(***************************************************************************)
(* The line locks of the dialer daemon, for any number of clients, lines   *)
(* and entries of the Systems file.  As in Calld, everything is under the  *)
(* proviso that no client is gone before its child.                        *)
(***************************************************************************)
EXTENDS Calld, TLAPS

Kid == [st : {"dialing", "sent", "exit0", "exit1", "killed", "reaped"},
        line : Lines, cli : Clients, name : STRING]

\* An entry of client[]: sysname is what the client asked for, if it did.
Slot == [fd : Clients \cup {NoFd}, pid : Nat, childdone : {0, 1, 2}, sysftell : Nat,
         sysname : {"none"} \cup {Want[c] : c \in Clients}]

Types ==
    /\ cli \in [Clients -> {"new", "connected", "waiting", "answered", "closed"}]
    /\ given \in [Clients -> Lines \cup {NoLine}]
    /\ unread \subseteq Clients /\ listen \subseteq Clients /\ rset \subseteq Clients
    /\ \E n \in Nat : kid \in [1 .. n -> Kid]
    /\ client \in [Slots -> Slot]
    /\ lock \in [Lines -> Nat]
    /\ pc \in {"loop", "child_done", "scan", "enter", "select", "serve", "quit"}
    /\ back \in {"loop", "enter"}
    /\ i \in Nat

Unreaped == {p \in DOMAIN kid : kid[p].st # "reaped"}

\* Entry s is the one of child p.
Serves(s, p) == client[s].pid = p /\ client[s].fd = kid[p].cli

\* The entries of client[]: no child and no client has two, and a client that
\* was accepted does not wait for that.
SlotInv ==
    /\ \A s \in Slots : client[s].pid \in DOMAIN kid \cup {0}
    /\ \A s, t \in Slots : client[s].pid = client[t].pid /\ client[s].pid # 0 => s = t
    /\ \A s, t \in Slots : client[s].fd = client[t].fd /\ client[s].fd # NoFd => s = t
    /\ \A s \in Slots : client[s].fd # NoFd =>
                            client[s].fd \notin listen /\ cli[client[s].fd] # "new"
    /\ \A c \in listen : cli[c] # "new"
    /\ \A c \in unread : cli[c] = "waiting"

\* The children: until it is reaped a child has its entry and its lock, and its
\* client waits for it.
KidInv ==
    /\ \A p \in DOMAIN kid : /\ cli[kid[p].cli] \notin {"new", "connected"}
                             /\ kid[p].cli \notin unread
    /\ \A p \in Unreaped :
          /\ \E s \in Slots : Serves(s, p)
          /\ lock[kid[p].line] = p
          /\ \/ kid[p].st \in {"dialing", "exit1"} /\ cli[kid[p].cli] = "waiting"
             \/ kid[p].st \in {"sent", "exit0"} /\ cli[kid[p].cli] = "answered"

\* An entry whose dialing failed belongs to a client that waits for the retry.
RetryInv ==
    \A s \in Slots : client[s].childdone = 2 =>
        /\ client[s].fd # NoFd /\ cli[client[s].fd] = "waiting"
        /\ client[s].fd \notin unread
        /\ client[s].pid \notin Unreaped

\* The locks: each is a child's, for its line, and belongs to the child's
\* client; a client that was given a line has it locked by its child.
LockInv ==
    /\ \A l \in Lines : lock[l] # 0 =>
          /\ lock[l] \in DOMAIN kid /\ kid[lock[l]].line = l
          /\ \E s \in Slots : Serves(s, lock[l])
    /\ \A c \in Clients : given[c] # NoLine /\ cli[c] = "answered" =>
          /\ lock[given[c]] \in DOMAIN kid /\ kid[lock[given[c]]].cli = c
          /\ kid[lock[given[c]]].st # "dialing"
    /\ \A c \in Clients : given[c] # NoLine => cli[c] \in {"answered", "closed"}

\* What select has reported is still true of the entries the loop has not come
\* to: there is a request to read, or the client is gone.
ServeInv ==
    pc = "serve" =>
        \A s \in Slots : s >= i /\ client[s].fd \in rset =>
            client[s].fd \in unread \/ cli[client[s].fd] = "closed"

\* What counting means: facts about numbers and finite sets that the steps rest
\* on.  The entries are as many as the clients: when one client has
\* none, two are of the same client.
Counting ==
    /\ \A S \in SUBSET Nat : S # {} => \E n \in S : \A m \in S : n <= m
    /\ \A n \in Nat : Cardinality(1 .. n) = n
    /\ \A c \in Clients : \A f \in [Slots -> Clients \ {c}] :
          \E x, y \in Slots : x # y /\ f[x] = f[y]

\* The inductive invariant.
CalldInv == Types /\ SlotInv /\ KidInv /\ RetryInv /\ LockInv /\ ServeInv /\ Counting

DInv == early \/ CalldInv

-----------------------------------------------------------------------------
(* The steps.                                                              *)

\* The entries are numbered by naturals.
LEMMA SlotNumbers == Cardinality(Clients) \in Nat /\ Slots \subseteq Nat
  BY CalldAssumption DEF Slots

\* A client has one child at a time, which has its entry.
LEMMA OneChild ==
  ASSUME Types, SlotInv, KidInv
  PROVE  /\ \A p, q \in Unreaped : kid[p].cli = kid[q].cli => p = q
         /\ \A p \in Unreaped, s \in Slots :
                client[s].pid = p \/ client[s].fd = kid[p].cli => Serves(s, p)
  <1>1. \A p \in Unreaped : kid[p].cli \in Clients /\ kid[p].cli # NoFd /\ p # 0
    BY CalldAssumption DEF Types, Unreaped, Kid
  <1>2. ASSUME NEW p \in Unreaped, NEW s \in Slots,
               client[s].pid = p \/ client[s].fd = kid[p].cli
        PROVE  Serves(s, p)
    <2>1. PICK t \in Slots : Serves(t, p)
      BY Zenon DEF KidInv
    <2>2. s = t
      BY Zenon, <1>1, <1>2, <2>1 DEF SlotInv, Serves
    <2> QED
      BY Zenon, <2>1, <2>2
  <1>3. ASSUME NEW p \in Unreaped, NEW q \in Unreaped, kid[p].cli = kid[q].cli
        PROVE  p = q
    <2>1. PICK s \in Slots : Serves(s, p)
      BY Zenon DEF KidInv
    <2>2. Serves(s, q)
      BY Zenon, <1>2, <1>3, <2>1 DEF Serves
    <2> QED
      BY Zenon, <2>1, <2>2 DEF Serves
  <1> QED
    BY Zenon, <1>2, <1>3

\* request() for the entry the loop has come to, e by now: the client waits, no
\* child of the entry is left and, with the locks lk, no lock either.
Asks(e, lk) ==
    /\ e \in Slot /\ lk \in [Lines -> Nat]
    /\ e.fd \in Clients /\ e.fd = client[i].fd /\ e.pid = client[i].pid /\ e.childdone = 0
    /\ cli[e.fd] = "waiting"
    /\ \A p \in Unreaped : kid[p].cli # e.fd /\ p # e.pid
    /\ \A l \in Lines : lk[l] = lock[l] \/ (lk[l] = 0 /\ lock[l] = e.pid)
    /\ \A l \in Lines : lk[l] # 0 => lk[l] # e.pid

\* What the two loops do beside.
Beside(e) ==
    /\ i \in Slots /\ i' = i + 1 /\ pc \in {"scan", "serve"}
    /\ UNCHANGED <<given, listen, back, rset, early>>
    /\ unread' = unread \ {e.fd}

\* What every request keeps: the clients and children of the other entries.
LEMMA RequestKeeps ==
  ASSUME CalldInv, NEW e, NEW lk, Asks(e, lk), Beside(e)
  PROVE  /\ \A s \in Slots : s # i => client[s].fd # e.fd
         /\ \A p \in DOMAIN kid : kid[p].cli \in Clients /\ kid[p].cli # NoFd /\ p \in Nat \ {0}
         /\ \A c \in Clients : given[c] # NoLine => c # e.fd
         /\ \A l \in Lines : lk[l] # 0 => \E s \in Slots : s # i /\ Serves(s, lk[l])
         /\ \A c \in Clients : given[c] # NoLine /\ cli[c] = "answered" =>
                given[c] \in Lines /\ lk[given[c]] = lock[given[c]]
  <1>1. /\ \A p \in DOMAIN kid : kid[p].cli \in Clients /\ kid[p].cli # NoFd /\ p \in Nat \ {0}
        /\ e.fd # NoFd
    BY CalldAssumption DEF CalldInv, Types, Kid, Asks
  <1>2. \A s \in Slots : s # i => client[s].fd # e.fd
    BY <1>1 DEF CalldInv, SlotInv, Asks, Beside
  <1>3. \A c \in Clients : given[c] # NoLine => c # e.fd
    BY Zenon DEF CalldInv, LockInv, Asks
  <1>4. ASSUME NEW l \in Lines, lk[l] # 0
        PROVE  \E s \in Slots : s # i /\ Serves(s, lk[l])
    BY <1>4 DEF CalldInv, LockInv, Serves, Asks
  <1>5. ASSUME NEW c \in Clients, given[c] # NoLine, cli[c] = "answered"
        PROVE  given[c] \in Lines /\ lk[given[c]] = lock[given[c]]
    <2>1. given[c] \in Lines
      BY Zenon, <1>5 DEF CalldInv, Types
    <2>2. lock[given[c]] \in DOMAIN kid /\ kid[lock[given[c]]].cli = c
      BY Zenon, <1>5 DEF CalldInv, LockInv
    <2>3. PICK s \in Slots : Serves(s, lock[given[c]])
      BY Zenon, <1>1, <2>1, <2>2 DEF CalldInv, LockInv
    <2>4. lock[given[c]] # e.pid
      BY <1>1, <1>3, <1>5, <2>2, <2>3 DEF CalldInv, SlotInv, Serves, Asks, Beside
    <2> QED
      BY Zenon, <2>1, <2>4 DEF Asks
  <1> QED
    BY Zenon, <1>1, <1>2, <1>3, <1>4, <1>5

\* request() forks child n + 1 for line k of the Systems file, whose line is free,
\* and locks it.
Forks(e, lk, n, k) ==
    /\ n \in Nat /\ kid \in [1 .. n -> Kid]
    /\ k \in Nat /\ Systems[k] \in [name : STRING, line : Lines \cup {NoLine}]
    /\ Systems[k].line # NoLine /\ lk[Systems[k].line] = 0
    /\ kid' = [q \in 1 .. n + 1 |->
                 IF q < n + 1 THEN kid[q]
                 ELSE [st |-> "dialing", line |-> Systems[k].line,
                       cli |-> e.fd, name |-> Systems[k].name]]
    /\ client' = [client EXCEPT ![i] = Forked(e, n + 1, k)]
    /\ lock' = [lk EXCEPT ![Systems[k].line] = n + 1]
    /\ UNCHANGED <<cli, pc>>

\* request forks a child that dials for one slot of the client array.
LEMMA ForkStep ==
  ASSUME CalldInv, NEW e, NEW lk, Asks(e, lk), Beside(e), NEW n, NEW k, Forks(e, lk, n, k)
  PROVE  CalldInv'
  <1> DEFINE p == n + 1
  <1>1. n \in Nat /\ kid \in [1 .. n -> Kid]
    BY Zenon DEF Forks
  <1>2. /\ k \in Nat /\ Systems[k] \in [name : STRING, line : Lines \cup {NoLine}]
        /\ Systems[k].line # NoLine /\ lk[Systems[k].line] = 0
        /\ kid' = [q \in 1 .. p |->
                     IF q < p THEN kid[q]
                     ELSE [st |-> "dialing", line |-> Systems[k].line,
                           cli |-> e.fd, name |-> Systems[k].name]]
        /\ client' = [client EXCEPT ![i] = Forked(e, p, k)]
        /\ lock' = [lk EXCEPT ![Systems[k].line] = p]
        /\ UNCHANGED <<cli, pc>>
    BY Zenon DEF Forks
  <1> DEFINE l == Systems[k].line
  <1>3. l \in Lines /\ lk \in [Lines -> Nat] /\ e \in Slot /\ e.fd \in Clients /\ p \in Nat \ {0}
    BY <1>1, <1>2 DEF Asks
  <1>4. /\ DOMAIN kid = 1 .. n /\ DOMAIN kid' = 1 .. p /\ kid' \in [1 .. p -> Kid]
        /\ \A q \in 1 .. n : q \in 1 .. p /\ q # p /\ kid'[q] = kid[q]
        /\ kid'[p].st = "dialing" /\ kid'[p].line = l /\ kid'[p].cli = e.fd
    <2>1. [st |-> "dialing", line |-> l, cli |-> e.fd, name |-> Systems[k].name] \in Kid
      BY Zenon, <1>2, <1>3 DEF Kid
    <2> QED
      BY <1>1, <1>2, <1>3, <2>1
  <1>5. /\ client' \in [Slots -> Slot] /\ \A s \in Slots : s # i => client'[s] = client[s]
        /\ client'[i].fd = e.fd /\ client'[i].pid = p /\ client'[i].childdone # 2
    <2>1. /\ Forked(e, p, k) \in Slot /\ Forked(e, p, k).fd = e.fd
          /\ Forked(e, p, k).pid = p /\ Forked(e, p, k).childdone = 0
      BY ZenonT(30), <1>2, <1>3 DEF Forked, Slot, Asks
    <2> QED
      BY <1>2, <2>1 DEF CalldInv, Types, Beside
  <1>6. /\ lock' \in [Lines -> Nat] /\ lock'[l] = p
        /\ \A m \in Lines : m # l => lock'[m] = lk[m]
    BY Zenon, <1>2, <1>3
  <1>7. UNCHANGED <<cli, pc, given, listen, back, rset, early>>
    BY Zenon, <1>2 DEF Beside
  <1>8. unread' = unread \ {e.fd} /\ i' = i + 1 /\ i \in Slots
    BY Zenon DEF Beside
  <1> HIDE DEF p, l
  <1>9. Types'
    <2>1. i' \in Nat
      BY <1>8, SlotNumbers
    <2>2. \E m \in Nat : kid' \in [1 .. m -> Kid]
      BY Zenon, <1>3, <1>4
    <2>3. unread' \subseteq Clients
      BY Zenon, <1>8 DEF CalldInv, Types
    <2> QED
      BY ZenonT(30), <1>5, <1>6, <1>7, <2>1, <2>2, <2>3 DEF CalldInv, Types
  <1>10. SlotInv'
    <2>1. \A s \in Slots : client[s].pid \in 1 .. n \cup {0}
      BY ZenonT(30), <1>4 DEF CalldInv, SlotInv
    <2>2. \A s \in Slots : client'[s].pid \in 1 .. p \cup {0}
      <3>1. (\A q \in 1 .. n : q \in 1 .. p) /\ p \in 1 .. p
        BY <1>1 DEF p
      <3> QED
        BY Zenon, <1>5, <2>1, <3>1
    <2>3. \A s \in Slots : s # i => client'[s].pid # p
      BY <1>1, <1>5, <2>1 DEF p
    <2>4. \A s, t \in Slots : client'[s].pid = client'[t].pid /\ client'[s].pid # 0 => s = t
      BY <1>5, <2>3 DEF CalldInv, SlotInv
    <2>5. \A s \in Slots : client'[s].fd = client[s].fd
      BY Zenon, <1>5 DEF Asks
    <2> QED
      BY <1>4, <1>7, <1>8, <2>2, <2>4, <2>5 DEF CalldInv, SlotInv
  <1>11. Unreaped' = Unreaped \cup {p}
    <2>1. \A q : q \in 1 .. p <=> q \in 1 .. n \/ q = p
      BY <1>1 DEF p
    <2> QED
      BY Zenon, <1>4, <2>1 DEF Unreaped
  <1>12. KidInv'
    <2>1. \A q \in DOMAIN kid' : /\ cli'[kid'[q].cli] \notin {"new", "connected"}
                                 /\ kid'[q].cli \notin unread'
      <3>1. \A q \in DOMAIN kid' : q \in DOMAIN kid \/ q = p
        BY <1>1, <1>4 DEF p
      <3> QED
        BY <1>4, <1>7, <1>8, <3>1 DEF CalldInv, KidInv, Asks
    <2>2. ASSUME NEW q \in Unreaped
          PROVE  /\ \E s \in Slots : client'[s].pid = q /\ client'[s].fd = kid'[q].cli
                 /\ lock'[kid'[q].line] = q
                 /\ kid'[q] = kid[q]
      <3>1. q \in DOMAIN kid /\ kid[q].cli # e.fd /\ q # e.pid /\ kid'[q] = kid[q]
        BY Zenon, <1>4 DEF Asks, Unreaped
      <3>2. PICK s \in Slots : Serves(s, q)
        BY Zenon DEF CalldInv, KidInv
      <3>3. s # i
        BY Zenon, <3>1, <3>2 DEF Serves, Asks
      <3>4. kid[q].line \in Lines /\ lock[kid[q].line] = q /\ q # 0
        BY <3>1 DEF CalldInv, KidInv, Types, Kid
      <3>5. lk[kid[q].line] = q
        BY Zenon, <3>1, <3>4 DEF Asks
      <3>6. kid[q].line # l
        BY ZenonT(30), <1>2, <3>4, <3>5 DEF l
      <3> QED
        BY Zenon, <1>5, <1>6, <3>1, <3>2, <3>3, <3>4, <3>5, <3>6 DEF Serves
    <2>3. /\ \E s \in Slots : client'[s].pid = p /\ client'[s].fd = kid'[p].cli
          /\ lock'[kid'[p].line] = p
          /\ kid'[p].st = "dialing" /\ cli'[kid'[p].cli] = "waiting"
      BY <1>4, <1>5, <1>6, <1>7, <1>8 DEF Asks
    <2> QED
      BY <1>7, <1>11, <2>1, <2>2, <2>3 DEF CalldInv, KidInv, Serves
  <1>13. RetryInv'
    <2>1. \A s \in Slots : s # i => client[s].pid # p
      <3>1. \A s \in Slots : client[s].pid \in 1 .. n \cup {0}
        BY Zenon, <1>4 DEF CalldInv, SlotInv
      <3> QED
        BY <1>1, <3>1 DEF p
    <2>2. ASSUME NEW s \in Slots, client'[s].childdone = 2
          PROVE  s # i /\ client'[s] = client[s] /\ client[s].pid # p
      BY Zenon, <1>5, <2>1, <2>2
    <2>3. \A s \in Slots : client[s].childdone = 2 =>
            /\ client[s].fd # NoFd /\ cli[client[s].fd] = "waiting"
            /\ client[s].fd \notin unread
            /\ client[s].pid \notin Unreaped
      BY Zenon DEF CalldInv, RetryInv
    <2> QED
      BY Zenon, <1>7, <1>8, <1>11, <2>2, <2>3 DEF RetryInv
  <1>14. LockInv'
    <2>1. ASSUME NEW m \in Lines, lock'[m] # 0
          PROVE  /\ lock'[m] \in DOMAIN kid' /\ kid'[lock'[m]].line = m
                 /\ \E s \in Slots : /\ client'[s].pid = lock'[m]
                                     /\ client'[s].fd = kid'[lock'[m]].cli
      <3>1. CASE m = l
        <4>1. lock'[m] = p /\ p \in 1 .. p
          BY <1>3, <1>6, <3>1
        <4> QED
          BY Zenon, <1>4, <1>5, <1>8, <3>1, <4>1
      <3>2. CASE m # l
        <4>1. lk[m] = lock[m] /\ lock'[m] = lk[m]
          BY Zenon, <1>6, <2>1, <3>2 DEF Asks
        <4>2. lk[m] \in DOMAIN kid /\ kid[lk[m]].line = m
          BY Zenon, <2>1, <4>1 DEF CalldInv, LockInv
        <4>3. PICK s \in Slots : s # i /\ Serves(s, lk[m])
          BY Zenon, <2>1, <4>1, RequestKeeps
        <4>4. client'[s].pid = lk[m] /\ client'[s].fd = kid'[lk[m]].cli
          BY Zenon, <1>4, <1>5, <4>2, <4>3 DEF Serves
        <4> QED
          BY Zenon, <1>4, <4>1, <4>2, <4>4
      <3> QED
        BY ZenonT(30), <3>1, <3>2
    <2>2. ASSUME NEW c \in Clients, given[c] # NoLine, cli[c] = "answered"
          PROVE  /\ lock'[given[c]] \in DOMAIN kid' /\ kid'[lock'[given[c]]].cli = c
                 /\ kid'[lock'[given[c]]].st # "dialing"
      <3>1. /\ lock[given[c]] \in DOMAIN kid /\ kid[lock[given[c]]].cli = c
            /\ kid[lock[given[c]]].st # "dialing"
        BY Zenon, <2>2 DEF CalldInv, LockInv
      <3>2. given[c] \in Lines /\ lk[given[c]] = lock[given[c]]
        BY <2>2, RequestKeeps
      <3>3. given[c] # l
        BY <1>2, <1>4, <3>1, <3>2 DEF l
      <3> QED
        BY <1>4, <1>6, <3>1, <3>2, <3>3
    <2> QED
      BY ZenonT(30), <1>7, <2>1, <2>2 DEF CalldInv, LockInv, Serves
  <1>15. ServeInv'
    <2>1. \A s \in Slots : client'[s].fd = client[s].fd
      BY Zenon, <1>5 DEF Asks
    <2>2. \A s \in Slots : s >= i + 1 => s >= i /\ s # i
      BY <1>8, SlotNumbers
    <2> QED
      <3>1. \A s \in Slots : s # i => client[s].fd # e.fd
        BY Zenon, RequestKeeps
      <3> QED
        BY Zenon, <1>7, <1>8, <2>1, <2>2, <3>1 DEF CalldInv, ServeInv
  <1> QED
    BY Zenon, <1>9, <1>10, <1>12, <1>13, <1>14, <1>15 DEF CalldInv

\* A client that hangs up has no child left, and its lock is released.
HangsUp(e) ==
    /\ pc = "serve" /\ i \in Slots /\ i' = i + 1 /\ i' \in Nat
    /\ e = client[i] /\ e \in Slot /\ e.fd \in Clients /\ e.fd \in rset \ unread
    /\ lock' = HangUp(e)
    /\ client' = [client EXCEPT ![i].fd = NoFd]
    /\ UNCHANGED <<cli, unread, given, listen, kid, pc, back, rset, early>>

\* A client is gone: its lock is released and its slot freed.
LEMMA HangUpStep ==
  ASSUME CalldInv, NEW e, HangsUp(e)
  PROVE  CalldInv'
  <1>a. /\ pc = "serve" /\ i \in Slots /\ i' = i + 1
        /\ UNCHANGED <<given, listen, back, rset, early>>
    BY Zenon DEF HangsUp
  <1>b. e = client[i] /\ e \in Slot /\ i' \in Nat /\ rset \subseteq Clients /\ e.fd \in Clients
    BY Zenon DEF HangsUp, CalldInv, Types
  <1>c. /\ e.fd \in rset \ unread
        /\ lock' = HangUp(e)
        /\ client' = [client EXCEPT ![i].fd = NoFd]
        /\ UNCHANGED <<cli, unread, kid, pc>>
    BY Zenon DEF HangsUp
  <1>1. e.fd \in Clients /\ cli[e.fd] = "closed"
    <2>1. i >= i
      BY <1>a, SlotNumbers
    <2> QED
      BY Zenon, <1>a, <1>b, <1>c, <2>1 DEF CalldInv, ServeInv
  <1>2. /\ client' \in [Slots -> Slot] /\ client'[i].fd = NoFd
        /\ \A s \in Slots : /\ s # i => client'[s].fd = client[s].fd
                            /\ client'[s].pid = client[s].pid
                            /\ client'[s].childdone = client[s].childdone
    <2>1. client \in [Slots -> Slot]
      BY Zenon DEF CalldInv, Types
    <2>2. \A s \in Slots : client'[s] = IF s = i THEN [e EXCEPT !.fd = NoFd] ELSE client[s]
      BY Zenon, <1>a, <1>b, <1>c, <2>1
    <2>3. /\ [e EXCEPT !.fd = NoFd] \in Slot /\ [e EXCEPT !.fd = NoFd].fd = NoFd
          /\ [e EXCEPT !.fd = NoFd].pid = e.pid
          /\ [e EXCEPT !.fd = NoFd].childdone = e.childdone
      BY Zenon, <1>b DEF Slot
    <2>4. client' \in [Slots -> Slot]
      BY Zenon, <1>a, <1>b, <1>c, <2>1, <2>3
    <2> QED
      BY Zenon, <1>a, <1>b, <2>2, <2>3, <2>4
  <1>3. /\ lock' \in [Lines -> Nat]
        /\ \A l \in Lines : lock'[l] = IF lock[l] = e.pid THEN 0 ELSE lock[l]
    BY Zenon, <1>c DEF HangUp, LockRel, CalldInv, Types
  <1>4. \A p \in Unreaped : kid[p].cli # e.fd /\ p # e.pid
    <2>1. \A p \in Unreaped : kid[p].cli # e.fd
      BY Zenon, <1>1 DEF CalldInv, KidInv
    <2> QED
      BY Zenon, <1>a, <1>b, <2>1, OneChild DEF CalldInv, Serves
  <1>5. ASSUME NEW c \in Clients, given[c] # NoLine, cli[c] = "answered"
        PROVE  lock'[given[c]] = lock[given[c]]
    <2>1. /\ given[c] \in Lines /\ lock[given[c]] \in DOMAIN kid
          /\ kid[lock[given[c]]].cli = c
      BY <1>5 DEF CalldInv, LockInv, Types
    <2>2. lock[given[c]] # 0
      BY <2>1 DEF CalldInv, Types
    <2>3. PICK s \in Slots : Serves(s, lock[given[c]])
      BY Zenon, <2>1, <2>2 DEF CalldInv, LockInv
    <2>4. lock[given[c]] # e.pid
      BY Zenon, <1>a, <1>b, <1>1, <1>5, <2>1, <2>2, <2>3 DEF CalldInv, SlotInv, Serves
    <2> QED
      BY Zenon, <1>3, <2>1, <2>4
  <1>6. Types'
    BY Zenon, <1>a, <1>b, <1>c, <1>2, <1>3 DEF CalldInv, Types
  <1>7. SlotInv'
    BY <1>a, <1>c, <1>2 DEF CalldInv, SlotInv
  <1>8. KidInv'
    <2>1. ASSUME NEW p \in Unreaped
          PROVE  /\ \E s \in Slots : client'[s].pid = p /\ client'[s].fd = kid[p].cli
                 /\ lock'[kid[p].line] = p
      <3>1. PICK s \in Slots : Serves(s, p)
        BY Zenon DEF CalldInv, KidInv
      <3>2. s # i
        BY Zenon, <1>b, <1>4, <3>1 DEF Serves
      <3>3. kid[p].line \in Lines
        BY Zenon DEF CalldInv, Types, Kid, Unreaped
      <3> QED
        BY <1>2, <1>3, <1>4, <3>1, <3>2, <3>3 DEF CalldInv, KidInv, Serves
    <2> QED
      BY <1>c, <2>1 DEF CalldInv, KidInv, Unreaped, Serves
  <1>9. RetryInv'
    BY <1>b, <1>c, <1>1, <1>2 DEF CalldInv, RetryInv, Unreaped
  <1>10. LockInv'
    <2>1. ASSUME NEW l \in Lines, lock'[l] # 0
          PROVE  /\ lock'[l] \in DOMAIN kid /\ kid[lock'[l]].line = l
                 /\ \E s \in Slots : /\ client'[s].pid = lock'[l]
                                     /\ client'[s].fd = kid[lock'[l]].cli
      <3>1. lock'[l] = lock[l] /\ lock[l] # 0 /\ lock[l] # e.pid
        BY Zenon, <1>3, <2>1
      <3>2. PICK s \in Slots : Serves(s, lock[l])
        BY Zenon, <3>1 DEF CalldInv, LockInv
      <3>3. s # i
        BY Zenon, <1>b, <3>1, <3>2 DEF Serves
      <3> QED
        BY ZenonT(30), <1>2, <3>1, <3>2, <3>3 DEF CalldInv, LockInv, Serves
    <2> QED
      BY <1>a, <1>c, <1>5, <2>1 DEF CalldInv, LockInv, Serves
  <1>11. ServeInv'
    <2>1. \A s \in Slots : s >= i + 1 => s >= i /\ s # i
      BY <1>a, SlotNumbers
    <2> QED
      BY Zenon, <1>a, <1>c, <1>2, <2>1 DEF CalldInv, ServeInv
  <1> QED
    BY Zenon, <1>6, <1>7, <1>8, <1>9, <1>10, <1>11 DEF CalldInv

\* request() gives up: the client gets its error and loses its entry.
LEMMA GiveUpStep ==
  ASSUME CalldInv, NEW e, NEW lk, Asks(e, lk), Beside(e), GiveUp(i, e, lk)
  PROVE  CalldInv'
  <1>1. /\ cli' = [cli EXCEPT ![e.fd] = "answered"] /\ lock' = lk
        /\ UNCHANGED <<kid, pc, given, listen, back, rset, early>>
        /\ unread' = unread \ {e.fd} /\ i' = i + 1 /\ i \in Slots
        /\ client' = [client EXCEPT ![i] = [e EXCEPT !.fd = NoFd]]
    BY Zenon DEF GiveUp, Asks, Beside, CalldInv, Types
  <1>2. /\ client' \in [Slots -> Slot] /\ \A s \in Slots : s # i => client'[s] = client[s]
        /\ client'[i].fd = NoFd /\ client'[i].pid = client[i].pid /\ client'[i].childdone = 0
    BY Zenon, <1>1 DEF CalldInv, Types, Asks, Slot
  <1>3. /\ cli'[e.fd] = "answered" /\ \A c \in Clients : c # e.fd => cli'[c] = cli[c]
    BY Zenon, <1>1 DEF CalldInv, Types, Asks
  <1>4. Types'
    BY <1>1, <1>2 DEF CalldInv, Types, Asks, Beside, Slots
  <1>5. SlotInv'
    BY <1>1, <1>2, <1>3, RequestKeeps DEF CalldInv, SlotInv, Types, Slot
  <1>6. \A s \in Slots, p \in DOMAIN kid : s # i /\ Serves(s, p) => Serves(s, p)'
    BY Zenon, <1>1, <1>2 DEF Serves
  <1>7. KidInv'
    <2>1. \A p \in DOMAIN kid : /\ cli'[kid[p].cli] \notin {"new", "connected"}
                                /\ kid[p].cli \notin unread'
      BY <1>1, <1>3, RequestKeeps DEF CalldInv, KidInv
    <2>2. ASSUME NEW p \in Unreaped
          PROVE  /\ \E s \in Slots : Serves(s, p)'
                 /\ lock'[kid[p].line] = p
                 /\ cli'[kid[p].cli] = cli[kid[p].cli]
      <3>1. p \in DOMAIN kid /\ kid[p].cli # e.fd /\ p # e.pid
        BY Zenon DEF Asks, Unreaped
      <3>2. PICK s \in Slots : Serves(s, p)
        BY Zenon DEF CalldInv, KidInv
      <3>3. s # i
        BY Zenon, <3>1, <3>2 DEF Serves, Asks
      <3>4. kid[p].line \in Lines /\ lock[kid[p].line] = p /\ p # 0
        BY <3>1 DEF CalldInv, KidInv, Types, Kid
      <3>5. lk[kid[p].line] = p
        BY Zenon, <3>1, <3>4 DEF Asks
      <3> QED
        BY Zenon, <1>1, <1>3, <1>6, <3>1, <3>2, <3>3, <3>5, RequestKeeps
    <2> QED
      BY <1>1, <2>1, <2>2 DEF CalldInv, KidInv, Unreaped
  <1>8. RetryInv'
    BY <1>1, <1>2, <1>3, RequestKeeps DEF CalldInv, RetryInv, Unreaped, Types, Slot
  <1>9. LockInv'
    <2>1. ASSUME NEW l \in Lines, lk[l] # 0
          PROVE  /\ lk[l] \in DOMAIN kid /\ kid[lk[l]].line = l
                 /\ \E s \in Slots : Serves(s, lk[l])'
      <3>1. lk[l] = lock[l]
        BY Zenon, <2>1 DEF Asks
      <3>2. lk[l] \in DOMAIN kid /\ kid[lk[l]].line = l
        BY Zenon, <2>1, <3>1 DEF CalldInv, LockInv
      <3> QED
        BY Zenon, <1>6, <2>1, <3>2, RequestKeeps
    <2>2. ASSUME NEW c \in Clients, given[c] # NoLine
          PROVE  /\ cli'[c] = cli[c]
                 /\ cli[c] = "answered" => lk[given[c]] = lock[given[c]]
      BY <1>3, <2>2, RequestKeeps
    <2> QED
      BY <1>1, <2>1, <2>2 DEF CalldInv, LockInv
  <1>10. ServeInv'
    BY <1>1, <1>2, <1>3, RequestKeeps DEF CalldInv, ServeInv, Types, Slot, Slots
  <1> QED
    BY Zenon, <1>4, <1>5, <1>7, <1>8, <1>9, <1>10 DEF CalldInv

\* What most steps leave alone.
shared == <<cli, unread, given, listen, kid, client, lock>>

\* What the steps that leave the client array and the lines alone keep.
LEMMA Frame ==
  ASSUME CalldInv, UNCHANGED shared
  PROVE  SlotInv' /\ KidInv' /\ RetryInv' /\ LockInv'
  <1> USE DEF shared
  <1>1. SlotInv'
    BY Zenon DEF CalldInv, SlotInv
  <1>2. KidInv'
    BY DEF CalldInv, KidInv, Unreaped, Serves
  <1>3. RetryInv'
    BY Zenon DEF CalldInv, RetryInv, Unreaped
  <1>4. LockInv'
    BY Zenon DEF CalldInv, LockInv, Serves
  <1> QED
    BY Zenon, <1>1, <1>2, <1>3, <1>4

\* The steps of the daemon between its loops.
LEMMA LoopStep ==
  ASSUME CalldInv, \/ Loop \/ Enter \/ ChildDone \/ ScanEnds \/ Select \/ ServeEnds
                   \/ Quits \/ UNCHANGED vars
  PROVE  CalldInv'
  <1>1. UNCHANGED shared
    BY Zenon DEF Loop, Enter, ChildDone, ScanEnds, Select, ServeEnds, Quits, clients, shared,
                 vars, daemon
  <1>2. Types'
    <2>1. /\ UNCHANGED shared /\ rset' \subseteq Clients
          /\ pc' \in {"loop", "child_done", "scan", "enter", "select", "serve", "quit"}
          /\ back' \in {"loop", "enter"} /\ i' \in Nat
      BY <1>1 DEF CalldInv, Types, Slot, Loop, Enter, ChildDone, ScanEnds, Select, ServeEnds,
                  Quits, clients, Readable, Fds, vars, daemon
    <2> QED
      BY Zenon, <2>1 DEF CalldInv, Types, shared
  <1>3. ServeInv'
    <2>1. CASE Select
      BY Zenon, <1>1, <2>1 DEF Select, ServeInv, Readable, Fds, shared
    <2>2. CASE UNCHANGED vars
      BY Zenon, <2>2 DEF CalldInv, ServeInv, vars, clients, daemon
    <2>3. CASE Loop \/ Enter \/ ChildDone \/ ScanEnds \/ ServeEnds \/ Quits
      BY Zenon, <2>3 DEF CalldInv, Types, Loop, Enter, ChildDone, ScanEnds, ServeEnds, Quits,
                         ServeInv
    <2> QED
      BY Zenon, <2>1, <2>2, <2>3
  <1> QED
    BY Zenon, <1>1, <1>2, <1>3, Frame DEF CalldInv

\* The steps of a client.
LEMMA ClientStep ==
  ASSUME CalldInv, NEW c \in Clients, Connect(c) \/ Send(c) \/ Close(c), ~early'
  PROVE  CalldInv'
  <1>1. UNCHANGED <<given, kid, client, lock, pc, i, rset, back>>
    BY Zenon DEF Connect, Send, Close, daemon
  <1>2. /\ listen' \subseteq Clients /\ unread' \subseteq Clients
        /\ cli' \in [Clients -> {"new", "connected", "waiting", "answered", "closed"}]
        /\ \A d \in Clients : d # c => cli'[d] = cli[d]
        /\ \/ /\ cli[c] = "new" /\ cli'[c] = "connected"
              /\ listen' = listen \cup {c} /\ unread' = unread
           \/ /\ cli[c] = "connected" /\ cli'[c] = "waiting"
              /\ listen' = listen /\ unread' = unread \cup {c}
           \/ /\ cli[c] \in {"connected", "answered"} /\ cli'[c] = "closed"
              /\ listen' = listen /\ unread' = unread
              /\ \A p \in Unreaped : kid[p].cli # c
    BY ZenonT(30) DEF Connect, Send, Close, CalldInv, Types, Unreaped
  <1>3. Types'
    BY Zenon, <1>1, <1>2 DEF CalldInv, Types
  <1>4. SlotInv'
    <2>1. \A s \in Slots : client[s].fd \in Clients \cup {NoFd}
      BY Zenon DEF CalldInv, Types, Slot
    <2>2. \A s \in Slots : client[s].fd # NoFd =>
             client[s].fd \notin listen' /\ cli'[client[s].fd] # "new"
      BY Zenon, <1>2, <2>1 DEF CalldInv, SlotInv
    <2>3. (\A d \in listen' : cli'[d] # "new") /\ (\A d \in unread' : cli'[d] = "waiting")
      BY Zenon, <1>2 DEF CalldInv, SlotInv, Types
    <2> QED
      BY Zenon, <1>1, <2>2, <2>3 DEF CalldInv, SlotInv
  <1>5. KidInv'
    <2>1. \A p \in DOMAIN kid : kid[p].cli \in Clients
      BY Zenon DEF CalldInv, Types, Kid
    <2>2. \A p \in DOMAIN kid : /\ cli'[kid[p].cli] \notin {"new", "connected"}
                                /\ kid[p].cli \notin unread'
      BY <1>2, <2>1 DEF CalldInv, KidInv
    <2>3. \A p \in Unreaped :
             \/ kid[p].st \in {"dialing", "exit1"} /\ cli'[kid[p].cli] = "waiting"
             \/ kid[p].st \in {"sent", "exit0"} /\ cli'[kid[p].cli] = "answered"
      <3> SUFFICES ASSUME NEW p \in Unreaped
                   PROVE  kid[p].cli # c
        BY <1>2, <2>1 DEF CalldInv, KidInv, Unreaped
      <3>1. cli[kid[p].cli] \in {"waiting", "answered"} /\ cli[kid[p].cli] # "connected"
        BY Zenon DEF CalldInv, KidInv
      <3> QED
        BY Zenon, <1>2, <3>1
    <2> QED
      <3>1. Unreaped' = Unreaped /\ \A s, p : Serves(s, p)' <=> Serves(s, p)
        BY Zenon, <1>1 DEF Unreaped, Serves
      <3>2. \A p \in Unreaped : (\E s \in Slots : Serves(s, p)) /\ lock[kid[p].line] = p
        BY Zenon DEF CalldInv, KidInv
      <3> QED
        BY Zenon, <1>1, <2>2, <2>3, <3>1, <3>2 DEF KidInv
  <1>6. RetryInv'
    <2>1. \A s \in Slots : client[s].fd \in Clients \cup {NoFd}
      BY Zenon DEF CalldInv, Types, Slot
    <2> QED
      BY Zenon, <1>1, <1>2, <2>1 DEF CalldInv, RetryInv, Unreaped
  <1>7. LockInv'
    BY Zenon, <1>1, <1>2 DEF CalldInv, LockInv, Serves
  <1>8. ServeInv'
    <2>1. \A s \in Slots : client[s].fd \in Clients \cup {NoFd}
      BY Zenon DEF CalldInv, Types, Slot
    <2>2. NoFd \notin rset
      BY Zenon, CalldAssumption DEF CalldInv, Types
    <2> QED
      BY Zenon, <1>1, <1>2, <2>1, <2>2 DEF CalldInv, ServeInv
  <1> QED
    BY Zenon, <1>3, <1>4, <1>5, <1>6, <1>7, <1>8 DEF CalldInv

\* The steps of a child: it hands the line to its client, then ends.  Its client
\* is there.
LEMMA ChildStep ==
  ASSUME CalldInv, NEW p \in DOMAIN kid, Child(p)
  PROVE  CalldInv'
  <1> DEFINE c == kid[p].cli
  <1>1. /\ UNCHANGED <<unread, listen, client, lock, pc, i, rset, back, early>>
        /\ p \in Unreaped /\ c \in Clients /\ kid[p].line \in Lines /\ cli[c] # "closed"
        /\ lock[kid[p].line] = p
    <2>1. /\ UNCHANGED <<unread, listen, client, lock, pc, i, rset, back, early>>
          /\ p \in Unreaped
      BY Zenon DEF Child, ChildSends, ChildSucceeds, ChildFails, daemon, clients, Unreaped
    <2>2. c \in Clients /\ kid[p].line \in Lines
      BY Zenon DEF CalldInv, Types, Kid
    <2> QED
      BY Zenon, <2>1, <2>2 DEF CalldInv, KidInv
  <1>2. /\ DOMAIN kid' = DOMAIN kid /\ \E n \in Nat : kid' \in [1 .. n -> Kid]
        /\ \A q \in DOMAIN kid : /\ q # p => kid'[q] = kid[q]
                                 /\ kid'[q].cli = kid[q].cli /\ kid'[q].line = kid[q].line
        /\ \/ /\ kid[p].st = "dialing" /\ kid'[p].st = "sent"
              /\ cli' = [cli EXCEPT ![c] = "answered"]
              /\ given' = [given EXCEPT ![c] = kid[p].line]
           \/ /\ kid[p].st = "sent" /\ kid'[p].st = "exit0"
              /\ UNCHANGED <<cli, given>>
           \/ /\ kid[p].st = "dialing" /\ kid'[p].st = "exit1"
              /\ UNCHANGED <<cli, given>>
    <2>1. PICK n \in Nat : kid \in [1 .. n -> Kid]
      BY Zenon DEF CalldInv, Types
    <2>2. PICK st \in {"sent", "exit0", "exit1"} :
             /\ kid' = [kid EXCEPT ![p].st = st]
             /\ \/ /\ st = "sent" /\ kid[p].st = "dialing"
                   /\ cli' = [cli EXCEPT ![c] = "answered"]
                   /\ given' = [given EXCEPT ![c] = kid[p].line]
                \/ st = "exit0" /\ kid[p].st = "sent" /\ UNCHANGED <<cli, given>>
                \/ st = "exit1" /\ kid[p].st = "dialing" /\ UNCHANGED <<cli, given>>
      BY Zenon, <1>1 DEF Child, ChildSends, ChildSucceeds, ChildFails, Ends, clients
    <2> QED
      BY Zenon, <2>1, <2>2 DEF Kid
  <1>3. Types'
    BY Zenon, <1>1, <1>2 DEF CalldInv, Types
  <1>4. \A q \in DOMAIN kid : /\ q \in Unreaped' <=> q \in Unreaped
                              /\ \A s : Serves(s, q)' <=> Serves(s, q)
    BY Zenon, <1>1, <1>2 DEF Unreaped, Serves
  <1>5. \A q \in Unreaped : kid[q].cli = c => q = p
    BY Zenon, <1>1, OneChild DEF CalldInv
  <1>6. \A d \in Clients : d # c => cli'[d] = cli[d] /\ given'[d] = given[d]
    BY Zenon, <1>1, <1>2 DEF CalldInv, Types
  <1>7. SlotInv'
    BY <1>1, <1>2, <1>6 DEF CalldInv, Types, SlotInv, KidInv, Slot
  <1>8. KidInv'
    <2>1. \A q \in DOMAIN kid : /\ cli'[kid[q].cli] \notin {"new", "connected"}
                                /\ kid[q].cli \notin unread
      BY <1>1, <1>2, <1>6 DEF CalldInv, Types, Kid, KidInv
    <2>2. ASSUME NEW q \in Unreaped, q # p
          PROVE  /\ \/ kid'[q].st \in {"dialing", "exit1"} /\ cli'[kid'[q].cli] = "waiting"
                    \/ kid'[q].st \in {"sent", "exit0"} /\ cli'[kid'[q].cli] = "answered"
      <3>1. kid[q].cli \in Clients /\ kid[q].cli # c /\ q \in DOMAIN kid
        BY Zenon, <1>5, <2>2 DEF CalldInv, Types, Kid, Unreaped
      <3> QED
        BY <1>2, <1>6, <2>2, <3>1 DEF CalldInv, KidInv
    <2>3. /\ \/ kid'[p].st \in {"dialing", "exit1"} /\ cli'[kid'[p].cli] = "waiting"
             \/ kid'[p].st \in {"sent", "exit0"} /\ cli'[kid'[p].cli] = "answered"
      BY <1>1, <1>2 DEF CalldInv, Types, KidInv
    <2> QED
      BY <1>1, <1>2, <1>4, <2>1, <2>2, <2>3 DEF CalldInv, KidInv, Unreaped
  <1>9. RetryInv'
    <2> SUFFICES ASSUME NEW s \in Slots, client[s].childdone = 2
                 PROVE  /\ client[s].fd # NoFd /\ cli'[client[s].fd] = "waiting"
                        /\ client[s].fd \notin unread
                        /\ client[s].pid \notin Unreaped'
      BY Zenon, <1>1 DEF RetryInv
    <2>1. /\ client[s].fd # NoFd /\ cli[client[s].fd] = "waiting"
          /\ client[s].fd \notin unread /\ client[s].pid \notin Unreaped
      BY Zenon DEF CalldInv, RetryInv
    <2>2. client[s].fd \in Clients /\ client[s].fd # c
      BY ZenonT(30), <1>1, <2>1, OneChild DEF CalldInv, Types, Slot, Serves
    <2> QED
      BY Zenon, <1>2, <1>4, <1>6, <2>1, <2>2 DEF Unreaped
  <1>10. LockInv'
    <2>1. \A l \in Lines : lock[l] # 0 =>
             /\ lock[l] \in DOMAIN kid' /\ kid'[lock[l]].line = l
             /\ \E s \in Slots : Serves(s, lock[l])'
      BY <1>1, <1>2 DEF CalldInv, LockInv, Serves
    <2>2. \A d \in Clients : given'[d] # NoLine => cli'[d] \in {"answered", "closed"}
      <3>1. \A d \in Clients : given[d] # NoLine => cli[d] \in {"answered", "closed"}
        BY Zenon DEF CalldInv, LockInv
      <3>2. cli \in [Clients -> {"new", "connected", "waiting", "answered", "closed"}]
        BY Zenon DEF CalldInv, Types
      <3>3. cli'[c] = "answered" \/ UNCHANGED <<cli, given>>
        BY Zenon, <1>1, <1>2, <3>2
      <3> QED
        BY Zenon, <1>6, <3>1, <3>3
    <2>3. ASSUME NEW d \in Clients, given'[d] # NoLine, cli'[d] = "answered"
          PROVE  /\ lock[given'[d]] \in DOMAIN kid /\ kid'[lock[given'[d]]].cli = d
                 /\ kid'[lock[given'[d]]].st # "dialing"
      <3>1. CASE given'[d] = given[d] /\ cli'[d] = cli[d]
        BY <1>2, <2>3, <3>1 DEF CalldInv, LockInv
      <3>2. CASE ~(given'[d] = given[d] /\ cli'[d] = cli[d])
        <4>1. d = c /\ given'[d] = kid[p].line /\ kid'[p].st = "sent"
          BY Zenon, <1>1, <1>2, <1>6, <3>2 DEF CalldInv, Types
        <4> QED
          BY Zenon, <1>1, <1>2, <4>1
      <3> QED
        BY Zenon, <3>1, <3>2
    <2> QED
      BY Zenon, <1>1, <1>2, <2>1, <2>2, <2>3 DEF LockInv
  <1>11. ServeInv'
    <2>1. \A s \in Slots : client[s].fd \in Clients \cup {NoFd}
      BY Zenon DEF CalldInv, Types, Slot
    <2>2. NoFd \notin rset
      BY Zenon, CalldAssumption DEF CalldInv, Types
    <2> QED
      BY Zenon, <1>1, <1>6, <2>1, <2>2 DEF CalldInv, ServeInv
  <1> QED
    BY Zenon, <1>3, <1>7, <1>8, <1>9, <1>10, <1>11 DEF CalldInv

\* The handler: the child that is reaped has one entry, which learns of it.
LEMMA SigChldStep ==
  ASSUME CalldInv, SigChld
  PROVE  CalldInv'
  <1>1. /\ UNCHANGED <<cli, unread, given, listen, lock, i, rset, early>>
        /\ back' \in {"loop", "enter"}
    BY Zenon DEF SigChld, clients, CalldInv, Types
  <1>2. PICK p \in DOMAIN kid :
          /\ Ended(p)
          /\ kid' = [kid EXCEPT ![p].st = "reaped"]
          /\ IF kid[p].st = "killed" THEN UNCHANGED client
             ELSE client' = [s \in Slots |->
                     IF s \in EntryOf(p)
                     THEN [client[s] EXCEPT !.childdone = Status(kid[p].st)]
                     ELSE client[s]]
          /\ pc' = IF kid[p].st # "killed" /\ EntryOf(p) = {} THEN "exited"
                   ELSE IF pc = "select" THEN "child_done" ELSE pc
    BY Zenon DEF SigChld
  <1>3. p \in Unreaped /\ kid[p].st \in {"exit0", "exit1"}
    BY Zenon, <1>2 DEF Ended, Unreaped, CalldInv, KidInv
  <1>4. PICK e \in Slots : Serves(e, p)
    BY Zenon, <1>3 DEF CalldInv, KidInv
  <1>5. EntryOf(p) = {e}
    <2>1. Slots \subseteq Nat /\ Slots = 1 .. Cardinality(Clients) /\ Cardinality(Clients) \in Nat
      BY Zenon, SlotNumbers DEF Slots
    <2>2. p # 0
      BY <1>3 DEF CalldInv, Types, Unreaped
    <2>3. \A s \in Slots : client[s].pid = p => s = e
      BY Zenon, <1>4, <2>2 DEF Serves, CalldInv, SlotInv
    <2>4. \A t \in 1 .. e - 1 : t \in Slots /\ t # e
      BY <2>1
    <2> QED
      BY Zenon, <1>4, <2>3, <2>4 DEF EntryOf, Serves
  <1>6. /\ client' = [s \in Slots |-> IF s = e
                        THEN [client[s] EXCEPT !.childdone = Status(kid[p].st)] ELSE client[s]]
        /\ pc' = IF pc = "select" THEN "child_done" ELSE pc
    BY Zenon, <1>2, <1>3, <1>5
  <1>7. /\ client' \in [Slots -> Slot]
        /\ \A s \in Slots : client'[s].fd = client[s].fd /\ client'[s].pid = client[s].pid
        /\ \A s \in Slots : s # e => client'[s].childdone = client[s].childdone
        /\ client'[e].childdone = 2 <=> kid[p].st = "exit1"
    <2>1. client \in [Slots -> Slot] /\ Status(kid[p].st) \in {0, 1, 2}
      BY Zenon DEF CalldInv, Types, Status
    <2>2. Status(kid[p].st) = 2 <=> kid[p].st = "exit1"
      BY <1>3 DEF Status
    <2> DEFINE r(s) == [client[s] EXCEPT !.childdone = Status(kid[p].st)]
    <2>3. \A s \in Slots : /\ r(s) \in Slot /\ r(s).childdone = Status(kid[p].st)
                           /\ r(s).fd = client[s].fd /\ r(s).pid = client[s].pid
      BY Zenon, <2>1 DEF Slot
    <2>4. \A s \in Slots : client'[s] = IF s = e THEN r(s) ELSE client[s]
      BY Zenon, <1>6
    <2>5. client' \in [Slots -> Slot]
      BY Zenon, <1>6, <2>1, <2>3
    <2> HIDE DEF r
    <2> QED
      BY Zenon, <2>2, <2>3, <2>4, <2>5
  <1>8. /\ DOMAIN kid' = DOMAIN kid /\ \E n \in Nat : kid' \in [1 .. n -> Kid]
        /\ \A q \in DOMAIN kid : /\ q # p => kid'[q] = kid[q]
                                 /\ kid'[q].cli = kid[q].cli /\ kid'[q].line = kid[q].line
        /\ kid'[p].st = "reaped"
    <2>1. PICK n \in Nat : kid \in [1 .. n -> Kid]
      BY Zenon DEF CalldInv, Types
    <2> QED
      BY <1>2, <2>1 DEF Kid
  <1>9. /\ Unreaped' = Unreaped \ {p}
        /\ \A q \in DOMAIN kid, s \in Slots : Serves(s, q)' <=> Serves(s, q)
    BY <1>7, <1>8 DEF Unreaped, Serves
  <1>10. Types'
    BY Zenon, <1>1, <1>6, <1>7, <1>8 DEF CalldInv, Types
  <1>11. SlotInv'
    BY <1>1, <1>7, <1>8 DEF CalldInv, SlotInv
  <1>12. KidInv'
    BY <1>1, <1>8, <1>9 DEF CalldInv, KidInv, Unreaped
  <1>13. RetryInv'
    <2> SUFFICES ASSUME NEW s \in Slots, client'[s].childdone = 2
                 PROVE  /\ client[s].fd # NoFd /\ cli[client[s].fd] = "waiting"
                        /\ client[s].fd \notin unread
                        /\ client[s].pid \notin Unreaped \ {p}
      BY Zenon, <1>1, <1>7, <1>9 DEF RetryInv
    <2>1. CASE s = e
      <3>1. client[s].fd = kid[p].cli /\ client[s].pid = p /\ kid[p].st = "exit1"
        BY Zenon, <1>4, <1>7, <2>1 DEF Serves
      <3>2. kid[p].cli \in Clients
        BY Zenon DEF CalldInv, Types, Kid
      <3> QED
        BY <1>3, <3>1, <3>2, CalldAssumption DEF CalldInv, KidInv
    <2>2. CASE s # e
      BY Zenon, <1>7, <2>2 DEF CalldInv, RetryInv
    <2> QED
      BY Zenon, <2>1, <2>2
  <1>14. LockInv'
    <2>1. \A l \in Lines : lock[l] # 0 =>
             /\ lock[l] \in DOMAIN kid' /\ kid'[lock[l]].line = l
             /\ \E s \in Slots : Serves(s, lock[l])'
      BY <1>1, <1>7, <1>8 DEF CalldInv, LockInv, Serves
    <2> QED
      BY <1>1, <1>8, <2>1 DEF CalldInv, LockInv
  <1>15. ServeInv'
    BY <1>1, <1>6, <1>7 DEF CalldInv, ServeInv
  <1> QED
    BY Zenon, <1>10, <1>11, <1>12, <1>13, <1>14, <1>15 DEF CalldInv

\* A client is accepted into a free entry, which no child is using.
LEMMA AcceptInto ==
  ASSUME CalldInv, NEW c \in listen, listen' = listen \ {c}, pc' = "loop",
         UNCHANGED <<cli, unread, given, kid, lock, i, back, rset, early>>,
         NEW f \in Slots, client[f].fd = NoFd, client' = [client EXCEPT ![f].fd = c]
  PROVE  CalldInv'
  <1>1. UNCHANGED <<cli, unread, given, kid, lock, i, back, rset, early>> /\ pc' = "loop"
    BY Zenon
  <1>2. listen' = listen \ {c}
    BY Zenon
  <1>3. client[f].fd = NoFd /\ client' = [client EXCEPT ![f].fd = c]
    BY Zenon
  <1>4. c \in Clients /\ c # NoFd /\ cli[c] # "new"
    BY Zenon, CalldAssumption DEF CalldInv, Types, SlotInv
  <1>5. /\ client' \in [Slots -> Slot] /\ client'[f].fd = c /\ client'[f].pid = client[f].pid
        /\ client'[f].childdone = client[f].childdone
        /\ \A s \in Slots : s # f => client'[s] = client[s]
    BY ZenonT(90), <1>3, <1>4 DEF CalldInv, Types, Slot
  <1>6. \A s \in Slots, p \in DOMAIN kid : Serves(s, p) => s # f /\ Serves(s, p)'
    <2>1. \A p \in DOMAIN kid : kid[p].cli # NoFd
      BY Zenon, CalldAssumption DEF CalldInv, Types, Kid
    <2> QED
      BY Zenon, <1>1, <1>3, <1>5, <2>1 DEF Serves
  <1>7. Types'
    BY Zenon, <1>1, <1>2, <1>5 DEF CalldInv, Types
  <1>8. SlotInv'
    <2>1. \A s \in Slots : client[s].fd # c
      BY Zenon, <1>2, <1>4 DEF CalldInv, SlotInv
    <2>2. \A s \in Slots : /\ client'[s].pid = client[s].pid
                           /\ client'[s].fd = IF s = f THEN c ELSE client[s].fd
      BY Zenon, <1>5
    <2>3. \A s, t \in Slots : client'[s].fd = client'[t].fd /\ client'[s].fd # NoFd => s = t
      BY <2>1, <2>2 DEF CalldInv, SlotInv
    <2>4. \A s \in Slots : client'[s].fd # NoFd =>
                            client'[s].fd \notin listen' /\ cli'[client'[s].fd] # "new"
      BY <1>1, <1>2, <1>4, <2>2 DEF CalldInv, SlotInv
    <2>5. /\ \A s \in Slots : client'[s].pid \in DOMAIN kid' \cup {0}
          /\ \A s, t \in Slots : client'[s].pid = client'[t].pid /\ client'[s].pid # 0 => s = t
      BY <1>1, <2>2 DEF CalldInv, SlotInv
    <2>6. (\A d \in listen' : cli'[d] # "new") /\ (\A d \in unread' : cli'[d] = "waiting")
      BY Zenon, <1>1, <1>2 DEF CalldInv, SlotInv
    <2> QED
      BY Zenon, <2>3, <2>4, <2>5, <2>6 DEF SlotInv
  <1>9. KidInv'
    BY <1>1, <1>6 DEF CalldInv, KidInv, Unreaped
  <1>10. RetryInv'
    BY <1>1, <1>3, <1>5 DEF CalldInv, RetryInv, Unreaped
  <1>11. LockInv'
    BY <1>1, <1>6 DEF CalldInv, LockInv
  <1>12. ServeInv'
    BY Zenon, <1>1 DEF ServeInv
  <1> QED
    BY Zenon, <1>7, <1>8, <1>9, <1>10, <1>11, <1>12 DEF CalldInv

\* The daemon starts with an empty client array and no line locked.
LEMMA CalldInit == Init /\ Counting => CalldInv
  <1> SUFFICES ASSUME Init, Counting PROVE CalldInv
    BY Zenon
  <1>1. DOMAIN kid = {} /\ kid \in [1 .. 0 -> Kid]
    BY DEF Init
  <1>2. client \in [Slots -> Slot] /\ \A s \in Slots : client[s].fd = NoFd /\ client[s].pid = 0
                                                       /\ client[s].childdone = 0
    <2> DEFINE free == [fd |-> NoFd, pid |-> 0, childdone |-> 0, sysftell |-> 0,
                        sysname |-> "none"]
    <2>1. free \in Slot /\ free.fd = NoFd /\ free.pid = 0 /\ free.childdone = 0
      BY Zenon DEF Slot
    <2>2. client = [s \in Slots |-> free]
      BY Zenon DEF Init
    <2> HIDE DEF free
    <2> QED
      BY Zenon, <2>1, <2>2
  <1>3. Types
    BY Zenon, <1>1, <1>2 DEF Init, Types
  <1>4. SlotInv /\ KidInv /\ RetryInv
    BY <1>1, <1>2 DEF Init, SlotInv, KidInv, RetryInv, Unreaped
  <1>5. LockInv /\ ServeInv
    BY Zenon, <1>1 DEF Init, LockInv, ServeInv
  <1> QED
    BY Zenon, <1>3, <1>4, <1>5 DEF CalldInv

-----------------------------------------------------------------------------
(* What the operators of Calld choose and count.                           *)

\* The children are numbered from 1, and the next one gets the next number.
LEMMA NextPid ==
  ASSUME Counting, NEW n \in Nat, kid \in [1 .. n -> Kid]
  PROVE  Cardinality(DOMAIN kid) + 1 = n + 1
  <1>1. DOMAIN kid = 1 .. n
    BY Zenon
  <1>2. Cardinality(1 .. n) = n
    BY Zenon DEF Counting
  <1> QED
    BY Zenon, <1>1, <1>2

\* A line of the Systems file.
LEMMA SystemsLine ==
  \A k \in 1 .. Len(Systems) : Systems[k] \in [name : STRING, line : Lines \cup {NoLine}]
  <1> DEFINE L == [name : STRING, line : Lines \cup {NoLine}]
  <1>1. Systems \in Seq(L)
    BY Zenon, CalldAssumption
  <1> HIDE DEF L
  <1>2. \A k \in 1 .. Len(Systems) : Systems[k] \in L
    BY <1>1
  <1> QED
    BY Zenon, <1>2 DEF L

\* request() stops at a line of the file for the client's system, which is free
\* or does not exist.
LEMMA StopsAt ==
  ASSUME Counting, NEW e \in Slot, NEW lk \in [Lines -> Nat], Stops(e, lk) # {},
         NEW k, k = CHOOSE k2 \in Stops(e, lk) : \A j \in Stops(e, lk) : k2 <= j
  PROVE  /\ k \in Nat
         /\ Systems[k] \in [name : STRING, line : Lines \cup {NoLine}]
         /\ Systems[k].line # NoLine => lk[Systems[k].line] = 0
  <1>1. Stops(e, lk) \subseteq Nat /\ Stops(e, lk) \subseteq 1 .. Len(Systems)
    BY CalldAssumption DEF Stops, Slot
  <1>2. k \in Stops(e, lk)
    <2>1. \E n \in Stops(e, lk) : \A m \in Stops(e, lk) : n <= m
      BY Zenon, <1>1 DEF Counting
    <2> QED
      BY Zenon, <2>1
  <1>3. Systems[k].line # NoLine => lk[Systems[k].line] = 0
    BY Zenon, <1>2 DEF Stops
  <1>4. k \in 1 .. Len(Systems)
    BY Zenon, <1>1, <1>2
  <1>5. Systems[k] \in [name : STRING, line : Lines \cup {NoLine}]
    BY Zenon, <1>4, SystemsLine
  <1> QED
    BY Zenon, <1>1, <1>2, <1>3, <1>5

\* Accept finds a free entry, the first: there are as many as clients.
LEMMA FreeSlot ==
  ASSUME Counting, Types, SlotInv, NEW c \in listen,
         NEW s, s = CHOOSE s2 \in Slots : /\ client[s2].fd = NoFd
                                          /\ \A t \in 1 .. s2 - 1 : client[t].fd # NoFd
  PROVE  s \in Slots /\ client[s].fd = NoFd
  <1> DEFINE Free == {t \in Slots : client[t].fd = NoFd}
  <1>1. Free # {}
    <2> SUFFICES ASSUME \A t \in Slots : client[t].fd # NoFd
                 PROVE  FALSE
      BY Zenon
    <2> DEFINE f == [t \in Slots |-> client[t].fd]
    <2>1. f \in [Slots -> Clients \ {c}]
      BY DEF Types, SlotInv, Slot
    <2>2. c \in Clients
      BY Zenon DEF Types
    <2>3. \E x, y \in Slots : x # y /\ f[x] = f[y]
      <3> HIDE DEF f
      <3> QED
        BY Zenon, <2>1, <2>2 DEF Counting
    <2> QED
      BY Zenon, <2>3 DEF SlotInv
  <1>2. PICK n \in Free : \A m \in Free : n <= m
    <2>1. Free \subseteq Nat
      BY Zenon, SlotNumbers
    <2> HIDE DEF Free
    <2> QED
      BY Zenon, <1>1, <2>1 DEF Counting
  <1>3. \A t \in 1 .. n - 1 : client[t].fd # NoFd
    BY <1>2, SlotNumbers DEF Slots
  <1> QED
    BY Zenon, <1>2, <1>3

-----------------------------------------------------------------------------
(* The steps that use them.                                                *)

\* serv_accept and client_add, in the first free slot or in a new one.
LEMMA AcceptStep ==
  ASSUME CalldInv, Accept
  PROVE  CalldInv'
  <1>1. /\ UNCHANGED <<cli, unread, given, kid, lock, i, back, rset, early>> /\ pc' = "loop"
    BY Zenon DEF Accept
  <1>2. PICK c \in listen :
          /\ listen' = listen \ {c}
          /\ LET s == CHOOSE s \in Slots : /\ client[s].fd = NoFd
                                           /\ \A t \in 1 .. s - 1 : client[t].fd # NoFd
             IN  client' = [client EXCEPT ![s].fd = c]
    BY Zenon DEF Accept
  <1>3. PICK f \in Slots : client[f].fd = NoFd /\ client' = [client EXCEPT ![f].fd = c]
    BY Zenon, <1>2, FreeSlot DEF CalldInv
  <1> QED
    BY Zenon, <1>1, <1>2, <1>3, AcceptInto

\* A request is read and answered, or starts a child for a line.
LEMMA RequestStep ==
  ASSUME CalldInv, NEW e, NEW lk, Asks(e, lk), Beside(e), Request(i, e, lk)
  PROVE  CalldInv'
  <1>1. CASE GiveUp(i, e, lk)
    BY Zenon, <1>1, GiveUpStep
  <1>2. CASE ~GiveUp(i, e, lk)
    <2>1. PICK n \in Nat : kid \in [1 .. n -> Kid]
      BY Zenon DEF CalldInv, Types
    <2> DEFINE j == CHOOSE k \in Stops(e, lk) : \A m \in Stops(e, lk) : k <= m
    <2>2. /\ Stops(e, lk) # {} /\ Systems[j].line # NoLine
          /\ kid' = [q \in 1 .. n + 1 |->
                       IF q < n + 1 THEN kid[q]
                       ELSE [st |-> "dialing", line |-> Systems[j].line,
                             cli |-> e.fd, name |-> Systems[j].name]]
          /\ client' = [client EXCEPT ![i] = Forked(e, n + 1, j)]
          /\ lock' = [lk EXCEPT ![Systems[j].line] = n + 1]
          /\ UNCHANGED <<cli, pc>>
      BY Zenon, <1>2, <2>1, NextPid DEF Request, CalldInv
    <2>3. e \in Slot /\ lk \in [Lines -> Nat] /\ Counting
      BY Zenon DEF Asks, CalldInv
    <2>4. /\ j \in Nat /\ Systems[j] \in [name : STRING, line : Lines \cup {NoLine}]
          /\ lk[Systems[j].line] = 0
      BY ONLY Zenon, <2>2, <2>3, StopsAt
    <2> HIDE DEF j
    <2>5. Forks(e, lk, n, j)
      BY Zenon, <2>1, <2>2, <2>4 DEF Forks
    <2> QED
      BY Zenon, <2>5, ForkStep
  <1> QED
    BY Zenon, <1>1, <1>2

\* One entry of child_done's loop.
LEMMA ScanStep ==
  ASSUME CalldInv, Scan
  PROVE  CalldInv'
  <1> DEFINE e == [client[i] EXCEPT !.childdone = 0]
  <1>1. /\ pc = "scan" /\ i \in Slots /\ i' = i + 1
        /\ UNCHANGED <<unread, given, listen, pending, chld_flag, back, rset, early>>
    BY Zenon DEF Scan
  <1>2. /\ e \in Slot /\ e.fd = client[i].fd /\ e.pid = client[i].pid /\ e.childdone = 0
        /\ client[i] \in Slot /\ i' \in Nat
    <2>1. i' \in Nat
      BY <1>1, SlotNumbers
    <2>2. client[i] \in Slot
      BY Zenon, <1>1 DEF CalldInv, Types
    <2> QED
      BY Zenon, <2>1, <2>2 DEF Slot
  <1>3. CASE UNCHANGED <<cli, kid, client, lock, pc>>
    <2>1. UNCHANGED shared
      BY Zenon, <1>1, <1>3 DEF shared
    <2>2. Types'
      BY Zenon, <1>1, <1>2, <1>3 DEF CalldInv, Types
    <2> QED
      BY Zenon, <1>1, <1>3, <2>1, <2>2, Frame DEF CalldInv, ServeInv
  <1>4. CASE client' = [client EXCEPT ![i] = e] /\ UNCHANGED <<cli, kid, lock, pc>>
    <2>1. /\ client' \in [Slots -> Slot]
          /\ \A s \in Slots : /\ client'[s].fd = client[s].fd /\ client'[s].pid = client[s].pid
                              /\ client'[s].childdone \in {0, client[s].childdone}
      <3>1. client \in [Slots -> Slot]
        BY Zenon DEF CalldInv, Types
      <3> HIDE DEF e
      <3>2. \A s \in Slots : client'[s] = IF s = i THEN e ELSE client[s]
        BY Zenon, <1>1, <1>4, <3>1
      <3> QED
        BY Zenon, <1>1, <1>2, <1>4, <3>1, <3>2
    <2>2. Types'
      BY Zenon, <1>1, <1>2, <1>4, <2>1 DEF CalldInv, Types
    <2>3. SlotInv'
      BY <1>1, <1>4, <2>1 DEF CalldInv, SlotInv
    <2>4. KidInv'
      BY <1>1, <1>4, <2>1 DEF CalldInv, KidInv, Unreaped, Serves
    <2>5. RetryInv'
      BY <1>1, <1>4, <2>1 DEF CalldInv, RetryInv, Unreaped
    <2>6. LockInv'
      BY <1>1, <1>4, <2>1 DEF CalldInv, LockInv, Serves
    <2> QED
      BY Zenon, <1>1, <1>4, <2>2, <2>3, <2>4, <2>5, <2>6 DEF CalldInv, ServeInv
  <1>5. CASE e.fd # NoFd /\ client[i].childdone = 2 /\ Request(i, e, LockRel(e.pid))
    <2>1. /\ e.fd \in Clients /\ cli[e.fd] = "waiting" /\ e.fd \notin unread
          /\ e.pid \notin Unreaped
      BY Zenon, <1>1, <1>2, <1>5 DEF CalldInv, RetryInv, Slot
    <2>2. \A p \in Unreaped : kid[p].cli # e.fd /\ p # e.pid
      BY <1>1, <1>2, <2>1, OneChild DEF CalldInv, Serves
    <2>3. /\ LockRel(e.pid) \in [Lines -> Nat]
          /\ \A l \in Lines : LockRel(e.pid)[l] = IF lock[l] = e.pid THEN 0 ELSE lock[l]
      BY Zenon DEF LockRel, CalldInv, Types
    <2>4. Asks(e, LockRel(e.pid))
      <3> HIDE DEF e
      <3> QED
        BY Zenon, <1>2, <2>1, <2>2, <2>3 DEF Asks
    <2>5. Beside(e)
      BY Zenon, <1>1, <2>1 DEF Beside
    <2> HIDE DEF e
    <2> QED
      BY Zenon, <1>5, <2>4, <2>5, RequestStep
  <1> QED
    BY Zenon, <1>3, <1>4, <1>5 DEF Scan

\* One entry of the loop that reads from the clients.  A client that hangs up
\* has no child left, and its lock is released.
LEMMA ServeStep ==
  ASSUME CalldInv, Serve
  PROVE  CalldInv'
  <1> DEFINE e == client[i]
             fresh == [e EXCEPT !.childdone = 0, !.sysftell = 0, !.sysname = Want[e.fd]]
  <1>1. /\ pc = "serve" /\ i \in Slots /\ i' = i + 1
        /\ UNCHANGED <<given, listen, pending, chld_flag, back, rset, early>>
    BY Zenon DEF Serve
  <1>2. e \in Slot /\ i' \in Nat /\ rset \subseteq Clients /\ e.fd \in Clients \cup {NoFd}
    <2>1. i' \in Nat
      BY <1>1, SlotNumbers
    <2>2. e \in Slot /\ rset \subseteq Clients
      BY Zenon, <1>1 DEF CalldInv, Types
    <2> QED
      BY Zenon, <2>1, <2>2 DEF Slot
  <1>3. CASE UNCHANGED <<cli, unread, kid, client, lock, pc>>
    <2>1. UNCHANGED shared
      BY Zenon, <1>1, <1>3 DEF shared
    <2>2. Types'
      BY Zenon, <1>1, <1>2, <1>3 DEF CalldInv, Types
    <2>3. ServeInv'
      <3>1. \A s \in Slots : s >= i + 1 => s >= i
        BY <1>1, SlotNumbers
      <3> QED
        BY Zenon, <1>1, <1>3, <3>1 DEF CalldInv, ServeInv
    <2> QED
      BY Zenon, <2>1, <2>2, <2>3, Frame DEF CalldInv
  <1>4. CASE /\ e.fd \in rset \cap unread /\ unread' = unread \ {e.fd}
             /\ Request(i, fresh, lock)
    <2>1. e.fd \in Clients /\ cli[e.fd] = "waiting"
      BY Zenon, <1>2, <1>4 DEF CalldInv, SlotInv
    <2>2. /\ fresh \in Slot /\ fresh.fd = e.fd /\ fresh.pid = e.pid /\ fresh.childdone = 0
      BY ZenonT(30), <1>2, <2>1, CalldAssumption DEF Slot
    <2>3. \A p \in DOMAIN kid : kid[p].cli # e.fd
      BY Zenon, <1>4 DEF CalldInv, KidInv
    <2>4. \A p \in Unreaped : kid[p].cli # e.fd /\ p # e.pid
      <3>1. \A p \in Unreaped : p \in DOMAIN kid
        BY Zenon DEF Unreaped
      <3> QED
        BY <1>1, <2>3, <3>1, OneChild DEF CalldInv, Serves
    <2>5. ASSUME NEW l \in Lines, lock[l] # 0
          PROVE  lock[l] # e.pid
      <3>1. PICK s \in Slots : Serves(s, lock[l])
        BY Zenon, <2>5 DEF CalldInv, LockInv
      <3>2. lock[l] \in DOMAIN kid
        BY Zenon, <2>5 DEF CalldInv, LockInv
      <3> QED
        BY Zenon, <1>1, <2>3, <2>5, <3>1, <3>2 DEF CalldInv, SlotInv, Serves
    <2>6. lock \in [Lines -> Nat]
      BY Zenon DEF CalldInv, Types
    <2>7. Asks(fresh, lock)
      <3> HIDE DEF fresh
      <3> QED
        BY Zenon, <2>1, <2>2, <2>4, <2>5, <2>6 DEF Asks
    <2>8. Beside(fresh)
      <3> HIDE DEF fresh
      <3> QED
        BY Zenon, <1>1, <1>4, <2>2 DEF Beside
    <2> HIDE DEF fresh
    <2> QED
      BY Zenon, <1>4, <2>7, <2>8, RequestStep
  <1>5. CASE /\ e.fd \in rset \ unread
             /\ lock' = HangUp(e)
             /\ client' = [client EXCEPT ![i].fd = NoFd]
             /\ UNCHANGED <<cli, unread, kid, pc>>
    <2>1. e.fd \in Clients
      BY Zenon, <1>2, <1>5
    <2> HIDE DEF e
    <2>2. e = client[i]
      BY Zenon DEF e
    <2>3. HangsUp(e)
      BY Zenon, <1>1, <1>2, <1>5, <2>1, <2>2 DEF HangsUp
    <2> QED
      BY Zenon, <2>3, HangUpStep
  <1> QED
    BY Zenon, <1>3, <1>4, <1>5 DEF Serve

\* Every step of the daemon, its children and its clients keeps the invariant.
LEMMA CalldNext == DInv /\ [Next]_vars => DInv'
  <1> SUFFICES ASSUME DInv, [Next]_vars
               PROVE  DInv'
    BY Zenon
  <1>1. early => early'
    BY ZenonT(30) DEF Next, Connect, Send, Close, Child, ChildSends, ChildSucceeds, ChildFails, SigChld,
           Daemon, Loop, Enter, ChildDone, Scan, ScanEnds, Accept, Select, Serve, ServeEnds, Quits, vars
  <1>2. ASSUME CalldInv, ~early'
        PROVE  CalldInv'
    BY Zenon, <1>2, LoopStep, ClientStep, ChildStep, SigChldStep, AcceptStep, ScanStep, ServeStep
       DEF Next, Daemon
  <1> QED
    BY Zenon, <1>1, <1>2 DEF DInv

\* No two children and clients use a line: its lock names one process.
LEMMA Exclusive == DInv => LineExclusive
  <1> SUFFICES ASSUME CalldInv, NEW l \in Lines, NEW u \in Users(l), NEW v \in Users(l)
               PROVE  u = v
    BY Zenon DEF DInv, LineExclusive
  <1>1. \A p \in DOMAIN kid : kid[p].line = l /\ kid[p].st = "dialing" => lock[l] = p
    BY Zenon DEF CalldInv, KidInv, Unreaped
  <1>2. \A c \in Clients : given[c] = l /\ cli[c] = "answered" =>
           kid[lock[l]].cli = c /\ kid[lock[l]].st # "dialing"
    BY CalldAssumption DEF CalldInv, LockInv
  <1> QED
    BY Zenon, <1>1, <1>2 DEF Users

\* A locked line belongs to a connected client.
LEMMA Owned == DInv => LocksOwned
  <1> SUFFICES ASSUME CalldInv, NEW l \in Lines, lock[l] # 0
               PROVE  \E s \in Slots : client[s].fd # NoFd /\ client[s].pid = lock[l]
    BY Zenon DEF DInv, LocksOwned
  <1>1. lock[l] \in DOMAIN kid /\ \E s \in Slots : Serves(s, lock[l])
    BY Zenon DEF CalldInv, LockInv
  <1>2. kid[lock[l]].cli # NoFd
    BY Zenon, <1>1, CalldAssumption DEF CalldInv, Types, Kid
  <1> QED
    BY Zenon, <1>1, <1>2 DEF Serves

-----------------------------------------------------------------------------
(* The theorems.                                                           *)

INSTANCE FiniteSetTheorems

\* A set of naturals that is not empty has a least element.
LEMMA Least ==
  ASSUME NEW S \in SUBSET Nat, S # {}
  PROVE  \E n \in S : \A m \in S : n <= m
  <1>1. PICK n \in S : \A m \in S : ~(<<m, n>> \in OpToRel(<, Nat))
    BY NatLessThanWellFounded, WFMin, Zenon
  <1>2. \A m \in S : ~(m < n)
    BY Zenon, <1>1 DEF OpToRel
  <1> QED
    BY <1>2

\* The entries and the clients are finitely many.
LEMMA NumbersCount == Counting
  <1>1. \A n \in Nat : Cardinality(1 .. n) = n
    BY FS_Interval
  <1>2. ASSUME NEW c \in Clients, NEW f \in [Slots -> Clients \ {c}]
        PROVE  \E x, y \in Slots : x # y /\ f[x] = f[y]
    <2>1. IsFiniteSet(Slots) /\ Cardinality(Slots) = Cardinality(Clients)
      BY SlotNumbers, FS_Interval DEF Slots
    <2>2. IsFiniteSet(Clients \ {c}) /\ Cardinality(Clients \ {c}) = Cardinality(Clients) - 1
      BY Zenon, CalldAssumption, FS_RemoveElement
    <2>3. Cardinality(Clients \ {c}) < Cardinality(Slots)
      BY <2>1, <2>2, SlotNumbers
    <2> QED
      BY Zenon, <2>1, <2>2, <2>3, FS_PigeonHole
  <1> QED
    BY Zenon, <1>1, <1>2, Least DEF Counting

\* A line is used by one child or client at a time, through retries and
\* hand-overs from child to client, for any number of clients and lines and any
\* Systems file, as long as no client is gone before its child is.
THEOREM LinesExclusive == Spec => []LineExclusive
  BY Exclusive, NumbersCount, CalldInit, CalldNext, PTL DEF Spec, DInv

\* A locked line belongs to a connected client, whose end of file releases it,
\* under the same proviso: no lock of the lock table is left behind.
THEOREM NoLockLeft == Spec => []LocksOwned
  BY Owned, NumbersCount, CalldInit, CalldNext, PTL DEF Spec, DInv

\* SIGPIPE never ends the daemon, and neither does client_sigchld, which exits
\* when it finds no entry for a child: for any clients, lines and Systems file,
\* through retries and whatever the order of signals, as long as no client is
\* gone before its child is.  Its exits by log_sys and log_quit remain.
THEOREM DaemonStaysUp == Spec => []StaysUp
  <1>1. DInv => StaysUp
    BY Zenon DEF DInv, CalldInv, Types, StaysUp
  <1> QED
    BY <1>1, NumbersCount, CalldInit, CalldNext, PTL DEF Spec, DInv
=============================================================================
