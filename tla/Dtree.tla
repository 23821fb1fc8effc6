------------------------------- MODULE Dtree -------------------------------
(***************************************************************************)
(* The directory tree monitor tlpi-dist/inotify/inotify_dtree.c: a cache   *)
(* of watch descriptors and pathnames that follows the directories below   *)
(* the trees named on the command line, while other processes create,      *)
(* remove and rename directories.                                          *)
(*                                                                         *)
(* A directory is an inode number, a pathname the sequence of the names    *)
(* that lead to it from Top, the directory the root trees lie in and that  *)
(* is not watched itself.  The kernel's half (the tree, the watches, the   *)
(* event queue) is external; every system call of the program is a step of *)
(* its own, and so is each of the two events of a rename.                  *)
(***************************************************************************)
EXTENDS Integers, Sequences, FiniteSets, Functions

CONSTANTS
    Names,        \* the names a directory may have
    MaxDir,       \* the inodes are 1 .. MaxDir
    Setups,       \* where to start: [tree, roots, ops, commands] records, the
                  \* tree (inode -> [parent, name]), the command line (a sequence
                  \* of pathnames), the bounds on ops and on cmds
    Mutators,     \* the processes that change the tree
    MaxQueue,     \* events the kernel queues before it overflows
    ReadMax       \* readBufferSize (option -b): events one read returns

Top == 0
NoWd == -1
Gone == -1
Inodes == 1 .. MaxDir

\* The queue holds an event, a read returns one, and a tree is made of inodes.
ASSUME DtreeAssumption ==
    /\ MaxDir \in Nat /\ MaxQueue \in Nat \ {0} /\ ReadMax \in Nat \ {0}
    /\ \A s \in Setups :
          /\ DOMAIN s.tree \subseteq Inodes /\ s.ops \in Nat
          /\ s.tree \in [DOMAIN s.tree -> [parent : Inodes \cup {Top}, name : Names]]

VARIABLES
    place,    \* the tree: inode -> [parent, name]
    emit,     \* mutator -> events of its rename that are still to come
    ops,      \* changes of the tree still to come
    watch,    \* wd -> [dir, self]: the watches of the inotify instance
    nextWd,   \* the next watch descriptor of the instance
    queue,    \* events that have not been read
    pc,       \* where the program is
    job,      \* the command being executed, "event" if there is none
    ready,    \* select reported the inotify descriptor readable
    roots,    \* rootDirPaths, without those that were zapped
    cache,    \* wlCache: wd -> path
    buf,      \* events that were read and are to be processed
    firstTry, \* as in processInotifyEvents
    late,     \* the alarm of the secondary read went off before it
    walk,     \* nftw: the steps to come, <<path, step, directory>>
    zap,      \* the argument of zapSubtree, or of the command
    cmds,     \* commands still to be typed in
    race      \* history: "moving" after a rename, "leaving" after a root path was
              \* lost, "raced" and "excused" once these met another change;
              \* "raced" also once a walk went astray

tree == <<place, emit, ops>>
kernel == <<watch, nextWd, queue>>
program == <<pc, job, ready, roots, cache, buf, firstTry, late, walk, zap, cmds>>
vars == <<tree, kernel, program, race>>

-----------------------------------------------------------------------------
(* The tree and the pathnames. *)

Exists(d) == d \in DOMAIN place \cup {Top}

Children(d) == {c \in DOMAIN place : place[c].parent = d}

PathOf(d) ==
    LET path[x \in DOMAIN place \cup {Top}] ==
            IF x = Top THEN << >> ELSE Append(path[place[x].parent], place[x].name)
    IN  path[d]

At(path) == {d \in DOMAIN place : PathOf(d) = path}

\* The test that rewriteCachedPaths and zapSubtree apply to a cached path.
Under(prefix, path) ==
    Len(prefix) <= Len(path) /\ SubSeq(path, 1, Len(prefix)) = prefix

IsRoot(path) == path \in Range(roots)

-----------------------------------------------------------------------------
(* The kernel's half of inotify. *)

WatchOf(d) == {w \in DOMAIN watch : watch[w].dir = d}

Event(w, mask, name, cookie) ==
    [wd |-> w, mask |-> mask, name |-> name, cookie |-> cookie]

NoName == "none"
Overflow == Event(NoWd, "Q_OVERFLOW", NoName, 0)

\* Events equal to the last one queued are merged with it; the first one that
\* does not fit leaves a mark, and those after it are lost.
Enqueue(q, e) ==
    IF q # << >> /\ q[Len(q)] = e THEN q
    ELSE IF Len(q) < MaxQueue THEN Append(q, e)
    ELSE IF q[Len(q)] = Overflow THEN q ELSE Append(q, Overflow)

\* The queue after an event for directory d, which it gets if it is watched.
Posted(d, mask, name, cookie) ==
    IF WatchOf(d) = {} THEN queue
    ELSE Enqueue(queue, Event(CHOOSE w \in WatchOf(d) : TRUE, mask, name, cookie))

Without(f, S) == [x \in DOMAIN f \ S |-> f[x]]
With(f, x, y) == [z \in DOMAIN f \cup {x} |-> IF z = x THEN y ELSE f[z]]

-----------------------------------------------------------------------------
(* The processes that change the tree.                                     *)

Idle == /\ pc = "select"
        /\ queue = << >>
        /\ \A m \in Mutators : emit[m] = << >>

\* A rename, and the loss of a root path, race with what the program has not
\* followed yet and with the changes until it has followed them.
Late(r) == CASE r = "moving" -> "raced" [] r = "leaving" -> "excused" [] OTHER -> r
Raced == IF Idle THEN race ELSE Late(race)
Moved(kind) ==
    LET now == IF Idle THEN kind ELSE Late(kind)
    IN  IF "excused" \in {Raced, now} THEN "excused"
        ELSE IF Raced = "raced" THEN "raced" ELSE now

\* Two renames the program is not made to follow: of a directory above a root
\* path, and of a root path into another tree that it watches.
Unfollowed(d, p) ==
    \/ \E r \in Range(roots) : Under(PathOf(d), r) /\ PathOf(d) # r
    \/ IsRoot(PathOf(d)) /\ WatchOf(p) # {}

Kind(d) == IF IsRoot(PathOf(d)) THEN "leaving" ELSE "moving"

CanChange(m) == emit[m] = << >> /\ ops > 0 /\ pc # "exited"

Free(p, n) == ~\E c \in Children(p) : place[c].name = n

Mkdir(m) ==
    /\ CanChange(m)
    /\ \E p \in DOMAIN place \cup {Top}, n \in Names :
         /\ Free(p, n)
         /\ DOMAIN place # Inodes
         /\ LET d == CHOOSE d \in Inodes \ DOMAIN place :
                        \A e \in Inodes \ DOMAIN place : d <= e
            IN  place' = With(place, d, [parent |-> p, name |-> n])
         /\ queue' = Posted(p, "CREATE", n, 0)
    /\ ops' = ops - 1
    /\ race' = Raced
    /\ UNCHANGED <<emit, watch, nextWd, program>>

\* The directory's own watch goes with it, and what nftw has open of it is empty.
Rmdir(m) ==
    /\ CanChange(m)
    /\ \E d \in DOMAIN place :
         /\ Children(d) = {}
         /\ place' = Without(place, {d})
         /\ watch' = Without(watch, WatchOf(d))
         /\ queue' = IF WatchOf(d) = {} THEN queue
                     ELSE LET w == CHOOSE w \in WatchOf(d) : TRUE
                          IN  Enqueue(Enqueue(queue, Event(w, "DELETE_SELF", NoName, 0)),
                                      Event(w, "IGNORED", NoName, 0))
         /\ walk' = [i \in DOMAIN walk |->
                       IF walk[i][3] = d THEN [walk[i] EXCEPT ![3] = Gone] ELSE walk[i]]
         /\ race' = IF IsRoot(PathOf(d)) THEN Moved("leaving") ELSE Raced
    /\ ops' = ops - 1
    /\ UNCHANGED <<emit, nextWd, pc, job, ready, roots, cache, buf, firstTry, late, zap, cmds>>

\* rename(): the tree changes first, the events follow one by one.
Rename(m) ==
    /\ CanChange(m)
    /\ \E d \in DOMAIN place, p \in DOMAIN place \cup {Top}, n \in Names :
         /\ Free(p, n)
         /\ ~Under(PathOf(d), PathOf(p))
         /\ place' = [place EXCEPT ![d] = [parent |-> p, name |-> n]]
         /\ emit' = [emit EXCEPT ![m] =
                       << [dir |-> place[d].parent, mask |-> "MOVED_FROM",
                           name |-> place[d].name, cookie |-> ops],
                          [dir |-> p, mask |-> "MOVED_TO",
                           name |-> n, cookie |-> ops],
                          [dir |-> d, mask |-> "MOVE_SELF",
                           name |-> NoName, cookie |-> 0] >>]
         /\ race' = IF Unfollowed(d, p) THEN "excused" ELSE Moved(Kind(d))
    /\ ops' = ops - 1
    /\ UNCHANGED <<kernel, program>>

\* MOVE_SELF is in the mask of the watches of the root paths only.
Wanted(e) == e.mask = "MOVE_SELF" => \E w \in WatchOf(e.dir) : watch[w].self

Notify(m) ==
    /\ emit[m] # << >>
    /\ LET e == Head(emit[m])
       IN  queue' = IF Wanted(e) THEN Posted(e.dir, e.mask, e.name, e.cookie) ELSE queue
    /\ emit' = [emit EXCEPT ![m] = Tail(@)]
    /\ UNCHANGED <<place, ops, watch, nextWd, program, race>>

-----------------------------------------------------------------------------
(* Walks and zaps: the loops of the program that make a system call for    *)
(* each directory.                                                         *)

\* watchSubtree for each of the paths: a call of nftw.
Visits(paths) == [i \in DOMAIN paths |-> <<paths[i], "nftw", Top>>]

\* Where the program goes on after the walk or the zap that job asked for.
Resume == IF job = "event" THEN IF buf = << >> THEN "select" ELSE "next"
          ELSE IF ready THEN "read" ELSE "select"

\* Mutant: the entries of the old instance stay.
MutFreeCache == cache
FreeCache == << >>

\* close(inotifyFd), inotify_init(), freeCache(), a walk of every root path.
Reinitialize ==
    /\ watch' = << >>
    /\ nextWd' = 1
    /\ queue' = << >>
    /\ cache' = FreeCache
    /\ buf' = << >>
    /\ walk' = Visits(roots)
    /\ pc' = "walk"

\* inotify_add_watch() of the directory found at the pathname: the wd it has
\* already, with a new mask, or a new one.
TraverseTree(path, d) ==
    LET w == IF WatchOf(d) = {} THEN nextWd ELSE CHOOSE w \in WatchOf(d) : TRUE
    IN  /\ watch' = With(watch, w, [dir |-> d, self |-> IsRoot(path)])
        /\ nextWd' = IF w = nextWd THEN nextWd + 1 ELSE nextWd
        /\ cache' = IF w \in DOMAIN cache THEN cache ELSE With(cache, w, path)

\* nftw() stats a directory, opens it, calls traverseTree with its pathname and
\* lists it.  All but the first are looked up in the directory that was listed.
AtStep(steps) == pc = "walk" /\ walk # << >> /\ Head(walk)[2] \in steps
walkPath == Head(walk)[1]
walkDir == Head(walk)[3]
Then(step, d) == walk' = <<<<walkPath, step, d>>>> \o Tail(walk)

Found == IF walkDir = Top THEN At(walkPath)
         ELSE {c \in Children(walkDir) : place[c].name = walkPath[Len(walkPath)]}

\* A walk that goes astray may leave directories without a watch.
Astray == IF race = "excused" THEN race ELSE "raced"

\* What is gone by then is passed over.
StatDir ==
    /\ AtStep({"nftw", "stat"})
    /\ IF Found = {} THEN walk' = Tail(walk) ELSE Then("open", walkDir)
    /\ UNCHANGED <<tree, kernel, pc, job, ready, roots, cache, buf, firstTry, late,
                   zap, cmds, race>>

\* nftw() returns -1, which watchDir logs: the calls for other root paths are left.
Abandon == SelectSeq(Tail(walk), LAMBDA step : step[2] = "nftw")

OpenDir ==
    /\ AtStep({"open"})
    /\ \/ \E d \in Found : Then("visit", d) /\ UNCHANGED race
       \/ Found = {} /\ walk' = Abandon /\ race' = Astray
    /\ UNCHANGED <<tree, kernel, pc, job, ready, roots, cache, buf, firstTry, late,
                   zap, cmds>>

\* Nothing may be found at the pathname (ENOENT), or another directory than the
\* one that nftw has open.
Visit ==
    /\ AtStep({"visit"})
    /\ IF At(walkPath) = {} THEN UNCHANGED <<watch, nextWd, cache>>
       ELSE \E d \in At(walkPath) : TraverseTree(walkPath, d)
    /\ Then("list", walkDir)
    /\ race' = IF At(walkPath) \subseteq {walkDir} THEN race ELSE Astray
    /\ UNCHANGED <<tree, queue, pc, job, ready, roots, buf, firstTry, late, zap, cmds>>

List ==
    /\ AtStep({"list"})
    /\ LET names == {place[c].name : c \in Children(walkDir)}
       IN  \E s \in Bijection(1 .. Cardinality(names), names) :
             walk' = [i \in DOMAIN s |-> <<Append(walkPath, s[i]), "stat", walkDir>>] \o Tail(walk)
    /\ UNCHANGED <<tree, kernel, pc, job, ready, roots, cache, buf, firstTry, late,
                   zap, cmds, race>>

WalkEnds ==
    /\ pc = "walk" /\ walk = << >>
    /\ pc' = Resume
    /\ job' = IF pc' = "read" THEN job ELSE "event"
    /\ UNCHANGED <<tree, kernel, ready, roots, cache, buf, firstTry, late, walk,
                   zap, cmds, race>>

Matching == {w \in DOMAIN cache : Under(zap, cache[w])}

\* One turn of zapSubtree's loop: inotify_rm_watch() leaves an IGNORED event.
ZapOne ==
    /\ pc = "zap"
    /\ \E w \in Matching \cap DOMAIN watch :
         /\ watch' = Without(watch, {w})
         /\ queue' = Enqueue(queue, Event(w, "IGNORED", NoName, 0))
         /\ cache' = Without(cache, {w})
    /\ UNCHANGED <<tree, nextWd, pc, job, ready, roots, buf, firstTry, late, walk, zap,
                   cmds, race>>

\* The command a goes on to walk the tree.
ZapDone == IF job = "a" THEN pc' = "walk" /\ walk' = Visits(<<zap>>)
                        ELSE pc' = Resume /\ UNCHANGED walk

\* inotify_rm_watch() fails: after an event everything is rebuilt.
ZapFails ==
    /\ pc = "zap"
    /\ Matching \ DOMAIN watch # {}
    /\ IF job = "event" THEN Reinitialize ELSE ZapDone /\ UNCHANGED <<kernel, cache, buf>>
    /\ zap' = << >>
    /\ UNCHANGED <<tree, job, ready, roots, firstTry, late, cmds, race>>

ZapEnds ==
    /\ pc = "zap"
    /\ Matching = {}
    /\ ZapDone
    /\ zap' = << >>
    /\ UNCHANGED <<tree, kernel, job, ready, roots, cache, buf, firstTry, late, cmds, race>>

-----------------------------------------------------------------------------
(* processNextInotifyEvent                                                 *)

ev == Head(buf)
EvPath == Append(cache[ev.wd], ev.name)

Checked(e) == e.wd # NoWd /\ e.mask # "IGNORED"

\* findWatchChecked() succeeds, for the events it is called for.
Next1 == pc = "next" /\ (Checked(ev) => ev.wd \in DOMAIN cache)

Consume(n) == buf' = SubSeq(buf, n + 1, Len(buf)) /\ firstTry' = TRUE

\* The end of the buffer ends the loop of processInotifyEvents.
AtNext == pc' = IF buf' = << >> THEN "select" ELSE "next"

UnknownWatch ==
    /\ pc = "next"
    /\ Checked(ev) /\ ev.wd \notin DOMAIN cache
    /\ Reinitialize
    /\ UNCHANGED <<tree, job, ready, roots, firstTry, late, zap, cmds, race>>

\* A directory appeared: it is walked unless its pathname is in the cache.
NewDirectory ==
    /\ Next1
    /\ ev.mask \in {"CREATE", "MOVED_TO"}
    /\ Consume(1)
    /\ IF EvPath \in Range(cache) THEN AtNext /\ UNCHANGED walk
       ELSE pc' = "walk" /\ walk' = Visits(<<EvPath>>)
    /\ UNCHANGED <<tree, kernel, job, ready, roots, cache, late, zap, cmds, race>>

\* zapRootDirPath: the program ends with its last root path.
DropRoot(path) == roots' = SelectSeq(roots, LAMBDA r : r # path)

DeleteSelf ==
    /\ Next1
    /\ ev.mask = "DELETE_SELF"
    /\ Consume(1)
    /\ cache' = Without(cache, {ev.wd})
    /\ IF IsRoot(cache[ev.wd]) THEN DropRoot(cache[ev.wd]) ELSE UNCHANGED roots
    /\ IF roots' = << >> THEN pc' = "exited" ELSE AtNext
    /\ UNCHANGED <<tree, kernel, job, ready, late, walk, zap, cmds, race>>

\* The next event of the buffer completes the rename.
Paired == Len(buf) > 1 /\ buf[2].mask = "MOVED_TO" /\ buf[2].cookie = ev.cookie

\* Mutant: the subdirectories keep their old pathnames.
MutRewriteCachedPaths(old, new) ==
    [w \in DOMAIN cache |-> IF cache[w] = old THEN new ELSE cache[w]]
RewriteCachedPaths(old, new) ==
    [w \in DOMAIN cache |->
       IF Under(old, cache[w])
       THEN new \o SubSeq(cache[w], Len(old) + 1, Len(cache[w])) ELSE cache[w]]

MovedWithin ==
    /\ Next1
    /\ ev.mask = "MOVED_FROM" /\ Paired
    /\ IF buf[2].wd \in DOMAIN cache
       THEN /\ cache' = RewriteCachedPaths(EvPath, Append(cache[buf[2].wd], buf[2].name))
            /\ Consume(2) /\ AtNext
            /\ UNCHANGED <<kernel, walk>>
       ELSE Reinitialize /\ UNCHANGED firstTry
    /\ UNCHANGED <<tree, job, ready, roots, late, zap, cmds, race>>

MovedOut ==
    /\ Next1
    /\ ev.mask = "MOVED_FROM" /\ ~Paired
    /\ Len(buf) > 1 \/ ~firstTry
    /\ zap' = EvPath
    /\ pc' = "zap"
    /\ Consume(1)
    /\ UNCHANGED <<tree, kernel, job, ready, roots, cache, late, walk, cmds, race>>

\* Mutant: the event is taken for a new one after the second read.
MutSecondTry == TRUE
SecondTry == FALSE

\* The last event of the buffer is a MOVED_FROM: ualarm() and a second read.
Hanging ==
    /\ Next1
    /\ ev.mask = "MOVED_FROM" /\ Len(buf) = 1 /\ firstTry
    /\ firstTry' = SecondTry
    /\ late' \in BOOLEAN
    /\ pc' = "hang"
    /\ UNCHANGED <<tree, kernel, job, ready, roots, cache, buf, walk, zap, cmds, race>>

QueueOverflow ==
    /\ Next1
    /\ ev.mask = "Q_OVERFLOW"
    /\ Reinitialize
    /\ UNCHANGED <<tree, job, ready, roots, firstTry, late, zap, cmds, race>>

RootMoved ==
    /\ Next1
    /\ ev.mask = "MOVE_SELF" /\ IsRoot(cache[ev.wd])
    /\ DropRoot(cache[ev.wd])
    /\ zap' = cache[ev.wd]
    /\ pc' = IF roots' = << >> THEN "exited" ELSE "zap"
    /\ Consume(1)
    /\ UNCHANGED <<tree, kernel, job, ready, cache, late, walk, cmds, race>>

NothingToDo ==
    /\ Next1
    /\ \/ ev.mask = "IGNORED"
       \/ ev.mask = "MOVE_SELF" /\ ~IsRoot(cache[ev.wd])
    /\ Consume(1) /\ AtNext
    /\ UNCHANGED <<tree, kernel, job, ready, roots, cache, late, walk, zap, cmds, race>>

-----------------------------------------------------------------------------
(* main, processInotifyEvents and executeCommand                           *)

Select ==
    /\ pc = "select" /\ queue # << >>
    /\ ready' = TRUE /\ pc' = "read"
    /\ UNCHANGED <<tree, kernel, job, roots, cache, buf, firstTry, late, walk, zap,
                   cmds, race>>

\* The first read of processInotifyEvents blocks until there is an event.
Read ==
    /\ pc = "read" /\ queue # << >>
    /\ LET n == IF Len(queue) < ReadMax THEN Len(queue) ELSE ReadMax
       IN  buf' = SubSeq(queue, 1, n) /\ queue' = SubSeq(queue, n + 1, Len(queue))
    /\ job' = "event" /\ firstTry' = TRUE /\ ready' = FALSE /\ pc' = "next"
    /\ UNCHANGED <<tree, watch, nextWd, roots, cache, late, walk, zap, cmds, race>>

\* The secondary read, and the alarm that interrupts it.  (The code then takes
\* one byte off numRead; the one event that is left is processed all the same.)
ReadMore ==
    /\ pc = "hang" /\ queue # << >>
    /\ buf' = buf \o queue /\ queue' = << >>
    /\ pc' = "next" /\ late' = FALSE
    /\ UNCHANGED <<tree, watch, nextWd, job, ready, roots, cache, firstTry, walk, zap,
                   cmds, race>>

TimesOut ==
    /\ pc = "hang" /\ ~late
    /\ pc' = "next"
    /\ UNCHANGED <<tree, kernel, job, ready, roots, cache, buf, firstTry, late, walk,
                   zap, cmds, race>>

\* A line typed in; select may have reported events as well.  The argument of a
\* and z is one of the root paths.  After z the cache leaves out what it was
\* told to.  The other commands change nothing.
Command ==
    /\ pc = "select" /\ cmds > 0
    /\ cmds' = cmds - 1
    /\ ready' = (queue # << >>)
    /\ job' \in {"a", "z", "0", "q"}
    /\ \/ /\ job' \in {"a", "z"} /\ pc' = "zap"
          /\ zap' \in Range(roots)
          /\ UNCHANGED <<kernel, cache, buf, walk>>
       \/ job' = "0" /\ Reinitialize /\ UNCHANGED zap
       \/ job' = "q" /\ pc' = "exited" /\ UNCHANGED <<kernel, cache, buf, walk, zap>>
    /\ race' = IF job' = "z" THEN "excused" ELSE Raced
    /\ UNCHANGED <<tree, roots, firstTry, late>>

-----------------------------------------------------------------------------
Init ==
    /\ \E s \in Setups :
         /\ place = s.tree /\ roots = s.roots
         /\ ops = s.ops /\ cmds = s.commands
         /\ walk = Visits(s.roots)
    /\ emit = [m \in Mutators |-> << >>]
    /\ watch = << >> /\ nextWd = 1 /\ queue = << >>
    /\ cache = << >> /\ buf = << >> /\ firstTry = TRUE
    /\ pc = "walk" /\ job = "event"
    /\ ready = FALSE /\ late = FALSE
    /\ zap = << >>
    /\ race = "none"

Change(m) == Mkdir(m) \/ Rmdir(m) \/ Rename(m)

Walk == StatDir \/ OpenDir \/ Visit \/ List \/ WalkEnds
Zap == ZapOne \/ ZapFails \/ ZapEnds
ProcessNext == \/ UnknownWatch \/ NewDirectory \/ DeleteSelf \/ MovedWithin
               \/ MovedOut \/ Hanging \/ QueueOverflow \/ RootMoved \/ NothingToDo

Program == Walk \/ Zap \/ ProcessNext \/ Select \/ Read \/ ReadMore \/ TimesOut

Next == Program \/ Command \/ \E m \in Mutators : Change(m) \/ Notify(m)

Spec == Init /\ [][Next]_vars
FairSpec == Spec /\ WF_vars(Program) /\ \A m \in Mutators : WF_vars(Notify(m))

-----------------------------------------------------------------------------
Below(paths) == {d \in DOMAIN place : \E r \in Range(paths) : Under(r, PathOf(d))}

\* The cache holds the directories below the root paths, each with the wd
\* that the kernel watches it by and with the pathname it has.
InStep ==
    /\ DOMAIN cache = DOMAIN watch
    /\ {<<watch[w].dir, cache[w]>> : w \in DOMAIN watch}
          = {<<d, PathOf(d)>> : d \in Below(roots)}

\* Whenever every event has been processed the cache agrees with the tree,
\* whatever directories were created and removed meanwhile, during rebuilds and
\* queue overflows too, provided that no walk went astray and that each rename
\* (and each removal of a root path) had the program to itself.  A walk goes
\* astray when a directory is removed between nftw's stat and its opendir, which
\* ends it, or is replaced by another one before traverseTree is called.  A
\* rename has the program to itself when it came after the program had caught
\* up, and the next change after the program had caught up with it.
Consistent == race \notin {"raced", "excused"} /\ Idle => InStep

\* As the comment at the head of inotify_dtree.c has it: the cache remains
\* consistent as directories are added, removed and renamed in the trees (the
\* root paths stay where they are).
Follows == race # "excused" /\ Idle => InStep

DeathTold(w, events) ==
    \E i \in DOMAIN events : \/ events[i].wd = w /\ events[i].mask = "DELETE_SELF"
                             \/ events[i] = Overflow

\* No watch leaks and no entry of the cache is dead for good, whatever the
\* processes do: the cache has every watch of the kernel, and an entry whose
\* watch is gone has its end announced by an event, or the overflow that ate
\* it, that the program has still to process.
Tracked ==
    /\ DOMAIN watch \subseteq DOMAIN cache
    /\ \A w \in DOMAIN cache \ DOMAIN watch : DeathTold(w, buf \o queue)

\* The program always comes back to select, where it takes commands, but for
\* two ways to block until the tree changes again: the alarm of the secondary
\* read goes off before the read begins, and the command 0 replaces the
\* descriptor that select had reported readable.
Returns ==
    []<>(\/ pc \in {"select", "exited"}
         \/ /\ queue = << >>
            /\ \/ pc = "hang" /\ late
               \/ pc = "read" /\ job = "0")

=============================================================================
