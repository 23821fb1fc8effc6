------------------------------- MODULE Calld -------------------------------
(***************************************************************************)
(* The dialer daemon of apue2e/calld: one process that accepts clients,    *)
(* forks a child to dial each client's system on a line of its own, learns *)
(* of the child's end by SIGCHLD and goes on to the next line of the       *)
(* Systems file when the dialing failed.                                   *)
(*                                                                         *)
(* A descriptor is the client at its other end.  The signal handler may    *)
(* run between any two steps of the daemon; the loops over client[] are    *)
(* steps of one entry each.  Entries of client[] that were never used hold *)
(* zeros.                                                                  *)
(***************************************************************************)
EXTENDS Integers, Sequences, FiniteSets

CONSTANTS
    Clients,   \* the processes that run call
    Want,      \* client -> the system it asks for
    Systems,   \* the Systems file: a sequence of [name, line] records, the
               \* line being what dev_find finds for it, or NoLine
    Lines,     \* the lines (devices)
    NoLine,
    NoFd       \* fd -1

ASSUME CalldAssumption ==
    /\ IsFiniteSet(Clients) /\ Cardinality(Clients) \in Nat
    /\ NoFd \notin Clients /\ NoLine \notin Lines
    /\ Want \in [Clients -> STRING]
    /\ Systems \in Seq([name : STRING, line : Lines \cup {NoLine}])

Slots == 1 .. Cardinality(Clients)
\* A child for each line of the Systems file a client may be tried on.
Pids == 1 .. Cardinality({x \in Clients \X DOMAIN Systems : Systems[x[2]].name = Want[x[1]]})

VARIABLES
    cli,       \* client -> what it has done
    unread,    \* clients whose request has not been read
    given,     \* client -> the line it was given a descriptor of, or NoLine
    listen,    \* clients that wait for accept
    kid,       \* pid -> [st, line, cli, name], a child that was forked
    pending,   \* SIGCHLD is pending
    chld_flag,
    client,    \* client[]: slot -> [fd, pid, childdone, sysftell, sysname]
    lock,      \* lock[]: line -> pid, 0 when it is not locked
    pc, i,     \* where the daemon is, and the entry its loop has come to
    back,      \* where child_done returns to
    rset,      \* descriptors select has reported
    early      \* history: a client was gone before its child

daemon == <<chld_flag, client, lock, pc, i, back, rset>>
clients == <<cli, unread, given, listen>>
vars == <<clients, kid, pending, daemon, early>>

\* "exited": ended by SIGPIPE, or by the handler; "quit": by a log_sys or log_quit
\* of the loop.
Up == pc \notin {"exited", "quit"}

Ended(p) == p \in DOMAIN kid /\ kid[p].st \in {"exit0", "exit1", "killed"}

-----------------------------------------------------------------------------
(* The clients (call.c): connect, send the request, read the answer, close *)
(* the stream at the end, or at any time before.                           *)

Connect(c) ==
    /\ cli[c] = "new"
    /\ cli' = [cli EXCEPT ![c] = "connected"]
    /\ listen' = listen \cup {c}
    /\ UNCHANGED <<unread, given, kid, pending, daemon, early>>

Send(c) ==
    /\ cli[c] = "connected"
    /\ cli' = [cli EXCEPT ![c] = "waiting"]
    /\ unread' = unread \cup {c}
    /\ UNCHANGED <<given, listen, kid, pending, daemon, early>>

Close(c) ==
    /\ cli[c] \in {"connected", "waiting", "answered"}
    /\ cli' = [cli EXCEPT ![c] = "closed"]
    /\ early' = \/ early
                \/ cli[c] = "waiting"
                \/ \E p \in DOMAIN kid : kid[p].cli = c /\ kid[p].st # "reaped"
    /\ UNCHANGED <<unread, given, listen, kid, pending, daemon>>

-----------------------------------------------------------------------------
(* The children (child_dial): the descriptor goes to the client before the *)
(* child exits.  Writing to a client that is gone ends the child by        *)
(* SIGPIPE.                                                                *)

Ends(p, st) ==
    /\ kid' = [kid EXCEPT ![p].st = st]
    /\ pending' = TRUE

ChildSends(p) ==
    /\ kid[p].st = "dialing"
    /\ IF cli[kid[p].cli] = "closed"
       THEN Ends(p, "killed") /\ UNCHANGED <<cli, given>>
       ELSE /\ kid' = [kid EXCEPT ![p].st = "sent"]
            /\ cli' = [cli EXCEPT ![kid[p].cli] = "answered"]
            /\ given' = [given EXCEPT ![kid[p].cli] = kid[p].line]
            /\ UNCHANGED pending
    /\ UNCHANGED <<unread, listen, daemon, early>>

ChildSucceeds(p) ==
    /\ kid[p].st = "sent"
    /\ Ends(p, "exit0")
    /\ UNCHANGED <<clients, daemon, early>>

ChildFails(p) ==
    /\ kid[p].st = "dialing"
    /\ Ends(p, IF cli[kid[p].cli] = "closed" THEN "killed" ELSE "exit1")
    /\ UNCHANGED <<clients, daemon, early>>

Child(p) == ChildSends(p) \/ ChildSucceeds(p) \/ ChildFails(p)

-----------------------------------------------------------------------------
(* The daemon. *)

\* The entry client_sigchld finds: the first with the child's pid.
EntryOf(p) == {s \in Slots : client[s].pid = p /\ \A t \in 1 .. s - 1 : client[t].pid # p}

\* WEXITSTATUS(stat) + 1
Status(st) == IF st = "exit0" THEN 1 ELSE 2

\* sig_chld: one waitpid for one signal, then client_sigchld.  In select, and
\* only there, it makes the call return EINTR.
SigChld ==
    /\ Up /\ pending
    /\ pending' = FALSE
    /\ \E p \in DOMAIN kid :
         /\ Ended(p)
         /\ kid' = [kid EXCEPT ![p].st = "reaped"]
         /\ IF kid[p].st = "killed" THEN UNCHANGED client
            ELSE client' = [s \in Slots |->
                   IF s \in EntryOf(p)
                   THEN [client[s] EXCEPT !.childdone = Status(kid[p].st)]
                   ELSE client[s]]
         /\ pc' = IF kid[p].st # "killed" /\ EntryOf(p) = {} THEN "exited"
                  ELSE IF pc = "select" THEN "child_done" ELSE pc
    /\ back' = IF pc = "select" THEN "loop" ELSE back
    /\ chld_flag' = TRUE
    /\ UNCHANGED <<clients, lock, i, rset, early>>

\* lock_rel(): the lock of pid p, if there is one.
LockRel(p) == [l \in Lines |-> IF lock[l] = p THEN 0 ELSE lock[l]]

\* Mutant: locks are not looked at.
MutStops(e, lk) ==
    {k \in e.sysftell + 1 .. Len(Systems) : Systems[k].name = e.sysname}

\* The lines of the Systems file request() may stop at, the first of which it
\* does: those for the client's system whose line is not locked, or was not
\* found.
Stops(e, lk) ==
    {k \in e.sysftell + 1 .. Len(Systems) :
       /\ Systems[k].name = e.sysname
       /\ Systems[k].line = NoLine \/ lk[Systems[k].line] = 0}

\* send_err() and cli_done(): writing to a client that is gone ends the daemon
\* by SIGPIPE.
GiveUp(s, e, lk) ==
    /\ pc' = IF cli[e.fd] = "closed" THEN "exited" ELSE pc
    /\ cli' = [cli EXCEPT ![e.fd] = IF @ = "closed" THEN @ ELSE "answered"]
    /\ client' = [client EXCEPT ![s] = [e EXCEPT !.fd = NoFd]]
    /\ lock' = lk
    /\ UNCHANGED kid

\* Mutant: the entry does not learn its child's pid.
MutForked(e, p, k) == [e EXCEPT !.sysftell = k]

Forked(e, p, k) == [e EXCEPT !.pid = p, !.sysftell = k]

\* request() for entry s, which is e by now, with the locks lk: fork a child
\* for the line and lock it before the child goes on, or give up.
Request(s, e, lk) ==
    LET k == CHOOSE k \in Stops(e, lk) : \A j \in Stops(e, lk) : k <= j
        p == Cardinality(DOMAIN kid) + 1
    IN  IF Stops(e, lk) = {} \/ Systems[k].line = NoLine
        THEN GiveUp(s, e, lk)
        ELSE /\ kid' = [q \in 1 .. p |->
                          IF q < p THEN kid[q]
                          ELSE [st |-> "dialing", line |-> Systems[k].line,
                                cli |-> e.fd, name |-> Systems[k].name]]
             /\ client' = [client EXCEPT ![s] = Forked(e, p, k)]
             /\ lock' = [lk EXCEPT ![Systems[k].line] = p]
             /\ UNCHANGED <<cli, pc>>

\* The test of chld_flag at the top of the loop.
Loop ==
    /\ pc = "loop"
    /\ pc' = IF chld_flag THEN "child_done" ELSE "enter"
    /\ back' = "enter"
    /\ UNCHANGED <<clients, kid, pending, chld_flag, client, lock, i, rset, early>>

\* rset = allset, and the call of select: chld_flag is not looked at again.
Enter ==
    /\ pc = "enter" /\ pc' = "select"
    /\ UNCHANGED <<clients, kid, pending, chld_flag, client, lock, i, back, rset, early>>

\* Mutant: the flag is not cleared.
MutClear == chld_flag

\* The flag is cleared before the entries are looked at.
Clear == FALSE

ChildDone ==
    /\ pc = "child_done"
    /\ chld_flag' = Clear
    /\ pc' = "scan" /\ i' = 1
    /\ UNCHANGED <<clients, kid, pending, client, lock, back, rset, early>>

\* One entry of child_done's loop.
Scan ==
    /\ pc = "scan" /\ i \in Slots
    /\ i' = i + 1
    /\ LET e == [client[i] EXCEPT !.childdone = 0]
       IN  \/ /\ e.fd = NoFd \/ client[i].childdone = 0
              /\ UNCHANGED <<cli, kid, client, lock, pc>>
           \/ /\ e.fd # NoFd /\ client[i].childdone = 1
              /\ client' = [client EXCEPT ![i] = e]
              /\ UNCHANGED <<cli, kid, lock, pc>>
           \/ /\ e.fd # NoFd /\ client[i].childdone = 2
              /\ Request(i, e, LockRel(e.pid))
    /\ UNCHANGED <<unread, given, listen, pending, chld_flag, back, rset, early>>

ScanEnds ==
    /\ pc = "scan" /\ i \notin Slots
    /\ pc' = IF chld_flag THEN "child_done" ELSE back
    /\ i' = 1
    /\ UNCHANGED <<clients, kid, pending, chld_flag, client, lock, back, rset, early>>

Fds == {client[s].fd : s \in Slots} \ {NoFd}

Readable == {c \in Fds : c \in unread \/ cli[c] = "closed"}

\* select() returns: a new client is served first, and alone.
Accept ==
    /\ pc = "select"
    /\ \E c \in listen :
         /\ listen' = listen \ {c}
         /\ LET s == CHOOSE s \in Slots : /\ client[s].fd = NoFd
                                          /\ \A t \in 1 .. s - 1 : client[t].fd # NoFd
            IN  client' = [client EXCEPT ![s].fd = c]
    /\ pc' = "loop"
    /\ UNCHANGED <<cli, unread, given, kid, pending, chld_flag, lock, i, back, rset, early>>

Select ==
    /\ pc = "select" /\ listen = {} /\ Readable # {}
    /\ rset' = Readable
    /\ pc' = "serve" /\ i' = 1
    /\ UNCHANGED <<clients, kid, pending, chld_flag, client, lock, back, early>>

\* Mutant: a client that hangs up leaves its line locked.
MutHangUp(e) == lock
HangUp(e) == LockRel(e.pid)

\* One entry of the loop that reads from the clients.
Serve ==
    /\ pc = "serve" /\ i \in Slots
    /\ i' = i + 1
    /\ LET e == client[i]
           fresh == [e EXCEPT !.childdone = 0, !.sysftell = 0, !.sysname = Want[e.fd]]
       IN  \/ /\ e.fd \notin rset
              /\ UNCHANGED <<cli, unread, kid, client, lock, pc>>
           \/ /\ e.fd \in rset \cap unread
              /\ unread' = unread \ {e.fd}
              /\ Request(i, fresh, lock)
           \/ /\ e.fd \in rset \ unread
              /\ lock' = HangUp(e)
              /\ client' = [client EXCEPT ![i].fd = NoFd]
              /\ UNCHANGED <<cli, unread, kid, pc>>
    /\ UNCHANGED <<given, listen, pending, chld_flag, back, rset, early>>

ServeEnds ==
    /\ pc = "serve" /\ i \notin Slots
    /\ pc' = "loop" /\ rset' = {} /\ i' = 1
    /\ UNCHANGED <<clients, kid, pending, chld_flag, client, lock, back, early>>

\* The exits of the loop by log_sys and log_quit: select or serv_accept fails; the
\* read of a request fails, or the request does not end in a null byte, or has
\* an option cli_args does not know, or fork fails for it, here or in child_done.
Quits ==
    /\ \/ pc = "select"
       \/ pc = "serve" /\ i \in Slots /\ client[i].fd \in rset
       \/ pc = "scan" /\ i \in Slots /\ client[i].fd # NoFd /\ client[i].childdone = 2
    /\ pc' = "quit"
    /\ UNCHANGED <<clients, kid, pending, chld_flag, client, lock, i, back, rset, early>>

Daemon == Loop \/ Enter \/ ChildDone \/ Scan \/ ScanEnds \/ Accept \/ Select \/ Serve \/ ServeEnds

-----------------------------------------------------------------------------
Init ==
    /\ cli = [c \in Clients |-> "new"]
    /\ unread = {} /\ listen = {}
    /\ given = [c \in Clients |-> NoLine]
    /\ kid = << >> /\ pending = FALSE
    /\ chld_flag = FALSE
    /\ client = [s \in Slots |-> [fd |-> NoFd, pid |-> 0, childdone |-> 0,
                                  sysftell |-> 0, sysname |-> "none"]]
    /\ lock = [l \in Lines |-> 0]
    /\ pc = "loop" /\ i = 1 /\ back = "enter" /\ rset = {}
    /\ early = FALSE

Next == \/ \E c \in Clients : Connect(c) \/ Send(c) \/ Close(c)
        \/ \E p \in DOMAIN kid : Child(p)
        \/ SigChld \/ Daemon \/ Quits

Spec == Init /\ [][Next]_vars

\* The daemon, its handler and the children that are left to run do so.
FairSpec == /\ Spec /\ WF_vars(Daemon) /\ WF_vars(SigChld)
            /\ \A p \in Pids : WF_vars(p \in DOMAIN kid /\ Child(p))

-----------------------------------------------------------------------------
\* A line is used by the child that dials on it, then by the client it gave
\* the descriptor to.
Users(l) == {p \in DOMAIN kid : kid[p].line = l /\ kid[p].st = "dialing"}
            \cup {c \in Clients : given[c] = l /\ cli[c] = "answered"}

\* The device locks do their work: no two children and clients use a line at
\* the same time, through retries and through hand-overs from child to client,
\* as long as no client is gone before its child is.  (A client that is gone
\* has its lock released while the child still dials.)
LineExclusive == early \/ \A l \in Lines : \A u, v \in Users(l) : u = v

\* No lock is left behind: a locked line belongs to a connected client, whose
\* end of file will release it, under the same proviso.
LocksOwned ==
    early \/ \A l \in Lines : lock[l] # 0 =>
                \E s \in Slots : client[s].fd # NoFd /\ client[s].pid = lock[l]

\* The two ways a child's end goes unnoticed: two children end before the
\* handler runs, which waits for one; and the handler runs after the test of
\* chld_flag and before select, which then waits with the flag set.
Unseen == \/ ~pending /\ \E p \in DOMAIN kid : Ended(p)
          \/ pc = "select" /\ chld_flag

\* Every client that sent its request, each sends one, gets a descriptor or an
\* error in the end, so that nobody waits, whoever else comes and goes, unless
\* a child's end goes unnoticed in one of those two ways, or the daemon has quit
\* over a request it could not read or a call that failed.  It ends otherwise
\* only when a client is gone before its child is.
Answers ==
    []<>(\/ \A c \in Clients : cli[c] # "waiting"
         \/ pc = "quit" \/ (early /\ pc = "exited")
         \/ Unseen)

\* No connection, request, retry or end of a child, in whatever order, ends the
\* daemon by SIGPIPE or through the handler, which exits for a child it finds no
\* entry for, as long as no client is gone before its child is: what is left are
\* its own exits by log_sys and log_quit.
StaysUp == early \/ pc # "exited"
=============================================================================
