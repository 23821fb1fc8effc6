---------------------------- MODULE PrintWorkers ----------------------------
(***************************************************************************)
(* The list of worker threads of apue2e/ipp/printd.c: add_worker,          *)
(* client_cleanup and kill_workers, each of which holds workerlock while   *)
(* it reads or changes the list, one node per step.                        *)
(*                                                                         *)
(* A node is a piece of memory that malloc hands out and free takes back.  *)
(* What a thread finds through a pointer to freed memory is undefined, and *)
(* nothing is claimed of the daemon after that.                            *)
(***************************************************************************)
EXTENDS Naturals, FiniteSets

CONSTANTS
    Threads,    \* client threads, one for each connection
    Nodes,      \* memory for struct worker_thread
    MaxOpen     \* bound: how many connections are served at the same time

NULL == "NULL"
Signals == "signal_thread"

VARIABLES
    workers,    \* head of the list
    next, prev, tid,        \* fields of the nodes
    used,       \* nodes malloc handed out and free did not take back
    workerlock, \* the thread that holds it, or NULL
    pc,         \* where each thread is
    wtp,        \* the local variable of each thread
    sockets,    \* threads whose socket is open
    cancelled,  \* threads pthread_cancel was called for
    daemon,     \* "up", "exited" by exit(0), or "undefined"
    outstanding \* history: the workers that were serving when kill_workers began

fields == <<next, prev, tid>>
list == <<workers, fields>>
vars == <<list, used, workerlock, pc, wtp, sockets, cancelled, daemon, outstanding>>

Goto(t, from, to) == daemon = "up" /\ pc[t] = from /\ pc' = [pc EXCEPT ![t] = to]

\* pthread_mutex_lock(&workerlock).
Lock(t) == workerlock = NULL /\ workerlock' = t

Running == {t \in Threads : pc[t] \notin {"new", "gone"}}

-----------------------------------------------------------------------------
(* client_thread.                                                          *)

\* main accepts a connection; add_worker allocates the node.
Accept(t) ==
    /\ Goto(t, "new", "add")
    /\ Cardinality(Running) < MaxOpen
    /\ sockets' = sockets \cup {t}
    /\ \E n \in Nodes \ used :
        /\ used' = used \cup {n}
        /\ wtp' = [wtp EXCEPT ![t] = n]
        /\ tid' = [tid EXCEPT ![n] = t]
    /\ UNCHANGED <<workers, next, prev, workerlock, cancelled, daemon, outstanding>>

\* The rest of add_worker, in one critical section.  The head only changes
\* when the list is empty.
add_worker(t) ==
    LET n == wtp[t] IN
    /\ workers \in used \cup {NULL}
    /\ Goto(t, "add", "serve")
    /\ workerlock = NULL
    /\ next' = [next EXCEPT ![n] = workers]
    /\ prev' = [x \in Nodes |-> IF x = workers THEN n
                                ELSE IF x = n THEN NULL ELSE prev[x]]
    /\ workers' = IF workers = NULL THEN n ELSE workers
    /\ UNCHANGED <<tid, used, workerlock, wtp, sockets, cancelled, daemon, outstanding>>

\* add_worker finds no memory: pthread_exit runs client_cleanup.
NoMemory(t) ==
    /\ Goto(t, "new", "cleanup")
    /\ Cardinality(Running) < MaxOpen
    /\ sockets' = sockets \cup {t}
    /\ UNCHANGED <<list, used, workerlock, wtp, cancelled, daemon, outstanding>>

\* The request is served, or failed, or the thread is cancelled.
Served(t) ==
    /\ Goto(t, "serve", "cleanup")
    /\ UNCHANGED <<list, used, workerlock, wtp, sockets, cancelled, daemon, outstanding>>

-----------------------------------------------------------------------------
(* client_cleanup.                                                         *)

CleanupLock(t) ==
    /\ Goto(t, "cleanup", "find")
    /\ Lock(t)
    /\ wtp' = [wtp EXCEPT ![t] = workers]
    /\ UNCHANGED <<list, used, sockets, cancelled, daemon, outstanding>>

IsMine(t, n) == tid[n] = t

CleanupNext(t) ==
    /\ Goto(t, "find", "find")
    /\ wtp[t] \in used /\ ~IsMine(t, wtp[t])
    /\ wtp' = [wtp EXCEPT ![t] = next[@]]
    /\ UNCHANGED <<list, used, workerlock, sockets, cancelled, daemon, outstanding>>

CleanupFound(t) ==
    LET n == wtp[t] IN
    /\ Goto(t, "find", "free")
    /\ n \in used /\ IsMine(t, n)
    /\ {next[n], prev[n]} \subseteq used \cup {NULL}
    /\ prev' = [x \in Nodes |-> IF x = next[n] THEN prev[n] ELSE prev[x]]
    /\ next' = [x \in Nodes |-> IF x = prev[n] THEN next[n] ELSE next[x]]
    /\ workers' = IF prev[n] = NULL THEN next[n] ELSE workers
    /\ workerlock' = NULL
    /\ UNCHANGED <<tid, used, wtp, sockets, cancelled, daemon, outstanding>>

\* The node is not on the list: it and its socket stay.
CleanupMissing(t) ==
    /\ Goto(t, "find", "gone")
    /\ wtp[t] = NULL
    /\ workerlock' = NULL
    /\ UNCHANGED <<list, used, wtp, sockets, cancelled, daemon, outstanding>>

CleanupFree(t) ==
    /\ Goto(t, "free", "gone")
    /\ sockets' = sockets \ {t}
    /\ used' = used \ {wtp[t]}
    /\ UNCHANGED <<list, workerlock, wtp, cancelled, daemon, outstanding>>

-----------------------------------------------------------------------------
(* signal_thread on SIGTERM: kill_workers, then exit.                      *)

SigTerm ==
    /\ Goto(Signals, "sigwait", "kill")
    /\ Lock(Signals)
    /\ wtp' = [wtp EXCEPT ![Signals] = workers]
    /\ outstanding' = {t \in Threads : pc[t] = "serve"}
    /\ UNCHANGED <<list, used, sockets, cancelled, daemon>>

KillNext ==
    /\ Goto(Signals, "kill", "kill")
    /\ wtp[Signals] \in used
    /\ cancelled' = cancelled \cup {tid[wtp[Signals]]}
    /\ wtp' = [wtp EXCEPT ![Signals] = next[@]]
    /\ UNCHANGED <<list, used, workerlock, sockets, daemon, outstanding>>

KillEnd ==
    /\ Goto(Signals, "kill", "exit")
    /\ wtp[Signals] = NULL
    /\ workerlock' = NULL
    /\ UNCHANGED <<list, used, wtp, sockets, cancelled, daemon, outstanding>>

Exit ==
    /\ daemon = "up" /\ pc[Signals] = "exit" /\ daemon' = "exited"
    /\ UNCHANGED <<list, used, workerlock, pc, wtp, sockets, cancelled, outstanding>>

-----------------------------------------------------------------------------
\* The freed memory that the next step of a thread would read or write.
Touches(t) ==
    LET n == wtp[t] IN
    (CASE pc[t] = "add" /\ workerlock = NULL -> {workers}
       [] pc[t] = "find" -> IF n \in used /\ IsMine(t, n) THEN {next[n], prev[n]}
                                                          ELSE {n}
       [] pc[t] = "kill" -> {n}
       [] OTHER -> {}) \ (used \cup {NULL})

Undefined(t) ==
    /\ daemon = "up" /\ Touches(t) # {}
    /\ daemon' = "undefined"
    /\ UNCHANGED <<list, used, workerlock, pc, wtp, sockets, cancelled, outstanding>>

Init ==
    /\ workers = NULL
    /\ next = [n \in Nodes |-> NULL]
    /\ prev = [n \in Nodes |-> NULL]
    /\ tid = [n \in Nodes |-> NULL]
    /\ used = {} /\ workerlock = NULL
    /\ pc = [t \in Threads \cup {Signals} |-> IF t = Signals THEN "sigwait" ELSE "new"]
    /\ wtp = [t \in Threads \cup {Signals} |-> NULL]
    /\ sockets = {} /\ cancelled = {}
    /\ daemon = "up" /\ outstanding = {}

Worker(t) ==
    \/ Accept(t) \/ NoMemory(t) \/ add_worker(t) \/ Served(t)
    \/ CleanupLock(t) \/ CleanupNext(t) \/ CleanupFound(t) \/ CleanupMissing(t)
    \/ CleanupFree(t)

Next ==
    \/ \E t \in Threads : Worker(t)
    \/ SigTerm \/ KillNext \/ KillEnd \/ Exit
    \/ \E t \in Threads \cup {Signals} : Undefined(t)

Spec == Init /\ [][Next]_vars

-----------------------------------------------------------------------------
(* Property.                                                               *)

\* "Cancel (kill) all outstanding workers": when kill_workers has walked the
\* list, every worker that was serving a client when it began is cancelled.
KillsAll == pc[Signals] = "exit" => outstanding \subseteq cancelled
=============================================================================
