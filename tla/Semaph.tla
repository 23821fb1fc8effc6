------------------------------- MODULE Semaph -------------------------------
(***************************************************************************)
(* The semaphore library apue2e/lib/semaph.c on one key: a System V set of *)
(* three semaphores, [0] the value, [1] a count of the processes that have *)
(* it open, down from BIGCOUNT, and [2] a lock for sem_create and          *)
(* sem_close.  A process may exit at any point, and the kernel then undoes *)
(* its operations.                                                         *)
(*                                                                         *)
(* The clients use the semaphore, initially 1, for mutual exclusion.  Each *)
(* system call is one step.                                                *)
(***************************************************************************)
EXTENDS Integers, FiniteSets

CONSTANTS
    Procs,
    BIGCOUNT,   \* initial value of the process counter
    Calls,      \* how clients get and remove it: "create", "open", "rm"
    MaxSets,    \* bound: how many sets are ever created
    MaxExits    \* bound: how many processes exit on their own

\* Fewer processes than BIGCOUNT: a process counter of 0 means "not initialised".
ASSUME SemaphAssumption ==
    /\ BIGCOUNT \in Nat /\ MaxSets \in Nat /\ MaxExits \in Nat
    /\ IsFiniteSet(Procs) /\ Cardinality(Procs) < BIGCOUNT
    /\ Calls \subseteq {"create", "open", "rm"}

initval == 1

VARIABLES
    cur,        \* identifier of the set that has the key, 0 if there is none
    made,       \* how many sets were created
    sem,        \* values of the current set
    adj,        \* semadj of each process for the current set
    pc,
    id,         \* identifier each process works with
    semval,     \* local variable of sem_close
    exits,      \* how many processes exited on their own
    via         \* history: the processes that opened it with sem_create

vars == <<cur, made, sem, adj, pc, id, semval, exits, via>>

Op(value, count, lock) == [i \in 0 .. 2 |-> IF i = 0 THEN value ELSE IF i = 1 THEN count ELSE lock]
Zero == Op(0, 0, 0)

-----------------------------------------------------------------------------
(* The kernel, as the code uses it.                                        *)

\* semop with SEM_UNDO: the operations ops, all at once, when no value gets
\* negative.
CanOp(p, ops) == id[p] = cur /\ \A i \in 0 .. 2 : sem[i] + ops[i] >= 0

semop(p, ops) ==
    /\ CanOp(p, ops)
    /\ sem' = [i \in 0 .. 2 |-> sem[i] + ops[i]]
    /\ adj' = [adj EXCEPT ![p] = [i \in 0 .. 2 |-> @[i] - ops[i]]]

\* semctl SETVAL clears what any process would undo.
SETVAL(i, v) ==
    /\ sem' = [sem EXCEPT ![i] = v]
    /\ adj' = [q \in Procs |-> [adj[q] EXCEPT ![i] = 0]]

\* semctl IPC_RMID.
IPC_RMID ==
    /\ cur' = 0
    /\ sem' = Zero
    /\ adj' = [q \in Procs |-> Zero]

\* The exit of a process undoes its operations.
Undo(p) ==
    /\ sem' = [i \in 0 .. 2 |-> IF sem[i] + adj[p][i] < 0 THEN 0 ELSE sem[i] + adj[p][i]]
    /\ adj' = [adj EXCEPT ![p] = Zero]

Goto(p, from, to) == pc[p] = from /\ pc' = [pc EXCEPT ![p] = to]

Exit(p) ==
    /\ exits < MaxExits /\ exits' = exits + 1
    /\ pc[p] \notin {"exited", "failed", "failed_create"}
    /\ pc' = [pc EXCEPT ![p] = "exited"]
    /\ id' = [id EXCEPT ![p] = 0]
    /\ semval' = [semval EXCEPT ![p] = 0]
    /\ Undo(p)
    /\ UNCHANGED <<cur, made, via>>

\* err_sys: the set the process works with is gone.
Fails(p, from, to) ==
    /\ pc[p] \in from /\ id[p] # cur
    /\ pc' = [pc EXCEPT ![p] = to]
    /\ id' = [id EXCEPT ![p] = 0]
    /\ semval' = [semval EXCEPT ![p] = 0]
    /\ UNCHANGED <<cur, made, sem, adj, exits, via>>

-----------------------------------------------------------------------------
(* sem_create.                                                             *)

\* semget with IPC_CREAT.
CreateGet(p) ==
    /\ "create" \in Calls /\ Goto(p, "idle", "lock")
    /\ \/ cur # 0 /\ UNCHANGED <<cur, made>>
       \/ cur = 0 /\ made < MaxSets /\ made' = made + 1 /\ cur' = made + 1
    /\ id' = [id EXCEPT ![p] = cur']
    /\ UNCHANGED <<sem, adj, semval, exits, via>>

\* semop(op_lock), at once or after a sleep.
CreateLock(p) ==
    /\ pc[p] \in {"lock", "lock_sleep"} /\ pc' = [pc EXCEPT ![p] = "getval"]
    /\ sem[2] = 0
    /\ semop(p, Op(0, 0, 1))
    /\ UNCHANGED <<cur, made, id, semval, exits, via>>

CreateSleep(p) ==
    /\ Goto(p, "lock", "lock_sleep")
    /\ id[p] = cur /\ sem[2] # 0
    /\ UNCHANGED <<cur, made, sem, adj, id, semval, exits, via>>

\* EINVAL: the set was removed before the call, "goto again".
CreateAgain(p) == Fails(p, {"lock"}, "idle")

\* Any other error ends the process; EIDRM is one, when the set is removed
\* while the process sleeps in semop.
CreateFails(p) == Fails(p, {"lock_sleep", "getval", "set0", "set1", "endcreate"}, "failed_create")

\* Mutant: the set is initialised again by every sem_create.
MutUninitialised == TRUE

Uninitialised == sem[1] = 0

CreateGetval(p) ==
    /\ Goto(p, "getval", IF Uninitialised THEN "set0" ELSE "endcreate")
    /\ id[p] = cur
    /\ UNCHANGED <<cur, made, sem, adj, id, semval, exits, via>>

CreateSet0(p) ==
    /\ Goto(p, "set0", "set1") /\ id[p] = cur
    /\ SETVAL(0, initval)
    /\ UNCHANGED <<cur, made, id, semval, exits, via>>

CreateSet1(p) ==
    /\ Goto(p, "set1", "endcreate") /\ id[p] = cur
    /\ SETVAL(1, BIGCOUNT)
    /\ UNCHANGED <<cur, made, id, semval, exits, via>>

\* Mutant: the lock is released and the process not counted.
MutEndCreate == Op(0, 0, -1)

op_endcreate == Op(0, -1, -1)

CreateEnd(p) ==
    /\ Goto(p, "endcreate", "open")
    /\ semop(p, op_endcreate)
    /\ via' = via \cup {p}
    /\ UNCHANGED <<cur, made, id, semval, exits>>

-----------------------------------------------------------------------------
(* sem_open: "We don't need a lock to do this."                            *)

\* With no set to open sem_open returns -1, and nothing changes.
OpenGet(p) ==
    /\ "open" \in Calls /\ cur # 0 /\ Goto(p, "idle", "opening")
    /\ id' = [id EXCEPT ![p] = cur]
    /\ UNCHANGED <<cur, made, sem, adj, semval, exits, via>>

OpenOp(p) ==
    /\ Goto(p, "opening", "open")
    /\ semop(p, Op(0, -1, 0))
    /\ via' = via \ {p}
    /\ UNCHANGED <<cur, made, id, semval, exits>>

-----------------------------------------------------------------------------
(* sem_wait, sem_signal and sem_rm.                                        *)

sem_wait(p) ==
    /\ Goto(p, "open", "holding")
    /\ semop(p, Op(-1, 0, 0))
    /\ UNCHANGED <<cur, made, id, semval, exits, via>>

sem_signal(p) ==
    /\ Goto(p, "holding", "open")
    /\ semop(p, Op(1, 0, 0))
    /\ UNCHANGED <<cur, made, id, semval, exits, via>>

sem_rm(p) ==
    /\ "rm" \in Calls /\ Goto(p, "open", "idle") /\ id[p] = cur
    /\ IPC_RMID
    /\ id' = [id EXCEPT ![p] = 0]
    /\ UNCHANGED <<made, semval, exits, via>>

-----------------------------------------------------------------------------
(* sem_close.                                                              *)

\* semop(op_close): wait for the lock, take it, and count one process less.
CloseOp(p) ==
    /\ Goto(p, "open", "close_getval")
    /\ sem[2] = 0
    /\ semop(p, Op(0, 1, 1))
    /\ UNCHANGED <<cur, made, id, semval, exits, via>>

\* err_dump("sem[1] > BIGCOUNT") ends the process.
CloseGetval(p) ==
    /\ Goto(p, "close_getval", IF sem[1] > BIGCOUNT THEN "failed" ELSE "close")
    /\ id[p] = cur
    /\ semval' = [semval EXCEPT ![p] = sem[1]]
    /\ IF sem[1] > BIGCOUNT THEN Undo(p) ELSE UNCHANGED <<sem, adj>>
    /\ UNCHANGED <<cur, made, id, exits, via>>

\* Mutant: the set is removed as soon as one process closes it.
MutLast(p) == TRUE

\* The last process removes the set, any other unlocks it.
Last(p) == semval[p] = BIGCOUNT

CloseRm(p) ==
    /\ Goto(p, "close", "idle") /\ Last(p) /\ id[p] = cur
    /\ IPC_RMID
    /\ id' = [id EXCEPT ![p] = 0]
    /\ semval' = [semval EXCEPT ![p] = 0]
    /\ UNCHANGED <<made, exits, via>>

\* Mutant: the lock is kept.
MutUnlock == Op(0, 0, 0)

op_unlock == Op(0, 0, -1)

CloseUnlock(p) ==
    /\ Goto(p, "close", "idle") /\ ~Last(p)
    /\ semop(p, op_unlock)
    /\ id' = [id EXCEPT ![p] = 0]
    /\ semval' = [semval EXCEPT ![p] = 0]
    /\ UNCHANGED <<cur, made, exits, via>>

\* sem_open, sem_op or sem_close finds the set removed.
UseFails(p) == Fails(p, {"opening", "open", "holding", "close_getval", "close"}, "failed")

-----------------------------------------------------------------------------
Init ==
    /\ cur = 0 /\ made = 0
    /\ sem = Zero
    /\ adj = [p \in Procs |-> Zero]
    /\ pc = [p \in Procs |-> "idle"]
    /\ id = [p \in Procs |-> 0]
    /\ semval = [p \in Procs |-> 0]
    /\ exits = 0 /\ via = {}

\* A step inside sem_create.
Create(p) ==
    \/ CreateLock(p) \/ CreateSleep(p) \/ CreateAgain(p) \/ CreateFails(p)
    \/ CreateGetval(p) \/ CreateSet0(p) \/ CreateSet1(p) \/ CreateEnd(p)

Close(p) == CloseGetval(p) \/ CloseRm(p) \/ CloseUnlock(p)

Next ==
    \E p \in Procs :
        \/ CreateGet(p) \/ Create(p)
        \/ OpenGet(p) \/ OpenOp(p)
        \/ sem_wait(p) \/ sem_signal(p) \/ sem_rm(p)
        \/ CloseOp(p) \/ Close(p)
        \/ UseFails(p) \/ Exit(p)

Spec == Init /\ [][Next]_vars

\* The kernel runs every process that can run, and wakes the processes that
\* sleep in semop in the order they came.
FairSpec ==
    /\ Spec
    /\ \A p \in Procs : WF_vars(Create(p)) /\ WF_vars(Close(p)) /\ SF_vars(CreateLock(p))

-----------------------------------------------------------------------------
(* Properties.                                                             *)

\* The process has the semaphore open.
HasOpen(p) == pc[p] \in {"open", "holding"}

\* Every variable has its type, and the lock is 0 or 1.
TypeOK ==
    /\ made \in 0 .. MaxSets /\ cur \in {0, made}
    /\ sem \in [0 .. 2 -> 0 .. BIGCOUNT] /\ sem[2] \in {0, 1}
    /\ adj \in [Procs -> [0 .. 2 -> {-1, 0, 1}]]
    /\ id \in [Procs -> 0 .. MaxSets]
    /\ semval \in [Procs -> 0 .. BIGCOUNT]
    /\ exits \in 0 .. MaxExits /\ via \subseteq Procs

\* The process counter is exact once it is initialised: BIGCOUNT less the
\* processes that have the semaphore open, whoever exits at whatever point of
\* sem_create and sem_close.
CounterExact ==
    LET users == {p \in Procs : HasOpen(p) /\ id[p] = cur} IN
    cur # 0 => \/ sem[1] = BIGCOUNT - Cardinality(users)
               \/ sem[1] = 0 /\ users = {}

\* sem_close removes the semaphore only when no process has it open ("if this
\* was the last one, we can remove the semaphore").
OpenIsLive == \A p \in Procs : HasOpen(p) => id[p] = cur

\* sem_close never removes the semaphore of a process that opened it with
\* sem_create: both take the lock, and the counter read under it is exact.
CreatorsKept ==
    [][\A p \in Procs : CloseRm(p) => ~ \E q \in via \ {p} : HasOpen(q) /\ id[q] = cur]_vars

\* The semaphore, with initial value 1, keeps its users apart, whoever creates,
\* closes, removes or exits: it is never initialised a second time under the
\* hands of a process between sem_wait and sem_signal, and undoing the
\* operations of a process that exits frees it once.
MutualExclusion ==
    \A p, q \in Procs :
        (pc[p] = "holding" /\ pc[q] = "holding" /\ id[p] = id[q]) => p = q

\* Whoever locks the semaphore in sem_create or sem_close, or exits with the
\* lock, unlocks it: every sem_create that has its set ends.
CreateEnds ==
    \A p \in Procs :
        (pc[p] \in {"lock", "lock_sleep"}) ~>
            (pc[p] \in {"open", "idle", "failed_create", "exited"})
=============================================================================
