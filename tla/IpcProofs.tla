----------------------------- MODULE IpcProofs -----------------------------
(***************************************************************************)
(* Safety of the semaphores of module Semaph and of the programs of module *)
(* IpcPrograms for every value of their constants.  Each part is about the *)
(* behaviours of one program.                                              *)
(***************************************************************************)
EXTENDS Semaph, IpcPrograms, TLAPS

-----------------------------------------------------------------------------
(* The semaphores of semaph.c exclude each other's users, and their        *)
(* process counter is exact, for any number of processes below BIGCOUNT    *)
(* and however many of them exit at whatever point.                        *)

Idle == {"idle", "failed", "failed_create", "exited"}

Locking == {"getval", "set0", "set1", "endcreate", "close_getval", "close"}

Active == Locking \cup {"lock", "lock_sleep", "opening", "open", "holding"}

\* Where a process is with respect to the current set.
User(p) == HasOpen(p) /\ id[p] = cur

Holder(p) == pc[p] = "holding" /\ id[p] = cur

Locker(p) == pc[p] \in Locking /\ id[p] = cur

Users == {p \in Procs : User(p)}

Types ==
    /\ cur \in Nat /\ made \in Nat /\ cur <= made
    /\ sem \in [0 .. 2 -> Int] /\ adj \in [Procs -> [0 .. 2 -> Int]]
    /\ pc \in [Procs -> Idle \cup Active] /\ id \in [Procs -> Nat]
    /\ \A p \in Procs : id[p] <= made /\ (pc[p] \in Active => id[p] # 0)

\* What the kernel would undo is what the process is in the middle of.
AdjInv ==
    \A p \in Procs : /\ adj[p][0] = (IF Holder(p) THEN 1 ELSE 0)
                     /\ adj[p][1] = (IF User(p) THEN 1 ELSE 0)
                     /\ adj[p][2] = (IF Locker(p) THEN -1 ELSE 0)

\* The lock has one holder when it is 1 and none when it is 0.
LockInv ==
    /\ sem[2] = 0 => \A p \in Procs : ~Locker(p)
    /\ sem[2] # 0 => sem[2] = 1 /\ \E p \in Procs : Locker(p)
    /\ \A p, q \in Procs : Locker(p) /\ Locker(q) => p = q

\* The value leaves room for one holder.
ValueInv == sem[0] \in {0, 1} /\ \A p \in Procs : Holder(p) => sem[0] = 0

\* What counting means: a fact about finite sets that the steps rest on.
Counting ==
    /\ Cardinality({}) = 0
    /\ \A U \in SUBSET Procs :
          /\ Cardinality(U) \in Nat /\ Cardinality(U) < BIGCOUNT
          /\ Cardinality(U) = 0 => U = {}
          /\ \A p \in Procs \ U : Cardinality(U \cup {p}) = Cardinality(U) + 1
          /\ \A p \in U : Cardinality(U \ {p}) = Cardinality(U) - 1

\* The counter is exact, or not initialised with nobody using the set.
CountInv == /\ Counting
            /\ \/ sem[1] = BIGCOUNT - Cardinality(Users)
               \/ sem[1] = 0 /\ Users = {}

\* Who is about to initialise the set finds it uninitialised until then.
InitInv ==
    \A p \in Procs : /\ pc[p] \in {"set0", "set1"} /\ id[p] = cur => sem[1] = 0
                     /\ pc[p] = "endcreate" /\ id[p] = cur => sem[1] # 0

\* The inductive invariant.
SemInv == /\ Types /\ AdjInv /\ LockInv /\ ValueInv /\ CountInv /\ InitInv
          /\ MutualExclusion

-----------------------------------------------------------------------------
(* What the kernel's operations do to the values.                          *)

\* The exit of a process gives back exactly what its SEM_UNDO records say.
LEMMA UndoDoes ==
  ASSUME Types, NEW p \in Procs, Undo(p), \A k \in 0 .. 2 : sem[k] + adj[p][k] >= 0
  PROVE  /\ sem' \in [0 .. 2 -> Int] /\ adj' \in [Procs -> [0 .. 2 -> Int]]
         /\ \A k \in 0 .. 2 : sem'[k] = sem[k] + adj[p][k] /\ adj'[p][k] = 0
         /\ \A q \in Procs \ {p} : adj'[q] = adj[q]
  <1>1. Zero \in [0 .. 2 -> Int] /\ \A k \in 0 .. 2 : Zero[k] = 0
    BY DEF Zero, Op
  <1> QED
    BY <1>1 DEF Types, Undo

\* IPC_RMID leaves no set behind.
LEMMA RmidDoes ==
  ASSUME Types, IPC_RMID
  PROVE  /\ cur' = 0
         /\ sem' \in [0 .. 2 -> Int] /\ adj' \in [Procs -> [0 .. 2 -> Int]]
         /\ \A k \in 0 .. 2 : sem'[k] = 0 /\ \A q \in Procs : adj'[q][k] = 0
  <1>1. Zero \in [0 .. 2 -> Int] /\ \A k \in 0 .. 2 : Zero[k] = 0
    BY DEF Zero, Op
  <1> QED
    BY Zenon, <1>1 DEF Types, IPC_RMID

-----------------------------------------------------------------------------
(* Counting the users.                                                     *)

\* The users are a set of processes, so they can be counted.
LEMMA UsersCount ==
  ASSUME Counting
  PROVE  /\ Cardinality(Users) \in Nat /\ Cardinality(Users) < BIGCOUNT
         /\ Cardinality(Users') \in Nat /\ Cardinality(Users') < BIGCOUNT
         /\ Cardinality(Users) = 0 => Users = {}
         /\ \A p \in Procs \ Users : Cardinality(Users \cup {p}) = Cardinality(Users) + 1
         /\ \A p \in Users : Cardinality(Users \ {p}) = Cardinality(Users) - 1
  <1>1. Users \in SUBSET Procs /\ Users' \in SUBSET Procs
    BY Zenon DEF Users
  <1> QED
    BY Zenon, <1>1 DEF Counting

\* A counter of 0 means that nobody uses the set.
LEMMA ZeroMeansNone == CountInv /\ sem[1] = 0 => Users = {}
  BY UsersCount, SemaphAssumption DEF CountInv

\* One more user is counted once.
LEMMA CountAdds ==
  ASSUME CountInv, NEW p \in Procs, p \notin Users, Users' = Users \cup {p},
         sem[1] >= 1, sem'[1] = sem[1] - 1
  PROVE  CountInv' /\ sem[1] > 0 /\ sem'[1] > 0
  <1>1. Cardinality(Users \cup {p}) = Cardinality(Users) + 1
    BY Zenon, UsersCount DEF CountInv
  <1>2. sem[1] = BIGCOUNT - Cardinality(Users)
    BY DEF CountInv
  <1>3. /\ Cardinality(Users) < BIGCOUNT /\ Cardinality(Users) \in Nat
        /\ Cardinality(Users') < BIGCOUNT /\ Cardinality(Users') \in Nat
    BY Zenon, UsersCount DEF CountInv
  <1>4. sem'[1] = BIGCOUNT - Cardinality(Users')
    BY <1>1, <1>2, <1>3, SemaphAssumption
  <1> QED
    BY <1>2, <1>3, <1>4, SemaphAssumption DEF CountInv

\* One user less is counted once.
LEMMA CountRemoves ==
  ASSUME CountInv, NEW p \in Procs, p \in Users, Users' = Users \ {p},
         sem'[1] = sem[1] + 1
  PROVE  CountInv' /\ sem[1] > 0 /\ sem'[1] > 0
  <1>1. Cardinality(Users \ {p}) = Cardinality(Users) - 1
    BY Zenon, UsersCount DEF CountInv
  <1>2. sem[1] = BIGCOUNT - Cardinality(Users)
    BY Zenon DEF CountInv
  <1>3. /\ Cardinality(Users) < BIGCOUNT /\ Cardinality(Users) \in Nat
        /\ Cardinality(Users') < BIGCOUNT /\ Cardinality(Users') \in Nat
    BY Zenon, UsersCount DEF CountInv
  <1>4. sem'[1] = BIGCOUNT - Cardinality(Users')
    BY <1>1, <1>2, <1>3, SemaphAssumption
  <1> QED
    BY <1>2, <1>3, <1>4, SemaphAssumption DEF CountInv

\* The values of the semaphores are not negative.
LEMMA NotNegative == SemInv => sem[0] >= 0 /\ sem[1] >= 0 /\ sem[2] >= 0
  BY UsersCount, SemaphAssumption DEF SemInv, ValueInv, CountInv, LockInv

-----------------------------------------------------------------------------
(* One process moves.                                                      *)

\* A step of p keeps the invariant when what it adds to the semaphores it would
\* take back on exit: the steps that make a semop, the exit itself, and those
\* that change no semaphore.
LEMMA Moves ==
  ASSUME SemInv, NEW p \in Procs, Types', UNCHANGED cur,
         \A q \in Procs \ {p} : pc'[q] = pc[q] /\ id'[q] = id[q] /\ adj'[q] = adj[q],
         /\ adj'[p][0] = (IF Holder(p)' THEN 1 ELSE 0)
         /\ adj'[p][1] = (IF User(p)' THEN 1 ELSE 0)
         /\ adj'[p][2] = (IF Locker(p)' THEN -1 ELSE 0),
         \A k \in 0 .. 2 : sem'[k] >= 0 /\ sem'[k] + adj'[p][k] = sem[k] + adj[p][k],
         Locker(p)' => Locker(p) \/ sem[2] = 0,
         pc'[p] = "holding" => Holder(p)' /\ ~Holder(p),
         pc'[p] \in {"set0", "set1"} /\ id'[p] = cur' => sem'[1] = 0,
         pc'[p] = "endcreate" /\ id'[p] = cur' => sem'[1] # 0
  PROVE  SemInv'
  <1> DEFINE others == Procs \ {p}
  <1>1. \A q \in others : /\ User(q)' <=> User(q)
                          /\ Holder(q)' <=> Holder(q)
                          /\ Locker(q)' <=> Locker(q)
    BY Zenon DEF User, HasOpen, Holder, Locker
  <1>2. /\ sem \in [0 .. 2 -> Int] /\ sem' \in [0 .. 2 -> Int]
        /\ adj[p][0] = (IF Holder(p) THEN 1 ELSE 0)
        /\ adj[p][1] = (IF User(p) THEN 1 ELSE 0)
        /\ adj[p][2] = (IF Locker(p) THEN -1 ELSE 0)
    BY Zenon DEF SemInv, Types, AdjInv
  <1>3. AdjInv'
    BY <1>1 DEF SemInv, AdjInv
  <1>4. LockInv'
    <2>1. CASE Locker(p)' <=> Locker(p)
      BY <1>1, <1>2, <2>1 DEF SemInv, LockInv
    <2>2. CASE Locker(p) /\ ~Locker(p)'
      BY <1>1, <1>2, <2>2 DEF SemInv, LockInv
    <2>3. CASE ~Locker(p) /\ Locker(p)'
      BY <1>1, <1>2, <2>3 DEF SemInv, LockInv
    <2> QED
      BY <2>1, <2>2, <2>3, Zenon
  <1>5. ValueInv'
    <2>1. \A q \in others : Holder(p) => ~Holder(q)
      BY Zenon DEF SemInv, MutualExclusion, Holder
    <2>2. CASE Holder(p)' <=> Holder(p)
      BY <1>1, <1>2, <2>2 DEF SemInv, ValueInv
    <2>3. CASE Holder(p) /\ ~Holder(p)'
      BY <1>1, <1>2, <2>1, <2>3 DEF SemInv, ValueInv
    <2>4. CASE ~Holder(p) /\ Holder(p)'
      BY <1>1, <1>2, <2>4 DEF SemInv, ValueInv
    <2> QED
      BY <2>2, <2>3, <2>4, Zenon DEF Holder
  <1>6. CountInv' /\ InitInv'
    <2>1. CASE User(p)' <=> User(p)
      <3>1. Users' = Users /\ sem'[1] = sem[1]
        BY <1>1, <1>2, <2>1 DEF Users
      <3>2. CountInv'
        BY Zenon, <3>1 DEF SemInv, CountInv
      <3> QED
        BY Zenon, <3>1, <3>2 DEF SemInv, InitInv
    <2>2. CASE ~User(p) /\ User(p)'
      <3>1. p \notin Users /\ Users' = Users \cup {p} /\ sem[1] >= 1 /\ sem'[1] = sem[1] - 1
        BY <1>1, <1>2, <2>2 DEF Users
      <3>2. CountInv' /\ sem[1] > 0 /\ sem'[1] > 0
        BY Zenon, <3>1, CountAdds DEF SemInv
      <3> QED
        BY <1>2, <3>2 DEF SemInv, InitInv
    <2>3. CASE User(p) /\ ~User(p)'
      <3>1. p \in Users /\ Users' = Users \ {p} /\ sem'[1] = sem[1] + 1
        BY <1>1, <1>2, <2>3 DEF Users
      <3>2. CountInv' /\ sem[1] > 0 /\ sem'[1] > 0
        BY Zenon, <3>1, CountRemoves DEF SemInv
      <3> QED
        BY <1>2, <3>2 DEF SemInv, InitInv
    <2> QED
      BY <2>1, <2>2, <2>3, Zenon
  <1>7. MutualExclusion'
    <2>1. CASE pc'[p] = "holding"
      <3>1. sem[0] # 0
        BY <1>2, <2>1
      <3>2. \A q \in Procs : ~Holder(q)
        BY Zenon, <3>1 DEF SemInv, ValueInv
      <3> QED
        BY <2>1, <3>2 DEF SemInv, MutualExclusion, Holder
    <2>2. CASE pc'[p] # "holding"
      BY <2>2 DEF SemInv, MutualExclusion
    <2> QED
      BY Zenon, <2>1, <2>2
  <1> QED
    BY Zenon, <1>3, <1>4, <1>5, <1>6, <1>7 DEF SemInv

\* The steps that leave the semaphores alone.
LEMMA QuietStep ==
  ASSUME SemInv, NEW p \in Procs,
         \/ CreateGet(p) /\ cur # 0
         \/ CreateSleep(p) \/ CreateAgain(p) \/ CreateFails(p) \/ CreateGetval(p)
         \/ OpenGet(p) \/ CloseGetval(p) \/ UseFails(p)
  PROVE  SemInv'
  <1>1. sem[1] <= BIGCOUNT
    BY SMTT(20), UsersCount, SemaphAssumption DEF SemInv, CountInv
  <1>2. UNCHANGED <<cur, made, sem, adj>>
    BY SMTT(20), <1>1, SemaphAssumption
       DEF SemInv, Types, CreateGet, CreateSleep, CreateAgain, CreateFails, CreateGetval,
           OpenGet, CloseGetval, UseFails, Fails
  <1>3. /\ pc' \in [Procs -> Idle \cup Active] /\ id' \in [Procs -> Nat]
        /\ id'[p] <= made /\ (pc'[p] \in Active => id'[p] # 0)
        /\ \A q \in Procs \ {p} : pc'[q] = pc[q] /\ id'[q] = id[q]
    BY <1>1, SemaphAssumption
       DEF SemInv, Types, CreateGet, CreateSleep, CreateAgain, CreateFails, CreateGetval,
           OpenGet, CloseGetval, UseFails, Fails, Goto, Idle, Active, Locking
  <1>4. Types'
    BY Zenon, <1>2, <1>3 DEF SemInv, Types
  <1>5. /\ Holder(p)' <=> Holder(p)
        /\ User(p)' <=> User(p)
        /\ Locker(p)' <=> Locker(p)
        /\ pc'[p] # "holding"
        /\ pc'[p] \in {"set0", "set1"} /\ id'[p] = cur' => sem'[1] = 0
        /\ pc'[p] = "endcreate" /\ id'[p] = cur' => sem'[1] # 0
    BY <1>1, <1>2, SemaphAssumption
       DEF SemInv, Types, CreateGet, CreateSleep, CreateAgain, CreateFails, CreateGetval,
           OpenGet, CloseGetval, UseFails, Fails, Goto, Idle, Active, Locking,
           Holder, User, HasOpen, Locker, Uninitialised
  <1>6. \A k \in 0 .. 2 : sem'[k] >= 0 /\ sem'[k] + adj'[p][k] = sem[k] + adj[p][k]
    BY <1>2, NotNegative
  <1>7. /\ adj'[p][0] = (IF Holder(p)' THEN 1 ELSE 0)
        /\ adj'[p][1] = (IF User(p)' THEN 1 ELSE 0)
        /\ adj'[p][2] = (IF Locker(p)' THEN -1 ELSE 0)
    BY Zenon, <1>2, <1>5 DEF SemInv, AdjInv
  <1> QED
    BY Zenon, <1>2, <1>3, <1>4, <1>5, <1>6, <1>7, Moves

\* A step with a semop keeps the invariant when the operations are what changes
\* in where the process is.
LEMMA SemopStep ==
  ASSUME SemInv, NEW p \in Procs, pc[p] \in Active, id[p] = cur, UNCHANGED <<cur, made>>,
         sem' \in [0 .. 2 -> Int], adj' \in [Procs -> [0 .. 2 -> Int]],
         pc' \in [Procs -> Idle \cup Active], id' \in [Procs -> Nat],
         \/ id'[p] = id[p]
         \/ id'[p] = 0 /\ pc'[p] \in Idle,
         \A q \in Procs \ {p} : pc'[q] = pc[q] /\ id'[q] = id[q] /\ adj'[q] = adj[q],
         \A k \in 0 .. 2 : sem'[k] >= 0 /\ sem'[k] + adj'[p][k] = sem[k] + adj[p][k],
         /\ adj'[p][0] = (IF Holder(p)' THEN 1 ELSE 0)
         /\ adj'[p][1] = (IF User(p)' THEN 1 ELSE 0)
         /\ adj'[p][2] = (IF Locker(p)' THEN -1 ELSE 0),
         Locker(p)' => Locker(p) \/ sem[2] = 0,
         pc'[p] = "holding" => Holder(p)' /\ ~Holder(p),
         pc'[p] \notin {"set0", "set1", "endcreate"}
  PROVE  SemInv'
  <1>1. pc'[p] \in Active => id'[p] # 0
    BY Zenon DEF SemInv, Types, Idle, Active, Locking
  <1>2. Types'
    BY <1>1 DEF SemInv, Types
  <1> QED
    BY Zenon, <1>2, Moves

\* A step that is one semop on the set: its counter and its users move together.
LEMMA OperationStep ==
  ASSUME SemInv, NEW p \in Procs,
         \/ CreateLock(p) \/ CreateEnd(p) \/ OpenOp(p) \/ sem_wait(p) \/ sem_signal(p)
         \/ CloseOp(p) \/ CloseUnlock(p)
  PROVE  SemInv'
  <1>0. /\ pc \in [Procs -> Idle \cup Active] /\ id \in [Procs -> Nat]
        /\ sem \in [0 .. 2 -> Int] /\ adj \in [Procs -> [0 .. 2 -> Int]]
        /\ adj[p][0] = (IF Holder(p) THEN 1 ELSE 0)
        /\ adj[p][1] = (IF User(p) THEN 1 ELSE 0)
        /\ adj[p][2] = (IF Locker(p) THEN -1 ELSE 0)
    BY Zenon DEF SemInv, Types, AdjInv
  <1>1. CASE CreateLock(p)
    <2>1. semop(p, Op(0, 0, 1)) /\ UNCHANGED <<cur, made>> /\ sem[2] = 0
      BY Zenon, <1>1 DEF CreateLock
    <2>2. /\ id[p] = cur
          /\ sem' \in [0 .. 2 -> Int] /\ adj' \in [Procs -> [0 .. 2 -> Int]]
          /\ \A k \in 0 .. 2 : sem'[k] >= 0 /\ sem'[k] + adj'[p][k] = sem[k] + adj[p][k]
          /\ adj'[p][0] = adj[p][0]
          /\ adj'[p][1] = adj[p][1]
          /\ adj'[p][2] = adj[p][2] - 1
          /\ \A q \in Procs \ {p} : adj'[q] = adj[q]
      BY <1>0, <2>1 DEF semop, CanOp, Op
    <2>3. /\ pc[p] \in Active /\ pc'[p] = "getval" /\ id'[p] = id[p]
          /\ pc' \in [Procs -> Idle \cup Active] /\ id' \in [Procs -> Nat]
          /\ \A q \in Procs \ {p} : pc'[q] = pc[q] /\ id'[q] = id[q]
      BY Zenon, <1>0, <1>1 DEF CreateLock, Goto, Idle, Active, Locking
    <2>4. /\ ~Holder(p) /\ ~Holder(p)'
          /\ ~User(p) /\ ~User(p)'
          /\ ~Locker(p) /\ Locker(p)'
      BY Zenon, <1>0, <1>1, <2>1, <2>2, <2>3 DEF CreateLock, Goto, Holder, User, HasOpen, Locker, Locking
    <2>5. /\ adj'[p][0] = (IF Holder(p)' THEN 1 ELSE 0)
          /\ adj'[p][1] = (IF User(p)' THEN 1 ELSE 0)
          /\ adj'[p][2] = (IF Locker(p)' THEN -1 ELSE 0)
      BY <1>0, <2>2, <2>4
    <2> QED
      BY Zenon, <2>1, <2>2, <2>3, <2>4, <2>5, SemopStep
  <1>2. CASE CreateEnd(p)
    <2>1. semop(p, Op(0, -1, -1)) /\ UNCHANGED <<cur, made>>
      BY Zenon, <1>2 DEF CreateEnd, op_endcreate
    <2>2. /\ id[p] = cur
          /\ sem' \in [0 .. 2 -> Int] /\ adj' \in [Procs -> [0 .. 2 -> Int]]
          /\ \A k \in 0 .. 2 : sem'[k] >= 0 /\ sem'[k] + adj'[p][k] = sem[k] + adj[p][k]
          /\ adj'[p][0] = adj[p][0]
          /\ adj'[p][1] = adj[p][1] + 1
          /\ adj'[p][2] = adj[p][2] + 1
          /\ \A q \in Procs \ {p} : adj'[q] = adj[q]
      BY <1>0, <2>1 DEF semop, CanOp, Op
    <2>3. /\ pc[p] \in Active /\ pc'[p] = "open" /\ id'[p] = id[p]
          /\ pc' \in [Procs -> Idle \cup Active] /\ id' \in [Procs -> Nat]
          /\ \A q \in Procs \ {p} : pc'[q] = pc[q] /\ id'[q] = id[q]
      BY Zenon, <1>0, <1>2 DEF CreateEnd, Goto, Idle, Active, Locking
    <2>4. /\ ~Holder(p) /\ ~Holder(p)'
          /\ ~User(p) /\ User(p)'
          /\ Locker(p) /\ ~Locker(p)'
      BY Zenon, <1>0, <1>2, <2>1, <2>2, <2>3 DEF CreateEnd, Goto, Holder, User, HasOpen, Locker, Locking
    <2>5. /\ adj'[p][0] = (IF Holder(p)' THEN 1 ELSE 0)
          /\ adj'[p][1] = (IF User(p)' THEN 1 ELSE 0)
          /\ adj'[p][2] = (IF Locker(p)' THEN -1 ELSE 0)
      BY <1>0, <2>2, <2>4
    <2> QED
      BY Zenon, <2>1, <2>2, <2>3, <2>4, <2>5, SemopStep
  <1>3. CASE OpenOp(p)
    <2>1. semop(p, Op(0, -1, 0)) /\ UNCHANGED <<cur, made>>
      BY Zenon, <1>3 DEF OpenOp
    <2>2. /\ id[p] = cur
          /\ sem' \in [0 .. 2 -> Int] /\ adj' \in [Procs -> [0 .. 2 -> Int]]
          /\ \A k \in 0 .. 2 : sem'[k] >= 0 /\ sem'[k] + adj'[p][k] = sem[k] + adj[p][k]
          /\ adj'[p][0] = adj[p][0]
          /\ adj'[p][1] = adj[p][1] + 1
          /\ adj'[p][2] = adj[p][2]
          /\ \A q \in Procs \ {p} : adj'[q] = adj[q]
      BY <1>0, <2>1 DEF semop, CanOp, Op
    <2>3. /\ pc[p] \in Active /\ pc'[p] = "open" /\ id'[p] = id[p]
          /\ pc' \in [Procs -> Idle \cup Active] /\ id' \in [Procs -> Nat]
          /\ \A q \in Procs \ {p} : pc'[q] = pc[q] /\ id'[q] = id[q]
      BY Zenon, <1>0, <1>3 DEF OpenOp, Goto, Idle, Active, Locking
    <2>4. /\ ~Holder(p) /\ ~Holder(p)'
          /\ ~User(p) /\ User(p)'
          /\ ~Locker(p) /\ ~Locker(p)'
      BY Zenon, <1>0, <1>3, <2>1, <2>2, <2>3 DEF OpenOp, Goto, Holder, User, HasOpen, Locker, Locking
    <2>5. /\ adj'[p][0] = (IF Holder(p)' THEN 1 ELSE 0)
          /\ adj'[p][1] = (IF User(p)' THEN 1 ELSE 0)
          /\ adj'[p][2] = (IF Locker(p)' THEN -1 ELSE 0)
      BY <1>0, <2>2, <2>4
    <2> QED
      BY Zenon, <2>1, <2>2, <2>3, <2>4, <2>5, SemopStep
  <1>4. CASE sem_wait(p)
    <2>1. semop(p, Op(-1, 0, 0)) /\ UNCHANGED <<cur, made>>
      BY Zenon, <1>4 DEF sem_wait
    <2>2. /\ id[p] = cur
          /\ sem' \in [0 .. 2 -> Int] /\ adj' \in [Procs -> [0 .. 2 -> Int]]
          /\ \A k \in 0 .. 2 : sem'[k] >= 0 /\ sem'[k] + adj'[p][k] = sem[k] + adj[p][k]
          /\ adj'[p][0] = adj[p][0] + 1
          /\ adj'[p][1] = adj[p][1]
          /\ adj'[p][2] = adj[p][2]
          /\ \A q \in Procs \ {p} : adj'[q] = adj[q]
      BY <1>0, <2>1 DEF semop, CanOp, Op
    <2>3. /\ pc[p] \in Active /\ pc'[p] = "holding" /\ id'[p] = id[p]
          /\ pc' \in [Procs -> Idle \cup Active] /\ id' \in [Procs -> Nat]
          /\ \A q \in Procs \ {p} : pc'[q] = pc[q] /\ id'[q] = id[q]
      BY Zenon, <1>0, <1>4 DEF sem_wait, Goto, Idle, Active, Locking
    <2>4. /\ ~Holder(p) /\ Holder(p)'
          /\ User(p) /\ User(p)'
          /\ ~Locker(p) /\ ~Locker(p)'
      BY Zenon, <1>0, <1>4, <2>1, <2>2, <2>3 DEF sem_wait, Goto, Holder, User, HasOpen, Locker, Locking
    <2>5. /\ adj'[p][0] = (IF Holder(p)' THEN 1 ELSE 0)
          /\ adj'[p][1] = (IF User(p)' THEN 1 ELSE 0)
          /\ adj'[p][2] = (IF Locker(p)' THEN -1 ELSE 0)
      BY <1>0, <2>2, <2>4
    <2> QED
      BY Zenon, <2>1, <2>2, <2>3, <2>4, <2>5, SemopStep
  <1>5. CASE sem_signal(p)
    <2>1. semop(p, Op(1, 0, 0)) /\ UNCHANGED <<cur, made>>
      BY Zenon, <1>5 DEF sem_signal
    <2>2. /\ id[p] = cur
          /\ sem' \in [0 .. 2 -> Int] /\ adj' \in [Procs -> [0 .. 2 -> Int]]
          /\ \A k \in 0 .. 2 : sem'[k] >= 0 /\ sem'[k] + adj'[p][k] = sem[k] + adj[p][k]
          /\ adj'[p][0] = adj[p][0] - 1
          /\ adj'[p][1] = adj[p][1]
          /\ adj'[p][2] = adj[p][2]
          /\ \A q \in Procs \ {p} : adj'[q] = adj[q]
      BY <1>0, <2>1 DEF semop, CanOp, Op
    <2>3. /\ pc[p] \in Active /\ pc'[p] = "open" /\ id'[p] = id[p]
          /\ pc' \in [Procs -> Idle \cup Active] /\ id' \in [Procs -> Nat]
          /\ \A q \in Procs \ {p} : pc'[q] = pc[q] /\ id'[q] = id[q]
      BY Zenon, <1>0, <1>5 DEF sem_signal, Goto, Idle, Active, Locking
    <2>4. /\ Holder(p) /\ ~Holder(p)'
          /\ User(p) /\ User(p)'
          /\ ~Locker(p) /\ ~Locker(p)'
      BY Zenon, <1>0, <1>5, <2>1, <2>2, <2>3 DEF sem_signal, Goto, Holder, User, HasOpen, Locker, Locking
    <2>5. /\ adj'[p][0] = (IF Holder(p)' THEN 1 ELSE 0)
          /\ adj'[p][1] = (IF User(p)' THEN 1 ELSE 0)
          /\ adj'[p][2] = (IF Locker(p)' THEN -1 ELSE 0)
      BY <1>0, <2>2, <2>4
    <2> QED
      BY Zenon, <2>1, <2>2, <2>3, <2>4, <2>5, SemopStep
  <1>6. CASE CloseOp(p)
    <2>1. semop(p, Op(0, 1, 1)) /\ UNCHANGED <<cur, made>> /\ sem[2] = 0
      BY Zenon, <1>6 DEF CloseOp
    <2>2. /\ id[p] = cur
          /\ sem' \in [0 .. 2 -> Int] /\ adj' \in [Procs -> [0 .. 2 -> Int]]
          /\ \A k \in 0 .. 2 : sem'[k] >= 0 /\ sem'[k] + adj'[p][k] = sem[k] + adj[p][k]
          /\ adj'[p][0] = adj[p][0]
          /\ adj'[p][1] = adj[p][1] - 1
          /\ adj'[p][2] = adj[p][2] - 1
          /\ \A q \in Procs \ {p} : adj'[q] = adj[q]
      BY <1>0, <2>1 DEF semop, CanOp, Op
    <2>3. /\ pc[p] \in Active /\ pc'[p] = "close_getval" /\ id'[p] = id[p]
          /\ pc' \in [Procs -> Idle \cup Active] /\ id' \in [Procs -> Nat]
          /\ \A q \in Procs \ {p} : pc'[q] = pc[q] /\ id'[q] = id[q]
      BY Zenon, <1>0, <1>6 DEF CloseOp, Goto, Idle, Active, Locking
    <2>4. /\ ~Holder(p) /\ ~Holder(p)'
          /\ User(p) /\ ~User(p)'
          /\ ~Locker(p) /\ Locker(p)'
      BY Zenon, <1>0, <1>6, <2>1, <2>2, <2>3 DEF CloseOp, Goto, Holder, User, HasOpen, Locker, Locking
    <2>5. /\ adj'[p][0] = (IF Holder(p)' THEN 1 ELSE 0)
          /\ adj'[p][1] = (IF User(p)' THEN 1 ELSE 0)
          /\ adj'[p][2] = (IF Locker(p)' THEN -1 ELSE 0)
      BY <1>0, <2>2, <2>4
    <2> QED
      BY Zenon, <2>1, <2>2, <2>3, <2>4, <2>5, SemopStep
  <1>7. CASE CloseUnlock(p)
    <2>1. semop(p, Op(0, 0, -1)) /\ UNCHANGED <<cur, made>>
      BY Zenon, <1>7 DEF CloseUnlock, op_unlock
    <2>2. /\ id[p] = cur
          /\ sem' \in [0 .. 2 -> Int] /\ adj' \in [Procs -> [0 .. 2 -> Int]]
          /\ \A k \in 0 .. 2 : sem'[k] >= 0 /\ sem'[k] + adj'[p][k] = sem[k] + adj[p][k]
          /\ adj'[p][0] = adj[p][0]
          /\ adj'[p][1] = adj[p][1]
          /\ adj'[p][2] = adj[p][2] + 1
          /\ \A q \in Procs \ {p} : adj'[q] = adj[q]
      BY <1>0, <2>1 DEF semop, CanOp, Op
    <2>3. /\ pc[p] \in Active /\ pc'[p] = "idle" /\ id'[p] = 0
          /\ pc' \in [Procs -> Idle \cup Active] /\ id' \in [Procs -> Nat]
          /\ \A q \in Procs \ {p} : pc'[q] = pc[q] /\ id'[q] = id[q]
      BY Zenon, <1>0, <1>7 DEF CloseUnlock, Goto, Idle, Active, Locking
    <2>4. /\ ~Holder(p) /\ ~Holder(p)'
          /\ ~User(p) /\ ~User(p)'
          /\ Locker(p) /\ ~Locker(p)'
      BY Zenon, <1>0, <1>7, <2>1, <2>2, <2>3 DEF CloseUnlock, Goto, Holder, User, HasOpen, Locker, Locking
    <2>5. /\ adj'[p][0] = (IF Holder(p)' THEN 1 ELSE 0)
          /\ adj'[p][1] = (IF User(p)' THEN 1 ELSE 0)
          /\ adj'[p][2] = (IF Locker(p)' THEN -1 ELSE 0)
      BY SMTT(20), <1>0, <2>2, <2>4
    <2> QED
      BY Zenon, <2>1, <2>2, <2>3, <2>4, <2>5, SemopStep DEF Idle
  <1> QED
    BY Zenon, <1>1, <1>2, <1>3, <1>4, <1>5, <1>6, <1>7

\* The exit of a process, with what the kernel undoes.
LEMMA ExitStep ==
  ASSUME SemInv, NEW p \in Procs, Exit(p)
  PROVE  SemInv'
  <1>1. /\ adj[p][0] = (IF Holder(p) THEN 1 ELSE 0)
        /\ adj[p][1] = (IF User(p) THEN 1 ELSE 0)
        /\ adj[p][2] = (IF Locker(p) THEN -1 ELSE 0)
        /\ sem \in [0 .. 2 -> Int] /\ adj \in [Procs -> [0 .. 2 -> Int]]
        /\ Locker(p) => sem[2] = 1
    BY Zenon DEF SemInv, Types, AdjInv, LockInv
  <1>2. \A k \in 0 .. 2 : sem[k] + adj[p][k] >= 0
    BY <1>1, NotNegative
  <1>3. /\ sem' \in [0 .. 2 -> Int] /\ adj' \in [Procs -> [0 .. 2 -> Int]]
        /\ \A k \in 0 .. 2 : sem'[k] = sem[k] + adj[p][k] /\ adj'[p][k] = 0
        /\ \A q \in Procs \ {p} : adj'[q] = adj[q]
    BY Zenon, <1>2, UndoDoes DEF SemInv, Exit
  <1>4. /\ UNCHANGED <<cur, made>>
        /\ pc'[p] = "exited" /\ id'[p] = 0
        /\ pc' \in [Procs -> Idle \cup Active] /\ id' \in [Procs -> Nat]
        /\ \A q \in Procs \ {p} : pc'[q] = pc[q] /\ id'[q] = id[q]
    BY Zenon DEF SemInv, Types, Exit, Idle
  <1>5. Types'
    BY <1>3, <1>4 DEF SemInv, Types, Active, Locking
  <1>6. ~Holder(p)' /\ ~User(p)' /\ ~Locker(p)'
    BY Zenon, <1>4 DEF Holder, User, HasOpen, Locker, Locking
  <1>7. \A k \in 0 .. 2 : sem'[k] >= 0 /\ sem'[k] + adj'[p][k] = sem[k] + adj[p][k]
    BY <1>1, <1>2, <1>3
  <1>8. /\ adj'[p][0] = (IF Holder(p)' THEN 1 ELSE 0)
        /\ adj'[p][1] = (IF User(p)' THEN 1 ELSE 0)
        /\ adj'[p][2] = (IF Locker(p)' THEN -1 ELSE 0)
    BY <1>3, <1>6
  <1> QED
    BY <1>3, <1>4, <1>5, <1>6, <1>7, <1>8, Moves

-----------------------------------------------------------------------------
(* The set is made, initialised or removed.                                *)

\* With no process in the new set the invariant is about the values alone.
LEMMA NobodyIn ==
  ASSUME Counting, Types', MutualExclusion',
         \A q \in Procs : pc'[q] \in Active => id'[q] # cur' \/ pc'[q] = "lock",
         sem'[0] \in {0, 1}, sem'[1] \in {0, BIGCOUNT}, sem'[2] = 0,
         \A q \in Procs : adj'[q][0] = 0 /\ adj'[q][1] = 0 /\ adj'[q][2] = 0
  PROVE  SemInv'
  <1>1. \A q \in Procs : ~Holder(q)' /\ ~User(q)' /\ ~Locker(q)'
    BY Zenon DEF Holder, User, HasOpen, Locker, Active, Locking
  <1>2. AdjInv' /\ LockInv' /\ ValueInv'
    BY Zenon, <1>1 DEF AdjInv, LockInv, ValueInv
  <1>3. Users' = {}
    BY Zenon, <1>1 DEF Users
  <1>4. CountInv'
    BY <1>3, SemaphAssumption DEF CountInv, Counting
  <1>5. InitInv'
    BY Zenon DEF InitInv, Active, Locking
  <1> QED
    BY Zenon, <1>2, <1>4, <1>5 DEF SemInv

\* semctl IPC_RMID, in sem_rm or sem_close.
LEMMA RemoveStep ==
  ASSUME SemInv, NEW p \in Procs, sem_rm(p) \/ CloseRm(p)
  PROVE  SemInv'
  <1>1. /\ cur' = 0
        /\ sem' \in [0 .. 2 -> Int] /\ adj' \in [Procs -> [0 .. 2 -> Int]]
        /\ \A k \in 0 .. 2 : sem'[k] = 0 /\ \A q \in Procs : adj'[q][k] = 0
    BY Zenon, RmidDoes DEF SemInv, sem_rm, CloseRm
  <1>2. /\ UNCHANGED made
        /\ pc'[p] = "idle" /\ id'[p] = 0
        /\ pc' \in [Procs -> Idle \cup Active] /\ id' \in [Procs -> Nat]
        /\ \A q \in Procs \ {p} : pc'[q] = pc[q] /\ id'[q] = id[q]
    BY DEF SemInv, Types, sem_rm, CloseRm, Goto, Idle
  <1>3. Types'
    BY <1>1, <1>2 DEF SemInv, Types, Active, Locking
  <1>4. MutualExclusion'
    BY Zenon, <1>2 DEF SemInv, MutualExclusion
  <1>5. \A q \in Procs : pc'[q] \in Active => id'[q] # cur'
    BY Zenon, <1>1, <1>3 DEF Types
  <1> QED
    BY <1>1, <1>3, <1>4, <1>5, NobodyIn DEF SemInv, CountInv

\* semget makes a new set.
LEMMA NewSetStep ==
  ASSUME SemInv, NEW p \in Procs, CreateGet(p), cur = 0
  PROVE  SemInv'
  <1>1. /\ cur' = made + 1 /\ made' = made + 1 /\ UNCHANGED <<sem, adj>>
        /\ pc' = [pc EXCEPT ![p] = "lock"] /\ id' = [id EXCEPT ![p] = cur']
    BY Zenon DEF CreateGet, Goto
  <1>2. Types'
    BY <1>1 DEF SemInv, Types, Active
  <1>3. \A q \in Procs : ~Holder(q) /\ ~User(q) /\ ~Locker(q)
    BY Zenon DEF SemInv, Types, Holder, User, HasOpen, Locker, Active, Locking
  <1>4. \A q \in Procs : adj'[q][0] = 0 /\ adj'[q][1] = 0 /\ adj'[q][2] = 0
    BY Zenon, <1>1, <1>3 DEF SemInv, AdjInv
  <1>5. sem'[0] \in {0, 1} /\ sem'[2] = 0
    BY Zenon, <1>1, <1>3 DEF SemInv, ValueInv, LockInv
  <1>6. sem'[1] \in {0, BIGCOUNT}
    <2>1. Users = {}
      BY Zenon, <1>3 DEF Users
    <2> QED
      BY <1>1, <2>1, SemaphAssumption DEF SemInv, CountInv, Counting
  <1>7. MutualExclusion'
    BY Zenon, <1>1 DEF SemInv, Types, MutualExclusion
  <1>8. \A q \in Procs : pc'[q] \in Active => id'[q] # cur' \/ pc'[q] = "lock"
    BY <1>1 DEF SemInv, Types
  <1> QED
    BY Zenon, <1>2, <1>4, <1>5, <1>6, <1>7, <1>8, NobodyIn DEF SemInv, CountInv

\* semctl SETVAL: nobody uses a set that is not initialised.
LEMMA InitialiseStep ==
  ASSUME SemInv, NEW p \in Procs, CreateSet0(p) \/ CreateSet1(p)
  PROVE  SemInv'
  <1>1. /\ sem[1] = 0 /\ Locker(p) /\ id[p] = cur
        /\ pc[p] \in {"set0", "set1"} /\ UNCHANGED <<cur, made, id>>
        /\ pc' = [pc EXCEPT ![p] = IF CreateSet0(p) THEN "set1" ELSE "endcreate"]
    BY Zenon DEF SemInv, InitInv, CreateSet0, CreateSet1, Goto, Locker, Locking
  <1>2. /\ sem' \in [0 .. 2 -> Int] /\ adj' \in [Procs -> [0 .. 2 -> Int]]
        /\ sem'[2] = sem[2] /\ \A q \in Procs : adj'[q][2] = adj[q][2]
        /\ \A q \in Procs : adj'[q][0] \in {0, adj[q][0]} /\ adj'[q][1] \in {0, adj[q][1]}
        /\ CreateSet0(p) => sem'[0] = 1 /\ sem'[1] = 0
        /\ CreateSet1(p) => sem'[0] = sem[0] /\ sem'[1] = BIGCOUNT
    BY <1>1, SemaphAssumption DEF SemInv, Types, CreateSet0, CreateSet1, SETVAL, initval
  <1>3. Users = {}
    BY Zenon, <1>1, ZeroMeansNone DEF SemInv
  <1>4. \A q \in Procs : ~User(q) /\ ~Holder(q)
    BY Zenon, <1>3 DEF Users, User, Holder, HasOpen
  <1>5. \A q \in Procs : /\ Locker(q)' <=> Locker(q)
                         /\ ~User(q)' /\ ~Holder(q)'
    BY Zenon, <1>1, <1>4 DEF SemInv, Types, Locker, Locking, User, HasOpen, Holder
  <1>6. Types'
    BY Zenon, <1>1, <1>2 DEF SemInv, Types, Active, Locking
  <1>7. AdjInv'
    BY <1>2, <1>4, <1>5 DEF SemInv, AdjInv
  <1>8. LockInv' /\ ValueInv'
    BY Zenon, <1>2, <1>5 DEF SemInv, LockInv, ValueInv
  <1>9. CountInv'
    <2>1. Users' = {}
      BY Zenon, <1>5 DEF Users
    <2> QED
      BY <1>2, <2>1, SemaphAssumption DEF SemInv, CountInv, Counting
  <1>10. InitInv'
    <2>1. BIGCOUNT # 0
      BY UsersCount, SemaphAssumption DEF SemInv, CountInv
    <2>2. \A q \in Procs \ {p} : ~Locker(q) /\ pc'[q] = pc[q] /\ id'[q] = id[q]
      BY <1>1 DEF SemInv, LockInv
    <2>3. \A q \in Procs \ {p} : pc'[q] \in {"set0", "set1", "endcreate"} => id'[q] # cur'
      BY Zenon, <1>1, <2>2 DEF Locker, Locking
    <2>4. CASE CreateSet0(p)
      <3>1. pc'[p] = "set1"
        BY Zenon, <1>1, <2>4 DEF SemInv, Types
      <3> QED
        BY Zenon, <1>2, <2>3, <2>4, <3>1 DEF InitInv
    <2>5. CASE CreateSet1(p)
      <3>1. pc'[p] = "endcreate"
        BY Zenon, <2>5 DEF SemInv, Types, CreateSet1, Goto
      <3> QED
        BY Zenon, <1>2, <2>1, <2>3, <2>5, <3>1 DEF InitInv
    <2> QED
      BY Zenon, <2>4, <2>5
  <1>11. MutualExclusion'
    BY Zenon, <1>1 DEF SemInv, Types, MutualExclusion
  <1> QED
    BY Zenon, <1>6, <1>7, <1>8, <1>9, <1>10, <1>11 DEF SemInv

-----------------------------------------------------------------------------

\* Before the first sem_create there is no set.
LEMMA SemInit == Init /\ Counting => SemInv
  <1> SUFFICES ASSUME Init, Counting PROVE SemInv
    BY Zenon
  <1>1. Zero \in [0 .. 2 -> Int] /\ \A k \in 0 .. 2 : Zero[k] = 0
    BY DEF Zero, Op
  <1>2. Types
    BY <1>1 DEF Init, Types, Idle, Active, Locking
  <1>3. \A q \in Procs : pc[q] = "idle"
    BY Zenon DEF Init
  <1>4. \A q \in Procs : ~Holder(q) /\ ~User(q) /\ ~Locker(q)
    BY Zenon, <1>3 DEF Holder, User, HasOpen, Locker, Locking
  <1>5. AdjInv /\ LockInv /\ ValueInv
    BY <1>1, <1>4 DEF Init, AdjInv, LockInv, ValueInv
  <1>6. CountInv
    BY <1>1, <1>4 DEF Init, CountInv, Users
  <1>7. InitInv /\ MutualExclusion
    BY Zenon, <1>3 DEF InitInv, MutualExclusion
  <1> QED
    BY Zenon, <1>2, <1>5, <1>6, <1>7 DEF SemInv

\* Every step of every process keeps the invariant.
LEMMA SemStep == SemInv /\ [Next]_vars => SemInv'
  <1> SUFFICES ASSUME SemInv, [Next]_vars PROVE SemInv'
    BY Zenon
  <1>1. ASSUME NEW p \in Procs, CreateGet(p) PROVE SemInv'
    <2>1. CASE cur = 0
      BY Zenon, <1>1, <2>1, NewSetStep
    <2>2. CASE cur # 0
      BY Zenon, <1>1, <2>2, QuietStep
    <2> QED
      BY Zenon, <2>1, <2>2
  <1>2. ASSUME NEW p \in Procs, Create(p) PROVE SemInv'
    BY Zenon, <1>2, QuietStep, OperationStep, InitialiseStep DEF Create
  <1>3. ASSUME NEW p \in Procs, OpenGet(p) \/ OpenOp(p) PROVE SemInv'
    BY Zenon, <1>3, QuietStep, OperationStep
  <1>4. ASSUME NEW p \in Procs, sem_wait(p) \/ sem_signal(p) \/ sem_rm(p) PROVE SemInv'
    BY Zenon, <1>4, OperationStep, RemoveStep
  <1>5. ASSUME NEW p \in Procs, CloseOp(p) \/ Close(p) PROVE SemInv'
    BY Zenon, <1>5, QuietStep, OperationStep, RemoveStep DEF Close
  <1>6. ASSUME NEW p \in Procs, UseFails(p) \/ Exit(p) PROVE SemInv'
    BY Zenon, <1>6, QuietStep, ExitStep
  <1>7. CASE UNCHANGED vars
    <2>1. Users' = Users
      BY Zenon, <1>7 DEF vars, Users, User, HasOpen
    <2> QED
      BY Zenon, <1>7, <2>1 DEF vars, SemInv, Types, AdjInv, LockInv, ValueInv, CountInv, InitInv,
                        MutualExclusion, Holder, User, HasOpen, Locker
  <1> QED
    BY Zenon, <1>1, <1>2, <1>3, <1>4, <1>5, <1>6, <1>7 DEF Next

-----------------------------------------------------------------------------
(* Who opened the semaphore with sem_create keeps it.                      *)

\* A process that is to remove the set read that nobody uses it, and since it
\* holds the lock only sem_open, which takes no lock, has got in.
CreatorsInv ==
    /\ via \subseteq Procs /\ semval \in [Procs -> Int]
    /\ \A p \in Procs : (pc[p] = "close" /\ id[p] = cur /\ Last(p)) =>
           \A q \in via : ~User(q)

\* Every step but the ones that end sem_create and sem_open and the read of the
\* counter in sem_close.
Elsewhere(s) ==
    \/ CreateGet(s) \/ CreateLock(s) \/ CreateSleep(s) \/ CreateAgain(s)
    \/ CreateFails(s) \/ CreateGetval(s) \/ CreateSet0(s) \/ CreateSet1(s)
    \/ OpenGet(s) \/ sem_wait(s) \/ sem_signal(s) \/ sem_rm(s)
    \/ CloseOp(s) \/ CloseRm(s) \/ CloseUnlock(s) \/ UseFails(s) \/ Exit(s)

\* What such a step leaves alone: it opens no semaphore and reads no counter.
Harmless(s) ==
    /\ via' = via /\ semval' \in {semval, [semval EXCEPT ![s] = 0]}
    /\ cur' \in {cur, 0, made + 1}
    /\ pc' = [pc EXCEPT ![s] = pc'[s]] /\ pc'[s] # "close"
    /\ \A q \in Procs \ {s} : id'[q] = id[q]
    /\ HasOpen(s)' => HasOpen(s) /\ id' = id

\* Most of them end a call, and the process forgets the set.
LEMMA LeavingHarmless ==
  ASSUME NEW s \in Procs, pc \in [Procs -> Idle \cup Active], id \in [Procs -> Nat],
         NEW x \in {"idle", "exited", "failed", "failed_create"},
         pc' = [pc EXCEPT ![s] = x], id' = [id EXCEPT ![s] = 0], via' = via,
         semval' \in {semval, [semval EXCEPT ![s] = 0]}, cur' \in {cur, 0}
  PROVE  Harmless(s)
  <1>1. pc'[s] = x /\ \A q \in Procs \ {s} : id'[q] = id[q]
    BY Zenon
  <1>2. x # "close" /\ x \notin {"open", "holding"}
    BY Zenon
  <1> QED
    BY Zenon, <1>1, <1>2 DEF Harmless, HasOpen

\* Each of these steps is harmless in this sense.
LEMMA ElsewhereHarmless ==
  ASSUME NEW s \in Procs, pc \in [Procs -> Idle \cup Active], id \in [Procs -> Nat], Elsewhere(s)
  PROVE  Harmless(s)
  <1>1. CASE CreateGet(s) \/ OpenGet(s)
    BY Zenon, <1>1 DEF CreateGet, OpenGet, Goto, Harmless, HasOpen
  <1>2. CASE CreateLock(s) \/ CreateSleep(s) \/ CreateGetval(s)
    BY Zenon, <1>2 DEF CreateLock, CreateSleep, CreateGetval, Goto, Harmless, HasOpen
  <1>3. CASE CreateSet0(s) \/ CreateSet1(s) \/ CloseOp(s)
    BY Zenon, <1>3 DEF CreateSet0, CreateSet1, CloseOp, Goto, Harmless, HasOpen
  <1>4. CASE CreateAgain(s) \/ CreateFails(s) \/ UseFails(s)
    BY Zenon, <1>4, LeavingHarmless DEF CreateAgain, CreateFails, UseFails, Fails
  <1>5. CASE sem_rm(s) \/ CloseRm(s)
    BY Zenon, <1>5, LeavingHarmless DEF sem_rm, CloseRm, IPC_RMID, Goto
  <1>6. CASE CloseUnlock(s) \/ Exit(s)
    BY Zenon, <1>6, LeavingHarmless DEF CloseUnlock, Exit, Goto
  <1>7. CASE sem_wait(s) \/ sem_signal(s)
    BY Zenon, <1>7 DEF sem_wait, sem_signal, Goto, Harmless, HasOpen
  <1> QED
    BY Zenon, <1>1, <1>2, <1>3, <1>4, <1>5, <1>6, <1>7 DEF Elsewhere

\* Every step keeps that nobody who came by sem_create is about to lose the set.
LEMMA CreatorsStep == SemInv /\ SemInv' /\ CreatorsInv /\ [Next]_vars => CreatorsInv'
  <1> SUFFICES ASSUME SemInv, SemInv', CreatorsInv, [Next]_vars PROVE CreatorsInv'
    BY Zenon
  <1>0. /\ pc \in [Procs -> Idle \cup Active] /\ id \in [Procs -> Nat] /\ cur \in Nat
        /\ via \subseteq Procs /\ semval \in [Procs -> Int] /\ sem[1] \in Int
        /\ made \in Nat /\ \A p \in Procs : id[p] <= made
    BY DEF SemInv, Types, CreatorsInv
  <1>a. ASSUME NEW s \in Procs, Elsewhere(s) PROVE Harmless(s)
    BY Zenon, <1>0, <1>a, ElsewhereHarmless
  <1>b. ASSUME NEW s \in Procs
        PROVE  \/ CloseGetval(s) \/ CreateEnd(s) \/ OpenOp(s) \/ Elsewhere(s)
               \/ ~(\/ CreateGet(s) \/ Create(s) \/ OpenGet(s) \/ OpenOp(s)
                    \/ sem_wait(s) \/ sem_signal(s) \/ sem_rm(s)
                    \/ CloseOp(s) \/ Close(s) \/ UseFails(s) \/ Exit(s))
    BY Zenon DEF Create, Close, Elsewhere
  <1>c. \/ UNCHANGED vars
        \/ \E s \in Procs : CloseGetval(s) \/ CreateEnd(s) \/ OpenOp(s) \/ Elsewhere(s)
    BY Zenon, <1>b DEF Next
  <1>1. via' \subseteq Procs /\ semval' \in [Procs -> Int]
    <2>1. ASSUME NEW s \in Procs, CloseGetval(s) PROVE via' = via /\ semval' \in [Procs -> Int]
      BY Zenon, <1>0, <2>1 DEF CloseGetval
    <2>2. ASSUME NEW s \in Procs, CreateEnd(s) \/ OpenOp(s)
          PROVE  via' \subseteq via \cup {s} /\ semval' = semval
      BY Zenon, <2>2 DEF CreateEnd, OpenOp
    <2>3. ASSUME NEW s \in Procs, Elsewhere(s) PROVE via' = via /\ semval' \in [Procs -> Int]
      BY <1>0, <1>a, <2>3 DEF Harmless
    <2>4. UNCHANGED vars => via' = via /\ semval' = semval
      BY Zenon DEF vars
    <2> QED
      BY Zenon, <1>0, <1>c, <2>1, <2>2, <2>3, <2>4
  <1> SUFFICES ASSUME NEW p \in Procs, pc'[p] = "close", id'[p] = cur', Last(p)',
                      NEW q \in via'
               PROVE  ~User(q)'
    BY Zenon, <1>1 DEF CreatorsInv
  <1>2. cur' # 0
    BY Zenon DEF SemInv, Types, Active, Locking
  <1>3. pc[p] = "close" /\ id[p] = cur => Locker(p)
    BY Zenon DEF Locker, Locking
  <1>4. ASSUME NEW s \in Procs, CloseGetval(s) PROVE ~User(q)'
    <2>1. CASE s = p
      <3>1. sem[1] = BIGCOUNT /\ via' = via
        BY Zenon, <1>0, <1>4, <2>1 DEF CloseGetval, Last
      <3>2. Users = {}
        <4>1. BIGCOUNT # 0
          BY UsersCount, SemaphAssumption DEF SemInv, CountInv
        <4>2. Cardinality(Users) = 0
          BY <3>1, <4>1, UsersCount, SemaphAssumption DEF SemInv, CountInv
        <4> QED
          BY Zenon, <4>2, UsersCount DEF SemInv, CountInv
      <3>3. ~User(q) /\ q \in Procs
        BY Zenon, <1>1, <3>2 DEF Users
      <3> QED
        BY Zenon, <1>0, <1>4, <2>1, <3>3 DEF CloseGetval, Goto, User, HasOpen
    <2>2. CASE s # p
      <3>1. pc[p] = "close" /\ id[p] = cur /\ Locker(s)
        BY Zenon, <1>0, <1>4, <2>2 DEF CloseGetval, Goto, Locker, Locking
      <3> QED
        BY Zenon, <1>3, <2>2, <3>1 DEF SemInv, LockInv
    <2> QED
      BY Zenon, <2>1, <2>2
  <1>5. ASSUME NEW s \in Procs, CreateEnd(s) PROVE ~User(q)'
    <2>1. pc[p] = "close" /\ id[p] = cur /\ Locker(s) /\ s # p
      BY Zenon, <1>0, <1>5 DEF CreateEnd, Goto, semop, CanOp, Locker, Locking
    <2> QED
      BY Zenon, <1>3, <2>1 DEF SemInv, LockInv
  <1>6. ASSUME NEW s \in Procs, OpenOp(s) PROVE ~User(q)'
    <2>1. /\ pc[p] = "close" /\ id[p] = cur /\ Last(p)
          /\ q \in via /\ pc'[q] = pc[q] /\ id'[q] = id[q] /\ cur' = cur
      BY Zenon, <1>0, <1>6 DEF OpenOp, Goto, Last
    <2> QED
      BY Zenon, <2>1 DEF CreatorsInv, User, HasOpen
  <1>7. ASSUME NEW s \in Procs, Elsewhere(s) PROVE ~User(q)'
    <2>1. Harmless(s)
      BY Zenon, <1>a, <1>7
    <2>2. s # p /\ pc[p] = "close" /\ id'[p] = id[p] /\ \A t \in Procs \ {s} : pc'[t] = pc[t]
      BY Zenon, <1>0, <2>1 DEF Harmless
    <2>3. id[p] # made + 1
      BY <1>0
    <2>4. cur' = cur /\ id[p] = cur
      BY Zenon, <1>2, <2>1, <2>2, <2>3 DEF Harmless
    <2>5. semval'[p] = semval[p] /\ via' = via
      BY Zenon, <1>0, <2>1, <2>2 DEF Harmless
    <2>6. ~User(q) /\ q \in Procs
      BY Zenon, <1>0, <2>2, <2>4, <2>5 DEF CreatorsInv, Last
    <2>7. HasOpen(q)' => HasOpen(q) /\ id'[q] = id[q]
      BY Zenon, <2>1, <2>2, <2>6 DEF Harmless, HasOpen
    <2> QED
      BY Zenon, <2>4, <2>6, <2>7 DEF User
  <1>8. CASE UNCHANGED vars
    BY Zenon, <1>8 DEF vars, CreatorsInv, User, HasOpen, Last
  <1> QED
    BY Zenon, <1>c, <1>4, <1>5, <1>6, <1>7, <1>8

-----------------------------------------------------------------------------
(* The theorems.                                                           *)

INSTANCE FiniteSetTheorems

\* Every set of processes is finite, and smaller than BIGCOUNT.
LEMMA SubsetsCount == Counting
  <1>1. ASSUME NEW U \in SUBSET Procs
        PROVE  /\ Cardinality(U) \in Nat /\ Cardinality(U) < BIGCOUNT
               /\ Cardinality(U) = 0 => U = {}
               /\ \A p \in Procs \ U : Cardinality(U \cup {p}) = Cardinality(U) + 1
               /\ \A p \in U : Cardinality(U \ {p}) = Cardinality(U) - 1
    <2>1. IsFiniteSet(U) /\ Cardinality(U) <= Cardinality(Procs)
      BY Zenon, SemaphAssumption, FS_Subset
    <2>2. Cardinality(U) \in Nat /\ Cardinality(Procs) \in Nat
      BY Zenon, <2>1, SemaphAssumption, FS_CardinalityType
    <2>3. Cardinality(U) < BIGCOUNT
      BY <2>1, <2>2, SemaphAssumption
    <2>4. Cardinality(U) = 0 => U = {}
      BY Zenon, <2>1, FS_EmptySet
    <2>5. \A p \in Procs \ U : Cardinality(U \cup {p}) = Cardinality(U) + 1
      BY Zenon, <2>1, FS_AddElement
    <2>6. \A p \in U : Cardinality(U \ {p}) = Cardinality(U) - 1
      BY Zenon, <2>1, FS_RemoveElement
    <2> QED
      BY Zenon, <2>2, <2>3, <2>4, <2>5, <2>6
  <1>2. Cardinality({}) = 0
    BY Zenon, FS_EmptySet
  <1> QED
    BY Zenon, <1>1, <1>2 DEF Counting

\* However processes create, open, close, remove the semaphore and exit, no two
\* are between sem_wait and sem_signal on the same set.
THEOREM Exclusion == Spec => []MutualExclusion
  <1>1. SemInv => MutualExclusion
    BY Zenon DEF SemInv
  <1> QED
    BY <1>1, SemInit, SubsetsCount, SemStep, PTL DEF Spec

\* The process counter that sem_close reads is BIGCOUNT less the processes that
\* have the set open, or 0 before the set is initialised.
THEOREM CounterIsExact == Spec => []CounterExact
  <1>1. SemInv => CounterExact
    BY Zenon DEF SemInv, CountInv, Users, User, CounterExact
  <1> QED
    BY <1>1, SemInit, SubsetsCount, SemStep, PTL DEF Spec

\* sem_close removes no set that a process opened with sem_create and still uses.
THEOREM CreatorsAreKept == Spec => CreatorsKept
  <1>1. Init => CreatorsInv
    BY DEF Init, CreatorsInv
  <1>2. SemInv /\ CreatorsInv =>
          \A p \in Procs : CloseRm(p) => ~ \E q \in via \ {p} : HasOpen(q) /\ id[q] = cur
    BY Zenon DEF CreatorsInv, CloseRm, Goto, User
  <1> QED
    BY <1>1, <1>2, SemInit, SubsetsCount, SemStep, CreatorsStep, PTL DEF Spec, CreatorsKept

-----------------------------------------------------------------------------
(* The sequence number server.                                             *)

Requests == [pid : FifoClients, seqLen : Nat]

\* The types the argument needs.
FifoTypes ==
    /\ seqNum \in Nat
    /\ requests \in Seq(Requests)
    /\ spc \in {"read", "open", "waits", "write", "update"}
    /\ spc # "read" => req \in Requests
    /\ cpc \in [FifoClients -> {"new", "send", "open", "read", "exit", "killed", "errExit"}]
    /\ seqLen \in [FifoClients -> Nat]
    /\ DOMAIN reply \subseteq FifoClients /\ \A c \in DOMAIN reply : reply[c] \in Nat
    /\ DOMAIN got \subseteq FifoClients /\ \A c \in DOMAIN got : got[c] \in Nat

\* A request says what its client wants, which no longer changes.
Honest(rq) == cpc[rq.pid] # "new" /\ rq.seqLen = seqLen[rq.pid]

\* The number n is on its way to c, or c has it.
Given(c, n) == \/ c \in DOMAIN reply /\ n = reply[c]
               \/ c \in DOMAIN got /\ n = got[c]

\* The server has counted past the numbers of c from n on, or is about to.
Counted(c, n) == \/ n + seqLen[c] <= seqNum
                 \/ spc = "update" /\ req.pid = c /\ n = seqNum

\* The inductive invariant: what was given lies below seqNum, so that what is
\* given next lies above all of it.
FifoInv ==
    /\ FifoTypes
    /\ \A k \in 1 .. Len(requests) : Honest(requests[k])
    /\ spc # "read" => Honest(req)
    /\ \A c \in FifoClients, n \in Nat : Given(c, n) => cpc[c] # "new" /\ Counted(c, n)
    /\ \A c, d \in FifoClients, n, m \in Nat :
          (Given(c, n) /\ Given(d, m) /\ c # d) => \/ n + seqLen[c] <= m
                                                   \/ m + seqLen[d] <= n

\* What the head and the tail of a sequence of requests are.
LEMMA HeadTail ==
  ASSUME NEW s \in Seq(Requests), s # << >>
  PROVE  /\ Head(s) \in Requests /\ Head(s) = s[1] /\ 1 \in 1 .. Len(s)
         /\ Tail(s) \in Seq(Requests)
         /\ \A k \in 1 .. Len(Tail(s)) : k + 1 \in 1 .. Len(s) /\ Tail(s)[k] = s[k + 1]
  OBVIOUS

\* What a sequence of requests holds after another one arrives.
LEMMA Appended ==
  ASSUME NEW s \in Seq(Requests), NEW e \in Requests
  PROVE  \A k \in 1 .. Len(Append(s, e)) :
            (k \in 1 .. Len(s) /\ Append(s, e)[k] = s[k]) \/ Append(s, e)[k] = e
  OBVIOUS

\* A step that changes no number and no length, and none of the server's fields
\* but by leaving "read", "open" or "waits", keeps what is about numbers.
LEMMA FifoFrame ==
  ASSUME FifoInv, UNCHANGED <<seqNum, reply, seqLen>>,
         \A c \in FifoClients, n \in Nat : Given(c, n)' => Given(c, n),
         \A c \in FifoClients : cpc[c] # "new" => cpc'[c] # "new",
         spc = "update" => UNCHANGED <<spc, req>>
  PROVE  /\ \A c \in FifoClients, n \in Nat : Given(c, n)' => cpc'[c] # "new" /\ Counted(c, n)'
         /\ \A c, d \in FifoClients, n, m \in Nat :
               (Given(c, n)' /\ Given(d, m)' /\ c # d) => \/ n + seqLen'[c] <= m
                                                          \/ m + seqLen'[d] <= n
  <1>1. ASSUME NEW c \in FifoClients, NEW n \in Nat, Given(c, n)'
        PROVE  cpc'[c] # "new" /\ Counted(c, n)'
    <2>1. Given(c, n)
      BY Zenon, <1>1
    <2> QED
      BY Zenon, <2>1 DEF FifoInv, Counted
  <1>2. ASSUME NEW c \in FifoClients, NEW d \in FifoClients, NEW n \in Nat, NEW m \in Nat,
               Given(c, n)', Given(d, m)', c # d
        PROVE  n + seqLen'[c] <= m \/ m + seqLen'[d] <= n
    <2>1. Given(c, n) /\ Given(d, m)
      BY Zenon, <1>2
    <2> QED
      BY Zenon, <1>2, <2>1 DEF FifoInv
  <1> QED
    BY Zenon, <1>1, <1>2

\* The invariant holds at the start.
LEMMA FifoInit == F!Init => FifoInv
  BY DEF F!Init, FifoInv, FifoTypes, Requests, Given

\* The steps of a client: it sends what it will not change, and takes a number
\* that was on its way to it.
LEMMA ClientStep ==
  ASSUME FifoInv, NEW c \in FifoClients,
         F!Start(c) \/ F!Client(c) \/ F!Killed(c) \/ F!OpenFails(c)
  PROVE  FifoInv'
  <1> USE DEF F!Goto
  <1>t. FifoTypes
    BY Zenon DEF FifoInv
  <1>1. FifoTypes'
    <2>1. CASE F!Start(c)
      BY Zenon, <1>t, <2>1, SeqLensAssumption DEF FifoTypes, F!Start
    <2>2. CASE F!Send(c)
      <3>1. [pid |-> c, seqLen |-> seqLen[c]] \in Requests
        BY ZenonT(30), <1>t DEF FifoTypes, Requests
      <3>2. requests' \in Seq(Requests)
        BY <1>t, <2>2, <3>1 DEF FifoTypes, F!Send
      <3> QED
        BY Zenon, <1>t, <2>2, <3>2 DEF FifoTypes, F!Send
    <2>3. CASE F!Receive(c)
      BY Zenon, <1>t, <2>3 DEF FifoTypes, F!Receive, F!Put
    <2>4. CASE F!Killed(c) \/ F!OpenFails(c)
      BY Zenon, <1>t, <2>4 DEF FifoTypes, F!Killed, F!OpenFails
    <2> QED
      BY Zenon, <2>1, <2>2, <2>3, <2>4 DEF F!Client
  <1>2. (\A k \in 1 .. Len(requests) : Honest(requests[k]))'
    <2>a. \A k \in 1 .. Len(requests) : requests[k] \in Requests /\ Honest(requests[k])
      BY <1>t DEF FifoInv, FifoTypes
    <2>1. CASE F!Send(c)
      <3>1. PICK new \in Requests : /\ new = [pid |-> c, seqLen |-> seqLen[c]]
                                    /\ requests' = Append(requests, new)
        BY Zenon, <1>t, <2>1 DEF FifoTypes, Requests, F!Send
      <3>2. \A k \in 1 .. Len(requests') :
               (k \in 1 .. Len(requests) /\ requests'[k] = requests[k]) \/ requests'[k] = new
        BY Zenon, <1>t, <3>1, Appended DEF FifoTypes
      <3>3. \A rq \in Requests : Honest(rq) => Honest(rq)'
        BY Zenon, <1>t, <2>1 DEF FifoTypes, Requests, Honest, F!Send
      <3>4. Honest(new)'
        BY Zenon, <1>t, <2>1, <3>1 DEF FifoTypes, Honest, F!Send
      <3>5. ASSUME NEW k \in 1 .. Len(requests')
            PROVE  Honest(requests[k])'
        BY Zenon, <2>a, <3>2, <3>3, <3>4 DEF Honest
      <3> QED
        BY Zenon, <3>5
    <2>2. CASE F!Start(c) \/ F!Receive(c) \/ F!Killed(c) \/ F!OpenFails(c)
      <3>1. \A rq \in Requests : Honest(rq) => Honest(rq)'
        BY Zenon, <1>t, <2>2
           DEF FifoTypes, Requests, Honest, F!Start, F!Receive, F!Killed, F!OpenFails
      <3>2. UNCHANGED requests
        BY Zenon, <2>2 DEF F!Start, F!Receive, F!Killed, F!OpenFails
      <3> QED
        BY Zenon, <2>a, <3>1, <3>2
    <2> QED
      BY ZenonT(30), <2>1, <2>2 DEF F!Client
  <1>3. (spc # "read" => Honest(req))'
    <2>1. UNCHANGED <<spc, req>>
      BY Zenon DEF F!Start, F!Client, F!Send, F!Receive, F!Killed, F!OpenFails
    <2>2. \A rq \in Requests : Honest(rq) => Honest(rq)'
      BY Zenon, <1>t
         DEF FifoTypes, Requests, Honest, F!Start, F!Client, F!Send, F!Receive,
             F!Killed, F!OpenFails
    <2> QED
      BY Zenon, <1>t, <2>1, <2>2 DEF FifoInv, FifoTypes, Honest
  <1>4. CASE F!Start(c)
    <2>1. \A n \in Nat : ~Given(c, n)
      BY Zenon, <1>4 DEF FifoInv, F!Start
    <2>2. \A d \in FifoClients, n \in Nat : Given(d, n)' = Given(d, n)
      BY Zenon, <1>4 DEF Given, F!Start
    <2>3. \A d \in FifoClients \ {c} : seqLen'[d] = seqLen[d] /\ cpc'[d] = cpc[d]
      BY Zenon, <1>4 DEF F!Start, FifoInv, FifoTypes
    <2>4. UNCHANGED <<seqNum, spc, req>>
      BY Zenon, <1>4 DEF F!Start
    <2> QED
      <3>1. \A d \in FifoClients, n \in Nat : Given(d, n)' => cpc'[d] # "new" /\ Counted(d, n)'
        BY Zenon, <2>1, <2>2, <2>3, <2>4 DEF FifoInv, Counted
      <3>2. \A d, e \in FifoClients, n, m \in Nat :
               (Given(d, n)' /\ Given(e, m)' /\ d # e) => \/ n + seqLen'[d] <= m
                                                          \/ m + seqLen'[e] <= n
        BY Zenon, <2>1, <2>2, <2>3 DEF FifoInv
      <3> QED
        BY Zenon, <1>1, <1>2, <1>3, <3>1, <3>2 DEF FifoInv
  <1>5. CASE F!Client(c) \/ F!Killed(c) \/ F!OpenFails(c)
    <2>1. UNCHANGED <<seqNum, reply, seqLen, spc, req>>
      BY Zenon, <1>5 DEF F!Client, F!Send, F!Receive, F!Killed, F!OpenFails
    <2>2. \A d \in FifoClients, n \in Nat : Given(d, n)' => Given(d, n)
      BY <1>5 DEF F!Client, F!Send, F!Receive, F!Killed, F!OpenFails, Given, F!Put
    <2>3. \A d \in FifoClients : cpc[d] # "new" => cpc'[d] # "new"
      BY Zenon, <1>5 DEF F!Client, F!Send, F!Receive, F!Killed, F!OpenFails, FifoInv, FifoTypes
    <2> QED
      BY Zenon, <1>1, <1>2, <1>3, <2>1, <2>2, <2>3, FifoFrame DEF FifoInv
  <1> QED
    BY Zenon, <1>4, <1>5

\* The steps of the server: it gives the number seqNum, which is above all that
\* was given, and counts past it before it reads the next request.
LEMMA ServerStep ==
  ASSUME FifoInv, F!Server
  PROVE  FifoInv'
  <1> USE DEF F!Goto
  <1>1. FifoTypes'
    <2>1. CASE F!Read
      BY Zenon, <2>1, HeadTail DEF FifoInv, FifoTypes, F!Read
    <2>2. CASE F!Open \/ F!Meet
      BY Zenon, <2>2 DEF FifoInv, FifoTypes, F!Open, F!Meet
    <2>3. CASE F!Write
      <3>1. req.pid \in FifoClients
        BY ZenonT(30), <2>3 DEF FifoInv, FifoTypes, Requests, F!Write
      <3> QED
        BY Zenon, <2>3, <3>1 DEF FifoInv, FifoTypes, F!Write, F!Put
    <2>4. CASE F!Update
      <3>1. req.seqLen \in Nat
        BY Zenon, <2>4 DEF FifoInv, FifoTypes, Requests, F!Update
      <3> QED
        BY <2>4, <3>1 DEF FifoInv, FifoTypes, F!Update, F!Advance
    <2> QED
      BY Zenon, <2>1, <2>2, <2>3, <2>4 DEF F!Server
  <1>2. (\A k \in 1 .. Len(requests) : Honest(requests[k]))'
    <2>1. CASE F!Read
      BY <2>1, HeadTail DEF FifoInv, FifoTypes, Honest, F!Read
    <2>2. CASE F!Open \/ F!Meet \/ F!Write \/ F!Update
      <3>1. \A k \in 1 .. Len(requests) : requests[k] \in Requests /\ Honest(requests[k])
        BY DEF FifoInv, FifoTypes
      <3>2. \A rq \in Requests : Honest(rq) => Honest(rq)'
        BY Zenon, <2>2 DEF FifoInv, FifoTypes, Requests, Honest, F!Open, F!Meet, F!Write, F!Update
      <3>3. UNCHANGED requests
        BY Zenon, <2>2 DEF F!Open, F!Meet, F!Write, F!Update
      <3> QED
        BY Zenon, <3>1, <3>2, <3>3
    <2> QED
      BY Zenon, <2>1, <2>2 DEF F!Server
  <1>3. (spc # "read" => Honest(req))'
    <2>1. CASE F!Read
      BY <2>1, HeadTail DEF FifoInv, FifoTypes, Honest, F!Read
    <2>2. CASE F!Open \/ F!Meet \/ F!Write \/ F!Update
      BY Zenon, <2>2 DEF FifoInv, FifoTypes, Requests, Honest, F!Open, F!Meet, F!Write, F!Update
    <2> QED
      BY Zenon, <2>1, <2>2 DEF F!Server
  <1>4. CASE F!Read \/ F!Open \/ F!Meet
    <2>1. UNCHANGED <<seqNum, reply, seqLen>> /\ spc # "update"
      BY Zenon, <1>4 DEF F!Read, F!Open, F!Meet
    <2>2. \A d \in FifoClients, n \in Nat : Given(d, n)' => Given(d, n)
      BY Zenon, <1>4 DEF F!Read, F!Open, F!Meet, Given
    <2>3. \A d \in FifoClients : cpc[d] # "new" => cpc'[d] # "new"
      BY Zenon, <1>4 DEF F!Read, F!Open, F!Meet, FifoInv, FifoTypes
    <2> QED
      BY Zenon, <1>1, <1>2, <1>3, <2>1, <2>2, <2>3, FifoFrame DEF FifoInv
  <1>5. CASE F!Write
    <2> DEFINE c == req.pid
    <2>1. c \in FifoClients /\ cpc[c] # "new"
      BY Zenon, <1>5 DEF F!Write, FifoInv, FifoTypes, Requests, Honest
    <2>2. \A d \in FifoClients, n \in Nat : Given(d, n)' => Given(d, n) \/ (d = c /\ n = seqNum)
      BY Zenon, <1>5 DEF F!Write, Given, F!Put
    <2>3. \A d \in FifoClients, n \in Nat : Given(d, n) => n + seqLen[d] <= seqNum
      BY Zenon, <1>5 DEF F!Write, FifoInv, Counted
    <2>4. UNCHANGED <<seqNum, seqLen, cpc, req>> /\ spc' = "update"
      BY Zenon, <1>5 DEF F!Write
    <2>5. \A d \in FifoClients, n \in Nat : Given(d, n)' => cpc'[d] # "new" /\ Counted(d, n)'
      BY Zenon, <2>1, <2>2, <2>3, <2>4 DEF FifoInv, Counted
    <2>6. \A d, e \in FifoClients, n, m \in Nat :
             (Given(d, n)' /\ Given(e, m)' /\ d # e) => \/ n + seqLen'[d] <= m
                                                        \/ m + seqLen'[e] <= n
      BY <2>2, <2>3, <2>4 DEF FifoInv
    <2> QED
      BY Zenon, <1>1, <1>2, <1>3, <2>5, <2>6 DEF FifoInv
  <1>6. CASE F!Update
    <2>1. UNCHANGED <<seqLen, cpc>> /\ seqNum' = seqNum + seqLen[req.pid]
      BY Zenon, <1>6 DEF F!Update, F!Advance, FifoInv, Honest
    <2>2. seqNum \in Nat /\ seqLen \in [FifoClients -> Nat] /\ req.pid \in FifoClients
      BY Zenon, <1>6 DEF F!Update, FifoInv, FifoTypes, Requests
    <2>3. \A d \in FifoClients, n \in Nat : Given(d, n)' = Given(d, n)
      BY Zenon, <1>6 DEF F!Update, Given
    <2>4. \A d \in FifoClients, n \in Nat : Given(d, n)' => cpc'[d] # "new" /\ Counted(d, n)'
      BY <2>1, <2>2, <2>3 DEF FifoInv, Counted
    <2> QED
      BY Zenon, <1>1, <1>2, <1>3, <2>1, <2>3, <2>4 DEF FifoInv
  <1> QED
    BY Zenon, <1>4, <1>5, <1>6 DEF F!Server

\* The server of fifo_seqnum_server.c never gives a number to two clients
\* ("the allocation of unique sequential numbers"), whatever number of clients
\* ask for whatever lengths and whichever of them are killed on the way.
THEOREM NumbersUnique == F!Spec => []UniqueNumbers
  <1>1. FifoInv /\ [F!Next]_(F!vars) => FifoInv'
    <2>1. ASSUME FifoInv, UNCHANGED F!vars
          PROVE  FifoInv'
      <3>1. /\ UNCHANGED <<requests, spc, req, seqNum>>
            /\ UNCHANGED <<reply, cpc, seqLen, got>>
        BY Zenon, <2>1 DEF F!vars
      <3>2. FifoTypes'
        BY Zenon, <2>1, <3>1 DEF FifoInv, FifoTypes
      <3>3. /\ \A rq : Honest(rq)' = Honest(rq)
            /\ \A c, n : Given(c, n)' = Given(c, n)
            /\ \A c, n : Counted(c, n)' = Counted(c, n)
        BY Zenon, <3>1 DEF Honest, Given, Counted
      <3> QED
        BY Zenon, <2>1, <3>1, <3>2, <3>3 DEF FifoInv
    <2> QED
      BY Zenon, <2>1, ClientStep, ServerStep DEF F!Next
  <1>2. FifoInv => UniqueNumbers
    BY Zenon DEF FifoInv, FifoTypes, Given, UniqueNumbers, F!UniqueNumbers
  <1> QED
    BY <1>1, <1>2, FifoInit, PTL DEF F!Spec

-----------------------------------------------------------------------------
(* TELL and WAIT in devzero.c.                                             *)

Waiting == {"test", "call", "suspend", "clear"}
Running == {"load", "store", "tell", "setmask"}

\* A process has the turn from the signal that tells it to the signal it sends.
HasTurn(p) == tpc[p] \in Running \/ p \in sent \/ p \in sigflag

\* The inductive invariant: there is at most one turn, be it a running process,
\* a signal on its way or a flag that is set; and whoever has it finds the
\* counter it expects, the other being one or two behind.
TellInv ==
    /\ area \in Nat /\ reg \in [T!Procs -> Nat] /\ count \in [T!Procs -> Nat]
    /\ tpc \in [T!Procs -> Waiting \cup Running \cup {"exit"}]
    /\ sent \subseteq T!Procs /\ sigflag \subseteq T!Procs
    /\ \A p \in T!Procs :
          /\ tpc[p] = "clear" => p \in sigflag
          /\ tpc[p] \in Running => p \notin sent /\ p \notin sigflag
          /\ p \in sigflag => p \notin sent
          /\ tpc[p] = "store" => reg[p] = area
    /\ ~(HasTurn("parent") /\ HasTurn("child"))
    /\ HasTurn("parent") =>
          CASE tpc["parent"] \in {"load", "store"} ->
                   area = count["parent"] /\ count["child"] = area + 1
            [] tpc["parent"] = "tell" -> area = count["parent"] + 1 /\ count["child"] = area
            [] OTHER -> area = count["parent"] + 2 /\ count["child"] = area + 1
    /\ HasTurn("child") =>
          /\ count["child"] = count["parent"] + 1
          /\ area = (IF tpc["child"] = "tell" THEN count["child"] + 1 ELSE count["child"])

\* Each of the two processes has the other as its partner.
LEMMA OtherIs == T!Other("parent") = "child" /\ T!Other("child") = "parent"
  BY Zenon DEF T!Other, T!Procs

\* The parent loads and stores the counter under its turn, and gives its turn
\* away with the signal.
LEMMA ParentStep == TellInv /\ (T!Run("parent") \/ T!sig_usr("parent")) => TellInv'
  <1> SUFFICES ASSUME TellInv
               PROVE  T!Run("parent") \/ T!sig_usr("parent") => TellInv'
    BY Zenon
  <1> USE DEF TellInv, HasTurn, T!Goto, T!Procs, Waiting, Running
  <1>1. ASSUME T!Load("parent") PROVE TellInv'
    BY Zenon, <1>1 DEF T!Load
  <1>2. ASSUME T!Store("parent") PROVE TellInv'
    BY Zenon, <1>2 DEF T!Store
  <1>3. ASSUME T!Tell("parent") PROVE TellInv'
    BY Zenon, <1>3, OtherIs DEF T!Tell, T!Told
  <1>4. ASSUME T!Test("parent") \/ T!Suspend("parent") PROVE TellInv'
    BY <1>4 DEF T!Test, T!Suspend
  <1>5. ASSUME T!Clear("parent") PROVE TellInv'
    BY Zenon, <1>5 DEF T!Clear
  <1>6. ASSUME T!SetMask("parent") PROVE TellInv'
    BY Zenon, <1>6 DEF T!SetMask
  <1>7. ASSUME T!sig_usr("parent") PROVE TellInv'
    BY Zenon, <1>7 DEF T!sig_usr
  <1> QED
    BY Zenon, <1>1, <1>2, <1>3, <1>4, <1>5, <1>6, <1>7 DEF T!Run

\* The same for the child.
LEMMA ChildStep == TellInv /\ (T!Run("child") \/ T!sig_usr("child")) => TellInv'
  <1> SUFFICES ASSUME TellInv
               PROVE  T!Run("child") \/ T!sig_usr("child") => TellInv'
    BY Zenon
  <1> USE DEF TellInv, HasTurn, T!Goto, T!Procs, Waiting, Running
  <1>1. ASSUME T!Load("child") PROVE TellInv'
    BY Zenon, <1>1 DEF T!Load
  <1>2. ASSUME T!Store("child") PROVE TellInv'
    BY <1>2 DEF T!Store
  <1>3. ASSUME T!Tell("child") PROVE TellInv'
    BY <1>3, OtherIs DEF T!Tell, T!Told
  <1>4. ASSUME T!Test("child") \/ T!Suspend("child") PROVE TellInv'
    BY <1>4 DEF T!Test, T!Suspend
  <1>5. ASSUME T!Clear("child") PROVE TellInv'
    BY Zenon, <1>5 DEF T!Clear
  <1>6. ASSUME T!SetMask("child") PROVE TellInv'
    BY Zenon, <1>6 DEF T!SetMask
  <1>7. ASSUME T!sig_usr("child") PROVE TellInv'
    BY Zenon, <1>7 DEF T!sig_usr
  <1> QED
    BY Zenon, <1>1, <1>2, <1>3, <1>4, <1>5, <1>6, <1>7 DEF T!Run

\* Neither process of devzero.c ever finds a counter other than the one it
\* expects ("parent: expected %d, got %d"), however far they count: TELL and
\* WAIT pass one turn back and forth.
THEOREM TurnsTaken == T!Spec => []TakesTurns
  <1>1. T!Init => TellInv
    BY DEF T!Init, TellInv, HasTurn, T!Procs, Waiting, Running
  <1>2. TellInv /\ [T!Next]_(T!vars) => TellInv'
    <2>1. ASSUME TellInv, UNCHANGED T!vars PROVE TellInv'
      BY Zenon, <2>1 DEF T!vars, TellInv, HasTurn
    <2> QED
      BY Zenon, <2>1, ParentStep, ChildStep DEF T!Next, T!Procs
  <1>3. TellInv => TakesTurns
    BY Zenon DEF TellInv, TakesTurns, T!TakesTurns, Waiting, Running
  <1> QED
    BY <1>1, <1>2, <1>3, PTL DEF T!Spec

-----------------------------------------------------------------------------
(* svshm_xfr.                                                              *)

Setup == {"semget", "setval1", "setval2", "shmget"}
Removed == {"rmshm", "exit"}
InWriter == w \in {"read", "release", "rmsem"}
InReader == r \in {"test", "write", "release", "last"}

\* Before the writer is ready.
XfrSetup ==
    /\ r = "new" /\ out = << >> /\ next = 1
    /\ w = "semget" => set = << >> \/ \E a, b \in 0 .. 1 : set = <<a, b>>
    /\ w = "setval1" => \E a, b \in 0 .. 1 : set = <<a, b>>
    /\ w = "setval2" => \E b \in 0 .. 1 : set = <<1, b>>
    /\ w = "shmget" => set = <<1, 0>>

\* The reader has written what the writer has read, or all but one block, which
\* is in the segment (0 for the end of the file).
Level == next = Len(out) + 1
Ahead == next = Len(out) + 2 /\ shm \in {0, Len(out) + 1}

\* There is one turn: a semaphore has it, or the writer, or the reader.
XfrTurn ==
    /\ set \in {<<1, 0>>, <<0, 1>>, <<0, 0>>}
    /\ InWriter \/ InReader => set = <<0, 0>>
    /\ ~(InWriter /\ InReader)

\* What goes with the turn.
XfrData ==
    /\ w = "read" => Level
    /\ w = "release" \/ set = <<0, 1>> \/ r \in {"test", "write", "last"} => Ahead
    /\ r = "release" => Level
    /\ r \in {"write", "release"} => shm # 0
    /\ r = "last" => shm = 0
    /\ set = <<1, 0>> => Level \/ (shm = 0 /\ w \in {"test", "last"})
    /\ (shm = 0 /\ (set = <<0, 1>> \/ InReader)) => w \in {"test", "last"}

\* The inductive invariant, for a reader that did not start too early.
XfrInv ==
    /\ out \in Seq(Nat) /\ \A k \in 1 .. Len(out) : out[k] = k
    /\ next \in Nat /\ (Level \/ next = Len(out) + 2)
    /\ w \in Setup \cup Removed \cup
              {"reserve", "read", "release", "test", "last", "rmsem", "errExit"}
    /\ w \in Setup => XfrSetup
    /\ w \in Removed => set = << >> /\ ~InReader
    /\ w \notin Setup \cup Removed => XfrTurn /\ XfrData

\* What semop and SETVAL make of a pair of semaphores.
LEMMA Pairs ==
  /\ \A a, b \in 0 .. 1 : [<<a, b>> EXCEPT ![1] = 1] = <<1, b>>
  /\ \A b \in 0 .. 1 : [<<1, b>> EXCEPT ![2] = 0] = <<1, 0>>
  /\ [<<1, 0>> EXCEPT ![1] = @ - 1] = <<0, 0>>
  /\ [<<0, 0>> EXCEPT ![2] = @ + 1] = <<0, 1>>
  /\ [<<0, 1>> EXCEPT ![2] = @ - 1] = <<0, 0>>
  /\ [<<0, 0>> EXCEPT ![1] = @ + 1] = <<1, 0>>
  /\ \A a, b \in 0 .. 1 : <<a, b>> # << >> /\ <<a, b>>[1] = a /\ <<a, b>>[2] = b
  OBVIOUS

\* The writer gets ready: the semaphores are initialised whatever was left.
LEMMA SetupStep ==
  ASSUME XfrInv, w \in Setup, X!Writer
  PROVE  XfrInv'
  <1>1. XfrSetup
    BY Zenon DEF XfrInv
  <1> USE DEF XfrInv, XfrSetup, Setup, Removed, Level
  <1>2. CASE X!CreateSem
    BY SMTT(20), <1>1, <1>2 DEF X!CreateSem, X!Alive
  <1>3. CASE X!initSemAvailable
    BY SMTT(20), <1>1, <1>3, Pairs DEF X!initSemAvailable, X!WRITE_SEM
  <1>4. CASE X!initSemInUse
    BY SMTT(20), <1>1, <1>4, Pairs DEF X!initSemInUse, X!READ_SEM
  <1>5. CASE X!CreateShm
    BY SMTT(20), <1>1, <1>5 DEF X!CreateShm, XfrTurn, XfrData, InWriter, InReader
  <1> QED
    BY Zenon, <1>2, <1>3, <1>4, <1>5
       DEF X!Writer, X!WriterTurn, X!WriterRead, X!WriterRelease, X!WriterTest,
       X!RemoveSem, X!RemoveShm

\* The writer's steps once it is ready.
LEMMA WriterStep ==
  ASSUME XfrInv, w \notin Setup, X!Writer
  PROVE  XfrInv'
  <1> USE DEF XfrInv, Setup, Removed, Level
  <1>1. CASE X!WriterTurn
    <2>1. XfrTurn /\ XfrData /\ set = <<1, 0>> /\ set' = <<0, 0>>
      BY <1>1, Pairs DEF X!WriterTurn, XfrTurn, X!reserveSem, X!Alive, X!WRITE_SEM
    <2> QED
      BY SMTT(20), <1>1, <2>1 DEF X!WriterTurn, XfrTurn, XfrData, Ahead, InWriter, InReader
  <1>2. CASE X!WriterRead
    <2>1. XfrTurn /\ set = <<0, 0>> /\ ~InReader /\ Level
      BY Zenon, <1>2 DEF X!WriterRead, XfrTurn, XfrData, InWriter
    <2>2. Len(out) \in Nat /\ next \in Nat
      BY SMTT(20)
    <2>0. CASE w' = "errExit"
      <3>1. UNCHANGED <<set, out, r, next>>
        BY Zenon, <1>2, <2>0 DEF X!WriterRead
      <3> QED
        BY SMTT(20), <2>0, <2>1, <3>1, Pairs DEF XfrTurn, XfrData, InReader, InWriter
    <2>3. CASE w' # "errExit"
      <3>1. next' = Len(out) + 2 /\ shm' \in {0, Len(out) + 1}
        BY SMTT(20), <1>2, <2>1, <2>2, <2>3 DEF X!WriterRead
      <3>2. UNCHANGED <<set, out, r>> /\ w' = "release"
        BY Zenon, <1>2, <2>3 DEF X!WriterRead
      <3>3. XfrTurn' /\ ~InReader'
        BY Zenon, <2>1, <3>2 DEF XfrTurn, InReader
      <3>4. XfrData'
        BY SMTT(20), <2>1, <3>1, <3>2, <3>3, Pairs DEF XfrData, Ahead, InReader
      <3> QED
        BY SMTT(20), <2>2, <3>1, <3>2, <3>3, <3>4
    <2> QED
      BY Zenon, <2>0, <2>3
  <1>3. CASE X!WriterRelease
    <2>1. XfrTurn /\ XfrData /\ set = <<0, 0>> /\ set' = <<0, 1>>
      BY Zenon, <1>3, Pairs DEF X!WriterRelease, XfrTurn, X!releaseSem, InWriter, X!READ_SEM
    <2> QED
      BY Zenon, <1>3, <2>1 DEF X!WriterRelease, XfrTurn, XfrData, Ahead, InWriter, InReader
  <1>4. CASE X!WriterTest
    BY Zenon, <1>4 DEF X!WriterTest, XfrTurn, XfrData, Ahead, InWriter, InReader
  <1>5. CASE X!RemoveSem \/ X!RemoveShm
    BY Zenon, <1>5 DEF X!RemoveSem, X!RemoveShm, XfrTurn, InWriter, InReader
  <1> QED
    BY Zenon, <1>1, <1>2, <1>3, <1>4, <1>5
       DEF X!Writer, X!CreateSem, X!initSemAvailable, X!initSemInUse, X!CreateShm

\* The reader's steps.  A reader that starts while the writer sets up is early.
LEMMA ReaderStep ==
  ASSUME XfrInv, X!Reader, ~tooearly'
  PROVE  XfrInv'
  <1> USE DEF XfrInv, Removed, Level
  <1>1. CASE X!ReaderStart
    <2>1. w \notin Setup
      BY Zenon, <1>1 DEF X!ReaderStart, Setup
    <2>2. ~InReader /\ ~InReader'
      BY Zenon, <1>1 DEF X!ReaderStart, InReader
    <2> QED
      BY Zenon, <1>1, <2>1, <2>2 DEF X!ReaderStart, XfrTurn, XfrData, Ahead, InWriter
  <1>2. CASE X!ReaderAttach \/ X!ReaderTest
    <2>1. w \notin Setup
      BY Zenon, <1>2 DEF X!ReaderAttach, X!ReaderTest, XfrSetup
    <2> QED
      BY Zenon, <1>2, <2>1
         DEF X!ReaderAttach, X!ReaderTest, XfrTurn, XfrData, Ahead, InWriter, InReader
  <1>3. CASE X!ReaderTurn
    <2>1. w \notin Setup \cup Removed
      BY Zenon, <1>3 DEF X!ReaderTurn, XfrSetup, X!reserveSem, X!Alive
    <2>2. XfrTurn /\ XfrData /\ set = <<0, 1>> /\ set' = <<0, 0>>
      BY SMTT(20), <1>3, <2>1, Pairs DEF X!ReaderTurn, XfrTurn, X!reserveSem, X!READ_SEM
    <2> QED
      BY SMTT(20), <1>3, <2>1, <2>2 DEF X!ReaderTurn, XfrTurn, XfrData, Ahead, InWriter, InReader
  <1>4. CASE X!ReaderWrite
    <2>1. w \notin Setup \cup Removed /\ InReader
      BY Zenon, <1>4 DEF X!ReaderWrite, XfrSetup, InReader
    <2>2. XfrTurn /\ XfrData /\ Ahead /\ shm = Len(out) + 1
      BY ZenonT(30), <1>4, <2>1 DEF X!ReaderWrite, XfrData, Ahead
    <2>3. CASE r' = "release" /\ out' = Append(out, shm)
      <3>1. /\ Len(out') = Len(out) + 1 /\ out' \in Seq(Nat)
            /\ \A k \in 1 .. Len(out') : out'[k] = k
        BY <2>2, <2>3
      <3> QED
        BY SMTT(20), <1>4, <2>1, <2>2, <2>3, <3>1
           DEF X!ReaderWrite, XfrTurn, XfrData, Ahead, InWriter, InReader
    <2>4. CASE r' = "errExit" /\ UNCHANGED out
      BY Zenon, <1>4, <2>1, <2>2, <2>4
         DEF X!ReaderWrite, XfrTurn, XfrData, Ahead, InWriter, InReader
    <2> QED
      BY Zenon, <1>4, <2>3, <2>4 DEF X!ReaderWrite
  <1>5. CASE X!ReaderRelease
    <2>1. w \notin Setup \cup Removed /\ InReader
      BY Zenon, <1>5 DEF X!ReaderRelease, XfrSetup, InReader
    <2>2. XfrTurn /\ XfrData /\ set = <<0, 0>> /\ set' = <<1, 0>>
      BY Zenon, <1>5, <2>1, Pairs DEF X!ReaderRelease, XfrTurn, X!releaseSem, X!WRITE_SEM
    <2> QED
      BY Zenon, <1>5, <2>1, <2>2 DEF X!ReaderRelease, XfrTurn, XfrData, Ahead, InWriter, InReader
  <1>6. CASE X!ReaderFails
    <2>1. w \notin Setup
      BY Zenon, <1>6 DEF X!ReaderFails, XfrSetup
    <2> QED
      BY Zenon, <1>6, <2>1, Pairs
         DEF X!ReaderFails, XfrTurn, XfrData, Ahead, InWriter, InReader, X!Alive
  <1> QED
    BY Zenon, <1>1, <1>2, <1>3, <1>4, <1>5, <1>6 DEF X!Reader

\* "the writer and reader have exclusive, alternating access", and what the
\* reader wrote is what the writer read, in order and without a gap: for an
\* input of any length and whatever an earlier run left behind, provided the
\* reader starts when the writer is ready.
THEOREM Alternation == X!Spec => []Alternates
  <1> DEFINE Inv == tooearly \/ XfrInv
  <1>1. X!Init => Inv
    BY DEF X!Init, XfrInv, XfrSetup, Setup, Removed, Level
  <1>2. Inv /\ [X!Next]_(X!vars) => Inv'
    <2>1. ASSUME tooearly, [X!Next]_(X!vars) PROVE tooearly'
      BY ZenonT(30), <2>1
         DEF X!Next, X!vars, X!Writer, X!CreateSem, X!initSemAvailable, X!initSemInUse,
             X!CreateShm,
         X!WriterTurn, X!WriterRead, X!WriterRelease, X!WriterTest, X!RemoveSem, X!RemoveShm,
         X!Reader, X!ReaderStart, X!ReaderAttach, X!ReaderTurn, X!ReaderTest, X!ReaderWrite,
         X!ReaderRelease, X!ReaderFails
    <2>2. ASSUME XfrInv, UNCHANGED X!vars PROVE XfrInv'
      BY <2>2
         DEF X!vars, XfrInv, XfrSetup, XfrTurn, XfrData, Level, Ahead, InWriter, InReader
    <2> QED
      BY Zenon, <2>1, <2>2, SetupStep, WriterStep, ReaderStep DEF X!Next
  <1>3. Inv => Alternates
    <2>1. ASSUME XfrInv
          PROVE  /\ ~(w \in {"read", "release"} /\ r \in {"test", "write", "release", "last"})
                 /\ out = [n \in 1 .. Len(out) |-> n] /\ Len(out) < next
      BY <2>1 DEF XfrInv, XfrSetup, XfrTurn, InWriter, InReader, Level, Setup, Removed
    <2> QED
      BY Zenon, <2>1 DEF Alternates, X!Alternates
  <1> QED
    BY <1>1, <1>2, <1>3, PTL DEF X!Spec

=============================================================================
