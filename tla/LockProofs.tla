----------------------------- MODULE LockProofs -----------------------------
(***************************************************************************)
(* Safety of the programs of module LockPrograms for every value of their  *)
(* constants.  Each part is about the behaviours of one program.           *)
(***************************************************************************)
EXTENDS LockPrograms, FiniteSets, TLAPS

-----------------------------------------------------------------------------
(* db_open.                                                                *)

OpenPcs == {"idle", "idx", "dat", "dat_fail", "lock", "stat", "init", "unlock", "open",
            "find", "findfree", "write", "link", "dead"}

OpenTypes ==
    /\ opc \in [Openers -> OpenPcs]
    /\ oflag \in [Openers -> Oflags \cup {{}}]
    /\ empty \in [Openers -> BOOLEAN]
    /\ idx \in {"absent", "empty", "table", "other"}
    /\ bare \in BOOLEAN /\ spoiled \in BOOLEAN

\* A process that initialises holds the lock of the whole file, and then no
\* process has a chain locked.
LockHeld ==
    /\ \A p \in Openers : opc[p] \in {"stat", "init", "unlock"} => idxlock = p
    /\ \A p \in Openers : O!Updating(p) => idxlock = "nobody"

\* What fstat said of the size is still so when the table is written.
SizeHolds == \A p \in Openers : opc[p] = "init" /\ empty[p] => idx = "empty"

\* Process p has created or emptied the index file and has yet to write the
\* table, or to find that another process has.
Owes(p) ==
    \/ opc[p] = "dat" /\ O!Creates(p)
    \/ opc[p] \in {"lock", "stat"}
    \/ opc[p] = "init" /\ empty[p]

\* An empty index file is some process's debt, and no update is about to write
\* to it.
Debts ==
    /\ idx # "other"
    /\ idx = "empty" => bare \/ \E p \in Openers : Owes(p)
    /\ \A p \in Openers : O!Writing(p) => idx # "empty"

\* The inductive invariant.
OpenInv == OpenTypes /\ LockHeld /\ SizeHolds /\ (~spoiled => Debts)

\* The steps of db_open that open the files keep the invariant.
LEMMA OpeningStep ==
  ASSUME OpenInv, NEW p \in Openers, O!db_open(p) \/ O!OpenIdx(p) \/ O!OpenDat(p)
  PROVE  OpenInv'
  <1> USE DEF O!Goto, O!files, O!history
  <1>1. CASE O!db_open(p)
    <2>1. /\ opc[p] = "idle" /\ opc' = [opc EXCEPT ![p] = "idx"]
          /\ UNCHANGED <<idx, idxlock, empty, bare, spoiled>>
          /\ \E o \in Oflags : oflag' = [oflag EXCEPT ![p] = o]
      BY Zenon, <1>1 DEF O!db_open
    <2>2. OpenTypes'
      BY <2>1 DEF OpenInv, OpenTypes, OpenPcs
    <2>3. LockHeld' /\ SizeHolds'
      BY <2>1 DEF OpenInv, OpenTypes, LockHeld, SizeHolds, O!Updating, O!Writing
    <2>4. ASSUME NEW q \in Openers, Owes(q) PROVE Owes(q)'
      BY <2>1, <2>4 DEF OpenInv, OpenTypes, Owes, O!Creates
    <2>5. ASSUME Debts PROVE Debts'
      BY <2>1, <2>4, <2>5 DEF OpenInv, OpenTypes, Debts, O!Writing
    <2> QED BY Zenon, <2>1, <2>2, <2>3, <2>5 DEF OpenInv
  <1>2. CASE O!OpenIdx(p)
    <2> DEFINE ok == idx # "absent" \/ "O_CREAT" \in oflag[p]
               empties == ok /\ (idx = "absent" \/ "O_TRUNC" \in oflag[p])
    <2>1. /\ opc[p] = "idx" /\ opc' = [opc EXCEPT ![p] = IF ok THEN "dat" ELSE "dat_fail"]
          /\ idx' = IF empties THEN "empty" ELSE idx
          /\ bare' = IF empties THEN ~O!Creates(p) ELSE bare
          /\ spoiled' = (spoiled \/ (empties /\ \E q \in Openers : O!Writing(q)))
          /\ UNCHANGED <<idxlock, oflag, empty>>
      BY Zenon, <1>2 DEF O!OpenIdx
    <2> HIDE DEF ok, empties
    <2>2. OpenTypes'
      BY Zenon, <2>1 DEF OpenInv, OpenTypes, OpenPcs
    <2>3. LockHeld' /\ SizeHolds'
      BY <2>1 DEF OpenInv, OpenTypes, LockHeld, SizeHolds, O!Updating, O!Writing
    <2>4. ASSUME NEW q \in Openers, Owes(q) PROVE Owes(q)'
      BY <2>1, <2>4 DEF OpenInv, OpenTypes, Owes, O!Creates
    <2>5. ASSUME Debts, ~spoiled' PROVE Debts'
      <3>1. CASE empties
        <4>1. \A q \in Openers : ~O!Writing(q)'
          BY Zenon, <2>1, <2>5, <3>1 DEF OpenInv, OpenTypes, O!Writing
        <4>2. O!Creates(p) => Owes(p)'
          BY <2>1, <3>1 DEF OpenInv, OpenTypes, Owes, O!Creates, empties
        <4> QED BY Zenon, <2>1, <3>1, <4>1, <4>2 DEF Debts
      <3>2. CASE ~empties
        BY <2>1, <2>4, <2>5, <3>2 DEF OpenInv, OpenTypes, Debts, O!Writing
      <3> QED BY Zenon, <3>1, <3>2
    <2> QED BY Zenon, <2>1, <2>2, <2>3, <2>5 DEF OpenInv
  <1>3. CASE O!OpenDat(p)
    <2>1. /\ opc[p] \in {"dat", "dat_fail"} /\ UNCHANGED <<idx, idxlock, bare, spoiled>>
          /\ \/ opc' = [opc EXCEPT ![p] = "lock"] /\ UNCHANGED <<oflag, empty>>
             \/ /\ ~(opc[p] = "dat" /\ O!Creates(p))
                /\ \E x \in {"open", "idle"} : opc' = [opc EXCEPT ![p] = x]
                /\ O!Forget(p)
      BY Zenon, <1>3 DEF O!OpenDat, O!Creates
    <2>2. OpenTypes'
      BY Zenon, <2>1 DEF OpenInv, OpenTypes, OpenPcs, O!Forget
    <2>3. LockHeld' /\ SizeHolds'
      BY <2>1 DEF OpenInv, OpenTypes, LockHeld, SizeHolds, O!Updating, O!Writing, O!Forget
    <2>4. ASSUME NEW q \in Openers, Owes(q) PROVE Owes(q)'
      BY <2>1, <2>4 DEF OpenInv, OpenTypes, Owes, O!Creates, O!Forget
    <2>5. ASSUME Debts PROVE Debts'
      BY <2>1, <2>4, <2>5 DEF OpenInv, OpenTypes, Debts, O!Writing
    <2> QED BY Zenon, <2>1, <2>2, <2>3, <2>5 DEF OpenInv
  <1> QED BY Zenon, <1>1, <1>2, <1>3

\* The steps of db_open under the lock of the whole file keep the invariant.
LEMMA InitialisingStep ==
  ASSUME OpenInv, NEW p \in Openers,
         O!LockIdx(p) \/ O!Stat(p) \/ O!WriteTable(p) \/ O!Unlock(p)
  PROVE  OpenInv'
  <1> USE DEF O!Goto, O!files, O!history, O!Nobody
  <1>1. CASE O!LockIdx(p)
    <2>1. /\ opc[p] = "lock" /\ opc' = [opc EXCEPT ![p] = "stat"]
          /\ idxlock = "nobody" /\ idxlock' = p
          /\ \A q \in Openers : ~O!Updating(q)
          /\ UNCHANGED <<idx, oflag, empty, bare, spoiled>>
      BY Zenon, <1>1 DEF O!LockIdx
    <2>2. OpenTypes'
      BY <2>1 DEF OpenInv, OpenTypes, OpenPcs
    <2>3. LockHeld'
      BY <2>1, OpenersAssumption DEF OpenInv, OpenTypes, LockHeld, O!Updating, O!Writing
    <2>4. SizeHolds'
      BY <2>1 DEF OpenInv, OpenTypes, SizeHolds
    <2>5. ASSUME NEW q \in Openers, Owes(q) PROVE Owes(q)'
      BY <2>1, <2>5 DEF OpenInv, OpenTypes, Owes, O!Creates
    <2>6. ASSUME Debts PROVE Debts'
      BY <2>1, <2>5, <2>6 DEF OpenInv, OpenTypes, Debts, O!Writing
    <2> QED BY Zenon, <2>1, <2>2, <2>3, <2>4, <2>6 DEF OpenInv
  <1>2. CASE O!Stat(p)
    <2>1. /\ opc[p] = "stat" /\ opc' = [opc EXCEPT ![p] = "init"]
          /\ empty' = [empty EXCEPT ![p] = (idx = "empty")]
          /\ UNCHANGED <<idx, idxlock, oflag, bare, spoiled>>
      BY Zenon, <1>2 DEF O!Stat
    <2>2. OpenTypes'
      BY <2>1 DEF OpenInv, OpenTypes, OpenPcs
    <2>3. LockHeld'
      BY <2>1 DEF OpenInv, OpenTypes, LockHeld, O!Updating, O!Writing
    <2>4. SizeHolds'
      BY Zenon, <2>1 DEF OpenInv, OpenTypes, SizeHolds
    <2>5. ASSUME NEW q \in Openers, Owes(q), idx = "empty" PROVE Owes(q)'
      BY Zenon, <2>1, <2>5 DEF OpenInv, OpenTypes, Owes, O!Creates
    <2>6. ASSUME Debts PROVE Debts'
      BY <2>1, <2>5, <2>6 DEF OpenInv, OpenTypes, Debts, O!Writing
    <2> QED BY Zenon, <2>1, <2>2, <2>3, <2>4, <2>6 DEF OpenInv
  <1>3. CASE O!WriteTable(p)
    <2>1. /\ opc[p] = "init" /\ opc' = [opc EXCEPT ![p] = "unlock"]
          /\ idx' = IF empty[p] THEN "table" ELSE idx
          /\ UNCHANGED <<idxlock, oflag, empty, bare, spoiled>>
      BY Zenon, <1>3 DEF O!WriteTable
    <2>2. OpenTypes'
      BY <2>1 DEF OpenInv, OpenTypes, OpenPcs
    <2>3. LockHeld'
      BY <2>1 DEF OpenInv, OpenTypes, LockHeld, O!Updating, O!Writing
    <2>4. SizeHolds'
      BY <2>1 DEF OpenInv, OpenTypes, LockHeld, SizeHolds
    <2>5. ASSUME NEW q \in Openers, Owes(q), ~empty[p] PROVE Owes(q)'
      BY <2>1, <2>5 DEF OpenInv, OpenTypes, Owes, O!Creates
    <2>6. ASSUME Debts PROVE Debts'
      BY <2>1, <2>5, <2>6 DEF OpenInv, OpenTypes, Debts, O!Writing
    <2> QED BY Zenon, <2>1, <2>2, <2>3, <2>4, <2>6 DEF OpenInv
  <1>4. CASE O!Unlock(p)
    <2>1. /\ opc[p] = "unlock" /\ opc' = [opc EXCEPT ![p] = "open"]
          /\ idxlock' = "nobody" /\ O!Forget(p)
          /\ UNCHANGED <<idx, bare, spoiled>>
      BY Zenon, <1>4 DEF O!Unlock
    <2>2. OpenTypes'
      BY <2>1 DEF OpenInv, OpenTypes, OpenPcs, O!Forget
    <2>3. LockHeld'
      BY <2>1 DEF OpenInv, OpenTypes, LockHeld, O!Updating, O!Writing
    <2>4. SizeHolds'
      BY <2>1 DEF OpenInv, OpenTypes, SizeHolds, O!Forget
    <2>5. ASSUME NEW q \in Openers, Owes(q) PROVE Owes(q)'
      BY <2>1, <2>5 DEF OpenInv, OpenTypes, Owes, O!Creates, O!Forget
    <2>6. ASSUME Debts PROVE Debts'
      BY <2>1, <2>5, <2>6 DEF OpenInv, OpenTypes, Debts, O!Writing
    <2> QED BY Zenon, <2>1, <2>2, <2>3, <2>4, <2>6 DEF OpenInv
  <1> QED BY Zenon, <1>1, <1>2, <1>3, <1>4

\* What a process does with its handle keeps the invariant: an update locks its
\* chain while nobody has the whole file locked, and ends at an empty index.
LEMMA UsingStep ==
  ASSUME OpenInv, NEW p \in Openers,
         \/ O!Fetch(p) \/ O!db_close(p) \/ O!Update(p) \/ O!Find(p) \/ O!NoChange(p)
         \/ O!FindFree(p) \/ O!WriteIdx(p) \/ O!WritePtr(p)
  PROVE  OpenInv'
  <1> USE DEF O!Goto, O!files, O!history, O!Nobody
  <1>1. /\ UNCHANGED <<idxlock, oflag, empty, bare, spoiled>>
        /\ \E x \in {"idle", "open", "find", "findfree", "write", "link", "dead"} :
              /\ opc' = [opc EXCEPT ![p] = x]
              /\ x \in {"find", "findfree", "write", "link"} =>
                    O!Updating(p) \/ idxlock = "nobody"
              /\ x \in {"write", "link"} => O!Writing(p) \/ idx # "empty"
        /\ opc[p] \in {"open", "find", "findfree", "write", "link"}
        /\ idx' = IF O!Writing(p) /\ idx = "empty" THEN "other" ELSE idx
    <2>1. CASE O!Fetch(p) \/ O!Find(p) \/ O!FindFree(p)
      BY <2>1 DEF O!Fetch, O!Find, O!FindFree, O!Readptr, O!Updating, O!Writing
    <2>2. CASE O!db_close(p) \/ O!Update(p) \/ O!NoChange(p)
      BY <2>2 DEF O!db_close, O!Update, O!NoChange, O!Updating, O!Writing
    <2>3. CASE O!WriteIdx(p) \/ O!WritePtr(p)
      BY <2>3 DEF O!WriteIdx, O!WritePtr, O!Put, O!Updating, O!Writing
    <2> QED BY Zenon, <2>1, <2>2, <2>3
  <1>2. OpenTypes'
    BY <1>1 DEF OpenInv, OpenTypes, OpenPcs
  <1>3. LockHeld'
    BY <1>1 DEF OpenInv, OpenTypes, LockHeld, O!Updating, O!Writing
  <1>4. SizeHolds'
    BY <1>1, OpenersAssumption DEF OpenInv, OpenTypes, LockHeld, SizeHolds, O!Updating
  <1>5. ASSUME NEW q \in Openers, Owes(q) PROVE Owes(q)'
    BY <1>1, <1>5 DEF OpenInv, OpenTypes, Owes, O!Creates
  <1>6. ASSUME Debts PROVE Debts'
    BY <1>1, <1>5, <1>6 DEF OpenInv, OpenTypes, Debts, O!Writing
  <1> QED BY Zenon, <1>1, <1>2, <1>3, <1>4, <1>6 DEF OpenInv

\* A database that was created is initialised ("If the database was created,
\* we have to initialize it"), "atomically", for any number of processes that
\* open, truncate, fetch and update it with any flags: the table is never written
\* over an index in use, and outside db_open the index starts with it, unless it
\* was emptied without being created, or under an update.
THEOREM OpenInitialises == O!Spec => []Initialised
  <1>1. O!Init => OpenInv
    BY Zenon DEF O!Init, O!Nobody, OpenInv, OpenTypes, OpenPcs, LockHeld, SizeHolds, Debts,
           O!Updating, O!Writing
  <1>2. OpenInv /\ [O!Next]_(O!vars) => OpenInv'
    <2>1. ASSUME OpenInv, UNCHANGED O!vars PROVE OpenInv'
      BY Zenon, <2>1
         DEF O!vars, O!files, O!history, OpenInv, OpenTypes, LockHeld, SizeHolds, Debts, Owes,
             O!Creates, O!Updating, O!Writing
    <2> QED
      BY Zenon, <2>1, OpeningStep, InitialisingStep, UsingStep DEF O!Next
  <1>3. OpenInv => Initialised
    BY DEF OpenInv, OpenTypes, SizeHolds, Debts, Owes, Initialised, O!Initialised
  <1> QED
    BY <1>1, <1>2, <1>3, PTL DEF O!Spec

-----------------------------------------------------------------------------
(* The job queue of rwlock.c.                                              *)

\* Sequence s holds no job twice.
Distinct(s) == \A k, m \in 1 .. Len(s) : s[k] = s[m] => k = m

Last(s) == s[Len(s)]

\* The links lead from q_head to q_tail through the jobs of s, in both
\* directions.
Linked(s) ==
    /\ q_head = IF s = << >> THEN "NULL" ELSE s[1]
    /\ q_tail = IF s = << >> THEN "NULL" ELSE Last(s)
    /\ \A k \in 1 .. Len(s) - 1 : j_next[s[k]] = s[k + 1] /\ j_prev[s[k + 1]] = s[k]

\* The inductive invariant: unless the queue is torn it is linked, and its last
\* job points to no other as long as no last job was removed.
QueueInv ==
    /\ jobs \in Seq(Jobs) /\ Distinct(jobs)
    /\ j_next \in [Jobs -> Jobs \cup {"NULL"}] /\ j_prev \in [Jobs -> Jobs \cup {"NULL"}]
    /\ tear \in {"none", "stale", "torn"}
    /\ tear # "torn" => Linked(jobs)
    /\ tear = "none" /\ jobs # << >> => j_next[Last(jobs)] = "NULL"
    /\ tear = "stale" => jobs # << >>

\* What the queue holds after a job was put in front of it, or behind it.
LEMMA Inserted ==
  ASSUME NEW s \in Seq(Jobs), Distinct(s), NEW j \in Jobs, \A k \in 1 .. Len(s) : s[k] # j
  PROVE  /\ <<j>> \o s \in Seq(Jobs) /\ Distinct(<<j>> \o s)
         /\ Len(<<j>> \o s) = Len(s) + 1
         /\ (<<j>> \o s)[1] = j
         /\ \A k \in 1 .. Len(s) : (<<j>> \o s)[k + 1] = s[k]
  <1> DEFINE r == <<j>> \o s
  <1>1. /\ r \in Seq(Jobs) /\ Len(r) = Len(s) + 1 /\ r[1] = j
        /\ \A k \in 1 .. Len(s) : r[k + 1] = s[k]
    OBVIOUS
  <1> HIDE DEF r
  <1>2. \A k \in 1 .. Len(r) : k = 1 \/ (k - 1 \in 1 .. Len(s) /\ r[k] = s[k - 1])
    BY <1>1
  <1>3. Distinct(r)
    <2> SUFFICES ASSUME NEW k \in 1 .. Len(r), NEW m \in 1 .. Len(r), r[k] = r[m]
                 PROVE  k = m
      BY Zenon DEF Distinct
    <2>1. CASE k = 1 \/ m = 1
      BY Zenon, <1>1, <1>2, <2>1
    <2>2. CASE k # 1 /\ m # 1
      <3>1. k - 1 \in 1 .. Len(s) /\ m - 1 \in 1 .. Len(s) /\ s[k - 1] = s[m - 1]
        BY Zenon, <1>2, <2>2
      <3>2. k - 1 = m - 1
        BY Zenon, <3>1 DEF Distinct
      <3> QED
        BY <1>1, <3>2
    <2> QED
      BY Zenon, <2>1, <2>2
  <1> QED
    BY Zenon, <1>1, <1>3 DEF r

\* What the queue holds after job_append.
LEMMA Appended ==
  ASSUME NEW s \in Seq(Jobs), Distinct(s), NEW j \in Jobs, \A k \in 1 .. Len(s) : s[k] # j
  PROVE  /\ Append(s, j) \in Seq(Jobs) /\ Distinct(Append(s, j))
         /\ Len(Append(s, j)) = Len(s) + 1
         /\ Append(s, j)[Len(s) + 1] = j
         /\ \A k \in 1 .. Len(s) : Append(s, j)[k] = s[k]
  BY DEF Distinct

\* What it holds without its job number i.
LEMMA Removed ==
  ASSUME jobs \in Seq(Jobs), Distinct(jobs), NEW i \in 1 .. Len(jobs)
  PROVE  LET s == Q!Without(jobs[i])
         IN  /\ s \in Seq(Jobs) /\ Distinct(s) /\ Len(s) = Len(jobs) - 1
             /\ \A k \in 1 .. i - 1 : s[k] = jobs[k]
             /\ \A k \in i .. Len(jobs) - 1 : s[k] = jobs[k + 1]
  <1> DEFINE a == SubSeq(jobs, 1, i - 1)
             b == SubSeq(jobs, i + 1, Len(jobs))
             s == Q!Without(jobs[i])
  <1>1. s = a \o b
    <2>1. (CHOOSE k \in DOMAIN jobs : jobs[k] = jobs[i]) = i
      BY DEF Distinct
    <2> QED
      BY Zenon, <2>1 DEF Q!Without
  <1>2. /\ a \in Seq(Jobs) /\ Len(a) = i - 1 /\ \A k \in 1 .. i - 1 : a[k] = jobs[k]
    OBVIOUS
  <1>3. /\ b \in Seq(Jobs) /\ Len(b) = Len(jobs) - i
        /\ \A k \in 1 .. Len(jobs) - i : b[k] = jobs[i + k]
    OBVIOUS
  <1> HIDE DEF a, b, s
  <1>4. /\ s \in Seq(Jobs) /\ Len(s) = Len(jobs) - 1
        /\ \A k \in 1 .. i - 1 : s[k] = jobs[k]
    <2>0. a \in Seq(Jobs) /\ b \in Seq(Jobs)
      BY Zenon, <1>2, <1>3
    <2>1. Len(a) \in Nat /\ Len(b) \in Nat /\ Len(s) = Len(a) + Len(b)
      BY <1>1, <2>0
    <2>2. \A k \in 1 .. Len(a) : s[k] = a[k]
      BY <1>1, <2>0
    <2> QED
      BY <1>1, <1>2, <1>3, <2>1, <2>2
  <1>5. \A k \in i .. Len(jobs) - 1 : s[k] = jobs[k + 1]
    <2> SUFFICES ASSUME NEW k \in i .. Len(jobs) - 1
                 PROVE  s[k] = jobs[k + 1]
      BY Zenon
    <2>1. k - (i - 1) \in 1 .. Len(b) /\ k \in Len(a) + 1 .. Len(a) + Len(b)
      BY <1>2, <1>3
    <2>2. s[k] = b[k - Len(a)]
      BY SMTT(20), <1>1, <1>2, <1>3, <2>1
    <2> QED
      BY <1>2, <1>3, <2>1, <2>2
  <1>6. Distinct(s)
    <2> SUFFICES ASSUME NEW k \in 1 .. Len(s), NEW m \in 1 .. Len(s), s[k] = s[m]
                 PROVE  k = m
      BY Zenon DEF Distinct
    <2> DEFINE at(x) == IF x < i THEN x ELSE x + 1
    <2>1. \A x \in 1 .. Len(s) : at(x) \in 1 .. Len(jobs) /\ s[x] = jobs[at(x)]
      BY <1>4, <1>5
    <2>2. at(k) = at(m)
      BY <2>1 DEF Distinct
    <2> QED
      BY <1>4, <2>2
  <1> QED
    BY Zenon, <1>4, <1>5, <1>6 DEF s

\* An inserted job is linked in front of the head.
LEMMA InsertStep ==
  ASSUME QueueInv, NEW j \in Jobs, Q!job_insert(j)
  PROVE  QueueInv'
  <1>1. /\ jobs \in Seq(Jobs) /\ Distinct(jobs) /\ Linked(jobs) /\ Len(jobs) \in Nat
        /\ tear \in {"none", "stale"} /\ UNCHANGED tear
        /\ j_next \in [Jobs -> Jobs \cup {"NULL"}] /\ j_prev \in [Jobs -> Jobs \cup {"NULL"}]
    BY DEF QueueInv, Q!job_insert, Q!Write
  <1>2. \A k \in 1 .. Len(jobs) : jobs[k] # j /\ jobs[k] \in Jobs
    BY <1>1 DEF Q!job_insert, Q!Range
  <1>3. /\ jobs' \in Seq(Jobs) /\ Distinct(jobs') /\ Len(jobs') = Len(jobs) + 1
        /\ jobs'[1] = j /\ \A k \in 1 .. Len(jobs) : jobs'[k + 1] = jobs[k]
    BY <1>1, <1>2, Inserted DEF Q!job_insert
  <1>4. q_head \in Jobs \cup {"NULL"} /\ (jobs # << >> => q_head = jobs[1] /\ Len(jobs) >= 1)
    BY <1>1, <1>2 DEF Linked
  <1>5. j_next' \in [Jobs -> Jobs \cup {"NULL"}] /\ j_prev' \in [Jobs -> Jobs \cup {"NULL"}]
    BY Zenon, <1>1, <1>4 DEF Q!job_insert, Q!NULL
  <1>6. /\ j_next'[j] = q_head
        /\ \A k \in 1 .. Len(jobs) : j_next'[jobs[k]] = j_next[jobs[k]]
        /\ \A k \in 2 .. Len(jobs) : j_prev'[jobs[k]] = j_prev[jobs[k]]
        /\ jobs # << >> => j_prev'[jobs[1]] = j
    <2>1. \A k \in 2 .. Len(jobs) : jobs[k] # q_head
      BY <1>1, <1>4 DEF Distinct
    <2> QED
      BY <1>1, <1>2, <1>4, <2>1 DEF Q!job_insert, Q!NULL
  <1>7. jobs' # << >> /\ Last(jobs') = IF jobs = << >> THEN j ELSE Last(jobs)
    BY <1>1, <1>3, <1>4 DEF Last
  <1>8. Linked(jobs)'
    <2>1. q_head' = j /\ q_tail' = IF q_head = "NULL" THEN j ELSE q_tail
      BY Zenon DEF Q!job_insert, Q!NULL
    <2>2. q_tail' = Last(jobs')
      BY <1>1, <1>2, <1>4, <1>7, <2>1, JobsAssumption DEF Linked
    <2>3. ASSUME NEW k \in 1 .. Len(jobs') - 1
          PROVE  j_next'[jobs'[k]] = jobs'[k + 1] /\ j_prev'[jobs'[k + 1]] = jobs'[k]
      <3>1. CASE k = 1
        BY <1>1, <1>3, <1>4, <1>6, <3>1
      <3>2. CASE k # 1
        <4>1. /\ k - 1 \in 1 .. Len(jobs) - 1 /\ (k - 1) + 1 = k
              /\ k - 1 \in 1 .. Len(jobs) /\ k \in 2 .. Len(jobs)
              /\ jobs'[k] = jobs[k - 1] /\ jobs'[k + 1] = jobs[k]
          BY SMTT(20), <1>1, <1>3, <3>2
        <4>2. j_next[jobs[k - 1]] = jobs[k] /\ j_prev[jobs[k]] = jobs[k - 1]
          BY Zenon, <1>1, <4>1 DEF Linked
        <4> QED
          BY Zenon, <1>6, <4>1, <4>2
      <3> QED
        BY Zenon, <3>1, <3>2
    <2> QED
      BY Zenon, <1>3, <1>7, <2>1, <2>2, <2>3 DEF Linked, Last
  <1>9. tear' = "none" => j_next'[Last(jobs')] = "NULL"
    BY <1>1, <1>4, <1>6, <1>7 DEF QueueInv, Linked, Last
  <1> QED
    BY Zenon, <1>1, <1>3, <1>5, <1>7, <1>8, <1>9 DEF QueueInv

\* An appended job is linked behind the tail.
LEMMA AppendStep ==
  ASSUME QueueInv, NEW j \in Jobs, Q!job_append(j)
  PROVE  QueueInv'
  <1>1. /\ jobs \in Seq(Jobs) /\ Distinct(jobs) /\ Linked(jobs) /\ Len(jobs) \in Nat
        /\ tear \in {"none", "stale"} /\ tear' = "none"
        /\ j_next \in [Jobs -> Jobs \cup {"NULL"}] /\ j_prev \in [Jobs -> Jobs \cup {"NULL"}]
    BY DEF QueueInv, Q!job_append, Q!Write
  <1>2. \A k \in 1 .. Len(jobs) : jobs[k] # j /\ jobs[k] \in Jobs
    BY <1>1 DEF Q!job_append, Q!Range
  <1>3. /\ jobs' \in Seq(Jobs) /\ Distinct(jobs') /\ Len(jobs') = Len(jobs) + 1
        /\ jobs'[Len(jobs) + 1] = j /\ \A k \in 1 .. Len(jobs) : jobs'[k] = jobs[k]
    BY Zenon, <1>1, <1>2, Appended DEF Q!job_append
  <1>4. /\ q_tail \in Jobs \cup {"NULL"}
        /\ jobs # << >> => q_tail = jobs[Len(jobs)] /\ Len(jobs) >= 1
    BY <1>1, <1>2 DEF Linked, Last
  <1>5. j_next' \in [Jobs -> Jobs \cup {"NULL"}] /\ j_prev' \in [Jobs -> Jobs \cup {"NULL"}]
    BY Zenon, <1>1, <1>4 DEF Q!job_append, Q!NULL
  <1>6. /\ j_prev'[j] = q_tail /\ j_next'[j] = "NULL"
        /\ \A k \in 1 .. Len(jobs) : j_prev'[jobs[k]] = j_prev[jobs[k]]
        /\ \A k \in 1 .. Len(jobs) - 1 : j_next'[jobs[k]] = j_next[jobs[k]]
        /\ jobs # << >> => j_next'[jobs[Len(jobs)]] = j
    <2>1. \A k \in 1 .. Len(jobs) - 1 : jobs[k] # q_tail
      BY <1>1, <1>4 DEF Distinct
    <2> QED
      BY <1>1, <1>2, <1>4, <2>1 DEF Q!job_append, Q!NULL
  <1>7. jobs' # << >> /\ Last(jobs') = j
    BY <1>1, <1>3 DEF Last
  <1>8. Linked(jobs)'
    <2>1. q_tail' = j /\ q_head' = IF q_tail = "NULL" THEN j ELSE q_head
      BY Zenon DEF Q!job_append, Q!NULL
    <2>2. q_head' = jobs'[1]
      BY <1>1, <1>2, <1>3, <1>4, <2>1, JobsAssumption DEF Linked
    <2>3. ASSUME NEW k \in 1 .. Len(jobs') - 1
          PROVE  j_next'[jobs'[k]] = jobs'[k + 1] /\ j_prev'[jobs'[k + 1]] = jobs'[k]
      <3>1. CASE k = Len(jobs)
        BY <1>1, <1>3, <1>4, <1>6, <3>1
      <3>2. CASE k # Len(jobs)
        <4>1. /\ k \in 1 .. Len(jobs) - 1 /\ k + 1 \in 1 .. Len(jobs) /\ k \in 1 .. Len(jobs)
              /\ jobs'[k] = jobs[k] /\ jobs'[k + 1] = jobs[k + 1]
          BY <1>1, <1>3, <3>2
        <4>2. j_next[jobs[k]] = jobs[k + 1] /\ j_prev[jobs[k + 1]] = jobs[k]
          BY Zenon, <1>1, <4>1 DEF Linked
        <4> QED
          BY Zenon, <1>6, <4>1, <4>2
      <3> QED
        BY Zenon, <3>1, <3>2
    <2> QED
      BY Zenon, <1>3, <1>7, <2>1, <2>2, <2>3 DEF Linked, Last
  <1> QED
    BY Zenon, <1>1, <1>3, <1>5, <1>6, <1>7, <1>8 DEF QueueInv

\* A removed job: the first, the last of several, or one in the middle, whose
\* neighbours are linked to each other.
LEMMA RemoveStep ==
  ASSUME QueueInv, NEW j \in Jobs, Q!job_remove(j)
  PROVE  QueueInv'
  <1>1. /\ jobs \in Seq(Jobs) /\ Distinct(jobs) /\ Linked(jobs) /\ Len(jobs) \in Nat
        /\ tear \in {"none", "stale"}
        /\ j_next \in [Jobs -> Jobs \cup {"NULL"}] /\ j_prev \in [Jobs -> Jobs \cup {"NULL"}]
    BY DEF QueueInv, Q!job_remove, Q!Write
  <1>2. PICK i \in 1 .. Len(jobs) : jobs[i] = j
    BY <1>1 DEF Q!job_remove, Q!Range
  <1> DEFINE n == Len(jobs)
  <1>3. /\ jobs' \in Seq(Jobs) /\ Distinct(jobs') /\ Len(jobs') = n - 1
        /\ \A k \in 1 .. i - 1 : jobs'[k] = jobs[k]
        /\ \A k \in i .. n - 1 : jobs'[k] = jobs[k + 1]
    <2>1. jobs' = Q!Without(jobs[i])
      BY Zenon, <1>2 DEF Q!job_remove
    <2> QED
      BY Zenon, <1>1, <2>1, Removed
  <1>4. /\ jobs # << >> /\ q_head = jobs[1] /\ q_tail = jobs[n]
        /\ \A k \in 1 .. n - 1 : j_next[jobs[k]] = jobs[k + 1] /\ j_prev[jobs[k + 1]] = jobs[k]
        /\ \A k \in 1 .. n : jobs[k] \in Jobs
        /\ i = 1 <=> j = q_head
        /\ i = n <=> j = q_tail
    <2>1. jobs # << >> /\ n >= 1
      BY <1>1, <1>2
    <2>2. q_head = jobs[1] /\ q_tail = jobs[n]
      BY Zenon, <1>1, <2>1 DEF Linked, Last
    <2>3. (i = 1 <=> j = q_head) /\ (i = n <=> j = q_tail)
      BY <1>1, <1>2, <2>1, <2>2 DEF Distinct
    <2> QED
      BY <1>1, <2>1, <2>2, <2>3 DEF Linked
  <1>5. /\ jobs' = << >> <=> n = 1
        /\ tear' = IF tear = "stale" /\ jobs' = << >> THEN "torn"
                   ELSE IF tear = "none" /\ j = q_tail /\ j # q_head THEN "stale" ELSE tear
    BY SMTT(20), <1>1, <1>2, <1>3 DEF Q!job_remove
  <1>6. CASE i = 1
    <2>1. /\ UNCHANGED <<j_next, j_prev>> /\ q_head' = j_next[j]
          /\ q_tail' = IF q_tail = j THEN "NULL" ELSE q_tail
      BY Zenon, <1>4, <1>6 DEF Q!job_remove, Q!NewHead, Q!NULL
    <2>2. CASE n = 1
      <3>1. tear = "none" => j_next[j] = "NULL"
        BY <1>2, <1>4, <2>2 DEF QueueInv, Last
      <3>2. tear' # "torn" => Linked(jobs)'
        BY <1>1, <1>2, <1>3, <1>4, <1>5, <1>6, <2>1, <2>2, <3>1 DEF Linked
      <3> QED
        BY Zenon, <1>1, <1>3, <1>4, <1>5, <1>6, <2>1, <2>2, <3>2 DEF QueueInv
    <2>3. CASE n # 1
      <3>1. /\ jobs' # << >> /\ jobs'[1] = jobs[2] /\ Last(jobs') = jobs[n]
            /\ \A k \in 1 .. n - 1 : jobs'[k] = jobs[k + 1]
        BY <1>1, <1>2, <1>3, <1>5, <1>6, <2>3 DEF Last
      <3>2. q_head' = jobs'[1] /\ q_tail' = Last(jobs') /\ UNCHANGED tear
        BY <1>1, <1>2, <1>4, <1>5, <1>6, <2>1, <2>3, <3>1
      <3>3. ASSUME NEW k \in 1 .. Len(jobs') - 1
            PROVE  j_next'[jobs'[k]] = jobs'[k + 1] /\ j_prev'[jobs'[k + 1]] = jobs'[k]
        <4>1. /\ k \in 1 .. n - 1 /\ k + 1 \in 1 .. n - 1
              /\ jobs'[k] = jobs[k + 1] /\ jobs'[k + 1] = jobs[(k + 1) + 1]
          BY <1>1, <1>3, <3>1
        <4> QED
          BY Zenon, <1>4, <2>1, <4>1
      <3>4. Linked(jobs)'
        BY Zenon, <3>1, <3>2, <3>3 DEF Linked
      <3> QED
        BY Zenon, <1>1, <1>3, <1>4, <2>1, <3>1, <3>2, <3>4 DEF QueueInv, Last
    <2> QED
      BY Zenon, <2>2, <2>3
  <1>7. CASE i # 1 /\ i = n
    <2>1. UNCHANGED <<q_head, j_next, j_prev>> /\ q_tail' = j_prev[j]
      BY Zenon, <1>4, <1>7 DEF Q!job_remove
    <2>2. /\ jobs' # << >> /\ jobs'[1] = jobs[1] /\ Last(jobs') = jobs[n - 1]
          /\ \A k \in 1 .. n - 1 : jobs'[k] = jobs[k]
      BY <1>1, <1>2, <1>3, <1>5, <1>7 DEF Last
    <2>3. q_tail' = jobs[n - 1] /\ tear' = "stale"
      <3>1. n - 1 \in 1 .. n - 1 /\ (n - 1) + 1 = n
        BY <1>1, <1>2, <1>7
      <3>2. j_prev[jobs[n]] = jobs[n - 1]
        BY Zenon, <1>4, <3>1
      <3> QED
        BY Zenon, <1>1, <1>2, <1>4, <1>5, <1>7, <2>1, <2>2, <3>2
    <2>4. ASSUME NEW k \in 1 .. Len(jobs') - 1
          PROVE  j_next'[jobs'[k]] = jobs'[k + 1] /\ j_prev'[jobs'[k + 1]] = jobs'[k]
      <3>1. k \in 1 .. n - 1 /\ k + 1 \in 1 .. n - 1
        BY <1>1, <1>3
      <3> QED
        BY Zenon, <1>4, <2>1, <2>2, <3>1
    <2>5. Linked(jobs)'
      BY Zenon, <1>4, <2>1, <2>2, <2>3, <2>4 DEF Linked
    <2> QED
      BY Zenon, <1>1, <1>3, <2>1, <2>2, <2>3, <2>5 DEF QueueInv
  <1>8. CASE i # 1 /\ i # n
    <2>1. /\ i - 1 \in 1 .. n - 1 /\ i \in 1 .. n - 1 /\ i + 1 \in 1 .. n /\ i - 1 \in 1 .. n
          /\ (i - 1) + 1 = i
      BY <1>1, <1>2, <1>8
    <2>2. j_prev[j] = jobs[i - 1] /\ j_next[j] = jobs[i + 1]
      BY Zenon, <1>2, <1>4, <2>1
    <2>3. /\ UNCHANGED <<q_head, q_tail>>
          /\ j_next' = [j_next EXCEPT ![jobs[i - 1]] = jobs[i + 1]]
          /\ j_prev' = [j_prev EXCEPT ![jobs[i + 1]] = jobs[i - 1]]
      BY Zenon, <1>4, <1>8, <2>2 DEF Q!job_remove
    <2>4. /\ jobs' # << >> /\ jobs'[1] = jobs[1] /\ Last(jobs') = jobs[n] /\ UNCHANGED tear
      BY SMTT(20), <1>1, <1>2, <1>3, <1>4, <1>5, <1>8 DEF Last
    <2>5. /\ j_next'[jobs[i - 1]] = jobs[i + 1] /\ j_prev'[jobs[i + 1]] = jobs[i - 1]
          /\ \A k \in 1 .. n : k # i - 1 => j_next'[jobs[k]] = j_next[jobs[k]]
          /\ \A k \in 1 .. n : k # i + 1 => j_prev'[jobs[k]] = j_prev[jobs[k]]
      <3>1. /\ \A k \in 1 .. n : k # i - 1 => jobs[k] # jobs[i - 1]
            /\ \A k \in 1 .. n : k # i + 1 => jobs[k] # jobs[i + 1]
        BY Zenon, <1>1, <2>1 DEF Distinct
      <3> QED
        BY Zenon, <1>1, <1>4, <2>1, <2>3, <3>1
    <2>6. ASSUME NEW k \in 1 .. Len(jobs') - 1
          PROVE  j_next'[jobs'[k]] = jobs'[k + 1] /\ j_prev'[jobs'[k + 1]] = jobs'[k]
      <3>1. CASE k < i - 1
        <4>1. /\ k \in 1 .. n - 1 /\ k \in 1 .. n /\ k + 1 \in 1 .. n
              /\ k # i - 1 /\ k + 1 # i + 1
              /\ jobs'[k] = jobs[k] /\ jobs'[k + 1] = jobs[k + 1]
          BY <1>1, <1>3, <2>1, <3>1
        <4> QED
          BY <1>4, <2>5, <4>1
      <3>2. CASE k = i - 1
        <4>1. jobs'[k] = jobs[i - 1] /\ jobs'[k + 1] = jobs[i + 1]
          BY <1>1, <1>3, <2>1, <3>2
        <4> QED
          BY Zenon, <2>5, <4>1
      <3>3. CASE k > i - 1
        <4>1. /\ k + 1 \in 1 .. n - 1 /\ k + 1 \in 1 .. n /\ (k + 1) + 1 \in 1 .. n
              /\ k + 1 # i - 1 /\ (k + 1) + 1 # i + 1
              /\ jobs'[k] = jobs[k + 1] /\ jobs'[k + 1] = jobs[(k + 1) + 1]
          BY <1>1, <1>3, <2>1, <3>3
        <4> QED
          BY <1>4, <2>5, <4>1
      <3> QED
        BY <1>2, <1>3, <3>1, <3>2, <3>3
    <2>7. Linked(jobs)'
      BY Zenon, <1>4, <2>3, <2>4, <2>6 DEF Linked
    <2>8. j_next' \in [Jobs -> Jobs \cup {"NULL"}] /\ j_prev' \in [Jobs -> Jobs \cup {"NULL"}]
      BY Zenon, <1>1, <1>4, <2>1, <2>3
    <2>9. tear' = "none" => j_next'[Last(jobs')] = "NULL"
      <3>1. n \in 1 .. n /\ n # i - 1
        BY <1>1, <1>2, <1>8
      <3> QED
        BY SMTT(20), <1>4, <2>4, <2>5, <3>1 DEF QueueInv, Last
    <2> QED
      BY Zenon, <1>1, <1>3, <2>4, <2>7, <2>8, <2>9 DEF QueueInv
  <1> QED
    BY Zenon, <1>6, <1>7, <1>8

\* No job is lost: whatever jobs are inserted, appended, removed and put back,
\* the links of rwlock.c lead from q_head through the jobs of the queue to
\* q_tail, in both directions, unless job_remove has removed the last job of
\* several and then all others.
THEOREM QueueKeepsJobs == Q!Spec => []NoJobLost
  <1>1. Q!Init => QueueInv
    BY DEF Q!Init, Q!NULL, QueueInv, Distinct, Linked
  <1>2. QueueInv /\ [Q!Next]_(Q!vars) => QueueInv'
    <2> SUFFICES ASSUME QueueInv, [Q!Next]_(Q!vars)
                 PROVE  QueueInv'
      BY Zenon
    <2>1. CASE UNCHANGED <<Q!links, jobs, tear>>
      BY Zenon, <2>1 DEF Q!links, QueueInv, Linked
    <2>2. ASSUME NEW t \in Searchers, Q!FindLock(t) \/ Q!Find(t)
          PROVE  UNCHANGED <<Q!links, jobs, tear>>
      BY Zenon, <2>2 DEF Q!FindLock, Q!Find, Q!FindNext, Q!FindEnd
    <2>3. UNCHANGED Q!vars => UNCHANGED <<Q!links, jobs, tear>>
      BY Zenon DEF Q!vars
    <2> QED
      BY Zenon, <2>1, <2>2, <2>3, InsertStep, AppendStep, RemoveStep DEF Q!Next
  <1>3. QueueInv => NoJobLost
    BY DEF QueueInv, Linked, Last, NoJobLost, Q!NoJobLost, Q!NULL
  <1> QED
    BY <1>1, <1>2, <1>3, PTL DEF Q!Spec

-----------------------------------------------------------------------------
(* thread_multijoin.                                                       *)

Unjoined == {t \in J!Threads : state[t] # "TS_JOINED"}

Waiting == {t \in J!Threads : state[t] = "TS_TERMINATED"}

JoinPcs == {"create", "loop", "test", "wait", "woken", "scan", "exit",
            "new", "work", "announce", "signal", "gone"}

\* What counting means: a fact about finite sets that the steps rest on.
Counting ==
    /\ Cardinality({}) = 0 /\ Cardinality(J!Threads) = argc - 1
    /\ \A T \in SUBSET J!Threads :
          /\ Cardinality(T) = 0 => T = {}
          /\ \A t \in J!Threads \ T : Cardinality(T \cup {t}) = Cardinality(T) + 1
          /\ \A t \in T : Cardinality(T \ {t}) = Cardinality(T) - 1

\* The inductive invariant: the two counters are exact, a thread was joined once
\* when its state says so, and has then returned; and when main waits although
\* a thread has announced its end, one of those has yet to signal.
JoinInv ==
    /\ jpc \in [J!Threads \cup {J!Main} -> JoinPcs]
    /\ state \in [J!Threads -> {"TS_ALIVE", "TS_TERMINATED", "TS_JOINED"}]
    /\ joined \in [J!Threads -> {0, 1}]
    /\ scan \in Nat
    /\ \A t \in J!Threads :
          /\ joined[t] = 1 <=> state[t] = "TS_JOINED"
          /\ jpc[t] \in {"new", "work", "announce"} <=> state[t] = "TS_ALIVE"
          /\ state[t] = "TS_JOINED" => jpc[t] = "gone"
          /\ jpc[J!Main] = "create" => joined[t] = 0 /\ (t >= scan => jpc[t] = "new")
    /\ Counting /\ numUnjoined = Cardinality(Waiting)
    /\ jpc[J!Main] # "create" => totThreads = argc - 1 /\ numLive = Cardinality(Unjoined)
    /\ jpc[J!Main] = "wait" /\ numUnjoined # 0 => \E t \in J!Threads : jpc[t] = "signal"
    /\ jpc[J!Main] = "exit" => numLive = 0

\* What is counted are sets of threads.
LEMMA Counted ==
  /\ Unjoined \in SUBSET J!Threads /\ Waiting \in SUBSET J!Threads
  /\ Unjoined' \in SUBSET J!Threads /\ Waiting' \in SUBSET J!Threads
  BY Zenon DEF Unjoined, Waiting

\* Main and the threads are different, and nobody is neither.
LEMMA Names == J!Main \notin J!Threads /\ J!Threads \subseteq Nat /\ argc - 1 \in Nat
  BY ArgcAssumption DEF J!Main, J!Threads

\* The steps of a thread.
LEMMA ThreadStep ==
  ASSUME JoinInv, NEW t \in J!Threads, J!Thread(t)
  PROVE  JoinInv'
  <1> USE Names DEF J!Goto, JoinPcs
  <1>1. CASE J!Lock(t)
    BY Zenon, <1>1 DEF J!Lock, J!counts, JoinInv, Unjoined, Waiting
  <1>2. CASE J!Announce(t)
    <2>1. /\ UNCHANGED <<totThreads, numLive, scan, joined>> /\ numUnjoined' = numUnjoined + 1
          /\ state' = [state EXCEPT ![t] = "TS_TERMINATED"] /\ state[t] = "TS_ALIVE"
          /\ jpc[t] = "announce" /\ jpc' = [jpc EXCEPT ![t] = "signal"]
      BY Zenon, <1>2 DEF J!Announce, JoinInv
    <2>2. Unjoined' = Unjoined /\ Waiting' = Waiting \cup {t} /\ t \notin Waiting
      BY Zenon, <2>1 DEF Unjoined, Waiting, JoinInv
    <2>3. numUnjoined' = Cardinality(Waiting')
      BY Zenon, <2>1, <2>2, Counted DEF JoinInv, Counting
    <2> QED
      BY Zenon, <2>1, <2>2, <2>3 DEF JoinInv
  <1>3. CASE J!Signal(t)
    <2>1. /\ UNCHANGED <<totThreads, numLive, numUnjoined, state, scan, joined>>
          /\ jpc[t] = "signal"
          /\ jpc' = [jpc EXCEPT ![t] = "gone", ![J!Main] = J!Woken]
      BY Zenon, <1>3 DEF J!Signal, J!counts
    <2>2. Unjoined' = Unjoined /\ Waiting' = Waiting
      BY Zenon, <2>1 DEF Unjoined, Waiting
    <2>3. /\ jpc'[t] = "gone" /\ jpc'[J!Main] # "wait"
          /\ jpc'[J!Main] = jpc[J!Main] \/ (jpc'[J!Main] = "woken" /\ jpc[J!Main] = "wait")
          /\ \A u \in J!Threads : u # t => jpc'[u] = jpc[u]
          /\ jpc' \in [J!Threads \cup {J!Main} -> JoinPcs]
      BY Zenon, <2>1 DEF JoinInv, J!Woken
    <2>4. \A u \in J!Threads :
            /\ jpc[u] \in {"new", "work", "announce"} <=>
                   jpc'[u] \in {"new", "work", "announce"}
            /\ jpc[u] = "gone" => jpc'[u] = "gone"
            /\ jpc[u] = "new" => jpc'[u] = "new"
      BY Zenon, <2>1, <2>3
    <2> QED
      BY ZenonT(30), <2>1, <2>2, <2>3, <2>4 DEF JoinInv
  <1> QED
    BY Zenon, <1>1, <1>2, <1>3 DEF J!Thread

\* The steps of main.
LEMMA MainStep ==
  ASSUME JoinInv, J!MainStep \/ J!Spurious
  PROVE  JoinInv'
  <1> USE Names DEF J!Goto, JoinPcs
  <1>1. CASE J!Create
    <2>1. /\ UNCHANGED <<totThreads, numLive, numUnjoined, joined>>
          /\ scan \in J!Threads /\ scan' = scan + 1 /\ jpc[J!Main] = "create"
          /\ jpc[scan] = "new" /\ jpc' = [jpc EXCEPT ![scan] = "work"]
          /\ state' = state
      BY <1>1 DEF J!Create, J!counts, JoinInv
    <2>2. Unjoined' = Unjoined /\ Waiting' = Waiting
      BY Zenon, <2>1 DEF Unjoined, Waiting
    <2> QED
      BY <2>1, <2>2 DEF JoinInv
  <1>2. CASE J!Created
    <2>1. /\ UNCHANGED <<numUnjoined, joined, state, scan>>
          /\ totThreads' = argc - 1 /\ numLive' = argc - 1
          /\ jpc[J!Main] = "create" /\ jpc' = [jpc EXCEPT ![J!Main] = "loop"]
      BY Zenon, <1>2 DEF J!Created
    <2>2. Unjoined' = J!Threads /\ Waiting' = Waiting
      <3>1. \A t \in J!Threads : state[t] # "TS_JOINED"
        BY <2>1 DEF JoinInv
      <3> QED
        BY Zenon, <2>1, <3>1 DEF Unjoined, Waiting
    <2> QED
      BY Zenon, <2>1, <2>2 DEF JoinInv, Counting
  <1>3. CASE J!Loop \/ J!Test \/ J!Spurious \/ J!Relock \/ J!Unlock
    <2>1. /\ UNCHANGED <<numUnjoined, numLive, totThreads, joined, state>>
          /\ scan' \in Nat
          /\ jpc[J!Main] # "create"
          /\ jpc'[J!Main] \in {"loop", "test", "wait", "woken", "scan", "exit"}
          /\ jpc'[J!Main] = "wait" => numUnjoined = 0
          /\ jpc'[J!Main] = "exit" => numLive = 0
      <3>1. scan \in Nat /\ J!Main \in DOMAIN jpc
        BY Zenon DEF JoinInv
      <3>2. CASE J!Loop
        BY Zenon, <3>1, <3>2 DEF J!Loop, J!counts
      <3>3. CASE J!Test
        BY <3>1, <3>3 DEF J!Test, J!counts
      <3>4. CASE J!Spurious \/ J!Relock \/ J!Unlock
        BY Zenon, <3>1, <3>4 DEF J!Spurious, J!Relock, J!Unlock, J!counts
      <3> QED
        BY Zenon, <1>3, <3>2, <3>3, <3>4
    <2>2. Unjoined' = Unjoined /\ Waiting' = Waiting
      BY Zenon, <2>1 DEF Unjoined, Waiting
    <2>3. /\ \A t \in J!Threads : jpc'[t] = jpc[t]
          /\ jpc' \in [J!Threads \cup {J!Main} -> JoinPcs]
      <3>1. PICK x \in {"loop", "test", "wait", "woken", "scan", "exit"} :
                jpc' = [jpc EXCEPT ![J!Main] = x]
        BY Zenon, <1>3 DEF J!Loop, J!Test, J!Spurious, J!Relock, J!Unlock
      <3> QED
        BY Zenon, <3>1 DEF JoinInv
    <2> QED
      BY Zenon, <2>1, <2>2, <2>3 DEF JoinInv
  <1>4. CASE J!Join
    <2>1. /\ UNCHANGED <<totThreads, jpc>> /\ jpc[J!Main] = "scan" /\ scan' = scan + 1
          /\ scan \in J!Threads
      BY <1>4, ArgcAssumption DEF J!Join, J!counts, JoinInv, J!Threads
    <2>2. CASE UNCHANGED <<J!counts, state, joined>>
      BY <2>1, <2>2 DEF JoinInv, Unjoined, Waiting, J!counts
    <2>3. CASE ~UNCHANGED <<J!counts, state, joined>>
      <3>1. /\ state[scan] = "TS_TERMINATED" /\ jpc[scan] = "gone"
            /\ state' = [state EXCEPT ![scan] = "TS_JOINED"]
            /\ numLive' = numLive - 1 /\ numUnjoined' = numUnjoined - 1
            /\ joined' = [joined EXCEPT ![scan] = @ + 1]
        BY Zenon, <1>4, <2>3 DEF J!Join, J!Terminated
      <3>2. /\ Unjoined' = Unjoined \ {scan} /\ scan \in Unjoined
            /\ Waiting' = Waiting \ {scan} /\ scan \in Waiting
        BY Zenon, <2>1, <3>1 DEF JoinInv, Unjoined, Waiting
      <3>3. numLive' = Cardinality(Unjoined') /\ numUnjoined' = Cardinality(Waiting')
        <4>1. numLive = Cardinality(Unjoined) /\ numUnjoined = Cardinality(Waiting)
          BY <2>1 DEF JoinInv
        <4>2. /\ Cardinality(Unjoined \ {scan}) = Cardinality(Unjoined) - 1
              /\ Cardinality(Waiting \ {scan}) = Cardinality(Waiting) - 1
          BY Zenon, <3>2, Counted DEF JoinInv, Counting
        <4> QED
          BY Zenon, <3>1, <3>2, <4>1, <4>2
      <3>4. joined[scan] = 0 /\ joined' \in [J!Threads -> {0, 1}]
        BY <2>1, <3>1 DEF JoinInv
      <3> QED
        BY <2>1, <3>1, <3>3, <3>4 DEF JoinInv
    <2> QED
      BY Zenon, <2>2, <2>3
  <1> QED
    BY Zenon, <1>1, <1>2, <1>3, <1>4 DEF J!MainStep

\* No thread is joined twice, and when main exits ("When numLive ... falls to 0,
\* the main thread terminates") it has joined every thread.
JoinedOnce ==
    /\ \A t \in J!Threads : joined[t] <= 1
    /\ jpc[J!Main] = "exit" => \A t \in J!Threads : joined[t] = 1

\* No wakeup is lost: main waits while a thread's end is announced only when a
\* thread that will signal it has yet to do so.
NoLostWakeup ==
    jpc[J!Main] = "wait" /\ (\E t \in J!Threads : state[t] = "TS_TERMINATED") =>
        \E t \in J!Threads : jpc[t] = "signal"

INSTANCE FiniteSetTheorems

\* The threads are finitely many.
LEMMA ThreadsCount == Counting
  <1>1. IsFiniteSet(J!Threads) /\ Cardinality(J!Threads) = argc - 1
    BY ArgcAssumption, FS_Interval DEF J!Threads
  <1>2. ASSUME NEW T \in SUBSET J!Threads
        PROVE  /\ Cardinality(T) = 0 => T = {}
               /\ \A t \in J!Threads \ T : Cardinality(T \cup {t}) = Cardinality(T) + 1
               /\ \A t \in T : Cardinality(T \ {t}) = Cardinality(T) - 1
    <2>1. IsFiniteSet(T)
      BY Zenon, <1>1, FS_Subset
    <2> QED
      BY Zenon, <2>1, FS_EmptySet, FS_AddElement, FS_RemoveElement
  <1> QED
    BY Zenon, <1>1, <1>2, FS_EmptySet DEF Counting

\* thread_multijoin.c joins every thread once before it exits, and loses no
\* wakeup, for any number of threads.
THEOREM JoinsSafely == J!Spec => [](JoinedOnce /\ NoLostWakeup)
  <1>1. J!Init => JoinInv
    <2> SUFFICES ASSUME J!Init PROVE JoinInv
      BY Zenon
    <2>1. Waiting = {}
      BY Zenon DEF J!Init, Waiting
    <2>2. numUnjoined = Cardinality(Waiting)
      BY Zenon, <2>1, ThreadsCount DEF J!Init, Counting
    <2> QED
      BY <2>2, Names, ThreadsCount DEF J!Init, JoinInv, JoinPcs
  <1>2. JoinInv /\ [J!Next]_(J!vars) => JoinInv'
    <2>1. ASSUME JoinInv, UNCHANGED J!vars PROVE JoinInv'
      BY Zenon, <2>1 DEF J!vars, JoinInv, Unjoined, Waiting
    <2> QED
      BY Zenon, <2>1, ThreadStep, MainStep DEF J!Next
  <1>3. JoinInv => JoinedOnce /\ NoLostWakeup
    <2> SUFFICES ASSUME JoinInv PROVE JoinedOnce /\ NoLostWakeup
      BY Zenon
    <2>1. Cardinality(Unjoined) = 0 => Unjoined = {}
      BY Zenon, ThreadsCount, Counted DEF Counting
    <2>2. Cardinality(Waiting) = 0 => Waiting = {}
      BY Zenon, ThreadsCount, Counted DEF Counting
    <2> QED
      BY <2>1, <2>2, Names DEF JoinInv, JoinedOnce, NoLostWakeup, Unjoined, Waiting
  <1> QED
    BY <1>1, <1>2, <1>3, PTL DEF J!Spec
=============================================================================
