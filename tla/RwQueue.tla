------------------------------ MODULE RwQueue ------------------------------
(***************************************************************************)
(* The job queue of apue2e/threads/rwlock.c: a doubly linked list that     *)
(* threads change under the write lock and search under the read lock, one *)
(* job per step.  A job that was removed may be put into the queue again,  *)
(* and keeps its links until then.                                         *)
(***************************************************************************)
EXTENDS Naturals, Sequences, Functions

CONSTANTS
    Jobs,       \* the jobs, each for the thread of its name
    Searchers   \* threads that call job_find

NULL == "NULL"

VARIABLES
    q_head, q_tail, j_next, j_prev,
    readers,    \* who holds the read lock
    jp, id,     \* the local variable, which job_find returns, and its argument
    jobs,       \* history: what the queue should hold, from head to tail
    tear        \* history: "stale" when the last of several jobs was removed and
                \* none appended since, "torn" for good when that emptied the queue

links == <<q_head, q_tail, j_next, j_prev>>
search == <<readers, jp, id>>
vars == <<links, search, jobs, tear>>

\* The functions that change the queue hold the write lock throughout.  What
\* becomes of a torn queue is not followed further.
Write == readers = {} /\ tear # "torn" /\ UNCHANGED search

-----------------------------------------------------------------------------
job_insert(j) ==
    /\ Write /\ j \notin Range(jobs)
    /\ j_next' = [j_next EXCEPT ![j] = q_head]
    /\ j_prev' = [k \in Jobs |-> IF k = j THEN NULL ELSE IF k = q_head THEN j ELSE j_prev[k]]
    /\ q_tail' = IF q_head = NULL THEN j ELSE q_tail
    /\ q_head' = j
    /\ jobs' = <<j>> \o jobs
    /\ UNCHANGED tear

job_append(j) ==
    /\ Write /\ j \notin Range(jobs)
    /\ j_next' = [k \in Jobs |-> IF k = j THEN NULL ELSE IF k = q_tail THEN j ELSE j_next[k]]
    /\ j_prev' = [j_prev EXCEPT ![j] = q_tail]
    /\ q_head' = IF q_tail = NULL THEN j ELSE q_head
    /\ q_tail' = j
    /\ jobs' = Append(jobs, j)
    /\ tear' = IF tear = "stale" THEN "none" ELSE tear

\* Mutant: the first job takes its successor along.
MutNewHead(j) == IF j_next[j] = NULL THEN NULL ELSE j_next[j_next[j]]
NewHead(j) == j_next[j]

\* The queue without job j, which is in it once.
Without(j) ==
    LET k == CHOOSE k \in DOMAIN jobs : jobs[k] = j
    IN  SubSeq(jobs, 1, k - 1) \o SubSeq(jobs, k + 1, Len(jobs))

\* The links of the neighbours are repaired only for a job in the middle.
job_remove(j) ==
    /\ Write /\ j \in Range(jobs)
    /\ \/ /\ j = q_head
          /\ q_head' = NewHead(j)
          /\ q_tail' = IF q_tail = j THEN NULL ELSE q_tail
          /\ UNCHANGED <<j_next, j_prev>>
       \/ /\ j # q_head /\ j = q_tail
          /\ q_tail' = j_prev[j]
          /\ UNCHANGED <<q_head, j_next, j_prev>>
       \/ /\ j \notin {q_head, q_tail}
          /\ j_next' = [j_next EXCEPT ![j_prev[j]] = j_next[j]]
          /\ j_prev' = [j_prev EXCEPT ![j_next[j]] = j_prev[j]]
          /\ UNCHANGED <<q_head, q_tail>>
    /\ jobs' = Without(j)
    /\ tear' = IF tear = "stale" /\ jobs' = << >> THEN "torn"
               ELSE IF tear = "none" /\ j = q_tail /\ j # q_head THEN "stale" ELSE tear

\* job_find: the read lock, one step of the walk, and the return.
FindLock(t) ==
    /\ t \notin readers /\ readers' = readers \cup {t}
    /\ jp' = [jp EXCEPT ![t] = q_head]
    /\ \E j \in Jobs : id' = [id EXCEPT ![t] = j]
    /\ UNCHANGED <<links, jobs, tear>>

\* Mutant: the walk passes over every other job.
MutFindNext(t) ==
    /\ t \in readers /\ jp[t] \notin {NULL, id[t]}
    /\ jp' = [jp EXCEPT ![t] = IF j_next[@] = NULL THEN NULL ELSE j_next[j_next[@]]]
    /\ UNCHANGED <<links, readers, id, jobs, tear>>

FindNext(t) ==
    /\ t \in readers /\ jp[t] \notin {NULL, id[t]}
    /\ jp' = [jp EXCEPT ![t] = j_next[@]]
    /\ UNCHANGED <<links, readers, id, jobs, tear>>

FindEnd(t) ==
    /\ t \in readers /\ jp[t] \in {NULL, id[t]}
    /\ readers' = readers \ {t}
    /\ UNCHANGED <<links, jp, id, jobs, tear>>

-----------------------------------------------------------------------------
\* queue_init.
Init ==
    /\ q_head = NULL /\ q_tail = NULL
    /\ j_next = [j \in Jobs |-> NULL] /\ j_prev = [j \in Jobs |-> NULL]
    /\ readers = {} /\ jp = [t \in Searchers |-> NULL] /\ id = [t \in Searchers |-> NULL]
    /\ jobs = << >> /\ tear = "none"

Find(t) == FindNext(t) \/ FindEnd(t)

Next == \/ \E j \in Jobs : job_insert(j) \/ job_append(j) \/ job_remove(j)
        \/ \E t \in Searchers : FindLock(t) \/ Find(t)

Spec == Init /\ [][Next]_vars
FairSpec == Spec /\ \A t \in Searchers : WF_vars(Find(t))

-----------------------------------------------------------------------------
(* Properties.                                                             *)

\* No job is lost: from q_head the links lead through all jobs of the queue in
\* their order up to q_tail, whatever was inserted, appended, removed and put
\* back before, unless job_remove has removed the last job of several and then
\* all others: q_head then points to a job that is not in the queue.
NoJobLost ==
    \/ tear = "torn"
    \/ /\ q_head = (IF jobs = << >> THEN NULL ELSE Head(jobs))
       /\ q_tail = (IF jobs = << >> THEN NULL ELSE jobs[Len(jobs)])
       /\ \A k \in 1 .. Len(jobs) - 1 :
               j_next[jobs[k]] = jobs[k + 1] /\ j_prev[jobs[k + 1]] = jobs[k]

\* Every search comes, still under the read lock, to the job it was asked for
\* when that is in the queue and to NULL when it is not, and returns only from
\* there, unless the last of several jobs was removed, whose predecessor still
\* points to it: a removed job may then be found, and one that is inserted again
\* closes a ring.
FindsExactly ==
    \A t \in Searchers :
        t \in readers ~> \/ tear # "none"
                         \/ /\ t \in readers
                            /\ jp[t] = (IF id[t] \in Range(jobs) THEN id[t] ELSE NULL)
=============================================================================
