--------------------------- MODULE LockPrograms ----------------------------
(***************************************************************************)
(* Three programs and functions that share data under a lock, side by      *)
(* side: db_open, the queue of rwlock.c and thread_multijoin.              *)
(***************************************************************************)
EXTENDS Integers, Sequences

CONSTANTS
    Openers, Oflags,                    \* for DbOpen
    Jobs, Searchers,                    \* for RwQueue
    argc                                \* for MultiJoin

\* No process is called "nobody".
ASSUME OpenersAssumption == "nobody" \notin Openers

\* "NULL" is no job.
ASSUME JobsAssumption == "NULL" \notin Jobs

\* main ends at once when it has no arguments.
ASSUME ArgcAssumption == argc \in Nat /\ argc >= 2

VARIABLES
    idx, dat, idxlock, oflag, empty, opc, bare, spoiled,
    q_head, q_tail, j_next, j_prev, readers, jp, qid, jobs, tear,
    totThreads, numLive, numUnjoined, state, scan, jpc, mutex, joined

O == INSTANCE DbOpen WITH Procs <- Openers, pc <- opc, lock <- idxlock
Q == INSTANCE RwQueue WITH id <- qid
J == INSTANCE MultiJoin WITH idx <- scan, pc <- jpc

ovars == <<idx, dat, idxlock, oflag, empty, opc, bare, spoiled>>
qvars == <<q_head, q_tail, j_next, j_prev, readers, jp, qid, jobs, tear>>
jvars == <<totThreads, numLive, numUnjoined, state, scan, jpc, mutex, joined>>

\* Properties of two of them, under their names there: db_open's
\* initialisation and the links of the job queue.
Initialised == O!Initialised
NoJobLost == Q!NoJobLost
=============================================================================
