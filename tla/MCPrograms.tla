----------------------------- MODULE MCPrograms -----------------------------
(***************************************************************************)
(* Eight programs and functions for TLC, side by side: the dialing daemon, *)
(* the sequence number server, the loop of pty, db_open, the queue of      *)
(* rwlock.c, TELL_WAIT and its kin, svshm_xfr and thread_multijoin.  The   *)
(* variable part says which of them a behaviour is about; the others stay  *)
(* in their initial state.                                                 *)
(*                                                                         *)
(* For the daemon, system a has line l1, then one that is not found;       *)
(* system b has l1 as well, and l2.                                        *)
(***************************************************************************)
EXTENDS Calld, IpcPrograms, LockPrograms, TLC

CONSTANTS
    c1, c2,                             \* the clients of Calld
    MaxIn, MaxOut                       \* for PtyLoop

VARIABLES
    part,
    ignoreeof, input, toprog, program, written, taken, copied, parent, child, handler,
        sigcaught, sigterms, lateterm, broken

MCWant == c1 :> "a" @@ c2 :> "b"

Entry(n, l) == [name |-> n, line |-> l]
MCSystems == <<Entry("a", "l1"), Entry("b", "l1"), Entry("a", NoLine), Entry("b", "l2")>>

P == INSTANCE PtyLoop WITH pending <- sigterms, missed <- lateterm

pvars == <<ignoreeof, input, toprog, program, written, taken, copied, parent, child, handler,
           sigcaught, sigterms, lateterm, broken>>
all == <<part, vars, fvars, pvars, ovars, qvars, tvars, xvars, jvars>>

-----------------------------------------------------------------------------
MCInit ==
    /\ part \in {"calld", "fifo", "pty", "db_open", "queue", "tell", "xfr", "join"}
    /\ Init /\ F!Init /\ P!Init /\ O!Init /\ Q!Init /\ T!Init /\ X!Init /\ J!Init
    /\ part # "pty" => ignoreeof
    /\ part # "xfr" => set = << >> /\ shm = -1

MCNext ==
    \/ /\ part = "calld" /\ Next
       /\ UNCHANGED <<part, fvars, pvars, ovars, qvars, tvars, xvars, jvars>>
    \/ /\ part = "fifo" /\ F!Next
       /\ UNCHANGED <<part, vars, pvars, ovars, qvars, tvars, xvars, jvars>>
    \/ /\ part = "pty" /\ P!Next
       /\ UNCHANGED <<part, vars, fvars, ovars, qvars, tvars, xvars, jvars>>
    \/ /\ part = "db_open" /\ O!Next
       /\ UNCHANGED <<part, vars, fvars, pvars, qvars, tvars, xvars, jvars>>
    \/ /\ part = "queue" /\ Q!Next
       /\ UNCHANGED <<part, vars, fvars, pvars, ovars, tvars, xvars, jvars>>
    \/ /\ part = "tell" /\ T!Next
       /\ UNCHANGED <<part, vars, fvars, pvars, ovars, qvars, xvars, jvars>>
    \/ /\ part = "xfr" /\ X!Next
       /\ UNCHANGED <<part, vars, fvars, pvars, ovars, qvars, tvars, jvars>>
    \/ /\ part = "join" /\ J!Next
       /\ UNCHANGED <<part, vars, fvars, pvars, ovars, qvars, tvars, xvars>>

\* The fairness of the modules, each for its own behaviours.
MCSpec ==
    /\ MCInit /\ [][MCNext]_all
    /\ WF_vars(part = "calld" /\ Daemon) /\ WF_vars(part = "calld" /\ SigChld)
    /\ \A p \in Pids : WF_vars(part = "calld" /\ p \in DOMAIN kid /\ Child(p))
    /\ WF_fvars(part = "fifo" /\ F!Server)
    /\ \A c \in FifoClients : WF_fvars(part = "fifo" /\ F!Client(c))
    /\ WF_pvars(part = "pty" /\ P!Parent) /\ WF_pvars(part = "pty" /\ P!ChildKilled)
    /\ WF_pvars(part = "pty" /\ P!sig_term)
    /\ \A t \in Searchers : WF_qvars(part = "queue" /\ Q!Find(t))
    /\ \A p \in T!Procs : /\ WF_tvars(part = "tell" /\ T!Run(p))
                          /\ WF_tvars(part = "tell" /\ T!sig_usr(p))
    /\ WF_xvars(part = "xfr" /\ X!Writer) /\ WF_xvars(part = "xfr" /\ X!Reader)
    /\ WF_jvars(part = "join" /\ J!MainStep)
    /\ SF_jvars(part = "join" /\ J!Loop) /\ SF_jvars(part = "join" /\ J!Relock)
    /\ \A t \in J!Threads : /\ WF_jvars(part = "join" /\ J!Thread(t))
                            /\ SF_jvars(part = "join" /\ J!Lock(t))

-----------------------------------------------------------------------------
\* The liveness properties of the modules, each for its own behaviours: what
\* the loops of calld, of the sequence number server and of pty, job_find, the
\* processes of devzero and svshm_xfr and the main thread of thread_multijoin
\* come to.
DialAnswers == part = "calld" => Answers
Answered == part = "fifo" => F!Answered
FindsExactly == part = "queue" => Q!FindsExactly
BothEnd == part = "pty" => P!BothEnd
EofEnds == part = "pty" => P!EofEnds
Completes == part = "tell" => T!Completes
TransferEnds == part = "xfr" => X!CleansUp
JoinsAll == part = "join" => J!JoinsAll
=============================================================================
