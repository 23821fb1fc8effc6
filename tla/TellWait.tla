------------------------------ MODULE TellWait ------------------------------
(***************************************************************************)
(* Parent and child of apue2e/advio/devzero.c take turns to increment a    *)
(* counter in shared memory, synchronised by the signals of                *)
(* apue2e/lib/tellwait.c.  The handler runs between any two steps of a     *)
(* process that does not block the signal, and inside sigsuspend.          *)
(***************************************************************************)
EXTENDS Naturals

CONSTANT NLOOPS     \* how far the two count, an even number

Procs == {"parent", "child"}
Other(p) == CHOOSE q \in Procs : q # p

VARIABLES
    area,       \* the counter in shared memory
    reg,        \* its value in a register of each process, between load and store
    i, pc,
    blocked,    \* processes with SIGUSR1 and SIGUSR2 in their signal mask
    pending,    \* processes that were sent a signal and have not caught it
    sigflag,    \* processes whose sigflag is 1
    waits,      \* history: how many WAITs each process has begun
    missed      \* history: processes that caught a signal right before sigsuspend

vars == <<area, reg, i, pc, blocked, pending, sigflag, waits, missed>>

Goto(p, from, to) == pc[p] = from /\ pc' = [pc EXCEPT ![p] = to]

\* What WAIT_PARENT begins with.
Begin(p) == waits' = [waits EXCEPT ![p] = @ + 1]

\* update(): the load, and the store with the test of what was loaded.
Load(p) ==
    /\ Goto(p, "load", "store")
    /\ reg' = [reg EXCEPT ![p] = area]
    /\ UNCHANGED <<area, i, blocked, pending, sigflag, waits, missed>>

Store(p) ==
    /\ Goto(p, "store", IF reg[p] = i[p] THEN "tell" ELSE "err_quit")
    /\ area' = reg[p] + 1
    /\ UNCHANGED <<reg, i, blocked, pending, sigflag, waits, missed>>

\* kill() of TELL_CHILD and TELL_PARENT, unless the other has ended.
Told(p) == IF pc[Other(p)] = "exit" THEN {} ELSE {Other(p)}

\* TELL_CHILD, after which the parent waits; TELL_PARENT, after which the
\* child's loop ends or goes on with WAIT_PARENT.
Tell(p) ==
    /\ pc[p] = "tell"
    /\ pending' = pending \cup Told(p)
    /\ i' = IF p = "child" THEN [i EXCEPT ![p] = @ + 2] ELSE i
    /\ pc' = [pc EXCEPT ![p] = IF p = "child" /\ i[p] + 2 >= NLOOPS + 1 THEN "exit" ELSE "test"]
    /\ Begin(p)
    /\ UNCHANGED <<area, reg, blocked, sigflag, missed>>

\* WAIT_PARENT, WAIT_CHILD: while (sigflag == 0) sigsuspend(&zeromask).
Test(p) ==
    /\ Goto(p, "test", IF p \in sigflag THEN "clear" ELSE "call")
    /\ UNCHANGED <<area, reg, i, blocked, pending, sigflag, waits, missed>>

Suspend(p) ==
    /\ Goto(p, "call", "suspend")
    /\ UNCHANGED <<area, reg, i, blocked, pending, sigflag, waits, missed>>

\* Mutant: the flag stays set.
MutClear(p) ==
    /\ Goto(p, "clear", "setmask")
    /\ UNCHANGED <<area, reg, i, blocked, pending, sigflag, waits, missed>>

Clear(p) ==
    /\ Goto(p, "clear", "setmask")
    /\ sigflag' = sigflag \ {p}
    /\ UNCHANGED <<area, reg, i, blocked, pending, waits, missed>>

\* The mask is set to what it was before TELL_WAIT: the signals are no longer
\* blocked, for the rest of the program.
SetMask(p) ==
    /\ pc[p] = "setmask"
    /\ blocked' = blocked \ {p}
    /\ i' = IF p = "parent" THEN [i EXCEPT ![p] = @ + 2] ELSE i
    /\ pc' = [pc EXCEPT ![p] = IF p = "parent" /\ i[p] + 2 >= NLOOPS THEN "exit" ELSE "load"]
    /\ UNCHANGED <<area, reg, pending, sigflag, waits, missed>>

\* sig_usr runs; sigsuspend returns.
sig_usr(p) ==
    /\ p \in pending /\ pc[p] # "exit"
    /\ p \notin blocked \/ pc[p] = "suspend"
    /\ pending' = pending \ {p}
    /\ sigflag' = sigflag \cup {p}
    /\ pc' = [pc EXCEPT ![p] = IF @ = "suspend" THEN "test" ELSE @]
    /\ missed' = IF pc[p] = "call" THEN missed \cup {p} ELSE missed
    /\ UNCHANGED <<area, reg, i, blocked, waits>>

\* Mutant: TELL_WAIT does not block the signals.
MutTELL_WAIT == {}

\* TELL_WAIT, before the fork.
TELL_WAIT == Procs

Init ==
    /\ area = 0 /\ reg = [p \in Procs |-> 0]
    /\ i = [p \in Procs |-> IF p = "parent" THEN 0 ELSE 1]
    /\ pc = [p \in Procs |-> IF p = "parent" THEN "load" ELSE "test"]
    /\ blocked = TELL_WAIT
    /\ pending = {} /\ sigflag = {}
    /\ waits = [p \in Procs |-> IF p = "parent" THEN 0 ELSE 1]
    /\ missed = {}

Run(p) == Load(p) \/ Store(p) \/ Tell(p) \/ Test(p) \/ Suspend(p) \/ Clear(p) \/ SetMask(p)

Next == \E p \in Procs : Run(p) \/ sig_usr(p)

Spec == Init /\ [][Next]_vars
FairSpec == Spec /\ \A p \in Procs : WF_vars(Run(p)) /\ WF_vars(sig_usr(p))

-----------------------------------------------------------------------------
(* Properties.                                                             *)

\* The two processes take turns: neither finds a counter other than the one it
\* expects ("parent: expected %d, got %d"), although a signal left over from
\* one turn would open the next.
TakesTurns == \A p \in Procs : pc[p] # "err_quit"

\* Both processes come to their end, unless one catches a signal right before
\* its sigsuspend, which then waits for another.  That happens only from its
\* second WAIT on, with the mask that the first has reset: TELL_WAIT blocks the
\* signals before the fork, so a first WAIT never sleeps on a signal that came.
Completes == <>(\/ \E p \in missed : waits[p] > 1
                \/ \A p \in Procs : pc[p] = "exit")
=============================================================================
