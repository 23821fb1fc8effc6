------------------------------ MODULE PtyLoop ------------------------------
(***************************************************************************)
(* loop() of apue2e/pty/loop.c: the child copies standard input to the     *)
(* pty master, the parent copies the pty master to standard output, and    *)
(* each tells the other of its end with SIGTERM.  The program on the pty   *)
(* slave and what it reads and writes are the environment.                 *)
(***************************************************************************)
EXTENDS Naturals

CONSTANTS
    MaxIn,      \* bound: how many blocks come on standard input
    MaxOut      \* bound: how many blocks the program writes

VARIABLES
    ignoreeof,
    input,      \* blocks still to come on standard input; then its end
    toprog,     \* blocks copied to the pty
    program,    \* the program on the slave runs, or has ended
    written,    \* blocks it has written
    taken,      \* of those, how many the parent has read
    copied,     \* and how many it has copied to standard output
    parent, child,      \* where the processes are
    handler,    \* sig_term is installed
    sigcaught,
    pending,    \* processes with a SIGTERM on its way
    missed,     \* history: sig_term ran outside of the read of ptym
    broken      \* history: a read of ptym failed

io == <<input, toprog, program, written>>
vars == <<ignoreeof, io, taken, copied, parent, child, handler, sigcaught, pending, missed, broken>>

Gone == {"returned", "killed", "err_sys"}

-----------------------------------------------------------------------------
(* The program on the slave.                                               *)

Output ==
    /\ program = "runs" /\ written < MaxOut
    /\ written' = written + 1
    /\ UNCHANGED <<ignoreeof, input, toprog, program, taken, copied, parent, child, handler,
                   sigcaught, pending, missed, broken>>

ProgramEnds ==
    /\ program = "runs" /\ program' = "ended"
    /\ UNCHANGED <<ignoreeof, input, toprog, written, taken, copied, parent, child, handler,
                   sigcaught, pending, missed, broken>>

-----------------------------------------------------------------------------
(* The child.                                                              *)

Copy ==
    /\ child = "read" /\ input > 0
    /\ input' = input - 1 /\ toprog' = toprog + 1
    /\ UNCHANGED <<ignoreeof, program, written, taken, copied, parent, child, handler,
                   sigcaught, pending, missed, broken>>

\* kill(getppid(), SIGTERM), which reaches no one when the parent is gone.
Notified == IF ignoreeof \/ parent \in Gone THEN {} ELSE {"parent"}

\* The end of standard input, and exit.
Eof ==
    /\ child = "read" /\ input = 0 /\ child' = "returned"
    /\ pending' = pending \cup Notified
    /\ UNCHANGED <<ignoreeof, io, taken, copied, parent, handler, sigcaught, missed, broken>>

\* The read or the writen fails: err_sys, which tells no one.
CopyFails ==
    /\ child = "read" /\ child' = "err_sys"
    /\ UNCHANGED <<ignoreeof, io, taken, copied, parent, handler, sigcaught, pending, missed, broken>>

\* SIGTERM ends the child, which catches no signals.
ChildKilled ==
    /\ "child" \in pending /\ child = "read"
    /\ child' = "killed" /\ pending' = pending \ {"child"}
    /\ UNCHANGED <<ignoreeof, io, taken, copied, parent, handler, sigcaught, missed, broken>>

-----------------------------------------------------------------------------
(* The parent.                                                             *)

Install ==
    /\ parent = "forked" /\ parent' = "loop"
    /\ handler' = TRUE
    /\ UNCHANGED <<ignoreeof, io, taken, copied, child, sigcaught, pending, missed, broken>>

Read ==
    /\ parent = "read" /\ taken < written
    /\ taken' = taken + 1 /\ parent' = "write"
    /\ UNCHANGED <<ignoreeof, io, copied, child, handler, sigcaught, pending, missed, broken>>

\* The master is at its end once the program has ended and its output is read.
ReadEof ==
    /\ parent = "read" /\ taken = written /\ program = "ended"
    /\ parent' = "end"
    /\ UNCHANGED <<ignoreeof, io, taken, copied, child, handler, sigcaught, pending, missed, broken>>

\* Any other error of the read leaves the loop as well.
ReadFails ==
    /\ parent = "read" /\ parent' = "end" /\ broken' = TRUE
    /\ UNCHANGED <<ignoreeof, io, taken, copied, child, handler, sigcaught, pending, missed>>

\* writen may fail: err_sys then ends the parent, and the child is not told.
Write ==
    /\ parent = "write"
    /\ \/ parent' = "loop" /\ copied' = copied + 1
       \/ parent' = "err_sys" /\ UNCHANGED copied
    /\ UNCHANGED <<ignoreeof, io, taken, child, handler, sigcaught, pending, missed, broken>>

\* The way from signal_intr or a writen to the next read: sigcaught is not tested.
Again ==
    /\ parent = "loop" /\ parent' = "read"
    /\ UNCHANGED <<ignoreeof, io, taken, copied, child, handler, sigcaught, pending, missed, broken>>

\* Mutant: the parent leaves it to the child to find out.
MutTellChild == {}
TellChild == IF ~sigcaught /\ child = "read" THEN {"child"} ELSE {}

Return ==
    /\ parent = "end" /\ parent' = "returned"
    /\ pending' = pending \cup TellChild
    /\ UNCHANGED <<ignoreeof, io, taken, copied, child, handler, sigcaught, missed, broken>>

\* SIGTERM: it interrupts the read, which then returns -1; it may interrupt
\* the writen; elsewhere it only sets the flag.  Without the handler it ends
\* the process.
Interrupted == IF parent = "read" THEN {"end"}
               ELSE IF parent = "write" THEN {"write", "err_sys"} ELSE {parent}

\* Mutant: the read of ptym is restarted, as signal() in place of signal_intr()
\* would have it.
MutSigTerm ==
    /\ "parent" \in pending /\ parent \notin Gone
    /\ pending' = pending \ {"parent"}
    /\ sigcaught' = handler
    /\ parent' = IF handler THEN parent ELSE "killed"
    /\ UNCHANGED <<ignoreeof, io, taken, copied, child, handler, missed, broken>>

sig_term ==
    /\ "parent" \in pending /\ parent \notin Gone
    /\ pending' = pending \ {"parent"}
    /\ sigcaught' = handler
    /\ parent' \in IF handler THEN Interrupted ELSE {"killed"}
    /\ missed' = (handler /\ parent \in {"write", "loop"})
    /\ UNCHANGED <<ignoreeof, io, taken, copied, child, handler, broken>>

-----------------------------------------------------------------------------
Init ==
    /\ ignoreeof \in BOOLEAN
    /\ input = MaxIn /\ toprog = 0 /\ program = "runs" /\ written = 0
    /\ taken = 0 /\ copied = 0
    /\ parent = "forked" /\ child = "read"
    /\ handler = FALSE /\ sigcaught = FALSE /\ pending = {} /\ missed = FALSE
    /\ broken = FALSE

Parent == Install \/ Read \/ ReadEof \/ Write \/ Again \/ Return
Child == Copy \/ Eof \/ CopyFails
Signals == ChildKilled \/ sig_term

Next == Output \/ ProgramEnds \/ Child \/ Parent \/ ReadFails \/ Signals

Spec == Init /\ [][Next]_vars

\* Both processes run and signals arrive; the program need not do anything, and
\* standard input need not come to its end.
FairSpec == Spec /\ WF_vars(Parent) /\ WF_vars(ChildKilled) /\ WF_vars(sig_term)

-----------------------------------------------------------------------------
(* Properties.                                                             *)

\* When the program ends so does the parent, whatever the child is doing and
\* whatever signals are on their way.  So does the child, which the parent tells
\* unless it was the child that told the parent; and with -i no output is lost by
\* the end of standard input: all that the program wrote has then been copied.
\* Only a failing writen of the parent leaves the child behind, in its read, and
\* only a failing read leaves output uncopied.
BothEnd ==
    program = "ended" ~> /\ parent \in Gone
                         /\ \/ parent = "err_sys"
                            \/ child \in Gone /\ (ignoreeof /\ ~broken => copied = written)

\* The end of standard input ends the parent, also one whose program stays
\* silent ("sig_term() below caught the SIGTERM from the child"), unless the
\* signal comes when the handler is installed but the read not entered, before
\* the first read or between two: nobody looks at sigcaught there.
EofEnds == ("parent" \in pending) ~> (parent \in Gone \/ missed)

=============================================================================
