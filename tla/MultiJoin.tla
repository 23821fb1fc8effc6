------------------------------ MODULE MultiJoin ------------------------------
(***************************************************************************)
(* tlpi-dist/threads/thread_multijoin.c: threads announce their end under  *)
(* a mutex and a condition variable, and the main thread joins each.       *)
(* pthread_cond_wait may wake up without a signal.                         *)
(***************************************************************************)
EXTENDS Integers

CONSTANT argc       \* one more than the number of threads

Threads == 0 .. argc - 2
Main == -1
Nobody == -2

VARIABLES
    totThreads, numLive, numUnjoined,
    state,      \* state of each thread in the array
    idx,        \* the loop variable of main
    pc,         \* where each thread is
    mutex,      \* who holds threadMutex
    joined      \* history: how often each thread was joined

vars == <<totThreads, numLive, numUnjoined, state, idx, pc, mutex, joined>>
counts == <<totThreads, numLive, numUnjoined>>

Goto(t, from, to) == pc[t] = from /\ pc' = [pc EXCEPT ![t] = to]

-----------------------------------------------------------------------------
(* threadFunc                                                              *)

Lock(t) ==
    /\ Goto(t, "work", "announce")
    /\ mutex = Nobody /\ mutex' = t
    /\ UNCHANGED <<counts, state, idx, joined>>

\* The announcement, and the unlock.
Announce(t) ==
    /\ Goto(t, "announce", "signal")
    /\ numUnjoined' = numUnjoined + 1
    /\ state' = [state EXCEPT ![t] = "TS_TERMINATED"]
    /\ mutex' = Nobody
    /\ UNCHANGED <<totThreads, numLive, idx, joined>>

\* Mutant: the condition variable is not signalled.
MutWoken == pc[Main]

\* pthread_cond_signal wakes main if it waits.
Woken == IF pc[Main] = "wait" THEN "woken" ELSE pc[Main]

Signal(t) ==
    /\ pc[t] = "signal"
    /\ pc' = [pc EXCEPT ![t] = "gone", ![Main] = Woken]
    /\ UNCHANGED <<counts, state, idx, mutex, joined>>

-----------------------------------------------------------------------------
(* main                                                                    *)

Create ==
    /\ pc[Main] = "create" /\ idx \in Threads
    /\ state' = [state EXCEPT ![idx] = "TS_ALIVE"]
    /\ pc' = [pc EXCEPT ![idx] = "work"]
    /\ idx' = idx + 1
    /\ UNCHANGED <<counts, mutex, joined>>

Created ==
    /\ idx \notin Threads /\ Goto(Main, "create", "loop")
    /\ totThreads' = argc - 1 /\ numLive' = argc - 1
    /\ UNCHANGED <<numUnjoined, state, idx, mutex, joined>>

\* while (numLive > 0)
Loop ==
    /\ pc[Main] = "loop"
    /\ \/ numLive = 0 /\ pc' = [pc EXCEPT ![Main] = "exit"] /\ UNCHANGED mutex
       \/ /\ numLive > 0 /\ mutex = Nobody
          /\ pc' = [pc EXCEPT ![Main] = "test"] /\ mutex' = Main
    /\ UNCHANGED <<counts, state, idx, joined>>

\* while (numUnjoined == 0) pthread_cond_wait
Test ==
    /\ pc[Main] = "test"
    /\ \/ numUnjoined = 0 /\ pc' = [pc EXCEPT ![Main] = "wait"] /\ mutex' = Nobody /\ UNCHANGED idx
       \/ numUnjoined # 0 /\ pc' = [pc EXCEPT ![Main] = "scan"] /\ idx' = 0 /\ UNCHANGED mutex
    /\ UNCHANGED <<counts, state, joined>>

Spurious ==
    /\ Goto(Main, "wait", "woken")
    /\ UNCHANGED <<counts, state, idx, mutex, joined>>

Relock ==
    /\ Goto(Main, "woken", "test")
    /\ mutex = Nobody /\ mutex' = Main
    /\ UNCHANGED <<counts, state, idx, joined>>

Terminated(t) == state[t] = "TS_TERMINATED"

\* pthread_join returns when the thread has returned.
Join ==
    /\ pc[Main] = "scan" /\ idx < totThreads
    /\ \/ ~Terminated(idx) /\ UNCHANGED <<counts, state, joined>>
       \/ /\ Terminated(idx) /\ pc[idx] = "gone"
          /\ state' = [state EXCEPT ![idx] = "TS_JOINED"]
          /\ numLive' = numLive - 1 /\ numUnjoined' = numUnjoined - 1
          /\ joined' = [joined EXCEPT ![idx] = @ + 1]
          /\ UNCHANGED totThreads
    /\ idx' = idx + 1
    /\ UNCHANGED <<pc, mutex>>

Unlock ==
    /\ idx = totThreads /\ Goto(Main, "scan", "loop")
    /\ mutex' = Nobody
    /\ UNCHANGED <<counts, state, idx, joined>>

-----------------------------------------------------------------------------
Init ==
    /\ totThreads = 0 /\ numLive = 0 /\ numUnjoined = 0
    /\ state = [t \in Threads |-> "TS_ALIVE"]
    /\ idx = 0 /\ mutex = Nobody
    /\ pc = [t \in Threads \cup {Main} |-> IF t = Main THEN "create" ELSE "new"]
    /\ joined = [t \in Threads |-> 0]

Thread(t) == Lock(t) \/ Announce(t) \/ Signal(t)
MainStep == Create \/ Created \/ Loop \/ Test \/ Relock \/ Join \/ Unlock

Next == MainStep \/ Spurious \/ \E t \in Threads : Thread(t)

Spec == Init /\ [][Next]_vars

\* Every thread runs, and a mutex that is free again and again is got in the end.
FairSpec == Spec /\ WF_vars(MainStep) /\ SF_vars(Loop) /\ SF_vars(Relock)
            /\ \A t \in Threads : WF_vars(Thread(t)) /\ SF_vars(Lock(t))

-----------------------------------------------------------------------------
(* Properties.                                                             *)

\* The main thread sleeps through no thread's end, and joins none twice: it
\* exits ("When numLive ... falls to 0, the main thread terminates"), and has
\* then joined every thread once.
JoinsAll == <>(pc[Main] = "exit" /\ \A t \in Threads : joined[t] = 1)
=============================================================================
