------------------------------ MODULE SvshmXfr ------------------------------
(***************************************************************************)
(* svshm_xfr_writer and svshm_xfr_reader of tlpi-dist/svshm: blocks of     *)
(* standard input go through one segment of shared memory, with a pair of  *)
(* binary semaphores (tlpi-dist/svsem/binary_sems.c) for the turns.        *)
(*                                                                         *)
(* A block is its number; 0 is the end of the file.  The semaphores and    *)
(* the segment may be left over from an earlier run that was killed.       *)
(***************************************************************************)
EXTENDS Integers, Sequences

CONSTANT Blocks     \* how many blocks the writer reads

VARIABLES
    sem,        \* <<WRITE_SEM, READ_SEM>>; << >> when there is no such set
    shm,        \* cnt and buf of the segment: a block, ReadError for a cnt of -1,
                \* or -1 when there is no segment
    next,       \* the block the writer reads next
    out,        \* what the reader wrote
    w, r,       \* where writer and reader are
    early,      \* history: the reader started before the writer was ready
    failed      \* history: the writer could not read, or the reader not write

vars == <<sem, shm, next, out, w, r, early, failed>>

WRITE_SEM == 1
READ_SEM == 2
ReadError == -2

Alive == sem # << >>
reserveSem(s) == Alive /\ sem[s] > 0 /\ sem' = [sem EXCEPT ![s] = @ - 1]
releaseSem(s) == Alive /\ sem' = [sem EXCEPT ![s] = @ + 1]

-----------------------------------------------------------------------------
(* The writer.                                                             *)

\* semget with IPC_CREAT, which keeps a set that exists.
CreateSem ==
    /\ w = "semget" /\ w' = "setval1"
    /\ sem' = IF Alive THEN sem ELSE <<0, 0>>
    /\ UNCHANGED <<shm, next, out, r, early, failed>>

initSemAvailable ==
    /\ w = "setval1" /\ w' = "setval2"
    /\ sem' = [sem EXCEPT ![WRITE_SEM] = 1]
    /\ UNCHANGED <<shm, next, out, r, early, failed>>

\* Mutant: both semaphores are made available.
MutInitSemInUse ==
    /\ w = "setval2" /\ w' = "shmget"
    /\ sem' = [sem EXCEPT ![READ_SEM] = 1]
    /\ UNCHANGED <<shm, next, out, r, early, failed>>

initSemInUse ==
    /\ w = "setval2" /\ w' = "shmget"
    /\ sem' = [sem EXCEPT ![READ_SEM] = 0]
    /\ UNCHANGED <<shm, next, out, r, early, failed>>

CreateShm ==
    /\ w = "shmget" /\ w' = "reserve"
    /\ shm' = IF shm = -1 THEN 0 ELSE shm
    /\ UNCHANGED <<sem, next, out, r, early, failed>>

WriterTurn ==
    /\ w \in {"reserve", "last"}
    /\ reserveSem(WRITE_SEM)
    /\ w' = IF w = "last" THEN "rmsem" ELSE "read"
    /\ UNCHANGED <<shm, next, out, r, early, failed>>

\* read(STDIN_FILENO): the next block, then the end of the file.  It may fail;
\* errExit then ends the process, in its turn.
WriterRead ==
    /\ w = "read"
    /\ \/ /\ w' = "release"
          /\ shm' = IF next <= Blocks THEN next ELSE 0
          /\ next' = next + 1 /\ UNCHANGED failed
       \/ w' = "errExit" /\ shm' = ReadError /\ failed' = TRUE /\ UNCHANGED next
    /\ UNCHANGED <<sem, out, r, early>>

WriterRelease ==
    /\ w = "release" /\ w' = "test"
    /\ releaseSem(READ_SEM)
    /\ UNCHANGED <<shm, next, out, r, early, failed>>

\* Mutant: the objects are removed without another turn.
MutWriterTest ==
    /\ w = "test" /\ w' = IF shm = 0 THEN "rmsem" ELSE "reserve"
    /\ UNCHANGED <<sem, shm, next, out, r, early, failed>>

\* shmp->cnt is read again, with the turn given away.
WriterTest ==
    /\ w = "test" /\ w' = IF shm = 0 THEN "last" ELSE "reserve"
    /\ UNCHANGED <<sem, shm, next, out, r, early, failed>>

RemoveSem ==
    /\ w = "rmsem" /\ w' = "rmshm"
    /\ sem' = << >>
    /\ UNCHANGED <<shm, next, out, r, early, failed>>

RemoveShm ==
    /\ w = "rmshm" /\ w' = "exit"
    /\ shm' = -1
    /\ UNCHANGED <<sem, next, out, r, early, failed>>

-----------------------------------------------------------------------------
(* The reader.                                                             *)

ReaderStart ==
    /\ r = "new" /\ r' = IF Alive THEN "shmget" ELSE "errExit"
    /\ early' = (early \/ w \in {"semget", "setval1", "setval2", "shmget"})
    /\ UNCHANGED <<sem, shm, next, out, w, failed>>

ReaderAttach ==
    /\ r = "shmget" /\ r' = IF shm = -1 THEN "errExit" ELSE "reserve"
    /\ UNCHANGED <<sem, shm, next, out, w, early, failed>>

ReaderTurn ==
    /\ r = "reserve" /\ r' = "test"
    /\ reserveSem(READ_SEM)
    /\ UNCHANGED <<shm, next, out, w, early, failed>>

ReaderTest ==
    /\ r = "test" /\ r' = IF shm = 0 THEN "last" ELSE "write"
    /\ UNCHANGED <<sem, shm, next, out, w, early, failed>>

\* write(STDOUT_FILENO), which may fail; fatal() then ends the process.
ReaderWrite ==
    /\ r = "write"
    /\ \/ r' = "release" /\ out' = Append(out, shm) /\ UNCHANGED failed
       \/ r' = "errExit" /\ failed' = TRUE /\ UNCHANGED out
    /\ UNCHANGED <<sem, shm, next, w, early>>

ReaderRelease ==
    /\ r \in {"release", "last"} /\ r' = IF r = "last" THEN "exit" ELSE "reserve"
    /\ releaseSem(WRITE_SEM)
    /\ UNCHANGED <<shm, next, out, w, early, failed>>

\* semop on a set that was removed: errExit ends the process.
ReaderFails ==
    /\ r \in {"reserve", "release", "last"} /\ ~Alive
    /\ r' = "errExit"
    /\ UNCHANGED <<sem, shm, next, out, w, early, failed>>

-----------------------------------------------------------------------------
Init ==
    /\ \/ sem = << >>
       \/ \E a, b \in 0 .. 1 : sem = <<a, b>>
    /\ shm \in {-1, 0, 1}
    /\ next = 1 /\ out = << >>
    /\ w = "semget" /\ r = "new"
    /\ early = FALSE /\ failed = FALSE

Writer == \/ CreateSem \/ initSemAvailable \/ initSemInUse \/ CreateShm \/ WriterTurn
          \/ WriterRead \/ WriterRelease \/ WriterTest \/ RemoveSem \/ RemoveShm
Reader == \/ ReaderStart \/ ReaderAttach \/ ReaderTurn \/ ReaderTest \/ ReaderWrite
          \/ ReaderRelease \/ ReaderFails

Next == Writer \/ Reader

Spec == Init /\ [][Next]_vars
FairSpec == Spec /\ WF_vars(Writer) /\ WF_vars(Reader)

-----------------------------------------------------------------------------
(* Properties.                                                             *)

\* "the writer and reader have exclusive, alternating access": they are never
\* both in their turn, and what the reader wrote is what the writer read, in
\* order and without a gap, whatever an earlier run left behind, provided the
\* reader starts when the writer is ready.
Alternates ==
    early \/ /\ ~(w \in {"read", "release"} /\ r \in {"test", "write", "release", "last"})
             /\ out = [n \in 1 .. Len(out) |-> n] /\ Len(out) < next

\* The writer removes semaphores and segment only when the reader has finished
\* with them, and both end with the whole input copied, under the same
\* proviso and unless the writer's read or the reader's write fails: the other
\* one then waits for its turn for ever, and semaphores and segment stay.
CleansUp == <>(early \/ failed \/ /\ w = "exit" /\ r = "exit" /\ Len(out) = Blocks
                                  /\ sem = << >> /\ shm = -1)
=============================================================================
