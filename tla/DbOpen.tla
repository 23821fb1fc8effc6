------------------------------- MODULE DbOpen -------------------------------
(***************************************************************************)
(* db_open of apue2e/db/db.c: processes open, create and truncate the      *)
(* index and data files, and initialise the index file under a lock of the *)
(* whole file.  open itself takes no lock, and fails only for a file that  *)
(* is not there.                                                           *)
(*                                                                         *)
(* A process that has its handle fetches, updates (db_store, db_delete) or *)
(* closes.  An update has its chain write-locked, which is a byte of the   *)
(* index file; two updates are on different chains.                        *)
(***************************************************************************)
EXTENDS Naturals

CONSTANTS
    Procs,
    Oflags      \* the flags given to db_open: sets of O_CREAT and O_TRUNC

Nobody == "nobody"

VARIABLES
    idx,        \* the index file: "absent", "empty", it starts with the "table"
                \* of chain ptrs, or something else was written to it ("other")
    dat,        \* whether the data file exists
    lock,       \* who has the index file write-locked, as a whole
    oflag,      \* flags of each process's db_open
    empty,      \* whether each process found statbuff.st_size = 0
    pc,
    bare,       \* history: the open that emptied the index last does not initialise it
    spoiled     \* history: an open emptied the index under an update

files == <<idx, dat>>
history == <<bare, spoiled>>
vars == <<files, lock, oflag, empty, pc, history>>

Goto(p, from, to) == pc[p] = from /\ pc' = [pc EXCEPT ![p] = to]

\* An update has read the chain ptr and the free list ptr; what is left of it
\* are writes.
Writing(p) == pc[p] \in {"write", "link"}

Updating(p) == pc[p] \in {"find", "findfree"} \/ Writing(p)

-----------------------------------------------------------------------------
(* db_open                                                                 *)

\* oflag and statbuff are locals of db_open: from its end on they are as at first.
Forget(p) ==
    /\ oflag' = [oflag EXCEPT ![p] = {}]
    /\ empty' = [empty EXCEPT ![p] = FALSE]

db_open(p) ==
    /\ Goto(p, "idle", "idx")
    /\ \E o \in Oflags : oflag' = [oflag EXCEPT ![p] = o]
    /\ UNCHANGED <<files, lock, empty, history>>

\* O_CREAT together with O_TRUNC asks for the initialisation.
Creates(p) == {"O_CREAT", "O_TRUNC"} \subseteq oflag[p]

\* Both files are opened before either result is looked at.
OpenIdx(p) ==
    LET ok == idx # "absent" \/ "O_CREAT" \in oflag[p]
        empties == ok /\ (idx = "absent" \/ "O_TRUNC" \in oflag[p])
    IN  /\ Goto(p, "idx", IF ok THEN "dat" ELSE "dat_fail")
        /\ idx' = IF empties THEN "empty" ELSE idx
        /\ bare' = IF empties THEN ~Creates(p) ELSE bare
        /\ spoiled' = (spoiled \/ (empties /\ \E q \in Procs : Writing(q)))
        /\ UNCHANGED <<dat, lock, oflag, empty>>

OpenDat(p) ==
    LET ok == dat \/ "O_CREAT" \in oflag[p]
        init == ok /\ pc[p] = "dat" /\ Creates(p)
    IN  /\ pc[p] \in {"dat", "dat_fail"}
        /\ dat' = ok
        /\ pc' = [pc EXCEPT ![p] = IF init THEN "lock"
                                   ELSE IF ok /\ pc[p] = "dat" THEN "open" ELSE "idle"]
        /\ IF init THEN UNCHANGED <<oflag, empty>> ELSE Forget(p)
        /\ UNCHANGED <<idx, lock, history>>

\* Mutant: only one byte that no chain uses is locked.
MutLockIdx(p) ==
    /\ Goto(p, "lock", "stat")
    /\ lock = Nobody /\ lock' = p
    /\ UNCHANGED <<files, oflag, empty, history>>

\* The lock of the whole file waits for every lock of a chain.
LockIdx(p) ==
    /\ Goto(p, "lock", "stat")
    /\ lock = Nobody /\ lock' = p
    /\ \A q \in Procs : ~Updating(q)
    /\ UNCHANGED <<files, oflag, empty, history>>

Stat(p) ==
    /\ Goto(p, "stat", "init")
    /\ empty' = [empty EXCEPT ![p] = (idx = "empty")]
    /\ UNCHANGED <<files, lock, oflag, history>>

\* The table is written at the start of the file, where the descriptor still is.
WriteTable(p) ==
    /\ Goto(p, "init", "unlock")
    /\ idx' = IF empty[p] THEN "table" ELSE idx
    /\ UNCHANGED <<dat, lock, oflag, empty, history>>

Unlock(p) ==
    /\ Goto(p, "unlock", "open")
    /\ lock' = Nobody
    /\ Forget(p)
    /\ UNCHANGED <<files, history>>

-----------------------------------------------------------------------------
(* The use of the handle.                                                  *)

\* _db_readptr ends the process at the end of the file; in an index without a
\* table the ptr may be anything, and what follows may end the process too.
Readptr(p, from, to) ==
    /\ \/ idx # "empty" /\ Goto(p, from, to)
       \/ idx # "table" /\ Goto(p, from, "dead")
    /\ UNCHANGED <<files, lock, oflag, empty, history>>

\* db_fetch reads under a lock of its chain.
Fetch(p) == lock = Nobody /\ Readptr(p, "open", "open")

\* db_store and db_delete lock the chain; _db_find_and_lock reads its ptr.
Update(p) ==
    /\ lock = Nobody /\ Goto(p, "open", "find")
    /\ UNCHANGED <<files, lock, oflag, empty, history>>

Find(p) == Readptr(p, "find", "findfree")

\* There is nothing to store or to delete, or the data are of the same length.
NoChange(p) ==
    /\ Goto(p, "findfree", "open")
    /\ UNCHANGED <<files, lock, oflag, empty, history>>

\* _db_findfree, and _db_dodelete, read the ptr of the free list.
FindFree(p) == Readptr(p, "findfree", "write")

\* The index record is appended or overwritten.  Beyond the end of the file a
\* write makes it longer, and what comes before it reads as zeros.
Put(p, from, to) ==
    /\ Goto(p, from, to)
    /\ idx' = IF idx = "empty" THEN "other" ELSE idx
    /\ UNCHANGED <<dat, lock, oflag, empty, history>>

WriteIdx(p) == Put(p, "write", "link")

\* The chain ptr is written and the chain unlocked.
WritePtr(p) == Put(p, "link", "open")

db_close(p) ==
    /\ Goto(p, "open", "idle")
    /\ UNCHANGED <<files, lock, oflag, empty, history>>

-----------------------------------------------------------------------------
Init ==
    /\ idx = "absent" /\ dat = FALSE
    /\ lock = Nobody
    /\ oflag = [p \in Procs |-> {}]
    /\ empty = [p \in Procs |-> FALSE]
    /\ pc = [p \in Procs |-> "idle"]
    /\ bare = FALSE /\ spoiled = FALSE

Next ==
    \E p \in Procs :
        \/ db_open(p) \/ OpenIdx(p) \/ OpenDat(p) \/ LockIdx(p) \/ Stat(p)
        \/ WriteTable(p) \/ Unlock(p) \/ Fetch(p) \/ db_close(p)
        \/ Update(p) \/ Find(p) \/ NoChange(p) \/ FindFree(p) \/ WriteIdx(p) \/ WritePtr(p)

Spec == Init /\ [][Next]_vars

-----------------------------------------------------------------------------
(* Properties.                                                             *)

\* A database that was created is initialised ("If the database was created,
\* we have to initialize it"), "atomically": the table is never written over an
\* index in use, and when no process is inside db_open the index starts with the
\* table, whatever order the processes opened, truncated, locked, wrote and used
\* it in.  The exceptions are an index that was created without O_TRUNC or
\* truncated without O_CREAT, which stays empty, and one that was truncated
\* under an update, which then writes to it before the creator gets its lock.
Initialised ==
    /\ \A p \in Procs : pc[p] = "init" /\ empty[p] => idx = "empty"
    /\ \/ \E p \in Procs : pc[p] \in {"idx", "dat", "dat_fail", "lock", "stat", "init", "unlock"}
       \/ idx \in {"absent", "table"}
       \/ idx = "empty" /\ bare
       \/ spoiled
=============================================================================
