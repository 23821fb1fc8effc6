--------------------------------- MODULE Db ---------------------------------
(***************************************************************************)
(* The database library of apue2e/db/db.c: an index file with a free list, *)
(* a hash table of NHASH chains and the index records, and a data file.    *)
(* Any number of processes use the two files at the same time through      *)
(* db_fetch, db_store, db_delete, db_rewind and db_nextrec, coordinated by *)
(* fcntl record locks only.                                                *)
(*                                                                         *)
(* Offsets are scaled: a chain ptr field and an index record both have     *)
(* size 1, so FREE_OFF = 0, the chain ptr of hash value h is at 1 + h, and *)
(* the records follow the table.  As in the code, 0 also means "no record".*)
(* A system call is one step, with the lock taken before it or released    *)
(* after it folded into that step.                                         *)
(***************************************************************************)
EXTENDS Integers

CONSTANTS
    Procs,      \* processes, each with one open handle
    Keys,       \* keys (none is all blank)
    Data,       \* data strings (none is all blank)
    NHASH,      \* db->nhash
    PTR_MAX,    \* largest offset that fits a chain ptr field
    HashSum,    \* HashSum[k]: the weighted character sum of key k
    KeyLen,     \* KeyLen[k]: strlen of key k
    DatLen,     \* DatLen[d]: strlen of data d, plus the newline
    CallOps,    \* the calls the clients make
    StoreFlags, \* the flags they give to db_store
    Rewinds     \* whether clients rewind before they resume a scan

ASSUME DbAssumption ==
    /\ NHASH \in Nat \ {0}
    /\ PTR_MAX \in Nat /\ NHASH <= PTR_MAX
    /\ \A k \in Keys : HashSum[k] \in Nat
    /\ \A k \in Keys : KeyLen[k] \in Nat
    /\ \A d \in Data : DatLen[d] \in Nat
    /\ CallOps \subseteq {"fetch", "delete", "store", "nextrec"}
    /\ StoreFlags \subseteq {"DB_INSERT", "DB_REPLACE", "DB_STORE"}
    /\ Rewinds \in BOOLEAN

Blank == "blank"        \* a key or data string overwritten with spaces
None == "none"          \* a null pointer returned to the caller
Dead == -1              \* value of a field that no later step reads

ASSUME BlankAssumption ==
    /\ {Blank, None} \cap (Keys \cup Data) = {}

FREE_OFF == 0
HASH_OFF == 1
FirstRec == NHASH + 1   \* where db_rewind positions the index file
Torn == 0               \* a file position that is not on a record

db_hash(k) == HashSum[k] % NHASH
ChainOff(k) == db_hash(k) + HASH_OFF

Call == [op : CallOps \cup {"none"}, key : Keys \cup {None},
         data : Data \cup {None}, flag : StoreFlags \cup {None}]
NoRet == <<None, None>>
NoCall == [op |-> "none", key |-> None, data |-> None, flag |-> None]

(* Regions locked with fcntl: the first byte of each chain ptr field       *)
(* (offset 0 is the free list), the index file from the first record to    *)
(* its end, and the whole data file.                                       *)
IDX_END == NHASH + 1
DAT_FILE == -1
Regions == DAT_FILE .. IDX_END

VARIABLES
    ptr,        \* index file: the chain ptr field at each offset
    rec,        \* index file: the rest of the index record at each offset
    idxsize,    \* size of the index file
    dat,        \* data file
    datsize,    \* size of the data file
    wlock,      \* wlock[r]: processes with a write lock on region r
    rlock,      \* rlock[r]: processes with a read lock on region r
    pc, call, ret,
    fpos,       \* position of each process's idxfd
    scanning,   \* the process made only db_nextrec calls since db_rewind
    idxoff, datoff, datlen, ptrval, ptroff,     \* fields of the DB structure
    offset,     \* local of _db_find_and_lock and _db_findfree
    saveoff,    \* saveoffset of _db_findfree, saveptr of _db_dodelete
    newptr      \* ptrval of db_store

idxfile == <<ptr, rec, idxsize>>
datfile == <<dat, datsize>>
locks == <<wlock, rlock>>
current == <<idxoff, datoff, datlen, ptrval>>
vars == <<idxfile, datfile, locks, pc, call, ret, fpos, scanning, current, ptroff,
          offset, saveoff, newptr>>

Record == [key : Keys \cup {Blank}, klen : Int, datoff : Int, datlen : Int]
Datum == [val : Data \cup {Blank}, len : Int]

chainoff(p) == ChainOff(call[p].key)

-----------------------------------------------------------------------------
(* The kernel, as the code uses it.                                        *)

\* Mutant: F_SETLK, with the error ignored.
MutWriteLock(p, r) ==
    /\ wlock' = [wlock EXCEPT ![r] = @ \cup {p}]
    /\ UNCHANGED rlock

\* writew_lock: F_SETLKW of a write lock, blocking while another process
\* holds any lock on the region.
writew_lock(p, r) ==
    /\ wlock[r] \cup rlock[r] \subseteq {p}
    /\ wlock' = [wlock EXCEPT ![r] = {p}]
    /\ rlock' = [rlock EXCEPT ![r] = {}]

\* readw_lock: F_SETLKW of a read lock.
readw_lock(p, r) ==
    /\ wlock[r] \subseteq {p}
    /\ wlock' = [wlock EXCEPT ![r] = {}]
    /\ rlock' = [rlock EXCEPT ![r] = @ \cup {p}]

\* un_lock of the regions rs.
un_lock(p, rs) ==
    /\ wlock' = [r \in Regions |-> IF r \in rs THEN wlock[r] \ {p} ELSE wlock[r]]
    /\ rlock' = [r \in Regions |-> IF r \in rs THEN rlock[r] \ {p} ELSE rlock[r]]

\* A write at offset o of a file f, which extends the file when o is its end.
WriteAt(f, o, v) == [x \in DOMAIN f \cup {o} |-> IF x = o THEN v ELSE f[x]]
SizeAfter(size, o) == IF o = size THEN size + 1 ELSE size

-----------------------------------------------------------------------------
(* The static functions of db.c that read and write the files.             *)

\* _db_writeptr with a value that fits the field.
db_writeptr(p, o, v) ==
    /\ ptr' = WriteAt(ptr, o, v)
    /\ UNCHANGED <<rec, idxsize>>
    /\ fpos' = [fpos EXCEPT ![p] = Torn]

\* _db_readidx at offset o: the record becomes the current one.
db_readidx(p, o) ==
    /\ idxoff' = [idxoff EXCEPT ![p] = o]
    /\ datoff' = [datoff EXCEPT ![p] = rec[o].datoff]
    /\ datlen' = [datlen EXCEPT ![p] = rec[o].datlen]
    /\ ptrval' = [ptrval EXCEPT ![p] = ptr[o]]
    /\ fpos' = [fpos EXCEPT ![p] = o + 1]

\* _db_writeidx at offset o, from the current datoff and datlen.
db_writeidx(p, o, key, klen, v) ==
    /\ rec' = WriteAt(rec, o, [key |-> key, klen |-> klen,
                               datoff |-> datoff[p], datlen |-> datlen[p]])
    /\ ptr' = WriteAt(ptr, o, v)
    /\ idxsize' = SizeAfter(idxsize, o)
    /\ fpos' = [fpos EXCEPT ![p] = o + 1]

\* _db_writedat at offset o.
db_writedat(o, val, len) ==
    /\ dat' = WriteAt(dat, o, [val |-> val, len |-> len])
    /\ datsize' = SizeAfter(datsize, o)

Goto(p, from, to) == pc[p] = from /\ pc' = [pc EXCEPT ![p] = to]

\* The call is over: regions rs are unlocked and v goes to the caller.  The
\* fields of the DB structure are set before they are read by every call, so
\* they are forgotten here.
Forget(p) ==
    /\ idxoff' = [idxoff EXCEPT ![p] = Dead]
    /\ datoff' = [datoff EXCEPT ![p] = Dead]
    /\ datlen' = [datlen EXCEPT ![p] = Dead]
    /\ ptrval' = [ptrval EXCEPT ![p] = Dead]
    /\ ptroff' = [ptroff EXCEPT ![p] = Dead]
    /\ offset' = [offset EXCEPT ![p] = Dead]
    /\ saveoff' = [saveoff EXCEPT ![p] = Dead]
    /\ newptr' = [newptr EXCEPT ![p] = Dead]

Return(p, rs, v) ==
    /\ pc' = [pc EXCEPT ![p] = "done"]
    /\ ret' = [ret EXCEPT ![p] = v]
    /\ un_lock(p, rs)
    /\ Forget(p)
    /\ UNCHANGED <<call, scanning>>

\* err_quit and err_dump end the process, and the kernel drops its locks.
Exit(p) ==
    /\ pc' = [pc EXCEPT ![p] = "dead"]
    /\ un_lock(p, Regions)
    /\ Forget(p)
    /\ UNCHANGED <<call, ret, idxfile, datfile, fpos, scanning>>

-----------------------------------------------------------------------------
(* Calls and returns.                                                      *)

Calls ==
    [op : CallOps \cap {"fetch", "delete"}, key : Keys,
     data : {None}, flag : {None}]
    \cup [op : CallOps \cap {"store"}, key : Keys, data : Data, flag : StoreFlags]
    \cup [op : CallOps \cap {"nextrec"}, key : {None}, data : {None}, flag : {None}]

private == <<current, ptroff, offset, saveoff, newptr>>

Invoke(p) ==
    \E c \in Calls :
        /\ (c.op = "nextrec" /\ Rewinds) => scanning[p]
        /\ Goto(p, "idle", IF c.op = "nextrec" THEN "scan" ELSE "lock")
        /\ call' = [call EXCEPT ![p] = c]
        /\ scanning' = [scanning EXCEPT ![p] = @ /\ c.op = "nextrec"]
        /\ UNCHANGED <<idxfile, datfile, locks, ret, fpos, private>>

\* A client that rewinds never reads the position another call left behind,
\* so that position is forgotten like the fields.
Finish(p) ==
    /\ Goto(p, "done", "idle")
    /\ call' = [call EXCEPT ![p] = NoCall]
    /\ ret' = [ret EXCEPT ![p] = NoRet]
    /\ fpos' = [fpos EXCEPT ![p] = IF Rewinds /\ ~scanning[p] THEN Torn ELSE @]
    /\ UNCHANGED <<idxfile, datfile, locks, scanning, private>>

db_rewind(p) ==
    /\ pc[p] = "idle"
    /\ fpos' = [fpos EXCEPT ![p] = FirstRec]
    /\ scanning' = [scanning EXCEPT ![p] = TRUE]
    /\ UNCHANGED <<idxfile, datfile, locks, pc, call, ret, private>>

-----------------------------------------------------------------------------
(* _db_find_and_lock: lock the chain, then follow it.                      *)

\* Mutant: writers too take the read lock.
MutLockChain(p) == readw_lock(p, chainoff(p))

LockChain(p) ==
    IF call[p].op = "fetch" THEN readw_lock(p, chainoff(p))
                            ELSE writew_lock(p, chainoff(p))

FindLock(p) ==
    /\ Goto(p, "lock", "search")
    /\ LockChain(p)
    /\ ptroff' = [ptroff EXCEPT ![p] = chainoff(p)]
    /\ offset' = [offset EXCEPT ![p] = ptr[chainoff(p)]]
    /\ fpos' = [fpos EXCEPT ![p] = Torn]
    /\ UNCHANGED <<idxfile, datfile, call, ret, scanning, current, saveoff, newptr>>

FindNext(p) ==
    /\ pc[p] = "search" /\ offset[p] # 0
    /\ rec[offset[p]].key # call[p].key
    /\ db_readidx(p, offset[p])
    /\ ptroff' = [ptroff EXCEPT ![p] = offset[p]]
    /\ offset' = [offset EXCEPT ![p] = ptr[offset[p]]]
    /\ UNCHANGED <<idxfile, datfile, locks, pc, call, ret, scanning, saveoff, newptr>>

FindMatch(p) ==
    /\ Goto(p, "search", "found") /\ offset[p] # 0
    /\ rec[offset[p]].key = call[p].key
    /\ db_readidx(p, offset[p])
    /\ UNCHANGED <<idxfile, datfile, locks, call, ret, scanning, ptroff, offset,
                   saveoff, newptr>>

FindEnd(p) ==
    /\ Goto(p, "search", "missing") /\ offset[p] = 0
    /\ UNCHANGED <<idxfile, datfile, locks, call, ret, fpos, scanning, private>>

-----------------------------------------------------------------------------
(* db_fetch and the calls that return without changing the files.          *)

db_fetch(p) ==
    /\ pc[p] = "found" /\ call[p].op = "fetch"
    /\ Return(p, {chainoff(p)}, <<None, dat[datoff[p]].val>>)
    /\ UNCHANGED <<idxfile, datfile, fpos>>

NotFound(p) ==
    /\ pc[p] = "missing"
    /\ \/ call[p].op \in {"fetch", "delete"}
       \/ call[p].op = "store" /\ call[p].flag = "DB_REPLACE"
    /\ Return(p, {chainoff(p)}, NoRet)
    /\ UNCHANGED <<idxfile, datfile, fpos>>

InsertExists(p) ==
    /\ pc[p] = "found" /\ call[p].op = "store" /\ call[p].flag = "DB_INSERT"
    /\ Return(p, {chainoff(p)}, <<None, "exists">>)
    /\ UNCHANGED <<idxfile, datfile, fpos>>

-----------------------------------------------------------------------------
(* _db_dodelete, called by db_delete and by db_store when the new data has *)
(* another length.                                                         *)

Replaces(p) == call[p].op = "store" /\ call[p].flag # "DB_INSERT"

DeleteBlankDat(p) ==
    /\ Goto(p, "found", "del_idx")
    /\ \/ call[p].op = "delete"
       \/ Replaces(p) /\ DatLen[call[p].data] # datlen[p]
    /\ writew_lock(p, FREE_OFF)
    /\ db_writedat(datoff[p], Blank, datlen[p])
    /\ UNCHANGED <<idxfile, call, ret, fpos, scanning, private>>

DeleteBlankIdx(p) ==
    /\ Goto(p, "del_idx", "del_free")
    /\ saveoff' = [saveoff EXCEPT ![p] = ptrval[p]]
    /\ ptrval' = [ptrval EXCEPT ![p] = ptr[FREE_OFF]]
    /\ db_writeidx(p, idxoff[p], Blank, rec[idxoff[p]].klen, ptr[FREE_OFF])
    /\ UNCHANGED <<datfile, locks, call, ret, scanning, idxoff, datoff, datlen,
                   ptroff, offset, newptr>>

DeleteLinkFree(p) ==
    /\ Goto(p, "del_free", "del_unlink")
    /\ db_writeptr(p, FREE_OFF, idxoff[p])
    /\ UNCHANGED <<datfile, locks, call, ret, scanning, private>>

DeleteUnlink(p) ==
    /\ pc[p] = "del_unlink"
    /\ db_writeptr(p, ptroff[p], saveoff[p])
    /\ IF call[p].op = "delete"
       THEN Return(p, {FREE_OFF, chainoff(p)}, <<None, "ok">>)
       ELSE /\ pc' = [pc EXCEPT ![p] = "reread"]
            /\ un_lock(p, {FREE_OFF})
            /\ UNCHANGED <<call, ret, scanning, private>>
    /\ UNCHANGED datfile

-----------------------------------------------------------------------------
(* db_store: the head of the chain, then a free record or the end of the   *)
(* files, then the new head.                                               *)

\* "Reread the chain ptr in the hash table."
StoreReread(p) ==
    /\ Goto(p, "reread", "app_dat")
    /\ newptr' = [newptr EXCEPT ![p] = ptr[chainoff(p)]]
    /\ fpos' = [fpos EXCEPT ![p] = Torn]
    /\ UNCHANGED <<idxfile, datfile, locks, call, ret, scanning, current, ptroff,
                   offset, saveoff>>

StoreNew(p) ==
    /\ Goto(p, "missing", "free_lock")
    /\ call[p].op = "store" /\ call[p].flag # "DB_REPLACE"
    /\ newptr' = [newptr EXCEPT ![p] = ptr[chainoff(p)]]
    /\ fpos' = [fpos EXCEPT ![p] = Torn]
    /\ UNCHANGED <<idxfile, datfile, locks, call, ret, scanning, current, ptroff,
                   offset, saveoff>>

\* _db_findfree
FreeLock(p) ==
    /\ Goto(p, "free_lock", "free_walk")
    /\ writew_lock(p, FREE_OFF)
    /\ saveoff' = [saveoff EXCEPT ![p] = FREE_OFF]
    /\ offset' = [offset EXCEPT ![p] = ptr[FREE_OFF]]
    /\ fpos' = [fpos EXCEPT ![p] = Torn]
    /\ UNCHANGED <<idxfile, datfile, call, ret, scanning, current, ptroff, newptr>>

Fits(p, o) ==
    /\ rec[o].klen = KeyLen[call[p].key]
    /\ rec[o].datlen = DatLen[call[p].data]

FreeNext(p) ==
    /\ pc[p] = "free_walk" /\ offset[p] # 0
    /\ ~Fits(p, offset[p])
    /\ db_readidx(p, offset[p])
    /\ saveoff' = [saveoff EXCEPT ![p] = offset[p]]
    /\ offset' = [offset EXCEPT ![p] = ptr[offset[p]]]
    /\ UNCHANGED <<idxfile, datfile, locks, pc, call, ret, scanning, ptroff, newptr>>

FreeTake(p) ==
    /\ Goto(p, "free_walk", "reuse_dat") /\ offset[p] # 0
    /\ Fits(p, offset[p])
    /\ idxoff' = [idxoff EXCEPT ![p] = offset[p]]
    /\ datoff' = [datoff EXCEPT ![p] = rec[offset[p]].datoff]
    /\ datlen' = [datlen EXCEPT ![p] = rec[offset[p]].datlen]
    /\ ptrval' = [ptrval EXCEPT ![p] = ptr[offset[p]]]
    /\ db_writeptr(p, saveoff[p], ptr[offset[p]])
    /\ un_lock(p, {FREE_OFF})
    /\ UNCHANGED <<datfile, call, ret, scanning, ptroff, offset, saveoff, newptr>>

\* Mutant: the lock on the free list is kept.
MutFreeNone(p) ==
    /\ Goto(p, "free_walk", "app_dat") /\ offset[p] = 0
    /\ UNCHANGED locks
    /\ UNCHANGED <<idxfile, datfile, call, ret, fpos, scanning, private>>

FreeNone(p) ==
    /\ Goto(p, "free_walk", "app_dat") /\ offset[p] = 0
    /\ un_lock(p, {FREE_OFF})
    /\ UNCHANGED <<idxfile, datfile, call, ret, fpos, scanning, private>>

ReuseDat(p) ==
    /\ Goto(p, "reuse_dat", "reuse_idx")
    /\ db_writedat(datoff[p], call[p].data, DatLen[call[p].data])
    /\ datlen' = [datlen EXCEPT ![p] = DatLen[call[p].data]]
    /\ UNCHANGED <<idxfile, locks, call, ret, fpos, scanning, idxoff, datoff, ptrval,
                   ptroff, offset, saveoff, newptr>>

ReuseIdx(p) ==
    /\ Goto(p, "reuse_idx", "link")
    /\ db_writeidx(p, idxoff[p], call[p].key, KeyLen[call[p].key], newptr[p])
    /\ ptrval' = [ptrval EXCEPT ![p] = newptr[p]]
    /\ UNCHANGED <<datfile, locks, call, ret, scanning, idxoff, datoff, datlen,
                   ptroff, offset, saveoff, newptr>>

\* _db_writedat and _db_writeidx with SEEK_END: lock, lseek; write, unlock.
AppendSeekDat(p) ==
    /\ Goto(p, "app_dat", "app_datw")
    /\ writew_lock(p, DAT_FILE)
    /\ datoff' = [datoff EXCEPT ![p] = datsize]
    /\ datlen' = [datlen EXCEPT ![p] = DatLen[call[p].data]]
    /\ UNCHANGED <<idxfile, datfile, call, ret, fpos, scanning, idxoff, ptrval,
                   ptroff, offset, saveoff, newptr>>

AppendDat(p) ==
    /\ Goto(p, "app_datw", "app_idx")
    /\ db_writedat(datoff[p], call[p].data, datlen[p])
    /\ un_lock(p, {DAT_FILE})
    /\ UNCHANGED <<idxfile, call, ret, fpos, scanning, private>>

AppendSeekIdx(p) ==
    /\ Goto(p, "app_idx", "app_idxw")
    /\ writew_lock(p, IDX_END)
    /\ idxoff' = [idxoff EXCEPT ![p] = idxsize]
    /\ ptrval' = [ptrval EXCEPT ![p] = newptr[p]]
    /\ fpos' = [fpos EXCEPT ![p] = idxsize]
    /\ UNCHANGED <<idxfile, datfile, call, ret, scanning, datoff, datlen, ptroff,
                   offset, saveoff, newptr>>

AppendIdx(p) ==
    /\ Goto(p, "app_idxw", "link")
    /\ db_writeidx(p, idxoff[p], call[p].key, KeyLen[call[p].key], newptr[p])
    /\ un_lock(p, {IDX_END})
    /\ UNCHANGED <<datfile, call, ret, scanning, private>>

StoreLink(p) ==
    /\ pc[p] = "link" /\ idxoff[p] <= PTR_MAX
    /\ db_writeptr(p, chainoff(p), idxoff[p])
    /\ Return(p, {chainoff(p)}, <<None, "ok">>)
    /\ UNCHANGED datfile

\* "_db_writeptr: invalid ptr": the new record is beyond what a ptr can hold.
StoreLinkExit(p) ==
    /\ pc[p] = "link" /\ idxoff[p] > PTR_MAX
    /\ Exit(p)

\* "Same size data, just replace data record."
StoreOverwrite(p) ==
    /\ pc[p] = "found" /\ Replaces(p)
    /\ DatLen[call[p].data] = datlen[p]
    /\ db_writedat(datoff[p], call[p].data, datlen[p])
    /\ Return(p, {chainoff(p)}, <<None, "ok">>)
    /\ UNCHANGED <<idxfile, fpos>>

-----------------------------------------------------------------------------
(* db_nextrec, with the free list read-locked.                             *)

\* Mutant: the scan does not lock the free list.
MutNextLock(p) ==
    /\ Goto(p, "scan", "next")
    /\ UNCHANGED <<idxfile, datfile, locks, call, ret, fpos, scanning, private>>

NextLock(p) ==
    /\ Goto(p, "scan", "next")
    /\ readw_lock(p, FREE_OFF)
    /\ UNCHANGED <<idxfile, datfile, call, ret, fpos, scanning, private>>

\* A position inside the hash table or a record: _db_readidx calls err_dump.
NextTorn(p) ==
    /\ pc[p] = "next" /\ fpos[p] = Torn
    /\ Exit(p)

NextEOF(p) ==
    /\ pc[p] = "next" /\ fpos[p] = idxsize
    /\ Return(p, {FREE_OFF}, NoRet)
    /\ UNCHANGED <<idxfile, datfile, fpos>>

NextRead(p) ==
    /\ pc[p] = "next" /\ fpos[p] \in FirstRec .. (idxsize - 1)
    /\ db_readidx(p, fpos[p])
    /\ pc' = [pc EXCEPT ![p] = IF rec[fpos[p]].key = Blank THEN "next" ELSE "next_dat"]
    /\ UNCHANGED <<idxfile, datfile, locks, call, ret, scanning, ptroff, offset,
                   saveoff, newptr>>

NextDat(p) ==
    /\ pc[p] = "next_dat"
    /\ Return(p, {FREE_OFF}, <<rec[idxoff[p]].key, dat[datoff[p]].val>>)
    /\ UNCHANGED <<idxfile, datfile, fpos>>

-----------------------------------------------------------------------------
Init ==
    /\ ptr = [o \in 0 .. NHASH |-> 0]
    /\ rec = [o \in {} |-> NoCall]
    /\ idxsize = FirstRec
    /\ dat = [o \in {} |-> NoCall]
    /\ datsize = 0
    /\ wlock = [r \in Regions |-> {}]
    /\ rlock = [r \in Regions |-> {}]
    /\ pc = [p \in Procs |-> "idle"]
    /\ call = [p \in Procs |-> NoCall]
    /\ ret = [p \in Procs |-> NoRet]
    /\ fpos = [p \in Procs |-> FirstRec]
    /\ scanning = [p \in Procs |-> TRUE]
    /\ idxoff = [p \in Procs |-> Dead]
    /\ datoff = [p \in Procs |-> Dead]
    /\ datlen = [p \in Procs |-> Dead]
    /\ ptrval = [p \in Procs |-> Dead]
    /\ ptroff = [p \in Procs |-> Dead]
    /\ offset = [p \in Procs |-> Dead]
    /\ saveoff = [p \in Procs |-> Dead]
    /\ newptr = [p \in Procs |-> Dead]

\* One step inside a call.
Step(p) ==
    \/ FindLock(p) \/ FindNext(p) \/ FindMatch(p) \/ FindEnd(p)
    \/ db_fetch(p) \/ NotFound(p) \/ InsertExists(p)
    \/ DeleteBlankDat(p) \/ DeleteBlankIdx(p) \/ DeleteLinkFree(p) \/ DeleteUnlink(p)
    \/ StoreReread(p) \/ StoreNew(p)
    \/ FreeLock(p) \/ FreeNext(p) \/ FreeTake(p) \/ FreeNone(p)
    \/ ReuseDat(p) \/ ReuseIdx(p)
    \/ AppendSeekDat(p) \/ AppendDat(p) \/ AppendSeekIdx(p) \/ AppendIdx(p)
    \/ StoreLink(p) \/ StoreLinkExit(p) \/ StoreOverwrite(p)
    \/ NextLock(p) \/ NextTorn(p) \/ NextEOF(p) \/ NextRead(p) \/ NextDat(p)
    \/ Finish(p)

Next == \E p \in Procs : Invoke(p) \/ db_rewind(p) \/ Step(p)

Spec == Init /\ [][Next]_vars

\* The kernel runs every process that can run.  A process blocked in F_SETLKW
\* runs once the region is free and stays free.
FairSpec == Spec /\ \A p \in Procs : WF_vars(Step(p))

-----------------------------------------------------------------------------
(* Properties.                                                             *)

Labels ==
    {"idle", "lock", "search", "found", "missing", "del_idx", "del_free",
     "del_unlink", "reread", "free_lock", "free_walk", "reuse_dat", "reuse_idx",
     "app_dat", "app_datw", "app_idx", "app_idxw", "link", "scan", "next",
     "next_dat", "done", "dead"}

FileTypes ==
    /\ idxsize \in Int /\ idxsize >= FirstRec
    /\ datsize \in Nat
    /\ ptr \in [0 .. (idxsize - 1) -> Int]
    /\ rec \in [FirstRec .. (idxsize - 1) -> Record]
    /\ dat \in [0 .. (datsize - 1) -> Datum]

LockTypes ==
    /\ wlock \in [Regions -> SUBSET Procs]
    /\ rlock \in [Regions -> SUBSET Procs]

CallTypes ==
    /\ pc \in [Procs -> Labels]
    /\ call \in [Procs -> Call]
    /\ ret \in [Procs -> (Keys \cup {None}) \X (Data \cup {Blank, None, "ok", "exists"})]
    /\ scanning \in [Procs -> BOOLEAN]

FieldTypes ==
    /\ fpos \in [Procs -> Int]
    /\ idxoff \in [Procs -> Int]
    /\ datoff \in [Procs -> Int]
    /\ datlen \in [Procs -> Int]
    /\ ptrval \in [Procs -> Int]
    /\ ptroff \in [Procs -> Int]
    /\ offset \in [Procs -> Int]
    /\ saveoff \in [Procs -> Int]
    /\ newptr \in [Procs -> Int]

\* Every variable has its type; in particular both files stay contiguous,
\* although two appending processes each seek and write.
TypeOK == FileTypes /\ LockTypes /\ CallTypes /\ FieldTypes

\* A record that a process has taken off one list, or appended, and not yet
\* put on a chain.
Held(p, o) == pc[p] \in {"reuse_dat", "reuse_idx", "link"} /\ idxoff[p] = o

\* A list head, or a record that is on a list.
Member(o) == o <= PTR_MAX /\ \A p \in Procs : ~Held(p, o)

\* A chain ptr field that no list uses: that of a record on no list, of a
\* record half moved to the free list, and the field that still points to a
\* record already on the free list.
Stale(c) ==
    \/ ~Member(c)
    \/ \E p \in Procs : \/ pc[p] = "del_free" /\ idxoff[p] = c
                        \/ pc[p] = "del_unlink" /\ ptroff[p] = c

\* No record is ever on two lists, or twice on one: two chain ptr fields in
\* use never point to the same record, although db_store links a reused
\* record without the free list lock and _db_dodelete rewrites three fields
\* in turn.
OneReference ==
    \A c1, c2 \in DOMAIN ptr :
        (c1 # c2 /\ ~Stale(c1) /\ ~Stale(c2) /\ ptr[c1] # 0) => ptr[c1] # ptr[c2]

\* No list ever runs in a circle, so every search of a chain or of the free
\* list ends: from any set of records some field in use leads out of the set.
Acyclic ==
    \A S \in SUBSET DOMAIN rec :
        S # {} => \E c \in S : Stale(c) \/ ptr[c] \notin S

\* A record is half way from its chain to the free list.
Deleting(p) == pc[p] \in {"del_free", "del_unlink"}

\* Two index records never share a data record, and the data record has the
\* length its index record claims, so _db_readdat never fails its newline
\* check, not even for a scan that holds no chain lock.
DataExclusive ==
    \A o1 \in DOMAIN rec :
        /\ rec[o1].datoff \in DOMAIN dat
        /\ dat[rec[o1].datoff].len = rec[o1].datlen
        /\ \A o2 \in DOMAIN rec : rec[o1].datoff = rec[o2].datoff => o1 = o2

\* Nobody reads a record in the middle of its being deleted: what db_fetch and
\* db_nextrec are about to return has a key and data, although _db_dodelete
\* blanks the data first and db_nextrec holds no chain lock.
NoBlankRead ==
    \A p \in Procs :
        (pc[p] = "next_dat" \/ (pc[p] = "found" /\ call[p].op = "fetch")) =>
            rec[idxoff[p]].key # Blank /\ dat[datoff[p]].val # Blank

=============================================================================
