---------------------------- MODULE DbListProofs ----------------------------
(***************************************************************************)
(* First part of the proof that IndInv is an invariant of the database     *)
(* library: initial states, types, locks and calls; then the lists: every  *)
(* step keeps the hash chains and the free list apart, without shared      *)
(* records and without cycles, and leaves alone what it has not locked.    *)
(***************************************************************************)
EXTENDS DbInv, TLAPS

-----------------------------------------------------------------------------
(* Constants.                                                              *)

\* _db_find_and_lock computes the offset of a chain ptr in the hash table.
LEMMA HashRange ==
    ASSUME NEW k \in Keys
    PROVE  ChainOff(k) \in 1 .. NHASH
  <1>1. NHASH \in Nat \ {0} /\ HashSum[k] \in Nat
    BY Zenon, DbAssumption
  <1>2. HashSum[k] % NHASH \in 0 .. (NHASH - 1)
    BY <1>1
  <1> QED
    BY <1>1, <1>2 DEF ChainOff, db_hash, HASH_OFF

\* The regions of the free list, the chains and the ends of the files.
LEMMA RegionRange ==
    /\ FREE_OFF \in Regions /\ IDX_END \in Regions /\ DAT_FILE \in Regions
    /\ \A k \in Keys : ChainOff(k) \in Regions
    /\ \A k \in Keys : ChainOff(k) # FREE_OFF
  BY DbAssumption, HashRange DEF Regions, FREE_OFF, IDX_END, DAT_FILE

-----------------------------------------------------------------------------
(* Initial states.                                                         *)

\* The empty database satisfies the invariant.
LEMMA InitInv == Init => IndInv
  <1> SUFFICES ASSUME Init PROVE IndInv
    BY Zenon
  <1> USE DbAssumption
  <1>1. TypeOK
    BY DEF Init, TypeOK, FileTypes, LockTypes, CallTypes, FieldTypes, FirstRec, Regions,
           Labels, Call, NoCall, NoRet, Record, Datum, Dead, None
  <1>2. LockInv /\ CallInv /\ HoldInv
    BY Zenon DEF Init, LockInv, CallInv, HoldInv, Holds, ChainLabels, DelLabels, NewLabels, FreeLabels
  <1>3. PtrInv /\ RefInv /\ OneReference /\ DataExclusive /\ BlankInv
    BY Zenon DEF Init, PtrInv, RefInv, OneReference, DataExclusive, BlankInv
  <1>4. ProcInv
    BY ZenonT(60) DEF Init, ProcInv, SearchInv, DeleteInv, StoreInv, DataInv, ScanInv,
           NewLabels
  <1>5. Ordered(Nat)
    <2>1. Falls([c \in DOMAIN rec |-> 0])
      BY Zenon DEF Init, Falls, Deleting
    <2> QED
      BY Zenon, <2>1 DEF Ordered
  <1> QED
    BY Zenon, <1>1, <1>2, <1>3, <1>4, <1>5 DEF IndInv, ListInv

-----------------------------------------------------------------------------
(* Facts that hold in every state of the invariant.                        *)

\* The parts of the index file: list heads, then records.
LEMMA Domains ==
    ASSUME TypeOK
    PROVE  /\ DOMAIN ptr = 0 .. (idxsize - 1)
           /\ DOMAIN rec = (NHASH + 1) .. (idxsize - 1)
           /\ DOMAIN dat = 0 .. (datsize - 1)
           /\ DOMAIN rec \subseteq DOMAIN ptr
           /\ FREE_OFF \in DOMAIN ptr
           /\ \A k \in Keys : ChainOff(k) \in DOMAIN ptr
           /\ idxsize \in Int /\ idxsize > NHASH /\ datsize \in Nat
           /\ NHASH \in Nat /\ NHASH > 0 /\ PTR_MAX \in Nat /\ NHASH <= PTR_MAX
           /\ \A c \in DOMAIN ptr : ptr[c] \in Int
           /\ \A o \in DOMAIN rec : rec[o].datoff \in Int /\ rec[o].datlen \in Int
  <1>1. /\ idxsize \in Int /\ idxsize >= NHASH + 1 /\ datsize \in Nat
        /\ ptr \in [0 .. (idxsize - 1) -> Int]
        /\ rec \in [(NHASH + 1) .. (idxsize - 1) -> Record]
        /\ dat \in [0 .. (datsize - 1) -> Datum]
    BY Zenon DEF TypeOK, FileTypes, FirstRec
  <1>2. NHASH \in Nat \ {0} /\ PTR_MAX \in Nat /\ NHASH <= PTR_MAX
    BY Zenon, DbAssumption
  <1>3. DOMAIN ptr = 0 .. (idxsize - 1) /\ DOMAIN rec = (NHASH + 1) .. (idxsize - 1)
    BY Zenon, <1>1
  <1>4. /\ DOMAIN rec \subseteq DOMAIN ptr /\ FREE_OFF \in DOMAIN ptr
        /\ \A k \in Keys : ChainOff(k) \in DOMAIN ptr
        /\ idxsize > NHASH /\ NHASH > 0 /\ NHASH \in Nat
    BY <1>1, <1>2, <1>3, HashRange DEF FREE_OFF
  <1>5. \A o \in DOMAIN rec : rec[o].datoff \in Int /\ rec[o].datlen \in Int
    BY Zenon, <1>1, <1>3 DEF Record
  <1> QED
    BY Zenon, <1>1, <1>2, <1>3, <1>4, <1>5

\* What a search of a chain or of the free list is about to read is a record.
LEMMA WalkRecord ==
    ASSUME IndInv, NEW p \in Procs, pc[p] \in {"search", "free_walk"},
           offset[p] # 0
    PROVE  offset[p] \in DOMAIN rec /\ offset[p] <= PTR_MAX
  <1>1. CASE pc[p] = "search"
    BY Zenon, <1>1 DEF IndInv, ListInv, ProcInv, SearchInv, InUse, PtrInv
  <1>2. CASE pc[p] = "free_walk"
    BY Zenon, <1>2 DEF IndInv, ListInv, ProcInv, StoreInv, InUse, PtrInv
  <1> QED
    BY Zenon, <1>1, <1>2

\* The chain a process works on is a chain.
LEMMA ChainRegion ==
    ASSUME IndInv, NEW p \in Procs, pc[p] \in ChainLabels \cup {"lock"}
    PROVE  /\ chainoff(p) \in 1 .. NHASH
           /\ chainoff(p) \in Regions
           /\ chainoff(p) \in DOMAIN ptr
  <1>1. call[p].key \in Keys
    BY Zenon DEF IndInv, ListInv, CallInv
  <1> QED
    BY Zenon, <1>1, HashRange, RegionRange, Domains DEF chainoff, IndInv, ListInv

\* A process that stores has data to store.
LEMMA StoreData ==
    ASSUME IndInv, NEW p \in Procs, pc[p] \in NewLabels
    PROVE  /\ call[p].op = "store" /\ call[p].key \in Keys /\ call[p].data \in Data
           /\ DatLen[call[p].data] \in Int /\ KeyLen[call[p].key] \in Int
  <1>1. pc[p] \in ChainLabels
    BY Zenon DEF ChainLabels
  <1>2. CallInv
    BY Zenon DEF IndInv, ListInv
  <1>3. call[p].op = "store" /\ call[p].key \in Keys /\ call[p].data \in Data
    BY Zenon, <1>1, <1>2 DEF CallInv
  <1> QED
    BY <1>3, DbAssumption

-----------------------------------------------------------------------------
(* Types.                                                                  *)

Act(p) == Invoke(p) \/ db_rewind(p) \/ Step(p)

\* Every step keeps the types of the DB structures and local variables.
LEMMA FieldTypesStep ==
    ASSUME IndInv, NEW p \in Procs, Act(p)
    PROVE  FieldTypes'
  <1>a. TypeOK
    BY Zenon DEF IndInv, ListInv
  <1>b. FieldTypes
    BY Zenon, <1>a DEF TypeOK
  <1> USE DbAssumption DEF FieldTypes, private, current
  <1>0. /\ FREE_OFF \in Int /\ Dead \in Int /\ Torn \in Int /\ FirstRec \in Int
        /\ ptr[FREE_OFF] \in Int /\ idxsize \in Int /\ datsize \in Int
    <2>1. ptr[FREE_OFF] \in Int /\ idxsize \in Int /\ datsize \in Nat /\ NHASH \in Nat
      BY Zenon, <1>a, Domains
    <2> QED
      BY <2>1 DEF FREE_OFF, Dead, Torn, FirstRec
  <1>1. CASE Invoke(p) \/ db_rewind(p) \/ Finish(p) \/ FindEnd(p) \/ DeleteBlankDat(p)
             \/ DeleteLinkFree(p) \/ FreeNone(p) \/ AppendSeekIdx(p) \/ AppendDat(p)
             \/ NextLock(p)
    BY <1>0, <1>b, <1>1 DEF Invoke, db_rewind, Finish, FindEnd, DeleteBlankDat,
                DeleteLinkFree, FreeNone, AppendSeekIdx, AppendDat, NextLock,
                db_writeptr
  <1>2. CASE db_fetch(p) \/ NotFound(p) \/ InsertExists(p) \/ StoreLink(p)
             \/ StoreLinkExit(p) \/ StoreOverwrite(p) \/ NextTorn(p) \/ NextEOF(p)
             \/ NextDat(p) \/ DeleteUnlink(p)
    <2>1. Forget(p) \/ UNCHANGED private
      BY Zenon, <1>2 DEF db_fetch, NotFound, InsertExists, StoreLink, StoreLinkExit,
                StoreOverwrite, NextTorn, NextEOF, NextDat, DeleteUnlink, Return, Exit
    <2>2. fpos' = fpos \/ fpos' = [fpos EXCEPT ![p] = Torn]
      BY Zenon, <1>2 DEF db_fetch, NotFound, InsertExists, StoreLink, StoreLinkExit,
                StoreOverwrite, NextTorn, NextEOF, NextDat, DeleteUnlink, Return, Exit,
                db_writeptr
    <2> QED
      BY <1>0, <1>b, <2>1, <2>2 DEF Forget
  <1>3. CASE FindLock(p) \/ StoreReread(p) \/ StoreNew(p)
    <2>0. pc[p] \in ChainLabels \cup {"lock"}
      BY Zenon, <1>3 DEF FindLock, StoreReread, StoreNew, Goto, ChainLabels
    <2>1. ptr[chainoff(p)] \in Int /\ chainoff(p) \in Int
      BY <1>a, <2>0, ChainRegion, Domains
    <2> QED
      BY <1>0, <1>b, <1>3, <2>1 DEF FindLock, StoreReread, StoreNew
  <1>4. CASE FindNext(p) \/ FindMatch(p) \/ FreeNext(p) \/ FreeTake(p)
    <2>1. offset[p] \in DOMAIN rec
      BY Zenon, <1>4, WalkRecord DEF FindNext, FindMatch, FreeNext, FreeTake, Goto
    <2>2. /\ ptr[offset[p]] \in Int /\ rec[offset[p]].datoff \in Int
          /\ rec[offset[p]].datlen \in Int
      BY Zenon, <1>a, <2>1, Domains
    <2> QED
      BY <1>0, <1>b, <1>4, <2>2 DEF FindNext, FindMatch, FreeNext, FreeTake, db_readidx,
         db_writeptr
  <1>5. CASE FreeLock(p) \/ DeleteBlankIdx(p)
    BY <1>0, <1>b, <1>5 DEF FreeLock, DeleteBlankIdx, db_writeidx
  <1>6. CASE ReuseDat(p) \/ ReuseIdx(p) \/ AppendSeekDat(p) \/ AppendIdx(p)
    <2>1. DatLen[call[p].data] \in Int
      BY Zenon, <1>6, StoreData DEF ReuseDat, ReuseIdx, AppendSeekDat, AppendIdx, Goto, NewLabels
    <2> QED
      BY <1>0, <1>a, <1>b, <1>6, <2>1 DEF ReuseDat, ReuseIdx, AppendSeekDat, AppendIdx, db_writeidx
  <1>7. CASE NextRead(p)
    <2>1. fpos[p] \in DOMAIN rec
      BY Zenon, <1>7, <1>a, Domains DEF NextRead, FirstRec
    <2>2. /\ ptr[fpos[p]] \in Int /\ rec[fpos[p]].datoff \in Int
          /\ rec[fpos[p]].datlen \in Int
      BY Zenon, <1>a, <2>1, Domains
    <2> QED
      BY <1>0, <1>b, <1>7, <2>2 DEF NextRead, db_readidx
  <1> QED
    BY Zenon, <1>1, <1>2, <1>3, <1>4, <1>5, <1>6, <1>7 DEF Act, Step

\* Every step keeps the types of calls and results.
LEMMA CallTypesStep ==
    ASSUME IndInv, NEW p \in Procs, Act(p)
    PROVE  CallTypes'
  <1>a. TypeOK
    BY Zenon DEF IndInv, ListInv
  <1>b. CallTypes
    BY Zenon, <1>a DEF TypeOK
  <1> USE DEF CallTypes
  <1>1. CASE Invoke(p)
    <2>1. PICK c \in Calls :
             /\ Goto(p, "idle", IF c.op = "nextrec" THEN "scan" ELSE "lock")
             /\ call' = [call EXCEPT ![p] = c]
             /\ scanning' = [scanning EXCEPT ![p] = @ /\ c.op = "nextrec"]
             /\ ret' = ret
      BY Zenon, <1>1 DEF Invoke
    <2>2. c \in Call
      BY Zenon DEF Calls, Call
    <2>3. (scanning[p] /\ c.op = "nextrec") \in BOOLEAN
      BY Zenon
    <2>4. (IF c.op = "nextrec" THEN "scan" ELSE "lock") \in Labels
      BY Zenon DEF Labels
    <2> QED
      BY Zenon, <1>b, <2>1, <2>2, <2>3, <2>4 DEF Goto
  <1>2. CASE Finish(p)
    BY Zenon, <1>b, <1>2 DEF Finish, Goto, NoCall, NoRet, Call, Labels
  <1>3. CASE db_rewind(p)
    BY Zenon, <1>b, <1>3 DEF db_rewind
  <1>4. CASE FindLock(p) \/ FindNext(p) \/ FindMatch(p) \/ FindEnd(p)
             \/ DeleteBlankDat(p) \/ DeleteBlankIdx(p) \/ DeleteLinkFree(p)
             \/ StoreReread(p) \/ StoreNew(p) \/ FreeLock(p) \/ FreeNext(p)
             \/ FreeTake(p) \/ FreeNone(p) \/ ReuseDat(p) \/ ReuseIdx(p)
             \/ AppendSeekDat(p) \/ AppendDat(p) \/ AppendSeekIdx(p) \/ AppendIdx(p)
             \/ NextLock(p) \/ NextRead(p)
    <2>1. \E l \in Labels : pc' = [pc EXCEPT ![p] = l]
      <3>1. CASE FindLock(p) \/ FindMatch(p) \/ FindEnd(p)
             \/ DeleteBlankDat(p) \/ DeleteBlankIdx(p) \/ DeleteLinkFree(p)
             \/ StoreReread(p) \/ StoreNew(p) \/ FreeLock(p)
             \/ FreeTake(p) \/ FreeNone(p) \/ ReuseDat(p) \/ ReuseIdx(p)
        BY ZenonT(60), <3>1 DEF FindLock, FindMatch, FindEnd, DeleteBlankDat,
             DeleteBlankIdx, DeleteLinkFree, StoreReread, StoreNew, FreeLock,
             FreeTake, FreeNone, ReuseDat, ReuseIdx, Goto, Labels
      <3>2. CASE AppendSeekDat(p) \/ AppendDat(p) \/ AppendSeekIdx(p) \/ AppendIdx(p)
             \/ NextLock(p) \/ NextRead(p)
        BY ZenonT(60), <3>2 DEF AppendSeekDat, AppendDat, AppendSeekIdx, AppendIdx, NextLock,
             NextRead, Goto, Labels
      <3>3. CASE FindNext(p) \/ FreeNext(p)
        <4>1. pc' = [pc EXCEPT ![p] = pc[p]] /\ pc[p] \in Labels
          BY Zenon, <1>b, <3>3 DEF FindNext, FreeNext
        <4> QED
          BY Zenon, <4>1
      <3> QED
        BY Zenon, <1>4, <3>1, <3>2, <3>3
    <2>2. UNCHANGED <<call, ret, scanning>>
      BY Zenon, <1>4 DEF FindLock, FindNext, FindMatch, FindEnd, DeleteBlankDat,
          DeleteBlankIdx, DeleteLinkFree, StoreReread, StoreNew, FreeLock, FreeNext,
          FreeTake, FreeNone, ReuseDat, ReuseIdx, AppendSeekDat, AppendDat,
          AppendSeekIdx, AppendIdx, NextLock, NextRead
    <2> QED
      BY ZenonT(60), <1>b, <2>1, <2>2
  <1>5. CASE NotFound(p) \/ InsertExists(p) \/ StoreLink(p) \/ StoreOverwrite(p)
             \/ NextEOF(p)
    BY <1>b, <1>5 DEF NotFound, InsertExists, StoreLink, StoreOverwrite, NextEOF,
          Return, NoRet, Labels
  <1>8. CASE DeleteUnlink(p) \/ StoreLinkExit(p) \/ NextTorn(p)
    BY <1>b, <1>8 DEF DeleteUnlink, StoreLinkExit, NextTorn, Return, Exit, NoRet, Labels
  <1>6. CASE db_fetch(p)
    <2>1. datoff[p] \in DOMAIN dat
      BY ZenonT(60), <1>6 DEF db_fetch, IndInv, ListInv, ProcInv, DataInv, DataExclusive
    <2>2. dat[datoff[p]].val \in Data \cup {Blank}
      BY Zenon, <1>a, <2>1, Domains DEF TypeOK, FileTypes, Datum
    <2> QED
      BY Zenon, <1>b, <1>6, <2>2 DEF db_fetch, Return, Labels
  <1>7. CASE NextDat(p)
    <2>0. idxoff[p] \in DOMAIN rec /\ rec[idxoff[p]].key # Blank /\ datoff[p] \in DOMAIN dat
      BY <1>7 DEF NextDat, IndInv, ListInv, ProcInv, ScanInv, DataExclusive
    <2>1. rec[idxoff[p]].key \in Keys /\ datoff[p] \in DOMAIN dat
      BY Zenon, <1>a, <2>0, Domains DEF TypeOK, FileTypes, FirstRec, Record
    <2>2. dat[datoff[p]].val \in Data \cup {Blank}
      BY Zenon, <1>a, <2>1, Domains DEF TypeOK, FileTypes, Datum
    <2> QED
      BY Zenon, <1>b, <1>7, <2>1, <2>2 DEF NextDat, Return, Labels
  <1> QED
    BY Zenon, <1>1, <1>2, <1>3, <1>4, <1>5, <1>6, <1>7, <1>8 DEF Act, Step

\* A write at an offset of a file, or at its end, keeps the file contiguous.
LEMMA WriteAtType ==
    ASSUME NEW a \in Int, NEW n \in Int, NEW S, NEW f \in [a .. (n - 1) -> S],
           NEW o \in a .. n, NEW v \in S
    PROVE  /\ WriteAt(f, o, v) \in [a .. (SizeAfter(n, o) - 1) -> S]
           /\ SizeAfter(n, o) \in Int /\ SizeAfter(n, o) >= n
           /\ \A x \in a .. (n - 1) : x # o => WriteAt(f, o, v)[x] = f[x]
           /\ WriteAt(f, o, v)[o] = v
  <1>1. DOMAIN f \cup {o} = a .. (SizeAfter(n, o) - 1)
    BY DEF SizeAfter
  <1> QED
    BY <1>1 DEF WriteAt, SizeAfter

\* The offset a process appends or rewrites a record at is a record or the end.
LEMMA WriteOffsets ==
    ASSUME IndInv, NEW p \in Procs
    PROVE  /\ pc[p] \in {"found", "del_idx", "reuse_dat", "reuse_idx"} =>
                 datoff[p] \in DOMAIN dat
           /\ pc[p] \in {"del_idx", "del_free", "reuse_idx"} => idxoff[p] \in DOMAIN rec
           /\ pc[p] = "app_datw" => datoff[p] = datsize
           /\ pc[p] = "app_idxw" => idxoff[p] = idxsize
           /\ pc[p] = "del_unlink" => ptroff[p] \in DOMAIN ptr
           /\ pc[p] = "free_walk" => saveoff[p] \in DOMAIN ptr
  <1>1. SearchInv(p) /\ DeleteInv(p) /\ StoreInv(p) /\ DataInv(p) /\ DataExclusive
    BY Zenon DEF IndInv, ListInv, ProcInv
  <1> QED
    BY Zenon, <1>1 DEF SearchInv, DeleteInv, StoreInv, DataInv, DataExclusive, InUse

\* Every step keeps the files contiguous: writes go to a record or to the end.
LEMMA FileTypesStep ==
    ASSUME IndInv, NEW p \in Procs, Act(p)
    PROVE  FileTypes'
  <1>a. TypeOK
    BY Zenon DEF IndInv, ListInv
  <1>b. FileTypes /\ FieldTypes
    BY Zenon, <1>a DEF TypeOK
  <1>c. FirstRec = NHASH + 1 /\ FREE_OFF \in DOMAIN ptr
    BY Zenon, <1>a, Domains DEF FirstRec
  <1>1. CASE Invoke(p) \/ db_rewind(p) \/ Finish(p) \/ FindLock(p) \/ FindNext(p)
             \/ FindMatch(p) \/ FindEnd(p) \/ db_fetch(p) \/ NotFound(p)
             \/ InsertExists(p) \/ StoreReread(p) \/ StoreNew(p) \/ FreeLock(p)
             \/ FreeNext(p) \/ FreeNone(p) \/ AppendSeekDat(p) \/ AppendSeekIdx(p)
             \/ StoreLinkExit(p) \/ NextLock(p) \/ NextTorn(p) \/ NextEOF(p)
             \/ NextRead(p) \/ NextDat(p)
    <2>1. UNCHANGED <<idxfile, datfile>>
      BY Zenon, <1>1 DEF Invoke, db_rewind, Finish, FindLock, FindNext, FindMatch, FindEnd,
            db_fetch, NotFound, InsertExists, StoreReread, StoreNew, FreeLock, FreeNext,
            FreeNone, AppendSeekDat, AppendSeekIdx, StoreLinkExit, Exit, NextLock,
            NextTorn, NextEOF, NextRead, NextDat
    <2> QED
      BY ZenonT(60), <1>b, <2>1 DEF FileTypes, idxfile, datfile
  <1>2. CASE DeleteBlankDat(p) \/ ReuseDat(p) \/ AppendDat(p) \/ StoreOverwrite(p)
    <2>1. /\ datoff[p] \in 0 .. datsize /\ UNCHANGED idxfile
      BY <1>a, <1>2, WriteOffsets, Domains DEF DeleteBlankDat, ReuseDat, AppendDat,
         StoreOverwrite, Goto
    <2>2. PICK d \in Datum : /\ dat' = WriteAt(dat, datoff[p], d)
                             /\ datsize' = SizeAfter(datsize, datoff[p])
      <3>1. datlen[p] \in Int
        BY Zenon, <1>b DEF FieldTypes
      <3>2. CASE DeleteBlankDat(p)
        BY Zenon, <3>1, <3>2 DEF DeleteBlankDat, db_writedat, Datum
      <3>3. CASE ReuseDat(p) \/ AppendDat(p)
        BY Zenon, <3>1, <3>3, StoreData DEF ReuseDat, AppendDat, db_writedat, Datum, Goto, NewLabels
      <3>4. CASE StoreOverwrite(p)
        <4>1. call[p].data \in Data
          BY Zenon, <3>4 DEF StoreOverwrite, Replaces, IndInv, ListInv, CallInv, ChainLabels
        <4> QED
          BY Zenon, <3>1, <3>4, <4>1 DEF StoreOverwrite, db_writedat, Datum
      <3> QED
        BY Zenon, <1>2, <3>2, <3>3, <3>4
    <2>3. datsize \in Nat /\ dat \in [0 .. (datsize - 1) -> Datum]
      BY Zenon, <1>b DEF FileTypes
    <2>4. datsize' \in Nat /\ dat' \in [0 .. (datsize' - 1) -> Datum]
      <3>1. 0 \in Int /\ datsize \in Int /\ datoff[p] \in 0 .. datsize
        BY <2>1, <2>3
      <3>2. /\ WriteAt(dat, datoff[p], d) \in [0 .. (SizeAfter(datsize, datoff[p]) - 1) -> Datum]
            /\ SizeAfter(datsize, datoff[p]) \in Int
            /\ SizeAfter(datsize, datoff[p]) >= datsize
        BY ZenonT(60), <2>3, <3>1, WriteAtType
      <3> QED
        BY <2>2, <2>3, <3>2
    <2> QED
      BY Zenon, <1>b, <2>1, <2>4 DEF FileTypes, idxfile
  <1>3. CASE DeleteLinkFree(p) \/ DeleteUnlink(p) \/ FreeTake(p) \/ StoreLink(p)
    <2>1. \E o \in DOMAIN ptr, v \in Int : ptr' = WriteAt(ptr, o, v)
      <3>1. CASE DeleteLinkFree(p)
        BY Zenon, <1>b, <1>c, <3>1 DEF DeleteLinkFree, db_writeptr, FieldTypes
      <3>2. CASE DeleteUnlink(p)
        BY Zenon, <1>b, <3>2, WriteOffsets DEF DeleteUnlink, db_writeptr, FieldTypes
      <3>3. CASE FreeTake(p)
        <4>1. offset[p] \in DOMAIN ptr /\ saveoff[p] \in DOMAIN ptr
          BY ZenonT(60), <1>a, <3>3, WriteOffsets, WalkRecord, Domains DEF FreeTake, Goto
        <4> QED
          BY ZenonT(60), <1>a, <3>3, <4>1, Domains DEF FreeTake, db_writeptr
      <3>4. CASE StoreLink(p)
        <4>1. chainoff(p) \in DOMAIN ptr
          BY Zenon, <3>4, ChainRegion DEF StoreLink, ChainLabels, NewLabels
        <4> QED
          BY Zenon, <1>b, <3>4, <4>1 DEF StoreLink, db_writeptr, FieldTypes
      <3> QED
        BY Zenon, <1>3, <3>1, <3>2, <3>3, <3>4
    <2>2. UNCHANGED <<rec, idxsize, dat, datsize>>
      BY Zenon, <1>3 DEF DeleteLinkFree, DeleteUnlink, FreeTake, StoreLink, db_writeptr, datfile
    <2>3. ptr' \in [0 .. (idxsize - 1) -> Int]
      BY ZenonT(60), <1>a, <1>b, <2>1, Domains DEF FileTypes, WriteAt
    <2> QED
      BY Zenon, <1>b, <2>2, <2>3 DEF FileTypes
  <1>4. CASE DeleteBlankIdx(p) \/ ReuseIdx(p) \/ AppendIdx(p)
    <2>1. idxoff[p] \in FirstRec .. idxsize
      BY <1>a, <1>c, <1>4, WriteOffsets, Domains DEF DeleteBlankIdx, ReuseIdx, AppendIdx, Goto
    <2>2. PICK r \in Record, v \in Int :
             /\ rec' = WriteAt(rec, idxoff[p], r) /\ ptr' = WriteAt(ptr, idxoff[p], v)
             /\ idxsize' = SizeAfter(idxsize, idxoff[p])
      <3>1. datoff[p] \in Int /\ datlen[p] \in Int /\ newptr[p] \in Int
        BY Zenon, <1>b DEF FieldTypes
      <3>2. CASE DeleteBlankIdx(p)
        <4>1. rec[idxoff[p]].klen \in Int /\ ptr[FREE_OFF] \in Int
          BY ZenonT(60), <1>a, <1>b, <3>2, WriteOffsets, Domains
             DEF DeleteBlankIdx, Goto, FileTypes, Record
        <4> QED
          BY Zenon, <3>1, <3>2, <4>1 DEF DeleteBlankIdx, db_writeidx, Record
      <3>3. CASE ReuseIdx(p) \/ AppendIdx(p)
        BY ZenonT(60), <3>1, <3>3, StoreData
           DEF ReuseIdx, AppendIdx, db_writeidx, Record, Goto, NewLabels
      <3> QED
        BY Zenon, <1>4, <3>2, <3>3
    <2>3. UNCHANGED datfile
      BY Zenon, <1>4 DEF DeleteBlankIdx, ReuseIdx, AppendIdx
    <2>4. /\ rec \in [FirstRec .. (idxsize - 1) -> Record]
          /\ ptr \in [0 .. (idxsize - 1) -> Int] /\ idxsize \in Int
          /\ FirstRec \in Int /\ FirstRec > 0 /\ idxsize >= FirstRec
      BY <1>a, <1>b, <1>c, Domains DEF FileTypes
    <2>5. /\ rec' \in [FirstRec .. (idxsize' - 1) -> Record]
          /\ idxsize' \in Int /\ idxsize' >= idxsize
      <3>1. /\ WriteAt(rec, idxoff[p], r)
                  \in [FirstRec .. (SizeAfter(idxsize, idxoff[p]) - 1) -> Record]
            /\ SizeAfter(idxsize, idxoff[p]) \in Int
            /\ SizeAfter(idxsize, idxoff[p]) >= idxsize
        BY ZenonT(60), <2>1, <2>4, WriteAtType
      <3> QED
        BY Zenon, <2>2, <3>1
    <2>6. ptr' \in [0 .. (idxsize' - 1) -> Int]
      <3>1. idxoff[p] \in 0 .. idxsize
        BY <2>1, <2>4
      <3>2. WriteAt(ptr, idxoff[p], v) \in [0 .. (SizeAfter(idxsize, idxoff[p]) - 1) -> Int]
        BY <2>4, <3>1 DEF WriteAt, SizeAfter
      <3> QED
        BY Zenon, <2>2, <3>2
    <2> QED
      <3>1. datsize' \in Nat /\ dat' \in [0 .. (datsize' - 1) -> Datum]
        BY Zenon, <1>b, <2>3 DEF FileTypes, datfile
      <3>2. idxsize' >= FirstRec
        <4>1. /\ FirstRec \in Int /\ idxsize \in Int /\ idxsize' \in Int
              /\ idxsize >= FirstRec /\ idxsize' >= idxsize
          BY Zenon, <2>4, <2>5
        <4> QED
          BY <4>1
      <3> QED
        BY Zenon, <2>5, <2>6, <3>1, <3>2 DEF FileTypes
  <1> QED
    BY Zenon, <1>1, <1>2, <1>3, <1>4 DEF Act, Step

-----------------------------------------------------------------------------
(* Control: what a step does to the other processes, locks and calls.      *)

\* A step of p changes the local state of p only.
LEMMA OthersStep ==
    ASSUME IndInv, NEW p \in Procs, Act(p), NEW q \in Procs, q # p
    PROVE  /\ pc'[q] = pc[q] /\ call'[q] = call[q] /\ idxoff'[q] = idxoff[q]
           /\ datoff'[q] = datoff[q] /\ datlen'[q] = datlen[q]
           /\ ptrval'[q] = ptrval[q] /\ ptroff'[q] = ptroff[q]
           /\ offset'[q] = offset[q] /\ saveoff'[q] = saveoff[q]
           /\ newptr'[q] = newptr[q]
  <1>a. CallTypes /\ FieldTypes
    BY Zenon DEF IndInv, ListInv, TypeOK
  <1> USE <1>a DEF CallTypes, FieldTypes, private, current
  <1>1. CASE Invoke(p) \/ db_rewind(p) \/ Finish(p)
    BY ZenonT(60), <1>1 DEF Invoke, db_rewind, Finish, Goto
  <1>2. CASE FindEnd(p) \/ DeleteBlankDat(p) \/ DeleteLinkFree(p)
    BY ZenonT(60), <1>2 DEF FindEnd, DeleteBlankDat, DeleteLinkFree, Goto
  <1>3. CASE FreeNone(p) \/ AppendSeekIdx(p) \/ AppendDat(p) \/ NextLock(p)
    BY ZenonT(60), <1>3 DEF FreeNone, AppendSeekIdx, AppendDat, NextLock, Goto
  <1>4. CASE db_fetch(p) \/ NotFound(p) \/ InsertExists(p)
    BY ZenonT(60), <1>4 DEF db_fetch, NotFound, InsertExists, Return, Forget
  <1>5. CASE StoreLink(p) \/ StoreLinkExit(p) \/ StoreOverwrite(p)
    BY ZenonT(60), <1>5 DEF StoreLink, StoreLinkExit, StoreOverwrite, Return, Exit, Forget
  <1>6. CASE NextTorn(p) \/ NextEOF(p) \/ NextDat(p)
    BY ZenonT(60), <1>6 DEF NextTorn, NextEOF, NextDat, Return, Exit, Forget
  <1>7. CASE FindLock(p) \/ StoreReread(p) \/ StoreNew(p)
    BY ZenonT(60), <1>7 DEF FindLock, StoreReread, StoreNew, Goto
  <1>8. CASE FreeLock(p) \/ DeleteBlankIdx(p) \/ FreeTake(p)
    BY ZenonT(60), <1>8 DEF FreeLock, DeleteBlankIdx, FreeTake, Goto
  <1>9. CASE FindNext(p) \/ FindMatch(p)
    BY ZenonT(60), <1>9 DEF FindNext, FindMatch, db_readidx, Goto
  <1>10. CASE FreeNext(p) \/ NextRead(p)
    BY ZenonT(60), <1>10 DEF FreeNext, NextRead, db_readidx, Goto
  <1>11. CASE ReuseDat(p) \/ ReuseIdx(p)
    BY ZenonT(60), <1>11 DEF ReuseDat, ReuseIdx, Goto
  <1>12. CASE AppendSeekDat(p) \/ AppendIdx(p)
    BY ZenonT(60), <1>12 DEF AppendSeekDat, AppendIdx, Goto
  <1>13. CASE DeleteUnlink(p)
    BY <1>13 DEF DeleteUnlink, Return, Forget
  <1> QED
    BY Zenon, <1>1, <1>2, <1>3, <1>4, <1>5, <1>6, <1>7, <1>8, <1>9,
       <1>10, <1>11, <1>12, <1>13 DEF Act, Step

\* A step changes at most the locks of the process that takes it, and a write
\* lock stays exclusive.
LEMMA LockStep ==
    ASSUME IndInv, NEW p \in Procs, Act(p)
    PROVE  /\ LockTypes' /\ LockInv'
           /\ \A q \in Procs, r \in Regions :
                 q # p => /\ q \in wlock'[r] <=> q \in wlock[r]
                          /\ q \in rlock'[r] <=> q \in rlock[r]
  <1>a. LockTypes /\ LockInv
    BY Zenon DEF IndInv, ListInv, TypeOK
  <1>b. \/ UNCHANGED locks
        \/ \E r \in Regions : writew_lock(p, r) \/ readw_lock(p, r)
        \/ \E rs : un_lock(p, rs)
    <2>1. CASE Invoke(p) \/ db_rewind(p) \/ Finish(p) \/ FindNext(p) \/ FindMatch(p)
             \/ FindEnd(p) \/ DeleteBlankIdx(p) \/ DeleteLinkFree(p)
             \/ StoreReread(p) \/ StoreNew(p) \/ FreeNext(p) \/ ReuseDat(p)
             \/ ReuseIdx(p) \/ NextRead(p)
      BY Zenon, <2>1 DEF Invoke, db_rewind, Finish, FindNext, FindMatch, FindEnd,
                DeleteBlankIdx, DeleteLinkFree, StoreReread, StoreNew, FreeNext,
                ReuseDat, ReuseIdx, NextRead
    <2>2. CASE FindLock(p)
      BY ZenonT(60), <2>2, ChainRegion DEF FindLock, LockChain, Goto
    <2>3. CASE DeleteBlankDat(p) \/ FreeLock(p) \/ AppendSeekDat(p)
             \/ AppendSeekIdx(p) \/ NextLock(p)
      BY ZenonT(60), <2>3, RegionRange DEF DeleteBlankDat, FreeLock, AppendSeekDat, AppendSeekIdx,
                NextLock
    <2>4. CASE db_fetch(p) \/ NotFound(p) \/ InsertExists(p)
             \/ FreeTake(p) \/ FreeNone(p) \/ AppendDat(p) \/ AppendIdx(p)
             \/ StoreLink(p) \/ StoreLinkExit(p) \/ StoreOverwrite(p)
             \/ NextTorn(p) \/ NextEOF(p) \/ NextDat(p)
      BY ZenonT(60), <2>4 DEF db_fetch, NotFound, InsertExists, FreeTake, FreeNone,
                AppendDat, AppendIdx, StoreLink, StoreLinkExit, StoreOverwrite,
                NextTorn, NextEOF, NextDat, Return, Exit
    <2>5. CASE DeleteUnlink(p)
      BY Zenon, <2>5 DEF DeleteUnlink, Return
    <2> QED
      BY ZenonT(60), <2>1, <2>2, <2>3, <2>4, <2>5 DEF Act, Step
  <1>1. CASE UNCHANGED locks
    BY Zenon, <1>a, <1>1 DEF LockTypes, LockInv, locks
  <1>2. CASE \E r \in Regions : writew_lock(p, r)
    BY <1>a, <1>2 DEF LockTypes, LockInv, writew_lock
  <1>3. CASE \E r \in Regions : readw_lock(p, r)
    BY <1>a, <1>3 DEF LockTypes, LockInv, readw_lock
  <1>4. CASE \E rs : un_lock(p, rs)
    BY <1>a, <1>4 DEF LockTypes, LockInv, un_lock
  <1> QED
    BY Zenon, <1>b, <1>1, <1>2, <1>3, <1>4

\* Every step keeps the agreement of label and call.
LEMMA CallStep ==
    ASSUME IndInv, NEW p \in Procs, Act(p)
    PROVE  CallInv'
  <1>a. CallInv /\ CallTypes
    BY Zenon DEF IndInv, ListInv, TypeOK
  <1> USE DEF ChainLabels, DelLabels, NewLabels
  <1> SUFFICES ASSUME NEW q \in Procs
               PROVE  /\ pc'[q] \in ChainLabels \cup {"lock"} =>
                            /\ call'[q].key \in Keys
                            /\ call'[q].op \in {"fetch", "delete", "store"}
                            /\ call'[q].op = "store" => call'[q].data \in Data
                      /\ pc'[q] \in DelLabels => call'[q].op # "fetch"
                      /\ pc'[q] \in NewLabels \cup {"reread"} => call'[q].op = "store"
    BY Zenon DEF CallInv
  <1>1. CASE q # p
    BY <1>a, <1>1, OthersStep DEF CallInv
  <1>2. CASE q = p
    <2>1. CASE Invoke(p)
      BY <1>a, <1>2, <2>1 DEF Invoke, Goto, Calls, CallTypes
    <2>2. CASE Finish(p) \/ db_rewind(p) \/ NextLock(p) \/ NextRead(p)
      BY <1>a, <1>2, <2>2 DEF Finish, db_rewind, NextLock, NextRead, Goto, CallTypes
    <2>3. CASE db_fetch(p) \/ NotFound(p) \/ InsertExists(p) \/ StoreLink(p)
             \/ StoreLinkExit(p) \/ StoreOverwrite(p) \/ NextTorn(p) \/ NextEOF(p)
             \/ NextDat(p)
      <3>1. pc'[p] \in {"done", "dead"}
        BY ZenonT(60), <1>a, <2>3 DEF db_fetch, NotFound, InsertExists, StoreLink, StoreLinkExit,
           StoreOverwrite, NextTorn, NextEOF, NextDat, Return, Exit, CallTypes
      <3> QED
        BY ZenonT(60), <1>2, <3>1
    <2>4. CASE FindLock(p) \/ FindNext(p) \/ FindEnd(p)
      BY ZenonT(60), <1>a, <1>2, <2>4 DEF FindLock, FindNext, FindEnd, Goto, CallInv, CallTypes
    <2>7. CASE DeleteBlankDat(p) \/ DeleteBlankIdx(p) \/ DeleteLinkFree(p)
      BY ZenonT(60), <1>a, <1>2, <2>7 DEF DeleteBlankDat, DeleteBlankIdx, DeleteLinkFree,
         Replaces, Goto, CallInv, CallTypes
    <2>8. CASE FindMatch(p)
      BY ZenonT(60), <1>a, <1>2, <2>8 DEF FindMatch, Goto, CallInv, CallTypes
    <2>5. CASE DeleteUnlink(p)
      BY Zenon, <1>a, <1>2, <2>5 DEF DeleteUnlink, Return, CallInv, CallTypes
    <2>6. CASE StoreReread(p) \/ StoreNew(p) \/ FreeLock(p) \/ FreeNext(p)
             \/ FreeTake(p) \/ FreeNone(p) \/ ReuseDat(p) \/ ReuseIdx(p)
             \/ AppendSeekDat(p) \/ AppendDat(p) \/ AppendSeekIdx(p) \/ AppendIdx(p)
      BY ZenonT(60), <1>a, <1>2, <2>6 DEF StoreReread, StoreNew, FreeLock, FreeNext,
         FreeTake, FreeNone, ReuseDat, ReuseIdx, AppendSeekDat, AppendDat,
         AppendSeekIdx, AppendIdx, Goto, CallInv, CallTypes
    <2> QED
      BY Zenon, <2>1, <2>2, <2>3, <2>4, <2>5, <2>6, <2>7, <2>8 DEF Act, Step
  <1> QED
    BY Zenon, <1>1, <1>2

\* Every step keeps the agreement of label and locks.
LEMMA HoldStep ==
    ASSUME IndInv, NEW p \in Procs, Act(p)
    PROVE  HoldInv'
  <1>a. CallTypes /\ LockTypes /\ Holds(p)
    BY Zenon DEF IndInv, ListInv, TypeOK, HoldInv
  <1>b. SUFFICES ASSUME NEW q \in Procs PROVE Holds(q)'
    BY Zenon DEF HoldInv
  <1>r. /\ FREE_OFF \in Regions /\ IDX_END \in Regions /\ DAT_FILE \in Regions
        /\ FREE_OFF # IDX_END /\ FREE_OFF # DAT_FILE
        /\ pc[p] \in ChainLabels \cup {"lock"} =>
              /\ chainoff(p) \in Regions /\ chainoff(p) # FREE_OFF
              /\ chainoff(p) # IDX_END /\ chainoff(p) # DAT_FILE
    BY DbAssumption, RegionRange, ChainRegion DEF FREE_OFF, IDX_END, DAT_FILE
  <1>1. CASE q # p
    <2>1. Holds(q)
      BY Zenon DEF IndInv, ListInv, HoldInv
    <2>2. pc'[q] = pc[q] /\ call'[q] = call[q] /\ chainoff(q)' = chainoff(q)
      BY Zenon, <1>1, OthersStep DEF chainoff
    <2>3. pc[q] \in ChainLabels => chainoff(q) \in Regions
      BY Zenon, ChainRegion
    <2> QED
      BY ZenonT(60), <1>1, <1>r, <2>1, <2>2, <2>3, LockStep DEF Holds
  <1>2. CASE q = p
    <2> USE DEF ChainLabels, DelLabels, NewLabels, FreeLabels
    <2>1. CASE Invoke(p) \/ Finish(p) \/ db_rewind(p)
      BY <1>a, <1>2, <2>1 DEF Invoke, Finish, db_rewind, Goto, CallTypes, Holds
    <2>2. CASE db_fetch(p) \/ NotFound(p) \/ InsertExists(p) \/ StoreLink(p)
             \/ StoreLinkExit(p) \/ StoreOverwrite(p) \/ NextTorn(p) \/ NextEOF(p)
             \/ NextDat(p)
      <3>1. pc'[p] \in {"done", "dead"}
        BY Zenon, <1>a, <2>2 DEF db_fetch, NotFound, InsertExists, StoreLink, StoreLinkExit,
           StoreOverwrite, NextTorn, NextEOF, NextDat, Return, Exit, CallTypes
      <3> QED
        BY Zenon, <1>2, <3>1 DEF Holds
    <2>3. CASE FindLock(p)
      BY <1>a, <1>2, <1>r, <2>3 DEF FindLock, LockChain, Goto, readw_lock, writew_lock,
         CallTypes, LockTypes, Holds, chainoff
    <2>4. CASE FindNext(p) \/ FindMatch(p) \/ FindEnd(p) \/ DeleteBlankIdx(p)
             \/ DeleteLinkFree(p) \/ StoreReread(p) \/ StoreNew(p) \/ FreeNext(p)
             \/ ReuseDat(p) \/ ReuseIdx(p) \/ NextRead(p)
      <3>1. UNCHANGED locks /\ UNCHANGED call
        BY ZenonT(60), <2>4 DEF FindNext, FindMatch, FindEnd, DeleteBlankIdx, DeleteLinkFree,
           StoreReread, StoreNew, FreeNext, ReuseDat, ReuseIdx, NextRead
      <3>2. CASE FindNext(p) \/ FindMatch(p) \/ FindEnd(p)
        BY ZenonT(60), <1>a, <1>2, <3>1, <3>2 DEF FindNext, FindMatch, FindEnd, Goto, CallTypes,
           Holds, locks, chainoff
      <3>3. CASE DeleteBlankIdx(p) \/ DeleteLinkFree(p) \/ StoreReread(p) \/ StoreNew(p)
        BY ZenonT(60), <1>a, <1>2, <3>1, <3>3 DEF DeleteBlankIdx, DeleteLinkFree, StoreReread,
           StoreNew, Goto, CallTypes, Holds, locks, chainoff
      <3>4. CASE FreeNext(p) \/ ReuseDat(p) \/ ReuseIdx(p) \/ NextRead(p)
        BY ZenonT(60), <1>a, <1>2, <3>1, <3>4 DEF FreeNext, ReuseDat, ReuseIdx, NextRead, Goto,
           CallTypes, Holds, locks, chainoff
      <3> QED
        BY Zenon, <2>4, <3>2, <3>3, <3>4
    <2>5. CASE DeleteBlankDat(p) \/ FreeLock(p)
      BY <1>a, <1>2, <1>r, <2>5 DEF DeleteBlankDat, FreeLock, Goto, writew_lock,
         CallTypes, LockTypes, Holds, chainoff
    <2>9. CASE AppendSeekDat(p)
      BY <1>a, <1>2, <1>r, <2>9 DEF AppendSeekDat, Goto, writew_lock,
         CallTypes, LockTypes, Holds, chainoff
    <2>11. CASE AppendSeekIdx(p)
      BY <1>a, <1>2, <1>r, <2>11 DEF AppendSeekIdx, Goto, writew_lock,
         CallTypes, LockTypes, Holds, chainoff
    <2>6. CASE NextLock(p)
      BY Zenon, <1>a, <1>2, <1>r, <2>6 DEF NextLock, Goto, readw_lock, CallTypes, LockTypes, Holds
    <2>7. CASE FreeTake(p) \/ FreeNone(p)
      BY <1>a, <1>2, <1>r, <2>7 DEF FreeTake, FreeNone, Goto, un_lock, CallTypes,
         LockTypes, Holds, chainoff
    <2>10. CASE AppendDat(p) \/ AppendIdx(p)
      BY <1>a, <1>2, <1>r, <2>10 DEF AppendDat, AppendIdx, Goto, un_lock, CallTypes,
         LockTypes, Holds, chainoff
    <2>8. CASE DeleteUnlink(p)
      BY <1>a, <1>2, <1>r, <2>8 DEF DeleteUnlink, Return, un_lock, CallTypes,
         LockTypes, Holds, chainoff
    <2> QED
      BY ZenonT(60), <2>1, <2>2, <2>3, <2>4, <2>5, <2>6, <2>7, <2>8,
         <2>9, <2>10, <2>11 DEF Act, Step
  <1> QED
    BY Zenon, <1>1, <1>2

-----------------------------------------------------------------------------
(* Lists: how a step changes the chain ptr fields.                         *)

Critical == {"reuse_dat", "reuse_idx", "link", "del_free", "del_unlink"}

\* What a step of p leaves alone: fields of lists p has not locked, records
\* other processes hold, and records nothing points to.
Frame(p) ==
    /\ \A c \in DOMAIN ptr :
          (Member(c) /\ p \notin wlock[Class(c)]) =>
              /\ c \in DOMAIN ptr' /\ ptr'[c] = ptr[c]
              /\ c \in DOMAIN rec => c \in DOMAIN rec' /\ rec'[c] = rec[c]
              /\ Member(c)'
              /\ ~Stale(c) => ~Stale(c)'
    /\ \A q \in Procs, o \in DOMAIN rec :
          (q # p /\ Held(q, o)) => /\ o \in DOMAIN rec' /\ ptr'[o] = ptr[o]
                                   /\ rec'[o] = rec[o]
    /\ \A o \in DOMAIN rec :
          (/\ Unreferenced(o)
           /\ pc[p] = "link" => o # idxoff[p]
           /\ pc[p] = "del_unlink" => o # saveoff[p]) => Unreferenced(o)'

Lists == PtrInv /\ RefInv /\ OneReference /\ Ordered(Nat)

(* What the steps that write the index file change: the chain ptr fields,  *)
(* which records are on a list and which fields are in use.                *)

Blanks(p) ==
    /\ DOMAIN ptr' = DOMAIN ptr /\ DOMAIN rec' = DOMAIN rec
    /\ \A c \in DOMAIN ptr : ptr'[c] = IF c = idxoff[p] THEN ptr[FREE_OFF] ELSE ptr[c]
    /\ \A c \in DOMAIN rec : c # idxoff[p] => rec'[c] = rec[c]
    /\ idxoff[p] \in DOMAIN rec /\ rec'[idxoff[p]].key = Blank
    /\ \A c : Member(c)' <=> Member(c)
    /\ \A c : Stale(c)' <=> Stale(c) \/ c = idxoff[p]

LinksFree(p) ==
    /\ DOMAIN ptr' = DOMAIN ptr /\ rec' = rec
    /\ \A c \in DOMAIN ptr : ptr'[c] = IF c = FREE_OFF THEN idxoff[p] ELSE ptr[c]
    /\ idxoff[p] \in DOMAIN ptr /\ Member(idxoff[p]) /\ Member(FREE_OFF)
    /\ ptroff[p] # FREE_OFF /\ ptroff[p] # idxoff[p]
    /\ \A c : Member(c)' <=> Member(c)
    /\ \A c : Stale(c) <=> ~Member(c) \/ c = idxoff[p]
    /\ \A c : Stale(c)' <=> ~Member(c) \/ c = ptroff[p]

Unlinks(p) ==
    /\ DOMAIN ptr' = DOMAIN ptr /\ rec' = rec
    /\ \A c \in DOMAIN ptr : ptr'[c] = IF c = ptroff[p] THEN saveoff[p] ELSE ptr[c]
    /\ ptroff[p] \in DOMAIN ptr /\ Member(ptroff[p])
    /\ \A c : Member(c)' <=> Member(c)
    /\ \A c : Stale(c) <=> ~Member(c) \/ c = ptroff[p]
    /\ \A c : Stale(c)' <=> ~Member(c)
    /\ \A q \in Procs : q # p => ~Deleting(q)

Takes(p) ==
    /\ DOMAIN ptr' = DOMAIN ptr /\ rec' = rec
    /\ offset[p] \in DOMAIN rec /\ rec[offset[p]].key = Blank
    /\ InUse(saveoff[p], FREE_OFF) /\ ptr[saveoff[p]] = offset[p]
    /\ \A c \in DOMAIN ptr : ptr'[c] = IF c = saveoff[p] THEN ptr[offset[p]] ELSE ptr[c]
    /\ \A c : Member(c)' <=> Member(c) /\ c # offset[p]
    /\ \A c : Stale(c) <=> ~Member(c)
    /\ \A c : Stale(c)' <=> ~Member(c) \/ c = offset[p]

Writes(p) ==
    /\ DOMAIN ptr' = DOMAIN ptr \cup {idxoff[p]} /\ DOMAIN rec' = DOMAIN rec \cup {idxoff[p]}
    /\ \A c \in DOMAIN ptr : c # idxoff[p] => ptr'[c] = ptr[c]
    /\ \A c \in DOMAIN rec : c # idxoff[p] => rec'[c] = rec[c]
    /\ idxoff[p] \in DOMAIN ptr => ~Member(idxoff[p])
    /\ \A c : Member(c)' <=> Member(c) /\ c # idxoff[p]
    /\ \A c : Stale(c)' <=> Stale(c) \/ c = idxoff[p]

Links(p) ==
    /\ DOMAIN ptr' = DOMAIN ptr /\ rec' = rec
    /\ \A c \in DOMAIN ptr : ptr'[c] = IF c = chainoff(p) THEN idxoff[p] ELSE ptr[c]
    /\ idxoff[p] \in DOMAIN rec /\ rec[idxoff[p]].key = call[p].key
    /\ Held(p, idxoff[p]) /\ ptr[idxoff[p]] = ptr[chainoff(p)]
    /\ chainoff(p) \in DOMAIN ptr /\ ~Stale(chainoff(p)) /\ chainoff(p) # idxoff[p]
    /\ \A c : Member(c)' <=> Member(c) \/ c = idxoff[p]
    /\ \A c : Stale(c)' <=> Stale(c) /\ c # idxoff[p]

Quiet(p) ==
    /\ ptr' = ptr /\ rec' = rec /\ idxsize' = idxsize /\ ~Deleting(p)
    /\ \A c : Member(c)' <=> Member(c)
    /\ \A c : Stale(c)' <=> Stale(c)

Changes(p) ==
    \/ DeleteBlankIdx(p) /\ Blanks(p)
    \/ DeleteLinkFree(p) /\ LinksFree(p)
    \/ DeleteUnlink(p) /\ Unlinks(p)
    \/ FreeTake(p) /\ Takes(p)
    \/ (ReuseIdx(p) \/ AppendIdx(p)) /\ Writes(p)
    \/ StoreLink(p) /\ Links(p)
    \/ Quiet(p)

\* A step of p moves no record another process holds or is deleting.
LEMMA OtherCritical ==
    ASSUME IndInv, NEW p \in Procs, Act(p), NEW q \in Procs, q # p, NEW c
    PROVE  /\ Held(q, c)' <=> Held(q, c)
           /\ (pc[q] = "del_free" /\ idxoff[q] = c)' <=> (pc[q] = "del_free" /\ idxoff[q] = c)
           /\ (pc[q] = "del_unlink" /\ ptroff[q] = c)' <=> (pc[q] = "del_unlink" /\ ptroff[q] = c)
  BY Zenon, OthersStep DEF Held

\* A step of p starts no deletion for another process, and disturbs none.
LEMMA OtherDeleting ==
    ASSUME IndInv, NEW p \in Procs, Act(p), NEW q \in Procs, q # p, Deleting(q)'
    PROVE  Deleting(q) /\ saveoff'[q] = saveoff[q] /\ ptroff'[q] = ptroff[q]
  BY Zenon, OthersStep DEF Deleting

\* Most steps change neither the index file nor which records are on lists.
LEMMA QuietStep ==
    ASSUME IndInv, NEW p \in Procs, Act(p), UNCHANGED idxfile,
           \/ pc[p] \notin Critical /\ pc'[p] \notin Critical
           \/ ReuseDat(p) \/ StoreLinkExit(p)
    PROVE  /\ Lists' /\ Frame(p) /\ Quiet(p)
           /\ \A o : Member(o)' <=> Member(o)
           /\ \A o, r : InUse(o, r)' <=> InUse(o, r)
           /\ \A o : Unreferenced(o)' <=> Unreferenced(o)
  <1>a. Lists /\ CallTypes /\ FieldTypes
    BY Zenon DEF IndInv, ListInv, TypeOK, Lists
  <1>b. ptr' = ptr /\ rec' = rec /\ idxsize' = idxsize
    BY Zenon DEF idxfile
  <1>1. \A c : c <= PTR_MAX => (Held(p, c)' <=> Held(p, c))
    <2>1. CASE ~StoreLinkExit(p)
      BY Zenon, <1>a, <2>1 DEF Held, Critical, ReuseDat, Goto, CallTypes
    <2>2. CASE StoreLinkExit(p)
      <3>1. /\ PTR_MAX \in Int /\ idxoff[p] \in Int /\ idxoff[p] > PTR_MAX
            /\ pc'[p] = "dead"
        BY <1>a, <2>2, DbAssumption DEF StoreLinkExit, Exit, CallTypes, FieldTypes
      <3> QED
        BY <3>1 DEF Held
    <2> QED
      BY Zenon, <2>1, <2>2
  <1>2. \A c : (pc[p] = "del_free" /\ idxoff[p] = c)' <=> (pc[p] = "del_free" /\ idxoff[p] = c)
    BY Zenon, <1>a DEF Critical, ReuseDat, StoreLinkExit, Exit, Goto, CallTypes
  <1>3. \A c : (pc[p] = "del_unlink" /\ ptroff[p] = c)' <=> (pc[p] = "del_unlink" /\ ptroff[p] = c)
    BY Zenon, <1>a DEF Critical, ReuseDat, StoreLinkExit, Exit, Goto, CallTypes
  <1>4. \A c : Member(c)' <=> Member(c)
    BY <1>1, OtherCritical DEF Member
  <1>5. \A c : Stale(c)' <=> Stale(c)
    BY <1>2, <1>3, <1>4, OtherCritical DEF Stale
  <1>6. \A c : Class(c)' = Class(c)
    BY Zenon, <1>b DEF Class
  <1>7. PtrInv' /\ OneReference'
    BY Zenon, <1>a, <1>b, <1>5 DEF Lists, PtrInv, OneReference
  <1>8. RefInv'
    <2> SUFFICES ASSUME NEW c \in DOMAIN ptr, ~Stale(c), ptr[c] # 0
                 PROVE  /\ Member(ptr[c])'
                        /\ \/ Class(ptr[c])' = Class(c)'
                           \/ \E q \in Procs : /\ pc'[q] = "del_free" /\ ptroff'[q] = c
                                               /\ idxoff'[q] = ptr[c]
      BY Zenon, <1>b, <1>5 DEF RefInv
    <2>1. /\ Member(ptr[c])
          /\ \/ Class(ptr[c]) = Class(c)
             \/ \E q \in Procs :
                    pc[q] = "del_free" /\ ptroff[q] = c /\ idxoff[q] = ptr[c]
      BY Zenon, <1>a DEF Lists, RefInv
    <2>2. ASSUME NEW q \in Procs, pc[q] = "del_free", ptroff[q] = c, idxoff[q] = ptr[c]
          PROVE  pc'[q] = "del_free" /\ ptroff'[q] = c /\ idxoff'[q] = ptr[c]
      <3>1. q # p
        BY Zenon, <2>2 DEF Critical, ReuseDat, StoreLinkExit, Goto
      <3> QED
        BY Zenon, <2>2, <3>1, OthersStep
    <2> QED
      BY Zenon, <1>b, <1>4, <1>6, <2>1, <2>2
  <1>9. Frame(p)
    BY Zenon, <1>b, <1>4, <1>5 DEF Frame, Unreferenced
  <1>10. /\ \A o, r : InUse(o, r)' <=> InUse(o, r)
         /\ \A o : Unreferenced(o)' <=> Unreferenced(o)
    BY Zenon, <1>b, <1>5, <1>6 DEF InUse, Unreferenced
  <1>11. Ordered(Nat)'
    <2>1. PICK rank \in [DOMAIN rec -> Nat] : Falls(rank)
      BY Zenon, <1>a DEF Lists, Ordered
    <2>2. Falls(rank)'
      <3>1. \A q \in Procs : Deleting(q)' =>
               Deleting(q) /\ saveoff'[q] = saveoff[q] /\ ptroff'[q] = ptroff[q]
        <4> SUFFICES ASSUME NEW q \in Procs, Deleting(q)'
                     PROVE  Deleting(q) /\ saveoff'[q] = saveoff[q] /\ ptroff'[q] = ptroff[q]
          BY Zenon
        <4>1. q # p
          BY Zenon, <1>a DEF Deleting, Critical, ReuseDat, StoreLinkExit, Exit, Goto, CallTypes
        <4> QED
          BY Zenon, <4>1, OthersStep DEF Deleting
      <3> QED
        BY Zenon, <1>b, <1>5, <2>1, <3>1 DEF Falls
    <2> QED
      BY Zenon, <1>b, <2>1, <2>2 DEF Ordered
  <1>12. Quiet(p)
    <2>1. ~Deleting(p)
      BY Zenon DEF Deleting, Critical, ReuseDat, StoreLinkExit, Goto
    <2> QED
      BY Zenon, <1>b, <1>4, <1>5, <2>1 DEF Quiet
  <1> QED
    BY Zenon, <1>4, <1>7, <1>8, <1>9, <1>10, <1>11, <1>12 DEF Lists

\* A write lock is held by one process only.
LEMMA Exclusive ==
    ASSUME IndInv, NEW r \in Regions, NEW p \in Procs, NEW q \in Procs, q # p,
           p \in wlock[r]
    PROVE  q \notin wlock[r] /\ q \notin rlock[r]
  BY DEF IndInv, ListInv, LockInv

\* A field in use of a chain whose deletions are excluded points into it.
LEMMA SameClass ==
    ASSUME IndInv, NEW c \in DOMAIN ptr, ~Stale(c), ptr[c] # 0,
           \A q \in Procs : pc[q] = "del_free" => ptroff[q] # c
    PROVE  /\ ptr[c] \in DOMAIN rec /\ Member(ptr[c]) /\ Class(ptr[c]) = Class(c)
           /\ \A d \in DOMAIN ptr : (~Stale(d) /\ ptr[d] = ptr[c]) => d = c
  BY Zenon DEF IndInv, ListInv, RefInv, PtrInv, OneReference

\* _db_dodelete writes the blanked index record, already pointing into the free
\* list: its chain field goes stale, the rest of the chain is held by saveptr.
LEMMA DeleteBlankIdxStep ==
    ASSUME IndInv, NEW p \in Procs, DeleteBlankIdx(p)
    PROVE  Lists' /\ Frame(p) /\ Blanks(p)
  <1> DEFINE i == idxoff[p]
  <1>a. /\ TypeOK /\ Lists /\ CallTypes /\ FieldTypes /\ FileTypes
        /\ pc[p] = "del_idx" /\ Act(p)
    BY Zenon DEF IndInv, ListInv, TypeOK, Lists, DeleteBlankIdx, Goto, Act, Step
  <1>b. /\ i \in DOMAIN rec /\ i \in DOMAIN ptr /\ i > NHASH /\ i \in Int
        /\ FREE_OFF \in DOMAIN ptr /\ FREE_OFF = 0 /\ NHASH \in Nat
    <2>1. /\ i \in DOMAIN rec /\ i \in DOMAIN ptr /\ FREE_OFF \in DOMAIN ptr /\ NHASH \in Nat
          /\ DOMAIN rec = (NHASH + 1) .. (idxsize - 1) /\ idxsize \in Int
      BY Zenon, <1>a, WriteOffsets, Domains
    <2> QED
      BY <2>1 DEF FREE_OFF
  <1>c. /\ InUse(i, chainoff(p)) /\ ptr[ptroff[p]] = i /\ InUse(ptroff[p], chainoff(p))
        /\ p \in wlock[chainoff(p)] /\ p \in wlock[FREE_OFF]
    <2>1. SearchInv(p) /\ Holds(p) /\ CallInv
      BY Zenon DEF IndInv, ListInv, ProcInv, HoldInv
    <2> QED
      BY Zenon, <1>a, <2>1 DEF SearchInv, Holds, CallInv, ChainLabels, DelLabels, FreeLabels
  <1>d. /\ DOMAIN ptr' = DOMAIN ptr /\ DOMAIN rec' = DOMAIN rec
        /\ \A c \in DOMAIN ptr : ptr'[c] = IF c = i THEN ptr[FREE_OFF] ELSE ptr[c]
        /\ \A c \in DOMAIN rec : c # i => rec'[c] = rec[c]
        /\ rec'[i].key = Blank
        /\ pc'[p] = "del_free" /\ idxoff' = idxoff /\ ptroff' = ptroff
    BY ZenonT(60), <1>a, <1>b DEF DeleteBlankIdx, Goto, db_writeidx, WriteAt, CallTypes
  <1>1. \A c : Member(c)' <=> Member(c)
    BY ZenonT(60), <1>a, <1>d, OtherCritical DEF Member, Held
  <1>2. \A c : Stale(c)' <=> (Stale(c) \/ c = i)
    BY <1>a, <1>d, <1>1, OtherCritical DEF Stale
  <1>3. \A c \in DOMAIN ptr : c # i => Class(c)' = Class(c)
    BY <1>a, <1>b, <1>d, Domains DEF Class
  <1>4. Class(i)' = FREE_OFF
    BY <1>b, <1>d DEF Class
  <1>5. PtrInv'
    BY ZenonT(60), <1>a, <1>b, <1>d DEF Lists, PtrInv
  <1>6. OneReference'
    BY <1>a, <1>d, <1>2 DEF Lists, OneReference
  <1>7. RefInv'
    <2> SUFFICES ASSUME NEW c \in DOMAIN ptr, ~Stale(c), c # i, ptr[c] # 0
                 PROVE  /\ Member(ptr[c])'
                        /\ \/ Class(ptr[c])' = Class(c)'
                           \/ \E q \in Procs : /\ pc'[q] = "del_free" /\ ptroff'[q] = c
                                               /\ idxoff'[q] = ptr[c]
      BY <1>d, <1>2 DEF RefInv
    <2>1. /\ Member(ptr[c]) /\ ptr[c] \in DOMAIN ptr
          /\ \/ Class(ptr[c]) = Class(c)
             \/ \E q \in Procs :
                    pc[q] = "del_free" /\ ptroff[q] = c /\ idxoff[q] = ptr[c]
      BY Zenon, <1>a, Domains DEF Lists, RefInv, PtrInv
    <2>2. CASE ptr[c] = i
      <3>1. c = ptroff[p]
        BY Zenon, <1>a, <1>b, <1>c, <2>2 DEF Lists, OneReference, InUse
      <3> QED
        BY Zenon, <1>1, <1>d, <2>1, <2>2, <3>1
    <2>3. ASSUME NEW q \in Procs, pc[q] = "del_free", ptroff[q] = c, idxoff[q] = ptr[c]
          PROVE  pc'[q] = "del_free" /\ ptroff'[q] = c /\ idxoff'[q] = ptr[c]
      <3>1. q # p
        BY Zenon, <1>a, <2>3
      <3> QED
        BY ZenonT(60), <1>a, <2>3, <3>1, OthersStep
    <2> QED
      BY <1>1, <1>3, <1>d, <2>1, <2>2, <2>3
  <1>8. Frame(p)
    <2>1. \A c \in DOMAIN ptr : (Member(c) /\ p \notin wlock[Class(c)]) => c # i
      BY Zenon, <1>c DEF InUse
    <2>2. \A q \in Procs : Held(q, i) => FALSE
      BY Zenon, <1>c DEF InUse, Stale, Member
    <2> QED
      BY ZenonT(60), <1>a, <1>d, <1>1, <1>2, <2>1, <2>2, Domains DEF Frame, Unreferenced
  <1>9. Ordered(Nat)'
    <2>1. PICK rank \in [DOMAIN rec -> Nat] : Falls(rank)
      BY Zenon, <1>a DEF Lists, Ordered
    <2>2. saveoff'[p] = ptr[i] /\ ptroff'[p] = ptroff[p]
      <3>1. SearchInv(p)
        BY Zenon DEF IndInv, ListInv, ProcInv
      <3> QED
        BY Zenon, <1>a, <1>d, <3>1 DEF DeleteBlankIdx, FieldTypes, SearchInv
    <2>3. (ptr[i] # 0 /\ ptroff[p] \in DOMAIN rec) => rank[ptr[i]] < rank[ptroff[p]]
      <3> SUFFICES ASSUME ptr[i] # 0, ptroff[p] \in DOMAIN rec
                   PROVE  rank[ptr[i]] < rank[ptroff[p]]
        BY Zenon
      <3>1. ptr[i] \in DOMAIN rec
        BY Zenon, <1>a, <1>b DEF Lists, PtrInv
      <3>2. rank[ptr[i]] < rank[i] /\ rank[i] < rank[ptroff[p]]
        BY <1>b, <1>c, <2>1 DEF Falls, InUse
      <3>3. rank[ptr[i]] \in Nat /\ rank[i] \in Nat /\ rank[ptroff[p]] \in Nat
        BY Zenon, <1>b, <3>1
      <3> QED
        BY <3>2, <3>3
    <2>4. Falls(rank)'
      <3>1. \A c \in DOMAIN rec : c # i => ptr'[c] = ptr[c]
        BY Zenon, <1>a, <1>d, Domains
      <3>2. \A c \in DOMAIN rec' :
               (~Stale(c)' /\ ptr'[c] # 0) => rank[ptr'[c]] < rank[c]
        BY ZenonT(60), <1>d, <1>2, <2>1, <3>1 DEF Falls
      <3>3. ASSUME NEW q \in Procs, Deleting(q)', saveoff'[q] # 0, ptroff'[q] \in DOMAIN rec'
            PROVE  rank[saveoff'[q]] < rank[ptroff'[q]]
        <4>1. CASE q = p
          BY ZenonT(60), <1>d, <2>2, <2>3, <3>3, <4>1
        <4>2. CASE q # p
          BY <1>a, <1>d, <2>1, <3>3, <4>2, OtherDeleting DEF Falls
        <4> QED
          BY Zenon, <4>1, <4>2
      <3> QED
        BY Zenon, <3>2, <3>3 DEF Falls
    <2> QED
      BY Zenon, <1>d, <2>1, <2>4 DEF Ordered
  <1>10. Blanks(p)
    BY Zenon, <1>b, <1>d, <1>1, <1>2 DEF Blanks
  <1> QED
    BY Zenon, <1>5, <1>6, <1>7, <1>8, <1>9, <1>10 DEF Lists

\* _db_dodelete makes the record the head of the free list; the chain field that
\* still points to it goes stale.
LEMMA DeleteLinkFreeStep ==
    ASSUME IndInv, NEW p \in Procs, DeleteLinkFree(p)
    PROVE  Lists' /\ Frame(p) /\ LinksFree(p)
  <1> DEFINE i == idxoff[p]
             t == ptroff[p]
  <1>a. /\ TypeOK /\ Lists /\ CallTypes /\ FieldTypes /\ FileTypes
        /\ pc[p] = "del_free" /\ Act(p)
    BY Zenon DEF IndInv, ListInv, TypeOK, Lists, DeleteLinkFree, Goto, Act, Step
  <1>b. /\ i \in DOMAIN rec /\ i \in DOMAIN ptr /\ i > NHASH /\ i \in Int
        /\ FREE_OFF \in DOMAIN ptr /\ FREE_OFF = 0 /\ NHASH \in Nat
    <2>1. /\ i \in DOMAIN rec /\ i \in DOMAIN ptr /\ FREE_OFF \in DOMAIN ptr /\ NHASH \in Nat
          /\ DOMAIN rec = (NHASH + 1) .. (idxsize - 1) /\ idxsize \in Int
      BY Zenon, <1>a, WriteOffsets, Domains
    <2> QED
      BY <2>1 DEF FREE_OFF
  <1>c. /\ InUse(t, chainoff(p)) /\ ptr[t] = i /\ chainoff(p) # FREE_OFF
        /\ p \in wlock[chainoff(p)] /\ p \in wlock[FREE_OFF]
        /\ Member(i) /\ rec[i].key = Blank /\ ptr[i] = ptr[FREE_OFF]
    <2>1. SearchInv(p) /\ DeleteInv(p) /\ Holds(p) /\ CallInv
      BY Zenon DEF IndInv, ListInv, ProcInv, HoldInv
    <2>2. chainoff(p) # FREE_OFF
      BY <1>a, ChainRegion DEF FREE_OFF, ChainLabels, DelLabels
    <2> QED
      BY Zenon, <1>a, <2>1, <2>2 DEF SearchInv, DeleteInv, Holds, CallInv, ChainLabels,
         DelLabels, FreeLabels
  <1>d. /\ DOMAIN ptr' = DOMAIN ptr /\ rec' = rec
        /\ \A c \in DOMAIN ptr : ptr'[c] = IF c = FREE_OFF THEN i ELSE ptr[c]
        /\ pc'[p] = "del_unlink" /\ idxoff' = idxoff /\ ptroff' = ptroff
        /\ saveoff' = saveoff
    BY Zenon, <1>a, <1>b DEF DeleteLinkFree, Goto, db_writeptr, WriteAt, CallTypes, private, current
  <1>e. \A q \in Procs : q # p => pc[q] \notin {"del_free", "del_unlink"}
    <2> SUFFICES ASSUME NEW q \in Procs, q # p, pc[q] \in {"del_free", "del_unlink"}
                 PROVE  FALSE
      BY Zenon
    <2>1. q \in wlock[FREE_OFF]
      BY Zenon DEF IndInv, ListInv, HoldInv, Holds, FreeLabels, DelLabels
    <2> QED
      BY Zenon, <1>c, <2>1, RegionRange, Exclusive
  <1>1. \A c : Member(c)' <=> Member(c)
    BY ZenonT(60), <1>a, <1>d, OtherCritical DEF Member, Held
  <1>2. /\ \A c : Stale(c) <=> ~Member(c) \/ c = i
        /\ \A c : Stale(c)' <=> ~Member(c) \/ c = t
    BY Zenon, <1>a, <1>d, <1>e, <1>1, OtherCritical DEF Stale
  <1>3. \A c : Class(c)' = Class(c)
    BY Zenon, <1>d DEF Class
  <1>4. Class(i) = FREE_OFF /\ Class(FREE_OFF) = FREE_OFF /\ t # FREE_OFF /\ t # i
    BY <1>b, <1>c DEF Class, InUse
  <1>5. Member(FREE_OFF) /\ ~Stale(FREE_OFF)
    <2>1. Member(FREE_OFF)
      <3>1. \A q \in Procs : ~Held(q, FREE_OFF)
        <4> SUFFICES ASSUME NEW q \in Procs, Held(q, FREE_OFF) PROVE FALSE
          BY Zenon
        <4>1. FREE_OFF \in DOMAIN rec
          BY Zenon DEF Held, IndInv, ListInv, ProcInv, StoreInv
        <4> QED
          BY <1>a, <1>b, <4>1, Domains
      <3> QED
        BY <1>a, <1>b, <3>1, Domains DEF Member
    <2> QED
      BY <1>b, <1>2, <2>1
  <1>6. PtrInv'
    <2>1. i <= PTR_MAX
      BY Zenon, <1>c DEF Member
    <2> QED
      BY ZenonT(60), <1>a, <1>b, <1>d, <2>1 DEF Lists, PtrInv
  <1>7. OneReference'
    <2> SUFFICES ASSUME NEW c1 \in DOMAIN ptr, NEW c2 \in DOMAIN ptr, c1 # c2,
                        Member(c1), c1 # t, Member(c2), c2 # t, ptr'[c1] # 0,
                        ptr'[c1] = ptr'[c2]
                 PROVE  FALSE
      BY Zenon, <1>d, <1>2 DEF OneReference
    <2>1. \A c \in DOMAIN ptr : (Member(c) /\ c # t /\ c # i /\ c # FREE_OFF)
               => ptr[c] # i /\ (ptr[c] # 0 => ptr[c] # ptr[FREE_OFF])
      BY ZenonT(60), <1>a, <1>b, <1>c, <1>2, <1>4, <1>5 DEF Lists, OneReference, InUse
    <2>2. ptr[i] # i
      <3>1. CASE ptr[FREE_OFF] = i
        BY <1>a, <1>b, <1>c, <1>4, <1>5, <3>1 DEF Lists, OneReference, InUse
      <3> QED
        BY Zenon, <1>c, <3>1
    <2>3. CASE c1 = FREE_OFF \/ c2 = FREE_OFF
      BY ZenonT(60), <1>b, <1>d, <2>1, <2>2, <2>3
    <2>4. CASE c1 # FREE_OFF /\ c2 # FREE_OFF /\ (c1 = i \/ c2 = i)
      BY ZenonT(60), <1>b, <1>c, <1>d, <2>1, <2>4
    <2>5. CASE c1 # FREE_OFF /\ c2 # FREE_OFF /\ c1 # i /\ c2 # i
      BY ZenonT(60), <1>a, <1>d, <1>2, <2>5 DEF Lists, OneReference
    <2> QED
      BY ZenonT(60), <2>3, <2>4, <2>5
  <1>8. RefInv'
    <2> SUFFICES ASSUME NEW c \in DOMAIN ptr, Member(c), c # t, ptr'[c] # 0
                 PROVE  Member(ptr'[c]) /\ Class(ptr'[c]) = Class(c)
      BY ZenonT(60), <1>d, <1>1, <1>2, <1>3 DEF RefInv
    <2>1. CASE c = FREE_OFF
      BY ZenonT(60), <1>b, <1>c, <1>d, <1>4, <2>1
    <2>2. CASE c = i
      <3>1. ptr'[c] = ptr[FREE_OFF] /\ ptr[FREE_OFF] # 0
        BY ZenonT(60), <1>b, <1>c, <1>d, <2>2
      <3>2. \A q \in Procs : pc[q] = "del_free" => ptroff[q] # FREE_OFF
        BY ZenonT(60), <1>4, <1>e
      <3> QED
        BY ZenonT(60), <1>b, <1>4, <1>5, <2>2, <3>1, <3>2, SameClass
    <2>3. CASE c # FREE_OFF /\ c # i
      <3>1. ptr'[c] = ptr[c] /\ ~Stale(c)
        BY ZenonT(60), <1>d, <1>2, <2>3
      <3>2. \A q \in Procs : pc[q] = "del_free" => ptroff[q] # c
        BY ZenonT(60), <1>e
      <3> QED
        BY ZenonT(60), <3>1, <3>2, SameClass
    <2> QED
      BY ZenonT(60), <2>1, <2>2, <2>3
  <1>9. Frame(p)
    <2>1. \A c \in DOMAIN ptr : (Member(c) /\ p \notin wlock[Class(c)]) =>
               c # FREE_OFF /\ c # t
      BY ZenonT(60), <1>c, <1>4 DEF InUse
    <2>2. \A q \in Procs, o \in DOMAIN rec : Held(q, o) => o # FREE_OFF
      BY <1>a, <1>b, Domains
    <2>3. ASSUME NEW o \in DOMAIN rec, Unreferenced(o) PROVE Unreferenced(o)'
      <3>1. o # i /\ o # ptr[FREE_OFF]
        BY Zenon, <1>b, <1>c, <1>5, <2>3 DEF Unreferenced, InUse
      <3> QED
        BY ZenonT(60), <1>b, <1>c, <1>d, <1>2, <2>3, <3>1 DEF Unreferenced
    <2> QED
      BY ZenonT(60), <1>a, <1>d, <1>1, <1>2, <2>1, <2>2, <2>3, Domains DEF Frame
  <1>10. Ordered(Nat)'
    <2>1. PICK rank \in [DOMAIN rec -> Nat] : Falls(rank)
      BY ZenonT(30), <1>a DEF Lists, Ordered
    <2> DEFINE n == IF ptr[FREE_OFF] = 0 THEN 0 ELSE rank[ptr[FREE_OFF]] + 1
    <2>a. n \in Nat /\ [rank EXCEPT ![i] = n] \in [DOMAIN rec -> Nat]
      BY <1>a, <1>b DEF Lists, PtrInv
    <2>2. PICK rank2 \in [DOMAIN rec -> Nat] : rank2 = [rank EXCEPT ![i] = n]
      BY Zenon, <2>a
    <2>3. ptr[FREE_OFF] # i
      BY <1>a, <1>b, <1>c, <1>4, <1>5 DEF Lists, OneReference, InUse
    <2>4. ASSUME NEW c \in DOMAIN rec, Member(c), c # t, ptr[c] # 0
          PROVE  rank2[ptr[c]] < rank2[c]
      <3>1. c \in DOMAIN ptr /\ ptr[c] \in DOMAIN rec
        BY ZenonT(60), <1>a, <2>4, Domains DEF Lists, PtrInv
      <3>2. CASE c = i
        <4>1. rank2[c] = rank[ptr[c]] + 1 /\ rank2[ptr[c]] = rank[ptr[c]]
          BY ZenonT(60), <1>b, <1>c, <2>2, <2>3, <2>4, <3>1, <3>2
        <4>2. rank[ptr[c]] \in Nat
          BY ZenonT(60), <3>1
        <4> QED
          BY <4>1, <4>2
      <3>3. CASE c # i
        <4>1. ptr[c] # i
          BY ZenonT(60), <1>a, <1>b, <1>c, <1>2, <2>4, <3>1, <3>3 DEF Lists, OneReference, InUse
        <4>2. rank[ptr[c]] < rank[c]
          BY ZenonT(60), <1>2, <2>1, <2>4, <3>3 DEF Falls
        <4> QED
          BY ZenonT(60), <2>2, <3>1, <3>3, <4>1, <4>2
      <3> QED
        BY ZenonT(60), <3>2, <3>3
    <2>5. (saveoff[p] # 0 /\ t \in DOMAIN rec) => rank2[saveoff[p]] < rank2[t]
      <3> SUFFICES ASSUME saveoff[p] # 0, t \in DOMAIN rec
                   PROVE  rank2[saveoff[p]] < rank2[t]
        BY ZenonT(60)
      <3>1. saveoff[p] \in DOMAIN rec /\ Class(saveoff[p]) = chainoff(p)
        BY ZenonT(60), <1>a DEF IndInv, ListInv, ProcInv, DeleteInv
      <3>2. rank[saveoff[p]] < rank[t]
        BY ZenonT(60), <1>a, <2>1 DEF Falls, Deleting
      <3> QED
        BY ZenonT(60), <1>b, <1>c, <1>4, <2>2, <3>1, <3>2
    <2>6. Falls(rank2)'
      <3>1. \A c \in DOMAIN rec : ptr'[c] = ptr[c]
        BY <1>a, <1>b, <1>d, Domains
      <3>2. \A q \in Procs : Deleting(q)' => q = p
        BY ZenonT(60), <1>e, <1>a, OtherDeleting DEF Deleting
      <3> QED
        BY ZenonT(60), <1>d, <1>2, <2>4, <2>5, <3>1, <3>2 DEF Falls
    <2> QED
      BY Zenon, <1>d, <2>2, <2>6 DEF Ordered
  <1>11. LinksFree(p)
    BY Zenon, <1>b, <1>c, <1>d, <1>1, <1>2, <1>4, <1>5 DEF LinksFree
  <1> QED
    BY Zenon, <1>6, <1>7, <1>8, <1>9, <1>10, <1>11 DEF Lists

\* The head of a list is a member of it, and in use while no process that
\* deletes has the list locked.
LEMMA Heads ==
    ASSUME IndInv, NEW h \in 0 .. NHASH
    PROVE  /\ h \in DOMAIN ptr /\ h \in Regions /\ h \notin DOMAIN rec
           /\ Member(h) /\ Class(h) = h
           /\ (\A q \in wlock[h] : h = FREE_OFF \/ ~Deleting(q)) =>
                 /\ InUse(h, h)
                 /\ \A q \in Procs : pc[q] = "del_free" => ptroff[q] # h
  <1>a. /\ TypeOK /\ PTR_MAX \in Nat /\ NHASH \in Nat /\ NHASH <= PTR_MAX /\ h \in Int
        /\ h <= NHASH
    BY DbAssumption DEF IndInv, ListInv
  <1>b. /\ Class(h) = h /\ h \notin DOMAIN rec /\ h <= PTR_MAX /\ h \in DOMAIN ptr
        /\ h \in Regions
    BY <1>a, Domains DEF Class, Regions, DAT_FILE, IDX_END
  <1>1. Member(h)
    BY ZenonT(60), <1>b DEF Member, Held, IndInv, ListInv, ProcInv, StoreInv
  <1>2. \A q \in Procs : pc[q] = "del_free" => idxoff[q] # h
    BY Zenon, <1>b DEF IndInv, ListInv, ProcInv, DeleteInv
  <1>3. ASSUME \A q \in wlock[h] : h = FREE_OFF \/ ~Deleting(q),
               NEW q \in Procs, pc[q] \in {"del_free", "del_unlink"}, ptroff[q] = h
        PROVE  FALSE
    <2>1. chainoff(q) = h
      BY ZenonT(60), <1>3, <1>b DEF IndInv, ListInv, ProcInv, SearchInv, DeleteInv, InUse
    <2>2. q \in wlock[chainoff(q)]
      BY ZenonT(60), <1>3 DEF IndInv, ListInv, HoldInv, Holds, CallInv, ChainLabels, DelLabels
    <2>3. chainoff(q) # FREE_OFF
      BY <1>3, ChainRegion DEF ChainLabels, DelLabels, FREE_OFF
    <2> QED
      BY ZenonT(60), <1>3, <2>1, <2>2, <2>3 DEF Deleting
  <1> QED
    BY ZenonT(60), <1>b, <1>1, <1>2, <1>3 DEF InUse, Stale

\* The free list lock keeps two deletions apart.
LEMMA OneDelete ==
    ASSUME IndInv, NEW p \in Procs, p \in wlock[FREE_OFF]
    PROVE  \A q \in Procs : q # p => pc[q] \notin {"del_free", "del_unlink"}
  <1> SUFFICES ASSUME NEW q \in Procs, q # p, pc[q] \in {"del_free", "del_unlink"}
               PROVE  FALSE
    BY Zenon
  <1>1. q \in wlock[FREE_OFF]
    BY ZenonT(60) DEF IndInv, ListInv, HoldInv, Holds, FreeLabels, DelLabels
  <1> QED
    BY ZenonT(60), <1>1, RegionRange, Exclusive

\* _db_dodelete relinks the chain past the record: saveptr is referenced again.
LEMMA DeleteUnlinkStep ==
    ASSUME IndInv, NEW p \in Procs, DeleteUnlink(p)
    PROVE  Lists' /\ Frame(p) /\ Unlinks(p)
  <1> DEFINE s == saveoff[p]
             t == ptroff[p]
  <1>a. /\ TypeOK /\ Lists /\ CallTypes /\ FieldTypes /\ FileTypes
        /\ pc[p] = "del_unlink" /\ Act(p)
    BY Zenon DEF IndInv, ListInv, TypeOK, Lists, DeleteUnlink, Act, Step
  <1>c. /\ t \in DOMAIN ptr /\ Member(t) /\ Class(t) = chainoff(p)
        /\ p \in wlock[chainoff(p)] /\ p \in wlock[FREE_OFF]
        /\ s # 0 => /\ s \in DOMAIN rec /\ Member(s) /\ Class(s) = chainoff(p)
                    /\ Unreferenced(s)
    <2>1. DeleteInv(p) /\ Holds(p) /\ CallInv
      BY Zenon DEF IndInv, ListInv, ProcInv, HoldInv
    <2> QED
      BY ZenonT(60), <1>a, <2>1 DEF DeleteInv, Holds, CallInv, ChainLabels, DelLabels, FreeLabels
  <1>d. /\ DOMAIN ptr' = DOMAIN ptr /\ rec' = rec
        /\ \A c \in DOMAIN ptr : ptr'[c] = IF c = t THEN s ELSE ptr[c]
        /\ pc'[p] \in {"done", "reread"}
    BY ZenonT(60), <1>a, <1>c DEF DeleteUnlink, Return, db_writeptr, WriteAt, CallTypes
  <1>e. \A q \in Procs : q # p => pc[q] \notin {"del_free", "del_unlink"}
    BY Zenon, <1>c, OneDelete
  <1>1. \A c : Member(c)' <=> Member(c)
    BY <1>a, <1>d, OtherCritical DEF Member, Held
  <1>2. /\ \A c : Stale(c) <=> ~Member(c) \/ c = t
        /\ \A c : Stale(c)' <=> ~Member(c)
    BY Zenon, <1>a, <1>d, <1>e, <1>1, OtherCritical DEF Stale
  <1>3. \A c : Class(c)' = Class(c)
    BY Zenon, <1>d DEF Class
  <1>6. PtrInv'
    <2>1. s # 0 => s <= PTR_MAX
      BY Zenon, <1>c DEF Member
    <2> QED
      BY Zenon, <1>a, <1>c, <1>d, <2>1 DEF Lists, PtrInv
  <1>7. OneReference'
    <2> SUFFICES ASSUME NEW c1 \in DOMAIN ptr, NEW c2 \in DOMAIN ptr, c1 # c2,
                        Member(c1), Member(c2), ptr'[c1] # 0, ptr'[c1] = ptr'[c2]
                 PROVE  FALSE
      BY ZenonT(60), <1>d, <1>2 DEF OneReference
    <2>1. CASE c1 = t \/ c2 = t
      BY ZenonT(60), <1>c, <1>d, <1>2, <2>1 DEF Unreferenced
    <2>2. CASE c1 # t /\ c2 # t
      BY ZenonT(60), <1>a, <1>d, <1>2, <2>2 DEF Lists, OneReference
    <2> QED
      BY ZenonT(60), <2>1, <2>2
  <1>8. RefInv'
    <2> SUFFICES ASSUME NEW c \in DOMAIN ptr, Member(c), ptr'[c] # 0
                 PROVE  Member(ptr'[c]) /\ Class(ptr'[c]) = Class(c)
      BY Zenon, <1>d, <1>1, <1>2, <1>3 DEF RefInv
    <2>1. CASE c = t
      BY ZenonT(60), <1>c, <1>d, <2>1
    <2>2. CASE c # t
      <3>1. ptr'[c] = ptr[c] /\ ~Stale(c)
        BY ZenonT(60), <1>d, <1>2, <2>2
      <3>2. \A q \in Procs : pc[q] = "del_free" => ptroff[q] # c
        BY ZenonT(60), <1>a, <1>e
      <3> QED
        BY ZenonT(60), <3>1, <3>2, SameClass
    <2> QED
      BY Zenon, <2>1, <2>2
  <1>9. Frame(p)
    <2>1. \A c \in DOMAIN ptr : (Member(c) /\ p \notin wlock[Class(c)]) => c # t
      BY Zenon, <1>c
    <2>2. \A q \in Procs, o \in DOMAIN rec : Held(q, o) => o # t
      BY Zenon, <1>c DEF Member
    <2>3. ASSUME NEW o \in DOMAIN rec, Unreferenced(o), o # s PROVE Unreferenced(o)'
      BY Zenon, <1>d, <1>2, <2>3 DEF Unreferenced
    <2> QED
      BY ZenonT(60), <1>a, <1>d, <1>1, <1>2, <2>1, <2>2, <2>3, Domains DEF Frame
  <1>10. Ordered(Nat)'
    <2>1. PICK rank \in [DOMAIN rec -> Nat] : Falls(rank)
      BY Zenon, <1>a DEF Lists, Ordered
    <2>2. \A q \in Procs : ~Deleting(q)'
      BY Zenon, <1>a, <1>d, <1>e, OtherDeleting DEF Deleting
    <2>3. \A c \in DOMAIN rec' : (~Stale(c)' /\ ptr'[c] # 0) => rank[ptr'[c]] < rank[c]
      BY Zenon, <1>a, <1>d, <1>2, <2>1, Domains DEF Falls, Deleting
    <2>4. Falls(rank)'
      BY Zenon, <2>2, <2>3 DEF Falls
    <2> QED
      BY Zenon, <1>d, <2>1, <2>4 DEF Ordered
  <1>11. Unlinks(p)
    BY Zenon, <1>c, <1>d, <1>e, <1>1, <1>2 DEF Unlinks, Deleting
  <1> QED
    BY Zenon, <1>6, <1>7, <1>8, <1>9, <1>10, <1>11 DEF Lists

\* _db_findfree takes a record off the free list: nothing points to it any more
\* and it is held by the storing process.
LEMMA FreeTakeStep ==
    ASSUME IndInv, NEW p \in Procs, FreeTake(p)
    PROVE  /\ Lists' /\ Frame(p) /\ Takes(p)
           /\ offset[p] \in DOMAIN rec /\ Member(offset[p])
           /\ \A c \in DOMAIN ptr' : ~Stale(c)' => ptr'[c] # offset[p]
           /\ ptr'[chainoff(p)] = ptr[chainoff(p)]
  <1> DEFINE o == offset[p]
             s == saveoff[p]
  <1>a. /\ TypeOK /\ Lists /\ CallTypes /\ FieldTypes /\ FileTypes
        /\ pc[p] = "free_walk" /\ Act(p)
    BY Zenon DEF IndInv, ListInv, TypeOK, Lists, FreeTake, Goto, Act, Step
  <1>b. o \in DOMAIN rec /\ o \in DOMAIN ptr /\ o # 0
    BY Zenon, <1>a, WalkRecord, Domains DEF FreeTake
  <1>c. InUse(s, FREE_OFF) /\ ptr[s] = o /\ p \in wlock[FREE_OFF]
    <2>1. StoreInv(p) /\ Holds(p)
      BY Zenon DEF IndInv, ListInv, ProcInv, HoldInv
    <2> QED
      BY Zenon, <1>a, <2>1 DEF StoreInv, Holds, FreeLabels
  <1>d. /\ DOMAIN ptr' = DOMAIN ptr /\ rec' = rec
        /\ \A c \in DOMAIN ptr : ptr'[c] = IF c = s THEN ptr[o] ELSE ptr[c]
        /\ pc'[p] = "reuse_dat" /\ idxoff'[p] = o
    <2>1. s \in DOMAIN ptr
      BY Zenon, <1>c DEF InUse
    <2>2. ptr' = WriteAt(ptr, s, ptr[o]) /\ UNCHANGED rec
      BY Zenon DEF FreeTake, db_writeptr
    <2>3. pc'[p] = "reuse_dat" /\ idxoff'[p] = o
      BY Zenon, <1>a DEF FreeTake, Goto, CallTypes, FieldTypes
    <2> QED
      BY Zenon, <2>1, <2>2, <2>3 DEF WriteAt
  <1>e. \A q \in Procs : pc[q] \notin {"del_free", "del_unlink"}
    BY Zenon, <1>a, <1>c, OneDelete
  <1>1. \A c : Member(c)' <=> Member(c) /\ c # o
    BY <1>a, <1>d, OtherCritical DEF Member, Held
  <1>2. /\ \A c : Stale(c) <=> ~Member(c)
        /\ \A c : Stale(c)' <=> ~Member(c) \/ c = o
    BY ZenonT(60), <1>a, <1>d, <1>e, <1>1, OtherCritical DEF Stale
  <1>3. \A c : Class(c)' = Class(c)
    BY Zenon, <1>d DEF Class
  <1>4. /\ Member(o) /\ Class(o) = FREE_OFF
        /\ \A c \in DOMAIN ptr : (Member(c) /\ c # s) => ptr[c] # o
    BY Zenon, <1>b, <1>c, <1>e, <1>2, SameClass DEF InUse
  <1>6. PtrInv'
    BY Zenon, <1>a, <1>b, <1>d DEF Lists, PtrInv
  <1>7. OneReference'
    <2> SUFFICES ASSUME NEW c1 \in DOMAIN ptr, NEW c2 \in DOMAIN ptr, c1 # c2,
                        Member(c1), c1 # o, Member(c2), c2 # o, ptr'[c1] # 0,
                        ptr'[c1] = ptr'[c2]
                 PROVE  FALSE
      BY Zenon, <1>d, <1>2 DEF OneReference
    <2> QED
      BY <1>a, <1>b, <1>d, <1>2, <1>4 DEF Lists, OneReference
  <1>8. RefInv'
    <2> SUFFICES ASSUME NEW c \in DOMAIN ptr, Member(c), c # o, ptr'[c] # 0
                 PROVE  Member(ptr'[c]) /\ ptr'[c] # o /\ Class(ptr'[c]) = Class(c)
      BY Zenon, <1>d, <1>1, <1>2, <1>3 DEF RefInv
    <2>1. CASE c = s
      <3>1. ptr'[c] = ptr[o] /\ ptr[o] # o
        BY Zenon, <1>b, <1>d, <1>4, <2>1
      <3> QED
        BY Zenon, <1>b, <1>c, <1>e, <1>2, <1>4, <2>1, <3>1, SameClass DEF InUse
    <2>2. CASE c # s
      <3>1. ptr'[c] = ptr[c] /\ ptr[c] # o
        BY Zenon, <1>d, <1>4, <2>2
      <3> QED
        BY Zenon, <1>e, <1>2, <3>1, SameClass
    <2> QED
      BY Zenon, <2>1, <2>2
  <1>9. Frame(p)
    <2>1. \A c \in DOMAIN ptr : (Member(c) /\ p \notin wlock[Class(c)]) =>
               c # s /\ c # o
      BY Zenon, <1>c, <1>4 DEF InUse
    <2>2. \A q \in Procs, x \in DOMAIN rec : Held(q, x) => x # s
      BY Zenon, <1>c, <1>2 DEF Member, InUse
    <2>3. ASSUME NEW x \in DOMAIN rec, Unreferenced(x) PROVE Unreferenced(x)'
      BY Zenon, <1>b, <1>d, <1>2, <1>4, <2>3 DEF Unreferenced
    <2> QED
      BY Zenon, <1>a, <1>d, <1>1, <1>2, <2>1, <2>2, <2>3, Domains DEF Frame
  <1>10. Ordered(Nat)'
    <2>1. PICK rank \in [DOMAIN rec -> Nat] : Falls(rank)
      BY Zenon, <1>a DEF Lists, Ordered
    <2>2. \A q \in Procs : ~Deleting(q)'
      BY Zenon, <1>a, <1>d, <1>e, OtherDeleting DEF Deleting
    <2>3. ASSUME NEW c \in DOMAIN rec, Member(c), c # o, ptr'[c] # 0
          PROVE  rank[ptr'[c]] < rank[c]
      <3>1. CASE c = s
        <4>1. ptr'[c] = ptr[o] /\ ptr[o] \in DOMAIN rec
          BY Zenon, <1>a, <1>b, <1>d, <2>3, <3>1, Domains DEF Lists, PtrInv
        <4>2. rank[ptr[o]] < rank[o] /\ rank[o] < rank[s]
          BY Zenon, <1>b, <1>c, <1>2, <1>4, <2>1, <2>3, <3>1, <4>1 DEF Falls
        <4>3. rank[ptr[o]] \in Nat /\ rank[o] \in Nat /\ rank[s] \in Nat
          BY Zenon, <1>b, <2>3, <3>1, <4>1
        <4> QED
          BY <3>1, <4>1, <4>2, <4>3
      <3>2. CASE c # s
        BY Zenon, <1>a, <1>d, <1>2, <2>1, <2>3, <3>2, Domains DEF Falls
      <3> QED
        BY Zenon, <3>1, <3>2
    <2>4. Falls(rank)'
      BY Zenon, <1>d, <1>2, <2>2, <2>3 DEF Falls
    <2> QED
      BY Zenon, <1>d, <2>1, <2>4 DEF Ordered
  <1>11. \A c \in DOMAIN ptr' : ~Stale(c)' => ptr'[c] # o
    BY Zenon, <1>b, <1>d, <1>2, <1>4
  <1>12. ptr'[chainoff(p)] = ptr[chainoff(p)]
    <2>1. chainoff(p) \in 0 .. NHASH /\ chainoff(p) # FREE_OFF
      BY <1>a, ChainRegion, DbAssumption DEF ChainLabels, NewLabels, FREE_OFF
    <2>2. chainoff(p) \in DOMAIN ptr /\ Class(chainoff(p)) = chainoff(p)
      BY Zenon, <2>1, Heads
    <2> QED
      BY Zenon, <1>c, <1>d, <2>1, <2>2 DEF InUse
  <1>13. rec[o].key = Blank
    <2>1. o > NHASH /\ o \in Int /\ NHASH \in Nat
      BY <1>a, <1>b, Domains
    <2>2. rec[o].key # Blank => rec[o].key \in Keys
      BY Zenon, <1>a, <1>b, Domains DEF FileTypes, Record, FirstRec
    <2> QED
      BY <1>4, <2>1, <2>2, RegionRange DEF Class
  <1>14. Takes(p)
    BY Zenon, <1>b, <1>c, <1>d, <1>1, <1>2, <1>13 DEF Takes
  <1> QED
    BY Zenon, <1>b, <1>4, <1>6, <1>7, <1>8, <1>9, <1>10, <1>11, <1>12, <1>14 DEF Lists

\* A record that is on no list is written.
LEMMA NewRecordStep ==
    ASSUME IndInv, NEW p \in Procs, ReuseIdx(p) \/ AppendIdx(p)
    PROVE  Lists' /\ Frame(p) /\ Writes(p)
  <1> DEFINE i == idxoff[p]
  <1>a. /\ TypeOK /\ Lists /\ CallTypes /\ FieldTypes /\ FileTypes
        /\ pc[p] \in {"reuse_idx", "app_idxw"} /\ Act(p)
    BY Zenon DEF IndInv, ListInv, TypeOK, Lists, ReuseIdx, AppendIdx, Goto, Act, Step
  <1>b. /\ StoreInv(p) /\ i \in Int
        /\ chainoff(p) \in DOMAIN ptr /\ newptr[p] = ptr[chainoff(p)]
    BY Zenon, <1>a, ChainRegion DEF IndInv, ListInv, ProcInv, StoreInv, ChainLabels, NewLabels, FieldTypes
  <1>c. /\ i \notin DOMAIN ptr \/ Held(p, i)
        /\ i \in DOMAIN rec \/ i \notin DOMAIN ptr
        /\ \A q \in Procs : q # p => ~Held(q, i)
    <2>1. CASE pc[p] = "reuse_idx"
      BY Zenon, <1>b, <2>1 DEF Held, StoreInv
    <2>2. CASE pc[p] = "app_idxw"
      <3>1. i \notin DOMAIN ptr
        BY <1>a, <1>b, <2>2, Domains DEF StoreInv
      <3>2. ASSUME NEW q \in Procs, Held(q, i) PROVE FALSE
        <4>1. i \in DOMAIN rec
          BY Zenon, <3>2 DEF Held, IndInv, ListInv, ProcInv, StoreInv
        <4> QED
          BY Zenon, <1>a, <3>1, <4>1, Domains
      <3> QED
        BY Zenon, <1>a, <3>1, <3>2, Domains
    <2> QED
      BY Zenon, <1>a, <2>1, <2>2
  <1>d. /\ DOMAIN ptr' = DOMAIN ptr \cup {i} /\ DOMAIN rec' = DOMAIN rec \cup {i}
        /\ \A c \in DOMAIN ptr : c # i => ptr'[c] = ptr[c]
        /\ \A c \in DOMAIN rec : c # i => rec'[c] = rec[c]
        /\ ptr'[i] = newptr[p]
        /\ pc'[p] = "link" /\ idxoff' = idxoff
    <2>1. ptr' = WriteAt(ptr, i, newptr[p]) /\ idxoff' = idxoff
      BY Zenon DEF ReuseIdx, AppendIdx, db_writeidx, private, current
    <2>2. PICK r : rec' = WriteAt(rec, i, r)
      BY Zenon DEF ReuseIdx, AppendIdx, db_writeidx
    <2>3. pc'[p] = "link"
      BY Zenon, <1>a DEF ReuseIdx, AppendIdx, Goto, CallTypes
    <2> QED
      BY Zenon, <2>1, <2>2, <2>3 DEF WriteAt
  <1>1. \A c : Member(c)' <=> Member(c) /\ c # i
    BY <1>a, <1>c, <1>d, OtherCritical DEF Member, Held
  <1>2. \A c : Stale(c)' <=> Stale(c) \/ c = i
    BY <1>a, <1>d, <1>1, OtherCritical DEF Stale
  <1>3. \A c \in DOMAIN ptr : Member(c) => c # i
    BY Zenon, <1>c DEF Member
  <1>4. \A c \in DOMAIN ptr : c # i => Class(c)' = Class(c)
    BY <1>a, <1>d, Domains DEF Class
  <1>6. PtrInv'
    BY Zenon, <1>a, <1>b, <1>d DEF Lists, PtrInv
  <1>7. OneReference'
    BY ZenonT(60), <1>a, <1>d, <1>2 DEF Lists, OneReference
  <1>8. RefInv'
    <2> SUFFICES ASSUME NEW c \in DOMAIN ptr, c # i, ~Stale(c), ptr[c] # 0
                 PROVE  /\ Member(ptr[c])'
                        /\ \/ Class(ptr[c])' = Class(c)'
                           \/ \E q \in Procs : /\ pc'[q] = "del_free" /\ ptroff'[q] = c
                                               /\ idxoff'[q] = ptr[c]
      BY <1>d, <1>2 DEF RefInv
    <2>1. /\ Member(ptr[c]) /\ ptr[c] \in DOMAIN ptr /\ ptr[c] # i /\ ptr'[c] = ptr[c]
          /\ \/ Class(ptr[c]) = Class(c)
             \/ \E q \in Procs :
                    pc[q] = "del_free" /\ ptroff[q] = c /\ idxoff[q] = ptr[c]
      BY Zenon, <1>a, <1>d, <1>3, Domains DEF Lists, RefInv, PtrInv
    <2>2. ASSUME NEW q \in Procs, pc[q] = "del_free", ptroff[q] = c, idxoff[q] = ptr[c]
          PROVE  pc'[q] = "del_free" /\ ptroff'[q] = c /\ idxoff'[q] = ptr[c]
      <3>1. q # p
        BY Zenon, <1>a, <2>2
      <3> QED
        BY Zenon, <1>a, <2>2, <3>1, OthersStep
    <2> QED
      BY Zenon, <1>1, <1>4, <2>1, <2>2
  <1>9. Frame(p)
    <2>1. ASSUME NEW o \in DOMAIN rec, Unreferenced(o) PROVE Unreferenced(o)'
      BY Zenon, <1>d, <1>2, <2>1 DEF Unreferenced
    <2> QED
      BY Zenon, <1>a, <1>c, <1>d, <1>1, <1>2, <1>3, <2>1, Domains DEF Frame
  <1>10. Ordered(Nat)'
    <2>1. PICK rank \in [DOMAIN rec -> Nat] : Falls(rank)
      BY Zenon, <1>a DEF Lists, Ordered
    <2>2. PICK rank2 \in [DOMAIN rec \cup {i} -> Nat] : \A c \in DOMAIN rec : rank2[c] = rank[c]
      <3>1. [c \in DOMAIN rec \cup {i} |-> IF c \in DOMAIN rec THEN rank[c] ELSE 0]
                \in [DOMAIN rec \cup {i} -> Nat]
        BY Zenon
      <3> QED
        BY Zenon, <3>1
    <2>3. ASSUME NEW c \in DOMAIN rec', ~Stale(c)', ptr'[c] # 0
          PROVE  rank2[ptr'[c]] < rank2[c]
      <3>1. /\ c # i /\ c \in DOMAIN rec /\ c \in DOMAIN ptr /\ ~Stale(c)
            /\ ptr'[c] = ptr[c] /\ ptr[c] # 0
        BY Zenon, <1>a, <1>d, <1>2, <2>3, Domains
      <3>2. ptr[c] \in DOMAIN rec
        BY Zenon, <1>a, <3>1 DEF Lists, PtrInv
      <3> QED
        BY Zenon, <2>1, <2>2, <3>1, <3>2 DEF Falls
    <2>4. ASSUME NEW q \in Procs, Deleting(q)', saveoff'[q] # 0, ptroff'[q] \in DOMAIN rec'
          PROVE  rank2[saveoff'[q]] < rank2[ptroff'[q]]
      <3>1. q # p
        BY Zenon, <1>d, <2>4 DEF Deleting
      <3>2. Deleting(q) /\ saveoff'[q] = saveoff[q] /\ ptroff'[q] = ptroff[q]
        BY Zenon, <1>a, <2>4, <3>1, OtherDeleting
      <3>3. SearchInv(q) /\ DeleteInv(q)
        BY Zenon DEF IndInv, ListInv, ProcInv
      <3>4. saveoff[q] \in DOMAIN rec /\ ptroff[q] \in DOMAIN ptr
        BY Zenon, <2>4, <3>2, <3>3 DEF SearchInv, DeleteInv, InUse, Deleting
      <3>5. ptroff[q] \in DOMAIN rec
        BY Zenon, <1>c, <1>d, <2>4, <3>2, <3>4
      <3> QED
        BY Zenon, <2>1, <2>2, <2>4, <3>2, <3>4, <3>5 DEF Falls
    <2>5. Falls(rank2)'
      BY Zenon, <2>3, <2>4 DEF Falls
    <2> QED
      BY Zenon, <1>d, <2>2, <2>5 DEF Ordered
  <1>11. Writes(p)
    BY Zenon, <1>d, <1>1, <1>2, <1>3 DEF Writes
  <1> QED
    BY Zenon, <1>6, <1>7, <1>8, <1>9, <1>10, <1>11 DEF Lists

\* A process with the write lock on its chain may rely on the chain's head.
LEMMA OwnHead ==
    ASSUME IndInv, NEW p \in Procs, pc[p] \in ChainLabels, p \in wlock[chainoff(p)],
           ~Deleting(p)
    PROVE  /\ InUse(chainoff(p), chainoff(p))
           /\ \A q \in Procs : pc[q] = "del_free" => ptroff[q] # chainoff(p)
  <1>1. chainoff(p) \in 0 .. NHASH /\ chainoff(p) \in Regions
    BY ChainRegion
  <1>2. \A q \in wlock[chainoff(p)] : q = p
    BY <1>1 DEF IndInv, ListInv, LockInv
  <1> QED
    BY Zenon, <1>1, <1>2, Heads

\* db_store makes the record the head of its chain: from held to on a list.
LEMMA StoreLinkStep ==
    ASSUME IndInv, NEW p \in Procs, StoreLink(p)
    PROVE  Lists' /\ Frame(p) /\ Links(p)
  <1> DEFINE i == idxoff[p]
             h == chainoff(p)
  <1>a. /\ TypeOK /\ Lists /\ CallTypes /\ FieldTypes /\ FileTypes
        /\ pc[p] = "link" /\ Act(p) /\ i <= PTR_MAX
    BY Zenon DEF IndInv, ListInv, TypeOK, Lists, StoreLink, Act, Step
  <1>b. /\ i \in DOMAIN rec /\ i \in DOMAIN ptr /\ Unreferenced(i) /\ Held(p, i)
        /\ \A q \in Procs : Held(q, i) => q = p
        /\ ptr[i] = ptr[h] /\ rec[i].key = call[p].key
    <2>1. StoreInv(p)
      BY Zenon DEF IndInv, ListInv, ProcInv
    <2> QED
      BY Zenon, <1>a, <2>1, Domains DEF StoreInv, Held, NewLabels
  <1>c. /\ p \in wlock[h] /\ call[p].key \in Keys /\ h \in DOMAIN ptr /\ h \notin DOMAIN rec
    <2>1. Holds(p) /\ CallInv
      BY Zenon DEF IndInv, ListInv, HoldInv
    <2> QED
      BY <1>a, <2>1, ChainRegion, Domains DEF Holds, CallInv, ChainLabels, NewLabels
  <1>d. /\ DOMAIN ptr' = DOMAIN ptr /\ rec' = rec
        /\ \A c \in DOMAIN ptr : ptr'[c] = IF c = h THEN i ELSE ptr[c]
        /\ pc'[p] = "done"
    BY ZenonT(60), <1>a, <1>c DEF StoreLink, Return, db_writeptr, WriteAt, CallTypes
  <1>e. /\ ~Stale(h) /\ Class(h) = h /\ h # i
        /\ \A q \in Procs : pc[q] = "del_free" => ptroff[q] # h
    BY Zenon, <1>a, <1>b, <1>c, OwnHead DEF InUse, ChainLabels, NewLabels, Deleting
  <1>1. \A c : Member(c)' <=> Member(c) \/ c = i
    <2>1. \A q \in Procs : \A c : q # p => (Held(q, c)' <=> Held(q, c))
      BY Zenon, <1>a, OtherCritical
    <2>2. \A c : ~Held(p, c)' /\ (Held(p, c) <=> c = i)
      BY Zenon, <1>b, <1>d DEF Held
    <2> QED
      BY ZenonT(60), <1>a, <1>b, <2>1, <2>2 DEF Member
  <1>2. \A c : Stale(c)' <=> Stale(c) /\ c # i
    <2>1. \A q \in Procs : /\ pc[q] = "del_free" => idxoff[q] # i
                           /\ pc[q] = "del_unlink" => ptroff[q] # i
      BY Zenon, <1>b DEF Member, IndInv, ListInv, ProcInv, DeleteInv
    <2>2. ASSUME NEW q \in Procs, q # p, NEW c
          PROVE  /\ (pc'[q] = "del_free" /\ idxoff'[q] = c)
                        <=> (pc[q] = "del_free" /\ idxoff[q] = c)
                 /\ (pc'[q] = "del_unlink" /\ ptroff'[q] = c)
                        <=> (pc[q] = "del_unlink" /\ ptroff[q] = c)
      BY <1>a, <2>2, OtherCritical
    <2>3. {pc[p], pc'[p]} \cap {"del_free", "del_unlink"} = {}
      BY Zenon, <1>a, <1>d
    <2> QED
      BY ZenonT(60), <1>1, <2>1, <2>2, <2>3 DEF Stale
  <1>3. \A c : Class(c)' = Class(c)
    BY Zenon, <1>d DEF Class
  <1>4. Class(i) = h
    <2>1. i > NHASH /\ i \in Int /\ NHASH \in Nat
      BY <1>a, <1>b, Domains
    <2>2. rec[i].key # Blank
      BY Zenon, <1>b, <1>c, BlankAssumption
    <2> QED
      BY <1>b, <2>1, <2>2 DEF Class, chainoff
  <1>6. PtrInv'
    BY Zenon, <1>a, <1>b, <1>d DEF Lists, PtrInv
  <1>7. OneReference'
    <2> SUFFICES ASSUME NEW c1 \in DOMAIN ptr, NEW c2 \in DOMAIN ptr, c1 # c2,
                        ~Stale(c1) \/ c1 = i, ~Stale(c2) \/ c2 = i, ptr'[c1] # 0,
                        ptr'[c1] = ptr'[c2]
                 PROVE  FALSE
      BY Zenon, <1>d, <1>2 DEF OneReference
    <2>1. \A c \in DOMAIN ptr : (~Stale(c) \/ c = i) => ptr[c] # i
      BY Zenon, <1>b, <1>c, <1>e DEF Unreferenced
    <2>2. \A c \in DOMAIN ptr : (~Stale(c) /\ c # h /\ ptr[c] # 0) => ptr[c] # ptr[h]
      BY Zenon, <1>a, <1>c, <1>e DEF Lists, OneReference
    <2>3. CASE c1 = h \/ c2 = h
      BY <1>d, <2>1, <2>3
    <2>4. CASE c1 # h /\ c2 # h /\ (c1 = i \/ c2 = i)
      BY Zenon, <1>b, <1>d, <2>2, <2>4
    <2>5. CASE c1 # h /\ c2 # h /\ c1 # i /\ c2 # i
      BY Zenon, <1>a, <1>d, <2>5 DEF Lists, OneReference
    <2> QED
      BY Zenon, <2>3, <2>4, <2>5
  <1>8. RefInv'
    <2> SUFFICES ASSUME NEW c \in DOMAIN ptr, ~Stale(c) \/ c = i, ptr'[c] # 0
                 PROVE  /\ Member(ptr'[c]) \/ ptr'[c] = i
                        /\ \/ Class(ptr'[c]) = Class(c)
                           \/ \E q \in Procs : /\ pc'[q] = "del_free" /\ ptroff'[q] = c
                                               /\ idxoff'[q] = ptr'[c]
      BY Zenon, <1>d, <1>1, <1>2, <1>3 DEF RefInv
    <2>1. CASE c = h
      BY Zenon, <1>c, <1>d, <1>e, <1>4, <2>1
    <2>2. CASE c = i
      <3>1. ptr'[c] = ptr[h] /\ ptr[h] # 0
        BY Zenon, <1>b, <1>d, <1>e, <2>2
      <3>2. Member(ptr[h]) /\ Class(ptr[h]) = Class(h)
        BY Zenon, <1>c, <1>e, <3>1, SameClass
      <3> QED
        BY Zenon, <1>e, <1>4, <2>2, <3>1, <3>2
    <2>3. CASE c # h /\ c # i
      <3>1. /\ Member(ptr[c]) /\ ptr'[c] = ptr[c]
            /\ \/ Class(ptr[c]) = Class(c)
               \/ \E q \in Procs :
                      pc[q] = "del_free" /\ ptroff[q] = c /\ idxoff[q] = ptr[c]
        BY Zenon, <1>a, <1>d, <2>3 DEF Lists, RefInv
      <3>2. ASSUME NEW q \in Procs, pc[q] = "del_free", ptroff[q] = c, idxoff[q] = ptr[c]
            PROVE  pc'[q] = "del_free" /\ ptroff'[q] = c /\ idxoff'[q] = ptr[c]
        <4>1. q # p
          BY Zenon, <1>a, <3>2
        <4> QED
          BY Zenon, <1>a, <3>2, <4>1, OthersStep
      <3> QED
        BY Zenon, <3>1, <3>2
    <2> QED
      BY Zenon, <2>1, <2>2, <2>3
  <1>9. Frame(p)
    <2>1. \A c \in DOMAIN ptr : (Member(c) /\ p \notin wlock[Class(c)]) => c # h
      BY Zenon, <1>c, <1>e
    <2>2. ASSUME NEW o \in DOMAIN rec, Unreferenced(o), o # i PROVE Unreferenced(o)'
      BY Zenon, <1>b, <1>c, <1>d, <1>e, <1>2, <2>2 DEF Unreferenced
    <2> QED
      BY Zenon, <1>a, <1>c, <1>d, <1>1, <1>2, <2>1, <2>2, Domains DEF Frame
  <1>10. Ordered(Nat)'
    <2>1. PICK rank \in [DOMAIN rec -> Nat] : Falls(rank)
      BY Zenon, <1>a DEF Lists, Ordered
    <2> DEFINE n == IF ptr[i] = 0 THEN 0 ELSE rank[ptr[i]] + 1
    <2>a. n \in Nat /\ [rank EXCEPT ![i] = n] \in [DOMAIN rec -> Nat]
      BY <1>a, <1>b DEF Lists, PtrInv
    <2>2. PICK rank2 \in [DOMAIN rec -> Nat] : rank2 = [rank EXCEPT ![i] = n]
      BY Zenon, <2>a
    <2>3. ASSUME NEW c \in DOMAIN rec, ~Stale(c) \/ c = i, ptr'[c] # 0
          PROVE  rank2[ptr'[c]] < rank2[c]
      <3>1. c # h /\ c \in DOMAIN ptr /\ ptr'[c] = ptr[c] /\ ptr[c] \in DOMAIN rec
        BY Zenon, <1>a, <1>c, <1>d, <2>3, Domains DEF Lists, PtrInv
      <3>2. ptr[c] # i
        BY Zenon, <1>b, <1>c, <1>e, <2>3, <3>1 DEF Unreferenced
      <3>3. CASE c = i
        <4>1. rank2[c] = rank[ptr[c]] + 1 /\ rank2[ptr[c]] = rank[ptr[c]]
          BY Zenon, <1>b, <2>2, <2>3, <3>1, <3>2, <3>3
        <4>2. rank[ptr[c]] \in Nat
          BY Zenon, <3>1
        <4> QED
          BY <3>1, <4>1, <4>2
      <3>4. CASE c # i
        <4>1. rank[ptr[c]] < rank[c]
          BY Zenon, <2>1, <2>3, <3>1, <3>4 DEF Falls
        <4> QED
          BY Zenon, <2>2, <3>1, <3>2, <3>4, <4>1
      <3> QED
        BY Zenon, <3>3, <3>4
    <2>4. ASSUME NEW q \in Procs, Deleting(q)', saveoff'[q] # 0, ptroff'[q] \in DOMAIN rec
          PROVE  rank2[saveoff'[q]] < rank2[ptroff'[q]]
      <3>1. q # p
        BY Zenon, <1>d, <2>4 DEF Deleting
      <3>2. Deleting(q) /\ saveoff'[q] = saveoff[q] /\ ptroff'[q] = ptroff[q]
        BY Zenon, <1>a, <2>4, <3>1, OtherDeleting
      <3>3. SearchInv(q) /\ DeleteInv(q)
        BY Zenon DEF IndInv, ListInv, ProcInv
      <3>4. saveoff[q] \in DOMAIN rec /\ Member(saveoff[q]) /\ Member(ptroff[q])
        BY Zenon, <2>4, <3>2, <3>3 DEF SearchInv, DeleteInv, InUse, Deleting, Stale
      <3>5. saveoff[q] # i /\ ptroff[q] # i
        BY Zenon, <1>b, <3>4 DEF Member
      <3>6. rank[saveoff[q]] < rank[ptroff[q]]
        BY Zenon, <2>1, <2>4, <3>2 DEF Falls
      <3> QED
        BY Zenon, <2>2, <2>4, <3>2, <3>4, <3>5, <3>6
    <2>5. Falls(rank2)'
      BY Zenon, <1>d, <1>2, <2>3, <2>4 DEF Falls
    <2> QED
      BY Zenon, <1>d, <2>2, <2>5 DEF Ordered
  <1>11. Links(p)
    BY Zenon, <1>b, <1>c, <1>d, <1>e, <1>1, <1>2 DEF Links
  <1> QED
    BY Zenon, <1>6, <1>7, <1>8, <1>9, <1>10, <1>11 DEF Lists

\* Every step keeps the lists apart and free of cycles, and changes them in one of
\* a few ways.
LEMMA ListsStep ==
    ASSUME IndInv, NEW p \in Procs, Act(p)
    PROVE  Lists' /\ Frame(p) /\ Changes(p)
  <1>1. CASE DeleteBlankIdx(p) \/ DeleteLinkFree(p) \/ DeleteUnlink(p) \/ FreeTake(p)
             \/ ReuseIdx(p) \/ AppendIdx(p) \/ StoreLink(p)
    BY Zenon, <1>1, DeleteBlankIdxStep, DeleteLinkFreeStep, DeleteUnlinkStep, FreeTakeStep,
       NewRecordStep, StoreLinkStep DEF Changes
  <1>2. CASE ReuseDat(p) \/ StoreLinkExit(p)
    <2>1. UNCHANGED idxfile
      BY Zenon, <1>2 DEF ReuseDat, StoreLinkExit, Exit
    <2> QED
      BY Zenon, <1>2, <2>1, QuietStep DEF Changes
  <1>3. CASE Invoke(p) \/ db_rewind(p) \/ Finish(p) \/ FindLock(p) \/ FindNext(p)
             \/ FindMatch(p) \/ FindEnd(p) \/ db_fetch(p) \/ NotFound(p)
             \/ InsertExists(p) \/ DeleteBlankDat(p)
    <2>1. UNCHANGED idxfile
      BY Zenon, <1>3 DEF Invoke, db_rewind, Finish, FindLock, FindNext, FindMatch, FindEnd,
         db_fetch, NotFound, InsertExists, DeleteBlankDat
    <2>2. CallTypes
      BY Zenon DEF IndInv, ListInv, TypeOK
    <2>3. pc[p] \notin Critical /\ pc'[p] \notin Critical
      BY ZenonT(60), <1>3, <2>2 DEF Invoke, db_rewind, Finish, FindLock, FindNext, FindMatch, FindEnd,
         db_fetch, NotFound, InsertExists, DeleteBlankDat, Goto, Return, CallTypes, Critical
    <2> QED
      BY Zenon, <2>1, <2>3, QuietStep DEF Changes
  <1>4. CASE StoreReread(p) \/ StoreNew(p) \/ FreeLock(p) \/ FreeNext(p) \/ FreeNone(p)
             \/ AppendSeekDat(p) \/ AppendDat(p) \/ AppendSeekIdx(p) \/ StoreOverwrite(p)
             \/ NextLock(p) \/ NextTorn(p) \/ NextEOF(p) \/ NextRead(p) \/ NextDat(p)
    <2>1. UNCHANGED idxfile
      BY Zenon, <1>4 DEF StoreReread, StoreNew, FreeLock, FreeNext, FreeNone, AppendSeekDat,
         AppendDat, AppendSeekIdx, StoreOverwrite, NextLock, NextTorn, Exit, NextEOF,
         NextRead, NextDat
    <2>2. CallTypes
      BY Zenon DEF IndInv, ListInv, TypeOK
    <2>3. pc[p] \notin Critical /\ pc'[p] \notin Critical
      BY ZenonT(60), <1>4, <2>2 DEF StoreReread, StoreNew, FreeLock, FreeNext, FreeNone, AppendSeekDat,
         AppendDat, AppendSeekIdx, StoreOverwrite, NextLock, NextTorn, Exit, NextEOF,
         NextRead, NextDat, Goto, Return, CallTypes, Critical
    <2> QED
      BY Zenon, <2>1, <2>3, QuietStep DEF Changes
  <1> QED
    BY Zenon, <1>1, <1>2, <1>3, <1>4 DEF Act, Step
=============================================================================
