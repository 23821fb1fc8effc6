------------------------------ MODULE DbProofs ------------------------------
(***************************************************************************)
(* Second part of the proof that IndInv is an invariant, for any number of *)
(* processes, keys, data strings, hash chains and any size of the index    *)
(* that a chain ptr can address, and what it establishes about db.c.       *)
(***************************************************************************)
EXTENDS DbListProofs

-----------------------------------------------------------------------------
(* Data: how a step changes the records' data.                             *)

\* What a step of p leaves alone: where the data of a record is, how long it
\* is, and the data nothing of p's names.
DataFrame(p) ==
    /\ \A o \in DOMAIN rec : /\ o \in DOMAIN rec'
                             /\ rec'[o].datoff = rec[o].datoff
                             /\ rec'[o].datlen = rec[o].datlen
                             /\ rec'[o].key # rec[o].key =>
                                   o = idxoff[p] /\ pc[p] \in {"del_idx", "reuse_idx"}
    /\ \A d \in DOMAIN dat : /\ d \in DOMAIN dat'
                             /\ dat'[d].len = dat[d].len
                             /\ dat'[d].val # dat[d].val =>
                                   d = datoff[p] /\ pc[p] \in {"found", "reuse_dat"}
    /\ idxsize' # idxsize => pc[p] = "app_idxw"
    /\ datsize' # datsize => pc[p] = "app_datw"
    /\ \A o \in DOMAIN rec' : o \notin DOMAIN rec =>
          /\ pc[p] = "app_idxw" /\ o = idxoff[p]
          /\ rec'[o].datoff = datoff[p] /\ rec'[o].datlen = datlen[p]

\* Every step of p satisfies DataFrame(p).
LEMMA DataFrameStep ==
    ASSUME IndInv, NEW p \in Procs, Act(p)
    PROVE  DataFrame(p)
  <1>a. /\ TypeOK /\ FileTypes /\ FieldTypes /\ DataInv(p) /\ DataExclusive /\ StoreInv(p)
        /\ SearchInv(p)
    BY Zenon DEF IndInv, ListInv, TypeOK, ProcInv
  <1>1. CASE DeleteBlankIdx(p) \/ ReuseIdx(p) \/ AppendIdx(p)
    <2>1. pc[p] \in {"del_idx", "reuse_idx", "app_idxw"} /\ UNCHANGED datfile
      BY Zenon, <1>1 DEF DeleteBlankIdx, ReuseIdx, AppendIdx, Goto
    <2>2. PICK r : /\ rec' = WriteAt(rec, idxoff[p], r)
                   /\ r.datoff = datoff[p] /\ r.datlen = datlen[p]
                   /\ idxsize' = SizeAfter(idxsize, idxoff[p])
      BY <1>1 DEF DeleteBlankIdx, ReuseIdx, AppendIdx, db_writeidx
    <2>3. CASE pc[p] = "app_idxw"
      <3>1. idxoff[p] = idxsize /\ idxsize \notin DOMAIN rec
        BY <1>a, <2>3, Domains DEF StoreInv
      <3> QED
        BY Zenon, <2>1, <2>2, <2>3, <3>1 DEF DataFrame, WriteAt, datfile
    <2>4. CASE pc[p] \in {"del_idx", "reuse_idx"}
      <3>1. /\ idxoff[p] \in DOMAIN rec /\ datoff[p] = rec[idxoff[p]].datoff
            /\ datlen[p] = rec[idxoff[p]].datlen
        BY Zenon, <1>a, <2>4 DEF DataInv
      <3>2. idxsize' = idxsize
        BY <1>a, <2>2, <3>1, Domains DEF SizeAfter
      <3> QED
        BY Zenon, <2>1, <2>2, <2>4, <3>1, <3>2 DEF DataFrame, WriteAt, datfile
    <2> QED
      BY Zenon, <2>1, <2>3, <2>4
  <1>2. CASE DeleteBlankDat(p) \/ ReuseDat(p) \/ AppendDat(p) \/ StoreOverwrite(p)
    <2>1. UNCHANGED idxfile /\ pc[p] \in {"found", "reuse_dat", "app_datw"}
      BY Zenon, <1>2 DEF DeleteBlankDat, ReuseDat, AppendDat, StoreOverwrite, Goto
    <2>2. PICK v : /\ dat' = WriteAt(dat, datoff[p], v)
                   /\ datsize' = SizeAfter(datsize, datoff[p])
                   /\ v.len = datlen[p]
      <3>1. CASE ReuseDat(p)
        <4>1. datlen[p] = DatLen[call[p].data]
          BY Zenon, <1>a, <3>1 DEF ReuseDat, Goto, DataInv
        <4> QED
          BY <3>1, <4>1 DEF ReuseDat, db_writedat
      <3>2. CASE DeleteBlankDat(p) \/ AppendDat(p) \/ StoreOverwrite(p)
        BY <3>2 DEF DeleteBlankDat, AppendDat, StoreOverwrite, db_writedat
      <3> QED
        BY Zenon, <1>2, <3>1, <3>2
    <2>3. CASE pc[p] = "app_datw"
      <3>1. datoff[p] = datsize /\ datsize \notin DOMAIN dat
        BY <1>a, <2>3, Domains DEF DataInv
      <3> QED
        BY Zenon, <2>1, <2>2, <2>3, <3>1 DEF DataFrame, WriteAt, idxfile
    <2>4. CASE pc[p] \in {"found", "reuse_dat"}
      <3>1. datoff[p] \in DOMAIN dat /\ dat[datoff[p]].len = datlen[p]
        BY Zenon, <1>a, <2>4 DEF DataInv, DataExclusive
      <3>2. datsize' = datsize
        BY <1>a, <2>2, <3>1, Domains DEF SizeAfter
      <3> QED
        BY Zenon, <2>1, <2>2, <2>4, <3>1, <3>2 DEF DataFrame, WriteAt, idxfile
    <2> QED
      BY Zenon, <2>1, <2>3, <2>4
  <1>3. CASE Invoke(p) \/ db_rewind(p) \/ Finish(p) \/ FindLock(p) \/ FindNext(p)
             \/ FindMatch(p) \/ FindEnd(p) \/ db_fetch(p) \/ NotFound(p)
             \/ InsertExists(p) \/ StoreReread(p) \/ StoreNew(p) \/ FreeLock(p)
             \/ FreeNext(p) \/ FreeNone(p) \/ AppendSeekDat(p) \/ AppendSeekIdx(p)
             \/ StoreLinkExit(p) \/ NextLock(p) \/ NextTorn(p) \/ NextEOF(p)
             \/ NextRead(p) \/ NextDat(p) \/ DeleteLinkFree(p) \/ DeleteUnlink(p)
             \/ FreeTake(p) \/ StoreLink(p)
    <2>1. UNCHANGED <<rec, idxsize, dat, datsize>>
      BY Zenon, <1>3 DEF Invoke, db_rewind, Finish, FindLock, FindNext, FindMatch, FindEnd,
            db_fetch, NotFound, InsertExists, StoreReread, StoreNew, FreeLock, FreeNext,
            FreeNone, AppendSeekDat, AppendSeekIdx, StoreLinkExit, Exit, NextLock,
            NextTorn, NextEOF, NextRead, NextDat, idxfile, datfile, DeleteLinkFree,
            DeleteUnlink, FreeTake, StoreLink, db_writeptr
    <2> QED
      BY Zenon, <2>1 DEF DataFrame
  <1> QED
    BY Zenon, <1>1, <1>2, <1>3 DEF Act, Step

\* Every step leaves index records with data records of their own.
LEMMA DataExclusiveStep ==
    ASSUME IndInv, NEW p \in Procs, Act(p)
    PROVE  DataExclusive'
  <1>a. DataExclusive /\ DataFrame(p) /\ DataInv(p)
    BY Zenon, DataFrameStep DEF IndInv, ListInv, ProcInv
  <1> SUFFICES ASSUME NEW o1 \in DOMAIN rec'
               PROVE  /\ rec'[o1].datoff \in DOMAIN dat'
                      /\ dat'[rec'[o1].datoff].len = rec'[o1].datlen
                      /\ \A o2 \in DOMAIN rec' : rec'[o1].datoff = rec'[o2].datoff => o1 = o2
    BY Zenon DEF DataExclusive
  <1>1. CASE o1 \in DOMAIN rec
    BY <1>a, <1>1 DEF DataExclusive, DataFrame, DataInv
  <1>2. CASE o1 \notin DOMAIN rec
    BY <1>a, <1>2 DEF DataExclusive, DataFrame, DataInv
  <1> QED
    BY Zenon, <1>1, <1>2

-----------------------------------------------------------------------------
(* A step of p keeps what the other processes rely on.                     *)

\* A step of p leaves alone every listed record whose list p has not write-locked.
LEMMA Kept ==
    ASSUME IndInv, NEW p \in Procs, Act(p), NEW o \in DOMAIN ptr, Member(o),
           p \notin wlock[Class(o)]
    PROVE  /\ o \in DOMAIN ptr' /\ ptr'[o] = ptr[o]
           /\ o \in DOMAIN rec => o \in DOMAIN rec' /\ rec'[o] = rec[o]
           /\ Member(o)' /\ Class(o)' = Class(o)
           /\ ~Stale(o) => ~Stale(o)'
  <1>1. Frame(p) /\ TypeOK
    BY Zenon, ListsStep DEF IndInv, ListInv
  <1>2. o <= NHASH \/ o \in DOMAIN rec
    BY <1>1, Domains
  <1>3. o \in DOMAIN rec => rec'[o] = rec[o]
    BY Zenon, <1>1 DEF Frame
  <1>4. Class(o)' = Class(o)
    BY Zenon, <1>2, <1>3 DEF Class
  <1> QED
    BY Zenon, <1>1, <1>4 DEF Frame

\* The locks of q keep p out.
LEMMA LockedOut ==
    ASSUME IndInv, NEW p \in Procs, NEW q \in Procs, q # p
    PROVE  /\ pc[q] \in ChainLabels => p \notin wlock[chainoff(q)]
           /\ pc[q] \in FreeLabels \cup {"next", "next_dat"} =>
                 p \notin wlock[FREE_OFF] /\ pc[p] \notin FreeLabels
           /\ ~(pc[q] = "app_datw" /\ pc[p] = "app_datw")
           /\ ~(pc[q] = "app_idxw" /\ pc[p] = "app_idxw")
  <1>a. Holds(p) /\ Holds(q) /\ LockInv
    BY Zenon DEF IndInv, ListInv, HoldInv
  <1>b. FREE_OFF \in Regions /\ DAT_FILE \in Regions /\ IDX_END \in Regions
    BY Zenon, RegionRange
  <1>1. pc[q] \in ChainLabels => p \notin wlock[chainoff(q)]
    BY <1>a, ChainRegion DEF Holds, LockInv
  <1>2. pc[q] \in FreeLabels \cup {"next", "next_dat"} =>
            p \notin wlock[FREE_OFF] /\ pc[p] \notin FreeLabels
    BY <1>a, <1>b DEF Holds, LockInv
  <1>3. /\ ~(pc[q] = "app_datw" /\ pc[p] = "app_datw")
        /\ ~(pc[q] = "app_idxw" /\ pc[p] = "app_idxw")
    BY <1>a, <1>b DEF Holds, LockInv
  <1> QED
    BY Zenon, <1>1, <1>2, <1>3

\* A step of p keeps what a search, or a record found, of another process says.
LEMMA OthersSearch ==
    ASSUME IndInv, NEW p \in Procs, Act(p), NEW q \in Procs, q # p
    PROVE  SearchInv(q)'
  <1>a. SearchInv(q) /\ DataFrame(p)
    BY Zenon, DataFrameStep DEF IndInv, ListInv, ProcInv
  <1>b. /\ pc'[q] = pc[q] /\ idxoff'[q] = idxoff[q] /\ ptroff'[q] = ptroff[q]
        /\ offset'[q] = offset[q] /\ ptrval'[q] = ptrval[q]
        /\ chainoff(q)' = chainoff(q)
    BY Zenon, OthersStep DEF chainoff
  <1>1. CASE pc[q] \notin {"search", "found", "del_idx", "del_free"}
    BY Zenon, <1>1, <1>b DEF SearchInv
  <1>2. CASE pc[q] \in {"search", "found", "del_idx", "del_free"}
    <2>1. p \notin wlock[chainoff(q)]
      BY Zenon, <1>2, LockedOut DEF ChainLabels, DelLabels
    <2>2. \A o : InUse(o, chainoff(q)) =>
              /\ InUse(o, chainoff(q))' /\ ptr'[o] = ptr[o]
              /\ o \in DOMAIN rec => o \in DOMAIN rec' /\ rec'[o] = rec[o]
      BY <1>b, <2>1, Kept DEF InUse, Stale
    <2> QED
      BY <1>a, <1>b, <1>2, <2>2 DEF SearchInv, DataFrame
  <1> QED
    BY Zenon, <1>1, <1>2

\* A step of p keeps what a deletion under way of another process says.
LEMMA OthersDelete ==
    ASSUME IndInv, NEW p \in Procs, Act(p), NEW q \in Procs, q # p
    PROVE  DeleteInv(q)'
  <1>a. DeleteInv(q) /\ TypeOK /\ Frame(p)
    BY Zenon, ListsStep DEF IndInv, ListInv, ProcInv
  <1>b. /\ pc'[q] = pc[q] /\ idxoff'[q] = idxoff[q] /\ ptroff'[q] = ptroff[q]
        /\ saveoff'[q] = saveoff[q] /\ chainoff(q)' = chainoff(q)
    BY ZenonT(60), OthersStep DEF chainoff
  <1>1. CASE pc[q] \notin {"del_free", "del_unlink"}
    BY Zenon, <1>1, <1>b DEF DeleteInv
  <1>2. CASE pc[q] \in {"del_free", "del_unlink"}
    <2>1. /\ p \notin wlock[chainoff(q)] /\ p \notin wlock[FREE_OFF]
          /\ pc[p] # "del_unlink"
      BY Zenon, <1>2, LockedOut DEF ChainLabels, DelLabels, FreeLabels
    <2>2. /\ idxoff[q] \in DOMAIN rec' /\ Member(idxoff[q])' /\ rec'[idxoff[q]].key = Blank
          /\ ptr'[idxoff[q]] = ptr[idxoff[q]]
      <3>1. /\ idxoff[q] \in DOMAIN rec /\ idxoff[q] \in DOMAIN ptr
            /\ Member(idxoff[q]) /\ rec[idxoff[q]].key = Blank
        BY ZenonT(60), <1>a, <1>2, Domains DEF DeleteInv
      <3>2. Class(idxoff[q]) = FREE_OFF
        <4>1. idxoff[q] > NHASH /\ idxoff[q] \in Int /\ NHASH \in Nat
          BY <1>a, <3>1, Domains
        <4> QED
          BY <3>1, <4>1 DEF Class
      <3> QED
        BY ZenonT(60), <1>b, <2>1, <3>1, <3>2, Kept
    <2>3. saveoff[q] # 0 => /\ saveoff[q] \in DOMAIN rec' /\ Member(saveoff[q])'
                            /\ Class(saveoff[q])' = chainoff(q)
                            /\ Unreferenced(saveoff[q])'
      <3> SUFFICES ASSUME saveoff[q] # 0
                   PROVE  /\ saveoff[q] \in DOMAIN rec' /\ Member(saveoff[q])'
                          /\ Class(saveoff[q])' = chainoff(q)
                          /\ Unreferenced(saveoff[q])'
        BY Zenon
      <3>1. /\ saveoff[q] \in DOMAIN rec /\ saveoff[q] \in DOMAIN ptr
            /\ Member(saveoff[q]) /\ Class(saveoff[q]) = chainoff(q)
            /\ Unreferenced(saveoff[q])
        BY ZenonT(60), <1>a, <1>2, Domains DEF DeleteInv
      <3>2. pc[p] = "link" => saveoff[q] # idxoff[p]
        BY Zenon, <3>1 DEF Member, Held
      <3>3. Unreferenced(saveoff[q])'
        BY ZenonT(60), <1>a, <1>b, <2>1, <3>1, <3>2 DEF Frame
      <3> QED
        BY ZenonT(60), <1>b, <2>1, <3>1, <3>3, Kept
    <2>4. pc[q] = "del_unlink" => /\ ptroff[q] \in DOMAIN ptr' /\ Member(ptroff[q])'
                                  /\ Class(ptroff[q])' = chainoff(q)
      BY ZenonT(60), <1>a, <1>b, <2>1, Kept DEF DeleteInv
    <2>5. ptr'[FREE_OFF] = ptr[FREE_OFF]
      <3>1. FREE_OFF \in 0 .. NHASH
        BY DbAssumption DEF FREE_OFF
      <3> QED
        BY Zenon, <2>1, <3>1, Heads, Kept
    <2> QED
      BY ZenonT(60), <1>a, <1>b, <1>2, <2>2, <2>3, <2>4, <2>5 DEF DeleteInv
  <1> QED
    BY Zenon, <1>1, <1>2

\* p can only come to hold a record that was on a list, or a new one.
LEMMA NewHolder ==
    ASSUME IndInv, NEW p \in Procs, Act(p), NEW o \in DOMAIN rec, Held(p, o)', ~Held(p, o)
    PROVE  Member(o)
  <1>a. TypeOK /\ CallTypes /\ FieldTypes
    BY Zenon DEF IndInv, ListInv, TypeOK
  <1>1. CASE FreeTake(p)
    <2>1. pc[p] = "free_walk" /\ offset[p] # 0 /\ o = offset[p]
      BY ZenonT(60), <1>a, <1>1 DEF FreeTake, Goto, Held, FieldTypes
    <2>2. InUse(saveoff[p], FREE_OFF) /\ ptr[saveoff[p]] = offset[p]
      BY ZenonT(60), <2>1 DEF IndInv, ListInv, ProcInv, StoreInv
    <2> QED
      BY Zenon, <2>1, <2>2 DEF IndInv, ListInv, RefInv, InUse
  <1>2. CASE AppendIdx(p)
    <2>1. idxoff'[p] = idxoff[p] /\ idxoff[p] = idxsize
      BY Zenon, <1>2 DEF AppendIdx, Goto, private, current, IndInv, ListInv, ProcInv, StoreInv
    <2> QED
      BY <1>a, <2>1, Domains DEF Held
  <1>3. CASE ReuseDat(p) \/ ReuseIdx(p)
    BY ZenonT(60), <1>3 DEF ReuseDat, ReuseIdx, Goto, Held
  <1>4. CASE Invoke(p) \/ db_rewind(p) \/ Finish(p) \/ FindLock(p) \/ FindNext(p)
             \/ FindMatch(p) \/ FindEnd(p) \/ db_fetch(p) \/ NotFound(p)
             \/ InsertExists(p) \/ DeleteBlankDat(p) \/ DeleteBlankIdx(p)
             \/ DeleteLinkFree(p) \/ DeleteUnlink(p)
    BY Zenon, <1>a, <1>4 DEF Invoke, db_rewind, Finish, FindLock, FindNext, FindMatch, FindEnd,
         db_fetch, NotFound, InsertExists, DeleteBlankDat, DeleteBlankIdx,
         DeleteLinkFree, DeleteUnlink, Goto, Return, CallTypes, Held
  <1>5. CASE StoreReread(p) \/ StoreNew(p) \/ FreeLock(p) \/ FreeNext(p) \/ FreeNone(p)
             \/ AppendSeekDat(p) \/ AppendDat(p) \/ AppendSeekIdx(p) \/ StoreOverwrite(p)
             \/ NextLock(p) \/ NextTorn(p) \/ NextEOF(p) \/ NextRead(p) \/ NextDat(p)
             \/ StoreLink(p) \/ StoreLinkExit(p)
    BY ZenonT(60), <1>a, <1>5 DEF StoreReread, StoreNew, FreeLock, FreeNext, FreeNone, AppendSeekDat,
         AppendDat, AppendSeekIdx, StoreOverwrite, NextLock, NextTorn, Exit, NextEOF,
         NextRead, NextDat, StoreLink, StoreLinkExit, Goto, Return, CallTypes, Held
  <1> QED
    BY Zenon, <1>1, <1>2, <1>3, <1>4, <1>5 DEF Act, Step

\* A step of p keeps what a store under way of another process says.
LEMMA OthersStore ==
    ASSUME IndInv, NEW p \in Procs, Act(p), NEW q \in Procs, q # p
    PROVE  StoreInv(q)'
  <1>a. StoreInv(q) /\ TypeOK /\ Frame(p) /\ DataFrame(p)
    BY ZenonT(60), ListsStep, DataFrameStep DEF IndInv, ListInv, ProcInv
  <1>b. /\ pc'[q] = pc[q] /\ idxoff'[q] = idxoff[q] /\ newptr'[q] = newptr[q]
        /\ offset'[q] = offset[q] /\ saveoff'[q] = saveoff[q] /\ call'[q] = call[q]
        /\ chainoff(q)' = chainoff(q)
    BY ZenonT(60), OthersStep DEF chainoff
  <1>1. pc[q] \in NewLabels => newptr[q] = ptr'[chainoff(q)]
    <2> SUFFICES ASSUME pc[q] \in NewLabels
                 PROVE  ptr'[chainoff(q)] = ptr[chainoff(q)]
      BY Zenon, <1>a DEF StoreInv
    <2>1. p \notin wlock[chainoff(q)] /\ chainoff(q) \in 0 .. NHASH
      BY LockedOut, ChainRegion DEF ChainLabels
    <2> QED
      BY Zenon, <2>1, Heads, Kept
  <1>2. pc[q] = "free_walk" => InUse(saveoff[q], FREE_OFF)' /\ ptr'[saveoff[q]] = offset[q]
    <2> SUFFICES ASSUME pc[q] = "free_walk"
                 PROVE  InUse(saveoff[q], FREE_OFF)' /\ ptr'[saveoff[q]] = offset[q]
      BY Zenon
    <2>1. p \notin wlock[FREE_OFF]
      BY Zenon, LockedOut DEF FreeLabels
    <2>2. InUse(saveoff[q], FREE_OFF) /\ ptr[saveoff[q]] = offset[q]
      BY Zenon, <1>a DEF StoreInv
    <2>3. Member(saveoff[q])
      BY ZenonT(60), <2>2 DEF InUse, Stale
    <2> QED
      BY Zenon, <1>b, <2>1, <2>2, <2>3, Kept DEF InUse, FREE_OFF
  <1>3. pc[q] \in {"reuse_dat", "reuse_idx", "link"} =>
          /\ idxoff[q] \in DOMAIN rec' /\ Unreferenced(idxoff[q])'
          /\ \A r \in Procs : Held(r, idxoff[q])' => r = q
    <2> SUFFICES ASSUME pc[q] \in {"reuse_dat", "reuse_idx", "link"}
                 PROVE  /\ idxoff[q] \in DOMAIN rec' /\ Unreferenced(idxoff[q])'
                        /\ \A r \in Procs : Held(r, idxoff[q])' => r = q
      BY Zenon
    <2>1. /\ idxoff[q] \in DOMAIN rec /\ Unreferenced(idxoff[q]) /\ Held(q, idxoff[q])
          /\ \A r \in Procs : Held(r, idxoff[q]) => r = q
      BY ZenonT(60), <1>a DEF StoreInv, Held
    <2>2. pc[p] = "link" => idxoff[q] # idxoff[p]
      BY ZenonT(60), <2>1 DEF Held
    <2>3. pc[p] = "del_unlink" => idxoff[q] # saveoff[p]
      <3>1. idxoff[q] # 0
        BY <1>a, <2>1, Domains
      <3>2. pc[p] = "del_unlink" => (saveoff[p] # 0 => Member(saveoff[p]))
        BY ZenonT(60) DEF IndInv, ListInv, ProcInv, DeleteInv
      <3> QED
        BY ZenonT(60), <2>1, <3>1, <3>2 DEF Member
    <2>4. Unreferenced(idxoff[q])'
      BY ZenonT(60), <1>a, <1>b, <2>1, <2>2, <2>3 DEF Frame
    <2>5. ASSUME NEW r \in Procs, Held(r, idxoff[q])' PROVE r = q
      <3>1. CASE r # p
        <4>1. Held(r, idxoff[q])
          BY ZenonT(60), <1>b, <2>5, <3>1, OtherCritical
        <4> QED
          BY ZenonT(60), <2>1, <4>1
      <3>2. CASE r = p
        <4>1. ~Held(p, idxoff[q]) /\ ~Member(idxoff[q])
          BY ZenonT(60), <2>1 DEF Member
        <4> QED
          BY ZenonT(60), <1>b, <2>1, <2>5, <3>2, <4>1, NewHolder
      <3> QED
        BY ZenonT(60), <3>1, <3>2
    <2> QED
      BY ZenonT(60), <1>a, <2>1, <2>4, <2>5 DEF DataFrame
  <1>4. pc[q] = "app_idxw" => idxoff[q] = idxsize'
    BY ZenonT(60), <1>a, LockedOut DEF StoreInv, DataFrame
  <1>5. pc[q] = "link" => ptr'[idxoff[q]] = newptr[q] /\ rec'[idxoff[q]].key = call[q].key
    BY ZenonT(60), <1>a DEF StoreInv, Frame, Held
  <1> QED
    BY ZenonT(60), <1>b, <1>1, <1>2, <1>3, <1>4, <1>5 DEF StoreInv

\* What a found or held record of one process names as its data is named by
\* no other process.
LEMMA OthersData ==
    ASSUME IndInv, NEW p \in Procs, Act(p), NEW q \in Procs, q # p
    PROVE  DataInv(q)'
  <1>a. /\ TypeOK /\ DataInv(q) /\ DataInv(p) /\ DataFrame(p) /\ DataExclusive
        /\ StoreInv(q) /\ SearchInv(p)
    BY ZenonT(60), DataFrameStep DEF IndInv, ListInv, ProcInv
  <1>b. /\ pc'[q] = pc[q] /\ idxoff'[q] = idxoff[q] /\ datoff'[q] = datoff[q]
        /\ datlen'[q] = datlen[q] /\ call'[q] = call[q]
    BY ZenonT(60), OthersStep
  <1>1. pc[q] \in {"found", "del_idx", "reuse_dat", "reuse_idx"} =>
          /\ idxoff[q] \in DOMAIN rec'
          /\ datoff[q] = rec'[idxoff[q]].datoff
          /\ datlen[q] = rec'[idxoff[q]].datlen
    BY ZenonT(60), <1>a DEF DataInv, DataFrame
  <1>2. pc[q] = "app_datw" => datoff[q] = datsize'
    BY ZenonT(60), <1>a, LockedOut DEF DataInv, DataFrame
  <1>3. pc[q] \in {"app_idx", "app_idxw"} =>
          /\ datoff[q] \in DOMAIN dat' /\ dat'[datoff[q]].len = datlen[q]
          /\ \A o \in DOMAIN rec' : rec'[o].datoff # datoff[q]
    BY <1>a DEF DataInv, DataFrame
  <1>4. ASSUME pc[q] \in {"app_idx", "app_idxw"}, NEW r \in Procs,
               pc'[r] \in {"app_idx", "app_idxw"}, datoff'[r] = datoff[q]
        PROVE  r = q
    <2>1. CASE r # p
      <3>1. pc'[r] = pc[r] /\ datoff'[r] = datoff[r]
        BY ZenonT(60), <2>1, OthersStep
      <3> QED
        BY ZenonT(60), <1>a, <1>4, <3>1 DEF DataInv
    <2>2. CASE r = p /\ pc[p] \in {"app_idx", "app_idxw"} /\ datoff'[p] = datoff[p]
      BY ZenonT(60), <1>a, <1>4, <2>2 DEF DataInv
    <2>3. CASE r = p /\ AppendDat(p)
      <3>1. pc[p] = "app_datw" /\ datoff'[p] = datoff[p]
        BY ZenonT(60), <2>3 DEF AppendDat, Goto, private, current
      <3>2. datoff'[p] = datsize /\ datoff[q] \in DOMAIN dat
        BY ZenonT(60), <1>a, <1>4, <3>1 DEF DataInv
      <3> QED
        BY <1>a, <1>4, <2>3, <3>2, Domains
    <2>4. (pc[p] \in {"app_idx", "app_idxw"} /\ datoff'[p] = datoff[p]) \/ AppendDat(p)
              \/ pc'[p] \notin {"app_idx", "app_idxw"}
      <3>a. CallTypes
        BY ZenonT(60) DEF IndInv, ListInv, TypeOK
      <3>1. CASE Invoke(p) \/ db_rewind(p) \/ Finish(p) \/ FindLock(p) \/ FindNext(p)
             \/ FindMatch(p) \/ FindEnd(p)
        BY ZenonT(60), <3>a, <3>1 DEF Invoke, db_rewind, Finish, FindLock, FindNext, FindMatch,
         FindEnd, Goto, CallTypes
      <3>4. CASE db_fetch(p) \/ NotFound(p) \/ InsertExists(p) \/ DeleteUnlink(p)
        BY ZenonT(60), <3>a, <3>4 DEF db_fetch, NotFound, InsertExists, DeleteUnlink, Return,
         CallTypes
      <3>5. CASE DeleteBlankDat(p) \/ DeleteBlankIdx(p) \/ DeleteLinkFree(p)
             \/ StoreReread(p) \/ StoreNew(p)
        BY ZenonT(60), <3>a, <3>5 DEF DeleteBlankDat, DeleteBlankIdx, DeleteLinkFree, StoreReread,
         StoreNew, Goto, CallTypes
      <3>2. CASE FreeLock(p) \/ FreeNext(p) \/ FreeTake(p) \/ FreeNone(p)
             \/ ReuseDat(p) \/ ReuseIdx(p) \/ AppendSeekDat(p) \/ AppendIdx(p)
             \/ StoreOverwrite(p)
             \/ NextLock(p) \/ NextTorn(p) \/ NextEOF(p) \/ NextRead(p) \/ NextDat(p)
             \/ StoreLink(p) \/ StoreLinkExit(p)
        BY ZenonT(60), <3>a, <3>2 DEF FreeLock, FreeNext, FreeTake, FreeNone, ReuseDat, ReuseIdx,
         AppendSeekDat, AppendIdx, StoreOverwrite, NextLock, NextTorn, Exit, NextEOF,
         NextRead, NextDat, StoreLink, StoreLinkExit, Goto, Return, CallTypes
      <3>3. CASE AppendSeekIdx(p)
        BY ZenonT(60), <3>3 DEF AppendSeekIdx, Goto
      <3> QED
        BY ZenonT(60), <3>1, <3>2, <3>3, <3>4, <3>5 DEF Act, Step
    <2> QED
      BY Zenon, <1>4, <2>1, <2>2, <2>3, <2>4
  <1>5. pc[q] \in {"reuse_idx", "app_idx", "app_idxw"} => dat'[datoff[q]].val = call[q].data
    <2> SUFFICES ASSUME pc[q] \in {"reuse_idx", "app_idx", "app_idxw"}
                 PROVE  dat'[datoff[q]].val = dat[datoff[q]].val
      BY ZenonT(60), <1>a DEF DataInv
    <2>1. datoff[q] \in DOMAIN dat
      BY ZenonT(60), <1>a DEF DataInv, DataExclusive
    <2>2. ASSUME pc[p] \in {"found", "reuse_dat"} PROVE datoff[p] # datoff[q]
      <3>1. idxoff[p] \in DOMAIN rec /\ datoff[p] = rec[idxoff[p]].datoff
        BY ZenonT(60), <1>a, <2>2 DEF DataInv
      <3>2. CASE pc[q] \in {"app_idx", "app_idxw"}
        BY ZenonT(60), <1>a, <3>1, <3>2 DEF DataInv
      <3>3. CASE pc[q] = "reuse_idx"
        <4>1. idxoff[q] \in DOMAIN rec /\ datoff[q] = rec[idxoff[q]].datoff /\ Held(q, idxoff[q])
          BY Zenon, <1>a, <3>3 DEF DataInv, Held
        <4>2. idxoff[p] # idxoff[q]
          <5>1. CASE pc[p] = "found"
            BY ZenonT(60), <1>a, <4>1, <5>1 DEF SearchInv, InUse, Stale, Member
          <5>2. CASE pc[p] = "reuse_dat"
            BY ZenonT(60), <1>a, <3>3, <5>2 DEF StoreInv, Held
          <5> QED
            BY Zenon, <2>2, <5>1, <5>2
        <4> QED
          BY ZenonT(60), <1>a, <3>1, <4>1, <4>2 DEF DataExclusive
      <3> QED
        BY ZenonT(60), <3>2, <3>3
    <2> QED
      BY ZenonT(60), <1>a, <2>1, <2>2 DEF DataFrame
  <1>6. pc[q] \in {"reuse_dat", "reuse_idx"} => datlen[q] = DatLen[call[q].data]
    BY ZenonT(60), <1>a DEF DataInv
  <1> QED
    BY ZenonT(60), <1>b, <1>1, <1>2, <1>3, <1>4, <1>5, <1>6 DEF DataInv

\* A step of p keeps the record that db_nextrec of another process has read: the
\* read lock on the free list keeps deletions out.
LEMMA OthersScan ==
    ASSUME IndInv, NEW p \in Procs, Act(p), NEW q \in Procs, q # p
    PROVE  ScanInv(q)'
  <1>a. ScanInv(q) /\ DataFrame(p) /\ StoreInv(p)
    BY ZenonT(60), DataFrameStep DEF IndInv, ListInv, ProcInv
  <1>b. pc'[q] = pc[q] /\ idxoff'[q] = idxoff[q] /\ datoff'[q] = datoff[q]
    BY ZenonT(60), OthersStep
  <1> SUFFICES ASSUME pc[q] = "next_dat"
               PROVE  /\ idxoff[q] \in DOMAIN rec' /\ rec'[idxoff[q]].key # Blank
                      /\ datoff[q] = rec'[idxoff[q]].datoff
    BY ZenonT(60), <1>b DEF ScanInv
  <1>1. /\ idxoff[q] \in DOMAIN rec /\ rec[idxoff[q]].key # Blank
        /\ datoff[q] = rec[idxoff[q]].datoff
    BY ZenonT(60), <1>a DEF ScanInv
  <1>2. pc[p] # "del_idx"
    BY Zenon, LockedOut DEF FreeLabels, DelLabels
  <1>3. CASE ReuseIdx(p)
    <2>1. call[p].key \in Keys /\ idxoff[p] \in DOMAIN rec
      BY ZenonT(60), <1>3, <1>a, StoreData DEF ReuseIdx, Goto, NewLabels, StoreInv
    <2>2. rec' = WriteAt(rec, idxoff[p], [key |-> call[p].key, klen |-> KeyLen[call[p].key],
                               datoff |-> datoff[p], datlen |-> datlen[p]])
      BY ZenonT(60), <1>3 DEF ReuseIdx, db_writeidx
    <2>3. rec'[idxoff[q]].key # Blank
      BY ZenonT(60), <1>1, <2>1, <2>2, BlankAssumption DEF WriteAt
    <2> QED
      BY ZenonT(60), <1>a, <1>1, <2>3 DEF DataFrame
  <1>4. CASE pc[p] # "reuse_idx"
    BY ZenonT(60), <1>a, <1>1, <1>2, <1>4 DEF DataFrame
  <1>5. pc[p] = "reuse_idx" => ReuseIdx(p)
    BY ZenonT(60) DEF Act, Step, Invoke, db_rewind, Finish, FindLock, FindNext, FindMatch, FindEnd,
         db_fetch, NotFound, InsertExists, DeleteBlankDat, DeleteBlankIdx,
         DeleteLinkFree, DeleteUnlink, StoreReread, StoreNew, FreeLock, FreeNext, FreeTake,
         FreeNone, ReuseDat, AppendSeekDat, AppendDat, AppendSeekIdx, AppendIdx,
         StoreOverwrite, NextLock, NextTorn, NextEOF, NextRead, NextDat, StoreLink,
         StoreLinkExit, Goto
  <1> QED
    BY ZenonT(60), <1>3, <1>4, <1>5

-----------------------------------------------------------------------------
(* A step of p establishes what p relies on next.                          *)

Own(p) == SearchInv(p) /\ DeleteInv(p) /\ StoreInv(p) /\ DataInv(p) /\ ScanInv(p)

\* Labels that rely on nothing.
Free == {"idle", "lock", "scan", "done", "dead", "missing", "reread", "next"}

\* A process at a label of Free relies on nothing.
LEMMA OwnFree ==
    ASSUME NEW p \in Procs, pc'[p] \in Free
    PROVE  Own(p)'
  BY Zenon DEF Own, SearchInv, DeleteInv, StoreInv, DataInv, ScanInv, Free, NewLabels

\* The steps that begin or end a call lead to such a label.
LEMMA OwnIdleSteps ==
    ASSUME IndInv, NEW p \in Procs,
           \/ Invoke(p) \/ db_rewind(p) \/ Finish(p) \/ FindEnd(p) \/ db_fetch(p)
           \/ NotFound(p) \/ InsertExists(p) \/ DeleteUnlink(p) \/ StoreLink(p)
           \/ StoreLinkExit(p) \/ StoreOverwrite(p) \/ NextLock(p) \/ NextTorn(p)
           \/ NextEOF(p) \/ NextDat(p)
    PROVE  Own(p)'
  <1>1. CallTypes
    BY ZenonT(60) DEF IndInv, ListInv, TypeOK
  <1>2. pc'[p] \in Free
    BY ZenonT(60), <1>1 DEF Invoke, db_rewind, Finish, FindEnd, db_fetch, NotFound, InsertExists,
       DeleteUnlink, StoreLink, StoreLinkExit, StoreOverwrite, NextLock, NextTorn, NextEOF,
       NextDat, Goto, Return, Exit, CallTypes, Free
  <1> QED
    BY ZenonT(60), <1>2, OwnFree

\* The steps of _db_find_and_lock establish what the search says.
LEMMA OwnFind ==
    ASSUME IndInv, NEW p \in Procs, FindLock(p) \/ FindNext(p) \/ FindMatch(p)
    PROVE  Own(p)'
  <1>a. /\ TypeOK /\ CallTypes /\ FieldTypes /\ SearchInv(p) /\ Act(p) /\ UNCHANGED idxfile
        /\ chainoff(p)' = chainoff(p)
    BY ZenonT(60) DEF IndInv, ListInv, TypeOK, ProcInv, Act, Step, FindLock, FindNext, FindMatch, chainoff
  <1>b. pc[p] \notin Critical /\ pc'[p] \in {"search", "found"}
    BY ZenonT(60), <1>a DEF FindLock, FindNext, FindMatch, Goto, CallTypes, Critical
  <1>c. ptr' = ptr /\ rec' = rec /\ \A o, r : InUse(o, r)' <=> InUse(o, r)
    BY Zenon, <1>a, <1>b, QuietStep DEF idxfile, Critical
  <1>1. CASE FindLock(p)
    <2>1. /\ chainoff(p) \in 0 .. NHASH /\ chainoff(p) \in Regions
      <3>1. pc[p] = "lock"
        BY Zenon, <1>1 DEF FindLock, Goto
      <3>2. chainoff(p) \in 1 .. NHASH /\ chainoff(p) \in Regions
        BY Zenon, <3>1, ChainRegion
      <3> QED
        BY <3>2, DbAssumption
    <2>2. \A q \in wlock[chainoff(p)] : ~Deleting(q)
      BY Zenon, <1>1, <2>1 DEF FindLock, LockChain, Goto, readw_lock, writew_lock, Deleting
    <2>3. InUse(chainoff(p), chainoff(p))
      BY Zenon, <2>1, <2>2, Heads
    <2>4. /\ pc'[p] = "search" /\ ptroff'[p] = chainoff(p)
          /\ offset'[p] = ptr[chainoff(p)]
      BY Zenon, <1>1, <1>a DEF FindLock, Goto, CallTypes, FieldTypes
    <2> QED
      BY Zenon, <1>a, <1>c, <2>3, <2>4 DEF Own, SearchInv, DeleteInv, StoreInv, DataInv, ScanInv,
         NewLabels
  <1>2. CASE FindNext(p) \/ FindMatch(p)
    <2>1. /\ pc[p] = "search" /\ offset[p] # 0 /\ InUse(ptroff[p], chainoff(p))
          /\ ptr[ptroff[p]] = offset[p]
      BY Zenon, <1>a, <1>2 DEF FindNext, FindMatch, Goto, SearchInv
    <2>2. offset[p] \in DOMAIN rec /\ offset[p] \in DOMAIN ptr
      BY Zenon, <1>a, <2>1, WalkRecord, Domains
    <2>3. \A q \in Procs : /\ pc[q] = "del_free" => ptroff[q] # ptroff[p]
                           /\ pc[q] \in {"del_free", "del_unlink"} =>
                                 chainoff(q) # chainoff(p)
      <3> SUFFICES ASSUME NEW q \in Procs, pc[q] \in {"del_free", "del_unlink"}
                   PROVE  /\ chainoff(q) # chainoff(p)
                          /\ pc[q] = "del_free" => ptroff[q] # ptroff[p]
        BY Zenon
      <3>1. q \in wlock[chainoff(q)] /\ q # p
        BY ZenonT(60), <2>1 DEF IndInv, ListInv, HoldInv, Holds, CallInv, ChainLabels, DelLabels
      <3>2. q \notin wlock[chainoff(p)]
        BY Zenon, <2>1, <3>1, LockedOut DEF ChainLabels
      <3>3. pc[q] = "del_free" => Class(ptroff[q]) = chainoff(q)
        BY Zenon DEF IndInv, ListInv, ProcInv, SearchInv, InUse
      <3> QED
        BY Zenon, <2>1, <3>1, <3>2, <3>3 DEF InUse
    <2>4. Member(offset[p]) /\ Class(offset[p]) = chainoff(p)
      BY Zenon, <2>1, <2>3, SameClass DEF InUse
    <2>5. rec[offset[p]].key # Blank
      <3>1. offset[p] > NHASH /\ offset[p] \in Int /\ NHASH \in Nat
        BY <1>a, <2>2, Domains
      <3>2. chainoff(p) # FREE_OFF
        BY <2>1, ChainRegion DEF FREE_OFF, ChainLabels
      <3> QED
        BY <2>4, <3>1, <3>2 DEF Class
    <2>6. ~Stale(offset[p])
      <3>1. \A q \in Procs : pc[q] = "del_free" => rec[idxoff[q]].key = Blank
        BY Zenon DEF IndInv, ListInv, ProcInv, DeleteInv
      <3>2. \A q \in Procs : pc[q] = "del_unlink" => Class(ptroff[q]) = chainoff(q)
        BY Zenon DEF IndInv, ListInv, ProcInv, DeleteInv
      <3> QED
        BY Zenon, <2>3, <2>4, <2>5, <3>1, <3>2 DEF Stale
    <2>7. InUse(offset[p], chainoff(p))
      BY Zenon, <2>2, <2>4, <2>6 DEF InUse
    <2>8. CASE FindNext(p)
      <3>1. pc'[p] = "search" /\ ptroff'[p] = offset[p] /\ offset'[p] = ptr[offset[p]]
        BY Zenon, <1>a, <2>1, <2>8 DEF FindNext, FieldTypes
      <3> QED
        BY ZenonT(60), <1>a, <1>c, <2>7, <3>1 DEF Own, SearchInv, DeleteInv, StoreInv, DataInv, ScanInv,
           NewLabels
    <2>9. CASE FindMatch(p)
      <3>1. /\ pc'[p] = "found" /\ ptroff'[p] = ptroff[p] /\ idxoff'[p] = offset[p]
            /\ ptrval'[p] = ptr[offset[p]] /\ datoff'[p] = rec[offset[p]].datoff
            /\ datlen'[p] = rec[offset[p]].datlen
        BY Zenon, <1>a, <2>9 DEF FindMatch, Goto, db_readidx, CallTypes, FieldTypes
      <3> QED
        BY ZenonT(60), <1>a, <1>c, <2>1, <2>2, <2>5, <2>7, <3>1 DEF Own, SearchInv, DeleteInv, StoreInv,
           DataInv, ScanInv, NewLabels
    <2> QED
      BY Zenon, <1>2, <2>8, <2>9
  <1> QED
    BY Zenon, <1>1, <1>2

\* The steps of _db_dodelete establish what the next of them relies on.
LEMMA OwnDelete ==
    ASSUME IndInv, NEW p \in Procs,
           DeleteBlankDat(p) \/ DeleteBlankIdx(p) \/ DeleteLinkFree(p)
    PROVE  Own(p)'
  <1>a. /\ TypeOK /\ CallTypes /\ FieldTypes /\ SearchInv(p) /\ DeleteInv(p) /\ DataInv(p)
        /\ Act(p) /\ Frame(p) /\ DataFrame(p) /\ OneReference /\ PtrInv /\ RefInv
        /\ chainoff(p)' = chainoff(p)
    BY Zenon, ListsStep, DataFrameStep DEF IndInv, ListInv, TypeOK, ProcInv, Act, Step, DeleteBlankDat,
       DeleteBlankIdx, DeleteLinkFree, chainoff
  <1>1. CASE DeleteBlankDat(p)
    <2>1. /\ UNCHANGED idxfile /\ pc[p] = "found" /\ pc'[p] = "del_idx"
          /\ UNCHANGED private
      BY Zenon, <1>1, <1>a DEF DeleteBlankDat, Goto, CallTypes
    <2>2. ptr' = ptr /\ rec' = rec /\ \A o, r : InUse(o, r)' <=> InUse(o, r)
      BY Zenon, <1>a, <2>1, QuietStep DEF idxfile, Critical
    <2> QED
      BY Zenon, <1>a, <2>1, <2>2 DEF Own, SearchInv, DeleteInv, StoreInv, DataInv, ScanInv,
         NewLabels, private, current
  <1>2. CASE DeleteBlankIdx(p)
    <2>1. pc[p] = "del_idx" /\ pc'[p] = "del_free"
      BY Zenon, <1>2, <1>a DEF DeleteBlankIdx, Goto, CallTypes
    <2>2. /\ idxoff' = idxoff /\ ptroff' = ptroff /\ saveoff'[p] = ptr[idxoff[p]]
      BY Zenon, <1>a, <1>2, <2>1 DEF DeleteBlankIdx, FieldTypes, SearchInv
    <2>3. /\ idxoff[p] \in DOMAIN rec /\ idxoff[p] \in DOMAIN ptr
          /\ FREE_OFF \in DOMAIN ptr /\ idxoff[p] # FREE_OFF /\ idxoff[p] > NHASH
          /\ idxoff[p] \in Int /\ NHASH \in Nat
          /\ InUse(idxoff[p], chainoff(p)) /\ InUse(ptroff[p], chainoff(p))
          /\ ptr[ptroff[p]] = idxoff[p] /\ rec[idxoff[p]].key # Blank
      <3>1. /\ idxoff[p] \in DOMAIN rec /\ InUse(idxoff[p], chainoff(p))
            /\ InUse(ptroff[p], chainoff(p)) /\ ptr[ptroff[p]] = idxoff[p]
            /\ rec[idxoff[p]].key # Blank
        BY Zenon, <1>a, <2>1 DEF SearchInv
      <3> QED
        BY <1>a, <3>1, Domains DEF FREE_OFF
    <2>4. /\ DOMAIN ptr' = DOMAIN ptr /\ DOMAIN rec' = DOMAIN rec
          /\ \A c \in DOMAIN ptr : ptr'[c] = IF c = idxoff[p] THEN ptr[FREE_OFF] ELSE ptr[c]
          /\ \A c \in DOMAIN rec : c # idxoff[p] => rec'[c] = rec[c]
          /\ rec'[idxoff[p]].key = Blank
      BY Zenon, <1>2, <2>3 DEF DeleteBlankIdx, db_writeidx, WriteAt
    <2>5. \A c : Member(c)' <=> Member(c)
      BY ZenonT(60), <1>a, <2>1, OtherCritical DEF Member, Held
    <2>6. \A c : Stale(c)' <=> (Stale(c) \/ c = idxoff[p])
      BY ZenonT(60), <1>a, <2>1, <2>2, <2>5, OtherCritical DEF Stale
    <2>7. Member(idxoff[p]) /\ Member(idxoff[p])'
      BY Zenon, <2>2, <2>3, <2>5 DEF InUse, Stale
    <2>8. ptroff[p] # idxoff[p] /\ ptr[idxoff[p]] # idxoff[p]
      <3>1. PICK rank \in [DOMAIN rec -> Nat] : Falls(rank)
        BY Zenon DEF IndInv, Ordered
      <3>2. ASSUME ptr[idxoff[p]] = idxoff[p] PROVE FALSE
        <4>1. rank[idxoff[p]] < rank[idxoff[p]] /\ rank[idxoff[p]] \in Nat
          BY Zenon, <2>3, <3>1, <3>2 DEF Falls, InUse, FREE_OFF
        <4> QED
          BY <4>1
      <3> QED
        BY Zenon, <2>3, <3>2
    <2>9. InUse(ptroff[p], chainoff(p))' /\ ptr'[ptroff[p]] = idxoff[p]
      <3>1. ptroff[p] \in DOMAIN ptr /\ ~Stale(ptroff[p]) /\ Class(ptroff[p]) = chainoff(p)
        BY Zenon, <2>3 DEF InUse
      <3>2. ptroff[p] <= NHASH \/ ptroff[p] \in DOMAIN rec
        BY <1>a, <3>1, Domains
      <3>3. Class(ptroff[p])' = Class(ptroff[p])
        BY Zenon, <2>2, <2>4, <2>8, <3>2 DEF Class
      <3> QED
        BY ZenonT(60), <1>a, <2>2, <2>3, <2>4, <2>6, <2>8, <3>1, <3>3 DEF InUse
    <2>10. ASSUME ptr[idxoff[p]] # 0
           PROVE  /\ ptr[idxoff[p]] \in DOMAIN rec' /\ Member(ptr[idxoff[p]])
                  /\ Class(saveoff[p])' = chainoff(p)
                  /\ \A c \in DOMAIN ptr' : ~Stale(c)' => ptr'[c] # ptr[idxoff[p]]
      <3>1. \A q \in Procs : pc[q] = "del_free" => ptroff[q] # idxoff[p]
        <4> SUFFICES ASSUME NEW q \in Procs, pc[q] = "del_free" PROVE FALSE
          BY Zenon
        <4>1. pc[q] \in FreeLabels /\ pc[p] \in FreeLabels /\ q # p
          BY Zenon, <2>1 DEF FreeLabels, DelLabels
        <4> QED
          BY Zenon, <4>1, LockedOut
      <3>2. /\ ptr[idxoff[p]] \in DOMAIN rec /\ Member(ptr[idxoff[p]])
            /\ Class(ptr[idxoff[p]]) = chainoff(p)
            /\ \A d \in DOMAIN ptr : (~Stale(d) /\ ptr[d] = ptr[idxoff[p]]) => d = idxoff[p]
        BY Zenon, <2>3, <2>10, <3>1, SameClass DEF InUse
      <3>3. Class(saveoff[p])' = Class(ptr[idxoff[p]])
        BY ZenonT(60), <2>2, <2>4, <2>8, <3>2 DEF Class
      <3> QED
        BY Zenon, <2>4, <2>6, <3>2, <3>3
    <2>11. Unreferenced(saveoff[p])' <=>
              \A c \in DOMAIN ptr' : ~Stale(c)' => ptr'[c] # ptr[idxoff[p]]
      BY Zenon, <2>2 DEF Unreferenced
    <2>12. SearchInv(p)'
      BY Zenon, <1>a, <2>1, <2>2, <2>3, <2>4, <2>9 DEF SearchInv
    <2>13. DeleteInv(p)'
      BY ZenonT(60), <1>a, <2>1, <2>2, <2>3, <2>4, <2>5, <2>7, <2>10, <2>11 DEF DeleteInv
    <2> QED
      BY Zenon, <2>1, <2>12, <2>13 DEF Own, StoreInv, DataInv, ScanInv, NewLabels
  <1>3. CASE DeleteLinkFree(p)
    <2>1. pc[p] = "del_free" /\ pc'[p] = "del_unlink" /\ UNCHANGED private /\ rec' = rec
      BY Zenon, <1>3, <1>a DEF DeleteLinkFree, Goto, CallTypes, db_writeptr
    <2>2. idxoff' = idxoff /\ ptroff' = ptroff /\ saveoff' = saveoff
      BY Zenon, <2>1 DEF private, current
    <2>3. /\ idxoff[p] \in DOMAIN rec /\ Member(idxoff[p]) /\ rec[idxoff[p]].key = Blank
          /\ InUse(ptroff[p], chainoff(p))
      BY Zenon, <1>a, <2>1 DEF SearchInv, DeleteInv
    <2>4. \A c : Member(c)' <=> Member(c)
      BY ZenonT(60), <1>a, <2>1, OtherCritical DEF Member, Held
    <2>5. \A c : Class(c)' = Class(c)
      BY Zenon, <2>1 DEF Class
    <2>6. saveoff[p] # 0 => /\ saveoff[p] \in DOMAIN rec /\ Member(saveoff[p])
                            /\ Class(saveoff[p]) = chainoff(p) /\ Unreferenced(saveoff[p])'
      BY Zenon, <1>a, <2>1, <2>2 DEF DeleteInv, Frame
    <2>7. ptroff[p] \in DOMAIN ptr'
      <3>1. ptr' = WriteAt(ptr, FREE_OFF, idxoff[p])
        BY Zenon, <1>3 DEF DeleteLinkFree, db_writeptr
      <3> QED
        BY Zenon, <2>3, <3>1 DEF WriteAt, InUse
    <2>8. DeleteInv(p)'
      BY ZenonT(60), <1>a, <2>1, <2>2, <2>3, <2>4, <2>5, <2>6, <2>7 DEF DeleteInv, InUse, Stale
    <2> QED
      BY Zenon, <2>1, <2>8 DEF Own, SearchInv, StoreInv, DataInv, ScanInv, NewLabels
  <1> QED
    BY Zenon, <1>1, <1>2, <1>3

\* The steps of db_store up to the write of the index record do so too.
LEMMA OwnStore ==
    ASSUME IndInv, NEW p \in Procs,
           StoreReread(p) \/ StoreNew(p) \/ FreeLock(p) \/ FreeNext(p) \/ FreeNone(p)
           \/ AppendSeekDat(p) \/ AppendDat(p) \/ AppendSeekIdx(p)
    PROVE  Own(p)'
  <1>a. /\ TypeOK /\ CallTypes /\ FieldTypes /\ FileTypes /\ DataInv(p) /\ StoreInv(p)
        /\ DataExclusive /\ Act(p) /\ UNCHANGED idxfile /\ chainoff(p)' = chainoff(p)
    BY Zenon DEF IndInv, ListInv, TypeOK, ProcInv, Act, Step, StoreReread, StoreNew, FreeLock,
       FreeNext, FreeNone, AppendSeekDat, AppendDat, AppendSeekIdx, chainoff
  <1>b. pc[p] \notin Critical /\ pc'[p] \notin Critical
    BY ZenonT(60), <1>a DEF StoreReread, StoreNew, FreeLock, FreeNext, FreeNone, AppendSeekDat, AppendDat,
       AppendSeekIdx, Goto, CallTypes, Critical
  <1>c. ptr' = ptr /\ rec' = rec /\ idxsize' = idxsize /\ \A o, r : InUse(o, r)' <=> InUse(o, r)
    BY Zenon, <1>a, <1>b, QuietStep DEF idxfile
  <1>1. CASE StoreReread(p) \/ StoreNew(p)
    <2>1. pc'[p] \in {"app_dat", "free_lock"} /\ newptr'[p] = ptr[chainoff(p)]
      BY ZenonT(60), <1>1, <1>a DEF StoreReread, StoreNew, Goto, CallTypes, FieldTypes
    <2> QED
      BY Zenon, <1>a, <1>c, <2>1 DEF Own, SearchInv, DeleteInv, StoreInv, DataInv, ScanInv,
         NewLabels
  <1>2. CASE FreeLock(p)
    <2>1. /\ pc'[p] = "free_walk" /\ pc[p] = "free_lock" /\ newptr'[p] = newptr[p]
          /\ saveoff'[p] = FREE_OFF /\ offset'[p] = ptr[FREE_OFF]
      BY Zenon, <1>2, <1>a DEF FreeLock, Goto, CallTypes, FieldTypes
    <2>2. FREE_OFF \in 0 .. NHASH
      BY DbAssumption DEF FREE_OFF
    <2>3. InUse(FREE_OFF, FREE_OFF)
      BY Zenon, <2>2, Heads
    <2> QED
      BY Zenon, <1>a, <1>c, <2>1, <2>3 DEF Own, SearchInv, DeleteInv, StoreInv, DataInv, ScanInv,
         NewLabels, FREE_OFF
  <1>3. CASE FreeNext(p)
    <2>1. /\ pc'[p] = "free_walk" /\ pc[p] = "free_walk" /\ newptr'[p] = newptr[p]
          /\ saveoff'[p] = offset[p] /\ offset'[p] = ptr[offset[p]] /\ offset[p] # 0
      BY Zenon, <1>3, <1>a DEF FreeNext, FieldTypes
    <2>2. InUse(saveoff[p], FREE_OFF) /\ ptr[saveoff[p]] = offset[p] /\ p \in wlock[FREE_OFF]
      BY Zenon, <1>a, <2>1 DEF IndInv, ListInv, HoldInv, Holds, FreeLabels, StoreInv
    <2>3. \A q \in Procs : pc[q] \notin {"del_free", "del_unlink"}
      BY Zenon, <2>1, <2>2, OneDelete
    <2>4. Member(offset[p]) /\ Class(offset[p]) = FREE_OFF
      BY Zenon, <2>1, <2>2, <2>3, SameClass DEF InUse
    <2>5. offset[p] \in DOMAIN ptr
      BY Zenon, <1>a, <2>1, WalkRecord, Domains
    <2>6. InUse(offset[p], FREE_OFF)
      BY Zenon, <2>3, <2>4, <2>5 DEF InUse, Stale
    <2> QED
      BY Zenon, <1>a, <1>c, <2>1, <2>6 DEF Own, SearchInv, DeleteInv, StoreInv, DataInv, ScanInv,
         NewLabels, FREE_OFF
  <1>4. CASE FreeNone(p)
    <2>1. pc'[p] = "app_dat" /\ pc[p] = "free_walk" /\ newptr'[p] = newptr[p]
      BY Zenon, <1>4, <1>a DEF FreeNone, Goto, CallTypes, private
    <2> QED
      BY Zenon, <1>a, <1>c, <2>1 DEF Own, SearchInv, DeleteInv, StoreInv, DataInv, ScanInv,
         NewLabels
  <1>5. CASE AppendSeekDat(p)
    <2>1. /\ pc'[p] = "app_datw" /\ pc[p] = "app_dat" /\ newptr'[p] = newptr[p]
          /\ datoff'[p] = datsize /\ datsize' = datsize
      BY Zenon, <1>5, <1>a DEF AppendSeekDat, Goto, CallTypes, FieldTypes, datfile
    <2> QED
      BY Zenon, <1>a, <1>c, <2>1 DEF Own, SearchInv, DeleteInv, StoreInv, DataInv, ScanInv,
         NewLabels
  <1>6. CASE AppendDat(p)
    <2>1. /\ pc'[p] = "app_idx" /\ pc[p] = "app_datw" /\ newptr'[p] = newptr[p]
          /\ datoff' = datoff /\ datlen' = datlen /\ call' = call
          /\ dat' = WriteAt(dat, datoff[p], [val |-> call[p].data, len |-> datlen[p]])
      BY Zenon, <1>6, <1>a DEF AppendDat, Goto, CallTypes, private, current, db_writedat
    <2>2. datoff[p] = datsize /\ datsize \notin DOMAIN dat
      <3>1. DOMAIN dat = 0 .. (datsize - 1) /\ datsize \in Nat
        BY Zenon, <1>a, Domains
      <3>2. datoff[p] = datsize
        BY Zenon, <1>a, <2>1 DEF DataInv
      <3> QED
        BY <3>1, <3>2
    <2>3. \A o \in DOMAIN rec : rec[o].datoff # datoff[p]
      BY Zenon, <1>a, <2>2 DEF DataExclusive
    <2>4. \A q \in Procs : (pc'[q] \in {"app_idx", "app_idxw"} /\ datoff'[q] = datoff[p])
                              => q = p
      <3> SUFFICES ASSUME NEW q \in Procs, q # p, pc'[q] \in {"app_idx", "app_idxw"},
                          datoff'[q] = datoff[p]
                   PROVE  FALSE
        BY Zenon
      <3>1. pc[q] = pc'[q] /\ datoff[q] = datoff[p]
        BY Zenon, <1>a, <2>1, OthersStep
      <3>2. DataInv(q)
        BY Zenon DEF IndInv, ListInv, ProcInv
      <3> QED
        BY Zenon, <2>2, <3>1, <3>2 DEF DataInv
    <2>5. /\ datoff[p] \in DOMAIN dat' /\ dat'[datoff[p]].len = datlen[p]
          /\ dat'[datoff[p]].val = call[p].data
      BY Zenon, <2>1 DEF WriteAt
    <2> QED
      BY ZenonT(60), <1>a, <1>c, <2>1, <2>3, <2>4, <2>5 DEF Own, SearchInv, DeleteInv, StoreInv, DataInv, ScanInv,
         NewLabels
  <1>7. CASE AppendSeekIdx(p)
    <2>1. /\ pc'[p] = "app_idxw" /\ pc[p] = "app_idx" /\ newptr'[p] = newptr[p]
          /\ datoff' = datoff /\ datlen' = datlen /\ call' = call /\ dat' = dat
          /\ idxoff'[p] = idxsize
      BY Zenon, <1>7, <1>a DEF AppendSeekIdx, Goto, CallTypes, FieldTypes, datfile
    <2>2. \A q \in Procs : (pc'[q] \in {"app_idx", "app_idxw"} /\ datoff'[q] = datoff[p])
                              => q = p
      <3> SUFFICES ASSUME NEW q \in Procs, q # p, pc'[q] \in {"app_idx", "app_idxw"},
                          datoff'[q] = datoff[p]
                   PROVE  FALSE
        BY Zenon
      <3>1. pc[q] = pc'[q] /\ datoff[q] = datoff[p]
        BY Zenon, <1>a, <2>1, OthersStep
      <3> QED
        BY Zenon, <1>a, <2>1, <3>1 DEF DataInv
    <2> QED
      BY ZenonT(60), <1>a, <1>c, <2>1, <2>2 DEF Own, SearchInv, DeleteInv, StoreInv, DataInv, ScanInv,
         NewLabels
  <1> QED
    BY ZenonT(60), <1>1, <1>2, <1>3, <1>4, <1>5, <1>6, <1>7

\* So does taking a record off the free list,
LEMMA OwnTake ==
    ASSUME IndInv, NEW p \in Procs, FreeTake(p)
    PROVE  Own(p)'
  <1>a. /\ TypeOK /\ CallTypes /\ FieldTypes /\ StoreInv(p) /\ Act(p)
        /\ chainoff(p)' = chainoff(p)
    BY Zenon DEF IndInv, ListInv, TypeOK, ProcInv, Act, Step, FreeTake, chainoff
  <1>b. /\ offset[p] \in DOMAIN rec /\ Member(offset[p])
        /\ \A c \in DOMAIN ptr' : ~Stale(c)' => ptr'[c] # offset[p]
        /\ ptr'[chainoff(p)] = ptr[chainoff(p)]
    BY Zenon, FreeTakeStep
  <1>1. /\ pc[p] = "free_walk" /\ pc'[p] = "reuse_dat" /\ idxoff'[p] = offset[p]
        /\ datoff'[p] = rec[offset[p]].datoff /\ datlen'[p] = rec[offset[p]].datlen
        /\ newptr' = newptr /\ rec' = rec /\ call' = call
        /\ rec[offset[p]].datlen = DatLen[call[p].data]
    BY Zenon, <1>a DEF FreeTake, Goto, db_writeptr, Fits, CallTypes, FieldTypes
  <1>2. Unreferenced(idxoff[p])'
    BY Zenon, <1>b, <1>1 DEF Unreferenced
  <1>3. ASSUME NEW q \in Procs, Held(q, idxoff[p])' PROVE q = p
    <2> SUFFICES ASSUME q # p PROVE FALSE
      BY Zenon
    <2>1. Held(q, offset[p])
      BY Zenon, <1>a, <1>1, <1>3, OtherCritical
    <2> QED
      BY Zenon, <1>b, <2>1 DEF Member
  <1>4. newptr[p] = ptr[chainoff(p)]
    BY Zenon, <1>a, <1>1 DEF StoreInv, NewLabels
  <1> QED
    BY ZenonT(60), <1>a, <1>b, <1>1, <1>2, <1>3, <1>4 DEF Own, SearchInv, DeleteInv, StoreInv, DataInv,
       ScanInv, NewLabels

\* writing the index record, in place or at the end of the file,
LEMMA OwnNewRecord ==
    ASSUME IndInv, NEW p \in Procs, ReuseIdx(p) \/ AppendIdx(p)
    PROVE  Own(p)'
  <1> DEFINE i == idxoff[p]
  <1>a. /\ TypeOK /\ CallTypes /\ FieldTypes /\ StoreInv(p) /\ PtrInv /\ Act(p) /\ Frame(p)
        /\ chainoff(p)' = chainoff(p)
    BY Zenon, ListsStep DEF IndInv, ListInv, TypeOK, ProcInv, Act, Step, ReuseIdx, AppendIdx, private,
       chainoff
  <1>1. /\ pc[p] \in {"reuse_idx", "app_idxw"} /\ pc'[p] = "link"
        /\ idxoff' = idxoff /\ newptr' = newptr /\ call' = call
    BY Zenon, <1>a DEF ReuseIdx, AppendIdx, Goto, CallTypes, private, current
  <1>2. /\ ptr' = WriteAt(ptr, i, newptr[p])
        /\ rec' = WriteAt(rec, i, [key |-> call[p].key, klen |-> KeyLen[call[p].key],
                                   datoff |-> datoff[p], datlen |-> datlen[p]])
    BY Zenon DEF ReuseIdx, AppendIdx, db_writeidx
  <1>3. /\ chainoff(p) \in DOMAIN ptr /\ chainoff(p) \notin DOMAIN rec
        /\ newptr[p] = ptr[chainoff(p)]
    <2>1. chainoff(p) \in 1 .. NHASH /\ chainoff(p) \in DOMAIN ptr
      BY Zenon, <1>1, ChainRegion DEF ChainLabels, NewLabels
    <2>2. chainoff(p) \notin DOMAIN rec
      BY <1>a, <2>1, Domains
    <2> QED
      BY Zenon, <1>a, <1>1, <2>1, <2>2 DEF StoreInv, NewLabels
  <1>4. i \in DOMAIN rec \/ i \notin DOMAIN ptr
    <2>1. CASE pc[p] = "reuse_idx"
      BY Zenon, <1>a, <2>1 DEF StoreInv
    <2>2. CASE pc[p] = "app_idxw"
      BY <1>a, <2>2, Domains DEF StoreInv
    <2> QED
      BY Zenon, <1>1, <2>1, <2>2
  <1>5. Unreferenced(idxoff[p])'
    <2>1. CASE i \in DOMAIN rec
      <3>1. pc[p] = "reuse_idx"
        BY <1>a, <1>1, <2>1, Domains DEF StoreInv
      <3> QED
        BY Zenon, <1>a, <1>1, <2>1, <3>1 DEF StoreInv, Frame
    <2>2. CASE i \notin DOMAIN ptr
      <3>1. i \notin DOMAIN rec /\ i # 0
        BY Zenon, <1>a, <2>2, Domains DEF FREE_OFF
      <3>2. \A c \in DOMAIN ptr' : c # i => c \in DOMAIN ptr /\ ptr'[c] = ptr[c]
        BY Zenon, <1>2 DEF WriteAt
      <3>3. \A c \in DOMAIN ptr : ptr[c] # i
        BY Zenon, <1>a, <3>1 DEF PtrInv
      <3>4. Stale(idxoff[p])'
        BY Zenon, <1>1 DEF Stale, Member, Held
      <3> QED
        BY Zenon, <1>1, <3>2, <3>3, <3>4 DEF Unreferenced
    <2> QED
      BY Zenon, <1>4, <2>1, <2>2
  <1>6. ASSUME NEW q \in Procs, Held(q, idxoff[p])' PROVE q = p
    <2> SUFFICES ASSUME q # p PROVE FALSE
      BY Zenon
    <2>1. Held(q, i)
      BY ZenonT(60), <1>a, <1>1, <1>6, OtherCritical
    <2>2. StoreInv(q)
      BY Zenon DEF IndInv, ListInv, ProcInv
    <2>3. i \in DOMAIN rec
      BY Zenon, <2>1, <2>2 DEF StoreInv, Held
    <2>4. pc[p] = "reuse_idx"
      BY <1>a, <1>1, <2>3, Domains DEF StoreInv
    <2> QED
      BY Zenon, <1>a, <2>1, <2>4 DEF StoreInv
  <1>7. /\ i \in DOMAIN rec' /\ ptr'[i] = newptr[p] /\ rec'[i].key = call[p].key
        /\ ptr'[chainoff(p)] = ptr[chainoff(p)]
    BY Zenon, <1>2, <1>3, <1>4 DEF WriteAt
  <1> QED
    BY ZenonT(60), <1>a, <1>1, <1>3, <1>5, <1>6, <1>7 DEF Own, SearchInv, DeleteInv, StoreInv, DataInv,
       ScanInv, NewLabels

\* writing data over the data of a free record,
LEMMA OwnReuseDat ==
    ASSUME IndInv, NEW p \in Procs, ReuseDat(p)
    PROVE  Own(p)'
  <1>a. /\ TypeOK /\ CallTypes /\ FieldTypes /\ StoreInv(p) /\ DataInv(p) /\ Act(p)
        /\ UNCHANGED idxfile /\ chainoff(p)' = chainoff(p)
    BY Zenon DEF IndInv, ListInv, TypeOK, ProcInv, Act, Step, ReuseDat, chainoff
  <1>1. /\ pc[p] = "reuse_dat" /\ pc'[p] = "reuse_idx" /\ idxoff' = idxoff /\ newptr' = newptr
        /\ call' = call /\ datoff' = datoff /\ datlen'[p] = DatLen[call[p].data]
        /\ dat' = WriteAt(dat, datoff[p], [val |-> call[p].data, len |-> DatLen[call[p].data]])
    BY Zenon, <1>a DEF ReuseDat, Goto, CallTypes, FieldTypes, db_writedat
  <1>2. ptr' = ptr /\ rec' = rec /\ \A o : Unreferenced(o)' <=> Unreferenced(o)
    BY Zenon, <1>a, QuietStep DEF idxfile
  <1>3. \A q \in Procs : \A o : Held(q, o)' <=> Held(q, o)
    BY Zenon, <1>a, <1>1, OtherCritical DEF Held
  <1>4. dat'[datoff[p]].val = call[p].data
    BY Zenon, <1>1 DEF WriteAt
  <1>5. StoreInv(p)'
    BY Zenon, <1>a, <1>1, <1>2, <1>3 DEF StoreInv, NewLabels
  <1>6. DataInv(p)'
    BY Zenon, <1>a, <1>1, <1>2, <1>4 DEF DataInv
  <1> QED
    BY ZenonT(60), <1>1, <1>5, <1>6 DEF Own, SearchInv, DeleteInv, ScanInv

\* and db_nextrec reading an index record.
LEMMA OwnNextRead ==
    ASSUME IndInv, NEW p \in Procs, NextRead(p)
    PROVE  Own(p)'
  <1>a. TypeOK /\ CallTypes /\ FieldTypes
    BY Zenon DEF IndInv, ListInv, TypeOK
  <1>1. /\ fpos[p] \in DOMAIN rec /\ rec' = rec /\ idxoff'[p] = fpos[p]
        /\ datoff'[p] = rec[fpos[p]].datoff
        /\ pc'[p] = IF rec[fpos[p]].key = Blank THEN "next" ELSE "next_dat"
    BY Zenon, <1>a, Domains DEF NextRead, db_readidx, CallTypes, FieldTypes, idxfile, FirstRec
  <1> QED
    BY Zenon, <1>1 DEF Own, SearchInv, DeleteInv, StoreInv, DataInv, ScanInv, NewLabels

\* Every step keeps what each process relies on.
LEMMA ProcStep ==
    ASSUME IndInv, NEW p \in Procs, Act(p)
    PROVE  ProcInv'
  <1>1. Own(p)'
    BY Zenon, OwnIdleSteps, OwnFind, OwnDelete, OwnStore, OwnTake, OwnNewRecord, OwnReuseDat,
       OwnNextRead DEF Act, Step
  <1>2. \A q \in Procs : q # p => Own(q)'
    BY Zenon, OthersSearch, OthersDelete, OthersStore, OthersData, OthersScan DEF Own
  <1> QED
    BY Zenon, <1>1, <1>2 DEF ProcInv, Own

\* Data is blanked only by the process that will blank the key next, and every
\* index record is written after its data.
LEMMA BlankStep ==
    ASSUME IndInv, NEW p \in Procs, Act(p)
    PROVE  BlankInv'
  <1>a. /\ TypeOK /\ CallTypes /\ FieldTypes /\ BlankInv /\ DataFrame(p) /\ DataExclusive
        /\ DataInv(p) /\ StoreInv(p)
    BY Zenon, DataFrameStep DEF IndInv, ListInv, TypeOK, ProcInv
  <1> SUFFICES ASSUME NEW o \in DOMAIN rec', rec'[o].key # Blank,
                      dat'[rec'[o].datoff].val = Blank
               PROVE  \E q \in Procs : pc'[q] = "del_idx" /\ idxoff'[q] = o
    BY Zenon DEF BlankInv
  <1>b. \A q \in Procs : (q # p /\ pc[q] = "del_idx" /\ idxoff[q] = o) =>
            pc'[q] = "del_idx" /\ idxoff'[q] = o
    BY Zenon, OthersStep
  <1>c. \A d \in Data : d # Blank
    BY Zenon, BlankAssumption
  \* the record and its data are as before
  <1>1. CASE /\ o \in DOMAIN rec /\ rec'[o].key = rec[o].key
             /\ dat'[rec[o].datoff].val = dat[rec[o].datoff].val
             /\ ~DeleteBlankIdx(p)
    <2>1. PICK q \in Procs : pc[q] = "del_idx" /\ idxoff[q] = o
      BY Zenon, <1>a, <1>1 DEF BlankInv, DataFrame
    <2>2. pc[p] = "del_idx" => DeleteBlankIdx(p)
      BY Zenon DEF Act, Step, Invoke, db_rewind, Finish, FindLock, FindNext, FindMatch, FindEnd,
         db_fetch, NotFound, InsertExists, DeleteBlankDat,
         DeleteLinkFree, DeleteUnlink, StoreReread, StoreNew, FreeLock, FreeNext, FreeTake,
         FreeNone, ReuseDat, ReuseIdx, AppendSeekDat, AppendDat, AppendSeekIdx, AppendIdx,
         StoreOverwrite, NextLock, NextTorn, NextEOF, NextRead, NextDat, StoreLink,
         StoreLinkExit, Goto
    <2> QED
      BY Zenon, <1>b, <1>1, <2>1, <2>2
  <1>2. CASE DeleteBlankIdx(p)
    <2>1. /\ pc[p] = "del_idx" /\ UNCHANGED datfile /\ idxoff[p] \in DOMAIN rec
          /\ rec'[idxoff[p]].key = Blank
      <3>1. pc[p] = "del_idx" /\ UNCHANGED datfile /\ idxoff[p] \in DOMAIN rec
        BY ZenonT(60), <1>a, <1>2 DEF DeleteBlankIdx, Goto, DataInv
      <3>2. PICK r \in [key : {Blank}, klen : {rec[idxoff[p]].klen}, datoff : {datoff[p]},
                       datlen : {datlen[p]}] : rec' = WriteAt(rec, idxoff[p], r)
        BY Zenon, <1>2 DEF DeleteBlankIdx, db_writeidx
      <3>3. rec'[idxoff[p]] = r /\ r.key = Blank
        BY Zenon, <3>2 DEF WriteAt
      <3> QED
        BY Zenon, <3>1, <3>3
    <2>2. o # idxoff[p] /\ o \in DOMAIN rec
      BY Zenon, <1>a, <2>1 DEF DataFrame
    <2>3. PICK q \in Procs : pc[q] = "del_idx" /\ idxoff[q] = o
      BY <1>a, <2>1, <2>2 DEF BlankInv, DataFrame, datfile
    <2> QED
      BY ZenonT(30), <1>b, <2>2, <2>3
  <1>3. CASE o \in DOMAIN rec /\ dat'[rec[o].datoff].val # dat[rec[o].datoff].val
    <2>1. /\ rec'[o].datoff = rec[o].datoff /\ rec[o].datoff = datoff[p]
          /\ pc[p] \in {"found", "reuse_dat"}
      BY Zenon, <1>a, <1>3 DEF DataFrame, DataExclusive
    <2>2. o = idxoff[p]
      BY Zenon, <1>a, <1>3, <2>1 DEF DataInv, DataExclusive
    <2>3. CASE DeleteBlankDat(p)
      <3>1. pc'[p] = "del_idx" /\ idxoff'[p] = idxoff[p]
        BY Zenon, <1>a, <2>3 DEF DeleteBlankDat, Goto, CallTypes, private, current
      <3> QED
        BY Zenon, <2>2, <3>1
    <2>4. CASE ReuseDat(p) \/ StoreOverwrite(p)
      <3>1. call[p].data \in Data
        BY Zenon, <2>4 DEF ReuseDat, StoreOverwrite, Goto, Replaces, IndInv, ListInv, CallInv,
           ChainLabels, NewLabels
      <3>2. PICK n : dat' = WriteAt(dat, datoff[p], [val |-> call[p].data, len |-> n])
        BY Zenon, <2>4 DEF ReuseDat, StoreOverwrite, db_writedat
      <3>3. dat'[datoff[p]].val = call[p].data
        BY Zenon, <3>2 DEF WriteAt
      <3> QED
        BY Zenon, <1>c, <2>1, <3>1, <3>3
    <2>5. DeleteBlankDat(p) \/ ReuseDat(p) \/ StoreOverwrite(p)
      <3>1. UNCHANGED dat \/ DeleteBlankDat(p) \/ ReuseDat(p) \/ StoreOverwrite(p)
                 \/ AppendDat(p)
        BY Zenon DEF Act, Step, Invoke, db_rewind, Finish, FindLock, FindNext, FindMatch, FindEnd,
           db_fetch, NotFound, InsertExists, DeleteBlankIdx, DeleteLinkFree, DeleteUnlink,
           StoreReread, StoreNew, FreeLock, FreeNext, FreeTake, FreeNone, ReuseIdx,
           AppendSeekDat, AppendSeekIdx, AppendIdx, NextLock, NextTorn, NextEOF, NextRead,
           NextDat, StoreLink, StoreLinkExit, Exit, datfile
      <3>2. ~AppendDat(p)
        BY Zenon, <2>1 DEF AppendDat, Goto
      <3> QED
        BY Zenon, <1>3, <3>1, <3>2
    <2> QED
      BY Zenon, <2>3, <2>4, <2>5
  \* a record is written, with data that is not blank
  <1>4. CASE (ReuseIdx(p) /\ o = idxoff[p]) \/ o \notin DOMAIN rec
    <2>1. /\ pc[p] \in {"reuse_idx", "app_idxw"} /\ rec'[o].datoff = datoff[p]
      BY Zenon, <1>a, <1>4 DEF DataFrame, DataInv, ReuseIdx, Goto
    <2>2. dat[datoff[p]].val = call[p].data /\ datoff[p] \in DOMAIN dat
      BY Zenon, <1>a, <2>1 DEF DataInv, DataExclusive
    <2>3. call[p].data \in Data
      BY Zenon, <2>1, StoreData DEF NewLabels
    <2>4. dat'[datoff[p]].val = dat[datoff[p]].val
      BY Zenon, <1>a, <2>1, <2>2 DEF DataFrame
    <2> QED
      BY Zenon, <1>c, <2>1, <2>2, <2>3, <2>4
  <1>5. ASSUME o \in DOMAIN rec, rec'[o].key # rec[o].key
        PROVE  DeleteBlankIdx(p) \/ (ReuseIdx(p) /\ o = idxoff[p])
    <2>1. o = idxoff[p] /\ pc[p] \in {"del_idx", "reuse_idx"}
      BY Zenon, <1>a, <1>5 DEF DataFrame
    <2>2. DeleteBlankIdx(p) \/ ReuseIdx(p)
      BY Zenon, <2>1 DEF Act, Step, Invoke, db_rewind, Finish, FindLock, FindNext, FindMatch, FindEnd,
         db_fetch, NotFound, InsertExists, DeleteBlankDat,
         DeleteLinkFree, DeleteUnlink, StoreReread, StoreNew, FreeLock, FreeNext, FreeTake,
         FreeNone, ReuseDat, AppendSeekDat, AppendDat, AppendSeekIdx, AppendIdx,
         StoreOverwrite, NextLock, NextTorn, NextEOF, NextRead, NextDat, StoreLink,
         StoreLinkExit, Goto
    <2> QED
      BY Zenon, <2>1, <2>2
  <1> QED
    BY Zenon, <1>1, <1>2, <1>3, <1>4, <1>5

-----------------------------------------------------------------------------
(* The theorems.                                                           *)

\* IndInv is inductive: every system call of every library function keeps it.
LEMMA NextInv == IndInv /\ [Next]_vars => IndInv'
  <1>1. ASSUME IndInv, NEW p \in Procs, Act(p)
        PROVE  IndInv'
    <2>1. TypeOK'
      BY Zenon, <1>1, FieldTypesStep, CallTypesStep, FileTypesStep, LockStep DEF TypeOK
    <2>2. LockInv' /\ CallInv' /\ HoldInv'
      BY Zenon, <1>1, LockStep, CallStep, HoldStep
    <2>3. Lists'
      BY Zenon, <1>1, ListsStep
    <2>4. DataExclusive' /\ BlankInv' /\ ProcInv'
      BY Zenon, <1>1, DataExclusiveStep, BlankStep, ProcStep
    <2> QED
      BY Zenon, <2>1, <2>2, <2>3, <2>4 DEF IndInv, ListInv, Lists
  <1>2. ASSUME IndInv, UNCHANGED vars
        PROVE  IndInv'
    <2> USE DEF vars, idxfile, datfile, locks, current
    <2>2. TypeOK'
      BY ZenonT(60), <1>2 DEF IndInv, ListInv, TypeOK, FileTypes, LockTypes, CallTypes, FieldTypes
    <2>3. LockInv' /\ CallInv' /\ HoldInv'
      BY ZenonT(60), <1>2 DEF IndInv, ListInv, LockInv, CallInv, HoldInv, Holds, chainoff
    <2>4. PtrInv' /\ OneReference' /\ RefInv'
      BY <1>2 DEF IndInv, ListInv, PtrInv, OneReference, RefInv, Class, Stale, Member, Held
    <2>5. DataExclusive' /\ BlankInv'
      BY ZenonT(60), <1>2 DEF IndInv, ListInv, DataExclusive, BlankInv
    <2>6. ProcInv'
      <3>1. ProcInv
        BY Zenon, <1>2 DEF IndInv, ListInv
      <3> SUFFICES ASSUME NEW p \in Procs
                   PROVE  (SearchInv(p) /\ DeleteInv(p) /\ StoreInv(p) /\ DataInv(p)
                             /\ ScanInv(p))'
        BY Zenon DEF ProcInv
      <3>a. \A c : (Member(c)' <=> Member(c)) /\ Class(c)' = Class(c)
        BY Zenon, <1>2 DEF Member, Held, Class
      <3>b. \A c : Stale(c)' <=> Stale(c)
        BY Zenon, <1>2, <3>a DEF Stale
      <3>c. \A c : /\ Unreferenced(c)' <=> Unreferenced(c)
                   /\ \A r : InUse(c, r)' <=> InUse(c, r)
        BY Zenon, <1>2, <3>a, <3>b DEF Unreferenced, InUse
      <3>2. SearchInv(p)' /\ ScanInv(p)'
        BY Zenon, <1>2, <3>1, <3>c DEF ProcInv, SearchInv, ScanInv, chainoff
      <3>3. DeleteInv(p)'
        BY Zenon, <1>2, <3>1, <3>a, <3>c DEF ProcInv, DeleteInv, chainoff
      <3>4. StoreInv(p)' /\ DataInv(p)'
        BY Zenon, <1>2, <3>1, <3>c DEF ProcInv, StoreInv, DataInv, chainoff, Held
      <3> QED
        BY ZenonT(60), <3>2, <3>3, <3>4
    <2>7. Ordered(Nat)'
      BY ZenonT(60), <1>2 DEF IndInv, Ordered, Falls, Deleting, Stale, Member, Held
    <2> QED
      BY ZenonT(60), <2>2, <2>3, <2>4, <2>5, <2>6, <2>7 DEF IndInv, ListInv
  <1> QED
    BY Zenon, <1>1, <1>2 DEF Next, Act

\* The inductive invariant of module DbInv holds in every state: the division of
\* the index file into lists, each changed under its own fcntl lock only.
THEOREM Invariance == Spec => []IndInv
  BY InitInv, NextInv, PTL DEF Spec

\* Every variable keeps its type; in particular concurrent appends of _db_writedat
\* and _db_writeidx leave no holes in the two files.
THEOREM TypeCorrect == Spec => []TypeOK
  <1>1. IndInv => TypeOK
    BY ZenonT(60) DEF IndInv, ListInv
  <1> QED
    BY <1>1, Invariance, PTL

\* No record is on two lists or twice on one, whatever db_store and db_delete
\* calls of whatever processes interleave.
THEOREM NoSharedRecord == Spec => []OneReference
  <1>1. IndInv => OneReference
    BY ZenonT(60) DEF IndInv, ListInv
  <1> QED
    BY <1>1, Invariance, PTL

\* No two index records share a data record, and lengths agree, so the newline
\* check of _db_readdat never fails.
THEOREM NoSharedData == Spec => []DataExclusive
  <1>1. IndInv => DataExclusive
    BY ZenonT(60) DEF IndInv, ListInv
  <1> QED
    BY <1>1, Invariance, PTL

\* The process that blanks a record holds the free list lock and the lock of the
\* record's chain, and every reader holds one of the two.
LEMMA ReadsWhole ==
    ASSUME IndInv
    PROVE  NoBlankRead
  <1>a. /\ LockInv /\ CallInv /\ HoldInv /\ BlankInv /\ ProcInv
    BY ZenonT(60) DEF IndInv, ListInv
  <1> SUFFICES ASSUME NEW p \in Procs,
                      pc[p] = "next_dat" \/ (pc[p] = "found" /\ call[p].op = "fetch")
               PROVE  rec[idxoff[p]].key # Blank /\ dat[datoff[p]].val # Blank
    BY ZenonT(60) DEF NoBlankRead
  <1>1. /\ idxoff[p] \in DOMAIN rec /\ rec[idxoff[p]].key # Blank
        /\ datoff[p] = rec[idxoff[p]].datoff
    BY ZenonT(60), <1>a DEF ProcInv, ScanInv, SearchInv, DataInv
  <1>2. SUFFICES ASSUME NEW q \in Procs, pc[q] = "del_idx", idxoff[q] = idxoff[p]
                 PROVE  FALSE
    BY ZenonT(60), <1>a, <1>1 DEF BlankInv
  <1>3. q \in wlock[FREE_OFF] /\ call[q].op # "fetch" /\ q \in wlock[chainoff(q)]
    BY ZenonT(60), <1>a, <1>2 DEF HoldInv, Holds, CallInv, FreeLabels, DelLabels, ChainLabels
  <1>4. CASE pc[p] = "next_dat"
    <2>1. p \in rlock[FREE_OFF]
      BY ZenonT(60), <1>a, <1>4 DEF HoldInv, Holds
    <2> QED
      BY ZenonT(60), <1>a, <1>3, <2>1, RegionRange DEF LockInv
  <1>5. CASE pc[p] = "found" /\ call[p].op = "fetch"
    <2>1. chainoff(p) = chainoff(q)
      BY <1>a, <1>2, <1>5 DEF ProcInv, SearchInv, InUse
    <2>2. p \in rlock[chainoff(p)]
      BY Zenon, <1>a, <1>5 DEF HoldInv, Holds, ChainLabels
    <2>3. chainoff(q) \in Regions
      BY ZenonT(60), <1>a, <1>2, ChainRegion DEF ChainLabels, DelLabels
    <2> QED
      BY ZenonT(60), <1>a, <1>3, <2>1, <2>2, <2>3 DEF LockInv
  <1> QED
    BY ZenonT(60), <1>4, <1>5

\* What db_fetch and db_nextrec return is never a half deleted record.
THEOREM NoHalfDeletedRead == Spec => []NoBlankRead
  BY ReadsWhole, Invariance, PTL

-----------------------------------------------------------------------------
(* No circles.                                                             *)

INSTANCE WellFoundedInduction

\* Of the records of a set, the one with the least rank points out of the set.
LEMMA RanksEnd ==
    ASSUME IndInv
    PROVE  Acyclic
  <1> SUFFICES ASSUME NEW S \in SUBSET DOMAIN rec, S # {}
               PROVE  \E c \in S : Stale(c) \/ ptr[c] \notin S
    BY ZenonT(60) DEF Acyclic
  <1>1. PICK rank \in [DOMAIN rec -> Nat] : Falls(rank)
    BY ZenonT(60) DEF IndInv, Ordered
  <1> DEFINE T == {rank[c] : c \in S}
  <1>2. T \in SUBSET Nat /\ T # {}
    BY ZenonT(60), <1>1
  <1>3. PICK n \in T : \A m \in T : ~(<<m, n>> \in OpToRel(<, Nat))
    <2> HIDE DEF T
    <2> QED
      BY <1>2, NatLessThanWellFounded, WFMin, Zenon
  <1>4. PICK c \in S : rank[c] = n
    BY ZenonT(60), <1>3
  <1>5. \A m \in T : ~(m < n)
    <2> TAKE m \in T
    <2>1. m \in Nat /\ n \in Nat
      BY ZenonT(60), <1>2
    <2> QED
      BY ZenonT(60), <1>3, <2>1 DEF OpToRel
  <1>6. ptr[c] \in S /\ ~Stale(c) => rank[ptr[c]] < rank[c]
    <2>1. \A o \in DOMAIN rec : o # 0
      BY Domains DEF IndInv, ListInv
    <2> QED
      BY ZenonT(60), <1>1, <1>4, <2>1 DEF Falls
  <1> QED
    BY ZenonT(60), <1>4, <1>5, <1>6

\* No chain and no free list has a cycle: the loops of _db_find_and_lock,
\* _db_findfree and of every reader end.
THEOREM NoCircle == Spec => []Acyclic
  BY RanksEnd, Invariance, PTL
=============================================================================
