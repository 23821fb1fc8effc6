------------------------------- MODULE DbInv --------------------------------
(***************************************************************************)
(* The inductive invariant behind OneReference, Acyclic and DataExclusive. *)
(* Its core is a division of labour by locks: every list head or record    *)
(* belongs to one class, the hash chain of its key or the free list, and   *)
(* only a process with the write lock on that class changes it.            *)
(***************************************************************************)
EXTENDS Db

DelLabels == {"del_idx", "del_free", "del_unlink"}
FreeLabels == DelLabels \cup {"free_walk"}
NewLabels == {"free_lock", "free_walk", "reuse_dat", "reuse_idx", "app_dat",
              "app_datw", "app_idx", "app_idxw", "link"}
ChainLabels == {"search", "found", "missing", "reread"} \cup DelLabels \cup NewLabels

\* The list a chain ptr field belongs to, named by the offset of its head.
Class(c) ==
    IF c <= NHASH THEN c
    ELSE IF rec[c].key = Blank THEN FREE_OFF ELSE ChainOff(rec[c].key)

\* A write lock excludes every other lock on the region.
LockInv ==
    \A r \in Regions : \A p \in wlock[r] : wlock[r] = {p} /\ rlock[r] = {}

\* What the label of a process says about its call and its locks.
CallInv ==
    \A p \in Procs :
        /\ pc[p] \in ChainLabels \cup {"lock"} =>
              /\ call[p].key \in Keys
              /\ call[p].op \in {"fetch", "delete", "store"}
              /\ call[p].op = "store" => call[p].data \in Data
        /\ pc[p] \in DelLabels => call[p].op # "fetch"
        /\ pc[p] \in NewLabels \cup {"reread"} => call[p].op = "store"

Holds(p) ==
    /\ pc[p] \in ChainLabels =>
          IF call[p].op = "fetch" THEN p \in rlock[chainoff(p)]
                                  ELSE p \in wlock[chainoff(p)]
    /\ pc[p] \in FreeLabels => p \in wlock[FREE_OFF]
    /\ pc[p] \in {"next", "next_dat"} => p \in rlock[FREE_OFF]
    /\ pc[p] = "app_datw" => p \in wlock[DAT_FILE]
    /\ pc[p] = "app_idxw" => p \in wlock[IDX_END]

HoldInv == \A p \in Procs : Holds(p)

\* A chain ptr is 0 or the offset of a record, and it fits its field.
PtrInv ==
    \A c \in DOMAIN ptr :
        ptr[c] # 0 => ptr[c] \in DOMAIN rec /\ ptr[c] <= PTR_MAX

\* A field in use points into its own list; one exception, while its record
\* is blank and not yet unlinked.
RefInv ==
    \A c \in DOMAIN ptr :
        (~Stale(c) /\ ptr[c] # 0) =>
            /\ Member(ptr[c])
            /\ \/ Class(ptr[c]) = Class(c)
               \/ \E q \in Procs :
                    pc[q] = "del_free" /\ ptroff[q] = c /\ idxoff[q] = ptr[c]

\* The field at o is in use and belongs to the list of class r.
InUse(o, r) == o \in DOMAIN ptr /\ ~Stale(o) /\ Class(o) = r

\* No field in use points to o.
Unreferenced(o) == \A c \in DOMAIN ptr : ~Stale(c) => ptr[c] # o

SearchInv(p) ==
    /\ pc[p] \in {"search", "found", "del_idx", "del_free"} =>
          InUse(ptroff[p], chainoff(p))
    /\ pc[p] = "search" => ptr[ptroff[p]] = offset[p]
    /\ pc[p] \in {"found", "del_idx", "del_free"} =>
          idxoff[p] \in DOMAIN rec /\ ptr[ptroff[p]] = idxoff[p]
    /\ pc[p] \in {"found", "del_idx"} =>
          /\ InUse(idxoff[p], chainoff(p))
          /\ ptrval[p] = ptr[idxoff[p]]
          /\ rec[idxoff[p]].key # Blank

DeleteInv(p) ==
    /\ pc[p] \in {"del_free", "del_unlink"} =>
          /\ idxoff[p] \in DOMAIN rec /\ Member(idxoff[p]) /\ rec[idxoff[p]].key = Blank
          /\ saveoff[p] # 0 =>
                /\ saveoff[p] \in DOMAIN rec /\ Member(saveoff[p])
                /\ Class(saveoff[p]) = chainoff(p)
                /\ Unreferenced(saveoff[p])
    /\ pc[p] = "del_free" => ptr[idxoff[p]] = ptr[FREE_OFF]
    /\ pc[p] = "del_unlink" =>
          ptroff[p] \in DOMAIN ptr /\ Member(ptroff[p]) /\ Class(ptroff[p]) = chainoff(p)

StoreInv(p) ==
    /\ pc[p] \in NewLabels => newptr[p] = ptr[chainoff(p)]
    /\ pc[p] = "free_walk" =>
          InUse(saveoff[p], FREE_OFF) /\ ptr[saveoff[p]] = offset[p]
    /\ pc[p] \in {"reuse_dat", "reuse_idx", "link"} =>
          /\ idxoff[p] \in DOMAIN rec
          /\ Unreferenced(idxoff[p])
          /\ \A q \in Procs : Held(q, idxoff[p]) => q = p
    /\ pc[p] = "app_idxw" => idxoff[p] = idxsize
    /\ pc[p] = "link" => ptr[idxoff[p]] = newptr[p] /\ rec[idxoff[p]].key = call[p].key

\* The data record the process is about to write belongs to its index record,
\* or is not yet named by any.
DataInv(p) ==
    /\ pc[p] \in {"found", "del_idx", "reuse_dat", "reuse_idx"} =>
          /\ idxoff[p] \in DOMAIN rec
          /\ datoff[p] = rec[idxoff[p]].datoff
          /\ datlen[p] = rec[idxoff[p]].datlen
    /\ pc[p] \in {"reuse_dat", "reuse_idx"} => datlen[p] = DatLen[call[p].data]
    /\ pc[p] \in {"reuse_idx", "app_idx", "app_idxw"} => dat[datoff[p]].val = call[p].data
    /\ pc[p] = "app_datw" => datoff[p] = datsize
    /\ pc[p] \in {"app_idx", "app_idxw"} =>
          /\ datoff[p] \in DOMAIN dat /\ dat[datoff[p]].len = datlen[p]
          /\ \A o \in DOMAIN rec : rec[o].datoff # datoff[p]
          /\ \A q \in Procs : (pc[q] \in {"app_idx", "app_idxw"}
                                /\ datoff[q] = datoff[p]) => q = p

ScanInv(p) ==
    pc[p] = "next_dat" =>
        /\ idxoff[p] \in DOMAIN rec /\ rec[idxoff[p]].key # Blank
        /\ datoff[p] = rec[idxoff[p]].datoff

ProcInv ==
    \A p \in Procs :
        SearchInv(p) /\ DeleteInv(p) /\ StoreInv(p) /\ DataInv(p) /\ ScanInv(p)

\* Only a process that is deleting a record has blanked its data and not yet
\* its key.
BlankInv ==
    \A o \in DOMAIN rec :
        (rec[o].key # Blank /\ dat[rec[o].datoff].val = Blank) =>
            \E q \in Procs : pc[q] = "del_idx" /\ idxoff[q] = o

\* Ranks that fall along every list, from record to record: they exist only
\* when no list has a cycle.  A record that is being deleted keeps a place
\* between its neighbours.
Falls(rank) ==
    /\ \A c \in DOMAIN rec :
          (~Stale(c) /\ ptr[c] # 0) => rank[ptr[c]] < rank[c]
    /\ \A p \in Procs :
          (Deleting(p) /\ saveoff[p] # 0 /\ ptroff[p] \in DOMAIN rec) =>
              rank[saveoff[p]] < rank[ptroff[p]]

Ordered(S) == \E rank \in [DOMAIN rec -> S] : Falls(rank)

ListInv ==
    /\ TypeOK /\ LockInv /\ CallInv /\ HoldInv
    /\ PtrInv /\ RefInv /\ OneReference /\ DataExclusive /\ BlankInv /\ ProcInv

IndInv == ListInv /\ Ordered(Nat)

\* The same with ranks from a set that can be enumerated.
IndInvBounded == ListInv /\ Ordered(0 .. (idxsize - NHASH))

=============================================================================
