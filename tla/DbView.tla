------------------------------- MODULE DbView -------------------------------
(***************************************************************************)
(* What the files of module Db amount to, seen as lists and as a map.      *)
(***************************************************************************)
EXTENDS DbInv

\* The records of a list from offset o on: the least set of records that has
\* the one at o and with every record the next one.
Closed(S) == \A x \in S : ptr[x] \in S \cup {0}
From(o) ==
    {x \in DOMAIN rec :
        \A S \in SUBSET DOMAIN rec : (Closed(S) /\ o \in S \cup {0}) => x \in S}

\* Records reached from the chain ptr field at offset c.
Reach(c) == From(ptr[c])

\* A chain, with the rest of it that only a deleting process knows while a
\* record is moved to the free list.
Chain(c) == Reach(c) \cup
    UNION {From(saveoff[p]) : p \in {q \in Procs : Deleting(q) /\ chainoff(q) = c}}

\* Every record that fits a chain ptr can be found again: it is on a hash
\* chain or on the free list, or a process that took or appended it is about
\* to link it.  No interleaving loses a record or the tail of a chain.
NoRecordLost ==
    LET listed == UNION {Chain(c) : c \in FREE_OFF .. NHASH}
    IN \A o \in (FirstRec .. (idxsize - 1)) \ listed :
          o <= PTR_MAX => \E p \in Procs : Held(p, o)

\* A hash chain holds only records whose key hashes to it, each key at most
\* once, and the free list only blank records.  A chain a record is being
\* deleted from may show blank records, to the deleting process alone.
ChainsSound ==
    /\ \A o \in Reach(FREE_OFF) : rec[o].key = Blank
    /\ \A c \in HASH_OFF .. NHASH :
          LET chain == Chain(c)
              keyed == {o \in chain : rec[o].key # Blank}
          IN /\ \A o \in keyed : ChainOff(rec[o].key) = c
             /\ \A o1, o2 \in keyed : rec[o1].key = rec[o2].key => o1 = o2
             /\ chain = keyed \/ \E p \in Procs : Deleting(p) /\ chainoff(p) = c

-----------------------------------------------------------------------------
(* The files as a map.  A delete takes effect when it blanks the data, a   *)
(* store when it blanks or overwrites the data or, for a new key, when it  *)
(* starts to look for a record: from there on the chain lock hides the     *)
(* intermediate states.                                                    *)

CommitLabels == DelLabels \cup {"reread"} \cup NewLabels
Committed(p) == pc[p] \in CommitLabels

MapValue(k) ==
    LET writers == {p \in Procs : Committed(p) /\ call[p].key = k}
        found == {o \in Chain(ChainOff(k)) : rec[o].key = k}
    IN IF writers # {} THEN call[CHOOSE p \in writers : TRUE].data
       ELSE IF found # {} THEN dat[rec[CHOOSE o \in found : TRUE].datoff].val
       ELSE None

MapGhosts ==
    {<<rec[o].key, dat[rec[o].datoff].val>> :
        o \in {x \in DOMAIN rec : x > PTR_MAX /\ ~ \E p \in Procs : Held(p, x)}}

StatusAt(label) ==
    CASE label \in {"idle", "dead"} -> label
      [] label \in {"done"} \cup CommitLabels -> "applied"
      [] OTHER -> "called"

MapRet(p) == IF Committed(p) THEN <<None, "ok">> ELSE ret[p]

values == [k \in Keys |-> MapValue(k)]
statuses == [p \in Procs |-> StatusAt(pc[p])]
returns == [p \in Procs |-> MapRet(p)]

Map == INSTANCE DbMap WITH
          kv <- values, ghosts <- MapGhosts, status <- statuses, ret <- returns

\* Every call is atomic for its caller: db_fetch, db_store, db_delete and
\* db_nextrec, run by any processes in any interleaving, act as operations on
\* one map.
Linearizable == Map!MapSpec

\* Calls never block each other for ever: if from some point on no process
\* makes a new call, every call under way returns (or exits).
Progress ==
    \/ []<><<\E p \in Procs : Invoke(p)>>_vars
    \/ <>[](\A p \in Procs : pc[p] \in {"idle", "dead"})

-----------------------------------------------------------------------------
(* The invariant behind NoRecordLost, ChainsSound and Linearizable, on top *)
(* of IndInv.                                                              *)

\* Every record on a list is pointed to by a field in use, or is the rest of a
\* chain that a deleting process keeps in saveptr.
CoverInv ==
    \A o \in DOMAIN rec :
        Member(o) => \/ \E c \in DOMAIN ptr : ~Stale(c) /\ ptr[c] = o
                     \/ \E p \in Procs : Deleting(p) /\ saveoff[p] = o

\* The records of key k that are on a list: at most one.
Keyed(k) == {o \in DOMAIN rec : Member(o) /\ rec[o].key = k}
KeyInv == \A k \in Keys : \A o1, o2 \in Keyed(k) : o1 = o2

\* A search has not passed its key; after it ends the chain lock keeps what
\* it found, or that there is nothing to find.
FindInv(p) ==
    /\ pc[p] = "search" => Keyed(call[p].key) \subseteq From(offset[p])
    /\ pc[p] \in {"found", "del_idx"} => rec[idxoff[p]].key = call[p].key
    /\ pc[p] \in {"missing", "del_free", "del_unlink", "reread"} \cup NewLabels =>
          Keyed(call[p].key) = {}
    /\ pc[p] = "del_unlink" => ptr[ptroff[p]] = idxoff[p]

\* What a call will return or leave behind.
CallerInv(p) ==
    /\ call[p] \in Calls \cup {NoCall}
    /\ pc[p] # "done" => ret[p] = NoRet
    /\ pc[p] \in {"reuse_dat", "reuse_idx"} => rec[idxoff[p]].key = Blank
    /\ pc[p] = "link" => dat[rec[idxoff[p]].datoff].val = call[p].data
    /\ pc[p] \in {"scan", "next", "next_dat"} =>
          call[p].op = "nextrec" /\ (Rewinds => scanning[p])
    /\ scanning[p] => fpos[p] >= FirstRec /\ pc[p] \notin ChainLabels \cup {"lock"}

ViewInv ==
    CoverInv /\ KeyInv /\ \A p \in Procs : FindInv(p) /\ CallerInv(p)

\* What the calls of db.c rely on from one system call to the next, whoever else
\* is at work: the lists and locks of IndInv, with ranks that can be enumerated,
\* what a search has passed and found, and what the call is going to return.
ViewInvBounded == IndInvBounded /\ ViewInv

=============================================================================
