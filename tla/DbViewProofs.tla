---------------------------- MODULE DbViewProofs ----------------------------
(***************************************************************************)
(* The lists and the map the files of the database library amount to: no   *)
(* interleaving loses a record, every chain holds the right records, and   *)
(* the calls act on one map.                                               *)
(***************************************************************************)
EXTENDS DbView, DbProofs

-----------------------------------------------------------------------------
(* Lists as sets of records.                                               *)

\* A list from one of its records on: it has that record and with every record
\* the next, and no more than that.
LEMMA FromFacts ==
    ASSUME IndInv, NEW o
    PROVE  /\ From(o) \subseteq DOMAIN rec /\ Closed(From(o))
           /\ o \in DOMAIN rec => o \in From(o)
           /\ \A S \in SUBSET DOMAIN rec : (Closed(S) /\ o \in S \cup {0}) => From(o) \subseteq S
  <1>1. /\ 0 \notin DOMAIN rec
        /\ \A x \in DOMAIN rec : ptr[x] # 0 => ptr[x] \in DOMAIN rec
    <2>1. TypeOK /\ PtrInv
      BY Zenon DEF IndInv, ListInv
    <2>2. DOMAIN rec = (NHASH + 1) .. (idxsize - 1) /\ NHASH \in Nat /\ DOMAIN rec \subseteq DOMAIN ptr
      BY Zenon, <2>1, Domains
    <2> QED
      BY <2>1, <2>2 DEF PtrInv
  <1>2. Closed(From(o))
    BY Zenon, <1>1 DEF Closed, From
  <1> QED
    BY Zenon, <1>1, <1>2 DEF From

\* A chain is closed under its chain ptr fields, and starts at its head and at
\* what the processes deleting from it keep in saveptr.
LEMMA ChainFacts ==
    ASSUME IndInv, NEW c
    PROVE  /\ Chain(c) \subseteq DOMAIN rec /\ Closed(Chain(c))
           /\ (c \in DOMAIN ptr /\ ptr[c] # 0) => ptr[c] \in Chain(c)
           /\ \A q \in Procs : (Deleting(q) /\ chainoff(q) = c /\ saveoff[q] # 0) =>
                 saveoff[q] \in Chain(c)
  <1>1. PtrInv /\ ProcInv
    BY Zenon DEF IndInv, ListInv
  <1>2. Chain(c) \subseteq DOMAIN rec /\ Closed(Chain(c))
    <2> SUFFICES ASSUME NEW x \in Chain(c)
                 PROVE  x \in DOMAIN rec /\ ptr[x] \in Chain(c) \cup {0}
      BY Zenon DEF Closed
    <2>1. PICK o : x \in From(o) /\ From(o) \subseteq Chain(c)
      BY Zenon DEF Chain, Reach
    <2>2. From(o) \subseteq DOMAIN rec /\ Closed(From(o))
      BY Zenon, FromFacts
    <2> QED
      BY Zenon, <2>1, <2>2 DEF Closed
  <1>3. (c \in DOMAIN ptr /\ ptr[c] # 0) => ptr[c] \in Chain(c)
    BY Zenon, <1>1, FromFacts DEF Chain, Reach, PtrInv
  <1>4. ASSUME NEW q \in Procs, Deleting(q), chainoff(q) = c, saveoff[q] # 0
        PROVE  saveoff[q] \in Chain(c)
    <2>1. saveoff[q] \in DOMAIN rec
      BY Zenon, <1>1, <1>4 DEF ProcInv, DeleteInv, Deleting
    <2>2. saveoff[q] \in From(saveoff[q])
      BY Zenon, <2>1, FromFacts
    <2> QED
      BY Zenon, <1>4, <2>2 DEF Chain
  <1> QED
    BY Zenon, <1>2, <1>3, <1>4

\* Whatever closed set holds the starts of a chain holds the chain.
LEMMA ChainWithin ==
    ASSUME IndInv, NEW c, NEW S \in SUBSET DOMAIN rec, Closed(S), ptr[c] \in S \cup {0},
           \A q \in Procs : (Deleting(q) /\ chainoff(q) = c) => saveoff[q] \in S \cup {0}
    PROVE  Chain(c) \subseteq S
  <1> SUFFICES ASSUME NEW x \in Chain(c) PROVE x \in S
    BY Zenon
  <1>1. PICK o : x \in From(o) /\ o \in S \cup {0}
    BY Zenon DEF Chain, Reach
  <1>2. From(o) \subseteq S
    BY Zenon, <1>1, FromFacts
  <1> QED
    BY Zenon, <1>1, <1>2

\* The class of a record: the free list if it is blank, else the chain its key
\* hashes to.
LEMMA RecordClass ==
    ASSUME IndInv, NEW o \in DOMAIN rec
    PROVE  /\ rec[o].key = Blank => Class(o) = FREE_OFF
           /\ rec[o].key # Blank => /\ rec[o].key \in Keys /\ Class(o) = ChainOff(rec[o].key)
                                    /\ Class(o) \in 1 .. NHASH /\ Class(o) # FREE_OFF
           /\ o \in DOMAIN ptr /\ o \notin 0 .. NHASH /\ o # 0
  <1>1. /\ TypeOK /\ FileTypes
    BY Zenon DEF IndInv, ListInv, TypeOK
  <1>2. /\ DOMAIN rec = (NHASH + 1) .. (idxsize - 1) /\ NHASH \in Nat /\ o \in DOMAIN ptr
    BY Zenon, <1>1, Domains
  <1>3. o > NHASH /\ o \in Int /\ ~(o <= NHASH) /\ o \notin 0 .. NHASH /\ o # 0
    BY <1>2
  <1>4. rec[o].key \in Keys \cup {Blank}
    BY Zenon, <1>1 DEF FileTypes, Record
  <1>5. /\ rec[o].key = Blank => Class(o) = FREE_OFF
        /\ rec[o].key # Blank => rec[o].key \in Keys /\ Class(o) = ChainOff(rec[o].key)
    BY Zenon, <1>3, <1>4 DEF Class
  <1> QED
    BY Zenon, <1>2, <1>3, <1>5, HashRange, RegionRange

\* Where the chain ptr field of a record on a list, or of a list head, leads:
\* further down its list, or from a chain a record is being deleted from to the
\* free list.
LEMMA MemberTarget ==
    ASSUME IndInv, ViewInv, NEW x \in DOMAIN ptr, Member(x), ptr[x] # 0
    PROVE  /\ ptr[x] \in DOMAIN rec /\ Member(ptr[x])
           /\ \/ Class(ptr[x]) = Class(x)
              \/ /\ Class(ptr[x]) = FREE_OFF /\ Class(x) # FREE_OFF
                 /\ \E q \in Procs : Deleting(q) /\ chainoff(q) = Class(x)
  <1>a. PtrInv /\ RefInv /\ ProcInv
    BY Zenon DEF IndInv, ListInv
  <1>b. \A q \in Procs : Deleting(q) =>
            /\ chainoff(q) # FREE_OFF
            /\ idxoff[q] \in DOMAIN rec /\ Member(idxoff[q]) /\ Class(idxoff[q]) = FREE_OFF
    <2> SUFFICES ASSUME NEW q \in Procs, Deleting(q)
                 PROVE  /\ chainoff(q) # FREE_OFF
                        /\ idxoff[q] \in DOMAIN rec /\ Member(idxoff[q])
                        /\ Class(idxoff[q]) = FREE_OFF
      BY Zenon
    <2>1. call[q].key \in Keys
      BY Zenon DEF IndInv, ListInv, CallInv, Deleting, ChainLabels, DelLabels
    <2>2. chainoff(q) # FREE_OFF
      BY Zenon, <2>1, RegionRange DEF chainoff
    <2>3. idxoff[q] \in DOMAIN rec /\ Member(idxoff[q]) /\ rec[idxoff[q]].key = Blank
      BY Zenon, <1>a DEF ProcInv, DeleteInv, Deleting
    <2> QED
      BY Zenon, <2>2, <2>3, RecordClass
  <1>c. ptr[x] \in DOMAIN rec
    BY Zenon, <1>a DEF PtrInv
  <1>1. CASE ~Stale(x)
    <2>1. /\ Member(ptr[x])
          /\ \/ Class(ptr[x]) = Class(x)
             \/ \E q \in Procs : pc[q] = "del_free" /\ ptroff[q] = x /\ idxoff[q] = ptr[x]
      BY Zenon, <1>a, <1>1 DEF RefInv
    <2>2. ASSUME NEW q \in Procs, pc[q] = "del_free", ptroff[q] = x, idxoff[q] = ptr[x]
          PROVE  /\ Class(ptr[x]) = FREE_OFF /\ Class(x) # FREE_OFF
                 /\ Deleting(q) /\ chainoff(q) = Class(x)
      <3>1. Deleting(q) /\ chainoff(q) = Class(x)
        BY Zenon, <1>a, <2>2 DEF ProcInv, SearchInv, InUse, Deleting
      <3> QED
        BY Zenon, <1>b, <2>2, <3>1
    <2> QED
      BY Zenon, <1>c, <2>1, <2>2
  <1>2. ASSUME NEW q \in Procs, pc[q] = "del_free", idxoff[q] = x
        PROVE  Member(ptr[x]) /\ Class(ptr[x]) = Class(x)
    <2>1. /\ Class(x) = FREE_OFF /\ ptr[x] = ptr[FREE_OFF]
      BY Zenon, <1>a, <1>b, <1>2 DEF ProcInv, DeleteInv, Deleting
    <2>2. FREE_OFF \in 0 .. NHASH
      BY DbAssumption DEF FREE_OFF
    <2>3. /\ FREE_OFF \in DOMAIN ptr /\ ~Stale(FREE_OFF) /\ Class(FREE_OFF) = FREE_OFF
          /\ \A r \in Procs : pc[r] = "del_free" => ptroff[r] # FREE_OFF
      BY Zenon, <2>2, Heads DEF InUse
    <2> QED
      BY Zenon, <2>1, <2>3, SameClass
  <1>3. ASSUME NEW q \in Procs, pc[q] = "del_unlink", ptroff[q] = x
        PROVE  /\ Member(ptr[x]) /\ Class(ptr[x]) = FREE_OFF /\ Class(x) # FREE_OFF
               /\ Deleting(q) /\ chainoff(q) = Class(x)
    <2>1. ptr[x] = idxoff[q] /\ Deleting(q) /\ chainoff(q) = Class(x)
      BY Zenon, <1>a, <1>3 DEF ViewInv, FindInv, ProcInv, DeleteInv, Deleting
    <2> QED
      BY Zenon, <1>b, <2>1
  <1> QED
    BY Zenon, <1>c, <1>1, <1>2, <1>3 DEF Stale

\* What the records of a chain are: records on lists, of the chain's class, or
\* blank while a record is being deleted from the chain.
LEMMA ChainClass ==
    ASSUME IndInv, ViewInv, NEW c \in 0 .. NHASH
    PROVE  /\ \A o \in Chain(c) : /\ o \in DOMAIN rec /\ Member(o)
                                  /\ Class(o) = c \/ Class(o) = FREE_OFF
           /\ (~ \E q \in Procs : Deleting(q) /\ chainoff(q) = c) =>
                 \A o \in Chain(c) : Class(o) = c
  <1> DEFINE S == {o \in DOMAIN rec : Member(o) /\ (Class(o) = c \/ Class(o) = FREE_OFF)}
             T == {o \in DOMAIN rec : Member(o) /\ Class(o) = c}
  <1>1. c \in DOMAIN ptr /\ Member(c) /\ Class(c) = c
    BY Zenon, Heads
  <1>2. DOMAIN rec \subseteq DOMAIN ptr
    BY Zenon, RecordClass
  <1>3. \A q \in Procs : (Deleting(q) /\ chainoff(q) = c) => saveoff[q] \in S \cup {0}
    BY Zenon DEF IndInv, ListInv, ProcInv, DeleteInv, Deleting
  <1>4. Closed(S) /\ ptr[c] \in S \cup {0}
    BY Zenon, <1>1, <1>2, MemberTarget DEF Closed
  <1>5. Chain(c) \subseteq S
    BY Zenon, <1>3, <1>4, ChainWithin
  <1>6. ASSUME ~ \E q \in Procs : Deleting(q) /\ chainoff(q) = c
        PROVE  Chain(c) \subseteq T
    <2>1. Closed(T) /\ ptr[c] \in T \cup {0}
      BY Zenon, <1>1, <1>2, <1>6, MemberTarget DEF Closed
    <2> QED
      BY Zenon, <1>6, <2>1, ChainWithin
  <1> QED
    BY Zenon, <1>5, <1>6

\* The hash chains hold the records whose keys hash to them, each key at most
\* once; the free list holds blank records.
LEMMA SoundChains ==
    ASSUME IndInv, ViewInv
    PROVE  ChainsSound
  <1>1. ASSUME NEW o \in Reach(FREE_OFF)
        PROVE  rec[o].key = Blank
    <2>1. o \in Chain(FREE_OFF) /\ FREE_OFF \in 0 .. NHASH
      BY DbAssumption DEF Chain, FREE_OFF
    <2> QED
      BY Zenon, <2>1, ChainClass, RecordClass
  <1>2. ASSUME NEW c \in HASH_OFF .. NHASH
        PROVE  /\ \A o \in Chain(c) : rec[o].key # Blank => ChainOff(rec[o].key) = c
               /\ \A o1, o2 \in Chain(c) :
                     (rec[o1].key # Blank /\ rec[o1].key = rec[o2].key) => o1 = o2
               /\ \/ \A o \in Chain(c) : rec[o].key # Blank
                  \/ \E p \in Procs : Deleting(p) /\ chainoff(p) = c
    <2>1. c \in 0 .. NHASH /\ c # FREE_OFF
      BY DbAssumption DEF HASH_OFF, FREE_OFF
    <2>2. \A o \in Chain(c) : rec[o].key # Blank => ChainOff(rec[o].key) = c
      BY Zenon, <2>1, ChainClass, RecordClass
    <2>3. ASSUME NEW o1 \in Chain(c), NEW o2 \in Chain(c), rec[o1].key # Blank,
                 rec[o1].key = rec[o2].key
          PROVE  o1 = o2
      <3>1. rec[o1].key \in Keys /\ o1 \in Keyed(rec[o1].key) /\ o2 \in Keyed(rec[o1].key)
        BY Zenon, <2>1, <2>3, ChainClass, RecordClass DEF Keyed
      <3> QED
        BY Zenon, <3>1 DEF ViewInv, KeyInv
    <2>4. \/ \A o \in Chain(c) : rec[o].key # Blank
          \/ \E p \in Procs : Deleting(p) /\ chainoff(p) = c
      BY Zenon, <2>1, ChainClass, RecordClass
    <2> QED
      BY Zenon, <2>2, <2>3, <2>4
  <1> QED
    BY Zenon, <1>1, <1>2 DEF ChainsSound

-----------------------------------------------------------------------------
(* Every record on a list is found on it.                                  *)

\* A set of naturals has a least element.
LEMMA LeastNumber ==
    ASSUME NEW T \in SUBSET Nat, T # {}
    PROVE  \E n \in T : \A m \in T : n <= m
  <1>1. PICK n \in T : \A m \in T : ~(<<m, n>> \in OpToRel(<, Nat))
    BY NatLessThanWellFounded, WFMin, Zenon
  <1>2. ASSUME NEW m \in T PROVE n <= m
    <2>1. ~(m < n)
      BY Zenon, <1>1 DEF OpToRel
    <2> QED
      BY <2>1
  <1> QED
    BY Zenon, <1>2

\* Two ranks have a common bound.
LEMMA Above ==
  ASSUME NEW n \in Nat, NEW m \in Nat
  PROVE  \E k \in Nat : n <= k /\ m <= k
  OBVIOUS

\* The ranks of the records of an index file are bounded.
LEMMA RankBound ==
    ASSUME NEW a \in Int, NEW b \in Int, NEW rank \in [a .. b -> Nat]
    PROVE  \E n \in Nat : \A x \in a .. b : rank[x] <= n
  <1> DEFINE Bounded(m) == \E n \in Nat : \A x \in a .. b : x <= a + m => rank[x] <= n
             T == {m \in Nat : ~Bounded(m)}
  <1>1. CASE T = {}
    <2>1. CASE a <= b
      <3>1. b - a \in Nat
        BY <2>1
      <3>2. PICK n \in Nat : \A x \in a .. b : x <= a + (b - a) => rank[x] <= n
        BY Zenon, <1>1, <3>1
      <3> QED
        BY <3>2
    <2>2. CASE ~(a <= b)
      BY <2>2
    <2> QED
      BY Zenon, <2>1, <2>2
  <1>2. CASE T # {}
    <2>1. PICK m \in T : \A k \in T : m <= k
      <3> HIDE DEF T
      <3>1. T \in SUBSET Nat
        BY Zenon DEF T
      <3> QED
        BY Zenon, <1>2, <3>1, LeastNumber
    <2>2. CASE m = 0
      <3>1. CASE a <= b
        <4>1. a \in a .. b /\ rank[a] \in Nat
          BY <3>1
        <4>2. \A x \in a .. b : x <= a + 0 => rank[x] <= rank[a]
          BY <4>1
        <4> QED
          BY Zenon, <2>1, <2>2, <4>1, <4>2
      <3>2. CASE ~(a <= b)
        <4>1. 0 \in Nat /\ \A x \in a .. b : x <= a + m => rank[x] <= 0
          BY <3>2
        <4> QED
          BY Zenon, <2>1, <4>1
      <3> QED
        BY Zenon, <3>1, <3>2
    <2>3. CASE m # 0
      <3>1. m - 1 \in Nat /\ ~(m <= m - 1)
        BY <2>1, <2>3
      <3>2. PICK n \in Nat : \A x \in a .. b : x <= a + (m - 1) => rank[x] <= n
        BY Zenon, <2>1, <3>1
      <3>3. CASE a + m \in a .. b
        <4>1. PICK n2 \in Nat : n <= n2 /\ rank[a + m] <= n2
          <5>1. rank[a + m] \in Nat
            BY Zenon, <3>3
          <5> QED
            BY Zenon, <5>1, Above
        <4>2. ASSUME NEW x \in a .. b, x <= a + m PROVE rank[x] <= n2
          <5>1. rank[x] \in Nat
            BY Zenon
          <5>2. x <= a + (m - 1) \/ x = a + m
            BY <2>1, <4>2
          <5>3. CASE x = a + m
            BY Zenon, <4>1, <5>3
          <5>4. CASE x <= a + (m - 1)
            <6>1. rank[x] <= n
              BY Zenon, <3>2, <5>4
            <6> QED
              BY <4>1, <5>1, <6>1
          <5> QED
            BY Zenon, <5>2, <5>3, <5>4
        <4> QED
          BY Zenon, <2>1, <4>2
      <3>4. CASE a + m \notin a .. b
        <4>1. \A x \in a .. b : x <= a + m => rank[x] <= n
          BY <2>1, <3>2, <3>4
        <4> QED
          BY Zenon, <2>1, <4>1
      <3> QED
        BY Zenon, <3>3, <3>4
    <2> QED
      BY Zenon, <2>2, <2>3
  <1> QED
    BY Zenon, <1>1, <1>2

\* No records hang together apart from the lists: of a set of records in which
\* each is pointed to by another, the one with the greatest rank is not.
LEMMA Unlisted ==
    ASSUME IndInv, NEW U \in SUBSET DOMAIN rec,
           \A o \in U : \E d \in U : ~Stale(d) /\ ptr[d] = o
    PROVE  U = {}
  <1> SUFFICES ASSUME U # {} PROVE FALSE
    BY Zenon
  <1>1. PICK rank \in [DOMAIN rec -> Nat] : Falls(rank)
    BY Zenon DEF IndInv, Ordered
  <1>2. DOMAIN rec = (NHASH + 1) .. (idxsize - 1) /\ NHASH + 1 \in Int /\ idxsize - 1 \in Int
    <2>1. DOMAIN rec = (NHASH + 1) .. (idxsize - 1) /\ NHASH \in Nat /\ idxsize \in Int
      BY Zenon, Domains DEF IndInv, ListInv
    <2> QED
      BY <2>1
  <1>3. PICK n \in Nat : \A x \in DOMAIN rec : rank[x] <= n
    BY Zenon, <1>2, RankBound
  <1> DEFINE T == {n - rank[o] : o \in U}
  <1>4. T \in SUBSET Nat /\ T # {}
    <2>1. \A o \in U : rank[o] \in Nat /\ rank[o] <= n
      BY Zenon, <1>3
    <2>2. \A o \in U : n - rank[o] \in Nat
      BY <2>1
    <2> QED
      BY Zenon, <2>2
  <1>5. PICK t \in T : \A m \in T : t <= m
    <2> HIDE DEF T
    <2> QED
      BY Zenon, <1>4, LeastNumber
  <1>6. PICK o \in U : t = n - rank[o]
    BY Zenon, <1>5
  <1>7. PICK d \in U : ~Stale(d) /\ ptr[d] = o
    BY Zenon
  <1>8. rank[o] < rank[d]
    BY Zenon, <1>1, <1>7, RecordClass DEF Falls
  <1>9. n - rank[o] <= n - rank[d]
    BY Zenon, <1>5, <1>6
  <1>10. rank[o] \in Nat /\ rank[d] \in Nat
    BY Zenon
  <1> QED
    BY <1>8, <1>9, <1>10

\* A record with a key is on the chain of its key.
LEMMA OnChain ==
    ASSUME IndInv, ViewInv, NEW o \in DOMAIN rec, Member(o), rec[o].key # Blank
    PROVE  o \in Chain(Class(o))
  <1> DEFINE c == Class(o)
             U == {x \in DOMAIN rec : Member(x) /\ Class(x) = c /\ x \notin Chain(c)}
  <1>a. CoverInv /\ RefInv /\ ProcInv
    BY Zenon DEF IndInv, ListInv, ViewInv
  <1>b. c \in 0 .. NHASH /\ c # FREE_OFF
    BY RecordClass, DbAssumption
  <1>1. ASSUME NEW x \in U
        PROVE  \E d \in U : ~Stale(d) /\ ptr[d] = x
    <2>1. \A q \in Procs : ~(Deleting(q) /\ saveoff[q] = x)
      <3> SUFFICES ASSUME NEW q \in Procs, Deleting(q), saveoff[q] = x PROVE FALSE
        BY Zenon
      <3>1. x # 0
        BY Zenon, RecordClass
      <3>2. Class(x) = chainoff(q)
        BY Zenon, <1>a, <3>1 DEF ProcInv, DeleteInv, Deleting
      <3> QED
        BY Zenon, <3>1, <3>2, ChainFacts
    <2>2. PICK d \in DOMAIN ptr : ~Stale(d) /\ ptr[d] = x
      BY Zenon, <1>a, <2>1 DEF CoverInv
    <2>3. x # 0 /\ Member(d)
      BY Zenon, <2>2, RecordClass DEF Stale
    <2>4. Class(d) = c
      BY Zenon, <1>b, <2>2, <2>3, MemberTarget
    <2>5. d \notin Chain(c)
      BY Zenon, <2>2, <2>3, ChainFacts DEF Closed
    <2>6. d \in DOMAIN rec
      <3>1. d \in 0 .. NHASH \/ d \in DOMAIN rec
        BY Domains DEF IndInv, ListInv
      <3>2. d \in 0 .. NHASH => d = c
        BY Zenon, <2>4, Heads
      <3> QED
        BY Zenon, <2>2, <2>3, <3>1, <3>2, ChainFacts
    <2> QED
      BY Zenon, <2>2, <2>3, <2>4, <2>5, <2>6
  <1>2. U = {}
    <2> HIDE DEF U
    <2>1. U \in SUBSET DOMAIN rec
      BY Zenon DEF U
    <2> QED
      BY Zenon, <1>1, <2>1, Unlisted
  <1> QED
    BY Zenon, <1>2

\* Every record is on a list, held by a process, or beyond PTR_MAX.
LEMMA AllListed ==
    ASSUME IndInv, ViewInv
    PROVE  NoRecordLost
  <1> DEFINE listed == UNION {Chain(c) : c \in FREE_OFF .. NHASH}
             U == {x \in DOMAIN rec : Member(x) /\ x \notin listed}
  <1>a. CoverInv /\ ProcInv /\ TypeOK
    BY Zenon DEF IndInv, ListInv, ViewInv
  <1>b. 0 .. NHASH = FREE_OFF .. NHASH
    BY DEF FREE_OFF
  <1>1. ASSUME NEW x \in U
        PROVE  \E d \in U : ~Stale(d) /\ ptr[d] = x
    <2>0. x # 0
      BY Zenon, RecordClass
    <2>1. \A q \in Procs : ~(Deleting(q) /\ saveoff[q] = x)
      <3> SUFFICES ASSUME NEW q \in Procs, Deleting(q), saveoff[q] = x PROVE FALSE
        BY Zenon
      <3>1. chainoff(q) \in 1 .. NHASH
        BY Zenon, ChainRegion DEF Deleting, ChainLabels, DelLabels
      <3>2. chainoff(q) \in FREE_OFF .. NHASH
        BY <3>1, DbAssumption DEF FREE_OFF
      <3>3. x \in Chain(chainoff(q))
        BY Zenon, <2>0, ChainFacts
      <3> QED
        BY Zenon, <3>2, <3>3
    <2>2. PICK d \in DOMAIN ptr : ~Stale(d) /\ ptr[d] = x
      BY Zenon, <1>a, <2>1 DEF CoverInv
    <2>3. d \notin listed
      BY Zenon, <2>0, <2>2, ChainFacts DEF Closed
    <2>4. d \in 0 .. NHASH \/ d \in DOMAIN rec
      BY <1>a, Domains
    <2>5. d \notin 0 .. NHASH
      BY Zenon, <1>b, <2>0, <2>2, ChainFacts
    <2> QED
      BY Zenon, <2>2, <2>3, <2>4, <2>5 DEF Stale
  <1>2. U = {}
    <2> HIDE DEF U
    <2>1. U \in SUBSET DOMAIN rec
      BY Zenon DEF U
    <2> QED
      BY Zenon, <1>1, <2>1, Unlisted
  <1>3. FirstRec .. (idxsize - 1) = DOMAIN rec
    BY Zenon, <1>a DEF TypeOK, FileTypes
  <1> QED
    BY Zenon, <1>2, <1>3 DEF NoRecordLost, Member

-----------------------------------------------------------------------------
(* Every step keeps ViewInv.                                               *)

\* The empty database satisfies the invariant.
LEMMA InitView == Init => ViewInv
  <1> SUFFICES ASSUME Init PROVE ViewInv
    BY Zenon
  <1>1. CoverInv /\ KeyInv
    BY Zenon DEF Init, CoverInv, KeyInv, Keyed
  <1>2. ASSUME NEW p \in Procs PROVE FindInv(p) /\ CallerInv(p)
    <2>1. FirstRec >= FirstRec
      BY DbAssumption DEF FirstRec
    <2>2. FindInv(p)
      BY Zenon DEF Init, FindInv, NewLabels
    <2>3. CallerInv(p)
      BY Zenon, <2>1 DEF Init, CallerInv, ChainLabels, DelLabels, NewLabels
    <2> QED
      BY Zenon, <2>2, <2>3
  <1> QED
    BY Zenon, <1>1, <1>2 DEF ViewInv

\* A record of a key comes on a list only when db_store links it, and is not
\* rewritten there.
LEMMA Newcomers ==
    ASSUME IndInv, NEW p \in Procs, Act(p), NEW k \in Keys, NEW o \in Keyed(k)'
    PROVE  \/ o \in Keyed(k) /\ rec'[o] = rec[o]
           \/ StoreLink(p) /\ o = idxoff[p] /\ call[p].key = k
  <1>a. o \in DOMAIN rec' /\ Member(o)' /\ rec'[o].key = k /\ k # Blank
    BY Zenon, BlankAssumption DEF Keyed
  <1>b. Changes(p)
    BY Zenon, ListsStep
  <1>1. CASE Blanks(p)
    BY Zenon, <1>a, <1>1 DEF Blanks, Keyed
  <1>2. CASE LinksFree(p) \/ Unlinks(p) \/ Takes(p)
    BY Zenon, <1>a, <1>2 DEF LinksFree, Unlinks, Takes, Keyed
  <1>3. CASE Writes(p)
    BY Zenon, <1>a, <1>3 DEF Writes, Keyed
  <1>4. CASE StoreLink(p) /\ Links(p)
    BY Zenon, <1>a, <1>4 DEF Links, Keyed
  <1>5. CASE Quiet(p)
    BY Zenon, <1>a, <1>5 DEF Quiet, Keyed
  <1> QED
    BY Zenon, <1>b, <1>1, <1>2, <1>3, <1>4, <1>5 DEF Changes

\* No step leaves a record on a list without a field that points to it.
LEMMA CoverStep ==
    ASSUME IndInv, ViewInv, NEW p \in Procs, Act(p)
    PROVE  CoverInv'
  <1>a. /\ CoverInv /\ Changes(p) /\ TypeOK /\ CallTypes /\ FieldTypes
        /\ SearchInv(p) /\ DeleteInv(p)
    BY Zenon, ListsStep DEF IndInv, ListInv, ProcInv, ViewInv, TypeOK
  <1>b. DOMAIN rec \subseteq DOMAIN ptr
    BY Zenon, RecordClass
  <1>c. \A q \in Procs : (q # p /\ Deleting(q)) => Deleting(q)' /\ saveoff'[q] = saveoff[q]
    BY Zenon, OthersStep DEF Deleting
  <1> SUFFICES ASSUME NEW o \in DOMAIN rec', Member(o)'
               PROVE  \/ \E c \in DOMAIN ptr' : ~Stale(c)' /\ ptr'[c] = o
                      \/ \E q \in Procs : Deleting(q)' /\ saveoff'[q] = o
    BY Zenon DEF CoverInv
  <1> DEFINE Covered == \/ \E c \in DOMAIN ptr : ~Stale(c) /\ ptr[c] = o
                        \/ \E q \in Procs : Deleting(q) /\ saveoff[q] = o
  <1>d. (o \in DOMAIN rec /\ Member(o)) => Covered
    BY Zenon, <1>a DEF CoverInv
  <1>1. CASE Quiet(p)
    BY Zenon, <1>1, <1>c, <1>d DEF Quiet
  <1>2. CASE DeleteBlankIdx(p) /\ Blanks(p)
    <2>1. /\ pc[p] = "del_idx" /\ Deleting(p)' /\ saveoff'[p] = ptr[idxoff[p]]
      BY Zenon, <1>a, <1>2 DEF DeleteBlankIdx, Goto, CallTypes, FieldTypes, SearchInv, Deleting
    <2>2. Covered /\ ~Deleting(p)
      BY Zenon, <1>2, <1>d, <2>1 DEF Blanks, Deleting
    <2> QED
      BY Zenon, <1>2, <1>c, <2>1, <2>2 DEF Blanks
  <1>3. CASE DeleteLinkFree(p) /\ LinksFree(p)
    <2>1. /\ pc[p] = "del_free" /\ Deleting(p)' /\ saveoff'[p] = saveoff[p]
      BY Zenon, <1>a, <1>3 DEF DeleteLinkFree, Goto, CallTypes, Deleting, private
    <2>2. /\ ptr[ptroff[p]] = idxoff[p] /\ ptr[idxoff[p]] = ptr[FREE_OFF]
          /\ idxoff[p] \in DOMAIN rec /\ idxoff[p] # FREE_OFF
      BY Zenon, <1>a, <2>1, RecordClass DEF SearchInv, DeleteInv, FREE_OFF
    <2>3. Covered /\ FREE_OFF \in DOMAIN ptr
      BY Zenon, <1>a, <1>3, <1>d, Domains DEF LinksFree
    <2>4. ASSUME NEW c \in DOMAIN ptr, ~Stale(c), ptr[c] = o
          PROVE  \E d \in DOMAIN ptr' : ~Stale(d)' /\ ptr'[d] = o
      <3>1. CASE c = ptroff[p]
        BY Zenon, <1>3, <2>2, <2>3, <2>4, <3>1 DEF LinksFree
      <3>2. CASE c = FREE_OFF
        BY Zenon, <1>3, <2>2, <2>4, <3>2 DEF LinksFree
      <3>3. CASE c # ptroff[p] /\ c # FREE_OFF
        BY Zenon, <1>3, <2>4, <3>3 DEF LinksFree
      <3> QED
        BY Zenon, <3>1, <3>2, <3>3
    <2>5. ASSUME NEW q \in Procs, Deleting(q), saveoff[q] = o
          PROVE  Deleting(q)' /\ saveoff'[q] = o
      BY Zenon, <1>c, <2>1, <2>5
    <2> QED
      BY Zenon, <2>3, <2>4, <2>5
  <1>4. CASE DeleteUnlink(p) /\ Unlinks(p)
    BY Zenon, <1>4, <1>d DEF Unlinks
  <1>5. CASE FreeTake(p) /\ Takes(p)
    <2>1. ~Deleting(p)
      BY Zenon, <1>5 DEF FreeTake, Goto, Deleting
    <2>2. Covered /\ o # offset[p]
      BY Zenon, <1>5, <1>d DEF Takes
    <2>3. ASSUME NEW c \in DOMAIN ptr, ~Stale(c), ptr[c] = o
          PROVE  \E d \in DOMAIN ptr' : ~Stale(d)' /\ ptr'[d] = o
      <3>1. CASE c = offset[p]
        BY Zenon, <1>5, <2>2, <2>3, <3>1 DEF Takes, InUse
      <3>2. CASE c # offset[p]
        BY Zenon, <1>5, <2>2, <2>3, <3>2 DEF Takes
      <3> QED
        BY Zenon, <3>1, <3>2
    <2> QED
      BY Zenon, <1>c, <2>1, <2>2, <2>3
  <1>6. CASE (ReuseIdx(p) \/ AppendIdx(p)) /\ Writes(p)
    <2>1. ~Deleting(p)
      BY Zenon, <1>6 DEF ReuseIdx, AppendIdx, Goto, Deleting
    <2>2. Covered
      BY Zenon, <1>6, <1>d DEF Writes
    <2>3. ASSUME NEW c \in DOMAIN ptr, ~Stale(c), ptr[c] = o
          PROVE  c \in DOMAIN ptr' /\ ~Stale(c)' /\ ptr'[c] = o
      BY Zenon, <1>6, <2>3 DEF Writes, Stale
    <2> QED
      BY Zenon, <1>c, <2>1, <2>2, <2>3
  <1>7. CASE StoreLink(p) /\ Links(p)
    <2>1. ~Deleting(p)
      BY Zenon, <1>7 DEF StoreLink, Deleting
    <2>2. CASE o = idxoff[p]
      BY Zenon, <1>7, <2>2 DEF Links
    <2>3. CASE o # idxoff[p]
      <3>1. Covered
        BY Zenon, <1>7, <1>d, <2>3 DEF Links
      <3>2. ASSUME NEW c \in DOMAIN ptr, ~Stale(c), ptr[c] = o
            PROVE  \E d \in DOMAIN ptr' : ~Stale(d)' /\ ptr'[d] = o
        <4>1. CASE c = chainoff(p)
          BY Zenon, <1>7, <1>b, <3>2, <4>1 DEF Links
        <4>2. CASE c # chainoff(p)
          BY Zenon, <1>7, <3>2, <4>2 DEF Links
        <4> QED
          BY Zenon, <4>1, <4>2
      <3> QED
        BY Zenon, <1>c, <2>1, <3>1, <3>2
    <2> QED
      BY Zenon, <2>2, <2>3
  <1> QED
    BY Zenon, <1>a, <1>1, <1>2, <1>3, <1>4, <1>5, <1>6, <1>7 DEF Changes

\* db_store links a record only after its search, under the chain lock, has
\* found no record of the key.
LEMMA KeyStep ==
    ASSUME IndInv, ViewInv, NEW p \in Procs, Act(p)
    PROVE  KeyInv'
  <1> SUFFICES ASSUME NEW k \in Keys, NEW o1 \in Keyed(k)', NEW o2 \in Keyed(k)'
               PROVE  o1 = o2
    BY Zenon DEF KeyInv
  <1>1. \/ o1 \in Keyed(k)
        \/ StoreLink(p) /\ o1 = idxoff[p] /\ call[p].key = k
    BY Zenon, Newcomers
  <1>2. \/ o2 \in Keyed(k)
        \/ StoreLink(p) /\ o2 = idxoff[p] /\ call[p].key = k
    BY Zenon, Newcomers
  <1>3. StoreLink(p) /\ call[p].key = k => Keyed(k) = {}
    BY Zenon DEF StoreLink, ViewInv, FindInv, NewLabels
  <1>4. (o1 \in Keyed(k) /\ o2 \in Keyed(k)) => o1 = o2
    BY Zenon DEF ViewInv, KeyInv
  <1> QED
    BY Zenon, <1>1, <1>2, <1>3, <1>4

\* The chain lock keeps other processes from changing what a search relies on.
LEMMA OthersFind ==
    ASSUME IndInv, IndInv', ViewInv, NEW p \in Procs, Act(p), NEW q \in Procs, q # p
    PROVE  FindInv(q)'
  <1>a. /\ FindInv(q) /\ SearchInv(q) /\ DeleteInv(q) /\ TypeOK
    BY Zenon DEF IndInv, ListInv, ProcInv, ViewInv
  <1>b. /\ pc'[q] = pc[q] /\ idxoff'[q] = idxoff[q] /\ ptroff'[q] = ptroff[q]
        /\ offset'[q] = offset[q] /\ call'[q] = call[q]
    BY Zenon, OthersStep
  <1> DEFINE k == call[q].key
             c == chainoff(q)
             W == {"search", "found", "del_idx", "missing", "del_free", "del_unlink", "reread"}
                      \cup NewLabels
  <1>1. CASE pc[q] \notin W
    BY Zenon, <1>1, <1>b DEF FindInv
  <1>2. CASE pc[q] \in W
    <2>0. pc[q] \in ChainLabels /\ k \in Keys /\ c = ChainOff(k)
      <3>1. pc[q] \in ChainLabels
        BY Zenon, <1>2 DEF ChainLabels, DelLabels
      <3> QED
        BY Zenon, <3>1 DEF IndInv, ListInv, CallInv, chainoff
    <2>1. p \notin wlock[c]
      BY Zenon, <2>0, LockedOut
    <2>2. Keyed(k)' \subseteq Keyed(k)
      <3>1. (StoreLink(p) /\ call[p].key = k) => p \in wlock[c]
        <4> SUFFICES ASSUME pc[p] = "link", call[p].key = k PROVE p \in wlock[c]
          BY Zenon DEF StoreLink
        <4>1. pc[p] \in ChainLabels /\ call[p].op = "store"
          BY Zenon DEF IndInv, ListInv, CallInv, ChainLabels, NewLabels
        <4>2. call[p].op # "fetch"
          BY Zenon, <4>1
        <4>3. p \in wlock[chainoff(p)]
          BY Zenon, <4>1, <4>2 DEF IndInv, ListInv, HoldInv, Holds
        <4> QED
          BY Zenon, <2>0, <4>3 DEF chainoff
      <3>2. \A j \in Keys : j = k => Keyed(j)' \subseteq Keyed(j)
        BY Zenon, <2>1, <3>1, Newcomers
      <3> QED
        BY Zenon, <1>b, <2>0, <3>2 DEF Keyed
    <2>3. \A x \in DOMAIN rec : (Member(x) /\ Class(x) = c) =>
              /\ x \in DOMAIN rec' /\ rec'[x] = rec[x] /\ ptr'[x] = ptr[x]
      BY Zenon, <2>1, Kept, RecordClass
    <2>4. pc[q] = "search" => Keyed(k)' \subseteq From(offset[q])'
      <3> SUFFICES ASSUME pc[q] = "search" PROVE From(offset[q]) \subseteq From(offset[q])'
        BY Zenon, <1>a, <1>b, <2>2 DEF FindInv
      <3> DEFINE S == {x \in From(offset[q])' : x \in DOMAIN rec /\ Member(x) /\ Class(x) = c}
      <3>1. \A r \in Procs : ~(Deleting(r) /\ chainoff(r) = c)
        <4> SUFFICES ASSUME NEW r \in Procs, Deleting(r), chainoff(r) = c PROVE FALSE
          BY Zenon
        <4>1. r # q /\ r \in wlock[c]
          BY Zenon DEF Deleting, IndInv, ListInv, HoldInv, Holds, CallInv, ChainLabels, DelLabels
        <4> QED
          BY Zenon, <2>0, <4>1, LockedOut
      <3>2. \A x \in DOMAIN ptr : (Member(x) /\ Class(x) = c /\ ptr[x] # 0) =>
               ptr[x] \in DOMAIN rec /\ Member(ptr[x]) /\ Class(ptr[x]) = c
        BY Zenon, <3>1, MemberTarget
      <3>3. offset[q] # 0 =>
               offset[q] \in DOMAIN rec /\ Member(offset[q]) /\ Class(offset[q]) = c
        <4>1. /\ ptroff[q] \in DOMAIN ptr /\ Member(ptroff[q]) /\ Class(ptroff[q]) = c
              /\ ptr[ptroff[q]] = offset[q]
          BY Zenon, <1>a DEF SearchInv, InUse, Stale
        <4> QED
          BY Zenon, <3>2, <4>1
      <3>4. offset[q] \in S \cup {0}
        <4>1. ASSUME offset[q] # 0 PROVE offset'[q] \in From(offset[q])'
          BY Zenon, <1>b, <2>3, <3>3, <4>1 DEF From
        <4> QED
          BY Zenon, <1>b, <3>3, <4>1
      <3>5. Closed(S)
        <4> SUFFICES ASSUME NEW x \in S, ptr[x] # 0
                     PROVE  ptr[x] \in S
          BY Zenon DEF Closed
        <4>1. /\ x \in DOMAIN ptr /\ ptr'[x] = ptr[x] /\ ptr[x] \in DOMAIN rec
              /\ Member(ptr[x]) /\ Class(ptr[x]) = c
          BY Zenon, <2>3, <3>2, RecordClass
        <4>2. ptr'[x] \in DOMAIN rec'
          BY Zenon, <2>3, <4>1
        <4>3. ptr'[x] \in From(offset[q])'
          BY Zenon, <4>1, <4>2 DEF From, Closed
        <4> QED
          BY Zenon, <4>1, <4>3
      <3>6. S \in SUBSET DOMAIN rec
        BY Zenon
      <3>7. From(offset[q]) \subseteq S
        <4> HIDE DEF S
        <4> QED
          BY Zenon, <3>4, <3>5, <3>6, FromFacts
      <3> QED
        BY Zenon, <1>b, <3>7
    <2>5. pc[q] \in {"found", "del_idx"} => rec'[idxoff[q]].key = k
      BY Zenon, <1>a, <2>3 DEF FindInv, SearchInv, InUse, Stale
    <2>6. pc[q] = "del_unlink" => ptr'[ptroff[q]] = idxoff[q]
      BY Zenon, <1>a, <2>1, Kept DEF FindInv, DeleteInv
    <2>7. pc[q] \in {"missing", "del_free", "del_unlink", "reread"} \cup NewLabels => Keyed(k)' = {}
      BY Zenon, <1>a, <2>2 DEF FindInv
    <2> QED
      BY Zenon, <1>b, <2>4, <2>5, <2>6, <2>7 DEF FindInv
  <1> QED
    BY Zenon, <1>1, <1>2

\* Labels at which FindInv and CallerInv say nothing of the files.
Loose == {"idle", "lock", "scan", "next", "next_dat", "done", "dead"}

\* _db_find_and_lock: a search starts with all of its chain before it, and what
\* it passes has another key.
LEMMA OwnSearch ==
    ASSUME IndInv, ViewInv, NEW p \in Procs,
           FindLock(p) \/ FindNext(p) \/ FindMatch(p) \/ FindEnd(p) \/ DeleteBlankDat(p)
    PROVE  FindInv(p)'
  <1>a. /\ TypeOK /\ CallTypes /\ FieldTypes /\ FindInv(p) /\ SearchInv(p) /\ Act(p)
    BY Zenon DEF IndInv, ListInv, TypeOK, ProcInv, ViewInv, Act, Step
  <1>b. /\ ptr' = ptr /\ rec' = rec /\ call' = call
        /\ pc[p] \notin Critical /\ pc'[p] \notin Critical
    BY ZenonT(60), <1>a DEF FindLock, FindNext, FindMatch, FindEnd, DeleteBlankDat, Goto,
       CallTypes, Critical, idxfile
  <1>c. \A o : Member(o)' <=> Member(o)
    <2>1. UNCHANGED idxfile
      BY Zenon DEF FindLock, FindNext, FindMatch, FindEnd, DeleteBlankDat
    <2> QED
      BY Zenon, <1>a, <1>b, <2>1, QuietStep
  <1> DEFINE k == call[p].key
             c == chainoff(p)
  <1>d. k \in Keys /\ c = ChainOff(k) /\ Keyed(k)' = Keyed(k) /\ c \in DOMAIN ptr
    <2>1. pc[p] \in ChainLabels \cup {"lock"}
      BY Zenon DEF FindLock, FindNext, FindMatch, FindEnd, DeleteBlankDat, Goto, ChainLabels
    <2> QED
      BY Zenon, <1>b, <1>c, <2>1, ChainRegion DEF IndInv, ListInv, CallInv, chainoff, Keyed
  <1>e. From(offset[p])' = From(offset'[p])
    BY Zenon, <1>b DEF From, Closed
  <1>1. CASE FindLock(p)
    <2>1. pc[p] = "lock" /\ pc'[p] = "search" /\ offset'[p] = ptr[c] /\ wlock[c] \subseteq {p}
      BY Zenon, <1>1, <1>a DEF FindLock, Goto, CallTypes, FieldTypes, LockChain, readw_lock,
         writew_lock
    <2>2. \A q \in Procs : ~(Deleting(q) /\ chainoff(q) = c)
      <3> SUFFICES ASSUME NEW q \in Procs, Deleting(q), chainoff(q) = c PROVE FALSE
        BY Zenon
      <3>1. q # p /\ q \in wlock[c]
        BY Zenon, <2>1 DEF Deleting, IndInv, ListInv, HoldInv, Holds, CallInv, ChainLabels,
           DelLabels
      <3> QED
        BY Zenon, <2>1, <3>1
    <2>3. Chain(c) = From(ptr[c])
      BY Zenon, <2>2 DEF Chain, Reach
    <2>4. ASSUME NEW o \in Keyed(k) PROVE o \in From(ptr[c])
      <3>1. o \in DOMAIN rec /\ Member(o) /\ rec[o].key = k /\ k # Blank
        BY Zenon, <1>d, BlankAssumption DEF Keyed
      <3>2. Class(o) = c
        BY Zenon, <1>d, <3>1, RecordClass
      <3> QED
        BY Zenon, <2>3, <3>1, <3>2, OnChain
    <2> QED
      BY Zenon, <1>b, <1>d, <1>e, <2>1, <2>4 DEF FindInv, NewLabels
  <1>2. CASE FindNext(p)
    <2>1. /\ pc[p] = "search" /\ pc'[p] = "search" /\ offset'[p] = ptr[offset[p]]
          /\ offset[p] # 0 /\ rec[offset[p]].key # k
      BY Zenon, <1>2, <1>a DEF FindNext, FieldTypes
    <2>2. offset[p] \in DOMAIN rec
      BY Zenon, <2>1, WalkRecord
    <2> DEFINE S == {offset[p]} \cup From(ptr[offset[p]])
    <2>3. S \in SUBSET DOMAIN rec /\ Closed(S)
      <3>1. PtrInv /\ offset[p] \in DOMAIN ptr
        BY Zenon, <2>2, RecordClass DEF IndInv, ListInv
      <3>2. ptr[offset[p]] \in From(ptr[offset[p]]) \cup {0}
        BY Zenon, <3>1, FromFacts DEF PtrInv
      <3> QED
        BY Zenon, <2>2, <3>2, FromFacts DEF Closed
    <2>4. From(offset[p]) \subseteq S
      BY Zenon, <2>3, FromFacts
    <2>5. Keyed(k) \subseteq From(ptr[offset[p]])
      BY Zenon, <1>a, <2>1, <2>4 DEF FindInv, Keyed
    <2> QED
      BY Zenon, <1>b, <1>d, <1>e, <2>1, <2>5 DEF FindInv, NewLabels
  <1>3. CASE FindMatch(p)
    <2>1. pc'[p] = "found" /\ idxoff'[p] = offset[p] /\ rec[offset[p]].key = k
      BY Zenon, <1>3, <1>a DEF FindMatch, Goto, CallTypes, FieldTypes, db_readidx
    <2> QED
      BY Zenon, <1>b, <2>1 DEF FindInv, NewLabels
  <1>4. CASE FindEnd(p)
    <2>1. pc[p] = "search" /\ pc'[p] = "missing" /\ offset[p] = 0
      BY Zenon, <1>4, <1>a DEF FindEnd, Goto, CallTypes
    <2>2. From(0) \subseteq {}
      <3>1. {} \in SUBSET DOMAIN rec /\ Closed({})
        BY Zenon DEF Closed
      <3> QED
        BY Zenon, <3>1, FromFacts
    <2>3. Keyed(k) = {}
      BY Zenon, <1>a, <2>1, <2>2 DEF FindInv
    <2> QED
      BY Zenon, <1>b, <1>d, <2>1, <2>3 DEF FindInv, NewLabels
  <1>5. CASE DeleteBlankDat(p)
    <2>1. pc[p] = "found" /\ pc'[p] = "del_idx" /\ idxoff' = idxoff
      BY Zenon, <1>5, <1>a DEF DeleteBlankDat, Goto, CallTypes, private, current
    <2> QED
      BY Zenon, <1>a, <1>b, <2>1 DEF FindInv, NewLabels
  <1> QED
    BY Zenon, <1>1, <1>2, <1>3, <1>4, <1>5

\* After the search: no record of the key comes on a list, and _db_dodelete
\* takes the only one off.
LEMMA OwnKeyed ==
    ASSUME IndInv, ViewInv, NEW p \in Procs,
           \/ DeleteBlankIdx(p) \/ DeleteLinkFree(p) \/ DeleteUnlink(p) \/ StoreReread(p)
           \/ StoreNew(p) \/ FreeLock(p) \/ FreeNext(p) \/ FreeTake(p) \/ FreeNone(p)
           \/ ReuseDat(p) \/ ReuseIdx(p) \/ AppendSeekDat(p) \/ AppendDat(p)
           \/ AppendSeekIdx(p) \/ AppendIdx(p)
    PROVE  FindInv(p)'
  <1>a. /\ TypeOK /\ CallTypes /\ FieldTypes /\ FindInv(p) /\ SearchInv(p) /\ Act(p)
        /\ call' = call
    BY Zenon DEF IndInv, ListInv, TypeOK, ProcInv, ViewInv, Act, Step, DeleteBlankIdx,
       DeleteLinkFree, DeleteUnlink, Return, StoreReread, StoreNew, FreeLock, FreeNext, FreeTake,
       FreeNone, ReuseDat, ReuseIdx, AppendSeekDat, AppendDat, AppendSeekIdx, AppendIdx
  <1> DEFINE k == call[p].key
             N == {"missing", "del_free", "del_unlink", "reread"} \cup NewLabels
  <1>b. /\ pc[p] \in N \cup {"del_idx"} /\ pc'[p] \in N \cup {"done"}
        /\ pc[p] = "del_idx" => DeleteBlankIdx(p)
        /\ pc'[p] = "del_unlink" => DeleteLinkFree(p)
    <2>1. CASE DeleteBlankIdx(p) \/ DeleteLinkFree(p) \/ DeleteUnlink(p) \/ StoreReread(p)
      BY ZenonT(60), <1>a, <2>1 DEF DeleteBlankIdx, DeleteLinkFree, DeleteUnlink, StoreReread,
         Return, Goto, CallTypes, NewLabels
    <2>2. CASE StoreNew(p) \/ FreeLock(p) \/ FreeNext(p) \/ FreeTake(p) \/ FreeNone(p)
      BY ZenonT(60), <1>a, <2>2 DEF StoreNew, FreeLock, FreeNext, FreeTake, FreeNone, Goto,
         CallTypes, NewLabels
    <2>3. CASE ReuseDat(p) \/ ReuseIdx(p) \/ AppendSeekDat(p) \/ AppendDat(p)
               \/ AppendSeekIdx(p) \/ AppendIdx(p)
      BY ZenonT(60), <1>a, <2>3 DEF ReuseDat, ReuseIdx, AppendSeekDat, AppendDat, AppendSeekIdx,
         AppendIdx, Goto, CallTypes, NewLabels
    <2> QED
      BY Zenon, <2>1, <2>2, <2>3
  <1>c. ~StoreLink(p)
    BY Zenon DEF DeleteBlankIdx, DeleteLinkFree, DeleteUnlink, StoreReread, StoreNew, FreeLock,
       FreeNext, FreeTake, FreeNone, ReuseDat, ReuseIdx, AppendSeekDat, AppendDat, AppendSeekIdx,
       AppendIdx, StoreLink, Goto
  <1>d. k \in Keys
    <2>1. pc[p] \in ChainLabels
      BY Zenon, <1>b DEF ChainLabels, DelLabels, NewLabels
    <2> QED
      BY Zenon, <2>1 DEF IndInv, ListInv, CallInv
  <1>1. Keyed(k)' = {}
    <2> SUFFICES ASSUME NEW o \in Keyed(k)' PROVE FALSE
      BY Zenon
    <2>1. o \in Keyed(k) /\ rec'[o] = rec[o]
      BY Zenon, <1>a, <1>c, <1>d, Newcomers
    <2>2. DeleteBlankIdx(p)
      BY Zenon, <1>a, <1>b, <2>1 DEF FindInv
    <2>3. pc[p] = "del_idx" /\ rec'[idxoff[p]].key = Blank
      BY Zenon, <2>2, DeleteBlankIdxStep DEF DeleteBlankIdx, Goto, Blanks
    <2>4. idxoff[p] \in Keyed(k)
      BY Zenon, <1>a, <2>3 DEF FindInv, SearchInv, InUse, Stale, Keyed
    <2>5. o = idxoff[p]
      BY Zenon, <1>d, <2>1, <2>4 DEF ViewInv, KeyInv
    <2> QED
      BY Zenon, <1>d, <2>1, <2>3, <2>5, BlankAssumption DEF Keyed
  <1>2. pc'[p] = "del_unlink" => ptr'[ptroff'[p]] = idxoff'[p]
    <2> SUFFICES ASSUME DeleteLinkFree(p) PROVE ptr'[ptroff'[p]] = idxoff'[p]
      BY Zenon, <1>b
    <2>1. pc[p] = "del_free" /\ ptroff' = ptroff /\ idxoff' = idxoff
      BY Zenon DEF DeleteLinkFree, Goto, private, current
    <2>2. ptroff[p] \in DOMAIN ptr /\ ptr[ptroff[p]] = idxoff[p]
      BY Zenon, <1>a, <2>1 DEF SearchInv, InUse
    <2> QED
      BY Zenon, <2>1, <2>2, DeleteLinkFreeStep DEF LinksFree
  <1> QED
    BY Zenon, <1>a, <1>b, <1>1, <1>2 DEF FindInv, NewLabels

\* Every step keeps what the searches rely on.
LEMMA FindStep ==
    ASSUME IndInv, IndInv', ViewInv, NEW p \in Procs, Act(p)
    PROVE  \A q \in Procs : FindInv(q)'
  <1>1. CASE \/ Invoke(p) \/ db_rewind(p) \/ Finish(p) \/ db_fetch(p) \/ NotFound(p)
             \/ InsertExists(p) \/ StoreLink(p) \/ StoreLinkExit(p) \/ StoreOverwrite(p)
             \/ NextLock(p) \/ NextTorn(p) \/ NextEOF(p) \/ NextRead(p) \/ NextDat(p)
    <2>1. CallTypes
      BY Zenon DEF IndInv, ListInv, TypeOK
    <2>2. pc'[p] \in Loose
      BY ZenonT(60), <1>1, <2>1 DEF Invoke, db_rewind, Finish, db_fetch, NotFound, InsertExists,
         StoreLink, StoreLinkExit, StoreOverwrite, NextLock, NextTorn, NextEOF, NextRead, NextDat,
         Goto, Return, Exit, CallTypes, Loose
    <2>3. FindInv(p)'
      BY Zenon, <2>2 DEF FindInv, Loose, NewLabels
    <2> QED
      BY Zenon, <2>3, OthersFind
  <1> QED
    BY Zenon, <1>1, OwnSearch, OwnKeyed, OthersFind DEF Act, Step

\* A step changes what its own caller sees only.
LEMMA OthersCall ==
    ASSUME IndInv, NEW p \in Procs, Act(p), NEW q \in Procs, q # p
    PROVE  ret'[q] = ret[q] /\ fpos'[q] = fpos[q] /\ scanning'[q] = scanning[q]
  <1>a. CallTypes /\ FieldTypes
    BY Zenon DEF IndInv, ListInv, TypeOK
  <1> USE <1>a DEF CallTypes, FieldTypes
  <1>1. CASE Invoke(p) \/ db_rewind(p) \/ Finish(p)
    BY ZenonT(60), <1>1 DEF Invoke, db_rewind, Finish
  <1>2. CASE FindEnd(p) \/ DeleteBlankDat(p) \/ DeleteLinkFree(p) \/ FreeNone(p)
             \/ AppendSeekIdx(p) \/ AppendDat(p) \/ NextLock(p) \/ ReuseDat(p)
             \/ AppendSeekDat(p)
    BY ZenonT(60), <1>2 DEF FindEnd, DeleteBlankDat, DeleteLinkFree, FreeNone, AppendSeekIdx,
       AppendDat, NextLock, ReuseDat, AppendSeekDat, db_writeptr
  <1>3. CASE db_fetch(p) \/ NotFound(p) \/ InsertExists(p) \/ StoreLink(p)
             \/ StoreOverwrite(p) \/ NextEOF(p) \/ NextDat(p)
    BY ZenonT(60), <1>3 DEF db_fetch, NotFound, InsertExists, StoreLink, StoreOverwrite, NextEOF,
       NextDat, Return, db_writeptr
  <1>4. CASE StoreLinkExit(p) \/ NextTorn(p)
    BY ZenonT(60), <1>4 DEF StoreLinkExit, NextTorn, Exit
  <1>5. CASE FindLock(p) \/ StoreReread(p) \/ StoreNew(p) \/ FreeLock(p)
    BY ZenonT(60), <1>5 DEF FindLock, StoreReread, StoreNew, FreeLock
  <1>6. CASE DeleteBlankIdx(p) \/ FreeTake(p) \/ ReuseIdx(p) \/ AppendIdx(p)
    BY ZenonT(60), <1>6 DEF DeleteBlankIdx, FreeTake, ReuseIdx, AppendIdx, db_writeidx, db_writeptr
  <1>7. CASE FindNext(p) \/ FindMatch(p) \/ FreeNext(p) \/ NextRead(p)
    BY ZenonT(60), <1>7 DEF FindNext, FindMatch, FreeNext, NextRead, db_readidx
  <1>8. CASE DeleteUnlink(p)
    BY ZenonT(60), <1>8 DEF DeleteUnlink, Return, db_writeptr
  <1> QED
    BY Zenon, <1>1, <1>2, <1>3, <1>4, <1>5, <1>6, <1>7, <1>8 DEF Act, Step

\* What another process holds keeps its key and its data.
LEMMA OthersCaller ==
    ASSUME IndInv, ViewInv, NEW p \in Procs, Act(p), NEW q \in Procs, q # p
    PROVE  CallerInv(q)'
  <1>a. /\ CallerInv(q) /\ StoreInv(q) /\ DataInv(p) /\ DataExclusive /\ Frame(p) /\ DataFrame(p)
        /\ SearchInv(p)
    BY Zenon, ListsStep, DataFrameStep DEF IndInv, ListInv, ProcInv, ViewInv
  <1>b. /\ pc'[q] = pc[q] /\ call'[q] = call[q] /\ idxoff'[q] = idxoff[q]
        /\ ret'[q] = ret[q] /\ fpos'[q] = fpos[q] /\ scanning'[q] = scanning[q]
    BY Zenon, OthersStep, OthersCall
  <1>1. pc[q] \in {"reuse_dat", "reuse_idx"} => rec'[idxoff[q]].key = Blank
    <2>1. pc[q] \in {"reuse_dat", "reuse_idx"} => rec'[idxoff[q]] = rec[idxoff[q]]
      BY Zenon, <1>a DEF StoreInv, Frame, Held
    <2> QED
      BY Zenon, <1>a, <2>1 DEF CallerInv
  <1>2. pc[q] = "link" => dat'[rec'[idxoff[q]].datoff].val = call[q].data
    <2> SUFFICES ASSUME pc[q] = "link" PROVE dat'[rec'[idxoff[q]].datoff].val = call[q].data
      BY Zenon
    <2>1. idxoff[q] \in DOMAIN rec /\ Held(q, idxoff[q])
      BY Zenon, <1>a DEF StoreInv, Held
    <2>2. rec'[idxoff[q]] = rec[idxoff[q]]
      BY Zenon, <1>a, <2>1 DEF Frame
    <2> DEFINE d == rec[idxoff[q]].datoff
    <2>3. d \in DOMAIN dat /\ dat[d].val = call[q].data
      BY Zenon, <1>a, <2>1 DEF CallerInv, DataExclusive
    <2>4. ASSUME dat'[d].val # dat[d].val PROVE FALSE
      <3>1. d = datoff[p] /\ pc[p] \in {"found", "reuse_dat"}
        BY Zenon, <1>a, <2>3, <2>4 DEF DataFrame
      <3>2. idxoff[p] = idxoff[q]
        BY Zenon, <1>a, <2>1, <3>1 DEF DataInv, DataExclusive
      <3>3. CASE pc[p] = "found"
        BY Zenon, <1>a, <2>1, <3>2, <3>3 DEF SearchInv, InUse, Stale, Member
      <3>4. CASE pc[p] = "reuse_dat"
        BY Zenon, <1>a, <3>2, <3>4 DEF StoreInv, Held
      <3> QED
        BY Zenon, <3>1, <3>3, <3>4
    <2> QED
      BY Zenon, <2>2, <2>3, <2>4
  <1> QED
    BY Zenon, <1>a, <1>b, <1>1, <1>2 DEF CallerInv

\* The caller's side of every step of its own process.
LEMMA OwnCaller ==
    ASSUME IndInv, ViewInv, NEW p \in Procs, Act(p)
    PROVE  CallerInv(p)'
  <1>a. /\ CallerInv(p) /\ TypeOK /\ CallTypes /\ FieldTypes
    BY Zenon DEF IndInv, ListInv, TypeOK, ViewInv
  <1>1. CASE Invoke(p)
    <2>1. PICK c \in Calls :
             /\ (c.op = "nextrec" /\ Rewinds) => scanning[p]
             /\ Goto(p, "idle", IF c.op = "nextrec" THEN "scan" ELSE "lock")
             /\ call' = [call EXCEPT ![p] = c]
             /\ scanning' = [scanning EXCEPT ![p] = @ /\ c.op = "nextrec"]
             /\ ret' = ret /\ fpos' = fpos
      BY Zenon, <1>1 DEF Invoke
    <2>2. /\ call'[p] = c /\ scanning'[p] = (scanning[p] /\ c.op = "nextrec")
          /\ pc[p] = "idle" /\ pc'[p] = IF c.op = "nextrec" THEN "scan" ELSE "lock"
      BY Zenon, <1>a, <2>1 DEF CallTypes, Goto
    <2> QED
      BY Zenon, <1>a, <2>1, <2>2 DEF CallerInv, ChainLabels, DelLabels, NewLabels
  <1>2. CASE db_rewind(p)
    <2>1. /\ pc' = pc /\ call' = call /\ ret' = ret /\ pc[p] = "idle"
          /\ fpos'[p] = FirstRec
      BY Zenon, <1>2, <1>a DEF db_rewind, FieldTypes
    <2>2. FirstRec >= FirstRec
      BY DbAssumption DEF FirstRec
    <2> QED
      BY Zenon, <1>a, <2>1, <2>2 DEF CallerInv, ChainLabels, DelLabels, NewLabels
  <1>3. CASE Finish(p)
    <2>1. /\ pc'[p] = "idle" /\ call'[p] = NoCall /\ ret'[p] = NoRet /\ scanning' = scanning
          /\ scanning[p] => fpos'[p] = fpos[p]
      BY Zenon, <1>3, <1>a DEF Finish, Goto, CallTypes, FieldTypes
    <2> QED
      BY Zenon, <1>a, <2>1 DEF CallerInv, ChainLabels, DelLabels, NewLabels
  <1>4. CASE db_fetch(p) \/ NotFound(p) \/ InsertExists(p) \/ StoreLink(p) \/ StoreOverwrite(p)
             \/ NextEOF(p) \/ NextDat(p) \/ StoreLinkExit(p) \/ NextTorn(p)
    <2>1. /\ pc'[p] \in {"done", "dead"} /\ call' = call /\ scanning' = scanning
          /\ fpos'[p] = fpos[p] \/ pc[p] = "link"
          /\ pc'[p] = "dead" => ret' = ret /\ pc[p] # "done"
      BY ZenonT(60), <1>4, <1>a DEF db_fetch, NotFound, InsertExists, StoreLink, StoreOverwrite,
         NextEOF, NextDat, StoreLinkExit, NextTorn, Return, Exit, CallTypes
    <2> QED
      BY Zenon, <1>a, <2>1 DEF CallerInv, ChainLabels, DelLabels, NewLabels
  <1>5. CASE NextLock(p) \/ NextRead(p)
    <2>1. /\ pc[p] \in {"scan", "next"} /\ pc'[p] \in {"next", "next_dat"}
          /\ UNCHANGED <<call, ret, scanning>>
      BY Zenon, <1>5, <1>a DEF NextLock, NextRead, Goto, CallTypes
    <2>2. fpos[p] >= FirstRec => fpos'[p] >= FirstRec
      <3>1. CASE NextLock(p)
        BY Zenon, <3>1 DEF NextLock
      <3>2. CASE NextRead(p)
        <4>1. fpos'[p] = fpos[p] + 1 /\ fpos[p] \in Int /\ FirstRec \in Int
          BY <3>2, <1>a, DbAssumption DEF NextRead, db_readidx, FieldTypes, FirstRec
        <4> QED
          BY <4>1
      <3> QED
        BY Zenon, <1>5, <3>1, <3>2
    <2> QED
      BY Zenon, <1>a, <2>1, <2>2 DEF CallerInv, ChainLabels, DelLabels, NewLabels
  <1>6. CASE \/ FindLock(p) \/ FindNext(p) \/ FindMatch(p) \/ FindEnd(p) \/ DeleteBlankDat(p)
             \/ DeleteBlankIdx(p) \/ DeleteLinkFree(p) \/ StoreReread(p) \/ StoreNew(p)
             \/ FreeLock(p) \/ FreeNext(p) \/ FreeNone(p) \/ AppendSeekDat(p) \/ AppendDat(p)
             \/ AppendSeekIdx(p)
    <2>1. /\ UNCHANGED <<call, ret, scanning>> /\ pc[p] \in ChainLabels \cup {"lock"}
      BY ZenonT(60), <1>6 DEF FindLock, FindNext, FindMatch, FindEnd, DeleteBlankDat,
         DeleteBlankIdx, DeleteLinkFree, StoreReread, StoreNew, FreeLock, FreeNext, FreeNone,
         AppendSeekDat, AppendDat, AppendSeekIdx, Goto, ChainLabels, DelLabels, NewLabels
    <2>2. pc'[p] \in {"search", "found", "missing", "del_idx", "del_free", "del_unlink",
                      "app_dat", "free_lock", "free_walk", "app_datw", "app_idx", "app_idxw"}
      BY ZenonT(60), <1>6, <1>a DEF FindLock, FindNext, FindMatch, FindEnd, DeleteBlankDat,
         DeleteBlankIdx, DeleteLinkFree, StoreReread, StoreNew, FreeLock, FreeNext, FreeNone,
         AppendSeekDat, AppendDat, AppendSeekIdx, Goto, CallTypes
    <2> QED
      BY Zenon, <1>a, <2>1, <2>2 DEF CallerInv, ChainLabels, DelLabels, NewLabels
  <1>7. CASE DeleteUnlink(p)
    <2>1. /\ UNCHANGED <<call, scanning>> /\ pc[p] = "del_unlink"
          /\ pc'[p] = "done" \/ (pc'[p] = "reread" /\ ret' = ret)
      BY ZenonT(60), <1>7, <1>a DEF DeleteUnlink, Return, CallTypes
    <2> QED
      BY Zenon, <1>a, <2>1 DEF CallerInv, ChainLabels, DelLabels, NewLabels
  <1>8. CASE FreeTake(p) \/ ReuseDat(p)
    <2>1. /\ UNCHANGED <<call, ret, scanning, rec>> /\ pc[p] \in NewLabels
          /\ pc'[p] \in {"reuse_dat", "reuse_idx"}
      BY ZenonT(60), <1>8, <1>a DEF FreeTake, ReuseDat, Goto, CallTypes, NewLabels, db_writeptr,
         idxfile
    <2>2. rec[idxoff'[p]].key = Blank
      <3>1. CASE FreeTake(p)
        <4>1. idxoff'[p] = offset[p]
          BY Zenon, <3>1, <1>a DEF FreeTake, FieldTypes
        <4> QED
          BY Zenon, <3>1, <4>1, FreeTakeStep DEF Takes
      <3>2. CASE ReuseDat(p)
        BY Zenon, <3>2, <1>a DEF ReuseDat, Goto, CallerInv
      <3> QED
        BY Zenon, <1>8, <3>1, <3>2
    <2> QED
      BY Zenon, <1>a, <2>1, <2>2 DEF CallerInv, ChainLabels, DelLabels, NewLabels
  <1>9. CASE ReuseIdx(p) \/ AppendIdx(p)
    <2>1. /\ UNCHANGED <<call, ret, scanning, dat, idxoff>> /\ pc[p] \in {"reuse_idx", "app_idxw"}
          /\ pc'[p] = "link"
      BY ZenonT(60), <1>9, <1>a DEF ReuseIdx, AppendIdx, Goto, CallTypes, datfile, private, current
    <2>2. rec'[idxoff[p]].datoff = datoff[p]
      <3>1. PICK r : rec' = WriteAt(rec, idxoff[p], r) /\ r.datoff = datoff[p]
        BY <1>9 DEF ReuseIdx, AppendIdx, db_writeidx
      <3> QED
        BY Zenon, <3>1 DEF WriteAt
    <2>3. dat[datoff[p]].val = call[p].data
      BY Zenon, <2>1 DEF IndInv, ListInv, ProcInv, DataInv
    <2> QED
      BY Zenon, <1>a, <2>1, <2>2, <2>3 DEF CallerInv, ChainLabels, DelLabels, NewLabels
  <1> QED
    BY Zenon, <1>1, <1>2, <1>3, <1>4, <1>5, <1>6, <1>7, <1>8, <1>9 DEF Act, Step

\* Every step keeps the invariant.
LEMMA NextView == IndInv /\ IndInv' /\ ViewInv /\ [Next]_vars => ViewInv'
  <1>1. ASSUME IndInv, IndInv', ViewInv, NEW p \in Procs, Act(p)
        PROVE  ViewInv'
    <2>1. \A q \in Procs : CallerInv(q)'
      BY Zenon, <1>1, OwnCaller, OthersCaller
    <2> QED
      BY Zenon, <1>1, <2>1, CoverStep, KeyStep, FindStep DEF ViewInv
  <1>2. ASSUME ViewInv, UNCHANGED vars PROVE ViewInv'
    <2>a. UNCHANGED <<ptr, rec, dat, pc, call, ret, fpos, scanning, idxoff, ptroff, offset, saveoff>>
      BY Zenon, <1>2 DEF vars, idxfile, datfile, current
    <2>b. \A o : (Member(o)' <=> Member(o)) /\ (Stale(o)' <=> Stale(o))
      BY Zenon, <2>a DEF Member, Held, Stale
    <2>c. \A q : Deleting(q)' <=> Deleting(q)
      BY Zenon, <2>a DEF Deleting
    <2>d. \A k : Keyed(k)' = Keyed(k)
      BY Zenon, <2>a, <2>b DEF Keyed
    <2>e. \A o : From(o)' = From(o)
      BY Zenon, <2>a DEF From, Closed
    <2>1. CoverInv'
      BY Zenon, <1>2, <2>a, <2>b, <2>c DEF ViewInv, CoverInv
    <2>2. KeyInv'
      BY Zenon, <1>2, <2>d DEF ViewInv, KeyInv
    <2>3. ASSUME NEW q \in Procs PROVE FindInv(q)'
      <3>1. Keyed(call[q].key)' = Keyed(call[q].key) /\ From(offset[q])' = From(offset[q])
        BY Zenon, <2>a, <2>b DEF Keyed, From, Closed
      <3> QED
        BY Zenon, <1>2, <2>a, <3>1 DEF ViewInv, FindInv
    <2>4. \A q \in Procs : CallerInv(q)'
      BY Zenon, <1>2, <2>a DEF ViewInv, CallerInv
    <2> QED
      BY Zenon, <2>1, <2>2, <2>3, <2>4 DEF ViewInv
  <1> QED
    BY Zenon, <1>1, <1>2 DEF Next, Act

\* The whole invariant holds in every state.
THEOREM ViewInvariance == Spec => [](IndInv /\ ViewInv)
  BY InitInv, NextInv, InitView, NextView, PTL DEF Spec

\* No interleaving of stores and deletes loses a record or the tail of a chain:
\* whatever fits a chain ptr is on a list or in the hands of a process.
THEOREM NothingLost == Spec => []NoRecordLost
  BY AllListed, ViewInvariance, PTL

\* A hash chain has only records whose keys hash to it, each key once, and the
\* free list only blank records.
THEOREM ChainsHold == Spec => []ChainsSound
  BY SoundChains, ViewInvariance, PTL

-----------------------------------------------------------------------------
(* The files as a map: every call acts at one instant.                     *)

\* The data of key k, without the chains: what the process that is changing it
\* will leave, or else what the one record of k says.
ValueOf(k) ==
    /\ \A p \in Procs : (Committed(p) /\ call[p].key = k) => MapValue(k) = call[p].data
    /\ (\A p \in Procs : ~(Committed(p) /\ call[p].key = k)) =>
          /\ \A o \in Keyed(k) : MapValue(k) = dat[rec[o].datoff].val
          /\ Keyed(k) = {} => MapValue(k) = None

Values == \A k \in Keys : ValueOf(k)

\* A process that has changed a key and not yet returned has the write lock on
\* the key's chain.
LEMMA WriterLocks ==
    ASSUME IndInv, NEW p \in Procs, Committed(p)
    PROVE  /\ pc[p] \in ChainLabels /\ call[p].key \in Keys
           /\ call[p].op \in {"delete", "store"} /\ p \in wlock[chainoff(p)]
  <1>1. pc[p] \in ChainLabels
    BY Zenon DEF Committed, CommitLabels, ChainLabels
  <1>2. call[p].key \in Keys /\ call[p].op \in {"delete", "store"}
    BY Zenon, <1>1 DEF IndInv, ListInv, CallInv, Committed, CommitLabels
  <1>3. call[p].op # "fetch"
    BY Zenon, <1>2
  <1> QED
    BY Zenon, <1>1, <1>2, <1>3 DEF IndInv, ListInv, HoldInv, Holds

\* No other process is changing the key of a process that has its chain locked.
LEMMA NoOtherWriter ==
    ASSUME IndInv, NEW p \in Procs, NEW q \in Procs, q # p, pc[q] \in ChainLabels,
           Committed(p)
    PROVE  call[p].key # call[q].key
  <1>1. p \in wlock[chainoff(p)] /\ p \notin wlock[chainoff(q)]
    BY Zenon, WriterLocks, LockedOut
  <1> QED
    BY Zenon, <1>1 DEF chainoff

\* The chains say of a key what ValueOf says.
LEMMA ValuesHold == IndInv /\ ViewInv => Values
  <1> SUFFICES ASSUME IndInv, ViewInv, NEW k \in Keys PROVE ValueOf(k)
    BY Zenon DEF Values
  <1> DEFINE writers == {p \in Procs : Committed(p) /\ call[p].key = k}
             found == {o \in Chain(ChainOff(k)) : rec[o].key = k}
             w == CHOOSE p \in writers : TRUE
             f == CHOOSE o \in found : TRUE
  <1>1. MapValue(k) = IF writers # {} THEN call[w].data
                      ELSE IF found # {} THEN dat[rec[f].datoff].val ELSE None
    BY Zenon DEF MapValue
  <1>2. found = Keyed(k)
    <2>1. ChainOff(k) \in 1 .. NHASH /\ k # Blank
      BY Zenon, HashRange, BlankAssumption
    <2>2. ChainOff(k) \in 0 .. NHASH
      BY <2>1, DbAssumption
    <2>3. ASSUME NEW o \in found PROVE o \in Keyed(k)
      BY Zenon, <2>2, ChainClass DEF Keyed
    <2>4. ASSUME NEW o \in Keyed(k) PROVE o \in found
      <3>1. o \in DOMAIN rec /\ Member(o) /\ rec[o].key = k
        BY Zenon DEF Keyed
      <3>2. Class(o) = ChainOff(k)
        BY Zenon, <2>1, <3>1, RecordClass
      <3> QED
        BY Zenon, <2>1, <3>1, <3>2, OnChain
    <2> QED
      BY Zenon, <2>3, <2>4
  <1>3. ASSUME NEW p \in Procs, Committed(p), call[p].key = k
        PROVE  MapValue(k) = call[p].data
    <2>1. writers # {}
      BY Zenon, <1>3
    <2>2. w \in writers
      BY Zenon, <2>1
    <2>3. w = p
      BY Zenon, <1>3, <2>2, NoOtherWriter, WriterLocks
    <2> QED
      BY Zenon, <1>1, <2>1, <2>3
  <1>4. ASSUME \A p \in Procs : ~(Committed(p) /\ call[p].key = k)
        PROVE  /\ \A o \in Keyed(k) : MapValue(k) = dat[rec[o].datoff].val
               /\ Keyed(k) = {} => MapValue(k) = None
    <2>1. writers = {}
      BY Zenon, <1>4
    <2>2. ASSUME NEW o \in Keyed(k) PROVE MapValue(k) = dat[rec[o].datoff].val
      <3>1. found # {} /\ f \in found
        BY Zenon, <1>2, <2>2
      <3>2. f = o
        BY Zenon, <1>2, <3>1 DEF ViewInv, KeyInv
      <3> QED
        BY Zenon, <1>1, <2>1, <3>1, <3>2
    <2> QED
      BY Zenon, <1>1, <1>2, <2>1, <2>2
  <1> QED
    BY Zenon, <1>3, <1>4 DEF ValueOf

\* A step keeps the records of a key, and their data, unless it is the step of
\* a call on that key.
LEMMA KeyedKept ==
    ASSUME IndInv, ViewInv, NEW p \in Procs, Act(p), NEW k \in Keys,
           k = call[p].key => ~Committed(p) /\ dat' = dat
    PROVE  /\ Keyed(k)' = Keyed(k)
           /\ \A o \in Keyed(k) : dat'[rec'[o].datoff].val = dat[rec[o].datoff].val
  <1>a. /\ FindInv(p) /\ DataInv(p) /\ DataExclusive /\ Changes(p) /\ DataFrame(p) /\ k # Blank
        /\ DOMAIN rec \subseteq DOMAIN ptr
    BY Zenon, ListsStep, DataFrameStep, BlankAssumption, Domains
       DEF IndInv, ListInv, ProcInv, ViewInv
  <1>b. k = call[p].key => pc[p] \notin {"del_idx", "link"}
    BY Zenon DEF Committed, CommitLabels, DelLabels, NewLabels
  <1>1. Keyed(k)' \subseteq Keyed(k)
    BY Zenon, <1>b, Newcomers DEF StoreLink
  <1>2. ASSUME NEW o \in Keyed(k) PROVE o \in Keyed(k)' /\ rec'[o] = rec[o]
    <2>a. o \in DOMAIN rec /\ Member(o) /\ rec[o].key = k
      BY Zenon DEF Keyed
    <2>1. CASE DeleteBlankIdx(p) /\ Blanks(p)
      <3>1. o # idxoff[p]
        BY Zenon, <1>a, <1>b, <2>a, <2>1 DEF DeleteBlankIdx, Goto, FindInv
      <3> QED
        BY Zenon, <2>a, <2>1, <3>1 DEF Blanks, Keyed
    <2>2. CASE LinksFree(p) \/ Unlinks(p) \/ Quiet(p)
      BY Zenon, <2>a, <2>2 DEF LinksFree, Unlinks, Quiet, Keyed
    <2>3. CASE Takes(p)
      BY Zenon, <1>a, <2>a, <2>3 DEF Takes, Keyed
    <2>4. CASE Writes(p)
      BY Zenon, <1>a, <2>a, <2>4 DEF Writes, Keyed
    <2>5. CASE Links(p)
      BY Zenon, <2>a, <2>5 DEF Links, Keyed
    <2> QED
      BY Zenon, <1>a, <2>1, <2>2, <2>3, <2>4, <2>5 DEF Changes
  <1>3. ASSUME NEW o \in Keyed(k)
        PROVE  dat'[rec[o].datoff].val = dat[rec[o].datoff].val
    <2>a. o \in DOMAIN rec /\ Member(o) /\ rec[o].key = k /\ rec[o].datoff \in DOMAIN dat
      BY Zenon, <1>a DEF Keyed, DataExclusive
    <2> SUFFICES ASSUME dat'[rec[o].datoff].val # dat[rec[o].datoff].val PROVE FALSE
      BY Zenon
    <2>1. rec[o].datoff = datoff[p] /\ pc[p] \in {"found", "reuse_dat"}
      BY Zenon, <1>a, <2>a DEF DataFrame
    <2>2. o = idxoff[p]
      BY Zenon, <1>a, <2>a, <2>1 DEF DataInv, DataExclusive
    <2>3. CASE pc[p] = "found"
      BY Zenon, <1>a, <2>a, <2>2, <2>3 DEF FindInv
    <2>4. CASE pc[p] = "reuse_dat"
      BY Zenon, <2>a, <2>2, <2>4 DEF Member, Held
    <2> QED
      BY Zenon, <2>1, <2>3, <2>4
  <1> QED
    BY Zenon, <1>1, <1>2, <1>3

\* A process takes a record from the free list or appends one, and holds it
\* until it links it or exits.
LEMMA OwnHeld ==
    ASSUME IndInv, NEW p \in Procs, Act(p)
    PROVE  /\ \A x : (Held(p, x)' /\ ~Held(p, x)) =>
                        \/ FreeTake(p) /\ x = offset[p]
                        \/ pc[p] = "app_idxw" /\ x = idxoff[p]
           /\ \A x : (Held(p, x) /\ ~Held(p, x)') => StoreLink(p) \/ StoreLinkExit(p)
           /\ \A x : (pc[p] = "app_idxw" /\ x = idxoff[p]) => Held(p, x)'
  <1>a. CallTypes /\ FieldTypes
    BY Zenon DEF IndInv, ListInv, TypeOK
  <1> DEFINE H == {"reuse_dat", "reuse_idx", "link"}
  <1>1. CASE Invoke(p) \/ db_rewind(p) \/ Finish(p)
    <2>1. pc[p] \notin H \cup {"app_idxw"} /\ pc'[p] \notin H
      BY ZenonT(60), <1>1, <1>a DEF Invoke, db_rewind, Finish, Goto, CallTypes
    <2> QED
      BY Zenon, <2>1 DEF Held
  <1>2. CASE \/ FindLock(p) \/ FindNext(p) \/ FindMatch(p) \/ FindEnd(p) \/ DeleteBlankDat(p)
             \/ DeleteBlankIdx(p) \/ DeleteLinkFree(p) \/ StoreReread(p) \/ StoreNew(p)
             \/ FreeLock(p) \/ FreeNext(p) \/ FreeNone(p) \/ AppendSeekDat(p) \/ AppendDat(p)
             \/ AppendSeekIdx(p) \/ NextLock(p) \/ NextRead(p)
    <2>1. pc[p] \notin H \cup {"app_idxw"} /\ pc'[p] \notin H
      BY ZenonT(60), <1>2, <1>a DEF FindLock, FindNext, FindMatch, FindEnd, DeleteBlankDat,
         DeleteBlankIdx, DeleteLinkFree, StoreReread, StoreNew, FreeLock, FreeNext, FreeNone,
         AppendSeekDat, AppendDat, AppendSeekIdx, NextLock, NextRead, Goto, CallTypes
    <2> QED
      BY Zenon, <2>1 DEF Held
  <1>3. CASE \/ db_fetch(p) \/ NotFound(p) \/ InsertExists(p) \/ DeleteUnlink(p)
             \/ StoreOverwrite(p) \/ NextTorn(p) \/ NextEOF(p) \/ NextDat(p)
    <2>1. pc[p] \notin H \cup {"app_idxw"} /\ pc'[p] \notin H
      BY ZenonT(60), <1>3, <1>a DEF db_fetch, NotFound, InsertExists, DeleteUnlink,
         StoreOverwrite, NextTorn, NextEOF, NextDat, Return, Exit, CallTypes
    <2> QED
      BY Zenon, <2>1 DEF Held
  <1>4. CASE StoreLink(p) \/ StoreLinkExit(p)
    <2>1. pc[p] = "link" /\ pc'[p] \notin H
      BY Zenon, <1>4, <1>a DEF StoreLink, StoreLinkExit, Return, Exit, CallTypes
    <2> QED
      BY Zenon, <1>4, <2>1 DEF Held
  <1>5. CASE FreeTake(p)
    <2>1. pc[p] = "free_walk" /\ idxoff'[p] = offset[p]
      BY Zenon, <1>5, <1>a DEF FreeTake, Goto, FieldTypes
    <2> QED
      BY Zenon, <1>5, <2>1 DEF Held
  <1>6. CASE ReuseDat(p) \/ ReuseIdx(p)
    <2>1. pc[p] \in H /\ pc'[p] \in H /\ idxoff' = idxoff
      BY Zenon, <1>6, <1>a DEF ReuseDat, ReuseIdx, Goto, CallTypes
    <2> QED
      BY Zenon, <2>1 DEF Held
  <1>7. CASE AppendIdx(p)
    <2>1. pc[p] = "app_idxw" /\ pc'[p] \in H /\ idxoff' = idxoff
      BY Zenon, <1>7, <1>a DEF AppendIdx, Goto, CallTypes, private, current
    <2> QED
      BY Zenon, <2>1 DEF Held
  <1> QED
    BY Zenon, <1>1, <1>2, <1>3, <1>4, <1>5, <1>6, <1>7 DEF Act, Step

\* Only while a call is under way has its process changed a key.
LEMMA CommitKeepsCall ==
    ASSUME IndInv, NEW p \in Procs, Act(p), Committed(p)'
    PROVE  call'[p] = call[p]
  <1>a. CallTypes
    BY Zenon DEF IndInv, ListInv, TypeOK
  <1>1. CASE Invoke(p) \/ Finish(p)
    <2>1. pc'[p] \in {"lock", "scan", "idle"}
      BY Zenon, <1>a, <1>1 DEF Invoke, Finish, Goto, CallTypes
    <2> QED
      BY Zenon, <2>1 DEF Committed, CommitLabels, DelLabels, NewLabels
  <1>2. CASE \/ db_rewind(p) \/ FindLock(p) \/ FindNext(p) \/ FindMatch(p) \/ FindEnd(p)
             \/ DeleteBlankDat(p) \/ DeleteBlankIdx(p) \/ DeleteLinkFree(p) \/ StoreReread(p)
             \/ StoreNew(p) \/ FreeLock(p) \/ FreeNext(p) \/ FreeTake(p) \/ FreeNone(p)
             \/ ReuseDat(p) \/ ReuseIdx(p) \/ AppendSeekDat(p) \/ AppendDat(p)
             \/ AppendSeekIdx(p) \/ AppendIdx(p) \/ NextLock(p) \/ NextRead(p)
    BY ZenonT(60), <1>2 DEF db_rewind, FindLock, FindNext, FindMatch, FindEnd, DeleteBlankDat,
       DeleteBlankIdx, DeleteLinkFree, StoreReread, StoreNew, FreeLock, FreeNext, FreeTake,
       FreeNone, ReuseDat, ReuseIdx, AppendSeekDat, AppendDat, AppendSeekIdx, AppendIdx,
       NextLock, NextRead
  <1>3. CASE \/ db_fetch(p) \/ NotFound(p) \/ InsertExists(p) \/ DeleteUnlink(p) \/ StoreLink(p)
             \/ StoreLinkExit(p) \/ StoreOverwrite(p) \/ NextTorn(p) \/ NextEOF(p) \/ NextDat(p)
    BY ZenonT(60), <1>3 DEF db_fetch, NotFound, InsertExists, DeleteUnlink, StoreLink,
       StoreLinkExit, StoreOverwrite, NextTorn, NextEOF, NextDat, Return, Exit
  <1> QED
    BY Zenon, <1>1, <1>2, <1>3 DEF Act, Step

\* A key whose writers, records and data a step keeps keeps its value.
LEMMA SameValue ==
    ASSUME Values, Values', NEW k \in Keys,
           \A q \in Procs :
              /\ (Committed(q)' /\ call'[q].key = k) <=> (Committed(q) /\ call[q].key = k)
              /\ (Committed(q) /\ call[q].key = k) => call'[q] = call[q],
           Keyed(k)' = Keyed(k),
           \A o \in Keyed(k) : dat'[rec'[o].datoff].val = dat[rec[o].datoff].val
    PROVE  MapValue(k)' = MapValue(k)
  <1>a. ValueOf(k) /\ ValueOf(k)'
    BY Zenon DEF Values
  <1>1. CASE \E q \in Procs : Committed(q) /\ call[q].key = k
    <2>1. PICK q \in Procs : Committed(q) /\ call[q].key = k
      BY Zenon, <1>1
    <2>2. Committed(q)' /\ call'[q].key = k /\ call'[q] = call[q]
      BY Zenon, <2>1
    <2>3. MapValue(k) = call[q].data
      BY Zenon, <1>a, <2>1 DEF ValueOf
    <2>4. MapValue(k)' = call'[q].data
      BY Zenon, <1>a, <2>2 DEF ValueOf
    <2> QED
      BY Zenon, <2>2, <2>3, <2>4
  <1>2. CASE \A q \in Procs : ~(Committed(q) /\ call[q].key = k)
    <2>1. \A q \in Procs : ~(Committed(q)' /\ call'[q].key = k)
      BY Zenon, <1>2
    <2>2. CASE Keyed(k) = {}
      <3>1. MapValue(k) = None
        BY Zenon, <1>a, <1>2, <2>2 DEF ValueOf
      <3>2. MapValue(k)' = None
        BY Zenon, <1>a, <2>1, <2>2 DEF ValueOf
      <3> QED
        BY Zenon, <3>1, <3>2
    <2>3. ASSUME NEW o \in Keyed(k) PROVE MapValue(k)' = MapValue(k)
      <3>1. MapValue(k) = dat[rec[o].datoff].val
        BY Zenon, <1>a, <1>2 DEF ValueOf
      <3>2. MapValue(k)' = dat'[rec'[o].datoff].val
        BY Zenon, <1>a, <2>1, <2>3 DEF ValueOf
      <3> QED
        BY Zenon, <3>1, <3>2
    <2> QED
      BY Zenon, <2>2, <2>3
  <1> QED
    BY Zenon, <1>1, <1>2

\* A step keeps the value of a key, unless it changes it for its own caller.
LEMMA ValueKept ==
    ASSUME IndInv, ViewInv, Values, Values', NEW p \in Procs, Act(p), NEW k \in Keys,
           k = call[p].key => ~Committed(p) /\ ~Committed(p)' /\ dat' = dat
    PROVE  MapValue(k)' = MapValue(k)
  <1>1. ASSUME NEW q \in Procs
        PROVE  /\ (Committed(q)' /\ call'[q].key = k) <=> (Committed(q) /\ call[q].key = k)
               /\ (Committed(q) /\ call[q].key = k) => call'[q] = call[q]
    <2>1. CASE q = p
      BY Zenon, <2>1, CommitKeepsCall
    <2>2. CASE q # p
      BY Zenon, <2>2, OthersStep DEF Committed
    <2> QED
      BY Zenon, <2>1, <2>2
  <1>2. /\ Keyed(k)' = Keyed(k)
        /\ \A o \in Keyed(k) : dat'[rec'[o].datoff].val = dat[rec[o].datoff].val
    BY Zenon, KeyedKept
  <1> QED
    BY Zenon, <1>1, <1>2, SameValue

\* How a step changes the map, given what it does to the key of its call.
LEMMA MapStep ==
    ASSUME IndInv, ViewInv, Values, Values', NEW p \in Procs, Act(p)
    PROVE  /\ (\A k \in Keys : k = call[p].key => MapValue(k)' = MapValue(k)) => values' = values
           /\ \A v : (\A k \in Keys : k = call[p].key => MapValue(k)' = v) =>
                        values' = [values EXCEPT ![call[p].key] = v]
           /\ statuses' = [statuses EXCEPT ![p] = StatusAt(pc'[p])]
           /\ returns' = [returns EXCEPT ![p] = MapRet(p)']
           /\ statuses[p] = StatusAt(pc[p]) /\ returns[p] = MapRet(p)
  <1>1. \A k \in Keys : k # call[p].key => MapValue(k)' = MapValue(k)
    BY Zenon, ValueKept
  <1>2. \A q \in Procs : q # p => StatusAt(pc'[q]) = StatusAt(pc[q]) /\ MapRet(q)' = MapRet(q)
    BY Zenon, OthersStep, OthersCall DEF MapRet, Committed
  <1>3. ASSUME \A k \in Keys : k = call[p].key => MapValue(k)' = MapValue(k)
        PROVE  values' = values
    BY Zenon, <1>1, <1>3 DEF values
  <1>4. ASSUME NEW v, \A k \in Keys : k = call[p].key => MapValue(k)' = v
        PROVE  values' = [values EXCEPT ![call[p].key] = v]
    BY Zenon, <1>1, <1>4 DEF values
  <1>5. statuses' = [statuses EXCEPT ![p] = StatusAt(pc'[p])] /\ statuses[p] = StatusAt(pc[p])
    BY Zenon, <1>2 DEF statuses
  <1>6. returns' = [returns EXCEPT ![p] = MapRet(p)'] /\ returns[p] = MapRet(p)
    BY Zenon, <1>2 DEF returns
  <1> QED
    BY Zenon, <1>3, <1>4, <1>5, <1>6

\* The status of a call, by where its process is.
LEMMA StatusFacts ==
    /\ StatusAt("idle") = "idle" /\ StatusAt("dead") = "dead" /\ StatusAt("done") = "applied"
    /\ \A l \in CommitLabels : StatusAt(l) = "applied"
    /\ \A l \in {"lock", "search", "found", "missing", "scan", "next", "next_dat"} :
          StatusAt(l) = "called" /\ l \notin CommitLabels
    /\ {"idle", "dead", "done"} \cap CommitLabels = {}
  BY DEF StatusAt, CommitLabels, DelLabels, NewLabels

\* The records db_nextrec shows although no chain has them stay as they are,
\* unless a store exits.
LEMMA GhostsKept ==
    ASSUME IndInv, ViewInv, NEW p \in Procs, Act(p), ~StoreLinkExit(p)
    PROVE  MapGhosts' = MapGhosts
  <1> DEFINE X == {x \in DOMAIN rec : x > PTR_MAX /\ ~ \E q \in Procs : Held(q, x)}
  <1>a. /\ Changes(p) /\ DataFrame(p) /\ PtrInv /\ SearchInv(p) /\ StoreInv(p) /\ DataInv(p)
        /\ DataExclusive /\ FindInv(p)
    BY Zenon, ListsStep, DataFrameStep DEF IndInv, ListInv, ProcInv, ViewInv
  <1>b. pc[p] \in {"found", "del_idx"} => ~(idxoff[p] > PTR_MAX)
    <2> SUFFICES ASSUME pc[p] \in {"found", "del_idx"} PROVE ~(idxoff[p] > PTR_MAX)
      BY Zenon
    <2>1. InUse(idxoff[p], chainoff(p)) /\ idxoff[p] \in DOMAIN rec
      BY Zenon, <1>a DEF SearchInv
    <2>2. idxoff[p] <= PTR_MAX /\ idxoff[p] \in Int /\ PTR_MAX \in Int
      <3>1. idxoff[p] <= PTR_MAX
        BY Zenon, <2>1 DEF InUse, Stale, Member
      <3>2. idxoff[p] \in Int /\ PTR_MAX \in Nat
        BY Zenon, DbAssumption DEF IndInv, ListInv, TypeOK, FieldTypes
      <3> QED
        BY <3>1, <3>2
    <2> QED
      BY <2>2
  <1>c. FreeTake(p) => ~(offset[p] > PTR_MAX)
    <2> SUFFICES ASSUME FreeTake(p) PROVE ~(offset[p] > PTR_MAX)
      BY Zenon
    <2>1. /\ saveoff[p] \in DOMAIN ptr /\ ptr[saveoff[p]] = offset[p] /\ offset[p] # 0
      BY Zenon, <1>a DEF FreeTake, Goto, StoreInv, InUse
    <2>2. offset[p] <= PTR_MAX
      BY Zenon, <1>a, <2>1 DEF PtrInv
    <2>3. offset[p] \in Int /\ PTR_MAX \in Nat
      BY Zenon, DbAssumption DEF IndInv, ListInv, TypeOK, FieldTypes
    <2> QED
      BY <2>2, <2>3
  <1>d. pc[p] = "app_idxw" => idxoff[p] \notin DOMAIN rec
    <2>1. DOMAIN rec = (NHASH + 1) .. (idxsize - 1) /\ idxsize \in Int
      BY Zenon, Domains DEF IndInv, ListInv
    <2>2. pc[p] = "app_idxw" => idxoff[p] = idxsize
      BY Zenon, <1>a DEF StoreInv
    <2> QED
      BY <2>1, <2>2
  <1>e. StoreLink(p) => ~(idxoff[p] > PTR_MAX)
    <2>1. StoreLink(p) => idxoff[p] <= PTR_MAX
      BY Zenon DEF StoreLink
    <2>2. idxoff[p] \in Int /\ PTR_MAX \in Nat
      BY Zenon, DbAssumption DEF IndInv, ListInv, TypeOK, FieldTypes
    <2> QED
      BY <2>1, <2>2
  <1>1. ASSUME NEW x \in X
        PROVE  /\ x \in DOMAIN rec' /\ rec'[x].key = rec[x].key /\ rec'[x].datoff = rec[x].datoff
               /\ dat'[rec[x].datoff].val = dat[rec[x].datoff].val
    <2>1. ~Held(p, x)
      BY Zenon
    <2>2. rec'[x].key = rec[x].key
      BY Zenon, <1>a, <1>b, <2>1 DEF DataFrame, Held
    <2>3. ASSUME dat'[rec[x].datoff].val # dat[rec[x].datoff].val PROVE FALSE
      <3>1. rec[x].datoff = datoff[p] /\ pc[p] \in {"found", "reuse_dat"}
        BY Zenon, <1>a, <2>3 DEF DataFrame, DataExclusive
      <3>2. x = idxoff[p]
        BY Zenon, <1>a, <3>1 DEF DataInv, DataExclusive
      <3> QED
        BY Zenon, <1>b, <2>1, <3>1, <3>2 DEF Held
    <2> QED
      BY Zenon, <1>a, <2>2, <2>3 DEF DataFrame
  <1>2. X' = X
    <2>1. \A x : (\E q \in Procs : q # p /\ Held(q, x)') <=> (\E q \in Procs : q # p /\ Held(q, x))
      BY Zenon, OthersStep DEF Held
    <2>2. ASSUME NEW x \in X PROVE x \in X'
      <3>1. ASSUME Held(p, x)' PROVE FALSE
        <4>1. CASE FreeTake(p) /\ x = offset[p]
          BY Zenon, <1>c, <4>1
        <4>2. CASE pc[p] = "app_idxw" /\ x = idxoff[p]
          BY Zenon, <1>d, <4>2
        <4> QED
          BY Zenon, <3>1, <4>1, <4>2, OwnHeld
      <3> QED
        BY Zenon, <1>1, <2>1, <3>1
    <2>3. ASSUME NEW x \in X' PROVE x \in X
      <3>1. ~Held(p, x)
        BY Zenon, <1>e, OwnHeld DEF Held
      <3>2. x \in DOMAIN rec
        BY Zenon, <1>a, OwnHeld DEF DataFrame
      <3> QED
        BY Zenon, <2>1, <3>1, <3>2
    <2> QED
      BY Zenon, <2>2, <2>3
  <1> QED
    BY Zenon, <1>1, <1>2 DEF MapGhosts

\* A call that has found its record sees the value of its key, and one that
\* has not sees that there is none.
LEMMA OwnValue ==
    ASSUME IndInv, ViewInv, Values, NEW p \in Procs, pc[p] \in {"found", "missing"}
    PROVE  /\ call[p].key \in Keys /\ values[call[p].key] = MapValue(call[p].key)
           /\ pc[p] = "found" => /\ MapValue(call[p].key) = dat[datoff[p]].val
                                 /\ MapValue(call[p].key) # None
           /\ pc[p] = "missing" => MapValue(call[p].key) = None
  <1> DEFINE k == call[p].key
  <1>a. /\ FindInv(p) /\ SearchInv(p) /\ DataInv(p) /\ DataExclusive /\ FileTypes
    BY Zenon DEF IndInv, ListInv, ProcInv, ViewInv, TypeOK
  <1>1. pc[p] \in ChainLabels /\ ~Committed(p)
    BY Zenon, StatusFacts DEF ChainLabels, Committed
  <1>2. k \in Keys
    BY Zenon, <1>1 DEF IndInv, ListInv, CallInv
  <1>3. \A q \in Procs : ~(Committed(q) /\ call[q].key = k)
    BY Zenon, <1>1, NoOtherWriter
  <1>4. ValueOf(k)
    BY Zenon, <1>2 DEF Values
  <1>5. CASE pc[p] = "found"
    <2>1. /\ idxoff[p] \in DOMAIN rec /\ Member(idxoff[p]) /\ rec[idxoff[p]].key = k
          /\ datoff[p] = rec[idxoff[p]].datoff
      BY Zenon, <1>a, <1>5 DEF SearchInv, InUse, Stale, FindInv, DataInv
    <2>2. MapValue(k) = dat[datoff[p]].val
      BY Zenon, <1>3, <1>4, <2>1 DEF ValueOf, Keyed
    <2>3. dat[datoff[p]].val \in Data \cup {Blank}
      BY Zenon, <1>a, <2>1 DEF DataExclusive, FileTypes, Datum
    <2>4. None \notin Data /\ Blank # None
      BY Zenon, BlankAssumption DEF Blank, None
    <2> QED
      BY Zenon, <1>2, <1>5, <2>2, <2>3, <2>4 DEF values
  <1>6. CASE pc[p] = "missing"
    <2>1. MapValue(k) = None
      BY Zenon, <1>a, <1>3, <1>4, <1>6 DEF ValueOf, FindInv
    <2> QED
      BY Zenon, <1>2, <1>6, <2>1 DEF values
  <1> QED
    BY Zenon, <1>5, <1>6

\* A step that neither writes data nor commits leaves the map alone.
LEMMA MapKept ==
    ASSUME IndInv, ViewInv, Values, Values', NEW p \in Procs, Act(p),
           ~Committed(p), ~Committed(p)', dat' = dat
    PROVE  values' = values
  BY Zenon, ValueKept, MapStep

\* A step that leaves the map, the status and the value to return alone is no
\* step of the map.
LEMMA MapStutters ==
    ASSUME IndInv, ViewInv, Values, Values', NEW p \in Procs, Act(p), ~StoreLinkExit(p),
           call' = call, values' = values, StatusAt(pc'[p]) = StatusAt(pc[p]),
           MapRet(p)' = MapRet(p)
    PROVE  UNCHANGED Map!mapvars
  <1>1. statuses' = statuses
    <2>1. statuses' = [statuses EXCEPT ![p] = statuses[p]]
      BY Zenon, MapStep
    <2> QED
      BY Zenon, <2>1 DEF statuses
  <1>2. returns' = returns
    <2>1. returns' = [returns EXCEPT ![p] = returns[p]]
      BY Zenon, MapStep
    <2> QED
      BY Zenon, <2>1 DEF returns
  <1> QED
    BY Zenon, <1>1, <1>2, GhostsKept DEF Map!mapvars

\* The steps of a search and of a scan change nothing a caller can see.
LEMMA SearchSteps ==
    ASSUME IndInv, ViewInv, Values, Values', NEW p \in Procs,
           \/ FindLock(p) \/ FindNext(p) \/ FindMatch(p) \/ FindEnd(p) \/ NextLock(p)
           \/ NextRead(p) \/ db_rewind(p)
    PROVE  UNCHANGED Map!mapvars
  <1>a. Act(p) /\ CallTypes
    BY Zenon DEF Act, Step, IndInv, ListInv, TypeOK
  <1>1. UNCHANGED <<dat, call, ret>> /\ pc[p] # "link"
    BY ZenonT(60) DEF FindLock, FindNext, FindMatch, FindEnd, NextLock, NextRead, db_rewind,
       datfile, Goto
  <1>2. \/ /\ pc[p] \in {"lock", "search", "scan", "next"}
           /\ pc'[p] \in {"search", "found", "missing", "next", "next_dat"}
        \/ pc[p] = "idle" /\ pc'[p] = "idle"
    BY ZenonT(60), <1>a DEF FindLock, FindNext, FindMatch, FindEnd, NextLock, NextRead, db_rewind,
       Goto, CallTypes
  <1>3. ~Committed(p) /\ ~Committed(p)' /\ StatusAt(pc'[p]) = StatusAt(pc[p])
    BY Zenon, <1>2, StatusFacts DEF Committed
  <1>4. MapRet(p)' = MapRet(p) /\ ~StoreLinkExit(p)
    BY Zenon, <1>1, <1>3 DEF MapRet, StoreLinkExit
  <1>5. values' = values
    BY Zenon, <1>a, <1>1, <1>3, MapKept
  <1> QED
    BY Zenon, <1>a, <1>1, <1>3, <1>4, <1>5, MapStutters

\* From the instant it takes effect to its last step a call hides what it does
\* to the files.
LEMMA HiddenSteps ==
    ASSUME IndInv, ViewInv, Values, Values', NEW p \in Procs,
           \/ DeleteBlankIdx(p) \/ DeleteLinkFree(p) \/ StoreReread(p) \/ FreeLock(p)
           \/ FreeNext(p) \/ FreeTake(p) \/ FreeNone(p) \/ ReuseDat(p) \/ ReuseIdx(p)
           \/ AppendSeekDat(p) \/ AppendDat(p) \/ AppendSeekIdx(p) \/ AppendIdx(p)
           \/ DeleteUnlink(p) /\ call[p].op # "delete"
    PROVE  UNCHANGED Map!mapvars
  <1>a. Act(p) /\ CallTypes
    BY Zenon DEF Act, Step, IndInv, ListInv, TypeOK
  <1>1. call' = call
    BY ZenonT(60) DEF DeleteBlankIdx, DeleteLinkFree, StoreReread, FreeLock, FreeNext, FreeTake,
       FreeNone, ReuseDat, ReuseIdx, AppendSeekDat, AppendDat, AppendSeekIdx, AppendIdx,
       DeleteUnlink
  <1>2. pc[p] \in CommitLabels \ {"link"} /\ pc'[p] \in CommitLabels
    BY ZenonT(60), <1>a DEF DeleteBlankIdx, DeleteLinkFree, StoreReread, FreeLock, FreeNext,
       FreeTake, FreeNone, ReuseDat, ReuseIdx, AppendSeekDat, AppendDat, AppendSeekIdx, AppendIdx,
       DeleteUnlink, Goto, CallTypes, CommitLabels, DelLabels, NewLabels
  <1>3. Committed(p) /\ Committed(p)' /\ StatusAt(pc'[p]) = StatusAt(pc[p])
    BY Zenon, <1>2, StatusFacts DEF Committed
  <1>4. MapRet(p)' = MapRet(p) /\ ~StoreLinkExit(p)
    BY Zenon, <1>2, <1>3 DEF MapRet, StoreLinkExit
  <1>5. ASSUME NEW k \in Keys, k = call[p].key PROVE MapValue(k)' = MapValue(k)
    <2>1. MapValue(k) = call[p].data
      BY Zenon, <1>3, <1>5 DEF Values, ValueOf
    <2>2. MapValue(k)' = call'[p].data
      BY Zenon, <1>1, <1>3, <1>5 DEF Values, ValueOf
    <2> QED
      BY Zenon, <1>1, <2>1, <2>2
  <1>6. values' = values
    BY Zenon, <1>a, <1>5, MapStep
  <1> QED
    BY Zenon, <1>a, <1>1, <1>3, <1>4, <1>6, MapStutters

\* After the last step of a call no process is changing its key.
LEMMA NoWriterLeft ==
    ASSUME IndInv, NEW p \in Procs, Act(p), pc[p] \in ChainLabels, ~Committed(p)'
    PROVE  \A q \in Procs : ~(Committed(q)' /\ call'[q].key = call[p].key)
  <1> SUFFICES ASSUME NEW q \in Procs, Committed(q)', call'[q].key = call[p].key PROVE FALSE
    BY Zenon
  <1>1. q # p
    BY Zenon
  <1>2. Committed(q) /\ call[q].key = call[p].key
    BY Zenon, <1>1, OthersStep DEF Committed
  <1> QED
    BY Zenon, <1>1, <1>2, NoOtherWriter

\* The last step of a delete, and of a store of a new record, leaves in the
\* files what the call hid.
LEMMA LastSteps ==
    ASSUME IndInv, ViewInv, Values, Values', NEW p \in Procs,
           (DeleteUnlink(p) /\ call[p].op = "delete") \/ StoreLink(p)
    PROVE  UNCHANGED Map!mapvars
  <1> DEFINE k == call[p].key
  <1>a. Act(p) /\ CallTypes /\ FindInv(p) /\ CallerInv(p)
    BY Zenon DEF Act, Step, IndInv, ListInv, TypeOK, ViewInv
  <1>1. /\ call' = call /\ dat' = dat /\ pc[p] \in {"del_unlink", "link"} /\ pc'[p] = "done"
        /\ ret'[p] = <<None, "ok">>
    BY ZenonT(60), <1>a DEF DeleteUnlink, StoreLink, Return, CallTypes, datfile
  <1>2. Committed(p) /\ ~Committed(p)' /\ StatusAt(pc'[p]) = StatusAt(pc[p])
    <2>1. pc[p] \in CommitLabels
      BY Zenon, <1>1 DEF CommitLabels, DelLabels, NewLabels
    <2> QED
      BY Zenon, <1>1, <2>1, StatusFacts DEF Committed
  <1>3. MapRet(p)' = MapRet(p)
    BY Zenon, <1>1, <1>2 DEF MapRet
  <1>4. ~StoreLinkExit(p)
    BY Zenon, <1>a, <1>1 DEF StoreLinkExit, Exit, CallTypes
  <1>5. k \in Keys /\ pc[p] \in ChainLabels
    BY Zenon, <1>2, WriterLocks
  <1>6. ValueOf(k)
    BY Zenon, <1>5 DEF Values
  <1>7. MapValue(k) = call[p].data
    BY Zenon, <1>2, <1>6 DEF ValueOf
  <1>8. \A q \in Procs : ~(Committed(q)' /\ call'[q].key = k)
    BY Zenon, <1>a, <1>2, <1>5, NoWriterLeft
  <1>9. Keyed(k) = {}
    BY Zenon, <1>a, <1>1 DEF FindInv, NewLabels
  <1>10. ASSUME NEW j \in Keys, j = call[p].key PROVE MapValue(j)' = MapValue(j)
    <2>a. j = k /\ ValueOf(j)'
      BY Zenon, <1>10 DEF Values
    <2>b. \A q \in Procs : ~(Committed(q)' /\ call'[q].key = j)
      BY Zenon, <1>8, <2>a
    <2>1. CASE DeleteUnlink(p) /\ call[p].op = "delete"
      <3>1. Keyed(j)' = {}
        BY Zenon, <1>a, <1>1, <1>9, <2>a, <2>1, Newcomers DEF DeleteUnlink, StoreLink
      <3>2. MapValue(j)' = None
        BY Zenon, <2>a, <2>b, <3>1 DEF ValueOf
      <3>3. call[p].data = None
        BY <1>a, <2>1 DEF CallerInv, Calls, NoCall
      <3> QED
        BY Zenon, <1>7, <2>a, <3>2, <3>3
    <2>2. CASE StoreLink(p)
      <3>1. Links(p)
        BY Zenon, <2>2, StoreLinkStep
      <3>2. PICK i \in DOMAIN rec : /\ i = idxoff[p] /\ rec' = rec /\ rec[i].key = j
                                    /\ Member(i)'
        BY Zenon, <2>a, <3>1 DEF Links
      <3>3. MapValue(j)' = dat'[rec'[i].datoff].val
        BY Zenon, <2>a, <2>b, <3>2 DEF ValueOf, Keyed
      <3>4. dat[rec[i].datoff].val = call[p].data
        BY Zenon, <1>a, <2>2, <3>2 DEF CallerInv, StoreLink
      <3> QED
        BY Zenon, <1>1, <1>7, <2>a, <3>2, <3>3, <3>4
    <2> QED
      BY Zenon, <2>1, <2>2
  <1>11. values' = values
    BY Zenon, <1>a, <1>10, MapStep
  <1> QED
    BY Zenon, <1>a, <1>1, <1>2, <1>3, <1>4, <1>11, MapStutters

\* The call takes effect and returns in one step.
LEMMA ReturnApplies ==
    ASSUME IndInv, ViewInv, Values, Values', NEW p \in Procs, Act(p),
           pc[p] \in {"found", "missing", "next", "next_dat"},
           NEW rs, NEW v, Return(p, rs, v), NEW m, values' = m
    PROVE  /\ Map!Apply(p, call[p].op, m, v)
           /\ ~Committed(p) /\ ~Committed(p)'
  <1>a. CallTypes
    BY Zenon DEF IndInv, ListInv, TypeOK
  <1>1. call' = call /\ pc'[p] = "done" /\ ret'[p] = v
    BY Zenon, <1>a DEF Return, CallTypes
  <1>2. ~Committed(p) /\ ~Committed(p)'
    BY Zenon, <1>1, StatusFacts DEF Committed
  <1>3. StatusAt(pc[p]) = "called" /\ StatusAt(pc'[p]) = "applied" /\ MapRet(p)' = v
    BY Zenon, <1>1, <1>2, StatusFacts DEF MapRet
  <1>4. ~StoreLinkExit(p)
    BY Zenon DEF StoreLinkExit
  <1>5. /\ statuses' = [statuses EXCEPT ![p] = "applied"] /\ statuses[p] = "called"
        /\ returns' = [returns EXCEPT ![p] = v]
    BY Zenon, <1>3, MapStep
  <1> QED
    BY Zenon, <1>1, <1>2, <1>4, <1>5, GhostsKept DEF Map!Apply

\* A delete, or a store that needs a new record, takes effect before it is done.
LEMMA CommitApplies ==
    ASSUME IndInv, ViewInv, Values, Values', NEW p \in Procs, DeleteBlankDat(p) \/ StoreNew(p)
    PROVE  Map!Apply(p, call[p].op, [values EXCEPT ![call[p].key] = call[p].data],
                     <<None, "ok">>)
  <1>a. Act(p) /\ CallTypes
    BY Zenon DEF Act, Step, IndInv, ListInv, TypeOK
  <1>1. call' = call /\ pc[p] \in {"found", "missing"} /\ pc'[p] \in {"del_idx", "free_lock"}
    BY ZenonT(60), <1>a DEF DeleteBlankDat, StoreNew, Goto, CallTypes
  <1>2. pc'[p] \in CommitLabels
    BY Zenon, <1>1 DEF CommitLabels, DelLabels, NewLabels
  <1>3. /\ StatusAt(pc[p]) = "called" /\ StatusAt(pc'[p]) = "applied"
        /\ Committed(p)' /\ MapRet(p)' = <<None, "ok">>
    BY Zenon, <1>1, <1>2, StatusFacts DEF Committed, MapRet
  <1>4. ~StoreLinkExit(p)
    BY Zenon, <1>1 DEF StoreLinkExit
  <1>5. /\ statuses' = [statuses EXCEPT ![p] = "applied"] /\ statuses[p] = "called"
        /\ returns' = [returns EXCEPT ![p] = <<None, "ok">>]
    BY Zenon, <1>a, <1>3, MapStep
  <1>6. \A k \in Keys : k = call[p].key => MapValue(k)' = call[p].data
    BY Zenon, <1>1, <1>3 DEF Values, ValueOf
  <1>7. values' = [values EXCEPT ![call[p].key] = call[p].data]
    BY Zenon, <1>a, <1>6, MapStep
  <1> QED
    BY Zenon, <1>a, <1>1, <1>4, <1>5, <1>7, GhostsKept DEF Map!Apply

\* db_fetch, and every call that finds it has nothing to do.
LEMMA ReadsRefine ==
    ASSUME IndInv, ViewInv, Values, Values', NEW p \in Procs,
           db_fetch(p) \/ NotFound(p) \/ InsertExists(p)
    PROVE  Map!Fetch(p) \/ Map!Delete(p) \/ Map!Store(p)
  <1> DEFINE k == call[p].key
  <1>a. Act(p) /\ pc[p] \in {"found", "missing"} /\ dat' = dat
    BY Zenon DEF Act, Step, db_fetch, NotFound, InsertExists, datfile
  <1>b. /\ k \in Keys /\ values[k] = MapValue(k)
        /\ pc[p] = "found" => MapValue(k) = dat[datoff[p]].val /\ MapValue(k) # None
        /\ pc[p] = "missing" => MapValue(k) = None
    BY Zenon, <1>a, OwnValue
  <1>c. ASSUME NEW v, Return(p, {chainoff(p)}, v) PROVE Map!Apply(p, call[p].op, values, v)
    <2>1. ~Committed(p) /\ ~Committed(p)'
      BY Zenon, <1>a, <1>c, ReturnApplies
    <2>2. values' = values
      BY Zenon, <1>a, <2>1, MapKept
    <2> QED
      BY Zenon, <1>a, <1>c, <2>2, ReturnApplies
  <1>1. CASE db_fetch(p)
    <2>1. call[p].op = "fetch" /\ Map!Apply(p, call[p].op, values, <<None, values[k]>>)
      BY Zenon, <1>1, <1>b, <1>c DEF db_fetch
    <2> QED
      BY Zenon, <2>1 DEF Map!Fetch, Map!None, None
  <1>2. CASE NotFound(p)
    <2>1. /\ Map!Apply(p, call[p].op, values, NoRet) /\ values[k] = None
          /\ \/ call[p].op \in {"fetch", "delete"}
             \/ call[p].op = "store" /\ call[p].flag = "DB_REPLACE"
      BY Zenon, <1>2, <1>b, <1>c DEF NotFound
    <2>2. values = [values EXCEPT ![k] = None]
      BY Zenon, <1>b, <2>1 DEF values
    <2>3. CASE call[p].op = "fetch"
      BY Zenon, <2>1, <2>3 DEF Map!Fetch, Map!None, None, NoRet
    <2>4. CASE call[p].op = "delete"
      BY Zenon, <2>1, <2>2, <2>4 DEF Map!Delete, Map!None, None, NoRet, Map!NoRet
    <2>5. CASE call[p].op = "store" /\ call[p].flag = "DB_REPLACE"
      BY Zenon, <2>1, <2>5 DEF Map!Store, Map!None, None, NoRet, Map!NoRet
    <2> QED
      BY Zenon, <2>1, <2>3, <2>4, <2>5
  <1>3. CASE InsertExists(p)
    <2>1. /\ Map!Apply(p, call[p].op, values, <<None, "exists">>) /\ values[k] # None
          /\ call[p].op = "store" /\ call[p].flag = "DB_INSERT"
      BY Zenon, <1>3, <1>b, <1>c DEF InsertExists
    <2> QED
      BY Zenon, <2>1 DEF Map!Store, Map!None, None
  <1> QED
    BY Zenon, <1>1, <1>2, <1>3

\* The steps at which db_delete and db_store take effect.
LEMMA WritesRefine ==
    ASSUME IndInv, ViewInv, Values, Values', NEW p \in Procs,
           DeleteBlankDat(p) \/ StoreNew(p) \/ StoreOverwrite(p)
    PROVE  Map!Delete(p) \/ Map!Store(p)
  <1> DEFINE k == call[p].key
             m == [values EXCEPT ![k] = call[p].data]
  <1>a. Act(p) /\ CallTypes /\ pc[p] \in {"found", "missing"} /\ CallerInv(p)
    BY ZenonT(60) DEF Act, Step, DeleteBlankDat, StoreNew, StoreOverwrite, Goto, ViewInv, IndInv,
       ListInv, TypeOK
  <1>b. /\ k \in Keys /\ values[k] = MapValue(k)
        /\ pc[p] = "found" => MapValue(k) # None
        /\ pc[p] = "missing" => MapValue(k) = None
    BY Zenon, <1>a, OwnValue
  <1>1. CASE DeleteBlankDat(p) /\ call[p].op = "delete"
    <2>1. call[p].data = None
      BY <1>a, <1>1 DEF CallerInv, Calls, NoCall
    <2>2. values[k] # None /\ Map!Apply(p, "delete", m, <<None, "ok">>)
      BY Zenon, <1>b, <1>1, CommitApplies DEF DeleteBlankDat, Goto
    <2> QED
      BY Zenon, <2>1, <2>2 DEF Map!Delete, Map!None, None
  <1>2. CASE DeleteBlankDat(p) /\ Replaces(p)
    <2>1. /\ values[k] # None /\ call[p].flag # "DB_INSERT"
          /\ Map!Apply(p, "store", m, <<None, "ok">>)
      BY Zenon, <1>b, <1>2, CommitApplies DEF DeleteBlankDat, Goto, Replaces
    <2> QED
      BY Zenon, <2>1 DEF Map!Store, Map!None, None
  <1>3. CASE StoreNew(p)
    <2>1. /\ values[k] = None /\ call[p].flag # "DB_REPLACE"
          /\ Map!Apply(p, "store", m, <<None, "ok">>)
      BY Zenon, <1>b, <1>3, CommitApplies DEF StoreNew, Goto
    <2> QED
      BY Zenon, <2>1 DEF Map!Store, Map!None, None
  <1>4. CASE StoreOverwrite(p)
    <2>a. /\ pc[p] = "found" /\ Replaces(p) /\ Return(p, {chainoff(p)}, <<None, "ok">>)
          /\ rec' = rec /\ dat' = WriteAt(dat, datoff[p], [val |-> call[p].data, len |-> datlen[p]])
      BY Zenon, <1>4 DEF StoreOverwrite, db_writedat, idxfile
    <2>b. ~Committed(p) /\ ~Committed(p)' /\ pc'[p] = "done" /\ pc[p] \in ChainLabels
      BY Zenon, <1>a, <2>a, ReturnApplies DEF Return, CallTypes, ChainLabels
    <2>1. PICK i \in DOMAIN rec : /\ i = idxoff[p] /\ Member(i) /\ rec[i].key = k
                                  /\ datoff[p] = rec[i].datoff
      <3>1. FindInv(p) /\ SearchInv(p) /\ DataInv(p)
        BY Zenon DEF IndInv, ListInv, ProcInv, ViewInv
      <3> QED
        BY Zenon, <2>a, <3>1 DEF SearchInv, InUse, Stale, FindInv, DataInv
    <2>2. Member(i)'
      <3>1. \A q \in Procs : ~Held(q, i)'
        BY Zenon, <1>a, <2>1, <2>b, OthersStep DEF Member, Held
      <3> QED
        BY Zenon, <2>1, <3>1 DEF Member
    <2>3. dat'[datoff[p]].val = call[p].data
      BY <2>a DEF WriteAt
    <2>4. ASSUME NEW j \in Keys, j = call[p].key PROVE MapValue(j)' = call[p].data
      <3>1. \A q \in Procs : ~(Committed(q)' /\ call'[q].key = j)
        BY Zenon, <1>a, <2>b, <2>4, NoWriterLeft
      <3>2. i \in Keyed(j)'
        BY Zenon, <2>a, <2>1, <2>2, <2>4 DEF Keyed
      <3>3. MapValue(j)' = dat'[rec'[i].datoff].val
        BY Zenon, <3>1, <3>2 DEF Values, ValueOf
      <3> QED
        BY Zenon, <2>a, <2>1, <2>3, <3>3
    <2>5. values' = m
      BY Zenon, <1>a, <2>4, MapStep
    <2>6. Map!Apply(p, "store", m, <<None, "ok">>) /\ call[p].flag # "DB_INSERT"
      BY Zenon, <1>a, <2>a, <2>5, ReturnApplies DEF Replaces
    <2> QED
      BY Zenon, <1>b, <2>a, <2>6 DEF Map!Store, Map!None, None
  <1> QED
    BY Zenon, <1>1, <1>2, <1>3, <1>4 DEF DeleteBlankDat

\* A scan returns a record of the map, or one that a store left unlinked.
LEMMA ScanRefines ==
    ASSUME IndInv, ViewInv, Values, Values', NEW p \in Procs, NextEOF(p) \/ NextDat(p)
    PROVE  Map!NextRec(p)
  <1> DEFINE o == idxoff[p]
             k == rec[o].key
             d == dat[datoff[p]].val
  <1>a. /\ Act(p) /\ pc[p] \in {"next", "next_dat"} /\ dat' = dat /\ call[p].op = "nextrec"
    BY Zenon DEF Act, Step, NextEOF, NextDat, datfile, ViewInv, CallerInv
  <1>b. ASSUME NEW v, Return(p, {FREE_OFF}, v) PROVE Map!Apply(p, "nextrec", values, v)
    <2>1. ~Committed(p) /\ ~Committed(p)'
      BY Zenon, <1>a, <1>b, ReturnApplies
    <2>2. values' = values
      BY Zenon, <1>a, <2>1, MapKept
    <2> QED
      BY Zenon, <1>a, <1>b, <2>2, ReturnApplies
  <1>1. CASE NextEOF(p)
    <2>1. Map!Apply(p, "nextrec", values, NoRet)
      BY Zenon, <1>1, <1>b DEF NextEOF
    <2> QED
      BY Zenon, <2>1 DEF Map!NextRec, NoRet, Map!NoRet, None, Map!None
  <1>2. CASE NextDat(p)
    <2>a. Map!Apply(p, "nextrec", values, <<k, d>>) /\ pc[p] = "next_dat"
      BY Zenon, <1>2, <1>b DEF NextDat
    <2>b. /\ o \in DOMAIN rec /\ k # Blank /\ datoff[p] = rec[o].datoff
          /\ DataExclusive /\ FileTypes
      BY Zenon, <2>a DEF IndInv, ListInv, ProcInv, ScanInv, TypeOK
    <2>c. k \in Keys /\ ValueOf(k) /\ values[k] = MapValue(k)
      BY Zenon, <2>b, RecordClass DEF Values, values
    <2>d. d # None
      <3>1. d \in Data \cup {Blank}
        BY Zenon, <2>b DEF DataExclusive, FileTypes, Datum
      <3>2. None \notin Data /\ Blank # None
        BY Zenon, BlankAssumption DEF Blank, None
      <3> QED
        BY Zenon, <3>1, <3>2
    <2>1. CASE \E q \in Procs : Held(q, o)
      <3>1. PICK q \in Procs : Held(q, o)
        BY Zenon, <2>1
      <3>2. CallerInv(q) /\ StoreInv(q)
        BY Zenon DEF ViewInv, IndInv, ListInv, ProcInv
      <3>3. pc[q] = "link" /\ call[q].key = k /\ dat[rec[o].datoff].val = call[q].data
        BY Zenon, <2>b, <3>1, <3>2 DEF CallerInv, StoreInv, Held
      <3>4. Committed(q)
        BY Zenon, <3>3 DEF Committed, CommitLabels, NewLabels
      <3>5. values[k] = d
        BY Zenon, <2>b, <2>c, <3>3, <3>4 DEF ValueOf
      <3> QED
        BY Zenon, <2>a, <2>c, <2>d, <3>5 DEF Map!NextRec, Map!None, None
    <2>2. CASE (\A q \in Procs : ~Held(q, o)) /\ o <= PTR_MAX
      <3>1. o \in Keyed(k)
        BY Zenon, <2>b, <2>2 DEF Keyed, Member
      <3>2. ASSUME NEW q \in Procs, Committed(q), call[q].key = k PROVE FALSE
        <4>1. q # p
          BY Zenon, <2>a, <3>2, StatusFacts DEF Committed
        <4>2. pc[q] \notin DelLabels
          BY Zenon, <2>a, <4>1, LockedOut DEF FreeLabels
        <4>3. pc[q] \in {"reread"} \cup NewLabels
          BY Zenon, <3>2, <4>2 DEF Committed, CommitLabels
        <4>4. FindInv(q)
          BY Zenon DEF ViewInv
        <4> QED
          BY Zenon, <3>1, <3>2, <4>3, <4>4 DEF FindInv
      <3>3. values[k] = d
        BY Zenon, <2>b, <2>c, <3>1, <3>2 DEF ValueOf
      <3> QED
        BY Zenon, <2>a, <2>c, <2>d, <3>3 DEF Map!NextRec, Map!None, None
    <2>3. CASE (\A q \in Procs : ~Held(q, o)) /\ ~(o <= PTR_MAX)
      <3>1. o \in Int /\ PTR_MAX \in Nat
        BY Zenon, DbAssumption DEF IndInv, ListInv, TypeOK, FieldTypes
      <3>2. o > PTR_MAX
        BY <2>3, <3>1
      <3>3. <<k, d>> \in MapGhosts
        BY Zenon, <2>3, <2>b, <3>2 DEF MapGhosts
      <3> QED
        BY Zenon, <2>a, <3>3 DEF Map!NextRec
    <2> QED
      BY Zenon, <2>1, <2>2, <2>3
  <1> QED
    BY Zenon, <1>1, <1>2

\* A store whose record does not fit a chain ptr leaves its key without data
\* and its record to the scans.
LEMMA ExitRefines ==
    ASSUME IndInv, ViewInv, Values, Values', NEW p \in Procs, StoreLinkExit(p)
    PROVE  Map!StoreExit(p)
  <1> DEFINE o == idxoff[p]
  <1>a. /\ Act(p) /\ CallTypes /\ FindInv(p) /\ CallerInv(p) /\ StoreInv(p) /\ CallInv
    BY Zenon DEF Act, Step, IndInv, ListInv, TypeOK, ViewInv, ProcInv
  <1>1. /\ call' = call /\ rec' = rec /\ dat' = dat /\ ret' = ret
        /\ pc[p] = "link" /\ pc'[p] = "dead" /\ o > PTR_MAX
    BY Zenon, <1>a DEF StoreLinkExit, Exit, CallTypes, idxfile, datfile
  <1>2. pc[p] \in CommitLabels
    BY Zenon, <1>1 DEF CommitLabels, NewLabels
  <1>3. /\ Committed(p) /\ ~Committed(p)' /\ StatusAt(pc[p]) = "applied"
        /\ StatusAt(pc'[p]) = "dead" /\ MapRet(p)' = ret'[p]
    BY Zenon, <1>1, <1>2, StatusFacts DEF Committed, MapRet
  <1>4. MapRet(p)' = NoRet /\ call[p].op = "store" /\ pc[p] \in ChainLabels
    BY Zenon, <1>a, <1>1, <1>3 DEF CallerInv, CallInv, NewLabels, ChainLabels
  <1>5. /\ statuses' = [statuses EXCEPT ![p] = "dead"] /\ statuses[p] = "applied"
        /\ returns' = [returns EXCEPT ![p] = NoRet]
    BY Zenon, <1>a, <1>3, <1>4, MapStep
  <1>6. ASSUME NEW j \in Keys, j = call[p].key PROVE MapValue(j)' = None
    <2>1. \A q \in Procs : ~(Committed(q)' /\ call'[q].key = j)
      BY Zenon, <1>a, <1>3, <1>4, <1>6, NoWriterLeft
    <2>2. Keyed(j) = {}
      BY Zenon, <1>a, <1>1, <1>6 DEF FindInv, NewLabels
    <2>3. ~StoreLink(p)
      BY Zenon, <1>a, <1>1 DEF StoreLink, Return, CallTypes
    <2>4. Keyed(j)' = {}
      BY Zenon, <1>a, <2>2, <2>3, Newcomers
    <2> QED
      BY Zenon, <2>1, <2>4 DEF Values, ValueOf
  <1>7. values' = [values EXCEPT ![call[p].key] = None]
    BY Zenon, <1>a, <1>6, MapStep
  <1>8. /\ o \in DOMAIN rec /\ rec[o].key = call[p].key /\ dat[rec[o].datoff].val = call[p].data
        /\ \A q \in Procs : Held(q, o) <=> q = p
    BY Zenon, <1>a, <1>1 DEF StoreInv, CallerInv, Held
  <1>9. \A q \in Procs : \A x : Held(q, x)' <=> Held(q, x) /\ q # p
    BY Zenon, <1>a, <1>1, OthersStep DEF Held
  <1>10. MapGhosts' = MapGhosts \cup {<<call[p].key, call[p].data>>}
    <2> DEFINE X == {x \in DOMAIN rec : x > PTR_MAX /\ ~ \E q \in Procs : Held(q, x)}
    <2>1. PICK i \in DOMAIN rec : i = o
      BY Zenon, <1>8
    <2>a. \A x : (\E q \in Procs : Held(q, x)') <=> (x # i /\ \E q \in Procs : Held(q, x))
      <3>1. \A q \in Procs : Held(q, i) <=> q = p
        BY Zenon, <1>8, <2>1
      <3>2. \A x : Held(p, x) => x = i
        BY Zenon, <2>1 DEF Held
      <3> QED
        BY Zenon, <1>9, <3>1, <3>2
    <2>b. X' = X \cup {i}
      BY Zenon, <1>1, <2>1, <2>a
    <2> HIDE DEF X
    <2>2. MapGhosts = {<<rec[x].key, dat[rec[x].datoff].val>> : x \in X}
      BY Zenon DEF MapGhosts, X
    <2>3. MapGhosts' = {<<rec[x].key, dat[rec[x].datoff].val>> : x \in X'}
      BY Zenon, <1>1 DEF MapGhosts, X
    <2> QED
      BY Zenon, <1>8, <2>1, <2>2, <2>3, <2>b
  <1> QED
    BY Zenon, <1>1, <1>4, <1>5, <1>7, <1>10 DEF Map!StoreExit, Map!None, None, NoRet, Map!NoRet

\* The caller's own steps: a call begins, and a call has returned.
LEMMA CallsRefine ==
    ASSUME IndInv, ViewInv, Values, Values', NEW p \in Procs, Invoke(p) \/ Finish(p)
    PROVE  Map!Invoke(p) \/ Map!Finish(p)
  <1>a. Act(p) /\ CallTypes
    BY Zenon DEF Act, Step, IndInv, ListInv, TypeOK
  <1>1. /\ dat' = dat /\ pc[p] \in {"idle", "done"} /\ pc'[p] \in {"lock", "scan", "idle"}
    BY Zenon, <1>a DEF Invoke, Finish, Goto, datfile, CallTypes
  <1>2. ~Committed(p) /\ ~Committed(p)' /\ ~StoreLinkExit(p)
    BY Zenon, <1>1, StatusFacts DEF Committed, StoreLinkExit
  <1>3. values' = values /\ MapGhosts' = MapGhosts
    BY Zenon, <1>a, <1>1, <1>2, MapKept, GhostsKept
  <1>4. CASE Invoke(p)
    <2>1. PICK c \in Calls :
             /\ Goto(p, "idle", IF c.op = "nextrec" THEN "scan" ELSE "lock")
             /\ call' = [call EXCEPT ![p] = c] /\ ret' = ret
      BY Zenon, <1>4 DEF Invoke
    <2>2. pc[p] = "idle" /\ pc'[p] \in {"lock", "scan"}
      BY Zenon, <1>a, <2>1 DEF Goto, CallTypes
    <2>3. MapRet(p)' = MapRet(p)
      BY Zenon, <1>2, <2>1 DEF MapRet
    <2>4. statuses[p] = "idle" /\ statuses' = [statuses EXCEPT ![p] = "called"]
      <3>1. StatusAt(pc[p]) = "idle" /\ StatusAt(pc'[p]) = "called"
        BY Zenon, <2>2, StatusFacts
      <3> QED
        BY Zenon, <1>a, <3>1, MapStep
    <2>5. returns' = returns
      <3>1. returns' = [returns EXCEPT ![p] = returns[p]]
        BY Zenon, <1>a, <2>3, MapStep
      <3> QED
        BY Zenon, <3>1 DEF returns
    <2>6. /\ c.op \in CallOps /\ c.key \in Keys \cup {None} /\ c.data \in Data \cup {None}
          /\ c.flag \in StoreFlags \cup {None}
          /\ c = [op |-> c.op, key |-> c.key, data |-> c.data, flag |-> c.flag]
      BY DEF Calls
    <2>7. \E op \in CallOps, k \in Keys \cup {None}, d \in Data \cup {None},
             f \in StoreFlags \cup {None} :
             call' = [call EXCEPT ![p] = [op |-> op, key |-> k, data |-> d, flag |-> f]]
      BY Zenon, <2>1, <2>6
    <2> QED
      BY Zenon, <1>3, <2>4, <2>5, <2>7 DEF Map!Invoke, Map!None, None
  <1>5. CASE Finish(p)
    <2>1. /\ pc[p] = "done" /\ pc'[p] = "idle" /\ ret'[p] = NoRet
          /\ call' = [call EXCEPT ![p] = NoCall]
      BY Zenon, <1>a, <1>5 DEF Finish, Goto, CallTypes
    <2>2. MapRet(p)' = NoRet
      BY Zenon, <1>2, <2>1 DEF MapRet
    <2>3. /\ statuses[p] = "applied" /\ statuses' = [statuses EXCEPT ![p] = "idle"]
          /\ returns' = [returns EXCEPT ![p] = NoRet]
      <3>1. StatusAt(pc[p]) = "applied" /\ StatusAt(pc'[p]) = "idle"
        BY Zenon, <2>1, StatusFacts
      <3> QED
        BY Zenon, <1>a, <2>2, <3>1, MapStep
    <2> QED
      BY Zenon, <1>3, <2>1, <2>3 DEF Map!Finish, NoRet, Map!NoRet, NoCall, Map!NoCall, None,
         Map!None
  <1> QED
    BY Zenon, <1>4, <1>5

\* The empty database is the empty map.
LEMMA InitMap == Init => Map!MapInit
  <1> SUFFICES ASSUME Init PROVE Map!MapInit
    BY Zenon
  <1>1. Values
    BY Zenon, InitInv, InitView, ValuesHold
  <1>2. /\ DOMAIN rec = {} /\ \A p \in Procs : pc[p] = "idle" /\ ret[p] = NoRet
        /\ call = [p \in Procs |-> NoCall]
    BY Zenon DEF Init
  <1>3. ASSUME NEW k \in Keys PROVE MapValue(k) = None
    <2>1. \A p \in Procs : ~Committed(p)
      BY Zenon, <1>2, StatusFacts DEF Committed
    <2>2. Keyed(k) = {}
      BY Zenon, <1>2 DEF Keyed
    <2> QED
      BY Zenon, <1>1, <2>1, <2>2 DEF Values, ValueOf
  <1>4. values = [k \in Keys |-> None]
    BY Zenon, <1>3 DEF values
  <1>5. MapGhosts = {}
    BY Zenon, <1>2 DEF MapGhosts
  <1>6. \A p \in Procs : StatusAt(pc[p]) = "idle" /\ MapRet(p) = NoRet
    BY Zenon, <1>2, StatusFacts DEF MapRet, Committed
  <1>7. statuses = [p \in Procs |-> "idle"] /\ returns = [p \in Procs |-> NoRet]
    BY Zenon, <1>6 DEF statuses, returns
  <1> QED
    BY Zenon, <1>2, <1>4, <1>5, <1>7 DEF Map!MapInit, NoRet, Map!NoRet, NoCall, Map!NoCall, None,
       Map!None

\* Every step is a step of the map or none, for clients that rewind before a
\* scan: others may find _db_readidx at a position that is not a record's.
LEMMA StepRefines ==
    ASSUME Rewinds, IndInv, ViewInv, Values, Values', NEW p \in Procs, Act(p)
    PROVE  Map!MapNext \/ UNCHANGED Map!mapvars
  <1>1. ~NextTorn(p)
    <2> SUFFICES ASSUME NextTorn(p) PROVE FALSE
      BY Zenon
    <2>1. pc[p] = "next" /\ fpos[p] = Torn
      BY Zenon DEF NextTorn
    <2>2. fpos[p] >= FirstRec
      BY Zenon, <2>1 DEF ViewInv, CallerInv
    <2> QED
      BY <2>1, <2>2, DbAssumption DEF Torn, FirstRec
  <1>2. CASE \/ FindLock(p) \/ FindNext(p) \/ FindMatch(p) \/ FindEnd(p) \/ NextLock(p)
             \/ NextRead(p) \/ db_rewind(p)
    BY Zenon, <1>2, SearchSteps
  <1>3. CASE \/ DeleteBlankIdx(p) \/ DeleteLinkFree(p) \/ StoreReread(p) \/ FreeLock(p)
             \/ FreeNext(p) \/ FreeTake(p) \/ FreeNone(p) \/ ReuseDat(p) \/ ReuseIdx(p)
             \/ AppendSeekDat(p) \/ AppendDat(p) \/ AppendSeekIdx(p) \/ AppendIdx(p)
    BY Zenon, <1>3, HiddenSteps
  <1>4. CASE DeleteUnlink(p) \/ StoreLink(p)
    BY Zenon, <1>4, HiddenSteps, LastSteps
  <1>5. CASE \/ db_fetch(p) \/ NotFound(p) \/ InsertExists(p)
             \/ DeleteBlankDat(p) \/ StoreNew(p) \/ StoreOverwrite(p)
    BY Zenon, <1>5, ReadsRefine, WritesRefine DEF Map!MapNext
  <1>6. CASE NextEOF(p) \/ NextDat(p) \/ StoreLinkExit(p) \/ Invoke(p) \/ Finish(p)
    BY Zenon, <1>6, ScanRefines, ExitRefines, CallsRefine DEF Map!MapNext
  <1> QED
    BY Zenon, <1>1, <1>2, <1>3, <1>4, <1>5, <1>6 DEF Act, Step

\* Every call is atomic for its caller, in any interleaving of any number of
\* processes on any keys: the library implements the map of DbMap, if clients
\* call db_rewind before a scan.
THEOREM CallsAtomic == ASSUME Rewinds PROVE Spec => Linearizable
  <1>1. Values /\ IndInv /\ ViewInv /\ Values' /\ [Next]_vars => [Map!MapNext]_(Map!mapvars)
    <2>1. ASSUME Values, Values', UNCHANGED vars PROVE UNCHANGED Map!mapvars
      <3>1. UNCHANGED <<ptr, rec, dat, pc, call, ret, idxoff, saveoff>>
        BY Zenon, <2>1 DEF vars, idxfile, datfile, current
      <3>2. values' = values
        <4>1. ASSUME NEW k \in Keys PROVE MapValue(k)' = MapValue(k)
          <5>1. /\ Keyed(k)' = Keyed(k)
                /\ \A o \in Keyed(k) : dat'[rec'[o].datoff].val = dat[rec[o].datoff].val
            BY Zenon, <3>1 DEF Keyed, Member, Held
          <5>2. \A q \in Procs : (Committed(q)' <=> Committed(q)) /\ call'[q] = call[q]
            BY Zenon, <3>1 DEF Committed
          <5> QED
            BY Zenon, <2>1, <5>1, <5>2, SameValue
        <4> QED
          BY Zenon, <4>1 DEF values
      <3>3. MapGhosts' = MapGhosts
        BY Zenon, <3>1 DEF MapGhosts, Held
      <3>4. statuses' = statuses /\ returns' = returns
        BY Zenon, <3>1 DEF statuses, returns, MapRet, Committed
      <3> QED
        BY Zenon, <3>1, <3>2, <3>3, <3>4 DEF Map!mapvars
    <2> QED
      BY Zenon, <2>1, StepRefines DEF Next, Act
  <1> QED
    BY <1>1, InitMap, ValuesHold, ViewInvariance, PTL DEF Spec, Linearizable, Map!MapSpec

=============================================================================
