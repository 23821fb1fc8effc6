SPECIFICATION Spec
CONSTANTS
  k1 = k1
  k2 = k2
  k3 = k3
  d1 = d1
  d2 = d2
  d3 = d3
  p1 = p1
  p2 = p2
  Procs = {p1, p2}
  Keys = {k1, k2, k3}
  Data = {d1}
  NHASH = 2
  PTR_MAX = 5
  HashSum <- MCHashSum
  KeyLen <- MCKeyLen
  DatLen <- MCDatLen
  CallOps = {"delete", "store"}
  StoreFlags = {"DB_STORE"}
  Rewinds = TRUE
CHECK_DEADLOCK FALSE
SYMMETRY MCSym
INVARIANT OneReference
INVARIANT Acyclic
INVARIANT NoRecordLost
INVARIANT ChainsSound
INVARIANT DataExclusive
