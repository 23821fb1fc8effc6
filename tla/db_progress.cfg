SPECIFICATION FairSpec
CONSTANTS
  k1 = k1
  k2 = k2
  k3 = k3
  d1 = d1
  d2 = d2
  d3 = d3
  p1 = p1
  p2 = p2
  Procs = {p1, p2}
  Keys = {k1, k3}
  Data = {d1}
  NHASH = 2
  PTR_MAX = 4
  HashSum <- MCHashSum
  KeyLen <- MCKeyLen
  DatLen <- MCDatLen
  CallOps = {"fetch", "delete", "store", "nextrec"}
  StoreFlags = {"DB_STORE", "DB_INSERT", "DB_REPLACE"}
  Rewinds = FALSE
CHECK_DEADLOCK FALSE
PROPERTY Progress
