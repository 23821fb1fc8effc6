------------------------------- MODULE DbMap --------------------------------
(***************************************************************************)
(* What the database library of apue2e/db/db.c promises its callers: a map *)
(* from keys to data on which every call takes effect at one instant       *)
(* between its invocation and its return, whatever other processes do.     *)
(*                                                                         *)
(* One weakness is part of the promise because the code has it: a store    *)
(* whose record ends up beyond PTR_MAX ends the process.  The key is then  *)
(* absent, even if the store was to replace a record that existed, and the *)
(* unlinked record stays visible to db_nextrec (a ghost).                  *)
(***************************************************************************)
CONSTANTS Procs, Keys, Data, CallOps, StoreFlags

VARIABLES
    kv,         \* kv[k]: data stored under k, or None
    ghosts,     \* <<key, data>> left behind by stores that exited
    status,     \* "idle", "called", "applied" or "dead"
    call, ret

None == "none"
NoRet == <<None, None>>
NoCall == [op |-> "none", key |-> None, data |-> None, flag |-> None]

mapvars == <<kv, ghosts, status, call, ret>>

MapInit ==
    /\ kv = [k \in Keys |-> None]
    /\ ghosts = {}
    /\ status = [p \in Procs |-> "idle"]
    /\ call = [p \in Procs |-> NoCall]
    /\ ret = [p \in Procs |-> NoRet]

Invoke(p) ==
    /\ status[p] = "idle"
    /\ status' = [status EXCEPT ![p] = "called"]
    /\ \E op \in CallOps, k \in Keys \cup {None}, d \in Data \cup {None},
          f \in StoreFlags \cup {None} :
          call' = [call EXCEPT ![p] = [op |-> op, key |-> k, data |-> d, flag |-> f]]
    /\ UNCHANGED <<kv, ghosts, ret>>

\* The call takes effect: the map becomes m and v will be returned.
Apply(p, op, m, v) ==
    /\ status[p] = "called" /\ call[p].op = op
    /\ kv' = m
    /\ ret' = [ret EXCEPT ![p] = v]
    /\ status' = [status EXCEPT ![p] = "applied"]
    /\ UNCHANGED <<ghosts, call>>

Fetch(p) ==
    Apply(p, "fetch", kv, <<None, kv[call[p].key]>>)

Delete(p) ==
    LET k == call[p].key IN
    Apply(p, "delete", [kv EXCEPT ![k] = None],
          IF kv[k] = None THEN NoRet ELSE <<None, "ok">>)

Store(p) ==
    LET k == call[p].key
        f == call[p].flag
    IN \/ /\ f = "DB_INSERT" /\ kv[k] # None
          /\ Apply(p, "store", kv, <<None, "exists">>)
       \/ /\ f = "DB_REPLACE" /\ kv[k] = None
          /\ Apply(p, "store", kv, NoRet)
       \/ /\ (f = "DB_INSERT" => kv[k] = None) /\ (f = "DB_REPLACE" => kv[k] # None)
          /\ Apply(p, "store", [kv EXCEPT ![k] = call[p].data], <<None, "ok">>)

\* A record of the map, or a ghost, or the end of the scan.
NextRec(p) ==
    \E v \in {NoRet} \cup ghosts \cup {<<k, kv[k]>> : k \in {j \in Keys : kv[j] # None}} :
        Apply(p, "nextrec", kv, v)

\* The store ran into PTR_MAX and the process exited.
StoreExit(p) ==
    /\ status[p] = "applied" /\ call[p].op = "store"
    /\ kv' = [kv EXCEPT ![call[p].key] = None]
    /\ ghosts' = ghosts \cup {<<call[p].key, call[p].data>>}
    /\ status' = [status EXCEPT ![p] = "dead"]
    /\ ret' = [ret EXCEPT ![p] = NoRet]
    /\ UNCHANGED call

Finish(p) ==
    /\ status[p] = "applied"
    /\ status' = [status EXCEPT ![p] = "idle"]
    /\ call' = [call EXCEPT ![p] = NoCall]
    /\ ret' = [ret EXCEPT ![p] = NoRet]
    /\ UNCHANGED <<kv, ghosts>>

MapNext ==
    \E p \in Procs :
        \/ Invoke(p) \/ Finish(p) \/ StoreExit(p)
        \/ Fetch(p) \/ Delete(p) \/ Store(p) \/ NextRec(p)

MapSpec == MapInit /\ [][MapNext]_mapvars

=============================================================================
