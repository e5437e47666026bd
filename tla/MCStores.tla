------------------------------ MODULE MCStores ------------------------------
(***************************************************************************)
(* The PostgreSQL pool (PostgreSQL) beside the embedded store (BBolt), so  *)
(* that what is proved of the stores can be stated in one place.  They     *)
(* share nothing: the pool is checked with the store not opened, the store *)
(* in its own module.                                                      *)
(***************************************************************************)
EXTENDS BBolt

CONSTANTS Users, None, MaxConns, MaxPools

VARIABLES
  mu, dbpool, conn, cancel, restarting, starts, cancelled, errorCh, gpc, pool, held,
  started, stopped, panicked, dbUp, open, lost, gfaults

poolVars ==
  <<mu, dbpool, conn, cancel, restarting, starts, cancelled, errorCh, gpc, pool, held,
    started, stopped, panicked, dbUp, open, lost, gfaults>>

PG == INSTANCE PostgreSQL WITH pc <- gpc, faults <- gfaults

ASSUME PoolAssumed == PG!PoolConstants

(* The pool steps, the store has no file and is not opened. *)
PoolNext == PG!Next /\ UNCHANGED vars
PoolInit == Init /\ file = NoBucket /\ PG!Init
PoolSpec == PoolInit /\ [][PoolNext]_<<vars, poolVars>> /\ PG!Fairness

(* A started service has a pool unless it restarts, no other pool is open, *)
(* and only the listener of the current one waits for notifications        *)
(* (postgreSql.go:82-134, 144-169, 208-247).                               *)
PoolInv == PG!Inv

(* A restart comes to an end, in success or not, so that the next one is   *)
(* not refused for ever (postgreSql.go:210, 231, 244).                     *)
RestartCompletes == PG!RestartCompletes

(* What Stop begins comes to an end: Stop itself, and the listeners of the *)
(* pools that it or a restart stopped (postgreSql.go:144-169, 303-318).    *)
StopCompletes == PG!StopCompletes
=============================================================================
