----------------------------- MODULE OracleSQL -----------------------------
(***************************************************************************)
(* db/oracle/oracleSql.go: goroutines ping the shared handle without the   *)
(* lock and restart the service when the ping fails, as checkConnection    *)
(* does.                                                                   *)
(*                                                                         *)
(* A section under s.mu is one step, the ping of doStart included.  A      *)
(* handle is the number of its sql.Open, 0 is nil; Start is called once.   *)
(* database/sql and the server are external: a ping may fail at any time,  *)
(* and always fails on a closed handle.                                    *)
(***************************************************************************)
EXTENDS Naturals, FiniteSets

CONSTANTS
  Checkers,         \* goroutines that ping and restart
  MaxOpens,         \* bound on sql.Open, a number
  InitWithoutPing   \* the config's flag, a Boolean

VARIABLES
  connection,   \* s.connection
  started,      \* Start was called
  pc, pinged,   \* per checker: place, handle that it pings
  opens, open   \* external: sql.Opens so far, handles not closed

vars == <<connection, started, pc, pinged, opens, open>>
Handles == 1..MaxOpens

Init ==
  /\ connection = 0 /\ started = FALSE
  /\ pc = [c \in Checkers |-> "idle"] /\ pinged = [c \in Checkers |-> 0]
  /\ opens = 0 /\ open = {}

(* doStart over the handles left open: sql.Open fails, or it succeeds and  *)
(* the ping, unless left out, does or does not.                            *)
DoStart(left, err) ==
  \/ err /\ connection' = 0 /\ open' = left /\ UNCHANGED opens
  \/ /\ opens < MaxOpens /\ (InitWithoutPing => ~err)
     /\ opens' = opens + 1 /\ connection' = opens' /\ open' = left \cup {opens'}

----------------------------------------------------------------------------
Start(err) ==
  /\ ~started /\ started' = TRUE
  /\ DoStart(open, err)
  /\ UNCHANGED <<pc, pinged>>

Stop ==
  /\ started /\ connection # 0
  /\ open' = open \ {connection} /\ connection' = 0
  /\ UNCHANGED <<started, pc, pinged, opens>>

(* DoPing: the handle is read under the lock and pinged without it. *)
PingRead(c) ==
  /\ pc[c] = "idle" /\ started
  /\ pc' = [pc EXCEPT ![c] = IF connection = 0 THEN "restart" ELSE "ping"]
  /\ pinged' = [pinged EXCEPT ![c] = connection]
  /\ UNCHANGED <<connection, started, opens, open>>

PingOk(c) ==
  /\ pc[c] = "ping" /\ pinged[c] \in open
  /\ pc' = [pc EXCEPT ![c] = "idle"] /\ pinged' = [pinged EXCEPT ![c] = 0]
  /\ UNCHANGED <<connection, started, opens, open>>

PingFails(c) ==
  /\ pc[c] = "ping"
  /\ pc' = [pc EXCEPT ![c] = "restart"] /\ pinged' = [pinged EXCEPT ![c] = 0]
  /\ UNCHANGED <<connection, started, opens, open>>

(* DoRestart: doStop and doStart under one lock. *)
DoRestart(c, err) ==
  /\ pc[c] = "restart"
  /\ DoStart(open \ {connection}, err)
  /\ pc' = [pc EXCEPT ![c] = "idle"]
  /\ UNCHANGED <<started, pinged>>

Next ==
  \/ \E err \in BOOLEAN : Start(err) \/ \E c \in Checkers : DoRestart(c, err)
  \/ Stop
  \/ \E c \in Checkers : PingRead(c) \/ PingOk(c) \/ PingFails(c)

Spec == Init /\ [][Next]_vars

----------------------------------------------------------------------------
TypeOK ==
  /\ connection \in 0..opens /\ started \in BOOLEAN
  /\ pc \in [Checkers -> {"idle", "ping", "restart"}]
  /\ pinged \in [Checkers -> 0..opens] /\ \A c \in Checkers : pc[c] = "ping" => pinged[c] # 0
  /\ opens \in 0..MaxOpens /\ open \subseteq Handles

(* However the restarts of several checkers and Stop interleave, the only  *)
(* handle open is s.connection (oracleSql.go:87-100, 127-143).             *)
HandlesOwned == open = {connection} \ {0}

(* The only handle open is s.connection, and nil is never pinged           *)
(* (oracleSql.go:87-158).                                                  *)
Inv == TypeOK /\ HandlesOwned
=============================================================================
