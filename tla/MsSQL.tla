------------------------------- MODULE MsSQL -------------------------------
(***************************************************************************)
(* db/mssql/msSql.go: Start opens a handle and pings it, up to four times  *)
(* while the error is transient, with ms.mu held; Stop and GetDB wait.     *)
(*                                                                         *)
(* A handle is the number of its sql.Open, 0 is nil.  database/sql and the *)
(* server are external.                                                    *)
(***************************************************************************)
EXTENDS Naturals, FiniteSets

CONSTANTS
  Starters, Users,  \* goroutines that Start and Stop, that GetDB
  MaxOpens          \* bound on sql.Open, a number

VARIABLES
  db,           \* ms.db
  pc,           \* per starter: "idle", or "ping" with ms.mu held
  attempt,      \* of the Start that pings
  got,          \* per user: the handle that GetDB returned
  opens, open,  \* external: sql.Opens so far, handles not closed
  answered      \* external: handles on which a ping succeeded

vars == <<db, pc, attempt, got, opens, open, answered>>
Handles == 1..MaxOpens

Init ==
  /\ db = 0 /\ pc = [s \in Starters |-> "idle"] /\ attempt = 0
  /\ got = [u \in Users |-> 0]
  /\ opens = 0 /\ open = {} /\ answered = {}

Free == \A s \in Starters : pc[s] = "idle"
Goto(s, place) == pc' = [pc EXCEPT ![s] = place]

----------------------------------------------------------------------------
(* Start up to the pings.  One that finds a handle, or whose sql.Open      *)
(* fails, changes nothing.                                                 *)
Start(s) ==
  /\ Free /\ db = 0 /\ opens < MaxOpens
  /\ opens' = opens + 1 /\ db' = opens' /\ open' = open \cup {opens'}
  /\ Goto(s, "ping") /\ attempt' = 0
  /\ UNCHANGED <<got, answered>>

(* pingWithRetry *)
PingOk(s) ==
  /\ pc[s] = "ping"
  /\ answered' = answered \cup {db}
  /\ Goto(s, "idle") /\ attempt' = 0
  /\ UNCHANGED <<db, got, opens, open>>

(* External: what a ping may fail with, the error numbers of isTransient   *)
(* being one case.                                                         *)
Errors == {"transient", "other"}
isTransient(err) == err = "transient"

(* The ping fails and is repeated, or Start closes the handle. *)
GiveUp(s) ==
  /\ open' = open \ {db} /\ db' = 0
  /\ Goto(s, "idle") /\ attempt' = 0
  /\ UNCHANGED <<got, opens, answered>>

Again(s) == attempt' = attempt + 1 /\ UNCHANGED <<db, pc, got, opens, open, answered>>

PingFailsForever(s, err) == \* Fault: the attempts are not counted.
  /\ pc[s] = "ping"
  /\ IF isTransient(err) THEN attempt' = (attempt + 1) % 4 /\ UNCHANGED <<db, pc, got, opens, open, answered>>
                         ELSE GiveUp(s)

PingFails(s, err) ==
  /\ pc[s] = "ping"
  /\ IF attempt >= 3 \/ ~isTransient(err) THEN GiveUp(s) ELSE Again(s)

Stop ==
  /\ Free /\ db # 0
  /\ open' = open \ {db} /\ db' = 0
  /\ UNCHANGED <<pc, attempt, got, opens, answered>>

GetDB(u) ==
  /\ Free
  /\ got' = [got EXCEPT ![u] = db]
  /\ UNCHANGED <<db, pc, attempt, opens, open, answered>>

Next ==
  \/ \E s \in Starters : Start(s) \/ PingOk(s) \/ \E err \in Errors : PingFails(s, err)
  \/ Stop
  \/ \E u \in Users : GetDB(u)

(* A Start under way goes on: each ping ends with the context's timeout. *)
Fairness == \A s \in Starters : WF_vars(PingOk(s) \/ \E err \in Errors : PingFails(s, err))

Spec == Init /\ [][Next]_vars /\ Fairness

----------------------------------------------------------------------------
TypeOK ==
  /\ db \in 0..opens /\ pc \in [Starters -> {"idle", "ping"}] /\ attempt \in 0..3
  /\ got \in [Users -> 0..opens] /\ opens \in 0..MaxOpens
  /\ open \subseteq Handles /\ answered \subseteq Handles

(* Whatever Starts and Stops there are, and whatever the pings answer, the *)
(* only handle open is ms.db (msSql.go:31-61, 82-91).                      *)
HandlesOwned == open = {db} \ {0}

(* GetDB never returns a handle whose server has not answered: it waits    *)
(* for the pings of Start (msSql.go:31-33, 53-58, 93-97).                  *)
UsersGetAnswered == \A u \in Users : got[u] # 0 => got[u] \in answered

(* The only handle open is ms.db, and users get none that has not answered *)
(* (msSql.go:31-97).                                                       *)
Inv == TypeOK /\ HandlesOwned /\ UsersGetAnswered

(* Start returns whatever the pings answer (msSql.go:63-80). *)
StartReturns == \A s \in Starters : pc[s] = "ping" ~> pc[s] = "idle"
=============================================================================
