----------------------------- MODULE LDAPClient -----------------------------
(***************************************************************************)
(* ldap/client.go: concurrent VerifyUser calls share one LDAP connection.  *)
(* A call whose search fails closes the connection, forgets it if it is    *)
(* still the shared one, connects again and searches once more.            *)
(*                                                                         *)
(* A section under c.mu, a dial, a search and a Close are one step each; a *)
(* connection is the number of its dial, 0 is nil.  The server and the     *)
(* LDAP library are external: a search on a live connection may succeed,   *)
(* be refused or time out, one on a closed connection fails.               *)
(***************************************************************************)
EXTENDS Naturals, FiniteSets

CONSTANTS
  Callers,
  MaxDials    \* bound on dials, a number above 0

VARIABLES
  conn,        \* c.conn
  pc, local,   \* per caller: place, connection that it dialled or searches on
  failed,      \* per caller: connection of its first search, once that has failed
  dials, open, \* external: dials so far, connections not closed
  dropped,     \* connections forgotten by a second search without a Close
  panicked     \* a search was made on nil

vars == <<conn, pc, local, failed, dials, open, dropped, panicked>>
Conns == 1..MaxDials

(* NewClient has connected. *)
Init ==
  /\ conn = 1
  /\ pc = [p \in Callers |-> "idle"] /\ local = [p \in Callers |-> 0]
  /\ failed = [p \in Callers |-> 0]
  /\ dials = 1 /\ open = {1} /\ dropped = {} /\ panicked = FALSE

(* p goes on at place with connection c at hand. *)
Goto(p, place, c) ==
  /\ pc' = [pc EXCEPT ![p] = place]
  /\ local' = [local EXCEPT ![p] = c]

Return(p) == Goto(p, "idle", 0) /\ failed' = [failed EXCEPT ![p] = 0]

----------------------------------------------------------------------------
(* connectLocked: nothing to do, or a dial without the lock.  Its second   *)
(* use, after a failed search, is told from the first by failed.           *)
Connect(p) ==
  /\ pc[p] \in {"idle", "connect"}
  /\ Goto(p, IF conn = 0 THEN "dial" ELSE "read", 0)
  /\ UNCHANGED <<conn, failed, dials, open, dropped, panicked>>

DialFails(p) ==
  /\ pc[p] = "dial"
  /\ Return(p)
  /\ UNCHANGED <<conn, dials, open, dropped, panicked>>

Dial(p) ==
  /\ pc[p] = "dial" /\ dials < MaxDials
  /\ dials' = dials + 1
  /\ open' = open \cup {dials'}
  /\ Goto(p, "dialed", dials')
  /\ UNCHANGED <<conn, failed, dropped, panicked>>

Store(p) ==
  /\ pc[p] = "dialed"
  /\ IF conn = 0 THEN conn' = local[p] /\ UNCHANGED open
                 ELSE open' = open \ {local[p]} /\ UNCHANGED conn
  /\ Goto(p, "read", 0)
  /\ UNCHANGED <<failed, dials, dropped, panicked>>

(* The shared connection is read under a lock of its own.  The first time  *)
(* nil is an error, the second time it is searched on.                     *)
Read(p) ==
  /\ pc[p] = "read"
  /\ IF conn = 0 /\ failed[p] = 0
     THEN Return(p) /\ UNCHANGED panicked
     ELSE Goto(p, "search", conn) /\ panicked' = (conn = 0) /\ UNCHANGED failed
  /\ UNCHANGED <<conn, dials, open, dropped>>

SearchOk(p) ==
  /\ pc[p] = "search" /\ local[p] \in open
  /\ Return(p)
  /\ UNCHANGED <<conn, dials, open, dropped, panicked>>

(* Fault: the connection is forgotten before it is closed. *)
SearchFailsForgets(p) ==
  /\ pc[p] = "search" /\ failed[p] = 0
  /\ Goto(p, "close", local[p])
  /\ conn' = IF conn = local[p] THEN 0 ELSE conn
  /\ UNCHANGED <<open, failed, dials, dropped, panicked>>

(* The first search fails; a timeout has already closed the connection. *)
SearchFails(p) ==
  /\ pc[p] = "search" /\ failed[p] = 0
  /\ Goto(p, "close", local[p])
  /\ open' \in {open, open \ {local[p]}}
  /\ UNCHANGED <<conn, failed, dials, dropped, panicked>>

CloseFailed(p) ==
  /\ pc[p] = "close"
  /\ open' = open \ {local[p]}
  /\ Goto(p, "clear", local[p])
  /\ UNCHANGED <<conn, failed, dials, dropped, panicked>>

Clear(p) ==
  /\ pc[p] = "clear"
  /\ conn' = IF conn = local[p] THEN 0 ELSE conn
  /\ failed' = [failed EXCEPT ![p] = local[p]]
  /\ Goto(p, "connect", 0)
  /\ UNCHANGED <<dials, open, dropped, panicked>>

(* The second search fails: refused, which leaves the connection open, or  *)
(* timed out, which closes it.                                             *)
SearchFailsAgain(p) ==
  /\ pc[p] = "search" /\ failed[p] # 0
  /\ Goto(p, "giveUp", local[p])
  /\ open' \in {open, open \ {local[p]}}
  /\ UNCHANGED <<conn, failed, dials, dropped, panicked>>

GiveUp(p) ==
  /\ pc[p] = "giveUp"
  /\ IF conn = local[p]
     THEN conn' = 0 /\ dropped' = dropped \cup {local[p]}
     ELSE UNCHANGED <<conn, dropped>>
  /\ Return(p)
  /\ UNCHANGED <<dials, open, panicked>>

(* Close, by the application. *)
Close ==
  /\ conn # 0
  /\ open' = open \ {conn} /\ conn' = 0
  /\ UNCHANGED <<pc, local, failed, dials, dropped, panicked>>

(* External: the server closes a connection. *)
ServerClose(c) ==
  /\ c \in open
  /\ open' = open \ {c}
  /\ UNCHANGED <<conn, pc, local, failed, dials, dropped, panicked>>

----------------------------------------------------------------------------
Next ==
  /\ ~panicked
  /\ \/ \E p \in Callers :
          \/ Connect(p) \/ DialFails(p) \/ Dial(p) \/ Store(p) \/ Read(p)
          \/ SearchOk(p) \/ SearchFails(p) \/ CloseFailed(p) \/ Clear(p)
          \/ SearchFailsAgain(p) \/ GiveUp(p)
     \/ Close
     \/ \E c \in Conns : ServerClose(c)

Spec == Init /\ [][Next]_vars

----------------------------------------------------------------------------
TypeOK ==
  /\ conn \in 0..MaxDials
  /\ pc \in [Callers -> {"idle", "dial", "dialed", "read", "search", "close", "clear", "connect", "giveUp"}]
  /\ \A p \in Callers : pc[p] \in {"dialed", "close", "clear", "giveUp"} => local[p] \in Conns
  /\ local \in [Callers -> 0..MaxDials] /\ failed \in [Callers -> 0..MaxDials]
  /\ dials \in 0..MaxDials /\ open \subseteq Conns /\ dropped \subseteq Conns
  /\ panicked \in BOOLEAN

(* An open connection is the shared one, or in the hands of a call that    *)
(* has just dialled or is about to close it, or was forgotten by a second  *)
(* search: concurrent calls that connect, fail and are closed leak none    *)
(* elsewhere (client.go:120-136, 185-206).                                 *)
LeaksOnlyFromRetry ==
  open \subseteq {conn} \cup dropped
                 \cup {local[p] : p \in {q \in Callers : pc[q] \in {"dialed", "search", "close"}}}

(* A call forgets the shared connection only once that is closed, so never *)
(* one that another call has dialled since, except after a second search.  *)
(* Closing is another matter: a refused first search closes the shared     *)
(* connection under all who use it (client.go:185-192).                    *)
ForgetsOnlyDead ==
  [][conn # 0 /\ conn' = 0 => conn \notin open' \/ conn \in dropped']_vars

(* The second search is never made on the connection on which the first    *)
(* one failed (client.go:188-200).                                         *)
RetryOnAnother == \A p \in Callers : pc[p] = "search" /\ failed[p] # 0 => local[p] # failed[p]

(* Connections leak only from a refused second search, and that search is  *)
(* on another connection than the first (client.go:120-136, 185-206).      *)
Inv == TypeOK /\ LeaksOnlyFromRetry /\ RetryOnAnother
=============================================================================
