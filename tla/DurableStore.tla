---------------------------- MODULE DurableStore ----------------------------
(***************************************************************************)
(* What an embedded key-value store promises its callers, without handles, *)
(* locks or transactions: an operation takes effect in one step between    *)
(* its call and its return, or fails and has none; a crash ends the calls  *)
(* and takes nothing away that had its effect.  Keys handed out by "add"   *)
(* count up from 1 for as long as the bucket exists.                       *)
(***************************************************************************)
EXTENDS Naturals

CONSTANTS Callers, Keys, Ops

(* A value that is not there, and the bucket that is not there. *)
NoValue == "none"
NoBucket == [exists |-> FALSE, kv |-> [k \in Keys |-> NoValue], seq |-> 0]

VARIABLES
  data,    \* what is stored
  phase,   \* per caller: "idle", "called" or "done"
  what,    \* per caller: its operation
  answer   \* per caller: its result; what comes beside an error is none

storeVars == <<data, phase, what, answer>>

Error == [ok |-> FALSE, val |-> {}]

Init ==
  /\ data \in {NoBucket, [NoBucket EXCEPT !.exists = TRUE]}
  /\ phase = [c \in Callers |-> "idle"]
  /\ what \in [Callers -> Ops]
  /\ answer = [c \in Callers |-> Error]

(* Every operation but "create" needs the bucket. *)
Possible(o) == o.kind = "create" \/ data.exists

Changed(o) ==
  CASE o.kind = "create" -> IF data.exists THEN data ELSE [NoBucket EXCEPT !.exists = TRUE]
    [] o.kind = "drop" -> NoBucket
    [] o.kind = "put" -> [data EXCEPT !.kv = [k \in Keys |-> IF k \in o.keys THEN o.val ELSE @[k]]]
    [] o.kind = "del" -> [data EXCEPT !.kv = [k \in Keys |-> IF k \in o.keys THEN NoValue ELSE @[k]]]
    [] o.kind = "add" -> [data EXCEPT !.seq = @ + 1, !.kv[data.seq + 1] = o.val]
    [] o.kind \in {"get", "getall"} -> data

(* A read answers with what is stored and not empty; "add" with its key. *)
Answer(o) ==
  CASE o.kind = "add" -> {<<data.seq + 1, o.val>>}
    [] o.kind \in {"get", "getall"} ->
         {<<k, data.kv[k]>> : k \in {i \in o.keys : data.kv[i] \notin {NoValue, ""}}}
    [] OTHER -> {}

Call(c) ==
  /\ phase[c] = "idle"
  /\ phase' = [phase EXCEPT ![c] = "called"]
  /\ \E o \in Ops : what' = [what EXCEPT ![c] = o]
  /\ UNCHANGED <<data, answer>>

Effect(c) ==
  /\ phase[c] = "called" /\ Possible(what[c])
  /\ phase' = [phase EXCEPT ![c] = "done"]
  /\ data' = Changed(what[c])
  /\ answer' = [answer EXCEPT ![c] = [ok |-> TRUE, val |-> Answer(what[c])]]
  /\ UNCHANGED what

Fail(c) ==
  /\ phase[c] = "called"
  /\ phase' = [phase EXCEPT ![c] = "done"]
  /\ answer' = [answer EXCEPT ![c] = Error]
  /\ UNCHANGED <<data, what>>

Return(c) ==
  /\ phase[c] = "done"
  /\ phase' = [phase EXCEPT ![c] = "idle"]
  /\ answer' = [answer EXCEPT ![c] = Error]
  /\ UNCHANGED <<data, what>>

Crash ==
  /\ phase' = [c \in Callers |-> "idle"]
  /\ answer' = [c \in Callers |-> Error]
  /\ UNCHANGED <<data, what>>

Next == Crash \/ \E c \in Callers : Call(c) \/ Effect(c) \/ Fail(c) \/ Return(c)

Spec == Init /\ [][Next]_storeVars
=============================================================================
