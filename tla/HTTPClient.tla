----------------------------- MODULE HTTPClient -----------------------------
(***************************************************************************)
(* web/std/client/HTTPClient.go: the http.Client shared by concurrent      *)
(* requests is built when it is first asked for, and again after           *)
(* SetTransport, SetFixedCipherRuleWithURL or Close have dropped it.       *)
(*                                                                         *)
(* A section under h.mu is one step.  A client is the number of its build, *)
(* 0 is nil; a transport is 0 until SetTransport was called.  net/http is  *)
(* external: a connection serves one request and is given back when its    *)
(* body was read to the end or closed.  What a body says is left out, but  *)
(* not whether it is gzip, begins as gzip does, and is read to its end,    *)
(* being neither broken nor longer than MaxResponseBodySize.               *)
(***************************************************************************)
EXTENDS Naturals, FiniteSets

CONSTANTS
  Requests,               \* calls of DORequest and DORequestBytes
  Transports, Rules,      \* arguments of the setters, numbers above 0, and the empty rule
  MaxBuilds, MaxResets    \* bounds on builds, and on setters and Closes

ASSUME HTTPAssumption == MaxBuilds \in Nat /\ MaxResets \in Nat /\ Transports \cup Rules \subseteq Nat \ {0}

VARIABLES
  hClient, transport, rule, \* the fields of HTTPClient
  built,      \* per client: the settings that it was built with, <<>> before
  resets,     \* setters and Closes so far
  born,       \* per client: resets at its build
  pc, mine,   \* per request: place, client that it uses
  body,       \* per request: what came back
  held        \* external: requests whose connection was not given back

vars == <<hClient, transport, rule, built, resets, born, pc, mine, body, held>>
Clients == 1..MaxBuilds
Bodies == [gzip : BOOLEAN, begins : BOOLEAN, ends : BOOLEAN]
Settings == <<transport, rule>>
Builds == Cardinality({c \in Clients : built[c] # <<>>})

Init ==
  /\ hClient = 0 /\ transport = 0 /\ rule = 0
  /\ built = [c \in Clients |-> <<>>] /\ resets = 0 /\ born = [c \in Clients |-> 0]
  /\ pc = [r \in Requests |-> "idle"] /\ mine = [r \in Requests |-> 0]
  /\ body = [r \in Requests |-> [gzip |-> FALSE, begins |-> TRUE, ends |-> TRUE]]
  /\ held = {}

----------------------------------------------------------------------------
(* The client is dropped; requests that have it go on with it. *)
Drop ==
  /\ resets < MaxResets /\ resets' = resets + 1
  /\ hClient' = 0
  /\ UNCHANGED <<built, born, pc, mine, body, held>>

SetTransport(t) == Drop /\ transport' = t /\ UNCHANGED rule

SetFixedCipherRuleWithURL(u) == rule # u /\ Drop /\ rule' = u /\ UNCHANGED transport

Close == hClient # 0 /\ Drop /\ UNCHANGED <<transport, rule>>

----------------------------------------------------------------------------
(* GetClient: a read section, and a write section if there was no client. *)
GetFast(r) ==
  /\ pc[r] = "idle"
  /\ pc' = [pc EXCEPT ![r] = IF hClient = 0 THEN "build" ELSE "do"]
  /\ mine' = [mine EXCEPT ![r] = hClient]
  /\ UNCHANGED <<hClient, transport, rule, built, resets, born, body, held>>

GetSlow(r) ==
  /\ pc[r] = "build" /\ (hClient = 0 => Builds < MaxBuilds)
  /\ LET c == IF hClient = 0 THEN Builds + 1 ELSE hClient IN
       /\ hClient' = c /\ mine' = [mine EXCEPT ![r] = c]
       /\ IF hClient = 0
          THEN built' = [built EXCEPT ![c] = Settings] /\ born' = [born EXCEPT ![c] = resets]
          ELSE UNCHANGED <<built, born>>
  /\ pc' = [pc EXCEPT ![r] = "do"]
  /\ UNCHANGED <<transport, rule, resets, body, held>>

(* DORequest after GetClient: no answer, or one whose connection r has. *)
Return(r) == pc' = [pc EXCEPT ![r] = "done"] /\ mine' = [mine EXCEPT ![r] = 0]

NoAnswer(r) ==
  /\ pc[r] = "do" /\ Return(r)
  /\ UNCHANGED <<hClient, transport, rule, built, resets, born, body, held>>

Answer(r, b) ==
  /\ pc[r] = "do"
  /\ pc' = [pc EXCEPT ![r] = "body"] /\ body' = [body EXCEPT ![r] = b]
  /\ held' = held \cup {r}
  /\ UNCHANGED <<hClient, transport, rule, built, resets, born, mine>>

(* newResponseBodyReader fails on a gzip body that is none: the body is    *)
(* closed here.                                                            *)
BadGzip(r) ==
  /\ pc[r] = "body" /\ body[r].gzip /\ ~body[r].begins
  /\ Return(r) /\ held' = held \ {r}
  /\ UNCHANGED <<hClient, transport, rule, built, resets, born, body>>

(* readResponseBody and the deferred Close, which closes the gzip reader   *)
(* and not the body that it reads from: that is given back if its end was  *)
(* reached.                                                                *)
Read(r) ==
  /\ pc[r] = "body" /\ (body[r].gzip => body[r].begins)
  /\ \/ held' = held \ {r}
     \/ body[r].gzip /\ ~body[r].ends /\ UNCHANGED held
  /\ Return(r)
  /\ UNCHANGED <<hClient, transport, rule, built, resets, born, body>>

----------------------------------------------------------------------------
Next ==
  \/ \E t \in Transports : SetTransport(t)
  \/ \E u \in Rules \cup {0} : SetFixedCipherRuleWithURL(u)
  \/ Close
  \/ \E r \in Requests :
       \/ GetFast(r) \/ GetSlow(r) \/ NoAnswer(r) \/ BadGzip(r) \/ Read(r)
       \/ \E b \in Bodies : Answer(r, b)

Spec == Init /\ [][Next]_vars

----------------------------------------------------------------------------
TypeOK ==
  /\ hClient \in 0..Builds /\ transport \in Transports \cup {0} /\ rule \in Rules \cup {0}
  /\ \A c \in Clients : built[c] # <<>> => born[c] <= resets
  /\ pc \in [Requests -> {"idle", "build", "do", "body", "done"}]
  /\ \A r \in Requests : pc[r] \in {"do", "body"} => mine[r] \in 1..Builds
  /\ body \in [Requests -> Bodies]
  /\ resets \in 0..MaxResets /\ held \subseteq Requests

(* The client handed out is built with the round tripper and the cipher    *)
(* rule last set (HTTPClient.go:51-72, 115-128).                           *)
CurrentSettings == hClient # 0 => built[hClient] = Settings

(* Requests that ask at once share a client: between two resets it is      *)
(* built once (HTTPClient.go:115-128).                                     *)
BuiltOnce ==
  \A c, d \in Clients : built[c] # <<>> /\ built[d] # <<>> /\ born[c] = born[d] => c = d

(* The shared client has the present settings and is built once between    *)
(* two resets (HTTPClient.go:51-72, 115-128).                              *)
Inv == TypeOK /\ CurrentSettings /\ BuiltOnce

(* A request that has returned has given its connection back, unless its   *)
(* body was gzip and its end was not reached (HTTPClient.go:163-182,       *)
(* 257-269).                                                               *)
HeldOnlyUnfinishedGzip ==
  \A r \in held : pc[r] = "done" => body[r].gzip /\ body[r].begins /\ ~body[r].ends
=============================================================================
