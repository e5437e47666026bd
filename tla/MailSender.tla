----------------------------- MODULE MailSender -----------------------------
(***************************************************************************)
(* mail/sender/mailSender.go: SendMessage keeps one SMTP client between    *)
(* calls and holds st.mu from the dial to the result.  The Send itself     *)
(* runs in a goroutine that the call abandons when its timeout is over, so *)
(* that it may go on after the call has returned.                          *)
(*                                                                         *)
(* Each message is one call of SendMessage; a client is the number of its  *)
(* dial, 0 is nil.  The SMTP server and go-mail are external.  The error   *)
(* after which the message is sent again is go-mail's check of the         *)
(* connection, which comes before anything is sent; every other error may  *)
(* come after the server took the message.                                 *)
(***************************************************************************)
EXTENDS Naturals, FiniteSets

CONSTANTS
  Messages,
  MaxDials    \* bound on dials, a number

VARIABLES
  client,     \* st.client
  pc,         \* per call: its place
  flights,    \* Send goroutines that run: message, client, whether the server took it
  dials, open, \* external: dials so far, clients with a connection
  accepted    \* external: per message, how often the server took it

vars == <<client, pc, flights, dials, open, accepted>>

Clients == 1..MaxDials
Places == {"new", "lock", "dial", "send", "redial", "resend", "ok", "failed"}
Held == {"dial", "send", "redial", "resend"}
Flight(m, c, took) == [msg |-> m, cl |-> c, took |-> took]

Init ==
  /\ client = 0
  /\ pc = [m \in Messages |-> "new"]
  /\ flights = {} /\ dials = 0 /\ open = {}
  /\ accepted = [m \in Messages |-> 0]

Goto(m, place) == pc' = [pc EXCEPT ![m] = place]

(* Nobody holds st.mu. *)
Free == \A m \in Messages : pc[m] \notin Held

(* closeLocked. Close is taken to return and to close, whatever its error. *)
CloseLocked == client' = 0 /\ open' = open \ {client}

----------------------------------------------------------------------------
(* SendMessage is called, and takes the lock. *)
SendMessage(m) ==
  /\ pc[m] = "new"
  /\ Goto(m, "lock")
  /\ UNCHANGED <<client, flights, dials, open, accepted>>

Lock(m) ==
  /\ pc[m] = "lock" /\ Free
  /\ Goto(m, "dial")
  /\ UNCHANGED <<client, flights, dials, open, accepted>>

(* dialLocked, then the goroutine of sendWithTimeout is started. *)
Sending(m) == Goto(m, IF pc[m] = "dial" THEN "send" ELSE "resend")

Reuse(m) ==
  /\ pc[m] \in {"dial", "redial"} /\ client # 0
  /\ Sending(m)
  /\ flights' = flights \cup {Flight(m, client, FALSE)}
  /\ UNCHANGED <<client, dials, open, accepted>>

Dial(m) ==
  /\ pc[m] \in {"dial", "redial"} /\ client = 0 /\ dials < MaxDials
  /\ dials' = dials + 1 /\ client' = dials' /\ open' = open \cup {dials'}
  /\ Sending(m)
  /\ flights' = flights \cup {Flight(m, dials', FALSE)}
  /\ UNCHANGED accepted

DialFails(m) ==
  /\ pc[m] \in {"dial", "redial"} /\ client = 0
  /\ Goto(m, "failed")
  /\ UNCHANGED <<client, flights, dials, open, accepted>>

----------------------------------------------------------------------------
(* External: the server takes the message of a Send. *)
Accept(f) ==
  /\ f \in flights /\ ~f.took /\ f.cl \in open
  /\ flights' = (flights \ {f}) \cup {Flight(f.msg, f.cl, TRUE)}
  /\ accepted' = [accepted EXCEPT ![f.msg] = @ + 1]
  /\ UNCHANGED <<client, pc, dials, open>>

(* The Send that m waits for has ended: its channel has the result. *)
Ended(m, f) ==
  /\ pc[m] \in {"send", "resend"}
  /\ f \in flights /\ f.msg = m /\ f.cl = client
  /\ flights' = flights \ {f}

SendOk(m, f) ==
  /\ Ended(m, f) /\ f.took
  /\ Goto(m, "ok")
  /\ UNCHANGED <<client, dials, open, accepted>>

(* An error of the first Send that is not of the connection keeps the      *)
(* client, any error of the second closes it.                              *)
SendError(m, f) ==
  /\ Ended(m, f)
  /\ Goto(m, "failed")
  /\ IF pc[m] = "resend" THEN CloseLocked ELSE UNCHANGED <<client, open>>
  /\ UNCHANGED <<dials, accepted>>

(* isConnLevelErr: the first Send found its connection dead. That go-mail  *)
(* gives such errors only before the server took the message is assumed.   *)
ConnError(m, f) ==
  /\ pc[m] = "send" /\ Ended(m, f) /\ ~f.took
  /\ Goto(m, "redial") /\ CloseLocked
  /\ UNCHANGED <<dials, accepted>>

(* The timeout is over first: the Send is abandoned. *)
TimeoutRetries(m) == \* Fault: a timeout is retried like a lost connection.
  /\ pc[m] \in {"send", "resend"}
  /\ Goto(m, IF pc[m] = "send" THEN "redial" ELSE "failed") /\ CloseLocked
  /\ UNCHANGED <<flights, dials, accepted>>

Timeout(m) ==
  /\ pc[m] \in {"send", "resend"}
  /\ Goto(m, "failed") /\ CloseLocked
  /\ UNCHANGED <<flights, dials, accepted>>

(* An abandoned Send ends, by itself or because its client was closed. *)
Abandoned(f) == f \in flights /\ (pc[f.msg] \notin {"send", "resend"} \/ f.cl # client)

AbandonedEnds(f) ==
  /\ Abandoned(f)
  /\ flights' = flights \ {f}
  /\ UNCHANGED <<client, pc, dials, open, accepted>>

----------------------------------------------------------------------------
Stop ==
  /\ Free /\ client # 0 /\ CloseLocked
  /\ UNCHANGED <<pc, flights, dials, accepted>>

(* External: the connection of a client is lost. *)
ServerDrop(c) ==
  /\ c \in open /\ open' = open \ {c}
  /\ UNCHANGED <<client, pc, flights, dials, accepted>>

Call(m) ==
  \/ SendMessage(m) \/ Lock(m) \/ Reuse(m) \/ Dial(m) \/ DialFails(m) \/ Timeout(m)
  \/ \E f \in flights : SendOk(m, f) \/ SendError(m, f) \/ ConnError(m, f)

Next ==
  \/ \E m \in Messages : Call(m)
  \/ \E f \in flights : Accept(f) \/ AbandonedEnds(f)
  \/ Stop
  \/ \E c \in Clients : ServerDrop(c)

(* The goroutine of a call goes on and its timer fires; of the server and  *)
(* of Send nothing is assumed.                                             *)
Fairness ==
  \A m \in Messages :
    /\ WF_vars(Lock(m)) /\ WF_vars(Reuse(m) \/ Dial(m) \/ DialFails(m))
    /\ WF_vars(Timeout(m))

Spec == Init /\ [][Next]_vars /\ Fairness

----------------------------------------------------------------------------
TypeOK ==
  /\ client \in 0..dials /\ pc \in [Messages -> Places]
  /\ flights \subseteq [msg : Messages, cl : Clients, took : BOOLEAN]
  /\ \A m \in Messages : pc[m] \in {"send", "resend"} => client # 0
  /\ dials \in 0..MaxDials /\ open \subseteq Clients /\ accepted \in [Messages -> 0..2]

(* The server takes a message once at most, whatever is lost, abandoned or *)
(* sent again (mailSender.go:114-130).                                     *)
AtMostOnce == \A m \in Messages : accepted[m] <= 1

(* A call that returns nil has handed its message over (mailSender.go:     *)
(* 114-133).                                                               *)
SuccessMeansAccepted == \A m \in Messages : pc[m] = "ok" => accepted[m] = 1

(* No connection is left open but that of st.client (mailSender.go:62-74,  *)
(* 213-218).                                                               *)
ClientsOwned == open \subseteq {client}

(* No two Sends share an open connection, though an abandoned one goes on  *)
(* (mailSender.go:115-118).                                                *)
SendsAlone ==
  \A f, g \in flights : f.cl = g.cl /\ f.cl \in open => f = g

(* One connection is kept at most, no two Sends share it, and nil means    *)
(* that the message was taken (mailSender.go:62-74, 114-133).              *)
Inv == TypeOK /\ SuccessMeansAccepted /\ ClientsOwned /\ SendsAlone

(* Every call returns, also when Send never does (mailSender.go:156-167).  *)
SendReturns == \A m \in Messages : pc[m] = "lock" ~> pc[m] \in {"ok", "failed"}
=============================================================================
