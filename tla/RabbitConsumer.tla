--------------------------- MODULE RabbitConsumer ---------------------------
(***************************************************************************)
(* mq/rabbitmq: the consumer half of the RabbitMQ client.  initConsumer    *)
(* asks the broker for a window of ConcurrencyCount unsettled deliveries   *)
(* per channel, and starts for each channel as many workers and one        *)
(* dispatcher that hands them deliveries through workCh.  Channels come    *)
(* and go (module RabbitMQ says how); here a channel is a number, 0 is     *)
(* nil.  A delivery is <<message, channel>>.  The broker and the AMQP      *)
(* library are external: the broker delivers again, on a later channel,    *)
(* what was not settled when a channel ended.                              *)
(***************************************************************************)
EXTENDS Naturals, Sequences, FiniteSets

CONSTANTS
  Msgs,               \* what lies in the queue
  ConcurrencyCount,   \* workers per channel, and the window
  MaxChans            \* bound on the channels that are opened

ASSUME ConsumerAssumption == ConcurrencyCount \in Nat \ {0} /\ MaxChans \in Nat

Chans == 1..MaxChans
Workers == Chans \X (1..ConcurrencyCount)
Deliveries == Msgs \X Chans

VARIABLES
  chans,       \* channels opened so far, the last is the present one
  link,        \* initConsumer: "down", "consumed" (Consume has returned) or "up"
  mqMessages,  \* r.mqMessages, under r.mu
  dpc, dsrc,   \* per dispatcher: place, and the deliveries that it ranges over
  dmsg,        \* per dispatcher: the deliveries in its hand, one at most
  workCh,      \* per channel, a buffer of ConcurrencyCount deliveries
  wpc, wmsg,   \* per worker: place and deliveries in its hand, one at most
  open,        \* external: the channels on which the broker delivers
  buf, ended,  \* external: what the library holds, whose Go channel is closed
  st, on,      \* external: the broker's view of a message, and its channel
  dropped,     \* deliveries of a live channel whose consumerFunction panicked
  handled      \* history: deliveries for which consumerFunction has ended

linkVars == <<chans, link, mqMessages>>
goVars == <<dpc, dsrc, dmsg, workCh, wpc, wmsg, dropped>>
brokerVars == <<open, buf, ended, st, on>>
vars == <<linkVars, goVars, brokerVars, handled>>

Init ==
  /\ chans = 0 /\ link = "down" /\ mqMessages = 0
  /\ dpc = [c \in Chans |-> "none"] /\ dsrc = [c \in Chans |-> 0]
  /\ dmsg = [c \in Chans |-> {}] /\ workCh = [c \in Chans |-> <<>>]
  /\ wpc = [w \in Workers |-> "none"] /\ wmsg = [w \in Workers |-> {}]
  /\ open = {} /\ buf = [c \in Chans |-> {}] /\ ended = {}
  /\ st = [m \in Msgs |-> "ready"] /\ on = [m \in Msgs |-> 0]
  /\ dropped = {} /\ handled = {}

Unsettled(c) == {m \in Msgs : st[m] = "unacked" /\ on[m] = c}

(* The broker ends a channel: what is unsettled on it is ready again. *)
EndChannel(c) ==
  /\ open' = open \ {c}
  /\ st' = [m \in Msgs |-> IF m \in Unsettled(c) THEN "ready" ELSE st[m]]
  /\ on' = [m \in Msgs |-> IF m \in Unsettled(c) THEN 0 ELSE on[m]]
  /\ dropped' = {d \in dropped : d[2] # c}
  /\ UNCHANGED <<buf, ended>>

----------------------------------------------------------------------------
(* initConsumer, run by the reconnect loop. Consume: the broker delivers   *)
(* from here on.                                                           *)
Consume ==
  /\ link = "down" /\ chans < MaxChans /\ open = {}
  /\ chans' = chans + 1
  /\ link' = "consumed"
  /\ open' = {chans'}
  /\ UNCHANGED <<mqMessages, goVars, buf, ended, st, on, handled>>

(* Fault: the deliveries are not stored for the dispatcher. *)
InitConsumerUnstored ==
  /\ link = "consumed"
  /\ link' = "up"
  /\ dpc' = [dpc EXCEPT ![chans] = "fresh"]
  /\ wpc' = [w \in Workers |-> IF w[1] = chans THEN "idle" ELSE wpc[w]]
  /\ UNCHANGED <<chans, mqMessages, dsrc, dmsg, workCh, wmsg, dropped, brokerVars, handled>>

(* r.mqMessages is stored, then the workers and the dispatcher are started. *)
InitConsumer ==
  /\ link = "consumed"
  /\ link' = "up"
  /\ mqMessages' = chans
  /\ dpc' = [dpc EXCEPT ![chans] = "fresh"]
  /\ wpc' = [w \in Workers |-> IF w[1] = chans THEN "idle" ELSE wpc[w]]
  /\ UNCHANGED <<chans, dsrc, dmsg, workCh, wmsg, dropped, brokerVars, handled>>

(* Stop, or the loop before it dials again: r.mqMessages is set to nil and *)
(* the channel is closed. Stop may do so between the two steps above.      *)
CloseConn ==
  /\ chans > 0 /\ (open # {} \/ mqMessages # 0)
  /\ mqMessages' = 0
  /\ link' = IF link = "up" THEN "down" ELSE link
  /\ EndChannel(chans)
  /\ UNCHANGED <<chans, dpc, dsrc, dmsg, workCh, wpc, wmsg, handled>>

----------------------------------------------------------------------------
(* The dispatcher. Its range expression is evaluated when it first runs,   *)
(* without a lock; over nil it ranges for ever.                            *)
DispatchBegin(c) ==
  /\ dpc[c] = "fresh"
  /\ dsrc' = [dsrc EXCEPT ![c] = mqMessages]
  /\ dpc' = [dpc EXCEPT ![c] = "range"]
  /\ UNCHANGED <<linkVars, dmsg, workCh, wpc, wmsg, dropped, brokerVars, handled>>

DispatchReceive(c) ==
  /\ dpc[c] = "range" /\ dsrc[c] # 0
  /\ \E m \in buf[dsrc[c]] :
       /\ buf' = [buf EXCEPT ![dsrc[c]] = @ \ {m}]
       /\ dmsg' = [dmsg EXCEPT ![c] = {<<m, dsrc[c]>>}]
  /\ dpc' = [dpc EXCEPT ![c] = "send"]
  /\ UNCHANGED <<linkVars, dsrc, workCh, wpc, wmsg, dropped, open, ended, st, on, handled>>

(* workCh <- message waits while workCh is full. *)
DispatchSend(c) ==
  /\ dpc[c] = "send" /\ Len(workCh[c]) < ConcurrencyCount
  /\ \E d \in dmsg[c] : workCh' = [workCh EXCEPT ![c] = Append(@, d)]
  /\ dmsg' = [dmsg EXCEPT ![c] = {}]
  /\ dpc' = [dpc EXCEPT ![c] = "range"]
  /\ UNCHANGED <<linkVars, dsrc, wpc, wmsg, dropped, brokerVars, handled>>

(* Fault: the dispatcher ends without closing workCh, as one that ranges   *)
(* over nothing for ever.                                                  *)
DispatchEndSilent(c) ==
  /\ dpc[c] = "range" /\ dsrc[c] \in ended
  /\ dpc' = [dpc EXCEPT ![c] = "none"]
  /\ UNCHANGED <<linkVars, dsrc, dmsg, workCh, wpc, wmsg, dropped, brokerVars, handled>>

(* The deliveries end: close(workCh). *)
DispatchEnd(c) ==
  /\ dpc[c] = "range" /\ dsrc[c] \in ended
  /\ dpc' = [dpc EXCEPT ![c] = "done"]
  /\ UNCHANGED <<linkVars, dsrc, dmsg, workCh, wpc, wmsg, dropped, brokerVars, handled>>

----------------------------------------------------------------------------
(* The workers. *)
WorkerTake(w) ==
  /\ wpc[w] = "idle" /\ workCh[w[1]] # <<>>
  /\ wmsg' = [wmsg EXCEPT ![w] = {Head(workCh[w[1]])}]
  /\ workCh' = [workCh EXCEPT ![w[1]] = Tail(@)]
  /\ wpc' = [wpc EXCEPT ![w] = "handle"]
  /\ UNCHANGED <<linkVars, dpc, dsrc, dmsg, dropped, brokerVars, handled>>

(* consumerFunction returns, and its verdict decides between Ack and Nack. *)
WorkerHandle(w, verdict) ==
  /\ wpc[w] = "handle"
  /\ wpc' = [wpc EXCEPT ![w] = verdict]
  /\ handled' = handled \cup wmsg[w]
  /\ UNCHANGED <<linkVars, dpc, dsrc, dmsg, workCh, wmsg, dropped, brokerVars>>

(* consumerFunction panics: recovered, neither Ack nor Nack is sent. *)
WorkerPanic(w) ==
  /\ wpc[w] = "handle"
  /\ wpc' = [wpc EXCEPT ![w] = "idle"]
  /\ handled' = handled \cup wmsg[w]
  /\ dropped' = dropped \cup {d \in wmsg[w] : d[2] \in open}
  /\ wmsg' = [wmsg EXCEPT ![w] = {}]
  /\ UNCHANGED <<linkVars, dpc, dsrc, dmsg, workCh, brokerVars>>

(* Fault: Nack with requeue. *)
SettledRequeue(w) == IF wpc[w] = "true" THEN "settled" ELSE "ready"

(* Ack(false) or Nack(false, false): either way the message is off the     *)
(* queue. On a channel that has ended the call fails, which is logged.     *)
Settled(w) == "settled"

(* Fault: a verdict of false tells the broker nothing. *)
WorkerSettleTrueOnly(w) ==
  /\ wpc[w] \in {"true", "false"}
  /\ wpc' = [wpc EXCEPT ![w] = "idle"]
  /\ \E d \in wmsg[w] :
       IF d[1] \in Unsettled(d[2]) /\ wpc[w] = "true"
       THEN st' = [st EXCEPT ![d[1]] = "settled"] /\ on' = [on EXCEPT ![d[1]] = 0]
       ELSE UNCHANGED <<st, on>>
  /\ wmsg' = [wmsg EXCEPT ![w] = {}]
  /\ UNCHANGED <<linkVars, dpc, dsrc, dmsg, workCh, dropped, open, buf, ended, handled>>

WorkerSettle(w) ==
  /\ wpc[w] \in {"true", "false"}
  /\ wpc' = [wpc EXCEPT ![w] = "idle"]
  /\ \E d \in wmsg[w] :
       IF d[1] \in Unsettled(d[2])
       THEN st' = [st EXCEPT ![d[1]] = Settled(w)] /\ on' = [on EXCEPT ![d[1]] = 0]
       ELSE UNCHANGED <<st, on>>
  /\ wmsg' = [wmsg EXCEPT ![w] = {}]
  /\ UNCHANGED <<linkVars, dpc, dsrc, dmsg, workCh, dropped, open, buf, ended, handled>>

WorkerEnd(w) ==
  /\ wpc[w] = "idle" /\ workCh[w[1]] = <<>> /\ dpc[w[1]] = "done"
  /\ wpc' = [wpc EXCEPT ![w] = "done"]
  /\ UNCHANGED <<linkVars, dpc, dsrc, dmsg, workCh, wmsg, dropped, brokerVars, handled>>

----------------------------------------------------------------------------
(* What Qos asks for. *)
Window == ConcurrencyCount

(* External: the broker delivers within the window of Qos. *)
Deliver(m) ==
  /\ st[m] = "ready"
  /\ \E c \in open :
       /\ Cardinality(Unsettled(c)) < Window
       /\ st' = [st EXCEPT ![m] = "unacked"]
       /\ on' = [on EXCEPT ![m] = c]
       /\ buf' = [buf EXCEPT ![c] = @ \cup {m}]
  /\ UNCHANGED <<linkVars, goVars, open, ended, handled>>

ChannelLost(c) ==
  /\ c \in open
  /\ EndChannel(c)
  /\ UNCHANGED <<linkVars, dpc, dsrc, dmsg, workCh, wpc, wmsg, handled>>

(* External: the library closes the deliveries of a channel that ended and *)
(* drops what was not received from it by then.                            *)
LibraryClose(c) ==
  /\ c \in 1..chans /\ c \notin open \cup ended
  /\ ended' = ended \cup {c}
  /\ buf' = [buf EXCEPT ![c] = {}]
  /\ UNCHANGED <<linkVars, goVars, open, st, on, handled>>

Dispatch(c) == DispatchBegin(c) \/ DispatchReceive(c) \/ DispatchSend(c) \/ DispatchEnd(c)

Work(w) ==
  \/ WorkerTake(w) \/ WorkerPanic(w) \/ WorkerSettle(w) \/ WorkerEnd(w)
  \/ \E verdict \in {"true", "false"} : WorkerHandle(w, verdict)

Next ==
  \/ Consume \/ InitConsumer \/ CloseConn
  \/ \E c \in Chans : Dispatch(c) \/ ChannelLost(c) \/ LibraryClose(c)
  \/ \E w \in Workers : Work(w)
  \/ \E m \in Msgs : Deliver(m)

Spec == Init /\ [][Next]_vars

(* Goroutines run, consumerFunction returns, the library closes what has   *)
(* ended, and the broker delivers what the window has room for.            *)
Fairness ==
  /\ WF_vars(InitConsumer)
  /\ \A c \in Chans : WF_vars(Dispatch(c)) /\ WF_vars(LibraryClose(c))
  /\ \A w \in Workers : WF_vars(Work(w))
  /\ \A m \in Msgs : WF_vars(Deliver(m))

FairSpec == Spec /\ Fairness

----------------------------------------------------------------------------
TypeOK ==
  /\ chans \in 0..MaxChans /\ link \in {"down", "consumed", "up"}
  /\ mqMessages \in 0..MaxChans
  /\ dpc \in [Chans -> {"none", "fresh", "range", "send", "done"}]
  /\ dsrc \in [Chans -> 0..MaxChans] /\ dmsg \in [Chans -> SUBSET Deliveries]
  /\ workCh \in [Chans -> Seq(Deliveries)]
  /\ wpc \in [Workers -> {"none", "idle", "handle", "true", "false", "done"}]
  /\ wmsg \in [Workers -> SUBSET Deliveries] /\ dropped \in SUBSET Deliveries
  /\ open \in SUBSET Chans /\ ended \in SUBSET Chans /\ buf \in [Chans -> SUBSET Msgs]
  /\ st \in [Msgs -> {"ready", "unacked", "settled"}]
  /\ on \in [Msgs -> 0..MaxChans]
  /\ handled \in SUBSET Deliveries

InQueue(c) == {workCh[c][i] : i \in 1..Len(workCh[c])}

(* The places where a delivery of a live channel can be. *)
InLibrary(m, c) == m \in buf[c]
WithDispatcher(m, c) == \E e \in Chans : <<m, c>> \in dmsg[e]
InWorkCh(m, c) == \E e \in Chans : <<m, c>> \in InQueue(e)
WithWorker(m, c) == \E w \in Workers : <<m, c>> \in wmsg[w]

(* While its channel lives, a delivery that the broker has not been told   *)
(* about is in the library, with the dispatcher, in workCh or with a       *)
(* worker, or its consumerFunction panicked: none is lost between the      *)
(* goroutines (rabbitMQ.go:392-424).                                       *)
NoneDropped ==
  \A c \in open : \A m \in Unsettled(c) :
    \/ InLibrary(m, c) \/ WithDispatcher(m, c) \/ InWorkCh(m, c) \/ WithWorker(m, c)
    \/ <<m, c>> \in dropped

(* consumerFunction is called at most once for a delivery, so a message is *)
(* handled again only after its channel was lost, although the workers of  *)
(* a lost channel go on with what they hold (rabbitMQ.go:394-414).         *)
AgainOnlyAfterLoss ==
  \A w \in Workers : wpc[w] = "handle" => wmsg[w] \cap handled = {}

(* Window and buffer have the same size, so that a dispatcher never waits  *)
(* for a worker, however slow the calls, and notices the end of its        *)
(* channel (rabbitMQ.go:367, 392, 418-421).                                *)
DispatcherNeverWaits ==
  \A c \in Chans : dpc[c] = "send" => Len(workCh[c]) < ConcurrencyCount

(* Deliveries pass from the library to the workers without one being lost  *)
(* and without the dispatcher having to wait (rabbitMQ.go:392-424).        *)
Inv == TypeOK /\ NoneDropped /\ DispatcherNeverWaits

(* A consumer stands still before a message that is ready only when as     *)
(* many calls have panicked on its channel as the window is wide           *)
(* (rabbitMQ.go:367, 396-402).                                             *)
Jammed == \E c \in open : Cardinality({m \in Unsettled(c) : <<m, c>> \in dropped}) = ConcurrencyCount

(* A message that waits at the broker while a channel consumes comes to be *)
(* settled, unless its own call panicked, the channel is lost or the       *)
(* consumer is jammed (rabbitMQ.go:367, 392-424).                          *)
Drains ==
  \A m \in Msgs :
    (st[m] = "ready" /\ link = "up" /\ open # {}) ~>
      (st[m] = "settled" \/ (\E c \in Chans : <<m, c>> \in dropped) \/ open = {} \/ Jammed)

(* When the channel that a dispatcher ranges over has ended, the           *)
(* dispatcher ends and so do its workers (rabbitMQ.go:394-424). One that   *)
(* read nil, because Stop came before it first ran, does not.              *)
WorkersEnd ==
  \A c \in Chans :
    (dpc[c] \in {"range", "send"} /\ dsrc[c] # 0 /\ dsrc[c] \notin open) ~>
      (dpc[c] = "done" /\ \A w \in Workers : w[1] = c => wpc[w] = "done")
=============================================================================
