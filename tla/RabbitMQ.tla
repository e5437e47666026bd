------------------------------ MODULE RabbitMQ ------------------------------
(***************************************************************************)
(* mq/rabbitmq: the connection of one RabbitMQ client.  The application    *)
(* calls Start and Stop, each Start spawns a reconnect loop (connectAsync) *)
(* that dials, opens a channel, declares the queue, starts the consumer    *)
(* and then waits for the connection to be lost, and producers publish on  *)
(* the channel of the moment.  Network calls are made without r.mu, so     *)
(* every loop, Stop and every producer is a process that takes one step    *)
(* per section under r.mu and one per network call.                        *)
(*                                                                         *)
(* A connection is the number of the dial that made it, 0 is nil.  A       *)
(* channel is <<its connection, the loop that opened it>>.  A context is   *)
(* the number of the Start that made it.  Time (back-off, time-outs) is    *)
(* abstracted to "may happen".  The broker and the AMQP library are        *)
(* external: they are modelled from how this package uses them.            *)
(***************************************************************************)
EXTENDS Naturals, FiniteSets

CONSTANTS
  Producers,               \* goroutines that call Produce
  HasQueue, HasConsumer,   \* queueName # "", consumerFunction # nil
  MaxStarts, MaxDials,     \* bounds on Start and on dials
  MaxFaults                \* bound on what the network and the broker do wrong

ASSUME RabbitAssumption ==
  /\ HasQueue \in BOOLEAN /\ HasConsumer \in BOOLEAN
  /\ MaxStarts \in Nat /\ MaxDials \in Nat /\ MaxFaults \in Nat

Loops == 1..MaxStarts
Conns == 1..MaxDials
Chans == Conns \X Loops
NoChan == <<0, 0>>

VARIABLES
  connected,                        \* atomic
  stopped, confirms, mqConnect, mqChannel, mqMessages,   \* under r.mu
  ctx,           \* r.ctx, read and written without a lock
  cancelled,     \* the contexts that are done
  ctl,           \* where the application is in Start or Stop
  inHand,        \* <<channel, connection>> that Stop took out and will close
  lpc, lconn, lch, lctx,            \* per loop: place, locals, context in select
  fresh,         \* channels whose dispatcher has not evaluated r.mqMessages yet
  ranging,       \* the channels that running dispatchers range over
  ppc, pch, pconf,                  \* per producer: place, channel, confirms
  dials, connsOpen, chansOpen, confirming, refused, consuming, faults \* external

sharedVars == <<connected, stopped, confirms, mqConnect, mqChannel, mqMessages>>
ctlVars == <<ctx, cancelled, ctl, inHand>>
loopVars == <<lpc, lconn, lch, lctx>>
dispVars == <<fresh, ranging>>
prodVars == <<ppc, pch, pconf>>
brokerVars == <<dials, connsOpen, chansOpen, confirming, refused, consuming, faults>>
vars == <<sharedVars, ctlVars, loopVars, dispVars, prodVars, brokerVars>>

LoopPlaces ==
  {"none", "top", "close", "dial", "dialed", "chread", "chopen", "chset", "confirm",
   "confirmed", "queue", "declared", "consume", "consumed", "connected", "check",
   "watch", "backoff", "done"}

ChanOpen(ch) == ch \in chansOpen /\ ch[1] \in connsOpen

Init ==
  /\ connected = FALSE /\ stopped = FALSE /\ confirms = FALSE
  /\ mqConnect = 0 /\ mqChannel = NoChan /\ mqMessages = NoChan
  /\ ctx = 0 /\ cancelled = {} /\ ctl = "idle" /\ inHand = <<NoChan, 0>>
  /\ lpc = [l \in Loops |-> "none"] /\ lconn = [l \in Loops |-> 0]
  /\ lch = [l \in Loops |-> NoChan] /\ lctx = [l \in Loops |-> 0]
  /\ fresh = {} /\ ranging = {}
  /\ ppc = [p \in Producers |-> "idle"] /\ pch = [p \in Producers |-> NoChan]
  /\ pconf = [p \in Producers |-> FALSE]
  /\ dials = 0 /\ connsOpen = {} /\ chansOpen = {} /\ confirming = {} /\ refused = {}
  /\ consuming = {}
  /\ faults = 0

----------------------------------------------------------------------------
(* Start and Stop, called in turn by the application. *)
StartCtx ==
  /\ ctl = "idle" /\ ctx < MaxStarts
  /\ ctx = 0 \/ stopped
  /\ ctx' = ctx + 1
  /\ ctl' = "starting"
  /\ UNCHANGED <<cancelled, inHand, sharedVars, loopVars, dispVars, prodVars, brokerVars>>

StartLoop ==
  /\ ctl = "starting"
  /\ ctl' = "idle"
  /\ stopped' = FALSE
  /\ lpc' = [lpc EXCEPT ![ctx] = "top"]
  /\ UNCHANGED <<connected, confirms, mqConnect, mqChannel, mqMessages, ctx, cancelled,
                 inHand, lconn, lch, lctx, dispVars, prodVars, brokerVars>>

(* The parent context ends: the application is shutting down. *)
ParentCancel ==
  /\ ctx > 0 /\ ctx \notin cancelled
  /\ cancelled' = cancelled \cup {ctx}
  /\ UNCHANGED <<ctx, ctl, inHand, sharedVars, loopVars, dispVars, prodVars, brokerVars>>

StopCancel ==
  /\ ctl = "idle"
  /\ ctl' = "stopping"
  /\ cancelled' = cancelled \cup ({ctx} \ {0})
  /\ UNCHANGED <<ctx, inHand, sharedVars, loopVars, dispVars, prodVars, brokerVars>>

StopTake ==
  /\ ctl = "stopping"
  /\ ctl' = "closing"
  /\ stopped' = TRUE
  /\ inHand' = <<mqChannel, mqConnect>>
  /\ mqChannel' = NoChan /\ mqConnect' = 0 /\ mqMessages' = NoChan
  /\ UNCHANGED <<connected, confirms, ctx, cancelled, loopVars, dispVars, prodVars, brokerVars>>

(* The channel first, then the connection; Stop returns. *)
StopClose ==
  /\ ctl = "closing"
  /\ ctl' = "idle"
  /\ chansOpen' = chansOpen \ {inHand[1]}
  /\ connsOpen' = connsOpen \ {inHand[2]}
  /\ inHand' = <<NoChan, 0>>
  /\ UNCHANGED <<ctx, cancelled, sharedVars, loopVars, dispVars, prodVars,
                 dials, confirming, refused, consuming, faults>>

----------------------------------------------------------------------------
(* connectAsync and the calls below it. Goto moves the loop on. *)
Goto(l, place) == lpc' = [lpc EXCEPT ![l] = place]

(* Fault: the context is not looked at before the next attempt. *)
LoopTopAlways(l) ==
  /\ lpc[l] = "top"
  /\ Goto(l, "close")
  /\ UNCHANGED <<sharedVars, ctlVars, lconn, lch, lctx, dispVars, prodVars, brokerVars>>

LoopTop(l) ==
  /\ lpc[l] = "top"
  /\ Goto(l, IF ctx \in cancelled THEN "done" ELSE "close")
  /\ UNCHANGED <<sharedVars, ctlVars, lconn, lch, lctx, dispVars, prodVars, brokerVars>>

(* closeConnLocked *)
LoopCloseConn(l) ==
  /\ lpc[l] = "close"
  /\ chansOpen' = chansOpen \ {mqChannel}
  /\ connsOpen' = connsOpen \ {mqConnect}
  /\ mqChannel' = NoChan /\ mqConnect' = 0 /\ mqMessages' = NoChan
  /\ Goto(l, "dial")
  /\ UNCHANGED <<connected, stopped, confirms, ctlVars, lconn, lch, lctx, dispVars, prodVars,
                 dials, confirming, refused, consuming, faults>>

LoopDial(l) ==
  /\ lpc[l] = "dial" /\ dials < MaxDials
  /\ dials' = dials + 1
  /\ \/ /\ connsOpen' = connsOpen \cup {dials'}
        /\ lconn' = [lconn EXCEPT ![l] = dials']
        /\ Goto(l, "dialed")
        /\ UNCHANGED faults
     \/ /\ faults < MaxFaults /\ faults' = faults + 1
        /\ Goto(l, "check")
        /\ UNCHANGED <<connsOpen, lconn>>
  /\ UNCHANGED <<sharedVars, ctlVars, lch, lctx, dispVars, prodVars, chansOpen, confirming, refused,
                 consuming>>

(* Fault: r.stopped is not looked at after the dial. *)
LoopDialedUnchecked(l) ==
  /\ lpc[l] = "dialed"
  /\ mqConnect' = lconn[l]
  /\ Goto(l, "chread")
  /\ UNCHANGED <<connected, stopped, confirms, mqChannel, mqMessages, ctlVars, lconn, lch, lctx,
                 dispVars, prodVars, brokerVars>>

LoopDialed(l) ==
  /\ lpc[l] = "dialed"
  /\ IF stopped
     THEN /\ connsOpen' = connsOpen \ {lconn[l]}
          /\ Goto(l, "check")
          /\ UNCHANGED mqConnect
     ELSE /\ mqConnect' = lconn[l]
          /\ Goto(l, "chread")
          /\ UNCHANGED connsOpen
  /\ UNCHANGED <<connected, stopped, confirms, mqChannel, mqMessages, ctlVars, lconn, lch, lctx,
                 dispVars, prodVars, dials, chansOpen, confirming, refused, consuming, faults>>

(* channel *)
LoopReadConn(l) ==
  /\ lpc[l] = "chread"
  /\ lconn' = [lconn EXCEPT ![l] = mqConnect]
  /\ Goto(l, IF mqConnect = 0 THEN "check" ELSE "chopen")
  /\ UNCHANGED <<sharedVars, ctlVars, lch, lctx, dispVars, prodVars, brokerVars>>

(* A network call fails when what it is made on is closed, and may fail    *)
(* for a reason of its own.                                                *)
CallFails(open) ==
  \/ ~open /\ UNCHANGED faults
  \/ open /\ faults < MaxFaults /\ faults' = faults + 1

LoopOpenChannel(l) ==
  /\ lpc[l] = "chopen"
  /\ \/ /\ lconn[l] \in connsOpen
        /\ lch' = [lch EXCEPT ![l] = <<lconn[l], l>>]
        /\ chansOpen' = chansOpen \cup {<<lconn[l], l>>}
        /\ Goto(l, "chset")
        /\ UNCHANGED faults
     \/ /\ CallFails(lconn[l] \in connsOpen)
        /\ Goto(l, "check")
        /\ UNCHANGED <<lch, chansOpen>>
  /\ UNCHANGED <<sharedVars, ctlVars, lconn, lctx, dispVars, prodVars, dials, connsOpen,
                 confirming, refused, consuming>>

LoopSetChannel(l) ==
  /\ lpc[l] = "chset"
  /\ IF mqConnect # lconn[l]
     THEN /\ chansOpen' = chansOpen \ {lch[l]}
          /\ Goto(l, "check")
          /\ UNCHANGED mqChannel
     ELSE /\ mqChannel' = lch[l]
          /\ Goto(l, "confirm")
          /\ UNCHANGED chansOpen
  /\ UNCHANGED <<connected, stopped, confirms, mqConnect, mqMessages, ctlVars, lconn, lch, lctx,
                 dispVars, prodVars, dials, connsOpen, confirming, refused, consuming, faults>>

(* setupReturns only logs. enableConfirms: the channel is read and put into *)
(* confirm mode; a channel closed in between fails the call either way.     *)
LoopConfirm(l) ==
  /\ lpc[l] = "confirm"
  /\ \/ /\ ChanOpen(mqChannel)
        /\ confirming' = confirming \cup {mqChannel}
        /\ Goto(l, "confirmed")
        /\ UNCHANGED <<refused, faults>>
     \/ /\ CallFails(ChanOpen(mqChannel))
        /\ refused' = refused \cup ({mqChannel} \ {NoChan})
        /\ Goto(l, "queue")
        /\ UNCHANGED confirming
  /\ UNCHANGED <<sharedVars, ctlVars, lconn, lch, lctx, dispVars, prodVars, dials, connsOpen,
                 chansOpen, consuming>>

LoopConfirmed(l) ==
  /\ lpc[l] = "confirmed"
  /\ confirms' = TRUE
  /\ Goto(l, "queue")
  /\ UNCHANGED <<connected, stopped, mqConnect, mqChannel, mqMessages, ctlVars, lconn, lch, lctx,
                 dispVars, prodVars, brokerVars>>

(* queue: without a queue name there is nothing to declare. *)
LoopQueue(l) ==
  /\ lpc[l] = "queue"
  /\ lch' = [lch EXCEPT ![l] = mqChannel]
  /\ \/ ~HasQueue /\ Goto(l, "connected") /\ UNCHANGED faults
     \/ HasQueue /\ ChanOpen(mqChannel) /\ Goto(l, "declared") /\ UNCHANGED faults
     \/ HasQueue /\ CallFails(ChanOpen(mqChannel)) /\ Goto(l, "check")
  /\ UNCHANGED <<sharedVars, ctlVars, lconn, lctx, dispVars, prodVars, dials, connsOpen,
                 chansOpen, confirming, refused, consuming>>

LoopDeclared(l) ==
  /\ lpc[l] = "declared"
  /\ Goto(l, CASE mqChannel # lch[l] -> "check"
               [] mqChannel = lch[l] /\ ~HasConsumer -> "connected"
               [] OTHER -> "consume")
  /\ UNCHANGED <<sharedVars, ctlVars, lconn, lch, lctx, dispVars, prodVars, brokerVars>>

(* initConsumer: Qos and Consume on the channel of the moment. *)
LoopConsume(l) ==
  /\ lpc[l] = "consume"
  /\ lch' = [lch EXCEPT ![l] = mqChannel]
  /\ \/ /\ ChanOpen(mqChannel)
        /\ consuming' = consuming \cup {mqChannel}
        /\ Goto(l, "consumed")
        /\ UNCHANGED faults
     \/ /\ CallFails(ChanOpen(mqChannel))
        /\ Goto(l, "check")
        /\ UNCHANGED consuming
  /\ UNCHANGED <<sharedVars, ctlVars, lconn, lctx, dispVars, prodVars, dials, connsOpen,
                 chansOpen, confirming, refused>>

(* Fault: the deliveries are not stored for the dispatcher. *)
LoopConsumedUnstored(l) ==
  /\ lpc[l] = "consumed"
  /\ fresh' = fresh \cup {lch[l]}
  /\ Goto(l, "connected")
  /\ UNCHANGED <<sharedVars, ctlVars, lconn, lch, lctx, ranging, prodVars, brokerVars>>

LoopConsumed(l) ==
  /\ lpc[l] = "consumed"
  /\ mqMessages' = lch[l]
  /\ fresh' = fresh \cup {lch[l]}
  /\ Goto(l, "connected")
  /\ UNCHANGED <<connected, stopped, confirms, mqConnect, mqChannel, ctlVars, lconn, lch, lctx,
                 ranging, prodVars, brokerVars>>

LoopConnected(l) ==
  /\ lpc[l] = "connected"
  /\ connected' = TRUE
  /\ Goto(l, "check")
  /\ UNCHANGED <<stopped, confirms, mqConnect, mqChannel, mqMessages, ctlVars, lconn, lch, lctx,
                 dispVars, prodVars, brokerVars>>

(* Fault: the loop ends with the first attempt that fails. *)
LoopCheckGiveUp(l) ==
  /\ lpc[l] = "check"
  /\ lconn' = [lconn EXCEPT ![l] = mqConnect]
  /\ lctx' = [lctx EXCEPT ![l] = ctx]
  /\ Goto(l, IF connected THEN "watch" ELSE "done")
  /\ UNCHANGED <<sharedVars, ctlVars, lch, dispVars, prodVars, brokerVars>>

(* connect has returned: watch the connection, or back off. *)
LoopCheck(l) ==
  /\ lpc[l] = "check"
  /\ lconn' = [lconn EXCEPT ![l] = mqConnect]
  /\ lctx' = [lctx EXCEPT ![l] = ctx]
  /\ Goto(l, IF connected THEN "watch" ELSE "backoff")
  /\ UNCHANGED <<sharedVars, ctlVars, lch, dispVars, prodVars, brokerVars>>

(* The select on notifyClose and notifyBlocked ends: connected is false. *)
LoopLost(l) ==
  /\ lpc[l] = "watch" /\ lconn[l] # 0
  /\ connected' = FALSE
  /\ lctx' = [lctx EXCEPT ![l] = ctx]
  /\ Goto(l, "backoff")
  /\ UNCHANGED <<stopped, confirms, mqConnect, mqChannel, mqMessages, ctlVars, lconn, lch,
                 dispVars, prodVars, dials, connsOpen, chansOpen, confirming, refused, consuming>>

(* At once when the connection was lost before NotifyClose was called; a   *)
(* nil connection notifies nobody.                                         *)
LoopNotifyClose(l) == lconn[l] \notin connsOpen /\ LoopLost(l) /\ UNCHANGED faults

LoopNotifyBlocked(l) ==
  lconn[l] \in connsOpen /\ LoopLost(l) /\ faults < MaxFaults /\ faults' = faults + 1

LoopRetry(l) ==
  /\ lpc[l] = "backoff"
  /\ Goto(l, "top")
  /\ UNCHANGED <<sharedVars, ctlVars, lconn, lch, lctx, dispVars, prodVars, brokerVars>>

LoopDone(l) ==
  /\ lpc[l] \in {"watch", "backoff"} /\ lctx[l] \in cancelled
  /\ Goto(l, "done")
  /\ UNCHANGED <<sharedVars, ctlVars, lconn, lch, lctx, dispVars, prodVars, brokerVars>>

(* The dispatcher goroutine evaluates r.mqMessages when it first runs and  *)
(* ranges over that until it is closed; over nil for ever.                 *)
DispatchBegin(ch) ==
  /\ ch \in fresh
  /\ fresh' = fresh \ {ch}
  /\ ranging' = ranging \cup {mqMessages}
  /\ UNCHANGED <<sharedVars, ctlVars, loopVars, prodVars, brokerVars>>

DispatchEnd(ch) ==
  /\ ch \in ranging \ {NoChan} /\ ~ChanOpen(ch)
  /\ ranging' = ranging \ {ch}
  /\ UNCHANGED <<fresh, sharedVars, ctlVars, loopVars, prodVars, brokerVars>>

----------------------------------------------------------------------------
(* Produce. *)
ProduceLoad(p) ==
  /\ ppc[p] = "idle" /\ connected
  /\ ppc' = [ppc EXCEPT ![p] = "loaded"]
  /\ UNCHANGED <<pch, pconf, sharedVars, ctlVars, loopVars, dispVars, brokerVars>>

ProduceRead(p) ==
  /\ ppc[p] = "loaded"
  /\ pch' = [pch EXCEPT ![p] = mqChannel]
  /\ pconf' = [pconf EXCEPT ![p] = confirms]
  /\ ppc' = [ppc EXCEPT ![p] = IF mqChannel = NoChan THEN "idle" ELSE "publish"]
  /\ UNCHANGED <<sharedVars, ctlVars, loopVars, dispVars, brokerVars>>

(* A publication waits for its confirmation when r.confirms was set. *)
ProducePublish(p) ==
  /\ ppc[p] = "publish"
  /\ ppc' = [ppc EXCEPT ![p] = IF pconf[p] /\ ChanOpen(pch[p]) THEN "wait" ELSE "idle"]
  /\ UNCHANGED <<pch, pconf, sharedVars, ctlVars, loopVars, dispVars, brokerVars>>

(* Ack, nack, closed channel, time-out or the end of the context. *)
ProduceReturn(p) ==
  /\ ppc[p] = "wait"
  /\ ppc' = [ppc EXCEPT ![p] = "idle"]
  /\ UNCHANGED <<pch, pconf, sharedVars, ctlVars, loopVars, dispVars, brokerVars>>

----------------------------------------------------------------------------
(* External: the connection is lost. *)
BrokerDrop(c) ==
  /\ c \in connsOpen /\ faults < MaxFaults
  /\ connsOpen' = connsOpen \ {c}
  /\ faults' = faults + 1
  /\ UNCHANGED <<sharedVars, ctlVars, loopVars, dispVars, prodVars, dials, chansOpen,
                 confirming, refused, consuming>>

LoopStep(l) ==
  \/ LoopTop(l) \/ LoopCloseConn(l) \/ LoopDial(l) \/ LoopDialed(l) \/ LoopReadConn(l)
  \/ LoopOpenChannel(l) \/ LoopSetChannel(l) \/ LoopConfirm(l) \/ LoopConfirmed(l)
  \/ LoopQueue(l) \/ LoopDeclared(l) \/ LoopConsume(l) \/ LoopConsumed(l)
  \/ LoopConnected(l) \/ LoopCheck(l) \/ LoopNotifyClose(l) \/ LoopRetry(l) \/ LoopDone(l)

Next ==
  \/ StartCtx \/ StartLoop \/ ParentCancel \/ StopCancel \/ StopTake \/ StopClose
  \/ \E l \in Loops : LoopStep(l) \/ LoopNotifyBlocked(l)
  \/ \E ch \in Chans : DispatchBegin(ch) \/ DispatchEnd(ch)
  \/ \E p \in Producers :
       ProduceLoad(p) \/ ProduceRead(p) \/ ProducePublish(p) \/ ProduceReturn(p)
  \/ \E c \in Conns : BrokerDrop(c)

Spec == Init /\ [][Next]_vars

(* The scheduler runs every goroutine; network calls return; a back-off    *)
(* ends; a cancelled context is not passed over by select for ever.        *)
Fairness ==
  /\ WF_vars(StartLoop) /\ WF_vars(StopTake) /\ WF_vars(StopClose)
  /\ \A l \in Loops : WF_vars(LoopStep(l))
  /\ \A ch \in Chans : WF_vars(DispatchBegin(ch)) /\ WF_vars(DispatchEnd(ch))

FairSpec == Spec /\ Fairness

----------------------------------------------------------------------------
TypeOK ==
  /\ connected \in BOOLEAN /\ stopped \in BOOLEAN /\ confirms \in BOOLEAN
  /\ mqConnect \in Conns \cup {0}
  /\ mqChannel \in Chans \cup {NoChan} /\ mqMessages \in Chans \cup {NoChan}
  /\ ctx \in 0..MaxStarts /\ cancelled \in SUBSET Loops
  /\ ctl \in {"idle", "starting", "stopping", "closing"}
  /\ inHand \in (Chans \cup {NoChan}) \X (Conns \cup {0})
  /\ lpc \in [Loops -> LoopPlaces] /\ lconn \in [Loops -> Conns \cup {0}]
  /\ lch \in [Loops -> Chans \cup {NoChan}] /\ lctx \in [Loops -> 0..MaxStarts]
  /\ fresh \in SUBSET Chans /\ ranging \in SUBSET (Chans \cup {NoChan})
  /\ ppc \in [Producers -> {"idle", "loaded", "publish", "wait"}]
  /\ pch \in [Producers -> Chans \cup {NoChan}] /\ pconf \in [Producers -> BOOLEAN]
  /\ dials \in 0..MaxDials /\ connsOpen \in SUBSET Conns /\ chansOpen \in SUBSET Chans
  /\ confirming \in SUBSET Chans /\ refused \in SUBSET Chans
  /\ consuming \in SUBSET Chans /\ faults \in 0..MaxFaults

(* From the moment Stop has taken the connection out until the next Start, *)
(* no loop puts a connection or a channel back, in whatever network call   *)
(* Stop caught it (rabbitMQ.go:122-126 against 254-260 and 278-284). So a  *)
(* Produce that begins after Stop finds no channel to publish on.          *)
StoppedHoldsNothing == stopped => mqConnect = 0 /\ mqChannel = NoChan

(* With one Start no connection to the broker is ever lost sight of: an    *)
(* open one is r.mqConnect, or in the hands of Stop, or of a dial that is  *)
(* about to store or to close it (rabbitMQ.go:116-145, 225-264).           *)
ConnectionsOwned ==
  \A c \in connsOpen : \/ c = mqConnect
                       \/ c = inHand[2]
                       \/ \E l \in Loops : lpc[l] = "dialed" /\ lconn[l] = c

(* With one Start, the channel producers publish on is a channel of the    *)
(* connection that the loop watches (rabbitMQ.go:280, 177-183).            *)
ChannelOfWatchedConnection ==
  mqChannel # NoChan => /\ mqChannel[1] = mqConnect
                        /\ \A l \in Loops : lpc[l] = "watch" => lconn[l] = mqConnect

(* With one Start, a consumer on the present channel never delivers into   *)
(* the void: its dispatcher ranges over its deliveries or is about to,     *)
(* although it reads r.mqMessages without a lock (rabbitMQ.go:388-390,     *)
(* 417-418).                                                               *)
DeliveriesDispatched ==
  \A ch \in consuming :
    mqChannel = ch /\ ~(\E l \in Loops : lpc[l] = "consumed" /\ lch[l] = ch) /\ ChanOpen(ch)
      => ch \in fresh \cup ranging

(* With one Start, no connection is lost sight of, producers publish on a  *)
(* channel of the watched one, and deliveries of the present channel are   *)
(* dispatched (rabbitMQ.go:116-145, 177-183, 225-286, 388-424).            *)
Inv == TypeOK /\ ConnectionsOwned /\ ChannelOfWatchedConnection /\ DeliveriesDispatched

(* After Stop every reconnect loop ends and every connection is closed,    *)
(* unless there is another Start (rabbitMQ.go:116-145, 163-204).           *)
StopQuiesces ==
  (stopped /\ ctl = "idle") ~>
    (~stopped \/ (connsOpen = {} /\ \A l \in Loops : lpc[l] \in {"none", "done"}))

(* While the client is not cancelled it comes to have an open channel and  *)
(* to say so, whatever failed before (rabbitMQ.go:158-223).                *)
Reconnects ==
  (ctl = "idle" /\ ctx > 0 /\ ctx \notin cancelled)
    ~> (ctx \in cancelled \/ (connected /\ ChanOpen(mqChannel)))

(* rabbitMQ_test.go:36-38 says of IsConnected that true after Stop is an    *)
(* error.                                                                   *)
DisconnectedAfterStop == stopped /\ ctl = "idle" => ~connected

(* rabbitMQ.go:315 says of a channel on which Confirm failed that it is     *)
(* published on without confirms: Produce does not wait for a confirmation  *)
(* of such a channel, which never comes.                                    *)
NoWaitWhereConfirmFailed == \A p \in Producers : ppc[p] = "wait" => pch[p] \notin refused
=============================================================================
