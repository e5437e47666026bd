--------------------------- MODULE RabbitMQProofs ---------------------------
(***************************************************************************)
(* Theorems about mq/rabbitmq, for any number of Starts, dials, producers  *)
(* and faults: the type invariant, and that Stop leaves nothing behind     *)
(* that a reconnect loop could put back. And for one Start: connections    *)
(* have an owner, and producers and dispatchers have the right channel.    *)
(***************************************************************************)
EXTENDS RabbitMQ, TLAPS

(* What a loop's locals are worth at the places where they are used: a     *)
(* channel is only opened on a connection, a dispatcher only spawned for a *)
(* channel.                                                                *)
LoopLocals ==
  \A l \in Loops : /\ lpc[l] \in {"chopen", "chset"} => lconn[l] # 0
                   /\ lpc[l] = "consumed" => lch[l] \in Chans

(* The inductive form of TypeOK. *)
TypeInv == TypeOK /\ LoopLocals

(* The types of RabbitMQ.tla, with the locals where they are used. *)
LEMMA TypeInvAlways == Spec => []TypeInv
<1> USE RabbitAssumption
<1>1. Init => TypeInv
  <2> SUFFICES ASSUME Init PROVE TypeInv
    OBVIOUS
  <2>1. connected \in BOOLEAN /\ stopped \in BOOLEAN /\ confirms \in BOOLEAN
        /\ pconf \in [Producers -> BOOLEAN]
    BY Zenon DEF Init
  <2>2. ctx \in 0..MaxStarts /\ dials \in 0..MaxDials /\ faults \in 0..MaxFaults
        /\ lctx \in [Loops -> 0..MaxStarts]
    BY DEF Init
  <2>3. lpc \in [Loops -> LoopPlaces] /\ \A l \in Loops : lpc[l] = "none"
    BY DEF Init, LoopPlaces
  <2>4. LoopLocals
    BY <2>3 DEF LoopLocals
  <2> QED
    BY <2>1, <2>2, <2>3, <2>4, Zenon DEF Init, TypeInv, TypeOK
<1>2. TypeInv /\ [Next]_vars => TypeInv'
  <2> SUFFICES ASSUME TypeInv, [Next]_vars PROVE TypeInv'
    OBVIOUS
  <2> USE DEF TypeInv, TypeOK, LoopLocals, sharedVars, ctlVars, loopVars, dispVars, prodVars,
              brokerVars
  <2>1. CASE StartCtx
    BY <2>1 DEF StartCtx, LoopPlaces
  <2>2. CASE StartLoop
    BY <2>2 DEF StartLoop, LoopPlaces
  <2>3. CASE ParentCancel
    BY <2>3 DEF ParentCancel, Loops
  <2>4. CASE StopCancel
    BY <2>4 DEF StopCancel, Loops
  <2>5. CASE StopTake
    BY <2>5 DEF StopTake, LoopPlaces
  <2>6. CASE StopClose
    BY <2>6 DEF StopClose, LoopPlaces
  <2>7. ASSUME NEW l \in Loops, LoopTop(l) PROVE TypeInv'
    BY <2>7 DEF LoopTop, Goto, LoopPlaces
  <2>8. ASSUME NEW l \in Loops, LoopCloseConn(l) PROVE TypeInv'
    BY <2>8 DEF LoopCloseConn, Goto, LoopPlaces
  <2>9. ASSUME NEW l \in Loops, LoopDial(l) PROVE TypeInv'
    <3>1. faults' \in 0..MaxFaults /\ dials' \in 0..MaxDials /\ dials' \in Conns
      BY <2>9 DEF LoopDial, Conns
    <3>2. connsOpen' \in SUBSET Conns /\ lconn' \in [Loops -> Conns \cup {0}]
      BY <2>9, <3>1 DEF LoopDial
    <3>3. lpc' \in [Loops -> LoopPlaces] /\ LoopLocals'
      BY <2>9, <3>1 DEF LoopDial, Goto, LoopPlaces
    <3> QED
      BY <2>9, <3>1, <3>2, <3>3 DEF LoopDial
  <2>10. ASSUME NEW l \in Loops, LoopDialed(l) PROVE TypeInv'
    BY <2>10 DEF LoopDialed, Goto, LoopPlaces
  <2>11. ASSUME NEW l \in Loops, LoopReadConn(l) PROVE TypeInv'
    BY <2>11 DEF LoopReadConn, Goto, LoopPlaces
  <2>12. ASSUME NEW l \in Loops, LoopOpenChannel(l) PROVE TypeInv'
    BY <2>12 DEF LoopOpenChannel, Goto, LoopPlaces, CallFails, Chans
  <2>13. ASSUME NEW l \in Loops, LoopSetChannel(l) PROVE TypeInv'
    BY <2>13 DEF LoopSetChannel, Goto, LoopPlaces
  <2>14. ASSUME NEW l \in Loops, LoopConfirm(l) PROVE TypeInv'
    BY <2>14 DEF LoopConfirm, Goto, LoopPlaces, CallFails, ChanOpen
  <2>15. ASSUME NEW l \in Loops, LoopConfirmed(l) PROVE TypeInv'
    BY <2>15 DEF LoopConfirmed, Goto, LoopPlaces
  <2>16. ASSUME NEW l \in Loops, LoopQueue(l) PROVE TypeInv'
    BY <2>16 DEF LoopQueue, Goto, LoopPlaces, CallFails
  <2>17. ASSUME NEW l \in Loops, LoopDeclared(l) PROVE TypeInv'
    BY <2>17 DEF LoopDeclared, Goto, LoopPlaces
  <2>18. ASSUME NEW l \in Loops, LoopConsume(l) PROVE TypeInv'
    BY <2>18 DEF LoopConsume, Goto, LoopPlaces, CallFails, ChanOpen
  <2>19. ASSUME NEW l \in Loops, LoopConsumed(l) PROVE TypeInv'
    BY <2>19 DEF LoopConsumed, Goto, LoopPlaces
  <2>20. ASSUME NEW l \in Loops, LoopConnected(l) PROVE TypeInv'
    BY <2>20 DEF LoopConnected, Goto, LoopPlaces
  <2>21. ASSUME NEW l \in Loops, LoopCheck(l) PROVE TypeInv'
    BY <2>21 DEF LoopCheck, Goto, LoopPlaces
  <2>22. ASSUME NEW l \in Loops, LoopNotifyClose(l) PROVE TypeInv'
    BY <2>22 DEF LoopNotifyClose, Goto, LoopPlaces, LoopLost
  <2>23. ASSUME NEW l \in Loops, LoopRetry(l) PROVE TypeInv'
    BY <2>23 DEF LoopRetry, Goto, LoopPlaces
  <2>24. ASSUME NEW l \in Loops, LoopDone(l) PROVE TypeInv'
    BY <2>24 DEF LoopDone, Goto, LoopPlaces
  <2>25. ASSUME NEW l \in Loops, LoopNotifyBlocked(l) PROVE TypeInv'
    <3>1. faults' \in 0..MaxFaults
      BY <2>25 DEF LoopNotifyBlocked
    <3> QED
      BY <2>25, <3>1 DEF LoopNotifyBlocked, Goto, LoopPlaces, LoopLost
  <2>26. ASSUME NEW ch \in Chans, DispatchBegin(ch) PROVE TypeInv'
    BY <2>26 DEF DispatchBegin
  <2>27. ASSUME NEW ch \in Chans, DispatchEnd(ch) PROVE TypeInv'
    BY <2>27 DEF DispatchEnd
  <2>28. ASSUME NEW p \in Producers, ProduceLoad(p) PROVE TypeInv'
    BY <2>28 DEF ProduceLoad
  <2>29. ASSUME NEW p \in Producers, ProduceRead(p) PROVE TypeInv'
    BY <2>29 DEF ProduceRead
  <2>30. ASSUME NEW p \in Producers, ProducePublish(p) PROVE TypeInv'
    BY <2>30 DEF ProducePublish
  <2>31. ASSUME NEW p \in Producers, ProduceReturn(p) PROVE TypeInv'
    BY <2>31 DEF ProduceReturn
  <2>32. ASSUME NEW c \in Conns, BrokerDrop(c) PROVE TypeInv'
    BY <2>32 DEF BrokerDrop
  <2>33. CASE UNCHANGED vars
    BY <2>33 DEF vars
  <2> HIDE DEF TypeInv
  <2> QED
    BY <2>1, <2>2, <2>3, <2>4, <2>5, <2>6, <2>7, <2>8, <2>9, <2>10, <2>11, <2>12, <2>13,
       <2>14, <2>15, <2>16, <2>17, <2>18, <2>19, <2>20, <2>21, <2>22, <2>23, <2>24, <2>25,
       <2>26, <2>27, <2>28, <2>29, <2>30, <2>31, <2>32, <2>33
    DEF Next, LoopStep
<1> QED
  BY <1>1, <1>2, PTL DEF Spec

(* The fields of the client, the locals of its loops and the numbers of    *)
(* contexts, connections and channels keep their types.                    *)
THEOREM TypeCorrect == Spec => []TypeOK
BY TypeInvAlways, PTL DEF TypeInv

----------------------------------------------------------------------------
(* Once Stop has taken connection and channel out they stay out until the  *)
(* next Start, for any number of loops and wherever Stop met them: a dial  *)
(* that ends late looks at r.stopped, a channel opened late is compared    *)
(* with r.mqConnect, which then is nil.                                    *)
THEOREM StoppedHoldsNothingAlways == Spec => []StoppedHoldsNothing
<1>1. Init => StoppedHoldsNothing
  BY DEF Init, StoppedHoldsNothing
<1>2. TypeInv /\ StoppedHoldsNothing /\ [Next]_vars => StoppedHoldsNothing'
  <2> SUFFICES ASSUME TypeInv, StoppedHoldsNothing, [Next]_vars PROVE StoppedHoldsNothing'
    OBVIOUS
  <2> USE DEF StoppedHoldsNothing
  <2>1. CASE StartLoop
    BY <2>1 DEF StartLoop
  <2>2. CASE StopTake
    BY <2>2 DEF StopTake
  <2>3. ASSUME NEW l \in Loops, LoopCloseConn(l) PROVE StoppedHoldsNothing'
    BY <2>3 DEF LoopCloseConn
  <2>4. ASSUME NEW l \in Loops, LoopDialed(l) PROVE StoppedHoldsNothing'
    BY <2>4 DEF LoopDialed
  <2>5. ASSUME NEW l \in Loops, LoopSetChannel(l) PROVE StoppedHoldsNothing'
    <3>1. lconn[l] # 0
      BY <2>5 DEF LoopSetChannel, TypeInv, LoopLocals
    <3> QED
      BY <2>5, <3>1 DEF LoopSetChannel
  <2>6. CASE UNCHANGED <<stopped, mqConnect, mqChannel>>
    BY <2>6
  <2>7. ASSUME NEW l \in Loops, LoopStep(l) \/ LoopNotifyBlocked(l) PROVE StoppedHoldsNothing'
    BY <2>3, <2>4, <2>5, <2>6, <2>7
    DEF LoopStep, LoopTop, LoopDial, LoopReadConn, LoopOpenChannel, LoopConfirm, LoopConfirmed,
        LoopQueue, LoopDeclared, LoopConsume, LoopConsumed, LoopConnected, LoopCheck,
        LoopNotifyClose, LoopNotifyBlocked, LoopLost, LoopRetry, LoopDone, sharedVars
  <2> QED
    BY <2>1, <2>2, <2>6, <2>7
    DEF Next, StartCtx, ParentCancel, StopCancel, StopClose, DispatchBegin, DispatchEnd,
        ProduceLoad, ProduceRead, ProducePublish, ProduceReturn, BrokerDrop, vars, sharedVars
<1> QED
  BY <1>1, <1>2, TypeInvAlways, PTL DEF Spec

----------------------------------------------------------------------------
(* With one Start there is one loop, and what it has on its way is its     *)
(* own: while it dials and opens a channel nothing is in use, ...          *)
OneLoop ==
  /\ ctl # "closing" => inHand = <<NoChan, 0>>
  /\ ctl = "starting" => ctx # 0
  /\ ctx = 0 \/ ctl = "starting" => \A l \in Loops : lpc[l] = "none"
  /\ \A l \in Loops :
       /\ lpc[l] \in {"dial", "dialed"} => mqConnect = 0
       /\ lpc[l] \in {"dial", "dialed", "chread", "chopen", "chset"} => mqChannel = NoChan
       /\ lpc[l] = "chread" => mqConnect \in {0, lconn[l]}
       /\ lpc[l] = "chset" => lch[l] = <<lconn[l], l>>
       /\ lpc[l] = "consumed" => mqChannel \in {lch[l], NoChan}

(* ... the connection that it dialled has had no consumer yet, and a       *)
(* dispatcher that has not run yet will find its channel's deliveries.     *)
NewEach ==
  /\ mqConnect <= dials /\ mqChannel[1] <= dials
  /\ \A l \in Loops :
       /\ lconn[l] <= dials
       /\ lpc[l] = "consumed" => lch[l][1] <= dials
       /\ lpc[l] \in {"dialed", "chread", "chopen", "chset"} =>
            \A ch \in consuming \cup fresh : ch[1] # lconn[l]
  /\ \A ch \in consuming \cup fresh : ch[1] <= dials
  /\ \A ch \in fresh : mqChannel = ch => mqMessages = ch

(* The inductive form of Inv. *)
IInv == Inv /\ OneLoop /\ NewEach
(* The places of a loop that the invariant speaks of. *)
Told == {"dial", "dialed", "chread", "chopen", "chset", "consumed", "watch"}

(* NoChan is no channel, numbers are numbers. *)
LEMMA Numbers ==
  ASSUME TypeInv
  PROVE  /\ dials \in Nat /\ mqConnect \in Nat /\ mqChannel[1] \in Nat
         /\ \A l \in Loops : lconn[l] \in Nat /\ lch[l][1] \in Nat
         /\ \A ch \in Chans : ch # NoChan /\ ch[1] \in Nat
         /\ NoChan \notin consuming \cup fresh /\ consuming \cup fresh \subseteq Chans
<1>1. \A ch \in Chans : ch # NoChan /\ ch[1] \in Nat
  BY DEF Chans, Conns, NoChan
<1> QED
  BY <1>1, RabbitAssumption DEF TypeInv, TypeOK, Conns, NoChan

(* A loop that moves on to a place of which nothing is said, and touches   *)
(* nothing that is shared.                                                 *)
LEMMA MovesOn ==
  ASSUME IInv, TypeInv, TypeInv', NEW l \in Loops, NEW place, place \notin Told,
         lpc[l] \notin {"none", "dialed", "consumed"}, lpc' = [lpc EXCEPT ![l] = place],
         dials <= dials',
         UNCHANGED <<mqConnect, mqChannel, mqMessages, ctl, inHand, ctx, lconn, connsOpen,
                     chansOpen, consuming, fresh, ranging>>,
         \A k \in Loops : k # l => lch'[k] = lch[k]
  PROVE  IInv'
<1> USE DEF Told
<1>1. \A k \in Loops : lpc'[k] \in Told => lpc'[k] = lpc[k] /\ k # l /\ lch'[k] = lch[k]
  BY DEF TypeInv, TypeOK
<1>2. ConnectionsOwned'
  BY <1>1 DEF IInv, Inv, ConnectionsOwned, TypeInv, TypeOK
<1>3. ChannelOfWatchedConnection'
  BY <1>1 DEF IInv, Inv, ChannelOfWatchedConnection
<1>4. DeliveriesDispatched'
  BY <1>1 DEF IInv, Inv, DeliveriesDispatched, ChanOpen, TypeInv, TypeOK
<1>5. OneLoop'
  <2>1. \E k \in Loops : lpc[k] # "none"
    OBVIOUS
  <2>2. ~(ctx = 0 \/ ctl = "starting")
    BY <2>1 DEF IInv, OneLoop
  <2> QED
    BY <1>1, <2>2 DEF IInv, OneLoop
<1>6. NewEach'
  <2>1. dials' \in Nat
    BY RabbitAssumption DEF TypeInv, TypeOK
  <2> QED
    BY <1>1, <2>1, Numbers DEF IInv, NewEach
<1> QED
  BY <1>2, <1>3, <1>4, <1>5, <1>6 DEF IInv, Inv, TypeInv
(* Start and Stop: the loop is made once, and Stop takes out what is kept  *)
(* with nothing in its hands before.                                       *)
LEMMA ControlStep ==
  ASSUME MaxStarts = 1, IInv, TypeInv, TypeInv',
         StartCtx \/ StartLoop \/ StopCancel \/ StopTake \/ StopClose
  PROVE  IInv'
<1> USE DEF sharedVars, loopVars, dispVars, prodVars, brokerVars
<1>1. CASE StartCtx
  <2>1. ctx = 0 /\ ctx' = 1 /\ ctl' = "starting" /\ ctl = "idle"
    BY <1>1, RabbitAssumption DEF StartCtx, TypeInv, TypeOK
  <2> QED
    BY <1>1, <2>1 DEF StartCtx, IInv, Inv, OneLoop, NewEach, TypeInv, ConnectionsOwned,
       ChannelOfWatchedConnection, DeliveriesDispatched, ChanOpen
<1>2. CASE StartLoop
  <2>1. /\ ctl = "starting" /\ ctl' = "idle" /\ lpc' = [lpc EXCEPT ![ctx] = "top"]
        /\ UNCHANGED <<mqConnect, mqChannel, mqMessages, inHand, ctx, lconn, lch, dials, connsOpen,
                       chansOpen, consuming, fresh, ranging>>
    BY <1>2 DEF StartLoop
  <2>2. \A l \in Loops : lpc[l] = "none" /\ lpc'[l] \in {"none", "top"}
    BY <2>1 DEF IInv, OneLoop, TypeInv, TypeOK
  <2>3. ctx # 0
    BY <2>1 DEF IInv, OneLoop
  <2> QED
    BY <2>1, <2>2, <2>3 DEF IInv, Inv, OneLoop, NewEach, TypeInv, ConnectionsOwned,
       ChannelOfWatchedConnection, DeliveriesDispatched, ChanOpen
<1>3. CASE StopCancel
  BY <1>3 DEF StopCancel, IInv, Inv, OneLoop, NewEach, TypeInv, ConnectionsOwned,
     ChannelOfWatchedConnection, DeliveriesDispatched, ChanOpen
<1>4. CASE StopTake
  <2>1. /\ ctl = "stopping" /\ ctl' = "closing" /\ inHand' = <<mqChannel, mqConnect>>
        /\ mqChannel' = NoChan /\ mqConnect' = 0 /\ NoChan[1] = 0
        /\ UNCHANGED <<ctx, lpc, lconn, lch, dials, connsOpen, chansOpen, consuming, fresh, ranging>>
    BY <1>4 DEF StopTake, NoChan
  <2>2. inHand[2] = 0 /\ inHand'[2] = mqConnect /\ 0 \notin connsOpen
    BY <2>1 DEF IInv, OneLoop, TypeInv, TypeOK, Conns
  <2>3. ConnectionsOwned'
    BY <2>1, <2>2 DEF IInv, Inv, ConnectionsOwned
  <2>4. ChannelOfWatchedConnection' /\ DeliveriesDispatched'
    BY <2>1, Numbers DEF ChannelOfWatchedConnection, DeliveriesDispatched
  <2>5. OneLoop'
    BY <2>1 DEF IInv, OneLoop
  <2>6. NewEach'
    BY <2>1, Numbers DEF IInv, NewEach
  <2> QED
    BY <2>3, <2>4, <2>5, <2>6 DEF IInv, Inv, TypeInv
<1>5. CASE StopClose
  <2>1. /\ ctl = "closing" /\ ctl' = "idle" /\ inHand' = <<NoChan, 0>>
        /\ connsOpen' = connsOpen \ {inHand[2]} /\ chansOpen' \subseteq chansOpen
        /\ UNCHANGED <<mqConnect, mqChannel, mqMessages, ctx, lpc, lconn, lch, dials, consuming,
                       fresh, ranging>>
    BY <1>5 DEF StopClose
  <2> QED
    BY <2>1 DEF IInv, Inv, OneLoop, NewEach, TypeInv, ConnectionsOwned,
       ChannelOfWatchedConnection, DeliveriesDispatched, ChanOpen
<1> QED
  BY <1>1, <1>2, <1>3, <1>4, <1>5
(* A connection is closed and let go, dialled, kept or closed again. *)
LEMMA ConnectionStep ==
  ASSUME MaxStarts = 1, IInv, TypeInv, TypeInv', NEW l \in Loops,
         LoopCloseConn(l) \/ LoopDial(l) \/ LoopDialed(l)
  PROVE  IInv'
<1> USE DEF sharedVars, ctlVars, dispVars
<1>0. /\ \A k \in Loops : k = l
      /\ lpc[l] # "none"
  BY DEF Loops, LoopCloseConn, LoopDial, LoopDialed
<1>1. ctx # 0 /\ ctl # "starting"
  BY <1>0 DEF IInv, OneLoop
<1>2. CASE LoopCloseConn(l)
  <2>1. /\ lpc'[l] = "dial" /\ mqChannel' = NoChan /\ mqConnect' = 0 /\ NoChan[1] = 0
        /\ connsOpen' = connsOpen \ {mqConnect} /\ chansOpen' \subseteq chansOpen
        /\ lpc[l] = "close"
        /\ UNCHANGED <<ctl, inHand, ctx, lconn, lch, dials, consuming, fresh, ranging>>
    BY <1>2 DEF LoopCloseConn, Goto, NoChan, TypeInv, TypeOK
  <2>2. ConnectionsOwned'
    BY <1>0, <2>1 DEF IInv, Inv, ConnectionsOwned
  <2>3. ChannelOfWatchedConnection' /\ DeliveriesDispatched'
    BY <2>1, Numbers DEF ChannelOfWatchedConnection, DeliveriesDispatched
  <2>4. OneLoop'
    BY <1>0, <1>1, <2>1 DEF IInv, OneLoop
  <2>5. NewEach'
    BY <1>0, <2>1, Numbers DEF IInv, NewEach
  <2> QED
    BY <2>2, <2>3, <2>4, <2>5 DEF IInv, Inv, TypeInv
<1>3. CASE LoopDial(l)
  <2>1. CASE lpc' = [lpc EXCEPT ![l] = "check"]
    <3>1. UNCHANGED <<connsOpen, lconn>> /\ dials <= dials' /\ lpc[l] = "dial"
      BY <1>3, <2>1, Numbers DEF LoopDial, Goto, TypeInv, TypeOK
    <3> QED
      BY <1>3, <2>1, <3>1, MovesOn DEF LoopDial, Told
  <2>2. CASE lpc' # [lpc EXCEPT ![l] = "check"]
    <3>1. /\ lpc[l] = "dial" /\ lpc'[l] = "dialed" /\ dials' = dials + 1 /\ dials \in Nat
          /\ connsOpen' = connsOpen \cup {dials'} /\ lconn'[l] = dials'
          /\ UNCHANGED <<mqConnect, mqChannel, mqMessages, ctl, inHand, ctx, lch, chansOpen,
                         consuming, fresh, ranging>>
      BY <1>3, <2>2, Numbers DEF LoopDial, Goto, TypeInv, TypeOK
    <3>2. mqChannel = NoChan /\ mqConnect = 0
      BY <3>1 DEF IInv, OneLoop
    <3>3. ConnectionsOwned'
      BY <1>0, <3>1 DEF IInv, Inv, ConnectionsOwned
    <3>4. ChannelOfWatchedConnection' /\ DeliveriesDispatched'
      BY <3>1, <3>2, Numbers DEF ChannelOfWatchedConnection, DeliveriesDispatched
    <3>5. OneLoop'
      BY <1>0, <1>1, <3>1, <3>2 DEF IInv, OneLoop
    <3>6. NewEach'
      BY <1>0, <3>1, <3>2, Numbers DEF IInv, NewEach
    <3> QED
      BY <3>3, <3>4, <3>5, <3>6 DEF IInv, Inv, TypeInv
  <2> QED
    BY <2>1, <2>2
<1>4. CASE LoopDialed(l)
  <2>1. /\ lpc[l] = "dialed"
        /\ UNCHANGED <<mqChannel, mqMessages, ctl, inHand, ctx, lch, lconn, dials, chansOpen,
                       consuming, fresh, ranging>>
        /\ \/ lpc'[l] = "check" /\ connsOpen' = connsOpen \ {lconn[l]} /\ mqConnect' = mqConnect
           \/ lpc'[l] = "chread" /\ connsOpen' = connsOpen /\ mqConnect' = lconn[l]
    BY <1>4 DEF LoopDialed, Goto, TypeInv, TypeOK
  <2>2. mqChannel = NoChan /\ mqConnect = 0 /\ 0 \notin connsOpen
    BY <2>1 DEF IInv, OneLoop, TypeInv, TypeOK, Conns
  <2>3. ConnectionsOwned'
    BY <1>0, <2>1, <2>2 DEF IInv, Inv, ConnectionsOwned
  <2>4. ChannelOfWatchedConnection' /\ DeliveriesDispatched'
    BY <2>1, <2>2, Numbers DEF ChannelOfWatchedConnection, DeliveriesDispatched
  <2>5. OneLoop'
    BY <1>0, <1>1, <2>1, <2>2 DEF IInv, OneLoop
  <2>6. NewEach'
    BY <1>0, <2>1, <2>2, Numbers DEF IInv, NewEach
  <2> QED
    BY <2>3, <2>4, <2>5, <2>6 DEF IInv, Inv, TypeInv
<1> QED
  BY <1>2, <1>3, <1>4

(* The channel is opened on the connection that was dialled, and kept only *)
(* while the client still has that connection.                             *)
LEMMA ChannelStep ==
  ASSUME MaxStarts = 1, IInv, TypeInv, TypeInv', NEW l \in Loops,
         LoopReadConn(l) \/ LoopOpenChannel(l) \/ LoopSetChannel(l)
  PROVE  IInv'
<1> USE DEF sharedVars, ctlVars, dispVars
<1>0. \A k \in Loops : k = l
  BY DEF Loops
<1>1. lpc[l] \in {"chread", "chopen", "chset"}
  BY DEF LoopReadConn, LoopOpenChannel, LoopSetChannel
<1>2. ctx # 0 /\ ctl # "starting" /\ mqChannel = NoChan
  BY <1>1 DEF IInv, OneLoop
<1>3. CASE LoopReadConn(l)
  <2>1. /\ lpc[l] = "chread" /\ lpc'[l] \in {"check", "chopen"} /\ lconn'[l] = mqConnect
        /\ lpc'[l] = "chopen" => mqConnect # 0
        /\ UNCHANGED <<mqConnect, mqChannel, mqMessages, ctl, inHand, ctx, lch, dials, connsOpen,
                       chansOpen, consuming, fresh, ranging>>
    BY <1>3 DEF LoopReadConn, Goto, TypeInv, TypeOK, brokerVars
  <2>2. lpc'[l] = "chopen" => lconn'[l] = lconn[l]
    BY <2>1 DEF IInv, OneLoop
  <2>3. ConnectionsOwned'
    BY <1>0, <2>1 DEF IInv, Inv, ConnectionsOwned
  <2>4. ChannelOfWatchedConnection' /\ DeliveriesDispatched'
    BY <1>2, <2>1, Numbers DEF ChannelOfWatchedConnection, DeliveriesDispatched
  <2>5. OneLoop'
    BY <1>0, <1>2, <2>1 DEF IInv, OneLoop
  <2>6. NewEach'
    BY <1>0, <2>1, <2>2, Numbers DEF IInv, NewEach
  <2> QED
    BY <2>3, <2>4, <2>5, <2>6 DEF IInv, Inv, TypeInv
<1>4. CASE LoopOpenChannel(l)
  <2>1. /\ lpc[l] = "chopen"
        /\ UNCHANGED <<mqConnect, mqChannel, mqMessages, ctl, inHand, ctx, lconn, dials, connsOpen,
                       consuming, fresh, ranging>>
        /\ \/ lpc'[l] = "check"
           \/ lpc'[l] = "chset" /\ lch'[l] = <<lconn[l], l>>
    BY <1>4 DEF LoopOpenChannel, Goto, TypeInv, TypeOK
  <2>2. ConnectionsOwned'
    BY <1>0, <2>1 DEF IInv, Inv, ConnectionsOwned
  <2>3. ChannelOfWatchedConnection' /\ DeliveriesDispatched'
    BY <1>2, <2>1, Numbers DEF ChannelOfWatchedConnection, DeliveriesDispatched
  <2>4. OneLoop'
    BY <1>0, <1>2, <2>1 DEF IInv, OneLoop
  <2>5. NewEach'
    BY <1>0, <2>1, Numbers DEF IInv, NewEach
  <2> QED
    BY <2>2, <2>3, <2>4, <2>5 DEF IInv, Inv, TypeInv
<1>5. CASE LoopSetChannel(l)
  <2>1. /\ lpc[l] = "chset" /\ lch[l] = <<lconn[l], l>> /\ lch[l][1] = lconn[l]
        /\ UNCHANGED <<mqConnect, mqMessages, ctl, inHand, ctx, lconn, lch, dials, connsOpen,
                       consuming, fresh, ranging>>
        /\ \/ lpc'[l] = "check" /\ mqChannel' = mqChannel
           \/ lpc'[l] = "confirm" /\ mqConnect = lconn[l] /\ mqChannel' = lch[l]
    BY <1>5 DEF LoopSetChannel, Goto, TypeInv, TypeOK, IInv, OneLoop
  <2>2. lch[l] \notin consuming \cup fresh
    BY <2>1 DEF IInv, NewEach
  <2>3. ConnectionsOwned'
    BY <1>0, <2>1 DEF IInv, Inv, ConnectionsOwned
  <2>4. ChannelOfWatchedConnection' /\ DeliveriesDispatched'
    BY <1>0, <1>2, <2>1, <2>2, Numbers DEF ChannelOfWatchedConnection, DeliveriesDispatched
  <2>5. OneLoop'
    BY <1>0, <1>2, <2>1 DEF IInv, OneLoop
  <2>6. NewEach'
    BY <1>0, <1>2, <2>1, <2>2, Numbers DEF IInv, NewEach
  <2> QED
    BY <2>3, <2>4, <2>5, <2>6 DEF IInv, Inv, TypeInv
<1> QED
  BY <1>3, <1>4, <1>5

(* The consumer: its deliveries are stored before its dispatcher can look, *)
(* unless Stop has taken the channel out meanwhile.                        *)
LEMMA ConsumeStep ==
  ASSUME MaxStarts = 1, IInv, TypeInv, TypeInv', NEW l \in Loops,
         LoopConsume(l) \/ LoopConsumed(l) \/ LoopCheck(l)
  PROVE  IInv'
<1> USE DEF sharedVars, ctlVars, dispVars
<1>0. \A k \in Loops : k = l
  BY DEF Loops
<1>1. lpc[l] \in {"consume", "consumed", "check"}
  BY DEF LoopConsume, LoopConsumed, LoopCheck
<1>2. ctx # 0 /\ ctl # "starting"
  BY <1>1 DEF IInv, OneLoop
<1>3. CASE LoopConsume(l)
  <2>1. CASE lpc' = [lpc EXCEPT ![l] = "check"]
    <3>1. UNCHANGED consuming /\ dials <= dials' /\ \A k \in Loops : k # l => lch'[k] = lch[k]
      BY <1>0, <1>3, <2>1, Numbers DEF LoopConsume, Goto, TypeInv, TypeOK
    <3> QED
      BY <1>3, <2>1, <3>1, MovesOn DEF LoopConsume, Told
  <2>2. CASE lpc' # [lpc EXCEPT ![l] = "check"]
    <3>1. /\ lpc[l] = "consume" /\ lpc'[l] = "consumed" /\ lch'[l] = mqChannel
          /\ consuming' = consuming \cup {mqChannel}
          /\ UNCHANGED <<mqConnect, mqChannel, mqMessages, ctl, inHand, ctx, lconn, dials,
                         connsOpen, chansOpen, fresh, ranging>>
      BY <1>3, <2>2 DEF LoopConsume, Goto, TypeInv, TypeOK
    <3>2. ConnectionsOwned'
      BY <1>0, <3>1 DEF IInv, Inv, ConnectionsOwned
    <3>3. ChannelOfWatchedConnection'
      BY <1>0, <3>1 DEF IInv, Inv, ChannelOfWatchedConnection
    <3>4. DeliveriesDispatched'
      BY <1>0, <3>1 DEF IInv, Inv, DeliveriesDispatched, ChanOpen
    <3>5. OneLoop'
      BY <1>0, <1>2, <3>1 DEF IInv, OneLoop
    <3>6. NewEach'
      BY <1>0, <3>1, Numbers DEF IInv, NewEach
    <3> QED
      BY <3>2, <3>3, <3>4, <3>5, <3>6 DEF IInv, Inv, TypeInv
  <2> QED
    BY <2>1, <2>2
<1>4. CASE LoopConsumed(l)
  <2>1. /\ lpc[l] = "consumed" /\ lpc'[l] = "connected" /\ mqMessages' = lch[l]
        /\ fresh' = fresh \cup {lch[l]} /\ mqChannel \in {lch[l], NoChan}
        /\ UNCHANGED <<mqConnect, mqChannel, ctl, inHand, ctx, lconn, lch, dials, connsOpen,
                       chansOpen, consuming, ranging>>
    BY <1>4 DEF LoopConsumed, Goto, TypeInv, TypeOK, IInv, OneLoop, brokerVars
  <2>2. ConnectionsOwned'
    BY <1>0, <2>1 DEF IInv, Inv, ConnectionsOwned
  <2>3. ChannelOfWatchedConnection'
    BY <1>0, <2>1 DEF IInv, Inv, ChannelOfWatchedConnection
  <2>4. DeliveriesDispatched'
    BY <1>0, <2>1 DEF IInv, Inv, DeliveriesDispatched, ChanOpen
  <2>5. OneLoop'
    BY <1>0, <1>2, <2>1 DEF IInv, OneLoop
  <2>6. NewEach'
    BY <1>0, <2>1, Numbers DEF IInv, NewEach, TypeInv, LoopLocals
  <2> QED
    BY <2>2, <2>3, <2>4, <2>5, <2>6 DEF IInv, Inv, TypeInv
<1>5. CASE LoopCheck(l)
  <2>1. /\ lpc[l] = "check" /\ lpc'[l] \in {"watch", "backoff"} /\ lconn'[l] = mqConnect
        /\ UNCHANGED <<mqConnect, mqChannel, mqMessages, ctl, inHand, ctx, lch, dials, connsOpen,
                       chansOpen, consuming, fresh, ranging>>
    BY <1>5 DEF LoopCheck, Goto, TypeInv, TypeOK, brokerVars
  <2>2. ConnectionsOwned'
    BY <1>0, <2>1 DEF IInv, Inv, ConnectionsOwned
  <2>3. ChannelOfWatchedConnection' /\ DeliveriesDispatched'
    BY <1>0, <2>1 DEF IInv, Inv, ChannelOfWatchedConnection, DeliveriesDispatched, ChanOpen
  <2>4. OneLoop'
    BY <1>0, <1>2, <2>1 DEF IInv, OneLoop
  <2>5. NewEach'
    BY <1>0, <2>1, Numbers DEF IInv, NewEach
  <2> QED
    BY <2>2, <2>3, <2>4, <2>5 DEF IInv, Inv, TypeInv
<1> QED
  BY <1>3, <1>4, <1>5
(* The other steps of a loop. *)
LEMMA LoopElsewhere ==
  ASSUME IInv, TypeInv, TypeInv', NEW l \in Loops,
         \/ LoopTop(l) \/ LoopConfirm(l) \/ LoopConfirmed(l) \/ LoopQueue(l) \/ LoopDeclared(l)
         \/ LoopConnected(l) \/ LoopNotifyClose(l) \/ LoopNotifyBlocked(l) \/ LoopRetry(l)
         \/ LoopDone(l)
  PROVE  IInv'
<1>1. /\ \E place \in LoopPlaces \ Told : lpc' = [lpc EXCEPT ![l] = place]
      /\ lpc[l] \notin {"none", "dialed", "consumed"}
      /\ UNCHANGED <<mqConnect, mqChannel, mqMessages, ctl, inHand, ctx, lconn, connsOpen,
                     chansOpen, consuming, fresh, ranging, dials>>
      /\ \A k \in Loops : k # l => lch'[k] = lch[k]
  BY DEF LoopTop, LoopConfirm, LoopConfirmed, LoopQueue, LoopDeclared, LoopConnected,
     LoopNotifyClose, LoopNotifyBlocked, LoopLost, LoopRetry, LoopDone, Goto, Told, LoopPlaces,
     TypeInv, TypeOK, sharedVars, ctlVars, dispVars, brokerVars
<1>2. PICK place \in LoopPlaces \ Told : lpc' = [lpc EXCEPT ![l] = place]
  BY <1>1
<1>3. dials <= dials'
  BY <1>1, Numbers
<1> QED
  BY <1>1, <1>2, <1>3, MovesOn

(* Dispatchers, producers and the network: a dispatcher that looks for the *)
(* first time finds the deliveries of its channel if that is still in use. *)
LEMMA OthersStep ==
  ASSUME IInv, TypeInv, TypeInv',
         \/ ParentCancel \/ \E ch \in Chans : DispatchBegin(ch) \/ DispatchEnd(ch)
         \/ \E p \in Producers :
              ProduceLoad(p) \/ ProduceRead(p) \/ ProducePublish(p) \/ ProduceReturn(p)
         \/ \E c \in Conns : BrokerDrop(c)
         \/ UNCHANGED vars
  PROVE  IInv'
<1> USE DEF sharedVars, ctlVars, loopVars, prodVars, brokerVars, dispVars
<1> DEFINE Served == \A ch \in consuming :
             mqChannel = ch /\ ChanOpen(ch) /\ ch \in fresh \cup ranging => ch \in fresh' \cup ranging'
<1>1. /\ UNCHANGED <<mqConnect, mqChannel, mqMessages, ctl, inHand, ctx, lpc, lconn, lch, dials,
                     chansOpen, consuming>>
      /\ connsOpen' \subseteq connsOpen /\ fresh' \subseteq fresh
  BY DEF ParentCancel, DispatchBegin, DispatchEnd, ProduceLoad, ProduceRead, ProducePublish,
     ProduceReturn, BrokerDrop, vars
<1>2. Served
  <2>1. ASSUME NEW ch \in Chans, DispatchBegin(ch) PROVE Served
    <3>1. \A e \in fresh : mqChannel = e => mqMessages = e
      BY DEF IInv, NewEach
    <3> QED
      BY <2>1, <3>1 DEF DispatchBegin
  <2>2. ASSUME NEW ch \in Chans, DispatchEnd(ch) PROVE Served
    BY <2>2 DEF DispatchEnd
  <2>3. CASE UNCHANGED <<fresh, ranging>>
    BY <2>3
  <2> QED
    BY <2>1, <2>2, <2>3 DEF ParentCancel, ProduceLoad, ProduceRead, ProducePublish,
       ProduceReturn, BrokerDrop, vars
<1>3. ConnectionsOwned'
  BY <1>1 DEF IInv, Inv, ConnectionsOwned
<1>4. ChannelOfWatchedConnection'
  BY <1>1 DEF IInv, Inv, ChannelOfWatchedConnection
<1>5. DeliveriesDispatched'
  BY <1>1, <1>2 DEF IInv, Inv, DeliveriesDispatched, ChanOpen
<1>6. OneLoop' /\ NewEach'
  BY <1>1 DEF IInv, OneLoop, NewEach
<1> QED
  BY <1>3, <1>4, <1>5, <1>6 DEF IInv, Inv, TypeInv

(* With one Start: no connection is lost sight of, whatever call Stop or a *)
(* failure met; producers publish on a channel of the connection that the  *)
(* loop watches; and deliveries of the present channel are dispatched      *)
(* (rabbitMQ.go:116-145, 177-183, 225-286, 388-424). With more Starts two  *)
(* loops may dial at once, and the first part fails.                       *)
THEOREM InvAlways == ASSUME MaxStarts = 1 PROVE Spec => []Inv
<1>1. TypeInv /\ Init => IInv
  <2> SUFFICES ASSUME TypeInv, Init PROVE IInv
    OBVIOUS
  <2>1. NoChan[1] = 0 /\ inHand = <<NoChan, 0>> /\ \A l \in Loops : lconn[l] = 0 /\ lch[l] = NoChan
    BY DEF NoChan, Init
  <2> QED
    BY <2>1 DEF Init, IInv, Inv, TypeInv, ConnectionsOwned, ChannelOfWatchedConnection,
       DeliveriesDispatched, OneLoop, NewEach
<1>2. TypeInv /\ TypeInv' /\ IInv /\ [Next]_vars => IInv'
  <2> SUFFICES ASSUME TypeInv, TypeInv', IInv, [Next]_vars PROVE IInv'
    OBVIOUS
  <2>1. ASSUME NEW l \in Loops, LoopStep(l) \/ LoopNotifyBlocked(l) PROVE IInv'
    BY <2>1, ConnectionStep, ChannelStep, ConsumeStep, LoopElsewhere DEF LoopStep
  <2> QED
    BY <2>1, ControlStep, OthersStep DEF Next
<1>3. IInv => Inv
  BY DEF IInv
<1> QED
  BY <1>1, <1>2, <1>3, TypeInvAlways, PTL DEF Spec
=============================================================================
