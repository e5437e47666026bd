------------------------ MODULE RabbitConsumerProofs ------------------------
(***************************************************************************)
(* Theorems about the consumer half of mq/rabbitmq, for any messages,      *)
(* width of the window and number of channels: no delivery is lost between *)
(* the goroutines, the dispatcher never waits, and consumerFunction is     *)
(* called at most once for a delivery.                                     *)
(***************************************************************************)
EXTENDS RabbitConsumer, FiniteSetTheorems, FunctionTheorems, SequenceTheorems, TLAPS

(* No element is there twice. *)
NoDup(s) == \A i, j \in 1..Len(s) : s[i] = s[j] => i = j

(* Deliveries that the library holds in its buffers, not yet received. *)
Library == {d \in Deliveries : d[1] \in buf[d[2]]}

(* Goroutines of a channel hold nothing before its dispatcher ranges over  *)
(* something, hold one delivery at most, and deliveries of that source.    *)
Hands ==
  /\ \A c \in Chans : /\ dpc[c] \in {"none", "fresh"} => workCh[c] = <<>>
                      /\ dpc[c] # "send" => dmsg[c] = {}
                      /\ dpc[c] = "send" => \E d \in Deliveries : d[2] = dsrc[c] /\ dmsg[c] = {d}
                      /\ \A d \in InQueue(c) : d[2] = dsrc[c]
  /\ \A w \in Workers : /\ wpc[w] \notin {"handle", "true", "false"} => wmsg[w] = {}
                        /\ wpc[w] \in {"handle", "true", "false"} => \E d \in Deliveries : wmsg[w] = {d}
                        /\ dpc[w[1]] \in {"none", "fresh"} => wmsg[w] = {}

(* Channels are used in the order of their numbers, one at a time. *)
Order ==
  /\ open \subseteq {chans} /\ mqMessages <= chans
  /\ link = "consumed" => chans # 0 /\ dpc[chans] = "none"
  /\ \A c \in Chans : dsrc[c] <= chans /\ (c > chans => dpc[c] = "none" /\ buf[c] = {})
  /\ \A w \in Workers : \A d \in wmsg[w] : d[2] <= chans
  /\ \A d \in handled : d[2] <= chans
  /\ \A m \in Msgs : st[m] = "unacked" => on[m] \in open

(* A delivery is in one place at a time. *)
Apart ==
  /\ \A c \in Chans :
       /\ Library \cap dmsg[c] = {} /\ Library \cap InQueue(c) = {} /\ NoDup(workCh[c])
       /\ \A e \in Chans : /\ dmsg[c] \cap InQueue(e) = {}
                           /\ c # e => dmsg[c] \cap dmsg[e] = {} /\ InQueue(c) \cap InQueue(e) = {}
  /\ \A w \in Workers :
       /\ Library \cap wmsg[w] = {}
       /\ \A c \in Chans : dmsg[c] \cap wmsg[w] = {} /\ InQueue(c) \cap wmsg[w] = {}
       /\ \A v \in Workers : v # w => wmsg[v] \cap wmsg[w] = {}

(* Deliveries under way: in the library, with a dispatcher, queued for the *)
(* workers, or with a worker ...                                           *)
Flight ==
  {d \in Deliveries : \/ d \in Library
                      \/ \E c \in Chans : d \in dmsg[c] \/ d \in InQueue(c)
                      \/ \E w \in Workers : d \in wmsg[w]}

(* ... and those of one channel. *)
FlightOf(c) == {m \in Msgs : <<m, c>> \in Flight}

(* The broker's window bounds what is under way on a channel, also after   *)
(* the channel was lost.                                                   *)
Bounded ==
  \A c \in Chans :
    /\ IsFiniteSet(Unsettled(c)) /\ Cardinality(Unsettled(c)) <= ConcurrencyCount
    /\ IsFiniteSet(FlightOf(c)) /\ Cardinality(FlightOf(c)) <= ConcurrencyCount
    /\ c \in open => FlightOf(c) \subseteq Unsettled(c)

(* A delivery that no call has ended for is not among the handled ones. *)
Fresh ==
  /\ \A d \in handled : d[2] \in open => st[d[1]] # "ready"
  /\ Library \cap handled = {}
  /\ \A c \in Chans : dmsg[c] \cap handled = {} /\ InQueue(c) \cap handled = {}
  /\ AgainOnlyAfterLoss

(* The inductive invariant. *)
IInv == TypeOK /\ NoneDropped /\ Hands /\ Order /\ Apart /\ Bounded /\ Fresh

----------------------------------------------------------------------------
(* What is in a queue. *)
Elems(s) == {s[i] : i \in 1..Len(s)}

(* A buffered channel takes an element in at its end ... *)
LEMMA QueueAppend ==
  ASSUME NEW S, NEW s \in Seq(S), NEW x \in S
  PROVE  /\ Elems(Append(s, x)) = Elems(s) \cup {x} /\ Append(s, x) \in Seq(S)
         /\ NoDup(s) /\ x \notin Elems(s) => NoDup(Append(s, x))
<1>1. /\ Append(s, x) \in Seq(S) /\ Len(Append(s, x)) = Len(s) + 1 /\ Len(s) \in Nat
      /\ Append(s, x)[Len(s) + 1] = x
      /\ \A i \in 1..Len(s) : Append(s, x)[i] = s[i]
  OBVIOUS
<1>2. Elems(Append(s, x)) = Elems(s) \cup {x}
  <2>1. ASSUME NEW y \in Elems(Append(s, x)) PROVE y \in Elems(s) \cup {x}
    <3>1. PICK i \in 1..(Len(s) + 1) : y = Append(s, x)[i]
      BY <1>1, <2>1 DEF Elems
    <3>2. i \in 1..Len(s) \/ i = Len(s) + 1
      BY <1>1, <3>1
    <3> QED
      BY <1>1, <3>1, <3>2 DEF Elems
  <2>2. ASSUME NEW y \in Elems(s) PROVE y \in Elems(Append(s, x))
    <3>1. PICK i \in 1..Len(s) : y = s[i]
      BY <2>2 DEF Elems
    <3>2. i \in 1..(Len(s) + 1)
      BY <1>1
    <3> QED
      BY <1>1, <3>1, <3>2 DEF Elems
  <2>3. x \in Elems(Append(s, x))
    <3>1. Len(s) + 1 \in 1..(Len(s) + 1)
      BY <1>1
    <3> QED
      BY <1>1, <3>1 DEF Elems
  <2> QED
    BY <2>1, <2>2, <2>3
<1>3. ASSUME NoDup(s), x \notin Elems(s) PROVE NoDup(Append(s, x))
  <2> SUFFICES ASSUME NEW i \in 1..(Len(s) + 1), NEW j \in 1..(Len(s) + 1),
                      Append(s, x)[i] = Append(s, x)[j]
               PROVE  i = j
    BY <1>1 DEF NoDup
  <2>1. (i \in 1..Len(s) \/ i = Len(s) + 1) /\ (j \in 1..Len(s) \/ j = Len(s) + 1)
    BY <1>1
  <2> QED
    BY <1>1, <1>3, <2>1 DEF NoDup, Elems
<1> QED
  BY <1>1, <1>2, <1>3

(* ... and gives out the one at its head, which is then no longer in it. *)
LEMMA QueueTail ==
  ASSUME NEW S, NEW s \in Seq(S), s # <<>>, NoDup(s)
  PROVE  /\ Elems(Tail(s)) = Elems(s) \ {Head(s)} /\ Head(s) \in Elems(s)
         /\ Tail(s) \in Seq(S) /\ NoDup(Tail(s))
<1>1. /\ Tail(s) \in Seq(S) /\ Len(Tail(s)) = Len(s) - 1 /\ Len(s) \in Nat \ {0}
      /\ Head(s) = s[1] /\ \A i \in 1..(Len(s) - 1) : Tail(s)[i] = s[i + 1]
  BY EmptySeq, HeadTailProperties
<1>2. ASSUME NEW y \in Elems(Tail(s)) PROVE y \in Elems(s) \ {Head(s)}
  <2>1. PICK i \in 1..(Len(s) - 1) : y = s[i + 1]
    BY <1>1, <1>2 DEF Elems
  <2>2. i + 1 \in 1..Len(s) /\ 1 \in 1..Len(s) /\ i + 1 # 1
    BY <1>1
  <2> QED
    BY <1>1, <2>1, <2>2 DEF Elems, NoDup
<1>3. ASSUME NEW y \in Elems(s) \ {Head(s)} PROVE y \in Elems(Tail(s))
  <2>1. PICK i \in 1..Len(s) : y = s[i]
    BY <1>3 DEF Elems
  <2>2. i - 1 \in 1..(Len(s) - 1) /\ (i - 1) + 1 = i
    BY <1>1, <1>3, <2>1
  <2> QED
    BY <1>1, <2>1, <2>2 DEF Elems
<1>4. Head(s) \in Elems(s)
  BY <1>1 DEF Elems
<1>5. NoDup(Tail(s))
  BY <1>1 DEF NoDup
<1> QED
  BY <1>1, <1>2, <1>3, <1>4, <1>5

(* A step that moves no delivery keeps them apart and under way. *)
LEMMA NothingMoved ==
  ASSUME UNCHANGED <<buf, dmsg, workCh, wmsg>>
  PROVE  /\ Library' = Library /\ Flight' = Flight
         /\ \A c \in Chans : InQueue(c)' = InQueue(c) /\ FlightOf(c)' = FlightOf(c)
         /\ Apart => Apart'
<1>1. Library' = Library /\ (\A c \in Chans : InQueue(c)' = InQueue(c))
  BY DEF Library, InQueue
<1>2. Flight' = Flight
  BY <1>1 DEF Flight
<1>3. \A c \in Chans : FlightOf(c)' = FlightOf(c)
  BY <1>2 DEF FlightOf
<1>4. Apart => Apart'
  BY <1>1 DEF Apart
<1> QED
  BY <1>1, <1>2, <1>3, <1>4

(* The bounds stand when less is under way and less is unsettled. *)
LEMMA LessIsBounded ==
  ASSUME Bounded, ConcurrencyCount \in Nat,
         \A c \in Chans : /\ FlightOf(c)' \subseteq FlightOf(c)
                          /\ Unsettled(c)' \subseteq Unsettled(c)
                          /\ c \in open' => FlightOf(c)' \subseteq Unsettled(c)'
  PROVE  Bounded'
<1> SUFFICES ASSUME NEW c \in Chans
             PROVE /\ IsFiniteSet(Unsettled(c)') /\ Cardinality(Unsettled(c)') <= ConcurrencyCount
                   /\ IsFiniteSet(FlightOf(c)') /\ Cardinality(FlightOf(c)') <= ConcurrencyCount
  BY DEF Bounded
<1>1. ASSUME NEW S, NEW T, IsFiniteSet(S), Cardinality(S) <= ConcurrencyCount, T \subseteq S
      PROVE  IsFiniteSet(T) /\ Cardinality(T) <= ConcurrencyCount
  BY <1>1, FS_Subset, FS_CardinalityType
<1> QED
  BY <1>1 DEF Bounded

(* No delivery is lost, as a statement about what is under way. *)
LEMMA NoneDroppedIsFlight ==
  ASSUME TypeOK
  PROVE  NoneDropped <=> \A c \in open : \A m \in Unsettled(c) : <<m, c>> \in Flight \cup dropped
BY DEF TypeOK, NoneDropped, Flight, Library, Unsettled, Deliveries, InLibrary, WithDispatcher,
       InWorkCh, WithWorker

(* The same of the state that a step leads to. *)
LEMMA FlightTellsNext ==
  ASSUME TypeOK', \A c \in open' : \A m \in Unsettled(c)' : <<m, c>> \in Flight' \cup dropped'
  PROVE  NoneDropped'
BY DEF TypeOK, NoneDropped, Flight, Library, Unsettled, Deliveries, InLibrary, WithDispatcher,
       InWorkCh, WithWorker

(* What a step does to the deliveries under way decides on the bounds and  *)
(* on NoneDropped.                                                         *)
LEMMA FlightDecides ==
  ASSUME IInv, TypeOK', UNCHANGED <<open, st, on>>, Flight' \subseteq Flight,
         \A d \in Flight \ Flight' : d[2] \in open => d \in dropped',
         dropped \subseteq dropped'
  PROVE  Bounded' /\ NoneDropped'
<1>1. \A c \in Chans : FlightOf(c)' \subseteq FlightOf(c) /\ Unsettled(c)' = Unsettled(c)
  BY DEF FlightOf, Unsettled
<1>2. Bounded'
  BY <1>1, LessIsBounded, ConsumerAssumption DEF IInv, Bounded
<1>3. \A c \in open : \A m \in Unsettled(c) : <<m, c>> \in Flight \cup dropped
  BY NoneDroppedIsFlight DEF IInv
<1>4. \A c \in open' : \A m \in Unsettled(c)' : <<m, c>> \in Flight' \cup dropped'
  BY <1>1, <1>3 DEF IInv, TypeOK
<1>5. NoneDropped'
  BY <1>4, FlightTellsNext
<1> QED
  BY <1>2, <1>5

(* Nothing is under way at the start. *)
LEMMA InitIInv == Init => IInv
<1> SUFFICES ASSUME Init PROVE IInv
  OBVIOUS
<1> USE ConsumerAssumption
<1>1. TypeOK
  BY DEF Init, TypeOK
<1>2. Library = {} /\ (\A c \in Chans : InQueue(c) = {}) /\ (\A c \in Chans : Unsettled(c) = {})
  BY DEF Init, Library, InQueue, Unsettled, Deliveries
<1>3. Flight = {} /\ (\A c \in Chans : FlightOf(c) = {})
  BY <1>2 DEF Init, Flight, FlightOf
<1>4. NoneDropped /\ Order
  BY <1>2 DEF Init, NoneDropped, Order, Chans
<1>5. Hands
  BY <1>2 DEF Init, Hands, Workers
<1>6. Apart
  BY <1>2 DEF Init, Apart, NoDup
<1>7. Bounded
  <2>1. IsFiniteSet({}) /\ Cardinality({}) <= ConcurrencyCount
    BY FS_EmptySet
  <2> QED
    BY <1>2, <1>3, <2>1 DEF Bounded
<1>8. Fresh
  BY <1>2 DEF Init, Fresh, AgainOnlyAfterLoss
<1> QED
  BY <1>1, <1>4, <1>5, <1>6, <1>7, <1>8 DEF IInv
----------------------------------------------------------------------------
(* Nothing is under way on a channel that is still to come. *)
LEMMA NothingAhead ==
  ASSUME IInv, NEW d \in Flight
  PROVE  d[2] <= chans
<1>1. CASE d \in Library
  BY <1>1 DEF IInv, Library, Order, Deliveries, Chans, TypeOK
<1>2. ASSUME NEW c \in Chans, d \in dmsg[c] PROVE d[2] <= chans
  BY <1>2 DEF IInv, Hands, Order
<1>3. ASSUME NEW c \in Chans, d \in InQueue(c) PROVE d[2] <= chans
  BY <1>3 DEF IInv, Hands, Order
<1>4. ASSUME NEW w \in Workers, d \in wmsg[w] PROVE d[2] <= chans
  BY <1>4 DEF IInv, Order
<1> QED
  BY <1>1, <1>2, <1>3, <1>4 DEF Flight

(* Steps that move no delivery and tell the broker nothing. *)
LEMMA QuietStep ==
  ASSUME IInv, TypeOK', UNCHANGED <<buf, dmsg, workCh, wmsg, open, st, on, dropped, handled>>,
         \A w \in Workers : wpc'[w] = "handle" => wpc[w] = "handle"
  PROVE  NoneDropped' /\ Apart' /\ Bounded' /\ Fresh'
<1>1. /\ Library' = Library /\ Flight' = Flight /\ Apart'
      /\ \A c \in Chans : InQueue(c)' = InQueue(c)
  BY NothingMoved DEF IInv
<1>2. NoneDropped' /\ Bounded'
  BY <1>1, FlightDecides
<1>3. Fresh'
  BY <1>1 DEF IInv, Fresh, AgainOnlyAfterLoss
<1> QED
  BY <1>1, <1>2, <1>3

(* A new channel has a number of its own and no deliveries yet. *)
LEMMA ConsumeStep == IInv /\ Consume => IInv'
<1> SUFFICES ASSUME IInv, Consume PROVE IInv'
  OBVIOUS
<1> USE ConsumerAssumption DEF IInv
<1>1. chans + 1 \in Chans /\ chans' = chans + 1 /\ open' = {chans + 1} /\ open = {}
  BY DEF Consume, TypeOK, Chans
<1>2. TypeOK'
  BY <1>1 DEF Consume, goVars, TypeOK, Chans
<1>3. UNCHANGED <<buf, dmsg, workCh, wmsg, st, on, dropped, handled, dpc, dsrc, wpc, mqMessages>>
  BY DEF Consume, goVars
<1>4. /\ Library' = Library /\ Flight' = Flight /\ Apart'
      /\ \A c \in Chans : InQueue(c)' = InQueue(c) /\ FlightOf(c)' = FlightOf(c)
  BY <1>3, NothingMoved
<1>5. FlightOf(chans + 1) = {}
  BY <1>1, NothingAhead DEF FlightOf, TypeOK
<1>6. \A c \in Chans : Unsettled(c)' = {} /\ Unsettled(c) = {}
  BY <1>1, <1>3 DEF Unsettled, Order, TypeOK
<1>7. Bounded'
  BY <1>1, <1>4, <1>5, <1>6, LessIsBounded
<1>8. NoneDropped'
  BY <1>1, <1>6 DEF NoneDropped
<1>9. Hands'
  BY <1>3, <1>4 DEF Hands
<1>10. Order'
  <2>1. \A m \in Msgs : st[m] # "unacked"
    BY <1>1 DEF Order
  <2>2. \A c \in Chans : dsrc[c] <= chans + 1 /\ (c > chans + 1 => dpc[c] = "none" /\ buf[c] = {})
    BY DEF Order, TypeOK, Chans
  <2>3. \A w \in Workers : \A d \in wmsg[w] : d[2] <= chans + 1
    BY DEF Order, TypeOK, Deliveries, Chans
  <2>4. \A d \in handled : d[2] <= chans + 1
    BY DEF Order, TypeOK, Deliveries, Chans
  <2>5. mqMessages <= chans + 1 /\ chans + 1 # 0 /\ dpc[chans + 1] = "none"
    BY <1>1 DEF Order, TypeOK, Chans
  <2> QED
    BY <1>1, <1>3, <2>1, <2>2, <2>3, <2>4, <2>5 DEF Order
<1>11. Fresh'
  <2>1. \A d \in handled : d[2] # chans + 1
    BY DEF Order, TypeOK, Deliveries, Chans
  <2> QED
    BY <1>1, <1>3, <1>4, <2>1 DEF Fresh, AgainOnlyAfterLoss
<1> QED
  BY <1>2, <1>4, <1>7, <1>8, <1>9, <1>10, <1>11

(* The dispatcher and the workers of a channel are made once. *)
LEMMA InitConsumerStep == IInv /\ InitConsumer => IInv'
<1> SUFFICES ASSUME IInv, InitConsumer PROVE IInv'
  OBVIOUS
<1> USE ConsumerAssumption DEF IInv
<1>1. /\ UNCHANGED <<chans, buf, dmsg, workCh, wmsg, dsrc, open, ended, st, on, dropped, handled>>
      /\ chans \in Chans /\ dpc[chans] = "none" /\ mqMessages' = chans /\ link' = "up"
      /\ dpc' = [dpc EXCEPT ![chans] = "fresh"]
      /\ wpc' = [w \in Workers |-> IF w[1] = chans THEN "idle" ELSE wpc[w]]
  BY DEF InitConsumer, brokerVars, Order, TypeOK, Chans
<1>2. TypeOK'
  BY <1>1 DEF TypeOK
<1>3. NoneDropped' /\ Apart' /\ Bounded' /\ Fresh'
  BY <1>1, <1>2, QuietStep
<1>4. Hands'
  <2>1. \A c \in Chans : InQueue(c)' = InQueue(c)
    BY <1>1, NothingMoved
  <2>2. \A w \in Workers : w[1] \in Chans
    BY DEF Workers
  <2> QED
    BY <1>1, <2>1, <2>2 DEF Hands, TypeOK
<1>5. Order'
  BY <1>1 DEF Order, TypeOK, Chans
<1> QED
  BY <1>2, <1>3, <1>4, <1>5

(* The present channel ends: no other is open, so nothing is left that the *)
(* broker holds unsettled.                                                 *)
LEMMA ChannelEnds ==
  ASSUME IInv, chans \in Chans, EndChannel(chans),
         UNCHANGED <<chans, dpc, dsrc, dmsg, workCh, wpc, wmsg, handled>>,
         mqMessages' \in {0, mqMessages}, link' \in {"down", "consumed", "up"},
         link' = "consumed" => link = "consumed"
  PROVE  IInv'
<1> USE ConsumerAssumption DEF IInv
<1>1. open' = {} /\ UNCHANGED <<buf, ended>> /\ dropped' \subseteq dropped
  BY DEF EndChannel, Order
<1>2. TypeOK'
  <2>1. st' \in [Msgs -> {"ready", "unacked", "settled"}] /\ on' \in [Msgs -> 0..MaxChans]
    BY DEF EndChannel, TypeOK
  <2> QED
    BY <1>1, <2>1 DEF TypeOK
<1>3. /\ Library' = Library /\ Flight' = Flight /\ Apart'
      /\ \A c \in Chans : InQueue(c)' = InQueue(c) /\ FlightOf(c)' = FlightOf(c)
  BY <1>1, NothingMoved
<1>4. \A m \in Msgs : st'[m] # "unacked"
  BY DEF EndChannel, Unsettled, Order, TypeOK
<1>5. \A c \in Chans : Unsettled(c)' = {}
  BY <1>4 DEF Unsettled
<1>6. Bounded'
  BY <1>1, <1>3, <1>5, LessIsBounded
<1>7. NoneDropped'
  BY <1>1 DEF NoneDropped
<1>8. Hands'
  BY <1>3 DEF Hands
<1>9. Order'
  BY <1>1, <1>4 DEF Order, TypeOK, Chans
<1>10. Fresh'
  BY <1>1, <1>3 DEF Fresh, AgainOnlyAfterLoss
<1> QED
  BY <1>2, <1>3, <1>6, <1>7, <1>8, <1>9, <1>10

(* A dispatcher reads its source once, before it holds anything. *)
LEMMA DispatchBeginStep == ASSUME IInv, NEW c \in Chans, DispatchBegin(c) PROVE IInv'
<1> USE ConsumerAssumption DEF IInv
<1>1. /\ UNCHANGED <<chans, link, mqMessages, buf, dmsg, workCh, wpc, wmsg, open, ended, st, on,
                     dropped, handled>>
      /\ dpc[c] = "fresh" /\ dsrc' = [dsrc EXCEPT ![c] = mqMessages]
      /\ dpc' = [dpc EXCEPT ![c] = "range"]
  BY DEF DispatchBegin, linkVars, brokerVars
<1>2. TypeOK'
  BY <1>1 DEF TypeOK
<1>3. NoneDropped' /\ Apart' /\ Bounded' /\ Fresh'
  BY <1>1, <1>2, QuietStep
<1>4. Hands'
  <2>1. /\ \A e \in Chans : InQueue(e)' = InQueue(e)
        /\ InQueue(c) = {}
    BY <1>1, NothingMoved DEF InQueue, Hands
  <2>2. \A w \in Workers : w[1] \in Chans
    BY DEF Workers
  <2> QED
    BY <1>1, <2>1, <2>2 DEF Hands, TypeOK
<1>5. Order'
  BY <1>1 DEF Order, TypeOK, Chans
<1> QED
  BY <1>2, <1>3, <1>4, <1>5

(* A dispatcher ends with nothing in hand. *)
LEMMA DispatchEndStep == ASSUME IInv, NEW c \in Chans, DispatchEnd(c) PROVE IInv'
<1> USE ConsumerAssumption DEF IInv
<1>1. /\ UNCHANGED <<chans, link, mqMessages, dsrc, buf, dmsg, workCh, wpc, wmsg, open, ended,
                     st, on, dropped, handled>>
      /\ dpc[c] = "range" /\ dpc' = [dpc EXCEPT ![c] = "done"]
  BY DEF DispatchEnd, linkVars, brokerVars
<1>2. TypeOK'
  BY <1>1 DEF TypeOK
<1>3. NoneDropped' /\ Apart' /\ Bounded' /\ Fresh'
  BY <1>1, <1>2, QuietStep
<1>4. Hands'
  <2>1. \A e \in Chans : InQueue(e)' = InQueue(e)
    BY <1>1, NothingMoved
  <2>2. \A w \in Workers : w[1] \in Chans
    BY DEF Workers
  <2> QED
    BY <1>1, <2>1, <2>2 DEF Hands, TypeOK
<1>5. Order'
  BY <1>1 DEF Order, TypeOK, Chans
<1> QED
  BY <1>2, <1>3, <1>4, <1>5

(* A delivery goes from the library to one dispatcher. *)
LEMMA DispatchReceiveStep == ASSUME IInv, NEW c \in Chans, DispatchReceive(c) PROVE IInv'
<1> USE ConsumerAssumption DEF IInv
<1>1. /\ UNCHANGED <<chans, link, mqMessages, dsrc, workCh, wpc, wmsg, open, ended, st, on,
                     dropped, handled>>
      /\ dpc[c] = "range" /\ dpc' = [dpc EXCEPT ![c] = "send"] /\ dsrc[c] \in Chans
  BY DEF DispatchReceive, linkVars, TypeOK, Chans
<1>2. PICK m \in buf[dsrc[c]] : /\ buf' = [buf EXCEPT ![dsrc[c]] = @ \ {m}]
                                /\ dmsg' = [dmsg EXCEPT ![c] = {<<m, dsrc[c]>>}]
  BY DEF DispatchReceive
<1> DEFINE d == <<m, dsrc[c]>>
<1>3. d \in Deliveries /\ d \in Library /\ Library' = Library \ {d} /\ dmsg[c] = {} /\ d[2] = dsrc[c]
  <2>1. d \in Deliveries /\ d \in Library /\ dmsg[c] = {} /\ d[2] = dsrc[c]
    BY <1>1, <1>2 DEF TypeOK, Library, Deliveries, Hands
  <2>2. ASSUME NEW x \in Deliveries PROVE x \in Library' <=> x \in Library /\ x # d
    BY <1>1, <1>2 DEF TypeOK, Library, Deliveries
  <2> QED
    BY <2>1, <2>2 DEF Library
<1> HIDE DEF d
<1>4. dmsg' = [dmsg EXCEPT ![c] = {d}] /\ \A e \in Chans : InQueue(e)' = InQueue(e)
  BY <1>1, <1>2 DEF d, InQueue
<1>5. TypeOK'
  BY <1>1, <1>2, <1>3, <1>4 DEF TypeOK
<1>6. Flight' = Flight
  <2>1. \A e \in Chans : dmsg'[e] = IF e = c THEN {d} ELSE dmsg[e]
    BY <1>4 DEF TypeOK
  <2> QED
    BY <1>1, <1>3, <1>4, <2>1 DEF Flight
<1>7. Bounded' /\ NoneDropped'
  BY <1>1, <1>5, <1>6, FlightDecides
<1>8. Hands'
  BY <1>1, <1>3, <1>4 DEF Hands, TypeOK
<1>9. Order'
  BY <1>1, <1>2 DEF Order, TypeOK
<1>10. Apart'
  BY <1>1, <1>3, <1>4 DEF Apart, TypeOK
<1>11. Fresh'
  BY <1>1, <1>3, <1>4 DEF Fresh, AgainOnlyAfterLoss, TypeOK
<1> QED
  BY <1>5, <1>7, <1>8, <1>9, <1>10, <1>11

(* The queue has room, as the window bounds what is under way. *)
LEMMA DispatchSendStep == ASSUME IInv, NEW c \in Chans, DispatchSend(c) PROVE IInv'
<1> USE ConsumerAssumption DEF IInv
<1>1. /\ UNCHANGED <<chans, link, mqMessages, dsrc, buf, wpc, wmsg, open, ended, st, on, dropped,
                     handled>>
      /\ dpc[c] = "send" /\ dpc' = [dpc EXCEPT ![c] = "range"] /\ dmsg' = [dmsg EXCEPT ![c] = {}]
  BY DEF DispatchSend, linkVars, brokerVars
<1>2. PICK d \in Deliveries : d[2] = dsrc[c] /\ dmsg[c] = {d}
  BY <1>1 DEF Hands
<1>3. workCh' = [workCh EXCEPT ![c] = Append(workCh[c], d)] /\ workCh[c] \in Seq(Deliveries)
  BY <1>2 DEF DispatchSend, TypeOK
<1>4. d \notin Elems(workCh[c]) /\ NoDup(workCh[c])
  <2>1. InQueue(c) = Elems(workCh[c])
    BY DEF InQueue, Elems
  <2> QED
    BY <1>2, <2>1 DEF Apart
<1>5. /\ Append(workCh[c], d) \in Seq(Deliveries) /\ NoDup(Append(workCh[c], d))
      /\ Elems(Append(workCh[c], d)) = Elems(workCh[c]) \cup {d}
  BY <1>3, <1>4, QueueAppend
<1>6. /\ \A e \in Chans : InQueue(e)' = IF e = c THEN InQueue(c) \cup {d} ELSE InQueue(e)
      /\ \A e \in Chans : NoDup(workCh'[e])
      /\ \A e \in Chans : dmsg'[e] = IF e = c THEN {} ELSE dmsg[e]
  <2>1. \A e \in Chans : workCh'[e] = IF e = c THEN Append(workCh[c], d) ELSE workCh[e]
    BY <1>3 DEF TypeOK
  <2>2. \A e \in Chans : InQueue(e)' = Elems(workCh'[e]) /\ InQueue(e) = Elems(workCh[e])
    BY DEF InQueue, Elems
  <2> QED
    BY <1>1, <1>5, <2>1, <2>2 DEF TypeOK, Apart
<1>7. TypeOK'
  BY <1>1, <1>3, <1>5 DEF TypeOK
<1>8. Library' = Library /\ Flight' = Flight
  BY <1>1, <1>2, <1>6 DEF Flight, Library
<1>9. Bounded' /\ NoneDropped'
  BY <1>1, <1>7, <1>8, FlightDecides
<1>10. Hands'
  <2>1. \A w \in Workers : w[1] \in Chans
    BY DEF Workers
  <2> QED
    BY <1>1, <1>2, <1>3, <1>6, <2>1 DEF Hands, TypeOK
<1>11. Order'
  BY <1>1 DEF Order, TypeOK
<1>12. Apart'
  BY <1>1, <1>2, <1>6, <1>8 DEF Apart
<1>13. Fresh'
  BY <1>1, <1>2, <1>6, <1>8 DEF Fresh, AgainOnlyAfterLoss
<1> QED
  BY <1>7, <1>9, <1>10, <1>11, <1>12, <1>13

(* A delivery goes from the queue to one worker. *)
LEMMA WorkerTakeStep == ASSUME IInv, NEW w \in Workers, WorkerTake(w) PROVE IInv'
<1> USE ConsumerAssumption DEF IInv
<1> DEFINE c == w[1]
           d == Head(workCh[c])
<1>1. /\ UNCHANGED <<chans, link, mqMessages, dpc, dsrc, dmsg, buf, open, ended, st, on, dropped,
                     handled>>
      /\ wpc[w] = "idle" /\ wpc' = [wpc EXCEPT ![w] = "handle"] /\ c \in Chans
      /\ wmsg' = [wmsg EXCEPT ![w] = {d}] /\ workCh' = [workCh EXCEPT ![c] = Tail(workCh[c])]
      /\ workCh[c] # <<>> /\ workCh[c] \in Seq(Deliveries) /\ NoDup(workCh[c])
  BY DEF WorkerTake, linkVars, brokerVars, Workers, TypeOK, Apart
<1>2. /\ Elems(Tail(workCh[c])) = Elems(workCh[c]) \ {d} /\ d \in Elems(workCh[c])
      /\ Tail(workCh[c]) \in Seq(Deliveries) /\ NoDup(Tail(workCh[c])) /\ d \in Deliveries
  BY <1>1, QueueTail, HeadTailProperties
<1> HIDE DEF c, d
<1>3. /\ \A e \in Chans : InQueue(e)' = IF e = c THEN InQueue(c) \ {d} ELSE InQueue(e)
      /\ \A e \in Chans : NoDup(workCh'[e])
      /\ \A v \in Workers : wmsg'[v] = IF v = w THEN {d} ELSE wmsg[v]
      /\ d \in InQueue(c) /\ wmsg[w] = {}
  <2>1. \A e \in Chans : workCh'[e] = IF e = c THEN Tail(workCh[c]) ELSE workCh[e]
    BY <1>1 DEF TypeOK
  <2>2. \A e \in Chans : InQueue(e)' = Elems(workCh'[e]) /\ InQueue(e) = Elems(workCh[e])
    BY DEF InQueue, Elems
  <2>3. \A e \in Chans : NoDup(workCh'[e])
    BY <1>1, <1>2, <2>1 DEF Apart
  <2>4. \A v \in Workers : wmsg'[v] = IF v = w THEN {d} ELSE wmsg[v]
    BY <1>1 DEF TypeOK
  <2>5. \A e \in Chans : InQueue(e)' = IF e = c THEN InQueue(c) \ {d} ELSE InQueue(e)
    BY <1>1, <1>2, <2>1, <2>2
  <2>6. d \in InQueue(c) /\ wmsg[w] = {}
    BY <1>1, <1>2, <2>2 DEF Hands
  <2> QED
    BY <2>3, <2>4, <2>5, <2>6
<1>4. TypeOK'
  BY <1>1, <1>2 DEF TypeOK
<1>5. Library' = Library /\ Flight' = Flight
  BY <1>1, <1>3 DEF Flight, Library
<1>6. Bounded' /\ NoneDropped'
  BY <1>1, <1>4, <1>5, FlightDecides
<1>7. Hands'
  <2>1. \A v \in Workers : wpc'[v] = IF v = w THEN "handle" ELSE wpc[v]
    BY <1>1 DEF TypeOK
  <2>2. dpc[c] \notin {"none", "fresh"}
    BY <1>1 DEF Hands
  <2>3. \A e \in Chans : dpc[e] \in {"none", "fresh"} => workCh'[e] = <<>>
    BY <1>1, <2>2 DEF Hands, TypeOK
  <2> QED
    BY <1>1, <1>2, <1>3, <2>1, <2>2, <2>3 DEF Hands, c
<1>8. Order'
  <2>1. d[2] <= chans
    BY <1>1, <1>3 DEF Order, Hands
  <2> QED
    BY <1>1, <1>3, <2>1 DEF Order
<1>9. Apart'
  BY <1>1, <1>3, <1>5 DEF Apart
<1>10. Fresh'
  <2>1. d \notin handled
    BY <1>1, <1>3 DEF Fresh
  <2>2. \A v \in Workers : wpc'[v] = IF v = w THEN "handle" ELSE wpc[v]
    BY <1>1 DEF TypeOK
  <2>3. AgainOnlyAfterLoss'
    BY <1>1, <1>3, <2>1, <2>2 DEF Fresh, AgainOnlyAfterLoss
  <2> QED
    BY <1>1, <1>3, <1>5, <2>3 DEF Fresh
<1> QED
  BY <1>4, <1>6, <1>7, <1>8, <1>9, <1>10

(* What is under way on a channel that lives is unsettled at the broker. *)
LEMMA UnderWay ==
  ASSUME IInv, NEW d \in Flight, d[2] \in open
  PROVE  d[1] \in Unsettled(d[2])
<1>1. d \in Deliveries
  BY DEF Flight
<1>2. d = <<d[1], d[2]>> /\ d[1] \in Msgs /\ d[2] \in Chans
  BY <1>1 DEF Deliveries
<1>3. d[1] \in FlightOf(d[2])
  BY <1>2 DEF FlightOf
<1> QED
  BY <1>2, <1>3 DEF IInv, Bounded

(* A worker that lets go of its delivery, without (dropped) or with a word *)
(* to the broker, as far as the places are concerned.                      *)
LEMMA LetGo ==
  ASSUME IInv, NEW w \in Workers, NEW d \in Deliveries, wmsg[w] = {d},
         wpc' = [wpc EXCEPT ![w] = "idle"], wmsg' = [wmsg EXCEPT ![w] = {}],
         UNCHANGED <<chans, link, mqMessages, dpc, dsrc, dmsg, workCh, buf, open, ended>>
  PROVE  /\ Library' = Library /\ Flight' = Flight \ {d} /\ d \in Flight
         /\ \A c \in Chans : InQueue(c)' = InQueue(c)
         /\ \A v \in Workers : wmsg'[v] = IF v = w THEN {} ELSE wmsg[v]
         /\ \A v \in Workers : wpc'[v] = IF v = w THEN "idle" ELSE wpc[v]
         /\ Hands' /\ Apart'
<1> USE DEF IInv
<1>1. /\ Library' = Library
      /\ \A c \in Chans : InQueue(c)' = InQueue(c)
      /\ \A v \in Workers : wmsg'[v] = IF v = w THEN {} ELSE wmsg[v]
      /\ \A v \in Workers : wpc'[v] = IF v = w THEN "idle" ELSE wpc[v]
  BY DEF TypeOK, Library, InQueue
<1>2. d \notin Library /\ (\A c \in Chans : d \notin dmsg[c] /\ d \notin InQueue(c))
      /\ (\A v \in Workers : v # w => d \notin wmsg[v])
  BY DEF Apart
<1>3. Flight' = Flight \ {d} /\ d \in Flight
  BY <1>1, <1>2 DEF Flight
<1>4. Hands'
  BY <1>1 DEF Hands
<1>5. Apart'
  BY <1>1 DEF Apart
<1> QED
  BY <1>1, <1>3, <1>4, <1>5

(* A call that panics ends the delivery's way without a settlement. *)
LEMMA WorkerPanicStep == ASSUME IInv, NEW w \in Workers, WorkerPanic(w) PROVE IInv'
<1> USE ConsumerAssumption DEF IInv
<1>1. /\ UNCHANGED <<chans, link, mqMessages, dpc, dsrc, dmsg, workCh, buf, open, ended, st, on>>
      /\ wpc[w] = "handle" /\ wpc' = [wpc EXCEPT ![w] = "idle"] /\ wmsg' = [wmsg EXCEPT ![w] = {}]
  BY DEF WorkerPanic, linkVars, brokerVars
<1>2. PICK d \in Deliveries : wmsg[w] = {d}
  BY <1>1 DEF Hands
<1>3. handled' = handled \cup {d} /\ dropped' = dropped \cup {x \in {d} : x[2] \in open}
  BY <1>2 DEF WorkerPanic
<1>4. TypeOK'
  BY <1>1, <1>2, <1>3 DEF TypeOK
<1>5. /\ Library' = Library /\ Flight' = Flight \ {d} /\ d \in Flight /\ Hands' /\ Apart'
      /\ \A c \in Chans : InQueue(c)' = InQueue(c)
      /\ \A v \in Workers : wmsg'[v] = IF v = w THEN {} ELSE wmsg[v]
      /\ \A v \in Workers : wpc'[v] = IF v = w THEN "idle" ELSE wpc[v]
  BY <1>1, <1>2, LetGo
<1>6. Bounded' /\ NoneDropped'
  BY <1>1, <1>3, <1>4, <1>5, FlightDecides
<1>7. Order'
  BY <1>1, <1>2, <1>3, <1>5 DEF Order
<1>8. d[2] \in open => st[d[1]] = "unacked"
  BY <1>5, UnderWay DEF Unsettled
<1>9. Fresh'
  BY <1>1, <1>2, <1>3, <1>5, <1>8 DEF Fresh, AgainOnlyAfterLoss, Apart
<1> QED
  BY <1>4, <1>5, <1>6, <1>7, <1>9

(* The call returns: the delivery is handled, for the first time. *)
LEMMA WorkerHandleStep ==
  ASSUME IInv, NEW w \in Workers, NEW verdict \in {"true", "false"}, WorkerHandle(w, verdict)
  PROVE  IInv'
<1> USE ConsumerAssumption DEF IInv
<1>1. /\ UNCHANGED <<chans, link, mqMessages, dpc, dsrc, dmsg, workCh, wmsg, buf, open, ended,
                     st, on, dropped>>
      /\ wpc[w] = "handle" /\ wpc' = [wpc EXCEPT ![w] = verdict]
  BY DEF WorkerHandle, linkVars, brokerVars
<1>2. PICK d \in Deliveries : wmsg[w] = {d}
  BY <1>1 DEF Hands
<1>3. handled' = handled \cup {d}
  BY <1>2 DEF WorkerHandle
<1>4. TypeOK'
  BY <1>1, <1>3 DEF TypeOK
<1>5. /\ Library' = Library /\ Flight' = Flight /\ Apart'
      /\ \A c \in Chans : InQueue(c)' = InQueue(c)
      /\ \A v \in Workers : wpc'[v] = IF v = w THEN verdict ELSE wpc[v]
  BY <1>1, NothingMoved DEF TypeOK
<1>6. Bounded' /\ NoneDropped'
  BY <1>1, <1>4, <1>5, FlightDecides
<1>7. Order'
  BY <1>1, <1>2, <1>3 DEF Order
<1>8. Hands'
  BY <1>1, <1>5 DEF Hands
<1>9. d[2] \in open => st[d[1]] = "unacked"
  <2>1. d \in Flight
    BY <1>2 DEF Flight
  <2> QED
    BY <2>1, UnderWay DEF Unsettled
<1>10. Fresh'
  BY <1>1, <1>2, <1>3, <1>5, <1>9 DEF Fresh, AgainOnlyAfterLoss, Apart
<1> QED
  BY <1>4, <1>5, <1>6, <1>7, <1>8, <1>10

(* Ack or Nack reaches the broker only while the channel is open. *)
LEMMA WorkerSettleStep == ASSUME IInv, NEW w \in Workers, WorkerSettle(w) PROVE IInv'
<1> USE ConsumerAssumption DEF IInv
<1>1. /\ UNCHANGED <<chans, link, mqMessages, dpc, dsrc, dmsg, workCh, buf, open, ended, dropped,
                     handled>>
      /\ wpc[w] \in {"true", "false"} /\ wpc' = [wpc EXCEPT ![w] = "idle"]
      /\ wmsg' = [wmsg EXCEPT ![w] = {}]
  BY DEF WorkerSettle, linkVars
<1>2. PICK d \in Deliveries : wmsg[w] = {d}
  BY <1>1 DEF Hands
<1>3. IF d[1] \in Unsettled(d[2])
      THEN st' = [st EXCEPT ![d[1]] = "settled"] /\ on' = [on EXCEPT ![d[1]] = 0]
      ELSE UNCHANGED <<st, on>>
  BY <1>2 DEF WorkerSettle, Settled
<1>4. /\ Library' = Library /\ Flight' = Flight \ {d} /\ d \in Flight /\ Hands' /\ Apart'
      /\ \A c \in Chans : InQueue(c)' = InQueue(c)
      /\ \A v \in Workers : wmsg'[v] = IF v = w THEN {} ELSE wmsg[v]
      /\ \A v \in Workers : wpc'[v] = IF v = w THEN "idle" ELSE wpc[v]
  BY <1>1, <1>2, LetGo
<1>5. d = <<d[1], d[2]>> /\ d[1] \in Msgs /\ d[2] \in Chans
  BY DEF Deliveries
<1>6. TypeOK'
  <2>1. st' \in [Msgs -> {"ready", "unacked", "settled"}]
    BY <1>3, <1>5 DEF TypeOK
  <2>2. on' \in [Msgs -> 0..MaxChans]
    <3>1. 0 \in 0..MaxChans /\ on \in [Msgs -> 0..MaxChans]
      BY DEF TypeOK
    <3>2. on' = [on EXCEPT ![d[1]] = 0] \/ on' = on
      BY <1>3
    <3> QED
      BY <3>1, <3>2
  <2> QED
    BY <1>1, <2>1, <2>2 DEF TypeOK
<1>7. \A m \in Msgs : \/ st'[m] = st[m] /\ on'[m] = on[m]
                      \/ m = d[1] /\ m \in Unsettled(d[2]) /\ st'[m] = "settled" /\ on'[m] = 0
  BY <1>3, <1>5 DEF TypeOK
<1>8. \A c \in Chans : \A m \in Msgs :
        m \in Unsettled(c)' <=> m \in Unsettled(c) /\ <<m, c>> # d
  <2> SUFFICES ASSUME NEW c \in Chans, NEW m \in Msgs
               PROVE  m \in Unsettled(c)' <=> m \in Unsettled(c) /\ <<m, c>> # d
    OBVIOUS
  <2>1. CASE m = d[1] /\ m \in Unsettled(d[2]) /\ st'[m] = "settled" /\ on'[m] = 0
    BY <1>5, <2>1 DEF Unsettled
  <2>2. CASE st'[m] = st[m] /\ on'[m] = on[m]
    <3>1. <<m, c>> = d => m \notin Unsettled(c)
      <4>1. ASSUME <<m, c>> = d, m \in Unsettled(c) PROVE FALSE
        <5>1. d[1] \in Unsettled(d[2]) /\ d[1] = m
          BY <1>5, <4>1
        <5>2. st'[m] = "settled" /\ st[m] = "unacked"
          BY <1>3, <4>1, <5>1 DEF TypeOK, Unsettled
        <5> QED
          BY <2>2, <5>2
      <4> QED
        BY <4>1
    <3> QED
      BY <2>2, <3>1 DEF Unsettled
  <2> QED
    BY <1>7, <2>1, <2>2
<1>9. Bounded'
  <2>1. \A c \in Chans : /\ FlightOf(c)' \subseteq FlightOf(c)
                         /\ Unsettled(c)' \subseteq Unsettled(c)
    BY <1>4, <1>8 DEF FlightOf, Unsettled
  <2>2. \A c \in open' : FlightOf(c)' \subseteq Unsettled(c)'
    <3> SUFFICES ASSUME NEW c \in open, NEW m \in Msgs, <<m, c>> \in Flight, <<m, c>> # d
                 PROVE  m \in Unsettled(c)'
      BY <1>1, <1>4 DEF FlightOf
    <3>1. c \in Chans /\ m \in FlightOf(c)
      BY DEF FlightOf, TypeOK
    <3>2. m \in Unsettled(c)
      BY <3>1 DEF Bounded
    <3> QED
      BY <1>8, <3>1, <3>2
  <2> QED
    BY <2>1, <2>2, LessIsBounded
<1>10. NoneDropped'
  <2>1. \A c \in open : \A m \in Unsettled(c) : <<m, c>> \in Flight \cup dropped
    BY NoneDroppedIsFlight
  <2>2. \A c \in open' : \A m \in Unsettled(c)' : <<m, c>> \in Flight' \cup dropped'
    <3> SUFFICES ASSUME NEW c \in open, NEW m \in Unsettled(c)'
                 PROVE  <<m, c>> \in Flight' \cup dropped'
      BY <1>1
    <3>1. c \in Chans /\ m \in Msgs
      BY DEF TypeOK, Unsettled
    <3>2. m \in Unsettled(c) /\ <<m, c>> # d
      BY <1>8, <3>1
    <3> QED
      BY <1>1, <1>4, <2>1, <3>2
  <2> QED
    BY <1>6, <2>2, FlightTellsNext
<1>11. Order'
  <2>1. \A m \in Msgs : st'[m] = "unacked" => st[m] = "unacked" /\ on'[m] = on[m]
    BY <1>7
  <2> QED
    BY <1>1, <1>4, <2>1 DEF Order
<1>12. Fresh'
  <2>1. \A m \in Msgs : st'[m] = "ready" => st[m] = "ready"
    BY <1>7
  <2>2. \A x \in handled : x[1] \in Msgs
    BY DEF TypeOK, Deliveries
  <2> QED
    BY <1>1, <1>4, <2>1, <2>2 DEF Fresh, AgainOnlyAfterLoss
<1> QED
  BY <1>4, <1>6, <1>9, <1>10, <1>11, <1>12

(* A worker ends with nothing in hand. *)
LEMMA WorkerEndStep == ASSUME IInv, NEW w \in Workers, WorkerEnd(w) PROVE IInv'
<1> USE ConsumerAssumption DEF IInv
<1>1. /\ UNCHANGED <<chans, link, mqMessages, dpc, dsrc, dmsg, workCh, wmsg, buf, open, ended,
                     st, on, dropped, handled>>
      /\ wpc[w] = "idle" /\ wpc' = [wpc EXCEPT ![w] = "done"]
  BY DEF WorkerEnd, linkVars, brokerVars
<1>2. TypeOK' /\ (\A v \in Workers : wpc'[v] = IF v = w THEN "done" ELSE wpc[v])
  BY <1>1 DEF TypeOK
<1>3. NoneDropped' /\ Apart' /\ Bounded' /\ Fresh'
  BY <1>1, <1>2, QuietStep
<1>4. Hands'
  <2>1. \A c \in Chans : InQueue(c)' = InQueue(c)
    BY <1>1, NothingMoved
  <2> QED
    BY <1>1, <1>2, <2>1 DEF Hands
<1>5. Order'
  BY <1>1 DEF Order
<1> QED
  BY <1>2, <1>3, <1>4, <1>5

(* The broker delivers as far as the window goes, and a message that is    *)
(* not unsettled on another channel.                                       *)
LEMMA DeliverStep == ASSUME IInv, NEW m \in Msgs, Deliver(m) PROVE IInv'
<1> USE ConsumerAssumption DEF IInv
<1>1. /\ UNCHANGED <<chans, link, mqMessages, dpc, dsrc, dmsg, workCh, wpc, wmsg, open, ended,
                     dropped, handled>>
      /\ st[m] = "ready"
  BY DEF Deliver, linkVars, goVars
<1>2. PICK c \in open : /\ Cardinality(Unsettled(c)) < ConcurrencyCount
                        /\ st' = [st EXCEPT ![m] = "unacked"]
                        /\ on' = [on EXCEPT ![m] = c]
                        /\ buf' = [buf EXCEPT ![c] = @ \cup {m}]
  BY DEF Deliver, Window
<1>3. c \in Chans /\ c = chans
  BY DEF TypeOK, Order
<1> DEFINE d == <<m, c>>
<1>4. d \in Deliveries /\ d[1] = m /\ d[2] = c
  BY <1>3 DEF Deliveries
<1>5. TypeOK'
  <2>1. /\ st' \in [Msgs -> {"ready", "unacked", "settled"}] /\ on' \in [Msgs -> 0..MaxChans]
        /\ buf' \in [Chans -> SUBSET Msgs]
    BY <1>2, <1>3 DEF TypeOK, Chans
  <2> QED
    BY <1>1, <2>1 DEF TypeOK
<1>6. /\ \A x \in Msgs : st'[x] = IF x = m THEN "unacked" ELSE st[x]
      /\ \A x \in Msgs : on'[x] = IF x = m THEN c ELSE on[x]
      /\ \A e \in Chans : buf'[e] = IF e = c THEN buf[c] \cup {m} ELSE buf[e]
      /\ \A e \in Chans : InQueue(e)' = InQueue(e)
  BY <1>1, <1>2 DEF TypeOK, InQueue
<1>7. m \notin Unsettled(c)
  BY <1>1 DEF Unsettled
<1>8. d \notin Flight /\ d \notin handled
  <2>1. d \notin Flight
    BY <1>4, <1>7, UnderWay
  <2>2. d \notin handled
    BY <1>1, <1>4 DEF Fresh
  <2> QED
    BY <2>1, <2>2
<1>9. Library' = Library \cup {d}
  <2>1. ASSUME NEW x \in Deliveries PROVE x \in Library' <=> x \in Library \/ x = d
    <3>1. x = <<x[1], x[2]>> /\ x[1] \in Msgs /\ x[2] \in Chans
      BY DEF Deliveries
    <3> QED
      BY <1>6, <1>4, <3>1 DEF Library
  <2> QED
    BY <1>4, <2>1 DEF Library
<1> HIDE DEF d
<1>10. Flight' = Flight \cup {d}
  BY <1>1, <1>4, <1>6, <1>9 DEF Flight
<1>11. /\ d \notin Library /\ (\A e \in Chans : d \notin dmsg[e] /\ d \notin InQueue(e))
       /\ \A v \in Workers : d \notin wmsg[v]
  BY <1>4, <1>8 DEF Flight
<1>12. \A e \in Chans : /\ Unsettled(e)' = IF e = c THEN Unsettled(c) \cup {m} ELSE Unsettled(e)
                        /\ FlightOf(e)' = IF e = c THEN FlightOf(c) \cup {m} ELSE FlightOf(e)
  <2>1. ASSUME NEW e \in Chans, NEW x \in Msgs
        PROVE  x \in Unsettled(e)' <=> x \in Unsettled(e) \/ (e = c /\ x = m)
    BY <1>1, <1>6 DEF Unsettled
  <2>2. ASSUME NEW e \in Chans, NEW x \in Msgs
        PROVE  x \in FlightOf(e)' <=> x \in FlightOf(e) \/ (e = c /\ x = m)
    BY <1>10 DEF FlightOf, d
  <2>3. \A e \in Chans : /\ Unsettled(e) \subseteq Msgs /\ Unsettled(e)' \subseteq Msgs
                         /\ FlightOf(e) \subseteq Msgs /\ FlightOf(e)' \subseteq Msgs
    BY DEF Unsettled, FlightOf
  <2>4. ASSUME NEW e \in Chans
        PROVE  Unsettled(e)' = IF e = c THEN Unsettled(c) \cup {m} ELSE Unsettled(e)
    BY <2>1, <2>3
  <2>5. ASSUME NEW e \in Chans
        PROVE  FlightOf(e)' = IF e = c THEN FlightOf(c) \cup {m} ELSE FlightOf(e)
    BY <2>2, <2>3
  <2> QED
    BY <2>4, <2>5
<1>13. Bounded'
  <2>1. /\ IsFiniteSet(Unsettled(c) \cup {m})
        /\ Cardinality(Unsettled(c) \cup {m}) = Cardinality(Unsettled(c)) + 1
    BY <1>3, <1>7, FS_AddElement DEF Bounded
  <2>2. Cardinality(Unsettled(c)) \in Nat
    BY <1>3, FS_CardinalityType DEF Bounded
  <2>3. Cardinality(Unsettled(c) \cup {m}) <= ConcurrencyCount
    BY <1>2, <2>1, <2>2
  <2>4. FlightOf(c) \cup {m} \subseteq Unsettled(c) \cup {m}
    BY <1>3 DEF Bounded
  <2>5. /\ IsFiniteSet(FlightOf(c) \cup {m})
        /\ Cardinality(FlightOf(c) \cup {m}) <= Cardinality(Unsettled(c) \cup {m})
    BY <2>1, <2>4, FS_Subset
  <2>6. Cardinality(FlightOf(c) \cup {m}) <= ConcurrencyCount
    BY <2>1, <2>3, <2>5, FS_CardinalityType
  <2> SUFFICES ASSUME NEW e \in Chans
               PROVE  /\ IsFiniteSet(Unsettled(e)')
                      /\ Cardinality(Unsettled(e)') <= ConcurrencyCount
                      /\ IsFiniteSet(FlightOf(e)') /\ Cardinality(FlightOf(e)') <= ConcurrencyCount
                      /\ e \in open' => FlightOf(e)' \subseteq Unsettled(e)'
    BY DEF Bounded
  <2>7. CASE e = c
    <3>1. Unsettled(e)' = Unsettled(c) \cup {m} /\ FlightOf(e)' = FlightOf(c) \cup {m}
      BY <1>12, <2>7
    <3> QED
      BY <2>1, <2>3, <2>4, <2>5, <2>6, <3>1
  <2>8. CASE e # c
    <3>1. Unsettled(e)' = Unsettled(e) /\ FlightOf(e)' = FlightOf(e)
      BY <1>12, <2>8
    <3> QED
      BY <1>1, <3>1 DEF Bounded
  <2> QED
    BY <2>7, <2>8
<1>14. NoneDropped'
  <2>1. \A e \in open : \A x \in Unsettled(e) : <<x, e>> \in Flight \cup dropped
    BY NoneDroppedIsFlight
  <2>2. \A e \in open' : \A x \in Unsettled(e)' : <<x, e>> \in Flight' \cup dropped'
    <3> SUFFICES ASSUME NEW e \in open, NEW x \in Unsettled(e)'
                 PROVE  <<x, e>> \in Flight' \cup dropped'
      BY <1>1
    <3>1. e \in Chans
      BY DEF TypeOK
    <3>2. x \in Unsettled(e) \/ <<x, e>> = d
      BY <1>12, <3>1 DEF d
    <3> QED
      BY <1>1, <1>10, <2>1, <3>2
  <2> QED
    BY <1>5, <2>2, FlightTellsNext
<1>15. Hands'
  BY <1>1, <1>6 DEF Hands
<1>16. Order'
  <2>1. \A e \in Chans : e > chans => buf'[e] = {}
    BY <1>3, <1>6 DEF Order, TypeOK, Chans
  <2> QED
    BY <1>1, <1>2, <1>6, <2>1 DEF Order
<1>17. Apart'
  BY <1>1, <1>6, <1>9, <1>11 DEF Apart
<1>18. Fresh'
  <2>1. \A x \in handled : x[1] \in Msgs
    BY DEF TypeOK, Deliveries
  <2> QED
    BY <1>1, <1>6, <1>8, <1>9, <2>1 DEF Fresh, AgainOnlyAfterLoss
<1> QED
  BY <1>5, <1>13, <1>14, <1>15, <1>16, <1>17, <1>18

(* The library drops what was not received of a channel that has ended. *)
LEMMA LibraryCloseStep == ASSUME IInv, NEW c \in Chans, LibraryClose(c) PROVE IInv'
<1> USE ConsumerAssumption DEF IInv
<1>1. /\ UNCHANGED <<chans, link, mqMessages, dpc, dsrc, dmsg, workCh, wpc, wmsg, open, st, on,
                     dropped, handled>>
      /\ c \notin open /\ ended' = ended \cup {c} /\ buf' = [buf EXCEPT ![c] = {}]
  BY DEF LibraryClose, linkVars, goVars
<1>2. TypeOK'
  BY <1>1 DEF TypeOK
<1>3. /\ \A e \in Chans : buf'[e] = IF e = c THEN {} ELSE buf[e]
      /\ \A e \in Chans : InQueue(e)' = InQueue(e)
  BY <1>1 DEF TypeOK, InQueue
<1>4. Library' \subseteq Library /\ \A d \in Library \ Library' : d[2] = c
  <2>1. ASSUME NEW x \in Deliveries
        PROVE  (x \in Library' => x \in Library) /\ (x \in Library /\ x \notin Library' => x[2] = c)
    <3>1. x[2] \in Chans
      BY DEF Deliveries
    <3> QED
      BY <1>3, <3>1 DEF Library
  <2> QED
    BY <2>1 DEF Library
<1>5. Flight' \subseteq Flight /\ \A d \in Flight \ Flight' : d[2] = c
  BY <1>1, <1>3, <1>4 DEF Flight
<1>6. Bounded' /\ NoneDropped'
  BY <1>1, <1>2, <1>5, FlightDecides
<1>7. Hands'
  BY <1>1, <1>3 DEF Hands
<1>8. Order'
  BY <1>1, <1>3 DEF Order
<1>9. Apart'
  BY <1>1, <1>3, <1>4 DEF Apart
<1>10. Fresh'
  BY <1>1, <1>3, <1>4 DEF Fresh, AgainOnlyAfterLoss
<1> QED
  BY <1>2, <1>6, <1>7, <1>8, <1>9, <1>10
----------------------------------------------------------------------------
(* IInv is inductive, the loss of a channel included. *)
LEMMA NextIInv == IInv /\ [Next]_vars => IInv'
<1> SUFFICES ASSUME IInv, [Next]_vars PROVE IInv'
  OBVIOUS
<1>1. CASE CloseConn
  <2>1. chans \in Chans /\ link \in {"down", "consumed", "up"}
    BY <1>1, ConsumerAssumption DEF CloseConn, IInv, TypeOK, Chans
  <2> QED
    BY <1>1, <2>1, ChannelEnds DEF CloseConn
<1>2. ASSUME NEW c \in Chans, ChannelLost(c) PROVE IInv'
  <2>1. c = chans /\ link \in {"down", "consumed", "up"}
    BY <1>2 DEF ChannelLost, IInv, Order, TypeOK
  <2> QED
    BY <1>2, <2>1, ChannelEnds DEF ChannelLost, linkVars
<1>3. ASSUME NEW w \in Workers, Work(w) PROVE IInv'
  BY <1>3, WorkerTakeStep, WorkerPanicStep, WorkerSettleStep, WorkerEndStep, WorkerHandleStep
     DEF Work
<1>4. ASSUME NEW c \in Chans, Dispatch(c) PROVE IInv'
  BY <1>4, DispatchBeginStep, DispatchReceiveStep, DispatchSendStep, DispatchEndStep DEF Dispatch
<1>5. CASE UNCHANGED vars
  <2>1. /\ UNCHANGED <<chans, link, mqMessages, dpc, dsrc, dmsg, workCh, wpc, wmsg, open, buf,
                       ended, st, on>>
        /\ UNCHANGED <<dropped, handled>>
    BY <1>5 DEF vars, linkVars, goVars, brokerVars
  <2>2. TypeOK'
    BY <2>1 DEF IInv, TypeOK
  <2>3. NoneDropped' /\ Apart' /\ Bounded' /\ Fresh' /\ \A c \in Chans : InQueue(c)' = InQueue(c)
    BY <2>1, <2>2, QuietStep, NothingMoved DEF IInv
  <2>4. Hands' /\ Order'
    BY <2>1, <2>3 DEF IInv, Hands, Order
  <2> QED
    BY <2>2, <2>3, <2>4 DEF IInv
<1> QED
  BY <1>1, <1>2, <1>3, <1>4, <1>5, ConsumeStep, InitConsumerStep, LibraryCloseStep, DeliverStep
     DEF Next

(* The delivery in the dispatcher's hand and those in workCh are distinct  *)
(* deliveries of one channel: with the one in hand, no more than the       *)
(* window.                                                                 *)
LEMMA NeverWaits == IInv => DispatcherNeverWaits
<1> SUFFICES ASSUME IInv, NEW c \in Chans, dpc[c] = "send" PROVE Len(workCh[c]) < ConcurrencyCount
  BY DEF DispatcherNeverWaits
<1> USE ConsumerAssumption DEF IInv
<1> DEFINE n == Len(workCh[c])
           e == dsrc[c]
           q == workCh[c]
<1>1. q \in Seq(Deliveries) /\ n \in Nat /\ \A i \in 1..n : q[i] \in Deliveries
  BY DEF TypeOK
<1>2. PICK d \in Deliveries : d[2] = e /\ dmsg[c] = {d}
  BY DEF Hands
<1>3. d = <<d[1], e>> /\ d[1] \in Msgs /\ e \in Chans /\ d \in Flight
  BY <1>2 DEF Deliveries, Flight
<1>4. \A i \in 1..n : q[i] \in InQueue(c) /\ q[i] \in Flight /\ q[i] # d
  BY <1>1, <1>2 DEF InQueue, Flight, Apart
<1>5. \A i \in 1..n : q[i] = <<q[i][1], e>> /\ q[i][1] \in Msgs
  BY <1>1, <1>4 DEF Hands, Deliveries
<1>6. \A i, j \in 1..n : q[i] = q[j] => i = j
  BY DEF Apart, NoDup
<1> DEFINE f == [i \in 1..n |-> q[i][1]]
           S == FlightOf(e) \ {d[1]}
<1>7. d[1] \in FlightOf(e) /\ IsFiniteSet(FlightOf(e)) /\ Cardinality(FlightOf(e)) <= ConcurrencyCount
  BY <1>3 DEF FlightOf, Bounded
<1>8. IsFiniteSet(S) /\ Cardinality(S) = Cardinality(FlightOf(e)) - 1
  BY <1>7, FS_RemoveElement
<1>9. \A i \in 1..n : q[i][1] \in S
  BY <1>3, <1>4, <1>5 DEF FlightOf
<1> HIDE DEF S, n, q, e
<1>10. f \in Injection(1..n, S)
  <2>1. f \in [1..n -> S]
    BY <1>9
  <2>2. \A i, j \in 1..n : f[i] = f[j] => i = j
    BY <1>5, <1>6
  <2> QED
    BY <2>1, <2>2, Fun_IsInj
<1>11. IsFiniteSet(1..n) /\ Cardinality(1..n) = n
  BY <1>1, FS_Interval
<1>12. n <= Cardinality(S)
  BY <1>8, <1>10, <1>11, FS_Injection
<1> QED
  BY <1>1, <1>7, <1>8, <1>12, FS_CardinalityType DEF n

(* Deliveries pass from the library to the workers without one being lost  *)
(* and without the dispatcher having to wait (rabbitMQ.go:392-424).        *)
THEOREM InvAlways == Spec => []Inv
<1>1. IInv => Inv
  BY NeverWaits DEF IInv, Inv
<1> QED
  BY <1>1, InitIInv, NextIInv, PTL DEF Spec

(* consumerFunction is called at most once for a delivery                  *)
(* (rabbitMQ.go:394-414).                                                  *)
THEOREM AgainOnlyAfterLossAlways == Spec => []AgainOnlyAfterLoss
<1>1. IInv => AgainOnlyAfterLoss
  BY DEF IInv, Fresh
<1> QED
  BY <1>1, InitIInv, NextIInv, PTL DEF Spec
=============================================================================
