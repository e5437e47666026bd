---------------------------- MODULE MemCacheTTL ----------------------------
(***************************************************************************)
(* cache/memcachettl: a map with a time to live per entry, an expiry heap  *)
(* that finds the entries to evict, and a reaper goroutine that Start and  *)
(* Stop control.                                                           *)
(*                                                                         *)
(* A section under c.mu or c.reaperMu is one step; what the code does      *)
(* between two such sections of one call (Get between RUnlock and Lock,    *)
(* Stop between Unlock, close(done) and wg.Wait) is a separate step of the *)
(* calling goroutine.  The heap is the set of its elements: popping the    *)
(* least element while it is due removes exactly the elements that are     *)
(* due.  A done channel is the number of the Start that made it, 0 is nil. *)
(***************************************************************************)
EXTENDS Integers, FiniteSets

CONSTANTS
  Keys, Values,
  TTLs,        \* the durations callers pass to Set, in clock ticks
  Limits,      \* the limits callers pass to SetMaxEntries
  Callers,     \* goroutines that call Get, GetAll and Stop
  NoItem,      \* a key the map does not hold, an answer that is not found
  MaxTime, MaxSeq, MaxStarts   \* bounds on the clock, on Set and on Start

Item == [value: Values, expiration: Int, seq: Nat]
HeapEntry == [key: Keys, expiry: Int, seq: Nat]

ASSUME CacheAssumption ==
  /\ IsFiniteSet(Keys)
  /\ TTLs \subseteq Int /\ Limits \subseteq Int
  /\ NoItem \notin Item /\ NoItem \notin Values
  /\ NoItem \notin [value: Values, expiration: Int]
  /\ MaxTime \in Nat /\ MaxSeq \in Nat /\ MaxStarts \in Nat \ {0}

VARIABLES
  items, expiryHeap, nextSeq, maxEntries,   \* under c.mu
  done, stopped,                            \* under c.reaperMu
  starts,    \* done channels made so far
  closed,    \* done channels that are closed
  reapers,   \* the reap goroutines that run, named by their channel (c.wg)
  now,       \* time.Now()
  pc,        \* where each caller is: see CallState
  todo,      \* the keys its Get or GetAll still has to look up
  got,       \* what its last lookup returned
  held       \* the channel its Stop took out of c.done

dataVars == <<items, expiryHeap, nextSeq, maxEntries>>
reapVars == <<done, stopped, starts, closed, reapers>>
callVars == <<pc, todo, got, held>>
vars == <<dataVars, reapVars, callVars, now>>

(* idle; get: a lookup of some key of todo is next; <<"recheck", k>>: found *)
(* k expired under the read lock, about to take the write lock; close and  *)
(* wait: in Stop, before close(done) and before the return of wg.Wait.     *)
CallState == ({"idle", "get", "close", "wait"} \X {NoItem}) \cup ({"recheck"} \X Keys)

Idle == <<"idle", NoItem>>
Getting == <<"get", NoItem>>
Closing == <<"close", NoItem>>
Waiting == <<"wait", NoItem>>
Recheck(k) == <<"recheck", k>>

Present(its) == {k \in Keys : its[k] # NoItem}

----------------------------------------------------------------------------
(* NewCache: an empty map, and the first Start. *)
Init ==
  /\ items = [k \in Keys |-> NoItem]
  /\ expiryHeap = {}
  /\ nextSeq = 0
  /\ maxEntries = 0
  /\ done = 1 /\ stopped = FALSE
  /\ starts = 1 /\ closed = {} /\ reapers = {1}
  /\ now = 0
  /\ pc = [p \in Callers |-> Idle]
  /\ todo = [p \in Callers |-> {}]
  /\ got = [p \in Callers |-> NoItem]
  /\ held = [p \in Callers |-> 0]

(* Fault: the instant itself is not yet due. *)
DueLate(e) == e.expiry < now

(* popExpiredLocked: what is left of the heap and of the map. *)
Due(e) == e.expiry <= now

PoppedHeap == {e \in expiryHeap : ~Due(e)}

SameItem(e, k) ==
  e.key = k /\ e.seq = items[k].seq /\ e.expiry = items[k].expiration

PoppedItems ==
  [k \in Keys |-> IF items[k] # NoItem /\ \E e \in expiryHeap : Due(e) /\ SameItem(e, k)
                  THEN NoItem ELSE items[k]]

(* Fault: off by one. *)
FullLate(its) == Cardinality(Present(its)) > maxEntries

(* Set: a key the map does not hold meets the limit, popExpiredLocked makes *)
(* room, and the entry is skipped when the map is full all the same.        *)
Full(its) == Cardinality(Present(its)) >= maxEntries

MustMakeRoom(k) == maxEntries > 0 /\ items[k] = NoItem /\ Full(items)

(* Fault: an overwrite does not push its own heap element. *)
StoreNoPush(k, v, ttl, its, heap) ==
  /\ nextSeq' = nextSeq + 1
  /\ items' = [its EXCEPT ![k] = [value |-> v, expiration |-> now + ttl, seq |-> nextSeq']]
  /\ expiryHeap' = IF items[k] # NoItem THEN heap
                   ELSE heap \cup {[key |-> k, expiry |-> now + ttl, seq |-> nextSeq']}
  /\ UNCHANGED <<maxEntries, reapVars, callVars, now>>

Store(k, v, ttl, its, heap) ==
  /\ nextSeq' = nextSeq + 1
  /\ items' = [its EXCEPT ![k] = [value |-> v, expiration |-> now + ttl, seq |-> nextSeq']]
  /\ expiryHeap' = heap \cup {[key |-> k, expiry |-> now + ttl, seq |-> nextSeq']}
  /\ UNCHANGED <<maxEntries, reapVars, callVars, now>>

Set(k, v, ttl) ==
  /\ nextSeq < MaxSeq
  /\ \/ ~MustMakeRoom(k) /\ Store(k, v, ttl, items, expiryHeap)
     \/ /\ MustMakeRoom(k) /\ ~Full(PoppedItems)
        /\ Store(k, v, ttl, PoppedItems, PoppedHeap)

PopExpired ==
  /\ items' = PoppedItems
  /\ expiryHeap' = PoppedHeap
  /\ UNCHANGED <<nextSeq, maxEntries, reapVars, callVars, now>>

SetSkipped(k) ==
  /\ MustMakeRoom(k) /\ Full(PoppedItems)
  /\ PopExpired

SetMaxEntries(n) ==
  /\ maxEntries' = n
  /\ UNCHANGED <<items, expiryHeap, nextSeq, reapVars, callVars, now>>

Delete(k) ==
  /\ items' = [items EXCEPT ![k] = NoItem]
  /\ UNCHANGED <<expiryHeap, nextSeq, maxEntries, reapVars, callVars, now>>

CheckTTL == PopExpired

----------------------------------------------------------------------------
(* Get and GetAll. *)
GetBegin(p, k) ==
  /\ pc[p] = Idle
  /\ pc' = [pc EXCEPT ![p] = Getting]
  /\ todo' = [todo EXCEPT ![p] = {k}]
  /\ UNCHANGED <<dataVars, reapVars, got, held, now>>

GetAllBegin(p) ==
  /\ pc[p] = Idle
  /\ pc' = [pc EXCEPT ![p] = Getting]
  /\ todo' = [todo EXCEPT ![p] = Present(items)]
  /\ UNCHANGED <<dataVars, reapVars, got, held, now>>

Expired(item) == now > item.expiration

(* The read-locked section of Get. *)
GetRead(p, k) ==
  /\ pc[p] = Getting /\ k \in todo[p]
  /\ todo' = [todo EXCEPT ![p] = @ \ {k}]
  /\ IF items[k] # NoItem /\ Expired(items[k])
     THEN /\ pc' = [pc EXCEPT ![p] = Recheck(k)]
          /\ UNCHANGED got
     ELSE /\ got' = [got EXCEPT ![p] = IF items[k] = NoItem THEN NoItem ELSE items[k].value]
          /\ UNCHANGED pc
  /\ UNCHANGED <<dataVars, reapVars, held, now>>

(* Fault: the item is deleted without a second look at its instant. *)
GetNoRecheck(p, k) ==
  /\ pc[p] = Recheck(k)
  /\ pc' = [pc EXCEPT ![p] = Getting]
  /\ got' = [got EXCEPT ![p] = NoItem]
  /\ items' = [items EXCEPT ![k] = NoItem]
  /\ UNCHANGED <<expiryHeap, nextSeq, maxEntries, reapVars, todo, held, now>>

(* The write-locked section of Get, on the item that is there by then. *)
GetRecheck(p, k) ==
  /\ pc[p] = Recheck(k)
  /\ pc' = [pc EXCEPT ![p] = Getting]
  /\ IF items[k] # NoItem /\ ~Expired(items[k])
     THEN /\ got' = [got EXCEPT ![p] = items[k].value]
          /\ UNCHANGED items
     ELSE /\ got' = [got EXCEPT ![p] = NoItem]
          /\ items' = [items EXCEPT ![k] = NoItem]
  /\ UNCHANGED <<expiryHeap, nextSeq, maxEntries, reapVars, todo, held, now>>

GetEnd(p) ==
  /\ pc[p] = Getting /\ todo[p] = {}
  /\ pc' = [pc EXCEPT ![p] = Idle]
  /\ UNCHANGED <<dataVars, reapVars, todo, got, held, now>>

----------------------------------------------------------------------------
(* The reaper and its life cycle. *)
Start ==
  /\ done = 0 /\ starts < MaxStarts
  /\ starts' = starts + 1
  /\ done' = starts'
  /\ stopped' = FALSE
  /\ reapers' = reapers \cup {starts'}
  /\ UNCHANGED <<dataVars, closed, callVars, now>>

Stop(p) ==
  /\ pc[p] = Idle /\ ~stopped
  /\ stopped' = TRUE
  /\ held' = [held EXCEPT ![p] = done]
  /\ done' = 0
  /\ pc' = [pc EXCEPT ![p] = Closing]
  /\ UNCHANGED <<dataVars, starts, closed, reapers, todo, got, now>>

StopClose(p) ==
  /\ pc[p] = Closing
  /\ closed' = closed \cup ({held[p]} \ {0})
  /\ held' = [held EXCEPT ![p] = 0]
  /\ pc' = [pc EXCEPT ![p] = Waiting]
  /\ UNCHANGED <<dataVars, done, stopped, starts, reapers, todo, got, now>>

StopReturn(p) ==
  /\ pc[p] = Waiting /\ reapers = {}
  /\ pc' = [pc EXCEPT ![p] = Idle]
  /\ UNCHANGED <<dataVars, reapVars, todo, got, held, now>>

(* Fault: the reaper wakes up and pops nothing. *)
ReapNothing(g) == g \in reapers /\ UNCHANGED vars

(* select chooses freely between a closed done and a tick that is due. *)
ReapTick(g) == g \in reapers /\ PopExpired

ReapExit(g) ==
  /\ g \in reapers \cap closed
  /\ reapers' = reapers \ {g}
  /\ UNCHANGED <<dataVars, done, stopped, starts, closed, callVars, now>>

Tick ==
  /\ now < MaxTime
  /\ now' = now + 1
  /\ UNCHANGED <<dataVars, reapVars, callVars>>

Next ==
  \/ \E k \in Keys, v \in Values, ttl \in TTLs : Set(k, v, ttl)
  \/ \E k \in Keys : SetSkipped(k)
  \/ \E n \in Limits : SetMaxEntries(n)
  \/ \E k \in Keys : Delete(k)
  \/ CheckTTL
  \/ \E p \in Callers, k \in Keys : GetBegin(p, k)
  \/ \E p \in Callers : GetAllBegin(p)
  \/ \E p \in Callers, k \in Keys : GetRead(p, k)
  \/ \E p \in Callers, k \in Keys : GetRecheck(p, k)
  \/ \E p \in Callers : GetEnd(p)
  \/ Start
  \/ \E p \in Callers : Stop(p)
  \/ \E p \in Callers : StopClose(p)
  \/ \E p \in Callers : StopReturn(p)
  \/ \E g \in 1..MaxStarts : ReapTick(g)
  \/ \E g \in 1..MaxStarts : ReapExit(g)
  \/ Tick

Spec == Init /\ [][Next]_vars

(* The Go scheduler runs every runnable goroutine, the ticker keeps ticking *)
(* and a select does not pass over a closed channel for ever.               *)
Fairness ==
  /\ \A g \in 1..MaxStarts : WF_vars(ReapTick(g)) /\ WF_vars(ReapExit(g))
  /\ \A p \in Callers : WF_vars(StopClose(p)) /\ WF_vars(StopReturn(p))

FairSpec == Spec /\ Fairness
----------------------------------------------------------------------------
TypeOK ==
  /\ items \in [Keys -> Item \cup {NoItem}]
  /\ expiryHeap \in SUBSET HeapEntry
  /\ nextSeq \in Nat /\ maxEntries \in Int /\ now \in Nat
  /\ done \in Nat /\ stopped \in BOOLEAN /\ starts \in Nat
  /\ closed \in SUBSET Nat /\ reapers \in SUBSET Nat
  /\ pc \in [Callers -> CallState]
  /\ todo \in [Callers -> SUBSET Keys]
  /\ got \in [Callers -> Values \cup {NoItem}]
  /\ held \in [Callers -> Nat]

(* Every entry of the map is known to the heap under its own sequence      *)
(* number and instant, whatever overwrites, deletes, lazy evictions and    *)
(* pops came before: popExpiredLocked reaches each entry, none can stay in *)
(* the map for ever (memCacheTTL.go:128-131 against 148-156).              *)
HeapTracksItems ==
  \A k \in Keys : items[k] # NoItem =>
    [key |-> k, expiry |-> items[k].expiration, seq |-> items[k].seq] \in expiryHeap

(* No sequence number is given out twice or ahead of the counter, so a heap *)
(* element left behind by an overwrite can never pass for the present item. *)
SeqsIdentify ==
  /\ \A e \in expiryHeap : e.seq \in 1..nextSeq
  /\ \A e, f \in expiryHeap : e.seq = f.seq => e = f

(* An entry whose instant has not come leaves the map only by Delete: not  *)
(* by a pop of a heap element that an overwrite made stale, nor by a Get   *)
(* that saw the key's previous, expired item before it took the write lock *)
(* (memCacheTTL.go:163-183).                                               *)
OnlyExpiredVanish ==
  [][\A k \in Keys : items[k] # NoItem /\ items'[k] = NoItem =>
       Delete(k) \/ items[k].expiration <= now]_vars

(* A limited cache turns a new key away only when each entry it holds is   *)
(* still alive: expired entries never take up the room of a new one        *)
(* (memCacheTTL.go:119-124).                                               *)
SkippedOnlyWhenFullOfLive ==
  \A k \in Keys : MustMakeRoom(k) /\ Full(PoppedItems) =>
    \A j \in Present(PoppedItems) : PoppedItems[j].expiration > now

(* The number of entries grows only while it stays within the limit of the *)
(* moment, also when SetMaxEntries lowered it under the present size       *)
(* (memCacheTTL.go:118-126).                                               *)
GrowsOnlyWithinLimit ==
  [][maxEntries > 0 /\ Cardinality(Present(items')) > Cardinality(Present(items)) =>
       Cardinality(Present(items')) <= maxEntries]_vars

(* Of the reapers that run at most one will go on: each other one has its  *)
(* channel closed or in the hands of the one Stop that will close it. So   *)
(* no reaper leaks and no channel is closed twice, which would panic, in   *)
(* any interleaving of Start and Stop (memCacheTTL.go:59-86).              *)
ReapersOwned ==
  /\ \A g \in reapers : g = done \/ g \in closed \/ \E p \in Callers : held[p] = g
  /\ done # 0 => done \in reapers \ closed
  /\ \A p \in Callers : held[p] # 0 => held[p] \notin closed /\ held[p] # done
  /\ \A p, q \in Callers : held[p] = held[q] /\ held[p] # 0 => p = q

(* The map and the heap stay in step: each item is known to the heap, and  *)
(* no stale heap element can pass for an item (memCacheTTL.go:114-156);    *)
(* and no reaper is without someone who can end it (memCacheTTL.go:59-86). *)
Inv == TypeOK /\ HeapTracksItems /\ SeqsIdentify /\ ReapersOwned

(* While the reaper is not stopped, an item whose instant has come is       *)
(* replaced or leaves the map, though nobody looks it up again.             *)
ExpiredReaped ==
  \A k \in Keys, s \in 1..MaxSeq :
    (items[k] # NoItem /\ items[k].seq = s /\ items[k].expiration <= now)
      ~> (items[k] = NoItem \/ items[k].seq # s \/ done = 0)

(* A Stop returns, unless a Start came in before its wg.Wait: then it waits *)
(* for the new reaper, which it has not told to end (memCacheTTL.go:80-84). *)
StopReturns ==
  \A p \in Callers : pc[p] \in {Closing, Waiting} ~> (pc[p] = Idle \/ done # 0)

(* The reaper does its work and can be stopped (memCacheTTL.go:59-102).    *)
ReaperServes == ExpiredReaped /\ StopReturns

(* The map a caller sees in an item map: values and instants. *)
Visible(its) ==
  [k \in Keys |-> IF its[k] = NoItem THEN NoItem
                  ELSE [value |-> its[k].value, expiration |-> its[k].expiration]]

Abs == INSTANCE TTLMap WITH store <- Visible(items), clock <- now, limit <- maxEntries,
                            answer <- got, None <- NoItem

(* The cache implements the map of TTLMap: the item is its value and its   *)
(* instant, the sequence numbers, the heap and the calls in flight are not *)
(* seen. In particular a Get, two critical sections long, is one lookup.   *)
ImplementsTTLMap == Abs!MapSpec
=============================================================================
