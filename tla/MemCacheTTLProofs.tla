------------------------- MODULE MemCacheTTLProofs -------------------------
(***************************************************************************)
(* Theorems about cache/memcachettl, for any set of keys, values, callers, *)
(* durations and limits and any bounds: its type invariant, the agreement  *)
(* of the map with the expiry heap, the ownership of the reapers, what may *)
(* remove an entry and when the map may grow, and that the cache           *)
(* implements TTLMap.                                                      *)
(***************************************************************************)
EXTENDS MemCacheTTL, FiniteSetTheorems, TLAPS

----------------------------------------------------------------------------
(* Popping keeps the types: used by each operation that pops. *)
LEMMA PoppedTypes ==
  ASSUME TypeOK
  PROVE  /\ PoppedItems \in [Keys -> Item \cup {NoItem}]
         /\ PoppedHeap \in SUBSET HeapEntry
BY DEF TypeOK, PoppedItems, PoppedHeap

(* The variables of the cache keep their types, whatever the calls and     *)
(* their interleaving: a sequence number and a start count are naturals, a *)
(* channel or a reaper is always one that a Start has made.                *)
THEOREM TypeCorrect == Spec => []TypeOK
<1>1. Init => TypeOK
  <2>1. Idle \in CallState
    BY DEF CallState, Idle
  <2>2. Init => stopped \in BOOLEAN
    BY Zenon DEF Init
  <2>3. Init => done \in Nat /\ starts \in Nat /\ closed \in SUBSET Nat /\ reapers \in SUBSET Nat
    BY DEF Init
  <2>4. Init => nextSeq \in Nat /\ maxEntries \in Int /\ now \in Nat /\ held \in [Callers -> Nat]
    BY DEF Init
  <2> QED
    BY <2>1, <2>2, <2>3, <2>4, Zenon DEF Init, TypeOK
<1>2. TypeOK /\ [Next]_vars => TypeOK'
  <2> SUFFICES ASSUME TypeOK, [Next]_vars PROVE TypeOK'
    OBVIOUS
  <2> USE CacheAssumption
  <2>1. ASSUME NEW k \in Keys, NEW v \in Values, NEW ttl \in TTLs, Set(k, v, ttl)
        PROVE  TypeOK'
    <3>1. PICK its \in [Keys -> Item \cup {NoItem}], heap \in SUBSET HeapEntry :
            Store(k, v, ttl, its, heap)
      <4>1. CASE Store(k, v, ttl, items, expiryHeap)
        BY <4>1 DEF TypeOK
      <4>2. CASE Store(k, v, ttl, PoppedItems, PoppedHeap)
        BY <4>2, PoppedTypes
      <4> QED
        BY <2>1, <4>1, <4>2 DEF Set
    <3>2. [value |-> v, expiration |-> now + ttl, seq |-> nextSeq'] \in Item
      BY <3>1 DEF Store, TypeOK, Item
    <3>3. [key |-> k, expiry |-> now + ttl, seq |-> nextSeq'] \in HeapEntry
      BY <3>1 DEF Store, TypeOK, HeapEntry
    <3> QED
      BY <3>1, <3>2, <3>3 DEF Store, TypeOK, reapVars, callVars
  <2>2. ASSUME PopExpired PROVE TypeOK'
    BY <2>2, PoppedTypes DEF PopExpired, TypeOK, reapVars, callVars
  <2>3. ASSUME NEW n \in Limits, SetMaxEntries(n) PROVE TypeOK'
    BY <2>3 DEF SetMaxEntries, TypeOK, reapVars, callVars
  <2>4. ASSUME NEW k \in Keys, Delete(k) PROVE TypeOK'
    BY <2>4 DEF Delete, TypeOK, reapVars, callVars
  <2>5. ASSUME NEW p \in Callers, NEW k \in Keys, GetBegin(p, k) PROVE TypeOK'
    BY <2>5 DEF GetBegin, TypeOK, reapVars, dataVars, CallState, Getting
  <2>6. ASSUME NEW p \in Callers, GetAllBegin(p) PROVE TypeOK'
    BY <2>6 DEF GetAllBegin, TypeOK, reapVars, dataVars, CallState, Getting, Present
  <2>7. ASSUME NEW p \in Callers, NEW k \in Keys, GetRead(p, k) PROVE TypeOK'
    BY <2>7 DEF GetRead, TypeOK, reapVars, dataVars, CallState, Recheck, Item
  <2>8. ASSUME NEW p \in Callers, NEW k \in Keys, GetRecheck(p, k) PROVE TypeOK'
    BY <2>8 DEF GetRecheck, TypeOK, reapVars, CallState, Getting, Item
  <2>9. ASSUME NEW p \in Callers, GetEnd(p) PROVE TypeOK'
    BY <2>9 DEF GetEnd, TypeOK, reapVars, dataVars, CallState, Idle
  <2>10. ASSUME Start PROVE TypeOK'
    <3>1. stopped' \in BOOLEAN
      BY <2>10, Zenon DEF Start
    <3>2. done' \in Nat /\ starts' \in Nat /\ reapers' \in SUBSET Nat
      BY <2>10 DEF Start, TypeOK
    <3> QED
      BY <2>10, <3>1, <3>2, Zenon DEF Start, TypeOK, dataVars, callVars
  <2>11. ASSUME NEW p \in Callers, Stop(p) PROVE TypeOK'
    BY <2>11 DEF Stop, TypeOK, dataVars, CallState, Closing
  <2>12. ASSUME NEW p \in Callers, StopClose(p) PROVE TypeOK'
    <3>1. closed' \in SUBSET Nat /\ held' \in [Callers -> Nat]
      BY <2>12 DEF StopClose, TypeOK
    <3>2. pc' \in [Callers -> CallState]
      BY <2>12 DEF StopClose, TypeOK, CallState, Waiting
    <3> QED
      BY <2>12, <3>1, <3>2 DEF StopClose, TypeOK, dataVars
  <2>13. ASSUME NEW p \in Callers, StopReturn(p) PROVE TypeOK'
    BY <2>13 DEF StopReturn, TypeOK, dataVars, reapVars, CallState, Idle
  <2>14. ASSUME NEW g \in 1..MaxStarts, ReapExit(g) PROVE TypeOK'
    BY <2>14 DEF ReapExit, TypeOK, dataVars, callVars
  <2>15. CASE Tick
    BY <2>15 DEF Tick, TypeOK, dataVars, reapVars, callVars
  <2>16. CASE UNCHANGED vars
    BY <2>16 DEF vars, TypeOK, dataVars, reapVars, callVars
  <2> QED
    BY <2>1, <2>2, <2>3, <2>4, <2>5, <2>6, <2>7, <2>8, <2>9, <2>10, <2>11, <2>12,
       <2>13, <2>14, <2>15, <2>16
    DEF Next, SetSkipped, CheckTTL, ReapTick
<1> QED
  BY <1>1, <1>2, PTL DEF Spec

----------------------------------------------------------------------------
(* Most steps leave the map or the heap alone, or only take entries out of *)
(* the map: the agreement of the two survives.                             *)
LEMMA TracksWhenShrinking ==
  ASSUME HeapTracksItems, expiryHeap' = expiryHeap,
         \A k \in Keys : items'[k] = NoItem \/ items'[k] = items[k]
  PROVE  HeapTracksItems'
BY DEF HeapTracksItems

(* What a pop leaves in the map it leaves in the heap, because a due heap  *)
(* element takes its item with it; and nothing a pop leaves is due.        *)
LEMMA PopTracks ==
  ASSUME TypeOK, HeapTracksItems, NEW k \in Keys, PoppedItems[k] # NoItem
  PROVE  /\ PoppedItems[k] = items[k]
         /\ items[k].expiration > now
         /\ [key |-> k, expiry |-> items[k].expiration, seq |-> items[k].seq] \in PoppedHeap
<1> DEFINE e == [key |-> k, expiry |-> items[k].expiration, seq |-> items[k].seq]
<1>1. PoppedItems[k] = items[k] /\ items[k] # NoItem
  BY DEF PoppedItems
<1>2. e \in expiryHeap /\ SameItem(e, k)
  BY <1>1 DEF HeapTracksItems, SameItem
<1>3. ~Due(e)
  BY <1>1, <1>2 DEF PoppedItems
<1>4. items[k].expiration \in Int /\ now \in Int
  BY <1>1 DEF TypeOK, Item
<1> QED
  BY <1>1, <1>2, <1>3, <1>4 DEF Due, PoppedHeap

(* The map and the heap agree in every reachable state: every entry has    *)
(* its own element in the heap, through overwrites, deletes, pops and the  *)
(* lazy evictions of Get.                                                  *)
THEOREM HeapTracksItemsAlways == Spec => []HeapTracksItems
<1>1. Init => HeapTracksItems
  BY DEF Init, HeapTracksItems
<1>2. TypeOK /\ HeapTracksItems /\ [Next]_vars => HeapTracksItems'
  <2> SUFFICES ASSUME TypeOK, HeapTracksItems, [Next]_vars PROVE HeapTracksItems'
    OBVIOUS
  <2>1. ASSUME NEW k \in Keys, NEW v \in Values, NEW ttl \in TTLs, Set(k, v, ttl)
        PROVE  HeapTracksItems'
    <3>1. CASE Store(k, v, ttl, items, expiryHeap)
      BY <3>1 DEF Store, HeapTracksItems, TypeOK
    <3>2. CASE Store(k, v, ttl, PoppedItems, PoppedHeap)
      <4> SUFFICES ASSUME NEW j \in Keys, items'[j] # NoItem
                   PROVE  [key |-> j, expiry |-> items'[j].expiration,
                           seq |-> items'[j].seq] \in expiryHeap'
        BY DEF HeapTracksItems
      <4>1. CASE j = k
        BY <3>2, <4>1, PoppedTypes DEF Store
      <4>2. CASE j # k
        <5>1. items'[j] = PoppedItems[j]
          BY <3>2, <4>2, PoppedTypes DEF Store
        <5>2. /\ PoppedItems[j] = items[j]
              /\ [key |-> j, expiry |-> items[j].expiration,
                  seq |-> items[j].seq] \in PoppedHeap
          BY <5>1, PopTracks
        <5>3. PoppedHeap \subseteq expiryHeap'
          BY <3>2 DEF Store
        <5> QED
          BY <5>1, <5>2, <5>3
      <4> QED
        BY <4>1, <4>2
    <3> QED
      BY <2>1, <3>1, <3>2 DEF Set
  <2>2. ASSUME PopExpired PROVE HeapTracksItems'
    BY <2>2, PopTracks DEF PopExpired, HeapTracksItems
  <2>3. ASSUME NEW k \in Keys, Delete(k) PROVE HeapTracksItems'
    BY <2>3, TracksWhenShrinking DEF Delete, TypeOK
  <2>4. ASSUME NEW p \in Callers, NEW k \in Keys, GetRecheck(p, k) PROVE HeapTracksItems'
    BY <2>4, TracksWhenShrinking DEF GetRecheck, TypeOK
  <2>5. CASE UNCHANGED <<items, expiryHeap>>
    BY <2>5, TracksWhenShrinking
  <2> QED
    BY <2>1, <2>2, <2>3, <2>4, <2>5
    DEF Next, SetSkipped, CheckTTL, ReapTick, SetMaxEntries, GetBegin, GetAllBegin,
        GetRead, GetEnd, Start, Stop, StopClose, StopReturn, ReapExit, Tick, vars, dataVars
<1> QED
  BY <1>1, <1>2, TypeCorrect, PTL DEF Spec

(* A limited cache turns a new key away only when all that it holds is     *)
(* alive: the pop that Set does first has left no entry that is due.       *)
THEOREM SkippedOnlyWhenFull == Spec => []SkippedOnlyWhenFullOfLive
<1>1. TypeOK /\ HeapTracksItems => SkippedOnlyWhenFullOfLive
  BY PopTracks DEF SkippedOnlyWhenFullOfLive, Present
<1> QED
  BY <1>1, TypeCorrect, HeapTracksItemsAlways, PTL

----------------------------------------------------------------------------
(* Sequence numbers name heap elements uniquely. *)
THEOREM SeqsIdentifyAlways == Spec => []SeqsIdentify
<1>1. Init => SeqsIdentify
  BY DEF Init, SeqsIdentify
<1>2. TypeOK /\ SeqsIdentify /\ [Next]_vars => SeqsIdentify'
  <2> SUFFICES ASSUME TypeOK, SeqsIdentify, [Next]_vars PROVE SeqsIdentify'
    OBVIOUS
  <2>1. ASSUME NEW k \in Keys, NEW v \in Values, NEW ttl \in TTLs, NEW its,
               NEW heap \in SUBSET expiryHeap, Store(k, v, ttl, its, heap)
        PROVE  SeqsIdentify'
    <3> DEFINE new == [key |-> k, expiry |-> now + ttl, seq |-> nextSeq + 1]
    <3>1. nextSeq' = nextSeq + 1 /\ expiryHeap' = heap \cup {new} /\ nextSeq \in Nat
      BY <2>1 DEF Store, TypeOK
    <3>2. \A e \in heap : e.seq \in 1..nextSeq
      BY DEF SeqsIdentify
    <3>3. \A e, f \in heap : e.seq = f.seq => e = f
      BY DEF SeqsIdentify
    <3>4. new.seq = nextSeq + 1
      OBVIOUS
    <3> HIDE DEF new
    <3>5. \A e \in expiryHeap' : e.seq \in 1..nextSeq'
      BY <3>1, <3>2, <3>4
    <3>6. \A e, f \in expiryHeap' : e.seq = f.seq => e = f
      BY <3>1, <3>2, <3>3, <3>4
    <3> QED
      BY <3>5, <3>6 DEF SeqsIdentify
  <2>2. ASSUME expiryHeap' \subseteq expiryHeap, nextSeq' = nextSeq
        PROVE  SeqsIdentify'
    BY <2>2 DEF SeqsIdentify
  <2>3. PoppedHeap \in SUBSET expiryHeap
    BY DEF PoppedHeap
  <2>4. ASSUME NEW k \in Keys, NEW v \in Values, NEW ttl \in TTLs, Set(k, v, ttl)
        PROVE  SeqsIdentify'
    BY <2>1, <2>3, <2>4 DEF Set
  <2>5. ASSUME PopExpired PROVE SeqsIdentify'
    BY <2>2, <2>3, <2>5 DEF PopExpired
  <2>6. CASE UNCHANGED <<expiryHeap, nextSeq>>
    BY <2>2, <2>6
  <2> QED
    BY <2>4, <2>5, <2>6
    DEF Next, SetSkipped, CheckTTL, ReapTick, SetMaxEntries, Delete, GetBegin, GetAllBegin,
        GetRead, GetRecheck, GetEnd, Start, Stop, StopClose, StopReturn, ReapExit, Tick,
        vars, dataVars
<1> QED
  BY <1>1, <1>2, TypeCorrect, PTL DEF Spec

----------------------------------------------------------------------------
(* No operation but Delete takes out an entry whose instant is still to    *)
(* come, stale heap elements and outdated reads included.                  *)
THEOREM OnlyExpiredVanishAlways == Spec => OnlyExpiredVanish
<1> DEFINE Vanish(k) == items[k] # NoItem /\ items'[k] = NoItem =>
                          Delete(k) \/ items[k].expiration <= now
<1>1. TypeOK /\ [Next]_vars => [\A k \in Keys : Vanish(k)]_vars
  <2> SUFFICES ASSUME TypeOK, Next, NEW k \in Keys, items[k] # NoItem, items'[k] = NoItem
               PROVE  Delete(k) \/ items[k].expiration <= now
    BY DEF vars
  <2>1. items[k].expiration \in Int /\ now \in Int
    BY DEF TypeOK, Item
  <2>2. ASSUME PoppedItems[k] = NoItem PROVE items[k].expiration <= now
    BY <2>2 DEF PoppedItems, Due, SameItem
  <2>3. ASSUME NEW j \in Keys, NEW v \in Values, NEW ttl \in TTLs, Set(j, v, ttl)
        PROVE  items[k].expiration <= now
    <3> DEFINE new == [value |-> v, expiration |-> now + ttl, seq |-> nextSeq']
    <3>1. new # NoItem
      <4>1. new \in Item
        BY <2>3, CacheAssumption DEF Set, Store, TypeOK, Item
      <4> QED
        BY <4>1, CacheAssumption
    <3>2. CASE Store(j, v, ttl, items, expiryHeap)
      BY <3>1, <3>2 DEF Store, TypeOK
    <3>3. CASE Store(j, v, ttl, PoppedItems, PoppedHeap)
      BY <2>2, <3>1, <3>3, PoppedTypes DEF Store
    <3> QED
      BY <2>3, <3>2, <3>3 DEF Set
  <2>4. ASSUME NEW j \in Keys, Delete(j) PROVE Delete(k)
    BY <2>4 DEF Delete, TypeOK
  <2>5. ASSUME NEW p \in Callers, NEW j \in Keys, GetRecheck(p, j)
        PROVE  items[k].expiration <= now
    BY <2>1, <2>5 DEF GetRecheck, Expired, TypeOK
  <2> QED
    BY <2>2, <2>3, <2>4, <2>5
    DEF Next, SetSkipped, CheckTTL, ReapTick, PopExpired, SetMaxEntries, GetBegin,
        GetAllBegin, GetRead, GetEnd, Start, Stop, StopClose, StopReturn, ReapExit, Tick,
        dataVars
<1> QED
  BY <1>1, TypeCorrect, PTL DEF Spec, OnlyExpiredVanish

(* A map that holds no other keys has no more of them, and one more key    *)
(* makes one more.                                                         *)
LEMMA PresentCounts ==
  ASSUME NEW a, NEW b
  PROVE  /\ Cardinality(Present(a)) \in Nat
         /\ Present(b) \subseteq Present(a) =>
              Cardinality(Present(b)) <= Cardinality(Present(a))
         /\ \A k \in Keys : Present(b) = Present(a) \cup {k} /\ k \notin Present(a) =>
              Cardinality(Present(b)) = Cardinality(Present(a)) + 1
<1>1. IsFiniteSet(Present(a)) /\ IsFiniteSet(Present(b))
  BY CacheAssumption, FS_Subset DEF Present
<1>2. Cardinality(Present(a)) \in Nat
  BY <1>1, FS_CardinalityType
<1>3. Present(b) \subseteq Present(a) => Cardinality(Present(b)) <= Cardinality(Present(a))
  BY <1>1, FS_Subset
<1>4. \A k \in Keys : Present(b) = Present(a) \cup {k} /\ k \notin Present(a) =>
        Cardinality(Present(b)) = Cardinality(Present(a)) + 1
  BY <1>1, FS_AddElement
<1> QED
  BY <1>2, <1>3, <1>4

(* Only a Set makes the map larger, and it does so where there is room, be *)
(* it room that the pop has made (memCacheTTL.go:114-131): every other     *)
(* operation leaves the keys or takes some out.                            *)
THEOREM GrowsOnlyWithinLimitAlways == Spec => GrowsOnlyWithinLimit
<1> DEFINE Size(its) == Cardinality(Present(its))
           Grows == maxEntries > 0 /\ Size(items') > Size(items) => Size(items') <= maxEntries
<1>1. TypeOK /\ [Next]_vars => [Grows]_vars
  <2> SUFFICES ASSUME TypeOK, Next PROVE Grows
    OBVIOUS
  <2>1. Size(items) \in Nat /\ Size(items') \in Nat /\ Size(PoppedItems) \in Nat
        /\ maxEntries \in Int
    BY PresentCounts DEF TypeOK
  <2>2. ASSUME Present(items') \subseteq Present(items) PROVE Grows
    <3>1. Size(items') <= Size(items)
      BY <2>2, PresentCounts
    <3> HIDE DEF Size
    <3> QED
      BY <2>1, <3>1
  <2>3. ASSUME NEW k \in Keys, NEW v \in Values, NEW ttl \in TTLs, Set(k, v, ttl) PROVE Grows
    <3> DEFINE new == [value |-> v, expiration |-> now + ttl, seq |-> nextSeq']
    <3>1. new # NoItem
      <4>1. new \in Item
        BY <2>3, CacheAssumption DEF Set, Store, TypeOK, Item
      <4> QED
        BY <4>1, CacheAssumption
    <3>2. ASSUME NEW its \in [Keys -> Item \cup {NoItem}], items' = [its EXCEPT ![k] = new]
          PROVE  Present(items') = Present(its) \cup {k}
      BY <3>1, <3>2 DEF Present
    <3>3. CASE ~MustMakeRoom(k) /\ Store(k, v, ttl, items, expiryHeap)
      <4>1. Present(items') = Present(items) \cup {k}
        BY <3>2, <3>3 DEF Store, TypeOK
      <4>2. CASE items[k] # NoItem
        BY <2>2, <4>1, <4>2 DEF Present
      <4>3. CASE items[k] = NoItem
        <5>1. Size(items') = Size(items) + 1
          BY <4>1, <4>3, PresentCounts DEF Present
        <5>2. maxEntries > 0 => ~(Size(items) >= maxEntries)
          BY <3>3, <4>3 DEF MustMakeRoom, Full
        <5> HIDE DEF Size
        <5> QED
          BY <2>1, <5>1, <5>2
      <4> QED
        BY <4>2, <4>3
    <3>4. CASE MustMakeRoom(k) /\ ~Full(PoppedItems) /\ Store(k, v, ttl, PoppedItems, PoppedHeap)
      <4>1. Present(items') = Present(PoppedItems) \cup {k}
        BY <3>2, <3>4, PoppedTypes DEF Store
      <4>2. k \notin Present(PoppedItems)
        BY <3>4 DEF MustMakeRoom, PoppedItems, Present
      <4>3. Size(items') = Size(PoppedItems) + 1
        BY <4>1, <4>2, PresentCounts
      <4>4. ~(Size(PoppedItems) >= maxEntries)
        BY <3>4 DEF Full
      <4> HIDE DEF Size
      <4> QED
        BY <2>1, <4>3, <4>4
    <3> QED
      BY <2>3, <3>3, <3>4 DEF Set
  <2>4. CASE PopExpired
    BY <2>2, <2>4 DEF PopExpired, PoppedItems, Present
  <2>5. ASSUME NEW k \in Keys, Delete(k) PROVE Grows
    BY <2>2, <2>5 DEF Delete, Present, TypeOK
  <2>6. ASSUME NEW p \in Callers, NEW k \in Keys, GetRecheck(p, k) PROVE Grows
    BY <2>2, <2>6 DEF GetRecheck, Present, TypeOK
  <2>7. CASE UNCHANGED items
    BY <2>2, <2>7
  <2> HIDE DEF Grows
  <2> QED
    BY <2>3, <2>4, <2>5, <2>6, <2>7
    DEF Next, SetSkipped, CheckTTL, ReapTick, SetMaxEntries, GetBegin, GetAllBegin, GetRead,
        GetEnd, Start, Stop, StopClose, StopReturn, ReapExit, Tick, dataVars
<1> QED
  BY <1>1, TypeCorrect, PTL DEF Spec, GrowsOnlyWithinLimit

----------------------------------------------------------------------------
(* The strengthening that makes ReapersOwned inductive: channels are       *)
(* numbered by the Starts so far, and only a Stop that has not closed its  *)
(* channel yet holds one.                                                  *)
ChannelsKnown ==
  /\ \A g \in reapers \cup closed : g \in 1..starts
  /\ done \in 0..starts
  /\ \A p \in Callers : held[p] \in 0..starts /\ (pc[p] # Closing => held[p] = 0)

(* At most one reaper is not on its way out, none is leaked, and no done   *)
(* channel is closed twice, however Starts and Stops interleave.           *)
THEOREM ReapersOwnedAlways == Spec => []ReapersOwned
<1>1. Init => ChannelsKnown /\ ReapersOwned
  BY DEF Init, ChannelsKnown, ReapersOwned
<1>2. TypeOK /\ ChannelsKnown /\ ReapersOwned /\ [Next]_vars
        => (ChannelsKnown /\ ReapersOwned)'
  <2> SUFFICES ASSUME TypeOK, ChannelsKnown, ReapersOwned, [Next]_vars
               PROVE  ChannelsKnown' /\ ReapersOwned'
    OBVIOUS
  <2> USE DEF TypeOK, ChannelsKnown, ReapersOwned
  <2>1. CASE Start
    BY <2>1 DEF Start, callVars
  <2>2. ASSUME NEW p \in Callers, Stop(p) PROVE ChannelsKnown' /\ ReapersOwned'
    <3>1. held[p] = 0
      BY <2>2 DEF Stop, Idle, Closing
    <3> QED
      BY <2>2, <3>1 DEF Stop
  <2>3. ASSUME NEW p \in Callers, StopClose(p) PROVE ChannelsKnown' /\ ReapersOwned'
    BY <2>3 DEF StopClose
  <2>4. ASSUME NEW g \in 1..MaxStarts, ReapExit(g) PROVE ChannelsKnown' /\ ReapersOwned'
    BY <2>4 DEF ReapExit, callVars
  <2>5. ASSUME UNCHANGED <<reapVars, held>>,
               \A p \in Callers : pc'[p] = Closing => pc[p] = Closing,
               \A p \in Callers : pc[p] = Closing => pc'[p] = Closing
        PROVE  ChannelsKnown' /\ ReapersOwned'
    BY <2>5 DEF reapVars
  <2>6. ASSUME NEW p \in Callers, NEW s, pc[p] # Closing, s # Closing,
               pc' = [pc EXCEPT ![p] = s], UNCHANGED <<reapVars, held>>
        PROVE  ChannelsKnown' /\ ReapersOwned'
    BY <2>5, <2>6
  <2>7. CASE UNCHANGED <<reapVars, held, pc>>
    BY <2>5, <2>7
  <2>8. Idle # Closing /\ Getting # Closing /\ Waiting # Closing /\ \A k : Recheck(k) # Closing
    BY DEF Idle, Getting, Waiting, Closing, Recheck
  <2>9. ASSUME NEW p \in Callers, NEW k \in Keys, GetBegin(p, k) \/ GetRecheck(p, k)
        PROVE  ChannelsKnown' /\ ReapersOwned'
    BY <2>6, <2>8, <2>9 DEF GetBegin, GetRecheck
  <2>10. ASSUME NEW p \in Callers, GetAllBegin(p) \/ GetEnd(p) \/ StopReturn(p)
         PROVE  ChannelsKnown' /\ ReapersOwned'
    BY <2>6, <2>8, <2>10 DEF GetAllBegin, GetEnd, StopReturn
  <2>11. ASSUME NEW p \in Callers, NEW k \in Keys, GetRead(p, k)
         PROVE  ChannelsKnown' /\ ReapersOwned'
    <3>1. CASE pc' = [pc EXCEPT ![p] = Recheck(k)]
      BY <2>6, <2>8, <2>11, <3>1 DEF GetRead
    <3>2. CASE UNCHANGED pc
      BY <2>7, <2>11, <3>2 DEF GetRead
    <3> QED
      BY <2>11, <3>1, <3>2 DEF GetRead
  <2> HIDE DEF TypeOK, ChannelsKnown, ReapersOwned
  <2> QED
    BY <2>1, <2>2, <2>3, <2>4, <2>7, <2>9, <2>10, <2>11
    DEF Next, Set, Store, SetSkipped, PopExpired, CheckTTL, ReapTick, SetMaxEntries, Delete,
        Tick, vars, callVars
<1> QED
  BY <1>1, <1>2, TypeCorrect, PTL DEF Spec

(* The map and the heap are in step and every reaper is owned, in every    *)
(* state (Inv), from the theorems on its parts (memCacheTTL.go:59-86,      *)
(* 114-156).                                                               *)
THEOREM InvAlways == Spec => []Inv
  BY TypeCorrect, HeapTracksItemsAlways, SeqsIdentifyAlways, ReapersOwnedAlways, PTL DEF Inv

----------------------------------------------------------------------------
(* A pop only takes out entries that are due. *)
LEMMA PopExpires ==
  ASSUME TypeOK
  PROVE  \E K \in SUBSET Keys :
           /\ \A k \in K : items[k] # NoItem /\ items[k].expiration <= now
           /\ \A k \in Keys : PoppedItems[k] = IF k \in K THEN NoItem ELSE items[k]
<1> DEFINE K == {k \in Keys : items[k] # NoItem /\ PoppedItems[k] = NoItem}
<1>1. \A k \in K : items[k] # NoItem /\ items[k].expiration <= now
  BY DEF PoppedItems, Due, SameItem
<1>2. \A k \in Keys : PoppedItems[k] = IF k \in K THEN NoItem ELSE items[k]
  BY DEF PoppedItems
<1> QED
  BY <1>1, <1>2

(* What a caller sees of an item. *)
LEMMA VisibleItem ==
  ASSUME NEW its \in [Keys -> Item \cup {NoItem}], NEW k \in Keys
  PROVE  /\ Visible(its)[k] = NoItem <=> its[k] = NoItem
         /\ its[k] # NoItem => /\ Visible(its)[k].value = its[k].value
                               /\ Visible(its)[k].expiration = its[k].expiration
<1>1. CASE its[k] = NoItem
  BY <1>1 DEF Visible
<1>2. CASE its[k] # NoItem
  <2>1. Visible(its)[k] = [value |-> its[k].value, expiration |-> its[k].expiration]
    BY <1>2 DEF Visible
  <2>2. Visible(its)[k] \in [value: Values, expiration: Int]
    BY <1>2, <2>1 DEF Item
  <2> QED
    BY <1>2, <2>1, <2>2, CacheAssumption
<1> QED
  BY <1>1, <1>2

(* Dropping the keys of K from the map drops them from what is visible. *)
LEMMA VisibleWithout ==
  ASSUME TypeOK, NEW K \in SUBSET Keys, NEW its \in [Keys -> Item \cup {NoItem}],
         \A k \in Keys : its[k] = IF k \in K THEN NoItem ELSE items[k]
  PROVE  Abs!Without(K) = Visible(its)
BY DEF Abs!Without, Visible

(* What is visible occupies the keys that have an item. *)
LEMMA VisibleOccupied ==
  ASSUME NEW its \in [Keys -> Item \cup {NoItem}]
  PROVE  Abs!Occupied(Visible(its)) = Present(its)
BY VisibleItem DEF Abs!Occupied, Present

(* Delete takes the key from what is visible. *)
LEMMA VisibleDelete ==
  ASSUME TypeOK, NEW k \in Keys, items' = [items EXCEPT ![k] = NoItem]
  PROVE  Visible(items)' = [Visible(items) EXCEPT ![k] = NoItem]
BY DEF Visible, TypeOK

(* The two instances of Cardinality are the same operator. *)
LEMMA SameCardinality == \A S : Abs!Cardinality(S) = Cardinality(S)
BY DEF Abs!Cardinality, Cardinality

(* One Set is one put, which expires first what Set popped. *)
LEMMA SetIsPut ==
  ASSUME TypeOK, NEW k \in Keys, NEW v \in Values, NEW ttl \in TTLs, Set(k, v, ttl)
  PROVE  \E K \in SUBSET Keys : Abs!Put(k, v, ttl, K)
<1> DEFINE new == [value |-> v, expiration |-> now + ttl, seq |-> nextSeq']
<1>1. new \in Item
  BY CacheAssumption DEF Set, Store, TypeOK, Item
<1>2. ASSUME NEW its \in [Keys -> Item \cup {NoItem}], NEW heap, NEW K \in SUBSET Keys,
             \A j \in K : items[j] # NoItem /\ items[j].expiration <= now,
             \A j \in Keys : its[j] = IF j \in K THEN NoItem ELSE items[j],
             its[k] # NoItem \/ maxEntries <= 0 \/ Cardinality(Present(its)) < maxEntries,
             Store(k, v, ttl, its, heap)
      PROVE  Abs!Put(k, v, ttl, K)
  <2>1. Abs!Without(K) = Visible(its)
    BY <1>2, VisibleWithout
  <2>2. \A j \in K : Abs!Expirable(j)
    BY <1>2, VisibleItem DEF Abs!Expirable, TypeOK
  <2>3. \/ Abs!Without(K)[k] # NoItem
        \/ maxEntries <= 0
        \/ Cardinality(Abs!Occupied(Abs!Without(K))) < maxEntries
    BY <1>2, <2>1, VisibleItem, VisibleOccupied
  <2>4. Visible(items)' = [Visible(its) EXCEPT ![k] = [value |-> v, expiration |-> now + ttl]]
    <3>1. items' = [its EXCEPT ![k] = new]
      BY <1>2 DEF Store
    <3>2. new.value = v /\ new.expiration = now + ttl
      OBVIOUS
    <3>3. new # NoItem
      BY <1>1, CacheAssumption
    <3> HIDE DEF new
    <3> QED
      BY <3>1, <3>2, <3>3 DEF Visible
  <2> QED
    BY <1>2, <2>1, <2>2, <2>3, <2>4, SameCardinality DEF Abs!Put, Store, callVars
<1>3. CASE ~MustMakeRoom(k) /\ Store(k, v, ttl, items, expiryHeap)
  <2>1. items[k] # NoItem \/ maxEntries <= 0 \/ Cardinality(Present(items)) < maxEntries
    <3>1. Cardinality(Present(items)) \in Nat
      <4>1. IsFiniteSet(Present(items))
        BY CacheAssumption, FS_Subset DEF Present
      <4> QED
        BY <4>1, FS_CardinalityType
    <3> QED
      BY <1>3, <3>1 DEF MustMakeRoom, Full, TypeOK
  <2>2. items \in [Keys -> Item \cup {NoItem}]
    BY DEF TypeOK
  <2>3. Abs!Put(k, v, ttl, {})
    BY <1>2, <1>3, <2>1, <2>2
  <2> QED
    BY <2>3
<1>4. CASE ~Full(PoppedItems) /\ Store(k, v, ttl, PoppedItems, PoppedHeap)
  <2>1. Cardinality(Present(PoppedItems)) < maxEntries
    <3>1. IsFiniteSet(Present(PoppedItems))
      BY CacheAssumption, FS_Subset DEF Present
    <3> QED
      BY <1>4, <3>1, FS_CardinalityType DEF Full, TypeOK
  <2> QED
    BY <1>2, <1>4, <2>1, PopExpires, PoppedTypes
<1> QED
  BY <1>3, <1>4 DEF Set

(* The cache implements the abstract map: Get's two critical sections are  *)
(* one lookup, the lazy and the heap-driven evictions only expire entries  *)
(* that are due, and Set makes room the way a put may.                     *)
THEOREM CacheImplementsTTLMap == Spec => ImplementsTTLMap
<1>1. Init => Abs!MapInit
  BY DEF Init, Abs!MapInit, Visible
<1>2. TypeOK /\ [Next]_vars => [Abs!MapNext]_(Abs!mapVars)
  <2> SUFFICES ASSUME TypeOK, [Next]_vars PROVE Abs!MapNext \/ UNCHANGED Abs!mapVars
    OBVIOUS
  <2>1. ASSUME NEW k \in Keys, NEW v \in Values, NEW ttl \in TTLs, Set(k, v, ttl)
        PROVE  Abs!MapNext
    BY <2>1, SetIsPut DEF Abs!MapNext
  <2>2. ASSUME PopExpired PROVE Abs!MapNext
    <3>1. PICK K \in SUBSET Keys :
            /\ \A k \in K : items[k] # NoItem /\ items[k].expiration <= now
            /\ \A k \in Keys : PoppedItems[k] = IF k \in K THEN NoItem ELSE items[k]
      BY PopExpires
    <3>2. Abs!Without(K) = Visible(PoppedItems)
      BY <3>1, VisibleWithout, PoppedTypes
    <3>3. Visible(items)' = Visible(PoppedItems)
      BY <2>2 DEF PopExpired, Visible
    <3>4. \A k \in K : Abs!Expirable(k)
      BY <3>1, VisibleItem DEF Abs!Expirable, TypeOK
    <3>5. Abs!Expire(K)
      BY <2>2, <3>2, <3>3, <3>4 DEF Abs!Expire, PopExpired, callVars
    <3> QED
      BY <3>5 DEF Abs!MapNext
  <2>3. ASSUME NEW n \in Limits, SetMaxEntries(n) PROVE Abs!MapNext
    <3>1. Abs!SetLimit(n)
      BY <2>3 DEF SetMaxEntries, Abs!SetLimit, callVars, Visible
    <3> QED
      BY <3>1 DEF Abs!MapNext
  <2>4. ASSUME NEW k \in Keys, Delete(k) PROVE Abs!MapNext
    <3>1. Abs!Remove(k)
      BY <2>4, VisibleDelete DEF Delete, Abs!Remove, callVars
    <3> QED
      BY <3>1 DEF Abs!MapNext
  <2>5. ASSUME NEW p \in Callers, NEW k \in Keys, GetRead(p, k)
        PROVE  Abs!MapNext \/ UNCHANGED Abs!mapVars
    <3>1. CASE items[k] # NoItem /\ Expired(items[k])
      BY <2>5, <3>1 DEF GetRead, dataVars, Abs!mapVars, Visible
    <3>2. CASE ~(items[k] # NoItem /\ Expired(items[k]))
      <4>1. got' = [got EXCEPT ![p] = IF Visible(items)[k] # NoItem
                                          /\ now <= Visible(items)[k].expiration
                                      THEN Visible(items)[k].value ELSE NoItem]
        BY <2>5, <3>2, VisibleItem DEF GetRead, Expired, TypeOK, Item
      <4>2. Abs!Lookup(p, k)
        BY <2>5, <4>1 DEF GetRead, dataVars, Abs!Lookup, Visible
      <4> QED
        BY <4>2 DEF Abs!MapNext
    <3> QED
      BY <3>1, <3>2
  <2>6. ASSUME NEW p \in Callers, NEW k \in Keys, GetRecheck(p, k) PROVE Abs!MapNext
    <3>1. got' = [got EXCEPT ![p] = IF Visible(items)[k] # NoItem
                                        /\ now <= Visible(items)[k].expiration
                                    THEN Visible(items)[k].value ELSE NoItem]
      BY <2>6, VisibleItem DEF GetRecheck, Expired, TypeOK, Item
    <3>2. \/ Visible(items)' = Visible(items)
          \/ /\ Abs!Expirable(k) /\ Visible(items)[k].expiration < now
             /\ Visible(items)' = [Visible(items) EXCEPT ![k] = NoItem]
      <4>1. CASE items' = items
        BY <4>1 DEF Visible
      <4>2. CASE items' = [items EXCEPT ![k] = NoItem] /\ items[k] # NoItem /\ Expired(items[k])
        <5>1. Visible(items)' = [Visible(items) EXCEPT ![k] = NoItem]
          BY <4>2, VisibleDelete
        <5>2. items \in [Keys -> Item \cup {NoItem}] /\ now \in Int /\ items[k].expiration \in Int
          BY <4>2 DEF TypeOK, Item
        <5>3. Visible(items)[k] # NoItem /\ Visible(items)[k].expiration = items[k].expiration
          BY <4>2, <5>2, VisibleItem
        <5> QED
          BY <4>2, <5>1, <5>2, <5>3 DEF Abs!Expirable, Expired
      <4>3. CASE items' = [items EXCEPT ![k] = NoItem] /\ items[k] = NoItem
        BY <4>1, <4>3 DEF TypeOK
      <4> QED
        BY <2>6, <4>1, <4>2, <4>3 DEF GetRecheck
    <3>3. Abs!Lookup(p, k)
      BY <2>6, <3>1, <3>2 DEF GetRecheck, Abs!Lookup
    <3> QED
      BY <3>3 DEF Abs!MapNext
  <2>7. CASE Tick
    <3>1. Abs!Advance
      BY <2>7 DEF Tick, Abs!Advance, dataVars, callVars, Visible
    <3> QED
      BY <3>1 DEF Abs!MapNext
  <2>8. CASE UNCHANGED <<items, now, maxEntries, got>>
    BY <2>8 DEF Abs!mapVars, Visible
  <2> QED
    BY <2>1, <2>2, <2>3, <2>4, <2>5, <2>6, <2>7, <2>8
    DEF Next, SetSkipped, CheckTTL, ReapTick, GetBegin, GetAllBegin, GetEnd, Start, Stop,
        StopClose, StopReturn, ReapExit, vars, dataVars, callVars
<1> QED
  BY <1>1, <1>2, TypeCorrect, PTL DEF Spec, ImplementsTTLMap, Abs!MapSpec
=============================================================================
