------------------------------- MODULE TTLMap -------------------------------
(***************************************************************************)
(* What a caller of cache/memcachettl may rely on: a map whose entries     *)
(* carry an expiration instant.  There is no heap, no sequence number, no  *)
(* reaper and no lock here.  An entry whose instant has come may vanish at *)
(* any moment; an entry whose instant has not come vanishes only by        *)
(* Remove or by being overwritten; a lookup is a single atomic step that   *)
(* never yields an expired entry; the map grows only below its limit.      *)
(***************************************************************************)
EXTENDS Integers, FiniteSets

CONSTANTS Keys, Values, TTLs, Limits, Callers, None

VARIABLES
  store,     \* key -> [value, expiration] or None
  clock,     \* the present instant
  limit,     \* largest number of entries, 0 or less: no limit
  answer     \* caller -> what its last lookup yielded, a value or None

mapVars == <<store, clock, limit, answer>>

MapInit ==
  /\ store = [k \in Keys |-> None]
  /\ clock = 0
  /\ limit = 0
  /\ answer = [p \in Callers |-> None]

Expirable(k) == store[k] # None /\ store[k].expiration <= clock

(* The map that is left when the entries of the keys K go. *)
Without(K) == [k \in Keys |-> IF k \in K THEN None ELSE store[k]]

Occupied(m) == {k \in Keys : m[k] # None}

Expire(K) ==
  /\ \A k \in K : Expirable(k)
  /\ store' = Without(K)
  /\ UNCHANGED <<clock, limit, answer>>

(* A put may make room by expiring the entries of K first. *)
Put(k, v, ttl, K) ==
  /\ \A j \in K : Expirable(j)
  /\ \/ Without(K)[k] # None
     \/ limit <= 0
     \/ Cardinality(Occupied(Without(K))) < limit
  /\ store' = [Without(K) EXCEPT ![k] = [value |-> v, expiration |-> clock + ttl]]
  /\ UNCHANGED <<clock, limit, answer>>

Remove(k) ==
  /\ store' = [store EXCEPT ![k] = None]
  /\ UNCHANGED <<clock, limit, answer>>

(* A lookup may drop an entry it finds expired. *)
Lookup(p, k) ==
  /\ answer' = [answer EXCEPT ![p] =
                  IF store[k] # None /\ clock <= store[k].expiration
                  THEN store[k].value ELSE None]
  /\ \/ UNCHANGED store
     \/ /\ Expirable(k) /\ store[k].expiration < clock
        /\ store' = [store EXCEPT ![k] = None]
  /\ UNCHANGED <<clock, limit>>

SetLimit(n) ==
  /\ limit' = n
  /\ UNCHANGED <<store, clock, answer>>

Advance ==
  /\ clock' = clock + 1
  /\ UNCHANGED <<store, limit, answer>>

MapNext ==
  \/ \E K \in SUBSET Keys : Expire(K)
  \/ \E k \in Keys, v \in Values, ttl \in TTLs, K \in SUBSET Keys : Put(k, v, ttl, K)
  \/ \E k \in Keys : Remove(k)
  \/ \E p \in Callers, k \in Keys : Lookup(p, k)
  \/ \E n \in Limits : SetLimit(n)
  \/ Advance

MapSpec == MapInit /\ [][MapNext]_mapVars
=============================================================================
