---------------------------- MODULE RateLimiter ----------------------------
(***************************************************************************)
(* web/gin/middleware/rateLimiter/rateLimiter.go: a token bucket for each  *)
(* client address, looked up under a lock and asked without it, and a      *)
(* sweep that forgets the buckets of addresses not seen for long.          *)
(*                                                                         *)
(* Time passes in seconds.  The bucket is golang.org/x/time/rate's, which  *)
(* is external: burst Limit, Seconds tokens a second, that being the rate  *)
(* the code gives it.                                                      *)
(***************************************************************************)
EXTENDS Integers, FiniteSets, FiniteSetsExt

CONSTANTS
  Addresses, Workers,                      \* client addresses, requests under way at once
  Limit, Seconds,                          \* cfg.Limit, cfg.Seconds
  EvictThreshold, EvictInterval, IdleTimeout,
  MaxDelay,                                \* seconds from a look-up to its Allow, at most
  MaxTime, MaxRequests                     \* bounds: the clock, requests in a behaviour

(* No request stalls for as long as it takes a bucket to be forgotten, and *)
(* one that is forgotten would be full again had it been kept: it was last *)
(* asked MaxDelay after the last look-up.  With the 300 seconds of the     *)
(* code and requests that do not stall, Limit <= 300 * Seconds.            *)
RateAssumption ==
  /\ {Limit, Seconds, EvictThreshold, EvictInterval, IdleTimeout, MaxDelay,
      MaxTime, MaxRequests} \subseteq Nat
  /\ MaxDelay <= IdleTimeout /\ Limit <= Seconds * (IdleTimeout - MaxDelay)

VARIABLES
  now,
  limits,            \* addresses with a bucket
  tokens, filled,    \* per address: tokens of its bucket at time filled
  lastSeen, lastSweep,
  pending,           \* per worker: address looked up and not yet asked, or none
  since,             \* per worker: time of that look-up
  requests,          \* requests so far
  asked, served      \* history: calls of Allow, and those let through, of each address
                     \* by the end of each second

vars == <<now, limits, tokens, filled, lastSeen, lastSweep, pending, since, requests, asked, served>>
Times == 0..MaxTime
Idle == {}

Init ==
  /\ now = 0
  /\ limits = {}
  /\ tokens = [a \in Addresses |-> 0] /\ filled = [a \in Addresses |-> 0]
  /\ lastSeen = [a \in Addresses |-> 0]
  /\ lastSweep = -(EvictInterval + 1)         \* the zero time: a sweep is due
  /\ pending = [w \in Workers |-> Idle] /\ since = [w \in Workers |-> 0]
  /\ requests = 0
  /\ asked = [a \in Addresses |-> [t \in Times |-> 0]]
  /\ served = [a \in Addresses |-> [t \in Times |-> 0]]

(* Fault: the interval of sweeps is taken for the idle time. *)
SweepEarly(lims, seen) ==
  IF Cardinality(lims) > EvictThreshold /\ now - lastSweep > EvictInterval
  THEN {a \in lims : now - seen[a] > EvictInterval}
  ELSE {}

(* The buckets that a sweep forgets, limits and lastSeen being as given. *)
Swept(lims, seen) ==
  IF Cardinality(lims) > EvictThreshold /\ now - lastSweep > EvictInterval
  THEN {a \in lims : now - seen[a] > IdleTimeout}
  ELSE {}

(* The section under mu: the bucket is found or made, and a sweep may run. *)
Lookup(w, a) ==
  /\ pending[w] = Idle /\ requests < MaxRequests
  /\ pending' = [pending EXCEPT ![w] = {a}] /\ since' = [since EXCEPT ![w] = now]
  /\ tokens' = IF a \in limits THEN tokens ELSE [tokens EXCEPT ![a] = Limit]
  /\ filled' = IF a \in limits THEN filled ELSE [filled EXCEPT ![a] = now]
  /\ lastSeen' = [lastSeen EXCEPT ![a] = now]
  /\ LET lims == limits \cup {a} IN
       /\ limits' = lims \ Swept(lims, lastSeen')
       /\ lastSweep' = IF Cardinality(lims) > EvictThreshold /\ now - lastSweep > EvictInterval
                       THEN now ELSE lastSweep
  /\ requests' = requests + 1
  /\ UNCHANGED <<now, asked, served>>

(* Tokens of a's bucket at this time. *)
Tokens(a) == Min({Limit, tokens[a] + Seconds * (now - filled[a])})

(* Allow, on the bucket looked up. *)
Allow(w) ==
  \E a \in pending[w] :
    /\ filled' = [filled EXCEPT ![a] = now]
    /\ asked' = [asked EXCEPT ![a][now] = @ + 1]
    /\ IF Tokens(a) >= 1
       THEN /\ tokens' = [tokens EXCEPT ![a] = Tokens(a) - 1]
            /\ served' = [served EXCEPT ![a][now] = @ + 1]
       ELSE tokens' = [tokens EXCEPT ![a] = Tokens(a)] /\ UNCHANGED served
    /\ pending' = [pending EXCEPT ![w] = Idle] /\ since' = [since EXCEPT ![w] = 0]
    /\ UNCHANGED <<now, limits, lastSeen, lastSweep, requests>>

(* Time passes. *)
Tick ==
  /\ now < MaxTime
  /\ \A w \in Workers : pending[w] # Idle => now - since[w] < MaxDelay
  /\ now' = now + 1
  /\ asked' = [a \in Addresses |-> [asked[a] EXCEPT ![now + 1] = asked[a][now]]]
  /\ served' = [a \in Addresses |-> [served[a] EXCEPT ![now + 1] = served[a][now]]]
  /\ UNCHANGED <<limits, tokens, filled, lastSeen, lastSweep, pending, since, requests>>

Next ==
  \/ \E w \in Workers : Allow(w) \/ \E a \in Addresses : Lookup(w, a)
  \/ Tick

Spec == Init /\ [][Next]_vars

----------------------------------------------------------------------------
(* The requests of a let through in the seconds from..to. *)
Through(a, from, to) == served[a][to] - (IF from = 0 THEN 0 ELSE served[a][from - 1])

TypeOK ==
  /\ now \in Times /\ requests \in 0..MaxRequests /\ limits \subseteq Addresses
  /\ \A a \in Addresses : tokens[a] \in 0..Limit /\ filled[a] \in 0..now /\ lastSeen[a] \in 0..now
  /\ lastSweep \in -(EvictInterval + 1)..now
  /\ \A w \in Workers : pending[w] = Idle \/ \E a \in limits : pending[w] = {a}
  /\ \A a \in Addresses, t \in Times : served[a][t] <= asked[a][t]

(* Whatever is looked up, swept and asked at once, an address gets no more *)
(* requests through from one second to a later one than its burst and the  *)
(* tokens of the time between: to be forgotten gains it nothing            *)
(* (rateLimiter.go:32-49).                                                 *)
AdmittedBound ==
  \A a \in Addresses : \A from \in 0..now : \A to \in from..now :
    Through(a, from, to) <= Limit + Seconds * (to - from)
=============================================================================
