------------------------------ MODULE MCGuards ------------------------------
(***************************************************************************)
(* The two middlewares that turn clients away, Fail2Ban and RateLimiter.   *)
(* Neither reads what the other keeps, so each steps only while the other  *)
(* has yet to begin.  Addresses are interchangeable, and so are requests.  *)
(***************************************************************************)
EXTENDS Fail2Ban, TLC

CONSTANTS Limit, Seconds, RateThreshold, EvictInterval, IdleTimeout, MaxDelay, RateTime, MaxRequests

VARIABLES
  rnow, limits, tokens, filled, lastSeen, lastSweep, pending, since, requests, asked, served

rateVars ==
  <<rnow, limits, tokens, filled, lastSeen, lastSweep, pending, since, requests, asked, served>>

Rate == INSTANCE RateLimiter WITH
  Addresses <- IPs, Workers <- Requests, EvictThreshold <- RateThreshold, MaxTime <- RateTime, now <- rnow

ASSUME RateAssumed == Rate!RateAssumption

Symmetry == Permutations(IPs) \cup Permutations(Requests)

MCInit == Init /\ Rate!Init

MCNext ==
  \/ Next /\ Rate!Init /\ UNCHANGED rateVars
  \/ Rate!Next /\ Init /\ UNCHANGED vars

MCSpec == MCInit /\ [][MCNext]_<<vars, rateVars>>

(* An address is suspended only by WatchCount 404s within the watch        *)
(* period, whatever requests come at once and whatever is swept meanwhile  *)
(* (suspected.go:36-61; fail2ban.go:47-56).                                *)
GuardsInv == Inv /\ Rate!TypeOK

(* Whatever is looked up, swept and asked at once, an address gets no more *)
(* requests through from one second to a later one than its burst and the  *)
(* tokens of the time between: to be forgotten gains it nothing            *)
(* (rateLimiter.go:32-49).                                                 *)
AdmittedBound == Rate!AdmittedBound
=============================================================================
