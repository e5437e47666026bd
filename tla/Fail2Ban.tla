------------------------------ MODULE Fail2Ban ------------------------------
(***************************************************************************)
(* web/gin/middleware/fail2ban: an address that draws too many 404 answers *)
(* within a watch period is banned for a ban period.  Each request runs on *)
(* its own goroutine: the ban check before the handler, the handler, and   *)
(* after a 404 the count, Del and Add are four critical sections, one step *)
(* each; a request admitted before a ban may be counted after it.          *)
(*                                                                         *)
(* hits is a history variable that only properties read: when each 404 to  *)
(* an address came.                                                        *)
(***************************************************************************)
EXTENDS Integers, Sequences, FiniteSets

CONSTANTS
  IPs, Requests,
  WatchCount, WatchPeriod, BanPeriod,   \* ConfigFail2Ban
  EvictThreshold,   \* suspectedEvictThreshold, 1024 in the code
  SweepInterval,    \* evictSweepInterval
  None,             \* no entry
  MaxTime, MaxHits  \* bounds on the clock and on the 404s to one address

ASSUME Fail2BanAssumption ==
  /\ WatchCount \in Nat \ {0} /\ WatchPeriod \in Nat /\ BanPeriod \in Nat
  /\ EvictThreshold \in Nat /\ SweepInterval \in Nat
  /\ MaxTime \in Nat /\ MaxHits \in Nat
  /\ None \notin Int /\ None \notin [count: Nat, watchTime: Int]

VARIABLES
  suspected, suspectedSweep,   \* Suspected.items and .lastSweep
  suspended, suspendedSweep,   \* Suspended.items and .lastSweep
  pc, ip, at,                  \* per request: place, address, instant of the count that is to ban
  now, hits

mapVars == <<suspected, suspectedSweep, suspended, suspendedSweep>>
vars == <<mapVars, pc, ip, at, now, hits>>

SuspectedItem == [count: Nat \ {0}, watchTime: Int]
Keys(m) == {i \in IPs : m[i] # None}

(* lastSweep is the zero time at first: long ago. *)
LongAgo == -SweepInterval - 1

Init ==
  /\ suspected = [i \in IPs |-> None] /\ suspectedSweep = LongAgo
  /\ suspended = [i \in IPs |-> None] /\ suspendedSweep = LongAgo
  /\ pc = [r \in Requests |-> "idle"]
  /\ ip \in [Requests -> IPs]
  /\ at = [r \in Requests |-> 0]
  /\ now = 0
  /\ hits = [i \in IPs |-> <<>>]

SweepDue(m, last) == Cardinality(Keys(m)) > EvictThreshold /\ now - last > SweepInterval

----------------------------------------------------------------------------
(* Fault: a ban is lifted at its instant, one tick early. *)
UnbannedEarly == [i \in IPs |-> IF suspended[i] # None /\ suspended[i] <= now
                                THEN None ELSE suspended[i]]

(* Suspended: the bans that are left after a sweep. *)
Unbanned == [i \in IPs |-> IF suspended[i] # None /\ suspended[i] < now
                           THEN None ELSE suspended[i]]

SweptSuspended == IF SweepDue(suspended, suspendedSweep) THEN Unbanned ELSE suspended

(* Suspended.Is, then the handler or a refusal. *)
Check(r, i) ==
  /\ pc[r] = "idle"
  /\ ip' = [ip EXCEPT ![r] = i]
  /\ suspended' = [SweptSuspended EXCEPT ![i] = Unbanned[i]]
  /\ suspendedSweep' = IF SweepDue(suspended, suspendedSweep) THEN now ELSE suspendedSweep
  /\ pc' = [pc EXCEPT ![r] = IF Unbanned[i] = None THEN "handler" ELSE "idle"]
  /\ UNCHANGED <<suspected, suspectedSweep, at, now, hits>>

(* The handler answers with a status other than 404. *)
Answered(r) ==
  /\ pc[r] = "handler"
  /\ pc' = [pc EXCEPT ![r] = "idle"]
  /\ UNCHANGED <<mapVars, ip, at, now, hits>>

Stale(item) == item # None /\ item.watchTime < now

SweptSuspected ==
  IF SweepDue(suspected, suspectedSweep)
  THEN [i \in IPs |-> IF Stale(suspected[i]) THEN None ELSE suspected[i]]
  ELSE suspected

(* Fault: a count goes on past its watch period. *)
IncrForever(i) ==
  [count |-> IF SweptSuspected[i] = None THEN 1 ELSE SweptSuspected[i].count + 1,
   watchTime |-> now + WatchPeriod]

(* Suspected.Incr: the item afterwards; none when the watch period is over. *)
Incr(i) ==
  CASE SweptSuspected[i] = None -> [count |-> 1, watchTime |-> now + WatchPeriod]
    [] Stale(SweptSuspected[i]) -> None
    [] OTHER -> [SweptSuspected[i] EXCEPT !.count = @ + 1]

(* The count is over watchCnt, which is WatchCount - 1. *)
TooMany(item) == item # None /\ item.count > WatchCount - 1

NotFound(r) ==
  LET i == ip[r] IN
  /\ pc[r] = "handler" /\ Len(hits[i]) < MaxHits
  /\ suspected' = [SweptSuspected EXCEPT ![i] = Incr(i)]
  /\ suspectedSweep' = IF SweepDue(suspected, suspectedSweep) THEN now ELSE suspectedSweep
  /\ pc' = [pc EXCEPT ![r] = IF TooMany(Incr(i)) THEN "del" ELSE "idle"]
  /\ at' = [at EXCEPT ![r] = IF TooMany(Incr(i)) THEN now ELSE 0]
  /\ hits' = [hits EXCEPT ![i] = Append(@, now)]
  /\ UNCHANGED <<suspended, suspendedSweep, ip, now>>

(* Fault: the count outlives the ban. *)
KeepSuspect(r) ==
  /\ pc[r] = "del"
  /\ pc' = [pc EXCEPT ![r] = "add"]
  /\ UNCHANGED <<mapVars, ip, at, now, hits>>

(* Suspected.Del *)
DelSuspect(r) ==
  /\ pc[r] = "del"
  /\ suspected' = [suspected EXCEPT ![ip[r]] = None]
  /\ pc' = [pc EXCEPT ![r] = "add"]
  /\ UNCHANGED <<suspectedSweep, suspended, suspendedSweep, ip, at, now, hits>>

(* Suspended.Add *)
Ban(r) ==
  /\ pc[r] = "add"
  /\ suspended' = [suspended EXCEPT ![ip[r]] = now + BanPeriod]
  /\ pc' = [pc EXCEPT ![r] = "idle"] /\ at' = [at EXCEPT ![r] = 0]
  /\ UNCHANGED <<suspected, suspectedSweep, suspendedSweep, ip, now, hits>>

(* External: time. *)
Tick ==
  /\ now < MaxTime
  /\ now' = now + 1
  /\ UNCHANGED <<mapVars, pc, ip, at, hits>>

Next ==
  \/ \E r \in Requests, i \in IPs : Check(r, i)
  \/ \E r \in Requests : Answered(r) \/ NotFound(r) \/ DelSuspect(r) \/ Ban(r)
  \/ Tick

Spec == Init /\ [][Next]_vars

----------------------------------------------------------------------------
(* Every item of the map has counted a 404: one is deleted, not kept, when *)
(* its watch period is over (suspected.go:54-57).                          *)
TypeOK ==
  /\ suspected \in [IPs -> SuspectedItem \cup {None}] /\ suspectedSweep \in Int
  /\ suspended \in [IPs -> Int \cup {None}] /\ suspendedSweep \in Int
  /\ pc \in [Requests -> {"idle", "handler", "del", "add"}]
  /\ ip \in [Requests -> IPs] /\ at \in [Requests -> Nat]
  /\ now \in Nat /\ hits \in [IPs -> Seq(Nat)]

HitsSince(i, t) == {n \in 1..Len(hits[i]) : hits[i][n] >= t}

(* Whoever is about to ban an address has WatchCount 404s to it within one *)
(* watch period to show: no count of an earlier period, of another address *)
(* or of a sweep enters into a ban (suspected.go:36-61).                   *)
BanJustified ==
  \A r \in Requests : pc[r] \in {"del", "add"} =>
    Cardinality(HitsSince(ip[r], at[r] - WatchPeriod)) >= WatchCount

(* The tables are well formed, and a ban in the making has its 404s to     *)
(* show (suspected.go:36-61).                                              *)
Inv == TypeOK /\ BanJustified

(* A count that has reached the limit never stands without a request that  *)
(* is about to ban its address, although Incr, Del and Add are separate    *)
(* sections (fail2ban.go:47-56): a ban cannot be missed and be made good   *)
(* only by yet another 404.                                                *)
OverLimitIsPunished ==
  \A i \in IPs : TooMany(suspected[i]) => \E r \in Requests : pc[r] = "del" /\ ip[r] = i

(* A ban ends only after its instant and is never cut short, by no unban,  *)
(* no sweep and no other request's ban (suspended.go:20-48).               *)
BanHolds ==
  [][\A i \in IPs : suspended[i] # None =>
       IF suspended'[i] = None THEN suspended[i] < now ELSE suspended'[i] >= suspended[i]]_vars
=============================================================================
