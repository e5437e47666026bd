--------------------------- MODULE MCGuardsProofs ---------------------------
(***************************************************************************)
(* Theorems about the two middlewares that turn clients away, for any      *)
(* addresses, requests, limits and periods: fail2ban bans nobody without   *)
(* the 404s to show for it, misses no ban and cuts none short, and the     *)
(* rate limiter lets no more through than its buckets allow, whatever it   *)
(* forgets meanwhile.                                                      *)
(***************************************************************************)
EXTENDS MCGuards, FiniteSetTheorems, TLAPS

(* The instants of a sequence that are not before t: HitsSince(i, t) is    *)
(* Since(hits[i], t).                                                      *)
Since(s, t) == {n \in 1..Len(s) : s[n] >= t}

(* Every count of a watch period that has begun is made up of 404s within  *)
(* that period, and no ban reaches further than a ban period from now.     *)
Counted ==
  /\ \A i \in IPs : suspected[i] # None =>
       /\ suspected[i].watchTime <= now + WatchPeriod
       /\ Cardinality(Since(hits[i], suspected[i].watchTime - WatchPeriod)) >= suspected[i].count
  /\ \A i \in IPs : suspended[i] # None => suspended[i] <= now + BanPeriod

(* The inductive invariant of fail2ban. *)
IInv == TypeOK /\ Counted /\ BanJustified /\ OverLimitIsPunished

----------------------------------------------------------------------------
(* The 404s since an instant are finitely many ... *)
LEMMA SinceFinite ==
  ASSUME NEW s \in Seq(Nat), NEW t \in Int
  PROVE  IsFiniteSet(Since(s, t)) /\ Cardinality(Since(s, t)) \in Nat
<1>1. Len(s) \in Nat
  OBVIOUS
<1>2. IsFiniteSet(1..Len(s)) /\ Since(s, t) \subseteq 1..Len(s)
  BY <1>1, FS_Interval DEF Since
<1> QED
  BY <1>2, FS_Subset, FS_CardinalityType

(* ... and there are no fewer since an earlier one. *)
LEMMA EarlierHasMore ==
  ASSUME NEW s \in Seq(Nat), NEW t \in Int, NEW u \in Int, u <= t
  PROVE  Cardinality(Since(s, t)) <= Cardinality(Since(s, u))
<1>1. Since(s, t) \subseteq Since(s, u)
  <2> SUFFICES ASSUME NEW n \in 1..Len(s), s[n] >= t PROVE s[n] >= u
    BY DEF Since
  <2>1. s[n] \in Nat
    OBVIOUS
  <2> QED
    BY <2>1
<1> QED
  BY <1>1, SinceFinite, FS_Subset

(* One more 404 counts for every instant up to its own. *)
LEMMA OneMoreHit ==
  ASSUME NEW s \in Seq(Nat), NEW x \in Nat, NEW t \in Int
  PROVE  /\ Append(s, x) \in Seq(Nat) /\ Cardinality(Since(Append(s, x), t)) \in Nat
         /\ Cardinality(Since(s, t)) \in Nat
         /\ Cardinality(Since(Append(s, x), t)) >= Cardinality(Since(s, t))
         /\ t <= x => Cardinality(Since(Append(s, x), t)) = Cardinality(Since(s, t)) + 1
<1> DEFINE n == Len(s)
           u == Append(s, x)
<1>1. /\ u \in Seq(Nat) /\ n \in Nat /\ Len(u) = n + 1 /\ u[n + 1] = x
      /\ \A k \in 1..n : u[k] = s[k] /\ s[k] \in Nat
  OBVIOUS
<1>2. IsFiniteSet(Since(s, t)) /\ Cardinality(Since(s, t)) \in Nat
  BY SinceFinite
<1> HIDE DEF u, n
<1>3. n + 1 \notin Since(s, t)
  BY <1>1 DEF Since, n
<1>4. CASE t <= x
  <2>1. Since(u, t) = Since(s, t) \cup {n + 1}
    <3>1. ASSUME NEW k \in 1..(n + 1) PROVE k \in Since(u, t) <=> k \in Since(s, t) \cup {n + 1}
      BY <1>1, <1>4 DEF Since, n
    <3>2. Since(u, t) \subseteq 1..(n + 1) /\ Since(s, t) \cup {n + 1} \subseteq 1..(n + 1)
      BY <1>1 DEF Since, n
    <3> QED
      BY <3>1, <3>2
  <2>2. Cardinality(Since(s, t) \cup {n + 1}) = Cardinality(Since(s, t)) + 1
    BY <1>2, <1>3, FS_AddElement
  <2> QED
    BY <1>1, <1>2, <2>1, <2>2 DEF u
<1>5. CASE ~(t <= x)
  <2>1. Since(u, t) = Since(s, t)
    <3>1. ASSUME NEW k \in 1..(n + 1) PROVE k \in Since(u, t) <=> k \in Since(s, t)
      BY <1>1, <1>5 DEF Since, n
    <3>2. Since(u, t) \subseteq 1..(n + 1) /\ Since(s, t) \subseteq 1..(n + 1)
      BY <1>1 DEF Since, n
    <3> QED
      BY <3>1, <3>2
  <2> QED
    BY <1>1, <1>2, <1>5, <2>1 DEF u
<1> QED
  BY <1>4, <1>5

(* A ban is justified, in these terms. *)
LEMMA Justified ==
  BanJustified <=> \A r \in Requests : pc[r] \in {"del", "add"} =>
                     Cardinality(Since(hits[ip[r]], at[r] - WatchPeriod)) >= WatchCount
BY DEF BanJustified, HitsSince, Since

(* Nobody is suspected and nobody banned at the start. *)
LEMMA InitIInv == Init => IInv
<1> SUFFICES ASSUME Init PROVE IInv
  OBVIOUS
<1>1. TypeOK
  BY Fail2BanAssumption DEF Init, TypeOK, LongAgo
<1>2. Counted /\ BanJustified /\ OverLimitIsPunished
  BY DEF Init, Counted, BanJustified, OverLimitIsPunished, TooMany
<1> QED
  BY <1>1, <1>2 DEF IInv

(* A sweep of the suspects forgets some and changes none. *)
LEMMA SweptSuspects ==
  ASSUME TypeOK
  PROVE  /\ SweptSuspected \in [IPs -> SuspectedItem \cup {None}]
         /\ \A j \in IPs : SweptSuspected[j] \in {None, suspected[j]}
BY DEF TypeOK, SweptSuspected

(* What Incr leaves of an address: nothing, or a count that the 404s of    *)
(* its watch period, with the one just answered, are enough for.           *)
LEMMA IncrCounts ==
  ASSUME IInv, NEW i \in IPs, Incr(i) # None
  PROVE  /\ Incr(i) \in SuspectedItem
         /\ now <= Incr(i).watchTime /\ Incr(i).watchTime <= now + WatchPeriod
         /\ Cardinality(Since(Append(hits[i], now), Incr(i).watchTime - WatchPeriod)) >= Incr(i).count
<1> DEFINE x == SweptSuspected[i]
<1> USE Fail2BanAssumption
<1>1. now \in Nat /\ WatchPeriod \in Nat /\ TypeOK /\ hits[i] \in Seq(Nat)
  BY DEF IInv, TypeOK
<1>2. x \in {None, suspected[i]} /\ x \in SuspectedItem \cup {None}
  BY <1>1, SweptSuspects
<1>3. CASE x = None
  <2>1. Incr(i) = [count |-> 1, watchTime |-> now + WatchPeriod]
    BY <1>3 DEF Incr
  <2>2. /\ Incr(i) \in SuspectedItem /\ Incr(i).watchTime = now + WatchPeriod /\ Incr(i).count = 1
        /\ Incr(i).watchTime - WatchPeriod = now
    BY <1>1, <2>1 DEF SuspectedItem
  <2>3. /\ Cardinality(Since(Append(hits[i], now), now)) = Cardinality(Since(hits[i], now)) + 1
        /\ Cardinality(Since(hits[i], now)) \in Nat
    BY <1>1, OneMoreHit
  <2> QED
    BY <1>1, <2>2, <2>3
<1>4. CASE x # None /\ ~Stale(x)
  <2>1. x = suspected[i] /\ x \in SuspectedItem /\ Incr(i) = [x EXCEPT !.count = x.count + 1]
    BY <1>2, <1>4 DEF Incr
  <2>2. x.count \in Nat /\ x.watchTime \in Int /\ now <= x.watchTime
    BY <1>1, <1>4, <2>1 DEF SuspectedItem, Stale
  <2>3. Incr(i) \in SuspectedItem /\ Incr(i).count = x.count + 1 /\ Incr(i).watchTime = x.watchTime
    BY <2>1, <2>2 DEF SuspectedItem
  <2>4. /\ x.watchTime <= now + WatchPeriod
        /\ Cardinality(Since(hits[i], x.watchTime - WatchPeriod)) >= x.count
    BY <1>4, <2>1 DEF IInv, Counted
  <2>5. x.watchTime - WatchPeriod \in Int /\ x.watchTime - WatchPeriod <= now
    BY <1>1, <2>2, <2>4
  <2>6. /\ Cardinality(Since(Append(hits[i], now), x.watchTime - WatchPeriod))
            = Cardinality(Since(hits[i], x.watchTime - WatchPeriod)) + 1
        /\ Cardinality(Since(hits[i], x.watchTime - WatchPeriod)) \in Nat
    BY <1>1, <2>5, OneMoreHit
  <2> HIDE DEF x
  <2> QED
    BY <2>2, <2>3, <2>4, <2>6
<1>5. CASE x # None /\ Stale(x)
  BY <1>5 DEF Incr
<1> QED
  BY <1>3, <1>4, <1>5

(* A 404 adds to the history and to the count, and sends its request to    *)
(* ban when the count is at the limit.                                     *)
LEMMA NotFoundStep == ASSUME IInv, NEW r \in Requests, NotFound(r) PROVE IInv'
<1> USE Fail2BanAssumption
<1>0. PICK i \in IPs : i = ip[r]
  BY DEF IInv, TypeOK
<1> DEFINE x == Incr(i)
<1>1. /\ UNCHANGED <<suspended, suspendedSweep, ip, now>> /\ now \in Nat /\ TypeOK
      /\ suspected' = [SweptSuspected EXCEPT ![i] = x]
      /\ pc[r] = "handler" /\ pc' = [pc EXCEPT ![r] = IF TooMany(x) THEN "del" ELSE "idle"]
      /\ at' = [at EXCEPT ![r] = IF TooMany(x) THEN now ELSE 0]
      /\ hits' = [hits EXCEPT ![i] = Append(hits[i], now)] /\ hits[i] \in Seq(Nat)
      /\ suspectedSweep' \in {now, suspectedSweep}
  BY <1>0 DEF NotFound, IInv, TypeOK
<1>2. /\ SweptSuspected \in [IPs -> SuspectedItem \cup {None}]
      /\ \A j \in IPs : SweptSuspected[j] \in {None, suspected[j]}
  BY <1>1, SweptSuspects
<1>3. x # None => /\ x \in SuspectedItem
                  /\ now <= x.watchTime /\ x.watchTime <= now + WatchPeriod
                  /\ Cardinality(Since(Append(hits[i], now), x.watchTime - WatchPeriod)) >= x.count
  BY IncrCounts
<1>4. /\ hits' \in [IPs -> Seq(Nat)] /\ hits'[i] = Append(hits[i], now)
      /\ \A j \in IPs : j # i => hits'[j] = hits[j]
  BY <1>1, OneMoreHit DEF TypeOK
<1>5. \A j \in IPs, t \in Int :
        /\ Cardinality(Since(hits'[j], t)) \in Nat /\ Cardinality(Since(hits[j], t)) \in Nat
        /\ Cardinality(Since(hits'[j], t)) >= Cardinality(Since(hits[j], t))
  <2> SUFFICES ASSUME NEW j \in IPs, NEW t \in Int
               PROVE  /\ Cardinality(Since(hits'[j], t)) \in Nat
                      /\ Cardinality(Since(hits[j], t)) \in Nat
                      /\ Cardinality(Since(hits'[j], t)) >= Cardinality(Since(hits[j], t))
    OBVIOUS
  <2>1. CASE j = i
    BY <1>1, <1>4, <2>1, OneMoreHit
  <2>2. CASE j # i
    <3>1. hits'[j] = hits[j] /\ hits[j] \in Seq(Nat)
      BY <1>1, <1>4, <2>2 DEF TypeOK
    <3> QED
      BY <3>1, SinceFinite
  <2> QED
    BY <2>1, <2>2
<1> HIDE DEF x
<1>6. \A j \in IPs : suspected'[j] = IF j = i THEN x ELSE SweptSuspected[j]
  BY <1>1, <1>2
<1>7. TypeOK'
  <2>1. suspected' \in [IPs -> SuspectedItem \cup {None}]
    BY <1>1, <1>2, <1>3
  <2> QED
    BY <1>1, <1>4, <2>1 DEF TypeOK
<1>8. Counted'
  <2>1. ASSUME NEW j \in IPs, suspected'[j] # None
        PROVE  /\ suspected'[j].watchTime <= now + WatchPeriod
               /\ Cardinality(Since(hits'[j], suspected'[j].watchTime - WatchPeriod)) >= suspected'[j].count
    <3>1. CASE j = i
      <4>1. suspected'[j] = x /\ hits'[j] = Append(hits[i], now)
        BY <1>4, <1>6, <3>1
      <4> QED
        BY <1>3, <2>1, <4>1
    <3>2. CASE j # i
      <4>1. suspected'[j] = suspected[j] /\ suspected[j] # None
        BY <1>2, <1>6, <2>1, <3>2
      <4>2. suspected[j].watchTime \in Int /\ suspected[j].count \in Nat
        BY <1>1, <4>1 DEF TypeOK, SuspectedItem
      <4>3. /\ suspected[j].watchTime <= now + WatchPeriod
            /\ Cardinality(Since(hits[j], suspected[j].watchTime - WatchPeriod)) >= suspected[j].count
        BY <4>1 DEF IInv, Counted
      <4>4. suspected[j].watchTime - WatchPeriod \in Int
        BY <4>2
      <4> QED
        BY <1>4, <3>2, <4>1, <4>3
    <3> QED
      BY <3>1, <3>2
  <2>2. \A j \in IPs : suspended[j] # None => suspended[j] <= now + BanPeriod
    BY DEF IInv, Counted
  <2> QED
    BY <1>1, <2>1, <2>2 DEF Counted
<1>9. BanJustified'
  <2> SUFFICES ASSUME NEW q \in Requests, pc'[q] \in {"del", "add"}
               PROVE  Cardinality(Since(hits'[ip[q]], at'[q] - WatchPeriod)) >= WatchCount
    BY <1>1 DEF BanJustified, HitsSince, Since
  <2>1. CASE q = r
    <3>1. TooMany(x) /\ at'[q] = now /\ hits'[ip[q]] = Append(hits[i], now)
      BY <1>0, <1>1, <1>4, <2>1 DEF TypeOK
    <3>2. x \in SuspectedItem /\ x.count >= WatchCount /\ x.count \in Nat /\ x.watchTime \in Int
      BY <1>3, <3>1 DEF TooMany, SuspectedItem
    <3>3. /\ Cardinality(Since(Append(hits[i], now), x.watchTime - WatchPeriod)) >= x.count
          /\ now <= x.watchTime
      BY <1>3, <3>1 DEF TooMany
    <3>4. now - WatchPeriod \in Int /\ x.watchTime - WatchPeriod \in Int
          /\ now - WatchPeriod <= x.watchTime - WatchPeriod /\ Append(hits[i], now) \in Seq(Nat)
      BY <1>1, <3>2, <3>3
    <3>5. Cardinality(Since(Append(hits[i], now), x.watchTime - WatchPeriod))
            <= Cardinality(Since(Append(hits[i], now), now - WatchPeriod))
      BY <3>4, EarlierHasMore
    <3>6. /\ Cardinality(Since(Append(hits[i], now), x.watchTime - WatchPeriod)) \in Nat
          /\ Cardinality(Since(Append(hits[i], now), now - WatchPeriod)) \in Nat
      BY <3>4, SinceFinite
    <3> QED
      BY <3>1, <3>2, <3>3, <3>5, <3>6
  <2>2. CASE q # r
    <3>1. pc[q] \in {"del", "add"} /\ at'[q] = at[q] /\ ip[q] \in IPs /\ at[q] \in Nat
      BY <1>1, <2>2 DEF TypeOK
    <3>2. Cardinality(Since(hits[ip[q]], at[q] - WatchPeriod)) >= WatchCount
      BY <3>1, Justified DEF IInv
    <3>3. at[q] - WatchPeriod \in Int
      BY <3>1
    <3> QED
      BY <1>5, <3>1, <3>2, <3>3
  <2> QED
    BY <2>1, <2>2
<1>10. OverLimitIsPunished'
  <2> SUFFICES ASSUME NEW j \in IPs, TooMany(suspected'[j])
               PROVE  \E q \in Requests : pc'[q] = "del" /\ ip[q] = j
    BY <1>1 DEF OverLimitIsPunished, TooMany
  <2>1. CASE j = i
    <3>1. pc'[r] = "del" /\ ip[r] = j
      BY <1>0, <1>1, <1>6, <2>1 DEF TypeOK
    <3> QED
      BY <3>1
  <2>2. CASE j # i
    <3>1. TooMany(suspected[j])
      BY <1>2, <1>6, <2>2 DEF TooMany
    <3>2. PICK q \in Requests : pc[q] = "del" /\ ip[q] = j
      BY <3>1 DEF IInv, OverLimitIsPunished
    <3>3. pc'[q] = "del"
      BY <1>1, <3>2 DEF TypeOK
    <3> QED
      BY <3>2, <3>3
  <2> QED
    BY <2>1, <2>2
<1> QED
  BY <1>7, <1>8, <1>9, <1>10 DEF IInv

(* A step without a 404 that brings in no count keeps what is counted and  *)
(* justified.                                                              *)
LEMMA NoHitStep ==
  ASSUME IInv, TypeOK', UNCHANGED hits, now' >= now,
         \A i \in IPs : suspected'[i] \in {None, suspected[i]},
         \A i \in IPs : suspended'[i] \in {None, suspended[i], now + BanPeriod},
         \A r \in Requests : pc'[r] \in {"del", "add"} =>
           pc[r] \in {"del", "add"} /\ ip'[r] = ip[r] /\ at'[r] = at[r]
  PROVE  Counted' /\ BanJustified'
<1> USE Fail2BanAssumption
<1>1. now \in Nat /\ now' \in Nat
  BY DEF IInv, TypeOK
<1>2. ASSUME NEW i \in IPs, suspected'[i] # None
      PROVE  /\ suspected'[i].watchTime <= now' + WatchPeriod
             /\ Cardinality(Since(hits'[i], suspected'[i].watchTime - WatchPeriod)) >= suspected'[i].count
  <2>1. suspected'[i] = suspected[i] /\ suspected[i] # None /\ hits' = hits
    BY <1>2
  <2>2. suspected[i].watchTime \in Int
    BY <2>1 DEF IInv, TypeOK, SuspectedItem
  <2>3. /\ suspected[i].watchTime <= now + WatchPeriod
        /\ Cardinality(Since(hits[i], suspected[i].watchTime - WatchPeriod)) >= suspected[i].count
    BY <2>1 DEF IInv, Counted
  <2>4. suspected[i].watchTime <= now' + WatchPeriod
    BY <1>1, <2>2, <2>3
  <2> QED
    BY <2>1, <2>3, <2>4
<1>3. ASSUME NEW i \in IPs, suspended'[i] # None PROVE suspended'[i] <= now' + BanPeriod
  <2>1. CASE suspended'[i] = suspended[i]
    <3>1. suspended[i] \in Int /\ suspended[i] <= now + BanPeriod
      BY <1>3, <2>1 DEF IInv, TypeOK, Counted
    <3> QED
      BY <1>1, <2>1, <3>1
  <2>2. CASE suspended'[i] = now + BanPeriod
    BY <1>1, <2>2
  <2> QED
    BY <1>3, <2>1, <2>2
<1>4. BanJustified'
  BY DEF IInv, BanJustified, HitsSince
<1> QED
  BY <1>2, <1>3, <1>4 DEF Counted

(* What Suspended.Is and its sweep leave of the bans. *)
LEMMA BansLeft ==
  ASSUME TypeOK, NEW i \in IPs, NEW r \in Requests, Check(r, i)
  PROVE  /\ suspended' \in [IPs -> Int \cup {None}]
         /\ \A j \in IPs : \/ suspended'[j] = suspended[j]
                           \/ suspended'[j] = None /\ suspended[j] < now
<1>1. /\ Unbanned \in [IPs -> Int \cup {None}]
      /\ \A j \in IPs : \/ Unbanned[j] = suspended[j]
                        \/ Unbanned[j] = None /\ suspended[j] < now
  BY DEF TypeOK, Unbanned
<1>2. /\ SweptSuspended \in [IPs -> Int \cup {None}]
      /\ \A j \in IPs : \/ SweptSuspended[j] = suspended[j]
                        \/ SweptSuspended[j] = None /\ suspended[j] < now
  BY <1>1 DEF TypeOK, SweptSuspended
<1>3. suspended' = [SweptSuspended EXCEPT ![i] = Unbanned[i]]
  BY DEF Check
<1> QED
  BY <1>1, <1>2, <1>3

(* Check lifts bans that have ended and lets the request in or not. *)
LEMMA CheckStep == ASSUME IInv, NEW r \in Requests, NEW i \in IPs, Check(r, i) PROVE IInv'
<1> USE Fail2BanAssumption
<1>1. /\ UNCHANGED <<suspected, suspectedSweep, at, now, hits>> /\ TypeOK
      /\ pc[r] = "idle" /\ ip' = [ip EXCEPT ![r] = i] /\ suspendedSweep' \in {now, suspendedSweep}
      /\ pc' = [pc EXCEPT ![r] = IF Unbanned[i] = None THEN "handler" ELSE "idle"]
  BY DEF Check, IInv
<1>2. /\ suspended' \in [IPs -> Int \cup {None}]
      /\ \A j \in IPs : suspended'[j] \in {None, suspended[j]}
  BY <1>1, BansLeft
<1>3. TypeOK'
  BY <1>1, <1>2 DEF TypeOK
<1>4. \A q \in Requests : pc'[q] \in {"del", "add"} => pc'[q] = pc[q] /\ ip'[q] = ip[q] /\ at'[q] = at[q]
  BY <1>1 DEF TypeOK
<1>5. now' >= now
  BY <1>1 DEF TypeOK
<1>6. Counted' /\ BanJustified'
  BY <1>1, <1>2, <1>3, <1>4, <1>5, NoHitStep
<1>7. \A q \in Requests : pc[q] = "del" => pc'[q] = "del" /\ ip'[q] = ip[q]
  BY <1>1 DEF TypeOK
<1>8. OverLimitIsPunished'
  BY <1>1, <1>7 DEF IInv, OverLimitIsPunished, TooMany
<1> QED
  BY <1>3, <1>6, <1>8 DEF IInv

(* The suspect is forgotten only by the request that goes on to ban it. *)
LEMMA DelSuspectStep == ASSUME IInv, NEW r \in Requests, DelSuspect(r) PROVE IInv'
<1> USE Fail2BanAssumption
<1>1. /\ UNCHANGED <<suspectedSweep, suspended, suspendedSweep, ip, at, now, hits>> /\ TypeOK
      /\ pc[r] = "del" /\ pc' = [pc EXCEPT ![r] = "add"]
      /\ suspected' = [suspected EXCEPT ![ip[r]] = None] /\ ip[r] \in IPs
  BY DEF DelSuspect, IInv, TypeOK
<1>2. TypeOK' /\ now' >= now
  BY <1>1 DEF TypeOK
<1>3. \A j \in IPs : suspected'[j] = IF j = ip[r] THEN None ELSE suspected[j]
  BY <1>1 DEF TypeOK
<1>4. \A q \in Requests : pc'[q] = IF q = r THEN "add" ELSE pc[q]
  BY <1>1 DEF TypeOK
<1>5. Counted' /\ BanJustified'
  BY <1>1, <1>2, <1>3, <1>4, NoHitStep
<1>6. OverLimitIsPunished'
  BY <1>1, <1>3, <1>4 DEF IInv, OverLimitIsPunished, TooMany
<1> QED
  BY <1>2, <1>5, <1>6 DEF IInv

(* Steps that leave the suspects and the requests that are to ban alone. *)
LEMMA OtherStep ==
  ASSUME IInv, \/ \E r \in Requests : Answered(r) \/ Ban(r)
               \/ Tick \/ UNCHANGED vars
  PROVE  IInv'
<1> USE Fail2BanAssumption
<1>1. /\ UNCHANGED <<suspected, suspectedSweep, suspendedSweep, ip, hits>> /\ TypeOK
      /\ now' \in Nat /\ now' >= now
  BY DEF Answered, Ban, Tick, vars, mapVars, IInv, TypeOK
<1>2. pc' \in [Requests -> {"idle", "handler", "del", "add"}] /\ at' \in [Requests -> Nat]
  <2>1. \/ UNCHANGED <<pc, at>>
        \/ \E r \in Requests : pc' = [pc EXCEPT ![r] = "idle"] /\ (at' = at \/ at' = [at EXCEPT ![r] = 0])
    BY DEF Answered, Ban, Tick, vars
  <2>2. ASSUME NEW r \in Requests, pc' = [pc EXCEPT ![r] = "idle"], at' = at \/ at' = [at EXCEPT ![r] = 0]
        PROVE  pc' \in [Requests -> {"idle", "handler", "del", "add"}] /\ at' \in [Requests -> Nat]
    <3>1. pc \in [Requests -> {"idle", "handler", "del", "add"}] /\ at \in [Requests -> Nat]
      BY <1>1 DEF TypeOK
    <3>2. pc' \in [Requests -> {"idle", "handler", "del", "add"}]
      BY <2>2, <3>1
    <3>3. at' \in [Requests -> Nat]
      BY <2>2, <3>1
    <3> QED
      BY <3>2, <3>3
  <2>3. CASE UNCHANGED <<pc, at>>
    BY <1>1, <2>3 DEF TypeOK
  <2> QED
    BY <2>1, <2>2, <2>3
<1>3. /\ suspended' \in [IPs -> Int \cup {None}]
      /\ \A i \in IPs : suspended'[i] \in {None, suspended[i], now + BanPeriod}
  BY <1>1 DEF Answered, Ban, Tick, vars, mapVars, TypeOK
<1>4. \A q \in Requests : /\ pc'[q] \in {"del", "add"} => pc'[q] = pc[q] /\ at'[q] = at[q]
                          /\ pc[q] = "del" => pc'[q] = "del"
  BY <1>1 DEF Answered, Ban, Tick, vars, mapVars, TypeOK
<1>5. TypeOK'
  BY <1>1, <1>2, <1>3 DEF TypeOK
<1>6. Counted' /\ BanJustified'
  BY <1>1, <1>3, <1>4, <1>5, NoHitStep
<1>7. OverLimitIsPunished'
  BY <1>1, <1>4 DEF IInv, OverLimitIsPunished, TooMany
<1> QED
  BY <1>5, <1>6, <1>7 DEF IInv

(* IInv is inductive. *)
LEMMA NextIInv == IInv /\ [Next]_vars => IInv'
BY CheckStep, NotFoundStep, DelSuspectStep, OtherStep DEF Next

(* A count that has reached the limit never stands without a request that  *)
(* is about to ban its address (fail2ban.go:47-56).                        *)
THEOREM OverLimitIsPunishedAlways == Spec => []OverLimitIsPunished
<1>1. IInv => OverLimitIsPunished
  BY DEF IInv
<1> QED
  BY <1>1, InitIInv, NextIInv, PTL DEF Spec

(* A ban ends only after its instant and is never cut short, by no unban,  *)
(* no sweep and no other request's ban (suspended.go:20-48).               *)
THEOREM BanHoldsAlways == Spec => BanHolds
<1> DEFINE Held == \A i \in IPs : suspended[i] # None =>
                     IF suspended'[i] = None THEN suspended[i] < now ELSE suspended'[i] >= suspended[i]
<1>1. IInv /\ [Next]_vars => [Held]_vars
  <2> SUFFICES ASSUME IInv, Next, NEW i \in IPs, suspended[i] # None
               PROVE  IF suspended'[i] = None THEN suspended[i] < now ELSE suspended'[i] >= suspended[i]
    OBVIOUS
  <2> USE Fail2BanAssumption
  <2>1. suspended[i] \in Int /\ now \in Nat /\ suspended[i] <= now + BanPeriod /\ TypeOK
    BY DEF IInv, TypeOK, Counted
  <2>2. CASE suspended' = suspended
    BY <2>1, <2>2
  <2>3. ASSUME NEW r \in Requests, NEW j \in IPs, Check(r, j)
        PROVE  IF suspended'[i] = None THEN suspended[i] < now ELSE suspended'[i] >= suspended[i]
    BY <2>1, <2>3, BansLeft
  <2>4. ASSUME NEW r \in Requests, Ban(r)
        PROVE  IF suspended'[i] = None THEN suspended[i] < now ELSE suspended'[i] >= suspended[i]
    <3>1. suspended'[i] \in {suspended[i], now + BanPeriod}
      BY <2>1, <2>4 DEF Ban, TypeOK
    <3> QED
      BY <2>1, <3>1
  <2> QED
    BY <2>2, <2>3, <2>4 DEF Next, Answered, NotFound, DelSuspect, Tick, mapVars
<1> QED
  BY <1>1, InitIInv, NextIInv, PTL DEF Spec, BanHolds
----------------------------------------------------------------------------
(* The rate limiter.  A request that is under way was looked up not long   *)
(* ago and its address seen since, so that no sweep forgets its bucket.    *)
RateInv ==
  /\ rnow \in 0..RateTime /\ requests \in 0..MaxRequests /\ limits \subseteq IPs
  /\ tokens \in [IPs -> 0..Limit] /\ filled \in [IPs -> 0..rnow] /\ lastSeen \in [IPs -> 0..rnow]
  /\ lastSweep \in -(EvictInterval + 1)..rnow
  /\ pending \in [Requests -> SUBSET IPs] /\ since \in [Requests -> 0..rnow]
  /\ \A w \in Requests : pending[w] # {} =>
       \E a \in limits : pending[w] = {a} /\ rnow - since[w] <= MaxDelay /\ since[w] <= lastSeen[a]
  /\ asked \in [IPs -> [0..RateTime -> Nat]] /\ served \in [IPs -> [0..RateTime -> Nat]]
  /\ \A a \in IPs, t \in 0..RateTime : served[a][t] <= asked[a][t]

(* What is assumed of the settings, under their names here. *)
LEMMA RateConstants ==
  /\ Limit \in Nat /\ Seconds \in Nat /\ RateThreshold \in Nat /\ EvictInterval \in Nat
  /\ IdleTimeout \in Nat /\ MaxDelay \in Nat /\ RateTime \in Nat /\ MaxRequests \in Nat
  /\ MaxDelay <= IdleTimeout /\ Limit <= Seconds * (IdleTimeout - MaxDelay)
BY RateAssumed DEF Rate!RateAssumption

(* No bucket at the start. *)
LEMMA InitRateInv == Rate!Init => RateInv
BY RateConstants DEF Rate!Init, Rate!Times, Rate!Idle, RateInv

(* What a bucket of x tokens holds k seconds later. *)
Refilled(x, k) == IF Limit <= x + Seconds * k THEN Limit ELSE x + Seconds * k

(* It is never over its burst, gains Seconds tokens a second at most, and  *)
(* is full after the idle time, whatever delay there was.                  *)
LEMMA Refills ==
  ASSUME NEW x \in 0..Limit, NEW k \in Nat
  PROVE  /\ Refilled(x, k) \in 0..Limit /\ Refilled(x, 0) = x
         /\ Refilled(x, k + 1) <= Refilled(x, k) + Seconds
         /\ k >= IdleTimeout - MaxDelay => Refilled(x, k) = Limit
<1> USE RateConstants
<1>1. Seconds * k \in Nat /\ Seconds * (k + 1) = Seconds * k + Seconds /\ Seconds * 0 = 0
  OBVIOUS
<1>2. k >= IdleTimeout - MaxDelay => Seconds * (IdleTimeout - MaxDelay) <= Seconds * k
  <2> SUFFICES ASSUME k >= IdleTimeout - MaxDelay PROVE Seconds * (IdleTimeout - MaxDelay) <= Seconds * k
    OBVIOUS
  <2> DEFINE d == IdleTimeout - MaxDelay
             e == k - d
  <2>1. d \in Nat /\ e \in Nat /\ k = d + e
    OBVIOUS
  <2> HIDE DEF d, e
  <2>2. Seconds * k = Seconds * d + Seconds * e /\ Seconds * e \in Nat /\ Seconds * d \in Nat
    BY <2>1
  <2> QED
    BY <2>2 DEF d
<1>3. Seconds * (IdleTimeout - MaxDelay) \in Nat
  OBVIOUS
<1> QED
  BY <1>1, <1>2, <1>3 DEF Refilled

(* The lesser of two numbers. *)
LEMMA MinOf ==
  ASSUME NEW m \in Int, NEW n \in Int
  PROVE  Rate!Min({m, n}) = IF m <= n THEN m ELSE n
<1>1. \E x \in {m, n} : \A y \in {m, n} : x <= y
  OBVIOUS
<1>2. Rate!Min({m, n}) \in {m, n} /\ \A y \in {m, n} : Rate!Min({m, n}) <= y
  BY <1>1 DEF Rate!Min
<1> QED
  BY <1>2

(* What Allow finds in a bucket ... *)
LEMMA TokensAre ==
  ASSUME RateInv, NEW a \in IPs
  PROVE  /\ Rate!Tokens(a) = Refilled(tokens[a], rnow - filled[a])
         /\ rnow - filled[a] \in Nat /\ tokens[a] \in 0..Limit
<1>1. tokens[a] \in 0..Limit /\ rnow - filled[a] \in Nat
  BY RateConstants DEF RateInv
<1> DEFINE k == rnow - filled[a]
<1>2. Seconds * k \in Nat /\ tokens[a] + Seconds * k \in Int /\ Limit \in Int
  <2> HIDE DEF k
  <2> QED
    BY <1>1, RateConstants DEF k
<1> QED
  BY <1>1, <1>2, MinOf DEF Rate!Tokens, Refilled

(* ... and after the step. *)
LEMMA TokensWillBe ==
  ASSUME RateInv', NEW a \in IPs
  PROVE  /\ Rate!Tokens(a)' = Refilled(tokens'[a], rnow' - filled'[a])
         /\ rnow' - filled'[a] \in Nat /\ tokens'[a] \in 0..Limit
<1>1. tokens'[a] \in 0..Limit /\ rnow' - filled'[a] \in Nat
  BY RateConstants DEF RateInv
<1> DEFINE k == rnow' - filled'[a]
<1>2. Seconds * k \in Nat /\ tokens'[a] + Seconds * k \in Int /\ Limit \in Int
  <2> HIDE DEF k
  <2> QED
    BY <1>1, RateConstants DEF k
<1> QED
  BY <1>1, <1>2, MinOf DEF Rate!Tokens, Refilled

(* Allow finds no more tokens than the burst. *)
LEMMA WithinBurst ==
  ASSUME RateInv, NEW a \in IPs
  PROVE  Rate!Tokens(a) \in 0..Limit
BY TokensAre, Refills

(* The look-up makes or refreshes one bucket and sweeps idle ones, none of *)
(* which a request has still in hand.                                      *)
LEMMA LookupStep ==
  ASSUME RateInv, NEW w \in Requests, NEW a \in IPs, Rate!Lookup(w, a)
  PROVE  RateInv'
<1> USE RateConstants
<1> DEFINE lims == limits \cup {a}
<1>1. /\ UNCHANGED <<rnow, asked, served>> /\ rnow \in Nat
      /\ pending' = [pending EXCEPT ![w] = {a}] /\ since' = [since EXCEPT ![w] = rnow]
      /\ lastSeen' = [lastSeen EXCEPT ![a] = rnow] /\ requests' = requests + 1
      /\ requests < MaxRequests
      /\ limits' = lims \ Rate!Swept(lims, lastSeen') /\ lastSweep' \in {rnow, lastSweep}
      /\ tokens' \in {tokens, [tokens EXCEPT ![a] = Limit]}
      /\ filled' \in {filled, [filled EXCEPT ![a] = rnow]}
  BY DEF Rate!Lookup, RateInv
<1>2. tokens' \in [IPs -> 0..Limit] /\ filled' \in [IPs -> 0..rnow] /\ lastSeen' \in [IPs -> 0..rnow]
  <2>1. tokens' \in [IPs -> 0..Limit]
    <3>1. Limit \in 0..Limit /\ tokens \in [IPs -> 0..Limit]
      BY DEF RateInv
    <3> QED
      BY <1>1, <3>1
  <2>2. rnow \in 0..rnow /\ filled \in [IPs -> 0..rnow] /\ lastSeen \in [IPs -> 0..rnow]
    BY <1>1 DEF RateInv
  <2>3. filled' \in [IPs -> 0..rnow]
    BY <1>1, <2>2
  <2>4. lastSeen' \in [IPs -> 0..rnow]
    BY <1>1, <2>2
  <2> QED
    BY <2>1, <2>3, <2>4
<1>3. (\A b \in IPs : lastSeen[b] <= lastSeen'[b]) /\ lastSeen'[a] = rnow
  <2>1. lastSeen \in [IPs -> 0..rnow]
    BY DEF RateInv
  <2>2. \A b \in IPs : lastSeen'[b] = IF b = a THEN rnow ELSE lastSeen[b]
    BY <1>1, <2>1
  <2>3. \A b \in IPs : lastSeen[b] \in Nat /\ lastSeen[b] <= rnow
    BY <1>1, <2>1
  <2> QED
    BY <1>1, <2>2, <2>3
<1>4. \A b \in lims : rnow - lastSeen'[b] <= IdleTimeout => b \in limits'
  <2> SUFFICES ASSUME NEW b \in lims, rnow - lastSeen'[b] <= IdleTimeout
               PROVE  b \notin Rate!Swept(lims, lastSeen')
    BY <1>1
  <2>1. b \in IPs /\ rnow - lastSeen'[b] \in Int
    <3>1. b \in IPs
      BY DEF RateInv
    <3>2. lastSeen'[b] \in Nat
      BY <1>1, <1>2, <3>1
    <3> QED
      BY <1>1, <3>1, <3>2
  <2> QED
    BY <2>1 DEF Rate!Swept
<1>5. ASSUME NEW v \in Requests, pending'[v] # {}
      PROVE  \E b \in limits' : /\ pending'[v] = {b} /\ rnow - since'[v] <= MaxDelay
                                /\ since'[v] <= lastSeen'[b]
  <2>1. CASE v = w
    <3>1. pending'[v] = {a} /\ since'[v] = rnow /\ rnow - since'[v] <= MaxDelay /\ since'[v] <= lastSeen'[a]
      <4>1. pending \in [Requests -> SUBSET IPs] /\ since \in [Requests -> 0..rnow]
        BY DEF RateInv
      <4>2. pending'[v] = {a} /\ since'[v] = rnow
        BY <1>1, <2>1, <4>1
      <4> QED
        BY <1>1, <1>3, <4>2
    <3>2. a \in limits'
      <4>1. a \in lims /\ rnow - lastSeen'[a] = 0
        BY <1>1, <1>3
      <4> QED
        BY <1>4, <4>1
    <3> QED
      BY <3>1, <3>2
  <2>2. CASE v # w
    <3>1. pending'[v] = pending[v] /\ since'[v] = since[v] /\ since[v] \in Nat
      BY <1>1, <2>2 DEF RateInv
    <3>2. PICK b \in limits : pending[v] = {b} /\ rnow - since[v] <= MaxDelay /\ since[v] <= lastSeen[b]
      BY <1>5, <3>1 DEF RateInv
    <3>3. b \in IPs /\ lastSeen[b] \in Nat /\ lastSeen'[b] \in Nat /\ lastSeen[b] <= lastSeen'[b]
      BY <1>2, <1>3 DEF RateInv
    <3>4. since[v] <= lastSeen'[b] /\ rnow - lastSeen'[b] <= IdleTimeout
      BY <1>1, <3>1, <3>2, <3>3
    <3>5. b \in limits'
      BY <1>4, <3>4
    <3> QED
      BY <3>1, <3>2, <3>4, <3>5
  <2> QED
    BY <2>1, <2>2
<1>6. pending' \in [Requests -> SUBSET IPs] /\ since' \in [Requests -> 0..rnow]
  BY <1>1 DEF RateInv
<1>7. requests' \in 0..MaxRequests /\ limits' \subseteq IPs /\ lastSweep' \in -(EvictInterval + 1)..rnow
  BY <1>1 DEF RateInv
<1> QED
  BY <1>1, <1>2, <1>5, <1>6, <1>7 DEF RateInv

(* One more in the history of an address. *)
OneMore(f, a, t) == [f EXCEPT ![a][t] = @ + 1]

(* One more in a history leaves it a history. *)
LEMMA OneMoreType ==
  ASSUME NEW f \in [IPs -> [0..RateTime -> Nat]], NEW a \in IPs, NEW t \in 0..RateTime
  PROVE  OneMore(f, a, t) \in [IPs -> [0..RateTime -> Nat]]
<1> DEFINE h == [f[a] EXCEPT ![t] = f[a][t] + 1]
<1>1. f[a] \in [0..RateTime -> Nat]
  OBVIOUS
<1>2. f[a][t] \in Nat
  BY <1>1
<1>3. h \in [0..RateTime -> Nat]
  BY <1>1, <1>2
<1>4. OneMore(f, a, t) = [f EXCEPT ![a] = h]
  BY DEF OneMore
<1> HIDE DEF h
<1> QED
  BY <1>3, <1>4

(* Allow takes a token of the bucket that the look-up returned, or none. *)
LEMMA AllowStep == ASSUME RateInv, NEW w \in Requests, Rate!Allow(w) PROVE RateInv'
<1> USE RateConstants
<1>1. PICK a \in pending[w] :
        /\ filled' = [filled EXCEPT ![a] = rnow]
        /\ asked' = OneMore(asked, a, rnow)
        /\ IF Rate!Tokens(a) >= 1
           THEN /\ tokens' = [tokens EXCEPT ![a] = Rate!Tokens(a) - 1]
                /\ served' = OneMore(served, a, rnow)
           ELSE tokens' = [tokens EXCEPT ![a] = Rate!Tokens(a)] /\ UNCHANGED served
        /\ pending' = [pending EXCEPT ![w] = {}] /\ since' = [since EXCEPT ![w] = 0]
        /\ UNCHANGED <<rnow, limits, lastSeen, lastSweep, requests>>
  BY DEF Rate!Allow, Rate!Idle, OneMore
<1>2. a \in IPs /\ rnow \in 0..RateTime /\ Rate!Tokens(a) \in 0..Limit
  BY WithinBurst DEF RateInv
<1>3. tokens' \in [IPs -> 0..Limit]
  <2>1. Rate!Tokens(a) >= 1 => Rate!Tokens(a) - 1 \in 0..Limit
    BY <1>2
  <2> QED
    BY <1>1, <1>2, <2>1 DEF RateInv
<1>4. filled' \in [IPs -> 0..rnow]
  BY <1>1, <1>2 DEF RateInv
<1>5. pending' \in [Requests -> SUBSET IPs] /\ since' \in [Requests -> 0..rnow]
  BY <1>1, <1>2 DEF RateInv
<1>6. \A v \in Requests : pending'[v] # {} => pending'[v] = pending[v] /\ since'[v] = since[v]
  BY <1>1 DEF RateInv
<1>7. /\ asked' \in [IPs -> [0..RateTime -> Nat]] /\ served' \in [IPs -> [0..RateTime -> Nat]]
      /\ \A b \in IPs, t \in 0..RateTime : served'[b][t] <= asked'[b][t]
  <2>1. /\ asked \in [IPs -> [0..RateTime -> Nat]] /\ served \in [IPs -> [0..RateTime -> Nat]]
        /\ \A b \in IPs, t \in 0..RateTime : served[b][t] <= asked[b][t]
    BY DEF RateInv
  <2>2. OneMore(asked, a, rnow) \in [IPs -> [0..RateTime -> Nat]]
    BY <1>2, <2>1, OneMoreType
  <2>3. OneMore(served, a, rnow) \in [IPs -> [0..RateTime -> Nat]]
    BY <1>2, <2>1, OneMoreType
  <2>4. served' \in [IPs -> [0..RateTime -> Nat]] /\ asked' \in [IPs -> [0..RateTime -> Nat]]
    BY <1>1, <2>1, <2>2, <2>3
  <2>5. ASSUME NEW b \in IPs, NEW t \in 0..RateTime PROVE served'[b][t] <= asked'[b][t]
    <3>0. ASSUME NEW f \in [IPs -> [0..RateTime -> Nat]]
          PROVE  OneMore(f, a, rnow)[b][t] = IF b = a /\ t = rnow THEN f[b][t] + 1 ELSE f[b][t]
      <4>1. f[a] \in [0..RateTime -> Nat]
        BY <1>2
      <4>2. OneMore(f, a, rnow)[b] = IF b = a THEN [f[a] EXCEPT ![rnow] = f[a][rnow] + 1] ELSE f[b]
        BY <1>2 DEF OneMore
      <4> QED
        BY <1>2, <4>1, <4>2
    <3>1. asked'[b][t] = IF b = a /\ t = rnow THEN asked[b][t] + 1 ELSE asked[b][t]
      BY <1>1, <2>1, <3>0
    <3>2. served'[b][t] = served[b][t] \/ (b = a /\ t = rnow /\ served'[b][t] = served[b][t] + 1)
      BY <1>1, <2>1, <3>0
    <3>3. served[b][t] \in Nat /\ asked[b][t] \in Nat /\ served[b][t] <= asked[b][t]
      BY <2>1
    <3> QED
      BY <3>1, <3>2, <3>3
  <2> QED
    BY <2>4, <2>5
<1>8. ASSUME NEW v \in Requests, pending'[v] # {}
      PROVE  \E b \in limits' : /\ pending'[v] = {b} /\ rnow' - since'[v] <= MaxDelay
                                /\ since'[v] <= lastSeen'[b]
  <2>1. pending'[v] = pending[v] /\ since'[v] = since[v]
    BY <1>6, <1>8
  <2>2. \E b \in limits : pending[v] = {b} /\ rnow - since[v] <= MaxDelay /\ since[v] <= lastSeen[b]
    BY <1>8, <2>1 DEF RateInv
  <2> QED
    BY <1>1, <2>1, <2>2
<1>9. /\ rnow' \in 0..RateTime /\ requests' \in 0..MaxRequests /\ limits' \subseteq IPs
      /\ lastSweep' \in -(EvictInterval + 1)..rnow' /\ lastSeen' \in [IPs -> 0..rnow']
  BY <1>1 DEF RateInv
<1>10. filled' \in [IPs -> 0..rnow'] /\ since' \in [Requests -> 0..rnow']
  BY <1>1, <1>4, <1>5
<1> QED
  BY <1>3, <1>5, <1>7, <1>8, <1>9, <1>10 DEF RateInv

(* The totals of a second go over into the next. *)
Carried(f, n) == [a \in IPs |-> [f[a] EXCEPT ![n + 1] = f[a][n]]]

LEMMA CarriedType ==
  ASSUME NEW f \in [IPs -> [0..RateTime -> Nat]], NEW n \in 0..RateTime, n < RateTime
  PROVE  /\ Carried(f, n) \in [IPs -> [0..RateTime -> Nat]]
         /\ \A a \in IPs, t \in 0..RateTime : Carried(f, n)[a][t] = IF t = n + 1 THEN f[a][n] ELSE f[a][t]
<1>1. ASSUME NEW a \in IPs
      PROVE  /\ Carried(f, n)[a] = [f[a] EXCEPT ![n + 1] = f[a][n]]
             /\ Carried(f, n)[a] \in [0..RateTime -> Nat]
             /\ \A t \in 0..RateTime : Carried(f, n)[a][t] = IF t = n + 1 THEN f[a][n] ELSE f[a][t]
  <2>1. f[a] \in [0..RateTime -> Nat] /\ f[a][n] \in Nat /\ n + 1 \in 0..RateTime
    BY RateConstants
  <2>2. Carried(f, n)[a] = [f[a] EXCEPT ![n + 1] = f[a][n]]
    BY DEF Carried
  <2> QED
    BY <2>1, <2>2
<1> QED
  BY <1>1 DEF Carried

(* Time passes only while no request is kept from Allow for longer than    *)
(* MaxDelay.                                                               *)
LEMMA RateTickStep == ASSUME RateInv, Rate!Tick PROVE RateInv'
<1> USE RateConstants
<1>1. /\ UNCHANGED <<limits, tokens, filled, lastSeen, lastSweep, pending, since, requests>>
      /\ asked' = Carried(asked, rnow) /\ served' = Carried(served, rnow)
      /\ rnow' = rnow + 1 /\ rnow < RateTime /\ rnow \in Nat /\ rnow \in 0..RateTime
      /\ \A w \in Requests : pending[w] # {} => rnow - since[w] < MaxDelay
  BY DEF Rate!Tick, Rate!Idle, RateInv, Carried
<1>2. filled' \in [IPs -> 0..rnow'] /\ lastSeen' \in [IPs -> 0..rnow'] /\ since' \in [Requests -> 0..rnow']
  <2>1. 0..rnow \subseteq 0..rnow'
    BY <1>1
  <2> QED
    BY <1>1, <2>1 DEF RateInv
<1>3. rnow' \in 0..RateTime /\ lastSweep' \in -(EvictInterval + 1)..rnow'
  BY <1>1 DEF RateInv
<1>4. \A w \in Requests : pending[w] # {} => rnow' - since[w] <= MaxDelay
  <2>1. \A w \in Requests : since[w] \in Nat
    BY <1>1 DEF RateInv
  <2> QED
    BY <1>1, <2>1
<1>5. /\ asked' \in [IPs -> [0..RateTime -> Nat]] /\ served' \in [IPs -> [0..RateTime -> Nat]]
      /\ \A a \in IPs, t \in 0..RateTime : served'[a][t] <= asked'[a][t]
  <2>1. /\ asked \in [IPs -> [0..RateTime -> Nat]] /\ served \in [IPs -> [0..RateTime -> Nat]]
        /\ \A a \in IPs, t \in 0..RateTime : served[a][t] <= asked[a][t]
    BY DEF RateInv
  <2>2. /\ Carried(asked, rnow) \in [IPs -> [0..RateTime -> Nat]]
        /\ Carried(served, rnow) \in [IPs -> [0..RateTime -> Nat]]
        /\ \A a \in IPs, t \in 0..RateTime :
             /\ Carried(asked, rnow)[a][t] = IF t = rnow + 1 THEN asked[a][rnow] ELSE asked[a][t]
             /\ Carried(served, rnow)[a][t] = IF t = rnow + 1 THEN served[a][rnow] ELSE served[a][t]
    <3>1. rnow < RateTime /\ rnow \in 0..RateTime
      BY <1>1
    <3>2. /\ Carried(asked, rnow) \in [IPs -> [0..RateTime -> Nat]]
          /\ \A a \in IPs, t \in 0..RateTime :
               Carried(asked, rnow)[a][t] = IF t = rnow + 1 THEN asked[a][rnow] ELSE asked[a][t]
      BY ONLY <2>1, <3>1, CarriedType
    <3>3. /\ Carried(served, rnow) \in [IPs -> [0..RateTime -> Nat]]
          /\ \A a \in IPs, t \in 0..RateTime :
               Carried(served, rnow)[a][t] = IF t = rnow + 1 THEN served[a][rnow] ELSE served[a][t]
      BY ONLY <2>1, <3>1, CarriedType
    <3> QED
      BY <3>2, <3>3
  <2> QED
    BY <1>1, <2>1, <2>2
<1> QED
  BY <1>1, <1>2, <1>3, <1>4, <1>5 DEF RateInv

(* RateInv is inductive. *)
LEMMA RateNext == RateInv /\ [Rate!Next]_rateVars => RateInv'
<1>1. ASSUME RateInv, UNCHANGED rateVars PROVE RateInv'
  BY <1>1 DEF rateVars, RateInv
<1> QED
  BY <1>1, LookupStep, AllowStep, RateTickStep DEF Rate!Next

(* The bucket of a request under way is never forgotten, and none holds    *)
(* more than its burst.                                                    *)
LEMMA RateTyped == RateInv => Rate!TypeOK
<1> SUFFICES ASSUME RateInv PROVE Rate!TypeOK
  OBVIOUS
<1>1. \A w \in Requests : pending[w] = {} \/ \E a \in limits : pending[w] = {a}
  BY DEF RateInv
<1>2. \A a \in IPs : tokens[a] \in 0..Limit /\ filled[a] \in 0..rnow /\ lastSeen[a] \in 0..rnow
  BY DEF RateInv
<1>3. /\ rnow \in 0..RateTime /\ requests \in 0..MaxRequests /\ limits \subseteq IPs
      /\ lastSweep \in -(EvictInterval + 1)..rnow
      /\ \A a \in IPs, t \in 0..RateTime : served[a][t] <= asked[a][t]
  BY DEF RateInv
<1> QED
  BY <1>1, <1>2, <1>3 DEF Rate!TypeOK, Rate!Times, Rate!Idle

----------------------------------------------------------------------------
(* What an address could have through at once: a bucket that is not kept   *)
(* would be made full.                                                     *)
Level(a) == IF a \in limits THEN Rate!Tokens(a) ELSE Limit

(* What was let through since any second, and what could be at once, are   *)
(* paid for by the burst and the time since; and no bucket was asked long  *)
(* after its address was seen.                                             *)
Covered ==
  /\ \A a \in IPs : filled[a] <= lastSeen[a] + MaxDelay
  /\ \A a \in IPs, from \in 0..rnow :
       Rate!Through(a, from, rnow) + Level(a) <= Limit + Seconds * (rnow - from)

(* What a history h of totals has in the seconds from..to. *)
Span(h, from, to) == h[to] - (IF from = 0 THEN 0 ELSE h[from - 1])

LEMMA SpanType ==
  ASSUME NEW h \in [0..RateTime -> Nat], NEW to \in 0..RateTime, NEW from \in 0..to
  PROVE  Span(h, from, to) \in Int /\ (from # 0 => from - 1 \in 0..RateTime /\ from - 1 < to)
<1>1. h[to] \in Nat /\ from \in Nat /\ RateTime \in Nat
  BY RateConstants
<1>2. from # 0 => from - 1 \in 0..RateTime /\ from - 1 < to
  BY <1>1
<1>3. from # 0 => h[from - 1] \in Nat
  BY <1>2
<1> QED
  BY <1>1, <1>2, <1>3 DEF Span

LEMMA ThroughIs ==
  ASSUME RateInv, NEW a \in IPs, NEW to \in 0..rnow, NEW from \in 0..to
  PROVE  Rate!Through(a, from, to) = Span(served[a], from, to) /\ Rate!Through(a, from, to) \in Int
<1>1. served[a] \in [0..RateTime -> Nat] /\ rnow \in 0..RateTime
  BY DEF RateInv
<1>2. to \in 0..RateTime
  BY <1>1, RateConstants
<1>3. Rate!Through(a, from, to) = Span(served[a], from, to)
  BY DEF Rate!Through, Span
<1> QED
  BY <1>1, <1>2, <1>3, SpanType

(* Nothing is through at the start, and everybody could have a burst. *)
LEMMA InitCovered == Rate!Init => Covered /\ AdmittedBound
<1> SUFFICES ASSUME Rate!Init PROVE Covered /\ AdmittedBound
  OBVIOUS
<1> USE RateConstants
<1>1. /\ rnow = 0 /\ limits = {} /\ \A a \in IPs : served[a][0] = 0 /\ filled[a] = 0 /\ lastSeen[a] = 0
      /\ 0..rnow = {0}
  BY DEF Rate!Init, Rate!Times
<1>2. Seconds * (0 - 0) = 0
  OBVIOUS
<1>3. \A a \in IPs : Rate!Through(a, 0, 0) = 0 /\ Level(a) = Limit
  BY <1>1 DEF Rate!Through, Level
<1>4. Covered
  BY <1>1, <1>2, <1>3 DEF Covered
<1>5. AdmittedBound
  BY <1>1, <1>2, <1>3 DEF AdmittedBound, Rate!AdmittedBound
<1> QED
  BY <1>4, <1>5

(* A bucket that a sweep forgets would be full.  The look-up changes what  *)
(* nobody could have through at once.                                      *)
LEMMA LookupCovered ==
  ASSUME RateInv, RateInv', Covered, NEW w \in Requests, NEW a \in IPs, Rate!Lookup(w, a)
  PROVE  Covered'
<1> USE RateConstants
<1> DEFINE lims == limits \cup {a}
<1>1. /\ UNCHANGED <<rnow, served>> /\ rnow \in Nat
      /\ lastSeen' = [lastSeen EXCEPT ![a] = rnow]
      /\ limits' = lims \ Rate!Swept(lims, lastSeen')
      /\ tokens' = IF a \in limits THEN tokens ELSE [tokens EXCEPT ![a] = Limit]
      /\ filled' = IF a \in limits THEN filled ELSE [filled EXCEPT ![a] = rnow]
  BY DEF Rate!Lookup, RateInv
<1>2. /\ tokens \in [IPs -> 0..Limit] /\ filled \in [IPs -> 0..rnow] /\ lastSeen \in [IPs -> 0..rnow]
      /\ filled' \in [IPs -> 0..rnow] /\ lastSeen' \in [IPs -> 0..rnow] /\ limits \subseteq IPs
  BY <1>1 DEF RateInv
<1>3. ASSUME NEW b \in IPs
      PROVE  /\ filled'[b] <= lastSeen'[b] + MaxDelay /\ filled[b] \in Nat /\ lastSeen'[b] \in Nat
             /\ lastSeen[b] <= lastSeen'[b] /\ lastSeen[b] \in Nat
             /\ b \in limits => tokens'[b] = tokens[b] /\ filled'[b] = filled[b]
  <2>1. filled[b] <= lastSeen[b] + MaxDelay
    BY DEF Covered
  <2>2. filled[b] \in Nat /\ lastSeen[b] \in Nat /\ filled[b] <= rnow /\ lastSeen[b] <= rnow
    BY <1>1, <1>2
  <2>3. lastSeen'[b] = IF b = a THEN rnow ELSE lastSeen[b]
    BY <1>1, <1>2
  <2>4. filled'[b] = filled[b] \/ (b = a /\ b \notin limits /\ filled'[b] = rnow)
    BY <1>1, <1>2
  <2>5. tokens'[b] = tokens[b] \/ b \notin limits
    BY <1>1, <1>2
  <2> QED
    BY <1>1, <2>1, <2>2, <2>3, <2>4, <2>5
<1>4. ASSUME NEW b \in IPs PROVE Level(b)' \in Int /\ Level(b) \in Int /\ Level(b)' <= Level(b)
  <2>1. /\ Rate!Tokens(b) = Refilled(tokens[b], rnow - filled[b]) /\ rnow - filled[b] \in Nat
        /\ tokens[b] \in 0..Limit
    BY TokensAre
  <2>2. /\ Rate!Tokens(b)' = Refilled(tokens'[b], rnow' - filled'[b]) /\ rnow' - filled'[b] \in Nat
        /\ tokens'[b] \in 0..Limit
    BY TokensWillBe
  <2>3. Rate!Tokens(b) \in 0..Limit /\ Rate!Tokens(b)' \in 0..Limit
    BY <2>1, <2>2, Refills
  <2>4. Level(b)' = IF b \in limits' THEN Rate!Tokens(b)' ELSE Limit
    BY DEF Level
  <2>5. CASE b \notin limits
    BY <2>3, <2>4, <2>5 DEF Level
  <2>6. CASE b \in limits /\ b \in limits'
    <3>1. Rate!Tokens(b)' = Rate!Tokens(b)
      BY <1>1, <1>3, <2>1, <2>2, <2>6
    <3> QED
      BY <2>3, <2>4, <2>6, <3>1 DEF Level
  <2>7. CASE b \in limits /\ b \notin limits'
    <3>1. b \in Rate!Swept(lims, lastSeen')
      BY <1>1, <2>7
    <3>2. rnow - lastSeen'[b] > IdleTimeout
      BY <3>1 DEF Rate!Swept
    <3>3. filled[b] <= lastSeen[b] + MaxDelay
      BY DEF Covered
    <3>4. rnow - filled[b] >= IdleTimeout - MaxDelay
      BY <1>1, <1>3, <3>2, <3>3
    <3>5. Rate!Tokens(b) = Limit
      BY <2>1, <3>4, Refills
    <3> QED
      BY <2>4, <2>7, <3>5 DEF Level
  <2> QED
    BY <2>5, <2>6, <2>7
<1>5. ASSUME NEW b \in IPs, NEW from \in 0..rnow
      PROVE  Rate!Through(b, from, rnow)' + Level(b)' <= Limit + Seconds * (rnow - from)
  <2>1. Rate!Through(b, from, rnow)' = Rate!Through(b, from, rnow)
    BY <1>1 DEF Rate!Through
  <2>2. Rate!Through(b, from, rnow) + Level(b) <= Limit + Seconds * (rnow - from)
    BY DEF Covered
  <2>3. Rate!Through(b, from, rnow) \in Int
    <3>1. rnow \in 0..rnow
      BY <1>1
    <3> QED
      BY <3>1, ThroughIs
  <2>4. Seconds * (rnow - from) \in Int
    BY <1>1
  <2> QED
    BY <1>4, <2>1, <2>2, <2>3, <2>4
<1> QED
  BY <1>1, <1>3, <1>5 DEF Covered

(* One more in a history shows in the second it is for. *)
LEMMA OneMoreAt ==
  ASSUME NEW f \in [IPs -> [0..RateTime -> Nat]], NEW a \in IPs, NEW n \in 0..RateTime
  PROVE  \A b \in IPs, t \in 0..RateTime :
           OneMore(f, a, n)[b][t] = IF b = a /\ t = n THEN f[b][t] + 1 ELSE f[b][t]
<1> SUFFICES ASSUME NEW b \in IPs, NEW t \in 0..RateTime
             PROVE  OneMore(f, a, n)[b][t] = IF b = a /\ t = n THEN f[b][t] + 1 ELSE f[b][t]
  OBVIOUS
<1>1. f[a] \in [0..RateTime -> Nat]
  OBVIOUS
<1>2. OneMore(f, a, n)[b] = IF b = a THEN [f[a] EXCEPT ![n] = f[a][n] + 1] ELSE f[b]
  BY DEF OneMore
<1> QED
  BY <1>1, <1>2

(* A request let through is paid for with a token. *)
LEMMA AllowCovered ==
  ASSUME RateInv, RateInv', Covered, NEW w \in Requests, Rate!Allow(w)
  PROVE  Covered' /\ rnow' = rnow /\ \A b \in IPs, t \in 0..RateTime : t # rnow => served'[b][t] = served[b][t]
<1> USE RateConstants
<1>1. PICK a \in pending[w] :
        /\ filled' = [filled EXCEPT ![a] = rnow]
        /\ IF Rate!Tokens(a) >= 1
           THEN /\ tokens' = [tokens EXCEPT ![a] = Rate!Tokens(a) - 1]
                /\ served' = OneMore(served, a, rnow)
           ELSE tokens' = [tokens EXCEPT ![a] = Rate!Tokens(a)] /\ UNCHANGED served
        /\ UNCHANGED <<rnow, limits, lastSeen>>
  BY DEF Rate!Allow, OneMore
<1>2. /\ a \in limits /\ a \in IPs /\ rnow \in Nat /\ rnow \in 0..RateTime
      /\ rnow <= lastSeen[a] + MaxDelay /\ rnow \in 0..rnow
  <2>1. pending[w] # {}
    BY <1>1
  <2>2. PICK b \in limits : pending[w] = {b} /\ rnow - since[w] <= MaxDelay /\ since[w] <= lastSeen[b]
    BY <2>1 DEF RateInv
  <2>3. a = b /\ a \in IPs
    BY <1>1, <2>2 DEF RateInv
  <2>4. rnow \in Nat /\ rnow \in 0..RateTime /\ since[w] \in Nat /\ lastSeen[a] \in Nat
    BY <2>3 DEF RateInv
  <2> QED
    BY <2>2, <2>3, <2>4
<1>3. /\ tokens \in [IPs -> 0..Limit] /\ filled \in [IPs -> 0..rnow]
      /\ served \in [IPs -> [0..RateTime -> Nat]]
  BY DEF RateInv
<1>4. Rate!Tokens(a) \in 0..Limit
  BY <1>2, WithinBurst
<1>5. \E d \in {0, 1} :
        /\ tokens'[a] = Rate!Tokens(a) - d
        /\ \A b \in IPs, t \in 0..RateTime :
             served'[b][t] = IF b = a /\ t = rnow THEN served[b][t] + d ELSE served[b][t]
  <2>1. CASE Rate!Tokens(a) >= 1
    <3>1. tokens'[a] = Rate!Tokens(a) - 1
      BY <1>1, <1>2, <1>3, <2>1
    <3>2. served' = OneMore(served, a, rnow)
      BY <1>1, <2>1
    <3>3. \A b \in IPs, t \in 0..RateTime :
             served'[b][t] = IF b = a /\ t = rnow THEN served[b][t] + 1 ELSE served[b][t]
      <4>1. \A b \in IPs, t \in 0..RateTime :
              OneMore(served, a, rnow)[b][t] = IF b = a /\ t = rnow THEN served[b][t] + 1 ELSE served[b][t]
        <5>1. a \in IPs /\ rnow \in 0..RateTime /\ served \in [IPs -> [0..RateTime -> Nat]]
          BY <1>2, <1>3
        <5> QED
          BY ONLY <5>1, OneMoreAt
      <4> QED
        BY <3>2, <4>1
    <3> QED
      BY <3>1, <3>3
  <2>2. CASE ~(Rate!Tokens(a) >= 1)
    <3>1. tokens'[a] = Rate!Tokens(a) - 0 /\ served' = served
      BY <1>1, <1>2, <1>3, <1>4, <2>2
    <3>2. \A b \in IPs, t \in 0..RateTime : served[b][t] + 0 = served[b][t]
      BY <1>3
    <3> QED
      BY <3>1, <3>2
  <2> QED
    BY <2>1, <2>2
<1>6. PICK d \in {0, 1} :
        /\ tokens'[a] = Rate!Tokens(a) - d
        /\ \A b \in IPs, t \in 0..RateTime :
             served'[b][t] = IF b = a /\ t = rnow THEN served[b][t] + d ELSE served[b][t]
  BY <1>5
<1>7. \A b \in IPs : filled'[b] <= lastSeen'[b] + MaxDelay
  <2>1. \A b \in IPs : filled[b] <= lastSeen[b] + MaxDelay
    BY DEF Covered
  <2> QED
    BY <1>1, <1>2, <1>3, <2>1
<1>8. ASSUME NEW b \in IPs
      PROVE  Level(b) \in Int /\ Level(b)' = IF b = a THEN Level(b) - d ELSE Level(b)
  <2>1. /\ Rate!Tokens(b) = Refilled(tokens[b], rnow - filled[b]) /\ rnow - filled[b] \in Nat
        /\ tokens[b] \in 0..Limit
    BY TokensAre
  <2>2. /\ Rate!Tokens(b)' = Refilled(tokens'[b], rnow' - filled'[b]) /\ tokens'[b] \in 0..Limit
    BY TokensWillBe
  <2>3. Level(b) \in Int
    <3>1. Rate!Tokens(b) \in 0..Limit
      BY WithinBurst
    <3> QED
      BY <3>1 DEF Level
  <2>4. CASE b = a
    <3>1. rnow' - filled'[b] = 0
      BY <1>1, <1>2, <1>3, <2>4
    <3>2. Rate!Tokens(b)' = tokens'[b]
      BY <2>2, <3>1, Refills
    <3> QED
      BY <1>1, <1>2, <1>6, <2>3, <2>4, <3>2 DEF Level
  <2>5. CASE b # a
    <3>1. tokens'[b] = tokens[b] /\ filled'[b] = filled[b]
      BY <1>1, <1>2, <1>3, <2>5
    <3>2. Rate!Tokens(b)' = Rate!Tokens(b)
      BY <1>1, <2>1, <2>2, <3>1
    <3> QED
      BY <1>1, <2>3, <2>5, <3>2 DEF Level
  <2> QED
    BY <2>4, <2>5
<1>9. ASSUME NEW b \in IPs, NEW from \in 0..rnow
      PROVE  Rate!Through(b, from, rnow)' + Level(b)' <= Limit + Seconds * (rnow - from)
  <2>1. Rate!Through(b, from, rnow)' = Span(served'[b], from, rnow)
    BY <1>1 DEF Rate!Through, Span
  <2>2. Rate!Through(b, from, rnow) = Span(served[b], from, rnow) /\ Span(served[b], from, rnow) \in Int
    BY <1>2, ThroughIs
  <2>3. from # 0 => from - 1 \in 0..RateTime /\ from - 1 < rnow
    BY <1>2
  <2>4. from # 0 => served'[b][from - 1] = served[b][from - 1]
    BY <1>2, <1>6, <2>3
  <2>5. served[b][rnow] \in Nat /\ (from # 0 => served[b][from - 1] \in Nat)
    BY <1>2, <1>3, <2>3
  <2>6. Span(served'[b], from, rnow) = IF b = a THEN Span(served[b], from, rnow) + d
                                                ELSE Span(served[b], from, rnow)
    BY <1>2, <1>6, <2>4, <2>5 DEF Span
  <2>7. Rate!Through(b, from, rnow) + Level(b) <= Limit + Seconds * (rnow - from)
    BY DEF Covered
  <2>8. Rate!Through(b, from, rnow)' + Level(b)' = Rate!Through(b, from, rnow) + Level(b)
    BY <1>8, <2>1, <2>2, <2>6
  <2> QED
    BY <2>7, <2>8
<1>10. \A b \in IPs, t \in 0..RateTime : t # rnow => served'[b][t] = served[b][t]
  BY <1>6
<1> QED
  BY <1>1, <1>7, <1>9, <1>10 DEF Covered

(* A second brings Seconds tokens, and a new span that nothing is in. *)
LEMMA TickCovered ==
  ASSUME RateInv, RateInv', Covered, Rate!Tick
  PROVE  /\ Covered' /\ rnow' = rnow + 1
         /\ \A b \in IPs, t \in 0..RateTime : t # rnow' => served'[b][t] = served[b][t]
<1> USE RateConstants
<1>1. /\ UNCHANGED <<limits, tokens, filled, lastSeen>>
      /\ served' = Carried(served, rnow) /\ served \in [IPs -> [0..RateTime -> Nat]]
      /\ rnow' = rnow + 1 /\ rnow < RateTime /\ rnow \in Nat /\ rnow \in 0..RateTime
  BY DEF Rate!Tick, RateInv, Carried
<1>2. \A b \in IPs, t \in 0..RateTime :
        served'[b][t] = IF t = rnow' THEN served[b][rnow] ELSE served[b][t]
  <2>1. \A b \in IPs, t \in 0..RateTime :
          Carried(served, rnow)[b][t] = IF t = rnow + 1 THEN served[b][rnow] ELSE served[b][t]
    BY ONLY <1>1, CarriedType
  <2> QED
    BY <1>1, <2>1
<1>3. ASSUME NEW b \in IPs
      PROVE  /\ Level(b) \in Int /\ Level(b)' \in Int
             /\ Level(b)' <= Level(b) + Seconds /\ Level(b)' <= Limit
  <2>1. /\ Rate!Tokens(b) = Refilled(tokens[b], rnow - filled[b]) /\ rnow - filled[b] \in Nat
        /\ tokens[b] \in 0..Limit
    BY TokensAre
  <2>2. Rate!Tokens(b)' = Refilled(tokens'[b], rnow' - filled'[b])
    BY TokensWillBe
  <2>3. rnow' - filled'[b] = (rnow - filled[b]) + 1 /\ (rnow - filled[b]) + 1 \in Nat
    <3>1. filled \in [IPs -> 0..rnow]
      BY DEF RateInv
    <3>2. filled[b] \in Nat
      BY <1>1, <3>1
    <3>3. filled'[b] = filled[b] /\ rnow' = rnow + 1 /\ rnow \in Nat
      BY <1>1
    <3> QED
      BY ONLY <2>1, <3>2, <3>3
  <2>4. Rate!Tokens(b)' = Refilled(tokens[b], (rnow - filled[b]) + 1)
    BY <1>1, <2>2, <2>3
  <2>5. Rate!Tokens(b)' <= Rate!Tokens(b) + Seconds /\ Rate!Tokens(b) \in 0..Limit
    BY <2>1, <2>4, Refills
  <2>6. Rate!Tokens(b)' \in 0..Limit
    BY <2>1, <2>3, <2>4, Refills
  <2> QED
    BY <1>1, <2>5, <2>6 DEF Level
<1>4. ASSUME NEW b \in IPs, NEW from \in 0..(rnow + 1)
      PROVE  Rate!Through(b, from, rnow)' + Level(b)' <= Limit + Seconds * (rnow' - from)
  <2>1. Rate!Through(b, from, rnow)' = Span(served'[b], from, rnow + 1)
    BY <1>1 DEF Rate!Through, Span
  <2>2. served'[b][rnow + 1] = served[b][rnow] /\ served[b][rnow] \in Nat
    BY <1>1, <1>2
  <2>3. from # 0 => served'[b][from - 1] = served[b][from - 1] /\ served[b][from - 1] \in Nat
    <3> SUFFICES ASSUME from # 0
                 PROVE  served'[b][from - 1] = served[b][from - 1] /\ served[b][from - 1] \in Nat
      OBVIOUS
    <3>1. from - 1 \in 0..RateTime /\ from - 1 # rnow'
      BY <1>1
    <3> QED
      BY <1>1, <1>2, <3>1
  <2>4. Span(served'[b], from, rnow + 1) = Span(served[b], from, rnow)
    BY <2>2, <2>3 DEF Span
  <2>5. CASE from = rnow + 1
    <3>1. Span(served[b], from, rnow) = 0
      BY <1>1, <2>2, <2>5 DEF Span
    <3>2. Seconds * (rnow' - from) = 0
      BY <1>1, <2>5
    <3> QED
      BY <1>3, <2>1, <2>4, <3>1, <3>2
  <2>6. CASE from \in 0..rnow
    <3>1. Rate!Through(b, from, rnow) = Span(served[b], from, rnow) /\ Span(served[b], from, rnow) \in Int
      BY <1>1, <2>6, ThroughIs
    <3>2. Rate!Through(b, from, rnow) + Level(b) <= Limit + Seconds * (rnow - from)
      BY <2>6 DEF Covered
    <3>3. /\ Seconds * (rnow' - from) = Seconds * (rnow - from) + Seconds
          /\ Seconds * (rnow - from) \in Int
      <4> DEFINE k == rnow - from
      <4>1. k \in Int /\ rnow' - from = k + 1
        BY <1>1
      <4> HIDE DEF k
      <4>2. Seconds * (k + 1) = Seconds * k + Seconds /\ Seconds * k \in Int
        BY <4>1
      <4> QED
        BY <4>1, <4>2 DEF k
    <3> QED
      BY <1>3, <2>1, <2>4, <3>1, <3>2, <3>3
  <2> QED
    BY <1>1, <2>5, <2>6
<1>5. \A b \in IPs : filled'[b] <= lastSeen'[b] + MaxDelay
  BY <1>1 DEF Covered
<1>6. \A b \in IPs, t \in 0..RateTime : t # rnow' => served'[b][t] = served[b][t]
  BY <1>2
<1> QED
  BY <1>1, <1>4, <1>5, <1>6 DEF Covered

(* A step that leaves the past alone keeps the bound. *)
LEMMA PastBound ==
  ASSUME RateInv, RateInv', Covered', AdmittedBound, rnow' \in {rnow, rnow + 1},
         \A b \in IPs, t \in 0..RateTime : t # rnow' => served'[b][t] = served[b][t]
  PROVE  AdmittedBound'
<1> USE RateConstants
<1>1. /\ rnow \in Nat /\ rnow' \in Nat /\ rnow' \in 0..RateTime
      /\ served' \in [IPs -> [0..RateTime -> Nat]]
  <2>1. rnow \in 0..RateTime /\ rnow' \in 0..RateTime /\ served' \in [IPs -> [0..RateTime -> Nat]]
    BY DEF RateInv
  <2> QED
    BY <2>1
<1> SUFFICES ASSUME NEW b \in IPs, NEW from \in 0..rnow', NEW to \in from..rnow'
             PROVE  Rate!Through(b, from, to)' <= Limit + Seconds * (to - from)
  BY DEF AdmittedBound, Rate!AdmittedBound
<1>2. to \in 0..RateTime /\ from \in 0..to /\ Seconds * (to - from) \in Int
  BY <1>1
<1>3. Rate!Through(b, from, to)' = Span(served'[b], from, to) /\ Span(served'[b], from, to) \in Int
  BY <1>1, <1>2, SpanType DEF Rate!Through, Span
<1>4. CASE to = rnow'
  <2>1. Rate!Through(b, from, rnow)' + Level(b)' <= Limit + Seconds * (to - from)
    BY <1>4 DEF Covered
  <2>2. Rate!Through(b, from, rnow)' = Span(served'[b], from, to)
    BY <1>4 DEF Rate!Through, Span
  <2>3. Level(b)' \in Nat
    <3>1. /\ Rate!Tokens(b)' = Refilled(tokens'[b], rnow' - filled'[b])
          /\ rnow' - filled'[b] \in Nat /\ tokens'[b] \in 0..Limit
      BY TokensWillBe
    <3>2. Rate!Tokens(b)' \in 0..Limit
      BY ONLY <3>1, Refills
    <3> QED
      BY <3>2 DEF Level
  <2> QED
    BY <1>2, <1>3, <2>1, <2>2, <2>3
<1>5. CASE to # rnow'
  <2>1. to \in 0..rnow /\ from \in 0..rnow /\ to \in from..rnow /\ from \in 0..to
    BY <1>1, <1>5
  <2>2. Rate!Through(b, from, to) <= Limit + Seconds * (to - from)
    BY <2>1 DEF AdmittedBound, Rate!AdmittedBound
  <2>3. from # 0 => from - 1 \in 0..RateTime /\ from - 1 # rnow'
    BY <1>1, <1>2
  <2>4. Span(served'[b], from, to) = Span(served[b], from, to)
    BY <1>2, <1>5, <2>3 DEF Span
  <2>5. Rate!Through(b, from, to) = Span(served[b], from, to)
    BY <2>1, ThroughIs
  <2> QED
    BY <1>3, <2>2, <2>4, <2>5
<1> QED
  BY <1>4, <1>5

(* The bound is inductive with what covers it. *)
LEMMA BoundNext ==
  RateInv /\ Covered /\ AdmittedBound /\ [Rate!Next]_rateVars => Covered' /\ AdmittedBound'
<1> SUFFICES ASSUME RateInv, Covered, AdmittedBound, [Rate!Next]_rateVars
             PROVE  Covered' /\ AdmittedBound'
  OBVIOUS
<1>0. RateInv'
  BY RateNext
<1>1. CASE UNCHANGED rateVars
  BY <1>1 DEF rateVars, Covered, Level, Rate!Tokens, Rate!Through, AdmittedBound, Rate!AdmittedBound
<1>2. ASSUME NEW w \in Requests, NEW a \in IPs, Rate!Lookup(w, a) PROVE Covered' /\ AdmittedBound'
  <2>1. Covered'
    BY <1>0, <1>2, LookupCovered
  <2>2. rnow' = rnow /\ served' = served
    BY <1>2 DEF Rate!Lookup
  <2> QED
    BY <1>0, <2>1, <2>2, PastBound
<1>3. ASSUME NEW w \in Requests, Rate!Allow(w) PROVE Covered' /\ AdmittedBound'
  <2>1. Covered' /\ rnow' = rnow /\ \A b \in IPs, t \in 0..RateTime : t # rnow => served'[b][t] = served[b][t]
    BY <1>0, <1>3, AllowCovered
  <2> QED
    BY <1>0, <2>1, PastBound
<1>4. CASE Rate!Tick
  BY <1>0, <1>4, TickCovered, PastBound
<1> QED
  BY <1>1, <1>2, <1>3, <1>4 DEF Rate!Next

(* Whatever is looked up, swept and asked at once, an address gets no more *)
(* requests through from one second to a later one than its burst and the  *)
(* tokens of the time between: to be forgotten gains it nothing            *)
(* (rateLimiter.go:32-49).                                                 *)
THEOREM AdmittedBoundAlways == MCSpec => []AdmittedBound
<1> DEFINE J == RateInv /\ Covered /\ AdmittedBound
<1>1. MCInit => J
  BY InitRateInv, InitCovered DEF MCInit
<1>2. J /\ [MCNext]_<<vars, rateVars>> => J'
  <2>1. [MCNext]_<<vars, rateVars>> => [Rate!Next]_rateVars
    BY DEF MCNext
  <2> QED
    BY <2>1, RateNext, BoundNext
<1>3. J => AdmittedBound
  OBVIOUS
<1> QED
  BY <1>1, <1>2, <1>3, PTL DEF MCSpec

(* An address is suspended only by WatchCount 404s within the watch        *)
(* period, whatever requests come at once and whatever is swept meanwhile  *)
(* (suspected.go:36-61; fail2ban.go:47-56), and the rate limiter keeps     *)
(* the bucket of every request under way.                                  *)
THEOREM GuardsInvAlways == MCSpec => []GuardsInv
<1>1. MCInit => IInv /\ RateInv
  BY InitIInv, InitRateInv DEF MCInit
<1>2. (IInv /\ RateInv) /\ [MCNext]_<<vars, rateVars>> => (IInv /\ RateInv)'
  BY NextIInv, RateNext DEF MCNext
<1>3. IInv /\ RateInv => GuardsInv
  BY RateTyped DEF IInv, GuardsInv, Inv
<1> QED
  BY <1>1, <1>2, <1>3, PTL DEF MCSpec
=============================================================================
