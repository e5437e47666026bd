---------------------------- MODULE MCAppProofs ----------------------------
(***************************************************************************)
(* Theorems about the services that keep one handle and lend it to their   *)
(* callers (MsSQL, OracleSQL, MailSender), for any callers, messages and   *)
(* number of handles; then about the hosted application (AppController     *)
(* with GinWeb and Otello), for any services and lists of them.            *)
(***************************************************************************)
EXTENDS MCApp, SequenceTheorems, TLAPS

(* msSql: one Start pings at a time, on ms.db, and ms.db has answered once *)
(* the lock is free.                                                       *)
MsInv ==
  /\ MS!Inv
  /\ \A s \in Starters : mspc[s] = "ping" =>
       msdb # 0 /\ \A t \in Starters : mspc[t] = "ping" => t = s
  /\ msdb # 0 /\ MS!Free => msdb \in answered

(* Nothing is open before Start. *)
LEMMA MsInit == MS!Init => MsInv
BY ServicesAssumption
   DEF MS!Init, MsInv, MS!Inv, MS!TypeOK, MS!HandlesOwned, MS!UsersGetAnswered, MS!Handles

(* Start opens a handle only where none is kept (mssql.go). *)
LEMMA MsStart == ASSUME MsInv, NEW s \in Starters, MS!Start(s) PROVE MsInv'
<1> USE ServicesAssumption DEF MsInv, MS!Inv
<1>1. /\ UNCHANGED <<got, answered>> /\ msdb = 0 /\ (\A t \in Starters : mspc[t] = "idle")
      /\ msopens' = msopens + 1 /\ msdb' = msopens + 1 /\ msopen' = msopen \cup {msopens + 1}
      /\ mspc' = [mspc EXCEPT ![s] = "ping"] /\ attempt' = 0
      /\ msopens \in Nat /\ msopens + 1 \in 1..MaxHandles
  BY DEF MS!Start, MS!Goto, MS!Free, MS!TypeOK
<1>2. \A t \in Starters : mspc'[t] = IF t = s THEN "ping" ELSE "idle"
  BY <1>1 DEF MS!TypeOK
<1>3. MS!TypeOK'
  <2>1. 0..msopens \subseteq 0..msopens' /\ msopens' \in 0..MaxHandles /\ msdb' \in 0..msopens'
    BY <1>1
  <2>2. got' \in [Users -> 0..msopens']
    BY <1>1, <2>1 DEF MS!TypeOK
  <2> QED
    BY <1>1, <2>1, <2>2 DEF MS!TypeOK, MS!Handles
<1>4. MS!HandlesOwned' /\ MS!UsersGetAnswered' /\ msdb' # 0
  BY <1>1 DEF MS!HandlesOwned, MS!UsersGetAnswered
<1> QED
  BY <1>2, <1>3, <1>4 DEF MS!Free

(* A ping, which runs with the lock held, keeps the handle or closes it. *)
LEMMA MsPing ==
  ASSUME MsInv, NEW s \in Starters, MS!PingOk(s) \/ \E err \in MS!Errors : MS!PingFails(s, err)
  PROVE  MsInv'
<1> USE ServicesAssumption DEF MsInv, MS!Inv
<1>1. /\ mspc[s] = "ping" /\ UNCHANGED <<got, msopens>> /\ msdb \in msopen /\ msopen = {msdb}
      /\ msdb # 0
      /\ msopens \in Nat /\ msdb \in 0..msopens /\ attempt \in 0..3
  BY DEF MS!PingOk, MS!PingFails, MS!GiveUp, MS!Again, MS!HandlesOwned, MS!TypeOK
<1>2. CASE MS!PingOk(s)
  <2>1. /\ answered' = answered \cup {msdb} /\ UNCHANGED <<msdb, msopen>> /\ attempt' = 0
        /\ mspc' = [mspc EXCEPT ![s] = "idle"]
    BY <1>2 DEF MS!PingOk, MS!Goto
  <2>2. MS!TypeOK'
    BY <1>1, <2>1 DEF MS!TypeOK
  <2>3. MS!HandlesOwned' /\ MS!UsersGetAnswered'
    BY <1>1, <2>1 DEF MS!HandlesOwned, MS!UsersGetAnswered
  <2>4. \A t \in Starters : mspc'[t] = "ping" => mspc[t] = "ping"
    BY <2>1 DEF MS!TypeOK
  <2> QED
    BY <1>1, <2>1, <2>2, <2>3, <2>4
<1>3. CASE MS!GiveUp(s)
  <2>1. /\ msopen' = msopen \ {msdb} /\ msdb' = 0 /\ UNCHANGED answered /\ attempt' = 0
        /\ mspc' = [mspc EXCEPT ![s] = "idle"]
    BY <1>3 DEF MS!GiveUp, MS!Goto
  <2>2. MS!TypeOK'
    BY <1>1, <2>1 DEF MS!TypeOK
  <2>3. MS!HandlesOwned' /\ MS!UsersGetAnswered'
    BY <1>1, <2>1 DEF MS!HandlesOwned, MS!UsersGetAnswered
  <2>4. \A t \in Starters : mspc'[t] # "ping"
    BY <1>1, <2>1 DEF MS!TypeOK
  <2> QED
    BY <1>1, <2>1, <2>2, <2>3, <2>4
<1>4. CASE attempt < 3 /\ MS!Again(s)
  <2>1. attempt' = attempt + 1 /\ UNCHANGED <<msdb, mspc, msopen, answered>>
    BY <1>4 DEF MS!Again
  <2>2. MS!TypeOK'
    BY <1>1, <1>4, <2>1 DEF MS!TypeOK
  <2>3. MS!HandlesOwned' /\ MS!UsersGetAnswered'
    BY <1>1, <2>1 DEF MS!HandlesOwned, MS!UsersGetAnswered
  <2>4. MS!Free' <=> MS!Free
    BY <2>1 DEF MS!Free
  <2> QED
    BY <1>1, <2>1, <2>2, <2>3, <2>4
<1> QED
  BY <1>1, <1>2, <1>3, <1>4 DEF MS!PingFails

(* Stop closes the handle that is kept, and GetDB only reads it. *)
LEMMA MsOther ==
  ASSUME MsInv, MS!Stop \/ (\E u \in Users : MS!GetDB(u)) \/ UNCHANGED msVars
  PROVE  MsInv'
<1> USE ServicesAssumption DEF MsInv, MS!Inv
<1>1. CASE MS!Stop
  <2>1. /\ UNCHANGED <<mspc, attempt, got, msopens, answered>> /\ msdb' = 0
        /\ msopen' = msopen \ {msdb}
        /\ \A t \in Starters : mspc[t] = "idle"
    BY <1>1 DEF MS!Stop, MS!Free
  <2>2. MS!TypeOK'
    BY <2>1 DEF MS!TypeOK
  <2>3. MS!HandlesOwned' /\ MS!UsersGetAnswered'
    BY <2>1 DEF MS!HandlesOwned, MS!UsersGetAnswered
  <2> QED
    BY <2>1, <2>2, <2>3
<1>2. ASSUME NEW u \in Users, MS!GetDB(u) PROVE MsInv'
  <2>1. /\ UNCHANGED <<msdb, mspc, attempt, msopens, msopen, answered>>
        /\ got' = [got EXCEPT ![u] = msdb]
        /\ MS!Free
    BY <1>2 DEF MS!GetDB
  <2>2. MS!TypeOK'
    BY <2>1 DEF MS!TypeOK
  <2>3. MS!HandlesOwned' /\ MS!UsersGetAnswered'
    BY <2>1 DEF MS!HandlesOwned, MS!UsersGetAnswered, MS!TypeOK
  <2>4. MS!Free' <=> MS!Free
    BY <2>1 DEF MS!Free
  <2> QED
    BY <2>1, <2>2, <2>3, <2>4
<1>3. CASE UNCHANGED msVars
  BY <1>3 DEF msVars, MS!TypeOK, MS!HandlesOwned, MS!UsersGetAnswered, MS!Free
<1> QED
  BY <1>1, <1>2, <1>3

(* MsInv is inductive. *)
LEMMA MsNext == MsInv /\ [MS!Next]_msVars => MsInv'
BY MsStart, MsPing, MsOther DEF MS!Next

----------------------------------------------------------------------------
(* oracleSql: nothing happens before Start. *)
OracleInv ==
  /\ Oracle!Inv
  /\ ~ostarted => connection = 0 /\ \A c \in Checkers : opc[c] = "idle"

(* Nothing is open before Start. *)
LEMMA OracleInit == Oracle!Init => OracleInv
<1> SUFFICES ASSUME Oracle!Init PROVE OracleInv
  OBVIOUS
<1>1. connection = 0 /\ oopens = 0 /\ ohandles = {} /\ ostarted = FALSE
      /\ opc = [c \in Checkers |-> "idle"] /\ pinged = [c \in Checkers |-> 0]
  BY DEF Oracle!Init
<1>2. ostarted \in BOOLEAN
  BY <1>1, Zenon
<1>3. Oracle!TypeOK
  BY <1>1, <1>2, ServicesAssumption DEF Oracle!TypeOK
<1> QED
  BY <1>1, <1>3 DEF OracleInv, Oracle!Inv, Oracle!HandlesOwned

(* doStart over no open handle leaves s.connection and what is open in     *)
(* agreement.                                                              *)
LEMMA DoStartOwns ==
  ASSUME Oracle!TypeOK, NEW left, left = {}, NEW err, Oracle!DoStart(left, err)
  PROVE  /\ connection' \in 0..oopens' /\ oopens' \in 0..MaxHandles /\ oopens <= oopens'
         /\ oopens \in Nat
         /\ ohandles' = {connection'} \ {0} /\ ohandles' \subseteq 1..MaxHandles
<1> USE ServicesAssumption
<1>1. oopens \in 0..MaxHandles
  BY DEF Oracle!TypeOK
<1>2. CASE connection' = 0 /\ ohandles' = left /\ UNCHANGED oopens
  BY <1>1, <1>2
<1>3. CASE oopens < MaxHandles /\ oopens' = oopens + 1 /\ connection' = oopens' /\ ohandles' = left \cup {oopens'}
  BY <1>1, <1>3
<1> QED
  BY <1>2, <1>3 DEF Oracle!DoStart

(* OracleInv is inductive, one step per section of the service. *)
LEMMA OracleNext == OracleInv /\ [Oracle!Next]_oracleVars => OracleInv'
<1> SUFFICES ASSUME OracleInv, [Oracle!Next]_oracleVars PROVE OracleInv'
  OBVIOUS
<1> USE ServicesAssumption DEF OracleInv, Oracle!Inv
<1>1. ASSUME NEW err \in BOOLEAN, Oracle!Start(err) PROVE OracleInv'
  <2>1. ~ostarted /\ ostarted' = TRUE /\ UNCHANGED <<opc, pinged>> /\ Oracle!DoStart(ohandles, err)
    BY <1>1 DEF Oracle!Start
  <2>2. ohandles = {}
    BY <2>1 DEF Oracle!HandlesOwned
  <2>3. /\ connection' \in 0..oopens' /\ oopens' \in 0..MaxHandles /\ oopens <= oopens'
        /\ oopens \in Nat
        /\ ohandles' = {connection'} \ {0} /\ ohandles' \subseteq 1..MaxHandles
    BY <2>1, <2>2, DoStartOwns
  <2>4. pinged' \in [Checkers -> 0..oopens']
    <3>1. 0..oopens \subseteq 0..oopens'
      BY <2>3
    <3> QED
      BY <2>1, <3>1 DEF Oracle!TypeOK
  <2>5. Oracle!TypeOK'
    BY <2>1, <2>3, <2>4 DEF Oracle!TypeOK, Oracle!Handles
  <2> QED
    BY <2>1, <2>3, <2>5 DEF Oracle!HandlesOwned
<1>2. ASSUME NEW err \in BOOLEAN, NEW c \in Checkers, Oracle!DoRestart(c, err) PROVE OracleInv'
  <2>1. /\ opc[c] = "restart" /\ opc' = [opc EXCEPT ![c] = "idle"] /\ UNCHANGED <<ostarted, pinged>>
        /\ Oracle!DoStart(ohandles \ {connection}, err)
    BY <1>2 DEF Oracle!DoRestart
  <2>2. ohandles \ {connection} = {}
    BY <2>1 DEF Oracle!HandlesOwned
  <2>3. /\ connection' \in 0..oopens' /\ oopens' \in 0..MaxHandles /\ oopens <= oopens'
        /\ oopens \in Nat
        /\ ohandles' = {connection'} \ {0} /\ ohandles' \subseteq 1..MaxHandles
    BY <2>1, <2>2, DoStartOwns
  <2>4. pinged' \in [Checkers -> 0..oopens']
    <3>1. 0..oopens \subseteq 0..oopens'
      BY <2>3
    <3> QED
      BY <2>1, <3>1 DEF Oracle!TypeOK
  <2>5. ostarted
    BY <2>1
  <2>6. ostarted' \in BOOLEAN
    BY <2>1, Zenon DEF Oracle!TypeOK
  <2>7. \A d \in Checkers : opc'[d] = IF d = c THEN "idle" ELSE opc[d]
    BY <2>1 DEF Oracle!TypeOK
  <2>8. Oracle!TypeOK'
    BY <2>1, <2>3, <2>4, <2>6, <2>7 DEF Oracle!TypeOK, Oracle!Handles
  <2> QED
    BY <2>1, <2>3, <2>5, <2>8 DEF Oracle!HandlesOwned
<1>3. CASE Oracle!Stop
  <2>1. UNCHANGED <<ostarted, opc, pinged,
                    oopens>> /\ connection' = 0 /\ ohandles' = ohandles \ {connection} /\ ostarted
    BY <1>3 DEF Oracle!Stop
  <2>2. Oracle!TypeOK'
    BY <2>1 DEF Oracle!TypeOK
  <2> QED
    BY <2>1, <2>2 DEF Oracle!HandlesOwned
<1>4. ASSUME NEW c \in Checkers, Oracle!PingRead(c) \/ Oracle!PingOk(c) \/ Oracle!PingFails(c) PROVE OracleInv'
  <2>1. UNCHANGED <<connection, ostarted, oopens, ohandles>> /\ ostarted
    BY <1>4 DEF Oracle!PingRead, Oracle!PingOk, Oracle!PingFails
  <2>2. \E p \in {"idle", "ping", "restart"}, h \in 0..oopens :
          (p = "ping" => h # 0) /\ opc' = [opc EXCEPT ![c] = p] /\ pinged' = [pinged EXCEPT ![c] = h]
    <3>1. 0 \in 0..oopens /\ connection \in 0..oopens
      BY DEF Oracle!TypeOK
    <3> QED
      BY <1>4, <3>1 DEF Oracle!PingRead, Oracle!PingOk, Oracle!PingFails
  <2>3. PICK p \in {"idle", "ping", "restart"}, h \in 0..oopens :
          (p = "ping" => h # 0) /\ opc' = [opc EXCEPT ![c] = p] /\ pinged' = [pinged EXCEPT ![c] = h]
    BY <2>2
  <2>4. \A d \in Checkers : opc'[d] = (IF d = c THEN p ELSE opc[d]) /\ pinged'[d] = (IF d = c THEN h ELSE pinged[d])
    BY <2>3 DEF Oracle!TypeOK
  <2>5. Oracle!TypeOK'
    BY <2>1, <2>3, <2>4 DEF Oracle!TypeOK
  <2> QED
    BY <2>1, <2>5 DEF Oracle!HandlesOwned
<1>5. CASE UNCHANGED oracleVars
  BY <1>5 DEF oracleVars, Oracle!TypeOK, Oracle!HandlesOwned
<1> QED
  BY <1>1, <1>2, <1>3, <1>4, <1>5 DEF Oracle!Next

----------------------------------------------------------------------------
(* mailSender: one call holds the lock.  On the present client there is    *)
(* one Send at most, of the call that waits for it, and the server takes   *)
(* nothing from any other.  A message is sent again only if it was not     *)
(* taken.                                                                  *)
MailInv ==
  /\ Mail!Inv /\ Mail!AtMostOnce
  /\ \A m, n \in Messages : mpc[m] \in Mail!Held /\ mpc[n] \in Mail!Held => m = n
  /\ \A f \in flights : f.cl <= dials /\ (f.cl = client => mpc[f.msg] \in {"send", "resend"})
  /\ \A f, g \in flights : f.cl = client /\ g.cl = client => f = g
  /\ \A f \in flights : /\ f.took => accepted[f.msg] = 1
                        /\ f.cl = client /\ ~f.took => accepted[f.msg] = 0
  /\ \A m \in Messages : mpc[m] \in {"new", "lock", "dial", "redial"} => accepted[m] = 0

(* No client, no Send and no message under way. *)
LEMMA MailInit == Mail!Init => MailInv
BY ServicesAssumption
   DEF Mail!Init, MailInv, Mail!Inv, Mail!TypeOK, Mail!SuccessMeansAccepted, Mail!ClientsOwned,
       Mail!SendsAlone, Mail!AtMostOnce, Mail!Held, Mail!Places

(* With one Send on the present client and no other connection, no two     *)
(* Sends share one.                                                        *)
LEMMA SendsAloneNext ==
  ASSUME Mail!ClientsOwned', \A f, g \in flights' : f.cl = client' /\ g.cl = client' => f = g
  PROVE  Mail!SendsAlone'
BY DEF Mail!ClientsOwned, Mail!SendsAlone

(* A call takes another place; what the server has and what flies stays.   *)
(* It holds the lock afterwards only if it held it, or nobody did.         *)
LEMMA MailMoves ==
  ASSUME MailInv, NEW m \in Messages, NEW p \in Mail!Places, mpc' = [mpc EXCEPT ![m] = p],
         UNCHANGED <<client, flights, dials, mopen, accepted>>,
         p \in Mail!Held => mpc[m] \in Mail!Held \/ Mail!Free,
         p \notin {"send", "resend", "ok"}, mpc[m] \notin {"send", "resend"},
         p \in {"new", "lock", "dial", "redial"} => mpc[m] \in {"new", "lock", "dial", "redial"}
  PROVE  MailInv'
<1> USE ServicesAssumption DEF MailInv, Mail!Inv
<1>1. \A n \in Messages : mpc'[n] = IF n = m THEN p ELSE mpc[n]
  BY DEF Mail!TypeOK
<1>2. Mail!TypeOK'
  BY <1>1 DEF Mail!TypeOK
<1>3. Mail!SuccessMeansAccepted' /\ Mail!ClientsOwned' /\ Mail!AtMostOnce' /\ Mail!SendsAlone'
  BY <1>1 DEF Mail!SuccessMeansAccepted, Mail!ClientsOwned, Mail!AtMostOnce, Mail!SendsAlone
<1>4. \A a, b \in Messages : mpc'[a] \in Mail!Held /\ mpc'[b] \in Mail!Held => a = b
  BY <1>1 DEF Mail!Free
<1>5. \A f \in flights : f.msg \in Messages
  BY DEF Mail!TypeOK
<1> QED
  BY <1>1, <1>2, <1>3, <1>4, <1>5

(* dialLocked, and the Send that follows it. *)
LEMMA MailSends == ASSUME MailInv, NEW m \in Messages, Mail!Reuse(m) \/ Mail!Dial(m) PROVE MailInv'
<1> USE ServicesAssumption DEF MailInv, Mail!Inv
<1> DEFINE p == IF mpc[m] = "dial" THEN "send" ELSE "resend"
           c == client'
           f == Mail!Flight(m, c, FALSE)
<1>1. /\ mpc[m] \in {"dial", "redial"} /\ mpc' = [mpc EXCEPT ![m] = p] /\ UNCHANGED accepted
      /\ flights' = flights \cup {f}
  BY DEF Mail!Reuse, Mail!Dial, Mail!Sending, Mail!Goto
<1>2. /\ dials \in Nat /\ dials' \in 0..(MaxHandles + 1) /\ dials <= dials' /\ c \in 1..dials'
      /\ mopen' \subseteq {c}
      /\ c = client \/ c = dials + 1
  <2>1. client \in 0..dials /\ dials \in 0..(MaxHandles + 1) /\ mopen \subseteq {client}
    BY DEF Mail!TypeOK, Mail!ClientsOwned
  <2>2. mopen \subseteq 1..(MaxHandles + 1)
    BY DEF Mail!TypeOK, Mail!Clients
  <2>3. CASE Mail!Reuse(m)
    BY <2>1, <2>3 DEF Mail!Reuse
  <2>4. CASE Mail!Dial(m)
    <3>1. dials < MaxHandles + 1 /\ dials' = dials + 1 /\ c = dials + 1 /\ mopen' = mopen \cup {dials + 1} /\ mopen = {}
      BY <2>1, <2>2, <2>4 DEF Mail!Dial
    <3> QED
      BY <2>1, <3>1
  <2> QED
    BY <2>3, <2>4
<1>3. \A n \in Messages : mpc'[n] = IF n = m THEN p ELSE mpc[n]
  BY <1>1 DEF Mail!TypeOK
<1>4. mpc[m] \in Mail!Held /\ p \in {"send", "resend"} /\ p \in Mail!Held /\ p \in Mail!Places
  BY <1>1 DEF Mail!Held, Mail!Places
<1>5. \A g \in flights : g.cl # c /\ g.cl \in Nat /\ g.msg \in Messages
  <2> SUFFICES ASSUME NEW g \in flights PROVE g.cl # c /\ g.cl \in Nat /\ g.msg \in Messages
    OBVIOUS
  <2>1. g.cl \in Nat /\ g.msg \in Messages /\ g.cl <= dials
    BY DEF Mail!TypeOK, Mail!Clients
  <2>2. g.cl # client
    <3>1. ASSUME g.cl = client PROVE FALSE
      <4>1. mpc[g.msg] \in {"send", "resend"}
        BY <3>1
      <4>2. mpc[g.msg] \in Mail!Held
        BY <4>1 DEF Mail!Held
      <4>3. g.msg = m
        BY <1>4, <2>1, <4>2
      <4> QED
        BY <1>1, <4>1, <4>3
    <3> QED
      BY <3>1
  <2> QED
    BY <1>2, <2>1, <2>2
<1> HIDE DEF p, c
<1>6. /\ f \in [msg : Messages, cl : 1..(MaxHandles + 1), took : BOOLEAN]
      /\ f.msg = m /\ f.cl = c /\ f.took = FALSE
  <2>1. c \in 1..(MaxHandles + 1)
    BY <1>2
  <2> QED
    BY <2>1 DEF Mail!Flight
<1> HIDE DEF f
<1>7. Mail!TypeOK'
  <2>1. flights' \subseteq [msg : Messages, cl : 1..(MaxHandles + 1), took : BOOLEAN]
    BY <1>1, <1>6 DEF Mail!TypeOK, Mail!Clients
  <2>2. c # 0 /\ c \in 0..dials' /\ mopen' \subseteq 1..(MaxHandles + 1)
    BY <1>2
  <2>3. mpc' \in [Messages -> Mail!Places]
    BY <1>1, <1>4 DEF Mail!TypeOK
  <2> QED
    BY <1>1, <1>2, <2>1, <2>2, <2>3 DEF Mail!TypeOK, Mail!Clients, c
<1>8. Mail!SuccessMeansAccepted' /\ Mail!ClientsOwned' /\ Mail!AtMostOnce'
  BY <1>1, <1>2, <1>3, <1>4 DEF Mail!SuccessMeansAccepted, Mail!ClientsOwned, Mail!AtMostOnce, c
<1>9. \A a, b \in Messages : mpc'[a] \in Mail!Held /\ mpc'[b] \in Mail!Held => a = b
  BY <1>3, <1>4
<1>10. \A g, h \in flights' : g.cl = client' /\ h.cl = client' => g = h
  BY <1>1, <1>5, <1>6 DEF c
<1>11. Mail!SendsAlone'
  BY <1>8, <1>10, SendsAloneNext
<1>12. accepted[m] = 0
  BY <1>1
<1>13. \A g \in flights' : g.cl <= dials' /\ (g.cl = client' => mpc'[g.msg] \in {"send", "resend"})
  <2>1. \A g \in flights : g.cl <= dials'
    BY <1>2, <1>5
  <2>2. f.cl <= dials' /\ mpc'[f.msg] \in {"send", "resend"}
    BY <1>2, <1>3, <1>4, <1>6
  <2> QED
    BY <1>1, <1>5, <2>1, <2>2 DEF c
<1>14. \A g \in flights' : /\ g.took => accepted'[g.msg] = 1
                           /\ g.cl = client' /\ ~g.took => accepted'[g.msg] = 0
  BY <1>1, <1>5, <1>6, <1>12 DEF c
<1>15. \A n \in Messages : mpc'[n] \in {"new", "lock", "dial", "redial"} => accepted'[n] = 0
  BY <1>1, <1>3, <1>4
<1> QED
  BY <1>7, <1>8, <1>9, <1>10, <1>11, <1>13, <1>14, <1>15

(* A call leaves its Send, ended or abandoned, and st.client is kept or    *)
(* closed.  What it leaves on the client is nothing; it says ok only if    *)
(* the message was taken, and sends again only if it was not.              *)
LEMMA MailLeaves ==
  ASSUME MailInv, NEW m \in Messages, NEW p \in {"ok", "failed", "redial"},
         mpc[m] \in {"send", "resend"}, mpc' = [mpc EXCEPT ![m] = p],
         flights' \subseteq flights, UNCHANGED <<dials, accepted>>,
         \/ client' = 0 /\ mopen' = mopen \ {client}
         \/ UNCHANGED <<client, mopen>> /\ p # "redial" /\ \A g \in flights' : g.cl # client,
         p = "ok" => accepted[m] = 1, p = "redial" => accepted[m] = 0
  PROVE  MailInv'
<1> USE ServicesAssumption DEF MailInv, Mail!Inv
<1>1. \A n \in Messages : mpc'[n] = IF n = m THEN p ELSE mpc[n]
  BY DEF Mail!TypeOK
<1>2. mpc[m] \in Mail!Held /\ p \in Mail!Places /\ p \notin {"send", "resend"}
  BY DEF Mail!Held, Mail!Places
<1>3. \A n \in Messages : n # m => mpc[n] \notin Mail!Held /\ mpc[n] \notin {"send", "resend"}
  BY <1>2 DEF Mail!Held
<1>4. client \in 0..dials /\ dials \in Nat /\ mopen \subseteq {client} /\ mopen \subseteq 1..(MaxHandles + 1)
  BY DEF Mail!TypeOK, Mail!ClientsOwned, Mail!Clients
<1>5. client' \in 0..dials' /\ mopen' \subseteq {client'} /\ mopen' \subseteq 1..(MaxHandles + 1)
  BY <1>4
<1>6. \A g \in flights : g.cl \in Nat \ {0} /\ g.msg \in Messages
  BY DEF Mail!TypeOK, Mail!Clients
<1>7. \A g \in flights' : g \in flights /\ g.cl # client'
  BY <1>6
<1>8. Mail!TypeOK'
  <2>1. mpc' \in [Messages -> Mail!Places]
    BY <1>2 DEF Mail!TypeOK
  <2>2. \A n \in Messages : mpc'[n] \notin {"send", "resend"}
    BY <1>1, <1>2, <1>3
  <2> QED
    BY <1>5, <2>1, <2>2 DEF Mail!TypeOK, Mail!Clients
<1>9. Mail!SuccessMeansAccepted' /\ Mail!ClientsOwned' /\ Mail!AtMostOnce'
  BY <1>1, <1>5 DEF Mail!SuccessMeansAccepted, Mail!ClientsOwned, Mail!AtMostOnce
<1>10. Mail!SendsAlone'
  BY <1>7, <1>9, SendsAloneNext
<1>11. \A a, b \in Messages : mpc'[a] \in Mail!Held /\ mpc'[b] \in Mail!Held => a = b
  BY <1>1, <1>2, <1>3
<1>12. \A n \in Messages : mpc'[n] \in {"new", "lock", "dial", "redial"} => accepted'[n] = 0
  BY <1>1
<1> QED
  BY <1>7, <1>8, <1>9, <1>10, <1>11, <1>12

(* The Send that a call waits for ends, or the call's timeout is over. *)
LEMMA MailResult ==
  ASSUME MailInv, NEW m \in Messages,
         \/ Mail!Timeout(m)
         \/ \E f \in flights : Mail!SendOk(m, f) \/ Mail!SendError(m, f) \/ Mail!ConnError(m, f)
  PROVE  MailInv'
<1>1. CASE Mail!Timeout(m)
  BY <1>1, MailLeaves DEF Mail!Timeout, Mail!Goto, Mail!CloseLocked
<1>2. ASSUME NEW f \in flights, Mail!Ended(m, f)
      PROVE  /\ mpc[m] \in {"send", "resend"} /\ flights' \subseteq flights /\ f.cl = client
             /\ f.msg = m
             /\ \A g \in flights' : g.cl # client
  BY <1>2 DEF Mail!Ended, MailInv
<1>3. ASSUME NEW f \in flights, Mail!SendOk(m, f) PROVE MailInv'
  <2>1. Mail!Ended(m, f) /\ f.took /\ mpc' = [mpc EXCEPT ![m] = "ok"] /\ UNCHANGED <<client, dials, mopen, accepted>>
    BY <1>3 DEF Mail!SendOk, Mail!Goto
  <2>2. accepted[m] = 1
    BY <1>2, <2>1 DEF MailInv
  <2> QED
    BY <1>2, <2>1, <2>2, MailLeaves
<1>4. ASSUME NEW f \in flights, Mail!SendError(m, f) PROVE MailInv'
  <2>1. /\ Mail!Ended(m, f) /\ mpc' = [mpc EXCEPT ![m] = "failed"] /\ UNCHANGED <<dials, accepted>>
        /\ (client' = 0 /\ mopen' = mopen \ {client}) \/ UNCHANGED <<client, mopen>>
    BY <1>4 DEF Mail!SendError, Mail!Goto, Mail!CloseLocked
  <2> QED
    BY <1>2, <2>1, MailLeaves
<1>5. ASSUME NEW f \in flights, Mail!ConnError(m, f) PROVE MailInv'
  <2>1. /\ Mail!Ended(m, f) /\ ~f.took /\ mpc' = [mpc EXCEPT ![m] = "redial"]
        /\ UNCHANGED <<dials, accepted>>
        /\ client' = 0 /\ mopen' = mopen \ {client}
    BY <1>5 DEF Mail!ConnError, Mail!Goto, Mail!CloseLocked
  <2>2. accepted[m] = 0
    BY <1>2, <2>1 DEF MailInv
  <2> QED
    BY <1>2, <2>1, <2>2, MailLeaves
<1> QED
  BY <1>1, <1>3, <1>4, <1>5

(* The server takes a message, which is that of the one Send on the        *)
(* present client.                                                         *)
LEMMA MailAccept == ASSUME MailInv, NEW f \in flights, Mail!Accept(f) PROVE MailInv'
<1> USE ServicesAssumption DEF MailInv, Mail!Inv
<1> DEFINE g == Mail!Flight(f.msg, f.cl, TRUE)
<1>1. /\ ~f.took /\ f.cl \in mopen /\ UNCHANGED <<client, mpc, dials, mopen>>
      /\ flights' = (flights \ {f}) \cup {g} /\ accepted' = [accepted EXCEPT ![f.msg] = @ + 1]
  BY DEF Mail!Accept
<1>2. f.cl = client /\ f.msg \in Messages /\ f.cl \in 1..(MaxHandles + 1)
  BY <1>1 DEF Mail!ClientsOwned, Mail!TypeOK, Mail!Clients
<1>3. accepted[f.msg] = 0 /\ mpc[f.msg] \in {"send", "resend"}
  BY <1>1, <1>2
<1>4. /\ g \in [msg : Messages, cl : 1..(MaxHandles + 1), took : BOOLEAN]
      /\ g.msg = f.msg /\ g.cl = f.cl /\ g.took = TRUE
  BY <1>2 DEF Mail!Flight
<1> HIDE DEF g
<1>5. \A n \in Messages : accepted'[n] = IF n = f.msg THEN 1 ELSE accepted[n]
  BY <1>1, <1>3 DEF Mail!TypeOK
<1>6. Mail!TypeOK'
  <2>1. flights' \subseteq [msg : Messages, cl : 1..(MaxHandles + 1), took : BOOLEAN]
    BY <1>1, <1>4 DEF Mail!TypeOK, Mail!Clients
  <2>2. accepted' \in [Messages -> 0..2]
    BY <1>1, <1>3 DEF Mail!TypeOK
  <2> QED
    BY <1>1, <2>1, <2>2 DEF Mail!TypeOK, Mail!Clients
<1>7. Mail!SuccessMeansAccepted' /\ Mail!ClientsOwned' /\ Mail!AtMostOnce'
  BY <1>1, <1>5 DEF Mail!SuccessMeansAccepted, Mail!ClientsOwned, Mail!AtMostOnce
<1>8. \A x \in flights' : x = g \/ (x \in flights /\ x.cl # client)
  BY <1>1, <1>2
<1>9. \A x, y \in flights' : x.cl = client' /\ y.cl = client' => x = y
  BY <1>1, <1>8
<1>10. Mail!SendsAlone'
  BY <1>7, <1>9, SendsAloneNext
<1>11. \A x \in flights' : x.cl <= dials' /\ (x.cl = client' => mpc'[x.msg] \in {"send", "resend"})
  BY <1>1, <1>2, <1>3, <1>4, <1>8
<1>12. \A x \in flights' : /\ x.took => accepted'[x.msg] = 1
                           /\ x.cl = client' /\ ~x.took => accepted'[x.msg] = 0
  <2>1. g.took /\ accepted'[g.msg] = 1
    BY <1>2, <1>4, <1>5
  <2>2. ASSUME NEW x \in flights, x.took PROVE accepted'[x.msg] = 1
    <3>1. x.msg \in Messages /\ accepted[x.msg] = 1
      BY <2>2 DEF Mail!TypeOK
    <3> QED
      BY <1>5, <3>1
  <2> QED
    BY <1>1, <1>8, <2>1, <2>2
<1>13. \A n \in Messages : mpc'[n] \in {"new", "lock", "dial", "redial"} => accepted'[n] = 0
  BY <1>1, <1>3, <1>5
<1> QED
  BY <1>1, <1>6, <1>7, <1>9, <1>10, <1>11, <1>12, <1>13

(* An abandoned Send ends, Stop closes the client, a connection is lost. *)
LEMMA MailOther ==
  ASSUME MailInv, \/ \E f \in flights : Mail!AbandonedEnds(f)
                  \/ Mail!Stop
                  \/ \E c \in Mail!Clients : Mail!ServerDrop(c)
                  \/ UNCHANGED mailVars
  PROVE  MailInv'
<1> USE ServicesAssumption DEF MailInv, Mail!Inv
<1>1. /\ UNCHANGED <<mpc, dials, accepted>> /\ flights' \subseteq flights /\ mopen' \subseteq mopen
      /\ \/ client' = client
         \/ client' = 0 /\ mopen' = mopen \ {client} /\ \A m \in Messages : mpc[m] \notin Mail!Held
  BY DEF Mail!AbandonedEnds, Mail!Stop, Mail!CloseLocked, Mail!Free, Mail!ServerDrop, mailVars
<1>2. client \in 0..dials /\ dials \in Nat /\ mopen \subseteq {client}
  BY DEF Mail!TypeOK, Mail!ClientsOwned
<1>3. client' \in 0..dials' /\ mopen' \subseteq {client'}
  <2>1. dials' = dials /\ 0 \in 0..dials
    BY <1>1, <1>2
  <2>2. CASE client' = client
    BY <1>1, <1>2, <2>1, <2>2
  <2>3. CASE client' = 0 /\ mopen' = mopen \ {client}
    <3>1. mopen' = {}
      BY <1>2, <2>3
    <3> QED
      BY <2>1, <2>3, <3>1
  <2> QED
    BY <1>1, <2>2, <2>3
<1>4. \A f \in flights' : f \in flights /\ f.cl # 0
  BY <1>1 DEF Mail!TypeOK, Mail!Clients
<1>5. \A m \in Messages : mpc[m] \in {"send", "resend"} => client' # 0
  BY <1>1 DEF Mail!TypeOK, Mail!Held
<1>6. Mail!TypeOK'
  BY <1>1, <1>3, <1>5 DEF Mail!TypeOK
<1>7. Mail!SuccessMeansAccepted' /\ Mail!ClientsOwned' /\ Mail!AtMostOnce'
  BY <1>1, <1>3 DEF Mail!SuccessMeansAccepted, Mail!ClientsOwned, Mail!AtMostOnce
<1>8. \A f \in flights' : f.cl = client' => f.cl = client
  BY <1>1, <1>4
<1>9. Mail!SendsAlone'
  BY <1>4, <1>7, <1>8, SendsAloneNext
<1> QED
  BY <1>1, <1>4, <1>6, <1>7, <1>8, <1>9

(* MailInv is inductive: the lock is held from the dial to the result, so  *)
(* that only one call changes the client.                                  *)
LEMMA MailNext == MailInv /\ [Mail!Next]_mailVars => MailInv'
<1> SUFFICES ASSUME MailInv, [Mail!Next]_mailVars PROVE MailInv'
  OBVIOUS
<1>1. ASSUME NEW m \in Messages, Mail!SendMessage(m) \/ Mail!Lock(m) \/ Mail!DialFails(m) PROVE MailInv'
  <2>1. \E p \in {"lock", "dial", "failed"} :
          /\ mpc' = [mpc EXCEPT ![m] = p] /\ UNCHANGED <<client, flights, dials, mopen, accepted>>
          /\ p = "dial" => Mail!Free
          /\ p # "failed" => mpc[m] \in {"new", "lock"}
          /\ mpc[m] \in {"new", "lock", "dial", "redial"}
    BY <1>1 DEF Mail!SendMessage, Mail!Lock, Mail!DialFails, Mail!Goto
  <2> QED
    BY <2>1, MailMoves DEF Mail!Places, Mail!Held
<1>2. ASSUME NEW m \in Messages, Mail!Call(m) PROVE MailInv'
  BY <1>1, <1>2, MailSends, MailResult DEF Mail!Call
<1> QED
  BY <1>2, MailAccept, MailOther DEF Mail!Next

----------------------------------------------------------------------------
(* Whatever Starts, Stops, restarts and failures there are, no service has *)
(* a handle open other than the one it holds (msSql.go:31-97;              *)
(* oracleSql.go:87-158; mailSender.go:62-74), GetDB gives out no handle    *)
(* that has not answered, and the server takes no message twice            *)
(* (mailSender.go:114-133).                                                *)
THEOREM HandlesInvAlways == MCSpec => []HandlesInv
<1> DEFINE I == MsInv /\ OracleInv /\ MailInv
<1>1. MCInit => I
  BY MsInit, OracleInit, MailInit DEF MCInit
<1>2. I /\ [MCNext]_<<hostVars, msVars, oracleVars, mailVars>> => I'
  BY MsNext, OracleNext, MailNext DEF MCNext
<1>3. I => HandlesInv
  BY DEF HandlesInv, MsInv, OracleInv, MailInv
<1> QED
  BY <1>1, <1>2, <1>3, PTL DEF MCSpec
----------------------------------------------------------------------------
(* The services that were started, the first n of them. *)
First(n) == {started[i] : i \in 1..n}

(* Run: initServices goes through its list and back again, deInitServices  *)
(* leaves nothing behind it running, the quit channel comes after all      *)
(* services and the context ends with Run.                                 *)
RunInv ==
  /\ Len(started) <= Len(startList)
  /\ \A i \in 1..Len(started) : started[i] = startList[i]
  /\ pc \in {"config", "init", "undo", "failed"} => quit = Nil /\ ~asked
  /\ cancelled => pc = "returned"
  /\ pc = "config" => k = 1 /\ started = <<>> /\ log = <<>> /\ running = {}
  /\ pc = "init" => k = Len(started) + 1 /\ log = <<>> /\ running = First(Len(started))
  /\ pc = "undo" => /\ k \in 0..Len(started) /\ Len(started) < Len(startList)
                    /\ Len(log) = Len(started) - k /\ running = First(k)
                    /\ \A i \in 1..Len(log) : log[i] = started[(Len(started) - i) + 1]
  /\ pc = "deinit" => /\ k \in 1..(Len(stopList) + 1)
                      /\ \A i \in 1..(k - 1) : stopList[i] \notin running

(* The web server serves, or is on its way to, only while it is running;   *)
(* Shutdown is final.                                                      *)
WebInv ==
  /\ W!TypeOK
  /\ serve # "none" => once
  /\ serve = "serving" => ~shut
  /\ serve \in {"begin", "bound", "serving"} /\ ~shut => Web \in running

(* Telemetry has one connection at most, and no provider that its Stop     *)
(* would pass over.                                                        *)
OtelInv ==
  /\ O!TypeOK
  /\ oopen = IF oconn THEN 1 ELSE 0
  /\ WithoutPrometheus => "meter" \notin providers
  /\ TelemetryOwned

(* What is kept of the controller. *)
AppInv == Inv /\ FailureUndone /\ RunInv

(* The inductive form of HostInv. *)
HostIInv == AppInv /\ WebInv /\ OtelInv
(* The lists that an application gives are sequences, and no service is    *)
(* named twice.                                                            *)
LEMMA Lists ==
  ASSUME TypeOK
  PROVE  /\ startList \in Seq(Services) /\ stopList \in Seq(Services \cup {Nil})
         /\ Len(startList) \in 0..MaxList /\ Len(stopList) \in 0..MaxList /\ MaxList \in Nat
         /\ \A i, j \in 1..Len(startList) : startList[i] = startList[j] => i = j
         /\ Len(started) \in Nat /\ Len(log) \in Nat /\ k \in Nat
<1>1. \A S, s : s \in BoundedSeq(S, MaxList) =>
        s \in Seq(S) /\ Len(s) \in 0..MaxList /\ DOMAIN s = 1..Len(s)
  <2> SUFFICES ASSUME NEW S, NEW s, NEW m \in 0..MaxList, s \in [1..m -> S]
               PROVE  s \in Seq(S) /\ Len(s) \in 0..MaxList /\ DOMAIN s = 1..Len(s)
    BY DEF BoundedSeq, SeqOf
  <2>1. m \in Nat
    BY AppAssumption
  <2> QED
    BY <2>1
<1>2. startList \in BoundedSeq(Services, MaxList) /\ IsInjective(startList)
  BY DEF TypeOK, StartLists
<1>3. stopList \in BoundedSeq(Services \cup {Nil}, MaxList)
  BY DEF TypeOK, StopLists
<1>4. startList \in Seq(Services) /\ Len(startList) \in 0..MaxList
      /\ DOMAIN startList = 1..Len(startList)
  BY <1>1, <1>2
<1>5. stopList \in Seq(Services \cup {Nil}) /\ Len(stopList) \in 0..MaxList
  BY <1>1, <1>3
<1>6. \A i, j \in 1..Len(startList) : startList[i] = startList[j] => i = j
  BY <1>2, <1>4 DEF IsInjective
<1> QED
  BY <1>4, <1>5, <1>6, AppAssumption DEF TypeOK

(* A service is started: one more of the list. *)
LEMMA StartStep == ASSUME AppInv, InitService PROVE AppInv'
<1> USE AppAssumption
<1>1. TypeOK /\ pc = "init" /\ k <= Len(startList) /\ k = Len(started) + 1
      /\ log = <<>> /\ running = First(Len(started)) /\ quit = Nil /\ ~asked /\ ~cancelled
      /\ UNCHANGED <<lists, quit, cancelled, log, asked>>
  BY DEF AppInv, Inv, RunInv, InitService
<1>2. startList[k] \in Services /\ Len(started) \in Nat /\ started \in Seq(Services)
      /\ startList \in Seq(Services) /\ Len(startList) \in 0..MaxList /\ MaxList \in Nat
  BY <1>1, Lists DEF TypeOK
<1>3. CASE started' = Append(started, startList[k]) /\ running' = running \cup {startList[k]}
           /\ k' = k + 1 /\ UNCHANGED pc
  <2>1. /\ started' \in Seq(Services) /\ Len(started') = Len(started) + 1
        /\ \A i \in 1..Len(started) : started'[i] = started[i]
        /\ started'[Len(started) + 1] = startList[k]
    BY <1>2, <1>3
  <2>2. running' = First(Len(started))'
    BY <1>1, <1>2, <1>3, <2>1 DEF First
  <2>3. TypeOK'
    BY <1>1, <1>2, <1>3, <2>1 DEF TypeOK, lists
  <2>4. \A i \in 1..Len(started') : started'[i] = startList[i]
    BY <1>1, <1>2, <2>1 DEF AppInv, RunInv
  <2>5. RunInv'
    BY <1>1, <1>2, <1>3, <2>1, <2>2, <2>4 DEF RunInv, lists
  <2> QED
    BY <1>1, <1>3, <2>3, <2>5
    DEF AppInv, Inv, FailureUndone, AskedNotLost, ContextOutlivesServices
<1>4. CASE pc' = "undo" /\ k' = Len(started) /\ UNCHANGED <<started, running>>
  <2>1. TypeOK'
    BY <1>1, <1>2, <1>4 DEF TypeOK, lists
  <2>2. RunInv'
    BY <1>1, <1>2, <1>4 DEF AppInv, RunInv, First, lists
  <2> QED
    BY <1>1, <1>4, <2>1, <2>2
    DEF AppInv, Inv, FailureUndone, AskedNotLost, ContextOutlivesServices
<1> QED
  BY <1>3, <1>4 DEF InitService

(* A service is undone: the last of those still running. *)
LEMMA UndoStep == ASSUME AppInv, UndoService PROVE AppInv'
<1>1. TypeOK /\ pc = "undo" /\ k \in 0..Len(started) /\ Len(started) < Len(startList)
      /\ Len(log) = Len(started) - k /\ running = First(k)
      /\ (\A i \in 1..Len(log) : log[i] = started[(Len(started) - i) + 1])
      /\ (\A i \in 1..Len(started) : started[i] = startList[i])
      /\ quit = Nil /\ ~asked /\ ~cancelled
      /\ UNCHANGED <<lists, started, quit, cancelled, asked>>
  BY DEF AppInv, Inv, RunInv, UndoService
<1>2. /\ Len(started) \in Nat /\ started \in Seq(Services) /\ Len(log) \in Nat
      /\ log \in Seq(Services) /\ k \in Nat /\ Len(startList) \in Nat
      /\ \A i, j \in 1..Len(startList) : startList[i] = startList[j] => i = j
  BY <1>1, Lists DEF TypeOK
<1>3. CASE k > 0
  <2>1. /\ running' = running \ {started[k]} /\ log' = Append(log, started[k]) /\ k' = k - 1
        /\ UNCHANGED pc /\ started[k] \in Services
    BY <1>1, <1>2, <1>3 DEF UndoService, StopService
  <2>2. /\ log' \in Seq(Services) /\ Len(log') = Len(log) + 1 /\ log'[Len(log) + 1] = started[k]
        /\ \A i \in 1..Len(log) : log'[i] = log[i]
    BY <1>2, <2>1
  <2>3. running' = First(k)'
    <3>1. ASSUME NEW i \in 1..Len(started), NEW j \in 1..Len(started), started[i] = started[j]
          PROVE  i = j
      <4>1. i \in 1..Len(startList) /\ j \in 1..Len(startList)
        BY <1>1, <1>2
      <4>2. startList[i] = startList[j]
        BY <1>1, <3>1
      <4> QED
        BY <1>2, <4>1, <4>2
    <3>2. First(k)' = {started[i] : i \in 1..(k - 1)}
      BY <1>1, <2>1 DEF First
    <3>3. {started[i] : i \in 1..k} \ {started[k]} = {started[i] : i \in 1..(k - 1)}
      BY <1>1, <1>2, <1>3, <3>1
    <3> QED
      BY <1>1, <2>1, <3>2, <3>3 DEF First
  <2>4. \A i \in 1..Len(log') : log'[i] = started[(Len(started) - i) + 1]
    BY <1>1, <1>2, <2>2
  <2>5. TypeOK'
    <3>1. k' \in 0..(MaxList + 1) /\ running' \subseteq Services
      BY <1>1, <1>2, <1>3, <2>1, AppAssumption DEF TypeOK
    <3> QED
      BY <1>1, <2>1, <2>2, <3>1 DEF TypeOK, lists
  <2>6. RunInv'
    <3>1. k' \in 0..Len(started) /\ Len(log') = Len(started) - k'
      BY <1>1, <1>2, <1>3, <2>1, <2>2
    <3> QED
      BY <1>1, <1>2, <2>1, <2>3, <2>4, <3>1 DEF RunInv, lists
  <2> QED
    BY <1>1, <2>1, <2>5, <2>6
    DEF AppInv, Inv, FailureUndone, AskedNotLost, ContextOutlivesServices
<1>4. CASE ~(k > 0)
  <2>1. pc' = "failed" /\ k = 0 /\ UNCHANGED <<k, running, log>>
    BY <1>2, <1>4 DEF UndoService
  <2>2. running = {} /\ log = Reverse(started)
    BY <1>1, <1>2, <2>1 DEF First, Reverse
  <2>3. TypeOK'
    BY <1>1, <2>1 DEF TypeOK, lists
  <2>4. RunInv'
    BY <1>1, <2>1 DEF RunInv, lists
  <2> QED
    BY <1>1, <2>1, <2>2, <2>3, <2>4
    DEF AppInv, Inv, FailureUndone, AskedNotLost, ContextOutlivesServices
<1> QED
  BY <1>3, <1>4

(* A service of app.Stop() is stopped, and nothing before it in the list   *)
(* runs.                                                                   *)
LEMMA DeInitStep == ASSUME AppInv, DeInitService PROVE AppInv'
<1>1. TypeOK /\ pc = "deinit" /\ k <= Len(stopList) /\ k \in 1..(Len(stopList) + 1)
      /\ (\A i \in 1..(k - 1) : stopList[i] \notin running) /\ k' = k + 1
      /\ ~cancelled /\ UNCHANGED <<lists, pc, started, quit, cancelled, asked>>
  BY DEF AppInv, Inv, RunInv, DeInitService
<1>2. stopList[k] \in Services \cup {Nil} /\ Len(stopList) \in 0..MaxList /\ MaxList \in Nat
      /\ Nil \notin Services /\ log \in Seq(Services) /\ running \subseteq Services
  BY <1>1, Lists, AppAssumption DEF TypeOK
<1>3. running' \subseteq running /\ stopList[k] \notin running' /\ log' \in Seq(Services)
  <2>1. CASE stopList[k] = Nil
    BY <1>2, <2>1 DEF DeInitService
  <2>2. CASE stopList[k] # Nil
    <3>1. /\ running' = running \ {stopList[k]} /\ log' = Append(log, stopList[k])
          /\ stopList[k] \in Services
      BY <1>2, <2>2 DEF DeInitService, StopService
    <3> QED
      BY <1>2, <3>1
  <2> QED
    BY <2>1, <2>2
<1>4. TypeOK'
  BY <1>1, <1>2, <1>3 DEF TypeOK, lists
<1>5. \A i \in 1..(k' - 1) : stopList[i] \notin running'
  BY <1>1, <1>2, <1>3
<1>6. RunInv'
  BY <1>1, <1>2, <1>5 DEF AppInv, RunInv, lists
<1> QED
  BY <1>1, <1>4, <1>6
  DEF AppInv, Inv, FailureUndone, AskedNotLost, ContextOutlivesServices

(* The other steps of Run, and those who ask it to stop. *)
LEMMA RunElse ==
  ASSUME AppInv,
         LoadConfig \/ MakeQuit \/ Process \/ ProcessEnd \/ Quit \/ Stop \/ Signal \/ Return
  PROVE  AppInv'
<1> USE AppAssumption
<1>1. TypeOK /\ UNCHANGED <<lists, started, running, log>>
  BY DEF AppInv, Inv, LoadConfig, MakeQuit, Process, ProcessEnd, Quit, Stop, Signal, Return
<1>2. Nil # 0 /\ Nil # 1 /\ Len(stopList) \in Nat /\ k \in Nat /\ stopList \in Seq(Services \cup {Nil})
  BY <1>1, Lists
<1>3. CASE LoadConfig
  <2>1. started = <<>> /\ log = <<>> /\ running = {} /\ quit = Nil /\ ~asked /\ ~cancelled /\ k = 1
    BY <1>3 DEF LoadConfig, AppInv, RunInv
  <2>2. Len(started) = 0 /\ Reverse(started) = <<>> /\ First(0) = {}
    BY <2>1 DEF Reverse, First
  <2> QED
    BY <1>1, <1>3, <2>1, <2>2
    DEF LoadConfig, AppInv, Inv, FailureUndone, RunInv, TypeOK, AskedNotLost,
        ContextOutlivesServices, First, lists
<1>4. CASE MakeQuit
  BY <1>1, <1>2, <1>4
  DEF MakeQuit, AppInv, Inv, FailureUndone, RunInv, TypeOK, AskedNotLost,
      ContextOutlivesServices, First, lists
<1>5. CASE Process \/ ProcessEnd
  BY <1>1, <1>2, <1>5
  DEF Process, ProcessEnd, AppInv, Inv, FailureUndone, RunInv, TypeOK, AskedNotLost,
      ContextOutlivesServices, First, lists
<1>6. CASE Quit
  <2>1. /\ pc' = "deinit" /\ k' = 1 /\ quit' = 0 /\ ~cancelled /\ UNCHANGED <<cancelled, asked>>
        /\ 1 \in 0..(MaxList + 1)
    BY <1>6 DEF Quit, AppInv, RunInv
  <2>2. TypeOK'
    BY <1>1, <2>1 DEF TypeOK, lists
  <2>3. RunInv'
    BY <1>1, <1>2, <2>1 DEF AppInv, RunInv, lists
  <2> QED
    BY <2>1, <2>2, <2>3 DEF AppInv, Inv, FailureUndone, AskedNotLost, ContextOutlivesServices
<1>7. CASE Stop \/ Signal
  <2>1. quit # Nil /\ quit' = 1 /\ asked' = TRUE /\ UNCHANGED <<pc, k, cancelled>>
    BY <1>7 DEF Stop, Signal, Send
  <2>2. TypeOK'
    BY <1>1, <2>1 DEF TypeOK, lists
  <2>3. RunInv'
    BY <1>1, <2>1 DEF AppInv, RunInv, First, lists
  <2> QED
    BY <1>1, <2>1, <2>2, <2>3
    DEF AppInv, Inv, FailureUndone, AskedNotLost, ContextOutlivesServices, lists
<1>8. CASE Return
  <2>1. /\ pc = "deinit" /\ k > Len(stopList) /\ cancelled' = TRUE /\ pc' = "returned"
        /\ UNCHANGED <<k, quit, asked>> /\ \A i \in 1..(k - 1) : stopList[i] \notin running
    BY <1>8 DEF Return, AppInv, RunInv
  <2>2. running \cap Range(stopList) = {}
    BY <1>2, <2>1 DEF Range
  <2>3. TypeOK'
    BY <1>1, <2>1 DEF TypeOK, lists
  <2>4. RunInv'
    BY <1>1, <2>1 DEF AppInv, RunInv, lists
  <2> QED
    BY <1>1, <2>1, <2>2, <2>3, <2>4
    DEF AppInv, Inv, FailureUndone, AskedNotLost, ContextOutlivesServices, lists
<1> QED
  BY <1>3, <1>4, <1>5, <1>6, <1>7, <1>8
(* A step of the controller. *)
LEMMA AppStep ==
  ASSUME AppInv, HostStart \/ HostStop \/ HostElse \/ UNCHANGED vars
  PROVE  AppInv'
<1>1. CASE UNCHANGED vars
  BY <1>1
  DEF vars, lists, AppInv, Inv, FailureUndone, RunInv, TypeOK, AskedNotLost,
      ContextOutlivesServices, First
<1> QED
  BY <1>1, StartStep, UndoStep, DeInitStep, RunElse DEF HostStart, HostStop, HostElse

----------------------------------------------------------------------------
(* What a step of Stop does to the services: one leaves, and it is the one *)
(* that is written to the log, or nothing is written and none leaves.      *)
LEMMA Stopped ==
  ASSUME AppInv, UndoService \/ DeInitService
  PROVE  \/ UNCHANGED <<running, log>>
         \/ \E s \in Services : running' = running \ {s} /\ log' # log /\ Last(log') = s
<1>1. TypeOK /\ log \in Seq(Services) /\ Len(log) \in Nat /\ started \in Seq(Services)
      /\ stopList \in Seq(Services \cup {Nil}) /\ k \in Nat
  BY Lists DEF AppInv, Inv, TypeOK
<1>2. ASSUME NEW s \in Services, StopService(s)
      PROVE  running' = running \ {s} /\ log' # log /\ Last(log') = s
  <2>1. log' = Append(log, s) /\ Len(Append(log, s)) = Len(log) + 1
        /\ Append(log, s)[Len(log) + 1] = s
    BY <1>1, <1>2 DEF StopService
  <2>2. log' # log
    BY <1>1, <2>1
  <2> QED
    BY <1>2, <2>1, <2>2 DEF StopService, Last
<1>3. CASE UndoService
  <2>1. k \in 0..Len(started)
    BY <1>3 DEF UndoService, AppInv, RunInv
  <2>2. CASE k > 0
    BY <1>1, <1>2, <1>3, <2>1, <2>2 DEF UndoService
  <2> QED
    BY <1>3, <2>2 DEF UndoService
<1>4. CASE DeInitService
  <2>1. stopList[k] \in Services \cup {Nil}
    BY <1>1, <1>4 DEF DeInitService, AppInv, RunInv
  <2> QED
    BY <1>2, <1>4, <2>1 DEF DeInitService
<1> QED
  BY <1>3, <1>4

(* The web server: Stop shuts it down wherever its goroutine is, and what  *)
(* was shut down does not serve.                                           *)
LEMMA WebStep ==
  ASSUME AppInv, WebInv, [HostNext]_hostVars
  PROVE  WebInv'
<1> USE HostedAssumption DEF WebInv, W!TypeOK, webVars
<1>1. CASE HostStart
  <2>1. CASE startList[k] = Web
    <3>1. W!Start /\ Web \in running'
      BY <1>1, <2>1 DEF HostStart, InitService
    <3> QED
      BY <3>1 DEF W!Start
  <2>2. CASE startList[k] # Web
    <3>1. UNCHANGED webVars /\ running \subseteq running'
      BY <1>1, <2>2 DEF HostStart, InitService
    <3> QED
      BY <3>1
  <2> QED
    BY <2>1, <2>2
<1>2. CASE HostStop
  <2>1. CASE UNCHANGED <<running, log>>
    <3>1. UNCHANGED webVars
      BY <1>2, <2>1 DEF HostStop
    <3> QED
      BY <2>1, <3>1
  <2>2. ASSUME NEW s \in Services, running' = running \ {s}, log' # log, Last(log') = s
        PROVE  WebInv'
    <3>1. CASE s = Web
      <4>1. W!Stop
        BY <1>2, <2>2, <3>1 DEF HostStop
      <4> QED
        BY <4>1 DEF W!Stop, W!Shutdown
    <3>2. CASE s # Web
      <4>1. UNCHANGED webVars
        BY <1>2, <2>2, <3>2 DEF HostStop
      <4> QED
        BY <2>2, <3>2, <4>1
    <3> QED
      BY <3>1, <3>2
  <2> QED
    BY <1>2, <2>1, <2>2, Stopped DEF HostStop
<1>3. CASE UNCHANGED webVars /\ running' = running
  BY <1>3
<1>4. CASE W!Next /\ UNCHANGED vars
  <2>1. conns' \in 0..MaxConns /\ running' = running
    BY <1>4 DEF W!Next, W!Listen, W!Serve, W!Watch, W!Accept, W!Finish, vars
  <2>2. CASE W!Listen
    BY <2>1, <2>2 DEF W!Listen
  <2>3. CASE W!Serve
    BY <2>1, <2>3 DEF W!Serve
  <2>4. CASE W!Watch
    <3>1. shut' = TRUE /\ shut' \in BOOLEAN /\ watch' = "ended" /\ UNCHANGED once
          /\ serve' = IF serve = "serving" THEN "ended" ELSE serve
      BY <2>4, Zenon DEF W!Watch, W!Shutdown
    <3> QED
      BY <2>1, <3>1
  <2>5. CASE W!Accept \/ W!Finish
    BY <2>1, <2>5 DEF W!Accept, W!Finish
  <2> QED
    BY <1>4, <2>2, <2>3, <2>4, <2>5 DEF W!Next
<1> QED
  BY <1>1, <1>2, <1>3, <1>4
  DEF HostNext, HostElse, LoadConfig, MakeQuit, Process, ProcessEnd, Quit, Stop, Signal, Return,
      hostVars, vars

(* What Start of telemetry makes: providers only, the meter only when it   *)
(* is wanted, and nothing before the first stage.                          *)
LEMMA MadeProviders ==
  ASSUME NEW n \in 0..Len(O!Stages)
  PROVE  /\ O!Made(n) \subseteq {"tracer", "logger", "meter"}
         /\ WithoutPrometheus => "meter" \notin O!Made(n)
         /\ n = 0 => O!Made(n) = {}
<1> DEFINE a == <<"conn", "resource", "tracer", "logger">>
           b == IF WithoutPrometheus THEN <<>> ELSE <<"meter">>
           Names == {"conn", "resource", "tracer", "logger", "meter"}
<1>1. a \in Seq(Names) /\ Len(a) = 4 /\ \A i \in 1..4 : a[i] # "meter"
  OBVIOUS
<1>2. b \in Seq(Names) /\ Len(b) \in 0..1 /\ (WithoutPrometheus => Len(b) = 0)
  <2>1. CASE WithoutPrometheus
    <3>1. b = <<>>
      BY <2>1
    <3> HIDE DEF b
    <3> QED
      BY <3>1
  <2>2. CASE ~WithoutPrometheus
    <3>1. b = <<"meter">>
      BY <2>2
    <3> HIDE DEF b
    <3> QED
      BY <2>2, <3>1
  <2> QED
    BY <2>1, <2>2
<1>3. O!Stages = a \o b
  BY DEF O!Stages
<1> HIDE DEF a, b
<1>4. /\ a \o b \in Seq(Names) /\ Len(a \o b) = Len(a) + Len(b)
      /\ \A i \in 1..Len(a) + Len(b) : (a \o b)[i] = IF i <= Len(a) THEN a[i] ELSE b[i - Len(a)]
  BY <1>1, <1>2, ConcatProperties
<1>5. ASSUME WithoutPrometheus, NEW i \in 1..Len(a \o b) PROVE (a \o b)[i] # "meter"
  <2>1. Len(b) = 0
    BY <1>2, <1>5, Zenon
  <2> QED
    <3>1. Len(a \o b) = 4 /\ Len(a) + Len(b) = 4
      BY <1>1, <1>4, <2>1
    <3>2. i \in 1..4 /\ i <= Len(a) /\ i \in 1..Len(a) + Len(b)
      BY <1>1, <3>1
    <3>3. (a \o b)[i] = a[i]
      BY <1>4, <3>2
    <3> QED
      BY <1>1, <3>2, <3>3, Zenon
<1> DEFINE s == SubSeq(a \o b, 1, n)
<1>6. n \in 0..Len(a \o b) /\ Len(a \o b) \in Nat
  BY <1>3, <1>4
<1>7. s \in Seq(Names) /\ Len(s) = n /\ \A i \in 1..n : s[i] = (a \o b)[i]
  <2>1. /\ Len(s) = n /\ \A i \in 1..n : s[i] = (a \o b)[i]
    BY <1>4, <1>6
  <2>2. \A i \in 1..n : (a \o b)[i] \in Names
    BY <1>4, <1>6
  <2>3. s \in Seq(Names)
    BY <1>6, <2>2
  <2> QED
    BY <2>1, <2>3
<1>8. O!Made(n) = {s[i] : i \in 1..n} \ {"conn", "resource"}
  <2>1. DOMAIN s = 1..n
    BY <1>6, <1>7
  <2> QED
    BY <1>3, <2>1 DEF O!Made, O!Range
<1> HIDE DEF s
<1>9. \A i \in 1..n : s[i] \in Names
  BY <1>6, <1>7
<1>10. O!Made(n) \subseteq {"tracer", "logger", "meter"}
  BY <1>8, <1>9
<1>11. ASSUME WithoutPrometheus PROVE "meter" \notin O!Made(n)
  <2>1. \A i \in 1..n : i \in 1..Len(a \o b)
    BY <1>6
  <2>2. \A i \in 1..n : s[i] # "meter"
    BY <1>5, <1>7, <1>11, <2>1, Zenon
  <2> QED
    BY <1>8, <2>2
<1>12. n = 0 => O!Made(n) = {}
  BY <1>8
<1> QED
  BY <1>10, <1>11, <1>12

(* Telemetry: Start keeps one connection, Stop leaves nothing, and only a  *)
(* Start that failed is not followed by a Stop.                            *)
LEMMA OtelStep ==
  ASSUME AppInv, OtelInv, [HostNext]_hostVars
  PROVE  OtelInv'
<1> USE HostedAssumption DEF OtelInv, O!TypeOK, otelVars, TelemetryOwned, O!Gone
<1>1. CASE HostStart
  <2>1. /\ pc = "init" /\ k = Len(started) + 1 /\ UNCHANGED startList
        /\ \/ pc' = "init" /\ running' = running \cup {startList[k]}
           \/ pc' = "undo" /\ running' = running /\ started' = started
    BY <1>1 DEF HostStart, InitService, AppInv, RunInv, lists
  <2>2. CASE startList[k] = Otel
    <3>1. PICK n \in 0..Len(O!Stages) : O!Start(n)
      BY <1>1, <2>2 DEF HostStart
    <3>2. /\ O!Made(n) \subseteq {"tracer", "logger", "meter"}
          /\ WithoutPrometheus => "meter" \notin O!Made(n)
      BY MadeProviders
    <3>3. /\ oconn' = (n >= 1) /\ providers' = providers \cup O!Made(n)
          /\ exporting' = exporting \cup O!Made(n) /\ inited' = (inited \/ n = Len(O!Stages))
          /\ oopen' = IF n >= 1 THEN 1 ELSE 0
      BY <3>1 DEF O!Start
    <3>4. O!TypeOK' /\ oopen' = IF oconn' THEN 1 ELSE 0
      <4>1. inited' \in BOOLEAN
        <5>1. (inited \/ n = Len(O!Stages)) \in BOOLEAN
          OBVIOUS
        <5> QED
          BY <3>3, <5>1, Zenon
      <4>2. oconn' \in BOOLEAN /\ (oconn' <=> n >= 1)
        <5>1. (n >= 1) \in BOOLEAN
          OBVIOUS
        <5> QED
          BY <3>3, <5>1, Zenon
      <4>3. oopen' \in 0..1 /\ oopen' = IF oconn' THEN 1 ELSE 0
        <5>1. CASE n >= 1
          <6>1. oopen' = 1
            BY <3>3, <5>1
          <6> QED
            BY <4>2, <5>1, <6>1
        <5>2. CASE ~(n >= 1)
          <6>1. oopen' = 0
            BY <3>3, <5>2
          <6> QED
            BY <4>2, <5>2, <6>1
        <5> QED
          BY <5>1, <5>2
      <4>4. providers' \subseteq {"tracer", "logger", "meter"} /\ exporting' \subseteq providers'
        BY <3>2, <3>3
      <4> QED
        BY <4>1, <4>2, <4>3, <4>4, Zenon
    <3>5. TelemetryOwned'
      BY <2>1, <2>2
    <3> QED
      BY <3>2, <3>3, <3>4, <3>5
  <2>3. CASE startList[k] # Otel
    <3>1. UNCHANGED otelVars
      BY <1>1, <2>3 DEF HostStart
    <3> QED
      BY <2>1, <3>1
  <2> QED
    BY <2>2, <2>3
<1>2. CASE HostStop
  <2>0. UNCHANGED <<startList, started>> /\ (pc = "undo" => pc' \in {"undo", "failed"})
        /\ pc # "failed"
    BY <1>2 DEF HostStop, UndoService, DeInitService, lists
  <2>1. CASE UNCHANGED <<running, log>>
    <3>1. UNCHANGED otelVars
      BY <1>2, <2>1 DEF HostStop
    <3> QED
      BY <2>0, <2>1, <3>1
  <2>2. ASSUME NEW s \in Services, running' = running \ {s}, log' # log, Last(log') = s
        PROVE  OtelInv'
    <3>1. CASE s = Otel
      <4>1. O!Stop
        BY <1>2, <2>2, <3>1 DEF HostStop
      <4>2. oopen' = 0 /\ UNCHANGED <<providers, inited>>
        BY <4>1 DEF O!Stop
      <4>3. exporting' = {}
        BY <4>1 DEF O!Stop
      <4>4. oconn' = FALSE /\ oconn' \in BOOLEAN
        BY <4>1, Zenon DEF O!Stop
      <4> QED
        BY <4>2, <4>3, <4>4
    <3>2. CASE s # Otel
      <4>1. UNCHANGED otelVars
        BY <1>2, <2>2, <3>2 DEF HostStop
      <4> QED
        BY <2>0, <2>2, <3>2, <4>1
    <3> QED
      BY <3>1, <3>2
  <2> QED
    BY <1>2, <2>1, <2>2, Stopped DEF HostStop
<1>3. CASE HostElse
  <2>1. /\ UNCHANGED <<otelVars, running, startList, started>>
        /\ pc \notin {"undo", "failed"}
           \/ UNCHANGED pc
    BY <1>3
    DEF HostElse, LoadConfig, MakeQuit, Process, ProcessEnd, Quit, Stop, Signal, Return, lists
  <2> QED
    BY <2>1
<1>4. CASE UNCHANGED <<vars, otelVars>>
  BY <1>4 DEF vars, lists
<1> QED
  BY <1>1, <1>2, <1>3, <1>4 DEF HostNext, hostVars

(* A failed start is undone in reverse, a request to stop is not lost, the *)
(* context outlives the services (appcv3.go:143-217), the web server       *)
(* serves only between its Start and Stop (ginWeb.go:73-113), and nothing  *)
(* of telemetry outlasts its Stop (otello.go:68-164), for any lists of     *)
(* services to start and to stop.                                          *)
THEOREM HostInvAlways == MCSpec => []HostInv
<1>1. MCInit => HostIInv
  <2> SUFFICES ASSUME MCInit PROVE HostIInv
    OBVIOUS
  <2> USE HostedAssumption, AppAssumption DEF MCInit, HostInit
  <2>1. AppInv
    <3>1. TypeOK
      <4>1. 1 \in 0..(MaxList + 1) /\ started \in Seq(Services) /\ log \in Seq(Services)
        BY DEF Init
      <4>2. cancelled \in BOOLEAN /\ asked \in BOOLEAN
        BY Zenon DEF Init
      <4> QED
        BY <4>1, <4>2 DEF Init, TypeOK
    <3>2. RunInv
      BY <3>1, Lists DEF Init, RunInv
    <3> QED
      BY <3>1, <3>2
      DEF Init, AppInv, Inv, FailureUndone, AskedNotLost, ContextOutlivesServices
  <2>2. WebInv
    <3>1. once \in BOOLEAN /\ shut \in BOOLEAN
      BY Zenon DEF W!Init
    <3> QED
      BY <3>1 DEF W!Init, WebInv, W!TypeOK
  <2>3. OtelInv
    <3>1. oconn \in BOOLEAN /\ inited \in BOOLEAN
      BY Zenon DEF O!Init
    <3> QED
      BY <3>1 DEF O!Init, OtelInv, O!TypeOK, TelemetryOwned, O!Gone
  <2> QED
    BY <2>1, <2>2, <2>3 DEF HostIInv
<1>2. HostIInv /\ [MCNext]_<<hostVars, msVars, oracleVars, mailVars>> => HostIInv'
  <2> SUFFICES ASSUME HostIInv, [HostNext]_hostVars PROVE HostIInv'
    BY DEF MCNext
  <2>1. HostStart \/ HostStop \/ HostElse \/ UNCHANGED vars
    BY DEF HostNext, hostVars
  <2> QED
    BY <2>1, AppStep, WebStep, OtelStep DEF HostIInv
<1>3. HostIInv => HostInv
  BY DEF HostIInv, AppInv, WebInv, OtelInv, HostInv, ServesOnlyRunning
<1> QED
  BY <1>1, <1>2, <1>3, PTL DEF MCSpec
=============================================================================
