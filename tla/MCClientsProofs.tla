-------------------------- MODULE MCClientsProofs --------------------------
(***************************************************************************)
(* Theorems about the clients that share one cached thing between their    *)
(* callers (HTTPClient, LDAPClient, Keepass, PrettyLog), for any callers,  *)
(* settings, attributes and bounds.                                        *)
(***************************************************************************)
EXTENDS MCClients, FiniteSetTheorems, SequenceTheorems, TLAPS

----------------------------------------------------------------------------
(* HTTPClient: clients are numbered as they are built, and while there is  *)
(* none every one built before is older than the last reset.  Only a       *)
(* request with an answer, or one that has returned, holds a connection.   *)
Numbered ==
  /\ Builds \in 0..MaxBuilds
  /\ \A c \in Clients : built[c] # <<>> <=> c <= Builds

(* After a reset every client that was built is older than the reset. *)
Older == hClient = 0 => \A c \in Clients : built[c] # <<>> => born[c] < resets

(* The inductive invariant of the HTTP client. *)
HttpInv ==
  /\ Inv /\ HeldOnlyUnfinishedGzip /\ Numbered /\ Older
  /\ DOMAIN built = Clients /\ born \in [Clients -> Nat] /\ mine \in [Requests -> 0..Builds]
  /\ \A r \in held : pc[r] \in {"body", "done"}

(* The number of clients built, where they are the first n. *)
LEMMA FirstBuilt ==
  ASSUME NEW n \in 0..MaxBuilds, NEW f, \A c \in Clients : f[c] # <<>> <=> c <= n
  PROVE  Cardinality({c \in Clients : f[c] # <<>>}) = n
<1>1. {c \in Clients : f[c] # <<>>} = 1..n
  BY HTTPAssumption DEF Clients
<1>2. Cardinality(1..n) = IF 1 > n THEN 0 ELSE n - 1 + 1
  BY HTTPAssumption, FS_Interval
<1>3. Cardinality(1..n) = n
  BY HTTPAssumption, <1>2
<1> QED
  BY <1>1, <1>3, Zenon

(* Nothing is built or held at the start. *)
LEMMA HttpInit == Init => HttpInv
<1> SUFFICES ASSUME Init PROVE HttpInv
  OBVIOUS
<1> USE HTTPAssumption DEF Init
<1>1. Builds = 0
  <2>1. \A c \in Clients : built[c] # <<>> <=> c <= 0
    BY DEF Clients
  <2> QED
    BY <2>1, FirstBuilt DEF Builds
<1>2. Numbered /\ Older
  BY <1>1 DEF Numbered, Older, Clients
<1>3. TypeOK
  BY <1>1 DEF TypeOK, Bodies, Clients
<1>4. CurrentSettings /\ BuiltOnce /\ HeldOnlyUnfinishedGzip
  BY DEF CurrentSettings, BuiltOnce, HeldOnlyUnfinishedGzip
<1> QED
  BY <1>1, <1>2, <1>3, <1>4 DEF HttpInv, Inv

(* Setters and Close drop the client, whose build is then older than the   *)
(* last reset.                                                             *)
LEMMA DropStep ==
  ASSUME HttpInv, Drop, transport' \in Transports \cup {0}, rule' \in Rules \cup {0}
  PROVE  HttpInv'
<1> USE HTTPAssumption DEF HttpInv, Inv
<1>1. /\ resets < MaxResets /\ resets' = resets + 1 /\ hClient' = 0
      /\ UNCHANGED <<built, born, pc, mine, body, held>> /\ resets \in 0..MaxResets
  BY DEF Drop, TypeOK
<1>2. Builds' = Builds /\ Builds \in Nat
  BY <1>1 DEF Builds, Numbered
<1>3. Numbered' /\ Older'
  BY <1>1, <1>2 DEF Numbered, Older, TypeOK
<1>4. TypeOK'
  BY <1>1, <1>2 DEF TypeOK
<1>5. CurrentSettings' /\ BuiltOnce' /\ HeldOnlyUnfinishedGzip'
  BY <1>1 DEF CurrentSettings, BuiltOnce, HeldOnlyUnfinishedGzip
<1> QED
  BY <1>1, <1>2, <1>3, <1>4, <1>5

(* A request moves on and builds nothing. *)
LEMMA RequestStep ==
  ASSUME HttpInv, NEW r \in Requests, UNCHANGED <<hClient, transport, rule, built, resets, born>>,
         NEW p \in {"build", "do", "body", "done"}, pc' = [pc EXCEPT ![r] = p],
         NEW c \in 0..Builds, mine' = [mine EXCEPT ![r] = c], p \in {"do", "body"} => c # 0,
         NEW b \in Bodies, body' = [body EXCEPT ![r] = b],
         held' \subseteq held \cup {r},
         r \in held' => /\ p \in {"body", "done"}
                        /\ p = "done" => b.gzip /\ b.begins /\ ~b.ends
  PROVE  HttpInv'
<1> USE HTTPAssumption DEF HttpInv, Inv
<1>1. Builds' = Builds /\ Builds \in Nat
  BY DEF Builds, Numbered
<1>2. Numbered' /\ Older'
  BY <1>1 DEF Numbered, Older
<1>3. mine' \in [Requests -> 0..Builds]
  OBVIOUS
<1>4. \A q \in Requests : pc'[q] \in {"do", "body"} => mine'[q] \in 1..Builds
  BY <1>1, <1>3 DEF TypeOK
<1>5. body' \in [Requests -> Bodies] /\ held' \subseteq Requests
  BY DEF TypeOK
<1>6. TypeOK'
  BY <1>1, <1>4, <1>5 DEF TypeOK
<1>7. CurrentSettings' /\ BuiltOnce'
  BY DEF CurrentSettings, BuiltOnce, Settings
<1>8. \A q \in held' : /\ pc'[q] \in {"body", "done"}
                       /\ pc'[q] = "done" => body'[q].gzip /\ body'[q].begins /\ ~body'[q].ends
  BY DEF TypeOK, HeldOnlyUnfinishedGzip
<1> QED
  BY <1>1, <1>2, <1>3, <1>6, <1>7, <1>8 DEF HeldOnlyUnfinishedGzip

(* The write section of GetClient: a client is built if there is none. *)
LEMMA GetSlowStep == ASSUME HttpInv, NEW r \in Requests, GetSlow(r) PROVE HttpInv'
<1> USE HTTPAssumption
<1>1. CASE hClient # 0
  <2>1. /\ UNCHANGED <<hClient, transport, rule, built, resets, born, body, held>>
        /\ mine' = [mine EXCEPT ![r] = hClient] /\ pc' = [pc EXCEPT ![r] = "do"] /\ pc[r] = "build"
        /\ hClient \in 0..Builds
    BY <1>1 DEF GetSlow, HttpInv, Inv, TypeOK
  <2>2. /\ r \notin held /\ body[r] \in Bodies /\ body = [body EXCEPT ![r] = body[r]]
    BY <2>1 DEF HttpInv, Inv, TypeOK
  <2> QED
    BY <1>1, <2>1, <2>2, RequestStep
<1>2. CASE hClient = 0
  <2> USE DEF HttpInv, Inv
  <2> DEFINE c == Builds + 1
  <2>1. /\ UNCHANGED <<transport, rule, resets, body, held>> /\ Builds < MaxBuilds
        /\ hClient' = c /\ mine' = [mine EXCEPT ![r] = c] /\ pc' = [pc EXCEPT ![r] = "do"]
        /\ built' = [built EXCEPT ![c] = Settings] /\ born' = [born EXCEPT ![c] = resets]
        /\ pc[r] = "build" /\ resets \in Nat /\ Builds \in Nat
    BY <1>2 DEF GetSlow, TypeOK, Numbered
  <2>2. c \in Clients /\ Settings # <<>> /\ c \in 0..MaxBuilds
    BY <2>1 DEF Clients, Settings
  <2>3. \A d \in Clients : /\ built'[d] = IF d = c THEN Settings ELSE built[d]
                           /\ born'[d] = IF d = c THEN resets ELSE born[d]
    BY <2>1, <2>2
  <2>4. \A d \in Clients : built'[d] # <<>> <=> d <= c
    BY <2>1, <2>2, <2>3 DEF Numbered, Clients
  <2>5. Builds' = c
    <3> HIDE DEF c
    <3>1. Cardinality({d \in Clients : built'[d] # <<>>}) = c
      BY <2>2, <2>4, FirstBuilt, Zenon
    <3> QED
      BY <3>1 DEF Builds, Clients
  <2>6. Numbered' /\ Older'
    BY <2>1, <2>2, <2>4, <2>5 DEF Numbered, Older
  <2>7. mine' \in [Requests -> 0..Builds'] /\ born' \in [Clients -> Nat] /\ DOMAIN built' = Clients
    <3>1. 0..Builds \subseteq 0..Builds' /\ c \in 0..Builds'
      BY <2>1, <2>5
    <3> HIDE DEF c
    <3>2. mine' \in [Requests -> 0..Builds']
      BY <2>1, <3>1
    <3> QED
      BY <2>1, <3>2
  <2>8. \A q \in Requests : pc'[q] \in {"do", "body"} => mine'[q] \in 1..Builds'
    BY <2>1, <2>5 DEF TypeOK
  <2>9. \A d \in Clients : built'[d] # <<>> => born'[d] <= resets
    BY <2>1, <2>3 DEF TypeOK
  <2>10. TypeOK'
    BY <2>1, <2>5, <2>8, <2>9 DEF TypeOK
  <2>11. CurrentSettings'
    BY <2>1, <2>2, <2>3 DEF CurrentSettings, Settings
  <2>12. BuiltOnce'
    BY <1>2, <2>1, <2>3 DEF BuiltOnce, Older, TypeOK
  <2>13. \A q \in held' : pc'[q] = pc[q]
    BY <2>1 DEF TypeOK
  <2> QED
    BY <2>1, <2>6, <2>7, <2>10, <2>11, <2>12, <2>13 DEF HeldOnlyUnfinishedGzip
<1> QED
  BY <1>1, <1>2

(* Every step of the HTTP client. *)
LEMMA HttpNext == HttpInv /\ [Next]_vars => HttpInv'
<1> SUFFICES ASSUME HttpInv, [Next]_vars PROVE HttpInv'
  OBVIOUS
<1>1. ASSUME NEW t \in Transports, SetTransport(t) PROVE HttpInv'
  BY <1>1, DropStep DEF SetTransport, HttpInv, Inv, TypeOK
<1>2. ASSUME NEW u \in Rules \cup {0}, SetFixedCipherRuleWithURL(u) PROVE HttpInv'
  BY <1>2, DropStep DEF SetFixedCipherRuleWithURL, HttpInv, Inv, TypeOK
<1>3. CASE Close
  BY <1>3, DropStep DEF Close, HttpInv, Inv, TypeOK
<1>4. ASSUME NEW r \in Requests PROVE /\ body[r] \in Bodies /\ body = [body EXCEPT ![r] = body[r]]
                                      /\ mine[r] \in 0..Builds
                                      /\ mine = [mine EXCEPT ![r] = mine[r]]
                                      /\ hClient \in 0..Builds /\ 0 \in 0..Builds
                                      /\ body[r].gzip \in BOOLEAN /\ body[r].begins \in BOOLEAN
                                      /\ body[r].ends \in BOOLEAN
  BY HTTPAssumption DEF HttpInv, Inv, TypeOK, Numbered, Bodies
<1>5. ASSUME NEW r \in Requests, GetFast(r) PROVE HttpInv'
  <2>1. r \notin held /\ held' = held
    BY <1>5 DEF GetFast, HttpInv
  <2>2. CASE hClient = 0
    BY <1>4, <1>5, <2>1, <2>2, RequestStep DEF GetFast
  <2>3. CASE hClient # 0
    BY <1>4, <1>5, <2>1, <2>3, RequestStep DEF GetFast
  <2> QED
    BY <2>2, <2>3
<1>6. ASSUME NEW r \in Requests, NoAnswer(r) PROVE HttpInv'
  <2>1. r \notin held /\ held' = held
    BY <1>6 DEF NoAnswer, HttpInv
  <2> QED
    BY <1>4, <1>6, <2>1, RequestStep DEF NoAnswer, Return
<1>7. ASSUME NEW r \in Requests, NEW b \in Bodies, Answer(r, b) PROVE HttpInv'
  <2>1. mine[r] # 0
    BY <1>7, HTTPAssumption DEF Answer, HttpInv, Inv, TypeOK, Numbered
  <2> QED
    BY <1>4, <1>7, <2>1, RequestStep DEF Answer
<1>8. ASSUME NEW r \in Requests, BadGzip(r) PROVE HttpInv'
  BY <1>4, <1>8, RequestStep DEF BadGzip, Return
<1>9. ASSUME NEW r \in Requests, Read(r) PROVE HttpInv'
  <2>1. \/ held' = held \ {r}
        \/ held' = held /\ body[r].gzip /\ body[r].begins /\ ~body[r].ends
    BY <1>4, <1>9 DEF Read
  <2>2. UNCHANGED <<hClient, transport, rule, built, resets, born, body>> /\ Return(r)
    BY <1>9 DEF Read
  <2> QED
    BY <1>4, <2>1, <2>2, RequestStep DEF Return
<1>10. CASE UNCHANGED vars
  <2>1. Builds' = Builds
    BY <1>10 DEF Builds, vars
  <2> QED
    BY <1>10, <2>1 DEF HttpInv, Inv, TypeOK, CurrentSettings, BuiltOnce, HeldOnlyUnfinishedGzip,
                       Numbered, Older, Settings, vars
<1> QED
  BY <1>1, <1>2, <1>3, <1>5, <1>6, <1>7, <1>8, <1>9, <1>10, GetSlowStep DEF Next

----------------------------------------------------------------------------
(* LDAPClient: a connection that was dialled and not stored yet is known   *)
(* to nobody else ...                                                      *)
Fresh ==
  \A p \in Requests : lpc[p] = "dialed" =>
    /\ local[p] # conn /\ \A q \in Requests : failed[q] # local[p] /\ (q # p => local[q] # local[p])

(* ... the connection on which a call's first search failed is shared no   *)
(* more, and one about to be forgotten is closed ...                       *)
Gone ==
  /\ \A p \in Requests : failed[p] # 0 => conn # failed[p]
  /\ \A p \in Requests : lpc[p] = "clear" => local[p] \notin open

(* ... and an open one is shared, dropped, or in the hands of its dialler. *)
Owned ==
  \A c \in open : c = conn \/ c \in dropped \/ \E p \in Requests : lpc[p] = "dialed" /\ local[p] = c

(* The inductive invariant of the LDAP client. *)
LdapInv ==
  /\ LDAP!TypeOK /\ LDAP!RetryOnAnother /\ Fresh /\ Gone /\ Owned
  /\ conn \in 0..dials /\ open \subseteq 1..dials
  /\ local \in [Requests -> 0..dials] /\ failed \in [Requests -> 0..dials]
  /\ \A p \in Requests : lpc[p] = "search" /\ local[p] = 0 => panicked

(* What is owned so leaks only from a second search. *)
LEMMA LdapInvImplies == LdapInv => LDAP!Inv
BY DEF LdapInv, LDAP!Inv, LDAP!LeaksOnlyFromRetry, Owned

(* NewClient's connection is the shared one. *)
LEMMA LdapInit == LDAP!Init => LdapInv
<1> SUFFICES ASSUME LDAP!Init PROVE LdapInv
  OBVIOUS
<1> USE ClientsAssumption DEF LDAP!Init
<1>1. /\ conn \in 0..dials /\ open \subseteq 1..dials /\ 1 \in 0..MaxDials /\ 1 \in LDAP!Conns
      /\ local \in [Requests -> 0..dials] /\ failed \in [Requests -> 0..dials]
  <2>1. conn = 1 /\ dials = 1 /\ open = {1} /\ 0 \in 0..1 /\ 1 \in 0..1 /\ 1 \in 1..1
    OBVIOUS
  <2>2. 1 \in 0..MaxDials /\ 1 \in LDAP!Conns
    BY DEF LDAP!Conns
  <2>3. local \in [Requests -> 0..1] /\ failed \in [Requests -> 0..1]
    BY <2>1
  <2> QED
    BY <2>1, <2>2, <2>3
<1>2. LDAP!TypeOK
  <2>1. 0 \in 0..MaxDials
    OBVIOUS
  <2>2. local \in [Requests -> 0..MaxDials] /\ failed \in [Requests -> 0..MaxDials]
    BY <2>1
  <2> QED
    BY <1>1, <2>2 DEF LDAP!TypeOK
<1>3. LDAP!RetryOnAnother /\ Fresh /\ Gone /\ Owned
  BY DEF LDAP!RetryOnAnother, Fresh, Gone, Owned
<1> QED
  BY <1>1, <1>2, <1>3 DEF LdapInv

(* A call p goes on at place with connection c at hand, having dialled     *)
(* nothing; the shared connection may be forgotten, and connections be     *)
(* closed.                                                                 *)
LEMMA CallStep ==
  ASSUME LdapInv, NEW p \in Requests,
         NEW place \in {"idle", "dial", "read", "search", "close", "clear", "connect", "giveUp"},
         NEW c \in 0..dials, NEW e \in 0..dials,
         LDAP!Goto(p, place, c), failed' = [failed EXCEPT ![p] = e], dials' = dials,
         c = 0 \/ c = conn \/ (c = local[p] /\ lpc[p] # "dialed"),
         e = 0 \/ e = failed[p] \/ (e = local[p] /\ lpc[p] # "dialed" /\ conn' # e),
         place \in {"close", "clear", "giveUp"} => c # 0,
         place = "search" /\ e # 0 => c # e,
         place = "search" /\ c = 0 => panicked',
         place = "clear" => c \notin open',
         panicked' \in BOOLEAN, panicked => panicked',
         open' \subseteq open, dropped \subseteq dropped', dropped' \subseteq LDAP!Conns,
         lpc[p] # "dialed" \/ local[p] \notin open',
         conn' = conn \/ (conn' = 0 /\ (conn \notin open' \/ conn \in dropped'))
  PROVE  LdapInv'
<1> USE ClientsAssumption
<1>1. /\ conn \in 0..dials /\ open \subseteq 1..dials /\ dials \in Nat /\ dials <= MaxDials
      /\ local \in [Requests -> 0..dials] /\ failed \in [Requests -> 0..dials]
      /\ lpc \in [Requests -> {"idle", "dial", "dialed", "read", "search", "close", "clear", "connect",
                               "giveUp"}]
  BY DEF LdapInv, LDAP!TypeOK
<1>2. \A q \in Requests : /\ lpc'[q] = IF q = p THEN place ELSE lpc[q]
                          /\ local'[q] = IF q = p THEN c ELSE local[q]
                          /\ failed'[q] = IF q = p THEN e ELSE failed[q]
  BY <1>1 DEF LDAP!Goto
<1>3. /\ conn' \in 0..dials' /\ local' \in [Requests -> 0..dials']
      /\ failed' \in [Requests -> 0..dials']
      /\ open' \subseteq 1..dials'
  BY <1>1 DEF LDAP!Goto
<1>4. LDAP!TypeOK'
  <2>1. 0..dials \subseteq 0..MaxDials /\ 1..dials \subseteq LDAP!Conns /\ dials' \in 0..MaxDials
    BY <1>1 DEF LDAP!Conns
  <2>2. \A q \in Requests : lpc'[q] \in {"dialed", "close", "clear", "giveUp"} => local'[q] \in LDAP!Conns
    BY <1>1, <1>2, <2>1 DEF LdapInv, LDAP!TypeOK, LDAP!Conns
  <2>3. lpc' \in [Requests -> {"idle", "dial", "dialed", "read", "search", "close", "clear", "connect",
                               "giveUp"}]
    BY <1>1 DEF LDAP!Goto
  <2> QED
    BY <1>3, <2>1, <2>2, <2>3 DEF LDAP!TypeOK
<1>5. LDAP!RetryOnAnother'
  BY <1>2 DEF LdapInv, LDAP!RetryOnAnother
<1>6. Fresh'
  <2> SUFFICES ASSUME NEW q \in Requests, lpc'[q] = "dialed"
               PROVE  /\ local'[q] # conn'
                      /\ \A r \in Requests : failed'[r] # local'[q] /\ (r # q => local'[r] # local'[q])
    BY DEF Fresh
  <2>1. q # p /\ lpc[q] = "dialed" /\ local'[q] = local[q] /\ local[q] # 0
    BY <1>2 DEF LdapInv, LDAP!TypeOK, LDAP!Conns
  <2>2. /\ local[q] # conn
        /\ \A r \in Requests : failed[r] # local[q] /\ (r # q => local[r] # local[q])
    BY <2>1 DEF LdapInv, Fresh
  <2> QED
    BY <1>2, <2>1, <2>2
<1>7. Gone'
  BY <1>2 DEF LdapInv, Gone
<1>8. Owned'
  <2> SUFFICES ASSUME NEW d \in open'
               PROVE  \/ d = conn' \/ d \in dropped'
                      \/ \E q \in Requests : lpc'[q] = "dialed" /\ local'[q] = d
    BY DEF Owned
  <2>1. CASE d = conn \/ d \in dropped
    BY <2>1
  <2>2. ASSUME NEW q \in Requests, lpc[q] = "dialed", local[q] = d
        PROVE  lpc'[q] = "dialed" /\ local'[q] = d
    BY <1>2, <2>2
  <2> QED
    BY <2>1, <2>2 DEF LdapInv, Owned
<1>9. \A q \in Requests : lpc'[q] = "search" /\ local'[q] = 0 => panicked'
  BY <1>2 DEF LdapInv
<1> QED
  BY <1>3, <1>4, <1>5, <1>6, <1>7, <1>8, <1>9 DEF LdapInv

(* A dial: the connection has a number that nobody has seen. *)
LEMMA DialStep == ASSUME LdapInv, NEW p \in Requests, LDAP!Dial(p) PROVE LdapInv'
<1> USE ClientsAssumption
<1> DEFINE n == dials + 1
<1>1. /\ conn \in 0..dials /\ open \subseteq 1..dials /\ dials \in Nat /\ dials < MaxDials
      /\ local \in [Requests -> 0..dials] /\ failed \in [Requests -> 0..dials]
      /\ lpc \in [Requests -> {"idle", "dial", "dialed", "read", "search", "close", "clear", "connect",
                               "giveUp"}]
      /\ lpc[p] = "dial"
  BY DEF LdapInv, LDAP!TypeOK, LDAP!Dial
<1>2. /\ dials' = n /\ open' = open \cup {n} /\ lpc' = [lpc EXCEPT ![p] = "dialed"]
      /\ local' = [local EXCEPT ![p] = n] /\ UNCHANGED <<conn, failed, dropped, panicked>>
  BY DEF LDAP!Dial, LDAP!Goto
<1>3. /\ n \in 1..MaxDials /\ n \in Nat /\ 0..dials \subseteq 0..n /\ 1..dials \subseteq 1..n
      /\ n \notin 0..dials
      /\ n \in 1..n /\ n \in 0..n /\ 0..n \subseteq 0..MaxDials /\ 1..n \subseteq 1..MaxDials
  BY <1>1
<1> HIDE DEF n
<1>4. \A q \in Requests : /\ lpc'[q] = IF q = p THEN "dialed" ELSE lpc[q]
                          /\ local'[q] = IF q = p THEN n ELSE local[q]
  BY <1>1, <1>2
<1>5. /\ conn' \in 0..dials' /\ local' \in [Requests -> 0..dials']
      /\ failed' \in [Requests -> 0..dials']
      /\ open' \subseteq 1..dials'
  BY <1>1, <1>2, <1>3
<1>6. LDAP!TypeOK'
  <2>1. \A q \in Requests : lpc'[q] \in {"dialed", "close", "clear", "giveUp"} => local'[q] \in LDAP!Conns
    BY <1>3, <1>4 DEF LdapInv, LDAP!TypeOK, LDAP!Conns
  <2>2. dials' \in 0..MaxDials
    BY <1>2, <1>3
  <2> QED
    BY <1>1, <1>2, <1>3, <1>5, <2>1, <2>2 DEF LDAP!TypeOK, LDAP!Conns, LdapInv
<1>7. LDAP!RetryOnAnother' /\ Gone'
  BY <1>1, <1>2, <1>3, <1>4 DEF LdapInv, LDAP!RetryOnAnother, Gone
<1>8. Fresh'
  BY <1>1, <1>2, <1>3, <1>4 DEF LdapInv, Fresh
<1>9. Owned'
  BY <1>1, <1>2, <1>4 DEF LdapInv, Owned
<1>10. \A q \in Requests : lpc'[q] = "search" /\ local'[q] = 0 => panicked'
  BY <1>2, <1>4 DEF LdapInv
<1> QED
  BY <1>5, <1>6, <1>7, <1>8, <1>9, <1>10 DEF LdapInv

(* The dialled connection becomes the shared one: nobody's first search    *)
(* was on it.                                                              *)
LEMMA StoreStep == ASSUME LdapInv, NEW p \in Requests, LDAP!Store(p), conn = 0 PROVE LdapInv'
<1> USE ClientsAssumption
<1>1. /\ open \subseteq 1..dials /\ dials \in Nat /\ dials <= MaxDials
      /\ local \in [Requests -> 0..dials] /\ failed \in [Requests -> 0..dials]
      /\ lpc \in [Requests -> {"idle", "dial", "dialed", "read", "search", "close", "clear", "connect",
                               "giveUp"}]
      /\ lpc[p] = "dialed"
  BY DEF LdapInv, LDAP!TypeOK, LDAP!Store
<1>2. /\ conn' = local[p] /\ lpc' = [lpc EXCEPT ![p] = "read"] /\ local' = [local EXCEPT ![p] = 0]
      /\ UNCHANGED <<failed, dials, open, dropped, panicked>>
  BY DEF LDAP!Store, LDAP!Goto
<1>3. \A q \in Requests : /\ lpc'[q] = IF q = p THEN "read" ELSE lpc[q]
                          /\ local'[q] = IF q = p THEN 0 ELSE local[q]
  BY <1>1, <1>2
<1>4. /\ conn' \in 0..dials' /\ local' \in [Requests -> 0..dials']
      /\ failed' \in [Requests -> 0..dials']
      /\ open' \subseteq 1..dials' /\ 0..dials \subseteq 0..MaxDials
  BY <1>1, <1>2
<1>5. /\ \A q \in Requests : failed[q] # local[p] /\ (q # p => local[q] # local[p])
      /\ local[p] # 0
  BY <1>1 DEF LdapInv, Fresh, LDAP!TypeOK, LDAP!Conns
<1>6. LDAP!TypeOK'
  <2>1. \A q \in Requests : lpc'[q] \in {"dialed", "close", "clear", "giveUp"} => local'[q] \in LDAP!Conns
    BY <1>3 DEF LdapInv, LDAP!TypeOK
  <2> QED
    BY <1>1, <1>2, <1>4, <2>1 DEF LDAP!TypeOK, LdapInv
<1>7. LDAP!RetryOnAnother' /\ Gone'
  BY <1>2, <1>3, <1>5 DEF LdapInv, LDAP!RetryOnAnother, Gone
<1>8. Fresh'
  <2> SUFFICES ASSUME NEW q \in Requests, lpc'[q] = "dialed"
               PROVE  /\ local'[q] # conn'
                      /\ \A r \in Requests : failed'[r] # local'[q] /\ (r # q => local'[r] # local'[q])
    BY DEF Fresh
  <2>1. q # p /\ lpc[q] = "dialed" /\ local'[q] = local[q] /\ local[q] # 0
    BY <1>3 DEF LdapInv, LDAP!TypeOK, LDAP!Conns
  <2>2. \A r \in Requests : failed[r] # local[q] /\ (r # q => local[r] # local[q])
    BY <2>1 DEF LdapInv, Fresh
  <2> QED
    BY <1>2, <1>3, <1>5, <2>1, <2>2
<1>9. Owned'
  <2> SUFFICES ASSUME NEW d \in open'
               PROVE  \/ d = conn' \/ d \in dropped'
                      \/ \E q \in Requests : lpc'[q] = "dialed" /\ local'[q] = d
    BY DEF Owned
  <2>1. d # 0 /\ d \in open
    BY <1>1, <1>2
  <2>2. ASSUME NEW q \in Requests, lpc[q] = "dialed", local[q] = d
        PROVE  d = conn' \/ (lpc'[q] = "dialed" /\ local'[q] = d)
    BY <1>2, <1>3, <2>2
  <2> QED
    BY <1>2, <2>1, <2>2 DEF LdapInv, Owned
<1>10. \A q \in Requests : lpc'[q] = "search" /\ local'[q] = 0 => panicked'
  BY <1>2, <1>3 DEF LdapInv
<1> QED
  BY <1>4, <1>6, <1>7, <1>8, <1>9, <1>10 DEF LdapInv

(* A connection closes, or the application's Close forgets the shared one. *)
LEMMA CloseStep ==
  ASSUME LdapInv, UNCHANGED <<lpc, local, failed, dials, dropped, panicked>>, open' \subseteq open,
         conn' = conn \/ (conn' = 0 /\ conn \notin open')
  PROVE  LdapInv'
<1>1. conn \in 0..dials /\ 0 \in 0..dials /\ 0 \in 0..MaxDials
  BY ClientsAssumption DEF LdapInv, LDAP!TypeOK
<1>2. LDAP!TypeOK' /\ LDAP!RetryOnAnother' /\ conn' \in 0..dials'
  BY <1>1 DEF LdapInv, LDAP!TypeOK, LDAP!RetryOnAnother
<1>3. Fresh'
  BY DEF LdapInv, Fresh, LDAP!TypeOK, LDAP!Conns
<1>4. Gone' /\ Owned'
  BY DEF LdapInv, Gone, Owned
<1> QED
  BY <1>2, <1>3, <1>4 DEF LdapInv

(* Every step of the LDAP client. *)
LEMMA LdapNext == LdapInv /\ [LDAP!Next]_ldapVars => LdapInv'
<1> SUFFICES ASSUME LdapInv, [LDAP!Next]_ldapVars PROVE LdapInv'
  OBVIOUS
<1> USE ClientsAssumption
<1>1. ASSUME NEW p \in Requests
      PROVE  /\ local[p] \in 0..dials /\ failed[p] \in 0..dials /\ 0 \in 0..dials
             /\ conn \in 0..dials
             /\ failed = [failed EXCEPT ![p] = failed[p]] /\ panicked \in BOOLEAN
             /\ dropped \subseteq LDAP!Conns
             /\ lpc[p] \in {"dialed", "close", "clear", "giveUp"} => local[p] \in LDAP!Conns /\ local[p] # 0
             /\ failed[p] # 0 => conn # failed[p]
             /\ lpc[p] = "clear" => local[p] \notin open
             /\ lpc[p] = "search" /\ ~panicked => local[p] # 0
             /\ lpc[p] = "search" /\ failed[p] # 0 => local[p] # failed[p]
  BY DEF LdapInv, LDAP!TypeOK, Gone, LDAP!Conns, LDAP!RetryOnAnother
<1>2. ASSUME NEW p \in Requests, LDAP!Connect(p) PROVE LdapInv'
  BY <1>1, <1>2, CallStep DEF LDAP!Connect
<1>3. ASSUME NEW p \in Requests, LDAP!DialFails(p) PROVE LdapInv'
  BY <1>1, <1>3, CallStep DEF LDAP!DialFails, LDAP!Return
<1>4. ASSUME NEW p \in Requests, LDAP!Store(p) PROVE LdapInv'
  <2>1. CASE conn # 0
    BY <1>1, <1>4, <2>1, CallStep DEF LDAP!Store
  <2> QED
    BY <1>4, <2>1, StoreStep
<1>5. ASSUME NEW p \in Requests, LDAP!Read(p), ~panicked PROVE LdapInv'
  <2>1. lpc[p] = "read" /\ UNCHANGED <<conn, dials, open, dropped>>
    BY <1>5 DEF LDAP!Read
  <2>2. CASE conn = 0 /\ failed[p] = 0
    BY <1>1, <1>5, <2>1, <2>2, CallStep DEF LDAP!Read, LDAP!Return
  <2>3. CASE ~(conn = 0 /\ failed[p] = 0)
    <3>1. LDAP!Goto(p, "search", conn) /\ panicked' = (conn = 0) /\ failed' = failed
      BY <1>5, <2>3 DEF LDAP!Read
    <3>2. /\ panicked' \in BOOLEAN
          /\ conn = 0 => panicked'
      BY <3>1
    <3> QED
      BY <1>1, <1>5, <2>1, <3>1, <3>2, CallStep
  <2> QED
    BY <2>2, <2>3
<1>6. ASSUME NEW p \in Requests, LDAP!SearchOk(p) PROVE LdapInv'
  BY <1>1, <1>6, CallStep DEF LDAP!SearchOk, LDAP!Return
<1>7. ASSUME NEW p \in Requests, LDAP!SearchFails(p), ~panicked PROVE LdapInv'
  BY <1>1, <1>7, CallStep DEF LDAP!SearchFails
<1>8. ASSUME NEW p \in Requests, LDAP!CloseFailed(p) PROVE LdapInv'
  BY <1>1, <1>8, CallStep DEF LDAP!CloseFailed
<1>9. ASSUME NEW p \in Requests, LDAP!Clear(p) PROVE LdapInv'
  BY <1>1, <1>9, CallStep DEF LDAP!Clear
<1>10. ASSUME NEW p \in Requests, LDAP!SearchFailsAgain(p), ~panicked PROVE LdapInv'
  BY <1>1, <1>10, CallStep DEF LDAP!SearchFailsAgain
<1>11. ASSUME NEW p \in Requests, LDAP!GiveUp(p) PROVE LdapInv'
  BY <1>1, <1>11, CallStep DEF LDAP!GiveUp, LDAP!Return
<1>12. CASE LDAP!Close
  BY <1>12, CloseStep DEF LDAP!Close
<1>13. ASSUME NEW c \in LDAP!Conns, LDAP!ServerClose(c) PROVE LdapInv'
  BY <1>13, CloseStep DEF LDAP!ServerClose
<1>14. CASE UNCHANGED ldapVars
  BY <1>14, CloseStep DEF ldapVars
<1> QED
  BY <1>2, <1>3, DialStep, <1>4, <1>5, <1>6, <1>7, <1>8, <1>9, <1>10, <1>11, <1>12, <1>13, <1>14
     DEF LDAP!Next

(* Clear comes after CloseFailed, GiveUp notes what it forgets, and Close  *)
(* closes it first.                                                        *)
LEMMA LdapForgets ==
  ASSUME LdapInv, [LDAP!Next]_ldapVars, conn # 0, conn' = 0
  PROVE  conn \notin open' \/ conn \in dropped'
<1>1. ASSUME NEW p \in Requests, LDAP!Clear(p) PROVE conn \notin open'
  BY <1>1 DEF LDAP!Clear, LdapInv, Gone
<1>2. ASSUME NEW p \in Requests, LDAP!GiveUp(p) PROVE conn \in dropped'
  BY <1>2 DEF LDAP!GiveUp
<1>3. ASSUME NEW p \in Requests, LDAP!Store(p) PROVE FALSE
  BY <1>3 DEF LDAP!Store
<1>4. CASE LDAP!Close
  BY <1>4 DEF LDAP!Close
<1>5. conn' = conn => FALSE
  OBVIOUS
<1> QED
  BY <1>1, <1>2, <1>3, <1>4, <1>5
     DEF LDAP!Next, LDAP!Connect, LDAP!DialFails, LDAP!Dial, LDAP!Read, LDAP!SearchOk, LDAP!SearchFails,
         LDAP!CloseFailed, LDAP!SearchFailsAgain, LDAP!ServerClose, ldapVars

----------------------------------------------------------------------------
(* Keepass: a Load has open a file that exists, and what it decoded is     *)
(* what Stat says of that file, and what it stores, unless the file was    *)
(* rewritten between the two.                                              *)
KeepassInv ==
  /\ KP!TypeOK
  /\ path <= written /\ \A l \in Requests : ino[l] <= written
  /\ \A l \in Requests : kpc[l] \in {"decode", "stat"} => ino[l] # 0
  /\ \A l \in Requests : kpc[l] = "stat" => content[l] = version[ino[l]] \/ torn[l]
  /\ \A l \in Requests : kpc[l] = "store" => content[l] = stamp[l] \/ torn[l]
  /\ cache.content = cache.stamp \/ cache.torn

(* An entry whose stamp is the file's version has the file's contents. *)
LEMMA KeepassInvImplies == KeepassInv => KP!TypeOK /\ KP!HitIsCurrent
BY DEF KeepassInv, KP!HitIsCurrent, KP!Hit

(* Nothing is cached or written. *)
LEMMA KeepassInit == KP!Init => KeepassInv
<1> SUFFICES ASSUME KP!Init PROVE KeepassInv
  OBVIOUS
<1> USE ClientsAssumption DEF KP!Init
<1>1. 0 \in 0..MaxVersions
  OBVIOUS
<1>2. cache \in [stamp : 0..MaxVersions, content : 0..MaxVersions, torn : BOOLEAN] /\ cache.content = cache.stamp
  BY <1>1 DEF KP!None
<1>3. KP!TypeOK
  BY <1>1, <1>2 DEF KP!TypeOK
<1> QED
  BY <1>2, <1>3 DEF KeepassInv

(* A Load goes on; the files do not change. *)
LEMMA LoadStep ==
  ASSUME KeepassInv, NEW l \in Requests, UNCHANGED <<path, version, written>>,
         NEW p \in {"idle", "open", "decode", "stat", "store"}, kpc' = [kpc EXCEPT ![l] = p],
         NEW i \in 0..MaxVersions, ino' = [ino EXCEPT ![l] = i], i <= written,
         NEW c \in 0..MaxVersions, content' = [content EXCEPT ![l] = c],
         NEW t \in 0..MaxVersions, stamp' = [stamp EXCEPT ![l] = t],
         NEW b \in BOOLEAN, torn' = [torn EXCEPT ![l] = b],
         p \in {"decode", "stat"} => i # 0,
         p = "stat" => c = version[i] \/ b,
         p = "store" => c = t \/ b,
         cache' \in [stamp : 0..MaxVersions, content : 0..MaxVersions, torn : BOOLEAN],
         cache'.content = cache'.stamp \/ cache'.torn
  PROVE  KeepassInv'
<1>1. KP!TypeOK'
  BY DEF KeepassInv, KP!TypeOK
<1>2. \A k \in Requests : /\ kpc'[k] = IF k = l THEN p ELSE kpc[k]
                          /\ ino'[k] = IF k = l THEN i ELSE ino[k]
                          /\ content'[k] = IF k = l THEN c ELSE content[k]
                          /\ stamp'[k] = IF k = l THEN t ELSE stamp[k]
                          /\ torn'[k] = IF k = l THEN b ELSE torn[k]
  BY DEF KeepassInv, KP!TypeOK
<1> QED
  BY <1>1, <1>2 DEF KeepassInv

(* The file is written in place: a Load that has decoded it is torn. *)
LEMMA RewriteStep == ASSUME KeepassInv, KP!Rewrite PROVE KeepassInv'
<1> USE ClientsAssumption
<1>1. /\ path # 0 /\ written < MaxVersions /\ written' = written + 1
      /\ version' = [version EXCEPT ![path] = written']
      /\ torn' = [l \in Requests |-> torn[l] \/ (kpc[l] = "stat" /\ ino[l] = path)]
      /\ UNCHANGED <<cache, kpc, ino, content, stamp, path>>
      /\ written \in Nat /\ path \in KP!Inodes /\ written' \in 0..MaxVersions
      /\ version \in [KP!Inodes -> 0..MaxVersions]
  BY DEF KP!Rewrite, KeepassInv, KP!TypeOK, KP!Inodes
<1>2. torn' \in [Requests -> BOOLEAN]
  BY <1>1, Zenon
<1>3. KP!TypeOK'
  BY <1>1, <1>2 DEF KeepassInv, KP!TypeOK
<1>4. \A l \in Requests : ino[l] \in Nat /\ ino[l] <= written'
  BY <1>1 DEF KeepassInv, KP!TypeOK
<1>5. \A l \in Requests : torn[l] => torn'[l]
  BY <1>1, Zenon
<1>6. \A l \in Requests : kpc[l] = "stat" /\ ino[l] = path => torn'[l]
  BY <1>1, Zenon
<1>7. \A l \in Requests : ino[l] # path => version'[ino[l]] = version[ino[l]]
  BY <1>1
<1>8. path <= written'
  BY <1>1 DEF KeepassInv, KP!TypeOK
<1> QED
  BY <1>1, <1>3, <1>4, <1>5, <1>6, <1>7, <1>8 DEF KeepassInv

(* The path gets another file, which no Load has open, or none. *)
LEMMA ReplaceStep == ASSUME KeepassInv, KP!Replace \/ KP!Remove PROVE KeepassInv'
<1> USE ClientsAssumption
<1>1. CASE KP!Remove
  <2>1. path' = 0 /\ UNCHANGED <<cache, kpc, ino, content, stamp, torn, version, written>>
    BY <1>1 DEF KP!Remove, KP!loadVars
  <2> QED
    BY <2>1 DEF KeepassInv, KP!TypeOK
<1>2. CASE KP!Replace
  <2>1. /\ written < MaxVersions /\ written' = written + 1 /\ path' = written'
        /\ version' = [version EXCEPT ![written'] = written']
        /\ UNCHANGED <<cache, kpc, ino, content, stamp, torn>>
        /\ written \in Nat /\ written' \in KP!Inodes /\ written' \in 0..MaxVersions
        /\ version \in [KP!Inodes -> 0..MaxVersions]
    BY <1>2 DEF KP!Replace, KP!loadVars, KeepassInv, KP!TypeOK, KP!Inodes
  <2>2. KP!TypeOK'
    BY <2>1 DEF KeepassInv, KP!TypeOK
  <2>3. \A l \in Requests : ino[l] \in Nat /\ ino[l] <= written' /\ ino[l] # written'
    BY <2>1 DEF KeepassInv, KP!TypeOK
  <2>4. \A l \in Requests : version'[ino[l]] = version[ino[l]]
    BY <2>1, <2>3
  <2> QED
    BY <2>1, <2>2, <2>3, <2>4 DEF KeepassInv
<1> QED
  BY <1>1, <1>2

(* Every step of Load and of those who write the file. *)
LEMMA KeepassNext == KeepassInv /\ [KP!Next]_keepassVars => KeepassInv'
<1> SUFFICES ASSUME KeepassInv, [KP!Next]_keepassVars PROVE KeepassInv'
  OBVIOUS
<1> USE ClientsAssumption
<1>1. ASSUME NEW l \in Requests
      PROVE  /\ ino[l] \in 0..MaxVersions /\ ino[l] <= written /\ content[l] \in 0..MaxVersions
             /\ stamp[l] \in 0..MaxVersions /\ torn[l] \in BOOLEAN
             /\ ino = [ino EXCEPT ![l] = ino[l]] /\ content = [content EXCEPT ![l] = content[l]]
             /\ stamp = [stamp EXCEPT ![l] = stamp[l]] /\ torn = [torn EXCEPT ![l] = torn[l]]
             /\ kpc = [kpc EXCEPT ![l] = kpc[l]]
             /\ kpc[l] \in {"idle", "open", "decode", "stat", "store"}
  BY DEF KeepassInv, KP!TypeOK
<1>2. /\ cache \in [stamp : 0..MaxVersions, content : 0..MaxVersions, torn : BOOLEAN]
      /\ cache.content = cache.stamp \/ cache.torn
      /\ path \in 0..MaxVersions /\ path <= written /\ 0 \in 0..MaxVersions /\ 0 <= written
      /\ cache.content \in 0..MaxVersions
  BY DEF KeepassInv, KP!TypeOK
<1>3. ASSUME NEW l \in Requests, kpc[l] \in {"decode", "stat"}
      PROVE  version[ino[l]] \in 0..MaxVersions /\ ino[l] # 0
  BY <1>3 DEF KeepassInv, KP!TypeOK, KP!Inodes
<1>4. ASSUME NEW l \in Requests, KP!LoadCached(l) PROVE KeepassInv'
  <2>1. /\ kpc' = [kpc EXCEPT ![l] = "idle"] /\ content' = [content EXCEPT ![l] = cache.content]
        /\ ino' = [ino EXCEPT ![l] = ino[l]] /\ stamp' = [stamp EXCEPT ![l] = stamp[l]]
        /\ torn' = [torn EXCEPT ![l] = torn[l]] /\ UNCHANGED <<cache, path, version, written>>
    BY <1>1, <1>4 DEF KP!LoadCached, KP!fileVars
  <2> QED
    BY <1>1, <1>2, <2>1, LoadStep, ZenonT(20)
<1>5. ASSUME NEW l \in Requests, KP!LoadMiss(l) PROVE KeepassInv'
  BY <1>1, <1>2, <1>5, LoadStep DEF KP!LoadMiss, KP!fileVars
<1>6. ASSUME NEW l \in Requests, KP!Open(l) PROVE KeepassInv'
  <2>1. CASE path = 0
    BY <1>1, <1>2, <1>6, <2>1, LoadStep DEF KP!Open, KP!fileVars
  <2>2. CASE path # 0
    <3>1. /\ kpc' = [kpc EXCEPT ![l] = "decode"] /\ content' = [content EXCEPT ![l] = content[l]]
          /\ ino' = [ino EXCEPT ![l] = path] /\ stamp' = [stamp EXCEPT ![l] = stamp[l]]
          /\ torn' = [torn EXCEPT ![l] = torn[l]] /\ UNCHANGED <<cache, path, version, written>>
      BY <1>1, <1>6, <2>2 DEF KP!Open, KP!fileVars
    <3> QED
      BY <1>1, <1>2, <2>2, <3>1, LoadStep, ZenonT(20)
  <2> QED
    BY <2>1, <2>2
<1>7. ASSUME NEW l \in Requests, KP!Decode(l) PROVE KeepassInv'
  <2>1. /\ torn' = [torn EXCEPT ![l] = FALSE] /\ stamp' = [stamp EXCEPT ![l] = stamp[l]]
        /\ UNCHANGED <<cache, path, version, written>>
        /\ version[ino[l]] \in 0..MaxVersions /\ ino[l] # 0
    BY <1>1, <1>3, <1>7 DEF KP!Decode, KP!fileVars
  <2>2. CASE KP!EndLoad(l) /\ UNCHANGED content
    <3>1. /\ kpc' = [kpc EXCEPT ![l] = "idle"] /\ ino' = [ino EXCEPT ![l] = 0]
          /\ content' = [content EXCEPT ![l] = content[l]]
      BY <1>1, <2>2 DEF KP!EndLoad
    <3> QED
      BY <1>1, <1>2, <2>1, <3>1, LoadStep
  <2>3. CASE ~(KP!EndLoad(l) /\ UNCHANGED content)
    <3>1. /\ kpc' = [kpc EXCEPT ![l] = "stat"] /\ ino' = [ino EXCEPT ![l] = ino[l]]
          /\ content' = [content EXCEPT ![l] = version[ino[l]]]
      BY <1>1, <1>7, <2>3 DEF KP!Decode
    <3> QED
      BY <1>1, <1>2, <2>1, <3>1, LoadStep, ZenonT(20)
  <2> QED
    BY <2>2, <2>3
<1>8. ASSUME NEW l \in Requests, KP!Stat(l) PROVE KeepassInv'
  <2>1. content[l] = version[ino[l]] \/ torn[l]
    BY <1>8 DEF KP!Stat, KeepassInv
  <2> QED
    BY <1>1, <1>2, <1>3, <1>8, <2>1, LoadStep DEF KP!Stat, KP!EndLoad, KP!fileVars
<1>9. ASSUME NEW l \in Requests, KP!StoreEntry(l) PROVE KeepassInv'
  <2>1. content[l] = stamp[l] \/ torn[l]
    BY <1>9 DEF KP!StoreEntry, KeepassInv
  <2>2. /\ cache' \in [stamp : 0..MaxVersions, content : 0..MaxVersions, torn : BOOLEAN]
        /\ cache'.content = cache'.stamp \/ cache'.torn
    BY <1>1, <1>9, <2>1 DEF KP!StoreEntry
  <2> QED
    BY <1>1, <1>2, <1>9, <2>2, LoadStep DEF KP!StoreEntry, KP!EndLoad, KP!fileVars
<1>10. CASE UNCHANGED keepassVars
  BY <1>10 DEF keepassVars, KeepassInv, KP!TypeOK
<1> QED
  BY <1>4, <1>5, <1>6, <1>7, <1>8, <1>9, <1>10, RewriteStep, ReplaceStep DEF KP!Next, KP!Load

----------------------------------------------------------------------------
(* PrettyLog: every handler has an array of its own, which holds what it   *)
(* was derived with.                                                       *)
Derived ==
  /\ handlers \in PL!Handlers
  /\ lineage \in [PL!Handlers -> Seq(Attrs)] /\ arrays \in [PL!Handlers -> Seq(Attrs)]
  /\ goas \in [PL!Handlers -> [array : PL!Handlers, len : Nat]]
  /\ \A h \in PL!Handlers : arrays[h] = lineage[h] /\ goas[h].array = h /\ goas[h].len = Len(lineage[h])

(* The line of a caller, as its handler should write it. *)
Line(l) == <<l>> \o lineage[handler[l]]

(* What a line is put together from. *)
Tokens == Attrs \cup Requests

(* A buffer in the pool is empty, and one in use has the part of its       *)
(* owner's line that was written.                                          *)
Written ==
  /\ text \in [PL!Buffers -> Seq(Tokens)]
  /\ \A b \in PL!Buffers : owner[b] = Nobody => text[b] = <<>>
  /\ \A l \in Requests :
       /\ ppc[l] \in {"head", "groups", "out", "free"} => buf[l] \in PL!Buffers
       /\ ppc[l] = "head" => text[buf[l]] = <<>>
       /\ ppc[l] = "groups" => text[buf[l]] = <<l>>
       /\ ppc[l] = "out" => text[buf[l]] = Line(l)

(* The inductive invariant of the log handler. *)
LogInv ==
  /\ PL!TypeOK /\ PL!LinesWhole /\ Derived /\ Written
  /\ out \in Seq(Seq(Tokens)) /\ \A l \in Requests : handler[l] <= handlers

(* The slice of a handler is what it was derived with. *)
LEMMA GoasIsLineage == ASSUME Derived, NEW h \in PL!Handlers PROVE PL!Goas(h) = lineage[h]
<1>1. lineage[h] \in Seq(Attrs) /\ arrays[h] = lineage[h] /\ goas[h].array = h /\ goas[h].len = Len(lineage[h])
  BY DEF Derived
<1>2. SubSeq(lineage[h], 1, Len(lineage[h])) = lineage[h]
  BY <1>1, SubSeqFull
<1> QED
  BY <1>1, <1>2 DEF PL!Goas

(* New *)
LEMMA LogInit == PL!Init => LogInv
<1> SUFFICES ASSUME PL!Init PROVE LogInv
  OBVIOUS
<1> USE ClientsAssumption DEF PL!Init
<1>1. 1 \in PL!Handlers /\ PL!Handlers \subseteq Nat /\ 0 \in 0..MaxBuffers
  BY DEF PL!Handlers
<1>2. <<>> \in Seq(Attrs) /\ <<>> \in Seq(Tokens) /\ <<>> \in Seq(Seq(Tokens)) /\ Len(<<>>) = 0
  OBVIOUS
<1>3. PL!TypeOK
  BY <1>1 DEF PL!TypeOK
<1>4. Derived
  BY <1>1, <1>2 DEF Derived
<1>5. Written
  BY <1>2 DEF Written
<1>6. PL!LinesWhole
  BY DEF PL!LinesWhole
<1> QED
  BY <1>1, <1>2, <1>3, <1>4, <1>5, <1>6 DEF LogInv

(* A handler is derived: nobody logs with it yet, and no other handler's   *)
(* array is written.                                                       *)
LEMMA DeriveStep ==
  ASSUME LogInv, NEW h \in PL!Handlers, NEW x \in Attrs, PL!withGroupOrAttrs(h, x)
  PROVE  LogInv'
<1> USE ClientsAssumption
<1> DEFINE n == handlers + 1
           new == Append(lineage[h], x)
<1>1. Derived /\ PL!Goas(h) = lineage[h]
  BY GoasIsLineage DEF LogInv
<1>2. /\ handlers' = n /\ goas' = [goas EXCEPT ![n] = [array |-> n, len |-> Len(lineage[h]) + 1]]
      /\ arrays' = [arrays EXCEPT ![n] = new] /\ lineage' = [lineage EXCEPT ![n] = new]
      /\ UNCHANGED <<ppc, handler, buf, owner, text, out>>
  BY <1>1 DEF PL!withGroupOrAttrs, Derived
<1>3. n \in PL!Handlers /\ handlers \in Nat
  BY <1>1 DEF PL!withGroupOrAttrs, Derived, PL!Handlers
<1>4. new \in Seq(Attrs) /\ Len(new) = Len(lineage[h]) + 1 /\ Len(lineage[h]) + 1 \in Nat
  <2>1. lineage[h] \in Seq(Attrs)
    BY <1>1 DEF Derived
  <2> QED
    BY <2>1
<1>5. \A l \in Requests : handler[l] \in PL!Handlers /\ handler[l] # n /\ handler[l] <= n
  BY <1>3 DEF LogInv, PL!TypeOK, PL!Handlers
<1> HIDE DEF new
<1>6. Derived'
  <2> HIDE DEF n
  <2>1. \A g \in PL!Handlers : /\ arrays'[g] = IF g = n THEN new ELSE arrays[g]
                               /\ lineage'[g] = IF g = n THEN new ELSE lineage[g]
                               /\ goas'[g] = IF g = n THEN [array |-> n, len |-> Len(lineage[h]) + 1] ELSE goas[g]
    BY <1>1, <1>2, <1>3 DEF Derived
  <2>2. /\ lineage' \in [PL!Handlers -> Seq(Attrs)] /\ arrays' \in [PL!Handlers -> Seq(Attrs)]
        /\ goas' \in [PL!Handlers -> [array : PL!Handlers, len : Nat]]
    BY <1>1, <1>2, <1>3, <1>4 DEF Derived
  <2>3. \A g \in PL!Handlers : arrays'[g] = lineage'[g] /\ goas'[g].array = g /\ goas'[g].len = Len(lineage'[g])
    BY <1>1, <1>4, <2>1 DEF Derived
  <2> QED
    BY <1>2, <1>3, <2>2, <2>3 DEF Derived
<1>7. \A l \in Requests : lineage'[handler'[l]] = lineage[handler[l]]
  BY <1>1, <1>2, <1>3, <1>5 DEF Derived
<1>8. PL!LinesWhole' /\ Written'
  BY <1>2, <1>7 DEF LogInv, PL!LinesWhole, Written, Line
<1>9. PL!TypeOK'
  BY <1>2, <1>3 DEF LogInv, PL!TypeOK
<1> QED
  BY <1>2, <1>5, <1>6, <1>8, <1>9 DEF LogInv

(* A logger goes on to place p; only its own buffer is written, and no     *)
(* line.                                                                   *)
LEMMA LoggerStep ==
  ASSUME LogInv, NEW l \in Requests, ppc[l] \in {"head", "groups"},
         NEW p \in {"groups", "out", "free"}, ppc' = [ppc EXCEPT ![l] = p],
         NEW t \in Seq(Tokens), text' = [text EXCEPT ![buf[l]] = t],
         p = "groups" => t = <<l>>, p = "out" => t = Line(l),
         UNCHANGED <<goas, arrays, handlers, lineage, handler, buf, owner, out>>
  PROVE  LogInv'
<1> USE ClientsAssumption
<1>1. /\ ppc \in [Requests -> {"idle", "head", "groups", "out", "free", "done"}]
      /\ \A k \in Requests : ppc[k] \in {"head", "groups", "out", "free"} =>
           buf[k] \in PL!Buffers /\ owner[buf[k]] = k
      /\ buf[l] \in PL!Buffers /\ owner[buf[l]] = l /\ text \in [PL!Buffers -> Seq(Tokens)]
      /\ l # Nobody
  BY DEF LogInv, PL!TypeOK, Written
<1>2. /\ \A k \in Requests : ppc'[k] = IF k = l THEN p ELSE ppc[k]
      /\ \A b \in PL!Buffers : text'[b] = IF b = buf[l] THEN t ELSE text[b]
      /\ text' \in [PL!Buffers -> Seq(Tokens)]
      /\ \A k \in Requests : Line(k)' = Line(k)
  BY <1>1 DEF Line
<1>3. PL!TypeOK'
  BY <1>1, <1>2 DEF LogInv, PL!TypeOK
<1>4. PL!LinesWhole'
  <2>1. \A k \in Requests : ppc[k] \in {"free", "done"} => ppc'[k] = ppc[k]
    BY <1>2
  <2> QED
    BY <2>1 DEF LogInv, PL!LinesWhole
<1>5. \A k \in Requests : ppc'[k] \in {"head", "groups", "out", "free"} =>
        /\ buf[k] \in PL!Buffers
        /\ k # l => text'[buf[k]] = text[buf[k]] /\ ppc'[k] = ppc[k]
        /\ k = l => text'[buf[k]] = t /\ ppc'[k] = p
  BY <1>1, <1>2
<1>6. \A b \in PL!Buffers : owner[b] = Nobody => text'[b] = <<>>
  BY <1>1, <1>2 DEF LogInv, Written
<1>7. Written'
  BY <1>2, <1>5, <1>6 DEF LogInv, Written
<1>8. Derived'
  BY DEF LogInv, Derived
<1> QED
  BY <1>3, <1>4, <1>7, <1>8 DEF LogInv

(* A buffer of the pool is taken, which is empty and nobody's. *)
LEMMA NewBufferStep ==
  ASSUME LogInv, NEW l \in Requests, NEW h \in PL!Handlers, NEW b \in PL!Buffers, PL!NewBuffer(l, h, b)
  PROVE  LogInv'
<1> USE ClientsAssumption
<1>1. /\ ppc[l] = "idle" /\ h <= handlers /\ owner[b] = Nobody
      /\ handler' = [handler EXCEPT ![l] = h]
      /\ owner' = [owner EXCEPT ![b] = l] /\ buf' = [buf EXCEPT ![l] = b]
      /\ ppc' = [ppc EXCEPT ![l] = "head"]
      /\ UNCHANGED <<goas, arrays, handlers, lineage, text, out>>
  BY DEF PL!NewBuffer, PL!handlerVars
<1>2. /\ ppc \in [Requests -> {"idle", "head", "groups", "out", "free", "done"}]
      /\ buf \in [Requests -> 0..MaxBuffers] /\ owner \in [PL!Buffers -> Requests \cup {Nobody}]
      /\ handler \in [Requests -> PL!Handlers]
      /\ \A k \in Requests : ppc[k] \in {"head", "groups", "out", "free"} =>
           buf[k] \in PL!Buffers /\ owner[buf[k]] = k /\ k # Nobody
      /\ b \in 0..MaxBuffers
  BY DEF LogInv, PL!TypeOK, Written, PL!Buffers
<1>3. /\ \A k \in Requests : /\ ppc'[k] = IF k = l THEN "head" ELSE ppc[k]
                             /\ buf'[k] = IF k = l THEN b ELSE buf[k]
                             /\ handler'[k] = IF k = l THEN h ELSE handler[k]
      /\ \A c \in PL!Buffers : owner'[c] = IF c = b THEN l ELSE owner[c]
  BY <1>1, <1>2
<1>4. PL!TypeOK'
  <2>1. \A k \in Requests : ppc'[k] \in {"head", "groups", "out", "free"} => owner'[buf'[k]] = k
    BY <1>1, <1>2, <1>3
  <2> QED
    BY <1>1, <1>2, <2>1 DEF LogInv, PL!TypeOK
<1>5. \A k \in Requests : k # l => Line(k)' = Line(k)
  BY <1>1, <1>3 DEF Line
<1>6. PL!LinesWhole'
  <2> SUFFICES ASSUME NEW i \in 1..Len(out)
               PROVE  \E k \in Requests : ppc'[k] \in {"free", "done"} /\ out[i] = <<k>> \o lineage[handler'[k]]
    BY <1>1 DEF PL!LinesWhole
  <2>1. PICK k \in Requests : ppc[k] \in {"free", "done"} /\ out[i] = <<k>> \o lineage[handler[k]]
    BY DEF LogInv, PL!LinesWhole
  <2> QED
    BY <1>1, <1>3, <2>1
<1>7. Written'
  <2>1. text[b] = <<>> /\ \A c \in PL!Buffers : owner'[c] = Nobody => text'[c] = <<>>
    BY <1>1, <1>3 DEF LogInv, Written
  <2>2. ASSUME NEW k \in Requests
        PROVE  /\ ppc'[k] \in {"head", "groups", "out", "free"} => buf'[k] \in PL!Buffers
               /\ ppc'[k] = "head" => text'[buf'[k]] = <<>>
               /\ ppc'[k] = "groups" => text'[buf'[k]] = <<k>>
               /\ ppc'[k] = "out" => text'[buf'[k]] = Line(k)'
    <3>1. CASE k = l
      BY <1>1, <1>3, <2>1, <3>1
    <3>2. CASE k # l
      BY <1>1, <1>3, <1>5, <3>2 DEF LogInv, Written
    <3> QED
      BY <3>1, <3>2
  <2> QED
    BY <1>1, <2>1, <2>2 DEF LogInv, Written
<1>8. Derived' /\ \A k \in Requests : handler'[k] <= handlers'
  BY <1>1, <1>3 DEF LogInv, Derived
<1> QED
  BY <1>1, <1>4, <1>6, <1>7, <1>8 DEF LogInv

(* The line is written out. *)
LEMMA WriteOutStep == ASSUME LogInv, NEW l \in Requests, PL!WriteOut(l) PROVE LogInv'
<1> DEFINE t == text[buf[l]]
<1>1. /\ ppc[l] = "out" /\ out' = Append(out, t) /\ ppc' = [ppc EXCEPT ![l] = "free"]
      /\ UNCHANGED <<goas, arrays, handlers, lineage, handler, buf, owner, text>>
  BY DEF PL!WriteOut, PL!handlerVars
<1>2. t = <<l>> \o lineage[handler[l]] /\ t \in Seq(Tokens) /\ out \in Seq(Seq(Tokens))
  BY <1>1 DEF LogInv, Written, Line
<1>3. \A k \in Requests : ppc'[k] = IF k = l THEN "free" ELSE ppc[k]
  BY <1>1 DEF LogInv, PL!TypeOK
<1> HIDE DEF t
<1>4. /\ out' \in Seq(Seq(Tokens)) /\ Len(out') = Len(out) + 1 /\ out'[Len(out) + 1] = t
      /\ Len(out) \in Nat
      /\ \A i \in 1..Len(out) : out'[i] = out[i]
  BY <1>1, <1>2, AppendProperties
<1>5. PL!LinesWhole'
  <2> SUFFICES ASSUME NEW i \in 1..Len(out')
               PROVE  \E k \in Requests : ppc'[k] \in {"free", "done"} /\ out'[i] = <<k>> \o lineage[handler[k]]
    BY <1>1 DEF PL!LinesWhole
  <2>1. CASE i = Len(out) + 1
    BY <1>2, <1>3, <1>4, <2>1
  <2>2. CASE i # Len(out) + 1
    <3>1. i \in 1..Len(out)
      BY <1>4, <2>2
    <3>2. PICK k \in Requests : ppc[k] \in {"free", "done"} /\ out[i] = <<k>> \o lineage[handler[k]]
      BY <3>1 DEF LogInv, PL!LinesWhole
    <3> QED
      BY <1>3, <1>4, <3>1, <3>2
  <2> QED
    BY <2>1, <2>2
<1>6. PL!TypeOK'
  BY <1>1, <1>3 DEF LogInv, PL!TypeOK
<1>7. Written' /\ Derived'
  BY <1>1, <1>3 DEF LogInv, Written, Derived, Line
<1> QED
  BY <1>1, <1>4, <1>5, <1>6, <1>7 DEF LogInv

(* The buffer is emptied and goes back to the pool. *)
LEMMA FreeStep == ASSUME LogInv, NEW l \in Requests, PL!Free(l) PROVE LogInv'
<1> USE ClientsAssumption
<1>1. /\ ppc[l] = "free" /\ text' = [text EXCEPT ![buf[l]] = <<>>]
      /\ owner' = [owner EXCEPT ![buf[l]] = Nobody]
      /\ buf' = [buf EXCEPT ![l] = 0] /\ ppc' = [ppc EXCEPT ![l] = "done"]
      /\ UNCHANGED <<goas, arrays, handlers, lineage, handler, out>>
  BY DEF PL!Free, PL!handlerVars
<1>2. /\ ppc \in [Requests -> {"idle", "head", "groups", "out", "free", "done"}]
      /\ buf \in [Requests -> 0..MaxBuffers] /\ owner \in [PL!Buffers -> Requests \cup {Nobody}]
      /\ text \in [PL!Buffers -> Seq(Tokens)] /\ buf[l] \in PL!Buffers
      /\ \A k \in Requests : ppc[k] \in {"head", "groups", "out", "free"} =>
           buf[k] \in PL!Buffers /\ owner[buf[k]] = k
      /\ 0 \in 0..MaxBuffers /\ <<>> \in Seq(Tokens)
  BY <1>1 DEF LogInv, PL!TypeOK, Written
<1>3. /\ \A k \in Requests : /\ ppc'[k] = IF k = l THEN "done" ELSE ppc[k]
                             /\ buf'[k] = IF k = l THEN 0 ELSE buf[k]
      /\ \A c \in PL!Buffers : /\ owner'[c] = IF c = buf[l] THEN Nobody ELSE owner[c]
                               /\ text'[c] = IF c = buf[l] THEN <<>> ELSE text[c]
  BY <1>1, <1>2
<1>4. \A k \in Requests : ppc'[k] \in {"head", "groups", "out", "free"} =>
        /\ k # l /\ ppc'[k] = ppc[k] /\ buf'[k] = buf[k] /\ buf[k] # buf[l] /\ buf[k] \in PL!Buffers
        /\ owner'[buf[k]] = k /\ text'[buf[k]] = text[buf[k]]
  BY <1>1, <1>2, <1>3
<1>5. PL!TypeOK'
  BY <1>1, <1>2, <1>4 DEF LogInv, PL!TypeOK
<1>6. PL!LinesWhole'
  <2>1. \A k \in Requests : ppc[k] \in {"free", "done"} => ppc'[k] \in {"free", "done"}
    BY <1>3
  <2> QED
    BY <1>1, <2>1 DEF LogInv, PL!LinesWhole
<1>7. \A k \in Requests : Line(k)' = Line(k)
  BY <1>1 DEF Line
<1>8. text' \in [PL!Buffers -> Seq(Tokens)] /\ \A c \in PL!Buffers : owner'[c] = Nobody => text'[c] = <<>>
  BY <1>1, <1>2, <1>3 DEF LogInv, Written
<1>9. Written'
  <2> SUFFICES ASSUME NEW k \in Requests, ppc'[k] \in {"head", "groups", "out", "free"}
               PROVE  /\ buf'[k] \in PL!Buffers
                      /\ ppc'[k] = "head" => text'[buf'[k]] = <<>>
                      /\ ppc'[k] = "groups" => text'[buf'[k]] = <<k>>
                      /\ ppc'[k] = "out" => text'[buf'[k]] = Line(k)'
    BY <1>8 DEF Written
  <2>1. /\ buf'[k] = buf[k] /\ buf[k] \in PL!Buffers /\ text'[buf'[k]] = text[buf[k]]
        /\ ppc'[k] = ppc[k] /\ Line(k)' = Line(k)
    BY <1>4, <1>7
  <2> QED
    BY <2>1 DEF LogInv, Written
<1>10. Derived'
  BY <1>1 DEF LogInv, Derived
<1> QED
  BY <1>1, <1>5, <1>6, <1>9, <1>10 DEF LogInv

(* Every step of the log. *)
LEMMA LogNext == LogInv /\ [PL!Next]_logVars => LogInv'
<1> SUFFICES ASSUME LogInv, [PL!Next]_logVars PROVE LogInv'
  OBVIOUS
<1>1. ASSUME NEW l \in Requests, PL!WriteHead(l) PROVE LogInv'
  <2>1. text[buf[l]] = <<>> /\ Append(<<>>, l) = <<l>> /\ <<l>> \in Seq(Tokens) /\ ppc[l] = "head"
    BY <1>1 DEF PL!WriteHead, LogInv, Written, Tokens
  <2>2. text' = [text EXCEPT ![buf[l]] = <<l>>]
    BY <1>1, <2>1 DEF PL!WriteHead
  <2> QED
    BY <1>1, <2>1, <2>2, LoggerStep DEF PL!WriteHead, PL!handlerVars
<1>2. ASSUME NEW l \in Requests, PL!WriteGroups(l) \/ PL!AttrPanics(l) PROVE LogInv'
  <2>1. /\ text[buf[l]] = <<l>> /\ ppc[l] = "groups" /\ handler[l] \in PL!Handlers
    BY <1>2 DEF PL!WriteGroups, PL!AttrPanics, LogInv, PL!TypeOK, Written
  <2>2. PL!Goas(handler[l]) = lineage[handler[l]] /\ lineage[handler[l]] \in Seq(Attrs)
    BY <2>1, GoasIsLineage DEF LogInv, Derived
  <2>3. text' = [text EXCEPT ![buf[l]] = Line(l)]
    BY <1>2, <2>1, <2>2 DEF PL!WriteGroups, PL!AttrPanics, Line
  <2>4. Line(l) \in Seq(Tokens)
    <3>1. <<l>> \in Seq(Tokens) /\ lineage[handler[l]] \in Seq(Tokens)
      BY <2>2 DEF Tokens
    <3> QED
      BY <3>1, ConcatProperties DEF Line
  <2>5. /\ ppc' = [ppc EXCEPT ![l] = "out"] \/ ppc' = [ppc EXCEPT ![l] = "free"]
        /\ UNCHANGED <<goas, arrays, handlers, lineage, handler, buf, owner, out>>
    BY <1>2 DEF PL!WriteGroups, PL!AttrPanics, PL!handlerVars
  <2> QED
    BY <2>1, <2>3, <2>4, <2>5, LoggerStep
<1>3. CASE UNCHANGED logVars
  BY <1>3 DEF logVars, LogInv, PL!TypeOK, PL!LinesWhole, Derived, Written, Line
<1> QED
  BY <1>1, <1>2, <1>3, DeriveStep, NewBufferStep, WriteOutStep, FreeStep DEF PL!Next

----------------------------------------------------------------------------
(* The four clients' invariants together. *)
SharedInv == HttpInv /\ LdapInv /\ KeepassInv /\ LogInv

(* All four hold at the start. *)
LEMMA SharedInit == MCInit => SharedInv
BY HttpInit, LdapInit, KeepassInit, LogInit DEF MCInit, SharedInv

(* A step is one of one part and leaves the other three alone. *)
LEMMA SharedNext == SharedInv /\ [MCNext]_<<vars, ldapVars, keepassVars, logVars>> => SharedInv'
BY HttpNext, LdapNext, KeepassNext, LogNext DEF SharedInv, MCNext

(* What concurrent callers share is what each would have made for itself,  *)
(* whatever they set, drop, dial, close, write and replace meanwhile: the  *)
(* HTTP client has the present settings and is built once between resets   *)
(* (HTTPClient.go:51-72, 115-182), LDAP connections leak only from a       *)
(* refused second search (client.go:120-136, 185-206), and a cached        *)
(* KeePass file is the present one (keepass.go:36-60).                     *)
THEOREM ClientsInvAlways == MCSpec => []ClientsInv
<1>1. SharedInv => ClientsInv
  BY LdapInvImplies, KeepassInvImplies DEF SharedInv, ClientsInv, HttpInv, LogInv
<1> QED
  BY <1>1, SharedInit, SharedNext, PTL DEF MCSpec

(* No call forgets a shared LDAP connection that is open, such as one that *)
(* another has dialled since, except after its second search               *)
(* (client.go:185-192).                                                    *)
THEOREM ForgetsOnlyDeadAlways == MCSpec => ForgetsOnlyDead
<1>1. SharedInv /\ [MCNext]_<<vars, ldapVars, keepassVars, logVars>>
      => [conn # 0 /\ conn' = 0 => conn \notin open' \/ conn \in dropped']_(LDAP!vars)
  BY LdapForgets DEF SharedInv, MCNext
<1> QED
  BY <1>1, SharedInit, SharedNext, PTL DEF MCSpec, ForgetsOnlyDead, LDAP!ForgetsOnlyDead

(* Every line of the log is one record, whole, with what its handler was   *)
(* derived with, for any number of loggers, handlers and buffers           *)
(* (plog.go:67-88, 150-243; buffer.go:7-25).                               *)
THEOREM LinesWholeAlways == MCSpec => []LinesWhole
<1>1. SharedInv => LinesWhole
  BY DEF SharedInv, LogInv, LinesWhole
<1> QED
  BY <1>1, SharedInit, SharedNext, PTL DEF MCSpec
=============================================================================
