----------------------------- MODULE MCClients -----------------------------
(***************************************************************************)
(* The clients that share one cached thing between their callers: the      *)
(* http.Client of HTTPClient, the connection of LDAPClient, the decoded    *)
(* file of Keepass, the buffers and handlers of PrettyLog.  They have      *)
(* nothing in common but the callers, so each steps only while the others  *)
(* have yet to begin.  Callers are interchangeable, and so are attributes. *)
(***************************************************************************)
EXTENDS HTTPClient, TLC

CONSTANTS MaxDials, MaxVersions, Attrs, Nobody, MaxHandlers, MaxBuffers

ASSUME ClientsAssumption ==
  /\ MaxDials \in Nat \ {0} /\ MaxHandlers \in Nat \ {0}
  /\ MaxVersions \in Nat /\ MaxBuffers \in Nat /\ Nobody \notin Requests

VARIABLES
  conn, lpc, local, failed, dials, open, dropped, panicked,
  cache, kpc, ino, content, stamp, path, version, written, torn,
  goas, arrays, handlers, lineage, ppc, handler, buf, owner, text, out

ldapVars == <<conn, lpc, local, failed, dials, open, dropped, panicked>>
keepassVars == <<cache, kpc, ino, content, stamp, path, version, written, torn>>
logVars == <<goas, arrays, handlers, lineage, ppc, handler, buf, owner, text, out>>

LDAP == INSTANCE LDAPClient WITH Callers <- Requests, pc <- lpc
KP == INSTANCE Keepass WITH Loaders <- Requests, pc <- kpc
PL == INSTANCE PrettyLog WITH Loggers <- Requests, pc <- ppc

Symmetry == Permutations(Requests) \cup Permutations(Attrs)

MCInit == Init /\ LDAP!Init /\ KP!Init /\ PL!Init

MCNext ==
  \/ Next /\ LDAP!Init /\ KP!Init /\ PL!Init /\ UNCHANGED <<ldapVars, keepassVars, logVars>>
  \/ LDAP!Next /\ Init /\ KP!Init /\ PL!Init /\ UNCHANGED <<vars, keepassVars, logVars>>
  \/ KP!Next /\ Init /\ LDAP!Init /\ PL!Init /\ UNCHANGED <<vars, ldapVars, logVars>>
  \/ PL!Next /\ Init /\ LDAP!Init /\ KP!Init /\ UNCHANGED <<vars, ldapVars, keepassVars>>

MCSpec == MCInit /\ [][MCNext]_<<vars, ldapVars, keepassVars, logVars>>

(* What is shared is what a caller would have made for itself: the HTTP    *)
(* client has the present settings and is built once between two resets,   *)
(* and a request that has returned gave its connection back unless its     *)
(* gzip body was not read to the end (HTTPClient.go:51-72, 115-182); LDAP  *)
(* connections leak only from a refused second search, which is on another *)
(* connection than the first (client.go:120-136, 185-206); and a Load      *)
(* answered from the cache gives what the file holds, whatever others      *)
(* write, replace and store meanwhile, unless the file was rewritten in    *)
(* place under the Load that stored the entry (keepass.go:36-60).          *)
ClientsInv ==
  Inv /\ HeldOnlyUnfinishedGzip /\ LDAP!Inv /\ KP!TypeOK /\ KP!HitIsCurrent /\ PL!TypeOK

(* A call forgets the shared LDAP connection only once that is closed, so  *)
(* never one that another call has dialled since, except after a second    *)
(* search (client.go:185-192).                                             *)
ForgetsOnlyDead == LDAP!ForgetsOnlyDead

(* Every line of the log has one record, whole, with the groups and        *)
(* attributes of the handler that it was logged with and of no other,      *)
(* however handlers are derived and buffers passed on meanwhile            *)
(* (plog.go:67-88, 150-243; buffer.go:7-25).                               *)
LinesWhole == PL!LinesWhole
=============================================================================
