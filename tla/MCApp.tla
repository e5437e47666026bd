------------------------------- MODULE MCApp -------------------------------
(***************************************************************************)
(* An application (HostedApp), and services that keep one handle and lend  *)
(* it to their callers: MsSQL, OracleSQL and the SMTP client of            *)
(* MailSender.  These share nothing, so each steps only while the others   *)
(* have yet to begin.                                                      *)
(***************************************************************************)
EXTENDS HostedApp

CONSTANTS Starters, Users, Checkers, InitWithoutPing, Messages, MaxHandles

ASSUME ServicesAssumption == MaxHandles \in Nat /\ InitWithoutPing \in BOOLEAN

VARIABLES
  msdb, mspc, attempt, got, msopens, msopen, answered,
  connection, ostarted, opc, pinged, oopens, ohandles,
  client, mpc, flights, dials, mopen, accepted

msVars == <<msdb, mspc, attempt, got, msopens, msopen, answered>>
oracleVars == <<connection, ostarted, opc, pinged, oopens, ohandles>>
mailVars == <<client, mpc, flights, dials, mopen, accepted>>

MS == INSTANCE MsSQL WITH
  MaxOpens <- MaxHandles, db <- msdb, pc <- mspc, opens <- msopens, open <- msopen
Oracle == INSTANCE OracleSQL WITH
  MaxOpens <- MaxHandles, started <- ostarted, pc <- opc, opens <- oopens, open <- ohandles
Mail == INSTANCE MailSender WITH
  MaxDials <- MaxHandles + 1, pc <- mpc, open <- mopen

(* Run was not called; one choice of the lists is enough. *)
NotRun == HostInit /\ startList = <<>> /\ stopList = <<>>

MCInit == HostInit /\ MS!Init /\ Oracle!Init /\ Mail!Init

MCNext ==
  \/ HostNext /\ MS!Init /\ Oracle!Init /\ Mail!Init /\ UNCHANGED <<msVars, oracleVars, mailVars>>
  \/ MS!Next /\ NotRun /\ Oracle!Init /\ Mail!Init /\ UNCHANGED <<hostVars, oracleVars, mailVars>>
  \/ Oracle!Next /\ NotRun /\ MS!Init /\ Mail!Init /\ UNCHANGED <<hostVars, msVars, mailVars>>
  \/ Mail!Next /\ NotRun /\ MS!Init /\ Oracle!Init /\ UNCHANGED <<hostVars, msVars, oracleVars>>

MCSpec ==
  /\ MCInit /\ [][MCNext]_<<hostVars, msVars, oracleVars, mailVars>>
  /\ HostFairness /\ MS!Fairness /\ Mail!Fairness

(* Whatever Starts, Stops, restarts and failures there are, no service has *)
(* a handle open other than the one it holds: msSql, whose GetDB also      *)
(* waits for the server's answer (msSql.go:31-97), oracleSql               *)
(* (oracleSql.go:87-158) and the mail sender, which never lends its        *)
(* connection to two Sends, whose nil means that the message was taken and *)
(* which the server never takes twice (mailSender.go:62-74, 114-133).      *)
HandlesInv == MS!Inv /\ Oracle!Inv /\ Mail!Inv /\ Mail!AtMostOnce

(* Nobody waits for ever under a service's lock: Start of msSql returns    *)
(* whatever the pings answer (msSql.go:63-80), SendMessage also when Send  *)
(* never does (mailSender.go:156-167).                                     *)
CallsReturn == MS!StartReturns /\ Mail!SendReturns
=============================================================================
