---------------------------- MODULE MCMessengers ----------------------------
(***************************************************************************)
(* The SMS centre's client (SMSCenter) beside the chat client (TcClient),  *)
(* so that what is proved of the two can be stated in one place.  They     *)
(* share nothing: the former is checked with the latter not started, the   *)
(* latter in its own module.                                               *)
(***************************************************************************)
EXTENDS TcClient

CONSTANTS Senders, Parts, MaxAttempts, MaxSessions

VARIABLES
  trans, sendMu, waitChs, sstopped, spc, attempt, session, next, res, box,
  unanswered, submitted, sessions, bound, ended, sfaults

smsVars ==
  <<trans, sendMu, waitChs, sstopped, spc, attempt, session, next, res, box,
    unanswered, submitted, sessions, bound, ended, sfaults>>

SMS == INSTANCE SMSCenter WITH stopped <- sstopped, pc <- spc, faults <- sfaults

ASSUME SMSAssumed == SMS!SMSCConstants

(* SendMessage and what it shares step, the chat client is not started. *)
SendNext == SMS!Next /\ UNCHANGED vars
SendSpec == Init /\ SMS!Init /\ [][SendNext]_<<vars, smsVars>> /\ SMS!Fairness

(* What senders, answers and restarts share stays in order: an answer      *)
(* finds its waiter, a success covers every part, waiters left over are    *)
(* those of a refused submit, no session is left behind (smsc.go:160-181,  *)
(* 337-453).                                                               *)
SendInv == SMS!Inv

(* What SendMessage returns answers a part of its own text and of its last *)
(* attempt, however late the answers to its earlier attempts or to other   *)
(* senders arrive (smsc.go:288-310, 347-366).                              *)
ResultOfOwnAttempt == SMS!ResultOfOwnAttempt

(* Every SendMessage returns: no answer, error or restart makes it wait or *)
(* retry for ever, and no sender keeps s.sendMu (smsc.go:312-371).         *)
SendReturns == SMS!SendReturns
=============================================================================
