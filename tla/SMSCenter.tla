----------------------------- MODULE SMSCenter -----------------------------
(***************************************************************************)
(* smsc: sending a text as one or more short messages over an SMPP session *)
(* and waiting for the SMSC's answer.  Each sender is one call of          *)
(* SendMessage with its retries; it holds s.sendMu for a whole attempt.    *)
(* Answers arrive on the session's goroutine and find their sender through *)
(* s.waitChs.  Restart, which a sender calls when the session is closing,  *)
(* runs under s.restartMu without s.sendMu.                                *)
(*                                                                         *)
(* A part is <<sender, attempt, number>>: every attempt builds its PDUs    *)
(* anew.  A session is the number of its NewSession, 0 is nil.  The SMSC   *)
(* and the SMPP library are external.                                      *)
(***************************************************************************)
EXTENDS Naturals, FiniteSets

CONSTANTS
  Senders,
  Parts,         \* how many PDUs a text is split into
  MaxAttempts,   \* attempts of one SendMessage, 5 in the code
  MaxSessions,   \* bound on NewSession
  MaxFaults      \* bound on failures of Submit, lost sessions and lost answers

Nobody == "nobody"

(* What the constants are. *)
SMSCConstants ==
  /\ Parts \in Nat \ {0} /\ MaxAttempts \in Nat \ {0}
  /\ MaxSessions \in Nat /\ MaxFaults \in Nat /\ Nobody \notin Senders

VARIABLES
  trans, sendMu, waitChs,     \* fields of SMSCenter
  stopped,                    \* the application has called Stop
  pc, attempt, session, next, \* per sender: place, attempt, session, part to submit
  res,                        \* the part whose answer the sender returned, {} before
  box,                        \* <<part waited for, part answered>> in a part's channel
  unanswered,                 \* external: parts at the SMSC
  submitted,                  \* external: parts that Submit took
  sessions, bound, ended,     \* external: made so far, bound now, closed for good
  faults

fieldVars == <<trans, sendMu, waitChs, stopped>>
senderVars == <<pc, attempt, session, next, res, box>>
smscVars == <<unanswered, submitted, sessions, bound, ended, faults>>
vars == <<fieldVars, senderVars, smscVars>>

AllParts == Senders \X (1..MaxAttempts) \X (1..Parts)

Part(s, i) == <<s, attempt[s], i>>

(* The sender is in an attempt: it holds s.sendMu. *)
Sending(s) == pc[s] \in {"register", "submit", "await"}

Init ==
  /\ trans = 0 /\ sendMu = Nobody /\ waitChs = {} /\ stopped = FALSE
  /\ pc = [s \in Senders |-> "new"] /\ attempt = [s \in Senders |-> 1]
  /\ session = [s \in Senders |-> 0] /\ next = [s \in Senders |-> 1]
  /\ res = [s \in Senders |-> {}]
  /\ box = {} /\ unanswered = {} /\ submitted = {}
  /\ sessions = 0 /\ bound = {} /\ ended = {} /\ faults = 0

Fault == faults < MaxFaults /\ faults' = faults + 1

----------------------------------------------------------------------------
(* startLocked and stopLocked. A NewSession that fails leaves trans nil; a *)
(* session that Stop closed stays in trans.                                *)
NewSession ==
  \/ /\ sessions < MaxSessions
     /\ sessions' = sessions + 1
     /\ trans' = sessions'
     /\ bound' = (bound \ {trans}) \cup {sessions'}
     /\ UNCHANGED faults
  \/ /\ Fault \/ (sessions = MaxSessions /\ UNCHANGED faults)
     /\ trans' = 0
     /\ bound' = bound \ {trans}
     /\ UNCHANGED sessions

Start ==
  /\ trans = 0 /\ ~stopped
  /\ NewSession
  /\ UNCHANGED <<sendMu, waitChs, stopped, senderVars, unanswered, submitted, ended>>

Stop ==
  /\ ~stopped
  /\ stopped' = TRUE
  /\ ended' = ended \cup ({trans} \ {0})
  /\ bound' = bound \ {trans}
  /\ UNCHANGED <<trans, sendMu, waitChs, senderVars, unanswered, submitted, sessions, faults>>

----------------------------------------------------------------------------
(* SendMessage and sendMessage. *)
SendBegin(s) ==
  /\ pc[s] = "new"
  /\ pc' = [pc EXCEPT ![s] = "lock"]
  /\ UNCHANGED <<fieldVars, attempt, session, next, res, box, smscVars>>

(* An error of sendMessage that calls for no restart: the next attempt, or *)
(* the end.                                                                *)
AfterError(s) ==
  /\ pc' = [pc EXCEPT ![s] = IF attempt[s] < MaxAttempts THEN "lock" ELSE "done"]
  /\ attempt' = [attempt EXCEPT ![s] = IF @ < MaxAttempts THEN @ + 1 ELSE @]

(* Take s.sendMu and read s.trans; without a session the attempt is over. *)
SendLock(s) ==
  /\ pc[s] = "lock" /\ sendMu = Nobody
  /\ IF trans = 0
     THEN /\ AfterError(s)
          /\ UNCHANGED <<sendMu, session, next>>
     ELSE /\ sendMu' = s
          /\ session' = [session EXCEPT ![s] = trans]
          /\ next' = [next EXCEPT ![s] = 1]
          /\ pc' = [pc EXCEPT ![s] = "register"]
          /\ UNCHANGED attempt
  /\ UNCHANGED <<trans, waitChs, stopped, res, box, smscVars>>

(* sendSMS: the waiter of the next part. *)
Register(s) ==
  /\ pc[s] = "register"
  /\ waitChs' = waitChs \cup {Part(s, next[s])}
  /\ pc' = [pc EXCEPT ![s] = "submit"]
  /\ UNCHANGED <<trans, sendMu, stopped, attempt, session, next, res, box, smscVars>>

(* sendSMS: Submit takes the part. *)
Submit(s) ==
  /\ pc[s] = "submit" /\ session[s] \in bound
  /\ unanswered' = unanswered \cup {Part(s, next[s])}
  /\ submitted' = submitted \cup {Part(s, next[s])}
  /\ next' = [next EXCEPT ![s] = @ + 1]
  /\ pc' = [pc EXCEPT ![s] = IF next[s] < Parts THEN "register" ELSE "await"]
  /\ UNCHANGED <<fieldVars, attempt, session, res, box, sessions, bound, ended, faults>>

(* dropWaitingPartsFrom, and the return of sendMessage. *)
GiveUpSubmit(s) ==
  /\ waitChs' = waitChs \ {Part(s, i) : i \in next[s]..Parts}
  /\ sendMu' = Nobody
  /\ UNCHANGED <<trans, stopped, session, next, res, box, unanswered, submitted>>

(* Submit says "connection is closing": SendMessage will restart. *)
SubmitClosing(s) ==
  /\ pc[s] = "submit" /\ session[s] \notin bound
  /\ GiveUpSubmit(s)
  /\ pc' = [pc EXCEPT ![s] = "restart"]
  /\ UNCHANGED <<attempt, sessions, bound, ended, faults>>

(* Any other error of Submit, for example a full request window. *)
SubmitError(s) ==
  /\ pc[s] = "submit" /\ session[s] \in bound
  /\ Fault
  /\ GiveUpSubmit(s)
  /\ AfterError(s)
  /\ UNCHANGED <<sessions, bound, ended>>

(* Restart under s.restartMu; SendMessage returns when it fails. *)
Restart(s) ==
  /\ pc[s] = "restart"
  /\ NewSession
  /\ ended' = ended \cup ({trans} \ {0})
  /\ IF trans' = 0
     THEN pc' = [pc EXCEPT ![s] = "done"] /\ UNCHANGED attempt
     ELSE AfterError(s)
  /\ UNCHANGED <<sendMu, waitChs, stopped, session, next, res, box, unanswered, submitted>>

(* The channels of an attempt that is over are garbage. *)
Forget(s) == box' = {m \in box : m[1][1] # s}

(* The first answer to one of the attempt's parts wins. *)
Result(s) ==
  /\ pc[s] = "await"
  /\ \E i \in 1..Parts, a \in AllParts :
       /\ <<Part(s, i), a>> \in box
       /\ res' = [res EXCEPT ![s] = {a}]
  /\ waitChs' = {}
  /\ sendMu' = Nobody
  /\ pc' = [pc EXCEPT ![s] = "done"]
  /\ Forget(s)
  /\ UNCHANGED <<trans, stopped, attempt, session, next, smscVars>>

(* Fault: the waiters stay after a time-out. *)
TimeoutNoDrop(s) ==
  /\ pc[s] = "await"
  /\ sendMu' = Nobody
  /\ AfterError(s)
  /\ Forget(s)
  /\ UNCHANGED <<trans, waitChs, stopped, session, next, res, smscVars>>

(* Fault: s.sendMu stays locked after a time-out. *)
TimeoutNoUnlock(s) ==
  /\ pc[s] = "await"
  /\ waitChs' = {}
  /\ AfterError(s)
  /\ Forget(s)
  /\ UNCHANGED <<trans, sendMu, stopped, session, next, res, smscVars>>

Timeout(s) ==
  /\ pc[s] = "await"
  /\ waitChs' = {}
  /\ sendMu' = Nobody
  /\ AfterError(s)
  /\ Forget(s)
  /\ UNCHANGED <<trans, stopped, session, next, res, smscVars>>

----------------------------------------------------------------------------
(* Fault: an answer without a waiter goes to whoever waits. *)
HandleAnyResponse(p) ==
  /\ p \in unanswered
  /\ unanswered' = unanswered \ {p}
  /\ waitChs' = waitChs \ {p}
  /\ box' = box \cup {<<w, p>> : w \in IF p \in waitChs THEN {p} ELSE waitChs}
  /\ UNCHANGED <<trans, sendMu, stopped, pc, attempt, session, next, res, submitted,
                 sessions, bound, ended, faults>>

(* handleSubmitSMResponse: the answer goes to the part's waiter, if any. *)
HandleSubmitSMResponse(p) ==
  /\ p \in unanswered
  /\ unanswered' = unanswered \ {p}
  /\ IF p \in waitChs
     THEN /\ waitChs' = waitChs \ {p}
          /\ box' = box \cup {<<p, p>>}
     ELSE UNCHANGED <<waitChs, box>>
  /\ UNCHANGED <<trans, sendMu, stopped, pc, attempt, session, next, res, submitted,
                 sessions, bound, ended, faults>>

(* External: an answer is lost, a session drops, a session that was not    *)
(* closed binds again by itself.                                           *)
LoseAnswer(p) ==
  /\ p \in unanswered /\ Fault
  /\ unanswered' = unanswered \ {p}
  /\ UNCHANGED <<fieldVars, senderVars, submitted, sessions, bound, ended>>

SessionDrop(x) ==
  /\ x \in bound /\ Fault
  /\ bound' = bound \ {x}
  /\ UNCHANGED <<fieldVars, senderVars, unanswered, submitted, sessions, ended>>

Rebind(x) ==
  /\ x \in (1..sessions) \ (bound \cup ended)
  /\ bound' = bound \cup {x}
  /\ UNCHANGED <<fieldVars, senderVars, unanswered, submitted, sessions, ended, faults>>

SenderStep(s) ==
  \/ SendBegin(s) \/ SendLock(s) \/ Register(s) \/ Submit(s) \/ SubmitClosing(s)
  \/ SubmitError(s) \/ Restart(s) \/ Result(s) \/ Timeout(s)

Next ==
  \/ Start \/ Stop
  \/ \E s \in Senders : SenderStep(s)
  \/ \E p \in AllParts : HandleSubmitSMResponse(p) \/ LoseAnswer(p)
  \/ \E x \in 1..MaxSessions : SessionDrop(x) \/ Rebind(x)

Spec == Init /\ [][Next]_vars

(* The result timer fires, network calls and NewSession return, and Go's   *)
(* mutex starves nobody.                                                   *)
Fairness == \A s \in Senders : WF_vars(SenderStep(s)) /\ SF_vars(SendLock(s))

FairSpec == Spec /\ Fairness

----------------------------------------------------------------------------
TypeOK ==
  /\ trans \in 0..MaxSessions /\ sendMu \in Senders \cup {Nobody}
  /\ waitChs \in SUBSET AllParts /\ stopped \in BOOLEAN
  /\ pc \in [Senders -> {"new", "lock", "register", "submit", "await", "restart", "done"}]
  /\ attempt \in [Senders -> 1..MaxAttempts] /\ session \in [Senders -> 0..MaxSessions]
  /\ next \in [Senders -> 1..(Parts + 1)] /\ res \in [Senders -> SUBSET AllParts]
  /\ box \in SUBSET (AllParts \X AllParts)
  /\ unanswered \in SUBSET AllParts /\ submitted \in SUBSET AllParts
  /\ sessions \in 0..MaxSessions /\ bound \in SUBSET (1..MaxSessions)
  /\ ended \in SUBSET (1..MaxSessions) /\ faults \in 0..MaxFaults

(* An answer to a part of the attempt under way always finds its waiter:   *)
(* the waiter is there before Submit, and no other sender's time-out or    *)
(* result, which empties the whole map, takes it away (smsc.go:441-445,    *)
(* 373-379).                                                               *)
AnswerFindsWaiter ==
  \A p \in unanswered : Sending(p[1]) /\ p[2] = attempt[p[1]] => p \in waitChs

(* What SendMessage returns answers a part of its own text and of its last *)
(* attempt, however late the answers to its earlier attempts or to other   *)
(* senders arrive (smsc.go:288-310, 347-366).                              *)
ResultOfOwnAttempt == \A s \in Senders : \A a \in res[s] : a[1] = s /\ a[2] = attempt[s]

(* A success is reported only when Submit has taken every part of the text *)
(* (smsc.go:343-346, 436-452).                                             *)
SuccessMeansAllSubmitted ==
  \A s \in Senders : res[s] # {} => \A i \in 1..Parts : Part(s, i) \in submitted

(* A waiter that outlives its attempt is one of a text whose later part    *)
(* Submit refused; it stays until the next attempt that gets that far      *)
(* empties the map (smsc.go:381-387, 445-448).                             *)
StaleWaitersFromRefusedSubmit ==
  \A w \in waitChs : ~(Sending(w[1]) /\ w[2] = attempt[w[1]]) =>
    w[3] < Parts /\ <<w[1], w[2], Parts>> \notin submitted

(* A session that was not closed for good is s.trans: restarts of several  *)
(* senders, Start and Stop leave no session behind that binds again and    *)
(* again (smsc.go:160-181).                                                *)
SessionsOwned == \A x \in 1..sessions : x \in ended \/ x = trans

(* What senders, answers and restarts share stays in order: an answer      *)
(* finds its waiter, a success covers every part, waiters left over are    *)
(* those of a refused submit, no session is left behind (smsc.go:160-181,  *)
(* 337-453).                                                               *)
Inv ==
  /\ TypeOK /\ AnswerFindsWaiter /\ SuccessMeansAllSubmitted
  /\ StaleWaitersFromRefusedSubmit /\ SessionsOwned

(* Every SendMessage returns: no answer, error or restart makes it wait or *)
(* retry for ever, and no sender keeps s.sendMu (smsc.go:312-371).         *)
SendReturns == \A s \in Senders : pc[s] # "new" ~> pc[s] = "done"
=============================================================================
