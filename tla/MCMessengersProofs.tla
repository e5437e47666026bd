------------------------- MODULE MCMessengersProofs -------------------------
(***************************************************************************)
(* Theorems about smsc, for any number of senders, parts, attempts,        *)
(* sessions and faults: what SendMessage returns belongs to its own last   *)
(* attempt, an answer finds its waiter, waiters left over are those of a   *)
(* refused submit, and no session is left behind.                          *)
(*                                                                         *)
(* Then about tc/tcClientSender, the other client that restarts its own    *)
(* connection, for one life and any number of dials, restarters, messages  *)
(* and faults.                                                             *)
(***************************************************************************)
EXTENDS MCMessengers, TLAPS

(* The types, with the place of the next part: one that is registered or   *)
(* submitted is a part of the text.                                        *)
TypeInv ==
  /\ SMS!TypeOK
  /\ \A s \in Senders : spc[s] \in {"register", "submit"} => next[s] \in 1..Parts

(* What is assumed of the bounds. *)
LEMMA SMSCBounds ==
  /\ Parts \in Nat \ {0} /\ MaxAttempts \in Nat \ {0}
  /\ MaxSessions \in Nat /\ MaxFaults \in Nat
BY SMSAssumed DEF SMS!SMSCConstants

(* A part is a triple. *)
LEMMA PartType ==
  ASSUME SMS!TypeOK, NEW s \in Senders, NEW i \in 1..Parts
  PROVE  SMS!Part(s, i) \in SMS!AllParts
BY DEF SMS!TypeOK, SMS!Part, SMS!AllParts

(* The types hold at the start. *)
LEMMA TypeInit == SMS!Init => TypeInv
<1> SUFFICES ASSUME SMS!Init PROVE TypeInv
  OBVIOUS
<1> USE SMSCBounds DEF SMS!Init
<1>1. 0 \in 0..MaxSessions /\ 0 \in 0..MaxFaults /\ 1 \in 1..MaxAttempts /\ 1 \in 1..(Parts + 1)
  OBVIOUS
<1>2. sstopped \in BOOLEAN
  BY Zenon
<1>3. SMS!TypeOK
  BY <1>1, <1>2 DEF SMS!TypeOK
<1> QED
  BY <1>3 DEF TypeInv

(* NewSession keeps the types of what it changes. *)
LEMMA SessionTypes ==
  ASSUME SMS!TypeOK, SMS!NewSession
  PROVE  /\ trans' \in 0..MaxSessions /\ sessions' \in 0..MaxSessions /\ sfaults' \in 0..MaxFaults
         /\ bound' \in SUBSET (1..MaxSessions)
<1> USE SMSCBounds
<1>1. trans \in 0..MaxSessions /\ sessions \in 0..MaxSessions /\ sfaults \in 0..MaxFaults
      /\ bound \in SUBSET (1..MaxSessions)
  BY DEF SMS!TypeOK
<1>2. CASE sessions < MaxSessions /\ sessions' = sessions + 1 /\ trans' = sessions'
           /\ bound' = (bound \ {trans}) \cup {sessions'} /\ sfaults' = sfaults
  <2>1. sessions' \in 1..MaxSessions
    BY <1>1, <1>2
  <2> QED
    BY <1>1, <1>2, <2>1
<1>3. CASE trans' = 0 /\ bound' = bound \ {trans} /\ sessions' = sessions
           /\ (SMS!Fault \/ (sessions = MaxSessions /\ sfaults' = sfaults))
  BY <1>1, <1>3 DEF SMS!Fault
<1> QED
  BY <1>2, <1>3 DEF SMS!NewSession

(* AfterError keeps the types of place and attempt. *)
LEMMA AfterErrorTypes ==
  ASSUME TypeInv, NEW s \in Senders, SMS!AfterError(s)
  PROVE  /\ spc' \in [Senders -> {"new", "lock", "register", "submit", "await", "restart", "done"}]
         /\ attempt' \in [Senders -> 1..MaxAttempts]
         /\ \A t \in Senders : spc'[t] \in {"register", "submit"} => spc[t] \in {"register", "submit"}
BY SMSCBounds DEF TypeInv, SMS!TypeOK, SMS!AfterError

(* Every step keeps the types. *)
LEMMA TypeNext == TypeInv /\ [SMS!Next]_SMS!vars => TypeInv'
<1> SUFFICES ASSUME TypeInv, [SMS!Next]_SMS!vars PROVE TypeInv'
  OBVIOUS
<1> USE SMSCBounds DEF SMS!fieldVars, SMS!senderVars, SMS!smscVars
<1>1. CASE SMS!Start
  BY <1>1, SessionTypes DEF SMS!Start, TypeInv, SMS!TypeOK
<1>2. CASE SMS!Stop
  <2>1. ended' \in SUBSET (1..MaxSessions) /\ bound' \in SUBSET (1..MaxSessions)
    BY <1>2 DEF SMS!Stop, TypeInv, SMS!TypeOK
  <2> QED
    BY <1>2, <2>1 DEF SMS!Stop, TypeInv, SMS!TypeOK
<1>3. ASSUME NEW s \in Senders, SMS!SendBegin(s) PROVE TypeInv'
  BY <1>3 DEF SMS!SendBegin, TypeInv, SMS!TypeOK
<1>4. ASSUME NEW s \in Senders, SMS!SendLock(s) PROVE TypeInv'
  <2>1. CASE trans = 0
    BY <1>4, <2>1, AfterErrorTypes DEF SMS!SendLock, TypeInv, SMS!TypeOK
  <2>2. CASE trans # 0
    <3>1. /\ sendMu' = s /\ session' = [session EXCEPT ![s] = trans]
          /\ next' = [next EXCEPT ![s] = 1]
          /\ spc' = [spc EXCEPT ![s] = "register"]
          /\ UNCHANGED <<attempt, trans, waitChs, sstopped, res, box, SMS!smscVars>>
      BY <1>4, <2>2 DEF SMS!SendLock
    <3>2. 1 \in 1..Parts /\ 1 \in 1..(Parts + 1)
      OBVIOUS
    <3> QED
      BY <3>1, <3>2 DEF TypeInv, SMS!TypeOK
  <2> QED
    BY <2>1, <2>2
<1>5. ASSUME NEW s \in Senders, SMS!Register(s) PROVE TypeInv'
  <2>1. SMS!Part(s, next[s]) \in SMS!AllParts
    BY <1>5, PartType DEF SMS!Register, TypeInv
  <2> QED
    BY <1>5, <2>1 DEF SMS!Register, TypeInv, SMS!TypeOK
<1>6. ASSUME NEW s \in Senders, SMS!Submit(s) PROVE TypeInv'
  <2>1. SMS!Part(s, next[s]) \in SMS!AllParts /\ next[s] \in 1..Parts
    BY <1>6, PartType DEF SMS!Submit, TypeInv
  <2>2. /\ next' = [next EXCEPT ![s] = next[s] + 1] /\ next[s] + 1 \in 1..(Parts + 1)
        /\ spc' = [spc EXCEPT ![s] = IF next[s] < Parts THEN "register" ELSE "await"]
        /\ next[s] < Parts => next[s] + 1 \in 1..Parts
    BY <1>6, <2>1 DEF SMS!Submit
  <2>3. /\ next' \in [Senders -> 1..(Parts + 1)]
        /\ spc' \in [Senders -> {"new", "lock", "register", "submit", "await", "restart", "done"}]
        /\ \A t \in Senders : spc'[t] \in {"register", "submit"} => next'[t] \in 1..Parts
    BY <2>2 DEF TypeInv, SMS!TypeOK
  <2> QED
    BY <1>6, <2>1, <2>3 DEF SMS!Submit, TypeInv, SMS!TypeOK
<1>7. ASSUME NEW s \in Senders, SMS!SubmitClosing(s) PROVE TypeInv'
  BY <1>7 DEF SMS!SubmitClosing, SMS!GiveUpSubmit, TypeInv, SMS!TypeOK
<1>8. ASSUME NEW s \in Senders, SMS!SubmitError(s) PROVE TypeInv'
  <2>1. sfaults' \in 0..MaxFaults
    BY <1>8 DEF SMS!SubmitError, SMS!Fault, TypeInv, SMS!TypeOK
  <2> QED
    BY <1>8, <2>1, AfterErrorTypes DEF SMS!SubmitError, SMS!GiveUpSubmit, TypeInv, SMS!TypeOK
<1>9. ASSUME NEW s \in Senders, SMS!Restart(s) PROVE TypeInv'
  <2>1. /\ UNCHANGED <<sendMu, waitChs, sstopped, session, next, res, box, unanswered, submitted>>
        /\ SMS!NewSession /\ ended' = ended \cup ({trans} \ {0})
    BY <1>9 DEF SMS!Restart
  <2>2. ended' \in SUBSET (1..MaxSessions)
    BY <2>1 DEF TypeInv, SMS!TypeOK
  <2>3. /\ spc' \in [Senders -> {"new", "lock", "register", "submit", "await", "restart", "done"}]
        /\ attempt' \in [Senders -> 1..MaxAttempts]
        /\ \A t \in Senders : spc'[t] \in {"register", "submit"} => spc[t] \in {"register", "submit"}
    <3>1. CASE trans' = 0
      BY <1>9, <3>1 DEF SMS!Restart, TypeInv, SMS!TypeOK
    <3>2. CASE trans' # 0
      BY <1>9, <3>2, AfterErrorTypes DEF SMS!Restart
    <3> QED
      BY <3>1, <3>2
  <2> QED
    BY <2>1, <2>2, <2>3, SessionTypes DEF TypeInv, SMS!TypeOK
<1>10. ASSUME NEW s \in Senders, SMS!Result(s) PROVE TypeInv'
  <2>1. PICK a \in SMS!AllParts : res' = [res EXCEPT ![s] = {a}]
    BY <1>10 DEF SMS!Result
  <2>2. box' \subseteq box
    BY <1>10 DEF SMS!Result, SMS!Forget
  <2> QED
    BY <1>10, <2>1, <2>2 DEF SMS!Result, TypeInv, SMS!TypeOK
<1>11. ASSUME NEW s \in Senders, SMS!Timeout(s) PROVE TypeInv'
  <2>1. box' \subseteq box
    BY <1>11 DEF SMS!Timeout, SMS!Forget
  <2> QED
    BY <1>11, <2>1, AfterErrorTypes DEF SMS!Timeout, TypeInv, SMS!TypeOK
<1>12. ASSUME NEW p \in SMS!AllParts, SMS!HandleSubmitSMResponse(p) PROVE TypeInv'
  <2>1. waitChs' \subseteq waitChs /\ box' \subseteq box \cup {<<p, p>>} /\ unanswered' \subseteq unanswered
    BY <1>12 DEF SMS!HandleSubmitSMResponse
  <2>2. box' \in SUBSET (SMS!AllParts \X SMS!AllParts)
    BY <2>1 DEF TypeInv, SMS!TypeOK
  <2> QED
    BY <1>12, <2>1, <2>2 DEF SMS!HandleSubmitSMResponse, TypeInv, SMS!TypeOK
<1>13. ASSUME NEW p \in SMS!AllParts, SMS!LoseAnswer(p) PROVE TypeInv'
  <2>1. sfaults' \in 0..MaxFaults
    BY <1>13 DEF SMS!LoseAnswer, SMS!Fault, TypeInv, SMS!TypeOK
  <2> QED
    BY <1>13, <2>1 DEF SMS!LoseAnswer, TypeInv, SMS!TypeOK
<1>14. ASSUME NEW x \in 1..MaxSessions, SMS!SessionDrop(x) PROVE TypeInv'
  <2>1. sfaults' \in 0..MaxFaults
    BY <1>14 DEF SMS!SessionDrop, SMS!Fault, TypeInv, SMS!TypeOK
  <2> QED
    BY <1>14, <2>1 DEF SMS!SessionDrop, TypeInv, SMS!TypeOK
<1>15. ASSUME NEW x \in 1..MaxSessions, SMS!Rebind(x) PROVE TypeInv'
  BY <1>15 DEF SMS!Rebind, TypeInv, SMS!TypeOK
<1>16. CASE UNCHANGED SMS!vars
  BY <1>16 DEF SMS!vars, TypeInv, SMS!TypeOK
<1> QED
  BY <1>1, <1>2, <1>3, <1>4, <1>5, <1>6, <1>7, <1>8, <1>9, <1>10, <1>11, <1>12, <1>13, <1>14,
     <1>15, <1>16 DEF SMS!Next, SMS!SenderStep

----------------------------------------------------------------------------
(* Who is in an attempt holds s.sendMu, so there is at most one. *)
MuHeld == \A s \in Senders : SMS!Sending(s) => sendMu = s

(* What Submit took of a sender's text: nothing of an attempt to come, and *)
(* of the attempt under way the parts before the next one, whose waiter is *)
(* there before it is submitted.                                           *)
Progress ==
  /\ unanswered \subseteq submitted /\ \A p \in submitted : p[2] <= attempt[p[1]]
  /\ \A s \in Senders :
       /\ spc[s] \in {"new", "lock"} => \A p \in submitted : p[1] = s => p[2] < attempt[s]
       /\ SMS!Sending(s) => \A i \in 1..Parts : SMS!Part(s, i) \in submitted <=> i < next[s]
       /\ spc[s] = "submit" => SMS!Part(s, next[s]) \in waitChs
       /\ spc[s] = "await" => next[s] = Parts + 1

(* An answer is in the channel of the part that it answers, and a result   *)
(* ends the call.                                                          *)
Answered ==
  /\ \A m \in box : m[1] = m[2]
  /\ \A s \in Senders : res[s] # {} => spc[s] = "done"

(* The inductive invariant. *)
IInv ==
  /\ TypeInv /\ SMS!SessionsOwned /\ MuHeld /\ Progress /\ Answered
  /\ SMS!AnswerFindsWaiter /\ SMS!ResultOfOwnAttempt /\ SMS!SuccessMeansAllSubmitted
  /\ SMS!StaleWaitersFromRefusedSubmit

(* A part says whose it is, of which attempt, and its number. *)
LEMMA PartIs ==
  /\ \A p \in SMS!AllParts : /\ p[1] \in Senders /\ p[2] \in 1..MaxAttempts /\ p[3] \in 1..Parts
                         /\ p = <<p[1], p[2], p[3]>>
  /\ \A s, i : SMS!Part(s, i)[1] = s /\ SMS!Part(s, i)[2] = attempt[s] /\ SMS!Part(s, i)[3] = i
BY DEF SMS!AllParts, SMS!Part

(* Nobody sends at the start. *)
LEMMA InitIInv == SMS!Init => IInv
<1> SUFFICES ASSUME SMS!Init PROVE IInv
  OBVIOUS
<1>1. TypeInv
  BY TypeInit
<1>2. SMS!SessionsOwned /\ MuHeld
  BY DEF SMS!Init, SMS!SessionsOwned, MuHeld, SMS!Sending
<1>3. Progress /\ Answered
  BY DEF SMS!Init, Progress, Answered, SMS!Sending
<1>4. SMS!AnswerFindsWaiter /\ SMS!ResultOfOwnAttempt /\ SMS!SuccessMeansAllSubmitted /\ SMS!StaleWaitersFromRefusedSubmit
  BY DEF SMS!Init, SMS!AnswerFindsWaiter, SMS!ResultOfOwnAttempt, SMS!SuccessMeansAllSubmitted,
     SMS!StaleWaitersFromRefusedSubmit
<1> QED
  BY <1>1, <1>2, <1>3, <1>4 DEF IInv

(* NewSession, where the session of the moment is closed for good or nil,  *)
(* leaves none behind.                                                     *)
LEMMA SessionsOwnedNext ==
  ASSUME TypeInv, SMS!SessionsOwned, SMS!NewSession, ended \subseteq ended', trans = 0 \/ trans \in ended'
  PROVE  SMS!SessionsOwned'
<1>1. trans \in Nat /\ sessions \in Nat
  BY SMSCBounds DEF TypeInv, SMS!TypeOK
<1>2. \A x \in 1..sessions : x \in ended'
  BY <1>1 DEF SMS!SessionsOwned
<1>3. sessions' = sessions \/ (sessions' = sessions + 1 /\ trans' = sessions')
  BY DEF SMS!NewSession
<1> QED
  BY <1>1, <1>2, <1>3 DEF SMS!SessionsOwned

(* Sessions come and go and answers are lost; senders and waiters stay. *)
LEMMA QuietStep ==
  ASSUME IInv, TypeInv', SMS!SessionsOwned',
         UNCHANGED <<waitChs, sendMu, spc, attempt, next, res, box, submitted>>,
         unanswered' \subseteq unanswered
  PROVE  IInv'
<1>1. \A s : SMS!Sending(s)' <=> SMS!Sending(s)
  BY DEF SMS!Sending
<1>2. \A s, i : SMS!Part(s, i)' = SMS!Part(s, i)
  BY DEF SMS!Part
<1>3. MuHeld' /\ Answered'
  BY <1>1 DEF IInv, MuHeld, Answered
<1>4. Progress'
  BY <1>1, <1>2 DEF IInv, Progress
<1>5. SMS!AnswerFindsWaiter' /\ SMS!ResultOfOwnAttempt'
  BY <1>1 DEF IInv, SMS!AnswerFindsWaiter, SMS!ResultOfOwnAttempt
<1>6. SMS!SuccessMeansAllSubmitted' /\ SMS!StaleWaitersFromRefusedSubmit'
  BY <1>1, <1>2 DEF IInv, SMS!SuccessMeansAllSubmitted, SMS!StaleWaitersFromRefusedSubmit
<1> QED
  BY <1>3, <1>4, <1>5, <1>6 DEF IInv

(* A sender is not, or is no longer, in an attempt.  If it was, no other   *)
(* sender is, and what it leaves in the map are waiters of a text that was *)
(* not submitted to its end.                                               *)
LEMMA LeaveStep ==
  ASSUME IInv, TypeInv', SMS!SessionsOwned', NEW s \in Senders,
         NEW p \in {"lock", "restart", "done"}, spc' = [spc EXCEPT ![s] = p],
         NEW n \in 1..MaxAttempts, attempt' = [attempt EXCEPT ![s] = n],
         attempt[s] <= n, p = "lock" => attempt[s] < n \/ spc[s] = "new",
         NEW r, res' = [res EXCEPT ![s] = r],
         r # {} => /\ p = "done" /\ n = attempt[s] /\ \A a \in r : a[1] = s /\ a[2] = n
                   /\ \A i \in 1..Parts : SMS!Part(s, i) \in submitted,
         \/ ~SMS!Sending(s) /\ UNCHANGED <<sendMu, waitChs>>
         \/ /\ SMS!Sending(s) /\ waitChs' \subseteq waitChs
            /\ \A w \in waitChs' : w[1] = s /\ w[2] = attempt[s] =>
                 w[3] < Parts /\ <<s, attempt[s], Parts>> \notin submitted,
         box' \subseteq box, UNCHANGED <<next, unanswered, submitted>>
  PROVE  IInv'
<1> USE SMSCBounds
<1>1. /\ attempt \in [Senders -> 1..MaxAttempts] /\ res \in [Senders -> SUBSET SMS!AllParts]
      /\ spc \in [Senders -> {"new", "lock", "register", "submit", "await", "restart", "done"}]
      /\ submitted \subseteq SMS!AllParts /\ waitChs \subseteq SMS!AllParts /\ unanswered \subseteq SMS!AllParts
      /\ waitChs' \subseteq SMS!AllParts
  BY DEF IInv, TypeInv, SMS!TypeOK
<1>2. \A t \in Senders : /\ spc'[t] = IF t = s THEN p ELSE spc[t]
                         /\ attempt'[t] = IF t = s THEN n ELSE attempt[t]
                         /\ res'[t] = IF t = s THEN r ELSE res[t]
  BY <1>1
<1>3. ~SMS!Sending(s)' /\ \A t \in Senders : t # s => (SMS!Sending(t)' <=> SMS!Sending(t))
  BY <1>2 DEF SMS!Sending
<1>4. \A t \in Senders : SMS!Sending(t)' => t # s /\ SMS!Sending(t) /\ UNCHANGED <<sendMu, waitChs>>
  <2> SUFFICES ASSUME NEW t \in Senders, SMS!Sending(t)' PROVE t # s /\ SMS!Sending(t) /\ UNCHANGED <<sendMu, waitChs>>
    OBVIOUS
  <2>1. t # s /\ SMS!Sending(t)
    BY <1>3
  <2>2. sendMu = t /\ (SMS!Sending(s) => sendMu = s)
    BY <2>1 DEF IInv, MuHeld
  <2> QED
    BY <2>1, <2>2
<1>5. MuHeld'
  BY <1>4 DEF IInv, MuHeld
<1>7. Progress'
  <2>1. \A q \in submitted' : q[2] <= attempt'[q[1]]
    <3> SUFFICES ASSUME NEW q \in submitted PROVE q[2] <= attempt'[q[1]]
      OBVIOUS
    <3>1. q[1] \in Senders /\ q[2] \in Nat /\ q[2] <= attempt[q[1]] /\ attempt[q[1]] \in Nat
      BY <1>1, PartIs DEF IInv, Progress
    <3>2. attempt[q[1]] <= attempt'[q[1]] /\ attempt'[q[1]] \in Nat
      BY <1>2, <3>1
    <3> QED
      BY <3>1, <3>2
  <2>2. ASSUME NEW t \in Senders, spc'[t] \in {"new", "lock"}, NEW q \in submitted, q[1] = t
        PROVE  q[2] < attempt'[t]
    <3>1. q[2] \in Nat /\ q[2] <= attempt[t] /\ attempt[t] \in Nat /\ attempt'[t] \in Nat
      BY <1>1, <1>2, <2>2, PartIs DEF IInv, Progress
    <3>2. CASE spc[t] \in {"new", "lock"}
      BY <1>2, <2>2, <3>1, <3>2 DEF IInv, Progress
    <3>3. CASE spc[t] \notin {"new", "lock"}
      BY <1>2, <2>2, <3>1, <3>3
    <3> QED
      BY <3>2, <3>3
  <2>3. ASSUME NEW t \in Senders, SMS!Sending(t)'
        PROVE  /\ \A i \in 1..Parts : SMS!Part(t, i)' \in submitted' <=> i < next'[t]
               /\ spc'[t] = "submit" => SMS!Part(t, next[t])' \in waitChs'
               /\ spc'[t] = "await" => next'[t] = Parts + 1
    <3>1. t # s /\ SMS!Sending(t) /\ waitChs' = waitChs /\ spc'[t] = spc[t]
      BY <1>2, <1>4, <2>3
    <3>2. /\ \A i \in 1..Parts : SMS!Part(t, i) \in submitted <=> i < next[t]
          /\ spc[t] = "submit" => SMS!Part(t, next[t]) \in waitChs
          /\ spc[t] = "await" => next[t] = Parts + 1
      BY <3>1 DEF IInv, Progress
    <3>3. (\A i \in 1..Parts : SMS!Part(t, i)' = SMS!Part(t, i)) /\ SMS!Part(t, next[t])' = SMS!Part(t, next[t])
      BY <1>2, <3>1 DEF SMS!Part
    <3> QED
      BY <3>1, <3>2, <3>3
  <2>4. \A t \in Senders : spc'[t] \in {"submit", "await"} => SMS!Sending(t)'
    BY DEF SMS!Sending
  <2> QED
    BY <2>1, <2>2, <2>3, <2>4 DEF IInv, Progress
<1>8. Answered'
  BY <1>2 DEF IInv, Answered
<1>9. SMS!AnswerFindsWaiter'
  <2> SUFFICES ASSUME NEW q \in unanswered, SMS!Sending(q[1])', q[2] = attempt'[q[1]] PROVE q \in waitChs'
    BY DEF SMS!AnswerFindsWaiter
  <2>1. q[1] \in Senders
    BY <1>1, PartIs
  <2> QED
    BY <1>2, <1>4, <2>1 DEF IInv, SMS!AnswerFindsWaiter
<1>10. SMS!ResultOfOwnAttempt'
  BY <1>2 DEF IInv, SMS!ResultOfOwnAttempt
<1>11. SMS!SuccessMeansAllSubmitted'
  <2> SUFFICES ASSUME NEW t \in Senders, res'[t] # {}, NEW i \in 1..Parts PROVE SMS!Part(t, i)' \in submitted
    BY DEF SMS!SuccessMeansAllSubmitted
  <2>1. SMS!Part(t, i)' = SMS!Part(t, i)
    BY <1>2 DEF SMS!Part
  <2> QED
    BY <1>2, <2>1 DEF IInv, SMS!SuccessMeansAllSubmitted
<1>12. SMS!StaleWaitersFromRefusedSubmit'
  <2> SUFFICES ASSUME NEW w \in waitChs', ~(SMS!Sending(w[1])' /\ w[2] = attempt'[w[1]])
               PROVE  w[3] < Parts /\ <<w[1], w[2], Parts>> \notin submitted
    BY DEF SMS!StaleWaitersFromRefusedSubmit
  <2>1. w \in waitChs /\ w[1] \in Senders
    BY <1>1, PartIs
  <2>2. CASE ~(SMS!Sending(w[1]) /\ w[2] = attempt[w[1]])
    BY <2>1, <2>2 DEF IInv, SMS!StaleWaitersFromRefusedSubmit
  <2>3. CASE SMS!Sending(w[1]) /\ w[2] = attempt[w[1]]
    <3>1. w[1] = s
      BY <1>2, <1>3, <2>1, <2>3
    <3> QED
      BY <2>3, <3>1
  <2> QED
    BY <2>2, <2>3
<1> QED
  BY <1>5, <1>7, <1>8, <1>9, <1>10, <1>11, <1>12 DEF IInv

(* A step of the one sender that is in an attempt, within the attempt: s   *)
(* registers the waiter of its next part, or submits it, or has just begun. *)
LEMMA SendingStep ==
  ASSUME IInv, TypeInv', NEW s \in Senders, SMS!Sending(s)', sendMu' = s,
         \A t \in Senders : t # s => ~SMS!Sending(t) /\ ~SMS!Sending(t)',
         \A t \in Senders : t # s => spc'[t] = spc[t],
         UNCHANGED <<trans, attempt, res, box, sessions, ended>>, res[s] = {},
         waitChs \subseteq waitChs', submitted \subseteq submitted', unanswered \subseteq unanswered',
         \A w \in waitChs' : w \in waitChs \/ (w[1] = s /\ w[2] = attempt[s]),
         \A q \in submitted' : q \in submitted \/ (q[1] = s /\ q[2] = attempt[s]),
         \A q \in unanswered' : q \in unanswered \/ (q \in submitted' /\ q \in waitChs'),
         \A i \in 1..Parts : SMS!Part(s, i) \in submitted' <=> i < next'[s],
         ~SMS!Sending(s) => \A q \in unanswered : q[1] = s => q[2] < attempt[s],
         spc'[s] = "submit" => SMS!Part(s, next'[s]) \in waitChs',
         spc'[s] = "await" => next'[s] = Parts + 1
  PROVE  IInv'
<1> USE SMSCBounds
<1>1. /\ attempt \in [Senders -> 1..MaxAttempts] /\ submitted' \subseteq SMS!AllParts
      /\ waitChs' \subseteq SMS!AllParts /\ unanswered' \subseteq SMS!AllParts
  BY DEF IInv, TypeInv, SMS!TypeOK
<1>2. \A t, i : SMS!Part(t, i)' = SMS!Part(t, i)
  BY DEF SMS!Part
<1>3. SMS!SessionsOwned' /\ MuHeld' /\ SMS!ResultOfOwnAttempt'
  BY DEF IInv, SMS!SessionsOwned, MuHeld, SMS!ResultOfOwnAttempt
<1>4. Progress'
  <2>1. \A q \in submitted' : q[2] <= attempt[q[1]]
    BY <1>1 DEF IInv, Progress
  <2>2. ASSUME NEW t \in Senders, spc'[t] \in {"new", "lock"}, NEW q \in submitted', q[1] = t
        PROVE  q[2] < attempt[t]
    <3>1. t # s
      BY <2>2 DEF SMS!Sending
    <3> QED
      BY <2>2, <3>1 DEF IInv, Progress
  <2>3. ASSUME NEW t \in Senders, SMS!Sending(t)' PROVE t = s
    BY <2>3
  <2>4. \A t \in Senders : spc'[t] \in {"submit", "await"} => SMS!Sending(t)'
    BY DEF SMS!Sending
  <2>5. unanswered' \subseteq submitted'
    BY DEF IInv, Progress
  <2>6. SMS!Part(s, next[s])' = SMS!Part(s, next'[s])
    BY DEF SMS!Part
  <2> QED
    BY <1>2, <2>1, <2>2, <2>3, <2>4, <2>5, <2>6 DEF Progress
<1>5. Answered'
  BY DEF IInv, Answered
<1>6. SMS!AnswerFindsWaiter'
  <2> SUFFICES ASSUME NEW q \in unanswered', SMS!Sending(q[1])', q[2] = attempt[q[1]] PROVE q \in waitChs'
    BY DEF SMS!AnswerFindsWaiter
  <2>1. q[1] = s
    BY <1>1, PartIs
  <2>2. CASE q \in unanswered
    <3>1. attempt[s] \in Nat
      BY <1>1
    <3>2. SMS!Sending(s)
      BY <2>1, <2>2, <3>1
    <3> QED
      BY <2>1, <2>2, <3>2 DEF IInv, SMS!AnswerFindsWaiter
  <2> QED
    BY <2>2
<1>7. SMS!SuccessMeansAllSubmitted'
  BY <1>2 DEF IInv, SMS!SuccessMeansAllSubmitted
<1>8. SMS!StaleWaitersFromRefusedSubmit'
  <2> SUFFICES ASSUME NEW w \in waitChs', ~(SMS!Sending(w[1])' /\ w[2] = attempt[w[1]])
               PROVE  w[3] < Parts /\ <<w[1], w[2], Parts>> \notin submitted'
    BY DEF SMS!StaleWaitersFromRefusedSubmit
  <2>1. w[1] \in Senders /\ (w[1] = s => w[2] # attempt[s])
    BY <1>1, PartIs
  <2>2. w \in waitChs /\ ~(SMS!Sending(w[1]) /\ w[2] = attempt[w[1]])
    BY <2>1
  <2>3. w[3] < Parts /\ <<w[1], w[2], Parts>> \notin submitted
    BY <2>2 DEF IInv, SMS!StaleWaitersFromRefusedSubmit
  <2> DEFINE q == <<w[1], w[2], Parts>>
  <2>4. q[1] = w[1] /\ q[2] = w[2]
    OBVIOUS
  <2> HIDE DEF q
  <2>5. q \notin submitted'
    BY <2>1, <2>3, <2>4 DEF q
  <2> QED
    BY <2>3, <2>5 DEF q
<1> QED
  BY <1>3, <1>4, <1>5, <1>6, <1>7, <1>8 DEF IInv

(* Nobody is in an attempt while s.sendMu is free, and only its holder is. *)
LEMMA OneSends ==
  ASSUME IInv
  PROVE  /\ sendMu = SMS!Nobody => \A t \in Senders : ~SMS!Sending(t)
         /\ \A s, t \in Senders : SMS!Sending(s) /\ t # s => ~SMS!Sending(t)
BY SMSAssumed DEF SMS!SMSCConstants, IInv, MuHeld

(* What AfterError does to place and attempt. *)
LEMMA AfterErrorIs ==
  ASSUME IInv, NEW s \in Senders, SMS!AfterError(s)
  PROVE  \E p \in {"lock", "done"}, n \in 1..MaxAttempts :
           /\ spc' = [spc EXCEPT ![s] = p] /\ attempt' = [attempt EXCEPT ![s] = n]
           /\ attempt[s] <= n /\ (p = "lock" => attempt[s] < n)
<1> USE SMSCBounds
<1>1. attempt[s] \in 1..MaxAttempts
  BY DEF IInv, TypeInv, SMS!TypeOK
<1>2. CASE attempt[s] < MaxAttempts
  <2>1. /\ spc' = [spc EXCEPT ![s] = "lock"] /\ attempt' = [attempt EXCEPT ![s] = attempt[s] + 1]
        /\ attempt[s] + 1 \in 1..MaxAttempts /\ attempt[s] < attempt[s] + 1
        /\ attempt[s] <= attempt[s] + 1
    BY <1>1, <1>2 DEF SMS!AfterError
  <2> USE <2>1
  <2> WITNESS "lock" \in {"lock", "done"}, attempt[s] + 1 \in 1..MaxAttempts
  <2> QED
    OBVIOUS
<1>3. CASE ~(attempt[s] < MaxAttempts)
  <2>1. spc' = [spc EXCEPT ![s] = "done"] /\ attempt' = [attempt EXCEPT ![s] = attempt[s]] /\ attempt[s] <= attempt[s]
    BY <1>1, <1>3 DEF SMS!AfterError
  <2> WITNESS "done" \in {"lock", "done"}, attempt[s] \in 1..MaxAttempts
  <2> QED
    BY <2>1
<1> QED
  BY <1>2, <1>3

(* The parts before the refused one keep their waiters: they are not the   *)
(* last.                                                                   *)
LEMMA RefusedLeaves ==
  ASSUME IInv, NEW s \in Senders, spc[s] = "submit", SMS!GiveUpSubmit(s)
  PROVE  /\ SMS!Sending(s) /\ waitChs' \subseteq waitChs
         /\ \A w \in waitChs' : w[1] = s /\ w[2] = attempt[s] =>
              w[3] < Parts /\ <<s, attempt[s], Parts>> \notin submitted
<1> USE SMSCBounds
<1>1. /\ SMS!Sending(s) /\ next[s] \in 1..Parts /\ waitChs \subseteq SMS!AllParts
      /\ waitChs' = waitChs \ {SMS!Part(s, i) : i \in next[s]..Parts}
  BY DEF SMS!Sending, IInv, TypeInv, SMS!TypeOK, SMS!GiveUpSubmit
<1>2. SMS!Part(s, Parts) \notin submitted
  BY <1>1 DEF IInv, Progress
<1>3. ASSUME NEW w \in waitChs', w[1] = s, w[2] = attempt[s] PROVE w[3] < Parts
  <2>1. w \in SMS!AllParts /\ w = <<s, attempt[s], w[3]>> /\ w[3] \in 1..Parts
    BY <1>1, <1>3, PartIs
  <2>2. w = SMS!Part(s, w[3])
    BY <2>1 DEF SMS!Part
  <2>3. ~(w[3] \in next[s]..Parts)
    BY <1>1, <1>3, <2>2
  <2> QED
    BY <1>1, <2>1, <2>3
<1> QED
  BY <1>1, <1>2, <1>3 DEF SMS!Part

(* s.sendMu is taken, or the attempt fails for want of a session. *)
LEMMA SendLockStep == ASSUME IInv, TypeInv', NEW s \in Senders, SMS!SendLock(s) PROVE IInv'
<1> USE SMSCBounds
<1>1. /\ spc[s] = "lock" /\ sendMu = SMS!Nobody /\ ~SMS!Sending(s) /\ res[s] = {}
      /\ UNCHANGED <<trans, waitChs, sstopped, res, box, SMS!smscVars>>
  BY DEF SMS!SendLock, SMS!Sending, IInv, Answered
<1>2. SMS!SessionsOwned' /\ res = [res EXCEPT ![s] = {}] /\ UNCHANGED <<unanswered, submitted,
                                                                    sessions, ended>>
  BY <1>1 DEF IInv, SMS!SessionsOwned, TypeInv, SMS!TypeOK, SMS!smscVars
<1>3. CASE trans = 0
  <2>1. SMS!AfterError(s) /\ UNCHANGED <<sendMu, next>>
    BY <1>3 DEF SMS!SendLock
  <2>2. PICK p \in {"lock", "done"}, n \in 1..MaxAttempts :
          /\ spc' = [spc EXCEPT ![s] = p] /\ attempt' = [attempt EXCEPT ![s] = n]
          /\ attempt[s] <= n /\ (p = "lock" => attempt[s] < n)
    BY <2>1, AfterErrorIs
  <2> QED
    BY <1>1, <1>2, <2>1, <2>2, LeaveStep
<1>4. CASE trans # 0
  <2>1. /\ sendMu' = s /\ next' = [next EXCEPT ![s] = 1] /\ spc' = [spc EXCEPT ![s] = "register"]
        /\ attempt' = attempt
    BY <1>4 DEF SMS!SendLock
  <2>2. /\ \A t \in Senders : spc'[t] = IF t = s THEN "register" ELSE spc[t]
        /\ next'[s] = 1
    BY <2>1 DEF IInv, TypeInv, SMS!TypeOK
  <2>3. SMS!Sending(s)' /\ \A t \in Senders : t # s => ~SMS!Sending(t) /\ ~SMS!Sending(t)'
    BY <1>1, <2>2, OneSends DEF SMS!Sending
  <2>4. \A q \in submitted : q[1] = s => q[2] < attempt[s]
    BY <1>1 DEF IInv, Progress
  <2>5. \A i \in 1..Parts : SMS!Part(s, i) \in submitted' <=> i < next'[s]
    <3>1. attempt[s] \in Nat
      BY DEF IInv, TypeInv, SMS!TypeOK
    <3>2. \A i \in 1..Parts : SMS!Part(s, i) \notin submitted
      BY <2>4, <3>1, PartIs
    <3> QED
      BY <1>2, <2>2, <3>2
  <2>6. \A q \in unanswered : q[1] = s => q[2] < attempt[s]
    BY <2>4 DEF IInv, Progress
  <2> QED
    BY <1>1, <1>2, <2>1, <2>2, <2>3, <2>5, <2>6, SendingStep
<1> QED
  BY <1>3, <1>4

(* The waiter of the next part is there before the part is submitted. *)
LEMMA RegisterStep == ASSUME IInv, TypeInv', NEW s \in Senders, SMS!Register(s) PROVE IInv'
<1> USE SMSCBounds
<1>1. /\ spc[s] = "register" /\ waitChs' = waitChs \cup {SMS!Part(s, next[s])}
      /\ spc' = [spc EXCEPT ![s] = "submit"]
      /\ UNCHANGED <<trans, sendMu, attempt, next, res, box>>
      /\ UNCHANGED <<unanswered, submitted, sessions, ended>>
  BY DEF SMS!Register, SMS!smscVars
<1>2. SMS!Sending(s) /\ sendMu' = s /\ res[s] = {}
  BY <1>1 DEF SMS!Sending, IInv, MuHeld, Answered
<1>3. \A t \in Senders : spc'[t] = IF t = s THEN "submit" ELSE spc[t]
  BY <1>1 DEF IInv, TypeInv, SMS!TypeOK
<1>4. SMS!Sending(s)' /\ \A t \in Senders : t # s => ~SMS!Sending(t) /\ ~SMS!Sending(t)'
  BY <1>2, <1>3, OneSends DEF SMS!Sending
<1>5. \A i \in 1..Parts : SMS!Part(s, i) \in submitted' <=> i < next'[s]
  BY <1>1, <1>2 DEF IInv, Progress
<1>6. \A w \in waitChs' : w \in waitChs \/ (w[1] = s /\ w[2] = attempt[s])
  BY <1>1, PartIs
<1>7. spc'[s] = "submit" /\ SMS!Part(s, next'[s]) \in waitChs'
  BY <1>1, <1>3
<1> QED
  BY <1>1, <1>2, <1>3, <1>4, <1>5, <1>6, <1>7, SendingStep

(* Submit takes the next part. *)
LEMMA SubmitStep == ASSUME IInv, TypeInv', NEW s \in Senders, SMS!Submit(s) PROVE IInv'
<1> USE SMSCBounds
<1> DEFINE q == SMS!Part(s, next[s])
<1>1. /\ spc[s] = "submit" /\ unanswered' = unanswered \cup {q} /\ submitted' = submitted \cup {q}
      /\ next' = [next EXCEPT ![s] = next[s] + 1]
      /\ spc' = [spc EXCEPT ![s] = IF next[s] < Parts THEN "register" ELSE "await"]
      /\ UNCHANGED <<trans, sendMu, waitChs, attempt, res, box, sessions, ended>>
  BY DEF SMS!Submit, SMS!fieldVars
<1>2. SMS!Sending(s) /\ sendMu' = s /\ res[s] = {} /\ q \in waitChs /\ next[s] \in 1..Parts
  BY <1>1 DEF SMS!Sending, IInv, MuHeld, Answered, Progress, TypeInv
<1>3. /\ \A t \in Senders : spc'[t] = IF t = s THEN IF next[s] < Parts THEN "register" ELSE "await" ELSE spc[t]
      /\ next'[s] = next[s] + 1
  BY <1>1 DEF IInv, TypeInv, SMS!TypeOK
<1>4. SMS!Sending(s)' /\ \A t \in Senders : t # s => ~SMS!Sending(t) /\ ~SMS!Sending(t)'
  BY <1>2, <1>3, OneSends DEF SMS!Sending
<1>5. \A i \in 1..Parts : SMS!Part(s, i) \in submitted' <=> i < next'[s]
  <2> SUFFICES ASSUME NEW i \in 1..Parts PROVE SMS!Part(s, i) \in submitted' <=> i < next'[s]
    OBVIOUS
  <2>1. SMS!Part(s, i) \in submitted <=> i < next[s]
    BY <1>2 DEF IInv, Progress
  <2>2. SMS!Part(s, i) = q <=> i = next[s]
    BY PartIs
  <2> HIDE DEF q
  <2> QED
    BY <1>1, <1>2, <1>3, <2>1, <2>2
<1>6. \A p \in submitted' : p \in submitted \/ (p[1] = s /\ p[2] = attempt[s])
  BY <1>1, PartIs
<1>7. spc'[s] # "submit" /\ (spc'[s] = "await" => next'[s] = Parts + 1)
  BY <1>2, <1>3
<1> HIDE DEF q
<1> QED
  BY <1>1, <1>2, <1>3, <1>4, <1>5, <1>6, <1>7, SendingStep

(* An answer goes to the waiter of its own part. *)
LEMMA HandleStep == ASSUME IInv, TypeInv', NEW p \in SMS!AllParts, SMS!HandleSubmitSMResponse(p) PROVE IInv'
<1>1. /\ p \in unanswered /\ unanswered' = unanswered \ {p} /\ waitChs' = waitChs \ {p}
      /\ box' \subseteq box \cup {<<p, p>>}
      /\ UNCHANGED <<trans, sendMu, spc, attempt, next, res, submitted, sessions, ended>>
  BY DEF SMS!HandleSubmitSMResponse
<1>2. \A s : SMS!Sending(s)' <=> SMS!Sending(s)
  BY <1>1 DEF SMS!Sending
<1>3. \A s, i : SMS!Part(s, i)' = SMS!Part(s, i)
  BY <1>1 DEF SMS!Part
<1>4. SMS!SessionsOwned' /\ MuHeld' /\ Answered' /\ SMS!ResultOfOwnAttempt'
  BY <1>1, <1>2 DEF IInv, SMS!SessionsOwned, MuHeld, Answered, SMS!ResultOfOwnAttempt
<1>5. Progress'
  <2>1. ASSUME NEW s \in Senders, spc[s] = "submit" PROVE SMS!Part(s, next[s]) \in waitChs'
    <3>1. SMS!Part(s, next[s]) \notin submitted /\ SMS!Part(s, next[s]) \in waitChs
      <4>1. next[s] \in 1..Parts /\ SMS!Sending(s)
        BY <2>1 DEF IInv, TypeInv, SMS!Sending
      <4>2. ~(next[s] < next[s])
        BY <4>1
      <4> QED
        BY <2>1, <4>1, <4>2 DEF IInv, Progress
    <3>2. p \in submitted
      BY <1>1 DEF IInv, Progress
    <3> QED
      BY <1>1, <3>1, <3>2
  <2>2. \A s \in Senders : SMS!Part(s, next[s])' = SMS!Part(s, next[s])
    BY <1>1 DEF SMS!Part
  <2> QED
    BY <1>1, <1>2, <1>3, <2>1, <2>2 DEF IInv, Progress
<1>6. SMS!AnswerFindsWaiter' /\ SMS!StaleWaitersFromRefusedSubmit'
  BY <1>1, <1>2 DEF IInv, SMS!AnswerFindsWaiter, SMS!StaleWaitersFromRefusedSubmit
<1>7. SMS!SuccessMeansAllSubmitted'
  BY <1>1, <1>3 DEF IInv, SMS!SuccessMeansAllSubmitted
<1> QED
  BY <1>4, <1>5, <1>6, <1>7 DEF IInv

(* A refused Submit ends the attempt. *)
LEMMA RefusedStep ==
  ASSUME IInv, TypeInv', NEW s \in Senders, SMS!SubmitClosing(s) \/ SMS!SubmitError(s)
  PROVE  IInv'
<1>1. /\ spc[s] = "submit" /\ SMS!GiveUpSubmit(s)
      /\ UNCHANGED <<trans, next, res, box, unanswered, submitted, sessions, ended>>
  BY DEF SMS!SubmitClosing, SMS!SubmitError, SMS!GiveUpSubmit
<1>2. SMS!SessionsOwned' /\ res = [res EXCEPT ![s] = {}] /\ attempt[s] \in 1..MaxAttempts /\ attempt[s] <= attempt[s]
  BY <1>1, SMSCBounds DEF IInv, SMS!SessionsOwned, Answered, TypeInv, SMS!TypeOK
<1>3. PICK p \in {"lock", "restart", "done"}, n \in 1..MaxAttempts :
          /\ spc' = [spc EXCEPT ![s] = p] /\ attempt' = [attempt EXCEPT ![s] = n]
          /\ attempt[s] <= n /\ (p = "lock" => attempt[s] < n)
  <2>1. CASE SMS!SubmitClosing(s)
    <3>1. spc' = [spc EXCEPT ![s] = "restart"] /\ attempt' = [attempt EXCEPT ![s] = attempt[s]]
      BY <2>1 DEF SMS!SubmitClosing, IInv, TypeInv, SMS!TypeOK
    <3> QED
      BY <1>2, <3>1
  <2>2. CASE SMS!SubmitError(s)
    BY <2>2, AfterErrorIs DEF SMS!SubmitError
  <2> QED
    BY <2>1, <2>2
<1> QED
  BY <1>1, <1>2, <1>3, RefusedLeaves, LeaveStep

(* The map is emptied at the end of an attempt that was submitted. *)
LEMMA AwaitStep == ASSUME IInv, TypeInv', NEW s \in Senders, SMS!Result(s) \/ SMS!Timeout(s) PROVE IInv'
<1>1. /\ spc[s] = "await" /\ SMS!Sending(s) /\ waitChs' = {} /\ box' \subseteq box
      /\ UNCHANGED <<trans, next, unanswered, submitted, sessions, ended>>
  BY DEF SMS!Result, SMS!Timeout, SMS!Forget, SMS!Sending, SMS!smscVars
<1>2. SMS!SessionsOwned' /\ attempt[s] \in 1..MaxAttempts /\ attempt[s] <= attempt[s]
  BY <1>1, SMSCBounds DEF IInv, SMS!SessionsOwned, TypeInv, SMS!TypeOK
<1>3. CASE SMS!Result(s)
  <2>1. PICK i \in 1..Parts, a \in SMS!AllParts : <<SMS!Part(s, i), a>> \in box /\ res' = [res EXCEPT ![s] = {a}]
    BY <1>3 DEF SMS!Result
  <2>2. a = SMS!Part(s, i)
    BY <2>1 DEF IInv, Answered
  <2>3. a[1] = s /\ a[2] = attempt[s]
    BY <2>2, PartIs
  <2>4. \A j \in 1..Parts : SMS!Part(s, j) \in submitted
    BY <1>1, SMSCBounds DEF IInv, Progress
  <2>5. spc' = [spc EXCEPT ![s] = "done"] /\ attempt' = [attempt EXCEPT ![s] = attempt[s]]
    BY <1>3 DEF SMS!Result, IInv, TypeInv, SMS!TypeOK
  <2> QED
    BY <1>1, <1>2, <2>1, <2>3, <2>4, <2>5, LeaveStep
<1>4. CASE SMS!Timeout(s)
  <2>1. PICK p \in {"lock", "done"}, n \in 1..MaxAttempts :
          /\ spc' = [spc EXCEPT ![s] = p] /\ attempt' = [attempt EXCEPT ![s] = n]
          /\ attempt[s] <= n /\ (p = "lock" => attempt[s] < n)
    BY <1>4, AfterErrorIs DEF SMS!Timeout
  <2>2. res' = [res EXCEPT ![s] = {}]
    BY <1>1, <1>4 DEF SMS!Timeout, IInv, Answered, TypeInv, SMS!TypeOK
  <2> QED
    BY <1>1, <1>2, <2>1, <2>2, LeaveStep
<1> QED
  BY <1>3, <1>4

(* A Restart closes the session it replaces. *)
LEMMA SendRestartStep == ASSUME IInv, TypeInv', NEW s \in Senders, SMS!Restart(s) PROVE IInv'
<1>1. /\ spc[s] = "restart" /\ ~SMS!Sending(s) /\ SMS!NewSession /\ ended' = ended \cup ({trans} \ {0})
      /\ UNCHANGED <<sendMu, waitChs, next, res, box, unanswered, submitted>>
  BY DEF SMS!Restart, SMS!Sending
<1>2. SMS!SessionsOwned'
  BY <1>1, SessionsOwnedNext DEF IInv
<1>3. res = [res EXCEPT ![s] = {}] /\ attempt[s] \in 1..MaxAttempts /\ attempt[s] <= attempt[s]
  BY <1>1, SMSCBounds DEF IInv, Answered, TypeInv, SMS!TypeOK
<1>4. CASE trans' = 0
  <2>1. spc' = [spc EXCEPT ![s] = "done"] /\ attempt' = [attempt EXCEPT ![s] = attempt[s]]
    BY <1>4 DEF SMS!Restart, IInv, TypeInv, SMS!TypeOK
  <2> QED
    BY <1>1, <1>2, <1>3, <2>1, LeaveStep
<1>5. CASE trans' # 0
  <2>1. PICK p \in {"lock", "done"}, n \in 1..MaxAttempts :
          /\ spc' = [spc EXCEPT ![s] = p] /\ attempt' = [attempt EXCEPT ![s] = n]
          /\ attempt[s] <= n /\ (p = "lock" => attempt[s] < n)
    BY <1>5, AfterErrorIs DEF SMS!Restart
  <2> QED
    BY <1>1, <1>2, <1>3, <2>1, LeaveStep
<1> QED
  BY <1>4, <1>5

(* Every step keeps the invariant. *)
LEMMA NextIInv == IInv /\ [SMS!Next]_SMS!vars => IInv'
<1> SUFFICES ASSUME IInv, [SMS!Next]_SMS!vars PROVE IInv'
  OBVIOUS
<1>1. TypeInv'
  BY TypeNext DEF IInv
<1>2. CASE SMS!Start
  <2>1. SMS!SessionsOwned'
    BY <1>2, SessionsOwnedNext DEF SMS!Start, IInv
  <2> QED
    BY <1>1, <1>2, <2>1, QuietStep DEF SMS!Start, SMS!senderVars
<1>3. CASE SMS!Stop \/ (\E p \in SMS!AllParts : SMS!LoseAnswer(p)) \/ UNCHANGED SMS!vars
      \/ \E x \in 1..MaxSessions : SMS!SessionDrop(x) \/ SMS!Rebind(x)
  <2>1. /\ UNCHANGED <<waitChs, sendMu, spc, attempt, next, res, box, submitted, trans, sessions>>
        /\ unanswered' \subseteq unanswered /\ ended \subseteq ended'
    BY <1>3 DEF SMS!Stop, SMS!LoseAnswer, SMS!SessionDrop, SMS!Rebind, SMS!senderVars, SMS!fieldVars, SMS!smscVars, SMS!vars
  <2>2. SMS!SessionsOwned'
    BY <2>1 DEF IInv, SMS!SessionsOwned
  <2> QED
    BY <1>1, <2>1, <2>2, QuietStep
<1>4. ASSUME NEW s \in Senders, SMS!SendBegin(s) PROVE IInv'
  <2>1. /\ spc[s] = "new" /\ ~SMS!Sending(s) /\ spc' = [spc EXCEPT ![s] = "lock"]
        /\ UNCHANGED <<trans, sendMu, waitChs, attempt, next, res, box, unanswered, submitted,
                       sessions, ended>>
    BY <1>4 DEF SMS!SendBegin, SMS!Sending, SMS!fieldVars, SMS!smscVars
  <2>2. /\ SMS!SessionsOwned' /\ res' = [res EXCEPT ![s] = {}]
        /\ attempt' = [attempt EXCEPT ![s] = attempt[s]]
        /\ attempt[s] \in 1..MaxAttempts /\ attempt[s] <= attempt[s]
    BY <2>1, SMSCBounds DEF IInv, SMS!SessionsOwned, Answered, TypeInv, SMS!TypeOK
  <2> QED
    BY <1>1, <2>1, <2>2, LeaveStep
<1> QED
  BY <1>1, <1>2, <1>3, <1>4, SendLockStep, RegisterStep, SubmitStep, RefusedStep, SendRestartStep,
     AwaitStep, HandleStep DEF SMS!Next, SMS!SenderStep

----------------------------------------------------------------------------
(* The inductive invariant holds of every behaviour. *)
LEMMA SendIInvAlways == SendSpec => []IInv
<1>1. Init /\ SMS!Init => IInv
  BY InitIInv
<1>2. IInv /\ [SendNext]_<<vars, smsVars>> => IInv'
  <2>1. [SendNext]_<<vars, smsVars>> => [SMS!Next]_SMS!vars
    BY DEF SendNext, smsVars, SMS!vars, SMS!fieldVars, SMS!senderVars, SMS!smscVars
  <2> QED
    BY <2>1, NextIInv
<1> QED
  BY <1>1, <1>2, PTL DEF SendSpec

(* Whatever times out, fails, restarts and answers late: an answer to the  *)
(* attempt under way finds its waiter, a success covers every part, the    *)
(* waiters left over are those of a refused submit, and no session is left *)
(* behind (smsc.go:160-181, 337-453).                                      *)
THEOREM SendInvAlways == SendSpec => []SendInv
<1>1. IInv => SendInv
  BY DEF IInv, SendInv, SMS!Inv, TypeInv
<1> QED
  BY <1>1, SendIInvAlways, PTL

(* What SendMessage returns answers a part of its own text and of its last *)
(* attempt (smsc.go:288-310, 347-366).                                     *)
THEOREM ResultOfOwnAttemptAlways == SendSpec => []ResultOfOwnAttempt
<1>1. IInv => ResultOfOwnAttempt
  BY DEF IInv, ResultOfOwnAttempt
<1> QED
  BY <1>1, SendIInvAlways, PTL

----------------------------------------------------------------------------
(* The constants, with one life. *)
OneLife == ClientConstants /\ MaxStarts = 1

(* Places of wsConnect before the connection is stored, and of wsDisconnect. *)
Opening == {"enter", "token", "dial", "dialed"}
Undoing == {"take", "close", "wait"}

(* Which actor can be where, and that wsDisconnect knows where to return. *)
Walks ==
  /\ pc[0] \notin {"cas", "loop", "backoff", "retry", "end"}
  /\ pc[0] \in Undoing => ret[0] \in {"idle", "failed"}
  /\ \A r \in Restarters :
       /\ pc[r] \notin {"token0", "failed", "stopping"}
       /\ pc[r] \in Undoing => ret[r] \in {"backoff", "retry"}

(* The restart flag has one holder: the restarter past its compare-and-swap. *)
Busy(r) == pc[r] \notin {"idle", "cas"}

OneRestarter ==
  /\ restartFlag => \E r \in Restarters : Busy(r)
  /\ \A r \in Restarters : Busy(r) =>
       restartFlag /\ \A q \in Restarters : Busy(q) => q = r

(* Until the connect of Start has spawned the pumps nobody restarts.  *)
Alone ==
  starts = 0 \/ pc[0] \in Opening \cup {"token0", "spawn"} =>
    /\ \A r \in Restarters : pc[r] = "idle"
    /\ \A c \in Conns : rd[c] = <<"none", 0>> /\ wr[c] = <<"none", 0>>

(* Until then Start has stored no connection but its own. *)
FirstConnect ==
  /\ starts = 0 =>
       wsconn = 0 /\ ~started /\ pc[0] \in {"idle", "stopping", "take"} /\ ret[0] # "failed"
  /\ pc[0] \in Opening \cup {"token0"} => wsconn = 0
  /\ pc[0] \in Opening \cup {"token0", "spawn"} => ~stopped
  /\ pc[0] = "spawn" => wsconn = conn[0]

(* A restarter that has disconnected finds nothing stored until it stores  *)
(* its own connection, whose writer runs when the restart ends.            *)
RestartersOwn ==
  \A r \in Restarters :
    /\ pc[r] \in Opening \cup {"close", "wait", "backoff", "retry"} => wsconn = 0
    /\ pc[r] \in {"spawn", "auth", "end"} /\ ~stopped => wsconn \in {0, conn[r]}
    /\ pc[r] \in {"auth", "end"} /\ wsconn # 0 /\ ~stopped /\ ~parentDone =>
         wr[wsconn] \in {<<"begin", 0>>, <<"loop", wsconn>>}

(* Connections are numbered as they are dialled; one that is not stored    *)
(* yet has one owner and no pump.                                          *)
Dialled ==
  /\ wsconn <= dials /\ connsOpen \subseteq 1..dials
  /\ \A c \in Conns : wr[c][2] <= dials
  /\ \A a \in Actors :
       /\ conn[a] <= dials
       /\ pc[a] = "dialed" =>
            /\ conn[a] \notin {0, wsconn} /\ conn[a] \notin authed
            /\ \A c \in Conns : wr[c][2] # conn[a]
            /\ \A b \in Actors \ {a} : pc[b] = "dialed" => conn[b] # conn[a]

(* What holds however often the client is stopped and started again. *)
EveryLife == ClientConstants /\ TypeOK /\ NothingAfterStop /\ Walks /\ OneRestarter /\ Dialled

(* The inductive form of Inv. *)
ChatInv ==
  OneLife /\ Inv /\ Walks /\ OneRestarter /\ Alone /\ FirstConnect /\ RestartersOwn /\ Dialled

(* Every life keeps at least what all of them do. *)
LEMMA LifeOfChat == ChatInv => EveryLife
BY DEF ChatInv, EveryLife, Inv, OneLife

(* Nobody is anywhere before Start. *)
LEMMA EveryLifeInit == Init => EveryLife
<1> SUFFICES ASSUME Init PROVE EveryLife
  OBVIOUS
<1>1. TypeOK
  <2>1. /\ started \in BOOLEAN /\ connecting \in BOOLEAN /\ stopped \in BOOLEAN
        /\ restartFlag \in BOOLEAN /\ tokenValid \in BOOLEAN /\ panicked \in BOOLEAN
        /\ stopDone \in BOOLEAN /\ parentDone \in BOOLEAN /\ again \in [Actors -> BOOLEAN]
    BY Zenon DEF Init
  <2> QED
    BY <2>1, TcAssumption
    DEF Init, TypeOK, ClientConstants, Places, PumpPlaces, Actors,
        Conns, Lives, App, Restarters
<1>2. NothingAfterStop
  BY DEF Init, NothingAfterStop
<1>3. Dialled
  BY DEF Init, Dialled, Actors, Restarters, App, Conns
<1> QED
  BY <1>1, <1>2, <1>3, TcAssumption
  DEF EveryLife, Walks, OneRestarter, Busy, Undoing, Init, Actors, Restarters, App

LEMMA ChatInit == OneLife /\ Init => ChatInv
<1> SUFFICES ASSUME OneLife, Init PROVE ChatInv
  OBVIOUS
<1>1. TypeOK /\ NothingAfterStop /\ Walks /\ OneRestarter /\ Dialled
  BY EveryLifeInit DEF EveryLife
<1>2. Inv
  BY <1>1 DEF Init, Inv, ConnectionsOwned, Attended, App
<1> QED
  BY <1>1, <1>2
  DEF ChatInv, Alone, FirstConnect, RestartersOwn, Opening, Init, Actors, Restarters, App

(* The types, whoever steps. *)
LEMMA ChatTypes == ASSUME EveryLife, Next PROVE TypeOK'
<1> USE DEF Goto, Places, App, tcVars, ctxVars, actorVars,
            pumpVars, otherVars, netVars, Fault, TokenRefused
<1> DEFINE Flags ==
             /\ started \in BOOLEAN /\ connecting \in BOOLEAN /\ stopped \in BOOLEAN
             /\ restartFlag \in BOOLEAN /\ tokenValid \in BOOLEAN /\ panicked \in BOOLEAN
             /\ stopDone \in BOOLEAN /\ parentDone \in BOOLEAN
           Data ==
             /\ wsconn \in Conns \cup {0}
             /\ pc \in [Actors -> Places]
             /\ ret \in [Actors -> {"none", "idle", "failed", "retry", "backoff"}]
             /\ conn \in [Actors -> Conns \cup {0}] /\ again \in [Actors -> BOOLEAN]
             /\ rd \in [Conns -> PumpPlaces] /\ wr \in [Conns -> PumpPlaces]
             /\ refresh \in [Lives -> {"none", "top", "sleep", "done"}]
             /\ starts \in 0..MaxStarts /\ sender \in {"idle", "push"} /\ msgs \in 0..MaxMsgs
             /\ wsMsg \in Seq({"auth", "user"}) /\ Len(wsMsg) <= QueueSize
             /\ dials \in 0..MaxDials /\ connsOpen \in SUBSET Conns
             /\ authed \in SUBSET connsOpen
             /\ faults \in 0..MaxFaults
<1>0. /\ Flags /\ Data /\ TypeOK /\ Walks /\ Actors = {0} \cup Restarters
      /\ 0 \in Actors /\ Restarters \subseteq Actors /\ 0 \notin Restarters
      /\ Conns = 1..MaxDials /\ Lives = 1..MaxStarts /\ MaxStarts \in Nat
      /\ MaxDials \in Nat /\ QueueSize \in Nat /\ MaxMsgs \in Nat /\ MaxFaults \in Nat
  BY DEF EveryLife, TypeOK, ClientConstants, Actors, Restarters, Conns, Lives
<1>7. ASSUME SpawnRestart \/ Spawn PROVE pc' \in [Actors -> Places]
  <2>1. UNCHANGED pc \/ \E r \in Restarters : pc' = [pc EXCEPT ![r] = "cas"]
    BY <1>7 DEF SpawnRestart, Spawn, Idle
  <2> QED
    BY <1>0, <2>1
<1>8. Done \in PumpPlaces
  BY DEF PumpPlaces, Done
<1>1. CASE StartBegin \/ StopBegin \/ AppStep
  <2>1. CASE StartBegin
    <3>1. Flags'
      BY <1>0, <2>1, Zenon DEF StartBegin
    <3>2. Data'
      BY <1>0, <2>1 DEF StartBegin
    <3> QED
      BY <3>1, <3>2 DEF TypeOK
  <2>2. CASE StopBegin
    BY <1>0, <2>2, ZenonT(40) DEF TypeOK, StopBegin
  <2>3. CASE StartToken
    <3>1. Flags'
      BY <1>0, <2>3, Zenon DEF StartToken
    <3>2. /\ refresh' \in [Lives -> {"none", "top", "sleep", "done"}]
          /\ pc' \in [Actors -> Places]
      BY <1>0, <2>3 DEF StartToken
    <3>3. /\ faults' \in 0..MaxFaults
          /\ UNCHANGED <<wsconn, ret, conn, again, rd, wr, starts, sender, msgs, wsMsg,
                         dials, connsOpen, authed>>
      BY <1>0, <2>3 DEF StartToken
    <3> HIDE DEF Places
    <3>4. Data'
      BY <1>0, <3>2, <3>3
    <3> QED
      BY <3>1, <3>4 DEF TypeOK
  <2>4. CASE StartFailed
    BY <1>0, <2>4, ZenonT(40) DEF TypeOK, StartFailed
  <2>5. CASE StopFlag
    BY <1>0, <2>5 DEF TypeOK, StopFlag
  <2> QED
    BY <1>1, <2>1, <2>2, <2>3, <2>4, <2>5 DEF AppStep
<1>2. ASSUME NEW a \in Actors, ConnectStep(a) PROVE TypeOK'
  <2>1. CASE DisconnectTake(a)
    <3>1. Flags'
      BY <1>0, <2>1, Zenon DEF DisconnectTake
    <3>2. pc' \in [Actors -> Places] /\ conn' \in [Actors -> Conns \cup {0}]
      <4>1. ret[a] \in Places /\ "close" \in Places
        BY <1>0, <2>1 DEF Walks, Undoing, DisconnectTake
      <4> HIDE DEF Places
      <4> QED
        BY <1>0, <2>1, <4>1 DEF DisconnectTake
    <3>3. Data'
      BY <1>0, <2>1, <3>2 DEF DisconnectTake
    <3> QED
      BY <3>1, <3>3 DEF TypeOK
  <2>2. CASE DisconnectClose(a)
    <3>1. Flags'
      BY <1>0, <2>2, Zenon DEF DisconnectClose
    <3>2. Data'
      BY <1>0, <2>2 DEF DisconnectClose
    <3> QED
      BY <3>1, <3>2 DEF TypeOK
  <2>3. CASE DisconnectWait(a)
    BY <1>0, <2>3 DEF TypeOK, DisconnectWait, Walks, Undoing
  <2>4. CASE ConnectEnter(a)
    <3>1. Flags'
      BY <1>0, <2>4, Zenon DEF ConnectEnter, OnError
    <3>2. Data'
      BY <1>0, <2>4 DEF ConnectEnter, OnError
    <3> QED
      BY <3>1, <3>2 DEF TypeOK
  <2>5. CASE ConnectToken(a)
    <3>1. Flags'
      BY <1>0, <2>5, Zenon DEF ConnectToken, OnError
    <3>2. Data'
      <4>1. pc' \in [Actors -> Places]
        BY <1>0, <2>5 DEF ConnectToken, OnError
      <4> HIDE DEF Places
      <4> QED
        BY <1>0, <2>5, <4>1 DEF ConnectToken
    <3> QED
      BY <3>1, <3>2 DEF TypeOK
  <2>6. CASE ConnectDial(a)
    <3>1. Flags'
      BY <1>0, <2>6, Zenon DEF ConnectDial, OnError
    <3>2. Data'
      <4>1. pc' \in [Actors -> Places]
        BY <1>0, <2>6 DEF ConnectDial, OnError
      <4>2. \/ /\ dials + 1 \in Conns /\ dials' = dials + 1
               /\ connsOpen' = connsOpen \cup {dials + 1} /\ conn' = [conn EXCEPT ![a] = dials + 1]
            \/ UNCHANGED <<dials, connsOpen, conn>>
        BY <1>0, <2>6 DEF ConnectDial
      <4>3. /\ dials' \in 0..MaxDials /\ connsOpen' \in SUBSET Conns
            /\ connsOpen \subseteq connsOpen' /\ conn' \in [Actors -> Conns \cup {0}]
        <5>1. CASE UNCHANGED <<dials, connsOpen, conn>>
          BY <1>0, <5>1
        <5>2. CASE /\ dials + 1 \in Conns /\ dials' = dials + 1
                   /\ connsOpen' = connsOpen \cup {dials + 1}
                   /\ conn' = [conn EXCEPT ![a] = dials + 1]
          BY <1>0, <5>2
        <5> QED
          BY <4>2, <5>1, <5>2
      <4> QED
        BY <1>0, <2>6, <4>1, <4>3 DEF ConnectDial
    <3> QED
      BY <3>1, <3>2 DEF TypeOK
  <2>7. CASE ConnectDialed(a)
    <3>1. Flags'
      BY <1>0, <2>7, Zenon DEF ConnectDialed, OnError
    <3>2. Data'
      <4>1. conn[a] \in Conns \cup {0} /\ conn[a] \notin authed
        BY <1>0, <2>7 DEF EveryLife, Dialled, ConnectDialed, OnError
      <4>2. pc' \in [Actors -> Places]
        BY <1>0, <2>7 DEF ConnectDialed, OnError
      <4>3. /\ connsOpen' \in SUBSET Conns /\ authed' \in SUBSET connsOpen'
            /\ conn' \in [Actors -> Conns \cup {0}] /\ wsconn' \in Conns \cup {0}
        BY <1>0, <2>7, <4>1 DEF ConnectDialed, OnError
      <4> QED
        BY <1>0, <2>7, <4>2, <4>3 DEF ConnectDialed, OnError
    <3> QED
      BY <3>1, <3>2 DEF TypeOK
  <2>8. CASE ConnectSpawn(a)
    <3>1. Flags'
      BY <1>0, <2>8, Zenon DEF ConnectSpawn
    <3>2. <<"begin", 0>> \in PumpPlaces
      BY DEF PumpPlaces
    <3>3. Data'
      BY <1>0, <2>8, <3>2 DEF ConnectSpawn
    <3> QED
      BY <3>1, <3>3 DEF TypeOK
  <2>9. CASE ConnectAuth(a)
    <3>1. Flags'
      BY <1>0, <2>9, Zenon DEF ConnectAuth, OnError, OnSuccess, HasRoom
    <3>2. Data'
      <4>1. pc' \in [Actors -> Places]
        BY <1>0, <2>9 DEF ConnectAuth, OnError, OnSuccess, HasRoom
      <4>2. wsMsg' \in Seq({"auth", "user"}) /\ Len(wsMsg') <= QueueSize
        <5>1. UNCHANGED wsMsg \/ (Len(wsMsg) < QueueSize /\ wsMsg' = Append(wsMsg, "auth"))
          BY <2>9 DEF ConnectAuth, HasRoom
        <5>2. CASE UNCHANGED wsMsg
          BY <1>0, <5>2
        <5>3. CASE Len(wsMsg) < QueueSize /\ wsMsg' = Append(wsMsg, "auth")
          <6>1. /\ wsMsg' \in Seq({"auth", "user"}) /\ Len(wsMsg') = Len(wsMsg) + 1
                /\ Len(wsMsg) \in Nat
            BY <1>0, <5>3
          <6> QED
            BY <1>0, <5>3, <6>1
        <5> QED
          BY <5>1, <5>2, <5>3
      <4>3. /\ ret' \in [Actors -> {"none", "idle", "failed", "retry", "backoff"}]
            /\ conn' \in [Actors -> Conns \cup {0}]
        BY <1>0, <2>9 DEF ConnectAuth, OnError, OnSuccess, HasRoom
      <4> QED
        BY <1>0, <2>9, <4>1, <4>2, <4>3 DEF ConnectAuth, OnError, OnSuccess, HasRoom
    <3> QED
      BY <3>1, <3>2 DEF TypeOK
  <2> QED
    BY <1>2, <2>1, <2>2, <2>3, <2>4, <2>5, <2>6, <2>7, <2>8, <2>9 DEF ConnectStep
<1>3. ASSUME NEW r \in Restarters, RestartStep(r) PROVE TypeOK'
  <2>1. CASE RestartCAS(r)
    <3>1. Flags'
      BY <1>0, <2>1, Zenon DEF RestartCAS
    <3>2. Data'
      BY <1>0, <2>1 DEF RestartCAS
    <3> QED
      BY <3>1, <3>2 DEF TypeOK
  <2>2. CASE RestartLoop(r)
    <3>1. Flags'
      BY <1>0, <2>2, Zenon DEF RestartLoop
    <3>2. Data'
      BY <1>0, <2>2, ZenonT(40) DEF RestartLoop
    <3> QED
      BY <3>1, <3>2 DEF TypeOK
  <2>3. CASE RestartBackoff(r)
    <3>1. pc' \in [Actors -> Places] /\ again' \in [Actors -> BOOLEAN]
      BY <1>0, <2>3 DEF RestartBackoff
    <3>2. Flags' /\ UNCHANGED <<wsconn, ret, conn, rd, wr, refresh, starts, sender, msgs,
                               wsMsg, dials, connsOpen, authed, faults>>
      BY <1>0, <2>3 DEF RestartBackoff
    <3> HIDE DEF Places
    <3>3. Data'
      BY <1>0, <3>1, <3>2
    <3> QED
      BY <3>2, <3>3 DEF TypeOK
  <2>4. CASE RestartRetry(r)
    BY <1>0, <2>4 DEF TypeOK, RestartRetry
  <2>5. CASE RestartEnd(r)
    BY <1>0, <2>5, ZenonT(40) DEF TypeOK, RestartEnd
  <2> QED
    BY <1>3, <2>1, <2>2, <2>3, <2>4, <2>5 DEF RestartStep
<1>4. ASSUME NEW c \in Conns,
             \/ ReadStep(c) \/ WriteStep(c) \/ ReadErrorCode(c) \/ ServerDrop(c)
      PROVE  TypeOK'
  <2>1. CASE ReadBegin(c)
    BY <1>0, <2>1 DEF TypeOK, ReadBegin, PumpPlaces, Done
  <2>2. CASE ReadFails(c)
    <3>1. Flags'
      BY <1>0, <2>2, Zenon DEF ReadFails
    <3>2. Data'
      BY <1>0, <1>7, <1>8, <2>2 DEF ReadFails
    <3> QED
      BY <3>1, <3>2 DEF TypeOK
  <2>3. CASE WriteBegin(c)
    <3>1. <<"loop", wsconn>> \in PumpPlaces
      BY <1>0 DEF PumpPlaces
    <3>2. wr' \in [Conns -> PumpPlaces]
      BY <1>0, <1>8, <2>3, <3>1 DEF WriteBegin
    <3> HIDE DEF Places
    <3> QED
      BY <1>0, <2>3, <3>2, ZenonT(40) DEF TypeOK, WriteBegin
  <2>4. CASE WriteDone(c)
    BY <1>0, <2>4 DEF TypeOK, WriteDone, PumpPlaces, Done
  <2>5. CASE WritePing(c)
    <3>1. Flags'
      BY <1>0, <2>5, Zenon DEF WritePing, WriteFails
    <3>2. Data'
      BY <1>0, <1>7, <1>8, <2>5 DEF WritePing, WriteFails
    <3> QED
      BY <3>1, <3>2 DEF TypeOK
  <2>6. CASE WriteMsg(c)
    <3>1. Flags'
      BY <1>0, <2>6, Zenon
      DEF WriteMsg, WriteFails, PumpPlaces, Done, SpawnRestart, Spawn, Idle
    <3>2. Data'
      <4>1. wsMsg' \in Seq({"auth", "user"}) /\ Len(wsMsg') <= QueueSize
        BY <1>0, <2>6 DEF WriteMsg
      <4>2. authed' \in SUBSET connsOpen
        <5>1. \/ authed' = authed
              \/ wr[c][2] \in connsOpen /\ authed' = authed \cup {wr[c][2]}
          BY <2>6 DEF WriteMsg
        <5> QED
          BY <1>0, <5>1
      <4>3. UNCHANGED wr \/ wr' = [wr EXCEPT ![c] = Done]
        BY <2>6 DEF WriteMsg, WriteFails
      <4>4. wr' \in [Conns -> PumpPlaces]
        BY <1>0, <1>8, <4>3
      <4>5. pc' \in [Actors -> Places]
        BY <1>0, <1>7, <2>6 DEF WriteMsg, WriteFails
      <4> QED
        BY <1>0, <2>6, <4>1, <4>2, <4>4, <4>5 DEF WriteMsg
    <3> QED
      BY <3>1, <3>2 DEF TypeOK
  <2>7. CASE ReadErrorCode(c)
    <3>1. Flags'
      BY <1>0, <2>7, Zenon DEF ReadErrorCode
    <3>2. Data'
      BY <1>0, <1>7, <2>7 DEF ReadErrorCode
    <3> QED
      BY <3>1, <3>2 DEF TypeOK
  <2>8. CASE ServerDrop(c)
    BY <1>0, <2>8 DEF TypeOK, ServerDrop
  <2> QED
    BY <1>4, <2>1, <2>2, <2>3, <2>4, <2>5, <2>6, <2>7, <2>8 DEF ReadStep, WriteStep
<1>5. CASE SendBegin \/ SendPush \/ ForceRestart \/ ParentCancel \/ TokenExpires
  <2>1. CASE SendBegin
    BY <1>0, <2>1 DEF TypeOK, SendBegin
  <2>2. CASE SendPush
    BY <1>0, <2>2 DEF TypeOK, SendPush, HasRoom
  <2>3. CASE ForceRestart
    <3>1. Flags'
      BY <1>0, <2>3, Zenon DEF ForceRestart
    <3>2. Data'
      BY <1>0, <1>7, <2>3 DEF ForceRestart
    <3> QED
      BY <3>1, <3>2 DEF TypeOK
  <2>4. CASE ParentCancel
    BY <1>0, <2>4 DEF TypeOK, ParentCancel
  <2>5. CASE TokenExpires
    <3>1. Flags'
      BY <1>0, <2>5, Zenon DEF TokenExpires
    <3>2. Data'
      BY <1>0, <2>5 DEF TokenExpires
    <3> QED
      BY <3>1, <3>2 DEF TypeOK
  <2> QED
    BY <1>5, <2>1, <2>2, <2>3, <2>4, <2>5
<1>6. ASSUME NEW t \in Lives, RefreshStep(t) PROVE TypeOK'
  <2>1. CASE RefreshTop(t)
    BY <1>0, <2>1 DEF TypeOK, RefreshTop
  <2>2. CASE RefreshWake(t)
    <3>1. Flags'
      BY <1>0, <2>2, Zenon DEF RefreshWake
    <3>2. Data'
      BY <1>0, <2>2 DEF RefreshWake
    <3> QED
      BY <3>1, <3>2 DEF TypeOK
  <2>3. CASE RefreshStop(t)
    BY <1>0, <2>3 DEF TypeOK, RefreshStop
  <2> QED
    BY <1>6, <2>1, <2>2, <2>3 DEF RefreshStep
<1> QED
  BY <1>1, <1>2, <1>3, <1>4, <1>5, <1>6 DEF Next

(* The steps that move the connection, and those that do not. *)
Moves ==
  \/ StartBegin \/ StopBegin \/ AppStep \/ ForceRestart \/ ParentCancel
  \/ \E a \in Actors : ConnectStep(a)
  \/ \E r \in Restarters : RestartStep(r)
  \/ \E c \in Conns :
       ReadStep(c) \/ WriteStep(c) \/ ReadErrorCode(c) \/ ServerDrop(c)
Quiet ==
  \/ SendBegin \/ SendPush \/ TokenExpires
  \/ \E t \in Lives : RefreshStep(t)

USE DEF Goto, App, tcVars, ctxVars, actorVars, pumpVars, otherVars,
        netVars, Fault, TokenRefused, Opening, Undoing

(* Facts that the lemmas below share. *)
Facts ==
  /\ ClientConstants /\ Actors = {0} \cup Restarters /\ 0 \in Actors
  /\ Restarters \subseteq Actors /\ 0 \notin Restarters /\ Conns = 1..MaxDials
  /\ MaxDials \in Nat /\ MaxStarts \in Nat /\ dials \in Nat /\ starts \in Nat
  /\ wsconn \in Conns \cup {0} /\ connsOpen \subseteq Conns /\ authed \subseteq connsOpen
  /\ pc \in [Actors -> Places] /\ conn \in [Actors -> Conns \cup {0}]
  /\ ret \in [Actors -> {"none", "idle", "failed", "retry", "backoff"}]
  /\ rd \in [Conns -> PumpPlaces] /\ wr \in [Conns -> PumpPlaces]

(* They follow from the invariant. *)
LEMMA LifeFacts == ASSUME EveryLife PROVE Facts
BY DEF Facts, EveryLife, ClientConstants, Actors, Restarters, Conns, TypeOK

LEMMA ChatFacts == ASSUME ChatInv PROVE Facts /\ MaxStarts = 1
BY LifeOfChat, LifeFacts DEF ChatInv, OneLife

USE DEF Facts

(* Who finds a connection lost starts a restart, or finds one under way, or *)
(* the client stopped.                                                      *)
LEMMA SpawnStep ==
  ASSUME ChatInv, SpawnRestart PROVE stopped \/ \E r \in Restarters : pc'[r] # "idle"
<1>1. CASE stopped \/ restartFlag
  BY <1>1 DEF ChatInv, OneRestarter, Busy, SpawnRestart
<1>2. CASE ~(stopped \/ restartFlag)
  <2>1. PICK r \in Idle : Goto(r, "cas")
    BY <1>2 DEF SpawnRestart, Spawn
  <2>2. r \in Restarters /\ r \in Actors
    BY DEF Idle, Actors
  <2> QED
    BY <2>1, <2>2 DEF Goto, ChatInv, Inv, TypeOK
<1> QED
  BY <1>1, <1>2

(* The connection a writer has is a number. *)
LEMMA WrNat == ASSUME Facts, NEW c \in Conns PROVE wr[c][2] \in Nat
BY DEF PumpPlaces

(* A connection is stored only by who has read the flag, before Stop set it. *)
LEMMA KeepsNothingAfterStop == ASSUME EveryLife, Moves PROVE NothingAfterStop'
<1>0. Facts /\ NothingAfterStop
  BY LifeFacts DEF EveryLife
<1>1. ASSUME \/ StartBegin \/ StopBegin \/ StartToken \/ StartFailed
             \/ StopFlag
      PROVE  NothingAfterStop'
  BY <1>0, <1>1
  DEF StartBegin, StopBegin, StartToken, StartFailed, StopFlag, NothingAfterStop
<1>2. ASSUME NEW a \in Actors,
             \/ DisconnectTake(a) \/ DisconnectClose(a) \/ DisconnectWait(a)
      PROVE  NothingAfterStop'
  BY <1>0, <1>2 DEF DisconnectTake, DisconnectClose, DisconnectWait, NothingAfterStop
<1>3. ASSUME NEW a \in Actors,
             \/ ConnectEnter(a) \/ ConnectToken(a) \/ ConnectDial(a)
             \/ ConnectDialed(a) \/ ConnectSpawn(a) \/ ConnectAuth(a)
      PROVE  NothingAfterStop'
  BY <1>0, <1>3
  DEF ConnectEnter, OnError, ConnectToken, ConnectDial, ConnectDialed,
      ConnectSpawn, ConnectAuth, OnSuccess, NothingAfterStop
<1>4. ASSUME NEW r \in Restarters,
             \/ RestartCAS(r) \/ RestartLoop(r) \/ RestartBackoff(r)
             \/ RestartRetry(r) \/ RestartEnd(r)
      PROVE  NothingAfterStop'
  BY <1>0, <1>4
  DEF RestartCAS, RestartLoop, RestartBackoff, RestartRetry, RestartEnd,
      NothingAfterStop
<1>5. ASSUME NEW c \in Conns,
             \/ ReadFails(c) \/ ReadErrorCode(c) \/ WriteBegin(c)
             \/ WriteDone(c) \/ WritePing(c) \/ WriteMsg(c) \/ ReadBegin(c)
             \/ ServerDrop(c)
      PROVE  NothingAfterStop'
  BY <1>0, <1>5
  DEF ReadFails, Done, SpawnRestart, Spawn, Idle, ReadErrorCode, WriteBegin,
      WriteDone, CtxDone, WritePing, WriteFails, WriteMsg, ReadBegin,
      ServerDrop, NothingAfterStop
<1>6. ASSUME ForceRestart \/ ParentCancel PROVE NothingAfterStop'
  BY <1>0, <1>6
  DEF ForceRestart, SpawnRestart, Spawn, Idle, ParentCancel, NothingAfterStop
<1> QED
  BY <1>1, <1>2, <1>3, <1>4, <1>5, <1>6
  DEF Moves, AppStep, ConnectStep, RestartStep, ReadStep, WriteStep

(* A connection goes from its dialler to wsconn, from there to its closer. *)
LEMMA KeepsConnectionsOwned == ASSUME ChatInv, Moves PROVE ConnectionsOwned'
<1>0. Facts /\ MaxStarts = 1 /\ FirstConnect /\ RestartersOwn
  BY ChatFacts DEF ChatInv, Inv
<1>10. ConnectionsOwned /\ 0 \notin connsOpen
  BY <1>0 DEF ChatInv, Inv
<1> DEFINE Kept ==
             /\ wsconn' = wsconn /\ connsOpen' \subseteq connsOpen
             /\ \A b \in Actors :
                  pc[b] \in {"dialed", "close"} => pc'[b] = pc[b] /\ conn'[b] = conn[b]
<1>1. ASSUME \/ StartBegin \/ StopBegin \/ StartToken \/ StartFailed
             \/ StopFlag
      PROVE  Kept
  BY <1>0, <1>1 DEF StartBegin, StopBegin, StartToken, StartFailed, StopFlag
<1>2. ASSUME NEW a \in Actors, DisconnectTake(a) PROVE ConnectionsOwned'
  <2>1. /\ UNCHANGED connsOpen /\ (wsconn = 0 \/ (pc'[a] = "close" /\ conn'[a] = wsconn))
        /\ pc[a] = "take" /\ \A b \in Actors : b # a => pc'[b] = pc[b] /\ conn'[b] = conn[b]
    BY <1>0, <1>2 DEF DisconnectTake
  <2> QED
    BY <1>10, <2>1 DEF ConnectionsOwned
<1>3. ASSUME NEW a \in Actors, DisconnectClose(a) PROVE ConnectionsOwned'
  BY <1>0, <1>3, <1>10 DEF DisconnectClose, ConnectionsOwned
<1>4. ASSUME NEW a \in Actors,
             \/ DisconnectWait(a) \/ ConnectEnter(a) \/ ConnectToken(a)
             \/ ConnectSpawn(a) \/ ConnectAuth(a)
      PROVE  Kept
  BY <1>0, <1>4
  DEF DisconnectWait, ConnectEnter, OnError, ConnectToken, ConnectSpawn,
      ConnectAuth, OnSuccess
<1>5. ASSUME NEW a \in Actors, ConnectDial(a) PROVE ConnectionsOwned'
  <2>1. /\ UNCHANGED wsconn /\ pc[a] = "dial"
        /\ \A b \in Actors : b # a => pc'[b] = pc[b] /\ conn'[b] = conn[b]
        /\ \/ UNCHANGED connsOpen
           \/ connsOpen' = connsOpen \cup {dials'} /\ pc'[a] = "dialed" /\ conn'[a] = dials'
    BY <1>0, <1>5 DEF ConnectDial
  <2> QED
    BY <1>10, <2>1 DEF ConnectionsOwned
<1>6. ASSUME NEW a \in Actors, ConnectDialed(a) PROVE ConnectionsOwned'
  <2>1. wsconn = 0 /\ pc[a] = "dialed"
    BY <1>0, <1>6 DEF ConnectDialed, FirstConnect, RestartersOwn
  <2>2. /\ \A b \in Actors : b # a => pc'[b] = pc[b] /\ conn'[b] = conn[b]
        /\ \/ connsOpen' = connsOpen \ {conn[a]} /\ UNCHANGED wsconn
           \/ UNCHANGED connsOpen /\ wsconn' = conn[a]
    BY <1>0, <1>6 DEF ConnectDialed
  <2> QED
    BY <1>10, <2>1, <2>2 DEF ConnectionsOwned
<1>7. ASSUME NEW r \in Restarters,
             \/ RestartCAS(r) \/ RestartLoop(r) \/ RestartBackoff(r)
             \/ RestartRetry(r) \/ RestartEnd(r)
      PROVE  Kept
  BY <1>0, <1>7 DEF RestartCAS, RestartLoop, RestartBackoff, RestartRetry, RestartEnd
<1>8. ASSUME NEW c \in Conns,
             \/ ReadFails(c) \/ ReadErrorCode(c) \/ WriteBegin(c)
             \/ WriteDone(c) \/ WritePing(c) \/ WriteMsg(c) \/ ReadBegin(c)
             \/ ServerDrop(c)
      PROVE  Kept
  BY <1>0, <1>8
  DEF ReadFails, Done, SpawnRestart, Spawn, Idle, ReadErrorCode, WriteBegin,
      WriteDone, CtxDone, WritePing, WriteFails, WriteMsg, ReadBegin,
      ServerDrop
<1>9. ASSUME ForceRestart \/ ParentCancel PROVE Kept
  BY <1>0, <1>9 DEF ForceRestart, SpawnRestart, Spawn, Idle, ParentCancel
<1> QED
  <2>1. CASE Kept
    BY <1>10, <2>1 DEF ConnectionsOwned
  <2> QED
    BY <2>1, <1>1, <1>2, <1>3, <1>4, <1>5, <1>6, <1>7, <1>8, <1>9
    DEF Moves, AppStep, ConnectStep, RestartStep, ReadStep, WriteStep

(* Who stops watching the connection has started a restart, or is one. *)
LEMMA KeepsAttended == ASSUME ChatInv, Moves PROVE Attended'
<1>0. Facts /\ MaxStarts = 1 /\ Attended /\ Walks /\ OneRestarter /\ FirstConnect /\ RestartersOwn
  BY ChatFacts DEF ChatInv, Inv
<1>1. ASSUME \/ StartBegin \/ StopBegin \/ StartToken \/ StartFailed
             \/ StopFlag
      PROVE  Attended'
  <2>1. CASE StartBegin
    BY <1>0, <2>1 DEF StartBegin, Attended, FirstConnect
  <2>2. CASE StopBegin
    BY <1>0, <2>2 DEF StopBegin, Attended
  <2>3. CASE StartToken
    BY <1>0, <2>3 DEF StartToken, Attended
  <2>4. CASE StartFailed
    BY <1>0, <2>4 DEF StartFailed, Attended
  <2>5. CASE StopFlag
    BY <1>0, <2>5 DEF StopFlag, Attended
  <2> QED
    BY <1>1, <2>1, <2>2, <2>3, <2>4, <2>5
<1>2. ASSUME NEW a \in Actors,
             \/ DisconnectTake(a) \/ DisconnectClose(a) \/ DisconnectWait(a)
      PROVE  Attended'
  <2>1. CASE DisconnectTake(a)
    BY <1>0, <2>1 DEF DisconnectTake, Attended, Walks
  <2>2. CASE DisconnectClose(a)
    BY <1>0, <2>2 DEF DisconnectClose, Attended, Walks
  <2>3. CASE DisconnectWait(a)
    BY <1>0, <2>3 DEF DisconnectWait, Attended, Walks
  <2> QED
    BY <1>2, <2>1, <2>2, <2>3
<1>3. ASSUME NEW a \in Actors,
             \/ ConnectEnter(a) \/ ConnectToken(a) \/ ConnectDial(a)
             \/ ConnectDialed(a) \/ ConnectSpawn(a) \/ ConnectAuth(a)
      PROVE  Attended'
  <2>1. CASE ConnectEnter(a)
    BY <1>0, <2>1 DEF ConnectEnter, OnError, Attended
  <2>2. CASE ConnectToken(a)
    BY <1>0, <2>2 DEF ConnectToken, OnError, Attended
  <2>3. CASE ConnectDial(a)
    BY <1>0, <2>3 DEF ConnectDial, OnError, Attended
  <2>4. CASE ConnectDialed(a)
    BY <1>0, <2>4 DEF ConnectDialed, OnError, Attended
  <2>5. CASE ConnectSpawn(a)
    BY <1>0, <2>5 DEF ConnectSpawn, Attended, FirstConnect
  <2>6. CASE ConnectAuth(a)
    BY <1>0, <2>6 DEF ConnectAuth, OnError, OnSuccess, Attended
  <2> QED
    BY <1>3, <2>1, <2>2, <2>3, <2>4, <2>5, <2>6
<1>4. ASSUME NEW r \in Restarters,
             \/ RestartCAS(r) \/ RestartLoop(r) \/ RestartBackoff(r)
             \/ RestartRetry(r) \/ RestartEnd(r)
      PROVE  Attended'
  BY <1>0, <1>4
  DEF RestartCAS, RestartLoop, RestartBackoff, RestartRetry, RestartEnd,
      Attended, OneRestarter, RestartersOwn, Busy
<1>5. ASSUME NEW c \in Conns,
             \/ ReadFails(c) \/ ReadErrorCode(c) \/ WriteBegin(c)
             \/ WriteDone(c) \/ WritePing(c) \/ WriteMsg(c) \/ ReadBegin(c)
             \/ ServerDrop(c)
      PROVE  Attended'
  <2>1. CASE ReadFails(c)
    <3>1. SpawnRestart
      BY <2>1 DEF ReadFails
    <3> QED
      BY <1>0, <2>1, <3>1, SpawnStep DEF ReadFails, Attended
  <2>2. CASE ReadErrorCode(c)
    <3>1. SpawnRestart
      BY <2>2 DEF ReadErrorCode
    <3> QED
      BY <1>0, <2>2, <3>1, SpawnStep DEF ReadErrorCode, Attended
  <2>3. CASE WriteBegin(c)
    BY <1>0, <2>3 DEF WriteBegin, Attended
  <2>4. CASE WriteDone(c)
    BY <1>0, <2>4 DEF WriteDone, CtxDone, Done, Attended
  <2>5. CASE WritePing(c)
    <3>1. SpawnRestart
      BY <2>5 DEF WritePing, WriteFails
    <3> QED
      BY <1>0, <2>5, <3>1, SpawnStep DEF WritePing, Attended
  <2>6. CASE WriteMsg(c)
    <3>1. SpawnRestart \/ UNCHANGED <<wr, pc>>
      BY <2>6 DEF WriteMsg, WriteFails
    <3>2. UNCHANGED <<wsconn, stopped, parentDone>>
      BY <2>6 DEF WriteMsg
    <3> QED
      BY <1>0, <3>1, <3>2, SpawnStep DEF Attended
  <2>7. CASE ReadBegin(c)
    BY <1>0, <2>7 DEF ReadBegin, Done, Attended
  <2>8. CASE ServerDrop(c)
    BY <1>0, <2>8 DEF ServerDrop, Attended
  <2> QED
    BY <1>5, <2>1, <2>2, <2>3, <2>4, <2>5, <2>6, <2>7, <2>8
<1>6. ASSUME ForceRestart \/ ParentCancel PROVE Attended'
  BY <1>0, <1>6
  DEF ForceRestart, SpawnRestart, Spawn, Idle, ParentCancel, Attended
<1> QED
  BY <1>1, <1>2, <1>3, <1>4, <1>5, <1>6
  DEF Moves, AppStep, ConnectStep, RestartStep, ReadStep, WriteStep

(* Each actor stays on its own paths. *)
LEMMA KeepsWalks == ASSUME EveryLife, Moves PROVE Walks'
<1>0. Facts /\ Walks
  BY LifeFacts DEF EveryLife
<1>1. ASSUME \/ StartBegin \/ StopBegin \/ StartToken \/ StartFailed
             \/ StopFlag
      PROVE  Walks'
  BY <1>0, <1>1 DEF StartBegin, StopBegin, StartToken, StartFailed, StopFlag, Walks
<1>2. ASSUME NEW a \in Actors,
             \/ DisconnectTake(a) \/ DisconnectClose(a) \/ DisconnectWait(a)
      PROVE  Walks'
  <2>1. CASE DisconnectTake(a)
    BY <1>0, <2>1 DEF DisconnectTake, Walks
  <2>2. CASE DisconnectClose(a)
    BY <1>0, <2>2 DEF DisconnectClose, Walks
  <2>3. CASE DisconnectWait(a)
    BY <1>0, <2>3 DEF DisconnectWait, Walks
  <2> QED
    BY <1>2, <2>1, <2>2, <2>3
<1>3. ASSUME NEW a \in Actors,
             \/ ConnectEnter(a) \/ ConnectToken(a) \/ ConnectDial(a)
             \/ ConnectDialed(a) \/ ConnectSpawn(a) \/ ConnectAuth(a)
      PROVE  Walks'
  BY <1>0, <1>3
  DEF ConnectEnter, OnError, ConnectToken, ConnectDial, ConnectDialed,
      ConnectSpawn, ConnectAuth, OnSuccess, Walks
<1>4. ASSUME NEW r \in Restarters,
             \/ RestartCAS(r) \/ RestartLoop(r) \/ RestartBackoff(r)
             \/ RestartRetry(r) \/ RestartEnd(r)
      PROVE  Walks'
  BY <1>0, <1>4
  DEF RestartCAS, RestartLoop, RestartBackoff, RestartRetry, RestartEnd, Walks
<1>5. ASSUME NEW c \in Conns,
             \/ ReadFails(c) \/ ReadErrorCode(c) \/ WriteBegin(c)
             \/ WriteDone(c) \/ WritePing(c) \/ WriteMsg(c) \/ ReadBegin(c)
             \/ ServerDrop(c)
      PROVE  Walks'
  <2>1. CASE ReadFails(c)
    BY <1>0, <2>1 DEF ReadFails, Done, SpawnRestart, Spawn, Idle, Walks
  <2>2. CASE ReadErrorCode(c)
    BY <1>0, <2>2 DEF ReadErrorCode, SpawnRestart, Spawn, Idle, Walks
  <2>3. CASE WriteBegin(c)
    BY <1>0, <2>3 DEF WriteBegin, Walks
  <2>4. CASE WriteDone(c)
    BY <1>0, <2>4 DEF WriteDone, CtxDone, Done, Walks
  <2>5. CASE WritePing(c)
    BY <1>0, <2>5
    DEF WritePing, WriteFails, Done, SpawnRestart, Spawn, Idle, Walks
  <2>6. CASE WriteMsg(c)
    BY <1>0, <2>6 DEF WriteMsg, WriteFails, Done, SpawnRestart, Spawn, Idle, Walks
  <2>7. CASE ReadBegin(c)
    BY <1>0, <2>7 DEF ReadBegin, Done, Walks
  <2>8. CASE ServerDrop(c)
    BY <1>0, <2>8 DEF ServerDrop, Walks
  <2> QED
    BY <1>5, <2>1, <2>2, <2>3, <2>4, <2>5, <2>6, <2>7, <2>8
<1>6. ASSUME ForceRestart \/ ParentCancel PROVE Walks'
  BY <1>0, <1>6 DEF ForceRestart, SpawnRestart, Spawn, Idle, ParentCancel, Walks
<1> QED
  BY <1>1, <1>2, <1>3, <1>4, <1>5, <1>6
  DEF Moves, AppStep, ConnectStep, RestartStep, ReadStep, WriteStep

(* Only the compare-and-swap and the end of a restart make or unmake a holder. *)
LEMMA KeepsOneRestarter == ASSUME EveryLife, Moves PROVE OneRestarter'
<1>0. Facts /\ OneRestarter /\ Walks
  BY LifeFacts DEF EveryLife
<1> DEFINE Same == restartFlag' = restartFlag /\ \A q \in Restarters : Busy(q)' <=> Busy(q)
<1>1. ASSUME \/ StartBegin \/ StopBegin \/ StartToken \/ StartFailed
             \/ StopFlag
      PROVE  Same
  BY <1>0, <1>1 DEF StartBegin, StopBegin, StartToken, StartFailed, StopFlag, Busy
<1>2. ASSUME NEW a \in Actors,
             \/ DisconnectTake(a) \/ DisconnectClose(a) \/ DisconnectWait(a)
      PROVE  Same
  BY <1>0, <1>2 DEF DisconnectTake, DisconnectClose, DisconnectWait, Busy, Walks
<1>3. ASSUME NEW a \in Actors,
             \/ ConnectEnter(a) \/ ConnectToken(a) \/ ConnectDial(a)
             \/ ConnectDialed(a) \/ ConnectSpawn(a) \/ ConnectAuth(a)
      PROVE  Same
  BY <1>0, <1>3
  DEF ConnectEnter, OnError, ConnectToken, ConnectDial, ConnectDialed,
      ConnectSpawn, ConnectAuth, OnSuccess, Busy
<1>4. ASSUME NEW r \in Restarters,
             \/ RestartLoop(r) \/ RestartBackoff(r) \/ RestartRetry(r)
      PROVE  Same
  BY <1>0, <1>4 DEF RestartLoop, RestartBackoff, RestartRetry, Busy
<1>5. ASSUME NEW c \in Conns,
             \/ ReadFails(c) \/ ReadErrorCode(c) \/ WriteBegin(c)
             \/ WriteDone(c) \/ WritePing(c) \/ WriteMsg(c) \/ ReadBegin(c)
             \/ ServerDrop(c)
      PROVE  Same
  BY <1>0, <1>5
  DEF ReadFails, Done, SpawnRestart, Spawn, Idle, ReadErrorCode, WriteBegin,
      WriteDone, CtxDone, WritePing, WriteFails, WriteMsg, ReadBegin,
      ServerDrop, Busy
<1>6. ASSUME ForceRestart \/ ParentCancel PROVE Same
  BY <1>0, <1>6 DEF ForceRestart, SpawnRestart, Spawn, Idle, ParentCancel, Busy
<1>7. ASSUME NEW r \in Restarters, RestartCAS(r) PROVE OneRestarter'
  BY <1>0, <1>7 DEF RestartCAS, OneRestarter, Busy
<1>8. ASSUME NEW r \in Restarters, RestartEnd(r) PROVE OneRestarter'
  BY <1>0, <1>8 DEF RestartEnd, OneRestarter, Busy
<1> QED
  <2>1. CASE Same
    BY <1>0, <2>1 DEF OneRestarter
  <2> QED
    BY <2>1, <1>1, <1>2, <1>3, <1>4, <1>5, <1>6, <1>7, <1>8
    DEF Moves, AppStep, ConnectStep, RestartStep, ReadStep, WriteStep

(* The first to run besides Start are the pumps that it spawns. *)
LEMMA KeepsAlone == ASSUME ChatInv, Moves PROVE Alone'
<1>0. Facts /\ MaxStarts = 1 /\ Alone /\ FirstConnect
  BY ChatFacts DEF ChatInv, Inv
<1>1. ASSUME \/ StartBegin \/ StopBegin \/ StartToken \/ StartFailed
             \/ StopFlag
      PROVE  Alone'
  BY <1>0, <1>1 DEF StartBegin, StopBegin, StartToken, StartFailed, StopFlag, Alone
<1>2. ASSUME NEW a \in Actors,
             \/ DisconnectTake(a) \/ DisconnectClose(a) \/ DisconnectWait(a)
      PROVE  Alone'
  <2>1. CASE DisconnectTake(a)
    BY <1>0, <2>1 DEF DisconnectTake, Alone
  <2>2. CASE DisconnectClose(a)
    BY <1>0, <2>2 DEF DisconnectClose, Alone
  <2>3. CASE DisconnectWait(a)
    BY <1>0, <2>3 DEF DisconnectWait, Alone
  <2> QED
    BY <1>2, <2>1, <2>2, <2>3
<1>3. ASSUME NEW a \in Actors,
             \/ ConnectEnter(a) \/ ConnectToken(a) \/ ConnectDial(a)
             \/ ConnectDialed(a) \/ ConnectSpawn(a) \/ ConnectAuth(a)
      PROVE  Alone'
  BY <1>0, <1>3, SMTT(20)
  DEF ConnectEnter, OnError, ConnectToken, ConnectDial, ConnectDialed,
      ConnectSpawn, ConnectAuth, OnSuccess, Alone, FirstConnect
<1>4. ASSUME NEW r \in Restarters,
             \/ RestartCAS(r) \/ RestartLoop(r) \/ RestartBackoff(r)
             \/ RestartRetry(r) \/ RestartEnd(r)
      PROVE  Alone'
  BY <1>0, <1>4
  DEF RestartCAS, RestartLoop, RestartBackoff, RestartRetry, RestartEnd, Alone
<1>5. ASSUME NEW c \in Conns,
             \/ ReadFails(c) \/ ReadErrorCode(c) \/ WriteBegin(c)
             \/ WriteDone(c) \/ WritePing(c) \/ WriteMsg(c) \/ ReadBegin(c)
             \/ ServerDrop(c)
      PROVE  Alone'
  BY <1>0, <1>5
  DEF ReadFails, Done, SpawnRestart, Spawn, Idle, ReadErrorCode, WriteBegin,
      WriteDone, CtxDone, WritePing, WriteFails, WriteMsg, ReadBegin,
      ServerDrop, Alone
<1>6. ASSUME ForceRestart \/ ParentCancel PROVE Alone'
  BY <1>0, <1>6
  DEF ForceRestart, SpawnRestart, Spawn, Idle, ParentCancel, Alone, FirstConnect
<1> QED
  BY <1>1, <1>2, <1>3, <1>4, <1>5, <1>6
  DEF Moves, AppStep, ConnectStep, RestartStep, ReadStep, WriteStep

(* Before that nobody else stores a connection. *)
LEMMA KeepsFirstConnect == ASSUME ChatInv, Moves PROVE FirstConnect'
<1>0. Facts /\ MaxStarts = 1 /\ FirstConnect /\ Walks /\ Alone
  BY ChatFacts DEF ChatInv, Inv
<1>1. ASSUME \/ StartBegin \/ StopBegin \/ StartToken \/ StartFailed
             \/ StopFlag
      PROVE  FirstConnect'
  BY <1>0, <1>1
  DEF StartBegin, StopBegin, StartToken, StartFailed, StopFlag, FirstConnect
<1>2. ASSUME NEW a \in Actors,
             \/ DisconnectTake(a) \/ DisconnectClose(a) \/ DisconnectWait(a)
      PROVE  FirstConnect'
  <2>1. CASE DisconnectTake(a)
    <3>1. wsconn' = 0 /\ UNCHANGED <<ret, starts, started, stopped>>
      BY <2>1 DEF DisconnectTake
    <3>2. pc'[0] = pc[0] \/ (pc[0] = "take" /\ pc'[0] \in {"idle", "failed", "close"})
      BY <1>0, <2>1 DEF DisconnectTake, Walks
    <3>3. starts = 0 => pc'[0] \in {"idle", "stopping", "take"} /\ ret'[0] # "failed"
      BY <1>0, <2>1 DEF DisconnectTake, FirstConnect, Walks
    <3>4. pc'[0] # "spawn"
      BY <1>0, <2>1, <3>2 DEF DisconnectTake, Alone
    <3> QED
      BY <1>0, <3>1, <3>2, <3>3, <3>4 DEF FirstConnect, Walks
  <2>2. CASE DisconnectClose(a)
    BY <1>0, <2>2 DEF DisconnectClose, FirstConnect, Walks
  <2>3. CASE DisconnectWait(a)
    BY <1>0, <2>3 DEF DisconnectWait, FirstConnect, Walks
  <2> QED
    BY <1>2, <2>1, <2>2, <2>3
<1>3. ASSUME NEW a \in Actors,
             \/ ConnectEnter(a) \/ ConnectToken(a) \/ ConnectDial(a)
             \/ ConnectDialed(a) \/ ConnectSpawn(a) \/ ConnectAuth(a)
      PROVE  FirstConnect'
  <2>1. CASE ConnectEnter(a)
    BY <1>0, <2>1 DEF ConnectEnter, OnError, FirstConnect
  <2>2. CASE ConnectToken(a)
    BY <1>0, <2>2 DEF ConnectToken, OnError, FirstConnect
  <2>3. CASE ConnectDial(a)
    BY <1>0, <2>3 DEF ConnectDial, OnError, FirstConnect
  <2>4. CASE ConnectDialed(a)
    BY <1>0, <2>4 DEF ConnectDialed, OnError, FirstConnect, Alone
  <2>5. CASE ConnectSpawn(a)
    BY <1>0, <2>5 DEF ConnectSpawn, FirstConnect
  <2>6. CASE ConnectAuth(a)
    BY <1>0, <2>6 DEF ConnectAuth, OnError, OnSuccess, FirstConnect
  <2> QED
    BY <1>3, <2>1, <2>2, <2>3, <2>4, <2>5, <2>6
<1>4. ASSUME NEW r \in Restarters,
             \/ RestartCAS(r) \/ RestartLoop(r) \/ RestartBackoff(r)
             \/ RestartRetry(r) \/ RestartEnd(r)
      PROVE  FirstConnect'
  BY <1>0, <1>4
  DEF RestartCAS, RestartLoop, RestartBackoff, RestartRetry, RestartEnd,
      FirstConnect
<1>5. ASSUME NEW c \in Conns,
             \/ ReadFails(c) \/ ReadErrorCode(c) \/ WriteBegin(c)
             \/ WriteDone(c) \/ WritePing(c) \/ WriteMsg(c) \/ ReadBegin(c)
             \/ ServerDrop(c)
      PROVE  FirstConnect'
  BY <1>0, <1>5
  DEF ReadFails, Done, SpawnRestart, Spawn, Idle, ReadErrorCode, WriteBegin,
      WriteDone, CtxDone, WritePing, WriteFails, WriteMsg, ReadBegin,
      ServerDrop, FirstConnect
<1>6. ASSUME ForceRestart \/ ParentCancel PROVE FirstConnect'
  BY <1>0, <1>6
  DEF ForceRestart, SpawnRestart, Spawn, Idle, ParentCancel, FirstConnect
<1> QED
  BY <1>1, <1>2, <1>3, <1>4, <1>5, <1>6
  DEF Moves, AppStep, ConnectStep, RestartStep, ReadStep, WriteStep

(* The only restarter finds what it left. *)
LEMMA KeepsRestartersOwn == ASSUME ChatInv, Moves PROVE RestartersOwn'
<1>0. Facts /\ MaxStarts = 1 /\ RestartersOwn /\ OneRestarter /\ Alone /\ FirstConnect
  BY ChatFacts DEF ChatInv, Inv
<1>1. ASSUME \/ StartBegin \/ StopBegin \/ StartToken \/ StartFailed
             \/ StopFlag
      PROVE  RestartersOwn'
  BY <1>0, <1>1
  DEF StartBegin, StopBegin, StartToken, StartFailed, StopFlag, RestartersOwn, Alone
<1>2. ASSUME NEW a \in Actors,
             \/ DisconnectTake(a) \/ DisconnectClose(a) \/ DisconnectWait(a)
      PROVE  RestartersOwn'
  BY <1>0, <1>2 DEF DisconnectTake, DisconnectClose, DisconnectWait, RestartersOwn
<1>3. ASSUME NEW a \in Actors,
             \/ ConnectEnter(a) \/ ConnectToken(a) \/ ConnectDial(a)
             \/ ConnectDialed(a) \/ ConnectSpawn(a) \/ ConnectAuth(a)
      PROVE  RestartersOwn'
  <2>1. CASE ConnectEnter(a)
    BY <1>0, <2>1 DEF ConnectEnter, OnError, RestartersOwn
  <2>2. CASE ConnectToken(a)
    BY <1>0, <2>2 DEF ConnectToken, OnError, RestartersOwn
  <2>3. CASE ConnectDial(a)
    BY <1>0, <2>3 DEF ConnectDial, OnError, RestartersOwn
  <2>4. CASE ConnectDialed(a)
    <3>1. wsconn = 0 /\ \A r \in Restarters : r # a => ~Busy(r)
      BY <1>0, <2>4 DEF ConnectDialed, RestartersOwn, FirstConnect, OneRestarter, Alone, Busy
    <3>2. \A r \in Restarters : r # a => pc'[r] \in {"idle", "cas"}
      BY <1>0, <2>4, <3>1 DEF ConnectDialed, Busy
    <3>3. a # 0 => (pc'[a] = "spawn" /\ wsconn' = conn'[a]) \/ (pc'[a] = "retry" /\ wsconn' = 0)
      BY <1>0, <2>4, <3>1 DEF ConnectDialed, OnError
    <3> QED
      BY <1>0, <3>2, <3>3 DEF RestartersOwn
  <2>5. CASE ConnectSpawn(a)
    BY <1>0, <2>5 DEF ConnectSpawn, RestartersOwn
  <2>6. CASE ConnectAuth(a)
    BY <1>0, <2>6 DEF ConnectAuth, OnError, OnSuccess, RestartersOwn
  <2> QED
    BY <1>3, <2>1, <2>2, <2>3, <2>4, <2>5, <2>6
<1>4. ASSUME NEW r \in Restarters,
             \/ RestartCAS(r) \/ RestartLoop(r) \/ RestartBackoff(r)
             \/ RestartRetry(r) \/ RestartEnd(r)
      PROVE  RestartersOwn'
  BY <1>0, <1>4
  DEF RestartCAS, RestartLoop, RestartBackoff, RestartRetry, RestartEnd,
      RestartersOwn
<1>5. ASSUME NEW c \in Conns,
             \/ ReadFails(c) \/ ReadErrorCode(c) \/ WriteBegin(c)
             \/ WriteDone(c) \/ WritePing(c) \/ WriteMsg(c) \/ ReadBegin(c)
             \/ ServerDrop(c)
      PROVE  RestartersOwn'
  <2>1. CASE ReadFails(c)
    BY <1>0, <2>1 DEF ReadFails, Done, SpawnRestart, Spawn, Idle, RestartersOwn
  <2>2. CASE ReadErrorCode(c)
    BY <1>0, <2>2 DEF ReadErrorCode, SpawnRestart, Spawn, Idle, RestartersOwn
  <2>3. CASE WriteBegin(c)
    BY <1>0, <2>3 DEF WriteBegin, RestartersOwn
  <2>4. CASE WriteDone(c)
    BY <1>0, <2>4 DEF WriteDone, CtxDone, Done, RestartersOwn
  <2>5. CASE WritePing(c)
    BY <1>0, <2>5
    DEF WritePing, WriteFails, Done, SpawnRestart, Spawn, Idle, RestartersOwn
  <2>6. CASE WriteMsg(c)
    <3>1. /\ UNCHANGED <<wsconn, conn, stopped, parentDone>>
          /\ restartFlag => UNCHANGED <<wr, pc>>
          /\ \A r \in Restarters : pc'[r] = pc[r] \/ pc'[r] = "cas"
      BY <1>0, <2>6 DEF WriteMsg, WriteFails, SpawnRestart, Spawn, Idle
    <3> QED
      BY <1>0, <3>1 DEF RestartersOwn, OneRestarter, Busy
  <2>7. CASE ReadBegin(c)
    BY <1>0, <2>7 DEF ReadBegin, Done, RestartersOwn
  <2>8. CASE ServerDrop(c)
    BY <1>0, <2>8 DEF ServerDrop, RestartersOwn
  <2> QED
    BY <1>5, <2>1, <2>2, <2>3, <2>4, <2>5, <2>6, <2>7, <2>8
<1>6. ASSUME ForceRestart \/ ParentCancel PROVE RestartersOwn'
  BY <1>0, <1>6
  DEF ForceRestart, SpawnRestart, Spawn, Idle, ParentCancel, RestartersOwn
<1> QED
  BY <1>1, <1>2, <1>3, <1>4, <1>5, <1>6
  DEF Moves, AppStep, ConnectStep, RestartStep, ReadStep, WriteStep

(* A connection just dialled is new to everyone. *)
LEMMA KeepsDialled == ASSUME EveryLife, Moves PROVE Dialled'
<1>0. Facts
  BY LifeFacts DEF EveryLife
<1>10. Dialled /\ dials \in Nat
  BY <1>0 DEF EveryLife
<1>11. \A b \in Actors : pc[b] = "dialed" => conn[b] \notin {0, wsconn}
  BY <1>10 DEF Dialled
<1> DEFINE Kept ==
             /\ dials' = dials /\ connsOpen' \subseteq connsOpen /\ authed' \subseteq authed
             /\ wsconn' \in {wsconn, 0} \cup {conn[b] : b \in Actors}
             /\ \A c \in Conns : wr'[c] = wr[c] \/ wr'[c][2] = 0
             /\ \A b \in Actors :
                  /\ conn'[b] \in {conn[b], wsconn, 0}
                  /\ pc'[b] = "dialed" => pc[b] = "dialed" /\ conn'[b] = conn[b] /\ wsconn' # conn[b]
<1>1. ASSUME \/ StartBegin \/ StopBegin \/ StartToken \/ StartFailed
             \/ StopFlag
      PROVE  Kept
  BY <1>0, <1>1, <1>11 DEF StartBegin, StopBegin, StartToken, StartFailed, StopFlag
<1>2. ASSUME NEW a \in Actors,
             \/ DisconnectTake(a) \/ DisconnectClose(a) \/ DisconnectWait(a)
      PROVE  Kept
  BY <1>0, <1>2, <1>11 DEF DisconnectTake, DisconnectClose, DisconnectWait
<1>3. ASSUME NEW a \in Actors,
             \/ ConnectEnter(a) \/ ConnectToken(a) \/ ConnectDialed(a)
             \/ ConnectSpawn(a) \/ ConnectAuth(a)
      PROVE  Kept
  BY <1>0, <1>3, <1>10
  DEF Dialled, ConnectEnter, OnError, ConnectToken, ConnectDialed, ConnectSpawn,
      ConnectAuth, OnSuccess
<1>4. ASSUME NEW a \in Actors, ConnectDial(a) PROVE Dialled'
  <2>1. UNCHANGED <<wsconn, wr, authed>> /\ pc[a] = "dial"
    BY <1>4 DEF ConnectDial
  <2>2. CASE UNCHANGED <<dials, connsOpen, conn>>
    <3>1. \A b \in Actors : pc'[b] = "dialed" => pc[b] = "dialed"
      BY <1>0, <1>4, <2>2 DEF ConnectDial, OnError
    <3> QED
      BY <1>10, <2>1, <2>2, <3>1 DEF Dialled
  <2>3. CASE /\ dials' = dials + 1 /\ connsOpen' = connsOpen \cup {dials + 1}
             /\ conn' = [conn EXCEPT ![a] = dials + 1]
    <3>1. /\ conn'[a] = dials + 1
          /\ \A b \in Actors : b # a => pc'[b] = pc[b] /\ conn'[b] = conn[b]
      BY <1>0, <1>4, <2>3 DEF ConnectDial
    <3>2. wsconn' <= dials' /\ connsOpen' \subseteq 1..dials' /\ dials + 1 \notin authed'
      BY <1>0, <1>10, <2>1, <2>3 DEF Dialled
    <3>3. \A c \in Conns : wr'[c][2] <= dials' /\ wr'[c][2] # dials + 1
      BY <1>0, <1>10, <2>1, <2>3, WrNat DEF Dialled
    <3>4. \A b \in Actors : conn'[b] <= dials'
      BY <1>0, <1>10, <2>3, <3>1 DEF Dialled
    <3>5. ASSUME NEW b \in Actors, pc'[b] = "dialed"
          PROVE  /\ conn'[b] \notin {0, wsconn'} /\ conn'[b] \notin authed'
                 /\ \A c \in Conns : wr'[c][2] # conn'[b]
                 /\ \A d \in Actors \ {b} : pc'[d] = "dialed" => conn'[d] # conn'[b]
      <4>1. wsconn \in Nat /\ wsconn <= dials /\ \A d \in Actors : conn[d] \in Nat /\ conn[d] <= dials
        BY <1>0, <1>10 DEF Dialled
      <4> QED
        BY <1>10, <2>1, <3>1, <3>2, <3>3, <3>5, <4>1 DEF Dialled
    <3> QED
      BY <3>2, <3>3, <3>4, <3>5 DEF Dialled
  <2> QED
    BY <1>4, <2>2, <2>3 DEF ConnectDial
<1>5. ASSUME NEW r \in Restarters,
             \/ RestartCAS(r) \/ RestartLoop(r) \/ RestartBackoff(r)
             \/ RestartRetry(r) \/ RestartEnd(r)
      PROVE  Kept
  BY <1>0, <1>5, <1>11 DEF RestartCAS, RestartLoop, RestartBackoff, RestartRetry, RestartEnd
<1>6. ASSUME NEW c \in Conns,
             \/ ReadFails(c) \/ ReadErrorCode(c) \/ WriteDone(c) \/ WritePing(c)
             \/ ReadBegin(c) \/ ServerDrop(c)
      PROVE  Kept
  BY <1>0, <1>6, <1>11
  DEF ReadFails, Done, SpawnRestart, Spawn, Idle, ReadErrorCode, WriteDone,
      CtxDone, WritePing, WriteFails, ReadBegin, ServerDrop
<1>7. ASSUME NEW c \in Conns, WriteBegin(c) PROVE Dialled'
  BY <1>0, <1>7, <1>10, ZenonT(40) DEF WriteBegin, Dialled
<1>8. ASSUME NEW c \in Conns, WriteMsg(c) PROVE Dialled'
  <2>1. /\ UNCHANGED <<wsconn, conn, dials, connsOpen>>
        /\ \A b \in Actors : pc'[b] = "dialed" => pc[b] = "dialed"
    BY <1>0, <1>8 DEF WriteMsg, WriteFails, SpawnRestart, Spawn, Idle
  <2>2. /\ authed' \subseteq authed \cup {wr[c][2]}
        /\ \A d \in Conns : wr'[d] = wr[d] \/ wr'[d] = <<"done", 0>>
    BY <1>0, <1>8 DEF WriteMsg, WriteFails, Done
  <2>3. \A d \in Conns : wr'[d][2] = wr[d][2] \/ wr'[d][2] = 0
    BY <2>2
  <2>4. \A d \in Conns : wr'[d][2] <= dials'
    BY <1>10, <2>1, <2>3 DEF Dialled
  <2>5. ASSUME NEW b \in Actors, pc'[b] = "dialed"
        PROVE  /\ conn'[b] \notin {0, wsconn'} /\ conn'[b] \notin authed'
               /\ \A d \in Conns : wr'[d][2] # conn'[b]
               /\ \A d \in Actors \ {b} : pc'[d] = "dialed" => conn'[d] # conn'[b]
    BY <1>10, <2>1, <2>2, <2>3, <2>5 DEF Dialled
  <2> QED
    BY <1>10, <2>1, <2>4, <2>5 DEF Dialled
<1>9. ASSUME ForceRestart \/ ParentCancel PROVE Kept
  BY <1>0, <1>9, <1>11 DEF ForceRestart, SpawnRestart, Spawn, Idle, ParentCancel
<1> QED
  <2>1. CASE Kept
    <3>1. \A c \in Conns : wr'[c][2] = wr[c][2] \/ wr'[c][2] = 0
      BY <2>1
    <3> QED
      BY <1>10, <2>1, <3>1 DEF Dialled
  <2> QED
    BY <2>1, <1>1, <1>2, <1>3, <1>4, <1>5, <1>6, <1>7, <1>8, <1>9
    DEF Moves, AppStep, ConnectStep, RestartStep, ReadStep, WriteStep

(* A quiet step leaves alone all that the parts speak of. *)
LEMMA ChatQuiet ==
  ASSUME ChatInv, TypeOK', Quiet \/ UNCHANGED vars PROVE ChatInv'
<1> USE DEF tcVars, ctxVars, actorVars, pumpVars, otherVars, netVars
<1>1. UNCHANGED <<started, wsconn, stopped, restartFlag, parentDone, starts, pc, ret, conn, rd,
                  wr, dials, connsOpen, authed>>
  BY DEF Quiet, SendBegin, SendPush, TokenExpires, RefreshStep, RefreshTop,
         RefreshWake, RefreshStop, vars
<1>2. (NothingAfterStop /\ ConnectionsOwned /\ Attended)'
  BY <1>1 DEF ChatInv, Inv, NothingAfterStop, ConnectionsOwned, Attended
<1>3. (Walks /\ OneRestarter /\ Alone /\ FirstConnect)'
  BY <1>1 DEF ChatInv, Walks, OneRestarter, Busy, Alone, FirstConnect
<1>4. (RestartersOwn /\ Dialled)'
  BY <1>1 DEF ChatInv, RestartersOwn, Dialled
<1> QED
  BY <1>2, <1>3, <1>4 DEF ChatInv, Inv, OneLife, ClientConstants

(* Every step keeps what holds of every life ... *)
LEMMA EveryLifeNext == EveryLife /\ [Next]_vars => EveryLife'
<1> SUFFICES ASSUME EveryLife, [Next]_vars PROVE EveryLife'
  OBVIOUS
<1>1. TypeOK'
  <2>1. CASE UNCHANGED vars
    BY <2>1
    DEF EveryLife, TypeOK, vars, tcVars, ctxVars, actorVars, pumpVars, otherVars, netVars
  <2> QED
    BY <2>1, ChatTypes
<1>2. CASE Moves
  BY <1>1, <1>2, KeepsNothingAfterStop, KeepsWalks, KeepsOneRestarter, KeepsDialled
  DEF EveryLife, ClientConstants
<1>3. CASE Quiet \/ UNCHANGED vars
  <2> USE DEF tcVars, ctxVars, actorVars, pumpVars, otherVars, netVars
  <2>1. UNCHANGED <<wsconn, stopped, restartFlag, pc, ret, conn, wr, dials, connsOpen, authed>>
    BY <1>3 DEF Quiet, SendBegin, SendPush, TokenExpires, RefreshStep, RefreshTop,
                RefreshWake, RefreshStop, vars
  <2> QED
    BY <1>1, <2>1
    DEF EveryLife, ClientConstants, NothingAfterStop, Walks, OneRestarter, Busy, Dialled
<1> QED
  BY <1>2, <1>3 DEF Next, Moves, Quiet

(* ... and ChatInv. *)
LEMMA ChatNext == ChatInv /\ [Next]_vars => ChatInv'
<1> SUFFICES ASSUME ChatInv, [Next]_vars PROVE ChatInv'
  OBVIOUS
<1>1. CASE UNCHANGED vars
  <2>1. TypeOK'
    BY <1>1
    DEF ChatInv, Inv, TypeOK, vars, tcVars, ctxVars, actorVars, pumpVars,
        otherVars, netVars
  <2> QED
    BY <1>1, <2>1, ChatQuiet
<1>2. CASE Next
  <2>1. TypeOK' /\ EveryLife
    BY <1>2, ChatTypes, LifeOfChat
  <2>2. Moves \/ Quiet
    BY <1>2 DEF Next, Moves, Quiet
  <2>3. CASE Moves
    BY <2>1, <2>3, KeepsNothingAfterStop, KeepsConnectionsOwned, KeepsAttended, KeepsWalks,
       KeepsOneRestarter, KeepsAlone, KeepsFirstConnect, KeepsRestartersOwn, KeepsDialled
    DEF ChatInv, Inv, OneLife, ClientConstants
  <2> QED
    BY <2>1, <2>2, <2>3, ChatQuiet
<1> QED
  BY <1>1, <1>2

(* However often the chat client is stopped and started again, and         *)
(* whatever restarts, pumps and dials of earlier lives are still under     *)
(* way: Stop leaves no connection stored until the next Start              *)
(* (tcClientWS.go:181-192 against tcClient.go:95-102), and one restart at  *)
(* most is past its compare-and-swap, as long as the flag says so          *)
(* (tcClientWS.go:247-250, 282-288).                                       *)
THEOREM StopAndRestartAlways == Spec => [](NothingAfterStop /\ OneRestarter)
<1>1. EveryLife => NothingAfterStop /\ OneRestarter
  BY DEF EveryLife
<1> QED
  BY <1>1, EveryLifeInit, EveryLifeNext, PTL DEF Spec

(* In one life of the chat client, whoever restarts, fails or stops when:  *)
(* no websocket is lost sight of, none is stored after Stop, and the       *)
(* stored one has someone to notice its loss (tcClientWS.go:74-93,         *)
(* 181-192, 247-288).                                                      *)
THEOREM ChatInvAlways == ASSUME MaxStarts = 1 PROVE Spec => []Inv
<1>1. ChatInv => Inv
  BY DEF ChatInv
<1>2. OneLife
  BY TcAssumption DEF OneLife
<1> QED
  BY <1>1, <1>2, ChatInit, ChatNext, PTL DEF Spec
=============================================================================
