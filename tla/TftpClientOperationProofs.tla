----------------------- MODULE TftpClientOperationProofs -----------------------
(***************************************************************************)
(* Proofs about TftpClientOperation, for every number of retries, every    *)
(* width of the retry counter and every number of WAIT answers.            *)
(***************************************************************************)
EXTENDS TftpClientOperation, TLAPS

-------------------------------------------------------------------------------
(* Every variable stays within its type (all of OperationImpl.cpp).        *)
THEOREM TypeCorrect == Spec => []TypeOK
<1> USE CounterAssumption, HandleAbortAssumption, MaxWaitsAssumption
    DEF CounterAssumption, HandleAbortAssumption, MaxWaitsAssumption
<1>1. Init => TypeOK
  BY DEF Init, TypeOK, NoResult
<1>2. TypeOK /\ [Next]_vars => TypeOK'
  <2> SUFFICES ASSUME TypeOK, [Next]_vars PROVE TypeOK'
    OBVIOUS
  <2> USE DEF TypeOK, StartAttempt, Report, Unreported, Results
  <2>1. CASE Request
    BY <2>1 DEF Request
  <2>2. CASE Abort
    BY <2>2 DEF Abort, CancelWait
  <2>3. CASE Destroy
    BY <2>3 DEF Destroy, CancelWait
  <2>4. CASE CompleteSuccessful
    BY <2>4 DEF CompleteSuccessful
  <2>5. CASE CompleteAborted
    BY <2>5 DEF CompleteAborted
  <2>6. ASSUME NEW message \in HonouredAborts, CompleteByAbortMessage(message)
        PROVE  TypeOK'
    BY <2>6 DEF CompleteByAbortMessage, HonouredAborts
  <2>7. CASE Defer
    BY <2>7 DEF Defer
  <2>8. ASSUME NEW outcome \in RetriedOutcomes, Retry(outcome)
        PROVE  TypeOK'
    <3>1. retries' \in 0 .. CounterModulus - 1
      BY <2>8 DEF Retry
    <3>2. QED
      BY <2>8, <3>1 DEF Retry
  <2>9. CASE WaitElapses
    BY <2>9 DEF WaitElapses
  <2>10. CASE WaitFails
    BY <2>10 DEF WaitFails
  <2>11. CASE WaitOver
    BY <2>11 DEF WaitOver
  <2>12. CASE WaitHandlerAfterDestruction
    BY <2>12 DEF WaitHandlerAfterDestruction
  <2>13. CASE UNCHANGED vars
    BY <2>13 DEF vars
  <2>14. QED
    BY <2>1, <2>2, <2>3, <2>4, <2>5, <2>6, <2>7, <2>8, <2>9, <2>10, <2>11,
       <2>12, <2>13
    DEF Next, HandleCompletion, HandleWaitTimeout
<1>3. QED
  BY <1>1, <1>2, PTL DEF Spec

-------------------------------------------------------------------------------
(* A requested operation is always driven by exactly one of the TFTP       *)
(* operation and the wait timer, or has been completed once                *)
(* (handleCompletion, handleWaitTimeout).  The property is inductive.      *)
THEOREM ActivityCorrect == Spec => []SingleActivity
<1> USE DEF SingleActivity, Activities, PendingWaits
<1>1. Init => SingleActivity
  BY DEF Init
<1>2. TypeOK /\ SingleActivity /\ [Next]_vars => SingleActivity'
  <2> SUFFICES ASSUME TypeOK, SingleActivity, [Next]_vars
               PROVE  SingleActivity'
    OBVIOUS
  <2> USE DEF TypeOK, StartAttempt, Report, Unreported
  <2>1. CASE Request
    BY <2>1 DEF Request
  <2>2. CASE Abort
    BY <2>2 DEF Abort, CancelWait
  <2>3. CASE Destroy
    BY <2>3 DEF Destroy, CancelWait
  <2>4. CASE CompleteSuccessful
    BY <2>4 DEF CompleteSuccessful
  <2>5. CASE CompleteAborted
    BY <2>5 DEF CompleteAborted
  <2>6. ASSUME NEW message \in HonouredAborts, CompleteByAbortMessage(message)
        PROVE  SingleActivity'
    BY <2>6 DEF CompleteByAbortMessage
  <2>7. CASE Defer
    BY <2>7 DEF Defer
  <2>8. ASSUME NEW outcome \in RetriedOutcomes, Retry(outcome)
        PROVE  SingleActivity'
    BY <2>8 DEF Retry
  <2>9. CASE WaitElapses
    BY <2>9 DEF WaitElapses
  <2>10. CASE WaitFails
    BY <2>10 DEF WaitFails
  <2>11. CASE WaitOver
    BY <2>11 DEF WaitOver
  <2>12. CASE WaitHandlerAfterDestruction
    BY <2>12 DEF WaitHandlerAfterDestruction
  <2>13. CASE UNCHANGED vars
    BY <2>13 DEF vars
  <2>14. QED
    BY <2>1, <2>2, <2>3, <2>4, <2>5, <2>6, <2>7, <2>8, <2>9, <2>10, <2>11,
       <2>12, <2>13
    DEF Next, HandleCompletion, HandleWaitTimeout
<1>3. QED
  BY <1>1, <1>2, TypeCorrect, PTL DEF Spec

-------------------------------------------------------------------------------
(* The retry counter is wide enough to count one more than the limit,      *)
(* which fails for a limit of 65535 in the uint16_t of the code.           *)
CounterWideEnough == DlpRetries + 1 < CounterModulus

(* Every attempt is the first one, a retry, or follows an elapsed wait.    *)
AttemptsAccounted ==
  /\ owner = "Configured"
       => attempts = 0 /\ retries = 0 /\ waits = 0 /\ result = NoResult
  /\ completions = 0 /\ owner = "Requested"
       => /\ attempts + PendingWaits = 1 + retries + waits
          /\ retries <= DlpRetries
          /\ result = NoResult
  /\ attempts <= 1 + DlpRetries + waits
  /\ result = "CommunicationError" => attempts = 1 + DlpRetries + waits

LEMMA AccountingStep ==
  ASSUME CounterWideEnough, TypeOK, SingleActivity, AttemptsAccounted,
         [Next]_vars
  PROVE  AttemptsAccounted'
<1> USE CounterAssumption
    DEF CounterAssumption, CounterWideEnough, TypeOK, SingleActivity,
        Activities, PendingWaits, AttemptsAccounted, StartAttempt, Report,
        Unreported, NoResult
<1>1. CASE Request
  BY <1>1 DEF Request
<1>2. CASE Abort
  BY <1>2 DEF Abort, CancelWait
<1>3. CASE Destroy
  BY <1>3 DEF Destroy, CancelWait
<1>4. CASE CompleteSuccessful
  BY <1>4 DEF CompleteSuccessful
<1>5. CASE CompleteAborted
  BY <1>5 DEF CompleteAborted
<1>6. ASSUME NEW message \in HonouredAborts, CompleteByAbortMessage(message)
      PROVE  AttemptsAccounted'
  BY <1>6 DEF CompleteByAbortMessage, HonouredAborts
<1>7. CASE Defer
  BY <1>7 DEF Defer
<1>8. ASSUME NEW outcome \in RetriedOutcomes, Retry(outcome)
      PROVE  AttemptsAccounted'
  <2>1. owner = "Requested" /\ waitTimer = "Idle" /\ completions = 0
    BY <1>8 DEF Retry
  <2>2. retries' = retries + 1
    BY <1>8, <2>1 DEF Retry
  <2>3. CASE retries' > DlpRetries
    BY <1>8, <2>1, <2>2, <2>3 DEF Retry
  <2>4. CASE retries' <= DlpRetries
    BY <1>8, <2>1, <2>2, <2>4 DEF Retry
  <2>5. QED
    BY <1>8, <2>3, <2>4 DEF Retry
<1>9. CASE WaitElapses
  BY <1>9 DEF WaitElapses
<1>10. CASE WaitFails
  BY <1>10 DEF WaitFails
<1>11. CASE WaitOver
  BY <1>11 DEF WaitOver
<1>12. CASE WaitHandlerAfterDestruction
  BY <1>12 DEF WaitHandlerAfterDestruction
<1>13. CASE UNCHANGED vars
  BY <1>13 DEF vars
<1>14. QED
  BY <1>1, <1>2, <1>3, <1>4, <1>5, <1>6, <1>7, <1>8, <1>9, <1>10, <1>11,
     <1>12, <1>13
  DEF Next, HandleCompletion, HandleWaitTimeout

(* With a counter that is wide enough, the number of TFTP attempts is      *)
(* bounded by the configured retries and the WAIT answers, and a           *)
(* communication error is reported only after all of them                  *)
(* (handleCompletion, OperationImpl.cpp:267-290).                          *)
THEOREM RetriesCorrect == CounterWideEnough => (Spec => []RetryBudget)
<1> SUFFICES ASSUME CounterWideEnough PROVE Spec => []RetryBudget
  OBVIOUS
<1>1. Init => AttemptsAccounted
  BY CounterAssumption
  DEF Init, AttemptsAccounted, CounterAssumption, NoResult
<1>2. TypeOK /\ SingleActivity /\ AttemptsAccounted /\ [Next]_vars
        => AttemptsAccounted'
  BY AccountingStep
<1>3. AttemptsAccounted => RetryBudget
  BY DEF AttemptsAccounted, RetryBudget, AttemptsLimited
<1>4. QED
  BY <1>1, <1>2, <1>3, TypeCorrect, ActivityCorrect, PTL DEF Spec

-------------------------------------------------------------------------------
(* An abort that found a running TFTP operation or a wait that has not     *)
(* elapsed is final: no attempt follows (gracefulAbort, abort,             *)
(* handleWaitTimeout).                                                     *)
THEOREM AbortCorrect == Spec => AbortedTransferNotReissued
<1>1. SingleActivity /\ TypeOK /\ [Next]_vars
        => [tftpOperation = "Aborting" \/ waitTimer = "Cancelled"
              => attempts' = attempts]_vars
  BY DEF SingleActivity, Activities, PendingWaits, TypeOK, Next,
         HandleCompletion, HandleWaitTimeout, Request, Abort, Destroy,
         CompleteSuccessful, CompleteAborted, CompleteByAbortMessage, Defer,
         Retry, WaitElapses, WaitFails, WaitOver, WaitHandlerAfterDestruction,
         StartAttempt, Report, Unreported, vars
<1>2. QED
  BY <1>1, TypeCorrect, ActivityCorrect, PTL
  DEF Spec, AbortedTransferNotReissued

-------------------------------------------------------------------------------
(* The result is the one that was reported, if any was.                    *)
ResultMatchesCompletions == completions = 0 => result = NoResult

LEMMA ResultCorrect == Spec => []ResultMatchesCompletions
<1>1. Init => ResultMatchesCompletions
  BY DEF Init, ResultMatchesCompletions
<1>2. TypeOK /\ ResultMatchesCompletions /\ [Next]_vars
        => ResultMatchesCompletions'
  BY DEF TypeOK, ResultMatchesCompletions, Next,
         HandleCompletion, HandleWaitTimeout, Request, Abort, Destroy,
         CompleteSuccessful, CompleteAborted, CompleteByAbortMessage, Defer,
         Retry, WaitElapses, WaitFails, WaitOver, WaitHandlerAfterDestruction,
         StartAttempt, Report, Unreported, vars
<1>3. QED
  BY <1>1, <1>2, TypeCorrect, PTL DEF Spec

(* Every step of a client operation is a step of the transfer its owners   *)
(* rely on, or invisible to them.                                          *)
LEMMA PromiseStep ==
  ASSUME TypeOK, SingleActivity, ResultMatchesCompletions, [Next]_vars
  PROVE  [Promise!Next]_(Promise!vars)
<1> USE DEF TypeOK, SingleActivity, Activities, PendingWaits,
            ResultMatchesCompletions, StartAttempt, Report, Unreported,
            Promise!Next, Promise!vars, Promise!Start, Promise!Complete,
            Promise!Drop, Promise!NoResult, NoResult, Results
<1>1. CASE Request
  BY <1>1 DEF Request
<1>2. CASE Abort
  BY <1>2 DEF Abort
<1>3. CASE Destroy
  BY <1>3 DEF Destroy
<1>4. CASE CompleteSuccessful
  BY <1>4 DEF CompleteSuccessful
<1>5. CASE CompleteAborted
  BY <1>5 DEF CompleteAborted
<1>6. ASSUME NEW message \in HonouredAborts, CompleteByAbortMessage(message)
      PROVE  [Promise!Next]_(Promise!vars)
  BY <1>6 DEF CompleteByAbortMessage, HonouredAborts
<1>7. CASE Defer
  BY <1>7 DEF Defer
<1>8. ASSUME NEW outcome \in RetriedOutcomes, Retry(outcome)
      PROVE  [Promise!Next]_(Promise!vars)
  BY <1>8 DEF Retry
<1>9. CASE WaitElapses
  BY <1>9 DEF WaitElapses
<1>10. CASE WaitFails
  BY <1>10 DEF WaitFails
<1>11. CASE WaitOver
  BY <1>11 DEF WaitOver
<1>12. CASE WaitHandlerAfterDestruction
  BY <1>12 DEF WaitHandlerAfterDestruction
<1>13. CASE UNCHANGED vars
  BY <1>13 DEF vars
<1>14. QED
  BY <1>1, <1>2, <1>3, <1>4, <1>5, <1>6, <1>7, <1>8, <1>9, <1>10, <1>11,
     <1>12, <1>13
  DEF Next, HandleCompletion, HandleWaitTimeout

(* The client operation implements the safety part of Transfer: it is      *)
(* requested once and completed at most once, with one result.             *)
THEOREM PromiseKept == Spec => Promise!Spec
<1>1. Init => Promise!Init
  BY DEF Init, Promise!Init, Promise!NoResult, NoResult
<1>2. TypeOK /\ SingleActivity /\ ResultMatchesCompletions /\ [Next]_vars
        => [Promise!Next]_(Promise!vars)
  BY PromiseStep
<1>3. QED
  BY <1>1, <1>2, TypeCorrect, ActivityCorrect, ResultCorrect, PTL
  DEF Spec, Promise!Spec

===============================================================================
