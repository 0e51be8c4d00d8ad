------------------------- MODULE TftpClientOperation -------------------------
(***************************************************************************)
(* One ARINC 615A TFTP client operation: the layer of                      *)
(* src/lib/arinc_615a/tftp/clients/implementation/OperationImpl.cpp that   *)
(* wraps a plain TFTP operation, repeats it when it fails (DLP retries),   *)
(* waits and repeats it when the server answers WAIT, and hands an ABORT   *)
(* answer through to its owner.                                            *)
(*                                                                         *)
(* Two event sources interleave: the completion of the wrapped TFTP        *)
(* operation and the wait timer.  A third party, the owner, calls          *)
(* gracefulAbort()/abort() and finally destroys the object at any time     *)
(* between two handlers.  A timer wait is a Boost.Asio wait: cancel()      *)
(* turns a wait that has not elapsed into a handler queued with            *)
(* operation_aborted, but leaves alone a handler that is already queued.   *)
(***************************************************************************)
EXTENDS Integers

CONSTANTS
  DlpRetries,     \* dlpRetriesV: failed attempts that are repeated
  CounterModulus, \* 2^w for the w-bit retry counter (uint16_t in the code)
  HandleAbort,    \* handleAbortV: ABORT answers are handed to the owner
  MaxWaits        \* bound: WAIT answers the remote server gives

ASSUME CounterAssumption ==
  /\ CounterModulus \in Nat \ {0}
  /\ DlpRetries \in 0 .. CounterModulus - 1
ASSUME HandleAbortAssumption == HandleAbort \in BOOLEAN
ASSUME MaxWaitsAssumption == MaxWaits \in Nat

VARIABLES
  owner,          \* "Configured", "Requested" or "Destroyed"
  tftpOperation,  \* operationV: "None", "Running", or "Aborting"
  waitTimer,      \* waitTimerV and its queued handler
  retries,        \* retriesV
  result,         \* what the completion handler of the owner was last told
  completions,    \* how often the completion handler was called
  attempts,       \* TFTP operations started so far
  waits,          \* WAIT answers received so far
  abortRequest    \* "Made" once gracefulAbort() or abort() was called

vars == <<owner, tftpOperation, waitTimer, retries, result, completions,
          attempts, waits, abortRequest>>

NoResult == "NoResult"

(* Arinc615a::Tftp::TransferStatus, as far as this layer reports it.       *)
Results == {"Successful", "CommunicationError", "Aborted",
            "OperationAbortedByDlp", "OperationAbortedByOperator"}

(* What the wrapped TFTP operation can end with: ::Tftp::TransferStatus    *)
(* and, for a RequestError, the classification of the error packet by      *)
(* ErrorMessage_type, ErrorMessage_abort and ErrorMessage_wait.            *)
(* "AbortOther" is an ABORT message with another, or no, valid code,       *)
(* "WaitInvalid" a WAIT whose time cannot be decoded, and "Failure" every  *)
(* other error.                                                            *)
RemoteOutcomes == {"Successful", "OperationAbortedByDlp",
                   "OperationAbortedByOperator", "AbortOther", "Wait",
                   "WaitInvalid", "Failure"}

HonouredAborts == IF HandleAbort
                  THEN {"OperationAbortedByDlp", "OperationAbortedByOperator"}
                  ELSE {}

(* Outcomes that fall through to the retry path.                           *)
RetriedOutcomes == RemoteOutcomes \ ({"Successful", "Wait"} \cup HonouredAborts)

-------------------------------------------------------------------------------

Init ==
  /\ owner = "Configured"
  /\ tftpOperation = "None"
  /\ waitTimer = "Idle"
  /\ retries = 0
  /\ result = NoResult
  /\ completions = 0
  /\ attempts = 0
  /\ waits = 0
  /\ abortRequest = "None"

(* tftpOperation() followed by request() on the new TFTP operation.        *)
StartAttempt ==
  /\ tftpOperation' = "Running"
  /\ attempts' = attempts + 1

(* The call of operationCompletionHandlerV.                                *)
Report(r) ==
  /\ result' = r
  /\ completions' = completions + 1

Unreported == UNCHANGED <<result, completions>>

(* request()                                                               *)
Request ==
  /\ owner = "Configured"
  /\ owner' = "Requested"
  /\ retries' = 0
  /\ StartAttempt
  /\ Unreported
  /\ UNCHANGED <<waitTimer, waits, abortRequest>>

(* gracefulAbort() and abort(): the wait is cancelled, and a TFTP          *)
(* operation that is under way is aborted.                                 *)
CancelWait == waitTimer' = IF waitTimer = "Armed" THEN "Cancelled" ELSE waitTimer

Abort ==
  /\ owner = "Requested"
  /\ abortRequest' = "Made"
  /\ CancelWait
  /\ tftpOperation' = IF tftpOperation = "Running" THEN "Aborting"
                                                   ELSE tftpOperation
  /\ Unreported
  /\ UNCHANGED <<owner, retries, attempts, waits>>

(* ~OperationImpl(): the TFTP operation is aborted and released, the wait  *)
(* is cancelled.                                                           *)
Destroy ==
  /\ owner # "Destroyed"
  /\ owner' = "Destroyed"
  /\ tftpOperation' = "None"
  /\ CancelWait
  /\ Unreported
  /\ UNCHANGED <<retries, attempts, waits, abortRequest>>

-------------------------------------------------------------------------------
(* handleCompletion(): one disjunct per way the function returns.          *)

CompleteSuccessful ==
  /\ tftpOperation = "Running"
  /\ tftpOperation' = "None"
  /\ Report("Successful")
  /\ UNCHANGED <<owner, waitTimer, retries, attempts, waits, abortRequest>>

CompleteAborted ==
  /\ tftpOperation = "Aborting"
  /\ tftpOperation' = "None"
  /\ Report("Aborted")
  /\ UNCHANGED <<owner, waitTimer, retries, attempts, waits, abortRequest>>

CompleteByAbortMessage(message) ==
  /\ tftpOperation = "Running"
  /\ message \in HonouredAborts
  /\ tftpOperation' = "None"
  /\ Report(message)
  /\ UNCHANGED <<owner, waitTimer, retries, attempts, waits, abortRequest>>

(* Broken variants of Defer, kept to show which property notices them: the *)
(* wait is never started; the branch does not return and also retries.     *)
DeferWithoutWait ==
  /\ tftpOperation = "Running"
  /\ waits < MaxWaits
  /\ waits' = waits + 1
  /\ tftpOperation' = "None"
  /\ Unreported
  /\ UNCHANGED <<owner, waitTimer, retries, attempts, abortRequest>>

DeferWithoutReturn ==
  /\ tftpOperation = "Running"
  /\ waits < MaxWaits
  /\ waits' = waits + 1
  /\ retries < DlpRetries
  /\ retries' = retries + 1
  /\ StartAttempt
  /\ waitTimer' = "Armed"
  /\ Unreported
  /\ UNCHANGED <<owner, abortRequest>>

(* A valid WAIT: the timer is armed, the retry counter is left alone.      *)
Defer ==
  /\ tftpOperation = "Running"
  /\ waits < MaxWaits
  /\ waits' = waits + 1
  /\ tftpOperation' = "None"
  /\ waitTimer' = "Armed"
  /\ Unreported
  /\ UNCHANGED <<owner, retries, attempts, abortRequest>>

(* Broken variants of Retry: one attempt too many; a counter that is       *)
(* counted down past zero.                                                 *)
RetryOnceTooOften(outcome) ==
  /\ tftpOperation = "Running"
  /\ outcome \in RetriedOutcomes
  /\ retries' = (retries + 1) % CounterModulus
  /\ \/ /\ retries' > DlpRetries + 1
        /\ tftpOperation' = "None"
        /\ Report("CommunicationError")
        /\ UNCHANGED attempts
     \/ /\ retries' <= DlpRetries + 1
        /\ StartAttempt
        /\ Unreported
  /\ UNCHANGED <<owner, waitTimer, waits, abortRequest>>

RetryCountingDown(outcome) ==
  /\ tftpOperation = "Running"
  /\ outcome \in RetriedOutcomes
  /\ retries' = retries - 1
  /\ tftpOperation' = "None"
  /\ Report("CommunicationError")
  /\ UNCHANGED <<owner, waitTimer, attempts, waits, abortRequest>>

(* Every other outcome: the attempt is counted and, within the limit,      *)
(* repeated.  The increment wraps like the uint16_t of the code.           *)
Retry(outcome) ==
  /\ tftpOperation = "Running"
  /\ outcome \in RetriedOutcomes
  /\ retries' = (retries + 1) % CounterModulus
  /\ \/ /\ retries' > DlpRetries
        /\ tftpOperation' = "None"
        /\ Report("CommunicationError")
        /\ UNCHANGED attempts
     \/ /\ retries' <= DlpRetries
        /\ StartAttempt
        /\ Unreported
  /\ UNCHANGED <<owner, waitTimer, waits, abortRequest>>

HandleCompletion ==
  \/ CompleteSuccessful
  \/ CompleteAborted
  \/ \E message \in HonouredAborts : CompleteByAbortMessage(message)
  \/ Defer
  \/ \E outcome \in RetriedOutcomes : Retry(outcome)

-------------------------------------------------------------------------------

(* The wait elapses, or the timer fails: its handler is queued.            *)
WaitElapses ==
  /\ waitTimer = "Armed"
  /\ waitTimer' \in {"Expired", "Failed"}
  /\ UNCHANGED <<owner, tftpOperation, retries, result, completions, attempts,
                 waits, abortRequest>>

(* Broken variant of WaitFails: the error code is not looked at.           *)
WaitFailsUnnoticed ==
  /\ owner = "Requested"
  /\ waitTimer \in {"Cancelled", "Failed"}
  /\ waitTimer' = "Idle"
  /\ StartAttempt
  /\ Unreported
  /\ UNCHANGED <<owner, retries, waits, abortRequest>>

(* handleWaitTimeout() with operation_aborted or with another error.       *)
WaitFails ==
  /\ owner = "Requested"
  /\ waitTimer \in {"Cancelled", "Failed"}
  /\ waitTimer' = "Idle"
  /\ Report("OperationAbortedByDlp")
  /\ UNCHANGED <<owner, tftpOperation, retries, attempts, waits, abortRequest>>

(* handleWaitTimeout() without an error: the request is repeated.          *)
WaitOver ==
  /\ owner = "Requested"
  /\ waitTimer = "Expired"
  /\ waitTimer' = "Idle"
  /\ StartAttempt
  /\ Unreported
  /\ UNCHANGED <<owner, retries, waits, abortRequest>>

(* The handler was queued before the object was destroyed and now runs on  *)
(* released memory.  The build either still finds the old completion       *)
(* handler there or does something that has no effect on this state.       *)
WaitHandlerAfterDestruction ==
  /\ owner = "Destroyed"
  /\ waitTimer \in {"Cancelled", "Failed", "Expired"}
  /\ waitTimer' = "Idle"
  /\ \/ waitTimer # "Expired" /\ Report("OperationAbortedByDlp")
     \/ Unreported
  /\ UNCHANGED <<owner, tftpOperation, retries, attempts, waits, abortRequest>>

HandleWaitTimeout == WaitFails \/ WaitOver

Next == \/ Request
        \/ Abort
        \/ Destroy
        \/ HandleCompletion
        \/ WaitElapses
        \/ HandleWaitTimeout
        \/ WaitHandlerAfterDestruction

Spec == Init /\ [][Next]_vars

(* The TFTP library times out, so that every TFTP operation completes; a   *)
(* wait elapses; a queued handler is run.  Nothing makes an owner abort or *)
(* destroy an operation.                                                   *)
Fairness == /\ WF_vars(HandleCompletion)
            /\ WF_vars(WaitElapses)
            /\ WF_vars(HandleWaitTimeout)

FairSpec == Spec /\ Fairness

-------------------------------------------------------------------------------

TypeOK ==
  /\ owner \in {"Configured", "Requested", "Destroyed"}
  /\ tftpOperation \in {"None", "Running", "Aborting"}
  /\ waitTimer \in {"Idle", "Armed", "Expired", "Failed", "Cancelled"}
  /\ retries \in 0 .. CounterModulus - 1
  /\ result \in Results \cup {NoResult}
  /\ completions \in Nat
  /\ attempts \in Nat
  /\ waits \in 0 .. MaxWaits
  /\ abortRequest \in {"None", "Made"}

PendingWaits == IF waitTimer = "Idle" THEN 0 ELSE 1

Activities == (IF tftpOperation = "None" THEN 0 ELSE 1)
              + PendingWaits + completions

(* A requested operation is always exactly one of: a TFTP operation under  *)
(* way, a wait with its handler outstanding, or completed once.  So the    *)
(* wait timer and the TFTP completion can never both drive the operation,  *)
(* it is never forgotten, and the owner is never told twice                *)
(* (handleCompletion, handleWaitTimeout, gracefulAbort, abort).            *)
SingleActivity ==
  /\ owner = "Configured" => Activities = 0
  /\ owner = "Requested"  => Activities = 1
  /\ owner = "Destroyed"  => tftpOperation = "None" /\ Activities <= 1

(* The request is issued at most once, plus once per permitted retry, plus *)
(* once per WAIT answer.                                                   *)
AttemptsLimited == attempts <= 1 + DlpRetries + waits

(* WAIT answers never use up retries: the operation is given up with a     *)
(* communication error only after every permitted attempt was made.        *)
RetryBudget == /\ AttemptsLimited
               /\ result = "CommunicationError"
                    => attempts = 1 + DlpRetries + waits

(* An abort request that found the TFTP operation running, or the wait not *)
(* yet elapsed, is never followed by another attempt.                      *)
AbortedTransferNotReissued ==
  [][tftpOperation = "Aborting" \/ waitTimer = "Cancelled"
       => attempts' = attempts]_vars

(* The operation is a transfer as its owners know it: completed exactly    *)
(* once, and always, as long as the server does not answer WAIT forever    *)
(* and the owner does not destroy it.                                      *)
Promise == INSTANCE Transfer WITH
  phase   <- CASE owner = "Configured" -> "Idle"
               [] owner = "Destroyed"  -> "Dropped"
               [] OTHER -> IF completions = 0 THEN "Active" ELSE "Done",
  outcome <- IF owner = "Destroyed" THEN NoResult ELSE result

TransferImplemented == Promise!FairSpec

(* "Aborts the Operation Immediately" (tftp/clients/Operation.hpp:229):    *)
(* nothing is requested any more once abort() or gracefulAbort() returned. *)
NoAttemptAfterAbort == [][abortRequest = "Made" => attempts' = attempts]_vars

(* The destructor ends the wait (OperationImpl.cpp:107, "cancel potential  *)
(* wait timer"): the owner is not called back by a destroyed operation.    *)
NoReportAfterDestruction ==
  [][owner = "Destroyed" => completions' = completions]_vars

===============================================================================
