---------------------------- MODULE HostOperation ----------------------------
(***************************************************************************)
(* One operation of the host data loader                                   *)
(* (src/lib/arinc_615a/host/implementation): the shared state machine of   *)
(* OperationImpl and what the upload, the information and the two download *)
(* operations add to it.                                                   *)
(*                                                                         *)
(* The host reads the initialisation file and writes one request file as a *)
(* TFTP client, and receives status and list files as a TFTP server; each  *)
(* transfer ends in a handler of its own.  The watchdog (the DLP timer)    *)
(* runs beside them.  The handlers run on the I/O thread, the operator     *)
(* aborts from the GUI thread, and no lock keeps the two apart: doAbort()  *)
(* and isAborted() read abortReasonV and write it later, so each is two    *)
(* steps.  Transfers of data files are the adapter's and touch no state of *)
(* the operation.                                                          *)
(***************************************************************************)
EXTENDS Integers, Sequences

CONSTANTS
  StatusCodes,     \* codes the target puts into its status files
  MaxStatusFiles,  \* bound: status file requests of the target
  MaxListFiles,    \* bound: list file requests of the target
  MaxTerminations  \* bound: calls of terminate()

ASSUME BoundsAssumption ==
  /\ MaxStatusFiles \in Nat
  /\ MaxListFiles \in Nat
  /\ MaxTerminations \in Nat

Kinds == {"Upload", "Information", "MediaDefinedDownload",
          "OperatorDefinedDownload"}

(* The status codes that end an operation, and those that keep it going.   *)
FinalCodes == {"OperationNotAccepted", "OperationNotSupported",
               "OperationCompleted", "OperationAbortedByTargetHw",
               "OperationAbortedByDlp", "OperationAbortedByOperator"}

ProgressCodes == {"OperationAccepted", "OperationInProgress",
                  "OperationInProgressAdditionalInfo"}

RefusalCodes == {"OperationDenied", "OperationNotSupported"}

AbortReasons == {"Operator", "Protocol"}

VARIABLES
  kind,             \* the derived class
  initialisation,   \* the initialisation transfer and its outcome
  tftpServer,       \* tftpServerV
  abortReason,      \* abortReasonV
  guiThread,        \* "Tested" inside doAbort(), between test and assignment
  ioThread,         \* likewise, or "Sent" inside isAborted(), before the reset
  dlpTimer,         \* timerV: "Armed" while a wait is pending
  expiries,         \* waits of timerV that elapsed, their handlers queued
  statusFiles,      \* statusFileOperationsV: status transfers under way
  listFile,         \* listFileOperationV: "Active" while it holds a transfer
  droppedLists,     \* list transfers under way that listFileOperationV lost
  waitForFinalStatus, \* waitForFinalStatusV
  requestFile,      \* load list, download request or answer
  finishedCalls,    \* codes handed to OperationHandler::finished, in order
  decodedStatuses,  \* history: codes of the decoded status files
  listReceived,     \* history: "Yes" once a list file was decoded
  abortsAccepted,   \* history: aborts recorded in abortReasonV, by reason
  abortsSent,       \* history: ABORT messages sent to the target
  statusRequests, listRequests, terminations \* counts against the bounds

transferVars == <<statusFiles, listFile, droppedLists, requestFile>>
historyVars == <<decodedStatuses, listReceived, abortsAccepted, abortsSent>>
boundVars == <<statusRequests, listRequests, terminations>>
reportVars == <<finishedCalls, dlpTimer, tftpServer>>
abortVars == <<abortReason, abortsAccepted, initialisation, guiThread>>

vars == <<kind, initialisation, tftpServer, abortReason, guiThread, ioThread,
          dlpTimer, expiries, statusFiles, listFile, droppedLists,
          waitForFinalStatus, requestFile, finishedCalls, decodedStatuses,
          listReceived, abortsAccepted, abortsSent, statusRequests,
          listRequests, terminations>>

Init ==
  /\ kind \in Kinds
  /\ initialisation = "NotStarted"
  /\ tftpServer = "Stopped"
  /\ abortReason = "NoAbort"
  /\ guiThread = "Idle"
  /\ ioThread = "Idle"
  /\ dlpTimer = "Idle"
  /\ expiries = 0
  /\ statusFiles = 0
  /\ listFile = "None"
  /\ droppedLists = 0
  /\ waitForFinalStatus = "No"
  /\ requestFile = "NotIssued"
  /\ finishedCalls = <<>>
  /\ decodedStatuses = {}
  /\ listReceived = "No"
  /\ abortsAccepted = [reason \in AbortReasons |-> 0]
  /\ abortsSent = 0
  /\ statusRequests = 0
  /\ listRequests = 0
  /\ terminations = 0

-------------------------------------------------------------------------------
(* The services of OperationImpl.                                          *)

(* A finished() that leaves the TFTP server running.                       *)
FinishedStillServing(code) ==
  /\ finishedCalls' = Append(finishedCalls, code)
  /\ dlpTimer' = "Idle"
  /\ UNCHANGED tftpServer

(* finished(): nothing keeps it from being called again.  cancel() takes   *)
(* back a pending wait, never a handler that is queued.                    *)
Finished(code) ==
  /\ finishedCalls' = Append(finishedCalls, code)
  /\ dlpTimer' = "Idle"
  /\ tftpServer' = "Stopped"

NotFinished == UNCHANGED reportVars

(* triggerDlpTimeout()                                                     *)
TriggerDlpTimeout ==
  /\ dlpTimer' = "Armed"
  /\ UNCHANGED <<finishedCalls, tftpServer>>

(* gracefulAbort() of the initialisation transfer: a transfer between two  *)
(* attempts, or about to report, misses it (see TftpClientOperation).      *)
AbortInitialisation ==
  IF initialisation = "Running" THEN initialisation' \in {"Running", "Aborting"}
                                ELSE UNCHANGED initialisation

IoIdle == ioThread = "Idle"

(* doAbort() of the I/O thread, the test: an abort that is pending already *)
(* is enough.  ProtocolAbortRecorded goes on.                              *)
TestAbort == ioThread' = IF abortReason = "NoAbort" THEN "Tested" ELSE "Idle"

(* doAbort(), behind the test.                                             *)
RecordAbort(reason) ==
  /\ abortReason' = reason
  /\ abortsAccepted' = [abortsAccepted EXCEPT ![reason] = @ + 1]
  /\ AbortInitialisation

-------------------------------------------------------------------------------
(* start() and initialise(): the server listens, then the initialisation   *)
(* file is requested.  Either may throw.                                   *)
Start ==
  /\ initialisation = "NotStarted"
  /\ \/ initialisation' = "Running" /\ tftpServer' = "Listening"
     \/ initialisation' = "StartFailed" /\ tftpServer' \in {"Stopped", "Listening"}
  /\ waitForFinalStatus' = "No"
  /\ UNCHANGED <<kind, finishedCalls, dlpTimer, abortReason, guiThread,
                 ioThread, expiries, transferVars, historyVars, boundVars>>

(* initialisationFileCompleted(): the transfer failed or was aborted, or   *)
(* what it delivered cannot be decoded or has an unknown acceptance code.  *)
InitialisationFails ==
  /\ IoIdle
  /\ initialisation \in {"Running", "Aborting"}
  /\ initialisation' = "Refused"
  /\ Finished("OperationAbortedByDlp")
  /\ UNCHANGED <<kind, abortReason, guiThread, ioThread, expiries,
                 waitForFinalStatus, transferVars, historyVars, boundVars>>

InitialisationRefused(code) ==
  /\ IoIdle
  /\ initialisation = "Running"
  /\ initialisation' = "Refused"
  /\ Finished(code)
  /\ UNCHANGED <<kind, abortReason, guiThread, ioThread, expiries,
                 waitForFinalStatus, transferVars, historyVars, boundVars>>

(* A variant that leaves the watchdog to the first status file.            *)
InitialisationUnwatched ==
  /\ IoIdle
  /\ initialisation = "Running"
  /\ initialisation' = "Accepted"
  /\ NotFinished
  /\ UNCHANGED <<kind, abortReason, guiThread, ioThread, expiries,
                 waitForFinalStatus, transferVars, historyVars, boundVars>>

InitialisationAccepted ==
  /\ IoIdle
  /\ initialisation = "Running"
  /\ initialisation' = "Accepted"
  /\ TriggerDlpTimeout
  /\ UNCHANGED <<kind, abortReason, guiThread, ioThread, expiries,
                 waitForFinalStatus, transferVars, historyVars, boundVars>>

InitialisationFileCompleted ==
  \/ InitialisationFails
  \/ \E code \in RefusalCodes : InitialisationRefused(code)
  \/ InitialisationAccepted

-------------------------------------------------------------------------------
(* Status files.                                                           *)

(* statusFileRequest(), isAborted() true: the request is answered by an    *)
(* ABORT message.                                                          *)
DeliverAbort ==
  /\ IoIdle
  /\ tftpServer = "Listening"
  /\ statusRequests < MaxStatusFiles
  /\ abortReason # "NoAbort"
  /\ ioThread' = "Sent"
  /\ abortsSent' = abortsSent + 1
  /\ statusRequests' = statusRequests + 1
  /\ NotFinished
  /\ UNCHANGED <<kind, abortVars, expiries, waitForFinalStatus, transferVars,
                 decodedStatuses, listReceived, listRequests, terminations>>

(* A variant that keeps the reason after delivery.                         *)
AbortKept ==
  /\ ioThread = "Sent"
  /\ ioThread' = "Idle"
  /\ TriggerDlpTimeout
  /\ UNCHANGED <<kind, initialisation, abortReason, guiThread, expiries,
                 waitForFinalStatus, transferVars, historyVars, boundVars>>

(* isAborted() resets the reason, whatever it is by now.                   *)
AbortDelivered ==
  /\ ioThread = "Sent"
  /\ ioThread' = "Idle"
  /\ abortReason' = "NoAbort"
  /\ TriggerDlpTimeout
  /\ UNCHANGED <<kind, initialisation, guiThread, expiries,
                 waitForFinalStatus, transferVars, historyVars, boundVars>>

(* statusFileRequest(), isAborted() false: the transfer starts and is      *)
(* entered in the list of status transfers.                                *)
StatusFileRequest ==
  /\ IoIdle
  /\ tftpServer = "Listening"
  /\ statusRequests < MaxStatusFiles
  /\ abortReason = "NoAbort"
  /\ statusFiles' = statusFiles + 1
  /\ statusRequests' = statusRequests + 1
  /\ NotFinished
  /\ UNCHANGED <<kind, initialisation, abortReason, guiThread, ioThread,
                 expiries, listFile, droppedLists, requestFile,
                 waitForFinalStatus, historyVars, listRequests, terminations>>

(* statusFileCompleted(): one action per way it ends.                      *)
StatusTransferEnds ==
  /\ IoIdle
  /\ statusFiles > 0
  /\ statusFiles' = statusFiles - 1
  /\ UNCHANGED <<kind, abortVars, ioThread, expiries, listFile, droppedLists,
                 requestFile, listReceived, abortsSent, boundVars>>

Decoded(code) == decodedStatuses' = decodedStatuses \cup {code}

StatusFileFails ==
  /\ StatusTransferEnds
  /\ Finished("OperationAbortedByDlp")
  /\ UNCHANGED <<waitForFinalStatus, decodedStatuses>>

StatusFileUndecodable ==
  /\ StatusTransferEnds
  /\ NotFinished
  /\ UNCHANGED <<waitForFinalStatus, decodedStatuses>>

StatusFileFinal(code) ==
  /\ code \in FinalCodes
  /\ StatusTransferEnds
  /\ Decoded(code)
  /\ Finished(code)
  /\ UNCHANGED waitForFinalStatus

(* A variant that forgets to wait for the final status.                    *)
StatusFileProgressNotAwaited(code) ==
  /\ code \in ProgressCodes
  /\ StatusTransferEnds
  /\ Decoded(code)
  /\ TriggerDlpTimeout
  /\ UNCHANGED waitForFinalStatus

StatusFileProgress(code) ==
  /\ code \in ProgressCodes
  /\ StatusTransferEnds
  /\ Decoded(code)
  /\ TriggerDlpTimeout
  /\ waitForFinalStatus' = IF kind = "Information" THEN "Yes"
                                                   ELSE waitForFinalStatus

(* A variant that hands on a code the owner does not know.                 *)
StatusFileInvalidPassedOn(code) ==
  /\ code \notin FinalCodes \cup ProgressCodes
  /\ StatusTransferEnds
  /\ Decoded(code)
  /\ Finished(code)
  /\ UNCHANGED waitForFinalStatus

StatusFileInvalid(code) ==
  /\ code \notin FinalCodes \cup ProgressCodes
  /\ StatusTransferEnds
  /\ Decoded(code)
  /\ Finished("OperationAbortedByDlp")
  /\ UNCHANGED waitForFinalStatus

StatusFileCompleted ==
  \/ StatusFileFails
  \/ StatusFileUndecodable
  \/ \E code \in StatusCodes : \/ StatusFileFinal(code)
                               \/ StatusFileProgress(code)
                               \/ StatusFileInvalid(code)

-------------------------------------------------------------------------------
(* List files (information and operator defined download).                 *)

(* The information operation ends with its list unless a status file has   *)
(* announced a final one.                                                  *)
EndsWithList == kind = "Information" /\ waitForFinalStatus = "No"

(* A variant that takes a failed list for the end of the operation.        *)
ListFailureIsSuccess ==
  IF EndsWithList
  THEN Finished("OperationCompleted") /\ UNCHANGED ioThread
  ELSE TestAbort /\ NotFinished

(* listFileCompleted() without a usable list file.                         *)
ListFailure ==
  IF EndsWithList
  THEN Finished("OperationAbortedByDlp") /\ UNCHANGED ioThread
  ELSE TestAbort /\ NotFinished

(* listFileCompleted() with a decoded list file.                           *)
ListSuccess ==
  /\ CASE EndsWithList                                 -> Finished("OperationCompleted")
       [] kind = "Information" /\ ~EndsWithList        -> TriggerDlpTimeout
       [] kind # "Information"                         -> NotFinished
  /\ UNCHANGED ioThread

(* listFileRequest(): a transfer under way is aborted and its handle is    *)
(* overwritten; its completion handler may run in gracefulAbort() or after *)
(* the new transfer has started.                                           *)
ListFileRequest ==
  /\ IoIdle
  /\ tftpServer = "Listening"
  /\ listRequests < MaxListFiles
  /\ listRequests' = listRequests + 1
  /\ listFile' = "Active"
  /\ \/ /\ listFile = "None"
        /\ UNCHANGED <<droppedLists, ioThread, reportVars>>
     \/ /\ listFile = "Active"
        /\ droppedLists' = droppedLists + 1
        /\ UNCHANGED <<ioThread, reportVars>>
     \/ /\ listFile = "Active"
        /\ UNCHANGED droppedLists
        /\ ListFailure
  /\ UNCHANGED <<kind, abortVars, expiries, statusFiles, requestFile,
                 waitForFinalStatus, decodedStatuses, listReceived, abortsSent,
                 statusRequests, terminations>>

(* listFileOperationV.reset(), called by the handler of the transfer the   *)
(* handle holds, or by that of a replaced one, which so drops the new      *)
(* transfer.                                                               *)
ListTransferEnds ==
  /\ IoIdle
  /\ listFile' = "None"
  /\ \/ listFile = "Active" /\ UNCHANGED droppedLists
     \/ /\ droppedLists > 0
        /\ droppedLists' = IF listFile = "Active" THEN droppedLists
                                                  ELSE droppedLists - 1
  /\ UNCHANGED <<kind, abortVars, expiries, statusFiles, requestFile,
                 waitForFinalStatus, decodedStatuses, abortsSent, boundVars>>

ListFileCompleted ==
  /\ ListTransferEnds
  /\ \/ ListFailure /\ UNCHANGED listReceived
     \/ ListSuccess /\ listReceived' = "Yes"

(* The last handle is gone: the library may also drop the transfer.        *)
DroppedListVanishes ==
  /\ droppedLists > 0
  /\ droppedLists' = droppedLists - 1
  /\ NotFinished
  /\ UNCHANGED <<kind, abortVars, ioThread, expiries, statusFiles, listFile,
                 requestFile, waitForFinalStatus, decodedStatuses,
                 listReceived, abortsSent, boundVars>>

-------------------------------------------------------------------------------
(* The file the operator's choice is sent in; the wizard sends it once, on *)
(* the GUI thread.                                                         *)
RequestFileStarts ==
  /\ guiThread = "Idle"
  /\ requestFile = "NotIssued"
  /\ requestFile' = "Running"
  /\ NotFinished
  /\ UNCHANGED <<kind, abortVars, ioThread, expiries, statusFiles, listFile,
                 droppedLists, waitForFinalStatus, decodedStatuses,
                 listReceived, abortsSent, boundVars>>

(* loadList() and request(): on the first status file with                 *)
(* OperationAccepted.                                                      *)
LoadList ==
  /\ kind = "Upload"
  /\ "OperationAccepted" \in decodedStatuses
  /\ RequestFileStarts

Request ==
  /\ kind = "MediaDefinedDownload"
  /\ "OperationAccepted" \in decodedStatuses
  /\ RequestFileStarts

(* The wizard's page after the selection of files: the operator moves on   *)
(* to it, or the end of the operation does.                                *)
StatusPageOpens == listReceived = "Yes" \/ finishedCalls # <<>>

(* answer()                                                                *)
Answer ==
  /\ kind = "OperatorDefinedDownload"
  /\ StatusPageOpens
  /\ RequestFileStarts

TransmitRequestFile == LoadList \/ Request \/ Answer

(* The transfer of the request file ends; an option in the answer of the   *)
(* target makes it fail.                                                   *)
RequestFileCompleted ==
  /\ IoIdle
  /\ requestFile = "Running"
  /\ \/ requestFile' = "Sent" /\ UNCHANGED ioThread
     \/ requestFile' = "Failed" /\ TestAbort
  /\ NotFinished
  /\ UNCHANGED <<kind, abortVars, expiries, statusFiles, listFile, droppedLists,
                 waitForFinalStatus, decodedStatuses, listReceived, abortsSent,
                 boundVars>>

LoadListCompleted == kind = "Upload" /\ RequestFileCompleted

RequestCompleted == kind = "MediaDefinedDownload" /\ RequestFileCompleted

AnswerCompleted == kind = "OperatorDefinedDownload" /\ RequestFileCompleted

-------------------------------------------------------------------------------
(* What each operation takes from the target: tftpRequest() and the        *)
(* handlers it leads to.  Every other request is answered with an error or *)
(* handed to the adapter, and changes nothing here.                        *)

StatusRequest == DeliverAbort \/ StatusFileRequest

UploadTftpRequest == kind = "Upload" /\ StatusRequest

(* A request to read a status or list file is answered with an error and   *)
(* then served as one to write it.                                         *)
InformationTftpRequest ==
  kind = "Information" /\ (StatusRequest \/ ListFileRequest)

MediaDefinedTftpRequest == kind = "MediaDefinedDownload" /\ StatusRequest

OperatorDefinedTftpRequest ==
  kind = "OperatorDefinedDownload" /\ (StatusRequest \/ ListFileRequest)

ReceivedTftpRequest ==
  \/ UploadTftpRequest
  \/ InformationTftpRequest
  \/ MediaDefinedTftpRequest
  \/ OperatorDefinedTftpRequest

UploadStatusFileCompleted == kind = "Upload" /\ StatusFileCompleted

InformationStatusFileCompleted == kind = "Information" /\ StatusFileCompleted

DownloadStatusFileCompleted ==
  kind \in {"MediaDefinedDownload", "OperatorDefinedDownload"}
    /\ StatusFileCompleted

InformationListFileCompleted == kind = "Information" /\ ListFileCompleted

OperatorDefinedListFileCompleted ==
  kind = "OperatorDefinedDownload" /\ ListFileCompleted

TransferCompleted ==
  \/ UploadStatusFileCompleted
  \/ InformationStatusFileCompleted
  \/ DownloadStatusFileCompleted
  \/ InformationListFileCompleted
  \/ OperatorDefinedListFileCompleted
  \/ LoadListCompleted
  \/ RequestCompleted
  \/ AnswerCompleted

-------------------------------------------------------------------------------
(* abort() by the operator, the wizard's button: the test of doAbort().    *)
Abort ==
  /\ initialisation # "NotStarted"
  /\ guiThread = "Idle"
  /\ abortReason = "NoAbort"
  /\ guiThread' = "Tested"
  /\ NotFinished
  /\ UNCHANGED <<kind, initialisation, abortReason, ioThread, expiries,
                 transferVars, waitForFinalStatus, historyVars, boundVars>>

(* The assignments of doAbort(), on either thread, by now perhaps over the *)
(* reason that the other thread has recorded.                              *)
OperatorAbortRecorded ==
  /\ guiThread = "Tested"
  /\ guiThread' = "Idle"
  /\ RecordAbort("Operator")
  /\ NotFinished
  /\ UNCHANGED <<kind, ioThread, expiries, transferVars, waitForFinalStatus,
                 decodedStatuses, listReceived, abortsSent, boundVars>>

ProtocolAbortRecorded ==
  /\ ioThread = "Tested"
  /\ ioThread' = "Idle"
  /\ RecordAbort("Protocol")
  /\ NotFinished
  /\ UNCHANGED <<kind, guiThread, expiries, transferVars, waitForFinalStatus,
                 decodedStatuses, listReceived, abortsSent, boundVars>>

AbortSteps == OperatorAbortRecorded \/ ProtocolAbortRecorded \/ AbortDelivered

(* doTerminate()                                                           *)
Terminate(reason) ==
  /\ guiThread = "Idle"
  /\ initialisation # "NotStarted"
  /\ terminations < MaxTerminations
  /\ terminations' = terminations + 1
  /\ AbortInitialisation
  /\ Finished(IF reason = "Operator" THEN "OperationAbortedByOperator"
                                     ELSE "OperationAbortedByDlp")
  /\ UNCHANGED <<kind, abortReason, guiThread, ioThread, expiries,
                 transferVars, waitForFinalStatus, historyVars, statusRequests,
                 listRequests>>

(* The wait elapses: its handler is queued and runs later.                 *)
DlpTimerExpires ==
  /\ dlpTimer = "Armed"
  /\ dlpTimer' = "Idle"
  /\ expiries' = expiries + 1
  /\ UNCHANGED <<kind, initialisation, tftpServer, abortReason, guiThread,
                 ioThread, finishedCalls, waitForFinalStatus, transferVars,
                 historyVars, boundVars>>

(* timerHandler(), for a wait that elapsed or failed.                      *)
TimerHandler ==
  /\ IoIdle
  /\ expiries > 0
  /\ expiries' = expiries - 1
  /\ Finished("OperationAbortedByDlp")
  /\ UNCHANGED <<kind, initialisation, abortReason, guiThread, ioThread,
                 waitForFinalStatus, transferVars, historyVars, boundVars>>

Next ==
  \/ Start
  \/ InitialisationFileCompleted
  \/ ReceivedTftpRequest
  \/ TransferCompleted
  \/ DroppedListVanishes
  \/ TransmitRequestFile
  \/ Abort
  \/ AbortSteps
  \/ \E reason \in AbortReasons : Terminate(reason)
  \/ DlpTimerExpires
  \/ TimerHandler

Spec == Init /\ [][Next]_vars

(* The I/O thread runs a queued handler to its end, an armed timer elapses *)
(* and the transfer of the initialisation file ends (see PromiseKept and   *)
(* TransferImplemented of TftpClientOperation).  Nothing obliges the       *)
(* operator or the target to act.                                          *)
FairSpec ==
  /\ Spec
  /\ WF_vars(InitialisationFileCompleted)
  /\ WF_vars(DlpTimerExpires)
  /\ WF_vars(TimerHandler)
  /\ WF_vars(ProtocolAbortRecorded \/ AbortDelivered)

-------------------------------------------------------------------------------
TypeOK ==
  /\ kind \in Kinds
  /\ initialisation \in {"NotStarted", "StartFailed", "Running", "Aborting",
                         "Accepted", "Refused"}
  /\ tftpServer \in {"Stopped", "Listening"}
  /\ abortReason \in AbortReasons \cup {"NoAbort"}
  /\ guiThread \in {"Idle", "Tested"}
  /\ ioThread \in {"Idle", "Tested", "Sent"}
  /\ dlpTimer \in {"Idle", "Armed"}
  /\ expiries \in Nat
  /\ statusFiles \in Nat
  /\ listFile \in {"None", "Active"}
  /\ droppedLists \in Nat
  /\ waitForFinalStatus \in {"No", "Yes"}
  /\ requestFile \in {"NotIssued", "Running", "Sent", "Failed"}
  /\ finishedCalls \in Seq(FinalCodes \cup RefusalCodes)
  /\ decodedStatuses \subseteq StatusCodes
  /\ listReceived \in {"No", "Yes"}
  /\ abortsAccepted \in [AbortReasons -> Nat]
  /\ abortsSent \in Nat
  /\ statusRequests \in 0 .. MaxStatusFiles
  /\ listRequests \in 0 .. MaxListFiles
  /\ terminations \in 0 .. MaxTerminations

(* An accepted operation that has not finished is under the watchdog: a    *)
(* wait is pending or its expiry is about to be handled.  Every path out   *)
(* of triggerDlpTimeout(), isAborted(), finished() and timerHandler() has  *)
(* to see to it, or a silent target hangs the operation for ever.          *)
WatchdogCoversOperation ==
  initialisation = "Accepted" /\ finishedCalls = <<>> =>
    dlpTimer = "Armed" \/ expiries > 0

(* Success is reported only if the target said so in a status file, or for *)
(* an information operation that received its list: no timeout, failed     *)
(* transfer or abort is ever told as OperationCompleted                    *)
(* (finished(), listFileCompleted()).                                      *)
NoFalseSuccess ==
  \A i \in 1 .. Len(finishedCalls) :
    finishedCalls[i] = "OperationCompleted" =>
      \/ "OperationCompleted" \in decodedStatuses
      \/ kind = "Information" /\ listReceived = "Yes"

(* Once the target announced a final status, only its own OperationCompleted *)
(* ends the operation successfully; the arrival of the list no longer does *)
(* (waitForFinalStatusV).  A list before the announcement still may.       *)
FinalStatusDecides ==
  [][ /\ decodedStatuses \cap ProgressCodes # {}
      /\ finishedCalls' # finishedCalls
      /\ finishedCalls'[Len(finishedCalls')] = "OperationCompleted"
      => "OperationCompleted" \in decodedStatuses' ]_vars

(* An ABORT message stands for an abort that was recorded: one that was    *)
(* sent, or one to come while the reason is pending and not about to be    *)
(* reset.                                                                  *)
AbortMessages ==
  abortsSent + (IF abortReason # "NoAbort" /\ ioThread # "Sent" THEN 1 ELSE 0)

(* However the unlocked doAbort() of the two threads and isAborted()       *)
(* interleave with status requests and failed transfers, no abort is sent  *)
(* twice, and the aborts of one thread are all sent: only two recorded by  *)
(* different threads may share one ABORT message.                          *)
AbortAccounted ==
  /\ \A reason \in AbortReasons : abortsAccepted[reason] <= AbortMessages
  /\ AbortMessages <= abortsAccepted["Operator"] + abortsAccepted["Protocol"]

(* A finished operation takes no further request of the target: nothing    *)
(* starts the server again or accepts a status or list transfer.           *)
FinishedTakesNoRequests ==
  [][ finishedCalls # <<>> =>
        UNCHANGED <<statusRequests, listRequests, abortsSent>> ]_vars

(* An operation whose initialisation was requested reports an end, even if *)
(* the target falls silent at any point: the DLP timeout sees to it.       *)
OperationEnds == initialisation = "Running" ~> finishedCalls # <<>>

(* OperationImpl.hpp:154 says that finished() sets a finished flag: the    *)
(* owner is told of the end once.                                          *)
FinishedOnce == Len(finishedCalls) <= 1
=============================================================================
