--------------------------- MODULE TargetOperation ---------------------------
(***************************************************************************)
(* One operation of a target (src/lib/arinc_615a/target/implementation):   *)
(* the shared part of OperationImpl and what the upload, the information   *)
(* and the two download operations add to it.                              *)
(*                                                                         *)
(* The target answers the initialisation request as a TFTP server, writes  *)
(* status files as a TFTP client whenever the status timer elapses, and    *)
(* receives one request file.  The application drives it, perhaps from a   *)
(* thread of its own (statusMutex): it accepts, reports progress and       *)
(* finishes.  statusFile() releases the mutex between encoding the status  *)
(* and copying it, so it is two steps here.  Of the descriptions and names *)
(* in the status only their length matters: one that is too long for a     *)
(* status file makes the encoder throw.  The ratios and codes of single    *)
(* loads and files are left out.                                           *)
(***************************************************************************)
EXTENDS Integers

CONSTANTS
  Decisions,         \* final statuses the application decides on
  Texts,             \* lengths of the texts the application gives
  MaxExpiries,       \* bound: expiries of the status timer queued at a time
  MaxRequestFiles,   \* bound: request file transfers of the host
  MaxAborts          \* bound: ABORT answers of the host

ASSUME TargetBoundsAssumption ==
  /\ MaxExpiries \in Nat
  /\ MaxRequestFiles \in Nat
  /\ MaxAborts \in Nat

FinalStatuses == {"Completed", "AbortedByDlp", "AbortedByOperator",
                  "AbortedByTargetHardware",
                  "LoadPartNumberOrDownloadFileFailed"}

ASSUME DecisionsAssumption == Decisions \subseteq FinalStatuses

(* A text of 254 characters or more cannot be written (String_encode()).   *)
TextLengths == {"Fits", "TooLong"}

ASSUME TextsAssumption == Texts \subseteq TextLengths

Kinds == {"Upload", "Information", "MediaDefinedDownload",
          "OperatorDefinedDownload"}

(* OperationInProgress stands for the code with additional information too. *)
ProgressCodes == {"OperationAccepted", "OperationInProgress"}

FinalCodes == {"OperationCompleted", "OperationAbortedByTargetHw",
               "OperationAbortedByDlp", "OperationAbortedByOperator"}

SentCodes == ProgressCodes \cup FinalCodes

(* A variant that hands an unknown final status on.                        *)
StatusCodeUnmapped(status) ==
  CASE status = "Completed"         -> "OperationCompleted"
    [] status = "AbortedByDlp"      -> "OperationAbortedByDlp"
    [] status = "AbortedByOperator" -> "OperationAbortedByOperator"
    [] OTHER                        -> status

(* statusCode(): the failure of a single load has no code of its own for   *)
(* the whole operation.                                                    *)
StatusCode(status) ==
  CASE status = "Completed"         -> "OperationCompleted"
    [] status = "AbortedByDlp"      -> "OperationAbortedByDlp"
    [] status = "AbortedByOperator" -> "OperationAbortedByOperator"
    [] OTHER                        -> "OperationAbortedByTargetHw"

(* finalStatus()                                                           *)
FinalStatus(code) ==
  CASE code = "OperationCompleted"         -> "Completed"
    [] code = "OperationAbortedByDlp"      -> "AbortedByDlp"
    [] code = "OperationAbortedByOperator" -> "AbortedByOperator"
    [] OTHER                               -> "AbortedByTargetHardware"

(* The I/O thread runs the handlers, the application calls the operation.  *)
Threads == {"Io", "Application"}

VARIABLES
  kind,             \* the derived class
  initialisation,   \* initialisationOperationV and its outcome
  code,             \* statusV.code(), the status to be sent next
  description,      \* statusV.description(): whether it can be encoded
  loadTexts,        \* likewise the texts of the loads or files in statusV
  statusTimer,      \* statusTransmissionTimerV: "Armed" while a wait is pending
  expiries,         \* waits that elapsed, their handlers queued
  activity,         \* per thread: where in statusFile() it is
  statusTransfer,   \* statusOperation: the status file on its way
  listTransfer,     \* targetInformationOperation, downloadingListOperation
  requestFile,      \* requestFileOperation, answerFileOperation
  droppedRequests,  \* request file transfers that requestFile lost
  requestFiles,     \* count against the bound
  decision,         \* history: what the application gave to finished()
  abortRequests,    \* history: aborts told to the handler
  reports,          \* history: final statuses told to the handler
  delivered,        \* history: final codes in status files the host received
  ioException       \* history: "Yes" once the encoder threw on the I/O thread

statusVars == <<code, description>>
requestVars == <<requestFile, droppedRequests, requestFiles>>
historyVars == <<decision, abortRequests, reports, delivered, ioException>>
timerVars == <<statusTimer, expiries>>

vars == <<kind, initialisation, statusVars, loadTexts, timerVars, activity,
          statusTransfer, listTransfer, requestVars, historyVars>>

(* A status file: the code encoded in it, the code its completion handler  *)
(* was given, and how far it got.                                          *)
StatusTransfers == [file : SentCodes, sent : SentCodes \cup {"Invalid"},
                    progress : {"Running", "Received"}]

NoTransfer == [file |-> "None", sent |-> "None", progress |-> "None"]

Init ==
  /\ kind \in Kinds
  /\ initialisation = "NotStarted"
  /\ code = "Invalid"
  /\ description = "Fits"
  /\ loadTexts = "Fits"
  /\ statusTimer = "Idle"
  /\ expiries = 0
  /\ activity = [t \in Threads |-> "Idle"]
  /\ statusTransfer = NoTransfer
  /\ listTransfer = "NotIssued"
  /\ requestFile = "None"
  /\ droppedRequests = 0
  /\ requestFiles = 0
  /\ decision = "None"
  /\ abortRequests = 0
  /\ reports = {}
  /\ delivered = {}
  /\ ioException = "No"

-------------------------------------------------------------------------------
(* The services of OperationImpl.                                          *)

(* triggerStatusTransmission(): a wait of no length.                       *)
TriggerStatusTransmission == statusTimer' = "Armed"

(* triggerStatusTransmissionTimer(): both replace a pending wait, never a  *)
(* handler that is queued.                                                 *)
TriggerStatusTransmissionTimer == statusTimer' = "Armed"

(* finalise(): nothing keeps it from being called again.                   *)
Finalise(status) ==
  /\ reports' = reports \cup {status}
  /\ statusTimer' = "Idle"

IoIdle == activity["Io"] = "Idle"

(* status()                                                                *)
SetStatus(status, text) == code' = status /\ description' = text

(* Sets the status and sends it: by the timer, or for the information      *)
(* operation by a call of statusFile() on the calling thread.  The texts   *)
(* of the target itself are short.                                         *)
ForceStatus(t, status, text) ==
  /\ SetStatus(status, text)
  /\ IF kind = "Information"
     THEN /\ activity' = [activity EXCEPT ![t] = "Called"]
          /\ UNCHANGED statusTimer
     ELSE /\ TriggerStatusTransmission
          /\ UNCHANGED activity

-------------------------------------------------------------------------------
(* sendInitFile(): an exception is logged only.                            *)
SendInitFile == initialisation' \in {"Sending", "StartFailed"}

(* start(), doStart()                                                      *)
Start ==
  /\ initialisation = "NotStarted"
  /\ SendInitFile
  /\ UNCHANGED <<kind, loadTexts, statusVars, timerVars, activity,
                 statusTransfer, listTransfer, requestVars, historyVars>>

(* A variant that leaves the first status file to the application.         *)
InitFileSentUntimed ==
  /\ initialisation' = "Sent"
  /\ UNCHANGED <<statusTimer, reports>>

InitFileSent ==
  /\ initialisation' = "Sent"
  /\ TriggerStatusTransmissionTimer
  /\ UNCHANGED reports

InitFileFails ==
  /\ initialisation' = "Failed"
  /\ Finalise("AbortedByTargetHardware")

(* sendInitFileComplete()                                                  *)
SendInitFileComplete ==
  /\ initialisation = "Sending"
  /\ IoIdle
  /\ InitFileSent \/ InitFileFails
  /\ UNCHANGED <<kind, loadTexts, statusVars, expiries, activity,
                 statusTransfer, listTransfer, requestVars, decision,
                 abortRequests, delivered, ioException>>

-------------------------------------------------------------------------------
(* Calls of the application, until it decided or was told of the end.      *)
ApplicationCalls ==
  /\ initialisation = "Sent"
  /\ activity["Application"] = "Idle"
  /\ decision = "None"
  /\ reports = {}
  /\ UNCHANGED <<kind, initialisation, expiries, statusTransfer, requestVars,
                 abortRequests, reports, delivered, ioException>>

(* accepted(): sends whatever status was sent before.                      *)
Accepted ==
  /\ ApplicationCalls
  /\ ForceStatus("Application", "OperationAccepted", "Fits")
  /\ UNCHANGED <<loadTexts, listTransfer, decision>>

(* inProgress(), with and without immediate transmission.                  *)
InProgress ==
  /\ ApplicationCalls
  /\ \E text \in Texts :
       \/ ForceStatus("Application", "OperationInProgress", text)
       \/ /\ SetStatus("OperationInProgress", text)
          /\ UNCHANGED <<activity, statusTimer>>
  /\ UNCHANGED <<loadTexts, listTransfer, decision>>

(* loadAccepted(), loadInProgress(), loadFinished(), loadsFinished() and   *)
(* the calls of the downloads for a file.                                  *)
LoadStatus ==
  /\ ApplicationCalls
  /\ loadTexts' \in Texts
  /\ UNCHANGED <<statusVars, activity, statusTimer, listTransfer, decision>>

(* finished()                                                              *)
Finished(status) ==
  /\ ApplicationCalls
  /\ decision' = status
  /\ \E text \in Texts : ForceStatus("Application", StatusCode(status), text)
  /\ UNCHANGED <<loadTexts, listTransfer>>

(* targetInformation() of the information operation and downloadingList()  *)
(* of the operator defined download, called once.                          *)
SendList ==
  /\ ApplicationCalls
  /\ listTransfer = "NotIssued"
  /\ listTransfer' = "Running"
  /\ UNCHANGED <<statusVars, loadTexts, activity, statusTimer, decision>>

UploadCalls ==
  kind = "Upload" /\ (Accepted \/ InProgress \/ LoadStatus)

MediaDefinedDownloadCalls ==
  kind = "MediaDefinedDownload" /\ (Accepted \/ InProgress \/ LoadStatus)

OperatorDefinedDownloadCalls ==
  kind = "OperatorDefinedDownload" /\ (Accepted \/ InProgress \/ LoadStatus)

InformationCalls ==
  kind = "Information" /\ (Accepted \/ InProgress)

TargetInformation == kind = "Information" /\ SendList

DownloadingList == kind = "OperatorDefinedDownload" /\ SendList

Finish == \E status \in Decisions : Finished(status)

-------------------------------------------------------------------------------
(* The status timer.                                                       *)

(* The wait elapses: its handler is queued and runs later.                 *)
StatusTimerExpires ==
  /\ statusTimer = "Armed"
  /\ expiries < MaxExpiries
  /\ statusTimer' = "Idle"
  /\ expiries' = expiries + 1
  /\ UNCHANGED <<kind, loadTexts, initialisation, statusVars, activity,
                 statusTransfer, listTransfer, requestVars, historyVars>>

(* statusTransmissionTimerHandler(), also after an error of the timer.     *)
StatusTransmissionTimerHandler ==
  /\ expiries > 0
  /\ IoIdle
  /\ expiries' = expiries - 1
  /\ activity' = [activity EXCEPT !["Io"] = "Called"]
  /\ UNCHANGED <<kind, loadTexts, initialisation, statusVars, statusTimer,
                 statusTransfer, listTransfer, requestVars, historyVars>>

-------------------------------------------------------------------------------
(* statusFile(), the part that holds statusMutex: a status that was never  *)
(* set is sent as accepted.                                                *)
StatusFileCalled(t) ==
  /\ activity[t] = "Called"
  /\ code' = IF code = "Invalid" THEN "OperationAccepted" ELSE code
  /\ UNCHANGED <<kind, loadTexts, initialisation, description, timerVars,
                 statusTransfer, listTransfer, requestVars, decision,
                 abortRequests, reports, delivered>>

StatusFits == description = "Fits" /\ loadTexts = "Fits"

EncodeStatusFile(t) ==
  /\ StatusFileCalled(t)
  /\ StatusFits
  /\ activity' = [activity EXCEPT ![t] = code']
  /\ UNCHANGED ioException

(* The encoder throws, and nothing up to the caller catches it: on the I/O *)
(* thread it leaves io_context::run(), which the owner may call again.     *)
EncodeStatusFileThrows(t) ==
  /\ StatusFileCalled(t)
  /\ ~StatusFits
  /\ \/ /\ t = "Io"
        /\ \E next \in {"Idle", "Exited"} :
             activity' = [activity EXCEPT ![t] = next]
        /\ ioException' = "Yes"
     \/ /\ t = "Application"
        /\ activity' = [activity EXCEPT ![t] = "Idle"]
        /\ UNCHANGED ioException

(* The part after the unlock: statusV is copied again, for the completion  *)
(* handler, and a transfer under way is overwritten and so destroyed.      *)
SendStatusFile(t) ==
  /\ activity[t] \in SentCodes
  /\ statusTransfer' = [file |-> activity[t], sent |-> code,
                        progress |-> "Running"]
  /\ TriggerStatusTransmissionTimer
  /\ activity' = [activity EXCEPT ![t] = "Idle"]
  /\ UNCHANGED <<kind, loadTexts, initialisation, statusVars, expiries,
                 listTransfer, requestVars, historyVars>>

StatusFile(t) ==
  EncodeStatusFile(t) \/ EncodeStatusFileThrows(t) \/ SendStatusFile(t)

UploadStatusFile ==
  kind = "Upload" /\ StatusFile("Io")

MediaDefinedDownloadStatusFile ==
  kind = "MediaDefinedDownload" /\ StatusFile("Io")

OperatorDefinedDownloadStatusFile ==
  kind = "OperatorDefinedDownload" /\ StatusFile("Io")

InformationStatusFile ==
  kind = "Information" /\ \E t \in Threads : StatusFile(t)

(* The host has the whole file; the target does not know yet.              *)
HostReceivesStatusFile ==
  /\ statusTransfer.progress = "Running"
  /\ statusTransfer' = [statusTransfer EXCEPT !.progress = "Received"]
  /\ delivered' = delivered \cup ({statusTransfer.file} \cap FinalCodes)
  /\ UNCHANGED <<kind, loadTexts, initialisation, statusVars, timerVars,
                 activity, listTransfer, requestVars, decision, abortRequests,
                 reports, ioException>>

-------------------------------------------------------------------------------
(* statusFileCompleted(), one action per way it ends.                      *)
StatusTransferEnds ==
  /\ statusTransfer # NoTransfer
  /\ IoIdle
  /\ statusTransfer' = NoTransfer
  /\ UNCHANGED <<kind, loadTexts, initialisation, expiries, listTransfer,
                 requestVars, decision, delivered, ioException>>

(* The host answered with an ABORT message: the application has to finish. *)
StatusFileAborted ==
  /\ abortRequests < MaxAborts
  /\ StatusTransferEnds
  /\ abortRequests' = abortRequests + 1
  /\ UNCHANGED <<statusVars, activity, statusTimer, reports>>

StatusFileFails ==
  /\ StatusTransferEnds
  /\ Finalise("AbortedByTargetHardware")
  /\ UNCHANGED <<statusVars, activity, abortRequests>>

(* A variant that takes a transmitted status for the end of the operation. *)
ProgressEndsOperation ==
  /\ statusTransfer.progress = "Received"
  /\ statusTransfer.sent \in ProgressCodes
  /\ StatusTransferEnds
  /\ Finalise("Completed")
  /\ UNCHANGED <<statusVars, activity, abortRequests>>

(* A variant that takes the status sent for the one to send next.          *)
ProgressRestored ==
  /\ statusTransfer.progress = "Received"
  /\ statusTransfer.sent \in ProgressCodes
  /\ StatusTransferEnds
  /\ TriggerStatusTransmissionTimer
  /\ code' = statusTransfer.sent
  /\ UNCHANGED <<description, activity, abortRequests, reports>>

(* A progress status was sent: the next one is due.                        *)
ProgressTransmitted ==
  /\ statusTransfer.progress = "Received"
  /\ statusTransfer.sent \in ProgressCodes
  /\ StatusTransferEnds
  /\ TriggerStatusTransmissionTimer
  /\ UNCHANGED <<statusVars, activity, abortRequests, reports>>

(* The information operation answers its transmitted acceptance with       *)
(* inProgress( true ), whatever status was set meanwhile.                  *)
AcceptanceTransmitted ==
  /\ statusTransfer.progress = "Received"
  /\ statusTransfer.sent = "OperationAccepted"
  /\ StatusTransferEnds
  /\ ForceStatus("Io", "OperationInProgress", "Fits")
  /\ UNCHANGED <<abortRequests, reports>>

(* A variant that goes on with the status files after the final one.       *)
FinalRepeated ==
  /\ statusTransfer.progress = "Received"
  /\ statusTransfer.sent \notin ProgressCodes
  /\ StatusTransferEnds
  /\ TriggerStatusTransmissionTimer
  /\ UNCHANGED <<statusVars, activity, abortRequests, reports>>

(* A final status was sent.                                                *)
FinalTransmitted ==
  /\ statusTransfer.progress = "Received"
  /\ statusTransfer.sent \notin ProgressCodes
  /\ StatusTransferEnds
  /\ Finalise(FinalStatus(statusTransfer.sent))
  /\ UNCHANGED <<statusVars, activity, abortRequests>>

StatusTransmissionEnds ==
  StatusFileAborted \/ StatusFileFails \/ FinalTransmitted

UploadStatusFileCompleted ==
  kind = "Upload" /\ (StatusTransmissionEnds \/ ProgressTransmitted)

MediaDefinedDownloadStatusFileCompleted ==
  kind = "MediaDefinedDownload" /\ (StatusTransmissionEnds \/ ProgressTransmitted)

OperatorDefinedDownloadStatusFileCompleted ==
  kind = "OperatorDefinedDownload" /\ (StatusTransmissionEnds \/ ProgressTransmitted)

InformationStatusFileCompleted ==
  /\ kind = "Information"
  /\ \/ StatusTransmissionEnds
     \/ AcceptanceTransmitted
     \/ statusTransfer.sent # "OperationAccepted" /\ ProgressTransmitted

StatusFileCompleted ==
  \/ UploadStatusFileCompleted
  \/ MediaDefinedDownloadStatusFileCompleted
  \/ OperatorDefinedDownloadStatusFileCompleted
  \/ InformationStatusFileCompleted

-------------------------------------------------------------------------------
(* The list and the request file.                                          *)
ListTransferEnds ==
  /\ listTransfer = "Running"
  /\ IoIdle
  /\ UNCHANGED <<kind, loadTexts, initialisation, expiries, statusTransfer,
                 requestVars, decision, abortRequests, delivered, ioException>>

ListFails ==
  /\ ListTransferEnds
  /\ listTransfer' = "Failed"
  /\ ForceStatus("Io", "OperationAbortedByTargetHw", "Fits")
  /\ UNCHANGED reports

(* targetInformationCompleted(): the list ends the operation at once when  *)
(* no status was set, else by the final status file.                       *)
TargetInformationCompleted ==
  /\ kind = "Information"
  /\ \/ ListFails
     \/ /\ ListTransferEnds
        /\ listTransfer' = "Sent"
        /\ IF code = "Invalid"
           THEN Finalise("Completed") /\ UNCHANGED <<statusVars, activity>>
           ELSE ForceStatus("Io", "OperationCompleted", "Fits") /\ UNCHANGED reports

(* downloadingListCompleted()                                              *)
DownloadingListCompleted ==
  /\ kind = "OperatorDefinedDownload"
  /\ \/ ListFails
     \/ /\ ListTransferEnds
        /\ listTransfer' = "Sent"
        /\ UNCHANGED <<statusVars, activity, statusTimer, reports>>

(* A request of the host for which the operation starts a transfer; the    *)
(* handle of one under way is overwritten.                                 *)
RequestFileStarts ==
  /\ initialisation \notin {"NotStarted", "StartFailed"}
  /\ IoIdle
  /\ requestFiles < MaxRequestFiles
  /\ requestFiles' = requestFiles + 1
  /\ requestFile' = "Active"
  /\ droppedRequests' = IF requestFile = "Active" THEN droppedRequests + 1
                                                  ELSE droppedRequests
  /\ UNCHANGED <<kind, loadTexts, initialisation, statusVars, timerVars,
                 activity, statusTransfer, listTransfer, historyVars>>

UploadRequestFileRequest == kind = "Upload" /\ RequestFileStarts

MediaDefinedDownloadRequestFileRequest ==
  kind = "MediaDefinedDownload" /\ RequestFileStarts

AnswerFileRequest == kind = "OperatorDefinedDownload" /\ RequestFileStarts

(* requestFileOperation.reset(), by the handler of the transfer it holds   *)
(* or by that of a replaced one, which so drops the new transfer.          *)
RequestFileEnds ==
  /\ IoIdle
  /\ requestFile' = "None"
  /\ \/ requestFile = "Active" /\ UNCHANGED droppedRequests
     \/ /\ droppedRequests > 0
        /\ droppedRequests' = IF requestFile = "Active" THEN droppedRequests
                                                        ELSE droppedRequests - 1
  /\ UNCHANGED <<kind, loadTexts, initialisation, expiries, statusTransfer,
                 listTransfer, requestFiles, historyVars>>

(* The file is handed to the application, or it failed, has another        *)
(* protocol version or cannot be decoded: finished() by the target itself, *)
(* of which the application is not told.                                   *)
RequestFileCompletes ==
  /\ RequestFileEnds
  /\ \/ UNCHANGED <<statusVars, activity, statusTimer>>
     \/ ForceStatus("Io", "OperationAbortedByTargetHw", "Fits")

UploadRequestFileCompleted == kind = "Upload" /\ RequestFileCompletes

MediaDefinedDownloadRequestFileCompleted ==
  kind = "MediaDefinedDownload" /\ RequestFileCompletes

AnswerFileCompleted == kind = "OperatorDefinedDownload" /\ RequestFileCompletes

(* The last handle is gone: the library may also drop the transfer.        *)
DroppedRequestVanishes ==
  /\ droppedRequests > 0
  /\ droppedRequests' = droppedRequests - 1
  /\ UNCHANGED <<kind, loadTexts, initialisation, statusVars, timerVars,
                 activity, statusTransfer, listTransfer, requestFile,
                 requestFiles, historyVars>>

-------------------------------------------------------------------------------
Application ==
  \/ UploadCalls
  \/ MediaDefinedDownloadCalls
  \/ OperatorDefinedDownloadCalls
  \/ InformationCalls
  \/ TargetInformation
  \/ DownloadingList
  \/ Finish

StatusFileSteps ==
  \/ UploadStatusFile
  \/ MediaDefinedDownloadStatusFile
  \/ OperatorDefinedDownloadStatusFile
  \/ InformationStatusFile

Next ==
  \/ Start
  \/ SendInitFileComplete
  \/ Application
  \/ StatusTimerExpires
  \/ StatusTransmissionTimerHandler
  \/ StatusFileSteps
  \/ HostReceivesStatusFile
  \/ StatusFileCompleted
  \/ TargetInformationCompleted
  \/ DownloadingListCompleted
  \/ UploadRequestFileRequest
  \/ MediaDefinedDownloadRequestFileRequest
  \/ AnswerFileRequest
  \/ UploadRequestFileCompleted
  \/ MediaDefinedDownloadRequestFileCompleted
  \/ AnswerFileCompleted
  \/ DroppedRequestVanishes

Spec == Init /\ [][Next]_vars

(* An armed timer elapses, queued handlers run, a thread inside            *)
(* statusFile() goes on, and a transfer that is left alone ends; nothing   *)
(* says that it ends before the next expiry overwrites it.  After an abort *)
(* the application finishes, as OperationHandler::abortRequest demands.    *)
FairSpec ==
  /\ Spec
  /\ WF_vars(StatusTimerExpires)
  /\ WF_vars(StatusTransmissionTimerHandler)
  /\ WF_vars(StatusFileSteps)
  /\ WF_vars(StatusFileCompleted)
  /\ WF_vars(abortRequests > 0 /\ Finish)

-------------------------------------------------------------------------------
TypeOK ==
  /\ kind \in Kinds
  /\ initialisation \in {"NotStarted", "StartFailed", "Sending", "Sent",
                         "Failed"}
  /\ code \in SentCodes \cup {"Invalid"}
  /\ description \in TextLengths
  /\ loadTexts \in TextLengths
  /\ statusTimer \in {"Idle", "Armed"}
  /\ expiries \in Nat
  /\ activity \in [Threads -> {"Idle", "Called", "Exited"} \cup SentCodes]
  /\ statusTransfer \in StatusTransfers \cup {NoTransfer}
  /\ listTransfer \in {"NotIssued", "Running", "Sent", "Failed"}
  /\ requestFile \in {"None", "Active"}
  /\ droppedRequests \in Nat
  /\ requestFiles \in Nat
  /\ decision \in FinalStatuses \cup {"None"}
  /\ abortRequests \in Nat
  /\ reports \subseteq FinalStatuses
  /\ delivered \subseteq FinalCodes
  /\ ioException \in {"No", "Yes"}

(* An initialised operation that has not reported its end goes on sending  *)
(* status files: a wait is pending, its expiry is queued or the file is    *)
(* being made.  No abort, overwritten transfer, failed list or call of the *)
(* application may stop it (triggerStatusTransmissionTimer() in            *)
(* statusFile(), sendInitFileComplete() and statusFileCompleted()), or the *)
(* host's watchdog ends the operation.  Only the encoder's exception on    *)
(* the I/O thread can, which comes before the timer is armed.              *)
StatusReportingGoesOn ==
  initialisation = "Sent" /\ reports = {} /\ ioException = "No" =>
    statusTimer = "Armed" \/ expiries > 0 \/ ~IoIdle

(* Success is told to the application and to the host only if the          *)
(* application decided so or the list of an information operation was      *)
(* transmitted: neither a failed transfer nor an abort, nor a progress     *)
(* status sent late, becomes OperationCompleted.                           *)
NoFalseSuccess ==
  "Completed" \in reports \/ "OperationCompleted" \in delivered =>
    decision = "Completed" \/ (kind = "Information" /\ listTransfer = "Sent")

(* The application's finished() stands: a status file under way that       *)
(* completes later, or a request file that fails later, never puts the     *)
(* operation back into progress (status(), statusFileCompleted()).  It     *)
(* does not hold of the information operation, see FinishedCompletes.      *)
DecisionStands ==
  kind # "Information" /\ decision # "None" => code \in FinalCodes

(* Nothing keeps the status timer from elapsing while a status file is     *)
(* still under way, whose handle is then overwritten.                      *)
Overwrites ==
  statusTransfer # NoTransfer /\ \E t \in Threads : SendStatusFile(t)

TransfersEndInTime == <>[][~Overwrites]_vars

(* Once the application finished an upload or a download, or the host      *)
(* aborted it, the operation reports its end, whatever transfers fail,     *)
(* overlap or are overwritten (finished(), statusFile(),                   *)
(* statusFileCompleted()): unless the timer overtakes the transfers for    *)
(* ever, or the encoder throws on the I/O thread.                          *)
EndReported ==
  TransfersEndInTime =>
    (kind # "Information" /\ (decision # "None" \/ abortRequests > 0)
       ~> reports # {} \/ ioException = "Yes")

(* target/Operation.hpp:83-85: finished() sets and sends the final status, *)
(* and when the status file has been transmitted the operation completes:  *)
(* at least if the transfers are not overtaken for ever.                   *)
FinishedCompletes ==
  TransfersEndInTime => (decision # "None" ~> reports # {})
=============================================================================
