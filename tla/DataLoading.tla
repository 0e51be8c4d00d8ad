----------------------------- MODULE DataLoading -----------------------------
(***************************************************************************)
(* An upload or media defined download from end to end: the operation of   *)
(* the host (HostOperation), the operation of the target (TargetOperation) *)
(* that its protocol has created for it, and the network between them.     *)
(*                                                                         *)
(* Every file goes from one to the other by a TFTP transfer of which each  *)
(* end sees its own half, and each half ends on its own.  A request may    *)
(* arrive twice, an error packet is sent once and may be lost, a half may  *)
(* fail when the other does not.  The network carries MaxStatusFiles       *)
(* requests for status files and then none: the other end falls silent.    *)
(***************************************************************************)
EXTENDS Integers, Sequences

CONSTANTS
  LoadKinds,        \* the kinds composed
  Decisions,        \* final statuses the application of the target decides on
  Texts,            \* lengths of the texts the application gives
  MaxStatusFiles,   \* bound: status file requests that arrive at the host
  MaxListFiles, MaxTerminations, MaxExpiries, MaxRequestFiles, MaxAborts,
  MaxFaults         \* bound: status file requests that arrive once more, and
                    \* halves of transfers and error packets that are lost

ASSUME LoadKindsAssumption == LoadKinds \subseteq {"Upload", "MediaDefinedDownload"}

ASSUME LoadingBoundsAssumption ==
  /\ MaxStatusFiles \in Nat
  /\ MaxListFiles \in Nat
  /\ MaxTerminations \in Nat
  /\ MaxExpiries \in Nat
  /\ MaxRequestFiles \in Nat
  /\ MaxAborts \in Nat
  /\ MaxFaults \in Nat

VARIABLES
  kind,
  \* the operation of the host
  hostInitialisation, tftpServer, abortReason, guiThread, ioThread, dlpTimer,
  dlpExpiries, statusFiles, listFile, droppedLists, waitForFinalStatus,
  loadList, finishedCalls, decodedStatuses, listReceived, abortsAccepted,
  abortsSent, statusRequests, listRequests, terminations,
  \* the operation of the target
  targetInitialisation, code, description, loadTexts, statusTimer,
  statusExpiries, activity, statusTransfer, listTransfer, requestFile,
  droppedRequests, requestFiles, decision, abortRequests, reports, delivered,
  ioException,
  \* the network
  peer,        \* what the status transfer of the target has at the host
  faults       \* repetitions and losses so far

Host == INSTANCE HostOperation WITH
  initialisation <- hostInitialisation, expiries <- dlpExpiries,
  requestFile <- loadList,
  StatusCodes <- {"OperationAccepted", "OperationInProgress",
                  "OperationCompleted", "OperationAbortedByTargetHw",
                  "OperationAbortedByDlp", "OperationAbortedByOperator"}

Target == INSTANCE TargetOperation WITH
  initialisation <- targetInitialisation, expiries <- statusExpiries

ASSUME LoadingDecisionsAssumption == Decisions \subseteq Target!FinalStatuses

ASSUME LoadingTextsAssumption == Texts \subseteq Target!TextLengths

hostVars == <<kind, hostInitialisation, tftpServer, abortReason, guiThread,
              ioThread, dlpTimer, dlpExpiries, statusFiles, listFile,
              droppedLists, waitForFinalStatus, loadList, finishedCalls,
              decodedStatuses, listReceived, abortsAccepted, abortsSent,
              statusRequests, listRequests, terminations>>

targetVars == <<kind, targetInitialisation, code, description, loadTexts,
                statusTimer, statusExpiries, activity, statusTransfer,
                listTransfer, requestFile, droppedRequests, requestFiles,
                decision, abortRequests, reports, delivered, ioException>>

networkVars == <<peer, faults>>

vars == <<hostVars, targetVars, networkVars>>

Init ==
  /\ kind \in LoadKinds
  /\ Host!Init
  /\ Target!Init
  /\ peer = "None"
  /\ faults = 0

-------------------------------------------------------------------------------
(* Steps of one end alone.                                                 *)

HostAlone == UNCHANGED <<targetVars, networkVars>>
TargetAlone == UNCHANGED <<hostVars, networkVars>>

(* The network repeats or loses something.                                  *)
Fault == faults < MaxFaults /\ faults' = faults + 1

HostSteps ==
  /\ \/ Host!Start
     \/ Host!TransmitRequestFile
     \/ /\ Host!Abort
        /\ finishedCalls = <<>>
        /\ abortsAccepted["Operator"] + abortsAccepted["Protocol"] < MaxAborts
     \/ Host!AbortSteps
     \/ \E reason \in Host!AbortReasons : Host!Terminate(reason)
     \/ Host!DlpTimerExpires
     \/ Host!TimerHandler
  /\ HostAlone

TargetSteps ==
  /\ \/ Target!Application
     \/ Target!StatusTimerExpires
     \/ Target!StatusTransmissionTimerHandler
     \/ \E t \in Target!Threads : Target!EncodeStatusFile(t)
     \/ \E t \in Target!Threads : Target!EncodeStatusFileThrows(t)
     \/ Target!RequestFileCompletes
  /\ TargetAlone

-------------------------------------------------------------------------------
(* The initialisation file, read by the host.                              *)

(* The request creates the operation of the target.                        *)
InitialisationRequested ==
  /\ hostInitialisation \in {"Running", "Aborting"}
  /\ Target!Start
  /\ TargetAlone

(* The application of the target refuses by an error operation.            *)
InitialisationRefused(answer) ==
  /\ targetInitialisation = "NotStarted"
  /\ Host!InitialisationRefused(answer)
  /\ HostAlone

(* The host has the file, whatever the target knows of it.                 *)
InitialisationAccepted ==
  /\ targetInitialisation \in {"Sending", "Sent", "Failed"}
  /\ Host!InitialisationAccepted
  /\ HostAlone

(* The host's half fails, or is aborted.                                   *)
InitialisationLost ==
  /\ Host!InitialisationFails
  /\ HostAlone

(* The target's half ends.                                                 *)
InitialisationSent ==
  /\ Target!SendInitFileComplete
  /\ TargetAlone

HostInitialisationEnds ==
  \/ \E answer \in Host!RefusalCodes : InitialisationRefused(answer)
  \/ InitialisationAccepted
  \/ InitialisationLost

-------------------------------------------------------------------------------
(* The status file, written by the target.                                 *)

(* The transfer starts; the half of the host that served the one it        *)
(* replaces is alone from now on.                                          *)
StatusFileSent ==
  /\ \E t \in Target!Threads : Target!SendStatusFile(t)
  /\ peer' = "Requested"
  /\ UNCHANGED <<hostVars, faults>>

StatusFileServed ==
  /\ peer = "Requested"
  /\ Host!StatusFileRequest
  /\ peer' = "Served"
  /\ UNCHANGED <<targetVars, faults>>

StatusFileRefused ==
  /\ peer = "Requested"
  /\ Host!DeliverAbort
  /\ peer' = "Refused"
  /\ UNCHANGED <<targetVars, faults>>

(* The request arrives once more: the host serves it by a transfer of its  *)
(* own, or refuses it, while the target is bound to the first answer.      *)
StatusRequestRepeated ==
  /\ peer \in {"Served", "Refused"}
  /\ Fault
  /\ Host!StatusFileRequest \/ Host!DeliverAbort
  /\ UNCHANGED <<targetVars, peer>>

(* The ABORT message arrives at the target.                                *)
AbortArrives ==
  /\ peer = "Refused"
  /\ Target!StatusFileAborted
  /\ peer' = "None"
  /\ UNCHANGED <<hostVars, faults>>

(* The ABORT message is lost: the target requests again.                   *)
AbortLost ==
  /\ peer = "Refused"
  /\ Fault
  /\ peer' = "Requested"
  /\ UNCHANGED <<hostVars, targetVars>>

(* A variant that takes every final status for a success.                  *)
StatusFileReceivedAsSuccess ==
  /\ peer = "Served"
  /\ \/ statusTransfer.file \in Host!FinalCodes
        /\ Host!StatusFileFinal("OperationCompleted")
     \/ Host!StatusFileProgress(statusTransfer.file)
  /\ Target!HostReceivesStatusFile
  /\ peer' = "Done"
  /\ UNCHANGED faults

(* The host has the whole file and evaluates it.                           *)
StatusFileReceived ==
  /\ peer = "Served"
  /\ \/ Host!StatusFileFinal(statusTransfer.file)
     \/ Host!StatusFileProgress(statusTransfer.file)
  /\ Target!HostReceivesStatusFile
  /\ peer' = "Done"
  /\ UNCHANGED faults

(* The host's half of the target's transfer is lost.                       *)
StatusFileLost ==
  /\ peer = "Served"
  /\ Fault
  /\ Host!StatusFileFails
  /\ peer' = "Done"
  /\ UNCHANGED targetVars

(* Halves of the host with no peer: a replaced or repeated request.        *)
Alone == statusFiles - (IF peer = "Served" THEN 1 ELSE 0)

(* A variant that mistakes the transfer that ended.                        *)
AnyStatusFileFails ==
  /\ statusFiles > 0
  /\ Host!StatusFileFails
  /\ HostAlone

StatusFileAloneFails ==
  /\ Alone > 0
  /\ Host!StatusFileFails
  /\ HostAlone

(* The target's half ends: it was received and acknowledged.               *)
StatusFileAcknowledged ==
  /\ peer = "Done"
  /\ Target!ProgressTransmitted \/ Target!FinalTransmitted
  /\ peer' = "None"
  /\ UNCHANGED <<hostVars, faults>>

(* The target's half fails: nobody answers it any more, or its answers are *)
(* lost.                                                                   *)
StatusFileUnanswered ==
  /\ \/ peer = "Done"
     \/ peer = "Requested"
        /\ (tftpServer = "Stopped" \/ statusRequests = MaxStatusFiles)
  /\ Target!StatusFileFails
  /\ peer' = "None"
  /\ UNCHANGED <<hostVars, faults>>

TargetStatusFileEnds ==
  AbortArrives \/ StatusFileAcknowledged \/ StatusFileUnanswered

-------------------------------------------------------------------------------
(* The load list or download request, written by the host.                 *)

(* The protocol of the target hands the request to its operation.          *)
LoadListArrives ==
  /\ loadList = "Running"
  /\ Target!RequestFileStarts
  /\ TargetAlone

(* The host's half ends; it was received if it is told so.                 *)
LoadListCompleted ==
  /\ Host!RequestFileCompleted
  /\ loadList' = "Sent" => requestFiles > 0 /\ requestFile = "None"
  /\ HostAlone

-------------------------------------------------------------------------------
Next ==
  \/ HostSteps
  \/ TargetSteps
  \/ InitialisationRequested
  \/ HostInitialisationEnds
  \/ InitialisationSent
  \/ StatusFileSent
  \/ StatusFileServed
  \/ StatusFileRefused
  \/ StatusRequestRepeated
  \/ AbortLost
  \/ StatusFileReceived
  \/ StatusFileLost
  \/ StatusFileAloneFails
  \/ TargetStatusFileEnds
  \/ LoadListArrives
  \/ LoadListCompleted

Spec == Init /\ [][Next]_vars

-------------------------------------------------------------------------------
TypeOK ==
  /\ kind \in LoadKinds
  /\ Host!TypeOK
  /\ Target!TypeOK
  /\ peer \in {"None", "Requested", "Served", "Refused", "Done"}
  /\ faults \in 0..MaxFaults
  /\ Alone \in Nat

Agreement == INSTANCE LoadAgreement WITH
  Ends <- Host!FinalCodes \cup Host!RefusalCodes,
  decided <- decision,
  told <- IF finishedCalls = <<>> THEN "None" ELSE finishedCalls[1]

(* The composition keeps what LoadAgreement promises: the operator is told *)
(* of a completed load only if the application of the target decided so    *)
(* before, and what each was told or decided first stands, however the     *)
(* halves of the transfers (UploadOperationImpl of host and target) end,   *)
(* overlap, repeat or are lost.                                            *)
AgreementImplemented == Agreement!Spec
===============================================================================
