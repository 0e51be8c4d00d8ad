------------------------ MODULE DataLoadingEndsProofs ------------------------
(***************************************************************************)
(* That either end of a loading, as DataLoading composes it, is the        *)
(* operation its own module describes: every step of the composition is a  *)
(* step of the host or none of it, and a step of the target or none of it. *)
(* What HostOperationProofs and TargetOperationProofs show of one end      *)
(* against any peer therefore holds of it against the other, and the types *)
(* of the composition follow from theirs.                                  *)
(***************************************************************************)
EXTENDS DataLoading, TLAPS

HostProofs == INSTANCE HostOperationProofs WITH
  initialisation <- hostInitialisation, expiries <- dlpExpiries,
  requestFile <- loadList,
  StatusCodes <- {"OperationAccepted", "OperationInProgress",
                  "OperationCompleted", "OperationAbortedByTargetHw",
                  "OperationAbortedByDlp", "OperationAbortedByOperator"}

TargetProofs == INSTANCE TargetOperationProofs WITH
  initialisation <- targetInitialisation, expiries <- statusExpiries

(* The kinds composed send their status files on the I/O thread alone, so  *)
(* the thread of the application is never inside statusFile().             *)
ApplicationIdle ==
  /\ kind \in LoadKinds
  /\ "Application" \in DOMAIN activity
  /\ activity["Application"] = "Idle"

LEMMA LoadKind ==
  ApplicationIdle => kind \in {"Upload", "MediaDefinedDownload"}
BY LoadKindsAssumption DEF ApplicationIdle

-------------------------------------------------------------------------------
(* The target.                                                             *)

(* These steps leave the target as it is.                                  *)
HostMoves ==
  \/ HostSteps
  \/ HostInitialisationEnds
  \/ StatusFileServed
  \/ StatusFileRefused
  \/ StatusRequestRepeated
  \/ AbortLost
  \/ StatusFileLost
  \/ StatusFileAloneFails
  \/ LoadListCompleted

LEMMA HostMovesAlone == HostMoves => UNCHANGED targetVars
BY DEF HostMoves, HostSteps, HostInitialisationEnds, InitialisationRefused,
       InitialisationAccepted, InitialisationLost, StatusFileServed,
       StatusFileRefused, StatusRequestRepeated, AbortLost, StatusFileLost,
       StatusFileAloneFails, LoadListCompleted, HostAlone

(* The halves of the target.                                               *)
LEMMA TargetTransferMoves ==
  ASSUME ApplicationIdle,
         \/ InitialisationRequested
         \/ InitialisationSent
         \/ StatusFileSent
         \/ StatusFileReceived
         \/ TargetStatusFileEnds
         \/ LoadListArrives
  PROVE  Target!Next
<1> USE LoadKind
<1>1. CASE InitialisationRequested
  BY <1>1 DEF InitialisationRequested, Target!Next
<1>2. CASE InitialisationSent
  BY <1>2 DEF InitialisationSent, Target!Next
<1>3. CASE StatusFileSent
  <2>1. PICK t \in Target!Threads : Target!SendStatusFile(t)
    BY <1>3 DEF StatusFileSent
  <2>2. t = "Io"
    BY <2>1 DEF Target!Threads, Target!SendStatusFile, ApplicationIdle,
                Target!SentCodes, Target!ProgressCodes, Target!FinalCodes
  <2> QED
    BY <2>1, <2>2 DEF Target!Next, Target!StatusFileSteps, Target!StatusFile,
      Target!UploadStatusFile, Target!MediaDefinedDownloadStatusFile
<1>4. CASE StatusFileReceived
  BY <1>4 DEF StatusFileReceived, Target!Next
<1>5. CASE TargetStatusFileEnds
  BY <1>5
  DEF TargetStatusFileEnds, AbortArrives, StatusFileAcknowledged,
      StatusFileUnanswered, Target!Next, Target!StatusFileCompleted,
      Target!UploadStatusFileCompleted, Target!StatusTransmissionEnds,
      Target!MediaDefinedDownloadStatusFileCompleted
<1>6. CASE LoadListArrives
  BY <1>6
  DEF LoadListArrives, Target!Next, Target!UploadRequestFileRequest,
      Target!MediaDefinedDownloadRequestFileRequest
<1> QED
  BY <1>1, <1>2, <1>3, <1>4, <1>5, <1>6

(* The steps of the target alone.                                          *)
LEMMA TargetStepsMove == ApplicationIdle /\ TargetSteps => Target!Next
<1> SUFFICES ASSUME ApplicationIdle, TargetSteps PROVE Target!Next
  OBVIOUS
<1> USE LoadKind
<1>1. ASSUME NEW t \in Target!Threads,
             Target!EncodeStatusFile(t) \/ Target!EncodeStatusFileThrows(t)
      PROVE  Target!Next
  <2>1. t = "Io"
    BY <1>1 DEF Target!Threads, Target!EncodeStatusFile,
      Target!EncodeStatusFileThrows, Target!StatusFileCalled, ApplicationIdle
  <2> QED
    BY <1>1, <2>1 DEF Target!Next, Target!StatusFileSteps, Target!StatusFile,
      Target!UploadStatusFile, Target!MediaDefinedDownloadStatusFile
<1>2. CASE Target!RequestFileCompletes
  BY <1>2 DEF Target!Next, Target!UploadRequestFileCompleted,
              Target!MediaDefinedDownloadRequestFileCompleted
<1>3. CASE \/ Target!Application
           \/ Target!StatusTimerExpires
           \/ Target!StatusTransmissionTimerHandler
  BY <1>3 DEF Target!Next
<1> QED
  BY <1>1, <1>2, <1>3 DEF TargetSteps

LEMMA TargetMoves ==
  ApplicationIdle /\ [Next]_vars => [Target!Next]_(Target!vars)
<1> SUFFICES ASSUME ApplicationIdle, [Next]_vars
             PROVE  [Target!Next]_(Target!vars)
  OBVIOUS
<1>1. CASE UNCHANGED targetVars
  BY <1>1 DEF targetVars, Target!vars, Target!statusVars, Target!timerVars,
              Target!requestVars, Target!historyVars
<1>2. CASE HostMoves
  BY <1>1, <1>2, HostMovesAlone
<1>3. CASE UNCHANGED vars
  BY <1>1, <1>3 DEF vars
<1> QED
  BY <1>2, <1>3, TargetStepsMove, TargetTransferMoves DEF Next, HostMoves

(* An upload or download sets the status and lets the timer send it.       *)
LEMMA ForcedByTimer ==
  ASSUME ApplicationIdle, NEW t, NEW c, NEW text,
         Target!ForceStatus(t, c, text)
  PROVE  activity' = activity
BY LoadKind DEF Target!ForceStatus

LEMMA TargetKeepsIdle ==
  ApplicationIdle /\ Target!Next => ApplicationIdle'
<1> SUFFICES ASSUME ApplicationIdle, Target!Next PROVE ApplicationIdle'
  OBVIOUS
<1> USE LoadKind
<1>0. ASSUME kind' = kind,
             \/ activity' = activity
             \/ \E x : activity' = [activity EXCEPT !["Io"] = x]
      PROVE  ApplicationIdle'
  BY <1>0 DEF ApplicationIdle
<1>1. CASE \/ Target!Start
           \/ Target!SendInitFileComplete
           \/ Target!StatusTimerExpires
           \/ Target!HostReceivesStatusFile
           \/ Target!DroppedRequestVanishes
  BY <1>0, <1>1 DEF Target!Start, Target!SendInitFileComplete,
    Target!StatusTimerExpires, Target!HostReceivesStatusFile,
    Target!DroppedRequestVanishes
<1>2. CASE Target!StatusTransmissionTimerHandler
  BY <1>0, <1>2 DEF Target!StatusTransmissionTimerHandler
<1>3. CASE Target!Application
  <2>1. kind' = kind
    BY <1>3
    DEF Target!Application, Target!UploadCalls,
        Target!MediaDefinedDownloadCalls, Target!OperatorDefinedDownloadCalls,
        Target!InformationCalls, Target!TargetInformation,
        Target!DownloadingList, Target!Finish, Target!Finished,
        Target!Accepted, Target!InProgress, Target!LoadStatus,
        Target!SendList, Target!ApplicationCalls
  <2>2. activity' = activity
    BY <1>3, ForcedByTimer
    DEF Target!Application, Target!UploadCalls,
        Target!MediaDefinedDownloadCalls, Target!OperatorDefinedDownloadCalls,
        Target!InformationCalls, Target!TargetInformation,
        Target!DownloadingList, Target!Finish, Target!Finished,
        Target!Accepted, Target!InProgress, Target!LoadStatus
  <2> QED
    BY <1>0, <2>1, <2>2
<1>4. CASE Target!StatusFileSteps
  <2>1. Target!StatusFile("Io")
    BY <1>4 DEF Target!StatusFileSteps, Target!UploadStatusFile,
      Target!MediaDefinedDownloadStatusFile,
      Target!OperatorDefinedDownloadStatusFile, Target!InformationStatusFile
  <2> QED
    BY <1>0, <2>1 DEF Target!StatusFile, Target!EncodeStatusFile,
      Target!EncodeStatusFileThrows, Target!StatusFileCalled,
      Target!SendStatusFile
<1>5. CASE Target!StatusFileCompleted
  BY <1>0, <1>5
  DEF Target!StatusFileCompleted, Target!UploadStatusFileCompleted,
      Target!MediaDefinedDownloadStatusFileCompleted,
      Target!OperatorDefinedDownloadStatusFileCompleted,
      Target!InformationStatusFileCompleted, Target!StatusTransmissionEnds,
      Target!StatusFileAborted, Target!StatusFileFails,
      Target!FinalTransmitted, Target!ProgressTransmitted,
      Target!StatusTransferEnds
<1>6. CASE Target!TargetInformationCompleted \/ Target!DownloadingListCompleted
  BY <1>6 DEF Target!TargetInformationCompleted,
    Target!DownloadingListCompleted
<1>7. CASE \/ Target!UploadRequestFileRequest
           \/ Target!MediaDefinedDownloadRequestFileRequest
           \/ Target!AnswerFileRequest
  BY <1>0, <1>7 DEF Target!UploadRequestFileRequest,
    Target!MediaDefinedDownloadRequestFileRequest, Target!AnswerFileRequest,
    Target!RequestFileStarts
<1>8. CASE \/ Target!UploadRequestFileCompleted
           \/ Target!MediaDefinedDownloadRequestFileCompleted
           \/ Target!AnswerFileCompleted
  BY <1>0, <1>8, ForcedByTimer DEF Target!UploadRequestFileCompleted,
    Target!MediaDefinedDownloadRequestFileCompleted,
    Target!AnswerFileCompleted, Target!RequestFileCompletes,
    Target!RequestFileEnds
<1> QED
  BY <1>1, <1>2, <1>3, <1>4, <1>5, <1>6, <1>7, <1>8 DEF Target!Next

LEMMA ApplicationStaysIdle == Spec => []ApplicationIdle
<1>1. Init => ApplicationIdle
  BY DEF Init, Target!Init, Target!Threads, ApplicationIdle
<1>2. ApplicationIdle /\ [Next]_vars => ApplicationIdle'
  <2> SUFFICES ASSUME ApplicationIdle, [Next]_vars PROVE ApplicationIdle'
    OBVIOUS
  <2>1. CASE Target!Next
    BY <2>1, TargetKeepsIdle
  <2>2. CASE UNCHANGED Target!vars
    BY <2>2 DEF Target!vars, ApplicationIdle
  <2> QED
    BY <2>1, <2>2, TargetMoves
<1> QED
  BY <1>1, <1>2, PTL DEF Spec

(* The target of a loading is an operation as TargetOperation describes    *)
(* it: the network and the host make it do nothing else.                   *)
THEOREM TargetImplemented == Spec => Target!Spec
<1>1. Init => Target!Init
  BY DEF Init
<1> QED
  BY <1>1, TargetMoves, ApplicationStaysIdle, PTL DEF Spec, Target!Spec

(* The instance of the proofs speaks of the same target.                   *)
LEMMA SameTarget ==
  /\ Target!Init <=> TargetProofs!Init
  /\ Target!Next <=> TargetProofs!Next
  /\ UNCHANGED Target!vars <=> UNCHANGED TargetProofs!vars
<1>1. Target!Init <=> TargetProofs!Init
  BY DEF Target!Init, Target!Kinds, Target!Threads, Target!NoTransfer,
    TargetProofs!Init, TargetProofs!Kinds, TargetProofs!Threads,
    TargetProofs!NoTransfer
<1>2. Target!Next <=> TargetProofs!Next
  BY DEF Target!AcceptanceTransmitted, Target!Accepted,
    Target!AnswerFileCompleted, Target!AnswerFileRequest, Target!Application,
    Target!ApplicationCalls, Target!DownloadingList,
    Target!DownloadingListCompleted, Target!DroppedRequestVanishes,
    Target!EncodeStatusFile, Target!EncodeStatusFileThrows, Target!FinalCodes,
    Target!Finalise, Target!FinalStatus, Target!FinalTransmitted,
    Target!Finish, Target!Finished, Target!ForceStatus, Target!historyVars,
    Target!HostReceivesStatusFile, Target!InformationCalls,
    Target!InformationStatusFile, Target!InformationStatusFileCompleted,
    Target!InitFileFails, Target!InitFileSent, Target!InProgress,
    Target!IoIdle, Target!ListFails, Target!ListTransferEnds,
    Target!LoadStatus, Target!MediaDefinedDownloadCalls,
    Target!MediaDefinedDownloadRequestFileCompleted,
    Target!MediaDefinedDownloadRequestFileRequest,
    Target!MediaDefinedDownloadStatusFile,
    Target!MediaDefinedDownloadStatusFileCompleted, Target!Next,
    Target!NoTransfer, Target!OperatorDefinedDownloadCalls,
    Target!OperatorDefinedDownloadStatusFile,
    Target!OperatorDefinedDownloadStatusFileCompleted, Target!ProgressCodes,
    Target!ProgressTransmitted, Target!RequestFileCompletes,
    Target!RequestFileEnds, Target!RequestFileStarts, Target!requestVars,
    Target!SendInitFile, Target!SendInitFileComplete, Target!SendList,
    Target!SendStatusFile, Target!SentCodes, Target!SetStatus, Target!Start,
    Target!StatusCode, Target!StatusFile, Target!StatusFileAborted,
    Target!StatusFileCalled, Target!StatusFileCompleted,
    Target!StatusFileFails, Target!StatusFileSteps, Target!StatusFits,
    Target!StatusTimerExpires, Target!StatusTransferEnds,
    Target!StatusTransmissionEnds, Target!StatusTransmissionTimerHandler,
    Target!statusVars, Target!TargetInformation,
    Target!TargetInformationCompleted, Target!Threads, Target!timerVars,
    Target!TriggerStatusTransmission, Target!TriggerStatusTransmissionTimer,
    Target!UploadCalls, Target!UploadRequestFileCompleted,
    Target!UploadRequestFileRequest, Target!UploadStatusFile,
    Target!UploadStatusFileCompleted, TargetProofs!AcceptanceTransmitted,
    TargetProofs!Accepted, TargetProofs!AnswerFileCompleted,
    TargetProofs!AnswerFileRequest, TargetProofs!Application,
    TargetProofs!ApplicationCalls, TargetProofs!DownloadingList,
    TargetProofs!DownloadingListCompleted,
    TargetProofs!DroppedRequestVanishes, TargetProofs!EncodeStatusFile,
    TargetProofs!EncodeStatusFileThrows, TargetProofs!FinalCodes,
    TargetProofs!Finalise, TargetProofs!FinalStatus,
    TargetProofs!FinalTransmitted, TargetProofs!Finish, TargetProofs!Finished,
    TargetProofs!ForceStatus, TargetProofs!historyVars,
    TargetProofs!HostReceivesStatusFile, TargetProofs!InformationCalls,
    TargetProofs!InformationStatusFile,
    TargetProofs!InformationStatusFileCompleted, TargetProofs!InitFileFails,
    TargetProofs!InitFileSent, TargetProofs!InProgress, TargetProofs!IoIdle,
    TargetProofs!ListFails, TargetProofs!ListTransferEnds,
    TargetProofs!LoadStatus, TargetProofs!MediaDefinedDownloadCalls,
    TargetProofs!MediaDefinedDownloadRequestFileCompleted,
    TargetProofs!MediaDefinedDownloadRequestFileRequest,
    TargetProofs!MediaDefinedDownloadStatusFile,
    TargetProofs!MediaDefinedDownloadStatusFileCompleted, TargetProofs!Next,
    TargetProofs!NoTransfer, TargetProofs!OperatorDefinedDownloadCalls,
    TargetProofs!OperatorDefinedDownloadStatusFile,
    TargetProofs!OperatorDefinedDownloadStatusFileCompleted,
    TargetProofs!ProgressCodes, TargetProofs!ProgressTransmitted,
    TargetProofs!RequestFileCompletes, TargetProofs!RequestFileEnds,
    TargetProofs!RequestFileStarts, TargetProofs!requestVars,
    TargetProofs!SendInitFile, TargetProofs!SendInitFileComplete,
    TargetProofs!SendList, TargetProofs!SendStatusFile,
    TargetProofs!SentCodes, TargetProofs!SetStatus, TargetProofs!Start,
    TargetProofs!StatusCode, TargetProofs!StatusFile,
    TargetProofs!StatusFileAborted, TargetProofs!StatusFileCalled,
    TargetProofs!StatusFileCompleted, TargetProofs!StatusFileFails,
    TargetProofs!StatusFileSteps, TargetProofs!StatusFits,
    TargetProofs!StatusTimerExpires, TargetProofs!StatusTransferEnds,
    TargetProofs!StatusTransmissionEnds,
    TargetProofs!StatusTransmissionTimerHandler, TargetProofs!statusVars,
    TargetProofs!TargetInformation, TargetProofs!TargetInformationCompleted,
    TargetProofs!Threads, TargetProofs!timerVars,
    TargetProofs!TriggerStatusTransmission,
    TargetProofs!TriggerStatusTransmissionTimer, TargetProofs!UploadCalls,
    TargetProofs!UploadRequestFileCompleted,
    TargetProofs!UploadRequestFileRequest, TargetProofs!UploadStatusFile,
    TargetProofs!UploadStatusFileCompleted
<1>3. UNCHANGED Target!vars <=> UNCHANGED TargetProofs!vars
  BY DEF Target!vars, Target!statusVars, Target!timerVars,
    Target!requestVars, Target!historyVars, TargetProofs!vars,
    TargetProofs!statusVars, TargetProofs!timerVars,
    TargetProofs!requestVars, TargetProofs!historyVars
<1> QED
  BY <1>1, <1>2, <1>3

LEMMA TargetSpecProved == Target!Spec => TargetProofs!Spec
<1>1. [Target!Next]_(Target!vars) => [TargetProofs!Next]_(TargetProofs!vars)
  BY SameTarget
<1>2. Target!Init => TargetProofs!Init
  BY SameTarget
<1> QED
  BY <1>1, <1>2, PTL DEF Target!Spec, TargetProofs!Spec

LEMMA TargetTypes == Spec => []Target!TypeOK
<1>1. TargetProofs!Spec => []TargetProofs!TypeOK
  BY TargetProofs!TypeCorrect, LoadingBoundsAssumption,
     LoadingDecisionsAssumption, LoadingTextsAssumption
  DEF Target!FinalStatuses, TargetProofs!FinalStatuses, Target!TextLengths,
      TargetProofs!TextLengths
<1>2. TargetProofs!TypeOK => Target!TypeOK
  BY DEF Target!TypeOK, TargetProofs!TypeOK, Target!Kinds, TargetProofs!Kinds,
    Target!FinalCodes, TargetProofs!FinalCodes, Target!ProgressCodes,
    TargetProofs!ProgressCodes, Target!SentCodes, TargetProofs!SentCodes,
    Target!FinalStatuses, TargetProofs!FinalStatuses, Target!Threads,
    TargetProofs!Threads, Target!StatusTransfers, TargetProofs!StatusTransfers,
    Target!NoTransfer, TargetProofs!NoTransfer, Target!TextLengths,
    TargetProofs!TextLengths
<1> QED
  BY <1>1, <1>2, TargetImplemented, TargetSpecProved, PTL

(* The target keeps in the composition what it promises against any host:  *)
(* its status reporting stops before the end only by an exception of the   *)
(* encoder on the I/O thread (triggerStatusTransmissionTimer), no failure  *)
(* or abort becomes a success, and what its application decided stands     *)
(* (finished).                                                             *)
THEOREM TargetPromisesKept ==
  Spec => [](Target!StatusReportingGoesOn /\ Target!NoFalseSuccess
               /\ Target!DecisionStands)
<1>1. TargetProofs!Spec =>
        []( /\ TargetProofs!StatusReportingGoesOn
            /\ TargetProofs!NoFalseSuccess
            /\ TargetProofs!DecisionStands )
  <2> USE LoadingBoundsAssumption, LoadingDecisionsAssumption,
          LoadingTextsAssumption
      DEF Target!FinalStatuses, TargetProofs!FinalStatuses,
          Target!TextLengths, TargetProofs!TextLengths
  <2>1. TargetProofs!Spec => []TargetProofs!StatusReportingGoesOn
    BY TargetProofs!ReportingContinues
  <2>2. TargetProofs!Spec => []TargetProofs!NoFalseSuccess
    BY TargetProofs!SuccessIsGenuine
  <2>3. TargetProofs!Spec => []TargetProofs!DecisionStands
    BY TargetProofs!DecisionIsKept
  <2> QED
    BY <2>1, <2>2, <2>3, PTL
<1>2. TargetProofs!StatusReportingGoesOn => Target!StatusReportingGoesOn
  BY DEF Target!StatusReportingGoesOn, TargetProofs!StatusReportingGoesOn,
         Target!IoIdle, TargetProofs!IoIdle
<1>3. TargetProofs!NoFalseSuccess => Target!NoFalseSuccess
  BY DEF Target!NoFalseSuccess, TargetProofs!NoFalseSuccess
<1>4. TargetProofs!DecisionStands => Target!DecisionStands
  BY DEF Target!DecisionStands, TargetProofs!DecisionStands,
         Target!FinalCodes, TargetProofs!FinalCodes
<1> QED
  BY <1>1, <1>2, <1>3, <1>4, TargetImplemented, TargetSpecProved, PTL

-------------------------------------------------------------------------------
(* The host.                                                               *)

(* These steps leave the host as it is.                                    *)
TargetOnly ==
  \/ TargetSteps
  \/ InitialisationRequested
  \/ InitialisationSent
  \/ StatusFileSent
  \/ AbortLost
  \/ TargetStatusFileEnds
  \/ LoadListArrives

LEMMA TargetMovesAlone == TargetOnly => UNCHANGED hostVars
BY DEF TargetOnly, TargetSteps, InitialisationRequested, InitialisationSent,
       StatusFileSent, AbortLost, TargetStatusFileEnds, AbortArrives,
       StatusFileAcknowledged, StatusFileUnanswered, LoadListArrives,
       TargetAlone

(* The halves of the host; a status file under way carries one of the      *)
(* codes the host knows.                                                   *)
LEMMA HostTransferMoves ==
  ASSUME kind \in LoadKinds, Target!TypeOK,
         \/ HostInitialisationEnds
         \/ StatusFileServed
         \/ StatusFileRefused
         \/ StatusRequestRepeated
         \/ StatusFileReceived
         \/ StatusFileLost
         \/ StatusFileAloneFails
         \/ LoadListCompleted
  PROVE  Host!Next
<1>0. kind \in {"Upload", "MediaDefinedDownload"}
  BY LoadKindsAssumption
<1>1. CASE HostInitialisationEnds
  BY <1>1
  DEF HostInitialisationEnds, InitialisationRefused, InitialisationAccepted,
      InitialisationLost, Host!InitialisationFileCompleted, Host!Next
<1>2. CASE StatusFileServed \/ StatusFileRefused \/ StatusRequestRepeated
  BY <1>0, <1>2
  DEF StatusFileServed, StatusFileRefused, StatusRequestRepeated,
      Host!StatusRequest, Host!UploadTftpRequest, Host!MediaDefinedTftpRequest,
      Host!ReceivedTftpRequest, Host!Next
<1>3. Host!StatusFileCompleted => Host!Next
  BY <1>0 DEF Host!UploadStatusFileCompleted, Host!DownloadStatusFileCompleted,
    Host!TransferCompleted, Host!Next
<1>4. CASE StatusFileReceived
  <2>1. statusTransfer.file \in Target!SentCodes
    BY <1>4 DEF StatusFileReceived, Target!HostReceivesStatusFile,
      Target!TypeOK, Target!StatusTransfers, Target!NoTransfer
  <2>2. Host!StatusFileCompleted
    BY <1>4, <2>1 DEF StatusFileReceived, Host!StatusFileCompleted,
      Target!SentCodes, Target!ProgressCodes, Target!FinalCodes
  <2> QED
    BY <1>3, <2>2
<1>5. CASE StatusFileLost \/ StatusFileAloneFails
  BY <1>3, <1>5 DEF StatusFileLost, StatusFileAloneFails,
    Host!StatusFileCompleted
<1>6. CASE LoadListCompleted
  BY <1>0, <1>6 DEF LoadListCompleted, Host!LoadListCompleted,
    Host!RequestCompleted, Host!TransferCompleted, Host!Next
<1> QED
  BY <1>1, <1>2, <1>4, <1>5, <1>6

LEMMA HostStepsMove == HostSteps => Host!Next
BY DEF HostSteps, Host!Next

LEMMA HostStepOrNone ==
  kind \in LoadKinds /\ Target!TypeOK /\ [Next]_vars
    => [Host!Next]_(Host!vars)
<1> SUFFICES ASSUME kind \in LoadKinds, Target!TypeOK, [Next]_vars
             PROVE  [Host!Next]_(Host!vars)
  OBVIOUS
<1>1. CASE UNCHANGED hostVars
  BY <1>1 DEF hostVars, Host!vars
<1>2. CASE TargetOnly
  BY <1>1, <1>2, TargetMovesAlone
<1>3. CASE UNCHANGED vars
  BY <1>1, <1>3 DEF vars
<1> QED
  BY <1>2, <1>3, HostStepsMove, HostTransferMoves DEF Next, TargetOnly

(* The host of a loading is an operation as HostOperation describes it.    *)
THEOREM HostImplemented == Spec => Host!Spec
<1>1. Init => Host!Init
  BY DEF Init
<1>2. ApplicationIdle => kind \in LoadKinds
  BY DEF ApplicationIdle
<1> QED
  BY <1>1, <1>2, HostStepOrNone, ApplicationStaysIdle, TargetTypes, PTL
  DEF Spec, Host!Spec

(* The instance of the proofs speaks of the same host.                     *)
LEMMA SameHost ==
  /\ Host!Init <=> HostProofs!Init
  /\ Host!Next <=> HostProofs!Next
  /\ UNCHANGED Host!vars <=> UNCHANGED HostProofs!vars
<1>1. Host!Init <=> HostProofs!Init
  BY DEF Host!Init, Host!Kinds, Host!AbortReasons, HostProofs!Init,
    HostProofs!Kinds, HostProofs!AbortReasons
<1>2. Host!Next <=> HostProofs!Next
  BY DEF Host!Abort, Host!AbortDelivered, Host!AbortInitialisation,
    Host!AbortReasons, Host!AbortSteps, Host!abortVars, Host!Answer,
    Host!AnswerCompleted, Host!boundVars, Host!Decoded, Host!DeliverAbort,
    Host!DlpTimerExpires, Host!DownloadStatusFileCompleted,
    Host!DroppedListVanishes, Host!EndsWithList, Host!FinalCodes,
    Host!Finished, Host!historyVars, Host!InformationListFileCompleted,
    Host!InformationStatusFileCompleted, Host!InformationTftpRequest,
    Host!InitialisationAccepted, Host!InitialisationFails,
    Host!InitialisationFileCompleted, Host!InitialisationRefused, Host!IoIdle,
    Host!ListFailure, Host!ListFileCompleted, Host!ListFileRequest,
    Host!ListSuccess, Host!ListTransferEnds, Host!LoadList,
    Host!LoadListCompleted, Host!MediaDefinedTftpRequest, Host!Next,
    Host!NotFinished, Host!OperatorAbortRecorded,
    Host!OperatorDefinedListFileCompleted, Host!OperatorDefinedTftpRequest,
    Host!ProgressCodes, Host!ProtocolAbortRecorded, Host!ReceivedTftpRequest,
    Host!RecordAbort, Host!RefusalCodes, Host!reportVars, Host!Request,
    Host!RequestCompleted, Host!RequestFileCompleted, Host!RequestFileStarts,
    Host!Start, Host!StatusFileCompleted, Host!StatusFileFails,
    Host!StatusFileFinal, Host!StatusFileInvalid, Host!StatusFileProgress,
    Host!StatusFileRequest, Host!StatusFileUndecodable, Host!StatusPageOpens,
    Host!StatusRequest, Host!StatusTransferEnds, Host!Terminate,
    Host!TestAbort, Host!TimerHandler, Host!TransferCompleted,
    Host!transferVars, Host!TransmitRequestFile, Host!TriggerDlpTimeout,
    Host!UploadStatusFileCompleted, Host!UploadTftpRequest, HostProofs!Abort,
    HostProofs!AbortDelivered, HostProofs!AbortInitialisation,
    HostProofs!AbortReasons, HostProofs!AbortSteps, HostProofs!abortVars,
    HostProofs!Answer, HostProofs!AnswerCompleted, HostProofs!boundVars,
    HostProofs!Decoded, HostProofs!DeliverAbort, HostProofs!DlpTimerExpires,
    HostProofs!DownloadStatusFileCompleted, HostProofs!DroppedListVanishes,
    HostProofs!EndsWithList, HostProofs!FinalCodes, HostProofs!Finished,
    HostProofs!historyVars, HostProofs!InformationListFileCompleted,
    HostProofs!InformationStatusFileCompleted,
    HostProofs!InformationTftpRequest, HostProofs!InitialisationAccepted,
    HostProofs!InitialisationFails, HostProofs!InitialisationFileCompleted,
    HostProofs!InitialisationRefused, HostProofs!IoIdle,
    HostProofs!ListFailure, HostProofs!ListFileCompleted,
    HostProofs!ListFileRequest, HostProofs!ListSuccess,
    HostProofs!ListTransferEnds, HostProofs!LoadList,
    HostProofs!LoadListCompleted, HostProofs!MediaDefinedTftpRequest,
    HostProofs!Next, HostProofs!NotFinished, HostProofs!OperatorAbortRecorded,
    HostProofs!OperatorDefinedListFileCompleted,
    HostProofs!OperatorDefinedTftpRequest, HostProofs!ProgressCodes,
    HostProofs!ProtocolAbortRecorded, HostProofs!ReceivedTftpRequest,
    HostProofs!RecordAbort, HostProofs!RefusalCodes, HostProofs!reportVars,
    HostProofs!Request, HostProofs!RequestCompleted,
    HostProofs!RequestFileCompleted, HostProofs!RequestFileStarts,
    HostProofs!Start, HostProofs!StatusFileCompleted,
    HostProofs!StatusFileFails, HostProofs!StatusFileFinal,
    HostProofs!StatusFileInvalid, HostProofs!StatusFileProgress,
    HostProofs!StatusFileRequest, HostProofs!StatusFileUndecodable,
    HostProofs!StatusPageOpens, HostProofs!StatusRequest,
    HostProofs!StatusTransferEnds, HostProofs!Terminate, HostProofs!TestAbort,
    HostProofs!TimerHandler, HostProofs!TransferCompleted,
    HostProofs!transferVars, HostProofs!TransmitRequestFile,
    HostProofs!TriggerDlpTimeout, HostProofs!UploadStatusFileCompleted,
    HostProofs!UploadTftpRequest
<1>3. UNCHANGED Host!vars <=> UNCHANGED HostProofs!vars
  BY DEF Host!vars, HostProofs!vars
<1> QED
  BY <1>1, <1>2, <1>3

LEMMA HostSpecProved == Host!Spec => HostProofs!Spec
<1>1. [Host!Next]_(Host!vars) => [HostProofs!Next]_(HostProofs!vars)
  BY SameHost
<1>2. Host!Init => HostProofs!Init
  BY SameHost
<1> QED
  BY <1>1, <1>2, PTL DEF Host!Spec, HostProofs!Spec

LEMMA HostTypes == Spec => []Host!TypeOK
<1>1. HostProofs!Spec => []HostProofs!TypeOK
  BY HostProofs!TypeCorrect, LoadingBoundsAssumption
<1>2. HostProofs!TypeOK => Host!TypeOK
  BY DEF Host!TypeOK, HostProofs!TypeOK, Host!Kinds, HostProofs!Kinds,
    Host!FinalCodes, HostProofs!FinalCodes, Host!RefusalCodes,
    HostProofs!RefusalCodes, Host!AbortReasons, HostProofs!AbortReasons
<1> QED
  BY <1>1, <1>2, HostImplemented, HostSpecProved, PTL

(* The host keeps in the composition what it promises against any target:  *)
(* an accepted operation stays under the watchdog (triggerDlpTimeout),     *)
(* no abort is sent twice and the aborts of one thread are all sent        *)
(* (doAbort, isAborted), a success is the target's own, and a finished     *)
(* operation takes no further request.                                     *)
THEOREM HostPromisesKept ==
  Spec => /\ []( /\ Host!WatchdogCoversOperation
                 /\ Host!NoFalseSuccess
                 /\ Host!AbortAccounted )
          /\ Host!FinishedTakesNoRequests
<1> USE LoadingBoundsAssumption
<1>1. HostProofs!Spec => []HostProofs!WatchdogCoversOperation
  BY HostProofs!WatchdogCorrect
<1>2. HostProofs!Spec => []HostProofs!NoFalseSuccess
  BY HostProofs!SuccessIsGenuine
<1>3. HostProofs!Spec => []HostProofs!AbortAccounted
  BY HostProofs!AbortSentOnce
<1>4. HostProofs!Spec => HostProofs!FinishedTakesNoRequests
  BY HostProofs!NoRequestsAfterFinish
<1>5. HostProofs!WatchdogCoversOperation => Host!WatchdogCoversOperation
  BY DEF Host!WatchdogCoversOperation, HostProofs!WatchdogCoversOperation
<1>6. HostProofs!NoFalseSuccess => Host!NoFalseSuccess
  BY DEF Host!NoFalseSuccess, HostProofs!NoFalseSuccess
<1>7. HostProofs!AbortAccounted => Host!AbortAccounted
  BY DEF Host!AbortAccounted, HostProofs!AbortAccounted, Host!AbortMessages,
    HostProofs!AbortMessages, Host!AbortReasons, HostProofs!AbortReasons
<1>8. HostProofs!FinishedTakesNoRequests => Host!FinishedTakesNoRequests
  <2>1. [finishedCalls # <<>> =>
           UNCHANGED <<statusRequests, listRequests, abortsSent>>
        ]_(HostProofs!vars)
          => [finishedCalls # <<>> =>
                UNCHANGED <<statusRequests, listRequests, abortsSent>>
             ]_(Host!vars)
    BY SameHost
  <2> QED
    BY <2>1, PTL
    DEF Host!FinishedTakesNoRequests, HostProofs!FinishedTakesNoRequests
<1> QED
  BY <1>1, <1>2, <1>3, <1>4, <1>5, <1>6, <1>7, <1>8, HostImplemented,
     HostSpecProved, PTL

-------------------------------------------------------------------------------
(* The types of the composition.                                           *)

(* The status transfer the target has at the host is one of those under    *)
(* way there.                                                              *)
Network ==
  /\ peer \in {"None", "Requested", "Served", "Refused", "Done"}
  /\ faults \in 0 .. MaxFaults
  /\ peer = "Served" => statusFiles > 0

(* What a step of one end may do to them.                                  *)
LEMMA NetworkStands ==
  ASSUME Network, UNCHANGED networkVars, statusFiles' = statusFiles
  PROVE  Network'
BY DEF Network, networkVars

LEMMA HostAloneKeepsNetwork ==
  ASSUME Network, Host!TypeOK,
         HostSteps \/ HostInitialisationEnds \/ LoadListCompleted
  PROVE  Network'
<1>1. UNCHANGED networkVars
  BY DEF HostSteps, HostInitialisationEnds, InitialisationRefused,
    InitialisationAccepted, InitialisationLost, LoadListCompleted, HostAlone
<1>2. statusFiles' = statusFiles
  <2>1. CASE HostSteps
    BY <2>1
    DEF HostSteps, Host!Start, Host!TransmitRequestFile, Host!LoadList,
        Host!Request, Host!Answer, Host!RequestFileStarts, Host!Abort,
        Host!AbortSteps, Host!OperatorAbortRecorded,
        Host!ProtocolAbortRecorded, Host!AbortDelivered, Host!Terminate, Host!DlpTimerExpires, Host!TimerHandler,
        Host!transferVars
  <2>2. CASE HostInitialisationEnds
    BY <2>2
    DEF HostInitialisationEnds, InitialisationRefused, InitialisationAccepted,
        InitialisationLost, Host!InitialisationRefused,
        Host!InitialisationAccepted, Host!InitialisationFails,
        Host!transferVars
  <2>3. CASE LoadListCompleted
    BY <2>3 DEF LoadListCompleted, Host!RequestFileCompleted
  <2> QED
    BY <2>1, <2>2, <2>3
<1> QED
  BY <1>1, <1>2, NetworkStands

LEMMA TargetAloneKeepsNetwork ==
  ASSUME Network, \/ TargetSteps
                  \/ InitialisationRequested
                  \/ InitialisationSent
                  \/ LoadListArrives
  PROVE  Network'
BY NetworkStands DEF TargetSteps, InitialisationRequested, InitialisationSent,
  LoadListArrives, TargetAlone, hostVars

LEMMA StatusTransferKeepsNetwork ==
  ASSUME Network, Host!TypeOK,
         \/ StatusFileSent
         \/ StatusFileServed
         \/ StatusFileRefused
         \/ StatusRequestRepeated
         \/ AbortLost
         \/ StatusFileReceived
         \/ StatusFileLost
         \/ StatusFileAloneFails
         \/ TargetStatusFileEnds
  PROVE  Network'
<1>0. statusFiles \in Nat /\ faults \in 0 .. MaxFaults
  BY DEF Host!TypeOK, Network
<1>1. Fault => faults' \in 0 .. MaxFaults
  BY <1>0, LoadingBoundsAssumption DEF Fault
<1>2. CASE StatusFileServed \/ StatusRequestRepeated \/ StatusFileAloneFails
  BY <1>0, <1>1, <1>2
  DEF Network, StatusFileServed, StatusRequestRepeated, StatusFileAloneFails,
      Alone, HostAlone, networkVars, Host!StatusFileRequest,
      Host!DeliverAbort, Host!transferVars, Host!StatusFileFails,
      Host!StatusTransferEnds
<1>3. CASE \/ StatusFileSent
           \/ StatusFileRefused
           \/ AbortLost
           \/ StatusFileReceived
           \/ StatusFileLost
           \/ TargetStatusFileEnds
  <2>1. peer' \in {"None", "Requested", "Refused", "Done"}
    BY <1>3
    DEF StatusFileSent, StatusFileRefused, AbortLost, StatusFileReceived,
        StatusFileLost, TargetStatusFileEnds, AbortArrives,
        StatusFileAcknowledged, StatusFileUnanswered
  <2>2. faults' = faults \/ Fault
    BY <1>3
    DEF StatusFileSent, StatusFileRefused, AbortLost, StatusFileReceived,
        StatusFileLost, TargetStatusFileEnds, AbortArrives,
        StatusFileAcknowledged, StatusFileUnanswered
  <2> QED
    BY <1>0, <1>1, <2>1, <2>2 DEF Network
<1> QED
  BY <1>2, <1>3

LEMMA NetworkInvariance == Spec => []Network
<1>1. Init => Network
  BY LoadingBoundsAssumption DEF Init, Network
<1>2. Host!TypeOK /\ Network /\ [Next]_vars => Network'
  <2>1. ASSUME Network, UNCHANGED vars PROVE Network'
    BY <2>1, NetworkStands DEF vars, hostVars
  <2> QED
    BY <2>1, HostAloneKeepsNetwork, TargetAloneKeepsNetwork,
       StatusTransferKeepsNetwork
    DEF Next
<1> QED
  BY <1>1, <1>2, HostTypes, PTL DEF Spec

(* The composition is well typed; in particular, the host never counts     *)
(* fewer status transfers than the one the target waits for.               *)
THEOREM LoadingTypeCorrect == Spec => []TypeOK
<1>1. ApplicationIdle /\ Host!TypeOK /\ Target!TypeOK /\ Network => TypeOK
  <2> SUFFICES ASSUME ApplicationIdle, Host!TypeOK, Target!TypeOK, Network
               PROVE  TypeOK
    OBVIOUS
  <2>1. statusFiles \in Nat
    BY DEF Host!TypeOK
  <2>2. Alone \in Nat
    BY <2>1 DEF Alone, Network
  <2> QED
    BY <2>2 DEF ApplicationIdle, Network, TypeOK
<1> QED
  BY <1>1, ApplicationStaysIdle, HostTypes, TargetTypes, NetworkInvariance, PTL
===============================================================================
