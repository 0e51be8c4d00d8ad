------------------------ MODULE TargetOperationProofs ------------------------
(***************************************************************************)
(* What holds of TargetOperation for every set of decisions and every      *)
(* bound: a status is always under way, success is never made up, and the  *)
(* decision of the application stands.                                     *)
(***************************************************************************)
EXTENDS TargetOperation, TLAPS

(* statusCode() yields a final code, and that of success only for success. *)
LEMMA StatusCodeFinal ==
  ASSUME NEW status \in Decisions
  PROVE  /\ StatusCode(status) \in FinalCodes
         /\ StatusCode(status) = "OperationCompleted" => status = "Completed"
BY DecisionsAssumption DEF StatusCode, FinalCodes, FinalStatuses

(* finalStatus() is right about success.                                   *)
LEMMA FinalStatusOfCode ==
  ASSUME NEW c
  PROVE  /\ FinalStatus(c) \in FinalStatuses
         /\ FinalStatus(c) = "Completed" => c = "OperationCompleted"
BY DEF FinalStatus, FinalStatuses

(* Where a thread may be.                                                  *)
Activities == {"Idle", "Called", "Exited"} \cup SentCodes

(* What a forced status leaves behind.                                     *)
LEMMA ForcedStatus ==
  ASSUME TypeOK, NEW t \in Threads, NEW c \in SentCodes,
         NEW text \in TextLengths, ForceStatus(t, c, text)
  PROVE  /\ code' = c /\ description' \in TextLengths
         /\ activity' \in [Threads -> Activities]
         /\ statusTimer' \in {"Idle", "Armed"}
         /\ statusTimer = "Armed" => statusTimer' = "Armed"
         /\ activity["Io"] # "Idle" => activity'["Io"] # "Idle"
         /\ \A u \in Threads : activity'[u] \in {activity[u], "Called"}
BY DEF TypeOK, ForceStatus, SetStatus, TriggerStatusTransmission, Threads,
       Activities

(* Where a success may be on its way to the host or the application.       *)
SuccessSeen ==
  \/ code = "OperationCompleted"
  \/ \E t \in Threads : activity[t] = "OperationCompleted"
  \/ "OperationCompleted" \in {statusTransfer.file, statusTransfer.sent}
  \/ "Completed" \in reports
  \/ "OperationCompleted" \in delivered

SuccessJustified ==
  decision = "Completed" \/ (kind = "Information" /\ listTransfer = "Sent")

SuccessOnlyIfJustified == SuccessSeen => SuccessJustified

IInv ==
  /\ TypeOK
  /\ StatusReportingGoesOn
  /\ SuccessOnlyIfJustified
  /\ DecisionStands

LEMMA Initially == Init => IInv
<1> SUFFICES ASSUME Init PROVE IInv
  OBVIOUS
<1>1. TypeOK
  BY TargetBoundsAssumption
  DEF Init, TypeOK, NoTransfer, Threads, SentCodes, FinalStatuses,
      TextLengths
<1>2. ~SuccessSeen
  BY DEF Init, SuccessSeen, NoTransfer
<1> QED
  BY <1>1, <1>2 DEF Init, IInv, StatusReportingGoesOn, SuccessOnlyIfJustified,
                    DecisionStands

-------------------------------------------------------------------------------
(* One lemma per group of steps.                                           *)

LEMMA StartStep == IInv /\ (Start \/ SendInitFileComplete) => IInv'
<1> SUFFICES ASSUME IInv, Start \/ SendInitFileComplete PROVE IInv'
  OBVIOUS
<1> USE DEF IInv, TypeOK, StatusReportingGoesOn, SuccessOnlyIfJustified,
            SuccessSeen, SuccessJustified, DecisionStands, IoIdle, requestVars,
            historyVars, timerVars, statusVars
<1>1. CASE Start
  BY <1>1 DEF Start, SendInitFile
<1>2. CASE SendInitFileComplete
  <2>1. /\ initialisation = "Sending"
        /\ UNCHANGED <<kind, loadTexts, statusVars, expiries, activity,
                       statusTransfer, listTransfer, requestVars, decision,
                       abortRequests, delivered, ioException>>
    BY <1>2 DEF SendInitFileComplete
  <2>2. CASE InitFileSent
    BY <2>1, <2>2 DEF InitFileSent, TriggerStatusTransmissionTimer
  <2>3. CASE InitFileFails
    BY <2>1, <2>3 DEF InitFileFails, Finalise, FinalStatuses
  <2> QED
    BY <1>2, <2>2, <2>3 DEF SendInitFileComplete
<1> QED
  BY <1>1, <1>2

LEMMA ApplicationStep == IInv /\ Application => IInv'
<1> SUFFICES ASSUME IInv, Application PROVE IInv'
  OBVIOUS
<1> USE DEF IInv, ApplicationCalls, requestVars
<1>0. /\ "OperationAccepted" \in SentCodes \ FinalCodes
      /\ "OperationInProgress" \in SentCodes \ FinalCodes
      /\ FinalCodes \subseteq SentCodes
      /\ "Application" \in Threads /\ "Io" \in Threads
      /\ "Fits" \in TextLengths /\ Texts \subseteq TextLengths
  BY TextsAssumption
  DEF SentCodes, ProgressCodes, FinalCodes, Threads, TextLengths
<1>1. CASE Accepted \/ InProgress
  <2>1. PICK c \in {"OperationAccepted", "OperationInProgress"},
             text \in TextLengths :
          \/ ForceStatus("Application", c, text)
          \/ SetStatus(c, text) /\ UNCHANGED <<activity, statusTimer>>
    BY <1>1, <1>0 DEF Accepted, InProgress
  <2>2. /\ code' = c /\ description' \in TextLengths
        /\ activity' \in [Threads -> Activities]
        /\ statusTimer' \in {"Idle", "Armed"}
        /\ statusTimer = "Armed" => statusTimer' = "Armed"
        /\ activity["Io"] # "Idle" => activity'["Io"] # "Idle"
        /\ \A u \in Threads : activity'[u] \in {activity[u], "Called"}
    BY <2>1, <1>0, ForcedStatus DEF TypeOK, Activities, SetStatus
  <2>3. /\ UNCHANGED <<kind, initialisation, expiries, statusTransfer,
                       requestVars, abortRequests, reports, delivered,
                       ioException>>
        /\ UNCHANGED <<loadTexts, listTransfer, decision>>
        /\ decision = "None"
    BY <1>1 DEF Accepted, InProgress
  <2> QED
    BY <2>2, <2>3, <1>0
    DEF TypeOK, StatusReportingGoesOn, SuccessOnlyIfJustified, SuccessSeen,
        SuccessJustified, DecisionStands, IoIdle, Activities
<1>4. CASE LoadStatus
  BY <1>0, <1>4
  DEF LoadStatus, statusVars, TypeOK, StatusReportingGoesOn,
      SuccessOnlyIfJustified, SuccessSeen, SuccessJustified, DecisionStands,
      IoIdle
<1>2. CASE SendList
  BY <1>2 DEF SendList, statusVars, TypeOK, StatusReportingGoesOn, SuccessOnlyIfJustified,
              SuccessSeen, SuccessJustified, DecisionStands, IoIdle
<1>3. CASE Finish
  <2>1. PICK status \in Decisions : Finished(status)
    BY <1>3 DEF Finish
  <2> DEFINE c == StatusCode(status)
  <2>2. c \in FinalCodes /\ (c = "OperationCompleted" => status = "Completed")
    BY StatusCodeFinal
  <2>3. /\ code' = c /\ description' \in TextLengths
        /\ activity' \in [Threads -> Activities]
        /\ statusTimer' \in {"Idle", "Armed"}
        /\ statusTimer = "Armed" => statusTimer' = "Armed"
        /\ activity["Io"] # "Idle" => activity'["Io"] # "Idle"
        /\ \A u \in Threads : activity'[u] \in {activity[u], "Called"}
    <3>1. PICK text \in TextLengths : ForceStatus("Application", c, text)
      BY <2>1, <1>0 DEF Finished
    <3> QED
      BY <2>2, <3>1, <1>0, ForcedStatus
  <2>4. /\ UNCHANGED <<kind, initialisation, expiries, statusTransfer,
                       requestVars, abortRequests, reports, delivered,
                       ioException>>
        /\ UNCHANGED <<loadTexts, listTransfer>>
        /\ decision = "None" /\ decision' = status
    BY <2>1 DEF Finished
  <2>5. status \in FinalStatuses
    BY DecisionsAssumption
  <2> QED
    BY <2>2, <2>3, <2>4, <2>5, <1>0
    DEF TypeOK, StatusReportingGoesOn, SuccessOnlyIfJustified, SuccessSeen,
        SuccessJustified, DecisionStands, IoIdle
<1> QED
  BY <1>1, <1>2, <1>3, <1>4
  DEF Application, UploadCalls, MediaDefinedDownloadCalls,
      OperatorDefinedDownloadCalls, InformationCalls, TargetInformation,
      DownloadingList

LEMMA TimerStep ==
  IInv /\ (StatusTimerExpires \/ StatusTransmissionTimerHandler) => IInv'
<1> SUFFICES ASSUME IInv,
                    StatusTimerExpires \/ StatusTransmissionTimerHandler
             PROVE  IInv'
  OBVIOUS
<1> USE DEF IInv, TypeOK, StatusReportingGoesOn, SuccessOnlyIfJustified,
            SuccessSeen, SuccessJustified, DecisionStands, IoIdle, requestVars,
            historyVars, statusVars, Threads
<1>1. CASE StatusTimerExpires
  BY <1>1 DEF StatusTimerExpires
<1>2. CASE StatusTransmissionTimerHandler
  BY <1>2 DEF StatusTransmissionTimerHandler
<1> QED
  BY <1>1, <1>2

(* Encoding and sending leave the code final once it is.                   *)
LEMMA StatusFileStep == IInv /\ StatusFileSteps => IInv'
<1> SUFFICES ASSUME IInv, NEW t \in Threads, StatusFile(t) PROVE IInv'
  BY DEF StatusFileSteps, UploadStatusFile, MediaDefinedDownloadStatusFile,
         OperatorDefinedDownloadStatusFile, InformationStatusFile, Threads
<1> USE DEF IInv, IoIdle, requestVars, historyVars, timerVars, statusVars,
            Activities
<1>0. /\ "OperationAccepted" \in SentCodes
      /\ "OperationAccepted" # "OperationCompleted"
      /\ "Invalid" \notin FinalCodes /\ "Invalid" \notin SentCodes
      /\ "Idle" \notin SentCodes /\ "Called" \notin SentCodes
      /\ "Exited" \notin SentCodes
      /\ "Io" \in Threads
  BY DEF SentCodes, ProgressCodes, FinalCodes, Threads
<1>a. ASSUME StatusFileCalled(t)
      PROVE  /\ code' \in SentCodes /\ (code # "Invalid" => code' = code)
             /\ code = "Invalid" => code' = "OperationAccepted"
             /\ activity[t] = "Called"
             /\ UNCHANGED <<kind, loadTexts, initialisation, description,
                            timerVars, statusTransfer, listTransfer,
                            requestVars, decision, abortRequests, reports,
                            delivered>>
  BY <1>0, <1>a DEF StatusFileCalled, TypeOK
<1>1. CASE EncodeStatusFile(t)
  <2>1. StatusFileCalled(t)
    BY <1>1 DEF EncodeStatusFile
  <2>2. /\ activity' \in [Threads -> Activities]
        /\ \A u \in Threads : activity'[u] \in {activity[u], code'}
        /\ activity["Io"] # "Idle" => activity'["Io"] # "Idle"
        /\ UNCHANGED ioException
    BY <1>0, <1>1, <1>a, <2>1 DEF EncodeStatusFile, TypeOK, Activities
  <2> QED
    BY <1>0, <1>a, <2>1, <2>2
    DEF TypeOK, StatusReportingGoesOn, SuccessOnlyIfJustified, SuccessSeen,
        SuccessJustified, DecisionStands, Activities
<1>3. CASE EncodeStatusFileThrows(t)
  <2>1. StatusFileCalled(t)
    BY <1>3 DEF EncodeStatusFileThrows
  <2>2. /\ activity' \in [Threads -> Activities]
        /\ \A u \in Threads : activity'[u] \in {activity[u], "Idle", "Exited"}
        /\ \/ ioException' = "Yes"
           \/ ioException' = ioException /\ activity'["Io"] = activity["Io"]
    BY <1>0, <1>3 DEF EncodeStatusFileThrows, TypeOK, Activities, Threads
  <2> QED
    BY <1>0, <1>a, <2>1, <2>2
    DEF TypeOK, StatusReportingGoesOn, SuccessOnlyIfJustified, SuccessSeen,
        SuccessJustified, DecisionStands, Activities
<1>2. CASE SendStatusFile(t)
  <2>1. /\ statusTransfer' = [file |-> activity[t], sent |-> code,
                              progress |-> "Running"]
        /\ statusTransfer' \in StatusTransfers
        /\ statusTransfer'.file = activity[t] /\ statusTransfer'.sent = code
    BY <1>2 DEF SendStatusFile, TypeOK, StatusTransfers
  <2>2. /\ activity' \in [Threads -> Activities]
        /\ \A u \in Threads : activity'[u] \in {activity[u], "Idle"}
    BY <1>2 DEF SendStatusFile, TypeOK, Activities
  <2>3. /\ statusTimer' = "Armed"
        /\ UNCHANGED <<kind, loadTexts, initialisation, statusVars, expiries,
                       listTransfer, requestVars, historyVars>>
    BY <1>2 DEF SendStatusFile, TriggerStatusTransmissionTimer
  <2> QED
    BY <2>1, <2>2, <2>3
    DEF TypeOK, StatusReportingGoesOn, SuccessOnlyIfJustified, SuccessSeen,
        SuccessJustified, DecisionStands
<1> QED
  BY <1>1, <1>2, <1>3 DEF StatusFile

LEMMA ReceivesStep == IInv /\ HostReceivesStatusFile => IInv'
<1> SUFFICES ASSUME IInv, HostReceivesStatusFile PROVE IInv'
  OBVIOUS
<1>1. statusTransfer \in StatusTransfers
  BY DEF IInv, TypeOK, HostReceivesStatusFile, NoTransfer
<1>2. /\ statusTransfer' \in StatusTransfers
      /\ statusTransfer'.file = statusTransfer.file
      /\ statusTransfer'.sent = statusTransfer.sent
  BY <1>1 DEF HostReceivesStatusFile, StatusTransfers
<1> QED
  BY <1>2 DEF HostReceivesStatusFile, IInv, TypeOK, StatusReportingGoesOn,
              SuccessOnlyIfJustified, SuccessSeen, SuccessJustified,
              DecisionStands, IoIdle, requestVars, timerVars, statusVars

(* Success is reported only after a transmitted OperationCompleted, and    *)
(* only the information operation goes back to progress.                   *)
LEMMA CompletedStep == IInv /\ StatusFileCompleted => IInv'
<1> SUFFICES ASSUME IInv, StatusFileCompleted PROVE IInv'
  OBVIOUS
<1> USE DEF IInv, requestVars, statusVars, Activities
<1>1. /\ statusTransfer # NoTransfer /\ IoIdle
      /\ statusTransfer' = NoTransfer
      /\ UNCHANGED <<kind, loadTexts, initialisation, expiries, listTransfer,
                     requestVars, decision, delivered, ioException>>
  BY DEF StatusFileCompleted, UploadStatusFileCompleted,
         MediaDefinedDownloadStatusFileCompleted,
         OperatorDefinedDownloadStatusFileCompleted,
         InformationStatusFileCompleted, StatusTransmissionEnds,
         StatusFileAborted, StatusFileFails, ProgressTransmitted,
         AcceptanceTransmitted, FinalTransmitted, StatusTransferEnds
<1>2. NoTransfer.file # "OperationCompleted"
      /\ NoTransfer.sent # "OperationCompleted"
  BY DEF NoTransfer
<1>3. CASE StatusFileAborted
  BY <1>1, <1>2, <1>3
  DEF StatusFileAborted, TypeOK, StatusReportingGoesOn, IoIdle,
      SuccessOnlyIfJustified, SuccessSeen, SuccessJustified, DecisionStands
<1>4. CASE StatusFileFails
  BY <1>1, <1>2, <1>4
  DEF StatusFileFails, Finalise, TypeOK, StatusReportingGoesOn, IoIdle,
      SuccessOnlyIfJustified, SuccessSeen, SuccessJustified, DecisionStands,
      FinalStatuses
<1>5. CASE ProgressTransmitted
  BY <1>1, <1>2, <1>5
  DEF ProgressTransmitted, TriggerStatusTransmissionTimer, TypeOK,
      StatusReportingGoesOn, IoIdle, SuccessOnlyIfJustified, SuccessSeen,
      SuccessJustified, DecisionStands
<1>6. CASE FinalTransmitted
  <2> DEFINE status == FinalStatus(statusTransfer.sent)
  <2>1. /\ status \in FinalStatuses
        /\ status = "Completed" => statusTransfer.sent = "OperationCompleted"
    BY FinalStatusOfCode
  <2>2. /\ reports' = reports \cup {status} /\ statusTimer' = "Idle"
        /\ UNCHANGED <<statusVars, activity, abortRequests>>
    BY <1>6 DEF FinalTransmitted, Finalise
  <2> HIDE DEF status
  <2> QED
    BY <1>1, <1>2, <2>1, <2>2
    DEF TypeOK, StatusReportingGoesOn, SuccessOnlyIfJustified, SuccessSeen,
        SuccessJustified, DecisionStands
<1>7. CASE kind = "Information" /\ AcceptanceTransmitted
  <2>1. /\ "OperationInProgress" \in SentCodes
        /\ "OperationInProgress" # "OperationCompleted"
        /\ "Io" \in Threads /\ "Fits" \in TextLengths
    BY DEF SentCodes, ProgressCodes, Threads, TextLengths
  <2>2. /\ code' = "OperationInProgress" /\ description' \in TextLengths
        /\ activity' \in [Threads -> Activities]
        /\ statusTimer' \in {"Idle", "Armed"}
        /\ statusTimer = "Armed" => statusTimer' = "Armed"
        /\ \A u \in Threads : activity'[u] \in {activity[u], "Called"}
    BY <1>7, <2>1, ForcedStatus DEF AcceptanceTransmitted
  <2>3. UNCHANGED <<abortRequests, reports>>
    BY <1>7 DEF AcceptanceTransmitted
  <2> QED
    BY <1>1, <1>2, <1>7, <2>1, <2>2, <2>3
    DEF TypeOK, StatusReportingGoesOn, IoIdle, SuccessOnlyIfJustified,
        SuccessSeen, SuccessJustified, DecisionStands
<1> QED
  BY <1>3, <1>4, <1>5, <1>6, <1>7
  DEF StatusFileCompleted, UploadStatusFileCompleted,
      MediaDefinedDownloadStatusFileCompleted,
      OperatorDefinedDownloadStatusFileCompleted,
      InformationStatusFileCompleted, StatusTransmissionEnds

(* The list and the request file change the status only to a final one.    *)
LEMMA ListStep ==
  IInv /\ (TargetInformationCompleted \/ DownloadingListCompleted) => IInv'
<1> SUFFICES ASSUME IInv,
                    TargetInformationCompleted \/ DownloadingListCompleted
             PROVE  IInv'
  OBVIOUS
<1> USE DEF IInv, requestVars, statusVars, Activities
<1>0. /\ FinalCodes \subseteq SentCodes /\ "Io" \in Threads
      /\ "OperationAbortedByTargetHw" \in FinalCodes
      /\ "OperationCompleted" \in FinalCodes
      /\ "OperationAbortedByTargetHw" # "OperationCompleted"
      /\ "Completed" \in FinalStatuses
      /\ "Fits" \in TextLengths
  BY DEF SentCodes, FinalCodes, Threads, FinalStatuses, TextLengths
<1>1. /\ listTransfer = "Running" /\ listTransfer' \in {"Sent", "Failed"}
      /\ IoIdle
      /\ UNCHANGED <<kind, loadTexts, initialisation, expiries, statusTransfer,
                     requestVars, decision, abortRequests, delivered,
                     ioException>>
  BY DEF TargetInformationCompleted, DownloadingListCompleted, ListFails,
         ListTransferEnds
<1>2. \A c \in FinalCodes : ForceStatus("Io", c, "Fits") =>
        /\ code' = c /\ description' \in TextLengths
        /\ activity' \in [Threads -> Activities]
        /\ statusTimer' \in {"Idle", "Armed"}
        /\ statusTimer = "Armed" => statusTimer' = "Armed"
        /\ \A u \in Threads : activity'[u] \in {activity[u], "Called"}
  BY <1>0, ForcedStatus
<1>3. CASE ForceStatus("Io", "OperationAbortedByTargetHw", "Fits")
           /\ UNCHANGED reports
  BY <1>0, <1>1, <1>2, <1>3
  DEF TypeOK, StatusReportingGoesOn, SuccessOnlyIfJustified, SuccessSeen,
      SuccessJustified, DecisionStands, IoIdle
<1>4. CASE /\ kind = "Information" /\ listTransfer' = "Sent"
           /\ ForceStatus("Io", "OperationCompleted", "Fits") /\ UNCHANGED reports
  BY <1>0, <1>1, <1>2, <1>4
  DEF TypeOK, StatusReportingGoesOn, SuccessOnlyIfJustified, SuccessSeen,
      SuccessJustified, DecisionStands, IoIdle
<1>5. CASE /\ kind = "Information" /\ listTransfer' = "Sent"
           /\ Finalise("Completed") /\ UNCHANGED <<statusVars, activity>>
  BY <1>0, <1>1, <1>5
  DEF Finalise, TypeOK, StatusReportingGoesOn, SuccessOnlyIfJustified,
      SuccessSeen, SuccessJustified, DecisionStands, IoIdle
<1>6. CASE UNCHANGED <<statusVars, activity, statusTimer, reports>>
  BY <1>1, <1>6
  DEF TypeOK, StatusReportingGoesOn, SuccessOnlyIfJustified, SuccessSeen,
      SuccessJustified, DecisionStands, IoIdle
<1> QED
  BY <1>3, <1>4, <1>5, <1>6
  DEF TargetInformationCompleted, DownloadingListCompleted, ListFails

LEMMA RequestFileStep ==
  IInv /\ (RequestFileStarts \/ RequestFileCompletes
           \/ DroppedRequestVanishes) => IInv'
<1> SUFFICES ASSUME IInv, RequestFileStarts \/ RequestFileCompletes
                          \/ DroppedRequestVanishes
             PROVE  IInv'
  OBVIOUS
<1> USE DEF IInv, historyVars, timerVars, statusVars, Activities
<1>1. CASE RequestFileStarts
  BY <1>1 DEF RequestFileStarts, TypeOK, StatusReportingGoesOn, IoIdle,
              SuccessOnlyIfJustified, SuccessSeen, SuccessJustified,
              DecisionStands
<1>2. CASE RequestFileCompletes
  <2>0. /\ "OperationAbortedByTargetHw" \in SentCodes
        /\ "OperationAbortedByTargetHw" \in FinalCodes
        /\ "OperationAbortedByTargetHw" # "OperationCompleted"
        /\ "Io" \in Threads /\ "Fits" \in TextLengths
    BY DEF SentCodes, FinalCodes, Threads, TextLengths
  <2>1. /\ requestFile' \in {"None", "Active"} /\ droppedRequests' \in Nat
        /\ UNCHANGED <<kind, loadTexts, initialisation, expiries,
                       statusTransfer, listTransfer, requestFiles,
                       historyVars>>
    BY <1>2 DEF RequestFileCompletes, RequestFileEnds, TypeOK
  <2>2. CASE UNCHANGED <<statusVars, activity, statusTimer>>
    BY <2>1, <2>2 DEF TypeOK, StatusReportingGoesOn, IoIdle, SuccessSeen,
                      SuccessOnlyIfJustified, SuccessJustified, DecisionStands
  <2>3. CASE ForceStatus("Io", "OperationAbortedByTargetHw", "Fits")
    <3>1. /\ code' = "OperationAbortedByTargetHw" /\ description' \in TextLengths
          /\ activity' \in [Threads -> Activities]
          /\ statusTimer' \in {"Idle", "Armed"}
          /\ statusTimer = "Armed" => statusTimer' = "Armed"
          /\ activity["Io"] # "Idle" => activity'["Io"] # "Idle"
          /\ \A u \in Threads : activity'[u] \in {activity[u], "Called"}
      BY <2>0, <2>3, ForcedStatus
    <3> QED
      BY <2>0, <2>1, <3>1
      DEF TypeOK, StatusReportingGoesOn, IoIdle, SuccessSeen,
          SuccessOnlyIfJustified, SuccessJustified, DecisionStands
  <2> QED
    BY <1>2, <2>2, <2>3 DEF RequestFileCompletes
<1>3. CASE DroppedRequestVanishes
  BY <1>3 DEF DroppedRequestVanishes, TypeOK, StatusReportingGoesOn, IoIdle,
              SuccessOnlyIfJustified, SuccessSeen, SuccessJustified,
              DecisionStands
<1> QED
  BY <1>1, <1>2, <1>3

LEMMA Inductive == IInv /\ [Next]_vars => IInv'
<1> SUFFICES ASSUME IInv, [Next]_vars PROVE IInv'
  OBVIOUS
<1>1. CASE UNCHANGED vars
  BY <1>1 DEF IInv, vars, timerVars, requestVars, historyVars, statusVars, TypeOK,
              StatusReportingGoesOn, IoIdle, SuccessOnlyIfJustified,
              SuccessSeen, SuccessJustified, DecisionStands
<1> QED
  BY <1>1, StartStep, ApplicationStep, TimerStep, StatusFileStep, ReceivesStep,
     CompletedStep, ListStep, RequestFileStep
  DEF Next, UploadRequestFileRequest, MediaDefinedDownloadRequestFileRequest,
      AnswerFileRequest, UploadRequestFileCompleted,
      MediaDefinedDownloadRequestFileCompleted, AnswerFileCompleted

LEMMA Invariance == Spec => []IInv
BY Initially, Inductive, PTL DEF Spec

-------------------------------------------------------------------------------
(* Every reachable state is well typed: only codes of the protocol are put *)
(* into a status file.                                                     *)
THEOREM TypeCorrect == Spec => []TypeOK
<1>1. IInv => TypeOK
  BY DEF IInv
<1> QED
  BY <1>1, Invariance, PTL

(* An initialised operation always has a status file due or in the making, *)
(* unless the encoder's exception has left the I/O thread.                 *)
THEOREM ReportingContinues == Spec => []StatusReportingGoesOn
<1>1. IInv => StatusReportingGoesOn
  BY DEF IInv
<1> QED
  BY <1>1, Invariance, PTL

(* Success is told only if the application decided so or the information   *)
(* was transmitted.                                                        *)
THEOREM SuccessIsGenuine == Spec => []NoFalseSuccess
<1>1. IInv => NoFalseSuccess
  BY DEF IInv, SuccessOnlyIfJustified, SuccessSeen, SuccessJustified,
         NoFalseSuccess
<1> QED
  BY <1>1, Invariance, PTL

(* The decision of the application on an upload or a download stands.      *)
THEOREM DecisionIsKept == Spec => []DecisionStands
<1>1. IInv => DecisionStands
  BY DEF IInv
<1> QED
  BY <1>1, Invariance, PTL
=============================================================================
