------------------------- MODULE HostOperationProofs -------------------------
(***************************************************************************)
(* What holds of HostOperation for every set of status codes and every     *)
(* bound: the watchdog invariant, the accounting of aborts, and which      *)
(* events may be reported as a success.                                    *)
(***************************************************************************)
EXTENDS HostOperation, TLAPS

ReportedCodes == FinalCodes \cup RefusalCodes

(* finished() keeps what it assigns well typed.                            *)
LEMMA FinishedType ==
  ASSUME finishedCalls \in Seq(ReportedCodes),
         NEW code \in ReportedCodes, Finished(code)
  PROVE  /\ finishedCalls' \in Seq(ReportedCodes)
         /\ dlpTimer' \in {"Idle", "Armed"}
         /\ tftpServer' \in {"Stopped", "Listening"}
BY DEF Finished

(* doAbort() keeps the reason and the initialisation transfer well typed.  *)
LEMMA RecordAbortType ==
  ASSUME TypeOK, NEW reason \in AbortReasons, RecordAbort(reason)
  PROVE  /\ abortReason' \in AbortReasons \cup {"NoAbort"}
         /\ abortsAccepted' \in [AbortReasons -> Nat]
         /\ initialisation' \in {"NotStarted", "StartFailed", "Running",
                                 "Aborting", "Accepted", "Refused"}
BY DEF TypeOK, RecordAbort, AbortInitialisation

(* Every reachable state is well typed: the owner, in particular, is only  *)
(* ever told a final code it knows (finished()).                           *)
THEOREM TypeCorrect == Spec => []TypeOK
<1>1. Init => TypeOK
  BY BoundsAssumption DEF Init, TypeOK, Kinds
<1>2. TypeOK /\ [Next]_vars => TypeOK'
  <2> SUFFICES ASSUME TypeOK, [Next]_vars
               PROVE  TypeOK'
    OBVIOUS
  <2> USE BoundsAssumption DEF TypeOK
  <2>a. \A code \in ReportedCodes : Finished(code) =>
          /\ finishedCalls' \in Seq(ReportedCodes)
          /\ dlpTimer' \in {"Idle", "Armed"}
          /\ tftpServer' \in {"Stopped", "Listening"}
    BY FinishedType DEF ReportedCodes
  <2>b. \A reason \in AbortReasons : RecordAbort(reason) =>
          /\ abortReason' \in AbortReasons \cup {"NoAbort"}
          /\ abortsAccepted' \in [AbortReasons -> Nat]
          /\ initialisation' \in {"NotStarted", "StartFailed", "Running",
                                  "Aborting", "Accepted", "Refused"}
    BY RecordAbortType
  <2>c. /\ "OperationAbortedByDlp" \in ReportedCodes
        /\ "OperationAbortedByOperator" \in ReportedCodes
        /\ "OperationCompleted" \in ReportedCodes
        /\ FinalCodes \subseteq ReportedCodes
        /\ RefusalCodes \subseteq ReportedCodes
        /\ "Protocol" \in AbortReasons /\ "Operator" \in AbortReasons
    BY DEF ReportedCodes, FinalCodes, RefusalCodes, AbortReasons
  <2>d. finishedCalls \in Seq(ReportedCodes)
    BY DEF ReportedCodes
  <2> USE DEF ReportedCodes
  <2>1. CASE Start
    BY <2>1 DEF Start, transferVars, historyVars, boundVars
  <2>2. CASE InitialisationFileCompleted
    <3>1. CASE InitialisationFails
      BY <3>1, <2>a, <2>c
      DEF InitialisationFails, transferVars, historyVars, boundVars
    <3>2. ASSUME NEW code \in RefusalCodes, InitialisationRefused(code)
          PROVE  TypeOK'
      BY <3>2, <2>a, <2>c
      DEF InitialisationRefused, transferVars, historyVars, boundVars
    <3>3. CASE InitialisationAccepted
      BY <3>3 DEF InitialisationAccepted, TriggerDlpTimeout, transferVars,
                  historyVars, boundVars
    <3> QED
      BY <2>2, <3>1, <3>2, <3>3 DEF InitialisationFileCompleted
  <2>3. CASE DeliverAbort
    BY <2>3 DEF DeliverAbort, NotFinished, reportVars, abortVars, transferVars
  <2>4. CASE StatusFileRequest
    BY <2>4 DEF StatusFileRequest, NotFinished, reportVars, historyVars
  <2>5. CASE StatusFileCompleted
    <3> USE DEF StatusTransferEnds, abortVars, boundVars, Decoded
    <3>1. CASE StatusFileFails
      BY <3>1, <2>a, <2>c DEF StatusFileFails
    <3>2. CASE StatusFileUndecodable
      BY <3>2 DEF StatusFileUndecodable, NotFinished, reportVars
    <3>3. ASSUME NEW code \in StatusCodes, StatusFileFinal(code)
          PROVE  TypeOK'
      BY <3>3, <2>a, <2>c DEF StatusFileFinal
    <3>4. ASSUME NEW code \in StatusCodes, StatusFileProgress(code)
          PROVE  TypeOK'
      BY <3>4 DEF StatusFileProgress, TriggerDlpTimeout
    <3>5. ASSUME NEW code \in StatusCodes, StatusFileInvalid(code)
          PROVE  TypeOK'
      BY <3>5, <2>a, <2>c DEF StatusFileInvalid
    <3> QED
      BY <2>5, <3>1, <3>2, <3>3, <3>4, <3>5 DEF StatusFileCompleted
  <2>6. CASE ListFileRequest
    <3>1. /\ Finished("OperationAbortedByDlp") \/ UNCHANGED reportVars
          /\ ioThread' = ioThread \/ ioThread' \in {"Tested", "Idle"}
          /\ UNCHANGED abortVars
      BY <2>6 DEF ListFileRequest, ListFailure, NotFinished, TestAbort
    <3>2. /\ finishedCalls' \in Seq(ReportedCodes)
          /\ dlpTimer' \in {"Idle", "Armed"}
          /\ tftpServer' \in {"Stopped", "Listening"}
      BY <3>1, <2>a, <2>c, <2>d DEF reportVars
    <3> QED
      BY <2>6, <3>1, <3>2 DEF ListFileRequest, abortVars
  <2>7. CASE ListFileCompleted
    <3>1. /\ \/ Finished("OperationAbortedByDlp")
             \/ Finished("OperationCompleted")
             \/ TriggerDlpTimeout
             \/ UNCHANGED reportVars
          /\ ioThread' = ioThread \/ ioThread' \in {"Tested", "Idle"}
      BY <2>7 DEF ListFileCompleted, ListFailure, ListSuccess, NotFinished,
                  EndsWithList, TestAbort
    <3>2. /\ finishedCalls' \in Seq(ReportedCodes)
          /\ dlpTimer' \in {"Idle", "Armed"}
          /\ tftpServer' \in {"Stopped", "Listening"}
      BY <3>1, <2>a, <2>c, <2>d DEF reportVars, TriggerDlpTimeout
    <3>3. /\ listFile' \in {"None", "Active"} /\ droppedLists' \in Nat
          /\ listReceived' \in {"No", "Yes"}
          /\ UNCHANGED <<kind, abortVars, expiries, statusFiles, requestFile,
                         waitForFinalStatus, decodedStatuses, abortsSent,
                         statusRequests, listRequests, terminations>>
      BY <2>7 DEF ListFileCompleted, ListTransferEnds, boundVars
    <3> QED
      BY <3>1, <3>2, <3>3 DEF abortVars
  <2>8. CASE DroppedListVanishes
    BY <2>8 DEF DroppedListVanishes, NotFinished, reportVars, abortVars,
                boundVars
  <2>9. CASE TransmitRequestFile
    BY <2>9 DEF TransmitRequestFile, LoadList, Request, Answer,
      RequestFileStarts, NotFinished, reportVars, abortVars,
                boundVars
  <2>10. CASE RequestFileCompleted
    BY <2>10 DEF RequestFileCompleted, TestAbort, NotFinished, reportVars,
                 abortVars, boundVars
  <2>11. CASE Abort
    BY <2>11 DEF Abort, NotFinished, reportVars, transferVars, historyVars,
                 boundVars
  <2>16. CASE AbortSteps
    <3> USE DEF NotFinished, reportVars, transferVars, boundVars
    <3>1. CASE OperatorAbortRecorded
      BY <3>1, <2>b, <2>c DEF OperatorAbortRecorded
    <3>2. CASE ProtocolAbortRecorded
      BY <3>2, <2>b, <2>c DEF ProtocolAbortRecorded
    <3>3. CASE AbortDelivered
      BY <3>3 DEF AbortDelivered, TriggerDlpTimeout, historyVars
    <3> QED
      BY <2>16, <3>1, <3>2, <3>3 DEF AbortSteps
  <2>12. ASSUME NEW reason \in AbortReasons, Terminate(reason)
         PROVE  TypeOK'
    BY <2>12, <2>a, <2>c DEF Terminate, AbortInitialisation, transferVars,
                             historyVars
  <2>13. CASE DlpTimerExpires
    BY <2>13 DEF DlpTimerExpires, transferVars, historyVars, boundVars
  <2>14. CASE TimerHandler
    BY <2>14, <2>a, <2>c DEF TimerHandler, transferVars, historyVars, boundVars
  <2>15. CASE UNCHANGED vars
    BY <2>15 DEF vars
  <2> QED
    BY <2>1, <2>2, <2>3, <2>4, <2>5, <2>6, <2>7, <2>8, <2>9, <2>10, <2>11,
       <2>12, <2>13, <2>14, <2>15, <2>16
         DEF Next, ReceivedTftpRequest, UploadTftpRequest,
           InformationTftpRequest, MediaDefinedTftpRequest,
           OperatorDefinedTftpRequest, StatusRequest, TransferCompleted,
           UploadStatusFileCompleted, InformationStatusFileCompleted,
           DownloadStatusFileCompleted, InformationListFileCompleted,
           OperatorDefinedListFileCompleted, LoadListCompleted,
           RequestCompleted, AnswerCompleted
<1> QED
  BY <1>1, <1>2, PTL DEF Spec

-------------------------------------------------------------------------------
(* An operation nobody has started yet has nothing under way.              *)
Dormant ==
  initialisation = "NotStarted" =>
    /\ tftpServer = "Stopped" /\ dlpTimer = "Idle" /\ expiries = 0
    /\ guiThread = "Idle" /\ ioThread = "Idle"
    /\ finishedCalls = <<>> /\ requestFile = "NotIssued"
    /\ statusFiles = 0 /\ listFile = "None" /\ droppedLists = 0
    /\ decodedStatuses = {} /\ listReceived = "No"

(* A report ends the service of the target's requests.                     *)
StoppedWhenFinished == finishedCalls # <<>> => tftpServer = "Stopped"

(* An information operation remembers that a status file announced a final *)
(* status.                                                                 *)
AnnouncementKept ==
  kind = "Information" /\ decodedStatuses \cap ProgressCodes # {} =>
    waitForFinalStatus = "Yes"

IInv ==
  /\ TypeOK
  /\ Dormant
  /\ StoppedWhenFinished
  /\ AnnouncementKept
  /\ WatchdogCoversOperation
  /\ NoFalseSuccess

(* A step that reports an end, and what a report of success needs.         *)
ReportsWithReason ==
  \E code \in ReportedCodes :
    /\ Finished(code)
    /\ code = "OperationCompleted" =>
         \/ "OperationCompleted" \in decodedStatuses'
         \/ EndsWithList /\ listReceived' = "Yes"

KeepsReports == UNCHANGED <<finishedCalls, tftpServer>>

(* The watchdog is left alone, armed, or about to report.                  *)
KeepsWatchdog ==
  \/ UNCHANGED <<dlpTimer, expiries>>
  \/ dlpTimer' = "Armed"
  \/ expiries' = expiries + 1

Remembers ==
  /\ kind' = kind
  /\ decodedStatuses \subseteq decodedStatuses'
  /\ listReceived = "Yes" => listReceived' = "Yes"

(* What a step of a started operation does to the report and the watchdog. *)
EffectOnReport ==
  /\ ReportsWithReason \/ (KeepsReports /\ KeepsWatchdog)
  /\ initialisation' # "NotStarted"
  /\ initialisation' = "Accepted" =>
       initialisation = "Accepted" \/ dlpTimer' = "Armed"

(* The only step of an operation nobody has started is Start.              *)
LEMMA OnlyStart ==
  ASSUME TypeOK, Dormant, Next, initialisation = "NotStarted"
  PROVE  Start
<1>1. ~ InitialisationFileCompleted
  BY DEF InitialisationFileCompleted, InitialisationFails,
         InitialisationRefused, InitialisationAccepted
<1>2. ~ (DeliverAbort \/ StatusFileRequest \/ ListFileRequest)
  BY DEF Dormant, DeliverAbort, StatusFileRequest, ListFileRequest
<1>3. ~ StatusFileCompleted
  BY DEF Dormant, StatusFileCompleted, StatusFileFails, StatusFileUndecodable,
         StatusFileFinal, StatusFileProgress, StatusFileInvalid,
         StatusTransferEnds
<1>4. ~ (ListFileCompleted \/ DroppedListVanishes)
  BY DEF Dormant, ListFileCompleted, ListTransferEnds, DroppedListVanishes
<1>6. ~ (TransmitRequestFile \/ RequestFileCompleted)
  BY DEF Dormant, TransmitRequestFile, LoadList, Request, Answer,
      StatusPageOpens, RequestFileStarts, RequestFileCompleted
<1>7. ~ (Abort \/ AbortSteps \/ \E reason \in AbortReasons : Terminate(reason))
  BY DEF Dormant, Abort, AbortSteps, OperatorAbortRecorded,
         ProtocolAbortRecorded, AbortDelivered, Terminate
<1>8. ~ (DlpTimerExpires \/ TimerHandler)
  BY DEF Dormant, DlpTimerExpires, TimerHandler
<1> QED
  BY <1>1, <1>2, <1>3, <1>4, <1>6, <1>7, <1>8
    DEF Next, ReceivedTftpRequest, UploadTftpRequest,
      InformationTftpRequest, MediaDefinedTftpRequest,
      OperatorDefinedTftpRequest, StatusRequest, TransferCompleted,
      UploadStatusFileCompleted, InformationStatusFileCompleted,
      DownloadStatusFileCompleted, InformationListFileCompleted,
      OperatorDefinedListFileCompleted, LoadListCompleted,
      RequestCompleted, AnswerCompleted

(* doAbort() does not undo start().                                        *)
LEMMA AbortKeepsStarted ==
  ASSUME initialisation # "NotStarted", AbortSteps
  PROVE  /\ initialisation' # "NotStarted"
         /\ initialisation' = "Accepted" => initialisation = "Accepted"
BY DEF AbortSteps, OperatorAbortRecorded, ProtocolAbortRecorded,
       AbortDelivered, RecordAbort, AbortInitialisation

(* Every report of a success has its reason, and no step but a report      *)
(* disarms the watchdog for good: one case per action.                     *)
LEMMA ReportStep ==
  ASSUME TypeOK, Next, initialisation # "NotStarted"
  PROVE  EffectOnReport
<1> USE DEF EffectOnReport, ReportsWithReason, KeepsReports, KeepsWatchdog
<1>a. /\ "OperationAbortedByDlp" \in ReportedCodes
      /\ "OperationAbortedByOperator" \in ReportedCodes
      /\ "OperationCompleted" \in ReportedCodes
      /\ FinalCodes \subseteq ReportedCodes
      /\ RefusalCodes \subseteq ReportedCodes
      /\ "OperationCompleted" \notin RefusalCodes
  BY DEF ReportedCodes, FinalCodes, RefusalCodes
<1>1. CASE Start
  BY <1>1 DEF Start
<1>2. CASE InitialisationFileCompleted
  <2>1. CASE InitialisationFails
    BY <2>1, <1>a DEF InitialisationFails
  <2>2. ASSUME NEW code \in RefusalCodes, InitialisationRefused(code)
        PROVE  EffectOnReport
    BY <2>2, <1>a DEF InitialisationRefused
  <2>3. CASE InitialisationAccepted
    BY <2>3 DEF InitialisationAccepted, TriggerDlpTimeout
  <2> QED
    BY <1>2, <2>1, <2>2, <2>3 DEF InitialisationFileCompleted
<1>3. CASE DeliverAbort
  BY <1>3 DEF DeliverAbort, NotFinished, reportVars, abortVars
<1>4. CASE StatusFileRequest
  BY <1>4 DEF StatusFileRequest, NotFinished, reportVars
<1>5. CASE StatusFileCompleted
  <2> USE DEF StatusTransferEnds, abortVars, Decoded
  <2>1. CASE StatusFileFails
    BY <2>1, <1>a DEF StatusFileFails
  <2>2. CASE StatusFileUndecodable
    BY <2>2 DEF StatusFileUndecodable, NotFinished, reportVars
  <2>3. ASSUME NEW code \in StatusCodes, StatusFileFinal(code)
        PROVE  EffectOnReport
    BY <2>3, <1>a DEF StatusFileFinal
  <2>4. ASSUME NEW code \in StatusCodes, StatusFileProgress(code)
        PROVE  EffectOnReport
    BY <2>4 DEF StatusFileProgress, TriggerDlpTimeout
  <2>5. ASSUME NEW code \in StatusCodes, StatusFileInvalid(code)
        PROVE  EffectOnReport
    BY <2>5, <1>a DEF StatusFileInvalid
  <2> QED
    BY <1>5, <2>1, <2>2, <2>3, <2>4, <2>5 DEF StatusFileCompleted
<1>6. CASE ListFileRequest
  <2>1. /\ Finished("OperationAbortedByDlp") \/ UNCHANGED reportVars
        /\ UNCHANGED <<initialisation, expiries>>
    BY <1>6 DEF ListFileRequest, ListFailure, NotFinished, abortVars
  <2> QED
    BY <2>1, <1>a DEF reportVars
<1>7. CASE ListFileCompleted
  <2>1. /\ \/ Finished("OperationAbortedByDlp")
           \/ Finished("OperationCompleted") /\ EndsWithList
                                             /\ listReceived' = "Yes"
           \/ TriggerDlpTimeout
           \/ UNCHANGED reportVars
        /\ UNCHANGED <<initialisation, expiries>>
    BY <1>7 DEF ListFileCompleted, ListTransferEnds, ListFailure, ListSuccess,
                NotFinished, EndsWithList, abortVars
  <2> QED
    BY <2>1, <1>a DEF reportVars, TriggerDlpTimeout
<1>8. CASE DroppedListVanishes
  BY <1>8 DEF DroppedListVanishes, NotFinished, reportVars, abortVars
<1>9. CASE TransmitRequestFile
  BY <1>9 DEF TransmitRequestFile, LoadList, Request, Answer,
      RequestFileStarts, NotFinished, reportVars, abortVars
<1>10. CASE RequestFileCompleted
  BY <1>10 DEF RequestFileCompleted, NotFinished, reportVars, abortVars
<1>11. CASE Abort
  BY <1>11 DEF Abort, NotFinished, reportVars
<1>15. CASE AbortSteps
  <2>1. KeepsReports /\ KeepsWatchdog
    BY <1>15 DEF AbortSteps, OperatorAbortRecorded, ProtocolAbortRecorded,
                 AbortDelivered, TriggerDlpTimeout, NotFinished, reportVars
  <2> QED
    BY <1>15, <2>1, AbortKeepsStarted
<1>12. ASSUME NEW reason \in AbortReasons, Terminate(reason)
       PROVE  EffectOnReport
  BY <1>12, <1>a DEF Terminate, AbortInitialisation
<1>13. CASE DlpTimerExpires
  BY <1>13 DEF DlpTimerExpires
<1>14. CASE TimerHandler
  BY <1>14, <1>a DEF TimerHandler
<1> QED
  BY <1>1, <1>2, <1>3, <1>4, <1>5, <1>6, <1>7, <1>8, <1>9, <1>10, <1>11,
     <1>12, <1>13, <1>14, <1>15
       DEF Next, ReceivedTftpRequest, UploadTftpRequest,
         InformationTftpRequest, MediaDefinedTftpRequest,
         OperatorDefinedTftpRequest, StatusRequest, TransferCompleted,
         UploadStatusFileCompleted, InformationStatusFileCompleted,
         DownloadStatusFileCompleted, InformationListFileCompleted,
         OperatorDefinedListFileCompleted, LoadListCompleted,
         RequestCompleted, AnswerCompleted

(* The step lemmas below take the actions of a started operation together, *)
(* by what they leave alone.                                               *)
LEMMA MemoryStep ==
  ASSUME TypeOK, [Next]_vars
  PROVE  Remembers
<1> USE DEF Remembers, reportVars, transferVars, historyVars, boundVars, abortVars
<1>1. CASE Start
  BY <1>1 DEF Start
<1>2. CASE InitialisationFileCompleted
  BY <1>2 DEF InitialisationFileCompleted, InitialisationFails,
              InitialisationRefused, InitialisationAccepted
<1>3. CASE DeliverAbort \/ StatusFileRequest
  BY <1>3 DEF DeliverAbort, StatusFileRequest
<1>4. CASE StatusFileCompleted
  BY <1>4 DEF StatusFileCompleted, StatusFileFails, StatusFileUndecodable,
              StatusFileFinal, StatusFileProgress, StatusFileInvalid,
              StatusTransferEnds, Decoded
<1>5. CASE ListFileRequest \/ ListFileCompleted \/ DroppedListVanishes
  BY <1>5 DEF ListFileRequest, ListFileCompleted, ListTransferEnds,
              DroppedListVanishes
<1>6. CASE TransmitRequestFile \/ RequestFileCompleted \/ Abort \/ AbortSteps
  BY <1>6 DEF TransmitRequestFile, LoadList, Request, Answer,
      RequestFileStarts, RequestFileCompleted, Abort, AbortSteps, OperatorAbortRecorded,
              ProtocolAbortRecorded, AbortDelivered
<1>7. CASE \E reason \in AbortReasons : Terminate(reason)
  BY <1>7 DEF Terminate
<1>8. CASE DlpTimerExpires \/ TimerHandler
  BY <1>8 DEF DlpTimerExpires, TimerHandler
<1>9. CASE UNCHANGED vars
  BY <1>9 DEF vars
<1> QED
  BY <1>1, <1>2, <1>3, <1>4, <1>5, <1>6, <1>7, <1>8, <1>9
    DEF Next, ReceivedTftpRequest, UploadTftpRequest,
      InformationTftpRequest, MediaDefinedTftpRequest,
      OperatorDefinedTftpRequest, StatusRequest, TransferCompleted,
      UploadStatusFileCompleted, InformationStatusFileCompleted,
      DownloadStatusFileCompleted, InformationListFileCompleted,
      OperatorDefinedListFileCompleted, LoadListCompleted,
      RequestCompleted, AnswerCompleted

(* Only statusFileCompleted() adds a decoded code, and for an information  *)
(* operation a progress code sets waitForFinalStatusV, which only start()  *)
(* clears.                                                                 *)
LEMMA AnnouncementStep ==
  ASSUME TypeOK, Next, initialisation # "NotStarted", AnnouncementKept
  PROVE  AnnouncementKept'
<1> USE DEF AnnouncementKept, transferVars, historyVars, boundVars, abortVars
<1>1. CASE Start
  BY <1>1 DEF Start
<1>2. CASE InitialisationFileCompleted
  BY <1>2 DEF InitialisationFileCompleted, InitialisationFails,
              InitialisationRefused, InitialisationAccepted
<1>3. CASE DeliverAbort \/ StatusFileRequest
  BY <1>3 DEF DeliverAbort, StatusFileRequest
<1>4. CASE StatusFileCompleted
  <2> USE DEF StatusTransferEnds, Decoded
  <2>1. CASE StatusFileFails \/ StatusFileUndecodable
    BY <2>1 DEF StatusFileFails, StatusFileUndecodable
  <2>2. ASSUME NEW code \in StatusCodes, StatusFileFinal(code)
        PROVE  AnnouncementKept'
    <3>1. code \notin ProgressCodes
      BY <2>2 DEF StatusFileFinal, FinalCodes, ProgressCodes
    <3> QED
      BY <2>2, <3>1 DEF StatusFileFinal
  <2>3. ASSUME NEW code \in StatusCodes, StatusFileProgress(code)
        PROVE  AnnouncementKept'
    BY <2>3 DEF StatusFileProgress
  <2>4. ASSUME NEW code \in StatusCodes, StatusFileInvalid(code)
        PROVE  AnnouncementKept'
    BY <2>4 DEF StatusFileInvalid
  <2> QED
    BY <1>4, <2>1, <2>2, <2>3, <2>4 DEF StatusFileCompleted
<1>5. CASE ListFileRequest \/ ListFileCompleted \/ DroppedListVanishes
  BY <1>5 DEF ListFileRequest, ListFileCompleted, ListTransferEnds,
              DroppedListVanishes
<1>6. CASE TransmitRequestFile \/ RequestFileCompleted \/ Abort \/ AbortSteps
  BY <1>6 DEF TransmitRequestFile, LoadList, Request, Answer,
      RequestFileStarts, RequestFileCompleted, Abort, AbortSteps, OperatorAbortRecorded,
              ProtocolAbortRecorded, AbortDelivered
<1>7. CASE \E reason \in AbortReasons : Terminate(reason)
  BY <1>7 DEF Terminate
<1>8. CASE DlpTimerExpires \/ TimerHandler
  BY <1>8 DEF DlpTimerExpires, TimerHandler
<1> QED
  BY <1>1, <1>2, <1>3, <1>4, <1>5, <1>6, <1>7, <1>8
    DEF Next, ReceivedTftpRequest, UploadTftpRequest,
      InformationTftpRequest, MediaDefinedTftpRequest,
      OperatorDefinedTftpRequest, StatusRequest, TransferCompleted,
      UploadStatusFileCompleted, InformationStatusFileCompleted,
      DownloadStatusFileCompleted, InformationListFileCompleted,
      OperatorDefinedListFileCompleted, LoadListCompleted,
      RequestCompleted, AnswerCompleted

(* A step keeps the reasons of the earlier reports (MemoryStep), and a new *)
(* success has one of its own (ReportStep).                                *)
LEMMA NoFalseSuccessStep ==
  ASSUME TypeOK, NoFalseSuccess, Remembers,
         ReportsWithReason \/ UNCHANGED finishedCalls
  PROVE  NoFalseSuccess'
<1>1. CASE UNCHANGED finishedCalls
  BY <1>1 DEF NoFalseSuccess, Remembers
<1>2. CASE ReportsWithReason
  <2>1. PICK code \in ReportedCodes :
          /\ finishedCalls' = Append(finishedCalls, code)
          /\ code = "OperationCompleted" =>
               \/ "OperationCompleted" \in decodedStatuses'
               \/ kind' = "Information" /\ listReceived' = "Yes"
    BY <1>2 DEF ReportsWithReason, Finished, EndsWithList, Remembers
  <2>2. finishedCalls \in Seq(ReportedCodes)
    BY DEF TypeOK, ReportedCodes
  <2>3. SUFFICES ASSUME NEW i \in 1 .. Len(finishedCalls'),
                        finishedCalls'[i] = "OperationCompleted"
                 PROVE  \/ "OperationCompleted" \in decodedStatuses'
                        \/ kind' = "Information" /\ listReceived' = "Yes"
    BY DEF NoFalseSuccess
  <2>4. CASE i = Len(finishedCalls) + 1
    BY <2>1, <2>2, <2>3, <2>4
  <2>5. CASE i \in 1 .. Len(finishedCalls)
    <3>1. finishedCalls[i] = "OperationCompleted"
      BY <2>1, <2>2, <2>3, <2>5
    <3> QED
      BY <3>1, <2>5 DEF NoFalseSuccess, Remembers
  <2> QED
    BY <2>1, <2>2, <2>4, <2>5
<1> QED
  BY <1>1, <1>2

(* finished() leaves a report behind.                                      *)
LEMMA ReportNotEmpty ==
  ASSUME TypeOK, ReportsWithReason
  PROVE  finishedCalls' # <<>> /\ tftpServer' = "Stopped"
<1>1. PICK code \in ReportedCodes : Finished(code)
  BY DEF ReportsWithReason
<1>2. finishedCalls \in Seq(ReportedCodes)
  BY DEF TypeOK, ReportedCodes
<1>3. Len(finishedCalls') = Len(finishedCalls) + 1
  BY <1>1, <1>2 DEF Finished
<1>4. Len(finishedCalls) \in Nat
  BY <1>2
<1> QED
  BY <1>1, <1>3, <1>4 DEF Finished

(* The invariants hold together: StoppedWhenFinished and Dormant keep the  *)
(* target from being served before start() and after finished(), and       *)
(* AnnouncementKept ties waitForFinalStatusV to what was decoded.          *)
THEOREM Inductive == Spec => []IInv
<1>1. Init => IInv
  <2> SUFFICES ASSUME Init PROVE IInv
    OBVIOUS
  <2>1. TypeOK
    BY BoundsAssumption DEF Init, TypeOK, Kinds
  <2>2. Dormant /\ StoppedWhenFinished /\ AnnouncementKept
        /\ WatchdogCoversOperation /\ NoFalseSuccess
    BY DEF Init, Dormant, StoppedWhenFinished, AnnouncementKept,
           WatchdogCoversOperation, NoFalseSuccess
  <2> QED
    BY <2>1, <2>2 DEF IInv
<1>2. IInv /\ TypeOK' /\ [Next]_vars => IInv'
  <2> SUFFICES ASSUME IInv, TypeOK', [Next]_vars
               PROVE  IInv'
    OBVIOUS
  <2>0. TypeOK /\ Dormant /\ StoppedWhenFinished /\ AnnouncementKept
        /\ WatchdogCoversOperation /\ NoFalseSuccess
    BY DEF IInv
  <2>1. CASE UNCHANGED vars
    BY <2>0, <2>1 DEF vars, IInv, TypeOK, Dormant, StoppedWhenFinished,
       AnnouncementKept, WatchdogCoversOperation, NoFalseSuccess
  <2>2. CASE Next /\ initialisation = "NotStarted"
    <3>1. Start
      BY <2>0, <2>2, OnlyStart
    <3> QED
      BY <3>1, <2>0, <2>2
      DEF Start, IInv, Dormant, StoppedWhenFinished, AnnouncementKept,
          WatchdogCoversOperation, NoFalseSuccess, transferVars, historyVars
  <2>3. CASE Next /\ initialisation # "NotStarted"
    <3>1. EffectOnReport /\ Remembers
      BY <2>0, <2>3, ReportStep, MemoryStep
    <3>2. AnnouncementKept'
      BY <2>0, <2>3, AnnouncementStep
    <3>3. NoFalseSuccess'
      BY <2>0, <3>1, NoFalseSuccessStep DEF EffectOnReport, KeepsReports
    <3>4. Dormant'
      BY <3>1 DEF EffectOnReport, Dormant
    <3>5. CASE KeepsReports /\ KeepsWatchdog
      <4>1. StoppedWhenFinished'
        BY <2>0, <3>5 DEF StoppedWhenFinished, KeepsReports
      <4>2. WatchdogCoversOperation'
        BY <2>0, <3>1, <3>5
        DEF WatchdogCoversOperation, KeepsReports, KeepsWatchdog,
            EffectOnReport, TypeOK
      <4> QED
        BY <3>2, <3>3, <3>4, <4>1, <4>2 DEF IInv
    <3>6. CASE ReportsWithReason
      <4>1. finishedCalls' # <<>> /\ tftpServer' = "Stopped"
        BY <2>0, <3>6, ReportNotEmpty
      <4> QED
        BY <3>2, <3>3, <3>4, <4>1
        DEF IInv, StoppedWhenFinished, WatchdogCoversOperation
    <3> QED
      BY <3>1, <3>5, <3>6 DEF EffectOnReport
  <2> QED
    BY <2>1, <2>2, <2>3
<1> QED
  BY <1>1, <1>2, TypeCorrect, PTL DEF Spec

(* An accepted operation is never left without the watchdog before it has  *)
(* reported its end: a target that falls silent cannot hang it             *)
(* (triggerDlpTimeout(), timerHandler(), finished()).                      *)
THEOREM WatchdogCorrect == Spec => []WatchdogCoversOperation
<1>1. IInv => WatchdogCoversOperation
  BY DEF IInv
<1> QED
  BY <1>1, Inductive, PTL

(* No timeout, failure or abort is reported as OperationCompleted.         *)
THEOREM SuccessIsGenuine == Spec => []NoFalseSuccess
<1>1. IInv => NoFalseSuccess
  BY DEF IInv
<1> QED
  BY <1>1, Inductive, PTL

-------------------------------------------------------------------------------
-------------------------------------------------------------------------------
(* A step outside doAbort() and isAborted() at most starts a doAbort() of  *)
(* the I/O thread, and that only while no abort is pending.                *)
AbortUntouched ==
  /\ UNCHANGED <<abortReason, abortsAccepted, abortsSent, guiThread>>
  /\ \/ UNCHANGED ioThread
     \/ ioThread = "Idle" /\ ioThread' = "Tested" /\ abortReason = "NoAbort"

(* A thread that has seen no reason and now overwrites one has not counted *)
(* its abort yet, and the reason isAborted() is about to reset is the one  *)
(* it has sent.                                                            *)
AbortsInHand ==
  /\ guiThread = "Tested" /\ abortReason # "NoAbort" =>
       abortsAccepted["Operator"] < AbortMessages
  /\ ioThread = "Tested" /\ abortReason # "NoAbort" =>
       abortsAccepted["Protocol"] < AbortMessages
  /\ ioThread = "Sent" => abortReason # "NoAbort"

(* Only doAbort() and isAborted() record, send and reset an abort.         *)
LEMMA AbortStep ==
  ASSUME TypeOK, [Next]_vars
  PROVE  \/ AbortUntouched
         \/ Abort
         \/ AbortSteps
         \/ DeliverAbort
<1> USE DEF AbortUntouched, transferVars, historyVars, boundVars, abortVars
<1>a. IoIdle /\ TestAbort /\ UNCHANGED <<abortVars, abortsSent>> =>
        AbortUntouched
  BY DEF IoIdle, TestAbort
<1>1. CASE Start
  BY <1>1 DEF Start
<1>2. CASE InitialisationFileCompleted
  BY <1>2 DEF InitialisationFileCompleted, InitialisationFails,
              InitialisationRefused, InitialisationAccepted
<1>4. CASE StatusFileRequest
  BY <1>4 DEF StatusFileRequest
<1>5. CASE StatusFileCompleted
  BY <1>5 DEF StatusFileCompleted, StatusFileFails, StatusFileUndecodable,
              StatusFileFinal, StatusFileProgress, StatusFileInvalid,
              StatusTransferEnds
<1>6. CASE ListFileRequest
  <2>1. /\ IoIdle /\ UNCHANGED <<abortVars, abortsSent>>
        /\ UNCHANGED ioThread \/ TestAbort
    BY <1>6 DEF ListFileRequest, ListFailure
  <2> QED
    BY <2>1, <1>a
<1>7. CASE ListFileCompleted
  <2>1. /\ IoIdle /\ UNCHANGED <<abortVars, abortsSent>>
        /\ UNCHANGED ioThread \/ TestAbort
    BY <1>7 DEF ListFileCompleted, ListTransferEnds, ListFailure, ListSuccess
  <2> QED
    BY <2>1, <1>a
<1>8. CASE DroppedListVanishes \/ TransmitRequestFile
  BY <1>8 DEF DroppedListVanishes, TransmitRequestFile, LoadList, Request,
      Answer, RequestFileStarts
<1>9. CASE RequestFileCompleted
  <2>1. /\ IoIdle /\ UNCHANGED <<abortVars, abortsSent>>
        /\ UNCHANGED ioThread \/ TestAbort
    BY <1>9 DEF RequestFileCompleted
  <2> QED
    BY <2>1, <1>a
<1>11. CASE \E reason \in AbortReasons : Terminate(reason)
  BY <1>11 DEF Terminate
<1>12. CASE DlpTimerExpires \/ TimerHandler
  BY <1>12 DEF DlpTimerExpires, TimerHandler
<1>13. CASE UNCHANGED vars
  BY <1>13 DEF vars
<1> QED
  BY <1>1, <1>2, <1>4, <1>5, <1>6, <1>7, <1>8, <1>9, <1>11,
     <1>12, <1>13
       DEF Next, ReceivedTftpRequest, UploadTftpRequest,
         InformationTftpRequest, MediaDefinedTftpRequest,
         OperatorDefinedTftpRequest, StatusRequest, TransferCompleted,
         UploadStatusFileCompleted, InformationStatusFileCompleted,
         DownloadStatusFileCompleted, InformationListFileCompleted,
         OperatorDefinedListFileCompleted, LoadListCompleted,
         RequestCompleted, AnswerCompleted

(* However the two threads and isAborted() interleave, no abort is sent    *)
(* twice, and two recorded ones share an ABORT message only if the two     *)
(* threads recorded one each (doAbort(), isAborted(), no lock).            *)
THEOREM AbortSentOnce == Spec => []AbortAccounted
<1> DEFINE Inv == AbortAccounted /\ AbortsInHand
<1>1. Init => Inv
  BY DEF Init, AbortAccounted, AbortsInHand, AbortMessages, AbortReasons
<1>2. TypeOK /\ Inv /\ [Next]_vars => Inv'
  <2> SUFFICES ASSUME TypeOK, Inv, [Next]_vars
               PROVE  Inv'
    OBVIOUS
  <2> USE DEF AbortAccounted, AbortsInHand, AbortMessages, AbortReasons
  <2>0. /\ abortsAccepted \in [AbortReasons -> Nat] /\ abortsSent \in Nat
        /\ abortReason \in {"Operator", "Protocol", "NoAbort"}
        /\ guiThread \in {"Idle", "Tested"}
        /\ ioThread \in {"Idle", "Tested", "Sent"}
    BY DEF TypeOK
  <2>1. CASE AbortUntouched
    BY <2>0, <2>1 DEF AbortUntouched
  <2>2. CASE Abort
    BY <2>0, <2>2 DEF Abort, historyVars
  <2>3. CASE DeliverAbort
    BY <2>0, <2>3 DEF DeliverAbort, IoIdle, abortVars
  <2>4. CASE OperatorAbortRecorded
    BY <2>0, <2>4 DEF OperatorAbortRecorded, RecordAbort
  <2>5. CASE ProtocolAbortRecorded
    BY <2>0, <2>5 DEF ProtocolAbortRecorded, RecordAbort
  <2>6. CASE AbortDelivered
    BY <2>0, <2>6 DEF AbortDelivered, historyVars
  <2> QED
    BY <2>1, <2>2, <2>3, <2>4, <2>5, <2>6, AbortStep DEF AbortSteps
<1>3. Inv => AbortAccounted
  OBVIOUS
<1> QED
  BY <1>1, <1>2, <1>3, TypeCorrect, PTL DEF Spec

-------------------------------------------------------------------------------
(* After the first report no request of the target is taken (finished()):  *)
(* the server is stopped, and start() cannot follow a report.              *)
THEOREM NoRequestsAfterFinish == Spec => FinishedTakesNoRequests
<1>1. IInv /\ [Next]_vars /\ finishedCalls # <<>> =>
        UNCHANGED <<statusRequests, listRequests, abortsSent>>
  <2> SUFFICES ASSUME IInv, [Next]_vars, finishedCalls # <<>>
               PROVE  UNCHANGED <<statusRequests, listRequests, abortsSent>>
    OBVIOUS
  <2>0. tftpServer # "Listening"
    BY DEF IInv, StoppedWhenFinished
  <2> USE DEF transferVars, historyVars, boundVars, abortVars
  <2>1. ~ (DeliverAbort \/ StatusFileRequest \/ ListFileRequest)
    BY <2>0 DEF DeliverAbort, StatusFileRequest, ListFileRequest
  <2>2. CASE Start \/ InitialisationFileCompleted
    BY <2>2 DEF Start, InitialisationFileCompleted, InitialisationFails,
                InitialisationRefused, InitialisationAccepted
  <2>3. CASE StatusFileCompleted
    BY <2>3 DEF StatusFileCompleted, StatusFileFails, StatusFileUndecodable,
                StatusFileFinal, StatusFileProgress, StatusFileInvalid,
                StatusTransferEnds
  <2>4. CASE ListFileCompleted \/ DroppedListVanishes
    BY <2>4 DEF ListFileCompleted, ListTransferEnds, DroppedListVanishes
  <2>5. CASE TransmitRequestFile \/ RequestFileCompleted \/ Abort \/ AbortSteps
    BY <2>5 DEF TransmitRequestFile, LoadList, Request, Answer,
      RequestFileStarts, RequestFileCompleted, Abort, AbortSteps,
      OperatorAbortRecorded, ProtocolAbortRecorded, AbortDelivered
  <2>6. CASE \E reason \in AbortReasons : Terminate(reason)
    BY <2>6 DEF Terminate
  <2>7. CASE DlpTimerExpires \/ TimerHandler
    BY <2>7 DEF DlpTimerExpires, TimerHandler
  <2>8. CASE UNCHANGED vars
    BY <2>8 DEF vars
  <2> QED
    BY <2>1, <2>2, <2>3, <2>4, <2>5, <2>6, <2>7, <2>8
      DEF Next, ReceivedTftpRequest, UploadTftpRequest,
        InformationTftpRequest, MediaDefinedTftpRequest,
        OperatorDefinedTftpRequest, StatusRequest, TransferCompleted,
        UploadStatusFileCompleted, InformationStatusFileCompleted,
        DownloadStatusFileCompleted, InformationListFileCompleted,
        OperatorDefinedListFileCompleted, LoadListCompleted,
        RequestCompleted, AnswerCompleted
<1> QED
  BY <1>1, Inductive, PTL DEF Spec, FinishedTakesNoRequests

(* Once the target announced a final status, only its OperationCompleted   *)
(* is reported as one; the list file is not taken for the end any more     *)
(* (waitForFinalStatusV).                                                  *)
THEOREM FinalStatusIsTheTargets == Spec => FinalStatusDecides
<1>1. IInv /\ [Next]_vars
      /\ decodedStatuses \cap ProgressCodes # {}
      /\ finishedCalls' # finishedCalls
      /\ finishedCalls'[Len(finishedCalls')] = "OperationCompleted"
      => "OperationCompleted" \in decodedStatuses'
  <2> SUFFICES ASSUME IInv, [Next]_vars,
                      decodedStatuses \cap ProgressCodes # {},
                      finishedCalls' # finishedCalls,
                      finishedCalls'[Len(finishedCalls')] = "OperationCompleted"
               PROVE  "OperationCompleted" \in decodedStatuses'
    OBVIOUS
  <2>1. TypeOK /\ Dormant /\ AnnouncementKept
    BY DEF IInv
  <2>2. Next /\ initialisation # "NotStarted"
    BY <2>1 DEF Dormant, vars
  <2>3. EffectOnReport
    BY <2>1, <2>2, ReportStep
  <2>4. PICK code \in ReportedCodes :
          /\ finishedCalls' = Append(finishedCalls, code)
          /\ code = "OperationCompleted" =>
               \/ "OperationCompleted" \in decodedStatuses'
               \/ EndsWithList
    BY <2>3 DEF EffectOnReport, KeepsReports, ReportsWithReason, Finished
  <2>5. finishedCalls \in Seq(ReportedCodes)
    BY <2>1 DEF TypeOK, ReportedCodes
  <2>6. code = "OperationCompleted"
    BY <2>4, <2>5
  <2>7. ~EndsWithList
    BY <2>1 DEF AnnouncementKept, EndsWithList
  <2> QED
    BY <2>4, <2>6, <2>7
<1> QED
  BY <1>1, Inductive, PTL DEF Spec, FinalStatusDecides
=============================================================================
