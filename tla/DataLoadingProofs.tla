--------------------------- MODULE DataLoadingProofs ---------------------------
(***************************************************************************)
(* That the composition of host, network and target implements             *)
(* LoadAgreement, for every set of decisions and every bound.  A success   *)
(* the host is told comes out of a status file of the target; so the       *)
(* invariant follows the success through the target, from the application  *)
(* to the file: it is nowhere on its way before it was decided.            *)
(***************************************************************************)
EXTENDS DataLoading, TLAPS

HostEnds == Host!FinalCodes \cup Host!RefusalCodes

(* Where a success is on its way to the host.                              *)
SuccessOnItsWay ==
  \/ code = "OperationCompleted"
  \/ \E t \in Target!Threads : activity[t] = "OperationCompleted"
  \/ statusTransfer.file = "OperationCompleted"

LInv ==
  /\ finishedCalls \in Seq(HostEnds)
  /\ DOMAIN activity = Target!Threads
  /\ activity = [t \in Target!Threads |-> activity[t]]
  /\ statusTransfer \in [file : Target!SentCodes \cup {"None"},
                         sent : Target!SentCodes \cup {"Invalid", "None"},
                         progress : {"None", "Running", "Received"}]
  /\ code \in Target!SentCodes \cup {"Invalid"}
  /\ SuccessOnItsWay => decision = "Completed"

(* What a step of the host may tell the operator.                          *)
HostTells ==
  \/ finishedCalls' = finishedCalls
  \/ \E c \in HostEnds :
       /\ finishedCalls' = Append(finishedCalls, c)
       /\ c = "OperationCompleted" => decision = "Completed"

(* The target as it is.                                                    *)
TargetStands == UNCHANGED <<code, activity, statusTransfer, decision>>

-------------------------------------------------------------------------------
(* The operator is told once; later reports change nothing of the first.   *)
LEMMA TellingAgrees ==
  ASSUME finishedCalls \in Seq(HostEnds), HostTells, decision' = decision
  PROVE  /\ finishedCalls' \in Seq(HostEnds)
         /\ [Agreement!Next]_(Agreement!vars)
<1>1. CASE finishedCalls' = finishedCalls
  BY <1>1 DEF Agreement!vars
<1>2. CASE finishedCalls' # finishedCalls
  <2>1. PICK c \in HostEnds :
          /\ finishedCalls' = Append(finishedCalls, c)
          /\ c = "OperationCompleted" => decision = "Completed"
    BY <1>2 DEF HostTells
  <2>2. finishedCalls' \in Seq(HostEnds) /\ finishedCalls' # <<>>
    BY <2>1
  <2>3. CASE finishedCalls = <<>>
    <3>1. finishedCalls'[1] = c
      BY <2>1, <2>3
    <3>2. Agreement!Tell(c)
      BY <2>1, <2>2, <2>3, <3>1 DEF Agreement!Tell
    <3> QED
      BY <2>2, <3>2 DEF Agreement!Next, HostEnds
  <2>4. CASE finishedCalls # <<>>
    <3>1. finishedCalls'[1] = finishedCalls[1]
      BY <2>1, <2>4
    <3> QED
      BY <2>2, <2>4, <3>1 DEF Agreement!vars
  <2> QED
    BY <2>3, <2>4
<1> QED
  BY <1>1, <1>2

(* A step of the host that leaves the target as it is.                     *)
LEMMA HostStep ==
  ASSUME LInv, HostTells, TargetStands
  PROVE  LInv' /\ [Agreement!Next]_(Agreement!vars)
<1>1. /\ finishedCalls' \in Seq(HostEnds)
      /\ [Agreement!Next]_(Agreement!vars)
  BY TellingAgrees DEF LInv, TargetStands
<1> QED
  BY <1>1 DEF LInv, SuccessOnItsWay, TargetStands

(* A step of the target that leaves the decision as it is and puts no      *)
(* success on its way.                                                     *)
TargetGoesOn ==
  /\ UNCHANGED <<finishedCalls, decision>>
  /\ DOMAIN activity' = Target!Threads
  /\ activity' = [t \in Target!Threads |-> activity'[t]]
  /\ statusTransfer' \in [file : Target!SentCodes \cup {"None"},
                          sent : Target!SentCodes \cup {"Invalid", "None"},
                          progress : {"None", "Running", "Received"}]
  /\ code' \in Target!SentCodes \cup {"Invalid"}
  /\ SuccessOnItsWay' => SuccessOnItsWay

LEMMA TargetStep ==
  ASSUME LInv, TargetGoesOn
  PROVE  LInv' /\ [Agreement!Next]_(Agreement!vars)
BY DEF LInv, TargetGoesOn, Agreement!vars

-------------------------------------------------------------------------------
(* The steps of Next keep the invariant and agree.                         *)
Agrees == LInv' /\ [Agreement!Next]_(Agreement!vars)

(* The host alone: no such step reports a success.                         *)
LEMMA HostStepsAgree == LInv /\ HostSteps => Agrees
<1> SUFFICES ASSUME LInv, HostSteps PROVE Agrees
  OBVIOUS
<1>1. TargetStands
  BY DEF HostSteps, HostAlone, targetVars, TargetStands
<1>2. HostTells
  <2> USE DEF HostTells
  <2>1. CASE Host!Start
    BY <2>1 DEF Host!Start
  <2>2. CASE Host!TransmitRequestFile
    BY <2>2 DEF Host!TransmitRequestFile, Host!LoadList, Host!Request,
      Host!Answer, Host!RequestFileStarts, Host!NotFinished, Host!reportVars
  <2>3. CASE Host!Abort
    BY <2>3 DEF Host!Abort, Host!NotFinished, Host!reportVars
  <2>4. ASSUME NEW reason, Host!Terminate(reason) PROVE HostTells
    BY <2>4 DEF Host!Terminate, Host!Finished, HostEnds, Host!FinalCodes
  <2>5. CASE Host!DlpTimerExpires
    BY <2>5 DEF Host!DlpTimerExpires
  <2>6. CASE Host!TimerHandler
    BY <2>6 DEF Host!TimerHandler, Host!Finished, HostEnds, Host!FinalCodes
  <2>7. CASE Host!AbortSteps
    BY <2>7 DEF Host!AbortSteps, Host!OperatorAbortRecorded,
      Host!ProtocolAbortRecorded, Host!AbortDelivered, Host!NotFinished,
      Host!reportVars, Host!TriggerDlpTimeout
  <2> QED
    BY <2>1, <2>2, <2>3, <2>4, <2>5, <2>6, <2>7 DEF HostSteps
<1> QED
  BY <1>1, <1>2, HostStep DEF Agrees

(* The initialisation file, the load list and the status transfers that    *)
(* start, fail or are refused: nothing is told but a failure.              *)
LEMMA HostTransfersAgree ==
  LInv /\ ( \/ HostInitialisationEnds
            \/ StatusFileServed
            \/ StatusFileRefused
            \/ StatusRequestRepeated
            \/ AbortLost
            \/ StatusFileLost
            \/ StatusFileAloneFails
            \/ LoadListCompleted ) => Agrees
<1> USE DEF HostTells, TargetStands, HostAlone, targetVars
<1>1. LInv /\ HostInitialisationEnds => Agrees
  <2> SUFFICES ASSUME LInv, HostInitialisationEnds PROVE Agrees
    OBVIOUS
  <2>1. ASSUME NEW answer \in Host!RefusalCodes, InitialisationRefused(answer)
        PROVE  TargetStands /\ HostTells
    BY <2>1 DEF InitialisationRefused, Host!InitialisationRefused, Host!Finished,
                HostEnds, Host!RefusalCodes
  <2>2. InitialisationAccepted => TargetStands /\ HostTells
    BY DEF InitialisationAccepted, Host!InitialisationAccepted,
                Host!TriggerDlpTimeout
  <2>3. InitialisationLost => TargetStands /\ HostTells
    BY DEF InitialisationLost, Host!InitialisationFails, Host!Finished,
                HostEnds, Host!FinalCodes
  <2> QED
    BY <2>1, <2>2, <2>3, HostStep DEF HostInitialisationEnds, Agrees
<1>2. LInv /\ (StatusFileServed \/ StatusFileRefused \/ StatusRequestRepeated)
        => Agrees
  <2> SUFFICES ASSUME LInv, StatusFileServed \/ StatusFileRefused
                            \/ StatusRequestRepeated
               PROVE  Agrees
    OBVIOUS
  <2>1. TargetStands /\ HostTells
    BY DEF StatusFileServed, StatusFileRefused, StatusRequestRepeated,
           Host!StatusFileRequest, Host!DeliverAbort,
           Host!NotFinished, Host!reportVars
  <2> QED
    BY <2>1, HostStep DEF Agrees
<1>3. LInv /\ AbortLost => Agrees
  <2> SUFFICES ASSUME LInv, AbortLost PROVE Agrees
    OBVIOUS
  <2>1. TargetStands /\ HostTells
    BY DEF AbortLost, hostVars
  <2> QED
    BY <2>1, HostStep DEF Agrees
<1>4. LInv /\ (StatusFileLost \/ StatusFileAloneFails) => Agrees
  <2> SUFFICES ASSUME LInv, StatusFileLost \/ StatusFileAloneFails PROVE Agrees
    OBVIOUS
  <2>1. TargetStands /\ HostTells
    BY DEF StatusFileLost, StatusFileAloneFails, Host!StatusFileFails,
           Host!Finished, HostEnds, Host!FinalCodes
  <2> QED
    BY <2>1, HostStep DEF Agrees
<1>5. LInv /\ LoadListCompleted => Agrees
  <2> SUFFICES ASSUME LInv, LoadListCompleted PROVE Agrees
    OBVIOUS
  <2>1. TargetStands /\ HostTells
    BY DEF LoadListCompleted, Host!RequestFileCompleted, Host!NotFinished,
           Host!reportVars
  <2> QED
    BY <2>1, HostStep DEF Agrees
<1> QED
  BY <1>1, <1>2, <1>3, <1>4, <1>5

(* The host evaluates a status file: a success in it was decided.          *)
LEMMA StatusFileReceivedAgrees == LInv /\ StatusFileReceived => Agrees
<1> SUFFICES ASSUME LInv, StatusFileReceived PROVE Agrees
  OBVIOUS
<1>1. HostTells
  BY DEF StatusFileReceived, HostTells, Host!StatusFileFinal, Host!Finished,
         Host!StatusFileProgress, Host!TriggerDlpTimeout, LInv,
         SuccessOnItsWay, HostEnds
<1>2. /\ UNCHANGED <<code, activity, decision>>
      /\ statusTransfer' = [statusTransfer EXCEPT !.progress = "Received"]
  BY DEF StatusFileReceived, Target!HostReceivesStatusFile, Target!statusVars
<1>3. /\ finishedCalls' \in Seq(HostEnds)
      /\ [Agreement!Next]_(Agreement!vars)
  BY <1>1, <1>2, TellingAgrees DEF LInv
<1>4. SuccessOnItsWay' => SuccessOnItsWay
  BY <1>2 DEF LInv, SuccessOnItsWay
<1> QED
  BY <1>2, <1>3, <1>4 DEF LInv, Agrees

(* The target forces a status: a success only with the decision.           *)
LEMMA ForcedStatusAgrees ==
  ASSUME LInv, NEW t \in Target!Threads, NEW c \in Target!SentCodes,
         NEW text, Target!ForceStatus(t, c, text),
         UNCHANGED <<finishedCalls, statusTransfer>>
  PROVE  /\ DOMAIN activity' = Target!Threads
         /\ activity' = [u \in Target!Threads |-> activity'[u]]
         /\ code' = c
         /\ SuccessOnItsWay' => SuccessOnItsWay \/ c = "OperationCompleted"
<1>1. code' = c
  BY DEF Target!ForceStatus, Target!SetStatus
<1>2. activity' = activity \/ activity' = [activity EXCEPT ![t] = "Called"]
  BY DEF Target!ForceStatus
<1>3. /\ DOMAIN activity' = Target!Threads
      /\ activity' = [u \in Target!Threads |-> activity'[u]]
      /\ \A u \in Target!Threads : activity'[u] \in {activity[u], "Called"}
  BY <1>2 DEF LInv
<1> QED
  BY <1>1, <1>3 DEF SuccessOnItsWay

(* The application of the target: finished() alone decides.                *)
LEMMA ApplicationAgrees == LInv /\ Target!Application /\ TargetAlone => Agrees
<1> SUFFICES ASSUME LInv, Target!Application, TargetAlone PROVE Agrees
  OBVIOUS
<1>0. /\ {"OperationAccepted", "OperationInProgress"} \subseteq Target!SentCodes
      /\ "Application" \in Target!Threads
      /\ finishedCalls' = finishedCalls
  BY DEF Target!SentCodes, Target!ProgressCodes, Target!Threads, TargetAlone,
         hostVars
<1>1. ASSUME NEW c \in {"OperationAccepted", "OperationInProgress"},
             Target!ApplicationCalls, decision' = decision,
             \/ \E text : Target!ForceStatus("Application", c, text)
             \/ code' = c /\ UNCHANGED activity
      PROVE  Agrees
  <2>1. statusTransfer' = statusTransfer
    BY <1>1 DEF Target!ApplicationCalls
  <2>2. TargetGoesOn
    <3>1. ASSUME NEW text, Target!ForceStatus("Application", c, text)
          PROVE  TargetGoesOn
      BY <1>0, <1>1, <2>1, <3>1, ForcedStatusAgrees DEF TargetGoesOn, LInv
    <3>2. CASE code' = c /\ UNCHANGED activity
      BY <1>0, <1>1, <2>1, <3>2 DEF TargetGoesOn, LInv, SuccessOnItsWay
    <3> QED
      BY <1>1, <3>1, <3>2
  <2> QED
    BY <2>2, TargetStep DEF Agrees
<1>2. CASE Target!Accepted \/ Target!InProgress
  <2>1. PICK c \in {"OperationAccepted", "OperationInProgress"} :
          \/ \E text : Target!ForceStatus("Application", c, text)
          \/ code' = c /\ UNCHANGED activity
    BY <1>2 DEF Target!Accepted, Target!InProgress, Target!SetStatus
  <2>2. Target!ApplicationCalls /\ decision' = decision
    BY <1>2 DEF Target!Accepted, Target!InProgress
  <2> QED
    BY <1>1, <2>1, <2>2
<1>3. CASE Target!SendList \/ Target!LoadStatus
  <2>1. UNCHANGED <<code, activity, statusTransfer, decision>>
    BY <1>3 DEF Target!SendList, Target!LoadStatus, Target!ApplicationCalls,
      Target!statusVars
  <2> QED
    BY <1>0, <2>1, HostStep DEF HostTells, TargetStands, Agrees
<1>4. CASE Target!Finish
  <2>1. PICK status \in Decisions : Target!Finished(status)
    BY <1>4 DEF Target!Finish
  <2> DEFINE c == Target!StatusCode(status)
  <2>2. /\ c \in Target!SentCodes
        /\ c = "OperationCompleted" => status = "Completed"
    BY DEF Target!StatusCode, Target!SentCodes, Target!FinalCodes
  <2>3. /\ \E text : Target!ForceStatus("Application", c, text)
        /\ decision = "None" /\ decision' = status
        /\ statusTransfer' = statusTransfer
    BY <2>1 DEF Target!Finished, Target!ApplicationCalls
  <2> HIDE DEF c
  <2>4. /\ DOMAIN activity' = Target!Threads
        /\ activity' = [u \in Target!Threads |-> activity'[u]]
        /\ code' = c
        /\ SuccessOnItsWay' => SuccessOnItsWay \/ c = "OperationCompleted"
    BY <1>0, <2>2, <2>3, ForcedStatusAgrees
  <2>5. ~SuccessOnItsWay
    BY <2>3 DEF LInv
  <2>6. LInv'
    BY <1>0, <2>2, <2>3, <2>4, <2>5 DEF LInv
  <2>7. Agreement!Decide(status)
    BY <1>0, <2>3 DEF Agreement!Decide
  <2> QED
    BY <2>6, <2>7 DEF Agrees, Agreement!Next
<1> QED
  BY <1>2, <1>3, <1>4
  DEF Target!Application, Target!UploadCalls, Target!MediaDefinedDownloadCalls,
      Target!OperatorDefinedDownloadCalls, Target!InformationCalls,
      Target!TargetInformation, Target!DownloadingList

(* The status timer, the encoding of a status file and the end of a        *)
(* request file.                                                           *)
LEMMA TargetStepsAgree == LInv /\ TargetSteps => Agrees
<1> SUFFICES ASSUME LInv, TargetSteps PROVE Agrees
  OBVIOUS
<1>0. TargetAlone /\ finishedCalls' = finishedCalls
  BY DEF TargetSteps, TargetAlone, hostVars
<1>1. CASE Target!Application
  BY <1>0, <1>1, ApplicationAgrees
<1>2. CASE Target!StatusTimerExpires
  <2>1. TargetStands
    BY <1>2 DEF Target!StatusTimerExpires, Target!statusVars,
      Target!historyVars, TargetStands
  <2> QED
    BY <1>0, <2>1, HostStep DEF HostTells, Agrees
<1>3. CASE Target!StatusTransmissionTimerHandler
  <2>1. /\ UNCHANGED <<code, statusTransfer, decision>>
        /\ activity' = [activity EXCEPT !["Io"] = "Called"]
    BY <1>3 DEF Target!StatusTransmissionTimerHandler, Target!statusVars,
      Target!historyVars
  <2>2. TargetGoesOn
    BY <1>0, <2>1 DEF TargetGoesOn, LInv, SuccessOnItsWay
  <2> QED
    BY <2>2, TargetStep DEF Agrees
<1>4. ASSUME NEW t \in Target!Threads, Target!EncodeStatusFile(t) PROVE Agrees
  <2>1. /\ UNCHANGED <<statusTransfer, decision>>
        /\ code' = IF code = "Invalid" THEN "OperationAccepted" ELSE code
        /\ activity' = [activity EXCEPT ![t] = code']
    BY <1>4 DEF Target!EncodeStatusFile, Target!StatusFileCalled
  <2>2. TargetGoesOn
    BY <1>0, <2>1 DEF TargetGoesOn, LInv, SuccessOnItsWay, Target!SentCodes,
                      Target!ProgressCodes
  <2> QED
    BY <2>2, TargetStep DEF Agrees
<1>5. CASE Target!RequestFileCompletes
  <2>1. /\ UNCHANGED <<statusTransfer, decision>>
        /\ \/ UNCHANGED <<code, activity>>
           \/ Target!ForceStatus("Io", "OperationAbortedByTargetHw", "Fits")
    BY <1>5
    DEF Target!RequestFileCompletes, Target!RequestFileEnds, Target!statusVars,
        Target!historyVars
  <2>2. /\ "OperationAbortedByTargetHw" \in Target!SentCodes
        /\ "Io" \in Target!Threads
    BY DEF Target!SentCodes, Target!FinalCodes, Target!Threads
  <2>3. TargetGoesOn
    <3>1. CASE UNCHANGED <<code, activity>>
      BY <1>0, <2>1, <3>1 DEF TargetGoesOn, LInv, SuccessOnItsWay
    <3>2. CASE Target!ForceStatus("Io", "OperationAbortedByTargetHw", "Fits")
      BY <1>0, <2>1, <2>2, <3>2, ForcedStatusAgrees DEF TargetGoesOn, LInv
    <3> QED
      BY <2>1, <3>1, <3>2
  <2> QED
    BY <2>3, TargetStep DEF Agrees
<1>6. ASSUME NEW t \in Target!Threads, Target!EncodeStatusFileThrows(t)
      PROVE  Agrees
  <2>1. /\ UNCHANGED <<statusTransfer, decision>>
        /\ code' = IF code = "Invalid" THEN "OperationAccepted" ELSE code
        /\ \E next \in {"Idle", "Exited"} :
             activity' = [activity EXCEPT ![t] = next]
    BY <1>6 DEF Target!EncodeStatusFileThrows, Target!StatusFileCalled
  <2>2. TargetGoesOn
    BY <1>0, <2>1 DEF TargetGoesOn, LInv, SuccessOnItsWay, Target!SentCodes,
                      Target!ProgressCodes
  <2> QED
    BY <2>2, TargetStep DEF Agrees
<1> QED
  BY <1>1, <1>2, <1>3, <1>4, <1>5, <1>6 DEF TargetSteps

(* The halves of the target: a file carries what was encoded for it, and a *)
(* transfer that ends takes its file along.                                *)
LEMMA TargetTransfersAgree ==
  LInv /\ ( \/ InitialisationRequested
            \/ InitialisationSent
            \/ StatusFileSent
            \/ TargetStatusFileEnds
            \/ LoadListArrives ) => Agrees
<1>1. LInv /\ (InitialisationRequested \/ InitialisationSent \/ LoadListArrives)
        => Agrees
  <2> SUFFICES ASSUME LInv, InitialisationRequested \/ InitialisationSent
                            \/ LoadListArrives
               PROVE  Agrees
    OBVIOUS
  <2>1. TargetStands
    BY DEF InitialisationRequested, InitialisationSent, LoadListArrives,
      Target!Start, Target!SendInitFileComplete, Target!statusVars,
      Target!historyVars, Target!RequestFileStarts, TargetStands
  <2>2. HostTells
    BY DEF InitialisationRequested, InitialisationSent, LoadListArrives,
           TargetAlone, hostVars, HostTells
  <2> QED
    BY <2>1, <2>2, HostStep DEF Agrees
<1>2. LInv /\ StatusFileSent => Agrees
  <2> SUFFICES ASSUME LInv, StatusFileSent PROVE Agrees
    OBVIOUS
  <2>1. PICK t \in Target!Threads : Target!SendStatusFile(t)
    BY DEF StatusFileSent
  <2>2. /\ UNCHANGED <<code, decision>>
        /\ activity[t] \in Target!SentCodes
        /\ activity' = [activity EXCEPT ![t] = "Idle"]
        /\ statusTransfer' = [file |-> activity[t], sent |-> code,
                              progress |-> "Running"]
    BY <2>1 DEF Target!SendStatusFile, Target!statusVars, Target!historyVars
  <2>3. finishedCalls' = finishedCalls
    BY DEF StatusFileSent, hostVars
  <2>4. TargetGoesOn
    BY <2>2, <2>3 DEF TargetGoesOn, LInv, SuccessOnItsWay
  <2> QED
    BY <2>4, TargetStep DEF Agrees
<1>3. LInv /\ TargetStatusFileEnds => Agrees
  <2> SUFFICES ASSUME LInv, TargetStatusFileEnds PROVE Agrees
    OBVIOUS
  <2>1. /\ UNCHANGED <<code, activity, decision>>
        /\ statusTransfer' = Target!NoTransfer
    BY DEF TargetStatusFileEnds, AbortArrives, StatusFileAcknowledged,
      StatusFileUnanswered, Target!StatusFileAborted, Target!ProgressTransmitted,
      Target!FinalTransmitted, Target!StatusFileFails, Target!StatusTransferEnds,
      Target!statusVars
  <2>2. finishedCalls' = finishedCalls
    BY DEF TargetStatusFileEnds, AbortArrives, StatusFileAcknowledged,
           StatusFileUnanswered, hostVars
  <2>3. TargetGoesOn
    BY <2>1, <2>2 DEF TargetGoesOn, LInv, SuccessOnItsWay, Target!NoTransfer
  <2> QED
    BY <2>3, TargetStep DEF Agrees
<1> QED
  BY <1>1, <1>2, <1>3

-------------------------------------------------------------------------------
LEMMA InitiallyAgrees == Init => LInv /\ Agreement!Init
<1> SUFFICES ASSUME Init PROVE LInv /\ Agreement!Init
  OBVIOUS
<1>1. finishedCalls = <<>>
  BY DEF Init, Host!Init
<1>2. /\ code = "Invalid" /\ decision = "None"
      /\ activity = [t \in Target!Threads |-> "Idle"]
      /\ statusTransfer = Target!NoTransfer
  BY DEF Init, Target!Init
<1> QED
  BY <1>1, <1>2 DEF LInv, SuccessOnItsWay, Target!NoTransfer, Agreement!Init

LEMMA StepAgrees == LInv /\ [Next]_vars => Agrees
<1> SUFFICES ASSUME LInv, [Next]_vars PROVE Agrees
  OBVIOUS
<1>1. CASE Next
  BY <1>1, HostStepsAgree, HostTransfersAgree, StatusFileReceivedAgrees,
     TargetStepsAgree, TargetTransfersAgree
  DEF Next
<1>2. CASE UNCHANGED vars
  BY <1>2, HostStep
  DEF vars, hostVars, targetVars, HostTells, TargetStands, Agrees
<1> QED
  BY <1>1, <1>2

(* The composition implements LoadAgreement: whatever the network repeats  *)
(* or loses and whenever the timers elapse, the operator is told of a      *)
(* completed load only after the application of the target decided so, and *)
(* what was decided and told first stands.                                 *)
THEOREM AgreementHolds == Spec => AgreementImplemented
<1>1. Init => LInv /\ Agreement!Init
  BY InitiallyAgrees
<1>2. LInv /\ [Next]_vars => LInv' /\ [Agreement!Next]_(Agreement!vars)
  BY StepAgrees DEF Agrees
<1> QED
  BY <1>1, <1>2, PTL DEF Spec, AgreementImplemented, Agreement!Spec
===============================================================================
