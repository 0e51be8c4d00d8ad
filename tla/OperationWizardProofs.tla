------------------------ MODULE OperationWizardProofs ------------------------
(***************************************************************************)
(* What holds of OperationWizard for every set of files and every bound.   *)
(*                                                                         *)
(* The argument follows the posted calls: a call is genuine if what it     *)
(* tells has happened, and only genuine calls are ever queued.  The Abort  *)
(* button follows the order of the calls as well: the pages that take the  *)
(* button over are told of the end behind the pages that hand it on.       *)
(***************************************************************************)
EXTENDS OperationWizard, SequenceTheorems, TLAPS

FinishedSlots == {"WizardFinished", "SelectFilesFinished", "StatusFinished",
                  "CompletedFinished"}
Slots == FinishedSlots \cup {"OperationStatus", "DownloadingList"}
Arguments == ReportCodes \cup StatusCodes \cup {""}

(* The calls that may be queued for a wizard of kind k, given whether an   *)
(* end was signalled and the acceptance reported.                          *)
Genuine(k, ended, accept) ==
  {call \in Slots \X Arguments :
     /\ call[1] \in FinishedSlots => ended = "Yes" /\ call[2] \in ReportCodes
     /\ call[1] = "OperationStatus" =>
          /\ k \in ListOnAcceptance
          /\ call[2] = "OperationAccepted" => accept = "Yes"}

QueueIsGenuine == queue \in Seq(Genuine(kind, signalled, accepted))

(* Nothing is finished before an end was signalled.                        *)
EndIsSignalled ==
  (page = "Completed" \/ completed = "Yes") => signalled = "Yes"

(* Commit is enabled by picking files of a list.                           *)
CommitNeedsPick ==
  commitButton = "Enabled" \/ rowsSelected = "Yes" => picked > 0

(* The list is handed over behind the flag, the flag behind the report.    *)
HandedOverOnce ==
  /\ transmitted = "Yes" => accepted = "Yes"
  /\ loads = "Handed" => kind = "Upload" /\ transmitted = "Yes"
  /\ kind \in ListOnAcceptance =>
       /\ handovers <= 1
       /\ handovers > 0 => transmitted = "Yes"
  /\ kind = "Upload" =>
       \A f \in Files : transfers[f] > 0 => accepted = "Yes"

(* A closed wizard is quiet, and only downloads keep a record.             *)
Dormant ==
  /\ page = "Closed" => operation = "None" /\ queue = <<>>
  /\ kind \notin Downloads => \A f \in Files : record[f] = "None"

IInv ==
  /\ TypeOK
  /\ QueueIsGenuine
  /\ EndIsSignalled
  /\ CommitNeedsPick
  /\ HandedOverOnce
  /\ RecordsAreClosed

-------------------------------------------------------------------------------
(* The queue.                                                              *)

(* What was genuine stays genuine.                                         *)
LEMMA GenuineGrows ==
  ASSUME NEW k, NEW s, NEW s2, NEW a, NEW a2,
         s = "Yes" => s2 = "Yes", a = "Yes" => a2 = "Yes",
         NEW q \in Seq(Genuine(k, s, a))
  PROVE  q \in Seq(Genuine(k, s2, a2))
<1>1. Genuine(k, s, a) \subseteq Genuine(k, s2, a2)
  BY DEF Genuine
<1> DEFINE S == Genuine(k, s, a)
           T == Genuine(k, s2, a2)
<1> HIDE DEF S, T
<1>2. S \subseteq T /\ q \in Seq(S)
  BY <1>1 DEF S, T
<1>3. q \in Seq(T)
  BY <1>2
<1> QED
  BY <1>3 DEF T

(* The calls of one operationFinished are genuine once it is emitted.      *)
LEMMA FinishedIsGenuine ==
  ASSUME kind \in Kinds, NEW a, NEW code \in ReportCodes
  PROVE  FinishedCalls(code) \in Seq(Genuine(kind, "Yes", a))
<1> DEFINE G == Genuine(kind, "Yes", a)
<1>1. SlotsOf \in Seq(FinishedSlots)
  <2>1. /\ UploadSlots \in Seq(FinishedSlots)
        /\ InformationSlots \in Seq(FinishedSlots)
        /\ MediaDefinedSlots \in Seq(FinishedSlots)
        /\ OperatorDefinedSlots \in Seq(FinishedSlots)
    BY DEF UploadSlots, InformationSlots, MediaDefinedSlots,
      OperatorDefinedSlots, FinishedSlots
  <2> QED
    BY <2>1 DEF SlotsOf, Kinds, Downloads
<1>2. \A slot \in FinishedSlots : <<slot, code>> \in G
  BY DEF Genuine, Slots, FinishedSlots, Arguments
<1> HIDE DEF G
<1>3. Len(SlotsOf) \in Nat
      /\ \A i \in 1 .. Len(SlotsOf) : SlotsOf[i] \in FinishedSlots
  BY <1>1
<1>4. \A i \in 1 .. Len(SlotsOf) : <<SlotsOf[i], code>> \in G
  BY <1>2, <1>3
<1>5. [i \in 1 .. Len(SlotsOf) |-> <<SlotsOf[i], code>>] \in Seq(G)
  BY <1>3, <1>4
<1> QED
  BY <1>5 DEF G, FinishedCalls

(* Emitting it behind a genuine queue leaves the queue genuine.            *)
LEMMA EmittingIsGenuine ==
  ASSUME kind \in Kinds,
         NEW posted \in Seq(Genuine(kind, signalled, accepted)),
         NEW code \in ReportCodes
  PROVE  posted \o FinishedCalls(code) \in Seq(Genuine(kind, "Yes", accepted))
<1>1. posted \in Seq(Genuine(kind, "Yes", accepted))
  BY GenuineGrows
<1>2. FinishedCalls(code) \in Seq(Genuine(kind, "Yes", accepted))
  BY FinishedIsGenuine
<1> QED
  BY <1>1, <1>2, ConcatProperties

(* The rest of a genuine queue is genuine, and so is its head.             *)
LEMMA QueueParts ==
  ASSUME QueueIsGenuine, queue # <<>>
  PROVE  /\ Tail(queue) \in Seq(Genuine(kind, signalled, accepted))
         /\ Head(queue) \in Genuine(kind, signalled, accepted)
<1> DEFINE G == Genuine(kind, signalled, accepted)
<1>1. queue \in Seq(G)
  BY DEF QueueIsGenuine
<1> HIDE DEF G
<1>2. Tail(queue) \in Seq(G) /\ Head(queue) \in G
  BY <1>1, HeadTailProperties
<1> QED
  BY <1>2 DEF G

-------------------------------------------------------------------------------
(* What starting and handing over leave behind, wherever they happen.      *)
Kept(posted) ==
  /\ signalled' \in {"No", "Yes"}
  /\ signalled = "Yes" => signalled' = "Yes"
  /\ queue' \in Seq(Genuine(kind, signalled', accepted))

LEMMA StartKeeps ==
  ASSUME TypeOK, NEW posted \in Seq(Genuine(kind, signalled, accepted)),
         StartOperation(posted)
  PROVE  Kept(posted) /\ operation' \in {"None", "Running", "Silent", "Ended"}
<1>1. "OperationAbortedByDlp" \in ReportCodes /\ kind \in Kinds
  BY DEF ReportCodes, TypeOK
<1> DEFINE fc == FinishedCalls("OperationAbortedByDlp")
           G == Genuine(kind, "Yes", accepted)
<1>2. posted \o fc \in Seq(G) /\ fc \in Seq(G)
  BY <1>1, EmittingIsGenuine, FinishedIsGenuine
<1>3. (posted \o fc) \o fc \in Seq(G)
  BY <1>2, ConcatProperties
<1>4. CASE StartUnlessException(posted)
  BY <1>2, <1>4 DEF StartUnlessException, EmitFinished, Kept, TypeOK
<1>5. CASE StartWithoutDirectory(posted)
  BY <1>2, <1>3, <1>5 DEF StartWithoutDirectory, EmitFinished, Kept, TypeOK
<1> QED
  BY <1>4, <1>5 DEF StartOperation, StartUpload, StartInformation,
    StartMediaDefined, StartOperatorDefined

LEMMA HandOverKeeps ==
  ASSUME TypeOK, NEW posted \in Seq(Genuine(kind, signalled, accepted)),
         HandOver(posted)
  PROVE  /\ Kept(posted)
         /\ handovers' \in {handovers, handovers + 1}
         /\ loads' = IF kind = "Upload" THEN "Handed" ELSE loads
<1>1. "OperationAbortedByDlp" \in ReportCodes /\ kind \in Kinds
  BY DEF ReportCodes, TypeOK
<1>2. posted \o FinishedCalls("OperationAbortedByDlp")
        \in Seq(Genuine(kind, "Yes", accepted))
  BY <1>1, EmittingIsGenuine
<1>3. HandToOperation(posted)
      /\ loads' = IF kind = "Upload" THEN "Handed" ELSE loads
  BY DEF HandOver, TransmitLoads, TransmitRequest, TransmitAnswer
<1> QED
  BY <1>2, <1>3 DEF HandToOperation, EmitFinished, Kept, TypeOK

LEMMA GoNextKeeps ==
  ASSUME TypeOK, page # "Closed",
         NEW posted \in Seq(Genuine(kind, signalled, accepted)),
         GoNext(posted)
  PROVE  /\ Kept(posted)
         /\ page' \in Pages
         /\ page' = "Completed" => page \in {"Status", "Completed"}
         /\ connected' \subseteq ProtocolPages
         /\ operation' \in {"None", "Running", "Silent", "Ended"}
         /\ loads' = loads
         /\ handovers' \in {handovers, handovers + 1}
         /\ handovers' # handovers =>
              kind = "OperatorDefinedDownload" /\ page = "SelectFiles"
<1>1. CASE page = "Completed"
  BY <1>1 DEF GoNext, Kept, TypeOK, Pages, handoverVars
<1>2. CASE page # "Completed"
  <2>1. ShowPage(NextPage[page]) /\ Arrive(NextPage[page], posted)
    BY <1>2 DEF GoNext
  <2>2. page \in {"Settings", "SelectFiles", "Status"}
    BY <1>2 DEF TypeOK, Pages
  <2>3. /\ NextPage[page] \in Pages
        /\ NextPage[page] = "Completed" => page = "Status"
    BY <2>2 DEF NextPage, Pages
  <2>4. /\ page' = NextPage[page]
        /\ connected' \subseteq ProtocolPages
    BY <2>1 DEF ShowPage, TypeOK
  <2>5. CASE StartOperation(posted) /\ UNCHANGED handoverVars
    BY <2>3, <2>4, <2>5, StartKeeps DEF handoverVars, TypeOK
  <2>6. CASE AnswersOn(NextPage[page]) /\ HandOver(posted)
             /\ UNCHANGED operation
    <3>1. kind = "OperatorDefinedDownload" /\ page = "SelectFiles"
      BY <2>2, <2>6 DEF AnswersOn, NextPage
    <3> QED
      BY <2>3, <2>4, <2>6, <3>1, HandOverKeeps DEF TypeOK
  <2>7. CASE queue' = posted /\ UNCHANGED <<operation, signalled, handoverVars>>
    BY <2>3, <2>4, <2>7 DEF Kept, handoverVars, TypeOK
  <2> QED
    BY <2>1, <2>5, <2>6, <2>7 DEF Arrive
<1> QED
  BY <1>1, <1>2

-------------------------------------------------------------------------------
LEMMA Initially == Init => IInv
<1> SUFFICES ASSUME Init PROVE IInv
  OBVIOUS
<1>1. TypeOK
  BY DEF Init, TypeOK, Pages, Kinds, Downloads
<1>2. QueueIsGenuine
  BY DEF Init, QueueIsGenuine
<1> QED
  BY <1>1, <1>2 DEF Init, IInv, EndIsSignalled, CommitNeedsPick,
    HandedOverOnce, RecordsAreClosed

(* The steps on to the next page.                                          *)
LEMMA GoingOnStep ==
  ASSUME IInv, page # "Closed",
         NEW STATE posted, posted \in Seq(Genuine(kind, signalled, accepted)),
         GoNext(posted), page = "Status" => signalled = "Yes",
         UNCHANGED <<kind, ioThread, transmitted, completed, pickVars,
                     transferVars, written, result, accepted, aborts,
                     boundVars>>
  PROVE  IInv'
<1>1. /\ Kept(posted)
      /\ page' \in Pages
      /\ page' = "Completed" => page \in {"Status", "Completed"}
      /\ connected' \subseteq ProtocolPages
      /\ operation' \in {"None", "Running", "Silent", "Ended"}
      /\ loads' = loads
      /\ handovers' \in {handovers, handovers + 1}
      /\ handovers' # handovers =>
           kind = "OperatorDefinedDownload" /\ page = "SelectFiles"
  BY GoNextKeeps DEF IInv
<1>2. TypeOK'
  BY <1>1 DEF IInv, TypeOK, Kept, pickVars, transferVars, boundVars
<1>3. QueueIsGenuine'
  BY <1>1 DEF QueueIsGenuine, Kept
<1>4. EndIsSignalled'
  BY <1>1 DEF IInv, EndIsSignalled, Kept
<1>5. HandedOverOnce'
  BY <1>1 DEF IInv, HandedOverOnce, TypeOK, ListOnAcceptance, transferVars
<1> QED
  BY <1>2, <1>3, <1>4, <1>5 DEF IInv, CommitNeedsPick, RecordsAreClosed,
    pickVars, transferVars

LEMMA OperatorStep ==
  IInv /\ (Commit \/ CommitFiles \/ LeaveStatus \/ GoBack \/ SelectRows
          \/ DeselectRows \/ ClickAbort \/ Close) => IInv'
<1> SUFFICES ASSUME IInv PROVE
      (Commit \/ CommitFiles \/ LeaveStatus \/ GoBack \/ SelectRows
         \/ DeselectRows \/ ClickAbort \/ Close) => IInv'
  OBVIOUS
<1>0. queue \in Seq(Genuine(kind, signalled, accepted))
  BY DEF IInv, QueueIsGenuine
<1>1. CASE Commit
  BY <1>0, <1>1, GoingOnStep DEF Commit
<1>2. CASE CommitFiles
  BY <1>0, <1>2, GoingOnStep DEF CommitFiles
<1>3. CASE LeaveStatus
  <2>1. signalled = "Yes"
    BY <1>3 DEF LeaveStatus, IInv, EndIsSignalled
  <2> QED
    BY <1>0, <1>3, <2>1, GoingOnStep DEF LeaveStatus
<1>4. CASE GoBack
  <2>1. /\ signalled' = "Yes"
        /\ operation' \in {"None", "Running", "Silent", "Ended"}
        /\ queue' \in Seq(Genuine(kind, signalled', accepted))
        /\ loads' = loads
        /\ handovers' \in {handovers, handovers + 1}
        /\ handovers' # handovers => kind = "OperatorDefinedDownload"
    <3>1. signalled = "Yes"
      BY <1>4 DEF GoBack, IInv, EndIsSignalled
    <3>2. CASE kind = "MediaDefinedDownload" /\ StartOperation(queue)
               /\ UNCHANGED handoverVars
      BY <1>0, <3>1, <3>2, StartKeeps DEF IInv, Kept, TypeOK, handoverVars
    <3>3. CASE kind = "OperatorDefinedDownload" /\ HandOver(queue)
               /\ UNCHANGED operation
      BY <1>0, <3>1, <3>3, HandOverKeeps DEF IInv, Kept, TypeOK
    <3>4. CASE UNCHANGED <<operation, queue, signalled, handoverVars>>
      BY <1>0, <3>1, <3>4 DEF IInv, TypeOK, handoverVars
    <3> QED
      BY <1>4, <3>2, <3>3, <3>4 DEF GoBack
  <2>2. /\ page' = "Status"
        /\ UNCHANGED <<kind, ioThread, connected, transmitted, completed,
                       pickVars, transferVars, written, result, accepted,
                       aborts, statuses, lists, requests, reports>>
        /\ backs' = backs + 1
    BY <1>4 DEF GoBack
  <2>3. TypeOK'
    BY <2>1, <2>2 DEF IInv, TypeOK, Pages, pickVars, transferVars
  <2>4. QueueIsGenuine'
    BY <2>1, <2>2 DEF QueueIsGenuine
  <2>5. HandedOverOnce'
    BY <2>1, <2>2 DEF IInv, HandedOverOnce, TypeOK, ListOnAcceptance,
      transferVars
  <2> QED
    BY <2>1, <2>2, <2>3, <2>4, <2>5 DEF IInv, EndIsSignalled, CommitNeedsPick,
      RecordsAreClosed, pickVars, transferVars
<1>5. CASE SelectRows \/ DeselectRows
  <2>1. UNCHANGED <<kind, ioThread, pageVars, operation, queue, transmitted,
                    listShown, transferVars, handoverVars, written, result,
                    accepted, signalled, aborts, boundVars>>
    BY <1>5 DEF SelectRows, DeselectRows
  <2>2. TypeOK'
    BY <1>5, <2>1 DEF IInv, TypeOK, SelectRows, DeselectRows, pageVars,
      transferVars, handoverVars, boundVars
  <2>3. CommitNeedsPick'
    BY <1>5 DEF IInv, CommitNeedsPick, TypeOK, SelectRows, DeselectRows
  <2> QED
    BY <2>1, <2>2, <2>3 DEF IInv, QueueIsGenuine, EndIsSignalled,
      HandedOverOnce, RecordsAreClosed, pageVars, transferVars, handoverVars
<1>6. CASE ClickAbort
  <2>1. TypeOK'
    BY <1>6 DEF IInv, TypeOK, ClickAbort, pageVars, pickVars, transferVars,
      handoverVars, boundVars
  <2> QED
    BY <1>6, <2>1 DEF ClickAbort, IInv, QueueIsGenuine, EndIsSignalled,
      CommitNeedsPick, HandedOverOnce, RecordsAreClosed, pageVars, pickVars,
      transferVars, handoverVars
<1>7. CASE Close
  <2>1. TypeOK'
    BY <1>7 DEF IInv, TypeOK, Close, pickVars, handoverVars, boundVars
  <2>2. QueueIsGenuine'
    BY <1>7 DEF Close, QueueIsGenuine
  <2> QED
    BY <1>7, <2>1, <2>2 DEF Close, IInv, EndIsSignalled, CommitNeedsPick,
      HandedOverOnce, RecordsAreClosed, pickVars, handoverVars
<1> QED
  BY <1>1, <1>2, <1>3, <1>4, <1>5, <1>6, <1>7

LEMMA SlotStep == IInv /\ Open /\ Slot => IInv'
<1> SUFFICES ASSUME IInv, Open, Slot PROVE IInv'
  OBVIOUS
<1>0. queue # <<>>
  BY DEF Slot, WizardFinished, SelectFilesFinished, StatusFinished,
    CompletedFinished, OperationStatus, DownloadingList, Posted
<1>1. /\ Tail(queue) \in Seq(Genuine(kind, signalled, accepted))
      /\ Head(queue) \in Genuine(kind, signalled, accepted)
  BY <1>0, QueueParts DEF IInv
<1>2. Head(queue)[1] \in FinishedSlots =>
        signalled = "Yes" /\ Head(queue)[2] \in ReportCodes
  BY <1>1 DEF Genuine
<1>3. Head(queue)[1] = "OperationStatus" =>
        /\ kind \in ListOnAcceptance
        /\ Head(queue)[2] = "OperationAccepted" => accepted = "Yes"
  BY <1>1 DEF Genuine
<1>4. CASE WizardFinished
  <2>1. signalled = "Yes"
    BY <1>2, <1>4 DEF WizardFinished, Posted, FinishedSlots
  <2> QED
    BY <1>1, <1>4, <2>1, GoingOnStep DEF WizardFinished, Open
<1>5. CASE SelectFilesFinished
  <2>1. TypeOK'
    BY <1>5 DEF IInv, TypeOK, SelectFilesFinished, transferVars, handoverVars,
      boundVars
  <2>2. QueueIsGenuine'
    BY <1>1, <1>5 DEF SelectFilesFinished, QueueIsGenuine
  <2> QED
    BY <1>5, <2>1, <2>2 DEF SelectFilesFinished, IInv, EndIsSignalled,
      CommitNeedsPick, HandedOverOnce, RecordsAreClosed, transferVars,
      handoverVars
<1>6. CASE StatusFinished
  <2>1. TypeOK'
    BY <1>6 DEF IInv, TypeOK, StatusFinished, pickVars, transferVars,
      handoverVars, boundVars
  <2>2. QueueIsGenuine'
    BY <1>1, <1>6 DEF StatusFinished, QueueIsGenuine
  <2>3. EndIsSignalled'
    BY <1>2, <1>6 DEF StatusFinished, Posted, FinishedSlots, EndIsSignalled
  <2> QED
    BY <1>6, <2>1, <2>2, <2>3 DEF StatusFinished, IInv, CommitNeedsPick,
      HandedOverOnce, RecordsAreClosed, pickVars, transferVars, handoverVars
<1>7. CASE CompletedFinished
  <2>1. result' \in ReportCodes
    BY <1>2, <1>7 DEF CompletedFinished, Posted, FinishedSlots
  <2>2. TypeOK'
    BY <1>7, <2>1 DEF IInv, TypeOK, CompletedFinished, pageVars, pickVars,
      transferVars, handoverVars, boundVars
  <2>3. QueueIsGenuine'
    BY <1>1, <1>7 DEF CompletedFinished, QueueIsGenuine
  <2> QED
    BY <1>7, <2>2, <2>3 DEF CompletedFinished, IInv, EndIsSignalled,
      CommitNeedsPick, HandedOverOnce, RecordsAreClosed, pageVars, pickVars,
      transferVars, handoverVars
<1>8. CASE OperationStatus
  <2>1. /\ kind \in ListOnAcceptance
        /\ UNCHANGED <<kind, ioThread, pageVars, operation, pickVars,
                       transferVars, written, result, accepted, aborts,
                       boundVars>>
    BY <1>3, <1>8 DEF OperationStatus, Posted
  <2>2. CASE /\ Head(queue)[2] = "OperationAccepted"
             /\ transmitted = "No"
             /\ HandOver(Tail(queue))
             /\ transmitted' = "Yes"
    <3>1. /\ Kept(Tail(queue))
          /\ handovers' \in {handovers, handovers + 1}
          /\ loads' = IF kind = "Upload" THEN "Handed" ELSE loads
      BY <1>1, <2>2, HandOverKeeps DEF IInv
    <3>2. accepted = "Yes"
      BY <1>3, <1>8, <2>2 DEF OperationStatus, Posted
    <3>3. TypeOK'
      BY <2>1, <2>2, <3>1 DEF IInv, TypeOK, Kept, pageVars, pickVars,
        transferVars, boundVars
    <3>4. QueueIsGenuine'
      BY <2>1, <3>1 DEF QueueIsGenuine, Kept
    <3>5. HandedOverOnce'
      BY <2>1, <2>2, <3>1, <3>2 DEF IInv, HandedOverOnce, TypeOK,
        ListOnAcceptance, transferVars
    <3> QED
      BY <2>1, <3>1, <3>3, <3>4, <3>5 DEF IInv, EndIsSignalled,
        CommitNeedsPick, RecordsAreClosed, Kept, pageVars, pickVars,
        transferVars
  <2>3. CASE /\ queue' = Tail(queue)
             /\ UNCHANGED <<transmitted, handoverVars, signalled>>
    <3>1. TypeOK'
      BY <2>1, <2>3 DEF IInv, TypeOK, pageVars, pickVars, transferVars,
        handoverVars, boundVars
    <3>2. QueueIsGenuine'
      BY <1>1, <2>1, <2>3 DEF QueueIsGenuine
    <3> QED
      BY <2>1, <2>3, <3>1, <3>2 DEF IInv, EndIsSignalled, CommitNeedsPick,
        HandedOverOnce, RecordsAreClosed, pageVars, pickVars, transferVars,
        handoverVars
  <2> QED
    BY <1>8, <2>2, <2>3 DEF OperationStatus
<1>9. CASE DownloadingList
  <2>1. TypeOK'
    BY <1>9 DEF IInv, TypeOK, DownloadingList, pageVars, transferVars,
      handoverVars, boundVars
  <2>2. QueueIsGenuine'
    BY <1>1, <1>9 DEF DownloadingList, QueueIsGenuine
  <2> QED
    BY <1>9, <2>1, <2>2 DEF DownloadingList, IInv, EndIsSignalled,
      CommitNeedsPick, HandedOverOnce, RecordsAreClosed, pageVars,
      transferVars, handoverVars
<1> QED
  BY <1>4, <1>5, <1>6, <1>7, <1>8, <1>9 DEF Slot

-------------------------------------------------------------------------------
(* The calls of the host operation.                                        *)
LEMMA HostStatusStep ==
  ASSUME IInv, NEW code \in StatusCodes, HostStatus(code)
  PROVE  IInv'
<1>1. /\ kind \in ListOnAcceptance
      /\ queue' = Append(queue, <<"OperationStatus", code>>)
      /\ accepted' = IF code = "OperationAccepted" THEN "Yes" ELSE accepted
      /\ statuses' = statuses + 1
      /\ UNCHANGED <<kind, ioThread, pageVars, operation, transmitted,
                     pickVars, transferVars, handoverVars, written, result,
                     signalled, aborts, lists, requests, reports, backs>>
  BY DEF HostStatus
<1>2. TypeOK'
  BY <1>1 DEF IInv, TypeOK, pageVars, pickVars, transferVars, handoverVars
<1>3. QueueIsGenuine'
  <2>1. queue \in Seq(Genuine(kind, signalled, accepted'))
    BY <1>1, GenuineGrows DEF IInv, QueueIsGenuine
  <2>2. <<"OperationStatus", code>> \in Genuine(kind, signalled, accepted')
    BY <1>1 DEF Genuine, Slots, FinishedSlots, Arguments
  <2> QED
    BY <1>1, <2>1, <2>2, AppendProperties DEF QueueIsGenuine
<1>4. HandedOverOnce'
  <2>1. accepted = "Yes" => accepted' = "Yes"
    BY <1>1
  <2> QED
    BY <1>1, <2>1 DEF IInv, HandedOverOnce, transferVars, handoverVars
<1> QED
  BY <1>1, <1>2, <1>3, <1>4 DEF IInv, EndIsSignalled, CommitNeedsPick,
    RecordsAreClosed, pageVars, pickVars, transferVars

LEMMA HostListStep == IInv /\ HostList => IInv'
<1> SUFFICES ASSUME IInv, HostList PROVE IInv'
  OBVIOUS
<1>1. TypeOK'
  <2>1. /\ lists' = lists + 1
        /\ UNCHANGED <<kind, ioThread, pageVars, operation, transmitted,
                       pickVars, transferVars, handoverVars, written, result,
                       accepted, signalled, aborts, statuses, requests,
                       reports, backs>>
    BY DEF HostList
  <2> QED
    BY <2>1 DEF IInv, TypeOK, pageVars, pickVars, transferVars, handoverVars
<1>2. QueueIsGenuine'
  <2>1. <<"DownloadingList", "">> \in Genuine(kind, signalled, accepted)
    BY DEF Genuine, Slots, FinishedSlots, Arguments
  <2> QED
    BY <2>1, AppendProperties DEF IInv, QueueIsGenuine, HostList
<1> QED
  BY <1>1, <1>2 DEF HostList, IInv, EndIsSignalled, CommitNeedsPick,
    HandedOverOnce, RecordsAreClosed, pageVars, pickVars, transferVars,
    handoverVars

LEMMA HostFinishedStep ==
  ASSUME IInv, NEW code \in ReportCodes, HostFinished(code)
  PROVE  IInv'
<1>1. /\ \E c \in ReportCodes : EmitFinished(queue, c)
      /\ written' \subseteq ReportCodes
      /\ HostReports
  BY DEF HostFinished, UploadFinished, InformationFinished,
    MediaDefinedFinished, OperatorDefinedFinished, SaveAndReport,
    SaveInformation, ReportCodes, IInv, TypeOK
<1>2. signalled' = "Yes" /\ queue' \in Seq(Genuine(kind, "Yes", accepted))
  BY <1>1, EmittingIsGenuine DEF EmitFinished, IInv, TypeOK, QueueIsGenuine
<1>3. /\ operation' = "Ended" /\ reports' = reports + 1
      /\ UNCHANGED <<kind, ioThread, pageVars, transmitted, pickVars,
                     transferVars, handoverVars, result, accepted, aborts,
                     statuses, lists, requests, backs>>
  BY <1>1 DEF HostReports
<1>4. TypeOK'
  BY <1>1, <1>2, <1>3 DEF IInv, TypeOK, pageVars, pickVars, transferVars,
    handoverVars
<1>5. QueueIsGenuine'
  BY <1>2, <1>3 DEF QueueIsGenuine
<1> QED
  BY <1>2, <1>3, <1>4, <1>5 DEF IInv, EndIsSignalled, CommitNeedsPick,
    HandedOverOnce, RecordsAreClosed, pageVars, pickVars, transferVars,
    handoverVars

(* The calls about a data file: a transfer begins or ends.                 *)
FileStep(f) ==
  FileRequest(f) \/ (\E outcome \in {"Ok", "Error"} : FileCompleted(f, outcome))

(* What they have in common: only the transfers and the record of f        *)
(* change, and the record only for a download, unless an exception leaves  *)
(* the I/O thread.                                                         *)
LEMMA FileStepForm ==
  ASSUME NEW f \in Files, FileStep(f)
  PROVE  /\ \/ /\ transfers' = [transfers EXCEPT ![f] = @ + 1]
               /\ requests' = requests + 1
               /\ ioThread' = ioThread
               /\ kind = "Upload" => loads = "Handed"
               /\ record' = IF kind \in Downloads
                            THEN [record EXCEPT ![f] = "Started"] ELSE record
            \/ /\ transfers' = transfers
               /\ requests' = requests + 1
               /\ ioThread' = "Exited"
               /\ record' = IF kind \in Downloads
                            THEN [record EXCEPT ![f] = "Started"] ELSE record
            \/ /\ transfers[f] > 0
               /\ transfers' = [transfers EXCEPT ![f] = @ - 1]
               /\ requests' = requests
               /\ ioThread' = ioThread
               /\ \E outcome \in {"Ok", "Error"} :
                    record' = IF kind \in Downloads
                              THEN [record EXCEPT ![f] = outcome] ELSE record
            \/ /\ transfers[f] > 0
               /\ transfers' = [transfers EXCEPT ![f] = @ - 1]
               /\ requests' = requests
               /\ ioThread' = "Exited"
               /\ record' = record
         /\ UNCHANGED <<kind, pageVars, operation, queue, transmitted,
                        pickVars, handoverVars, written, result, accepted,
                        signalled, aborts, statuses, lists, reports, backs>>
<1>1. CASE FileRequest(f)
  <2>1. CASE TransferStarts(f)
    BY <1>1, <2>1 DEF FileRequest, UploadFileRequest, MediaDefinedFileRequest,
      OperatorDefinedFileRequest, TransferStarts, FileRequested, RecordStart,
      Downloads
  <2>2. CASE RequestThrows
    BY <1>1, <2>2 DEF FileRequest, UploadFileRequest, MediaDefinedFileRequest,
      OperatorDefinedFileRequest, RequestThrows, FileRequested, RecordStart,
      Downloads
  <2> QED
    BY <1>1, <2>1, <2>2 DEF FileRequest, UploadFileRequest,
      MediaDefinedFileRequest, OperatorDefinedFileRequest
<1>2. CASE \E outcome \in {"Ok", "Error"} : FileCompleted(f, outcome)
  BY <1>2 DEF FileCompleted, UploadFileCompleted, MediaDefinedFileCompleted,
    OperatorDefinedFileCompleted, TransferEnds, RecordOutcome, RecordEnd,
    Downloads, boundVars
<1> QED
  BY <1>1, <1>2 DEF FileStep

LEMMA FileKeeps ==
  ASSUME IInv, Dormant, NEW f \in Files, FileStep(f)
  PROVE  IInv'
<1>1. UNCHANGED <<kind, pageVars, operation, queue, transmitted, pickVars,
                  handoverVars, written, result, accepted, signalled, aborts,
                  statuses, lists, reports, backs>>
  BY FileStepForm
<1>2. TypeOK'
  <2>1. transfers' \in [Files -> Nat] /\ requests' \in Nat
    BY FileStepForm DEF IInv, TypeOK
  <2>2. record' \in [Files -> {"None", "Started", "Ok", "Error"}]
    BY FileStepForm DEF IInv, TypeOK
  <2>3. ioThread' \in {"Running", "Exited"}
    BY FileStepForm DEF IInv, TypeOK
  <2> QED
    BY <1>1, <2>1, <2>2, <2>3 DEF IInv, TypeOK, pageVars, pickVars, handoverVars
<1>3. RecordsAreClosed'
  BY FileStepForm DEF IInv, Dormant, RecordsAreClosed, TypeOK
<1>4. HandedOverOnce'
  <2>1. kind = "Upload" =>
          \A g \in Files : transfers'[g] > 0 => accepted = "Yes"
    BY FileStepForm DEF IInv, HandedOverOnce, TypeOK
  <2> QED
    BY <1>1, <2>1 DEF IInv, HandedOverOnce, handoverVars
<1> QED
  BY <1>1, <1>2, <1>3, <1>4 DEF IInv, QueueIsGenuine, EndIsSignalled,
    CommitNeedsPick, pageVars, pickVars

-------------------------------------------------------------------------------
LEMMA DormantInitially == Init => Dormant
  BY DEF Init, Dormant, Pages

LEMMA DormantStep == TypeOK /\ Dormant /\ [Next]_vars => Dormant'
<1> SUFFICES ASSUME TypeOK, Dormant, [Next]_vars PROVE Dormant'
  OBVIOUS
<1>1. ASSUME NEW posted, page # "Closed", GoNext(posted),
             UNCHANGED <<kind, transferVars>>
      PROVE  Dormant'
  <2>1. page' # "Closed"
    BY <1>1 DEF GoNext, ShowPage, NextPage, TypeOK, Pages
  <2> QED
    BY <1>1, <2>1 DEF Dormant, transferVars
<1>2. CASE Commit \/ CommitFiles \/ LeaveStatus
  BY <1>1, <1>2 DEF Commit, CommitFiles, LeaveStatus
<1>3. CASE GoBack
  BY <1>3 DEF GoBack, Dormant, transferVars
<1>4. CASE SelectRows \/ DeselectRows \/ ClickAbort
  BY <1>4 DEF SelectRows, DeselectRows, ClickAbort, Dormant, pageVars,
    transferVars
<1>5. CASE Close
  BY <1>5 DEF Close, Dormant
<1>6. CASE Slot
  <2>1. page # "Closed"
    BY <1>6 DEF Dormant, Slot, WizardFinished, SelectFilesFinished,
      StatusFinished, CompletedFinished, OperationStatus, DownloadingList,
      Posted
  <2>2. CASE WizardFinished
    BY <1>1, <2>1, <2>2 DEF WizardFinished
  <2>3. CASE SelectFilesFinished \/ StatusFinished \/ CompletedFinished
             \/ OperationStatus \/ DownloadingList
    BY <2>1, <2>3 DEF SelectFilesFinished, StatusFinished, CompletedFinished,
      OperationStatus, DownloadingList, Dormant, pageVars, transferVars
  <2> QED
    BY <1>6, <2>2, <2>3 DEF Slot
<1>7. CASE (\E code \in StatusCodes : HostStatus(code)) \/ HostList
  BY <1>7 DEF HostStatus, HostList, Dormant, pageVars, transferVars
<1>8. CASE \E code \in ReportCodes : HostFinished(code)
  BY <1>8 DEF HostFinished, UploadFinished, InformationFinished,
    MediaDefinedFinished, OperatorDefinedFinished, SaveAndReport, EmitFinished,
    HostReports, Dormant, pageVars, transferVars
<1>9. CASE \E f \in Files : FileStep(f)
  <2> PICK f \in Files : FileStep(f)
    BY <1>9
  <2>1. operation' = operation /\ queue' = queue /\ page' = page
        /\ kind' = kind /\ (kind \notin Downloads => record' = record)
    BY FileStepForm DEF pageVars
  <2> QED
    BY <2>1 DEF Dormant
<1>10. CASE UNCHANGED vars
  BY <1>10 DEF Dormant, vars
<1> QED
  BY <1>2, <1>3, <1>4, <1>5, <1>6, <1>7, <1>8, <1>9, <1>10 DEF Next, FileStep

LEMMA Inductive == IInv /\ Dormant /\ [Next]_vars => IInv' /\ Dormant'
<1> SUFFICES ASSUME IInv, Dormant, [Next]_vars PROVE IInv' /\ Dormant'
  OBVIOUS
<1>1. Dormant'
  BY DormantStep DEF IInv
<1>2. CASE Commit \/ CommitFiles \/ LeaveStatus \/ GoBack \/ SelectRows
           \/ DeselectRows \/ ClickAbort \/ Close
  BY <1>1, <1>2, OperatorStep
<1>3. CASE Slot
  <2>1. Open
    BY <1>3 DEF Dormant, Open, Slot, WizardFinished, SelectFilesFinished,
      StatusFinished, CompletedFinished, OperationStatus, DownloadingList,
      Posted
  <2> QED
    BY <1>1, <1>3, <2>1, SlotStep
<1>4. CASE \E code \in StatusCodes : HostStatus(code)
  BY <1>1, <1>4, HostStatusStep
<1>5. CASE HostList
  BY <1>1, <1>5, HostListStep
<1>6. CASE \E code \in ReportCodes : HostFinished(code)
  BY <1>1, <1>6, HostFinishedStep
<1>7. CASE \E f \in Files : FileStep(f)
  BY <1>1, <1>7, FileKeeps
<1>8. CASE UNCHANGED vars
  BY <1>1, <1>8 DEF vars, IInv, TypeOK, QueueIsGenuine, EndIsSignalled,
    CommitNeedsPick, HandedOverOnce, RecordsAreClosed
<1> QED
  BY <1>2, <1>3, <1>4, <1>5, <1>6, <1>7, <1>8 DEF Next, FileStep

LEMMA Invariance == Spec => [](IInv /\ Dormant)
<1>1. Init => IInv /\ Dormant
  BY Initially, DormantInitially
<1> QED
  BY <1>1, Inductive, PTL DEF Spec

-------------------------------------------------------------------------------
(* Every variable keeps its type.                                          *)
THEOREM WizardTypeCorrect == Spec => []TypeOK
<1>1. IInv => TypeOK
  BY DEF IInv
<1> QED
  BY <1>1, Invariance, PTL

(* Lists are handed over once, and only behind the acceptance; loads are   *)
(* served only behind it.                                                  *)
THEOREM ListFollows == Spec => []ListFollowsAcceptance
<1>1. IInv => ListFollowsAcceptance
  BY DEF IInv, HandedOverOnce, ListFollowsAcceptance, ListOnAcceptance, TypeOK
<1> QED
  BY <1>1, Invariance, PTL

(* No record of a file stays open behind its transfers.                    *)
THEOREM RecordsClose == Spec => []RecordsAreClosed
<1>1. IInv => RecordsAreClosed
  BY DEF IInv
<1> QED
  BY <1>1, Invariance, PTL

(* An answer given before any end is signalled names files of a list.      *)
THEOREM AnswersName == Spec => AnswerNamesFiles
<1>1. IInv /\ Dormant /\ [Next]_vars =>
        [kind = "OperatorDefinedDownload" /\ signalled = "No"
         /\ handovers' > handovers => picked > 0]_vars
  <2> SUFFICES ASSUME IInv, Dormant, Next,
                      kind = "OperatorDefinedDownload", signalled = "No",
                      handovers' > handovers
               PROVE  picked > 0
    BY DEF vars
  <2>0. handovers' # handovers
    BY DEF IInv, TypeOK
  <2>1. page # "Completed" /\ completed = "No"
    BY DEF IInv, EndIsSignalled, TypeOK
  <2>2. ~ WizardFinished
    <3> SUFFICES ASSUME WizardFinished PROVE FALSE
      OBVIOUS
    <3>1. Head(queue) \in Genuine(kind, signalled, accepted)
      BY QueueParts DEF IInv, WizardFinished, Posted
    <3> QED
      BY <3>1 DEF Genuine, WizardFinished, Posted, FinishedSlots
  <2>3. ~ OperationStatus
    <3> SUFFICES ASSUME OperationStatus PROVE FALSE
      OBVIOUS
    <3>1. Head(queue) \in Genuine(kind, signalled, accepted)
      BY QueueParts DEF IInv, OperationStatus, Posted
    <3> QED
      BY <3>1 DEF Genuine, OperationStatus, Posted, ListOnAcceptance
  <2>4. ~ Commit
    <3> SUFFICES ASSUME Commit PROVE FALSE
      OBVIOUS
    <3>1. queue \in Seq(Genuine(kind, signalled, accepted))
      BY DEF IInv, QueueIsGenuine
    <3> QED
      BY <2>0, <3>1, GoNextKeeps DEF IInv, Commit
  <2>5. ~ LeaveStatus /\ ~ GoBack
    BY <2>1 DEF LeaveStatus, GoBack
  <2>6. ~ \E code \in ReportCodes : HostFinished(code)
    BY <2>0 DEF HostFinished, UploadFinished, InformationFinished,
      MediaDefinedFinished, OperatorDefinedFinished, HostReports, handoverVars
  <2>7. ~ \E f \in Files : FileStep(f)
    BY <2>0, FileStepForm DEF handoverVars
  <2>8. CommitFiles
    BY <2>0, <2>2, <2>3, <2>4, <2>5, <2>6, <2>7 DEF Next, Slot, SelectRows,
      DeselectRows, ClickAbort, Close, SelectFilesFinished, StatusFinished,
      CompletedFinished, DownloadingList, HostStatus, HostList, FileStep,
      handoverVars
  <2> QED
    BY <2>8 DEF CommitFiles, IInv, CommitNeedsPick
<1> QED
  BY <1>1, Invariance, PTL DEF Spec, AnswerNamesFiles

-------------------------------------------------------------------------------
(* The Abort button.  Its pages are told of the end in the order in which  *)
(* operationFinished is connected: the wizard, which leaves the select     *)
(* files page, that page, the status page.                                 *)

(* A call of slot b is posted only behind one of slot a.                   *)
Ahead(q, a, b) ==
  \A i \in 1 .. Len(q) : q[i][1] = b => \E j \in 1 .. i - 1 : q[j][1] = a

EndsInOrder ==
  /\ page = "SelectFiles" =>
       /\ Ahead(queue, "WizardFinished", "SelectFilesFinished")
       /\ Ahead(queue, "WizardFinished", "StatusFinished")
  /\ "SelectFiles" \in connected =>
       Ahead(queue, "SelectFilesFinished", "StatusFinished")

(* Which pages the button is connected to.                                 *)
Connections ==
  /\ page = "Settings" =>
       connected = {} /\ completed = "No" /\ queue = <<>> /\ operation = "None"
  /\ page = "SelectFiles" => completed = "No" /\ connected = {"SelectFiles"}
  /\ page \in {"Status", "Completed"} /\ completed = "No" =>
       "Status" \in connected
  /\ completed = "Yes" => connected = {}
  /\ kind # "OperatorDefinedDownload" =>
       page # "SelectFiles" /\ "SelectFiles" \notin connected

AbortInv == EndsInOrder /\ Connections


LEMMA AheadOfNothing == \A a, b : Ahead(<<>>, a, b)
BY DEF Ahead

(* Behind a queue a call of another slot changes nothing.                  *)
LEMMA AheadAppend ==
  ASSUME NEW S, NEW q \in Seq(S), NEW call \in S, NEW a, NEW b,
         Ahead(q, a, b), call[1] # b
  PROVE  Ahead(Append(q, call), a, b)
<1>1. /\ Len(Append(q, call)) = Len(q) + 1
      /\ \A i \in 1 .. Len(q) : Append(q, call)[i] = q[i]
      /\ Append(q, call)[Len(q) + 1] = call
      /\ Len(q) \in Nat
  OBVIOUS
<1> QED
  BY <1>1 DEF Ahead

(* Behind a queue in order a queue in order may be posted.                 *)
LEMMA AheadConcat ==
  ASSUME NEW S, NEW q \in Seq(S), NEW r \in Seq(S), NEW a, NEW b,
         Ahead(q, a, b), Ahead(r, a, b)
  PROVE  Ahead(q \o r, a, b)
<1>1. /\ Len(q) \in Nat /\ Len(r) \in Nat
      /\ Len(q \o r) = Len(q) + Len(r)
      /\ \A i \in 1 .. Len(q) : (q \o r)[i] = q[i]
      /\ \A i \in 1 .. Len(r) : (q \o r)[Len(q) + i] = r[i]
  OBVIOUS
<1> SUFFICES ASSUME NEW i \in 1 .. Len(q \o r), (q \o r)[i][1] = b
             PROVE  \E j \in 1 .. i - 1 : (q \o r)[j][1] = a
  BY DEF Ahead
<1>2. CASE i \in 1 .. Len(q)
  <2>1. PICK j \in 1 .. i - 1 : q[j][1] = a
    BY <1>1, <1>2 DEF Ahead
  <2> QED
    BY <1>1, <1>2, <2>1
<1>3. CASE i \notin 1 .. Len(q)
  <2>1. i - Len(q) \in 1 .. Len(r) /\ Len(q) + (i - Len(q)) = i
    BY <1>1, <1>3
  <2>2. r[i - Len(q)][1] = b
    BY <1>1, <2>1
  <2>3. PICK j \in 1 .. (i - Len(q)) - 1 : r[j][1] = a
    BY <2>1, <2>2 DEF Ahead
  <2>4. Len(q) + j \in 1 .. i - 1 /\ (q \o r)[Len(q) + j] = r[j]
    BY <1>1, <2>1, <2>3
  <2> QED
    BY <2>3, <2>4
<1> QED
  BY <1>2, <1>3

(* What is left when the first call runs is in order, if that call is not  *)
(* the one others wait for.                                                *)
LEMMA AheadTail ==
  ASSUME NEW S, NEW q \in Seq(S), q # <<>>, NEW a, NEW b,
         Ahead(q, a, b), Head(q)[1] # a
  PROVE  Ahead(Tail(q), a, b)
<1>1. /\ Len(q) \in Nat /\ Len(q) > 0
      /\ Len(Tail(q)) = Len(q) - 1
      /\ \A i \in 1 .. Len(q) - 1 : Tail(q)[i] = q[i + 1]
      /\ Head(q) = q[1]
  OBVIOUS
<1> SUFFICES ASSUME NEW i \in 1 .. Len(Tail(q)), Tail(q)[i][1] = b
             PROVE  \E j \in 1 .. i - 1 : Tail(q)[j][1] = a
  BY DEF Ahead
<1>2. i + 1 \in 1 .. Len(q) /\ q[i + 1][1] = b
  BY <1>1
<1>3. PICK j \in 1 .. i : q[j][1] = a
  BY <1>1, <1>2 DEF Ahead
<1>4. j # 1
  BY <1>1, <1>3
<1>5. j - 1 \in 1 .. i - 1 /\ Tail(q)[j - 1] = q[j]
  BY <1>1, <1>3, <1>4
<1> QED
  BY <1>3, <1>5

(* Nothing is due that waits for another call: it is not the first.        *)
LEMMA AheadIsNotFirst ==
  ASSUME NEW S, NEW q \in Seq(S), q # <<>>, NEW a, NEW b, Ahead(q, a, b)
  PROVE  Head(q)[1] # b
<1>1. Len(q) > 0 /\ Len(q) \in Nat /\ Head(q) = q[1]
  OBVIOUS
<1> QED
  BY <1>1 DEF Ahead

(* One operationFinished calls the slots of an operator defined download   *)
(* in order.                                                               *)
InOrder(q) ==
  /\ Ahead(q, "WizardFinished", "SelectFilesFinished")
  /\ Ahead(q, "WizardFinished", "StatusFinished")
  /\ Ahead(q, "SelectFilesFinished", "StatusFinished")

LEMMA FinishedInOrder ==
  ASSUME kind = "OperatorDefinedDownload", NEW code
  PROVE  InOrder(FinishedCalls(code))
<1>1. FinishedCalls(code) =
        [i \in 1 .. 4 |-> << << "WizardFinished", "SelectFilesFinished",
                                "StatusFinished", "CompletedFinished">>[i],
                             code>>]
  <2>1. SlotsOf = OperatorDefinedSlots
    BY DEF SlotsOf
  <2>2. Len(OperatorDefinedSlots) = 4
    BY DEF OperatorDefinedSlots
  <2> QED
    BY <2>1, <2>2 DEF FinishedCalls, OperatorDefinedSlots
<1>2. /\ Len(FinishedCalls(code)) = 4
      /\ FinishedCalls(code)[1][1] = "WizardFinished"
      /\ FinishedCalls(code)[2][1] = "SelectFilesFinished"
      /\ FinishedCalls(code)[3][1] = "StatusFinished"
      /\ FinishedCalls(code)[4][1] = "CompletedFinished"
  BY <1>1
<1>3. \A i \in 1 .. 4 : i = 1 \/ i = 2 \/ i = 3 \/ i = 4
  OBVIOUS
<1> QED
  BY <1>2, <1>3 DEF InOrder, Ahead


(* What is posted behind a queue in order leaves it in order.              *)
LEMMA PostingInOrder ==
  ASSUME TypeOK, kind = "OperatorDefinedDownload",
         NEW posted \in Seq(Genuine(kind, signalled, accepted)),
         StartOperation(posted) \/ HandOver(posted) \/ queue' = posted
           \/ (\E code \in ReportCodes : EmitFinished(posted, code)),
         NEW a, NEW b,
         \A code : Ahead(FinishedCalls(code), a, b),
         Ahead(posted, a, b)
  PROVE  Ahead(queue', a, b)
<1> DEFINE G == Genuine(kind, "Yes", accepted)
           Emits(q) == \E code \in ReportCodes : queue' = q \o FinishedCalls(code)
           fc == FinishedCalls("OperationAbortedByDlp")
<1>1. "OperationAbortedByDlp" \in ReportCodes /\ kind \in Kinds
  BY DEF ReportCodes, TypeOK
<1>2. /\ posted \in Seq(G)
      /\ \A code \in ReportCodes : FinishedCalls(code) \in Seq(G)
  BY <1>1, GenuineGrows, FinishedIsGenuine
<1>3. queue' = posted \/ Emits(posted) \/ Emits(posted \o fc)
  <2>1. CASE StartOperation(posted)
    BY <1>1, <2>1 DEF StartOperation, StartUpload, StartInformation,
      StartMediaDefined, StartOperatorDefined, StartUnlessException,
      StartWithoutDirectory, EmitFinished
  <2>2. CASE HandOver(posted)
    BY <1>1, <2>2 DEF HandOver, TransmitLoads, TransmitRequest,
      TransmitAnswer, HandToOperation, EmitFinished
  <2>3. CASE \E code \in ReportCodes : EmitFinished(posted, code)
    BY <2>3 DEF EmitFinished
  <2> QED
    BY <2>1, <2>2, <2>3
<1> HIDE DEF G
<1>4. ASSUME NEW q \in Seq(G), Ahead(q, a, b), Emits(q)
      PROVE  Ahead(queue', a, b)
  BY <1>2, <1>4, AheadConcat
<1>5. posted \o fc \in Seq(G) /\ Ahead(posted \o fc, a, b)
  <2>1. fc \in Seq(G) /\ Ahead(fc, a, b)
    BY <1>1, <1>2
  <2> QED
    BY <1>2, <2>1, AheadConcat, ConcatProperties
<1> QED
  BY <1>2, <1>3, <1>4, <1>5

(* Going on to the next page, with the calls that are still posted.        *)
LEMMA GoNextKeepsAbort ==
  ASSUME TypeOK, AbortInv, page # "Closed",
         NEW posted \in Seq(Genuine(kind, signalled, accepted)),
         GoNext(posted), UNCHANGED <<kind, completed>>,
         page = "Settings" => posted = <<>>,
         "SelectFiles" \in connected =>
           Ahead(posted, "SelectFilesFinished", "StatusFinished")
  PROVE  AbortInv'
<1>1. page \in Pages
  BY DEF TypeOK
<1>2. CASE page = "Completed"
  <2>1. queue' = posted /\ page' = page /\ connected' = connected
    BY <1>2 DEF GoNext
  <2> QED
    BY <1>2, <2>1 DEF AbortInv, EndsInOrder, Connections
<1>3. CASE page # "Completed"
  <2>1. /\ page' = NextPage[page]
        /\ connected' = connected \cup ({NextPage[page]} \cap ProtocolPages)
        /\ StartOperation(posted) \/ HandOver(posted) \/ queue' = posted
    BY <1>3 DEF GoNext, ShowPage, Arrive
  <2>2. CASE page = "Settings"
    <3>1. completed' = "No" /\ connected = {} /\ posted = <<>>
      BY <2>2 DEF AbortInv, Connections
    <3>2. CASE kind = "OperatorDefinedDownload"
      <4>1. page' = "SelectFiles" /\ connected' = {"SelectFiles"}
        BY <2>1, <2>2, <3>1, <3>2 DEF NextPage, ProtocolPages
      <4>2. InOrder(queue')
        BY <2>1, <3>1, <3>2, PostingInOrder, AheadOfNothing, FinishedInOrder
          DEF InOrder
      <4> QED
        BY <3>1, <3>2, <4>1, <4>2 DEF AbortInv, EndsInOrder, Connections,
          InOrder
    <3>3. CASE kind # "OperatorDefinedDownload"
      <4>1. page' = "Status" /\ connected' = {"Status"}
        BY <2>1, <2>2, <3>1, <3>3 DEF NextPage, ProtocolPages
      <4> QED
        BY <3>1, <3>3, <4>1 DEF AbortInv, EndsInOrder, Connections
    <3> QED
      BY <3>2, <3>3
  <2>3. CASE page = "SelectFiles"
    <3>1. /\ completed' = "No"
          /\ connected = {"SelectFiles"}
          /\ kind = "OperatorDefinedDownload"
      BY <2>3 DEF AbortInv, Connections
    <3>2. page' = "Status" /\ connected' = {"SelectFiles", "Status"}
      BY <2>1, <2>3, <3>1 DEF NextPage, ProtocolPages
    <3>3. Ahead(queue', "SelectFilesFinished", "StatusFinished")
      BY <2>1, <3>1, PostingInOrder, FinishedInOrder DEF InOrder
    <3> QED
      BY <3>1, <3>2, <3>3 DEF AbortInv, EndsInOrder, Connections
  <2>4. CASE page = "Status"
    <3>1. page' = "Completed" /\ connected' = connected
      BY <2>1, <2>4 DEF NextPage, ProtocolPages
    <3>2. "SelectFiles" \in connected =>
            Ahead(queue', "SelectFilesFinished", "StatusFinished")
      <4> SUFFICES ASSUME "SelectFiles" \in connected
                   PROVE  Ahead(queue', "SelectFilesFinished", "StatusFinished")
        OBVIOUS
      <4>1. kind = "OperatorDefinedDownload"
        BY DEF AbortInv, Connections
      <4> QED
        BY <2>1, <4>1, PostingInOrder, FinishedInOrder DEF InOrder
    <3> QED
      BY <2>4, <3>1, <3>2 DEF AbortInv, EndsInOrder, Connections
  <2> QED
    BY <1>1, <1>3, <2>2, <2>3, <2>4 DEF TypeOK, Pages
<1> QED
  BY <1>2, <1>3

LEMMA AbortInitially == Init => AbortInv
BY AheadOfNothing DEF Init, AbortInv, EndsInOrder, Connections

(* Steps that leave the pages as they are and may post the ends.           *)
LEMMA QuietKeepsAbort ==
  ASSUME AbortInv, UNCHANGED <<kind, page, connected, completed>>,
         page = "Settings" => queue' = queue /\ operation' = operation,
         kind = "OperatorDefinedDownload" =>
           \A a, b : (/\ Ahead(queue, a, b)
                      /\ \A code : Ahead(FinishedCalls(code), a, b)
                      /\ b \in FinishedSlots) => Ahead(queue', a, b)
  PROVE  AbortInv'
<1>1. Connections'
  BY DEF AbortInv, Connections
<1>2. EndsInOrder'
  <2>1. CASE kind = "OperatorDefinedDownload"
    <3>1. \A code : InOrder(FinishedCalls(code))
      BY <2>1, FinishedInOrder
    <3> QED
      BY <2>1, <3>1 DEF InOrder, AbortInv, EndsInOrder, FinishedSlots
  <2>2. CASE kind # "OperatorDefinedDownload"
    BY <2>2, <1>1 DEF EndsInOrder, AbortInv, Connections
  <2> QED
    BY <2>1, <2>2
<1> QED
  BY <1>1, <1>2 DEF AbortInv

LEMMA OperatorKeepsAbort ==
  ASSUME IInv, Dormant, AbortInv,
         \/ Commit \/ CommitFiles \/ LeaveStatus \/ GoBack \/ SelectRows
         \/ DeselectRows \/ ClickAbort \/ Close
  PROVE  AbortInv'
<1>0. TypeOK /\ queue \in Seq(Genuine(kind, signalled, accepted))
  BY DEF IInv, QueueIsGenuine
<1>1. ASSUME page # "Closed", GoNext(queue), UNCHANGED <<kind, completed>>
      PROVE  AbortInv'
  <2>1. page = "Settings" => queue = <<>>
    BY DEF AbortInv, Connections
  <2>2. "SelectFiles" \in connected =>
          Ahead(queue, "SelectFilesFinished", "StatusFinished")
    BY DEF AbortInv, EndsInOrder
  <2> QED
    BY <1>0, <1>1, <2>1, <2>2, GoNextKeepsAbort
<1>2. CASE Commit
  BY <1>1, <1>2 DEF Commit
<1>3. CASE CommitFiles
  BY <1>1, <1>3 DEF CommitFiles
<1>4. CASE LeaveStatus
  BY <1>1, <1>4 DEF LeaveStatus
<1>5. CASE GoBack
  <2>1. /\ page = "Completed" /\ page' = "Status"
        /\ UNCHANGED <<kind, connected, completed>>
        /\ StartOperation(queue) \/ HandOver(queue) \/ queue' = queue
    BY <1>5 DEF GoBack
  <2>2. "SelectFiles" \in connected =>
          Ahead(queue', "SelectFilesFinished", "StatusFinished")
    <3> SUFFICES ASSUME "SelectFiles" \in connected
                 PROVE  Ahead(queue', "SelectFilesFinished", "StatusFinished")
      OBVIOUS
    <3>1. /\ kind = "OperatorDefinedDownload"
          /\ Ahead(queue, "SelectFilesFinished", "StatusFinished")
      BY DEF AbortInv, Connections, EndsInOrder
    <3> QED
      BY <1>0, <2>1, <3>1, PostingInOrder, FinishedInOrder DEF InOrder
  <2> QED
    BY <2>1, <2>2 DEF AbortInv, Connections, EndsInOrder
<1>6. CASE SelectRows \/ DeselectRows \/ ClickAbort
  <2>1. UNCHANGED <<kind, page, connected, completed, queue, operation>>
    BY <1>6 DEF SelectRows, DeselectRows, ClickAbort, pageVars
  <2> QED
    BY <2>1, QuietKeepsAbort
<1>7. CASE Close
  BY <1>7, AheadOfNothing DEF Close, AbortInv, Connections, EndsInOrder
<1> QED
  BY <1>2, <1>3, <1>4, <1>5, <1>6, <1>7

LEMMA SlotKeepsAbort ==
  ASSUME IInv, AbortInv, Open, Slot
  PROVE  AbortInv'
<1>1. queue # <<>> /\ TypeOK /\ QueueIsGenuine
  BY DEF IInv, Slot, WizardFinished, SelectFilesFinished, StatusFinished,
    CompletedFinished, OperationStatus, DownloadingList, Posted
<1>2. page # "Closed" /\ page # "Settings"
  BY <1>1 DEF Open, AbortInv, Connections
<1>3. /\ queue \in Seq(Genuine(kind, signalled, accepted))
      /\ Tail(queue) \in Seq(Genuine(kind, signalled, accepted))
  BY <1>1, QueueParts DEF QueueIsGenuine
<1>4. \A a, b : Ahead(queue, a, b) =>
        /\ Head(queue)[1] # a => Ahead(Tail(queue), a, b)
        /\ Head(queue)[1] # b
  BY <1>1, <1>3, AheadTail, AheadIsNotFirst
<1>5. CASE WizardFinished
  <2>1. "SelectFiles" \in connected =>
          Ahead(Tail(queue), "SelectFilesFinished", "StatusFinished")
    BY <1>4, <1>5 DEF WizardFinished, Posted, AbortInv, EndsInOrder
  <2> QED
    BY <1>1, <1>2, <1>3, <1>5, <2>1, GoNextKeepsAbort DEF WizardFinished
<1>6. CASE SelectFilesFinished
  <2>1. /\ Head(queue)[1] = "SelectFilesFinished"
        /\ queue' = Tail(queue)
        /\ connected' = connected \ {"SelectFiles"}
        /\ UNCHANGED <<kind, page, completed, operation>>
    BY <1>6 DEF SelectFilesFinished, Posted
  <2>2. page # "SelectFiles"
    BY <1>4, <2>1 DEF AbortInv, EndsInOrder
  <2> QED
    BY <1>2, <2>1, <2>2 DEF AbortInv, EndsInOrder, Connections
<1>7. CASE StatusFinished
  <2>1. /\ Head(queue)[1] = "StatusFinished"
        /\ connected' = connected \ {"Status"}
        /\ completed' = "Yes"
        /\ UNCHANGED <<kind, page, operation>>
    BY <1>7 DEF StatusFinished, Posted
  <2>2. page # "SelectFiles" /\ "SelectFiles" \notin connected
    BY <1>4, <2>1 DEF AbortInv, EndsInOrder
  <2>3. connected' = {}
    BY <1>1, <2>1, <2>2 DEF TypeOK, ProtocolPages
  <2> QED
    BY <1>2, <2>1, <2>2, <2>3 DEF AbortInv, EndsInOrder, Connections
<1>8. CASE CompletedFinished \/ DownloadingList \/ OperationStatus
  <2>1. UNCHANGED <<kind, page, connected, completed, operation>>
    BY <1>8 DEF CompletedFinished, DownloadingList, OperationStatus, pageVars
  <2>2. ASSUME kind = "OperatorDefinedDownload"
        PROVE  queue' = Tail(queue)
    <3>1. Head(queue) \in Genuine(kind, signalled, accepted)
      BY <1>1, QueueParts
    <3>2. ~ OperationStatus
      BY <2>2, <3>1 DEF Genuine, OperationStatus, Posted, ListOnAcceptance
    <3> QED
      BY <1>8, <3>2 DEF CompletedFinished, DownloadingList
  <2>3. ASSUME kind = "OperatorDefinedDownload"
        PROVE  /\ Head(queue)[1] # "WizardFinished"
               /\ Head(queue)[1] # "SelectFilesFinished"
    BY <1>8 DEF CompletedFinished, DownloadingList, OperationStatus, Posted
  <2> QED
    BY <1>2, <1>4, <2>1, <2>2, <2>3 DEF AbortInv, EndsInOrder, Connections
<1> QED
  BY <1>5, <1>6, <1>7, <1>8 DEF Slot

LEMMA HostKeepsAbort ==
  ASSUME IInv, AbortInv,
         \/ \E code \in StatusCodes : HostStatus(code)
         \/ HostList
         \/ \E code \in ReportCodes : HostFinished(code)
         \/ \E f \in Files : FileStep(f)
  PROVE  AbortInv'
<1>0. TypeOK /\ queue \in Seq(Genuine(kind, signalled, accepted))
  BY DEF IInv, QueueIsGenuine
<1>1. CASE (\E code \in StatusCodes : HostStatus(code)) \/ HostList
  <2>1. /\ UNCHANGED <<kind, page, connected, completed>>
        /\ operation # "None"
    BY <1>1 DEF HostStatus, HostList, pageVars
  <2>2. page # "Settings"
    BY <2>1 DEF AbortInv, Connections
  <2>3. ASSUME kind = "OperatorDefinedDownload"
        PROVE  queue' = Append(queue, <<"DownloadingList", "">>)
    BY <1>1, <2>3 DEF HostStatus, HostList, ListOnAcceptance
  <2>4. <<"DownloadingList", "">> \in Genuine(kind, signalled, accepted)
    BY DEF Genuine, Slots, FinishedSlots, Arguments
  <2>5. ASSUME kind = "OperatorDefinedDownload", NEW a, NEW b,
               Ahead(queue, a, b), b \in FinishedSlots
        PROVE  Ahead(queue', a, b)
    <3>1. << "DownloadingList", "">>[1] # b
      BY <2>5 DEF FinishedSlots
    <3> QED
      BY <1>0, <2>3, <2>4, <2>5, <3>1, AheadAppend
  <2> QED
    BY <2>1, <2>2, <2>5, QuietKeepsAbort
<1>2. CASE \E code \in ReportCodes : HostFinished(code)
  <2>1. /\ HostReports
        /\ \E code \in ReportCodes : EmitFinished(queue, code)
    BY <1>2 DEF HostFinished, UploadFinished, InformationFinished,
      MediaDefinedFinished, OperatorDefinedFinished, SaveAndReport, ReportCodes
  <2>2. UNCHANGED <<kind, page, connected, completed>> /\ page # "Settings"
    BY <2>1 DEF HostReports, pageVars, AbortInv, Connections
  <2>3. ASSUME kind = "OperatorDefinedDownload", NEW a, NEW b,
               Ahead(queue, a, b),
               \A code : Ahead(FinishedCalls(code), a, b)
        PROVE  Ahead(queue', a, b)
    BY <1>0, <2>1, <2>3, PostingInOrder
  <2> QED
    BY <2>2, <2>3, QuietKeepsAbort
<1>3. CASE \E f \in Files : FileStep(f)
  <2> PICK f \in Files : FileStep(f)
    BY <1>3
  <2>1. UNCHANGED <<kind, page, connected, completed, queue, operation>>
    BY FileStepForm DEF pageVars
  <2> QED
    BY <2>1, QuietKeepsAbort
<1> QED
  BY <1>1, <1>2, <1>3

LEMMA AbortInvariance == Spec => []AbortInv
<1>1. Init => AbortInv
  BY AbortInitially
<1>2. IInv /\ Dormant /\ AbortInv /\ [Next]_vars => AbortInv'
  <2> SUFFICES ASSUME IInv, Dormant, AbortInv, [Next]_vars PROVE AbortInv'
    OBVIOUS
  <2>1. CASE Slot
    <3>1. Open
      BY <2>1 DEF Dormant, Open, Slot, WizardFinished, SelectFilesFinished,
        StatusFinished, CompletedFinished, OperationStatus, DownloadingList,
        Posted
    <3> QED
      BY <2>1, <3>1, SlotKeepsAbort
  <2>2. CASE UNCHANGED vars
    BY <2>2, QuietKeepsAbort DEF vars
  <2> QED
    BY <2>1, <2>2, OperatorKeepsAbort, HostKeepsAbort DEF Next, FileStep
<1> QED
  BY <1>1, <1>2, Invariance, PTL DEF Spec

(* The Abort button works until the status page has been told of the end,  *)
(* and no longer.                                                          *)
THEOREM AbortButton == Spec => []AbortUntilFinished
<1>1. IInv /\ AbortInv => AbortUntilFinished
  <2> SUFFICES ASSUME IInv, AbortInv PROVE AbortUntilFinished
    OBVIOUS
  <2>1. completed \in {"No", "Yes"}
    BY DEF IInv, TypeOK
  <2> QED
    BY <2>1 DEF AbortInv, Connections, AbortUntilFinished, ProtocolPages
<1> QED
  BY <1>1, Invariance, AbortInvariance, PTL
==============================================================================
