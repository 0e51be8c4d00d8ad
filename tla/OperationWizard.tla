--------------------------- MODULE OperationWizard ---------------------------
(***************************************************************************)
(* One operation wizard of the GUI and its adapter                         *)
(* (src/lib/arinc_615a_dla_qt): the upload, the information and the two    *)
(* download wizards.                                                       *)
(*                                                                         *)
(* The wizard and its pages live on the GUI thread; the host operation     *)
(* calls the adapter from the I/O thread, and the adapter emits signals    *)
(* that are connected with Qt::QueuedConnection: each slot call is posted  *)
(* and runs when the GUI thread comes to it, between two actions of the    *)
(* operator.  The operation itself is HostOperation; here it is what the   *)
(* adapter sees of it.  What the pages draw is left out, except the final  *)
(* status.                                                                 *)
(***************************************************************************)
EXTENDS Integers, Sequences

CONSTANTS
  Files,         \* data files of the media set, or of the target
  MaxStatuses,   \* bound: status files handed to the adapter
  MaxLists,      \* bound: lists of files the target offers
  MaxRequests,   \* bound: requests of the target for data files
  MaxReports,    \* bound: calls of finished() by the host operation
  MaxBacks       \* bound: the operator going back

ASSUME WizardBoundsAssumption ==
  /\ MaxStatuses \in Nat
  /\ MaxLists \in Nat
  /\ MaxRequests \in Nat
  /\ MaxReports \in Nat
  /\ MaxBacks \in Nat

Downloads == {"MediaDefinedDownload", "OperatorDefinedDownload"}
Kinds == Downloads \cup {"Upload", "Information"}

(* The kinds that hand their list over when the target has accepted.       *)
ListOnAcceptance == {"Upload", "MediaDefinedDownload"}

Pages == {"Settings", "SelectFiles", "Status", "Completed"}

(* The pages shown while the operation runs.                               *)
ProtocolPages == {"SelectFiles", "Status"}

ReportCodes == {"OperationCompleted", "OperationAbortedByDlp"}
StatusCodes == {"OperationAccepted", "OperationInProgress"}

VARIABLES
  kind,         \* which wizard
  ioThread,     \* "Exited" once an exception left ioContext.run()
  page,         \* the page shown; "Closed" once the wizard is closed
  operation,    \* operationV; "Ended" if it reported its end or start() threw,
                \* "Silent" if initialise() kept the exception to itself
  queue,        \* posted slot calls: <<slot, argument>>
  transmitted,  \* loadListTransmitted, fileListTransmitted
  connected,    \* pages whose abortOperation the Abort button is connected to
  completed,    \* isCompleted of the status page
  listShown,    \* availableFiles: the number of the list, 0 for none
  rowsSelected, \* "Yes" while rows of availableFiles are selected
  commitButton, \* the Commit button of the select files page
  picked,       \* filesV: the list the selected files were picked from
  loads,        \* loadsV of the upload adapter
  transfers,    \* fileOperationsV: transfers under way, for each file
  record,       \* filesInformationV: state of each file
  written,      \* statuses a download information file was written with
  result,       \* the final status the completed page shows
  accepted,     \* history: "Yes" once the target reported its acceptance
  handovers,    \* history: lists handed to the operation
  signalled,    \* history: "Yes" once operationFinished was emitted
  aborts,       \* history: "Yes" once abort() was called
  statuses, lists, requests, reports, backs   \* counts against the bounds

pickVars == <<listShown, rowsSelected, commitButton, picked>>
transferVars == <<transfers, record>>
handoverVars == <<loads, handovers>>
pageVars == <<page, connected, completed>>
boundVars == <<statuses, lists, requests, reports, backs>>

vars == <<kind, ioThread, page, operation, queue, transmitted, connected,
          completed, listShown, rowsSelected, commitButton, picked, loads,
          transfers, record, written, result, accepted, handovers, signalled,
          aborts, statuses, lists, requests, reports, backs>>

Init ==
  /\ kind \in Kinds
  /\ ioThread = "Running"
  /\ page = "Settings"
  /\ operation = "None"
  /\ queue = <<>>
  /\ transmitted = "No"
  /\ connected = {}
  /\ completed = "No"
  /\ listShown = 0
  /\ rowsSelected = "No"
  /\ commitButton = "Disabled"
  /\ picked = 0
  /\ loads = "Empty"
  /\ transfers = [f \in Files |-> 0]
  /\ record = [f \in Files |-> "None"]
  /\ written = {}
  /\ result = "None"
  /\ accepted = "No"
  /\ handovers = 0
  /\ signalled = "No"
  /\ aborts = "No"
  /\ statuses = 0
  /\ lists = 0
  /\ requests = 0
  /\ reports = 0
  /\ backs = 0

-------------------------------------------------------------------------------
(* The adapter.                                                            *)

(* The slots each wizard connects operationFinished to, in this order.     *)
UploadSlots == <<"WizardFinished", "StatusFinished", "CompletedFinished">>

InformationSlots == <<"WizardFinished", "StatusFinished", "CompletedFinished">>

MediaDefinedSlots == <<"WizardFinished", "StatusFinished", "CompletedFinished">>

OperatorDefinedSlots ==
  <<"WizardFinished", "SelectFilesFinished", "StatusFinished",
    "CompletedFinished">>

SlotsOf ==
  CASE kind = "Upload"                  -> UploadSlots
    [] kind = "Information"             -> InformationSlots
    [] kind = "MediaDefinedDownload"    -> MediaDefinedSlots
    [] kind = "OperatorDefinedDownload" -> OperatorDefinedSlots

FinishedCalls(code) == [i \in 1 .. Len(SlotsOf) |-> <<SlotsOf[i], code>>]

(* emit operationFinished, behind the calls already posted.                *)
EmitFinished(posted, code) ==
  /\ queue' = posted \o FinishedCalls(code)
  /\ signalled' = "Yes"

(* A variant that reports no exception.                                    *)
StartOperationSilently(posted) ==
  /\ operation' \in {"Running", operation}
  /\ queue' = posted
  /\ UNCHANGED signalled

(* startOperation(): the host operation runs, or an exception is reported  *)
(* as its end.  It leaves operationV as it was, or with an operation that  *)
(* did not start.  An exception of the TFTP server or of the request for   *)
(* the initialisation file is only logged by initialise(): start() returns *)
(* as if the operation ran.                                                *)
StartUnlessException(posted) ==
  \/ /\ operation' \in {"Running", "Silent"}
     /\ queue' = posted
     /\ UNCHANGED signalled
  \/ /\ EmitFinished(posted, "OperationAbortedByDlp")
     /\ operation' \in {operation, "Ended"}

(* A download whose directory cannot be created reports its end and starts *)
(* all the same, which may fail in turn.                                   *)
StartWithoutDirectory(posted) ==
  \/ /\ EmitFinished(posted, "OperationAbortedByDlp")
     /\ operation' \in {"Running", "Silent"}
  \/ /\ EmitFinished(posted \o FinishedCalls("OperationAbortedByDlp"),
                     "OperationAbortedByDlp")
     /\ operation' \in {operation, "Ended"}

StartUpload(posted) == kind = "Upload" /\ StartUnlessException(posted)

StartInformation(posted) ==
  kind = "Information" /\ StartUnlessException(posted)

StartMediaDefined(posted) ==
  /\ kind = "MediaDefinedDownload"
  /\ StartUnlessException(posted) \/ StartWithoutDirectory(posted)

StartOperatorDefined(posted) ==
  /\ kind = "OperatorDefinedDownload"
  /\ StartUnlessException(posted) \/ StartWithoutDirectory(posted)

StartOperation(posted) ==
  \/ StartUpload(posted)
  \/ StartInformation(posted)
  \/ StartMediaDefined(posted)
  \/ StartOperatorDefined(posted)

(* A list is handed to the host operation, if there is one.  Encoding it   *)
(* may throw.                                                              *)
HandToOperation(posted) ==
  \/ /\ operation = "None"
     /\ queue' = posted
     /\ UNCHANGED <<handovers, signalled>>
  \/ /\ operation # "None"
     /\ handovers' = handovers + 1
     /\ queue' = posted
     /\ UNCHANGED signalled
  \/ /\ operation # "None"
     /\ EmitFinished(posted, "OperationAbortedByDlp")
     /\ UNCHANGED handovers

(* transmitLoads(): the upload keeps its loads whatever comes of the list. *)
TransmitLoads(posted) ==
  /\ kind = "Upload"
  /\ loads' = "Handed"
  /\ HandToOperation(posted)

(* transmitFiles() of the media defined and the operator defined download. *)
TransmitRequest(posted) ==
  /\ kind = "MediaDefinedDownload"
  /\ HandToOperation(posted)
  /\ UNCHANGED loads

TransmitAnswer(posted) ==
  /\ kind = "OperatorDefinedDownload"
  /\ HandToOperation(posted)
  /\ UNCHANGED loads

HandOver(posted) ==
  TransmitLoads(posted) \/ TransmitRequest(posted) \/ TransmitAnswer(posted)

-------------------------------------------------------------------------------
(* The pages.                                                              *)

ShowPage(p) ==
  /\ page' = p
  /\ connected' = connected \cup ({p} \cap ProtocolPages)

StartsOn(p) ==
  p = (IF kind = "OperatorDefinedDownload" THEN "SelectFiles" ELSE "Status")

AnswersOn(p) == kind = "OperatorDefinedDownload" /\ p = "Status"

(* What the wizard does on arriving at a page: initializePage of the       *)
(* status page, or pageChanged.                                            *)
Arrive(p, posted) ==
  \/ /\ StartsOn(p)
     /\ StartOperation(posted)
     /\ UNCHANGED handoverVars
  \/ /\ AnswersOn(p)
     /\ HandOver(posted)
     /\ UNCHANGED operation
  \/ /\ p = "Completed"
     /\ queue' = posted
     /\ UNCHANGED <<operation, signalled, handoverVars>>

NextPage ==
  [Settings |-> IF kind = "OperatorDefinedDownload"
                THEN "SelectFiles" ELSE "Status",
   SelectFiles |-> "Status", Status |-> "Completed"]

(* QWizard::next(), which does not ask isComplete() and does nothing on    *)
(* the last page.                                                          *)
GoNext(posted) ==
  \/ /\ page # "Completed"
     /\ ShowPage(NextPage[page])
     /\ Arrive(NextPage[page], posted)
  \/ /\ page = "Completed"
     /\ queue' = posted
     /\ UNCHANGED <<page, connected, operation, signalled, handoverVars>>

-------------------------------------------------------------------------------
(* The operator.                                                           *)

Open == page # "Closed"

(* The settings are complete and the operator commits.                     *)
Commit ==
  /\ page = "Settings"
  /\ GoNext(queue)
  /\ UNCHANGED <<kind, ioThread, transmitted, completed, pickVars,
                 transferVars, written, result, accepted, aborts, boundVars>>

(* A variant whose button is always enabled.                               *)
CommitFilesUngated ==
  /\ page = "SelectFiles"
  /\ GoNext(queue)
  /\ UNCHANGED <<kind, ioThread, transmitted, completed, pickVars,
                 transferVars, written, result, accepted, aborts, boundVars>>

(* The Commit button of the select files page.                             *)
CommitFiles ==
  /\ page = "SelectFiles"
  /\ commitButton = "Enabled"
  /\ GoNext(queue)
  /\ UNCHANGED <<kind, ioThread, transmitted, completed, pickVars,
                 transferVars, written, result, accepted, aborts, boundVars>>

(* The Next button of the status page.                                     *)
LeaveStatus ==
  /\ page = "Status"
  /\ completed = "Yes"
  /\ GoNext(queue)
  /\ UNCHANGED <<kind, ioThread, transmitted, completed, pickVars,
                 transferVars, written, result, accepted, aborts, boundVars>>

(* QWizard::back(): the settings and the select files pages are commit     *)
(* pages, so only the completed page has a Back button.  The status page   *)
(* is shown without initializePage; pageChanged runs.                      *)
GoBack ==
  /\ page = "Completed"
  /\ backs < MaxBacks
  /\ backs' = backs + 1
  /\ page' = "Status"
  /\ \/ /\ kind = "MediaDefinedDownload"
        /\ StartOperation(queue)
        /\ UNCHANGED handoverVars
     \/ /\ kind = "OperatorDefinedDownload"
        /\ HandOver(queue)
        /\ UNCHANGED operation
     \/ /\ kind \notin Downloads
        /\ UNCHANGED <<operation, queue, signalled, handoverVars>>
  /\ UNCHANGED <<kind, ioThread, connected, transmitted, completed, pickVars,
                 transferVars, written, result, accepted, aborts, statuses,
                 lists, requests, reports>>

(* updateSelectedFiles() of the page and of the wizard.                    *)
SelectRows ==
  /\ page = "SelectFiles"
  /\ listShown > 0
  /\ rowsSelected' = "Yes"
  /\ picked' = listShown
  /\ commitButton' = "Enabled"
  /\ UNCHANGED <<kind, ioThread, pageVars, operation, queue, transmitted,
                 listShown, transferVars, handoverVars, written, result,
                 accepted, signalled, aborts, boundVars>>

DeselectRows ==
  /\ page = "SelectFiles"
  /\ rowsSelected = "Yes"
  /\ rowsSelected' = "No"
  /\ picked' = 0
  /\ commitButton' = "Disabled"
  /\ UNCHANGED <<kind, ioThread, pageVars, operation, queue, transmitted,
                 listShown, transferVars, handoverVars, written, result,
                 accepted, signalled, aborts, boundVars>>

(* The Abort button: abortOperation() once for each page connected to it.  *)
ClickAbort ==
  /\ Open
  /\ connected # {}
  /\ operation # "None"
  /\ aborts' = "Yes"
  /\ UNCHANGED <<kind, ioThread, pageVars, operation, queue, transmitted,
                 pickVars, transferVars, handoverVars, written, result,
                 accepted, signalled, boundVars>>

(* The wizard is closed and deleted, the adapter and the operation with it. *)
Close ==
  /\ Open
  /\ page' = "Closed"
  /\ operation' = "None"
  /\ queue' = <<>>
  /\ transfers' = [f \in Files |-> 0]
  /\ record' = [f \in Files |-> "None"]
  /\ UNCHANGED <<kind, ioThread, transmitted, connected, completed, pickVars,
                 handoverVars, written, result, accepted, signalled, aborts,
                 boundVars>>

-------------------------------------------------------------------------------
(* The slots, called on the GUI thread in the order they were posted.      *)

Posted(slot) == queue # <<>> /\ Head(queue)[1] = slot

WizardFinished ==
  /\ Posted("WizardFinished")
  /\ GoNext(Tail(queue))
  /\ UNCHANGED <<kind, ioThread, transmitted, completed, pickVars,
                 transferVars, written, result, accepted, aborts, boundVars>>

SelectFilesFinished ==
  /\ Posted("SelectFilesFinished")
  /\ queue' = Tail(queue)
  /\ connected' = connected \ {"SelectFiles"}
  /\ commitButton' = IF rowsSelected = "Yes" THEN "Enabled" ELSE "Disabled"
  /\ UNCHANGED <<kind, ioThread, page, completed, operation, transmitted,
                 listShown, rowsSelected, picked, transferVars, handoverVars,
                 written, result, accepted, signalled, aborts, boundVars>>

(* A variant that leaves the Abort button connected.                       *)
StatusFinishedStillConnected ==
  /\ Posted("StatusFinished")
  /\ queue' = Tail(queue)
  /\ completed' = "Yes"
  /\ UNCHANGED <<kind, ioThread, page, connected, operation, transmitted,
                 pickVars, transferVars, handoverVars, written, result,
                 accepted, signalled, aborts, boundVars>>

StatusFinished ==
  /\ Posted("StatusFinished")
  /\ queue' = Tail(queue)
  /\ connected' = connected \ {"Status"}
  /\ completed' = "Yes"
  /\ UNCHANGED <<kind, ioThread, page, operation, transmitted, pickVars,
                 transferVars, handoverVars, written, result, accepted,
                 signalled, aborts, boundVars>>

CompletedFinished ==
  /\ Posted("CompletedFinished")
  /\ queue' = Tail(queue)
  /\ result' = Head(queue)[2]
  /\ UNCHANGED <<kind, ioThread, pageVars, operation, transmitted, pickVars,
                 transferVars, handoverVars, written, accepted, signalled,
                 aborts, boundVars>>

(* A variant that takes any status for the acceptance.                     *)
OperationStatusUnchecked ==
  /\ Posted("OperationStatus")
  /\ \/ /\ transmitted = "No"
        /\ HandOver(Tail(queue))
        /\ transmitted' = "Yes"
     \/ /\ transmitted # "No"
        /\ queue' = Tail(queue)
        /\ UNCHANGED <<transmitted, handoverVars, signalled>>
  /\ UNCHANGED <<kind, ioThread, pageVars, operation, pickVars, transferVars,
                 written, result, accepted, aborts, boundVars>>

(* operationStatus(): the first acceptance makes the wizard hand its list  *)
(* over.                                                                   *)
OperationStatus ==
  /\ Posted("OperationStatus")
  /\ \/ /\ Head(queue)[2] = "OperationAccepted"
        /\ transmitted = "No"
        /\ HandOver(Tail(queue))
        /\ transmitted' = "Yes"
     \/ /\ Head(queue)[2] # "OperationAccepted" \/ transmitted # "No"
        /\ queue' = Tail(queue)
        /\ UNCHANGED <<transmitted, handoverVars, signalled>>
  /\ UNCHANGED <<kind, ioThread, pageVars, operation, pickVars, transferVars,
                 written, result, accepted, aborts, boundVars>>

(* downloadingList(): the model is reset, which clears the selection and   *)
(* emits no selectionChanged.                                              *)
DownloadingList ==
  /\ Posted("DownloadingList")
  /\ queue' = Tail(queue)
  /\ listShown' = listShown + 1
  /\ rowsSelected' = "No"
  /\ UNCHANGED <<kind, ioThread, pageVars, operation, transmitted,
                 commitButton, picked, transferVars, handoverVars, written,
                 result, accepted, signalled, aborts, boundVars>>

Slot ==
  \/ WizardFinished
  \/ SelectFilesFinished
  \/ StatusFinished
  \/ CompletedFinished
  \/ OperationStatus
  \/ DownloadingList

-------------------------------------------------------------------------------
(* The I/O thread: OperationHandler, called by the host operation, until   *)
(* an exception ends the thread.                                           *)

(* status(): the other kinds only draw it.                                 *)
HostStatus(code) ==
  /\ ioThread = "Running"
  /\ operation # "None"
  /\ kind \in ListOnAcceptance
  /\ statuses < MaxStatuses
  /\ statuses' = statuses + 1
  /\ queue' = Append(queue, <<"OperationStatus", code>>)
  /\ accepted' = IF code = "OperationAccepted" THEN "Yes" ELSE accepted
  /\ UNCHANGED <<kind, ioThread, pageVars, operation, transmitted, pickVars,
                 transferVars, handoverVars, written, result, signalled,
                 aborts, lists, requests, reports, backs>>

(* downloadingList()                                                       *)
HostList ==
  /\ ioThread = "Running"
  /\ operation # "None"
  /\ kind = "OperatorDefinedDownload"
  /\ lists < MaxLists
  /\ lists' = lists + 1
  /\ queue' = Append(queue, <<"DownloadingList", "">>)
  /\ UNCHANGED <<kind, ioThread, pageVars, operation, transmitted, pickVars,
                 transferVars, handoverVars, written, result, accepted,
                 signalled, aborts, statuses, requests, reports, backs>>

(* finished()                                                              *)
HostReports ==
  /\ ioThread = "Running"
  /\ operation # "None"
  /\ reports < MaxReports
  /\ reports' = reports + 1
  /\ operation' = "Ended"
  /\ UNCHANGED <<kind, ioThread, pageVars, transmitted, pickVars,
                 transferVars, handoverVars, result, accepted, aborts,
                 statuses, lists, requests, backs>>

UploadFinished(code) ==
  /\ kind = "Upload"
  /\ HostReports
  /\ EmitFinished(queue, code)
  /\ UNCHANGED written

InformationFinished(code) ==
  /\ kind = "Information"
  /\ HostReports
  /\ EmitFinished(queue, code)
  /\ UNCHANGED written

(* save() of the download information: that the file cannot be opened is   *)
(* only logged.                                                            *)
SaveInformation(code) == written' \in {written, written \cup {code}}

(* The information file is written first; an exception in it changes the   *)
(* code the GUI is told.                                                   *)
SaveAndReport(code) ==
  \/ SaveInformation(code) /\ EmitFinished(queue, code)
  \/ UNCHANGED written /\ EmitFinished(queue, "OperationAbortedByDlp")

MediaDefinedFinished(code) ==
  /\ kind = "MediaDefinedDownload"
  /\ HostReports
  /\ SaveAndReport(code)

OperatorDefinedFinished(code) ==
  /\ kind = "OperatorDefinedDownload"
  /\ HostReports
  /\ SaveAndReport(code)

HostFinished(code) ==
  \/ UploadFinished(code)
  \/ InformationFinished(code)
  \/ MediaDefinedFinished(code)
  \/ OperatorDefinedFinished(code)

-------------------------------------------------------------------------------
(* The transfers of data files, on the I/O thread.                         *)

(* fileRequest()                                                           *)
FileRequested ==
  /\ ioThread = "Running"
  /\ operation # "None"
  /\ requests < MaxRequests
  /\ requests' = requests + 1
  /\ UNCHANGED <<kind, pageVars, operation, queue, transmitted, pickVars,
                 handoverVars, written, result, accepted, signalled, aborts,
                 statuses, lists, reports, backs>>

TransferStarts(f) ==
  /\ FileRequested
  /\ transfers' = [transfers EXCEPT ![f] = @ + 1]
  /\ UNCHANGED ioThread

(* The stream file, the transfer or its start throws, and nothing below    *)
(* the I/O thread catches it.  A transfer that did not start never ends.   *)
RequestThrows ==
  /\ FileRequested
  /\ ioThread' = "Exited"
  /\ UNCHANGED transfers

(* fileStart() and fileFinished() of the download information.             *)
RecordStart(f) == record' = [record EXCEPT ![f] = "Started"]
RecordEnd(f, outcome) == record' = [record EXCEPT ![f] = outcome]

(* The upload serves the files of its loads and refuses the others.        *)
UploadFileRequest(f) ==
  /\ kind = "Upload"
  /\ loads = "Handed"
  /\ TransferStarts(f) \/ RequestThrows
  /\ UNCHANGED record

MediaDefinedFileRequest(f) ==
  /\ kind = "MediaDefinedDownload"
  /\ TransferStarts(f) \/ RequestThrows
  /\ RecordStart(f)

OperatorDefinedFileRequest(f) ==
  /\ kind = "OperatorDefinedDownload"
  /\ TransferStarts(f) \/ RequestThrows
  /\ RecordStart(f)

FileRequest(f) ==
  \/ UploadFileRequest(f)
  \/ MediaDefinedFileRequest(f)
  \/ OperatorDefinedFileRequest(f)

(* A variant whose transfer may report twice.                              *)
TransferEndsAgain(f) ==
  /\ ioThread = "Running"
  /\ transfers' = [transfers EXCEPT ![f] = @ - 1]
  /\ UNCHANGED <<kind, pageVars, operation, queue, transmitted, pickVars,
                 handoverVars, written, result, accepted, signalled, aborts,
                 boundVars>>

(* fileCompleted(): a transfer ends.                                       *)
TransferEnds(f) ==
  /\ ioThread = "Running"
  /\ transfers[f] > 0
  /\ transfers' = [transfers EXCEPT ![f] = @ - 1]
  /\ UNCHANGED <<kind, pageVars, operation, queue, transmitted, pickVars,
                 handoverVars, written, result, accepted, signalled, aborts,
                 boundVars>>

UploadFileCompleted(f) ==
  /\ kind = "Upload"
  /\ TransferEnds(f)
  /\ UNCHANGED <<record, ioThread>>

(* A variant that records no failure.                                      *)
RecordSuccess(f, outcome) ==
  /\ IF outcome = "Ok" THEN RecordEnd(f, outcome) ELSE UNCHANGED record
  /\ UNCHANGED ioThread

(* The outcome goes into the record, a success with the size of the file,  *)
(* which throws if the file is gone.                                       *)
RecordOutcome(f, outcome) ==
  \/ /\ RecordEnd(f, outcome)
     /\ UNCHANGED ioThread
  \/ /\ outcome = "Ok"
     /\ ioThread' = "Exited"
     /\ UNCHANGED record

MediaDefinedFileCompleted(f, outcome) ==
  /\ kind = "MediaDefinedDownload"
  /\ TransferEnds(f)
  /\ RecordOutcome(f, outcome)

OperatorDefinedFileCompleted(f, outcome) ==
  /\ kind = "OperatorDefinedDownload"
  /\ TransferEnds(f)
  /\ RecordOutcome(f, outcome)

FileCompleted(f, outcome) ==
  \/ UploadFileCompleted(f)
  \/ MediaDefinedFileCompleted(f, outcome)
  \/ OperatorDefinedFileCompleted(f, outcome)

-------------------------------------------------------------------------------
Next ==
  \/ Commit
  \/ CommitFiles
  \/ LeaveStatus
  \/ GoBack
  \/ SelectRows
  \/ DeselectRows
  \/ ClickAbort
  \/ Close
  \/ Slot
  \/ \E code \in StatusCodes : HostStatus(code)
  \/ HostList
  \/ \E code \in ReportCodes : HostFinished(code)
  \/ \E f \in Files : FileRequest(f)
  \/ \E f \in Files, outcome \in {"Ok", "Error"} : FileCompleted(f, outcome)

Spec == Init /\ [][Next]_vars

(* The event loop of the GUI thread calls every posted slot, and a host    *)
(* operation that was started reports its end (HostOperation:              *)
(* OperationEnds) while the I/O thread lives.                              *)
FairSpec ==
  /\ Spec
  /\ WF_vars(Slot)
  /\ WF_vars(operation = "Running"
             /\ \E code \in ReportCodes : HostFinished(code))

-------------------------------------------------------------------------------
(* Properties.                                                             *)

TypeOK ==
  /\ kind \in Kinds
  /\ ioThread \in {"Running", "Exited"}
  /\ page \in Pages \cup {"Closed"}
  /\ operation \in {"None", "Running", "Silent", "Ended"}
  /\ transmitted \in {"No", "Yes"}
  /\ connected \subseteq ProtocolPages
  /\ completed \in {"No", "Yes"}
  /\ listShown \in Nat
  /\ rowsSelected \in {"No", "Yes"}
  /\ commitButton \in {"Disabled", "Enabled"}
  /\ picked \in Nat
  /\ loads \in {"Empty", "Handed"}
  /\ transfers \in [Files -> Nat]
  /\ record \in [Files -> {"None", "Started", "Ok", "Error"}]
  /\ written \subseteq ReportCodes
  /\ result \in ReportCodes \cup {"None"}
  /\ accepted \in {"No", "Yes"}
  /\ handovers \in Nat
  /\ signalled \in {"No", "Yes"}
  /\ aborts \in {"No", "Yes"}
  /\ statuses \in Nat
  /\ lists \in Nat
  /\ requests \in Nat
  /\ reports \in Nat
  /\ backs \in Nat

(* While a page of the operation is shown, the Abort button works until    *)
(* the status page has been told of the end, and no longer: whichever page *)
(* the operation ends on, and however often its end is signalled.          *)
AbortUntilFinished ==
  page \in ProtocolPages => (connected # {} <=> completed = "No")

(* An upload and a media defined download hand their list over once at     *)
(* most, and only after the target reported its acceptance; no load is     *)
(* served before.  The acceptance is seen on the I/O thread, the list      *)
(* handed over on the GUI thread, the file requested on the I/O thread.    *)
ListFollowsAcceptance ==
  kind \in ListOnAcceptance =>
    /\ handovers <= 1
    /\ handovers > 0 => accepted = "Yes"
    /\ kind = "Upload" /\ (\E f \in Files : transfers[f] > 0)
         => accepted = "Yes"

(* A file the record of a download shows as started is still being         *)
(* received: every way a transfer ends is entered into the record, also    *)
(* when the target asked for the file again in the meantime.  Only an      *)
(* exception out of fileRequest() or fileCompleted() leaves a record open, *)
(* and with it the I/O thread.                                             *)
RecordsAreClosed ==
  ioThread = "Running" =>
    \A f \in Files : record[f] = "Started" => transfers[f] > 0

(* As long as no end was signalled, an answer names files of a list the    *)
(* target offered.                                                         *)
AnswerNamesFiles ==
  [][kind = "OperatorDefinedDownload" /\ signalled = "No"
     /\ handovers' > handovers => picked > 0]_vars

(* Once its operation is to start, a wizard gets to where the operator can *)
(* finish it: the completed page, or a status page that can be left.  No   *)
(* exception reported by the adapter and no repeated report leaves it      *)
(* stuck; only one that initialise() keeps to itself, or one that ends the *)
(* I/O thread.                                                             *)
WizardEnds ==
  page \in ProtocolPages ~>
    \/ page = "Completed" \/ completed = "Yes" \/ page = "Closed"
    \/ operation = "Silent" \/ ioThread = "Exited"
=============================================================================
