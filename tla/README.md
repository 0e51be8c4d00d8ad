# Verification of the ARINC 615A GUI tool suite

This directory holds TLA+ models of the ARINC 615A data loading protocol
implementation under `src/lib`, the TLC configurations that check them on small
instances, and TLAPS proofs of their main properties for every value of the
constants. `PROJECT.json` lists the runs, the lines of code behind every
definition, the hazards and the findings.

Run a check with `tlc -workers 2 -config <name>.cfg <MC module>.tla` and a proof
with `tlapm <name>Proofs.tla`.

## 1. Inventory

ARINC 615A loads software into airborne equipment. The **host** (data loader)
and the **target** (the equipment) talk over TFTP, and both are TFTP client and
TFTP server at once: the host reads the initialisation file and writes request
files as a client; status, list and data files come to it as a server. A
separate UDP protocol, **FIND**, discovers targets.

| Component | State | Operations | Interacts with |
|---|---|---|---|
| TFTP client operation (`tftp/clients/implementation/OperationImpl.cpp`, `ReadOperationImpl.cpp`, `WriteOperationImpl.cpp`) | current TFTP operation, wait timer, retry counter, last error | `request`, `gracefulAbort`, `abort`, destruction; callbacks `handleCompletion`, `handleWaitTimeout` | wraps the external TFTP library; owned by host and target operations and told its result by one completion handler |
| TFTP server (`tftp/servers/implementation`) | socket of the library's server | `start`, `stop`, `abortOperation`, `waitOperation`, `errorOperation`; request handler | hands requests to the operation that owns it |
| Host operation (`host/implementation`) | initialisation transfer, status and list transfers, request file, abort reason, DLP timer, `waitForFinalStatusV`, "sent" flags | `start`, `abort`, `terminate`, `loadList` / `request` / `answer`; callbacks of transfers, of the timer, of the server | its adapter (`OperationHandler`), TFTP client and server |
| Target operation (`target/implementation`) | status (mutex), status transmission timer, status and request transfers, host address | `start`, `accepted`, `inProgress`, `finished`, load and file status; callbacks | its application handler, target protocol, TFTP client and server |
| Target protocol (`target/implementation/ProtocolImpl.cpp`) | the running operation (a weak pointer) | request handler: new operation or dispatch to the running one | target operations |
| FIND client and server (`find`) | socket, timer, receive buffer | `start`, `abort`; `receiveHandler`, `timerHandler` | GUI adapter `FindQuery`; network |
| Protocol file codecs (`files`, `find/packets`, `tftp/ErrorMessage.cpp`, `tftp/Arinc615aOptions.cpp`) | none | encode, decode | every operation |
| Status information (`information`, `StatusCode.cpp`) | codes, counters, ratios, lists of loads and files | setters | target operation, codecs, GUI |
| GUI adapters (`arinc_615a_dla_qt/operations`) | current operation, media set or directories, data transfers | `startOperation`, `abortOperation`, `transmit...`; `OperationHandler` callbacks | host operations (from two threads), wizards (queued Qt signals) |
| GUI wizards, main window (`arinc_615a_dla_qt`) | wizard page, "transmitted" flags | pages, buttons | adapters |
| Qt models (`arinc_615a_qt`), configuration, application, build | view data, settings | presentation, load and store | - |

Threads: the Qt GUI thread calls `startOperation` and `abortOperation`; one I/O
thread (`DataLoaderMainWindow`) runs the `io_context` and with it every handler.
The library classes have no lock apart from the target's status mutex.

What is hard in this code is not a single function but that everything is a
callback. A handler that has been queued cannot be taken back by `cancel()` or
`expires_after()`; a transfer that is under way when its owner has finished
completes later; the operator's abort comes from another thread. `PROJECT.json`
lists these hazards one by one.

What makes each component correct:

- *TFTP client operation*: one activity at a time; exactly one result; WAIT
  answers do not use up retries; attempts are bounded; an abort is final.
- *Host operation*: never hangs on a silent target; success only if the target
  said so; no abort is sent twice, and none is lost but to one of the other
  thread; a finished operation serves nothing.
- *Target operation*: a status is always under way until the end was told or the
  encoder threw; the decision of the application stands and is reported; success
  is not made up.
- *Target protocol*: the initialisation creates the operation, its requests reach
  it.
- *Host and target together*: the operator is told of a success only if the
  application of the target decided on it.
- *FIND*: a query ends, then waits for nothing; the completed page holds the
  answers.
- *Codecs*: decoding inverts encoding within the field widths; a damaged file is
  refused or read as well formed; what was read can be passed on.
- *Adapters and wizards*: the list follows the acceptance, once; the record of a
  download is closed; the operator can leave after every end that is reported.

## 2. Plan

The order in which the parts were modelled: the core of the protocol first, then
the other end, then the composition, then what surrounds them.

1. `Transfer`, the abstract promise of a client transfer to its owner, and
   `TftpClientOperation`, which implements it.
2. `HostOperation`: the shared state machine and the four kinds of operation.
3. `TargetOperation`: the other end, with the application's thread beside the I/O
   thread.
4. `LoadAgreement`, the abstract promise of a load to the two people at its ends,
   and `DataLoading`, host, target and network composed, which implements it.
5. `FindQuery`: target discovery from the wizard page to the servers and back.
6. `ProtocolFiles` and `FileExchange`: every protocol file and the FIND packet,
   written, damaged and read.
7. `OperationWizard`: the four wizards with their adapters.
8. Proofs about 1 to 7.

All of it is done. What could follow: ratios and codes of single loads in the
status of an upload (`loadInProgress`, `loadsFinished`) and a target protocol that
creates a second operation while the first one runs.

Runs: one passing run per module and composition, and one for each of the
selected places where the code does something else than its documentation says.

## 3. The modules

| Module | Contents |
|---|---|
| `Transfer` | abstract specification: idle, active, done with one result, or dropped |
| `TftpClientOperation` | `OperationImpl` of the TFTP client with its read and write variants |
| `TftpClientOperationProofs` | its theorems |
| `MCTftpClientOperation` | values of its constants for TLC |
| `HostOperation` | `OperationImpl` of the host with the upload, information, media and operator defined download operations |
| `HostOperationProofs` | its theorems |
| `MCHostOperation` | the status codes for TLC |
| `TargetOperation`, `TargetOperationProofs`, `MCTargetOperation` | `OperationImpl` of the target with its four kinds; theorems; values |
| `LoadAgreement` | abstract specification: what was decided at the target and told at the host |
| `DataLoading`, `DataLoadingProofs`, `MCDataLoading` | composition of one host and one target operation over unreliable transfers; theorem of refinement; values |
| `DataLoadingEndsProofs` | theorems: each end of the composition implements the module of that end |
| `FindQuery`, `FindQueryProofs`, `MCFindQuery` | FIND wizard, adapter, query and servers over a datagram network; theorems; values |
| `ProtocolFiles` | encoders as operators that give sequences of bytes, decoders as functions of them |
| `FileExchange`, `FileExchangeProofs`, `MCFileExchange` | writer, damage, reader; theorems; contents for TLC |
| `OperationWizard`, `OperationWizardProofs`, `MCOperationWizard` | operation wizards and adapters between GUI thread and I/O thread; theorems; values |

### TftpClientOperation

`tftpOperation` is `operationV` (none, running, or told to abort), `waitTimer`
is `waitTimerV` including the interval between the expiry or the cancellation of
a wait and the run of its handler, `retries` is `retriesV` with its width
(`CounterModulus`), `owner` is the life of the object. `result`, `completions`,
`attempts`, `waits` and `abortRequest` are history.

Each way `handleCompletion` and `handleWaitTimeout` return is an action:
`CompleteSuccessful`, `CompleteAborted`, `CompleteByAbortMessage`, `Defer`,
`Retry`, `WaitFails`, `WaitOver`. The TFTP library behind it is external and
chooses freely among the outcomes that the code tells apart (`RemoteOutcomes`:
success, ABORT messages with each code, WAIT with a valid or an undecodable
time, any other failure). `HandleAbort` is `handleAbortV`.
`WaitHandlerAfterDestruction` is the handler that runs on a released object:
undefined behaviour, modelled as a choice between the report the old handler
would make and no effect.

### HostOperation

One module stands for the four kinds, because the base class and three of the
four status file handlers are the same code; `kind` selects what differs: which
request file is sent and when, whether list files are served, whether the list
ends the operation.

`dlpTimer` is a pending wait of `timerV`; `expiries` counts the waits that have
elapsed and whose `timerHandler` is queued. `statusFiles` is the number of
transfers in `statusFileOperationsV`. `listFile` is `listFileOperationV`, and
`droppedLists` counts list transfers that are under way although that handle
has been overwritten or reset. `initialisation`, `requestFile`, `abortReason`,
`tftpServer`, `waitForFinalStatus` are the members of these names.
`finishedCalls` is the sequence of codes handed to `OperationHandler::finished`.
The rest is history and counts against the bounds.

`Finished` and `TriggerDlpTimeout` are services of the base class; every handler
is an action, or one action per way it ends, that includes all services it calls.
The exceptions are `doAbort()` and `isAborted()`, which read and write
`abortReasonV` on two threads without a lock. `guiThread` and `ioThread` say where
in them a thread is: the operator's abort tests the reason (`Abort`) and sets it
in a step of its own (`OperatorAbortRecorded`); so does the abort behind a failed
list or request file on the I/O thread (`TestAbort` at the end of that handler,
then `ProtocolAbortRecorded`); and a status request is answered with the ABORT
message (`DeliverAbort`) before the reason is reset and the watchdog re-armed
(`AbortDelivered`). The I/O thread runs its next handler when it is through
(`IoIdle`); the GUI thread may come in anywhere. A received file is reduced to what the code decides by:
it arrives or not, it can be decoded or not, and its status code, drawn from
`StatusCodes` (also a code the host does not know).

What a kind takes from the target is its `tftpRequest` (`UploadTftpRequest`,
`InformationTftpRequest`, `MediaDefinedTftpRequest`, `OperatorDefinedTftpRequest`),
and the transfers it starts end in the kind's own handlers (`TransferCompleted`):
the two downloads share the status file handler, only an information and an
operator defined operation have one for a list.

The request file is sent by the wizards: `LoadList` and `Request` on the first
decoded status file with `OperationAccepted`, `Answer` when the status page of
the operator defined download opens, which happens when the operator has
selected files and also when the operation ends, because `operationFinished`
calls `next()`.

### TargetOperation

Again one module for four kinds. `code` is `statusV.code()`, `statusTimer` and
`expiries` are `statusTransmissionTimerV` as above. The application may run on a
thread of its own, which `statusMutex` concedes; `activity` says for each thread
where in `statusFile()` it is, because the function releases the mutex between
encoding the status (`EncodeStatusFile`) and copying it for the completion
handler (`SendStatusFile`): the code in the file and the code evaluated when it
was transmitted may differ. `statusTransfer` records both, and whether the host
has the whole file (`HostReceivesStatusFile`) although the target does not know
yet; a new status file overwrites the handle and so destroys the transfer under
way. `decision` is what the application gave to `finished()`, `reports` what its
handler was told, `delivered` the final codes the host received.

`description` and `loadTexts` say whether the texts of the status, and those of
its loads or files (`LoadStatus`), fit into their fields: `String_encode` throws
for 254 characters and more. Then `statusFile()` is left before it sends a file
or arms the timer (`EncodeStatusFileThrows`), and nothing catches the exception:
not `statusTransmissionTimerHandler()` and not the other handlers, so it leaves
`io_context::run()` (`ioException`). Whether the owner of the context calls `run()`
again is not in this repository; both are allowed (`"Idle"`, `"Exited"`).

The application is taken at its word: after `finished()` it calls nothing
(`ApplicationCalls`), which the documentation demands of it.

### DataLoading

`Host` and `Target` are instances of the two modules; their transfers are joined
by `peer`, what the status transfer of the target has at the host. A transfer
has two halves that end on their own: the host evaluates a file when it has all
of it (`StatusFileReceived`), the target goes on when it hears of it
(`StatusFileAcknowledged`) or does not (`StatusFileUnanswered`). A request may
arrive twice, so that the host serves a transfer without a peer, an ABORT message
may be lost, and the host's half may fail (`Fault`). A status file that the
target's timer replaces leaves the host with a transfer that is alone
(`StatusFileAloneFails`). Uploads and media defined downloads differ here only
in the name of the file the host writes.

`LoadAgreement` promises one direction only: no success is told that was not
decided. The reverse cannot be promised, because the last acknowledgement may be
lost, and because `finished()` between the two steps of `statusFile()` lets the
target take a transmitted progress status for the final one.

### FindQuery

One wizard, one query object, a set of targets with their servers. `socket`,
`timer` and `receive` are the members of `QueryImpl`; the receive operation and
the timer have a state for "handler queued", which `close()` and `cancel()` do
not take back. `signals` is the queue from the I/O thread to the GUI thread,
`network` the datagrams in flight: any may be lost, kept or overtaken.
`io = "ExitedByException"` is the thread that a throwing handler leaves,
`io = "Crashed"` one outcome of a handler that runs on a deleted query.

### ProtocolFiles and FileExchange

A file is a sequence of bytes, its content the tuple of its fields. Writing is
concatenation. What reads a field (`NumberField`, `TextField`, `RatioField`, ...)
is a function on `Bytes`: it gives the value and what is left behind it, or the
refusal that is an exception in the code. `InOrder` reads fields one behind the
other as `decode()` does, an exception in one leaving the rest unread, and
`ListOf` a count and as many entries; each file is one line of fields in the
order of its `decode()` (`UploadStatusFields`, ...). `Decode` adds the checks
around them: `MinimumSize`, length and version in the header, data left over.
`FileExchange` writes a content in either protocol version, lets it be cut,
extended or altered, with or without a length field that fits, and reads it into
a new object or assigns it to a used one. `Files` is what the classes can hold,
which is what `Contents` is drawn from.

### OperationWizard

The GUI thread and the I/O thread. Signals are connected with
`Qt::QueuedConnection`: `queue` holds posted slot calls, and `Slot` runs the
first, between two actions of the operator. `page`, `completed`, `connected` and
`commitButton` are what the pages keep; `transmitted` is `loadListTransmitted`
and `fileListTransmitted`; `loads`, `transfers`, `record` are the adapter's
`loadsV`, `fileOperationsV` and the download information. The host operation
appears as what it calls: `HostStatus`, `HostList`, `HostFinished`,
`FileRequest`, `FileCompleted`, as often and in whatever order `HostOperation`
allows, repeated ends included. Each of these, `StartOperation` and `HandOver`
has one operator for each adapter, because the adapters differ: the downloads
create a directory first and go on when that fails, write an information file
at the end and keep a record of every file; the upload keeps its loads even when
the list could not be sent; the select files page of the operator defined
download is one more that is told of the end (`OperatorDefinedSlots`). The
constructor that throws and the `start()` that throws differ in what they leave
behind (`StartUnlessException`): the second leaves an operation that can be
aborted and given a list, and reports nothing. An exception that `initialise()`
logs is neither: `start()` returns, and the operation is `"Silent"`, it does not
run and nobody is told.

`fileRequest()` enters the file into the record of a download before it opens
the stream and creates and starts the transfer, and `fileCompleted()` asks for the
size of the file after it removed the transfer. What throws there
(`RequestThrows`, `RecordOutcome`) leaves `ioContext.run()`: `ioThread` is
`"Exited"` and no handler runs any more. Neither the host operation nor the TFTP
server catches it; the thread function shows a message and ends the application
(`DataLoaderMainWindow.cpp:190-216`).

## 4. Runs

| Run | Shows | Bounds |
|---|---|---|
| `tftp_client` | the properties of the client operation, under fairness | 2 retries, 2 WAIT answers, 8 values of the counter |
| `tftp_abort_race` | an abort after the expiry of a wait is lost | as `tftp_client` |
| `tftp_destroy` | the owner is called by a destroyed operation | as `tftp_client` |
| `host` | the properties of the host operation, under fairness | 2 status requests, 2 list requests, 1 terminate; until the third report |
| `host_finished_once` | the end is reported twice | 2 status, 2 list requests |
| `target` | the properties of the target operation, under fairness | 1 queued expiry, 1 abort, 2 request files; until the encoder has thrown on the I/O thread |
| `target_finish_lost` | an information operation finished during its first status file never ends | the same |
| `data_loading` | host and target composed implement `LoadAgreement` | 2 status requests at the host, 1 load list, 1 queued expiry at the target, 1 fault, 1 abort or 1 DLP timeout; until the operator is told |
| `find` | the properties of FIND, under fairness | 2 targets, 2 aborts, 1 kept datagram, 1 other reception |
| `find_io_thread` | an abort between expiry and handler ends the I/O thread | the same |
| `files` | what is written is read, what is damaged is not misread | 2 files, 1 damage, the contents of `MCFileExchange` |
| `gui` | the properties of wizards and adapters, under fairness | 1 file, 2 status files, lists and requests, 1 report besides those of the adapter, 1 Back |

**`tftp_client`.** `SingleActivity`: the TFTP operation and the wait timer never
both drive an operation, it is never forgotten and never completed twice.
`RetryBudget`: attempts are bounded and a communication error means that all of
them were made. `AbortedTransferNotReissued`: no attempt follows an abort that
found something to cancel. `TransferImplemented`: the refinement of `Transfer`,
including that a requested transfer ends.

**`host`.** `WatchdogCoversOperation`: an accepted operation without a report has
a pending watchdog or an unhandled expiry. `NoFalseSuccess`: `OperationCompleted`
is reported only for a reason. `AbortAccounted`: however the unlocked steps of the
two threads interleave, no abort is sent twice, and the aborts of one thread are
all sent or pending; two aborts may share one ABORT message only if one is of the
GUI thread and one of the I/O thread. `FinalStatusDecides`: once a progress status was decoded, only
the target's own completion is reported as success. `FinishedTakesNoRequests`:
no request is served after the first report. `OperationEnds`: an initialised
operation always reports an end, whatever the target does or stops doing.

**`target`.** `StatusReportingGoesOn`: an initialised operation that told no end
has a status timer, an expiry or a status file in the making, so that the
watchdog of the host is fed, unless an exception of the encoder left the I/O
thread. `NoFalseSuccess`, `DecisionStands`: success comes
from the application or a transmitted list, and no late completion puts a decided
operation back into progress; `EndReported`: a decision of the application and an
abort of the host are followed by a report, unless that exception comes or the
timer overtakes the transfers for ever. The information operation is excepted from
the last two, because `target_finish_lost` refutes them for it.

**`data_loading`.** `AgreementImplemented`: every step of the composition is a
step of `LoadAgreement` or changes nothing the two people see.

**`find`.** `QuietAfterCompletion`: neither timer nor receive operation is pending
after the completion. `CompletePageHasAnswers`: every answer handled before the
completion is in the table before the page can be finished. `QueryEnds`: a
started query ends.

**`files`.** `AcceptedIsWellFormed`: codes, ratios, numbers and strings of
whatever was accepted are in range. `ReadAsWritten`: an intact file is read as
written; the exceptions (`Unreadable`, and the lists that are extended by an
assignment) are spelled out. `LengthsAreGuarded`: no cut or extended file is
accepted, even with a length field that fits. `AcceptedIsPreserved`: what was
read is written and read again as the same.

**`gui`.** `AbortUntilFinished`: the Abort button is connected exactly until the
status page was told of the end. `ListFollowsAcceptance`: loads and download
requests are handed over once, after the acceptance. `RecordsAreClosed`: a
started file in the record has a transfer while the I/O thread lives.
`AnswerNamesFiles`: before the end an answer names files of an offered list.
`WizardEnds`: once an operation is to start, the operator gets to a page that can
be left, also when the start fails, unless `initialise()` keeps its exception to
itself or the I/O thread has ended. In both cases the wizard does stay on its
page.

**Why the bounds are enough.** The host operation remembers of its past files
only flags (`waitForFinalStatusV`, the abort reason, the list handle), so two
overlapping transfers of a kind show every order of a pair of events: a final
before a progress status, a retry of the list while the first is under way, an
expiry before and after a status file, an abort before, between and after. The
bound on status requests also bounds how often the watchdog is re-armed, which
`OperationEnds` needs: a target that sends progress status files for ever keeps
an operation alive for ever, in the model as in the code. The run follows a host
operation up to its third report (`ReportedAtMostTwice`): `OperationEnds` is
decided by the first, `FinishedTakesNoRequests` says what the next ones may do,
and the theorems have no such bound. For the client
operation two retries and two WAIT answers give every order of retry, wait,
abort and destruction. The target holds one status transfer, one list and one
request file; two request files make a replaced one. Its run goes no further once the
encoder has thrown on the I/O thread (`EncoderHasNotThrown`): `EndReported` is
then fulfilled, and that the invariants hold afterwards is proved. In `data_loading` two
status requests are an accepted or progress status and a final one, and one fault
comes at any moment; once the operator was told, only each end's own business is
left, and the run stops there (`OperatorNotTold`). Nor does it follow an abort and
an elapsed DLP timeout, or two aborts, together (`OneDisturbance`): they meet in
`host`, and `DataLoadingProofs` has no such bound. The application decides on
success only, failures are those the target reports by itself, and the encoder
does not throw, which is the matter of `target` and of the proofs. Two targets let answers
overtake each other. Files are checked at the ends of every field: empty, short,
longest and too long strings, lists of zero to two, smallest and largest numbers.
In `gui` one file, requested twice, gives overlapping transfers; one call of
`finished()` suffices to have it twice, because the adapter reports an end of its
own when a directory cannot be created. The theorems replace the bounds
altogether for safety.

`CHECK_DEADLOCK FALSE` is set because operations, queries and wizards stop at
their end.

**Fairness.** The I/O thread runs every queued handler (`TimerHandler`,
`HandleWaitTimeout`, `StatusTransmissionTimerHandler`), a timer elapses
(`DlpTimerExpires`, `WaitElapses`, `StatusTimerExpires`, `TimerExpires`), a thread
inside `statusFile()` goes on, the event loop of the GUI runs posted calls
(`Slot`), and a TFTP operation ends by itself because the library has its own
timeouts and retries (`HandleCompletion`). For the host, that a requested
transfer ends (`InitialisationFileCompleted`) is what `TransferImplemented` shows
of the client operation; its assumption that WAIT answers are finite is
inherited. For the target, a status file that is left alone ends, by the same
argument (`StatusFileCompleted`), and no more: every expiry of the status timer
overwrites the transfer under way (`UploadOperationImpl.cpp:313`), the status rate
has no default (`OperationConfiguration.hpp:38`), and a host that is silent lets a
transfer fail only after all timeouts and retries, which may take longer. With a
short rate the overtaking never ends, and neither decision nor abort is reported.
So `EndReported` and `FinishedCompletes` have a hypothesis, `TransfersEndInTime`:
from some time on no transfer under way is overwritten. After an abort the
application of the target finishes, as its interface demands. In `gui` a running
host operation reports its end while the I/O thread lives, which is
`OperationEnds` of `HostOperation`; one whose start was swallowed (`StartFailed`
there, `"Silent"` here) is not assumed to. Nothing is assumed of the operator,
the network or the peer. `data_loading` checks safety only.

## 5. Proofs

All proofs assume only the named assumptions of the modules (the constants are
numbers of the right kind, the decisions are final statuses, the kinds composed
are loads, the contents are what the classes of the files can hold) and hold for
every bound, retry limit, counter width, set of status codes, decisions, targets,
files, contents and bytes. Two theorems have a hypothesis besides
(`RetriesCorrect`, `LengthsGuard`).

`TftpClientOperationProofs`: `TypeCorrect`; `ActivityCorrect`, whose property is
inductive by itself; `RetriesCorrect`, under `CounterWideEnough` (the limit is
below the largest counter value), from an invariant that counts attempts while
the operation runs, while it waits and after its report (`AccountingStep`);
`AbortCorrect`; `PromiseKept`, the safety part of the refinement.

`HostOperationProofs`: the inductive invariant is
`IInv == TypeOK /\ Dormant /\ StoppedWhenFinished /\ AnnouncementKept /\
WatchdogCoversOperation /\ NoFalseSuccess`. The last two are wanted; the others
make them inductive. `Dormant` says that nothing has happened before `start()`
and `StoppedWhenFinished` that the server is stopped after a report, without
which a request could be served by an operation that has not started or has
ended (`FinishedTakesNoRequests`). `AnnouncementKept` ties `waitForFinalStatusV`
to the decoded status codes, without which a list could be taken for the end
after the announcement of a final status (`FinalStatusDecides`). The lemmas
treat each action by its effect on the reports (`ReportStep`), on the history
(`MemoryStep`), on the announcement (`AnnouncementStep`) and on the aborts
(`AbortStep`); the theorems follow from them. `AbortAccounted` is not inductive:
`AbortsInHand` adds that a thread which saw no reason and is about to overwrite
one has an ABORT message in hand for what it will record, because its own aborts
so far are fewer than the messages, and that a reason that is about to be reset
is one that was sent (`AbortSentOnce`).

`TargetOperationProofs`: `NoFalseSuccess` is not inductive, because a success is
in `code`, in a thread inside `statusFile()` or in a transfer before anyone is
told. `SuccessOnlyIfJustified` says it of all these places (`SuccessSeen`);
`IInv` adds the type, `StatusReportingGoesOn` and `DecisionStands`, which are
inductive with it. The texts are any that are `"Fits"` or `"TooLong"`, so the
theorems hold with and without the encoder's exception, also in the composition.

`DataLoadingProofs`: `AgreementHolds`, that the composition implements
`LoadAgreement`. The invariant `LInv` follows the success through the target from
the application to the status file (`SuccessOnItsWay`): nowhere before the
decision. Every step is one of three kinds, a step of the host that leaves the
target as it is (`HostStep`), a step of the target that puts no success on its
way (`TargetStep`), or the evaluation of a status file (`StatusFileReceivedAgrees`);
`TellingAgrees` turns what the host reports into a step of `LoadAgreement` or a
stutter.

`FindQueryProofs`: besides the type, that nothing waits on a closed socket, that
a query completes only by closing its socket or by not starting, and that the
response of an answered target is in the table or in the queue ahead of
`Finished`. From these follow `QuietAfterCompletion` and
`CompletePageHasAnswers`.

`DataLoadingEndsProofs`: the composition restricts what an end may do and adds
what the network does to it, and either could make it something else than the
module of that end, whose theorems would then say nothing of it. `TargetImplemented`
and `HostImplemented` show that every step is a step of the end or leaves it
alone. Steps of `DataLoading` move the target on the I/O thread only, so what its
application has under way must be known: the kinds composed never send a status
file from the thread of the application (`ApplicationIdle`). `TargetPromisesKept`
and `HostPromisesKept` carry the theorems of `TargetOperationProofs` and
`HostOperationProofs` over by instantiating them, without a new proof.
`LoadingTypeCorrect` follows with `Network`: a transfer the target waits for is
one of those the host counts.

`OperationWizardProofs`: a posted call is genuine if what it tells has happened
(`Genuine`), and only genuine calls are ever queued (`QueueIsGenuine`), however
slots and handlers interleave; what was genuine stays so (`GenuineGrows`). With
it, that an end on a page was signalled (`EndIsSignalled`), that Commit needs
picked files (`CommitNeedsPick`) and that the list is handed over behind the
flag, and the flag set behind the report (`HandedOverOnce`), are inductive.
`AbortButton` (`AbortUntilFinished`) needs besides the order in which the pages are
told of the end: the wizard, which leaves the select files page and so connects
the button for the status page, then the page that was left, then the status page.
`Ahead` says that a call is queued only behind another one, `EndsInOrder` which
ones, and `Connections` which pages the button is connected to.

`FileExchangeProofs`: the codecs, for every content, every sequence of bytes and
every version. Induction over data is out of reach only through the library's
theorems with an operator parameter; `Induct` states it for a set of numbers and
is derived from `WFMin`, and the lemmas on lists use it on the length. What reads a
field is characterised by three predicates: `Local` (what it reads does not
depend on what follows, and the rest it leaves is a suffix), `Yields` (the set of
what it gives) and `Reads` (it reads what was written as what it stood for). They
are shown once for each field, pass to records and to lists, and so reach every
kind of file (`RoundTrip`, `DecodeYields`, `FilesYield`). The inductive invariant
`ExchangeInv` says that bytes without damage are the encoding of the content, and
that whatever the object holds is of its kind with strings as they can be read
(`HeldIsReadable`), which an assignment that extends a list needs of the file
before. From it follow `WrittenIsRead`, `AcceptedFits` and `AcceptedIsKept`.

`LengthsGuard` rests on `FilesGuard`: of two files of which one begins with the
other behind the header, at most one is accepted, because the accepted fields are
the same and something is left over. It has two hypotheses, and without either
the property is false. `MaxDamages <= 1`: a second damage can undo the first, and
a file that was extended and cut again is the one that was written. And no
parameter of a FIND packet begins with the byte that terminates a packet (16, a
control character, which `Packet` does not refuse): cut in front of it, the packet
is a shorter one that is well formed, because a FIND packet has no length field. The
run satisfies both.

Every invariant and every action property of the passing runs is proved, as
listed under "theorems" in `PROJECT.json`. Only model-checked are the liveness
properties (`OperationEnds`, `EndReported`, `QueryEnds`, `WizardEnds`, the liveness part of `TransferImplemented`), which are out of the
prover's reach.

## 6. Where the code and its documentation differ

Shown by runs:

- `abort()` "immediately" aborts nothing between the expiry of a wait and its
  handler (`tftp_abort_race`).
- The wait handler of a destroyed client operation still runs (`tftp_destroy`).
- `finished()` sets no finished flag; the end may be reported repeatedly
  (`host_finished_once`).
- `finished()` of a target's information operation is overwritten by the
  completion of the first status file (`target_finish_lost`).
- A FIND query that is aborted between expiry and handler throws on the I/O
  thread, which ends the application (`find_io_thread`).

Met while modelling, without a run:

- The 16 bit retry counter wraps if 65535 retries are configured: the condition
  `CounterWideEnough` of the theorem `RetriesCorrect` excludes it.
- A status file does not take back an expiry of the watchdog that is queued,
  although `docs/PROTOCOL-CORE.md:86` says that re-arming resets it.
- Initialisation is not a gate for what the server receives, although
  `docs/PROTOCOL-CORE.md:40` says so: status and list files are served before.
- An ABORT message is sent once and its reason reset: if it is lost, the abort is
  (`docs/PROTOCOL-CORE.md:98` says that it is delivered exactly once).
- Neither is the delivery exactly once of two aborts that race: the operator's,
  tested before and set after one of the I/O thread was set, or even sent, replaces
  it or is erased by its reset. `AbortAccounted` therefore promises no more than
  that only aborts of different threads share a message.
- The end of a target operation may never be reported, if the status rate is
  shorter than a transfer takes to fail, or if a text of its status is too long to
  be encoded (see `TransfersEndInTime` and `EncodeStatusFileThrows`).
- An initialisation that throws is only logged: the wizard waits on its status
  page and is not told (`OperationImpl.cpp:288`).
- The target may report `OperationCompleted` after a file that said
  `OperationInProgress` (see `DataLoading`).
- Back on the completed page is possible although `docs/CODE-TRACE.md:252` says
  that the wizard cannot go back after Commit; it starts a media defined download
  again, with the flags of the first.
- An information operation answers a request to read a status or list file with
  an error and then serves it as one to write the file
  (`InformationOperationImpl.cpp:104` lacks a `return`); `InformationTftpRequest`
  is both.
- The end of a download is signalled also when its information file could not be
  written, which is only logged (`DownloadInformation.cpp:115`).

## 7. Not modelled

- The TFTP library, Boost.Asio and Qt are external; they appear as the choices
  of `RemoteOutcomes`, `WaitElapses`, `DlpTimerExpires`, `DroppedListVanishes`,
  `DroppedRequestVanishes`, `Fault` and `Slot`.
- `terminate()` is modelled, although no code of the repository calls it.
- `initialisationOperationV`, which the I/O thread resets when the transfer ends
  while the GUI thread in `doAbort()` or `doTerminate()` may just use it. The
  abort and the end of the transfer happen one after the other in the model.
- The text of error messages, options, protocol filenames and target
  identifications, and the mode check of the TFTP server: stateless formatting.
- Ratios, codes and descriptions of single loads and files in a status, but for
  their texts being too long.
- Exceptions of the GUI adapters that are no `boost::exception` (of
  `std::filesystem`, of memory): `startOperation()` and `finished()` do not catch
  them. What the application does after its I/O thread has ended: the message box
  and the exit.
- A second target operation created by a repeated initialisation request, and
  starting and stopping the target protocol.
- The loop of the FIND server on a persistent receive error: it ends nothing and
  changes no state, it only keeps the thread busy.
- An object whose assignment threw half way (`operator=` of a protocol file): the
  callers give it up. The protocol version an object keeps.
- Callbacks of a host operation after its wizard was closed and deleted: the use
  of released memory that `tftp_destroy` and `find` show for their classes.
- What pages draw, the selection of loads and media sets, the main window beyond
  starting the wizards, settings, Qt item models, application and build: no
  protocol logic.
- `loadsV` of the upload adapter is written by the GUI thread and read by the I/O
  thread; it is one step in `OperationWizard`.

The map covers about a sixth of the implementation's lines. About half of the
lines counted are headers (declarations and their comments) and most of the rest is
Qt presentation, persistence and the wording of logs and messages; the state and
control of the protocol are in the modules above.
