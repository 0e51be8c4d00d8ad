----------------------------- MODULE FindQuery -----------------------------
(***************************************************************************)
(* A FIND query from the wizard page to the targets and back               *)
(* (src/lib/arinc_615a/find, arinc_615a_dla_qt/operations/FindQuery and    *)
(* arinc_615a_dla_qt/find).                                                *)
(*                                                                         *)
(* The GUI thread starts and aborts the query; its handlers run on the I/O *)
(* thread and tell the wizard by queued signals.  Requests and answers are *)
(* datagrams: they are lost, delayed, duplicated and reordered.  cancel()  *)
(* and close() complete a pending wait or receive operation with           *)
(* operation_aborted, on which the handlers return, but take back no       *)
(* handler that is queued already.                                         *)
(***************************************************************************)
EXTENDS Integers, Sequences

CONSTANTS
  Targets,          \* the targets a broadcast request reaches
  MaxAborts,        \* bound: clicks on "Abort Operation"
  MaxDuplicates,    \* bound: datagrams delivered and kept in flight
  MaxOther          \* bound: other receptions: errors, unexpected packets

ASSUME FindBoundsAssumption ==
  MaxAborts \in Nat /\ MaxDuplicates \in Nat /\ MaxOther \in Nat

(* What an asynchronous receive operation is doing: nothing, waiting, or   *)
(* its handler queued with a packet of interest, one to ignore, or an      *)
(* error.                                                                  *)
ReceiveStates == {"None", "Pending", "Packet", "Ignored", "Failed"}

Queued == {"Packet", "Ignored", "Failed"}

Datagrams == [type : {"Request", "Answer"}, target : Targets]

Finished == [type |-> "Finished"]

Response(t) == [type |-> "Response", target |-> t]

Signals == {Finished} \cup {Response(t) : t \in Targets}

VARIABLES
  page,           \* the wizard: "Select", "Querying", "Complete", "Closed"
  results,        \* rows of the targets information model
  signals,        \* signals queued from the adapter to the wizard
  socket,         \* socketV of the query
  timer,          \* timerV: "Idle", "Armed", or "Expired": handler queued
  receive,        \* the receive operation on socketV
  sender,         \* the target whose answer is in rawReceivePacketV
  io,             \* the thread in ioContext.run()
  network,        \* datagrams in flight
  serverSocket,   \* per target: socketV of its FIND server
  serverReceive,  \* per target: the receive operation of its server
  completions,    \* history: "None" or "Some" calls of completionHandlerV
  answered,       \* history: targets reported before the first of them
  aborts,         \* counts against the bounds
  duplicates,
  others

queryVars == <<socket, timer, receive, sender>>
guiVars == <<page, results>>
serverVars == <<serverSocket, serverReceive>>
boundVars == <<aborts, duplicates, others>>

vars == <<guiVars, signals, queryVars, io, network, serverVars, completions,
          answered, boundVars>>

Init ==
  /\ page = "Select"
  /\ results = {}
  /\ signals = <<>>
  /\ socket = "Closed"
  /\ timer = "Idle"
  /\ receive = "None"
  /\ sender \in Targets
  /\ io = "Running"
  /\ network = {}
  /\ serverSocket = [t \in Targets |-> "Closed"]
  /\ serverReceive = [t \in Targets |-> "None"]
  /\ completions = "None"
  /\ answered = {}
  /\ aborts = 0
  /\ duplicates = 0
  /\ others = 0

-------------------------------------------------------------------------------
(* completionHandlerV, the adapter's finished(): n signals are queued.     *)
Complete(n) ==
  /\ completions' = "Some"
  /\ signals' = signals \o [i \in 1 .. n |-> Finished]

(* A variant whose handlers do not know operation_aborted.                 *)
CloseSocketUnnoticed ==
  /\ socket = "Open"
  /\ socket' = "Closed"
  /\ receive' = IF receive = "Pending" THEN "Aborted" ELSE receive

(* cancel() and close() on an open socket, from any thread.                *)
CloseSocket ==
  /\ socket = "Open"
  /\ socket' = "Closed"
  /\ receive' = IF receive = "Pending" THEN "None" ELSE receive

(* receive(): on a closed socket it fails at once with bad_descriptor.     *)
Receive == receive' = IF socket = "Open" THEN "Pending" ELSE "Failed"

-------------------------------------------------------------------------------
(* The wizard and the adapter, on the GUI thread.                          *)

(* FindQueryResultsPage::initializePage(), FindQuery::startQuery() and     *)
(* QueryImpl::start()                                                      *)
StartQuery ==
  /\ page = "Select"
  /\ page' = "Querying"
  /\ socket' = "Open"
  /\ network' = network \cup [type : {"Request"}, target : Targets]
  /\ receive' = "Pending"
  /\ timer' = "Armed"
  /\ UNCHANGED <<results, signals, sender, io, serverVars, completions,
                 answered, boundVars>>

(* open(), bind() or send_to() throws: the completion handler is called    *)
(* and the adapter reports the exception once more; the socket stays as it *)
(* is.                                                                     *)
StartFails ==
  /\ page = "Select"
  /\ page' = "Querying"
  /\ socket' \in {"Open", "Closed"}
  /\ Complete(2)
  /\ UNCHANGED <<results, timer, receive, sender, io, network, serverVars,
                 answered, boundVars>>

(* A variant that forgets the timer.                                       *)
AbortKeepsTimer ==
  /\ page = "Querying"
  /\ aborts < MaxAborts
  /\ aborts' = aborts + 1
  /\ CloseSocket
  /\ Complete(1)
  /\ UNCHANGED <<guiVars, timer, sender, io, network, serverVars, answered,
                 duplicates, others>>

(* A variant that completes the page without waiting for the signal.       *)
AbortCompletesPage ==
  /\ page = "Querying"
  /\ aborts < MaxAborts
  /\ aborts' = aborts + 1
  /\ CloseSocket
  /\ timer' = IF timer = "Armed" THEN "Idle" ELSE timer
  /\ Complete(1)
  /\ page' = "Complete"
  /\ UNCHANGED <<results, sender, io, network, serverVars, answered,
                 duplicates, others>>

(* FindQuery::abortQuery() and QueryImpl::abort(), while the button is     *)
(* connected.                                                              *)
AbortQuery ==
  /\ page = "Querying"
  /\ aborts < MaxAborts
  /\ aborts' = aborts + 1
  /\ CloseSocket
  /\ timer' = IF timer = "Armed" THEN "Idle" ELSE timer
  /\ Complete(1)
  /\ UNCHANGED <<guiVars, sender, io, network, serverVars, answered,
                 duplicates, others>>

(* The socket is closed already: cancel() throws, the timer is left alone, *)
(* the completion handler is called and the adapter reports the exception. *)
AbortFails ==
  /\ page = "Querying"
  /\ aborts < MaxAborts
  /\ aborts' = aborts + 1
  /\ socket = "Closed"
  /\ Complete(2)
  /\ UNCHANGED <<guiVars, queryVars, io, network, serverVars, answered,
                 duplicates, others>>

(* FindQueryWizard::receivedFindResponse() and TargetsInformationModel::   *)
(* targetInformation(), which appends a row; rows of one target are equal. *)
ReceivedFindResponse ==
  /\ signals # <<>>
  /\ page # "Closed"
  /\ \E t \in Targets :
       /\ Head(signals) = Response(t)
       /\ results' = results \cup {t}
  /\ signals' = Tail(signals)
  /\ UNCHANGED <<page, queryVars, io, network, serverVars, completions,
                 answered, boundVars>>

(* FindQueryWizard::operationFinished(), FindQueryResultsPage::            *)
(* queryFinished(): disconnects the button, the page is complete.          *)
OperationFinished ==
  /\ signals # <<>>
  /\ page # "Closed"
  /\ Head(signals) = Finished
  /\ signals' = Tail(signals)
  /\ page' = "Complete"
  /\ UNCHANGED <<results, queryVars, io, network, serverVars, completions,
                 answered, boundVars>>

(* The wizard is closed, finished or not: the adapter and with it the      *)
(* query are deleted.                                                      *)
CloseWizard ==
  /\ page \in {"Querying", "Complete"}
  /\ page' = "Closed"
  /\ signals' = <<>>
  /\ socket' = "Closed"
  /\ receive' = IF receive = "Pending" THEN "None" ELSE receive
  /\ timer' = IF timer = "Armed" THEN "Idle" ELSE timer
  /\ UNCHANGED <<results, sender, io, network, serverVars, completions,
                 answered, boundVars>>

-------------------------------------------------------------------------------
(* The network.                                                            *)
Lose ==
  /\ \E d \in network : network' = network \ {d}
  /\ UNCHANGED <<guiVars, signals, queryVars, io, serverVars, completions,
                 answered, boundVars>>

(* The datagram leaves the network, or stays for another delivery.         *)
Taken(d) ==
  /\ d \in network
  /\ \/ network' = network \ {d} /\ UNCHANGED duplicates
     \/ /\ duplicates < MaxDuplicates
        /\ duplicates' = duplicates + 1
        /\ UNCHANGED network

(* An answer arrives at the query.                                         *)
AnswerArrives(t) ==
  /\ receive = "Pending"
  /\ Taken([type |-> "Answer", target |-> t])
  /\ receive' = "Packet"
  /\ sender' = t
  /\ UNCHANGED <<guiVars, signals, socket, timer, io, serverVars, completions,
                 answered, aborts, others>>

(* Anything else: an invalid packet, the request of another host or an     *)
(* error of the socket.                                                    *)
OtherArrives ==
  /\ receive = "Pending"
  /\ others < MaxOther
  /\ others' = others + 1
  /\ receive' \in {"Ignored", "Failed"}
  /\ UNCHANGED <<guiVars, signals, socket, timer, sender, io, network,
                 serverVars, completions, answered, aborts, duplicates>>

-------------------------------------------------------------------------------
(* The handlers of the query, on the I/O thread.                           *)
Handles == io = "Running" /\ page # "Closed"

TimerExpires ==
  /\ timer = "Armed"
  /\ timer' = "Expired"
  /\ UNCHANGED <<guiVars, signals, socket, receive, sender, io, network,
                 serverVars, completions, answered, boundVars>>

(* A variant that closes the socket and forgets to tell.                   *)
TimeoutNotReported ==
  /\ Handles
  /\ timer = "Expired"
  /\ timer' = "Idle"
  /\ CloseSocket
  /\ UNCHANGED <<guiVars, signals, sender, io, network, serverVars,
                 completions, answered, boundVars>>

(* timerHandler()                                                          *)
TimerHandler ==
  /\ Handles
  /\ timer = "Expired"
  /\ timer' = "Idle"
  /\ CloseSocket
  /\ Complete(1)
  /\ UNCHANGED <<guiVars, sender, io, network, serverVars, answered,
                 boundVars>>

(* The same after an abort closed the socket: cancel() throws, nobody on   *)
(* the I/O thread catches it but the thread itself, which exits the        *)
(* application.                                                            *)
TimerHandlerThrows ==
  /\ Handles
  /\ timer = "Expired"
  /\ socket = "Closed"
  /\ timer' = "Idle"
  /\ Complete(1)
  /\ io' = "ExitedByException"
  /\ UNCHANGED <<guiVars, socket, receive, sender, network, serverVars,
                 answered, boundVars>>

(* receiveHandler(), packet() and informationAnswerPacket(): also when the *)
(* query has completed meanwhile.                                          *)
AnswerHandled ==
  /\ Handles
  /\ receive = "Packet"
  /\ signals' = Append(signals, Response(sender))
  /\ answered' = IF completions = "None" THEN answered \cup {sender}
                                         ELSE answered
  /\ Receive
  /\ UNCHANGED <<guiVars, socket, timer, sender, io, network, serverVars,
                 completions, boundVars>>

(* informationRequestPacket(), invalidPacket(), an error: the next receive *)
(* operation is started, on a closed socket for ever.                      *)
OtherHandled ==
  /\ Handles
  /\ receive \in {"Ignored", "Failed"}
  /\ Receive
  /\ UNCHANGED <<guiVars, signals, socket, timer, sender, io, network,
                 serverVars, completions, answered, boundVars>>

(* A queued handler of a query that was deleted works on released memory:  *)
(* it has no effect, brings the process down, or the receive loop goes on. *)
HandlerOfDeletedQuery ==
  /\ io = "Running"
  /\ page = "Closed"
  /\ \/ timer = "Expired" /\ timer' = "Idle" /\ UNCHANGED receive
     \/ receive \in Queued /\ receive' \in {"None", "Failed"}
                           /\ UNCHANGED timer
  /\ io' \in {"Running", "Crashed"}
  /\ UNCHANGED <<guiVars, signals, socket, sender, network, serverVars,
                 completions, answered, boundVars>>

-------------------------------------------------------------------------------
(* The FIND server of a target.                                            *)
HostUnchanged ==
  UNCHANGED <<guiVars, signals, queryVars, io, completions, answered, aborts,
              others>>

(* start() of a server with no handler queued.                             *)
StartServer(t) ==
  /\ serverSocket[t] = "Closed"
  /\ serverReceive[t] = "None"
  /\ serverSocket' = [serverSocket EXCEPT ![t] = "Open"]
  /\ serverReceive' = [serverReceive EXCEPT ![t] = "Pending"]
  /\ HostUnchanged
  /\ UNCHANGED <<network, duplicates>>

(* stop()                                                                  *)
StopServer(t) ==
  /\ serverSocket[t] = "Open"
  /\ serverSocket' = [serverSocket EXCEPT ![t] = "Closed"]
  /\ serverReceive' = IF serverReceive[t] = "Pending"
                      THEN [serverReceive EXCEPT ![t] = "None"]
                      ELSE serverReceive
  /\ HostUnchanged
  /\ UNCHANGED <<network, duplicates>>

RequestArrives(t) ==
  /\ serverReceive[t] = "Pending"
  /\ Taken([type |-> "Request", target |-> t])
  /\ serverReceive' = [serverReceive EXCEPT ![t] = "Packet"]
  /\ HostUnchanged
  /\ UNCHANGED serverSocket

(* receiveHandler(), informationRequestPacket(); the application answers   *)
(* with response().                                                        *)
RequestHandled(t) ==
  /\ serverReceive[t] = "Packet"
  /\ serverSocket[t] = "Open"
  /\ network' = network \cup {[type |-> "Answer", target |-> t]}
  /\ serverReceive' = [serverReceive EXCEPT ![t] = "Pending"]
  /\ HostUnchanged
  /\ UNCHANGED <<serverSocket, duplicates>>

(* The server was stopped meanwhile: response() throws in send_to().       *)
RequestHandledTooLate(t) ==
  /\ serverReceive[t] = "Packet"
  /\ serverSocket[t] = "Closed"
  /\ serverReceive' = [serverReceive EXCEPT ![t] = "None"]
  /\ HostUnchanged
  /\ UNCHANGED <<network, serverSocket, duplicates>>

-------------------------------------------------------------------------------
Gui ==
  \/ StartQuery
  \/ StartFails
  \/ AbortQuery
  \/ AbortFails
  \/ ReceivedFindResponse
  \/ OperationFinished
  \/ CloseWizard

IoThread ==
  \/ TimerHandler
  \/ TimerHandlerThrows
  \/ AnswerHandled
  \/ OtherHandled
  \/ HandlerOfDeletedQuery

Server(t) ==
  \/ StartServer(t)
  \/ StopServer(t)
  \/ RequestArrives(t)
  \/ RequestHandled(t)
  \/ RequestHandledTooLate(t)

Next ==
  \/ Gui
  \/ Lose
  \/ \E t \in Targets : AnswerArrives(t)
  \/ OtherArrives
  \/ TimerExpires
  \/ IoThread
  \/ \E t \in Targets : Server(t)

Spec == Init /\ [][Next]_vars

(* A wait elapses, its handler runs even while the receive loop is busy,   *)
(* and the event loop of the GUI delivers signals.  Nothing is assumed of  *)
(* the network, the targets or the operator.                               *)
FairSpec ==
  /\ Spec
  /\ WF_vars(TimerExpires)
  /\ WF_vars(TimerHandler \/ TimerHandlerThrows)
  /\ WF_vars(ReceivedFindResponse \/ OperationFinished)

-------------------------------------------------------------------------------
TypeOK ==
  /\ page \in {"Select", "Querying", "Complete", "Closed"}
  /\ results \subseteq Targets
  /\ signals \in Seq(Signals)
  /\ socket \in {"Closed", "Open"}
  /\ timer \in {"Idle", "Armed", "Expired"}
  /\ receive \in ReceiveStates
  /\ sender \in Targets
  /\ io \in {"Running", "ExitedByException", "Crashed"}
  /\ network \subseteq Datagrams
  /\ serverSocket \in [Targets -> {"Closed", "Open"}]
  /\ serverReceive \in [Targets -> {"None", "Pending", "Packet"}]
  /\ completions \in {"None", "Some"}
  /\ answered \subseteq Targets
  /\ aborts \in Nat /\ duplicates \in Nat /\ others \in Nat

(* A query that has told its completion waits for nothing any more: no     *)
(* timer is pending and no receive operation is (abort(), timerHandler()). *)
(* Handlers that are queued, and the receive loop on the closed socket,    *)
(* are another matter.                                                     *)
QuietAfterCompletion ==
  completions = "Some" => timer # "Armed" /\ receive # "Pending"

(* The page is complete, and the table can be saved to the target list,    *)
(* only when it holds every answer that was handled before the query       *)
(* completed: the signals do not overtake each other (FindQuery::          *)
(* findResponse(), finished(), FindQueryWizard).                           *)
CompletePageHasAnswers ==
  page = "Complete" => answered \subseteq results

(* A query that was started comes to its end, whatever the network does    *)
(* and however often the operator aborts: the page does not stay without   *)
(* "Finish".                                                               *)
QueryEnds == page = "Querying" ~> page # "Querying"

(* docs/ARCHITECTURE.md:75: "Two threads, for the whole life of the        *)
(* process."                                                               *)
IoThreadLives == io # "ExitedByException"
=============================================================================
