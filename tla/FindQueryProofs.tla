--------------------------- MODULE FindQueryProofs ---------------------------
(***************************************************************************)
(* What holds of FindQuery for every set of targets and every bound.       *)
(***************************************************************************)
EXTENDS FindQuery, SequenceTheorems, TLAPS

(* Nothing waits on a closed socket.                                       *)
ClosedIsQuiet == socket = "Closed" => timer # "Armed" /\ receive # "Pending"

(* A query completes by closing its socket, or by not starting at all.     *)
CompletedIsClosed ==
  completions = "Some" =>
    socket = "Closed" \/ (receive = "None" /\ timer = "Idle")

(* Before the results page opens nothing has happened.                     *)
SelectIsDormant ==
  page = "Select" => /\ completions = "None" /\ timer = "Idle"
                     /\ receive = "None" /\ socket = "Closed"

(* "Finished" is among the signals only after the completion.              *)
FinishedOnlyIfCompleted ==
  completions = "None" =>
    page # "Complete" /\ \A i \in 1 .. Len(signals) : signals[i] # Finished

(* The response of t is on its way and not behind a "Finished".            *)
Ahead(t) ==
  \E i \in 1 .. Len(signals) :
    /\ signals[i] = Response(t)
    /\ \A j \in 1 .. i : signals[j] # Finished

AnswersAhead ==
  page # "Closed" => \A t \in answered : t \in results \/ Ahead(t)

IInv ==
  /\ TypeOK
  /\ ClosedIsQuiet
  /\ CompletedIsClosed
  /\ SelectIsDormant
  /\ FinishedOnlyIfCompleted
  /\ AnswersAhead
  /\ CompletePageHasAnswers

-------------------------------------------------------------------------------
(* Completing appends signals behind those that are queued.                *)
LEMMA CompleteAppends ==
  ASSUME NEW n \in Nat, signals \in Seq(Signals), Complete(n)
  PROVE  /\ signals' \in Seq(Signals)
         /\ Len(signals') = Len(signals) + n
         /\ \A i \in 1 .. Len(signals) : signals'[i] = signals[i]
         /\ completions' = "Some"
<1> DEFINE tail == [i \in 1 .. n |-> Finished]
<1>1. tail \in Seq(Signals) /\ Len(tail) = n
  BY DEF Signals
<1>2. signals' = signals \o tail /\ completions' = "Some"
  BY DEF Complete
<1> HIDE DEF tail
<1>3. /\ signals \o tail \in Seq(Signals)
      /\ Len(signals \o tail) = Len(signals) + Len(tail)
      /\ \A i \in 1 .. Len(signals) + Len(tail) :
           (signals \o tail)[i] = IF i <= Len(signals) THEN signals[i]
                                                       ELSE tail[i - Len(signals)]
  BY <1>1, ConcatProperties
<1>4. Len(signals) \in Nat
  OBVIOUS
<1> QED
  BY <1>1, <1>2, <1>3, <1>4

(* Signals appended to the queue leave what is ahead where it is.          *)
LEMMA AheadStays ==
  ASSUME NEW t \in Targets, Ahead(t), signals \in Seq(Signals),
         signals' \in Seq(Signals), Len(signals') >= Len(signals),
         \A i \in 1 .. Len(signals) : signals'[i] = signals[i]
  PROVE  Ahead(t)'
<1>1. PICK i \in 1 .. Len(signals) :
        /\ signals[i] = Response(t)
        /\ \A j \in 1 .. i : signals[j] # Finished
  BY DEF Ahead
<1>2. i \in 1 .. Len(signals')
  BY <1>1
<1>3. \A j \in 1 .. i : signals'[j] = signals[j]
  BY <1>1
<1> QED
  BY <1>1, <1>2, <1>3 DEF Ahead, Response, Finished

LEMMA Initially == Init => IInv
<1> SUFFICES ASSUME Init PROVE IInv
  OBVIOUS
<1>1. signals \in Seq(Signals) /\ Len(signals) = 0
  BY DEF Init
<1>2. TypeOK
  BY <1>1 DEF Init, TypeOK, ReceiveStates
<1> QED
  BY <1>1, <1>2 DEF Init, IInv, ClosedIsQuiet, CompletedIsClosed,
    SelectIsDormant, FinishedOnlyIfCompleted, AnswersAhead,
    CompletePageHasAnswers

-------------------------------------------------------------------------------
(* Steps that complete the query.                                          *)
Completing ==
  \/ StartFails
  \/ AbortQuery
  \/ AbortFails
  \/ TimerHandler
  \/ TimerHandlerThrows

LEMMA CompletingStep == IInv /\ Completing => IInv'
<1> SUFFICES ASSUME IInv, Completing PROVE IInv'
  OBVIOUS
<1>1. PICK n \in {1, 2} : Complete(n)
  BY DEF Completing, StartFails, AbortQuery, AbortFails, TimerHandler,
         TimerHandlerThrows
<1>2. /\ signals' \in Seq(Signals)
      /\ Len(signals') >= Len(signals)
      /\ \A i \in 1 .. Len(signals) : signals'[i] = signals[i]
      /\ completions' = "Some"
  BY <1>1, CompleteAppends DEF IInv, TypeOK
<1>3. /\ UNCHANGED <<results, sender, network, serverVars, answered>>
      /\ page' # "Complete" \/ page' = page
      /\ page # "Closed" /\ page' # "Select"
      /\ page' \in {"Select", "Querying", "Complete", "Closed"}
      /\ page' = "Complete" => page = "Complete"
  BY DEF Completing, StartFails, AbortQuery, AbortFails, TimerHandler,
         TimerHandlerThrows, guiVars, queryVars, IInv, TypeOK,
         SelectIsDormant, Handles
<1>4. /\ socket' \in {"Closed", "Open"}
      /\ receive' \in ReceiveStates /\ timer' \in {"Idle", "Armed", "Expired"}
      /\ io' \in {"Running", "ExitedByException", "Crashed"}
      /\ aborts' \in Nat /\ duplicates' \in Nat /\ others' \in Nat
      /\ timer' # "Armed" /\ receive' # "Pending"
      /\ socket' = "Closed" \/ (receive' = "None" /\ timer' = "Idle")
  BY DEF Completing, StartFails, AbortQuery, AbortFails, TimerHandler,
         TimerHandlerThrows, CloseSocket, queryVars, guiVars, boundVars, IInv,
         TypeOK, ClosedIsQuiet, CompletedIsClosed, SelectIsDormant,
         ReceiveStates
<1>5. TypeOK'
  BY <1>2, <1>3, <1>4 DEF IInv, TypeOK, serverVars
<1>6. AnswersAhead'
  <2> SUFFICES ASSUME page' # "Closed", NEW t \in answered'
               PROVE  (t \in results \/ Ahead(t))'
    BY DEF AnswersAhead
  <2>1. t \in answered /\ t \in Targets /\ page # "Closed"
    BY <1>3 DEF IInv, TypeOK
  <2>2. CASE t \in results
    BY <2>2, <1>3
  <2>3. CASE Ahead(t)
    BY <2>1, <2>3, <1>2, AheadStays DEF IInv, TypeOK
  <2> QED
    BY <2>1, <2>2, <2>3 DEF IInv, AnswersAhead
<1> QED
  BY <1>2, <1>3, <1>4, <1>5, <1>6
  DEF IInv, ClosedIsQuiet, CompletedIsClosed, SelectIsDormant,
      FinishedOnlyIfCompleted, CompletePageHasAnswers

-------------------------------------------------------------------------------
(* A response is queued.                                                   *)
LEMMA AnswerStep == IInv /\ AnswerHandled => IInv'
<1> SUFFICES ASSUME IInv, AnswerHandled PROVE IInv'
  OBVIOUS
<1>1. /\ sender \in Targets /\ signals \in Seq(Signals)
      /\ Response(sender) \in Signals /\ Response(sender) # Finished
  BY DEF IInv, TypeOK, Signals, Response, Finished
<1>2. /\ signals' = Append(signals, Response(sender))
      /\ signals' \in Seq(Signals)
      /\ Len(signals') = Len(signals) + 1
      /\ \A i \in 1 .. Len(signals) : signals'[i] = signals[i]
      /\ signals'[Len(signals) + 1] = Response(sender)
  BY <1>1 DEF AnswerHandled
<1>3. /\ UNCHANGED <<page, results, socket, timer, sender, io, network,
                     serverVars, completions, boundVars>>
      /\ receive = "Packet" /\ page # "Closed"
      /\ receive' = IF socket = "Open" THEN "Pending" ELSE "Failed"
      /\ answered' = IF completions = "None" THEN answered \cup {sender}
                                             ELSE answered
  BY DEF AnswerHandled, Handles, guiVars, Receive
<1>4. TypeOK'
  BY <1>1, <1>2, <1>3 DEF IInv, TypeOK, ReceiveStates, serverVars, boundVars
<1>5. /\ ClosedIsQuiet' /\ CompletedIsClosed' /\ SelectIsDormant'
  BY <1>3 DEF IInv, ClosedIsQuiet, CompletedIsClosed, SelectIsDormant
<1>6. FinishedOnlyIfCompleted'
  BY <1>1, <1>2, <1>3 DEF IInv, FinishedOnlyIfCompleted
<1>7. CompletePageHasAnswers'
  BY <1>3 DEF IInv, CompletePageHasAnswers, FinishedOnlyIfCompleted
<1>8. AnswersAhead'
  <2> SUFFICES ASSUME NEW t \in answered'
               PROVE  (t \in results \/ Ahead(t))'
    BY DEF AnswersAhead
  <2>1. CASE t \in answered
    <3>1. t \in Targets
      BY <2>1 DEF IInv, TypeOK
    <3>2. CASE t \in results
      BY <3>2, <1>3
    <3>3. CASE Ahead(t)
      BY <3>1, <3>3, <1>1, <1>2, AheadStays
    <3> QED
      BY <2>1, <3>2, <3>3, <1>3 DEF IInv, AnswersAhead
  <2>2. CASE t \notin answered
    <3>1. t = sender /\ completions = "None"
      BY <2>2, <1>3
    <3>2. \A j \in 1 .. Len(signals) + 1 : signals'[j] # Finished
      BY <3>1, <1>1, <1>2 DEF IInv, FinishedOnlyIfCompleted
    <3>3. Len(signals) + 1 \in 1 .. Len(signals')
      BY <1>1, <1>2
    <3> QED
      BY <3>1, <3>2, <3>3, <1>2 , <1>3 DEF Ahead, Response
  <2> QED
    BY <2>1, <2>2
<1> QED
  BY <1>4, <1>5, <1>6, <1>7, <1>8 DEF IInv

(* A signal is delivered: what was ahead moves up, or is in the table.     *)
LEMMA SignalStep == IInv /\ (ReceivedFindResponse \/ OperationFinished) => IInv'
<1> SUFFICES ASSUME IInv, ReceivedFindResponse \/ OperationFinished
             PROVE  IInv'
  OBVIOUS
<1>1. /\ signals \in Seq(Signals) /\ signals # <<>>
      /\ signals' = Tail(signals) /\ page # "Closed"
      /\ UNCHANGED <<queryVars, io, network, serverVars, completions, answered,
                     boundVars>>
  BY DEF IInv, TypeOK, ReceivedFindResponse, OperationFinished
<1>2. /\ signals' \in Seq(Signals)
      /\ Len(signals') = Len(signals) - 1
      /\ \A i \in 1 .. Len(signals') : signals'[i] = signals[i + 1]
      /\ Head(signals) = signals[1]
      /\ Len(signals) \in Nat /\ Len(signals) > 0
  BY <1>1
<1>3. /\ results' \subseteq Targets /\ results \subseteq results'
      /\ \A t \in Targets : Head(signals) = Response(t) => t \in results'
      /\ page' = page \/ (page' = "Complete" /\ Head(signals) = Finished)
  BY DEF IInv, TypeOK, ReceivedFindResponse, OperationFinished, Response,
         Finished
<1>4. TypeOK'
  BY <1>1, <1>2, <1>3
  DEF IInv, TypeOK, queryVars, serverVars, boundVars
<1>5. ASSUME NEW t \in answered
      PROVE  t \in results' \/ (Ahead(t)' /\ Head(signals) # Finished)
  <2>1. t \in Targets /\ (t \in results \/ Ahead(t))
    BY <1>1 DEF IInv, TypeOK, AnswersAhead
  <2>2. CASE Ahead(t) /\ t \notin results'
    <3>1. PICK i \in 1 .. Len(signals) :
            /\ signals[i] = Response(t)
            /\ \A j \in 1 .. i : signals[j] # Finished
      BY <2>2 DEF Ahead
    <3>2. i # 1
      BY <2>1, <2>2, <3>1, <1>2, <1>3
    <3>3. i - 1 \in 1 .. Len(signals') /\ signals'[i - 1] = Response(t)
      BY <3>1, <3>2, <1>2
    <3>4. ASSUME NEW j \in 1 .. i - 1 PROVE signals'[j] # Finished
      <4>1. j + 1 \in 1 .. i /\ j \in 1 .. Len(signals')
        BY <3>1, <3>2, <1>2
      <4> QED
        BY <4>1, <3>1, <1>2
    <3>5. Head(signals) # Finished
      BY <3>1, <1>2
    <3> QED
      BY <3>3, <3>4, <3>5 DEF Ahead, Response, Finished
  <2> QED
    BY <2>1, <2>2, <1>3
<1>6. AnswersAhead' /\ CompletePageHasAnswers'
  BY <1>1, <1>3, <1>5 DEF IInv, AnswersAhead, CompletePageHasAnswers
<1>7. FinishedOnlyIfCompleted'
  <2> SUFFICES ASSUME completions = "None"
               PROVE  /\ page' # "Complete"
                      /\ \A i \in 1 .. Len(signals') : signals'[i] # Finished
    BY <1>1 DEF FinishedOnlyIfCompleted
  <2>1. page # "Complete"
        /\ \A i \in 1 .. Len(signals) : signals[i] # Finished
    BY DEF IInv, FinishedOnlyIfCompleted
  <2>2. \A i \in 1 .. Len(signals') : i + 1 \in 1 .. Len(signals)
    BY <1>2
  <2> QED
    BY <2>1, <2>2, <1>2, <1>3
<1> QED
  BY <1>1, <1>3, <1>4, <1>6, <1>7
  DEF IInv, ClosedIsQuiet, CompletedIsClosed, SelectIsDormant, queryVars

-------------------------------------------------------------------------------
(* All other steps leave the signals and the table alone.                  *)
LEMMA OtherStep ==
  ASSUME IInv,
         \/ StartQuery \/ Lose \/ OtherArrives \/ TimerExpires \/ OtherHandled
         \/ HandlerOfDeletedQuery
         \/ \E t \in Targets : AnswerArrives(t) \/ Server(t)
  PROVE  IInv'
<1>1. UNCHANGED <<results, signals, completions, answered>>
  BY DEF StartQuery, Lose, OtherArrives, TimerExpires, OtherHandled,
         HandlerOfDeletedQuery, AnswerArrives, Server, StartServer, StopServer,
         RequestArrives, RequestHandled, RequestHandledTooLate, HostUnchanged,
         guiVars
<1>2. page' = page \/ (page = "Select" /\ page' = "Querying")
  BY DEF StartQuery, Lose, OtherArrives, TimerExpires, OtherHandled,
         HandlerOfDeletedQuery, AnswerArrives, Server, StartServer, StopServer,
         RequestArrives, RequestHandled, RequestHandledTooLate, HostUnchanged,
         guiVars
<1>3. /\ socket' \in {"Closed", "Open"} /\ receive' \in ReceiveStates
      /\ timer' \in {"Idle", "Armed", "Expired"} /\ sender' \in Targets
      /\ io' \in {"Running", "ExitedByException", "Crashed"}
  BY DEF StartQuery, Lose, OtherArrives, TimerExpires, OtherHandled,
         HandlerOfDeletedQuery, AnswerArrives, Server, StartServer, StopServer,
         RequestArrives, RequestHandled, RequestHandledTooLate, HostUnchanged,
         queryVars, Receive, ReceiveStates, IInv, TypeOK
<1>4. aborts' \in Nat /\ duplicates' \in Nat /\ others' \in Nat
  <2>1. aborts \in Nat /\ duplicates \in Nat /\ others \in Nat
    BY DEF IInv, TypeOK
  <2>2. CASE StartQuery \/ Lose \/ OtherArrives \/ TimerExpires
             \/ OtherHandled \/ HandlerOfDeletedQuery
    BY <2>1, <2>2 DEF StartQuery, Lose, OtherArrives, TimerExpires,
      OtherHandled, HandlerOfDeletedQuery, boundVars
  <2>3. CASE \E t \in Targets : AnswerArrives(t) \/ Server(t)
    <3>1. /\ UNCHANGED <<aborts, others>>
          /\ \/ UNCHANGED duplicates
             \/ \E d : Taken(d)
      BY <2>3 DEF AnswerArrives, Server, StartServer, StopServer,
        RequestArrives, RequestHandled, RequestHandledTooLate, HostUnchanged
    <3> QED
      BY <2>1, <3>1 DEF Taken
  <2> QED
    BY <2>2, <2>3
<1>5. network' \subseteq Datagrams
  <2>1. CASE StartQuery
    BY <2>1 DEF StartQuery, IInv, TypeOK, Datagrams
  <2>2. CASE \E t \in Targets : RequestHandled(t)
    BY <2>2 DEF RequestHandled, IInv, TypeOK, Datagrams
  <2>3. CASE network' \subseteq network
    BY <2>3 DEF IInv, TypeOK
  <2> QED
    BY <2>1, <2>2, <2>3
    DEF Lose, OtherArrives, TimerExpires, OtherHandled, HandlerOfDeletedQuery,
        AnswerArrives, Server, StartServer, StopServer, RequestArrives,
        RequestHandledTooLate, HostUnchanged, Taken
<1>6. serverSocket' \in [Targets -> {"Closed", "Open"}]
      /\ serverReceive' \in [Targets -> {"None", "Pending", "Packet"}]
  BY DEF StartQuery, Lose, OtherArrives, TimerExpires, OtherHandled,
         HandlerOfDeletedQuery, AnswerArrives, Server, StartServer, StopServer,
         RequestArrives, RequestHandled, RequestHandledTooLate, serverVars,
         IInv, TypeOK
<1>7. TypeOK'
  BY <1>1, <1>2, <1>3, <1>4, <1>5, <1>6 DEF IInv, TypeOK
<1>8. ClosedIsQuiet' /\ CompletedIsClosed' /\ SelectIsDormant'
  BY <1>1, <1>2
  DEF StartQuery, Lose, OtherArrives, TimerExpires, OtherHandled,
      HandlerOfDeletedQuery, AnswerArrives, Server, StartServer, StopServer,
      RequestArrives, RequestHandled, RequestHandledTooLate, HostUnchanged,
      queryVars, guiVars, Receive, Handles, Queued, IInv, TypeOK,
      ClosedIsQuiet, CompletedIsClosed, SelectIsDormant
<1>9. AnswersAhead'
  BY <1>1, <1>2 DEF IInv, AnswersAhead, Ahead
<1> QED
  BY <1>1, <1>2, <1>7, <1>8, <1>9
  DEF IInv, FinishedOnlyIfCompleted, CompletePageHasAnswers

LEMMA CloseStep == IInv /\ CloseWizard => IInv'
<1> SUFFICES ASSUME IInv, CloseWizard PROVE IInv'
  OBVIOUS
<1>1. signals' \in Seq(Signals) /\ Len(signals') = 0
  BY DEF CloseWizard
<1> QED
  BY <1>1
  DEF CloseWizard, IInv, TypeOK, ReceiveStates, ClosedIsQuiet,
      CompletedIsClosed, SelectIsDormant, FinishedOnlyIfCompleted,
      AnswersAhead, CompletePageHasAnswers, serverVars, boundVars

LEMMA Inductive == IInv /\ [Next]_vars => IInv'
<1> SUFFICES ASSUME IInv, [Next]_vars PROVE IInv'
  OBVIOUS
<1>1. CASE UNCHANGED vars
  BY <1>1
  DEF vars, guiVars, queryVars, serverVars, boundVars, IInv, TypeOK,
      ClosedIsQuiet, CompletedIsClosed, SelectIsDormant,
      FinishedOnlyIfCompleted, AnswersAhead, Ahead, CompletePageHasAnswers
<1>2. CASE Next
  BY <1>2, CompletingStep, AnswerStep, SignalStep, OtherStep, CloseStep
  DEF Next, Gui, IoThread, Completing
<1> QED
  BY <1>1, <1>2

LEMMA Invariance == Spec => []IInv
BY Initially, Inductive, PTL DEF Spec

-------------------------------------------------------------------------------
(* Every reachable state is well typed.                                    *)
THEOREM TypeCorrect == Spec => []TypeOK
<1>1. IInv => TypeOK
  BY DEF IInv
<1> QED
  BY <1>1, Invariance, PTL

(* A completed query has neither a pending timer nor a pending receive     *)
(* operation.                                                              *)
THEOREM CompletedIsQuiet == Spec => []QuietAfterCompletion
<1>1. IInv => QuietAfterCompletion
  BY DEF IInv, QuietAfterCompletion, ClosedIsQuiet, CompletedIsClosed
<1> QED
  BY <1>1, Invariance, PTL

(* The completed page shows every answer handled before the completion.    *)
THEOREM PageIsComplete == Spec => []CompletePageHasAnswers
<1>1. IInv => CompletePageHasAnswers
  BY DEF IInv
<1> QED
  BY <1>1, Invariance, PTL
=============================================================================
