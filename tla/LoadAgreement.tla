---------------------------- MODULE LoadAgreement ----------------------------
(***************************************************************************)
(* What an upload promises to the two people at its ends: the application  *)
(* of the target decides once how it ended, the operator at the host is    *)
(* told one end, and neither is told of a success that was not decided.    *)
(* The files, transfers, timers and aborts that bring it about are hidden. *)
(* That both are told the same is not promised: the last acknowledgement   *)
(* of a transfer may be lost.                                              *)
(***************************************************************************)

CONSTANTS Decisions,  \* how the application may decide
          Ends        \* what the operator may be told

VARIABLES decided,    \* what the application decided, or "None"
          told        \* what the operator was told first, or "None"

vars == <<decided, told>>

Init == decided = "None" /\ told = "None"

(* finished() of the target's operation.                                   *)
Decide(d) == decided = "None" /\ decided' = d /\ UNCHANGED told

(* The first finished() of the host's OperationHandler.                    *)
Tell(e) ==
  /\ told = "None"
  /\ e = "OperationCompleted" => decided = "Completed"
  /\ told' = e
  /\ UNCHANGED decided

Next == (\E d \in Decisions : Decide(d)) \/ (\E e \in Ends : Tell(e))

Spec == Init /\ [][Next]_vars
===============================================================================
