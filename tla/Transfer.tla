------------------------------- MODULE Transfer -------------------------------
(***************************************************************************)
(* What one ARINC 615A TFTP transfer promises to the component that owns   *)
(* it (tftp/clients/Operation.hpp): it is requested once, it is in         *)
(* progress until it has one result, the result is handed over once, and   *)
(* the transfer always comes to its result.  Retries, WAIT answers, abort  *)
(* requests and timers are hidden inside the one state "Active".           *)
(* An owner may also drop a transfer it has no more use for.               *)
(***************************************************************************)

CONSTANT Results      \* the transfer results an owner can be told

VARIABLES phase,      \* "Idle", "Active", "Done" or "Dropped"
          outcome     \* the result handed over, while the phase is "Done"

vars == <<phase, outcome>>

NoResult == "NoResult"

Init == phase = "Idle" /\ outcome = NoResult

(* The owner starts the transfer.                                          *)
Start == /\ phase = "Idle"
         /\ phase' = "Active"
         /\ UNCHANGED outcome

(* The completion handler of the owner is called with a result.            *)
Complete(r) == /\ phase = "Active"
               /\ phase' = "Done"
               /\ outcome' = r

(* The owner gives up the transfer object; it is promised nothing more.    *)
Drop == /\ phase # "Dropped"
        /\ phase' = "Dropped"
        /\ outcome' = NoResult

Next == Start \/ (\E r \in Results : Complete(r)) \/ Drop

Spec == Init /\ [][Next]_vars

(* An active transfer is completed unless its owner drops it.              *)
FairSpec == Spec /\ WF_vars(\E r \in Results : Complete(r))

===============================================================================
