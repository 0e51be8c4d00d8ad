---------------------------- MODULE MCDataLoading ----------------------------
(* Values for model checking DataLoading: an upload, decided on as a        *)
(* success by the application or failed by the target itself.  The encoder  *)
(* does not throw here, see MCTargetOperation.                              *)
EXTENDS DataLoading

MCLoadKinds == {"Upload"}
MCDecisions == {"Completed"}
MCTexts == {"Fits"}

(* Bounds: the composition is followed until the operator is told, and      *)
(* through one abort or one elapsed DLP timeout at the host, not both: what *)
(* the two do to each other, and what either end does after its report, is  *)
(* the matter of the module of that end.                                    *)
OperatorNotTold == finishedCalls = <<>>

OneDisturbance ==
  dlpExpiries + abortsAccepted["Operator"] + abortsAccepted["Protocol"] <= 1
===============================================================================
