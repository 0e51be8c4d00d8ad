-------------------------- MODULE MCOperationWizard --------------------------
(* Values for model checking OperationWizard: one file, requested again     *)
(* while it is under way.                                                   *)
EXTENDS OperationWizard

CONSTANT f1

MCFiles == {f1}
=============================================================================
