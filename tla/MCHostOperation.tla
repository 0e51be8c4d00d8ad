--------------------------- MODULE MCHostOperation ---------------------------
(* Values for model checking HostOperation: the final code for success, one *)
(* with which the target closes an aborted operation, one code that keeps   *)
(* an operation going and one the host does not know.                       *)
EXTENDS HostOperation

MCStatusCodes == {"OperationAccepted", "OperationCompleted",
                  "OperationAbortedByOperator", "UnknownCode"}

(* Bound: finished() has no guard, and an operation is followed up to its   *)
(* third report.  OperationEnds is decided by the first.                    *)
ReportedAtMostTwice == Len(finishedCalls) <= 2
=============================================================================
