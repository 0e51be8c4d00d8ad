-------------------------- MODULE MCTargetOperation --------------------------
(* Values for model checking TargetOperation: success and the final status  *)
(* that has no code of its own.                                             *)
EXTENDS TargetOperation

MCTexts == {"Fits", "TooLong"}

MCDecisions == {"Completed", "LoadPartNumberOrDownloadFileFailed"}

(* Bound: an operation whose encoder has thrown on the I/O thread is        *)
(* followed no further.  EndReported asks nothing of it from then on.       *)
EncoderHasNotThrown == ioException = "No"
=============================================================================
