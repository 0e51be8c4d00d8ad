------------------------ MODULE MCTftpClientOperation ------------------------
(***************************************************************************)
(* Model-checking instance of TftpClientOperation.  One retry is the       *)
(* default of the code (DefaultArinc615aDlpRetries); two are used so that  *)
(* waits, retries and aborts can be interleaved in every order.            *)
(***************************************************************************)
EXTENDS TftpClientOperation

MCDlpRetries == 2
MCMaxWaits == 2
MCCounterModulus == 8
===============================================================================
