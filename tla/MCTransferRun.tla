---------------------------- MODULE MCTransferRun ----------------------------
(* Instances of TransferRun for TLC. *)
EXTENDS TransferRun
=============================================================================
