--------------------------- MODULE MCRunDirectory ---------------------------
(***************************************************************************)
(* Instances of RunDirectory for TLC: two processes and two run IDs, so    *)
(* that a recovery can meet a live run, a stale run and another recovery.  *)
(***************************************************************************)
EXTENDS RunDirectory
=============================================================================
