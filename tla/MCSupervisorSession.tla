------------------------ MODULE MCSupervisorSession ------------------------
(***************************************************************************)
(* SupervisorSession for TLC.                                              *)
(***************************************************************************)
EXTENDS SupervisorSession

\* Either process may be killed and every system call may fail.
Hostile == {[deaths |-> TRUE, faults |-> TRUE]}
=============================================================================
