-------------------------- MODULE MCChildProcesses --------------------------
(* Instances of ChildProcesses for TLC.                                    *)
EXTENDS ChildProcesses
=============================================================================
