--------------------------- MODULE MCHostNetwork ---------------------------
(***************************************************************************)
(* HostNetwork for TLC.                                                    *)
(***************************************************************************)
EXTENDS HostNetwork, TLC

CONSTANT s1

\* The allocations of all runs start at the same identity.
Environment(dying, power, failing, priorities, started) ==
  [crashes |-> dying, powerLoss |-> power, faults |-> failing, foreign |-> priorities,
   runs |-> started, start |-> [r \in Runs |-> s1]]

MCEnvironments ==
  {\* concurrent runs whose processes may die at any step
   Environment(TRUE, FALSE, FALSE, {}, Runs),
   \* one run with errors anywhere, deaths and rules of other software
   Environment(TRUE, FALSE, TRUE, {s1}, {1}),
   \* power loss between any two changes of the evidence
   Environment(FALSE, TRUE, FALSE, {}, Runs)}

Symmetry == Permutations(Procs)
=============================================================================
