---------------------------- MODULE ProcessGroup ----------------------------
(***************************************************************************)
(* What a set of processes promises to the code that starts it, without    *)
(* saying how: a start either hands over a set or proves that nothing is   *)
(* left, the evidence of containment is never wrong, and Wait reports no   *)
(* error only with that evidence.  ChildProcesses implements it and        *)
(* TransferRun relies on it.                                               *)
(***************************************************************************)

VARIABLES
  start,     \* "none", "starting", "owned" (a set was returned), "refused"
  live,      \* some process of the group is not reaped
  evidence,  \* ContainmentDone is closed
  verdict    \* what Wait returns: "open", "clean" (no error), "dirty"

groupVars == <<start, live, evidence, verdict>>

GroupTypeOK ==
  /\ start \in {"none", "starting", "owned", "refused"}
  /\ live \in BOOLEAN
  /\ evidence \in BOOLEAN
  /\ verdict \in {"open", "clean", "dirty"}

GroupInit ==
  /\ start = "none"
  /\ live = FALSE
  /\ evidence = FALSE
  /\ verdict = "open"

\* start begins.
Begin ==
  /\ start = "none"
  /\ start' = "starting"
  /\ UNCHANGED <<live, evidence, verdict>>

\* A first process exists; nothing is ever started once its absence is evident.
Spawn ==
  /\ start = "starting" /\ ~evidence
  /\ live' = TRUE
  /\ UNCHANGED <<start, evidence, verdict>>

\* The last process of the group is reaped.
Vanish ==
  /\ live
  /\ live' = FALSE
  /\ UNCHANGED <<start, evidence, verdict>>

\* The absence of every process becomes evident.
Confirm ==
  /\ start # "none" /\ ~live
  /\ evidence' = TRUE
  /\ UNCHANGED <<start, live, verdict>>

\* start returns a set, with or without an error.
Own ==
  /\ start = "starting"
  /\ start' = "owned"
  /\ UNCHANGED <<live, evidence, verdict>>

\* start returns an error and no set: nothing may be left.
Refuse ==
  /\ start \in {"none", "starting"} /\ ~live
  /\ start' = "refused"
  /\ UNCHANGED <<live, evidence, verdict>>

\* Wait returns: without an error only with the evidence.
Conclude(v) ==
  /\ start = "owned" /\ verdict = "open"
  /\ v = "clean" => evidence
  /\ verdict' = v
  /\ UNCHANGED <<start, live, evidence>>

GroupNext ==
  \/ Begin \/ Spawn \/ Vanish \/ Confirm \/ Own \/ Refuse
  \/ \E v \in {"clean", "dirty"} : Conclude(v)

GroupSpec == GroupInit /\ [][GroupNext]_groupVars
=============================================================================
