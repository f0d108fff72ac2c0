---------------------------- MODULE MCRunCommand ----------------------------
(***************************************************************************)
(* RunCommand for TLC.                                                     *)
(***************************************************************************)
EXTENDS RunCommand

Environment(killed, failing, kind, caught) ==
  [deaths |-> killed, faults |-> failing, modes |-> {kind}, signals |-> caught]

\* The interactive display, nothing failing.
Quiet == {Environment(FALSE, FALSE, "interactive", {})}

\* Plain output with two signals, faults and deaths at every step.
PlainOrQuiet == Quiet \cup {Environment(TRUE, TRUE, "plain", {"hangup", "user"})}

\* The interactive display: lost terminal, failing redraws and logs.
Failing == {Environment(FALSE, TRUE, "interactive", {})}
=============================================================================
