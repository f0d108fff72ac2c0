---------------------------- MODULE MCTransferPlan ----------------------------
(* Instances of TransferPlan for TLC. *)
EXTENDS LogicalSource

CONSTANTS top, home, sub, f1, f2, f3, l1, l2, p1

MCUploadBytes == <<2, 3>>
MCWeights == {<<1, 1>>, <<2, 3>>, <<15, 1>>}

MCSizes == f1 :> 15 @@ f2 :> 6 @@ f3 :> 5

\* The texts of links.
Text(abs, comps) == [abs |-> abs, comps |-> comps,
                     slash |-> comps # <<>> /\ comps[Len(comps)] = Here]
Texts == {Text(FALSE, <<>>), Text(FALSE, <<Up>>), Text(FALSE, <<2>>), Text(FALSE, <<Up, 2>>),
          Text(FALSE, <<2, 1>>), Text(TRUE, <<2>>), Text(TRUE, <<1, 2>>), Text(FALSE, <<2, Here>>)}

\* The tree in which each object of a function at lies in the slot it gives.
Tree(at) == [dir \in Dirs |-> [n \in Names |->
  IF \E o \in DOMAIN at : at[o] = <<dir, n>>
  THEN CHOOSE o \in DOMAIN at : at[o] = <<dir, n>> ELSE Nil]]

Scenario(req, at, texts, flw, chg, flt) ==
  [request |-> req, entries |-> Tree(at), size |-> MCSizes, target |-> texts,
   follow |-> flw, changes |-> chg, faults |-> flt]

Texts2(a, b) == l1 :> a @@ l2 :> b
Home == home :> <<top, 1>>

\* Every placement of a directory, a file and a link next to the source, undisturbed.
Slots3 == (Dirs \X Names) \ {<<top, 1>>}
Placements ==
  {Home @@ sub :> a @@ f1 :> b @@ l1 :> c : <<a, b, c>> \in
     {x \in Slots3 \X Slots3 \X Slots3 : x[1] # x[2] /\ x[2] # x[3] /\ x[1] # x[3] /\ x[1][1] # sub}}
Undisturbed ==
  {Scenario("manual", at, Texts2(a, Text(FALSE, <<>>)), TRUE, 0, 0) : at \in Placements, a \in Texts}

\* The same trees where links are not followed: a link is then left out.
Unfollowed ==
  {Scenario("manual", at, Texts2(Text(FALSE, <<2>>), Text(FALSE, <<>>)), FALSE, 0, 0) : at \in Placements}

\* Two links, which may lead to each other.
Linked ==
  {Scenario("manual", Home @@ l1 :> <<home, 1>> @@ l2 :> <<home, 2>> @@ sub :> <<top, 2>> @@ f1 :> <<sub, 1>>,
            Texts2(a, b), TRUE, 0, 0) : a, b \in Texts \cup {Text(FALSE, <<1>>)}}

\* One link goes through the other as often as it may, and once more.
Through ==
  {Scenario("manual", Home @@ l1 :> <<home, 1>> @@ l2 :> <<sub, 2>> @@ sub :> <<top, 2>> @@ f1 :> <<sub, 1>>,
            Texts2(Text(TRUE, <<2>> \o through \o <<1>>), Text(FALSE, <<Here>>)), TRUE, 0, 0) :
     through \in {<<2, 2>>, <<2, 2, 2>>}}

Full == Home @@ sub :> <<home, 2>> @@ f1 :> <<home, 1>> @@ f2 :> <<sub, 1>> @@ f3 :> <<sub, 2>>
Outside == Home @@ sub :> <<top, 2>> @@ f1 :> <<sub, 1>> @@ f2 :> <<home, 1>> @@ l1 :> <<home, 2>>
Special == Home @@ sub :> <<home, 2>> @@ p1 :> <<home, 1>> @@ l1 :> <<sub, 1>>

\* Other programs interfere.
Disturbed ==
  {Scenario("manual", Full, Texts2(Text(FALSE, <<>>), Text(FALSE, <<>>)), FALSE, 1, 0),
   Scenario("manual", Outside, Texts2(Text(FALSE, <<Up, 2>>), Text(FALSE, <<>>)), TRUE, 2, 0),
   Scenario("manual", Outside, Texts2(Text(FALSE, <<Up, 2, 1>>), Text(FALSE, <<>>)), TRUE, 1, 0),
   Scenario("manual", Outside, Texts2(Text(FALSE, <<Up, 2>>), Text(FALSE, <<>>)), FALSE, 1, 0),
   Scenario("manual", Special, Texts2(Text(FALSE, <<Up, 1>>), Text(FALSE, <<>>)), TRUE, 1, 0)}

\* Calls fail or the run is cancelled.
Faulty ==
  {Scenario("manual", Full, Texts2(Text(FALSE, <<>>), Text(FALSE, <<>>)), FALSE, 0, 1),
   Scenario("manual", Outside, Texts2(Text(FALSE, <<Up, 2>>), Text(FALSE, <<>>)), TRUE, 0, 1)}

\* Weights are measured.
Measured ==
  {Scenario(req, Home @@ f1 :> <<home, 1>> @@ f2 :> <<home, 2>>,
            Texts2(Text(FALSE, <<>>), Text(FALSE, <<>>)), FALSE, 0, 0) : req \in {"automatic", "list"}}

MCScenarios ==
  Undisturbed \cup Unfollowed \cup Linked \cup Through \cup Disturbed \cup Faulty \cup Measured
=============================================================================
