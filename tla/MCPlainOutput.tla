---------------------------- MODULE MCPlainOutput ----------------------------
(* Instances of PlainOutput for TLC. *)
EXTENDS LogicalLines

Everything == [w \in Kinds |-> Unlimited]

MCScenarios ==
  \* lines, updates and characters of two bytes on one stream
  {[keys |-> {<<1, "stdout">>}, bytes |-> {97, 10, 13, 195, 169}, text |-> 6, room |-> Everything],
   [keys |-> {<<1, "stdout">>}, bytes |-> {97, 10, 13}, text |-> 9, room |-> Everything],
   \* controls
   [keys |-> {<<1, "stderr">>}, text |-> 1, room |-> Everything,
    bytes |-> {7, 10, 27, 91, 92, 93, 127, 144, 155, 156, 194, 224, 237, 240, 255}]}
  \* writes that fail, with several streams on a writer
  \cup {[keys |-> keys, bytes |-> {97, 10, 13}, text |-> 2,
         room |-> [w \in Kinds |-> IF w = "stdout" THEN out ELSE err]] :
           keys \in {{<<1, "stdout">>, <<1, "stderr">>}, {<<1, "stdout">>, <<2, "stdout">>}},
           out \in 0..2, err \in {0, 1}}

MCCharacters == {<<97>>, <<195, 169>>, <<226, 156, 147>>, <<240, 159, 156, 156>>}

\* ESC or the C1 control as a byte or in UTF-8, the content, the terminators.
Strings(introducers, contents, ends) ==
  {a \o b \o c : a \in introducers, b \in contents, c \in ends}
Contents == {<<>>, <<97>>, <<226, 156, 147>>, <<195, 156>>, <<27, 97>>}
ST == {<<27, 92>>, <<156>>, <<194, 156>>}
MCControls ==
  {<<27, 55>>, <<27, 40, 66>>, <<27, 27, 55>>, <<133>>, <<194, 133>>, <<156>>}
  \cup Strings({<<27, 91>>, <<155>>, <<194, 155>>}, {<<>>, <<51, 49>>, <<63, 32>>}, {<<109>>, <<126>>})
  \cup Strings({<<27, 93>>, <<157>>, <<194, 157>>}, Contents, ST \cup {<<7>>})
  \cup Strings({<<27, 95>>, <<144>>, <<194, 159>>}, Contents \cup {<<7>>}, ST)
=============================================================================
