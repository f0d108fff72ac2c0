----------------------------- MODULE LogicalLines -----------------------------
(***************************************************************************)
(* What plain output promises for a logical line and for the text between  *)
(* terminal controls, independently of how PlainOutput works it out.       *)
(***************************************************************************)
EXTENDS PlainOutput, SequencesExt

CONSTANTS
  Characters,  \* characters a child may write
  Controls     \* complete ECMA-48 control sequences, of bytes

\* The updates of a logical line: what lies between its carriage returns.
Updates(text) ==
  FoldLeft(LAMBDA updates, c : IF c = <<13>> THEN Append(updates, <<>>)
                               ELSE [updates EXCEPT ![Len(updates)] = Append(@, c)],
           << <<>> >>, text)

\* Beginnings of earlier updates, in their order, are what was written before.
Beginnings(updates) ==
  {FlattenSeq([k \in DOMAIN updates |-> FlattenSeq(SubSeq(updates[k], 1, cut[k]))]) :
     cut \in {f \in [DOMAIN updates -> 0..Max({0} \cup {Len(updates[k]) : k \in DOMAIN updates})] :
                \A k \in DOMAIN updates : f[k] <= Len(updates[k])}}

Whole(line, text) ==
  line = <<>> \/ \E a \in DOMAIN text : \E b \in a..Len(text) : line = FlattenSeq(SubSeq(text, a, b))

\* A logical line that has ended shows its latest update, in full, once and last; of
\* the updates before it only beginnings, in order; a line without text is one empty
\* line; and no written line splits a character (finishLine, progressUpdate,
\* appendVisibleBytes, flush).
LogicalLinesShown ==
  \A k \in Keys :
    LET ended == streams[k].ended
        updates == Updates(ended.text)
        filled == {j \in DOMAIN updates : updates[j] # <<>>}
        latest == Max(filled)
        lines == {j \in DOMAIN ended.shown : ended.shown[j] # <<>>}
    IN ended.over =>
         IF filled = {}
         THEN ended.shown = IF ended.flushed /\ ended.text = <<>> THEN <<>> ELSE << <<>> >>
         ELSE /\ \E first \in lines :
                   /\ FlattenSeq(SubSeq(ended.shown, first, Len(ended.shown))) = FlattenSeq(updates[latest])
                   /\ FlattenSeq(SubSeq(ended.shown, 1, first - 1))
                        \in Beginnings(SubSeq(updates, 1, latest - 1)) \cup {<<>>}
              /\ \A j \in DOMAIN ended.shown :
                   /\ Whole(ended.shown[j], ended.text)
                   /\ j > 1 => ended.shown[j] # <<>>

\* The bytes a child writes through the sanitizer, one after the other.
Sanitize(bytes) ==
  FoldLeft(LAMBDA r, v : LET cleaned == Clean(r.sanitizer, v)
                         IN Cleaned(cleaned.sanitizer, r.visible \o cleaned.visible),
           Cleaned(NewSanitizer, <<>>), bytes)

\* Text with control sequences in it loses exactly these: every character between
\* them passes as it is, also next to strings that hold UTF-8 text, and nothing of a
\* sequence shows (terminalSanitizer).
SanitizerExact ==
  stage = "new" =>
    \A units \in SeqOf(Characters \cup Controls, 2) :
      Sanitize(FlattenSeq(units)) =
        Cleaned(NewSanitizer, SelectSeq(units, LAMBDA u : u \in Characters))

\* The text of a child arrives: its logical lines as described, with every character
\* between its controls (terminalSanitizer, outputStream).
TextArrives == LogicalLinesShown /\ SanitizerExact
=============================================================================
