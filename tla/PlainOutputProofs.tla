-------------------------- MODULE PlainOutputProofs --------------------------
(***************************************************************************)
(* Plain output stays within its bounds for every number of transfers,     *)
(* every line bound that holds a character, and every input; it writes no  *)
(* control, and a closed output holds nothing back.                        *)
(***************************************************************************)
EXTENDS PlainOutput, SequenceTheorems, TLAPS

\* What a stream may hold back or write at a time, without a control in it.
Glyph == Byte \ Controls7
Piece == {x \in Seq(Glyph) : Len(x) <= MaxLine}

\* What the sanitizer may pass on, a character at a time: ASCII or text; of these a
\* line takes text, and its history carriage returns too.
Character == {x \in Seq(Byte) : /\ 1 <= Len(x) /\ Len(x) <= 4
                                /\ Textual(x) \/ (Len(x) = 1 /\ x[1] < 128)}
Letter == {c \in Character : Textual(c)}
Taken == {c \in Character : c = <<13>> \/ Textual(c)}
Visible == {x \in Seq(Character) : Len(x) <= 2}

\* What the sanitizer may hold back: the beginning of a character.
Unfinished == {x \in Seq(Byte) : /\ Len(x) <= 3 /\ \A i \in 2..Len(x) : x[i] \in 128..191
                                 /\ x # << >> => Len(x) < SequenceLength(x[1])}

\* The first byte of what is held back says how much is expected.
Sanitizers ==
  {s \in [sequence : Sequences8, utf8 : Unfinished, expected : {0, 2, 3, 4},
          remaining : 0..3, c2 : BOOLEAN] :
     s.utf8 # << >> => s.expected = SequenceLength(s.utf8[1])}

Ended == {None} \cup [over : {TRUE}, text : Seq(Taken), shown : Seq(Piece),
                      flushed : BOOLEAN]

\* StreamType, with the bounds.
BoundedStream ==
  [line : Piece, progress : Piece, progressWritten : BOOLEAN, segmentWritten : BOOLEAN,
   recent : BOOLEAN, sanitizer : Sanitizers, text : Seq(Taken), shown : Seq(Piece),
   ended : Ended]

Writers == [room : Nat \cup {Unlimited}, writeErr : BOOLEAN, finalizing : BOOLEAN, reports : Nat]
Ops == [stream : BoundedStream, writer : Writers, failed : BOOLEAN]

\* The inductive invariant: the types, with the bounds in them.
PlainInv ==
  /\ scenario \in Scenarios /\ next \in Transfers
  /\ stage \in {"new", "open", "failed", "closing", "closed"}
  /\ streams \in [Keys -> BoundedStream]
  /\ writers \in [Kinds -> Writers]

-----------------------------------------------------------------------------
(* terminalSanitizer                                                       *)

\* utf8SequenceLength: no character has more than four bytes.
LEMMA SequenceLengthType ==
  ASSUME NEW v \in Byte
  PROVE  SequenceLength(v) \in {0, 2, 3, 4}
  BY DEF SequenceLength, Byte

\* What a length may be.
LEMMA Lengths ==
  /\ \A n \in Nat : /\ n > 1 => n # 1
                    /\ 1 <= n => n > 1 \/ n = 1
                    /\ n <= 3 /\ n # 0 => n \in 1..3
                    /\ \A i \in 1..n : i = 1 \/ i \in 2..n
                    /\ \A i \in 2..(n + 1) : i \in 2..n \/ i = n + 1
                    /\ 2..n \subseteq 1..n
  /\ Len(<<9>>) = 1
  OBVIOUS

\* Bytes below 128 begin no longer character.
LEMMA LongBytes ==
  ASSUME NEW v \in Byte, SequenceLength(v) # 0
  PROVE  v \in 128..255
  <1>1. v \in 0..255
    BY DEF Byte
  <1>2. v \in 194..223 \/ v \in 224..239 \/ v \in 240..244
    BY Zenon DEF SequenceLength
  <1> QED
    BY <1>1, <1>2

\* utf8.RuneError is one character.
LEMMA ReplacementType == Replacement \in Character
  <1>1. Replacement \in Seq(Byte) /\ Len(Replacement) = 3
    BY DEF Replacement, Byte
  <1>2. Textual(Replacement)
    <2>1. SequenceLength(239) = 3
      BY DEF SequenceLength
    <2>2. /\ Replacement[1] = 239 /\ Replacement[2] \in 128..191 /\ Replacement[3] \in 128..191
      BY DEF Replacement
    <2>3. \A i \in 2..3 : i = 2 \/ i = 3
      OBVIOUS
    <2> QED
      BY <1>1, <2>1, <2>2, <2>3 DEF Textual, ValidCharacter
  <1>3. 1 <= Len(Replacement) /\ Len(Replacement) <= 4
    BY <1>1
  <1> QED
    BY <1>1, <1>2, <1>3, Zenon DEF Character

\* Nothing, or a byte that announces more, may be held back.
LEMMA UnfinishedFacts ==
  /\ << >> \in Unfinished
  /\ \A v \in Byte : SequenceLength(v) # 0 => <<v>> \in Unfinished
  <1>1. \A v \in Byte : SequenceLength(v) # 0 => 1 < SequenceLength(v)
    BY SequenceLengthType
  <1> QED
    BY <1>1 DEF Unfinished

\* The updates the sanitizer makes.
LEMMA SanitizerSequence ==
  ASSUME NEW s \in Sanitizers, NEW q \in Sequences8
  PROVE  [s EXCEPT !.sequence = q] \in Sanitizers
  BY DEF Sanitizers

\* A byte inside a control string is counted.
LEMMA SanitizerString ==
  ASSUME NEW s \in Sanitizers, NEW n \in 0..3, NEW b \in BOOLEAN
  PROVE  [s EXCEPT !.remaining = n, !.c2 = b] \in Sanitizers
  BY DEF Sanitizers

\* A byte of text is held back, or what is held back is dropped.
LEMMA SanitizerText ==
  ASSUME NEW s \in Sanitizers, NEW u \in Unfinished, NEW n \in {0, 2, 3, 4},
         u # << >> => n = SequenceLength(u[1])
  PROVE  [s EXCEPT !.utf8 = u, !.expected = n] \in Sanitizers
  BY DEF Sanitizers

\* The resets, and the beginning of a sequence.
LEMMA ResetType ==
  ASSUME NEW s \in Sanitizers
  PROVE  /\ ResetUTF8(s) \in Sanitizers
         /\ ResetControlStringUTF8(s) \in Sanitizers
         /\ ResetSequence(s) \in Sanitizers
         /\ NewSanitizer \in Sanitizers
         /\ \A q \in Sequences8 : /\ BeginSequence(s, q) \in Sanitizers
                                  /\ [s EXCEPT !.sequence = q] \in Sanitizers
  <1>1. "text" \in Sequences8
    BY DEF Sequences8
  <1>2. ResetUTF8(s) \in Sanitizers /\ NewSanitizer \in Sanitizers
    <2>1. ResetUTF8(s) \in Sanitizers
      BY UnfinishedFacts, SanitizerText DEF ResetUTF8
    <2>2. NewSanitizer \in Sanitizers
      BY <1>1, UnfinishedFacts DEF Sanitizers, NewSanitizer
    <2> QED
      BY <2>1, <2>2
  <1>3. /\ ResetControlStringUTF8(s) \in Sanitizers
        /\ \A q \in Sequences8 : [s EXCEPT !.sequence = q] \in Sanitizers
    <2>1. 0 \in 0..3 /\ FALSE \in BOOLEAN
      OBVIOUS
    <2>2. ResetControlStringUTF8(s) \in Sanitizers
      BY <2>1, SanitizerString DEF ResetControlStringUTF8
    <2> QED
      BY <2>2, SanitizerSequence
  <1>4. \A q \in Sequences8 : BeginSequence(s, q) \in Sanitizers
    BY <1>3, SanitizerSequence DEF BeginSequence
  <1>5. ResetSequence(s) \in Sanitizers
    BY <1>1, <1>4 DEF ResetSequence, BeginSequence
  <1> QED
    BY <1>2, <1>3, <1>4, <1>5

\* A C1 control begins a sequence or is dropped.
LEMMA ConsumeC1Type ==
  ASSUME NEW s \in Sanitizers, NEW v \in Byte
  PROVE  ConsumeC1(s, v) \in Sanitizers
  BY ResetType DEF ConsumeC1, Sequences8

\* What a byte leaves behind and makes visible.
Results == [sanitizer : Sanitizers, visible : Visible]

\* A byte that begins a character makes at most one visible.
LEMMA ConsumeFirstType ==
  ASSUME NEW s \in Sanitizers, NEW v \in Byte
  PROVE  /\ ConsumeFirst(s, v) \in Results
         /\ Len(ConsumeFirst(s, v).visible) <= 1
  <1>1. /\ << >> \in Visible /\ Len(<< >>) <= 1
        /\ v < 128 => << <<v>> >> \in Visible /\ Len(<< <<v>> >>) <= 1
        /\ <<Replacement>> \in Visible /\ Len(<<Replacement>>) <= 1
    BY ReplacementType DEF Visible, Character
  <1>2. [s EXCEPT !.sequence = "escape"] \in Sanitizers
    BY ResetType DEF Sequences8
  <1>3. SequenceLength(v) # 0
          => [s EXCEPT !.utf8 = <<v>>, !.expected = SequenceLength(v)] \in Sanitizers
    <2>1. <<v>>[1] = v
      OBVIOUS
    <2> QED
      BY <2>1, SequenceLengthType, UnfinishedFacts, SanitizerText
  <1>4. ConsumeC1(s, v) \in Sanitizers
    BY ConsumeC1Type
  <1>5. ASSUME NEW z \in Sanitizers, NEW x \in Visible, Len(x) <= 1,
               ConsumeFirst(s, v) = Cleaned(z, x)
        PROVE  ConsumeFirst(s, v) \in Results /\ Len(ConsumeFirst(s, v).visible) <= 1
    BY <1>5 DEF Cleaned, Results
  <1> DEFINE escaped == Cleaned([s EXCEPT !.sequence = "escape"], << >>)
             shown == Cleaned(s, << <<v>> >>)
             control == Cleaned(ConsumeC1(s, v), << >>)
             replaced == Cleaned(s, <<Replacement>>)
             begun == Cleaned([s EXCEPT !.utf8 = <<v>>, !.expected = SequenceLength(v)], << >>)
             z == ConsumeFirst(s, v)
  <1>6. z = CASE v = 27 -> escaped
              [] v < 128 /\ v # 27 -> shown
              [] v \in 128..159 -> control
              [] v > 159 /\ SequenceLength(v) = 0 -> replaced
              [] OTHER -> begun
    BY Zenon DEF ConsumeFirst
  <1>7. \/ z = escaped \/ (v < 128 /\ z = shown) \/ z = control \/ z = replaced
        \/ (SequenceLength(v) # 0 /\ z = begun)
    <2> HIDE DEF escaped, shown, control, replaced, begun, z
    <2> QED
      BY <1>6 DEF Byte
  <1> HIDE DEF z
  <1>8. z = escaped => z \in Results /\ Len(z.visible) <= 1
    BY <1>1, <1>2, <1>5, Zenon DEF z
  <1>9. v < 128 /\ z = shown => z \in Results /\ Len(z.visible) <= 1
    BY <1>1, <1>5, Zenon DEF z
  <1>10. z = control => z \in Results /\ Len(z.visible) <= 1
    BY <1>1, <1>4, <1>5, Zenon DEF z
  <1>11. z = replaced => z \in Results /\ Len(z.visible) <= 1
    BY <1>1, <1>5, Zenon DEF z
  <1>12. SequenceLength(v) # 0 /\ z = begun => z \in Results /\ Len(z.visible) <= 1
    BY <1>1, <1>3, <1>5, Zenon DEF z
  <1> QED
    BY <1>7, <1>8, <1>9, <1>10, <1>11, <1>12, Zenon DEF z

\* A continuation byte is held back only while the character is incomplete, and what
\* it completes is text.
LEMMA ConsumeContinuationType ==
  ASSUME NEW s \in Sanitizers, NEW v \in 128..191, s.utf8 # << >>
  PROVE  ConsumeContinuation(s, v) \in Results
  <1> DEFINE c == Append(s.utf8, v)
  <1>1. /\ s.utf8 \in Seq(Byte) /\ Len(s.utf8) \in 1..3 /\ s.expected \in {0, 2, 3, 4}
        /\ s.expected = SequenceLength(s.utf8[1]) /\ Len(s.utf8) < s.expected
        /\ \A i \in 2..Len(s.utf8) : s.utf8[i] \in 128..191
    <2>1. /\ s \in [sequence : Sequences8, utf8 : Unfinished, expected : {0, 2, 3, 4},
                    remaining : 0..3, c2 : BOOLEAN]
          /\ s.expected = SequenceLength(s.utf8[1])
      BY Zenon DEF Sanitizers
    <2>2. s.utf8 \in Unfinished /\ s.expected \in {0, 2, 3, 4}
      BY <2>1
    <2> DEFINE u == s.utf8
    <2>3. /\ u \in Seq(Byte) /\ Len(u) <= 3 /\ Len(u) < SequenceLength(u[1])
          /\ \A i \in 2..Len(u) : u[i] \in 128..191
      BY <2>2, Zenon DEF Unfinished
    <2>4. Len(u) \in Nat /\ Len(u) # 0
      BY <2>3, EmptySeq
    <2>5. Len(u) \in 1..3
      BY <2>3, <2>4, Lengths, Zenon
    <2> QED
      BY <2>1, <2>2, <2>3, <2>5
  <1>2. /\ c \in Seq(Byte) /\ Len(c) = Len(s.utf8) + 1 /\ c[1] = s.utf8[1] /\ c # << >>
        /\ \A i \in 2..Len(c) : c[i] \in 128..191
    <2> DEFINE u == s.utf8
    <2>1. u \in Seq(Byte) /\ Len(u) \in 1..3 /\ v \in Byte /\ \A i \in 2..Len(u) : u[i] \in 128..191
      BY <1>1 DEF Byte
    <2> HIDE DEF u
    <2>2. c \in Seq(Byte) /\ Len(c) = Len(u) + 1 /\ c[Len(u) + 1] = v
      BY <2>1 DEF u
    <2>3. \A i \in 1..Len(u) : c[i] = u[i]
      BY <2>1 DEF u
    <2>4. \A i \in 2..Len(c) : c[i] \in 128..191
      <3>1. SUFFICES ASSUME NEW i \in 2..Len(c) PROVE c[i] \in 128..191
        OBVIOUS
      <3>2. Len(u) \in Nat
        BY <2>1
      <3>3. i \in 2..Len(u) \/ i = Len(u) + 1
        BY <2>2, <3>2, Lengths, Zenon
      <3>4. CASE i \in 2..Len(u)
        <4>1. i \in 1..Len(u)
          BY <3>2, <3>4, Lengths, Zenon
        <4> QED
          BY <2>1, <2>3, <3>4, <4>1, Zenon
      <3>5. CASE i = Len(u) + 1
        BY <2>2, <3>5, Zenon
      <3> QED
        BY <3>3, <3>4, <3>5
    <2>5. c # << >> /\ c[1] = u[1]
      BY <2>1, <2>2, <2>3
    <2> QED
      BY <2>2, <2>4, <2>5 DEF u
  <1> HIDE DEF c
  <1>3. << >> \in Visible /\ <<Replacement>> \in Visible
    BY ReplacementType DEF Visible
  <1>4. ASSUME Len(c) >= s.expected, ValidCharacter(c), ~(c[1] = 194 /\ v <= 159)
        PROVE  <<c>> \in Visible
    <2>1. Len(c) = s.expected
      BY <1>1, <1>2, <1>4
    <2>2. Len(c) = 2 => c[2] = v
      BY <1>1 DEF c
    <2>3. c[1] = 194 => Len(c) = 2
      BY <1>1, <1>2, <2>1 DEF SequenceLength
    <2>4. Textual(c)
      BY <1>1, <1>2, <1>4, <2>1, <2>2, <2>3 DEF Textual
    <2>5. c \in Character
      BY <1>1, <1>2, <2>4 DEF Character
    <2> QED
      BY <2>5 DEF Visible
  <1>5. Len(c) < s.expected => [s EXCEPT !.utf8 = c] \in Sanitizers
    <2>1. Len(c) < s.expected => c \in Unfinished
      BY <1>1, <1>2 DEF Unfinished
    <2> QED
      BY <1>1, <1>2, <2>1 DEF Sanitizers
  <1>6. ResetUTF8(s) \in Sanitizers /\ ResetUTF8(ConsumeC1(s, v)) \in Sanitizers
    <2>1. v \in Byte
      BY DEF Byte
    <2> QED
      BY <2>1, ResetType, ConsumeC1Type
  <1> QED
    BY <1>1, <1>2, <1>3, <1>4, <1>5, <1>6 DEF ConsumeContinuation, Cleaned, Results, c

\* A byte that cuts a character short shows the replacement and is itself taken.
LEMMA ConsumeTextType ==
  ASSUME NEW s \in Sanitizers, NEW v \in Byte
  PROVE  ConsumeText(s, v) \in Results
  <1>1. CASE s.utf8 = << >>
    BY <1>1, ConsumeFirstType DEF ConsumeText
  <1>2. CASE s.utf8 # << >> /\ v \in 128..191
    BY <1>2, ConsumeContinuationType DEF ConsumeText
  <1>3. CASE s.utf8 # << >> /\ v \notin 128..191
    <2> DEFINE first == ConsumeFirst(ResetUTF8(s), v)
    <2>1. first \in Results /\ Len(first.visible) <= 1
      BY ResetType, ConsumeFirstType
    <2>2. <<Replacement>> \o first.visible \in Visible
      BY <2>1, ReplacementType DEF Results, Visible
    <2> QED
      BY <1>3, <2>1, <2>2 DEF ConsumeText, Cleaned, Results
  <1> QED
    BY <1>1, <1>2, <1>3

\* A sequence is abandoned on a byte that cannot belong to it.
LEMMA GiveUpType ==
  ASSUME NEW s \in Sanitizers, NEW v \in Byte
  PROVE  GiveUp(s, v) \in Sanitizers
  BY ResetType, ConsumeC1Type DEF GiveUp, Sequences8

\* A control string counts at most three bytes of a character inside it.
LEMMA ConsumeControlStringType ==
  ASSUME NEW s \in Sanitizers, NEW v \in Byte, NEW bell \in BOOLEAN, NEW q \in Sequences8
  PROVE  ConsumeControlString(s, v, bell, q) \in Sanitizers
  <1> DEFINE r == IF s.remaining # 0 THEN ResetControlStringUTF8(s) ELSE s
  <1>1. r \in Sanitizers
    BY ResetType
  <1>2. [r EXCEPT !.remaining = SequenceLength(v) - 1, !.c2 = (v = 194)] \in Sanitizers
          \/ SequenceLength(v) = 0
    <2>1. SequenceLength(v) # 0 => SequenceLength(v) - 1 \in 0..3
      BY SequenceLengthType
    <2>2. (v = 194) \in BOOLEAN
      OBVIOUS
    <2> HIDE DEF r
    <2> QED
      BY <1>1, <2>1, <2>2, SanitizerString
  <1>3. InCharacter(s, v)
          => [s EXCEPT !.remaining = @ - 1, !.c2 = @ /\ s.remaining # 1] \in Sanitizers
    <2>1. InCharacter(s, v) => s.remaining - 1 \in 0..3
      BY DEF Sanitizers, InCharacter
    <2>2. (s.c2 /\ s.remaining # 1) \in BOOLEAN
      OBVIOUS
    <2> QED
      BY <2>1, <2>2, SanitizerString
  <1>4. ResetSequence(s) \in Sanitizers /\ ResetSequence(r) \in Sanitizers
          /\ [r EXCEPT !.sequence = q] \in Sanitizers
    BY <1>1, ResetType
  <1> QED
    BY <1>1, <1>2, <1>3, <1>4 DEF ConsumeControlString

\* An escape inside a control string.
LEMMA ConsumeStringEscapeType ==
  ASSUME NEW s \in Sanitizers, NEW v \in Byte, NEW bell \in BOOLEAN,
         NEW content \in Sequences8, NEW q \in Sequences8
  PROVE  ConsumeStringEscape(s, v, bell, content, q) \in Sanitizers
  BY ResetType, ConsumeControlStringType DEF ConsumeStringEscape

\* Every state of the sanitizer, for every byte.
LEMMA ConsumeSequenceType ==
  ASSUME NEW s \in Sanitizers, NEW v \in Byte
  PROVE  ConsumeSequence(s, v) \in Sanitizers
  <1>1. \A q \in {"osc", "controlString", "oscEscape", "stringEscape", "escape",
                  "escapeIntermediate", "csi"} : q \in Sequences8
    BY DEF Sequences8
  <1>2. ConsumeEscape(s, v) \in Sanitizers
    BY <1>1, ResetType, GiveUpType DEF ConsumeEscape
  <1>3. ConsumeEscapeIntermediate(s, v) \in Sanitizers
    BY <1>1, ResetType, GiveUpType DEF ConsumeEscapeIntermediate
  <1>4. ConsumeCSI(s, v) \in Sanitizers
    BY <1>1, ResetType, GiveUpType DEF ConsumeCSI
  <1>5. /\ ConsumeControlString(s, v, TRUE, "oscEscape") \in Sanitizers
        /\ ConsumeControlString(s, v, FALSE, "stringEscape") \in Sanitizers
    BY <1>1, ConsumeControlStringType
  <1>6. /\ ConsumeStringEscape(s, v, TRUE, "osc", "oscEscape") \in Sanitizers
        /\ ConsumeStringEscape(s, v, FALSE, "controlString", "stringEscape") \in Sanitizers
    BY <1>1, ConsumeStringEscapeType
  <1> QED
    BY <1>2, <1>3, <1>4, <1>5, <1>6 DEF ConsumeSequence

\* The sanitizer holds at most three bytes and passes on at most two characters.
LEMMA CleanType ==
  ASSUME NEW s \in Sanitizers, NEW v \in Byte
  PROVE  Clean(s, v) \in Results
  <1>1. << >> \in Visible
    BY DEF Visible
  <1> QED
    BY <1>1, ConsumeTextType, ConsumeSequenceType DEF Clean, Cleaned, Results

\* The end of the output shows what is held back as a replacement.
LEMMA FinishType ==
  ASSUME NEW s \in Sanitizers
  PROVE  Finish(s) \in Results
  <1>1. << >> \in Visible /\ <<Replacement>> \in Visible
    BY ReplacementType DEF Visible
  <1> QED
    BY <1>1, ResetType DEF Finish, Cleaned, Results

-----------------------------------------------------------------------------
(* outputStream                                                            *)

\* The updates a stream goes through.
LEMMA StreamLine ==
  ASSUME NEW st \in BoundedStream, NEW a \in Piece
  PROVE  /\ [st EXCEPT !.line = a] \in BoundedStream
         /\ [st EXCEPT !.line = a].line = a
  BY DEF BoundedStream

\* A line is written and recorded.
LEMMA StreamShown ==
  ASSUME NEW st \in BoundedStream, NEW a \in Piece
  PROVE  [st EXCEPT !.shown = Append(@, a)] \in BoundedStream
  <1>1. Append(st.shown, a) \in Seq(Piece)
    BY DEF BoundedStream
  <1> QED
    BY <1>1 DEF BoundedStream

\* A segment has been written.
LEMMA StreamSegment ==
  ASSUME NEW st \in BoundedStream, NEW a \in Piece, NEW b \in Piece, NEW p \in BOOLEAN,
         NEW q \in BOOLEAN
  PROVE  /\ [st EXCEPT !.line = a, !.progress = b, !.progressWritten = p,
                       !.segmentWritten = q] \in BoundedStream
         /\ [st EXCEPT !.line = a, !.progress = b, !.progressWritten = p,
                       !.segmentWritten = q].line = a
  BY DEF BoundedStream

\* The logical line starts over.
LEMMA StreamReset ==
  ASSUME NEW st \in BoundedStream, NEW a \in Piece, NEW b \in Piece, NEW p \in BOOLEAN,
         NEW q \in BOOLEAN, NEW r \in BOOLEAN
  PROVE  [st EXCEPT !.line = a, !.progress = b, !.progressWritten = p,
                    !.segmentWritten = q, !.recent = r] \in BoundedStream
  BY DEF BoundedStream

\* An update has been written.
LEMMA StreamProgress ==
  ASSUME NEW st \in BoundedStream, NEW p \in BOOLEAN, NEW r \in BOOLEAN
  PROVE  [st EXCEPT !.progressWritten = p, !.recent = r] \in BoundedStream
  BY DEF BoundedStream

\* The line becomes the update.
LEMMA StreamMoved ==
  ASSUME NEW st \in BoundedStream, NEW a \in Piece, NEW b \in Piece, NEW p \in BOOLEAN
  PROVE  [st EXCEPT !.progress = a, !.line = b, !.progressWritten = p] \in BoundedStream
  BY DEF BoundedStream

\* The progress interval begins or ends.
LEMMA StreamRecent ==
  ASSUME NEW st \in BoundedStream, NEW r \in BOOLEAN
  PROVE  [st EXCEPT !.recent = r] \in BoundedStream
  BY DEF BoundedStream

\* The sanitizer has taken a byte.
LEMMA StreamSanitizer ==
  ASSUME NEW st \in BoundedStream, NEW z \in Sanitizers
  PROVE  [st EXCEPT !.sanitizer = z] \in BoundedStream
  BY DEF BoundedStream

\* Nothing is within the line bound.
LEMMA EmptyPiece == << >> \in Piece
  BY PlainAssumption DEF Piece

\* An operation changes its stream and not whether it failed.
LEMMA OpUpdates ==
  ASSUME NEW op \in Ops, NEW st \in BoundedStream
  PROVE  /\ [op EXCEPT !.stream = st] \in Ops
         /\ [op EXCEPT !.stream = st].stream = st
         /\ [op EXCEPT !.stream = st].failed = op.failed
  BY DEF Ops

\* The parts of an operation.
LEMMA OpFields ==
  ASSUME NEW op \in Ops
  PROVE  op.stream \in BoundedStream /\ op.writer \in Writers /\ op.failed \in BOOLEAN
  BY DEF Ops

\* The parts of a stream.
LEMMA StreamFields ==
  ASSUME NEW st \in BoundedStream
  PROVE  /\ st.line \in Piece /\ st.progress \in Piece
         /\ st.progressWritten \in BOOLEAN /\ st.segmentWritten \in BOOLEAN
         /\ st.recent \in BOOLEAN /\ st.sanitizer \in Sanitizers
  BY DEF BoundedStream

\* writeLine, with room or without.
LEMMA WriteLineType ==
  ASSUME NEW w \in Writers
  PROVE  /\ WriteLine(w).writer \in Writers
         /\ WriteLine(w).failed \in BOOLEAN
         /\ WriteLine(w).written \in BOOLEAN
  <1>1. [w EXCEPT !.writeErr = TRUE] \in Writers
    BY DEF Writers
  <1>2. w.room # 0 => [w EXCEPT !.room = IF @ = Unlimited THEN @ ELSE @ - 1] \in Writers
    <2>1. w.room # 0 => (IF w.room = Unlimited THEN w.room ELSE w.room - 1) \in Nat \cup {Unlimited}
      BY DEF Writers, Unlimited
    <2> QED
      BY <2>1 DEF Writers
  <1>3. w.writeErr \in BOOLEAN /\ w.finalizing \in BOOLEAN
    BY DEF Writers
  <1> QED
    BY <1>1, <1>2, <1>3 DEF WriteLine

\* What is written is within the line bound.
LEMMA WriteType ==
  ASSUME NEW op \in Ops, NEW line \in Piece
  PROVE  Write(op, line) \in Ops
  <1>1. /\ WriteLine(op.writer).writer \in Writers
        /\ WriteLine(op.writer).failed \in BOOLEAN
        /\ WriteLine(op.writer).written \in BOOLEAN
    BY WriteLineType DEF Ops
  <1>2. op.stream \in BoundedStream
    BY DEF Ops
  <1>3. [op.stream EXCEPT !.shown = Append(@, line)] \in BoundedStream
    BY <1>2, StreamShown
  <1>4. \A st \in BoundedStream, w \in Writers, f \in BOOLEAN :
           [stream |-> st, writer |-> w, failed |-> f] \in Ops
    BY DEF Ops
  <1> QED
    BY <1>1, <1>2, <1>3, <1>4 DEF Write

\* resetLogicalLine keeps nothing.
LEMMA ResetLogicalLineType ==
  ASSUME NEW st \in BoundedStream
  PROVE  ResetLogicalLine(st) \in BoundedStream
  BY EmptyPiece, StreamReset DEF ResetLogicalLine

\* After a segment is written the line is empty.
LEMMA WriteBufferedSegmentType ==
  ASSUME NEW op \in Ops
  PROVE  /\ WriteBufferedSegment(op) \in Ops
         /\ ~WriteBufferedSegment(op).failed => WriteBufferedSegment(op).stream.line = << >>
  <1> DEFINE w == Write(op, op.stream.line)
             st == [w.stream EXCEPT !.line = << >>, !.progress = << >>,
                                    !.progressWritten = FALSE, !.segmentWritten = TRUE]
  <1>1. w \in Ops
    <2>1. op.stream.line \in Piece
      BY DEF Ops, BoundedStream
    <2> QED
      BY <2>1, WriteType
  <1>2. st \in BoundedStream /\ st.line = << >>
    <2>1. w.stream \in BoundedStream
      BY <1>1 DEF Ops
    <2>2. TRUE \in BOOLEAN /\ FALSE \in BOOLEAN
      OBVIOUS
    <2> HIDE DEF w
    <2> QED
      BY <2>1, <2>2, EmptyPiece, StreamSegment
  <1>3. WriteBufferedSegment(op) = IF w.failed THEN w ELSE [w EXCEPT !.stream = st]
    BY DEF WriteBufferedSegment
  <1> HIDE DEF w, st
  <1> QED
    BY <1>1, <1>2, <1>3, OpUpdates

\* The bytes that are no controls.
LEMMA GlyphBytes ==
  ASSUME NEW b, b = 9 \/ b \in 32..126 \/ b \in 128..255
  PROVE  b \in Glyph
  BY DEF Glyph, Controls7, Byte

\* No byte of a character is a control.
LEMMA LetterGlyphs ==
  ASSUME NEW c \in Letter
  PROVE  c \in Seq(Glyph)
  <1>1. c \in Seq(Byte) /\ Len(c) \in Nat /\ 1 <= Len(c) /\ Textual(c)
    BY DEF Letter, Character
  <1>2. ASSUME NEW i \in 1..Len(c) PROVE c[i] \in Glyph
    <2>1. c[i] \in Byte /\ c[1] \in Byte
      BY <1>1, <1>2
    <2>2. CASE Len(c) > 1
      <3>1. /\ SequenceLength(c[1]) = Len(c) /\ \A j \in 2..Len(c) : c[j] \in 128..191
        <4>1. Len(c) # 1 /\ c # <<9>>
          BY <1>1, <2>2, Lengths, Zenon
        <4> QED
          BY <1>1, <4>1, Zenon DEF Textual
      <3>2. c[1] \in 128..255
        <4>1. SequenceLength(c[1]) # 0
          BY <1>1, <3>1
        <4> QED
          BY <2>1, <4>1, LongBytes
      <3>3. \A b \in 128..191 : b \in 128..255
        OBVIOUS
      <3>4. c[i] \in 128..255
        <4>1. i = 1 \/ i \in 2..Len(c)
          BY <1>1, <1>2, Lengths, Zenon
        <4>2. i \in 2..Len(c) => c[i] \in 128..191
          BY <3>1
        <4>3. i = 1 => c[i] \in 128..255
          BY <3>2, Zenon
        <4>4. i \in 2..Len(c) => c[i] \in 128..255
          <5> DEFINE b == c[i]
          <5>1. i \in 2..Len(c) => b \in 128..191
            BY <4>2
          <5> HIDE DEF b
          <5>2. i \in 2..Len(c) => b \in 128..255
            BY <3>3, <5>1
          <5> QED
            BY <5>2 DEF b
        <4> QED
          BY <4>1, <4>3, <4>4, Zenon
      <3> QED
        BY <3>4, GlyphBytes, Zenon
    <2>3. CASE Len(c) = 1
      <3>1. i = 1 /\ (c[1] = 9 \/ c[1] \in 32..126)
        BY <1>1, <1>2, <2>3 DEF Textual
      <3> QED
        BY <3>1, GlyphBytes, Zenon
    <2> QED
      BY <1>1, <2>2, <2>3, Lengths, Zenon
  <1> QED
    BY <1>1, <1>2

\* The line bound holds any character, so an empty line takes one.
LEMMA CharacterFits ==
  ASSUME NEW c \in Letter
  PROVE  /\ c \in Seq(Glyph) /\ Len(c) \in Nat /\ c \in Piece
         /\ << >> \o c \in Piece
  <1>1. c \in Seq(Glyph) /\ Len(c) \in Nat /\ Len(c) <= 4
    BY LetterGlyphs DEF Letter, Character
  <1>2. MaxLine \in Nat /\ MaxLine >= 4
    BY PlainAssumption
  <1>3. c \in Piece
    BY <1>1, <1>2 DEF Piece
  <1>4. << >> \o c = c
    BY <1>1, ConcatEmptySeq
  <1> QED
    BY <1>1, <1>3, <1>4

\* A character that the bound leaves room for keeps the line within it.
LEMMA LineFits ==
  ASSUME NEW a \in Piece, NEW c \in Letter, ~(Len(a) + Len(c) > MaxLine)
  PROVE  a \o c \in Piece
  <1>1. a \in Seq(Glyph) /\ Len(a) \in Nat /\ c \in Seq(Glyph) /\ Len(c) \in Nat
    BY CharacterFits DEF Piece
  <1>2. a \o c \in Seq(Glyph) /\ Len(a \o c) = Len(a) + Len(c)
    BY <1>1
  <1>3. MaxLine \in Nat
    BY PlainAssumption
  <1> QED
    BY <1>1, <1>2, <1>3 DEF Piece

\* The line bound is looked at before a character is added: the line with it fits.
LEMMA AppendVisibleType ==
  ASSUME NEW op \in Ops, NEW c \in Letter
  PROVE  AppendVisible(op, c) \in Ops
  <1> DEFINE full == op.stream.line # << >> /\ Len(op.stream.line) + Len(c) > MaxLine
             begun == IF full THEN WriteBufferedSegment(op) ELSE op
             st == [begun.stream EXCEPT !.line = begun.stream.line \o c]
             grown == [begun EXCEPT !.stream = st]
  <1>1. begun \in Ops
    BY WriteBufferedSegmentType
  <1>2. begun.failed \/ begun.stream.line \o c \in Piece
    <2>1. op.stream.line \in Piece
      BY OpFields, StreamFields
    <2>2. CASE full
      <3>1. begun = WriteBufferedSegment(op)
        BY <2>2
      <3> QED
        BY <3>1, CharacterFits, WriteBufferedSegmentType
    <2>3. CASE op.stream.line = << >>
      <3>1. begun = op
        BY <2>3
      <3> QED
        BY <2>3, <3>1, CharacterFits
    <2>4. CASE ~full /\ op.stream.line # << >>
      <3>1. begun = op /\ ~(Len(op.stream.line) + Len(c) > MaxLine)
        BY <2>4
      <3> QED
        BY <2>1, <3>1, LineFits
    <2> QED
      BY <2>2, <2>3, <2>4
  <1>3. AppendVisible(op, c) =
          IF begun.failed THEN begun
          ELSE IF Len(grown.stream.line) < MaxLine THEN grown ELSE WriteBufferedSegment(grown)
    BY DEF AppendVisible
  <1>4. begun.failed \/ grown \in Ops
    <2> HIDE DEF begun
    <2>1. begun.stream \in BoundedStream
      BY <1>1, OpFields
    <2>2. begun.failed \/ st \in BoundedStream
      BY <1>2, <2>1, StreamLine
    <2> HIDE DEF st
    <2> QED
      BY <1>1, <2>2, OpUpdates
  <1> HIDE DEF begun, grown
  <1> QED
    BY <1>1, <1>3, <1>4, WriteBufferedSegmentType

\* writeProgress keeps the bounds.
LEMMA WriteProgressType ==
  ASSUME NEW op \in Ops, NEW a \in Piece
  PROVE  WriteProgress(op, a) \in Ops
  <1> DEFINE w == Write(op, a)
  <1>1. w \in Ops /\ w.stream \in BoundedStream
    BY WriteType, OpFields
  <1>2. WriteProgress(op, a) =
          IF w.failed THEN w
          ELSE [w EXCEPT !.stream = [w.stream EXCEPT !.progressWritten = TRUE, !.recent = TRUE]]
    BY DEF WriteProgress
  <1> HIDE DEF w
  <1>3. [w.stream EXCEPT !.progressWritten = TRUE, !.recent = TRUE] \in BoundedStream
    BY <1>1, StreamProgress
  <1> QED
    BY <1>1, <1>2, <1>3, OpUpdates

\* A carriage return on an empty line keeps the bounds.
LEMMA CarriageReturnType ==
  ASSUME NEW op \in Ops
  PROVE  CarriageReturnWithoutLine(op) \in Ops
  <1>1. op.stream \in BoundedStream
    BY OpFields
  <1>2. [ResetLogicalLine(op.stream) EXCEPT !.progressWritten = TRUE, !.recent = TRUE]
          \in BoundedStream
    BY <1>1, ResetLogicalLineType, StreamProgress
  <1>3. [op EXCEPT !.stream = [ResetLogicalLine(@) EXCEPT !.progressWritten = TRUE,
                                                          !.recent = TRUE]] \in Ops
    BY <1>2, OpUpdates
  <1>4. WriteProgress(op, << >>) \in Ops
    BY EmptyPiece, WriteProgressType
  <1> QED
    BY <1>3, <1>4 DEF CarriageReturnWithoutLine

\* A carriage return makes the line the update: both are within the bound.
LEMMA ProgressUpdateType ==
  ASSUME NEW op \in Ops
  PROVE  ProgressUpdate(op) \in Ops
  <1> DEFINE moved == [op EXCEPT !.stream = [@ EXCEPT !.progress = op.stream.line, !.line = << >>,
                                                      !.progressWritten = FALSE]]
  <1>1. op.stream \in BoundedStream /\ op.stream.line \in Piece
    BY OpFields, StreamFields
  <1>2. moved \in Ops
    <2>1. FALSE \in BOOLEAN
      OBVIOUS
    <2>2. [op.stream EXCEPT !.progress = op.stream.line, !.line = << >>,
                            !.progressWritten = FALSE] \in BoundedStream
      BY <1>1, <2>1, EmptyPiece, StreamMoved
    <2> QED
      BY <2>2, OpUpdates
  <1> HIDE DEF moved
  <1>3. moved.stream.progress \in Piece
    BY <1>2, OpFields, StreamFields
  <1>4. ProgressUpdate(op) =
          IF op.stream.line = << >> THEN CarriageReturnWithoutLine(op)
          ELSE IF op.stream.recent THEN moved ELSE WriteProgress(moved, moved.stream.progress)
    BY DEF ProgressUpdate, moved
  <1> QED
    BY <1>2, <1>3, <1>4, CarriageReturnType, WriteProgressType

\* finishLine writes the line, or the update, that is held back.
LEMMA FinishLineType ==
  ASSUME NEW op \in Ops
  PROVE  FinishLine(op) \in Ops
  <1> DEFINE a == IF op.stream.line = << >> THEN op.stream.progress ELSE op.stream.line
             w == Write(op, a)
  <1>1. op.stream \in BoundedStream /\ a \in Piece
    BY OpFields, StreamFields
  <1>2. w \in Ops /\ w.stream \in BoundedStream
    BY <1>1, WriteType, OpFields
  <1>3. FinishLine(op) =
          IF NothingLeft(op.stream) THEN [op EXCEPT !.stream = ResetLogicalLine(op.stream)]
          ELSE IF w.failed THEN w ELSE [w EXCEPT !.stream = ResetLogicalLine(w.stream)]
    BY DEF FinishLine
  <1> HIDE DEF w, a
  <1> QED
    BY <1>1, <1>2, <1>3, ResetLogicalLineType, OpUpdates

\* The history starts over with the logical line.
LEMMA OverType ==
  ASSUME NEW op \in Ops, NEW f \in BOOLEAN
  PROVE  Over(op, f) \in Ops
  <1> DEFINE e == IF op.writer.writeErr THEN None
                  ELSE [over |-> TRUE, text |-> op.stream.text, shown |-> op.stream.shown,
                        flushed |-> f]
  <1>1. op.stream \in BoundedStream /\ op.stream.text \in Seq(Taken)
          /\ op.stream.shown \in Seq(Piece)
    BY OpFields DEF BoundedStream
  <1>2. e \in Ended
    BY <1>1 DEF Ended
  <1>3. Over(op, f) = IF op.failed THEN op
                      ELSE [op EXCEPT !.stream = [op.stream EXCEPT !.text = << >>, !.shown = << >>,
                                                                   !.ended = e]]
    BY DEF Over
  <1> HIDE DEF e
  <1>4. [op.stream EXCEPT !.text = << >>, !.shown = << >>, !.ended = e] \in BoundedStream
    <2>1. << >> \in Seq(Taken) /\ << >> \in Seq(Piece)
      OBVIOUS
    <2> QED
      BY <1>1, <1>2, <2>1 DEF BoundedStream
  <1> QED
    BY <1>3, <1>4, OpUpdates

\* The history records a character.
LEMMA SeenType ==
  ASSUME NEW op \in Ops, NEW c \in Taken
  PROVE  Seen(op, c) \in Ops
  <1>1. op.stream \in BoundedStream /\ None \in Ended
    BY OpFields DEF Ended
  <1>2. Append(op.stream.text, c) \in Seq(Taken)
    BY <1>1 DEF BoundedStream
  <1> DEFINE st == [op.stream EXCEPT !.text = Append(op.stream.text, c), !.ended = None]
  <1>3. st \in BoundedStream
    BY <1>1, <1>2 DEF BoundedStream
  <1>4. Seen(op, c) = [op EXCEPT !.stream = st]
    BY DEF Seen
  <1> HIDE DEF st
  <1> QED
    BY <1>3, <1>4, OpUpdates

\* acceptVisible takes what is printable, and nothing else of ASCII.
LEMMA PrintableIsText ==
  ASSUME NEW c \in Character
  PROVE  /\ c = <<13>> => c \in Taken
         /\ Printable(c) => c \in Letter /\ c \in Taken
  <1>1. c = <<13>> => c \in Taken
    BY DEF Taken
  <1>2. Printable(c) => Textual(c)
    <2>1. c \in Seq(Byte) /\ Len(c) \in Nat /\ 1 <= Len(c)
      BY DEF Character
    <2>2. c[1] \in Byte
      BY <2>1
    <2>3. CASE Len(c) > 1
      <3>1. Len(c) # 1
        BY <2>1, <2>3, Lengths, Zenon
      <3> QED
        BY <3>1, Zenon DEF Character
    <2>4. CASE Len(c) = 1
      <3>1. Textual(c) \/ c[1] < 128
        BY <2>4 DEF Character
      <3>2. c[1] = 9 => c = <<9>>
        BY <2>1, <2>4
      <3>3. Printable(c) /\ c[1] < 128 => c[1] = 9 \/ c[1] \in 32..126
        BY <2>2, <2>4 DEF Printable, Byte
      <3> QED
        BY <2>4, <3>1, <3>2, <3>3 DEF Textual
    <2> QED
      BY <2>1, <2>3, <2>4
  <1> QED
    BY <1>1, <1>2 DEF Letter, Taken

\* acceptVisible, for a newline, a carriage return and any other character.
LEMMA AcceptCharacterType ==
  ASSUME NEW op \in Ops, NEW c \in Character
  PROVE  AcceptCharacter(op, c) \in Ops
  <1>1. Over(FinishLine(op), FALSE) \in Ops
    BY FinishLineType, OverType
  <1>2. c = <<13>> => ProgressUpdate(Seen(op, c)) \in Ops
    BY PrintableIsText, SeenType, ProgressUpdateType
  <1>3. Printable(c) => AppendVisible(Seen(op, c), c) \in Ops
    BY PrintableIsText, SeenType, AppendVisibleType
  <1> QED
    BY <1>1, <1>2, <1>3 DEF AcceptCharacter

\* acceptSanitized: one character after the other, until one fails.
LEMMA AcceptSanitizedType ==
  ASSUME NEW op \in Ops, NEW visible \in Visible
  PROVE  AcceptSanitized(op, visible) \in Ops
  <1> DEFINE first == AcceptCharacter(op, visible[1])
  <1>1. visible \in Seq(Character) /\ Len(visible) \in Nat /\ Len(visible) <= 2
    BY DEF Visible
  <1> SUFFICES ASSUME visible # << >>
               PROVE  AcceptSecond(first, visible) \in Ops
    BY DEF AcceptSanitized
  <1>2. Len(visible) # 0
    BY <1>1, EmptySeq
  <1>3. Len(visible) = 1 \/ Len(visible) = 2
    <2>1. \A n \in Nat : n <= 2 /\ n # 0 => n = 1 \/ n = 2
      OBVIOUS
    <2> QED
      BY <1>1, <1>2, <2>1, Zenon
  <1>4. visible[1] \in Character /\ (Len(visible) = 2 => visible[2] \in Character)
    BY <1>1, <1>3, ElementOfSeq
  <1>5. first \in Ops
    BY <1>4, AcceptCharacterType
  <1> HIDE DEF first
  <1>6. Len(visible) = 2 => AcceptCharacter(first, visible[2]) \in Ops
    BY <1>4, <1>5, AcceptCharacterType
  <1> QED
    BY <1>3, <1>5, <1>6 DEF AcceptSecond

\* accept: a byte is cleaned and what becomes visible is taken.
LEMMA AcceptType ==
  ASSUME NEW op \in Ops, NEW v \in Byte
  PROVE  Accept(op, v) \in Ops
  <1> DEFINE cleaned == Clean(op.stream.sanitizer, v)
  <1>1. cleaned.sanitizer \in Sanitizers /\ cleaned.visible \in Visible
    BY OpFields, StreamFields, CleanType DEF Results
  <1> HIDE DEF cleaned
  <1>2. [op EXCEPT !.stream = [op.stream EXCEPT !.sanitizer = cleaned.sanitizer]] \in Ops
    BY <1>1, OpFields, StreamSanitizer, OpUpdates
  <1> QED
    BY <1>1, <1>2, AcceptSanitizedType DEF Accept, cleaned

\* What flush does with the line once the sanitizer is finished.
LEMMA FlushLineType ==
  ASSUME NEW op \in Ops
  PROVE  FlushLine(op) \in Ops
  <1>1. TRUE \in BOOLEAN
    OBVIOUS
  <1>2. Over(FinishLine(op), TRUE) \in Ops
    BY <1>1, FinishLineType, OverType
  <1>3. Over([op EXCEPT !.stream = ResetLogicalLine(op.stream)], TRUE) \in Ops
    BY <1>1, OpFields, ResetLogicalLineType, OpUpdates, OverType
  <1> QED
    BY <1>2, <1>3 DEF FlushLine

\* flush keeps the bounds.
LEMMA FlushType ==
  ASSUME NEW op \in Ops
  PROVE  Flush(op) \in Ops
  <1> DEFINE finish == Finish(op.stream.sanitizer)
             rest == [op EXCEPT !.stream = [op.stream EXCEPT !.sanitizer = finish.sanitizer]]
  <1>1. finish.sanitizer \in Sanitizers /\ finish.visible \in Visible
    BY OpFields, StreamFields, FinishType DEF Results
  <1>2. Flush(op) = FlushLine(AcceptSanitized(rest, finish.visible))
    BY DEF Flush
  <1> HIDE DEF finish
  <1>3. rest \in Ops
    BY <1>1, OpFields, StreamSanitizer, OpUpdates
  <1> HIDE DEF rest
  <1>4. AcceptSanitized(rest, finish.visible) \in Ops
    BY <1>1, <1>3, AcceptSanitizedType
  <1> QED
    BY <1>2, <1>4, FlushLineType

-----------------------------------------------------------------------------
(* PlainTextOutput                                                         *)

\* An operation begins with a stream and its writer.
LEMMA OpType ==
  ASSUME NEW st \in BoundedStream, NEW w \in Writers
  PROVE  Op(st, w) \in Ops
  BY DEF Op, Ops

\* An error is counted.
LEMMA ReportedType ==
  ASSUME NEW w \in Writers, NEW f \in BOOLEAN
  PROVE  Reported(w, f) \in Writers
  BY DEF Reported, Writers

-----------------------------------------------------------------------------
(* What an operation does to its writer, and to the sanitizer              *)

\* A writer as an operation finds it: one that has failed is finalizing.
Owned == {w \in Writers : w.writeErr => w.finalizing}

\* The operation has failed because a write of it has, or no write of it has.
After(op, w, s) ==
  /\ op \in Ops /\ op.stream.sanitizer = s
  /\ op.writer.reports = w.reports /\ op.writer.finalizing = w.finalizing
  /\ IF op.failed THEN ~w.writeErr /\ op.writer.writeErr ELSE op.writer.writeErr = w.writeErr

\* An operation that is not yet known to fail.
Going(op, w, s) == After(op, w, s) /\ ~op.failed

\* A change of the stream that leaves the sanitizer alone.
LEMMA UpdateAfter ==
  ASSUME NEW w \in Owned, NEW s, NEW op, After(op, w, s), NEW st \in BoundedStream,
         st.sanitizer = s
  PROVE  /\ After([op EXCEPT !.stream = st], w, s)
         /\ [op EXCEPT !.stream = st].failed = op.failed
         /\ [op EXCEPT !.stream = st].stream = st
  <1>1. /\ [op EXCEPT !.stream = st] \in Ops
        /\ [op EXCEPT !.stream = st].stream = st
        /\ [op EXCEPT !.stream = st].failed = op.failed
    BY OpUpdates DEF After
  <1>2. [op EXCEPT !.stream = st].writer = op.writer
    BY DEF After, Ops
  <1> QED
    BY <1>1, <1>2 DEF After

\* writeLine: a writer that failed before, one that fails now, one that writes.
LEMMA WriteLineAfter ==
  ASSUME NEW w \in Owned
  PROVE  /\ WriteLine(w).writer.reports = w.reports
         /\ WriteLine(w).writer.finalizing = w.finalizing
         /\ IF WriteLine(w).failed THEN ~w.writeErr /\ WriteLine(w).writer.writeErr
            ELSE WriteLine(w).writer.writeErr = w.writeErr
  <1>1. CASE w.writeErr
    <2>1. WriteLine(w).writer = w /\ WriteLine(w).failed = ~w.finalizing
      BY <1>1 DEF WriteLine
    <2>2. w.finalizing
      BY <1>1 DEF Owned
    <2>3. ~WriteLine(w).failed
      BY <2>1, <2>2
    <2> QED
      BY <2>1, <2>3
  <1>2. CASE ~w.writeErr /\ w.room = 0
    <2>1. WriteLine(w) = [writer |-> [w EXCEPT !.writeErr = TRUE], failed |-> TRUE, written |-> FALSE]
      BY <1>2 DEF WriteLine
    <2> QED
      BY <1>2, <2>1 DEF Owned, Writers
  <1>3. CASE ~w.writeErr /\ w.room # 0
    <2>1. WriteLine(w) = [writer |-> [w EXCEPT !.room = IF @ = Unlimited THEN @ ELSE @ - 1],
                          failed |-> FALSE, written |-> TRUE]
      BY <1>3 DEF WriteLine
    <2> QED
      BY <1>3, <2>1 DEF Owned, Writers
  <1> QED
    BY <1>1, <1>2, <1>3

\* A line is written, or not.
LEMMA WriteAfter ==
  ASSUME NEW w \in Owned, NEW s, NEW op, Going(op, w, s), NEW a \in Piece
  PROVE  After(Write(op, a), w, s)
  <1>1. /\ op \in Ops /\ op.stream \in BoundedStream /\ op.writer \in Owned
        /\ op.writer.reports = w.reports /\ op.writer.finalizing = w.finalizing
        /\ op.writer.writeErr = w.writeErr /\ op.stream.sanitizer = s
    BY OpFields DEF Going, After, Owned
  <1>2. Write(op, a) \in Ops
    BY <1>1, WriteType
  <1>3. /\ Write(op, a).writer = WriteLine(op.writer).writer
        /\ Write(op, a).failed = WriteLine(op.writer).failed
    BY DEF Write
  <1>4. Write(op, a).stream.sanitizer = s
    <2>1. [op.stream EXCEPT !.shown = Append(@, a)].sanitizer = s
      BY <1>1 DEF BoundedStream
    <2> QED
      BY <1>1, <2>1 DEF Write
  <1> QED
    BY <1>1, <1>2, <1>3, <1>4, WriteLineAfter DEF After

\* resetLogicalLine empties the line and the update.
LEMMA ResetFields ==
  ASSUME NEW st \in BoundedStream
  PROVE  /\ ResetLogicalLine(st) \in BoundedStream
         /\ ResetLogicalLine(st).sanitizer = st.sanitizer
         /\ ResetLogicalLine(st).line = << >> /\ ResetLogicalLine(st).progress = << >>
  <1>1. ResetLogicalLine(st) \in BoundedStream
    BY ResetLogicalLineType
  <1> QED
    BY <1>1 DEF ResetLogicalLine, BoundedStream

\* A segment is written.
LEMMA SegmentAfter ==
  ASSUME NEW w \in Owned, NEW s, NEW op, Going(op, w, s)
  PROVE  After(WriteBufferedSegment(op), w, s)
  <1> DEFINE x == Write(op, op.stream.line)
             st == [x.stream EXCEPT !.line = << >>, !.progress = << >>,
                                    !.progressWritten = FALSE, !.segmentWritten = TRUE]
  <1>1. After(x, w, s)
    <2>1. op.stream.line \in Piece
      BY OpFields, StreamFields DEF Going, After
    <2> QED
      BY <2>1, WriteAfter
  <1>2. WriteBufferedSegment(op) = IF x.failed THEN x ELSE [x EXCEPT !.stream = st]
    BY DEF WriteBufferedSegment
  <1> HIDE DEF x
  <1>3. x.stream \in BoundedStream /\ x.stream.sanitizer = s
    BY <1>1, OpFields DEF After
  <1>4. st \in BoundedStream /\ st.sanitizer = s
    <2>1. TRUE \in BOOLEAN /\ FALSE \in BOOLEAN
      OBVIOUS
    <2>2. st \in BoundedStream
      BY <1>3, <2>1, EmptyPiece, StreamSegment
    <2> QED
      BY <1>3, <2>2 DEF BoundedStream
  <1> HIDE DEF st
  <1> QED
    BY <1>1, <1>2, <1>4, UpdateAfter

\* A character is added to the line.
LEMMA AppendVisibleAfter ==
  ASSUME NEW w \in Owned, NEW s, NEW op, Going(op, w, s), NEW c \in Letter
  PROVE  After(AppendVisible(op, c), w, s)
  <1> DEFINE full == op.stream.line # << >> /\ Len(op.stream.line) + Len(c) > MaxLine
             begun == IF full THEN WriteBufferedSegment(op) ELSE op
             st == [begun.stream EXCEPT !.line = begun.stream.line \o c]
             grown == [begun EXCEPT !.stream = st]
  <1>1. After(begun, w, s)
    BY SegmentAfter DEF Going
  <1>2. AppendVisible(op, c) =
          IF begun.failed THEN begun
          ELSE IF Len(grown.stream.line) < MaxLine THEN grown ELSE WriteBufferedSegment(grown)
    BY DEF AppendVisible
  <1>3. begun.failed \/ begun.stream.line \o c \in Piece
    <2>1. op \in Ops /\ op.stream.line \in Piece
      BY OpFields, StreamFields DEF Going, After
    <2>2. CASE full
      <3>1. begun = WriteBufferedSegment(op)
        BY <2>2
      <3> QED
        BY <2>1, <3>1, CharacterFits, WriteBufferedSegmentType
    <2>3. CASE op.stream.line = << >>
      <3>1. begun = op
        BY <2>3
      <3> QED
        BY <2>3, <3>1, CharacterFits
    <2>4. CASE ~full /\ op.stream.line # << >>
      <3>1. begun = op /\ ~(Len(op.stream.line) + Len(c) > MaxLine)
        BY <2>4
      <3> QED
        BY <2>1, <3>1, LineFits
    <2> QED
      BY <2>2, <2>3, <2>4
  <1> HIDE DEF begun
  <1>4. begun.stream \in BoundedStream /\ begun.stream.sanitizer = s
    BY <1>1, OpFields DEF After
  <1>5. begun.failed \/ (st \in BoundedStream /\ st.sanitizer = s)
    <2>1. begun.failed \/ st \in BoundedStream
      BY <1>3, <1>4, StreamLine
    <2>2. st.sanitizer = begun.stream.sanitizer
      BY <1>4 DEF BoundedStream
    <2> QED
      BY <1>4, <2>1, <2>2
  <1> HIDE DEF st
  <1>6. begun.failed \/ Going(grown, w, s)
    BY <1>1, <1>5, UpdateAfter DEF Going
  <1> HIDE DEF grown
  <1> QED
    BY <1>1, <1>2, <1>6, SegmentAfter DEF Going

\* An update is written.
LEMMA WriteProgressAfter ==
  ASSUME NEW w \in Owned, NEW s, NEW op, Going(op, w, s), NEW a \in Piece
  PROVE  After(WriteProgress(op, a), w, s)
  <1> DEFINE x == Write(op, a)
             st == [x.stream EXCEPT !.progressWritten = TRUE, !.recent = TRUE]
  <1>1. After(x, w, s)
    BY WriteAfter
  <1>2. WriteProgress(op, a) = IF x.failed THEN x ELSE [x EXCEPT !.stream = st]
    BY DEF WriteProgress
  <1> HIDE DEF x
  <1>3. x.stream \in BoundedStream /\ x.stream.sanitizer = s
    BY <1>1, OpFields DEF After
  <1>4. st \in BoundedStream /\ st.sanitizer = s
    BY <1>3, StreamProgress DEF BoundedStream
  <1> HIDE DEF st
  <1> QED
    BY <1>1, <1>2, <1>4, UpdateAfter

\* A carriage return.
LEMMA ProgressUpdateAfter ==
  ASSUME NEW w \in Owned, NEW s, NEW op, Going(op, w, s)
  PROVE  After(ProgressUpdate(op), w, s)
  <1>1. op \in Ops /\ op.stream \in BoundedStream /\ op.stream.sanitizer = s /\ After(op, w, s)
    BY OpFields DEF Going, After
  <1>2. After(CarriageReturnWithoutLine(op), w, s)
    <2> DEFINE st == [ResetLogicalLine(op.stream) EXCEPT !.progressWritten = TRUE,
                                                         !.recent = TRUE]
    <2>1. st \in BoundedStream /\ st.sanitizer = s
      <3>1. ResetLogicalLine(op.stream) \in BoundedStream
              /\ ResetLogicalLine(op.stream).sanitizer = s
        BY <1>1, ResetFields
      <3> QED
        BY <3>1, StreamProgress DEF BoundedStream
    <2>2. CarriageReturnWithoutLine(op)
            \in {op, [op EXCEPT !.stream = st], WriteProgress(op, << >>)}
      BY DEF CarriageReturnWithoutLine
    <2> HIDE DEF st
    <2> QED
      BY <1>1, <2>1, <2>2, UpdateAfter, WriteProgressAfter, EmptyPiece
  <1> DEFINE mv == [op.stream EXCEPT !.progress = op.stream.line, !.line = << >>,
                                     !.progressWritten = FALSE]
             moved == [op EXCEPT !.stream = mv]
  <1>3. mv \in BoundedStream /\ mv.sanitizer = s
    <2>1. FALSE \in BOOLEAN /\ op.stream.line \in Piece
      BY <1>1, StreamFields
    <2>2. mv \in BoundedStream
      BY <1>1, <2>1, EmptyPiece, StreamMoved
    <2> QED
      BY <1>1, <2>2 DEF BoundedStream
  <1>4. ProgressUpdate(op) =
          IF op.stream.line = << >> THEN CarriageReturnWithoutLine(op)
          ELSE IF op.stream.recent THEN moved ELSE WriteProgress(moved, moved.stream.progress)
    BY DEF ProgressUpdate
  <1> HIDE DEF mv
  <1>5. Going(moved, w, s)
    BY <1>1, <1>3, UpdateAfter DEF Going
  <1> HIDE DEF moved
  <1>6. moved.stream.progress \in Piece
    BY <1>5, OpFields, StreamFields DEF Going, After
  <1> QED
    BY <1>2, <1>4, <1>5, <1>6, WriteProgressAfter DEF Going

\* finishLine: without an error nothing is left of the line and of the update.
LEMMA FinishLineAfter ==
  ASSUME NEW w \in Owned, NEW s, NEW op, Going(op, w, s)
  PROVE  /\ After(FinishLine(op), w, s)
         /\ FinishLine(op).failed \/ (/\ FinishLine(op).stream.line = << >>
                                      /\ FinishLine(op).stream.progress = << >>)
  <1> DEFINE a == IF op.stream.line = << >> THEN op.stream.progress ELSE op.stream.line
             x == Write(op, a)
  <1>1. op.stream \in BoundedStream /\ op.stream.sanitizer = s /\ a \in Piece
    BY OpFields, StreamFields DEF Going, After
  <1>2. After(x, w, s)
    BY <1>1, WriteAfter
  <1>3. FinishLine(op) =
          IF NothingLeft(op.stream) THEN [op EXCEPT !.stream = ResetLogicalLine(op.stream)]
          ELSE IF x.failed THEN x ELSE [x EXCEPT !.stream = ResetLogicalLine(x.stream)]
    BY DEF FinishLine
  <1> HIDE DEF x, a
  <1>4. x.stream \in BoundedStream /\ x.stream.sanitizer = s
    BY <1>2, OpFields DEF After
  <1> QED
    BY <1>1, <1>2, <1>3, <1>4, ResetFields, UpdateAfter DEF Going

\* The logical line is over: nothing is left of its text either.
LEMMA OverAfter ==
  ASSUME NEW w \in Owned, NEW s, NEW op, After(op, w, s), NEW f \in BOOLEAN
  PROVE  /\ After(Over(op, f), w, s)
         /\ Over(op, f).failed = op.failed
         /\ op.failed \/ (/\ Over(op, f).stream.text = << >>
                          /\ Over(op, f).stream.line = op.stream.line
                          /\ Over(op, f).stream.progress = op.stream.progress)
  <1> DEFINE e == IF op.writer.writeErr THEN None
                  ELSE [over |-> TRUE, text |-> op.stream.text, shown |-> op.stream.shown,
                        flushed |-> f]
             st == [op.stream EXCEPT !.text = << >>, !.shown = << >>, !.ended = e]
  <1>1. Over(op, f) = IF op.failed THEN op ELSE [op EXCEPT !.stream = st]
    BY DEF Over
  <1>2. op.stream \in BoundedStream /\ op.stream.sanitizer = s
    BY OpFields DEF After
  <1>3. e \in Ended
    BY <1>2 DEF Ended, BoundedStream
  <1> HIDE DEF e
  <1>4. /\ st \in BoundedStream /\ st.sanitizer = s /\ st.text = << >>
        /\ st.line = op.stream.line /\ st.progress = op.stream.progress
    <2>1. << >> \in Seq(Taken) /\ << >> \in Seq(Piece)
      OBVIOUS
    <2> QED
      BY <1>2, <1>3, <2>1 DEF BoundedStream
  <1> HIDE DEF st
  <1> QED
    BY <1>1, <1>4, UpdateAfter

\* The history records a character.
LEMMA SeenAfter ==
  ASSUME NEW w \in Owned, NEW s, NEW op, Going(op, w, s), NEW c \in Taken
  PROVE  Going(Seen(op, c), w, s)
  <1>1. op.stream \in BoundedStream /\ op.stream.sanitizer = s /\ None \in Ended
    BY OpFields DEF Going, After, Ended
  <1> DEFINE st == [op.stream EXCEPT !.text = Append(op.stream.text, c), !.ended = None]
  <1>2. st \in BoundedStream /\ st.sanitizer = s
    <2>1. Append(op.stream.text, c) \in Seq(Taken)
      BY <1>1 DEF BoundedStream
    <2> QED
      BY <1>1, <2>1 DEF BoundedStream
  <1>3. Seen(op, c) = [op EXCEPT !.stream = st]
    BY DEF Seen
  <1> HIDE DEF st
  <1> QED
    BY <1>2, <1>3, UpdateAfter DEF Going

\* acceptVisible
LEMMA AcceptCharacterAfter ==
  ASSUME NEW w \in Owned, NEW s, NEW op, Going(op, w, s), NEW c \in Character
  PROVE  After(AcceptCharacter(op, c), w, s)
  <1>1. After(Over(FinishLine(op), FALSE), w, s)
    BY FinishLineAfter, OverAfter
  <1>2. c = <<13>> => After(ProgressUpdate(Seen(op, c)), w, s)
    BY PrintableIsText, SeenAfter, ProgressUpdateAfter
  <1>3. Printable(c) => After(AppendVisible(Seen(op, c), c), w, s)
    BY PrintableIsText, SeenAfter, AppendVisibleAfter
  <1>4. After(op, w, s)
    BY DEF Going
  <1> QED
    BY <1>1, <1>2, <1>3, <1>4 DEF AcceptCharacter

\* acceptSanitized stops at an error.
LEMMA AcceptSanitizedAfter ==
  ASSUME NEW w \in Owned, NEW s, NEW op, Going(op, w, s), NEW visible \in Visible
  PROVE  After(AcceptSanitized(op, visible), w, s)
  <1> DEFINE first == AcceptCharacter(op, visible[1])
  <1>1. visible \in Seq(Character) /\ Len(visible) \in Nat /\ Len(visible) <= 2
    BY DEF Visible
  <1> SUFFICES ASSUME visible # << >>
               PROVE  After(AcceptSecond(first, visible), w, s)
    BY DEF AcceptSanitized, Going
  <1>2. Len(visible) # 0
    BY <1>1, EmptySeq
  <1>3. Len(visible) = 1 \/ Len(visible) = 2
    <2>1. \A n \in Nat : n <= 2 /\ n # 0 => n = 1 \/ n = 2
      OBVIOUS
    <2> QED
      BY <1>1, <1>2, <2>1, Zenon
  <1>4. visible[1] \in Character /\ (Len(visible) = 2 => visible[2] \in Character)
    BY <1>1, <1>3, ElementOfSeq
  <1>5. After(first, w, s)
    BY <1>4, AcceptCharacterAfter
  <1> HIDE DEF first
  <1>6. Len(visible) = 2 /\ ~first.failed => After(AcceptCharacter(first, visible[2]), w, s)
    BY <1>4, <1>5, AcceptCharacterAfter DEF Going
  <1> QED
    BY <1>3, <1>5, <1>6 DEF AcceptSecond

\* accept: an error of it is a write that failed.
LEMMA AcceptAfter ==
  ASSUME NEW w \in Owned, NEW st \in BoundedStream, NEW v \in Byte
  PROVE  \E s : After(Accept(Op(st, w), v), w, s)
  <1> DEFINE cleaned == Clean(st.sanitizer, v)
             begun == [Op(st, w) EXCEPT !.stream = [st EXCEPT !.sanitizer = cleaned.sanitizer]]
  <1>1. cleaned.sanitizer \in Sanitizers /\ cleaned.visible \in Visible
    BY StreamFields, CleanType DEF Results
  <1>2. Accept(Op(st, w), v) = AcceptSanitized(begun, cleaned.visible)
    BY DEF Accept, Op
  <1> HIDE DEF cleaned
  <1>3. Going(begun, w, cleaned.sanitizer)
    <2>1. Op(st, w) \in Ops
      BY OpType DEF Owned
    <2>2. [st EXCEPT !.sanitizer = cleaned.sanitizer] \in BoundedStream
      BY <1>1, StreamSanitizer
    <2>3. [st EXCEPT !.sanitizer = cleaned.sanitizer].sanitizer = cleaned.sanitizer
      BY DEF BoundedStream
    <2>4. /\ begun.stream = [st EXCEPT !.sanitizer = cleaned.sanitizer]
          /\ begun.writer = w /\ ~begun.failed
      <3>1. DOMAIN Op(st, w) = {"stream", "writer", "failed"} /\ Op(st, w).writer = w
              /\ Op(st, w).failed = FALSE
        BY DEF Op
      <3> QED
        BY <2>1, <3>1 DEF Ops
    <2>5. begun \in Ops
      BY <2>1, <2>2, OpUpdates
    <2> QED
      BY <2>3, <2>4, <2>5 DEF Going, After
  <1> HIDE DEF begun
  <1> QED
    BY <1>1, <1>2, <1>3, AcceptSanitizedAfter

\* flush: an error of it is a write that failed; otherwise nothing is held back.
LEMMA FlushAfter ==
  ASSUME NEW w \in Owned, NEW st \in BoundedStream
  PROVE  /\ After(Flush(Op(st, w)), w, NewSanitizer)
         /\ Emptied(Flush(Op(st, w)).stream, Flush(Op(st, w)).writer)
  <1> DEFINE finish == Finish(st.sanitizer)
             begun == [Op(st, w) EXCEPT !.stream = [st EXCEPT !.sanitizer = NewSanitizer]]
             op == AcceptSanitized(begun, finish.visible)
  <1>1. finish.sanitizer = NewSanitizer /\ NewSanitizer \in Sanitizers /\ finish.visible \in Visible
    <2>1. finish \in Results
      BY StreamFields, FinishType
    <2> QED
      BY <2>1 DEF Results, Finish, Cleaned
  <1>2. Flush(Op(st, w)) = FlushLine(op)
    BY <1>1 DEF Flush, Op
  <1> HIDE DEF finish
  <1>3. Going(begun, w, NewSanitizer)
    <2>1. Op(st, w) \in Ops
      BY OpType DEF Owned
    <2>2. [st EXCEPT !.sanitizer = NewSanitizer] \in BoundedStream
      BY <1>1, StreamSanitizer
    <2>3. [st EXCEPT !.sanitizer = NewSanitizer].sanitizer = NewSanitizer
      BY DEF BoundedStream
    <2>4. /\ begun.stream = [st EXCEPT !.sanitizer = NewSanitizer]
          /\ begun.writer = w /\ ~begun.failed
      <3>1. DOMAIN Op(st, w) = {"stream", "writer", "failed"} /\ Op(st, w).writer = w
              /\ Op(st, w).failed = FALSE
        BY DEF Op
      <3> QED
        BY <2>1, <3>1 DEF Ops
    <2>5. begun \in Ops
      BY <2>1, <2>2, OpUpdates
    <2> QED
      BY <2>3, <2>4, <2>5 DEF Going, After
  <1> HIDE DEF begun
  <1>4. After(op, w, NewSanitizer)
    BY <1>1, <1>3, AcceptSanitizedAfter
  <1> HIDE DEF op
  <1> DEFINE z == FlushLine(op)
  <1>5. /\ After(z, w, NewSanitizer)
        /\ z.failed \/ (z.stream.text = << >> /\ z.stream.line = << >> /\ z.stream.progress = << >>)
    <2>1. CASE op.failed
      BY <1>4, <2>1 DEF FlushLine
    <2>2. CASE ~op.failed
      <3>1. Going(op, w, NewSanitizer) /\ TRUE \in BOOLEAN
        BY <1>4, <2>2 DEF Going
      <3> DEFINE line == FinishLine(op)
                 reset == [op EXCEPT !.stream = ResetLogicalLine(op.stream)]
      <3>2. z \in {Over(line, TRUE), Over(reset, TRUE)}
        BY <2>2 DEF FlushLine
      <3>3. /\ After(line, w, NewSanitizer)
            /\ line.failed \/ (line.stream.line = << >> /\ line.stream.progress = << >>)
        BY <3>1, FinishLineAfter
      <3>4. /\ After(reset, w, NewSanitizer)
            /\ reset.stream.line = << >> /\ reset.stream.progress = << >>
        <4>1. op.stream \in BoundedStream /\ op.stream.sanitizer = NewSanitizer
          BY <1>4, OpFields DEF After
        <4> QED
          BY <1>4, <4>1, ResetFields, UpdateAfter
      <3> HIDE DEF line, reset, z
      <3>5. CASE z = Over(line, TRUE)
        <4>1. /\ After(Over(line, TRUE), w, NewSanitizer) /\ Over(line, TRUE).failed = line.failed
              /\ line.failed \/ (/\ Over(line, TRUE).stream.text = << >>
                                 /\ Over(line, TRUE).stream.line = line.stream.line
                                 /\ Over(line, TRUE).stream.progress = line.stream.progress)
          BY <3>1, <3>3, OverAfter
        <4> QED
          BY <3>3, <3>5, <4>1
      <3>6. CASE z = Over(reset, TRUE)
        <4>1. /\ After(Over(reset, TRUE), w, NewSanitizer) /\ Over(reset, TRUE).failed = reset.failed
              /\ reset.failed \/ (/\ Over(reset, TRUE).stream.text = << >>
                                  /\ Over(reset, TRUE).stream.line = reset.stream.line
                                  /\ Over(reset, TRUE).stream.progress = reset.stream.progress)
          BY <3>1, <3>4, OverAfter
        <4> QED
          BY <3>4, <3>6, <4>1
      <3> QED
        BY <3>2, <3>5, <3>6
    <2> QED
      BY <2>1, <2>2
  <1>6. z.failed => z.writer.writeErr
    BY <1>5 DEF After
  <1>7. z.stream.sanitizer = NewSanitizer
    BY <1>5 DEF After
  <1> HIDE DEF z
  <1> QED
    BY <1>2, <1>5, <1>6, <1>7 DEF Emptied, z

-----------------------------------------------------------------------------
(* The actions                                                             *)

\* What PlainAssumption says of a scenario.
LEMMA ScenarioFacts ==
  ASSUME NEW s \in Scenarios
  PROVE  /\ s.keys \subseteq Keys /\ s.bytes \subseteq Byte
         /\ \A w \in Kinds : s.room[w] \in Nat \cup {Unlimited}
  BY PlainAssumption

\* Every transfer has two streams, each with its writer.
LEMMA KeyFacts ==
  /\ "stdout" \in Kinds /\ "stderr" \in Kinds
  /\ \A k \in Keys : k[2] \in Kinds
  /\ \A t \in Transfers : <<t, "stdout">> \in Keys /\ <<t, "stderr">> \in Keys
  BY DEF Keys, Kinds

\* New streams are within the bounds.
LEMMA InitLemma == PlainInit => PlainInv
  <1> SUFFICES ASSUME PlainInit PROVE PlainInv
    OBVIOUS
  <1>1. scenario \in Scenarios /\ next = 1 /\ stage = "new"
    BY DEF PlainInit
  <1>2. next \in Transfers
    BY <1>1, PlainAssumption DEF Transfers
  <1>3. NewStream \in BoundedStream
    <2>1. /\ NewSanitizer \in Sanitizers
      BY UnfinishedFacts DEF Sanitizers, NewSanitizer, Sequences8
    <2>2. << >> \in Seq(Taken) /\ << >> \in Seq(Piece) /\ None \in Ended
      BY DEF Ended
    <2> QED
      BY <2>1, <2>2, EmptyPiece DEF BoundedStream, NewStream
  <1>4. streams \in [Keys -> BoundedStream]
    BY <1>3 DEF PlainInit
  <1>5. \A w \in Kinds : NewWriter(scenario.room[w]) \in Writers
    BY <1>1, ScenarioFacts DEF NewWriter, Writers
  <1>6. writers \in [Kinds -> Writers]
    BY <1>5 DEF PlainInit
  <1> QED
    BY <1>1, <1>2, <1>4, <1>6 DEF PlainInv

\* Begin preserves PlainInv.
LEMMA BeginLemma == PlainInv /\ Begin => PlainInv'
  <1> SUFFICES ASSUME PlainInv, Begin PROVE PlainInv'
    OBVIOUS
  <1> DEFINE result == WriteLine(writers["stdout"])
  <1>1. writers \in [Kinds -> Writers] /\ writers["stdout"] \in Writers
    BY KeyFacts DEF PlainInv
  <1>2. Reported(result.writer, result.failed) \in Writers
    BY <1>1, WriteLineType, ReportedType
  <1>3. /\ writers' = [writers EXCEPT !["stdout"] = Reported(result.writer, result.failed)]
        /\ stage' = IF result.failed THEN "failed" ELSE "open"
        /\ UNCHANGED <<scenario, next, streams>>
    BY DEF Begin
  <1> HIDE DEF result
  <1>4. writers' \in [Kinds -> Writers]
    BY <1>1, <1>2, <1>3
  <1> QED
    BY <1>3, <1>4 DEF PlainInv

\* Show preserves PlainInv, for any byte of any stream.
LEMMA ShowLemma ==
  ASSUME PlainInv, NEW k \in Keys, NEW v \in scenario.bytes, Show(k, v)
  PROVE  PlainInv'
  <1> DEFINE op == Accept(Op(streams[k], writers[k[2]]), v)
  <1>1. v \in Byte
    BY ScenarioFacts DEF PlainInv
  <1>2. streams \in [Keys -> BoundedStream] /\ writers \in [Kinds -> Writers]
    BY DEF PlainInv
  <1>3. op \in Ops
    BY <1>1, <1>2, KeyFacts, OpType, AcceptType
  <1>4. /\ streams' = [streams EXCEPT ![k] = op.stream]
        /\ writers' = [writers EXCEPT ![k[2]] = Reported(op.writer, op.failed)]
        /\ stage' = IF op.failed THEN "failed" ELSE "open"
        /\ UNCHANGED <<scenario, next>>
    BY DEF Show
  <1> HIDE DEF op
  <1>5. op.stream \in BoundedStream /\ Reported(op.writer, op.failed) \in Writers
    BY <1>3, OpFields, ReportedType
  <1>6. streams' \in [Keys -> BoundedStream]
    BY <1>2, <1>4, <1>5
  <1>7. writers' \in [Kinds -> Writers]
    BY <1>2, <1>4, <1>5
  <1> QED
    BY <1>4, <1>6, <1>7 DEF PlainInv

\* Both streams of a transfer are flushed, whatever the first one returned.
LEMMA FlushedLemma ==
  ASSUME PlainInv, NEW t \in Transfers, Flushed(t, FlushTransfer(t))
  PROVE  streams' \in [Keys -> BoundedStream] /\ writers' \in [Kinds -> Writers]
  <1> DEFINE out == Flush(Op(streams[<<t, "stdout">>], writers["stdout"]))
             err == Flush(Op(streams[<<t, "stderr">>], writers["stderr"]))
  <1>1. streams \in [Keys -> BoundedStream] /\ writers \in [Kinds -> Writers]
    BY DEF PlainInv
  <1>2. out \in Ops /\ err \in Ops
    BY <1>1, KeyFacts, OpType, FlushType
  <1>3. FlushTransfer(t) = [stdout |-> out, stderr |-> err]
    BY DEF FlushTransfer
  <1> HIDE DEF out, err
  <1>4. /\ out.stream \in BoundedStream /\ Reported(out.writer, out.failed) \in Writers
        /\ err.stream \in BoundedStream /\ Reported(err.writer, err.failed) \in Writers
    BY <1>2, OpFields, ReportedType
  <1>5. /\ streams' = [streams EXCEPT ![<<t, "stdout">>] = out.stream,
                                      ![<<t, "stderr">>] = err.stream]
        /\ writers' = [w \in Kinds |-> Reported([stdout |-> out, stderr |-> err][w].writer,
                                                [stdout |-> out, stderr |-> err][w].failed)]
    BY <1>3 DEF Flushed
  <1>6. streams' \in [Keys -> BoundedStream]
    BY <1>1, <1>4, <1>5
  <1>7. \A w \in Kinds : Reported([stdout |-> out, stderr |-> err][w].writer,
                                  [stdout |-> out, stderr |-> err][w].failed) \in Writers
    BY <1>4 DEF Kinds
  <1> QED
    BY <1>5, <1>6, <1>7

\* The flush of an exited transfer preserves PlainInv.
LEMMA ShowExitedLemma ==
  ASSUME PlainInv, NEW t \in Transfers, ShowExited(t)
  PROVE  PlainInv'
  <1> DEFINE ops == FlushTransfer(t)
  <1>1. /\ Flushed(t, ops)
        /\ stage' = IF ops.stdout.failed \/ ops.stderr.failed THEN "failed" ELSE "open"
        /\ UNCHANGED <<scenario, next>>
    BY DEF ShowExited
  <1>2. streams' \in [Keys -> BoundedStream] /\ writers' \in [Kinds -> Writers]
    BY <1>1, FlushedLemma
  <1> HIDE DEF ops
  <1> QED
    BY <1>1, <1>2 DEF PlainInv

\* Close preserves PlainInv.
LEMMA CloseLemma == PlainInv /\ Close => PlainInv'
  <1> SUFFICES ASSUME PlainInv, Close PROVE PlainInv'
    OBVIOUS
  <1>1. \A w \in Writers : [w EXCEPT !.finalizing = TRUE] \in Writers
    BY DEF Writers
  <1>2. writers' \in [Kinds -> Writers]
    BY <1>1 DEF PlainInv, Close
  <1> QED
    BY <1>2 DEF PlainInv, Close

\* The flush of a transfer by Close preserves PlainInv.
LEMMA CloseTransferLemma == PlainInv /\ CloseTransfer => PlainInv'
  <1> SUFFICES ASSUME PlainInv, CloseTransfer PROVE PlainInv'
    OBVIOUS
  <1>1. next \in Transfers /\ Flushed(next, FlushTransfer(next))
    BY DEF PlainInv, CloseTransfer
  <1>2. streams' \in [Keys -> BoundedStream] /\ writers' \in [Kinds -> Writers]
    BY <1>1, FlushedLemma
  <1>3. N \in Nat
    BY PlainAssumption
  <1>4. next # N => next + 1 \in Transfers
    BY <1>1, <1>3 DEF Transfers
  <1>5. next' \in Transfers /\ stage' \in {"new", "open", "failed", "closing", "closed"}
          /\ scenario' = scenario
    BY <1>1, <1>4 DEF CloseTransfer
  <1> QED
    BY <1>2, <1>5 DEF PlainInv

\* The end of a progress interval preserves PlainInv.
LEMMA IntervalLemma ==
  ASSUME PlainInv, NEW k \in Keys, IntervalPasses(k)
  PROVE  PlainInv'
  <1>1. streams[k] \in BoundedStream /\ streams \in [Keys -> BoundedStream]
    BY DEF PlainInv
  <1>2. FALSE \in BOOLEAN
    OBVIOUS
  <1>3. [streams[k] EXCEPT !.recent = FALSE] \in BoundedStream
    BY <1>1, <1>2, StreamRecent
  <1>4. streams' = [streams EXCEPT ![k] = [streams[k] EXCEPT !.recent = FALSE]]
          /\ UNCHANGED <<scenario, stage, next, writers>>
    BY DEF IntervalPasses
  <1>5. streams' \in [Keys -> BoundedStream]
    BY <1>1, <1>3, <1>4
  <1> QED
    BY <1>4, <1>5 DEF PlainInv

\* Every state of the output is within the bounds.
LEMMA StepLemma == PlainInv /\ [PlainNext]_plainVars => PlainInv'
  <1> SUFFICES ASSUME PlainInv, [PlainNext]_plainVars PROVE PlainInv'
    OBVIOUS
  <1>1. CASE Begin
    BY <1>1, BeginLemma
  <1>2. CASE Close
    BY <1>2, CloseLemma
  <1>3. CASE CloseTransfer
    BY <1>3, CloseTransferLemma
  <1>4. ASSUME NEW t \in Transfers, ShowExited(t) PROVE PlainInv'
    BY <1>4, ShowExitedLemma
  <1>5. ASSUME NEW k \in Keys, IntervalPasses(k) PROVE PlainInv'
    BY <1>5, IntervalLemma
  <1>6. ASSUME NEW k \in Keys, NEW v \in scenario.bytes, Show(k, v) PROVE PlainInv'
    BY <1>6, ShowLemma
  <1>7. CASE UNCHANGED plainVars
    BY <1>7 DEF plainVars, PlainInv
  <1> QED
    BY <1>1, <1>2, <1>3, <1>4, <1>5, <1>6, <1>7 DEF PlainNext

\* What was taken and written of a logical line, of the present one and of one that
\* has just ended.
LEMMA HistoryFacts ==
  ASSUME PlainInv, NEW k \in Keys, NEW h \in Histories(streams[k])
  PROVE  /\ \A j \in DOMAIN h.text : h.text[j] \in Taken
         /\ \A j \in DOMAIN h.shown : h.shown[j] \in Piece
  <1> DEFINE st == streams[k]
  <1>1. st \in BoundedStream
    BY DEF PlainInv
  <1> HIDE DEF st
  <1>2. st.text \in Seq(Taken) /\ st.shown \in Seq(Piece) /\ st.ended \in Ended
    BY <1>1 DEF BoundedStream
  <1>3. st.ended.over => st.ended.text \in Seq(Taken) /\ st.ended.shown \in Seq(Piece)
    <2>1. CASE st.ended = None
      BY <2>1 DEF None
    <2>2. CASE st.ended # None
      <3>1. st.ended \in [over : {TRUE}, text : Seq(Taken), shown : Seq(Piece), flushed : BOOLEAN]
        BY <1>2, <2>2, Zenon DEF Ended
      <3> QED
        BY <3>1
    <2> QED
      BY <2>1, <2>2
  <1>4. h.text \in Seq(Taken) /\ h.shown \in Seq(Piece)
    BY <1>2, <1>3 DEF Histories, st
  <1> QED
    BY <1>4

\* PlainInv has the bounds in its types.
LEMMA InvBounded == PlainInv => Bounded
  <1> SUFFICES ASSUME PlainInv, NEW k \in Keys
               PROVE  /\ Len(streams[k].line) <= MaxLine
                      /\ Len(streams[k].progress) <= MaxLine
                      /\ \A h \in Histories(streams[k]) :
                           \A j \in DOMAIN h.shown : Len(h.shown[j]) <= MaxLine
                      /\ Len(streams[k].sanitizer.utf8) <= 3
    BY DEF Bounded
  <1>1. \A h \in Histories(streams[k]) :
          \A j \in DOMAIN h.shown : Len(h.shown[j]) <= MaxLine
    BY HistoryFacts DEF Piece
  <1> DEFINE st == streams[k]
  <1>2. st \in BoundedStream
    BY DEF PlainInv
  <1> HIDE DEF st
  <1>3. st.line \in Piece /\ st.progress \in Piece /\ st.sanitizer.utf8 \in Unfinished
    BY <1>2 DEF BoundedStream, Sanitizers
  <1>4. Len(st.line) <= MaxLine /\ Len(st.progress) <= MaxLine
    BY <1>3 DEF Piece
  <1>5. Len(st.sanitizer.utf8) <= 3
    BY <1>3 DEF Unfinished
  <1> QED
    BY <1>1, <1>4, <1>5 DEF st

\* ... and no control in them.
LEMMA InvControls == PlainInv => ControlsRemoved
  <1> SUFFICES ASSUME PlainInv, NEW k \in Keys, NEW h \in Histories(streams[k])
               PROVE  /\ \A j \in DOMAIN h.text : h.text[j] = <<13>> \/ Textual(h.text[j])
                      /\ \A j \in DOMAIN h.shown :
                           \A i \in DOMAIN h.shown[j] : h.shown[j][i] \notin Controls7
    BY DEF ControlsRemoved
  <1>1. \A j \in DOMAIN h.text : h.text[j] = <<13>> \/ Textual(h.text[j])
    BY HistoryFacts DEF Taken
  <1>2. ASSUME NEW x \in Piece PROVE \A i \in DOMAIN x : x[i] \notin Controls7
    BY DEF Piece, Glyph
  <1> QED
    BY <1>1, <1>2, HistoryFacts

-----------------------------------------------------------------------------
(* What is reported, and what Close leaves                                 *)

\* PlainInv with what Close settles.
OutputInv == PlainInv /\ SettledInv

\* A failure is counted once.
LEMMA ReportedOnce ==
  ASSUME NEW w \in Owned, NEW s, NEW op, After(op, w, s),
         w.reports = IF w.writeErr THEN 1 ELSE 0
  PROVE  LET r == Reported(op.writer, op.failed)
         IN /\ r.reports = IF r.writeErr THEN 1 ELSE 0
            /\ r.finalizing = w.finalizing /\ r.writeErr = op.writer.writeErr
            /\ w.writeErr => r.writeErr
            /\ ~op.failed => r.writeErr = w.writeErr
  <1>1. op.writer \in Writers
    BY OpFields DEF After
  <1>2. CASE op.failed
    <2>1. w.reports = 0 /\ op.writer.reports = 0 /\ op.writer.writeErr
      BY <1>2 DEF After
    <2>2. Reported(op.writer, op.failed) = [op.writer EXCEPT !.reports = 1]
      BY <1>2, <2>1 DEF Reported
    <2> QED
      BY <1>1, <1>2, <2>1, <2>2 DEF After, Writers
  <1>3. CASE ~op.failed
    BY <1>3 DEF After, Reported
  <1> QED
    BY <1>2, <1>3

\* A writer that fails stays failed: what was emptied stays so.
LEMMA EmptiedStays ==
  ASSUME NEW st, NEW w, NEW r, Emptied(st, w), w.writeErr => r.writeErr
  PROVE  Emptied(st, r)
  BY DEF Emptied

\* The writers as the operations of an open or closing output find them.
LEMMA WritersOwned ==
  ASSUME OutputInv, stage \in {"new", "open", "closing"}, NEW w \in Kinds
  PROVE  /\ writers[w] \in Owned
         /\ writers[w].reports = IF writers[w].writeErr THEN 1 ELSE 0
  BY DEF OutputInv, PlainInv, SettledInv, FailureReportedOnce, Owned

\* A key is a transfer and a kind.
LEMMA KeyParts ==
  \A k \in Keys : /\ k[1] \in Transfers /\ k[2] \in Kinds /\ k = <<k[1], k[2]>>
                  /\ k[2] = "stdout" \/ k[2] = "stderr"
  BY DEF Keys, Kinds

\* The flush of a transfer empties its streams, and leaves those of the others.
LEMMA FlushedSettles ==
  ASSUME OutputInv, stage \in {"open", "closing"}, NEW t \in Transfers,
         Flushed(t, FlushTransfer(t))
  PROVE  /\ \A w \in Kinds :
              /\ writers'[w].reports = IF writers'[w].writeErr THEN 1 ELSE 0
              /\ writers'[w].finalizing = writers[w].finalizing
              /\ writers[w].writeErr => writers'[w].writeErr
              /\ ~FlushTransfer(t)[w].failed => writers'[w].writeErr = writers[w].writeErr
         /\ \A k \in Keys : k[1] = t => Emptied(streams'[k], writers'[k[2]])
         /\ \A k \in Keys : k[1] # t => streams'[k] = streams[k]
  <1> DEFINE out == Flush(Op(streams[<<t, "stdout">>], writers["stdout"]))
             err == Flush(Op(streams[<<t, "stderr">>], writers["stderr"]))
  <1>1. /\ streams \in [Keys -> BoundedStream]
        /\ streams[<<t, "stdout">>] \in BoundedStream /\ streams[<<t, "stderr">>] \in BoundedStream
    BY KeyFacts DEF OutputInv, PlainInv
  <1>2. /\ writers["stdout"] \in Owned /\ writers["stderr"] \in Owned
        /\ writers["stdout"].reports = IF writers["stdout"].writeErr THEN 1 ELSE 0
        /\ writers["stderr"].reports = IF writers["stderr"].writeErr THEN 1 ELSE 0
    BY WritersOwned, KeyFacts
  <1>3. /\ After(out, writers["stdout"], NewSanitizer) /\ Emptied(out.stream, out.writer)
        /\ After(err, writers["stderr"], NewSanitizer) /\ Emptied(err.stream, err.writer)
    BY <1>1, <1>2, FlushAfter
  <1>4. FlushTransfer(t) = [stdout |-> out, stderr |-> err]
    BY DEF FlushTransfer
  <1> HIDE DEF out, err
  <1>5. /\ streams' = [streams EXCEPT ![<<t, "stdout">>] = out.stream,
                                      ![<<t, "stderr">>] = err.stream]
        /\ writers' = [w \in Kinds |-> Reported(FlushTransfer(t)[w].writer,
                                                FlushTransfer(t)[w].failed)]
    BY <1>4 DEF Flushed
  <1>6. /\ writers'["stdout"] = Reported(out.writer, out.failed)
        /\ writers'["stderr"] = Reported(err.writer, err.failed)
    BY <1>4, <1>5 DEF Kinds
  <1>7. /\ streams'[<<t, "stdout">>] = out.stream /\ streams'[<<t, "stderr">>] = err.stream
        /\ \A k \in Keys : k # <<t, "stdout">> /\ k # <<t, "stderr">> => streams'[k] = streams[k]
    BY <1>1, <1>5, KeyFacts
  <1>8. \A w \in Kinds : w = "stdout" \/ w = "stderr"
    BY DEF Kinds
  <1>9. /\ writers'["stdout"].reports = IF writers'["stdout"].writeErr THEN 1 ELSE 0
        /\ writers'["stdout"].finalizing = writers["stdout"].finalizing
        /\ writers["stdout"].writeErr => writers'["stdout"].writeErr
        /\ writers'["stdout"].writeErr = out.writer.writeErr
        /\ ~out.failed => writers'["stdout"].writeErr = writers["stdout"].writeErr
    BY <1>2, <1>3, <1>6, ReportedOnce
  <1>10. /\ writers'["stderr"].reports = IF writers'["stderr"].writeErr THEN 1 ELSE 0
         /\ writers'["stderr"].finalizing = writers["stderr"].finalizing
         /\ writers["stderr"].writeErr => writers'["stderr"].writeErr
         /\ writers'["stderr"].writeErr = err.writer.writeErr
         /\ ~err.failed => writers'["stderr"].writeErr = writers["stderr"].writeErr
    BY <1>2, <1>3, <1>6, ReportedOnce
  <1>11. /\ Emptied(streams'[<<t, "stdout">>], writers'["stdout"])
         /\ Emptied(streams'[<<t, "stderr">>], writers'["stderr"])
    BY <1>3, <1>7, <1>9, <1>10, EmptiedStays
  <1>12. \A k \in Keys : k[1] = t => Emptied(streams'[k], writers'[k[2]])
    <2> SUFFICES ASSUME NEW k \in Keys, k[1] = t PROVE Emptied(streams'[k], writers'[k[2]])
      OBVIOUS
    <2>1. k = <<t, k[2]>> /\ (k[2] = "stdout" \/ k[2] = "stderr")
      BY KeyParts, Zenon
    <2> QED
      BY <1>11, <2>1
  <1>13. \A k \in Keys : k[1] # t => streams'[k] = streams[k]
    BY <1>7
  <1>14. FlushTransfer(t)["stdout"].failed = out.failed /\ FlushTransfer(t)["stderr"].failed = err.failed
    BY <1>4
  <1> QED
    BY <1>8, <1>9, <1>10, <1>12, <1>13, <1>14

\* A new output.
LEMMA InitSettled == PlainInit => SettledInv
  <1> SUFFICES ASSUME PlainInit PROVE SettledInv
    OBVIOUS
  <1>1. \A w \in Kinds : ~writers[w].writeErr /\ ~writers[w].finalizing /\ writers[w].reports = 0
    BY DEF PlainInit, NewWriter
  <1> QED
    BY <1>1 DEF PlainInit, SettledInv, FailureReportedOnce, NothingHeldBack

\* Begin reports its error.
LEMMA BeginSettled ==
  ASSUME OutputInv, Begin
  PROVE  SettledInv'
  <1> DEFINE w == writers["stdout"]
             r == WriteLine(w)
  <1>1. w \in Owned /\ w \in Writers /\ ~w.writeErr /\ w.reports = 0 /\ stage = "new"
    BY WritersOwned, KeyFacts DEF OutputInv, SettledInv, Begin, Owned
  <1>2. /\ r.writer.reports = 0 /\ r.writer.finalizing = w.finalizing
        /\ r.failed <=> r.writer.writeErr
        /\ r.writer \in Writers /\ r.failed \in BOOLEAN
    BY <1>1, WriteLineAfter, WriteLineType
  <1>3. /\ writers' = [writers EXCEPT !["stdout"] = Reported(r.writer, r.failed)]
        /\ stage' = IF r.failed THEN "failed" ELSE "open"
        /\ next' = next
    BY DEF Begin
  <1> HIDE DEF r
  <1>4. /\ Reported(r.writer, r.failed).reports = IF r.failed THEN 1 ELSE 0
        /\ Reported(r.writer, r.failed).writeErr = r.writer.writeErr
        /\ Reported(r.writer, r.failed).finalizing = w.finalizing
    BY <1>2 DEF Reported, Writers
  <1>5. \A v \in Kinds : v # "stdout" => writers'[v] = writers[v]
    BY <1>3 DEF OutputInv, PlainInv
  <1>6. writers'["stdout"] = Reported(r.writer, r.failed)
    BY <1>3, KeyFacts DEF OutputInv, PlainInv
  <1> QED
    BY <1>1, <1>2, <1>3, <1>4, <1>5, <1>6
       DEF OutputInv, SettledInv, FailureReportedOnce, NothingHeldBack

\* So does Show of a byte.
LEMMA ShowSettled ==
  ASSUME OutputInv, NEW k \in Keys, NEW v \in scenario.bytes, Show(k, v)
  PROVE  SettledInv'
  <1> DEFINE w == writers[k[2]]
             op == Accept(Op(streams[k], w), v)
  <1>1. v \in Byte /\ streams[k] \in BoundedStream
    BY ScenarioFacts DEF OutputInv, PlainInv
  <1>2. /\ stage = "open" /\ k[2] \in Kinds /\ w \in Owned /\ ~w.writeErr
        /\ w.reports = IF w.writeErr THEN 1 ELSE 0
    BY WritersOwned, KeyFacts DEF OutputInv, SettledInv, Show
  <1>3. PICK s : After(op, w, s)
    BY <1>1, <1>2, AcceptAfter
  <1>4. /\ writers' = [writers EXCEPT ![k[2]] = Reported(op.writer, op.failed)]
        /\ stage' = IF op.failed THEN "failed" ELSE "open"
        /\ next' = next
    BY DEF Show
  <1> HIDE DEF op
  <1>5. /\ Reported(op.writer, op.failed).reports =
             IF Reported(op.writer, op.failed).writeErr THEN 1 ELSE 0
        /\ Reported(op.writer, op.failed).finalizing = w.finalizing
        /\ ~op.failed => Reported(op.writer, op.failed).writeErr = w.writeErr
    BY <1>2, <1>3, ReportedOnce
  <1>6. /\ writers'[k[2]] = Reported(op.writer, op.failed)
        /\ \A u \in Kinds : u # k[2] => writers'[u] = writers[u]
    BY <1>2, <1>4 DEF OutputInv, PlainInv
  <1> QED
    BY <1>2, <1>4, <1>5, <1>6 DEF OutputInv, SettledInv, FailureReportedOnce, NothingHeldBack

\* An exited transfer is flushed.
LEMMA ShowExitedSettled ==
  ASSUME OutputInv, NEW t \in Transfers, ShowExited(t)
  PROVE  SettledInv'
  <1> DEFINE ops == FlushTransfer(t)
  <1>1. /\ stage = "open" /\ Flushed(t, ops) /\ next' = next
        /\ stage' = IF ops.stdout.failed \/ ops.stderr.failed THEN "failed" ELSE "open"
    BY DEF ShowExited
  <1>2. \A w \in Kinds :
          /\ writers'[w].reports = IF writers'[w].writeErr THEN 1 ELSE 0
          /\ writers'[w].finalizing = writers[w].finalizing
          /\ ~ops[w].failed => writers'[w].writeErr = writers[w].writeErr
    BY <1>1, FlushedSettles
  <1> HIDE DEF ops
  <1>3. stage' = "open" => \A w \in Kinds : ~ops[w].failed
    BY <1>1 DEF Kinds
  <1>4. \A w \in Kinds : /\ writers'[w].writeErr => stage' # "open"
                         /\ ~writers'[w].finalizing
    BY <1>1, <1>2, <1>3 DEF OutputInv, SettledInv
  <1>5. stage' \in {"open", "failed"} /\ next' = 1
    BY <1>1 DEF OutputInv, SettledInv
  <1> QED
    BY <1>2, <1>4, <1>5 DEF SettledInv, FailureReportedOnce, NothingHeldBack

\* Close begins.
LEMMA CloseSettled ==
  ASSUME OutputInv, Close
  PROVE  SettledInv'
  <1>1. /\ stage' = "closing" /\ next' = 1
        /\ writers' = [w \in Kinds |-> [writers[w] EXCEPT !.finalizing = TRUE]]
    BY DEF OutputInv, SettledInv, Close
  <1>2. \A w \in Kinds : /\ writers'[w].finalizing
                         /\ writers'[w].reports = writers[w].reports
                         /\ writers'[w].writeErr = writers[w].writeErr
    BY <1>1 DEF OutputInv, PlainInv, Writers
  <1>3. \A k \in Keys : ~(k[1] < next')
    BY <1>1, KeyParts DEF Transfers
  <1> QED
    BY <1>1, <1>2, <1>3 DEF OutputInv, SettledInv, FailureReportedOnce, NothingHeldBack

\* Close empties the streams of one transfer after the other.
LEMMA CloseTransferSettled ==
  ASSUME OutputInv, CloseTransfer
  PROVE  SettledInv'
  <1>1. stage = "closing" /\ next \in Transfers /\ Flushed(next, FlushTransfer(next))
    BY DEF OutputInv, PlainInv, CloseTransfer
  <1>2. /\ \A w \in Kinds :
             /\ writers'[w].reports = IF writers'[w].writeErr THEN 1 ELSE 0
             /\ writers'[w].finalizing = writers[w].finalizing
             /\ writers[w].writeErr => writers'[w].writeErr
        /\ \A k \in Keys : k[1] = next => Emptied(streams'[k], writers'[k[2]])
        /\ \A k \in Keys : k[1] # next => streams'[k] = streams[k]
    BY <1>1, FlushedSettles
  <1>3. \A k \in Keys : k[1] < next \/ k[1] = next => Emptied(streams'[k], writers'[k[2]])
    <2> SUFFICES ASSUME NEW k \in Keys, k[1] < next, k[1] # next
                 PROVE  Emptied(streams'[k], writers'[k[2]])
      BY <1>2
    <2>1. Emptied(streams[k], writers[k[2]])
      BY <1>1 DEF OutputInv, SettledInv
    <2>2. streams'[k] = streams[k] /\ (writers[k[2]].writeErr => writers'[k[2]].writeErr)
      BY <1>2, KeyParts
    <2> QED
      BY <2>1, <2>2, EmptiedStays
  <1>4. \A k \in Keys : k[1] \in 1..N
    BY KeyParts DEF Transfers
  <1>5. N \in Nat /\ next \in 1..N
    BY <1>1, PlainAssumption DEF Transfers
  <1>6. CASE next = N
    <2>1. stage' = "closed"
      BY <1>6 DEF CloseTransfer
    <2>2. \A k \in Keys : Emptied(streams'[k], writers'[k[2]])
      BY <1>3, <1>4, <1>5, <1>6
    <2> QED
      BY <1>1, <1>2, <2>1, <2>2 DEF OutputInv, SettledInv, FailureReportedOnce, NothingHeldBack
  <1>7. CASE next # N
    <2>1. stage' = "closing" /\ next' = next + 1
      BY <1>1, <1>7 DEF CloseTransfer
    <2>2. \A k \in Keys : k[1] < next' => Emptied(streams'[k], writers'[k[2]])
      BY <1>3, <1>4, <1>5, <2>1
    <2> QED
      BY <1>1, <1>2, <2>1, <2>2 DEF OutputInv, SettledInv, FailureReportedOnce, NothingHeldBack
  <1> QED
    BY <1>6, <1>7

\* Every step keeps both invariants.
LEMMA SettledStep == OutputInv /\ [PlainNext]_plainVars => OutputInv'
  <1> SUFFICES ASSUME OutputInv, [PlainNext]_plainVars PROVE SettledInv'
    BY StepLemma DEF OutputInv
  <1>1. CASE Begin
    BY <1>1, BeginSettled
  <1>2. CASE Close
    BY <1>2, CloseSettled
  <1>3. CASE CloseTransfer
    BY <1>3, CloseTransferSettled
  <1>4. ASSUME NEW t \in Transfers, ShowExited(t) PROVE SettledInv'
    BY <1>4, ShowExitedSettled
  <1>5. ASSUME NEW k \in Keys, IntervalPasses(k) PROVE SettledInv'
    BY <1>5 DEF OutputInv, SettledInv, FailureReportedOnce, NothingHeldBack, IntervalPasses
  <1>6. ASSUME NEW k \in Keys, NEW v \in scenario.bytes, Show(k, v) PROVE SettledInv'
    BY <1>6, ShowSettled
  <1>7. CASE UNCHANGED plainVars
    BY <1>7 DEF plainVars, OutputInv, SettledInv, FailureReportedOnce, NothingHeldBack
  <1> QED
    BY <1>1, <1>2, <1>3, <1>4, <1>5, <1>6, <1>7 DEF PlainNext

\* The bounded types are the types.
LEMMA InvTyped == PlainInv => PlainTypeOK
  <1>1. BoundedStream \subseteq StreamType
    <2> SUFFICES ASSUME NEW st \in BoundedStream PROVE st \in StreamType
      OBVIOUS
    <2> DEFINE Bytes == Seq(Byte)
    <2>1. Piece \subseteq Bytes /\ Taken \subseteq Bytes
      BY DEF Piece, Glyph, Taken, Character
    <2> HIDE DEF Bytes
    <2>2. Seq(Piece) \subseteq Seq(Bytes) /\ Seq(Taken) \subseteq Seq(Bytes)
      BY <2>1
    <2>3. st.sanitizer \in [sequence : Sequences8, utf8 : Seq(Byte), expected : {0, 2, 3, 4},
                            remaining : 0..3, c2 : BOOLEAN]
      <3>1. Unfinished \subseteq Seq(Byte)
        BY DEF Unfinished
      <3> QED
        BY <3>1 DEF BoundedStream, Sanitizers
    <2>4. Ended \subseteq {None} \cup [over : {TRUE}, text : Seq(Bytes), shown : Seq(Bytes),
                                      flushed : BOOLEAN]
      BY <2>2 DEF Ended
    <2> HIDE DEF Ended
    <2>5. st \in [line : Bytes, progress : Bytes, progressWritten : BOOLEAN,
                  segmentWritten : BOOLEAN, recent : BOOLEAN,
                  sanitizer : [sequence : Sequences8, utf8 : Seq(Byte), expected : {0, 2, 3, 4},
                               remaining : 0..3, c2 : BOOLEAN],
                  text : Seq(Bytes), shown : Seq(Bytes),
                  ended : {None} \cup [over : {TRUE}, text : Seq(Bytes), shown : Seq(Bytes),
                                       flushed : BOOLEAN]]
      BY <2>1, <2>2, <2>3, <2>4 DEF BoundedStream
    <2> QED
      BY <2>5 DEF StreamType, Bytes
  <1> QED
    BY <1>1 DEF PlainInv, PlainTypeOK, Writers

\* The theorem: whatever bytes the children of any number of transfers write, in any
\* order, and whichever writes fail, what plain output holds back and what it writes
\* at a time is bounded (appendVisibleBytes, terminalSanitizer).
THEOREM OutputBounded == PlainSpec => []Bounded
  <1>1. PlainSpec => []PlainInv
    BY InitLemma, StepLemma, PTL DEF PlainSpec
  <1> QED
    BY <1>1, InvBounded, PTL

\* Whatever bytes the children write, cut wherever, no control reaches the terminal: a
\* logical line is made of complete characters and carriage returns, and no byte of a
\* written line is a control (terminalSanitizer, acceptVisible).
THEOREM NoControlIsWritten == PlainSpec => []ControlsRemoved
  <1>1. PlainSpec => []PlainInv
    BY InitLemma, StepLemma, PTL DEF PlainSpec
  <1> QED
    BY <1>1, InvControls, PTL

\* Whatever was written and whichever writes fail, Close settles the output: no
\* stream holds back what its writer still takes, and a failed write is reported
\* exactly once (Close, flushTransfer, writeLine).
THEOREM CloseSettles == PlainSpec => []OutputSettled
  <1>1. PlainInit => OutputInv
    BY InitLemma, InitSettled DEF OutputInv
  <1>2. OutputInv => OutputSettled
    BY InvTyped DEF OutputInv, SettledInv, OutputSettled
  <1> QED
    BY <1>1, <1>2, SettledStep, PTL DEF PlainSpec

=============================================================================
