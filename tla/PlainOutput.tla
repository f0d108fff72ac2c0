----------------------------- MODULE PlainOutput -----------------------------
(***************************************************************************)
(* Plain output of a run (internal/plainoutput): the bytes of every child  *)
(* pipe are cleaned of terminal controls, one byte at a time, and gathered *)
(* into logical lines; a line or a progress update (text before a carriage *)
(* return) is written whole, updates at most once per interval.            *)
(*                                                                         *)
(* A character is a sequence of bytes.  The prefix of a line is left out:  *)
(* what is written is recorded for each stream.                            *)
(***************************************************************************)
EXTENDS Integers, Sequences

CONSTANTS
  N,          \* the number of transfers
  MaxLine,    \* maximumLogicalLineBytes
  Scenarios   \* the streams that get output, their bytes, the bound on a logical line
              \* and the lines that stdout and stderr take before a write fails

Transfers == 1..N
Kinds == {"stdout", "stderr"}
Keys == Transfers \X Kinds
Byte == 0..255
Unlimited == -1

ASSUME PlainAssumption ==
  /\ N \in Nat \ {0} /\ MaxLine \in Nat /\ MaxLine >= 4
  /\ \A s \in Scenarios : /\ s.keys \subseteq Keys /\ s.bytes \subseteq Byte
                          /\ s.text \in Nat /\ s.room \in [Kinds -> Nat \cup {Unlimited}]

VARIABLES
  scenario,
  stage,      \* "new", "open", "failed" once Show or Begin returned an error, "closing", "closed"
  next,       \* the transfer Close flushes next
  streams,    \* the outputStreams
  writers     \* the synchronizedWriters

plainVars == <<scenario, stage, next, streams, writers>>

-----------------------------------------------------------------------------
(* terminalSanitizer                                                       *)

NewSanitizer ==
  [sequence |-> "text", utf8 |-> <<>>, expected |-> 0, remaining |-> 0, c2 |-> FALSE]

Sequences8 == {"text", "escape", "escapeIntermediate", "csi", "osc", "controlString",
               "oscEscape", "stringEscape"}

Cleaned(sanitizer, visible) == [sanitizer |-> sanitizer, visible |-> visible]
Replacement == <<239, 191, 189>>

\* utf8SequenceLength
SequenceLength(v) ==
  CASE v \in 194..223 -> 2
    [] v \in 224..239 -> 3
    [] v \in 240..244 -> 4
    [] OTHER -> 0

\* utf8.Valid, of as many bytes as the first one announces
ValidCharacter(c) ==
  /\ c[1] = 224 => c[2] >= 160
  /\ c[1] = 237 => c[2] <= 159
  /\ c[1] = 240 => c[2] >= 144
  /\ c[1] = 244 => c[2] <= 143

ResetUTF8(s) == [s EXCEPT !.utf8 = <<>>, !.expected = 0]
ResetControlStringUTF8(s) == [s EXCEPT !.remaining = 0, !.c2 = FALSE]
ResetSequence(s) == [ResetControlStringUTF8(s) EXCEPT !.sequence = "text"]
BeginSequence(s, sequence) == [ResetControlStringUTF8(s) EXCEPT !.sequence = sequence]

ConsumeC1(s, v) ==
  CASE v \in {144, 152, 158, 159} -> BeginSequence(s, "controlString")
    [] v = 155 -> [s EXCEPT !.sequence = "csi"]
    [] v = 157 -> BeginSequence(s, "osc")
    [] OTHER -> s

\* consumeText where no character is unfinished
ConsumeFirst(s, v) ==
  CASE v = 27 -> Cleaned([s EXCEPT !.sequence = "escape"], <<>>)
    [] v < 128 /\ v # 27 -> Cleaned(s, << <<v>> >>)
    [] v \in 128..159 -> Cleaned(ConsumeC1(s, v), <<>>)
    [] v > 159 /\ SequenceLength(v) = 0 -> Cleaned(s, <<Replacement>>)
    [] OTHER -> Cleaned([s EXCEPT !.utf8 = <<v>>, !.expected = SequenceLength(v)], <<>>)

\* consumeText of a continuation byte: a control may also be encoded in UTF-8.
ConsumeContinuation(s, v) ==
  LET c == Append(s.utf8, v)
  IN CASE Len(c) < s.expected -> Cleaned([s EXCEPT !.utf8 = c], <<>>)
       [] Len(c) >= s.expected /\ ~ValidCharacter(c) -> Cleaned(ResetUTF8(s), <<Replacement>>)
       [] Len(c) >= s.expected /\ ValidCharacter(c) /\ c[1] = 194 /\ v <= 159 ->
            Cleaned(ResetUTF8(ConsumeC1(s, v)), <<>>)
       [] OTHER -> Cleaned(ResetUTF8(s), <<c>>)

ConsumeText(s, v) ==
  IF s.utf8 = <<>> THEN ConsumeFirst(s, v)
  ELSE IF v \in 128..191 THEN ConsumeContinuation(s, v)
  ELSE LET first == ConsumeFirst(ResetUTF8(s), v)
       IN Cleaned(first.sanitizer, <<Replacement>> \o first.visible)

\* consumeRawC1, after the sequence was given up
GiveUp(s, v) ==
  LET text == [s EXCEPT !.sequence = "text"]
  IN IF v \in 128..159 THEN ConsumeC1(text, v) ELSE text

ConsumeEscape(s, v) ==
  CASE v = 27 -> s
    [] v = 91 -> [s EXCEPT !.sequence = "csi"]
    [] v = 93 -> BeginSequence(s, "osc")
    [] v \in {80, 88, 94, 95} -> BeginSequence(s, "controlString")
    [] v \in 32..47 -> [s EXCEPT !.sequence = "escapeIntermediate"]
    [] OTHER -> GiveUp(s, v)

ConsumeEscapeIntermediate(s, v) ==
  CASE v = 27 -> [s EXCEPT !.sequence = "escape"]
    [] v \in 32..47 -> s
    [] OTHER -> GiveUp(s, v)

ConsumeCSI(s, v) ==
  CASE v = 27 -> [s EXCEPT !.sequence = "escape"]
    [] v \in 32..63 -> s
    [] OTHER -> GiveUp(s, v)

\* Mutant: a continuation byte may end the string.
NoContinuation(s, v) == FALSE

\* A byte of a character inside a control string.
InCharacter(s, v) == s.remaining # 0 /\ v \in 128..191

ConsumeControlString(s, v, allowBell, escape) ==
  IF InCharacter(s, v)
  THEN IF s.c2 /\ s.remaining = 1 /\ v = 156 THEN ResetSequence(s)
       ELSE [s EXCEPT !.remaining = @ - 1, !.c2 = @ /\ s.remaining # 1]
  ELSE LET r == IF s.remaining # 0 THEN ResetControlStringUTF8(s) ELSE s
       IN CASE v = 27 -> [r EXCEPT !.sequence = escape]
            [] (allowBell /\ v = 7) \/ v = 156 -> ResetSequence(r)
            [] SequenceLength(v) # 0 -> [r EXCEPT !.remaining = SequenceLength(v) - 1, !.c2 = (v = 194)]
            [] OTHER -> r

ConsumeStringEscape(s, v, allowBell, content, escape) ==
  CASE v = 92 -> ResetSequence(s)
    [] v = 27 -> s
    [] OTHER -> ConsumeControlString([s EXCEPT !.sequence = content], v, allowBell, escape)

ConsumeSequence(s, v) ==
  CASE s.sequence = "escape" -> ConsumeEscape(s, v)
    [] s.sequence = "escapeIntermediate" -> ConsumeEscapeIntermediate(s, v)
    [] s.sequence = "csi" -> ConsumeCSI(s, v)
    [] s.sequence = "osc" -> ConsumeControlString(s, v, TRUE, "oscEscape")
    [] s.sequence = "controlString" -> ConsumeControlString(s, v, FALSE, "stringEscape")
    [] s.sequence = "oscEscape" -> ConsumeStringEscape(s, v, TRUE, "osc", "oscEscape")
    [] OTHER -> ConsumeStringEscape(s, v, FALSE, "controlString", "stringEscape")

Clean(s, v) ==
  IF s.sequence = "text" THEN ConsumeText(s, v) ELSE Cleaned(ConsumeSequence(s, v), <<>>)

Finish(s) ==
  Cleaned(NewSanitizer, IF s.utf8 = <<>> THEN <<>> ELSE <<Replacement>>)

-----------------------------------------------------------------------------
(* outputStream                                                            *)

\* recent: an update was written less than progressInterval ago.  The rest is
\* history: the characters of the logical line with its carriage returns, what was
\* written of it, and the same of a line that has just ended.
None == [over |-> FALSE]
NewStream ==
  [line |-> <<>>, progress |-> <<>>, progressWritten |-> FALSE, segmentWritten |-> FALSE,
   recent |-> FALSE, sanitizer |-> NewSanitizer, text |-> <<>>, shown |-> <<>>, ended |-> None]

NewWriter(room) == [room |-> room, writeErr |-> FALSE, finalizing |-> FALSE, reports |-> 0]

\* An operation on a stream and its writer, and whether it returned an error.
Op(stream, writer) == [stream |-> stream, writer |-> writer, failed |-> FALSE]

\* writeLine: the first error stays; the end of the output does not report it again.
WriteLine(w) ==
  CASE w.writeErr -> [writer |-> w, failed |-> ~w.finalizing, written |-> FALSE]
    [] ~w.writeErr /\ w.room = 0 ->
         [writer |-> [w EXCEPT !.writeErr = TRUE], failed |-> TRUE, written |-> FALSE]
    [] OTHER ->
         [writer |-> [w EXCEPT !.room = IF @ = Unlimited THEN @ ELSE @ - 1],
          failed |-> FALSE, written |-> TRUE]

Write(op, line) ==
  LET result == WriteLine(op.writer)
  IN [stream |-> IF result.written THEN [op.stream EXCEPT !.shown = Append(@, line)] ELSE op.stream,
      writer |-> result.writer, failed |-> result.failed]

ResetLogicalLine(st) ==
  [st EXCEPT !.line = <<>>, !.progress = <<>>, !.progressWritten = FALSE,
             !.segmentWritten = FALSE, !.recent = FALSE]

\* Mutant: what the segment has shown is not remembered.
SegmentForgotten(op) ==
  LET w == Write(op, op.stream.line)
  IN IF w.failed THEN w
     ELSE [w EXCEPT !.stream = [@ EXCEPT !.line = <<>>, !.progress = <<>>, !.progressWritten = FALSE]]

WriteBufferedSegment(op) ==
  LET w == Write(op, op.stream.line)
  IN IF w.failed THEN w
     ELSE [w EXCEPT !.stream = [@ EXCEPT !.line = <<>>, !.progress = <<>>,
                                         !.progressWritten = FALSE, !.segmentWritten = TRUE]]

\* Mutant: the bound is looked at after the character is added.
AppendFirst(op, c) ==
  LET grown == [op EXCEPT !.stream = [@ EXCEPT !.line = @ \o c]]
  IN IF Len(grown.stream.line) < MaxLine THEN grown ELSE WriteBufferedSegment(grown)

\* appendVisibleBytes: a character is not split.
AppendVisible(op, c) ==
  LET begun == IF op.stream.line # <<>> /\ Len(op.stream.line) + Len(c) > MaxLine
               THEN WriteBufferedSegment(op) ELSE op
      grown == [begun EXCEPT !.stream = [@ EXCEPT !.line = begun.stream.line \o c]]
  IN IF begun.failed THEN begun
     ELSE IF Len(grown.stream.line) < MaxLine THEN grown ELSE WriteBufferedSegment(grown)

\* An update is written, now.
WriteProgress(op, update) ==
  LET w == Write(op, update)
  IN IF w.failed THEN w
     ELSE [w EXCEPT !.stream = [@ EXCEPT !.progressWritten = TRUE, !.recent = TRUE]]

CarriageReturnWithoutLine(op) ==
  CASE op.stream.progress # <<>> \/ op.stream.progressWritten -> op
    [] op.stream.segmentWritten /\ op.stream.progress = <<>> /\ ~op.stream.progressWritten ->
         [op EXCEPT !.stream = [ResetLogicalLine(@) EXCEPT !.progressWritten = TRUE, !.recent = TRUE]]
    [] OTHER -> WriteProgress(op, <<>>)

ProgressUpdate(op) ==
  IF op.stream.line = <<>> THEN CarriageReturnWithoutLine(op)
  ELSE LET moved == [op EXCEPT !.stream = [@ EXCEPT !.progress = op.stream.line, !.line = <<>>,
                                                    !.progressWritten = FALSE]]
       IN IF op.stream.recent THEN moved ELSE WriteProgress(moved, moved.stream.progress)

\* finishLine
NothingLeft(st) ==
  st.line = <<>> /\ (st.progressWritten \/ (st.progress = <<>> /\ st.segmentWritten))

FinishLine(op) ==
  IF NothingLeft(op.stream) THEN [op EXCEPT !.stream = ResetLogicalLine(@)]
  ELSE LET w == Write(op, IF op.stream.line = <<>> THEN op.stream.progress ELSE op.stream.line)
       IN IF w.failed THEN w ELSE [w EXCEPT !.stream = ResetLogicalLine(@)]

\* History: the logical line is over.
Over(op, flushed) ==
  IF op.failed THEN op
  ELSE [op EXCEPT !.stream =
         [@ EXCEPT !.text = <<>>, !.shown = <<>>,
                   !.ended = IF op.writer.writeErr THEN None
                             ELSE [over |-> TRUE, text |-> op.stream.text,
                                   shown |-> op.stream.shown, flushed |-> flushed]]]
Seen(op, c) ==
  [op EXCEPT !.stream = [@ EXCEPT !.text = Append(op.stream.text, c), !.ended = None]]

\* Mutant: DEL is printed.
PrintableDelete(c) == Len(c) > 1 \/ c[1] = 9 \/ c[1] >= 32

Printable(c) == Len(c) > 1 \/ c[1] = 9 \/ (c[1] >= 32 /\ c[1] # 127)

\* acceptVisible and acceptSanitized
AcceptCharacter(op, c) ==
  CASE c = <<10>> -> Over(FinishLine(op), FALSE)
    [] c = <<13>> -> ProgressUpdate(Seen(op, c))
    [] c # <<10>> /\ c # <<13>> /\ Printable(c) -> AppendVisible(Seen(op, c), c)
    [] OTHER -> op

\* A byte makes at most two characters visible.
AcceptSecond(first, visible) ==
  IF Len(visible) = 1 \/ first.failed THEN first ELSE AcceptCharacter(first, visible[2])

AcceptSanitized(op, visible) ==
  IF visible = <<>> THEN op
  ELSE AcceptSecond(AcceptCharacter(op, visible[1]), visible)

Accept(op, v) ==
  LET cleaned == Clean(op.stream.sanitizer, v)
  IN AcceptSanitized([op EXCEPT !.stream = [@ EXCEPT !.sanitizer = cleaned.sanitizer]],
                     cleaned.visible)

\* flush: a line or an update that was not written is finished.
FlushLine(op) ==
  IF op.failed THEN op
  ELSE IF op.stream.line # <<>> \/ (op.stream.progress # <<>> /\ ~op.stream.progressWritten)
  THEN Over(FinishLine(op), TRUE)
  ELSE Over([op EXCEPT !.stream = ResetLogicalLine(@)], TRUE)

Flush(op) ==
  LET finish == Finish(op.stream.sanitizer)
  IN FlushLine(AcceptSanitized([op EXCEPT !.stream = [@ EXCEPT !.sanitizer = finish.sanitizer]],
                               finish.visible))

-----------------------------------------------------------------------------
(* PlainTextOutput                                                         *)

PlainInit ==
  /\ scenario \in Scenarios
  /\ stage = "new" /\ next = 1
  /\ streams = [k \in Keys |-> NewStream]
  /\ writers = [w \in Kinds |-> NewWriter(scenario.room[w])]

Reported(writer, failed) == IF failed THEN [writer EXCEPT !.reports = @ + 1] ELSE writer

Begin ==
  /\ stage = "new"
  /\ LET result == WriteLine(writers["stdout"])
     IN /\ writers' = [writers EXCEPT !["stdout"] = Reported(result.writer, result.failed)]
        /\ stage' = IF result.failed THEN "failed" ELSE "open"
  /\ UNCHANGED <<scenario, next, streams>>

\* Show, of a byte of an output event.  After an error the forwarder shows nothing.
Show(k, v) ==
  /\ stage = "open" /\ k \in scenario.keys
  /\ Len(streams[k].text) < scenario.text \/ v = 10
  /\ LET op == Accept(Op(streams[k], writers[k[2]]), v)
     IN /\ streams' = [streams EXCEPT ![k] = op.stream]
        /\ writers' = [writers EXCEPT ![k[2]] = Reported(op.writer, op.failed)]
        /\ stage' = IF op.failed THEN "failed" ELSE "open"
  /\ UNCHANGED <<scenario, next>>

\* Mutant: an error on stdout keeps stderr from being flushed.
StdoutFirst(t) ==
  LET out == Flush(Op(streams[<<t, "stdout">>], writers["stdout"]))
      err == IF out.failed THEN Op(streams[<<t, "stderr">>], writers["stderr"])
             ELSE Flush(Op(streams[<<t, "stderr">>], writers["stderr"]))
  IN [stdout |-> out, stderr |-> err]

\* flushTransfer: both streams, whatever the first one returned.
FlushTransfer(t) ==
  LET out == Flush(Op(streams[<<t, "stdout">>], writers["stdout"]))
      err == Flush(Op(streams[<<t, "stderr">>], writers["stderr"]))
  IN [stdout |-> out, stderr |-> err]

Flushed(t, ops) ==
  /\ streams' = [streams EXCEPT ![<<t, "stdout">>] = ops.stdout.stream,
                                ![<<t, "stderr">>] = ops.stderr.stream]
  /\ writers' = [w \in Kinds |-> Reported(ops[w].writer, ops[w].failed)]

\* Show, of the status of a transfer that has exited.
ShowExited(t) ==
  /\ stage = "open" /\ \E k \in scenario.keys : k[1] = t
  /\ LET ops == FlushTransfer(t)
     IN /\ Flushed(t, ops)
        /\ stage' = IF ops.stdout.failed \/ ops.stderr.failed THEN "failed" ELSE "open"
  /\ UNCHANGED <<scenario, next>>

\* Close, by the display driver once the forwarder is done, or by its abort.
Close ==
  /\ stage \in {"new", "open", "failed"}
  /\ stage' = "closing"
  /\ writers' = [w \in Kinds |-> [writers[w] EXCEPT !.finalizing = TRUE]]
  /\ UNCHANGED <<scenario, next, streams>>

CloseTransfer ==
  /\ stage = "closing"
  /\ Flushed(next, FlushTransfer(next))
  /\ IF next = N THEN stage' = "closed" /\ UNCHANGED next
     ELSE next' = next + 1 /\ UNCHANGED stage
  /\ UNCHANGED scenario

\* progressInterval passes.
IntervalPasses(k) ==
  /\ stage = "open" /\ streams[k].recent
  /\ streams' = [streams EXCEPT ![k] = [@ EXCEPT !.recent = FALSE]]
  /\ UNCHANGED <<scenario, stage, next, writers>>

PlainNext ==
  \/ Begin \/ Close \/ CloseTransfer
  \/ \E t \in Transfers : ShowExited(t)
  \/ \E k \in Keys : IntervalPasses(k) \/ \E v \in scenario.bytes : Show(k, v)

PlainSpec == PlainInit /\ [][PlainNext]_plainVars

-----------------------------------------------------------------------------
(* Properties                                                              *)

StreamType ==
  [line : Seq(Byte), progress : Seq(Byte), progressWritten : BOOLEAN,
   segmentWritten : BOOLEAN, recent : BOOLEAN,
   sanitizer : [sequence : Sequences8, utf8 : Seq(Byte), expected : {0, 2, 3, 4},
                remaining : 0..3, c2 : BOOLEAN],
   text : Seq(Seq(Byte)), shown : Seq(Seq(Byte)),
   ended : {None} \cup [over : {TRUE}, text : Seq(Seq(Byte)), shown : Seq(Seq(Byte)),
                        flushed : BOOLEAN]]

PlainTypeOK ==
  /\ scenario \in Scenarios /\ next \in Transfers
  /\ stage \in {"new", "open", "failed", "closing", "closed"}
  /\ streams \in [Keys -> StreamType]
  /\ writers \in [Kinds -> [room : Nat \cup {Unlimited}, writeErr : BOOLEAN,
                            finalizing : BOOLEAN, reports : Nat]]

\* A logical line as it was taken and as it was written: the present one and one that
\* has just ended.
Histories(st) ==
  {[text |-> st.text, shown |-> st.shown]}
    \cup (IF st.ended.over THEN {[text |-> st.ended.text, shown |-> st.ended.shown]} ELSE {})

\* Whatever the children write, what the output holds back and what it writes at a
\* time is bounded: lines and updates by the line bound, which also no character
\* added to a nearly full line exceeds, unfinished characters by three bytes
\* (maximumLogicalLineBytes, terminalSanitizer).
Bounded ==
  \A k \in Keys :
    LET st == streams[k]
    IN /\ Len(st.line) <= MaxLine /\ Len(st.progress) <= MaxLine
       /\ \A h \in Histories(st) : \A j \in DOMAIN h.shown : Len(h.shown[j]) <= MaxLine
       /\ Len(st.sanitizer.utf8) <= 3

Emptied(st, w) ==
  /\ w.writeErr \/ (st.text = <<>> /\ st.line = <<>> /\ st.progress = <<>>)
  /\ st.sanitizer = NewSanitizer

\* When the output is closed nothing is held back: no part of a character waits in a
\* stream, and no line or update either, unless a write to its writer has failed, which
\* takes no further line (Close, flushTransfer).
NothingHeldBack == stage = "closed" => \A k \in Keys : Emptied(streams[k], writers[k[2]])

\* A write that fails is reported to the caller, once: by the call that made it, and
\* not again by Close (writeErr, finalizing).
FailureReportedOnce ==
  \A w \in Kinds : writers[w].reports = IF writers[w].writeErr THEN 1 ELSE 0

\* Close settles the output: no stream holds back what its writer takes, and a write that failed
\* is reported exactly once (Close, flushTransfer).
OutputSettled == PlainTypeOK /\ NothingHeldBack /\ FailureReportedOnce

\* A tab, printable ASCII or a complete character that is no encoded C1 control.
Textual(c) ==
  \/ c = <<9>> \/ (Len(c) = 1 /\ c[1] \in 32..126)
  \/ /\ Len(c) > 1 /\ Len(c) = SequenceLength(c[1]) /\ \A i \in 2..Len(c) : c[i] \in 128..191
     /\ ValidCharacter(c) /\ ~(c[1] = 194 /\ c[2] <= 159)

Controls7 == (0..31 \ {9}) \cup {127}

\* A child cannot reach the terminal with a control, whatever bytes it writes and
\* however they are cut: a logical line is made of text and carriage returns, and no
\* byte of a written line is a control (acceptVisible, consumeText, consumeC1).
ControlsRemoved ==
  \A k \in Keys : \A h \in Histories(streams[k]) :
    /\ \A j \in DOMAIN h.text : h.text[j] = <<13>> \/ Textual(h.text[j])
    /\ \A j \in DOMAIN h.shown : \A i \in DOMAIN h.shown[j] : h.shown[j][i] \notin Controls7

-----------------------------------------------------------------------------
(***************************************************************************)
(* The invariant behind OutputSettled: a writer fails only once the output *)
(* is done or about to be, and Close empties the streams in the order of   *)
(* the transfers.                                                          *)
(***************************************************************************)
SettledInv ==
  /\ \A w \in Kinds : /\ writers[w].writeErr => stage \notin {"new", "open"}
                      /\ writers[w].finalizing <=> stage \in {"closing", "closed"}
  /\ FailureReportedOnce
  /\ stage \in {"new", "open", "failed"} => next = 1
  /\ stage = "closing" =>
       \A k \in Keys : k[1] < next => Emptied(streams[k], writers[k[2]])
  /\ NothingHeldBack
=============================================================================
