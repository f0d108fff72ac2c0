---------------------- MODULE SupervisorSessionProofs ----------------------
(***************************************************************************)
(* Proofs about SupervisorSession, for any sizes of the pipes and queues,  *)
(* with deaths and faults allowed or not.                                  *)
(***************************************************************************)
EXTENDS SupervisorSession, SequenceTheorems, TLAPS

-----------------------------------------------------------------------------
(* The frames of a pipe                                                    *)

\* A frame is written to a pipe.
LEMMA AppendSet ==
  ASSUME NEW S, NEW s \in Seq(S), NEW x \in S
  PROVE  /\ Append(s, x) \in Seq(S)
         /\ Len(Append(s, x)) = Len(s) + 1
         /\ Append(s, x) # << >>
         /\ ToSet(Append(s, x)) = ToSet(s) \cup {x}
<1>1. /\ Append(s, x) \in Seq(S) /\ Len(Append(s, x)) = Len(s) + 1
      /\ Len(s) \in Nat
      /\ \A i \in 1..Len(s) : Append(s, x)[i] = s[i]
      /\ Append(s, x)[Len(s) + 1] = x
  OBVIOUS
<1>2. Append(s, x) # << >>
  BY <1>1
<1>3. DOMAIN Append(s, x) = 1..(Len(s) + 1) /\ DOMAIN s = 1..Len(s)
  BY <1>1, LenProperties
<1>4. 1..(Len(s) + 1) = (1..Len(s)) \cup {Len(s) + 1}
  BY <1>1
<1> QED BY <1>1, <1>2, <1>3, <1>4 DEF ToSet

\* A frame is read from a pipe.
LEMMA TailSet ==
  ASSUME NEW S, NEW s \in Seq(S), s # << >>
  PROVE  /\ Head(s) \in S /\ Head(s) \in ToSet(s)
         /\ Tail(s) \in Seq(S)
         /\ Len(s) \in Nat \ {0} /\ Len(Tail(s)) = Len(s) - 1
         /\ ToSet(Tail(s)) \subseteq ToSet(s)
         /\ ToSet(s) \subseteq ToSet(Tail(s)) \cup {Head(s)}
<1>1. /\ Head(s) \in S /\ Tail(s) \in Seq(S) /\ Len(Tail(s)) = Len(s) - 1
      /\ \A i \in 1..Len(Tail(s)) : Tail(s)[i] = s[i + 1]
  BY HeadTailProperties
<1>2. Len(s) \in Nat \ {0}
  BY EmptySeq
<1>3. DOMAIN Tail(s) = 1..Len(Tail(s)) /\ DOMAIN s = 1..Len(s)
  BY <1>1, LenProperties
<1>4. Head(s) = s[1]
  OBVIOUS
<1>5. 1 \in DOMAIN s /\ \A i \in 1..Len(Tail(s)) : i + 1 \in DOMAIN s
  BY <1>1, <1>2, <1>3
<1>6. ASSUME NEW i \in DOMAIN s, i # 1
      PROVE  i - 1 \in DOMAIN Tail(s) /\ s[i] = Tail(s)[i - 1]
  <2>1. i - 1 \in 1..Len(Tail(s)) /\ (i - 1) + 1 = i
    BY <1>1, <1>2, <1>3, <1>6
  <2> QED BY <1>1, <1>3, <2>1
<1>7. ToSet(s) \subseteq ToSet(Tail(s)) \cup {Head(s)}
  BY <1>4, <1>6, Zenon DEF ToSet
<1> QED BY <1>1, <1>2, <1>3, <1>4, <1>5, <1>7, SMTT(30) DEF ToSet

\* An empty pipe.
LEMMA EmptyPipe ==
  /\ ToSet(<< >>) = {} /\ Len(<< >>) = 0
  /\ \A S : /\ << >> \in Seq(S)
            /\ \A s \in Seq(S) : Len(s) \in Nat /\ (Len(s) = 0 => s = << >>)
<1>1. ToSet(<< >>) = {} /\ Len(<< >>) = 0
  BY DEF ToSet
<1>2. ASSUME NEW S PROVE << >> \in Seq(S)
  OBVIOUS
<1>3. ASSUME NEW S, NEW s \in Seq(S)
      PROVE Len(s) \in Nat /\ (Len(s) = 0 => s = << >>)
  BY EmptySeq
<1> QED BY <1>1, <1>2, <1>3

\* A pipe takes a frame while it has room for one.
LEMMA PipeWrite ==
  ASSUME NEW S, NEW n \in Nat, NEW s \in Seq(S), NEW x \in S, Len(s) < n
  PROVE  /\ Append(s, x) \in Seq(S) /\ Len(Append(s, x)) <= n /\ Append(s, x) # << >>
         /\ ToSet(Append(s, x)) = ToSet(s) \cup {x}
         /\ Len(Append(s, x)) = Len(s) + 1
BY AppendSet, EmptyPipe

\* Reading makes room.
LEMMA PipeRead ==
  ASSUME NEW S, NEW n \in Nat, NEW s \in Seq(S), Len(s) <= n, s # << >>
  PROVE  /\ Tail(s) \in Seq(S) /\ Len(Tail(s)) <= n
         /\ ToSet(Tail(s)) \subseteq ToSet(s)
         /\ ToSet(s) \subseteq ToSet(Tail(s)) \cup {Head(s)}
         /\ Head(s) \in S /\ Head(s) \in ToSet(s)
         /\ Len(Tail(s)) = Len(s) - 1
         /\ (Len(s) <= 1 => Tail(s) = << >>)
<1>1. /\ Tail(s) \in Seq(S) /\ ToSet(Tail(s)) \subseteq ToSet(s)
      /\ ToSet(s) \subseteq ToSet(Tail(s)) \cup {Head(s)}
      /\ Head(s) \in S /\ Head(s) \in ToSet(s)
      /\ Len(s) \in Nat \ {0} /\ Len(Tail(s)) = Len(s) - 1
  BY TailSet
<1>2. Len(s) <= 1 => Len(Tail(s)) = 0
  BY <1>1
<1>3. Len(s) <= 1 => Tail(s) = << >>
  BY <1>1, <1>2, EmptyPipe
<1>4. Len(Tail(s)) <= n
  BY <1>1
<1> QED BY <1>1, <1>3, <1>4

\* The three pipes, as the session uses them.
LEMMA EventRead ==
  ASSUME TypeOK, events # << >>
  PROVE  /\ Tail(events) \in Seq(EventFrames) /\ Len(Tail(events)) <= EventSlots
         /\ ToSet(Tail(events)) \subseteq ToSet(events)
         /\ ToSet(events) \subseteq ToSet(Tail(events)) \cup {Head(events)}
         /\ Head(events) \in EventFrames /\ Head(events) \in ToSet(events)
BY PipeRead, ConstantsAssumption DEF TypeOK, PipesOK

LEMMA EventWritten ==
  ASSUME TypeOK, NEW f \in EventFrames, Len(events) < EventSlots
  PROVE  /\ Append(events, f) \in Seq(EventFrames) /\ Len(Append(events, f)) <= EventSlots
         /\ ToSet(Append(events, f)) = ToSet(events) \cup {f}
BY PipeWrite, ConstantsAssumption DEF TypeOK, PipesOK

LEMMA ControlRead ==
  ASSUME TypeOK, control # << >>
  PROVE  /\ Tail(control) \in Seq({"start", "commit", "control"})
         /\ Len(Tail(control)) <= ControlSlots
         /\ Len(control) <= 1 => Tail(control) = << >>
BY PipeRead, ConstantsAssumption DEF TypeOK, PipesOK

LEMMA ControlWritten ==
  ASSUME TypeOK, NEW f \in {"start", "commit", "control"},
         Len(control) < ControlSlots \/ control = << >>
  PROVE  /\ Append(control, f) \in Seq({"start", "commit", "control"})
         /\ Len(Append(control, f)) <= ControlSlots
         /\ control = << >> => Len(Append(control, f)) = 1
<1>1. Len(control) < ControlSlots /\ (control = << >> => Len(control) = 0)
  BY ConstantsAssumption, EmptyPipe
<1>2. control \in Seq({"start", "commit", "control"}) /\ ControlSlots \in Nat
  BY ConstantsAssumption DEF TypeOK, PipesOK
<1>3. /\ Append(control, f) \in Seq({"start", "commit", "control"})
      /\ Len(Append(control, f)) <= ControlSlots
      /\ Len(Append(control, f)) = Len(control) + 1
  BY <1>1, <1>2, PipeWrite
<1> QED BY <1>1, <1>3

LEMMA CancelRead ==
  ASSUME TypeOK, cancel # << >>
  PROVE  /\ Tail(cancel) = << >>
         /\ Head(cancel) \in AllReasons /\ Head(cancel) \in ToSet(cancel)
<1>1. cancel \in Seq(AllReasons) /\ Len(cancel) <= 1 /\ 1 \in Nat
  BY DEF TypeOK, PipesOK
<1> QED BY <1>1, PipeRead

LEMMA CancelWritten ==
  ASSUME cancel = << >>, NEW f \in AllReasons
  PROVE  /\ Append(cancel, f) \in Seq(AllReasons) /\ Len(Append(cancel, f)) <= 1
         /\ Append(cancel, f) # << >> /\ ToSet(Append(cancel, f)) = {f}
<1>1. Append(cancel, f) = <<f>>
  OBVIOUS
<1>2. <<f>> \in Seq(AllReasons) /\ Len(<<f>>) = 1 /\ <<f>> # << >>
  OBVIOUS
<1>3. ToSet(<<f>>) = {f}
  BY DEF ToSet
<1> QED BY <1>1, <1>2, <1>3

\* Pipes that are closed are empty.
LEMMA EmptyPipes ==
  /\ << >> \in Seq({"start", "commit", "control"}) /\ << >> \in Seq(AllReasons)
  /\ << >> \in Seq(EventFrames)
  /\ Len(<< >>) = 0 /\ ToSet(<< >>) = {}
  /\ 0 <= ControlSlots /\ 0 <= EventSlots
BY EmptyPipe, ConstantsAssumption

\* The frames of the event pipe.
LEMMA FrameFacts ==
  /\ \A k \in {"ready", "accepted", "output"} :
       Frame(k) \in EventFrames /\ Frame(k).kind = k /\ Frame(k).reason = "none"
  /\ \A r \in AllReasons :
       Final(r) \in EventFrames /\ Final(r).kind = "final" /\ Final(r).reason = r
  /\ \A f \in EventFrames : f.reason \in AllReasons
BY DEF Frame, Final, EventFrames, AllReasons

-----------------------------------------------------------------------------
(* The steps                                                               *)

USE DEF Alive, EventsAtEOF, ControlAtEOF, LifelineAtEOF, BeforeStart, Handshaking,
        AfterCommit, Unaccepted, Named, Acknowledged, AllReasons,
        parent, pipes, super, history

\* The supervisor is started, or cannot be.
LEMMA StartProcessStep ==
  ASSUME SessionInv, StartProcess
  PROVE  SessionInv'
<1>1. PipesOK'
  BY DEF SessionInv, TypeOK, PipesOK, StartProcess
<1>2. TypeOK'
  <2>1. FlagsOK'
    BY Zenon DEF SessionInv, TypeOK, FlagsOK, StartProcess
  <2> QED BY <1>1, <2>1 DEF SessionInv, TypeOK, StartProcess
<1>3. StartInv'
  BY DEF SessionInv, StartInv, StartProcess
<1>4. HoldingInv'
  BY ConstantsAssumption DEF SessionInv, TypeOK, StartInv, HoldingInv, HandshakeInv,
     DeliveryInv, SenderInv, CleanInv, CauseInv, StartProcess
<1>5. HandshakeInv'
  BY EmptyPipes DEF SessionInv, TypeOK, StartInv, HoldingInv, HandshakeInv, DeliveryInv,
     SenderInv, CleanInv, CauseInv, StartProcess
<1>6. DeliveryInv'
  BY ConstantsAssumption DEF SessionInv, TypeOK, StartInv, HoldingInv, HandshakeInv,
     DeliveryInv, SenderInv, CleanInv, CauseInv, StartProcess
<1>7. SenderInv'
  BY DEF SessionInv, SenderInv, StartProcess
<1>8. CleanInv'
  BY ConstantsAssumption DEF SessionInv, TypeOK, StartInv, HoldingInv, HandshakeInv,
     DeliveryInv, SenderInv, CleanInv, CauseInv, StartProcess
<1>9. CauseInv'
  BY ConstantsAssumption DEF SessionInv, TypeOK, StartInv, HoldingInv, HandshakeInv,
     DeliveryInv, SenderInv, CleanInv, CauseInv, StartProcess
<1> QED BY <1>1, <1>2, <1>3, <1>4, <1>5, <1>6, <1>7, <1>8, <1>9 DEF SessionInv

\* Launch waits for the ready frame.
LEMMA AwaitReadyStep ==
  ASSUME SessionInv, AwaitReady
  PROVE  SessionInv'
<1>1. PipesOK'
  BY EventRead, FrameFacts DEF SessionInv, TypeOK, PipesOK, HandshakeInv, SenderInv,
     AwaitReady, Handshake
<1>2. TypeOK'
  <2>1. FlagsOK'
    BY Zenon DEF SessionInv, TypeOK, FlagsOK, AwaitReady, Handshake
  <2> QED BY <1>1, <2>1 DEF SessionInv, TypeOK, AwaitReady, Handshake
<1>3. StartInv'
  BY DEF SessionInv, StartInv, AwaitReady, Handshake
<1>4. HoldingInv'
  BY DEF SessionInv, HoldingInv, AwaitReady, Handshake
<1>5. HandshakeInv'
  BY EventRead, FrameFacts DEF SessionInv, TypeOK, HandshakeInv, AwaitReady, Handshake
<1>6. DeliveryInv'
  BY EventRead, FrameFacts DEF SessionInv, TypeOK, DeliveryInv, AwaitReady, Handshake
<1>7. SenderInv'
  BY DEF SessionInv, SenderInv, AwaitReady, Handshake
<1>8. CleanInv'
  BY DEF SessionInv, CleanInv, AwaitReady, Handshake
<1>9. CauseInv'
  BY EventRead, FrameFacts, ZenonT(40) DEF SessionInv, TypeOK, CauseInv, AwaitReady, Handshake
<1> QED BY <1>1, <1>2, <1>3, <1>4, <1>5, <1>6, <1>7, <1>8, <1>9 DEF SessionInv

\* Launch waits for the acceptance.
LEMMA AwaitAcceptedStep ==
  ASSUME SessionInv, AwaitAccepted
  PROVE  SessionInv'
<1>1. PipesOK'
  BY EventRead, FrameFacts DEF SessionInv, TypeOK, PipesOK, HandshakeInv, SenderInv,
     AwaitAccepted, Handshake
<1>2. TypeOK'
  <2>1. FlagsOK'
    BY Zenon DEF SessionInv, TypeOK, FlagsOK, AwaitAccepted, Handshake
  <2> QED BY <1>1, <2>1 DEF SessionInv, TypeOK, AwaitAccepted, Handshake
<1>3. StartInv'
  BY DEF SessionInv, StartInv, AwaitAccepted, Handshake
<1>4. HoldingInv'
  BY DEF SessionInv, HoldingInv, AwaitAccepted, Handshake
<1>5. HandshakeInv'
  BY EventRead, FrameFacts DEF SessionInv, TypeOK, HandshakeInv, AwaitAccepted, Handshake
<1>6. DeliveryInv'
  BY EventRead, FrameFacts DEF SessionInv, TypeOK, DeliveryInv, AwaitAccepted, Handshake
<1>7. SenderInv'
  BY DEF SessionInv, SenderInv, AwaitAccepted, Handshake
<1>8. CleanInv'
  BY DEF SessionInv, CleanInv, AwaitAccepted, Handshake
<1>9. CauseInv'
  BY EventRead, FrameFacts, ZenonT(40) DEF SessionInv, TypeOK, CauseInv, AwaitAccepted, Handshake
<1> QED BY <1>1, <1>2, <1>3, <1>4, <1>5, <1>6, <1>7, <1>8, <1>9 DEF SessionInv

\* The start frame finds the control pipe empty.
LEMMA SendStartStep ==
  ASSUME SessionInv, SendStart
  PROVE  SessionInv'
<1>1. PipesOK'
  BY ControlWritten DEF SessionInv, TypeOK, PipesOK, HandshakeInv, SenderInv, SendStart
<1>2. TypeOK'
  <2>1. FlagsOK'
    BY Zenon DEF SessionInv, TypeOK, FlagsOK, SendStart
  <2> QED BY <1>1, <2>1 DEF SessionInv, TypeOK, SendStart
<1>3. StartInv'
  BY DEF SessionInv, StartInv, SendStart
<1>4. HoldingInv'
  BY DEF SessionInv, HoldingInv, SendStart
<1>5. HandshakeInv'
  <2>1. CASE Alive /\ control' = Append(control, "start") /\ launch' = "awaitAccepted"
    <3>1. Len(control') = 1
      BY <2>1, ControlWritten DEF SessionInv, HandshakeInv, SendStart
    <3> QED BY <2>1, <3>1 DEF SessionInv, HandshakeInv, SendStart
  <2>2. CASE UNCHANGED control /\ launch' = "stop"
    BY <2>2 DEF SessionInv, HandshakeInv, SendStart
  <2> QED BY <2>1, <2>2 DEF SendStart
<1>6. DeliveryInv'
  BY DEF SessionInv, DeliveryInv, SendStart
<1>7. SenderInv'
  BY DEF SessionInv, SenderInv, SendStart
<1>8. CleanInv'
  BY DEF SessionInv, CleanInv, SendStart
<1>9. CauseInv'
  BY DEF SessionInv, CauseInv, SendStart
<1> QED BY <1>1, <1>2, <1>3, <1>4, <1>5, <1>6, <1>7, <1>8, <1>9 DEF SessionInv

\* A supervisor that was given nothing is killed.
LEMMA StopBeforeStartStep ==
  ASSUME SessionInv, StopBeforeStart
  PROVE  SessionInv'
<1>1. PipesOK'
  BY EmptyPipes DEF SessionInv, TypeOK, PipesOK, HandshakeInv, SenderInv, StopBeforeStart
<1>2. TypeOK'
  <2>1. FlagsOK'
    BY Zenon DEF SessionInv, TypeOK, FlagsOK, StopBeforeStart
  <2> QED BY <1>1, <2>1 DEF SessionInv, TypeOK, StopBeforeStart
<1>3. StartInv'
  BY DEF SessionInv, StartInv, StopBeforeStart
<1>4. HoldingInv'
  BY DEF SessionInv, HoldingInv, StopBeforeStart
<1>5. HandshakeInv'
  BY DEF SessionInv, HandshakeInv, StopBeforeStart
<1>6. DeliveryInv'
  BY DEF SessionInv, DeliveryInv, StopBeforeStart
<1>7. SenderInv'
  BY DEF SessionInv, SenderInv, StopBeforeStart
<1>8. CleanInv'
  BY DEF SessionInv, CleanInv, StopBeforeStart
<1>9. CauseInv'
  BY EmptyPipes DEF SessionInv, TypeOK, CauseInv, StopBeforeStart
<1> QED BY <1>1, <1>2, <1>3, <1>4, <1>5, <1>6, <1>7, <1>8, <1>9 DEF SessionInv

\* The hand-off is aborted by the end of the lifeline.
LEMMA CloseCancellationStep ==
  ASSUME SessionInv, CloseCancellation
  PROVE  SessionInv'
<1>1. PipesOK'
  BY DEF SessionInv, TypeOK, PipesOK, CloseCancellation
<1>2. TypeOK'
  <2>1. FlagsOK'
    BY Zenon DEF SessionInv, TypeOK, FlagsOK, CloseCancellation
  <2> QED BY <1>1, <2>1 DEF SessionInv, TypeOK, CloseCancellation
<1>3. StartInv'
  BY DEF SessionInv, StartInv, CloseCancellation
<1>4. HoldingInv'
  BY DEF SessionInv, HoldingInv, CloseCancellation
<1>5. HandshakeInv'
  BY DEF SessionInv, HandshakeInv, CloseCancellation
<1>6. DeliveryInv'
  BY DEF SessionInv, DeliveryInv, CloseCancellation
<1>7. SenderInv'
  BY DEF SessionInv, SenderInv, CloseCancellation
<1>8. CleanInv'
  BY DEF SessionInv, CleanInv, CloseCancellation
<1>9. CauseInv'
  BY DEF SessionInv, CauseInv, CloseCancellation
<1> QED BY <1>1, <1>2, <1>3, <1>4, <1>5, <1>6, <1>7, <1>8, <1>9 DEF SessionInv

\* The aborted supervisor has acknowledged, or something went wrong.
LEMMA AbortReapedStep ==
  ASSUME SessionInv, AbortReaped
  PROVE  SessionInv'
<1>1. PipesOK'
  BY EmptyPipes DEF SessionInv, TypeOK, PipesOK, HandshakeInv, SenderInv, AbortReaped
<1>2. TypeOK'
  <2>1. FlagsOK'
    BY Zenon DEF SessionInv, TypeOK, FlagsOK, AbortReaped
  <2> QED BY <1>1, <2>1 DEF SessionInv, TypeOK, AbortReaped
<1>3. StartInv'
  BY DEF SessionInv, StartInv, AbortReaped
<1>4. HoldingInv'
  BY DEF SessionInv, HoldingInv, AbortReaped
<1>5. HandshakeInv'
  BY DEF SessionInv, HandshakeInv, AbortReaped
<1>6. DeliveryInv'
  BY DEF SessionInv, DeliveryInv, AbortReaped
<1>7. SenderInv'
  BY DEF SessionInv, SenderInv, AbortReaped
<1>8. CleanInv'
  <2>1. ToSet(events) = {events[i] : i \in 1..Len(events)}
    BY LenProperties DEF SessionInv, TypeOK, PipesOK, ToSet
  <2>2. PreCommitFinal <=> Acknowledged
    BY <2>1 DEF PreCommitFinal
  <2> QED BY <2>2, EmptyPipes DEF SessionInv, TypeOK, StartInv, HoldingInv, HandshakeInv,
     DeliveryInv, SenderInv, CleanInv, CauseInv, AbortReaped
<1>9. CauseInv'
  BY EmptyPipes DEF SessionInv, TypeOK, CauseInv, AbortReaped
<1> QED BY <1>1, <1>2, <1>3, <1>4, <1>5, <1>6, <1>7, <1>8, <1>9 DEF SessionInv

\* A supervisor that does not end in time is killed.
LEMMA ReapLimitStep ==
  ASSUME SessionInv, ReapLimit
  PROVE  SessionInv'
<1>1. PipesOK'
  BY EmptyPipes DEF SessionInv, TypeOK, PipesOK, HandshakeInv, SenderInv, ReapLimit,
     ProcessEnds
<1>2. TypeOK'
  <2>1. source' \subseteq {"parent", "supervisor"}
    BY DEF SessionInv, TypeOK, ReapLimit, ProcessEnds
  <2>2. causes' \subseteq AllReasons \ {"none"}
    BY ConstantsAssumption DEF SessionInv, TypeOK, ReapLimit, ProcessEnds
  <2>3. FlagsOK'
    BY Zenon DEF SessionInv, TypeOK, FlagsOK, ReapLimit, ProcessEnds
  <2> QED BY <1>1, <2>1, <2>2, <2>3, EmptyPipes, ConstantsAssumption DEF SessionInv,
     TypeOK, SenderInv, ReapLimit, ProcessEnds
<1>3. StartInv'
  BY DEF SessionInv, StartInv, ReapLimit, ProcessEnds
<1>4. HoldingInv'
  BY DEF SessionInv, HoldingInv, ReapLimit, ProcessEnds
<1>5. HandshakeInv'
  BY DEF SessionInv, HandshakeInv, ReapLimit, ProcessEnds
<1>6. DeliveryInv'
  BY DEF SessionInv, DeliveryInv, ReapLimit, ProcessEnds
<1>7. SenderInv'
  BY DEF SessionInv, SenderInv, ReapLimit, ProcessEnds
<1>8. CleanInv'
  BY DEF SessionInv, CleanInv, ReapLimit, ProcessEnds
<1>9. CauseInv'
  BY EmptyPipes DEF SessionInv, TypeOK, CauseInv, ReapLimit, ProcessEnds
<1> QED BY <1>1, <1>2, <1>3, <1>4, <1>5, <1>6, <1>7, <1>8, <1>9 DEF SessionInv

\* The commit frame gives the source away.
LEMMA CommitStep ==
  ASSUME SessionInv, Commit
  PROVE  SessionInv'
<1>1. PipesOK'
  BY ControlWritten, CancelWritten DEF SessionInv, TypeOK, PipesOK, HandshakeInv,
     SenderInv, Commit
<1>2. TypeOK'
  <2>1. source' \subseteq {"parent", "supervisor"}
    BY DEF SessionInv, TypeOK, Commit
  <2>2. causes' \subseteq AllReasons \ {"none"}
    BY ConstantsAssumption DEF SessionInv, TypeOK, Commit
  <2>3. FlagsOK'
    BY Zenon DEF SessionInv, TypeOK, FlagsOK, Commit
  <2> QED BY <1>1, <2>1, <2>2, <2>3, ControlWritten, CancelWritten DEF SessionInv, TypeOK,
     SenderInv, Commit
<1>3. StartInv'
  BY DEF SessionInv, StartInv, Commit
<1>4. HoldingInv'
  BY DEF SessionInv, HoldingInv, Commit
<1>5. HandshakeInv'
  <2>1. CASE Alive
    BY <2>1, ControlWritten DEF SessionInv, TypeOK, StartInv, HoldingInv, HandshakeInv,
       DeliveryInv, SenderInv, CleanInv, CauseInv, Commit
  <2>2. CASE ~Alive
    <3>1. launch' = "abort" /\ UNCHANGED <<control, events, super, committed, ran>>
      BY <2>2 DEF Commit
    <3> QED BY <2>2, <3>1 DEF SessionInv, HandshakeInv, Commit
  <2> QED BY <2>1, <2>2
<1>6. DeliveryInv'
  BY DEF SessionInv, DeliveryInv, Commit
<1>7. SenderInv'
  BY ControlWritten, CancelWritten, ConstantsAssumption DEF SessionInv, TypeOK, StartInv,
     HoldingInv, HandshakeInv, DeliveryInv, SenderInv, CleanInv, CauseInv, Commit
<1>8. CleanInv'
  BY DEF SessionInv, CleanInv, Commit
<1>9. CauseInv'
  BY ControlWritten, CancelWritten, ConstantsAssumption, ZenonT(40) DEF SessionInv, TypeOK, StartInv,
     HoldingInv, HandshakeInv, DeliveryInv, SenderInv, CleanInv, CauseInv, Commit
<1> QED BY <1>1, <1>2, <1>3, <1>4, <1>5, <1>6, <1>7, <1>8, <1>9 DEF SessionInv

\* The only cancel frame finds its pipe empty.
LEMMA CancelStep ==
  ASSUME SessionInv, NEW r \in {"user", "terminate", "hangup", "internal"}, Cancel(r)
  PROVE  SessionInv'
<1>1. PipesOK'
  BY CancelWritten, ConstantsAssumption DEF SessionInv, TypeOK, PipesOK, HandshakeInv,
     SenderInv, Cancel
<1>2. TypeOK'
  <2>1. source' \subseteq {"parent", "supervisor"}
    BY DEF SessionInv, TypeOK, Cancel
  <2>2. causes' \subseteq AllReasons \ {"none"}
    BY ConstantsAssumption DEF SessionInv, TypeOK, Cancel
  <2>3. FlagsOK'
    BY Zenon DEF SessionInv, TypeOK, FlagsOK, Cancel
  <2> QED BY <1>1, <2>1, <2>2, <2>3, CancelWritten DEF SessionInv, TypeOK, SenderInv, Cancel
<1>3. StartInv'
  BY DEF SessionInv, StartInv, Cancel
<1>4. HoldingInv'
  BY DEF SessionInv, HoldingInv, Cancel
<1>5. HandshakeInv'
  BY DEF SessionInv, HandshakeInv, Cancel
<1>6. DeliveryInv'
  BY DEF SessionInv, DeliveryInv, Cancel
<1>7. SenderInv'
  BY DEF SessionInv, SenderInv, Cancel
<1>8. CleanInv'
  BY DEF SessionInv, CleanInv, Cancel
<1>9. CauseInv'
  BY CancelWritten, ConstantsAssumption DEF SessionInv, TypeOK, StartInv, HoldingInv,
     HandshakeInv, DeliveryInv, SenderInv, CleanInv, CauseInv, Cancel
<1> QED BY <1>1, <1>2, <1>3, <1>4, <1>5, <1>6, <1>7, <1>8, <1>9 DEF SessionInv

\* The lifeline is closed: that is a cause.
LEMMA CloseLifelineStep ==
  ASSUME SessionInv, CloseLifeline
  PROVE  SessionInv'
<1>1. PipesOK'
  BY DEF SessionInv, TypeOK, PipesOK, CloseLifeline, StoppedSender
<1>2. TypeOK'
  <2>1. FlagsOK'
    BY Zenon DEF SessionInv, TypeOK, FlagsOK, CloseLifeline, StoppedSender
  <2> QED BY <1>1, <2>1 DEF SessionInv, TypeOK, CloseLifeline, StoppedSender
<1>3. StartInv'
  BY DEF SessionInv, StartInv, CloseLifeline, StoppedSender
<1>4. HoldingInv'
  BY DEF SessionInv, HoldingInv, CloseLifeline, StoppedSender
<1>5. HandshakeInv'
  BY DEF SessionInv, HandshakeInv, CloseLifeline, StoppedSender
<1>6. DeliveryInv'
  BY DEF SessionInv, DeliveryInv, CloseLifeline, StoppedSender
<1>7. SenderInv'
  BY DEF SessionInv, SenderInv, CloseLifeline, StoppedSender
<1>8. CleanInv'
  BY DEF SessionInv, CleanInv, CloseLifeline, StoppedSender
<1>9. CauseInv'
  BY DEF SessionInv, CauseInv, CloseLifeline, StoppedSender
<1> QED BY <1>1, <1>2, <1>3, <1>4, <1>5, <1>6, <1>7, <1>8, <1>9 DEF SessionInv

\* A control write begins.
LEMMA BeginControlStep ==
  ASSUME SessionInv, BeginControl
  PROVE  SessionInv'
<1>1. PipesOK'
  BY DEF SessionInv, TypeOK, PipesOK, BeginControl
<1>2. TypeOK'
  <2>1. FlagsOK'
    BY Zenon DEF SessionInv, TypeOK, FlagsOK, BeginControl
  <2> QED BY <1>1, <2>1 DEF SessionInv, TypeOK, BeginControl
<1>3. StartInv'
  BY DEF SessionInv, StartInv, BeginControl
<1>4. HoldingInv'
  BY DEF SessionInv, HoldingInv, BeginControl
<1>5. HandshakeInv'
  BY DEF SessionInv, HandshakeInv, BeginControl
<1>6. DeliveryInv'
  BY DEF SessionInv, DeliveryInv, BeginControl
<1>7. SenderInv'
  BY DEF SessionInv, SenderInv, BeginControl
<1>8. CleanInv'
  BY DEF SessionInv, CleanInv, BeginControl
<1>9. CauseInv'
  BY DEF SessionInv, CauseInv, BeginControl
<1> QED BY <1>1, <1>2, <1>3, <1>4, <1>5, <1>6, <1>7, <1>8, <1>9 DEF SessionInv

\* A control is written, or given up.
LEMMA WriteControlStep ==
  ASSUME SessionInv, WriteControl
  PROVE  SessionInv'
<1>1. PipesOK'
  BY ControlWritten DEF SessionInv, TypeOK, PipesOK, HandshakeInv, SenderInv, WriteControl
<1>2. TypeOK'
  <2>1. FlagsOK'
    BY Zenon DEF SessionInv, TypeOK, FlagsOK, WriteControl
  <2> QED BY <1>1, <2>1 DEF SessionInv, TypeOK, WriteControl
<1>3. StartInv'
  BY DEF SessionInv, StartInv, WriteControl
<1>4. HoldingInv'
  BY DEF SessionInv, HoldingInv, WriteControl
<1>5. HandshakeInv'
  BY ControlWritten, ConstantsAssumption DEF SessionInv, TypeOK, StartInv, HoldingInv,
     HandshakeInv, DeliveryInv, SenderInv, CleanInv, CauseInv, WriteControl
<1>6. DeliveryInv'
  BY DEF SessionInv, DeliveryInv, WriteControl
<1>7. SenderInv'
  BY DEF SessionInv, SenderInv, WriteControl
<1>8. CleanInv'
  BY DEF SessionInv, CleanInv, WriteControl
<1>9. CauseInv'
  BY DEF SessionInv, CauseInv, WriteControl
<1> QED BY <1>1, <1>2, <1>3, <1>4, <1>5, <1>6, <1>7, <1>8, <1>9 DEF SessionInv

\* A delivered final carries the cause of its frame.
LEMMA ReadEventStep ==
  ASSUME SessionInv, ReadEvent
  PROVE  SessionInv'
<1>1. PipesOK'
  BY EventRead, FrameFacts DEF SessionInv, TypeOK, PipesOK, HandshakeInv, SenderInv,
     ReadEvent, StoppedSender
<1>2. TypeOK'
  <2>1. source' \subseteq {"parent", "supervisor"}
    BY DEF SessionInv, TypeOK, ReadEvent, StoppedSender
  <2>2. causes' \subseteq AllReasons \ {"none"}
    BY ConstantsAssumption DEF SessionInv, TypeOK, ReadEvent, StoppedSender
  <2>3. FlagsOK'
    BY Zenon DEF SessionInv, TypeOK, FlagsOK, ReadEvent, StoppedSender
  <2> QED BY <1>1, <2>1, <2>2, <2>3, EventRead, FrameFacts DEF SessionInv, TypeOK,
     SenderInv, ReadEvent, StoppedSender
<1>3. StartInv'
  BY DEF SessionInv, StartInv, ReadEvent, StoppedSender
<1>4. HoldingInv'
  BY DEF SessionInv, HoldingInv, ReadEvent, StoppedSender
<1>5. HandshakeInv'
  BY DEF SessionInv, HandshakeInv, ReadEvent, StoppedSender
<1>6. DeliveryInv'
  <2>1. CASE events # << >> /\ events' = Tail(events)
    <3>1. /\ Head(events) \in ToSet(events) /\ ToSet(events') \subseteq ToSet(events)
          /\ ToSet(events) \subseteq ToSet(events') \cup {Head(events)}
      BY <2>1, EventRead DEF SessionInv
    <3> QED BY <2>1, <3>1 DEF SessionInv, TypeOK, DeliveryInv, ReadEvent
  <2>2. CASE UNCHANGED events /\ EventsAtEOF /\ receiver' = "error"
    BY <2>2, EmptyPipes DEF SessionInv, TypeOK, DeliveryInv, ReadEvent
  <2> QED BY <2>1, <2>2 DEF ReadEvent
<1>7. SenderInv'
  BY DEF SessionInv, SenderInv, ReadEvent, StoppedSender
<1>8. CleanInv'
  BY DEF SessionInv, CleanInv, ReadEvent, StoppedSender
<1>9. CauseInv'
  <2>1. CASE events # << >> /\ events' = Tail(events)
    <3>1. Head(events) \in ToSet(events) /\ ToSet(events') \subseteq ToSet(events)
      BY <2>1, EventRead DEF SessionInv
    <3> QED BY <2>1, <3>1 DEF SessionInv, TypeOK, StartInv, HoldingInv, HandshakeInv,
       DeliveryInv, SenderInv, CleanInv, CauseInv, ReadEvent, StoppedSender
  <2>2. CASE UNCHANGED events
    BY <2>2 DEF SessionInv, TypeOK, StartInv, HoldingInv, HandshakeInv, DeliveryInv,
       SenderInv, CleanInv, CauseInv, ReadEvent, StoppedSender
  <2> QED BY <2>1, <2>2 DEF ReadEvent
<1> QED BY <1>1, <1>2, <1>3, <1>4, <1>5, <1>6, <1>7, <1>8, <1>9 DEF SessionInv

\* Wait stops the sender.
LEMMA BeginWaitStep ==
  ASSUME SessionInv, BeginWait
  PROVE  SessionInv'
<1>1. PipesOK'
  BY DEF SessionInv, TypeOK, PipesOK, BeginWait, StoppedSender
<1>2. TypeOK'
  <2>1. FlagsOK'
    BY Zenon DEF SessionInv, TypeOK, FlagsOK, BeginWait, StoppedSender
  <2> QED BY <1>1, <2>1 DEF SessionInv, TypeOK, BeginWait, StoppedSender
<1>3. StartInv'
  BY DEF SessionInv, StartInv, BeginWait, StoppedSender
<1>4. HoldingInv'
  BY DEF SessionInv, HoldingInv, BeginWait, StoppedSender
<1>5. HandshakeInv'
  BY DEF SessionInv, HandshakeInv, BeginWait, StoppedSender
<1>6. DeliveryInv'
  BY DEF SessionInv, DeliveryInv, BeginWait, StoppedSender
<1>7. SenderInv'
  BY DEF SessionInv, SenderInv, BeginWait, StoppedSender
<1>8. CleanInv'
  BY DEF SessionInv, CleanInv, BeginWait, StoppedSender
<1>9. CauseInv'
  BY DEF SessionInv, CauseInv, BeginWait, StoppedSender
<1> QED BY <1>1, <1>2, <1>3, <1>4, <1>5, <1>6, <1>7, <1>8, <1>9 DEF SessionInv

\* Wait has reaped the supervisor.
LEMMA ReapedStep ==
  ASSUME SessionInv, Reaped
  PROVE  SessionInv'
<1>1. PipesOK'
  BY DEF SessionInv, TypeOK, PipesOK, Reaped
<1>2. TypeOK'
  <2>1. FlagsOK'
    BY Zenon DEF SessionInv, TypeOK, FlagsOK, Reaped
  <2> QED BY <1>1, <2>1 DEF SessionInv, TypeOK, Reaped
<1>3. StartInv'
  BY DEF SessionInv, StartInv, Reaped
<1>4. HoldingInv'
  BY DEF SessionInv, HoldingInv, Reaped
<1>5. HandshakeInv'
  BY DEF SessionInv, HandshakeInv, Reaped
<1>6. DeliveryInv'
  BY DEF SessionInv, DeliveryInv, Reaped
<1>7. SenderInv'
  BY DEF SessionInv, SenderInv, Reaped
<1>8. CleanInv'
  BY DEF SessionInv, CleanInv, Reaped
<1>9. CauseInv'
  BY DEF SessionInv, CauseInv, Reaped
<1> QED BY <1>1, <1>2, <1>3, <1>4, <1>5, <1>6, <1>7, <1>8, <1>9 DEF SessionInv

\* Wait closes what is left.
LEMMA TeardownStep ==
  ASSUME SessionInv, Teardown
  PROVE  SessionInv'
<1>1. PipesOK'
  BY EmptyPipes DEF SessionInv, TypeOK, PipesOK, HandshakeInv, SenderInv, Teardown
<1>2. TypeOK'
  <2>1. FlagsOK'
    BY Zenon DEF SessionInv, TypeOK, FlagsOK, Teardown
  <2> QED BY <1>1, <2>1 DEF SessionInv, TypeOK, Teardown
<1>3. StartInv'
  BY DEF SessionInv, StartInv, Teardown
<1>4. HoldingInv'
  BY DEF SessionInv, HoldingInv, Teardown
<1>5. HandshakeInv'
  BY DEF SessionInv, HandshakeInv, Teardown
<1>6. DeliveryInv'
  BY EmptyPipes DEF SessionInv, TypeOK, DeliveryInv, Teardown
<1>7. SenderInv'
  BY DEF SessionInv, SenderInv, Teardown
<1>8. CleanInv'
  BY DEF SessionInv, CleanInv, Teardown
<1>9. CauseInv'
  BY EmptyPipes, ConstantsAssumption DEF SessionInv, TypeOK, StartInv, HoldingInv,
     HandshakeInv, DeliveryInv, SenderInv, CleanInv, CauseInv, Teardown
<1> QED BY <1>1, <1>2, <1>3, <1>4, <1>5, <1>6, <1>7, <1>8, <1>9 DEF SessionInv

\* The supervisor is ready.
LEMMA SendReadyStep ==
  ASSUME SessionInv, SendReady
  PROVE  SessionInv'
<1>1. PipesOK'
  <2>1. CASE launch # "dead" /\ Len(events) < EventSlots /\ events' = Append(events,
     Frame("ready"))
    <3>1. Frame("ready") \in EventFrames /\ Frame("ready").kind = "ready" /\
       Frame("ready").reason = "none"
      BY FrameFacts DEF SessionInv, TypeOK
    <3>2. /\ events' \in Seq(EventFrames) /\ Len(events') <= EventSlots
          /\ ToSet(events') = ToSet(events) \cup {Frame("ready")}
      BY <2>1, <3>1, EventWritten DEF SessionInv
    <3> QED BY <2>1, <3>1, <3>2, EmptyPipes DEF SessionInv, TypeOK, PipesOK, SendReady,
       SendHandshake, ProcessEnds
  <2>2. CASE UNCHANGED events
    <3>1. UNCHANGED <<control, cancel>> \/ (control' = << >> /\ cancel' = << >>)
      BY DEF SendReady, SendHandshake, ProcessEnds
    <3>2. CASE UNCHANGED <<control, cancel>>
      BY <2>2, <3>2 DEF SessionInv, TypeOK, PipesOK
    <3>3. CASE control' = << >> /\ cancel' = << >>
      BY <2>2, <3>3, EmptyPipes DEF SessionInv, TypeOK, PipesOK
    <3> QED BY <3>1, <3>2, <3>3
  <2> QED BY <2>1, <2>2 DEF SendReady, SendHandshake, ProcessEnds
<1>2. TypeOK'
  <2>1. source' \subseteq {"parent", "supervisor"}
    BY DEF SessionInv, TypeOK, SendReady, SendHandshake, ProcessEnds
  <2>2. causes' \subseteq AllReasons \ {"none"}
    BY ConstantsAssumption DEF SessionInv, TypeOK, SendReady, SendHandshake, ProcessEnds
  <2>3. FlagsOK'
    BY Zenon DEF SessionInv, TypeOK, FlagsOK, SendReady, SendHandshake, ProcessEnds
  <2> QED BY <1>1, <2>1, <2>2, <2>3, EventWritten, FrameFacts, EmptyPipes,
     ConstantsAssumption DEF SessionInv, TypeOK, SenderInv, SendReady, SendHandshake,
     ProcessEnds
<1>3. StartInv'
  BY DEF SessionInv, StartInv, SendReady, SendHandshake, ProcessEnds
<1>4. HoldingInv'
  BY DEF SessionInv, HoldingInv, SendReady, SendHandshake, ProcessEnds
<1>5. HandshakeInv'
  <2>1. CASE launch # "dead" /\ Len(events) < EventSlots /\ events' = Append(events,
     Frame("ready"))
    <3>1. Frame("ready") \in EventFrames /\ Frame("ready").kind = "ready" /\
       Frame("ready").reason = "none"
      BY FrameFacts DEF SessionInv, TypeOK
    <3>2. /\ events' \in Seq(EventFrames) /\ Len(events') <= EventSlots
          /\ ToSet(events') = ToSet(events) \cup {Frame("ready")}
      BY <2>1, <3>1, EventWritten DEF SessionInv
    <3> QED BY <2>1, <3>1, <3>2, EmptyPipes DEF SessionInv, TypeOK, StartInv, HoldingInv,
       HandshakeInv, DeliveryInv, SenderInv, CleanInv, CauseInv, SendReady, SendHandshake,
       ProcessEnds
  <2>2. CASE UNCHANGED events
    BY <2>2, EmptyPipes DEF SessionInv, TypeOK, StartInv, HoldingInv, HandshakeInv,
       DeliveryInv, SenderInv, CleanInv, CauseInv, SendReady, SendHandshake, ProcessEnds
  <2> QED BY <2>1, <2>2 DEF SendReady, SendHandshake, ProcessEnds
<1>6. DeliveryInv'
  <2>1. CASE launch # "dead" /\ Len(events) < EventSlots /\ events' = Append(events,
     Frame("ready"))
    <3>1. Frame("ready") \in EventFrames /\ Frame("ready").kind = "ready" /\
       Frame("ready").reason = "none"
      BY FrameFacts DEF SessionInv, TypeOK
    <3>2. /\ events' \in Seq(EventFrames) /\ Len(events') <= EventSlots
          /\ ToSet(events') = ToSet(events) \cup {Frame("ready")}
      BY <2>1, <3>1, EventWritten DEF SessionInv
    <3> QED BY <2>1, <3>1, <3>2, EmptyPipes DEF SessionInv, TypeOK, StartInv, HoldingInv,
       HandshakeInv, DeliveryInv, SenderInv, CleanInv, CauseInv, SendReady, SendHandshake,
       ProcessEnds
  <2>2. CASE UNCHANGED events
    BY <2>2, EmptyPipes DEF SessionInv, TypeOK, StartInv, HoldingInv, HandshakeInv,
       DeliveryInv, SenderInv, CleanInv, CauseInv, SendReady, SendHandshake, ProcessEnds
  <2> QED BY <2>1, <2>2 DEF SendReady, SendHandshake, ProcessEnds
<1>7. SenderInv'
  BY DEF SessionInv, SenderInv, SendReady, SendHandshake, ProcessEnds
<1>8. CleanInv'
  <2>1. CASE launch # "dead" /\ Len(events) < EventSlots /\ events' = Append(events,
     Frame("ready"))
    <3>1. Frame("ready") \in EventFrames /\ Frame("ready").kind = "ready" /\
       Frame("ready").reason = "none"
      BY FrameFacts DEF SessionInv, TypeOK
    <3>2. /\ events' \in Seq(EventFrames) /\ Len(events') <= EventSlots
          /\ ToSet(events') = ToSet(events) \cup {Frame("ready")}
      BY <2>1, <3>1, EventWritten DEF SessionInv
    <3> QED BY <2>1, <3>1, <3>2, EmptyPipes DEF SessionInv, TypeOK, StartInv, HoldingInv,
       HandshakeInv, DeliveryInv, SenderInv, CleanInv, CauseInv, SendReady, SendHandshake,
       ProcessEnds
  <2>2. CASE UNCHANGED events
    BY <2>2, EmptyPipes DEF SessionInv, TypeOK, StartInv, HoldingInv, HandshakeInv,
       DeliveryInv, SenderInv, CleanInv, CauseInv, SendReady, SendHandshake, ProcessEnds
  <2> QED BY <2>1, <2>2 DEF SendReady, SendHandshake, ProcessEnds
<1>9. CauseInv'
  <2>1. CASE launch # "dead" /\ Len(events) < EventSlots /\ events' = Append(events,
     Frame("ready"))
    <3>1. Frame("ready") \in EventFrames /\ Frame("ready").kind = "ready" /\
       Frame("ready").reason = "none"
      BY FrameFacts DEF SessionInv, TypeOK
    <3>2. /\ events' \in Seq(EventFrames) /\ Len(events') <= EventSlots
          /\ ToSet(events') = ToSet(events) \cup {Frame("ready")}
      BY <2>1, <3>1, EventWritten DEF SessionInv
    <3> QED BY <2>1, <3>1, <3>2, EmptyPipes DEF SessionInv, TypeOK, StartInv, HoldingInv,
       HandshakeInv, DeliveryInv, SenderInv, CleanInv, CauseInv, SendReady, SendHandshake,
       ProcessEnds
  <2>2. CASE UNCHANGED events
    BY <2>2, EmptyPipes DEF SessionInv, TypeOK, StartInv, HoldingInv, HandshakeInv,
       DeliveryInv, SenderInv, CleanInv, CauseInv, SendReady, SendHandshake, ProcessEnds
  <2> QED BY <2>1, <2>2 DEF SendReady, SendHandshake, ProcessEnds
<1> QED BY <1>1, <1>2, <1>3, <1>4, <1>5, <1>6, <1>7, <1>8, <1>9 DEF SessionInv

\* The supervisor accepts the source and listens for a cancellation.
LEMMA SendAcceptedStep ==
  ASSUME SessionInv, SendAccepted
  PROVE  SessionInv'
<1>1. PipesOK'
  <2>1. CASE launch # "dead" /\ Len(events) < EventSlots /\ events' = Append(events,
     Frame("accepted"))
    <3>1. Frame("accepted") \in EventFrames /\ Frame("accepted").kind = "accepted" /\
       Frame("accepted").reason = "none"
      BY FrameFacts DEF SessionInv, TypeOK
    <3>2. /\ events' \in Seq(EventFrames) /\ Len(events') <= EventSlots
          /\ ToSet(events') = ToSet(events) \cup {Frame("accepted")}
      BY <2>1, <3>1, EventWritten DEF SessionInv
    <3> QED BY <2>1, <3>1, <3>2, EmptyPipes DEF SessionInv, TypeOK, PipesOK, SendAccepted,
       SendHandshake, ProcessEnds
  <2>2. CASE UNCHANGED events
    <3>1. UNCHANGED <<control, cancel>> \/ (control' = << >> /\ cancel' = << >>)
      BY DEF SendAccepted, SendHandshake, ProcessEnds
    <3>2. CASE UNCHANGED <<control, cancel>>
      BY <2>2, <3>2 DEF SessionInv, TypeOK, PipesOK
    <3>3. CASE control' = << >> /\ cancel' = << >>
      BY <2>2, <3>3, EmptyPipes DEF SessionInv, TypeOK, PipesOK
    <3> QED BY <3>1, <3>2, <3>3
  <2> QED BY <2>1, <2>2 DEF SendAccepted, SendHandshake, ProcessEnds
<1>2. TypeOK'
  <2>1. source' \subseteq {"parent", "supervisor"}
    BY DEF SessionInv, TypeOK, SendAccepted, SendHandshake, ProcessEnds
  <2>2. causes' \subseteq AllReasons \ {"none"}
    BY ConstantsAssumption DEF SessionInv, TypeOK, SendAccepted, SendHandshake, ProcessEnds
  <2>3. FlagsOK'
    BY Zenon DEF SessionInv, TypeOK, FlagsOK, SendAccepted, SendHandshake, ProcessEnds
  <2> QED BY <1>1, <2>1, <2>2, <2>3, EventWritten, FrameFacts, EmptyPipes,
     ConstantsAssumption DEF SessionInv, TypeOK, SenderInv, SendAccepted, SendHandshake,
     ProcessEnds
<1>3. StartInv'
  BY DEF SessionInv, StartInv, SendAccepted, SendHandshake, ProcessEnds
<1>4. HoldingInv'
  BY DEF SessionInv, HoldingInv, SendAccepted, SendHandshake, ProcessEnds
<1>5. HandshakeInv'
  <2>1. CASE launch # "dead" /\ Len(events) < EventSlots /\ events' = Append(events,
     Frame("accepted"))
    <3>1. Frame("accepted") \in EventFrames /\ Frame("accepted").kind = "accepted" /\
       Frame("accepted").reason = "none"
      BY FrameFacts DEF SessionInv, TypeOK
    <3>2. /\ events' \in Seq(EventFrames) /\ Len(events') <= EventSlots
          /\ ToSet(events') = ToSet(events) \cup {Frame("accepted")}
      BY <2>1, <3>1, EventWritten DEF SessionInv
    <3> QED BY <2>1, <3>1, <3>2, EmptyPipes DEF SessionInv, TypeOK, StartInv, HoldingInv,
       HandshakeInv, DeliveryInv, SenderInv, CleanInv, CauseInv, SendAccepted,
       SendHandshake, ProcessEnds
  <2>2. CASE UNCHANGED events
    BY <2>2, EmptyPipes DEF SessionInv, TypeOK, StartInv, HoldingInv, HandshakeInv,
       DeliveryInv, SenderInv, CleanInv, CauseInv, SendAccepted, SendHandshake, ProcessEnds
  <2> QED BY <2>1, <2>2 DEF SendAccepted, SendHandshake, ProcessEnds
<1>6. DeliveryInv'
  <2>1. CASE launch # "dead" /\ Len(events) < EventSlots /\ events' = Append(events,
     Frame("accepted"))
    <3>1. Frame("accepted") \in EventFrames /\ Frame("accepted").kind = "accepted" /\
       Frame("accepted").reason = "none"
      BY FrameFacts DEF SessionInv, TypeOK
    <3>2. /\ events' \in Seq(EventFrames) /\ Len(events') <= EventSlots
          /\ ToSet(events') = ToSet(events) \cup {Frame("accepted")}
      BY <2>1, <3>1, EventWritten DEF SessionInv
    <3> QED BY <2>1, <3>1, <3>2, EmptyPipes DEF SessionInv, TypeOK, StartInv, HoldingInv,
       HandshakeInv, DeliveryInv, SenderInv, CleanInv, CauseInv, SendAccepted,
       SendHandshake, ProcessEnds
  <2>2. CASE UNCHANGED events
    BY <2>2, EmptyPipes DEF SessionInv, TypeOK, StartInv, HoldingInv, HandshakeInv,
       DeliveryInv, SenderInv, CleanInv, CauseInv, SendAccepted, SendHandshake, ProcessEnds
  <2> QED BY <2>1, <2>2 DEF SendAccepted, SendHandshake, ProcessEnds
<1>7. SenderInv'
  BY DEF SessionInv, SenderInv, SendAccepted, SendHandshake, ProcessEnds
<1>8. CleanInv'
  <2>1. CASE launch # "dead" /\ Len(events) < EventSlots /\ events' = Append(events,
     Frame("accepted"))
    <3>1. Frame("accepted") \in EventFrames /\ Frame("accepted").kind = "accepted" /\
       Frame("accepted").reason = "none"
      BY FrameFacts DEF SessionInv, TypeOK
    <3>2. /\ events' \in Seq(EventFrames) /\ Len(events') <= EventSlots
          /\ ToSet(events') = ToSet(events) \cup {Frame("accepted")}
      BY <2>1, <3>1, EventWritten DEF SessionInv
    <3> QED BY <2>1, <3>1, <3>2, EmptyPipes DEF SessionInv, TypeOK, StartInv, HoldingInv,
       HandshakeInv, DeliveryInv, SenderInv, CleanInv, CauseInv, SendAccepted,
       SendHandshake, ProcessEnds
  <2>2. CASE UNCHANGED events
    BY <2>2, EmptyPipes DEF SessionInv, TypeOK, StartInv, HoldingInv, HandshakeInv,
       DeliveryInv, SenderInv, CleanInv, CauseInv, SendAccepted, SendHandshake, ProcessEnds
  <2> QED BY <2>1, <2>2 DEF SendAccepted, SendHandshake, ProcessEnds
<1>9. CauseInv'
  <2>1. CASE launch # "dead" /\ Len(events) < EventSlots /\ events' = Append(events,
     Frame("accepted"))
    <3>1. Frame("accepted") \in EventFrames /\ Frame("accepted").kind = "accepted" /\
       Frame("accepted").reason = "none"
      BY FrameFacts DEF SessionInv, TypeOK
    <3>2. /\ events' \in Seq(EventFrames) /\ Len(events') <= EventSlots
          /\ ToSet(events') = ToSet(events) \cup {Frame("accepted")}
      BY <2>1, <3>1, EventWritten DEF SessionInv
    <3> QED BY <2>1, <3>1, <3>2, EmptyPipes DEF SessionInv, TypeOK, StartInv, HoldingInv,
       HandshakeInv, DeliveryInv, SenderInv, CleanInv, CauseInv, SendAccepted,
       SendHandshake, ProcessEnds
  <2>2. CASE UNCHANGED events
    BY <2>2, EmptyPipes DEF SessionInv, TypeOK, StartInv, HoldingInv, HandshakeInv,
       DeliveryInv, SenderInv, CleanInv, CauseInv, SendAccepted, SendHandshake, ProcessEnds
  <2> QED BY <2>1, <2>2 DEF SendAccepted, SendHandshake, ProcessEnds
<1> QED BY <1>1, <1>2, <1>3, <1>4, <1>5, <1>6, <1>7, <1>8, <1>9 DEF SessionInv

\* The supervisor takes the start frame, or ends with its parent.
LEMMA ReadStartStep ==
  ASSUME SessionInv, ReadStart
  PROVE  SessionInv'
<1>1. PipesOK'
  BY ControlRead, EmptyPipes DEF SessionInv, TypeOK, PipesOK, HandshakeInv, SenderInv,
     ReadStart, ProcessEnds
<1>2. TypeOK'
  <2>1. source' \subseteq {"parent", "supervisor"}
    BY DEF SessionInv, TypeOK, ReadStart, ProcessEnds
  <2>2. causes' \subseteq AllReasons \ {"none"}
    BY ConstantsAssumption DEF SessionInv, TypeOK, ReadStart, ProcessEnds
  <2>3. FlagsOK'
    BY Zenon DEF SessionInv, TypeOK, FlagsOK, ReadStart, ProcessEnds
  <2> QED BY <1>1, <2>1, <2>2, <2>3, ControlRead, EmptyPipes,
     ConstantsAssumption DEF SessionInv, TypeOK, SenderInv, ReadStart, ProcessEnds
<1>3. StartInv'
  BY DEF SessionInv, StartInv, ReadStart, ProcessEnds
<1>4. HoldingInv'
  BY DEF SessionInv, HoldingInv, ReadStart, ProcessEnds
<1>5. HandshakeInv'
  BY DEF SessionInv, HandshakeInv, ReadStart, ProcessEnds
<1>6. DeliveryInv'
  BY ControlRead, EmptyPipes, ConstantsAssumption DEF SessionInv, TypeOK, StartInv,
     HoldingInv, HandshakeInv, DeliveryInv, SenderInv, CleanInv, CauseInv, ReadStart,
     ProcessEnds
<1>7. SenderInv'
  BY DEF SessionInv, SenderInv, ReadStart, ProcessEnds
<1>8. CleanInv'
  BY ControlRead, EmptyPipes, ConstantsAssumption DEF SessionInv, TypeOK, StartInv,
     HoldingInv, HandshakeInv, DeliveryInv, SenderInv, CleanInv, CauseInv, ReadStart,
     ProcessEnds
<1>9. CauseInv'
  BY ControlRead, EmptyPipes DEF SessionInv, TypeOK, CauseInv, ReadStart, ProcessEnds
<1> QED BY <1>1, <1>2, <1>3, <1>4, <1>5, <1>6, <1>7, <1>8, <1>9 DEF SessionInv

\* The supervisor learns of a cancellation, which has a cause.
LEMMA ReadCancellationStep ==
  ASSUME SessionInv, ReadCancellation
  PROVE  SessionInv'
<1>1. PipesOK'
  BY DEF SessionInv, TypeOK, PipesOK, ReadCancellation, Record, Precedence
<1>2. TypeOK'
  <2>1. source' \subseteq {"parent", "supervisor"}
    BY DEF SessionInv, TypeOK, ReadCancellation, Record, Precedence
  <2>2. causes' \subseteq AllReasons \ {"none"}
    BY ConstantsAssumption DEF SessionInv, TypeOK, ReadCancellation, Record, Precedence
  <2>3. FlagsOK'
    BY Zenon DEF SessionInv, TypeOK, FlagsOK, ReadCancellation, Record, Precedence
  <2> QED BY <1>1, <2>1, <2>2, <2>3, CancelRead, EmptyPipes DEF SessionInv, TypeOK,
     SenderInv, ReadCancellation, Record, Precedence
<1>3. StartInv'
  BY DEF SessionInv, StartInv, ReadCancellation, Record, Precedence
<1>4. HoldingInv'
  BY DEF SessionInv, HoldingInv, ReadCancellation, Record, Precedence
<1>5. HandshakeInv'
  BY DEF SessionInv, HandshakeInv, ReadCancellation, Record, Precedence
<1>6. DeliveryInv'
  BY DEF SessionInv, DeliveryInv, ReadCancellation, Record, Precedence
<1>7. SenderInv'
  BY DEF SessionInv, SenderInv, ReadCancellation, Record, Precedence
<1>8. CleanInv'
  BY CancelRead, EmptyPipes, ConstantsAssumption DEF SessionInv, TypeOK, StartInv,
     HoldingInv, HandshakeInv, DeliveryInv, SenderInv, CleanInv, CauseInv,
     ReadCancellation, Record, Precedence
<1>9. CauseInv'
  <2>1. CASE cancel # << >>
    <3>1. Head(cancel) \in causes \ {"lifeline"} /\ cancel' = << >> /\ ToSet(cancel') = {}
      BY <2>1, CancelRead, EmptyPipes DEF SessionInv, CauseInv, ReadCancellation
    <3> QED BY <2>1, <3>1 DEF SessionInv, TypeOK, CauseInv, ReadCancellation, Record,
       Precedence
  <2>2. CASE LifelineAtEOF /\ UNCHANGED cancel
    <3>1. "lifeline" \in causes /\ ~Named /\ (sender # "open" \/ launch \in {"abortWait",
       "returned", "dead"})
      BY <2>2 DEF SessionInv, TypeOK, StartInv, HoldingInv, SenderInv, CauseInv,
         ReadCancellation
    <3> QED BY <2>2, <3>1 DEF SessionInv, TypeOK, CauseInv, ReadCancellation, Record,
       Precedence
  <2> QED BY <2>1, <2>2 DEF ReadCancellation
<1> QED BY <1>1, <1>2, <1>3, <1>4, <1>5, <1>6, <1>7, <1>8, <1>9 DEF SessionInv

\* Work runs only on a commit frame.
LEMMA WaitForCommitStep ==
  ASSUME SessionInv, WaitForCommit
  PROVE  SessionInv'
<1>1. PipesOK'
  BY ControlRead DEF SessionInv, TypeOK, PipesOK, HandshakeInv, SenderInv, WaitForCommit,
     Record, Precedence
<1>2. TypeOK'
  <2>1. FlagsOK'
    BY Zenon DEF SessionInv, TypeOK, FlagsOK, WaitForCommit, Record, Precedence
  <2> QED BY <1>1, <2>1 DEF SessionInv, TypeOK, WaitForCommit, Record, Precedence
<1>3. StartInv'
  BY DEF SessionInv, StartInv, WaitForCommit, Record, Precedence
<1>4. HoldingInv'
  BY DEF SessionInv, HoldingInv, WaitForCommit, Record, Precedence
<1>5. HandshakeInv'
  BY DEF SessionInv, HandshakeInv, WaitForCommit, Record, Precedence
<1>6. DeliveryInv'
  BY DEF SessionInv, DeliveryInv, WaitForCommit, Record, Precedence
<1>7. SenderInv'
  BY DEF SessionInv, SenderInv, WaitForCommit, Record, Precedence
<1>8. CleanInv'
  BY ControlRead, ConstantsAssumption DEF SessionInv, TypeOK, StartInv, HoldingInv,
     HandshakeInv, DeliveryInv, SenderInv, CleanInv, CauseInv, WaitForCommit, Record,
     Precedence
<1>9. CauseInv'
  BY DEF SessionInv, CauseInv, WaitForCommit, Record, Precedence
<1> QED BY <1>1, <1>2, <1>3, <1>4, <1>5, <1>6, <1>7, <1>8, <1>9 DEF SessionInv

\* Controls are queued; the end of their pipe is an internal failure.
LEMMA ReadControlsStep ==
  ASSUME SessionInv, ReadControls
  PROVE  SessionInv'
<1>1. PipesOK'
  BY ControlRead DEF SessionInv, TypeOK, PipesOK, HandshakeInv, SenderInv, ReadControls,
     Record, Precedence
<1>2. TypeOK'
  <2>1. source' \subseteq {"parent", "supervisor"}
    BY DEF SessionInv, TypeOK, ReadControls, Record, Precedence
  <2>2. causes' \subseteq AllReasons \ {"none"}
    BY ConstantsAssumption DEF SessionInv, TypeOK, ReadControls, Record, Precedence
  <2>3. FlagsOK'
    BY Zenon DEF SessionInv, TypeOK, FlagsOK, ReadControls, Record, Precedence
  <2> QED BY <1>1, <2>1, <2>2, <2>3, ControlRead, ConstantsAssumption DEF SessionInv,
     TypeOK, SenderInv, ReadControls, Record, Precedence
<1>3. StartInv'
  BY DEF SessionInv, StartInv, ReadControls, Record, Precedence
<1>4. HoldingInv'
  BY DEF SessionInv, HoldingInv, ReadControls, Record, Precedence
<1>5. HandshakeInv'
  BY DEF SessionInv, HandshakeInv, ReadControls, Record, Precedence
<1>6. DeliveryInv'
  BY DEF SessionInv, DeliveryInv, ReadControls, Record, Precedence
<1>7. SenderInv'
  BY DEF SessionInv, SenderInv, ReadControls, Record, Precedence
<1>8. CleanInv'
  BY ControlRead, ConstantsAssumption DEF SessionInv, TypeOK, StartInv, HoldingInv,
     HandshakeInv, DeliveryInv, SenderInv, CleanInv, CauseInv, ReadControls, Record,
     Precedence
<1>9. CauseInv'
  BY DEF SessionInv, CauseInv, ReadControls, Record, Precedence
<1> QED BY <1>1, <1>2, <1>3, <1>4, <1>5, <1>6, <1>7, <1>8, <1>9 DEF SessionInv

\* The work takes a control.
LEMMA TakeControlStep ==
  ASSUME SessionInv, TakeControl
  PROVE  SessionInv'
<1>1. PipesOK'
  BY DEF SessionInv, TypeOK, PipesOK, TakeControl
<1>2. TypeOK'
  <2>1. source' \subseteq {"parent", "supervisor"}
    BY DEF SessionInv, TypeOK, TakeControl
  <2>2. causes' \subseteq AllReasons \ {"none"}
    BY ConstantsAssumption DEF SessionInv, TypeOK, TakeControl
  <2>3. FlagsOK'
    BY Zenon DEF SessionInv, TypeOK, FlagsOK, TakeControl
  <2> QED BY <1>1, <2>1, <2>2, <2>3, ConstantsAssumption DEF SessionInv, TypeOK,
     SenderInv, TakeControl
<1>3. StartInv'
  BY DEF SessionInv, StartInv, TakeControl
<1>4. HoldingInv'
  BY DEF SessionInv, HoldingInv, TakeControl
<1>5. HandshakeInv'
  BY DEF SessionInv, HandshakeInv, TakeControl
<1>6. DeliveryInv'
  BY DEF SessionInv, DeliveryInv, TakeControl
<1>7. SenderInv'
  BY DEF SessionInv, SenderInv, TakeControl
<1>8. CleanInv'
  BY DEF SessionInv, CleanInv, TakeControl
<1>9. CauseInv'
  BY DEF SessionInv, CauseInv, TakeControl
<1> QED BY <1>1, <1>2, <1>3, <1>4, <1>5, <1>6, <1>7, <1>8, <1>9 DEF SessionInv

\* The work reports.
LEMMA SendEventStep ==
  ASSUME SessionInv, SendEvent
  PROVE  SessionInv'
<1>1. PipesOK'
  BY EventWritten, FrameFacts DEF SessionInv, TypeOK, PipesOK, HandshakeInv, SenderInv,
     SendEvent
<1>2. TypeOK'
  <2>1. FlagsOK'
    BY Zenon DEF SessionInv, TypeOK, FlagsOK, SendEvent
  <2> QED BY <1>1, <2>1 DEF SessionInv, TypeOK, SendEvent
<1>3. StartInv'
  BY DEF SessionInv, StartInv, SendEvent
<1>4. HoldingInv'
  BY DEF SessionInv, HoldingInv, SendEvent
<1>5. HandshakeInv'
  BY DEF SessionInv, HandshakeInv, SendEvent
<1>6. DeliveryInv'
  BY EventWritten, FrameFacts DEF SessionInv, TypeOK, DeliveryInv, SendEvent
<1>7. SenderInv'
  BY DEF SessionInv, SenderInv, SendEvent
<1>8. CleanInv'
  BY DEF SessionInv, CleanInv, SendEvent
<1>9. CauseInv'
  BY EventWritten, FrameFacts DEF SessionInv, TypeOK, CauseInv, SendEvent
<1> QED BY <1>1, <1>2, <1>3, <1>4, <1>5, <1>6, <1>7, <1>8, <1>9 DEF SessionInv

\* The work ends.
LEMMA WorkReturnsStep ==
  ASSUME SessionInv, WorkReturns
  PROVE  SessionInv'
<1>1. PipesOK'
  BY DEF SessionInv, TypeOK, PipesOK, WorkReturns
<1>2. TypeOK'
  <2>1. FlagsOK'
    BY Zenon DEF SessionInv, TypeOK, FlagsOK, WorkReturns
  <2> QED BY <1>1, <2>1 DEF SessionInv, TypeOK, WorkReturns
<1>3. StartInv'
  BY DEF SessionInv, StartInv, WorkReturns
<1>4. HoldingInv'
  BY DEF SessionInv, HoldingInv, WorkReturns
<1>5. HandshakeInv'
  BY DEF SessionInv, HandshakeInv, WorkReturns
<1>6. DeliveryInv'
  BY DEF SessionInv, DeliveryInv, WorkReturns
<1>7. SenderInv'
  BY DEF SessionInv, SenderInv, WorkReturns
<1>8. CleanInv'
  BY DEF SessionInv, CleanInv, WorkReturns
<1>9. CauseInv'
  BY DEF SessionInv, CauseInv, WorkReturns
<1> QED BY <1>1, <1>2, <1>3, <1>4, <1>5, <1>6, <1>7, <1>8, <1>9 DEF SessionInv

\* The reason of the final is settled.
LEMMA FreezeStep ==
  ASSUME SessionInv, Freeze
  PROVE  SessionInv'
<1>1. PipesOK'
  BY DEF SessionInv, TypeOK, PipesOK, Freeze, AppliedReason
<1>2. TypeOK'
  <2>1. FlagsOK'
    BY Zenon DEF SessionInv, TypeOK, FlagsOK, Freeze, AppliedReason
  <2> QED BY <1>1, <2>1 DEF SessionInv, TypeOK, Freeze, AppliedReason
<1>3. StartInv'
  BY DEF SessionInv, StartInv, Freeze, AppliedReason
<1>4. HoldingInv'
  BY DEF SessionInv, HoldingInv, Freeze, AppliedReason
<1>5. HandshakeInv'
  BY DEF SessionInv, HandshakeInv, Freeze, AppliedReason
<1>6. DeliveryInv'
  BY DEF SessionInv, DeliveryInv, Freeze, AppliedReason
<1>7. SenderInv'
  BY DEF SessionInv, SenderInv, Freeze, AppliedReason
<1>8. CleanInv'
  BY DEF SessionInv, CleanInv, Freeze, AppliedReason
<1>9. CauseInv'
  BY DEF SessionInv, TypeOK, CauseInv, Freeze, AppliedReason
<1> QED BY <1>1, <1>2, <1>3, <1>4, <1>5, <1>6, <1>7, <1>8, <1>9 DEF SessionInv

\* The final carries a reason that was given.
LEMMA SendFinalStep ==
  ASSUME SessionInv, SendFinal
  PROVE  SessionInv'
<1>1. PipesOK'
  <2>1. CASE launch # "dead" /\ Len(events) < EventSlots /\ events' = Append(events,
     Final(reason))
    <3>1. Final(reason) \in EventFrames /\ Final(reason).kind = "final" /\
       Final(reason).reason = reason
      BY FrameFacts DEF SessionInv, TypeOK
    <3>2. /\ events' \in Seq(EventFrames) /\ Len(events') <= EventSlots
          /\ ToSet(events') = ToSet(events) \cup {Final(reason)}
      BY <2>1, <3>1, EventWritten DEF SessionInv
    <3> QED BY <2>1, <3>1, <3>2, EmptyPipes DEF SessionInv, TypeOK, PipesOK, SendFinal,
       ProcessEnds
  <2>2. CASE UNCHANGED events
    BY <2>2, EmptyPipes DEF SessionInv, TypeOK, PipesOK, SendFinal, ProcessEnds
  <2> QED BY <2>1, <2>2 DEF SendFinal, ProcessEnds
<1>2. TypeOK'
  <2>1. source' \subseteq {"parent", "supervisor"}
    BY DEF SessionInv, TypeOK, SendFinal, ProcessEnds
  <2>2. causes' \subseteq AllReasons \ {"none"}
    BY ConstantsAssumption DEF SessionInv, TypeOK, SendFinal, ProcessEnds
  <2>3. FlagsOK'
    BY Zenon DEF SessionInv, TypeOK, FlagsOK, SendFinal, ProcessEnds
  <2> QED BY <1>1, <2>1, <2>2, <2>3, EventWritten, FrameFacts, EmptyPipes,
     ConstantsAssumption DEF SessionInv, TypeOK, SenderInv, SendFinal, ProcessEnds
<1>3. StartInv'
  BY DEF SessionInv, StartInv, SendFinal, ProcessEnds
<1>4. HoldingInv'
  BY DEF SessionInv, HoldingInv, SendFinal, ProcessEnds
<1>5. HandshakeInv'
  <2>1. CASE launch # "dead" /\ Len(events) < EventSlots /\ events' = Append(events,
     Final(reason))
    <3>1. Final(reason) \in EventFrames /\ Final(reason).kind = "final" /\
       Final(reason).reason = reason
      BY FrameFacts DEF SessionInv, TypeOK
    <3>2. /\ events' \in Seq(EventFrames) /\ Len(events') <= EventSlots
          /\ ToSet(events') = ToSet(events) \cup {Final(reason)}
      BY <2>1, <3>1, EventWritten DEF SessionInv
    <3> QED BY <2>1, <3>1, <3>2, EmptyPipes DEF SessionInv, TypeOK, StartInv, HoldingInv,
       HandshakeInv, DeliveryInv, SenderInv, CleanInv, CauseInv, SendFinal, ProcessEnds
  <2>2. CASE UNCHANGED events
    BY <2>2, EmptyPipes DEF SessionInv, TypeOK, StartInv, HoldingInv, HandshakeInv,
       DeliveryInv, SenderInv, CleanInv, CauseInv, SendFinal, ProcessEnds
  <2> QED BY <2>1, <2>2 DEF SendFinal, ProcessEnds
<1>6. DeliveryInv'
  <2>1. CASE launch # "dead" /\ Len(events) < EventSlots /\ events' = Append(events,
     Final(reason))
    <3>1. Final(reason) \in EventFrames /\ Final(reason).kind = "final" /\
       Final(reason).reason = reason
      BY FrameFacts DEF SessionInv, TypeOK
    <3>2. /\ events' \in Seq(EventFrames) /\ Len(events') <= EventSlots
          /\ ToSet(events') = ToSet(events) \cup {Final(reason)}
      BY <2>1, <3>1, EventWritten DEF SessionInv
    <3> QED BY <2>1, <3>1, <3>2, EmptyPipes DEF SessionInv, TypeOK, StartInv, HoldingInv,
       HandshakeInv, DeliveryInv, SenderInv, CleanInv, CauseInv, SendFinal, ProcessEnds
  <2>2. CASE UNCHANGED events
    BY <2>2, EmptyPipes DEF SessionInv, TypeOK, StartInv, HoldingInv, HandshakeInv,
       DeliveryInv, SenderInv, CleanInv, CauseInv, SendFinal, ProcessEnds
  <2> QED BY <2>1, <2>2 DEF SendFinal, ProcessEnds
<1>7. SenderInv'
  BY DEF SessionInv, SenderInv, SendFinal, ProcessEnds
<1>8. CleanInv'
  <2>1. CASE launch # "dead" /\ Len(events) < EventSlots /\ events' = Append(events,
     Final(reason))
    <3>1. Final(reason) \in EventFrames /\ Final(reason).kind = "final" /\
       Final(reason).reason = reason
      BY FrameFacts DEF SessionInv, TypeOK
    <3>2. /\ events' \in Seq(EventFrames) /\ Len(events') <= EventSlots
          /\ ToSet(events') = ToSet(events) \cup {Final(reason)}
      BY <2>1, <3>1, EventWritten DEF SessionInv
    <3> QED BY <2>1, <3>1, <3>2, EmptyPipes DEF SessionInv, TypeOK, StartInv, HoldingInv,
       HandshakeInv, DeliveryInv, SenderInv, CleanInv, CauseInv, SendFinal, ProcessEnds
  <2>2. CASE UNCHANGED events
    BY <2>2, EmptyPipes DEF SessionInv, TypeOK, StartInv, HoldingInv, HandshakeInv,
       DeliveryInv, SenderInv, CleanInv, CauseInv, SendFinal, ProcessEnds
  <2> QED BY <2>1, <2>2 DEF SendFinal, ProcessEnds
<1>9. CauseInv'
  <2>1. CASE launch # "dead" /\ Len(events) < EventSlots /\ events' = Append(events,
     Final(reason))
    <3>1. Final(reason) \in EventFrames /\ Final(reason).kind = "final" /\
       Final(reason).reason = reason
      BY FrameFacts DEF SessionInv, TypeOK
    <3>2. /\ events' \in Seq(EventFrames) /\ Len(events') <= EventSlots
          /\ ToSet(events') = ToSet(events) \cup {Final(reason)}
      BY <2>1, <3>1, EventWritten DEF SessionInv
    <3> QED BY <2>1, <3>1, <3>2, EmptyPipes DEF SessionInv, TypeOK, StartInv, HoldingInv,
       HandshakeInv, DeliveryInv, SenderInv, CleanInv, CauseInv, SendFinal, ProcessEnds
  <2>2. CASE UNCHANGED events
    BY <2>2, EmptyPipes DEF SessionInv, TypeOK, StartInv, HoldingInv, HandshakeInv,
       DeliveryInv, SenderInv, CleanInv, CauseInv, SendFinal, ProcessEnds
  <2> QED BY <2>1, <2>2 DEF SendFinal, ProcessEnds
<1> QED BY <1>1, <1>2, <1>3, <1>4, <1>5, <1>6, <1>7, <1>8, <1>9 DEF SessionInv

\* The context of the launch ends.
LEMMA InterruptStep ==
  ASSUME SessionInv, Interrupt
  PROVE  SessionInv'
<1>1. PipesOK'
  BY DEF SessionInv, TypeOK, PipesOK, Interrupt
<1>2. TypeOK'
  <2>1. FlagsOK'
    BY Zenon DEF SessionInv, TypeOK, FlagsOK, Interrupt
  <2> QED BY <1>1, <2>1 DEF SessionInv, TypeOK, Interrupt
<1>3. StartInv'
  BY DEF SessionInv, StartInv, Interrupt
<1>4. HoldingInv'
  BY DEF SessionInv, HoldingInv, Interrupt
<1>5. HandshakeInv'
  BY DEF SessionInv, HandshakeInv, Interrupt
<1>6. DeliveryInv'
  BY DEF SessionInv, DeliveryInv, Interrupt
<1>7. SenderInv'
  BY DEF SessionInv, SenderInv, Interrupt
<1>8. CleanInv'
  BY DEF SessionInv, CleanInv, Interrupt
<1>9. CauseInv'
  BY DEF SessionInv, CauseInv, Interrupt
<1> QED BY <1>1, <1>2, <1>3, <1>4, <1>5, <1>6, <1>7, <1>8, <1>9 DEF SessionInv

\* The parent is killed.
LEMMA ParentDiesStep ==
  ASSUME SessionInv, ParentDies
  PROVE  SessionInv'
<1>1. PipesOK'
  BY EmptyPipes DEF SessionInv, TypeOK, PipesOK, HandshakeInv, SenderInv, ParentDies
<1>2. TypeOK'
  <2>1. FlagsOK'
    BY Zenon DEF SessionInv, TypeOK, FlagsOK, ParentDies
  <2> QED BY <1>1, <2>1 DEF SessionInv, TypeOK, ParentDies
<1>3. StartInv'
  BY DEF SessionInv, StartInv, ParentDies
<1>4. HoldingInv'
  BY DEF SessionInv, HoldingInv, ParentDies
<1>5. HandshakeInv'
  BY EmptyPipes DEF SessionInv, TypeOK, HandshakeInv, ParentDies
<1>6. DeliveryInv'
  BY EmptyPipes DEF SessionInv, TypeOK, DeliveryInv, ParentDies
<1>7. SenderInv'
  BY DEF SessionInv, SenderInv, ParentDies
<1>8. CleanInv'
  BY DEF SessionInv, CleanInv, ParentDies
<1>9. CauseInv'
  BY EmptyPipes DEF SessionInv, TypeOK, CauseInv, ParentDies
<1> QED BY <1>1, <1>2, <1>3, <1>4, <1>5, <1>6, <1>7, <1>8, <1>9 DEF SessionInv

\* The supervisor is killed.
LEMMA SupervisorDiesStep ==
  ASSUME SessionInv, SupervisorDies
  PROVE  SessionInv'
<1>1. PipesOK'
  BY EmptyPipes DEF SessionInv, TypeOK, PipesOK, HandshakeInv, SenderInv, SupervisorDies,
     ProcessEnds
<1>2. TypeOK'
  <2>1. source' \subseteq {"parent", "supervisor"}
    BY DEF SessionInv, TypeOK, SupervisorDies, ProcessEnds
  <2>2. causes' \subseteq AllReasons \ {"none"}
    BY ConstantsAssumption DEF SessionInv, TypeOK, SupervisorDies, ProcessEnds
  <2>3. FlagsOK'
    BY Zenon DEF SessionInv, TypeOK, FlagsOK, SupervisorDies, ProcessEnds
  <2> QED BY <1>1, <2>1, <2>2, <2>3, EmptyPipes, ConstantsAssumption DEF SessionInv,
     TypeOK, SenderInv, SupervisorDies, ProcessEnds
<1>3. StartInv'
  BY DEF SessionInv, StartInv, SupervisorDies, ProcessEnds
<1>4. HoldingInv'
  BY DEF SessionInv, HoldingInv, SupervisorDies, ProcessEnds
<1>5. HandshakeInv'
  BY DEF SessionInv, HandshakeInv, SupervisorDies, ProcessEnds
<1>6. DeliveryInv'
  BY DEF SessionInv, DeliveryInv, SupervisorDies, ProcessEnds
<1>7. SenderInv'
  BY DEF SessionInv, SenderInv, SupervisorDies, ProcessEnds
<1>8. CleanInv'
  BY DEF SessionInv, CleanInv, SupervisorDies, ProcessEnds
<1>9. CauseInv'
  BY EmptyPipes DEF SessionInv, TypeOK, CauseInv, SupervisorDies, ProcessEnds
<1> QED BY <1>1, <1>2, <1>3, <1>4, <1>5, <1>6, <1>7, <1>8, <1>9 DEF SessionInv


-----------------------------------------------------------------------------
(* The specification                                                       *)

\* Nothing is started yet: the invariant holds of what Launch begins with.
LEMMA InitInv ==
  ASSUME NEW holders \in SUBSET {"parent"}, InitWith(holders)
  PROVE  SessionInv
<1>1. PipesOK
  BY EmptyPipes DEF InitWith, PipesOK
<1>2. TypeOK
  <2>1. FlagsOK
    BY Zenon DEF InitWith, FlagsOK
  <2>2. 0 \in 0..QueueSlots
    BY ConstantsAssumption
  <2> QED BY <1>1, <2>1, <2>2 DEF InitWith, TypeOK
<1>3. StartInv /\ HoldingInv /\ SenderInv
  BY DEF InitWith, StartInv, HoldingInv, SenderInv
<1>4. HandshakeInv /\ DeliveryInv
  BY EmptyPipes DEF InitWith, HandshakeInv, DeliveryInv
<1>5. CleanInv
  BY DEF InitWith, CleanInv
<1>6. CauseInv
  BY EmptyPipes DEF InitWith, CauseInv
<1> QED BY <1>2, <1>3, <1>4, <1>5, <1>6 DEF SessionInv

\* A step that changes nothing keeps the invariant.
LEMMA StutterStep ==
  ASSUME SessionInv, UNCHANGED vars
  PROVE  SessionInv'
<1>1. TypeOK'
  BY DEF SessionInv, TypeOK, PipesOK, FlagsOK, vars
<1>2. StartInv' /\ HoldingInv' /\ HandshakeInv' /\ SenderInv'
  BY DEF SessionInv, StartInv, HoldingInv, HandshakeInv, SenderInv, vars
<1>3. DeliveryInv' /\ CleanInv'
  BY DEF SessionInv, DeliveryInv, CleanInv, vars
<1>4. CauseInv'
  BY DEF SessionInv, CauseInv, vars
<1> QED BY <1>1, <1>2, <1>3, <1>4 DEF SessionInv

\* Every step of either process, and of the environment, keeps the invariant.
LEMMA NextStep ==
  ASSUME SessionInv, [Next]_vars
  PROVE  SessionInv'
<1>1. CASE ParentStep
  BY <1>1, StartProcessStep, AwaitReadyStep, SendStartStep, AwaitAcceptedStep,
     CommitStep, StopBeforeStartStep, CloseCancellationStep, AbortReapedStep,
     ReapLimitStep, ReapedStep, TeardownStep, Zenon DEF ParentStep
<1>2. CASE ClientCall
  BY <1>2, ConstantsAssumption, CancelStep, CloseLifelineStep, BeginControlStep, BeginWaitStep, Zenon
     DEF ClientCall
<1>3. CASE WriteControl \/ ReadEvent
  BY <1>3, WriteControlStep, ReadEventStep, Zenon
<1>4. CASE MainStep
  BY <1>4, SendReadyStep, ReadStartStep, SendAcceptedStep, WaitForCommitStep,
     FreezeStep, SendFinalStep, Zenon DEF MainStep
<1>5. CASE ReadCancellation \/ ReadControls \/ TakeControl \/ SendEvent \/ WorkReturns
  BY <1>5, ReadCancellationStep, ReadControlsStep, TakeControlStep, SendEventStep,
     WorkReturnsStep, Zenon
<1>6. CASE Interrupt \/ ParentDies \/ SupervisorDies
  BY <1>6, InterruptStep, ParentDiesStep, SupervisorDiesStep, Zenon
<1>7. CASE UNCHANGED vars
  BY <1>7, StutterStep
<1> QED BY <1>1, <1>2, <1>3, <1>4, <1>5, <1>6, <1>7, Zenon DEF Next

\* The invariant: what either side can know and hold at each step of the other.
THEOREM SessionInvariant == Spec => []SessionInv
<1>1. Init => SessionInv
  BY InitInv, Zenon DEF Init
<1>2. SessionInv /\ [Next]_vars => SessionInv'
  BY NextStep, Zenon
<1> QED BY <1>1, <1>2, PTL DEF Spec

\* A run that was not committed leaves no trace but its cause: the work is not
\* run, and the launch that was cancelled reports a failure only after a mishap.
THEOREM LaunchLeavesNoTrace == Spec => []LaunchIsClean
<1>1. SessionInv => LaunchIsClean
  <2> SUFFICES ASSUME SessionInv PROVE LaunchIsClean
    OBVIOUS
  <2>1. NoWorkWithoutCommit
    BY DEF SessionInv, HandshakeInv, NoWorkWithoutCommit
  <2>2. CancellationIsClean
    BY DEF SessionInv, CleanInv, CancellationIsClean
  <2> QED BY <2>1, <2>2 DEF SessionInv, LaunchIsClean
<1> QED BY <1>1, SessionInvariant, PTL

\* After Launch failed or Wait returned there is no supervisor, no copy of the
\* source, no end of a pipe and no writer left.
THEOREM ReturnReleasesAll == Spec => []NothingOutlivesReturn
<1>1. SessionInv => NothingOutlivesReturn
  BY DEF SessionInv, TypeOK, HoldingInv, NothingOutlivesReturn
<1> QED BY <1>1, SessionInvariant, PTL

\* A delivered final reports a reason that was given, and the end of the
\* lifeline only when the parent gave no reason of its own.
THEOREM FinalsAreCaused == Spec => []FinalHasCause
<1>1. SessionInv => FinalHasCause
  BY DEF SessionInv, CauseInv, FinalHasCause
<1> QED BY <1>1, SessionInvariant, PTL
=============================================================================
