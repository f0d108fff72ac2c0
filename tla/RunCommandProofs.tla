-------------------------- MODULE RunCommandProofs --------------------------
(***************************************************************************)
(* Proofs about RunCommand: every run of the parent process, whatever its  *)
(* display, signals and failures.  What the session keeps is taken from    *)
(* SupervisorSessionProofs.                                                *)
(***************************************************************************)
EXTENDS RunCommand, SupervisorSessionProofs, FiniteSetTheorems

-----------------------------------------------------------------------------
(* The inbox                                                               *)

\* Requests that are pending once each are no more than there are requests.
LEMMA InboxBounded ==
  ASSUME NEW s \in Seq(Requests), IsInjective(s)
  PROVE  Len(s) <= Cardinality(Requests)
<1>1. IsFiniteSet(Requests)
  <2>1. IsFiniteSet({"user"}) /\ IsFiniteSet({"terminate"}) /\ IsFiniteSet({"hangup"})
        /\ IsFiniteSet({"internal"}) /\ IsFiniteSet({"lost"})
    BY FS_Singleton
  <2>2. IsFiniteSet({"user"} \cup {"terminate"}) /\ IsFiniteSet({"internal"} \cup {"lost"})
    BY <2>1, FS_Union
  <2>3. IsFiniteSet(({"user"} \cup {"terminate"}) \cup {"hangup"})
    BY <2>1, <2>2, FS_Union
  <2>4. IsFiniteSet((({"user"} \cup {"terminate"}) \cup {"hangup"})
                    \cup ({"internal"} \cup {"lost"}))
    BY <2>2, <2>3, FS_Union
  <2>5. Requests = (({"user"} \cup {"terminate"}) \cup {"hangup"})
                    \cup ({"internal"} \cup {"lost"})
    BY DEF Requests
  <2> QED BY <2>4, <2>5
<1>2. Len(s) \in Nat /\ DOMAIN s = 1..Len(s) /\ s \in [1..Len(s) -> Requests]
  BY LenProperties
<1>3. s \in Injection(1..Len(s), Requests)
  BY <1>2 DEF IsInjective, Injection
<1>4. Cardinality(1..Len(s)) <= Cardinality(Requests)
  BY <1>1, <1>3, FS_Injection
<1>5. Cardinality(1..Len(s)) = Len(s)
  BY <1>2, FS_Interval
<1> QED BY <1>4, <1>5

\* A request is published at most once until it is taken.
LEMMA Published ==
  ASSUME InboxOK, IsInjective(inbox), NEW r \in Requests, Publish(r)
  PROVE  InboxOK' /\ IsInjective(inbox)'
<1>1. CASE inbox' = inbox
  BY <1>1 DEF InboxOK, IsInjective
<1>2. CASE inbox' = Append(inbox, r) /\ ~Contains(inbox, r)
  <2>1. inbox' \in Seq(Requests) /\ Len(inbox) \in Nat /\ Len(inbox') = Len(inbox) + 1
    BY <1>2 DEF InboxOK
  <2>2. /\ \A i \in 1..Len(inbox) : inbox'[i] = inbox[i]
        /\ inbox'[Len(inbox) + 1] = r
    BY <1>2 DEF InboxOK
  <2>3. DOMAIN inbox' = 1..(Len(inbox) + 1) /\ DOMAIN inbox = 1..Len(inbox)
    BY <2>1, LenProperties DEF InboxOK
  <2>4. \A i \in 1..Len(inbox) : inbox[i] # r
    BY <1>2 DEF Contains
  <2>5. IsInjective(inbox')
    BY <2>1, <2>2, <2>3, <2>4 DEF IsInjective
  <2> QED BY <2>1, <2>5, InboxBounded DEF InboxOK
<1> QED BY <1>1, <1>2 DEF Publish

\* The oldest request is taken.
LEMMA Taken ==
  ASSUME InboxOK, IsInjective(inbox), inbox # << >>, inbox' = Tail(inbox)
  PROVE  InboxOK' /\ IsInjective(inbox)'
<1>1. /\ inbox' \in Seq(Requests) /\ Len(inbox') = Len(inbox) - 1
      /\ \A i \in 1..Len(inbox') : inbox'[i] = inbox[i + 1]
  BY HeadTailProperties DEF InboxOK
<1>2. Len(inbox) \in Nat /\ DOMAIN inbox' = 1..Len(inbox') /\ DOMAIN inbox = 1..Len(inbox)
  BY <1>1, LenProperties DEF InboxOK
<1>3. IsInjective(inbox')
  BY <1>1, <1>2 DEF IsInjective
<1> QED BY <1>1, <1>3, InboxBounded DEF InboxOK

\* The inbox is left alone.
LEMMA InboxKept ==
  ASSUME InboxOK, IsInjective(inbox), UNCHANGED inbox
  PROVE  InboxOK' /\ IsInjective(inbox)'
BY DEF InboxOK, IsInjective
-----------------------------------------------------------------------------
(* The steps of the session, as Run takes them                             *)

USE DEF Alive, EventsAtEOF, ControlAtEOF, LifelineAtEOF, BeforeStart, Handshaking,
        AfterCommit, Unaccepted, AllReasons, parent, pipes, super, history, vars,
        session, signals, terminal, display, output, run, Preparing, Requests

\* The supervisor is started, or cannot be.
LEMMA RunStartProcess ==
  ASSUME RunInv, main \in {"launch", "wait"}, StartProcess,
         UNCHANGED <<main, report, held, watcher, driver, forwarder, phase, first>>
  PROVE  StepInv' /\ HeldInv' /\ FirstInv' /\ env' = env
<1>1. StepInv'
  BY DEF RunInv, StepInv, StartProcess
<1>2. HeldInv'
  BY DEF RunInv, HeldInv, StartProcess
<1>3. FirstInv'
  BY DEF RunInv, FirstInv, SessionInv, RunTypeOK, TypeOK, StepInv, HeldInv, StartInv,
     HoldingInv, HandshakeInv, DeliveryInv, SenderInv, CauseInv, StartProcess
<1>4. env' = env
  BY DEF StartProcess
<1> QED BY <1>1, <1>2, <1>3, <1>4

\* Launch waits for the ready frame.
LEMMA RunAwaitReady ==
  ASSUME RunInv, main \in {"launch", "wait"}, AwaitReady,
         UNCHANGED <<main, report, held, watcher, driver, forwarder, phase, first>>
  PROVE  StepInv' /\ HeldInv' /\ FirstInv' /\ env' = env
<1>1. StepInv'
  BY DEF RunInv, StepInv, AwaitReady, Handshake
<1>2. HeldInv'
  BY DEF RunInv, HeldInv, AwaitReady, Handshake
<1>3. FirstInv'
  BY EventRead, FrameFacts, ZenonT(40) DEF RunInv, FirstInv, SessionInv, RunTypeOK, TypeOK, StepInv,
     HeldInv, AwaitReady, Handshake
<1>4. env' = env
  BY DEF AwaitReady, Handshake
<1> QED BY <1>1, <1>2, <1>3, <1>4

\* The start frame finds the control pipe empty.
LEMMA RunSendStart ==
  ASSUME RunInv, main \in {"launch", "wait"}, SendStart,
         UNCHANGED <<main, report, held, watcher, driver, forwarder, phase, first>>
  PROVE  StepInv' /\ HeldInv' /\ FirstInv' /\ env' = env
<1>1. StepInv'
  BY DEF RunInv, StepInv, SendStart
<1>2. HeldInv'
  BY DEF RunInv, HeldInv, SendStart
<1>3. FirstInv'
  BY DEF RunInv, FirstInv, SendStart
<1>4. env' = env
  BY DEF SendStart
<1> QED BY <1>1, <1>2, <1>3, <1>4

\* Launch waits for the acceptance.
LEMMA RunAwaitAccepted ==
  ASSUME RunInv, main \in {"launch", "wait"}, AwaitAccepted,
         UNCHANGED <<main, report, held, watcher, driver, forwarder, phase, first>>
  PROVE  StepInv' /\ HeldInv' /\ FirstInv' /\ env' = env
<1>1. StepInv'
  BY DEF RunInv, StepInv, AwaitAccepted, Handshake
<1>2. HeldInv'
  BY DEF RunInv, HeldInv, AwaitAccepted, Handshake
<1>3. FirstInv'
  BY EventRead, FrameFacts, ZenonT(40) DEF RunInv, FirstInv, SessionInv, RunTypeOK, TypeOK, StepInv,
     HeldInv, AwaitAccepted, Handshake
<1>4. env' = env
  BY DEF AwaitAccepted, Handshake
<1> QED BY <1>1, <1>2, <1>3, <1>4

\* The commit frame gives the source away.
LEMMA RunCommit ==
  ASSUME RunInv, main \in {"launch", "wait"}, Commit,
         UNCHANGED <<main, report, held, watcher, driver, forwarder, phase, first>>
  PROVE  StepInv' /\ HeldInv' /\ FirstInv' /\ env' = env
<1>1. StepInv'
  BY DEF RunInv, StepInv, Commit
<1>2. HeldInv'
  BY DEF RunInv, HeldInv, Commit
<1>3. FirstInv'
  BY DEF RunInv, FirstInv, Commit
<1>4. env' = env
  BY DEF Commit
<1> QED BY <1>1, <1>2, <1>3, <1>4

\* A supervisor that was given nothing is killed.
LEMMA RunStopBeforeStart ==
  ASSUME RunInv, main \in {"launch", "wait"}, StopBeforeStart,
         UNCHANGED <<main, report, held, watcher, driver, forwarder, phase, first>>
  PROVE  StepInv' /\ HeldInv' /\ FirstInv' /\ env' = env
<1>1. StepInv'
  BY DEF RunInv, StepInv, StopBeforeStart
<1>2. HeldInv'
  BY DEF RunInv, HeldInv, StopBeforeStart
<1>3. FirstInv'
  BY DEF RunInv, FirstInv, StopBeforeStart
<1>4. env' = env
  BY DEF StopBeforeStart
<1> QED BY <1>1, <1>2, <1>3, <1>4

\* The hand-off is aborted by the end of the lifeline.
LEMMA RunCloseCancellation ==
  ASSUME RunInv, main \in {"launch", "wait"}, CloseCancellation,
         UNCHANGED <<main, report, held, watcher, driver, forwarder, phase, first>>
  PROVE  StepInv' /\ HeldInv' /\ FirstInv' /\ env' = env
<1>1. StepInv'
  BY DEF RunInv, StepInv, CloseCancellation
<1>2. HeldInv'
  BY DEF RunInv, HeldInv, CloseCancellation
<1>3. FirstInv'
  BY DEF RunInv, FirstInv, CloseCancellation
<1>4. env' = env
  BY DEF CloseCancellation
<1> QED BY <1>1, <1>2, <1>3, <1>4

\* The aborted supervisor has acknowledged, or something went wrong.
LEMMA RunAbortReaped ==
  ASSUME RunInv, main \in {"launch", "wait"}, AbortReaped,
         UNCHANGED <<main, report, held, watcher, driver, forwarder, phase, first>>
  PROVE  StepInv' /\ HeldInv' /\ FirstInv' /\ env' = env
<1>1. StepInv'
  BY DEF RunInv, StepInv, AbortReaped
<1>2. HeldInv'
  BY DEF RunInv, HeldInv, AbortReaped
<1>3. FirstInv'
  BY DEF RunInv, FirstInv, AbortReaped
<1>4. env' = env
  BY DEF AbortReaped
<1> QED BY <1>1, <1>2, <1>3, <1>4

\* A supervisor that does not end in time is killed.
LEMMA RunReapLimit ==
  ASSUME RunInv, main \in {"launch", "wait"}, ReapLimit,
         UNCHANGED <<main, report, held, watcher, driver, forwarder, phase, first>>
  PROVE  StepInv' /\ HeldInv' /\ FirstInv' /\ env' = env
<1>1. StepInv'
  BY DEF RunInv, StepInv, ReapLimit, ProcessEnds
<1>2. HeldInv'
  BY DEF RunInv, HeldInv, ReapLimit, ProcessEnds
<1>3. FirstInv'
  BY DEF RunInv, FirstInv, ReapLimit, ProcessEnds
<1>4. env' = env
  BY DEF ReapLimit, ProcessEnds
<1> QED BY <1>1, <1>2, <1>3, <1>4

\* Wait has reaped the supervisor.
LEMMA RunReaped ==
  ASSUME RunInv, main \in {"launch", "wait"}, Reaped,
         UNCHANGED <<main, report, held, watcher, driver, forwarder, phase, first>>
  PROVE  StepInv' /\ HeldInv' /\ FirstInv' /\ env' = env
<1>1. StepInv'
  BY DEF RunInv, StepInv, Reaped
<1>2. HeldInv'
  BY DEF RunInv, HeldInv, Reaped
<1>3. FirstInv'
  BY DEF RunInv, FirstInv, Reaped
<1>4. env' = env
  BY DEF Reaped
<1> QED BY <1>1, <1>2, <1>3, <1>4

\* Wait closes what is left.
LEMMA RunTeardown ==
  ASSUME RunInv, main \in {"launch", "wait"}, Teardown,
         UNCHANGED <<main, report, held, watcher, driver, forwarder, phase, first>>
  PROVE  StepInv' /\ HeldInv' /\ FirstInv' /\ env' = env
<1>1. StepInv'
  BY DEF RunInv, StepInv, Teardown
<1>2. HeldInv'
  BY DEF RunInv, HeldInv, Teardown
<1>3. FirstInv'
  BY DEF RunInv, FirstInv, Teardown
<1>4. env' = env
  BY DEF Teardown
<1> QED BY <1>1, <1>2, <1>3, <1>4

\* Wait stops the sender.
LEMMA RunBeginWait ==
  ASSUME RunInv, main = "wait", BeginWait,
         UNCHANGED <<main, report, held, watcher, driver, forwarder, phase, first>>
  PROVE  StepInv' /\ HeldInv' /\ FirstInv' /\ env' = env
<1>1. StepInv'
  BY DEF RunInv, StepInv, BeginWait, StoppedSender
<1>2. HeldInv'
  BY DEF RunInv, HeldInv, BeginWait, StoppedSender
<1>3. FirstInv'
  BY DEF RunInv, FirstInv, BeginWait, StoppedSender
<1>4. env' = env
  BY DEF BeginWait, StoppedSender
<1> QED BY <1>1, <1>2, <1>3, <1>4

\* The supervisor is ready.
LEMMA RunSendReady ==
  ASSUME RunInv, SendReady,
         UNCHANGED <<main, report, held, watcher, driver, forwarder, phase, first>>
  PROVE  StepInv' /\ HeldInv' /\ FirstInv' /\ env' = env
<1>1. StepInv'
  BY DEF RunInv, StepInv, SendReady, SendHandshake, ProcessEnds
<1>2. HeldInv'
  BY DEF RunInv, HeldInv, SendReady, SendHandshake, ProcessEnds
<1>3. FirstInv'
  <2>1. CASE Len(events) < EventSlots /\ events' = Append(events, Frame("ready"))
    <3>1. Frame("ready") \in EventFrames /\ Frame("ready").reason = "none"
      BY FrameFacts DEF RunInv, SessionInv, TypeOK
    <3>2. ToSet(events') = ToSet(events) \cup {Frame("ready")}
      BY <2>1, <3>1, EventWritten DEF RunInv, SessionInv
    <3> QED BY <2>1, <3>1, <3>2, EmptyPipes DEF RunInv, SessionInv, RunTypeOK, TypeOK,
       StepInv, FirstInv, HandshakeInv, SendReady, SendHandshake, ProcessEnds
  <2>2. CASE UNCHANGED events
    BY <2>2, EmptyPipes DEF RunInv, SessionInv, RunTypeOK, TypeOK, StepInv, FirstInv,
       HandshakeInv, SendReady, SendHandshake, ProcessEnds
  <2> QED BY <2>1, <2>2 DEF SendReady, SendHandshake, ProcessEnds
<1>4. env' = env
  BY DEF SendReady, SendHandshake, ProcessEnds
<1> QED BY <1>1, <1>2, <1>3, <1>4

\* The supervisor takes the start frame, or ends with its parent.
LEMMA RunReadStart ==
  ASSUME RunInv, ReadStart,
         UNCHANGED <<main, report, held, watcher, driver, forwarder, phase, first>>
  PROVE  StepInv' /\ HeldInv' /\ FirstInv' /\ env' = env
<1>1. StepInv'
  BY DEF RunInv, StepInv, ReadStart, ProcessEnds
<1>2. HeldInv'
  BY DEF RunInv, HeldInv, ReadStart, ProcessEnds
<1>3. FirstInv'
  BY ControlRead, EmptyPipes DEF RunInv, FirstInv, SessionInv, RunTypeOK, TypeOK, StepInv,
     HeldInv, ReadStart, ProcessEnds
<1>4. env' = env
  BY DEF ReadStart, ProcessEnds
<1> QED BY <1>1, <1>2, <1>3, <1>4

\* The supervisor accepts the source and listens for a cancellation.
LEMMA RunSendAccepted ==
  ASSUME RunInv, SendAccepted,
         UNCHANGED <<main, report, held, watcher, driver, forwarder, phase, first>>
  PROVE  StepInv' /\ HeldInv' /\ FirstInv' /\ env' = env
<1>1. StepInv'
  BY DEF RunInv, StepInv, SendAccepted, SendHandshake, ProcessEnds
<1>2. HeldInv'
  BY DEF RunInv, HeldInv, SendAccepted, SendHandshake, ProcessEnds
<1>3. FirstInv'
  <2>1. CASE Len(events) < EventSlots /\ events' = Append(events, Frame("accepted"))
    <3>1. Frame("accepted") \in EventFrames /\ Frame("accepted").reason = "none"
      BY FrameFacts DEF RunInv, SessionInv, TypeOK
    <3>2. ToSet(events') = ToSet(events) \cup {Frame("accepted")}
      BY <2>1, <3>1, EventWritten DEF RunInv, SessionInv
    <3> QED BY <2>1, <3>1, <3>2, EmptyPipes DEF RunInv, SessionInv, RunTypeOK, TypeOK,
       StepInv, FirstInv, HandshakeInv, SendAccepted, SendHandshake, ProcessEnds
  <2>2. CASE UNCHANGED events
    BY <2>2, EmptyPipes DEF RunInv, SessionInv, RunTypeOK, TypeOK, StepInv, FirstInv,
       HandshakeInv, SendAccepted, SendHandshake, ProcessEnds
  <2> QED BY <2>1, <2>2 DEF SendAccepted, SendHandshake, ProcessEnds
<1>4. env' = env
  BY DEF SendAccepted, SendHandshake, ProcessEnds
<1> QED BY <1>1, <1>2, <1>3, <1>4

\* Work runs only on a commit frame.
LEMMA RunWaitForCommit ==
  ASSUME RunInv, WaitForCommit,
         UNCHANGED <<main, report, held, watcher, driver, forwarder, phase, first>>
  PROVE  StepInv' /\ HeldInv' /\ FirstInv' /\ env' = env
<1>1. StepInv'
  BY DEF RunInv, StepInv, WaitForCommit, Record, Precedence
<1>2. HeldInv'
  BY ControlRead DEF RunInv, HeldInv, SessionInv, RunTypeOK, TypeOK, StepInv, FirstInv,
     StartInv, HoldingInv, HandshakeInv, DeliveryInv, SenderInv, WaitForCommit, Record,
     Precedence
<1>3. FirstInv'
  BY DEF RunInv, FirstInv, WaitForCommit, Record, Precedence
<1>4. env' = env
  BY DEF WaitForCommit, Record, Precedence
<1> QED BY <1>1, <1>2, <1>3, <1>4

\* The reason of the final is settled.
LEMMA RunFreeze ==
  ASSUME RunInv, Freeze,
         UNCHANGED <<main, report, held, watcher, driver, forwarder, phase, first>>
  PROVE  StepInv' /\ HeldInv' /\ FirstInv' /\ env' = env
<1>1. StepInv'
  BY DEF RunInv, StepInv, Freeze, AppliedReason
<1>2. HeldInv'
  BY DEF RunInv, HeldInv, Freeze, AppliedReason
<1>3. FirstInv'
  BY DEF RunInv, FirstInv, SessionInv, RunTypeOK, TypeOK, Freeze, AppliedReason
<1>4. env' = env
  BY DEF Freeze, AppliedReason
<1> QED BY <1>1, <1>2, <1>3, <1>4

\* The final carries a reason that was given.
LEMMA RunSendFinal ==
  ASSUME RunInv, SendFinal,
         UNCHANGED <<main, report, held, watcher, driver, forwarder, phase, first>>
  PROVE  StepInv' /\ HeldInv' /\ FirstInv' /\ env' = env
<1>1. StepInv'
  BY DEF RunInv, StepInv, SendFinal, ProcessEnds
<1>2. HeldInv'
  BY DEF RunInv, HeldInv, SendFinal, ProcessEnds
<1>3. FirstInv'
  <2>1. CASE Len(events) < EventSlots /\ events' = Append(events, Final(reason))
    <3>1. Final(reason) \in EventFrames /\ Final(reason).reason = reason
      BY FrameFacts DEF RunInv, SessionInv, TypeOK
    <3>2. ToSet(events') = ToSet(events) \cup {Final(reason)}
      BY <2>1, <3>1, EventWritten DEF RunInv, SessionInv
    <3> QED BY <2>1, <3>1, <3>2, EmptyPipes DEF RunInv, SessionInv, RunTypeOK, TypeOK,
       StepInv, FirstInv, HandshakeInv, SendFinal, ProcessEnds
  <2>2. CASE UNCHANGED events
    BY <2>2, EmptyPipes DEF RunInv, SessionInv, RunTypeOK, TypeOK, StepInv, FirstInv,
       HandshakeInv, SendFinal, ProcessEnds
  <2> QED BY <2>1, <2>2 DEF SendFinal, ProcessEnds
<1>4. env' = env
  BY DEF SendFinal, ProcessEnds
<1> QED BY <1>1, <1>2, <1>3, <1>4

\* The supervisor learns of a cancellation, which has a cause.
LEMMA RunReadCancellation ==
  ASSUME RunInv, ReadCancellation,
         UNCHANGED <<main, report, held, watcher, driver, forwarder, phase, first>>
  PROVE  StepInv' /\ HeldInv' /\ FirstInv' /\ env' = env
<1>1. StepInv'
  BY DEF RunInv, StepInv, ReadCancellation, Record, Precedence
<1>2. HeldInv'
  BY DEF RunInv, HeldInv, ReadCancellation, Record, Precedence
<1>3. FirstInv'
  BY CancelRead, EmptyPipes, ZenonT(40) DEF RunInv, FirstInv, SessionInv, RunTypeOK, TypeOK, StepInv,
     HeldInv, StartInv, HoldingInv, HandshakeInv, DeliveryInv, SenderInv,
     ReadCancellation, Record, Precedence
<1>4. env' = env
  BY DEF ReadCancellation, Record, Precedence
<1> QED BY <1>1, <1>2, <1>3, <1>4

\* Controls are queued; the end of their pipe is an internal failure.
LEMMA RunReadControls ==
  ASSUME RunInv, ReadControls,
         UNCHANGED <<main, report, held, watcher, driver, forwarder, phase, first>>
  PROVE  StepInv' /\ HeldInv' /\ FirstInv' /\ env' = env
<1>1. StepInv'
  BY DEF RunInv, StepInv, ReadControls, Record, Precedence
<1>2. HeldInv'
  BY DEF RunInv, HeldInv, ReadControls, Record, Precedence
<1>3. FirstInv'
  BY DEF RunInv, FirstInv, ReadControls, Record, Precedence
<1>4. env' = env
  BY DEF ReadControls, Record, Precedence
<1> QED BY <1>1, <1>2, <1>3, <1>4

\* The work takes a control.
LEMMA RunTakeControl ==
  ASSUME RunInv, TakeControl,
         UNCHANGED <<main, report, held, watcher, driver, forwarder, phase, first>>
  PROVE  StepInv' /\ HeldInv' /\ FirstInv' /\ env' = env
<1>1. StepInv'
  BY DEF RunInv, StepInv, TakeControl
<1>2. HeldInv'
  BY DEF RunInv, HeldInv, TakeControl
<1>3. FirstInv'
  BY DEF RunInv, FirstInv, TakeControl
<1>4. env' = env
  BY DEF TakeControl
<1> QED BY <1>1, <1>2, <1>3, <1>4

\* The work reports.
LEMMA RunSendEvent ==
  ASSUME RunInv, SendEvent,
         UNCHANGED <<main, report, held, watcher, driver, forwarder, phase, first>>
  PROVE  StepInv' /\ HeldInv' /\ FirstInv' /\ env' = env
<1>1. StepInv'
  BY DEF RunInv, StepInv, SendEvent
<1>2. HeldInv'
  BY DEF RunInv, HeldInv, SendEvent
<1>3. FirstInv'
  BY EventWritten, FrameFacts DEF RunInv, FirstInv, SessionInv, RunTypeOK, TypeOK,
     StepInv, HeldInv, SendEvent
<1>4. env' = env
  BY DEF SendEvent
<1> QED BY <1>1, <1>2, <1>3, <1>4

\* The work ends.
LEMMA RunWorkReturns ==
  ASSUME RunInv, WorkReturns,
         UNCHANGED <<main, report, held, watcher, driver, forwarder, phase, first>>
  PROVE  StepInv' /\ HeldInv' /\ FirstInv' /\ env' = env
<1>1. StepInv'
  BY DEF RunInv, StepInv, WorkReturns
<1>2. HeldInv'
  BY DEF RunInv, HeldInv, WorkReturns
<1>3. FirstInv'
  BY DEF RunInv, FirstInv, WorkReturns
<1>4. env' = env
  BY DEF WorkReturns
<1> QED BY <1>1, <1>2, <1>3, <1>4

\* The supervisor is killed.
LEMMA RunSupervisorDies ==
  ASSUME RunInv, SupervisorDies,
         UNCHANGED <<main, report, held, watcher, driver, forwarder, phase, first>>
  PROVE  StepInv' /\ HeldInv' /\ FirstInv' /\ env' = env
<1>1. StepInv'
  BY DEF RunInv, StepInv, SupervisorDies, ProcessEnds
<1>2. HeldInv'
  BY DEF RunInv, HeldInv, SupervisorDies, ProcessEnds
<1>3. FirstInv'
  BY EmptyPipes DEF RunInv, FirstInv, SessionInv, RunTypeOK, TypeOK, StepInv, HeldInv,
     SupervisorDies, ProcessEnds
<1>4. env' = env
  BY DEF SupervisorDies, ProcessEnds
<1> QED BY <1>1, <1>2, <1>3, <1>4

\* A control write begins.
LEMMA RunBeginControl ==
  ASSUME RunInv, BeginControl,
         UNCHANGED <<main, report, held, watcher, driver, forwarder, phase, first>>
  PROVE  StepInv' /\ HeldInv' /\ FirstInv' /\ env' = env
<1>1. StepInv'
  BY DEF RunInv, StepInv, BeginControl
<1>2. HeldInv'
  BY DEF RunInv, HeldInv, BeginControl
<1>3. FirstInv'
  BY DEF RunInv, FirstInv, BeginControl
<1>4. env' = env
  BY DEF BeginControl
<1> QED BY <1>1, <1>2, <1>3, <1>4

\* A control is written, or given up.
LEMMA RunWriteControl ==
  ASSUME RunInv, WriteControl,
         UNCHANGED <<main, report, held, watcher, driver, forwarder, phase, first>>
  PROVE  StepInv' /\ HeldInv' /\ FirstInv' /\ env' = env
<1>1. StepInv'
  BY DEF RunInv, StepInv, WriteControl
<1>2. HeldInv'
  BY DEF RunInv, HeldInv, WriteControl
<1>3. FirstInv'
  BY DEF RunInv, FirstInv, WriteControl
<1>4. env' = env
  BY DEF WriteControl
<1> QED BY <1>1, <1>2, <1>3, <1>4

-----------------------------------------------------------------------------
(* What Run does to its session                                            *)

\* The modes and the signals of the environment, and the bound of the loop.
LEMMA EnvironmentFacts ==
  ASSUME RunInv
  PROVE  /\ env.modes \subseteq {"plain", "interactive"}
         /\ env.signals \subseteq {"user", "terminate", "hangup"}
         /\ MaxPending \in Nat \ {0}
BY RunConstantsAssumption DEF RunInv, RunTypeOK, TypeOK

\* The context of the preparation says nothing of the session.
LEMMA ContextEnds ==
  ASSUME SessionInv, ctx' \in BOOLEAN,
         UNCHANGED <<launch, outcome, sender, lifeline, writable, wake, writer, receiver,
                     final, pipes, super, source, history>>
  PROVE  SessionInv'
<1>1. FlagsOK'
  BY Zenon DEF SessionInv, TypeOK, FlagsOK
<1>2. TypeOK'
  BY <1>1 DEF SessionInv, TypeOK, PipesOK
<1>3. StartInv' /\ HoldingInv' /\ HandshakeInv' /\ DeliveryInv' /\ SenderInv'
  BY DEF SessionInv, StartInv, HoldingInv, HandshakeInv, DeliveryInv, SenderInv
<1>4. CleanInv' /\ CauseInv'
  BY DEF SessionInv, CleanInv, CauseInv, Acknowledged, Named
<1> QED BY <1>2, <1>3, <1>4 DEF SessionInv

\* Before the launch Run holds the source itself, and may release it.
LEMMA SourceChanges ==
  ASSUME SessionInv, source' \subseteq source \/ (launch = "start" /\ source' = {"parent"}),
         mishap' = mishap \/ mishap' = TRUE,
         UNCHANGED <<parent, pipes, super, committed, env, ran, causes>>
  PROVE  SessionInv'
<1>1. FlagsOK'
  BY Zenon DEF SessionInv, TypeOK, FlagsOK
<1>2. TypeOK'
  <2>1. source' \subseteq {"parent", "supervisor"}
    BY DEF SessionInv, TypeOK
  <2>2. PipesOK'
    BY DEF SessionInv, TypeOK, PipesOK
  <2> HIDE DEF AllReasons
  <2> QED BY <1>1, <2>1, <2>2 DEF SessionInv, TypeOK
<1>3. StartInv' /\ HoldingInv' /\ HandshakeInv' /\ SenderInv'
  BY DEF SessionInv, StartInv, HoldingInv, HandshakeInv, SenderInv
<1>4. DeliveryInv' /\ CleanInv'
  BY DEF SessionInv, DeliveryInv, CleanInv, Acknowledged
<1>5. CauseInv'
  BY DEF SessionInv, CauseInv, Named
<1> QED BY <1>2, <1>3, <1>4, <1>5 DEF SessionInv

\* A termination is a cancel frame, or the end of the lifeline, or comes late.
LEMMA TerminationStep ==
  ASSUME SessionInv, launch = "client",
         NEW r \in {"user", "terminate", "hangup", "internal"}, CancelOrClose(r)
  PROVE  SessionInv'
<1>1. CASE sender = "open" /\ Alive
  <2>1. lifeline' = lifeline
    BY <1>1 DEF SessionInv, SenderInv, CancelOrClose
  <2>2. Cancel(r)
    BY <1>1, <2>1 DEF CancelOrClose, Cancel
  <2> QED BY <2>2, CancelStep
<1>2. CASE sender = "open" /\ ~Alive
  <2>1. lifeline
    BY <1>2 DEF SessionInv, SenderInv
  <2>2. CloseLifeline
    BY <1>2, <2>1 DEF CancelOrClose, CloseLifeline, StoppedSender
  <2> QED BY <2>2, CloseLifelineStep
<1>3. CASE sender # "open"
  BY <1>3, StutterStep DEF CancelOrClose
<1> QED BY <1>1, <1>2, <1>3

\* The lifeline is closed at most once.
LEMMA LifelineOnceStep ==
  ASSUME SessionInv, launch = "client", CloseLifelineOnce
  PROVE  SessionInv'
<1>1. CASE lifeline
  <2>1. CloseLifeline
    BY <1>1 DEF CloseLifelineOnce, CloseLifeline
  <2> QED BY <2>1, CloseLifelineStep
<1>2. CASE ~lifeline
  BY <1>2, StutterStep DEF CloseLifelineOnce
<1> QED BY <1>1, <1>2

\* A step of the session leaves the types of the run alone.
LEMMA SessionKeepsTypes ==
  ASSUME RunInv, SessionInv', env' = env,
         UNCHANGED <<run, signals, inbox, session, output, display>>
  PROVE  RunTypeOK' /\ IsInjective(inbox)'
<1>1. InboxOK' /\ IsInjective(inbox)'
  BY InboxKept DEF RunInv, RunTypeOK
<1>2. RunFlagsOK'
  BY Zenon DEF RunInv, RunTypeOK, RunFlagsOK
<1> QED BY <1>1, <1>2 DEF RunInv, RunTypeOK, SessionInv

-----------------------------------------------------------------------------
(* The steps of Run, its watcher, its forwarder and its display            *)

\* A signal arrives.
LEMMA SignalArrivesKeeps ==
  ASSUME RunInv, SignalArrives
  PROVE  RunInv'
<1>1. SessionInv'
  BY StutterStep DEF RunInv, SignalArrives
<1>2. InboxOK' /\ IsInjective(inbox)'
  BY InboxKept DEF RunInv, RunTypeOK, SignalArrives
<1>3. RunFlagsOK'
  BY Zenon DEF RunInv, RunTypeOK, RunFlagsOK, SignalArrives
<1>4. RunTypeOK'
  BY <1>1, <1>2, <1>3 DEF RunInv, RunTypeOK, SessionInv, SignalArrives
<1>5. StepInv'
  BY DEF RunInv, StepInv, SignalArrives
<1>6. HeldInv'
  BY DEF RunInv, HeldInv, SignalArrives
<1>7. FirstInv'
  BY DEF RunInv, FirstInv, SignalArrives
<1> QED BY <1>1, <1>2, <1>3, <1>4, <1>5, <1>6, <1>7 DEF RunInv

\* The context of the caller ends.
LEMMA CallerCancelsKeeps ==
  ASSUME RunInv, CallerCancels
  PROVE  RunInv'
<1>1. SessionInv'
  BY StutterStep DEF RunInv, CallerCancels
<1>2. InboxOK' /\ IsInjective(inbox)'
  BY InboxKept DEF RunInv, RunTypeOK, CallerCancels
<1>3. RunFlagsOK'
  BY Zenon DEF RunInv, RunTypeOK, RunFlagsOK, CallerCancels
<1>4. RunTypeOK'
  BY <1>1, <1>2, <1>3 DEF RunInv, RunTypeOK, SessionInv, CallerCancels
<1>5. StepInv'
  BY DEF RunInv, StepInv, CallerCancels
<1>6. HeldInv'
  BY DEF RunInv, HeldInv, CallerCancels
<1>7. FirstInv'
  BY DEF RunInv, FirstInv, CallerCancels
<1> QED BY <1>1, <1>2, <1>3, <1>4, <1>5, <1>6, <1>7 DEF RunInv

\* The watcher keeps the first signal and publishes every one.
LEMMA TakeSignalKeeps ==
  ASSUME RunInv, TakeSignal
  PROVE  RunInv'
<1>1. SessionInv'
  BY StutterStep DEF RunInv, TakeSignal
<1>2. InboxOK' /\ IsInjective(inbox)'
  BY Published, EnvironmentFacts DEF RunInv, RunTypeOK, TakeSignal
<1>3. RunFlagsOK'
  BY Zenon DEF RunInv, RunTypeOK, RunFlagsOK, TakeSignal
<1>4. RunTypeOK'
  BY <1>1, <1>2, <1>3 DEF RunInv, RunTypeOK, SessionInv, TakeSignal
<1>5. StepInv'
  BY DEF RunInv, StepInv, TakeSignal
<1>6. HeldInv'
  BY DEF RunInv, HeldInv, TakeSignal
<1>7. FirstInv'
  BY DEF RunInv, FirstInv, TakeSignal
<1> QED BY <1>1, <1>2, <1>3, <1>4, <1>5, <1>6, <1>7 DEF RunInv

\* The watcher cancels the preparation.
LEMMA CancelPreparationKeeps ==
  ASSUME RunInv, CancelPreparation
  PROVE  RunInv'
<1>1. SessionInv'
  BY ContextEnds DEF RunInv, StepInv, CancelPreparation
<1>2. InboxOK' /\ IsInjective(inbox)'
  BY InboxKept DEF RunInv, RunTypeOK, CancelPreparation
<1>3. RunFlagsOK'
  BY Zenon DEF RunInv, RunTypeOK, RunFlagsOK, CancelPreparation
<1>4. RunTypeOK'
  BY <1>1, <1>2, <1>3 DEF RunInv, RunTypeOK, SessionInv, CancelPreparation
<1>5. StepInv'
  BY DEF RunInv, StepInv, CancelPreparation
<1>6. HeldInv'
  BY DEF RunInv, HeldInv, CancelPreparation
<1>7. FirstInv'
  BY DEF RunInv, FirstInv, CancelPreparation
<1> QED BY <1>1, <1>2, <1>3, <1>4, <1>5, <1>6, <1>7 DEF RunInv

\* The display is prepared.
LEMMA PrepareDisplayKeeps ==
  ASSUME RunInv, PrepareDisplay
  PROVE  RunInv'
<1>1. SessionInv'
  BY SourceChanges DEF RunInv, StepInv, PrepareDisplay, Prepare, Interrupted
<1>2. InboxOK' /\ IsInjective(inbox)'
  BY InboxKept DEF RunInv, RunTypeOK, PrepareDisplay, Prepare, Interrupted
<1>3. RunFlagsOK'
  BY Zenon DEF RunInv, RunTypeOK, RunFlagsOK, PrepareDisplay, Prepare, Interrupted
<1>4. RunTypeOK'
  <2>1. /\ main' \in {"source", "release"} /\ report' \in {report, "cause", "other"}
        /\ mode' \in {"plain", "interactive", mode} /\ held' \in {held,
           held \cup {"display"}}
        /\ UNCHANGED <<env, unsent, raw, watcher, signalled, session, forwarder, driver,
           keyboard, pending, instr>>
    BY EnvironmentFacts DEF PrepareDisplay, Prepare
  <2> QED BY <1>1, <1>2, <1>3, <2>1 DEF RunInv, RunTypeOK, SessionInv
<1>5. StepInv'
  BY DEF RunInv, StepInv, PrepareDisplay, Prepare, Interrupted
<1>6. HeldInv'
  BY EnvironmentFacts DEF RunInv, HeldInv, SessionInv, RunTypeOK, TypeOK, StepInv,
     FirstInv, StartInv, HoldingInv, HandshakeInv, DeliveryInv, SenderInv, PrepareDisplay,
     Prepare, Interrupted
<1>7. FirstInv'
  BY DEF RunInv, FirstInv, PrepareDisplay, Prepare, Interrupted
<1> QED BY <1>1, <1>2, <1>3, <1>4, <1>5, <1>6, <1>7 DEF RunInv

\* The source is opened.
LEMMA OpenSourceKeeps ==
  ASSUME RunInv, OpenSource
  PROVE  RunInv'
<1>1. SessionInv'
  BY SourceChanges DEF RunInv, StepInv, OpenSource, Prepare, Interrupted
<1>2. InboxOK' /\ IsInjective(inbox)'
  BY InboxKept DEF RunInv, RunTypeOK, OpenSource, Prepare, Interrupted
<1>3. RunFlagsOK'
  BY Zenon DEF RunInv, RunTypeOK, RunFlagsOK, OpenSource, Prepare, Interrupted
<1>4. RunTypeOK'
  <2>1. /\ main' \in {"logs", "release"} /\ report' \in {report, "cause", "other"}
        /\ mode' \in {mode} /\ held' \in {held}
        /\ UNCHANGED <<env, unsent, raw, watcher, signalled, session, forwarder, driver,
           keyboard, pending, instr>>
    BY DEF OpenSource, Prepare
  <2> QED BY <1>1, <1>2, <1>3, <2>1 DEF RunInv, RunTypeOK, SessionInv
<1>5. StepInv'
  BY DEF RunInv, StepInv, OpenSource, Prepare, Interrupted
<1>6. HeldInv'
  BY DEF RunInv, HeldInv, SessionInv, RunTypeOK, TypeOK, StepInv, FirstInv, StartInv,
     HoldingInv, HandshakeInv, DeliveryInv, SenderInv, OpenSource, Prepare, Interrupted
<1>7. FirstInv'
  BY DEF RunInv, FirstInv, OpenSource, Prepare, Interrupted
<1> QED BY <1>1, <1>2, <1>3, <1>4, <1>5, <1>6, <1>7 DEF RunInv

\* The logs are opened.
LEMMA OpenLogsKeeps ==
  ASSUME RunInv, OpenLogs
  PROVE  RunInv'
<1>1. SessionInv'
  BY SourceChanges DEF RunInv, StepInv, OpenLogs, Prepare, Interrupted
<1>2. InboxOK' /\ IsInjective(inbox)'
  BY InboxKept DEF RunInv, RunTypeOK, OpenLogs, Prepare, Interrupted
<1>3. RunFlagsOK'
  BY Zenon DEF RunInv, RunTypeOK, RunFlagsOK, OpenLogs, Prepare, Interrupted
<1>4. RunTypeOK'
  <2>1. /\ main' \in {"launch", "release"} /\ report' \in {report, "cause", "other"}
        /\ mode' \in {mode} /\ held' \in {held, held \cup {"logs"}}
        /\ UNCHANGED <<env, unsent, raw, watcher, signalled, session, forwarder, driver,
           keyboard, pending, instr>>
    BY DEF OpenLogs, Prepare
  <2> QED BY <1>1, <1>2, <1>3, <2>1 DEF RunInv, RunTypeOK, SessionInv
<1>5. StepInv'
  BY DEF RunInv, StepInv, OpenLogs, Prepare, Interrupted
<1>6. HeldInv'
  BY DEF RunInv, HeldInv, SessionInv, RunTypeOK, TypeOK, StepInv, FirstInv, StartInv,
     HoldingInv, HandshakeInv, DeliveryInv, SenderInv, OpenLogs, Prepare, Interrupted
<1>7. FirstInv'
  BY DEF RunInv, FirstInv, OpenLogs, Prepare, Interrupted
<1> QED BY <1>1, <1>2, <1>3, <1>4, <1>5, <1>6, <1>7 DEF RunInv

\* Launch has returned: a session begins, or the preparation is undone.
LEMMA LaunchedKeeps ==
  ASSUME RunInv, Launched
  PROVE  RunInv'
<1>1. SessionInv'
  BY StutterStep DEF RunInv, Launched
<1>2. InboxOK' /\ IsInjective(inbox)'
  BY InboxKept DEF RunInv, RunTypeOK, Launched
<1>3. RunFlagsOK'
  BY Zenon DEF RunInv, RunTypeOK, RunFlagsOK, Launched
<1>4. RunTypeOK'
  BY <1>1, <1>2, <1>3 DEF RunInv, RunTypeOK, SessionInv, Launched
<1>5. StepInv'
  BY DEF RunInv, StepInv, Launched
<1>6. HeldInv'
  BY DEF RunInv, HeldInv, SessionInv, RunTypeOK, TypeOK, StepInv, FirstInv, StartInv,
     HoldingInv, HandshakeInv, DeliveryInv, SenderInv, Launched
<1>7. FirstInv'
  BY DEF RunInv, FirstInv, SessionInv, RunTypeOK, TypeOK, StepInv, HeldInv, Launched
<1> QED BY <1>1, <1>2, <1>3, <1>4, <1>5, <1>6, <1>7 DEF RunInv

\* What the preparation acquired is released.
LEMMA ReleasePreparationKeeps ==
  ASSUME RunInv, ReleasePreparation
  PROVE  RunInv'
<1>1. SessionInv'
  BY SourceChanges DEF RunInv, StepInv, ReleasePreparation
<1>2. InboxOK' /\ IsInjective(inbox)'
  BY InboxKept DEF RunInv, RunTypeOK, ReleasePreparation
<1>3. RunFlagsOK'
  BY Zenon DEF RunInv, RunTypeOK, RunFlagsOK, ReleasePreparation
<1>4. RunTypeOK'
  BY <1>1, <1>2, <1>3 DEF RunInv, RunTypeOK, SessionInv, ReleasePreparation
<1>5. StepInv'
  BY DEF RunInv, StepInv, ReleasePreparation
<1>6. HeldInv'
  BY DEF RunInv, HeldInv, ReleasePreparation
<1>7. FirstInv'
  BY DEF RunInv, FirstInv, ReleasePreparation
<1> QED BY <1>1, <1>2, <1>3, <1>4, <1>5, <1>6, <1>7 DEF RunInv

\* Run returns without a session.
LEMMA FinishPreparationKeeps ==
  ASSUME RunInv, FinishPreparation
  PROVE  RunInv'
<1>1. SessionInv'
  BY StutterStep DEF RunInv, FinishPreparation
<1>2. InboxOK' /\ IsInjective(inbox)'
  BY InboxKept DEF RunInv, RunTypeOK, FinishPreparation
<1>3. RunFlagsOK'
  BY Zenon DEF RunInv, RunTypeOK, RunFlagsOK, FinishPreparation
<1>4. RunTypeOK'
  BY <1>1, <1>2, <1>3 DEF RunInv, RunTypeOK, SessionInv, FinishPreparation
<1>5. StepInv'
  BY DEF RunInv, StepInv, FinishPreparation
<1>6. HeldInv'
  BY DEF RunInv, HeldInv, FinishPreparation
<1>7. FirstInv'
  BY DEF RunInv, FirstInv, FinishPreparation
<1> QED BY <1>1, <1>2, <1>3, <1>4, <1>5, <1>6, <1>7 DEF RunInv

\* A request is accepted first, or comes too late.
LEMMA AcceptRequestKeeps ==
  ASSUME RunInv, NEW r \in Requests, AcceptRequest(r)
  PROVE  RunInv'
<1>1. SessionInv'
  BY TerminationStep, LifelineOnceStep, StutterStep DEF RunInv, StepInv, AcceptRequest,
     AcceptControllerLoss, AcceptTermination
<1>2. InboxOK' /\ IsInjective(inbox)'
  BY Taken DEF RunInv, RunTypeOK, AcceptRequest, AcceptControllerLoss, AcceptTermination
<1>3. RunFlagsOK'
  BY Zenon DEF RunInv, RunTypeOK, RunFlagsOK, AcceptRequest, AcceptControllerLoss,
     AcceptTermination, CloseLifelineOnce, CancelOrClose, StoppedSender
<1>4. RunTypeOK'
  BY <1>1, <1>2, <1>3 DEF RunInv, RunTypeOK, SessionInv, AcceptRequest,
     AcceptControllerLoss, AcceptTermination, CloseLifelineOnce, CancelOrClose,
     StoppedSender
<1>5. StepInv'
  BY DEF RunInv, StepInv, AcceptRequest, AcceptControllerLoss, AcceptTermination,
     CloseLifelineOnce, CancelOrClose, StoppedSender
<1>6. HeldInv'
  BY DEF RunInv, HeldInv, AcceptRequest, AcceptControllerLoss, AcceptTermination,
     CloseLifelineOnce, CancelOrClose, StoppedSender
<1>7. FirstInv'
  <2>1. CASE r = "lost" /\ AcceptControllerLoss
    BY <2>1, EmptyPipes DEF RunInv, RunTypeOK, SessionInv, TypeOK, FirstInv, StepInv,
       SenderInv, AcceptRequest,
       AcceptControllerLoss, CloseLifelineOnce, StoppedSender
  <2>2. CASE r # "lost" /\ phase = "open" /\ AcceptTermination(r)
    <3>1. CASE sender = "open" /\ Alive
      <4>1. cancel = << >> /\ cancel' = Append(cancel, r) /\ r \in AllReasons
        BY <2>2, <3>1 DEF RunInv, SessionInv, SenderInv, AcceptTermination, CancelOrClose
      <4>2. cancel' # << >> /\ ToSet(cancel') = {r}
        BY <4>1, CancelWritten
      <4> QED BY <2>2, <3>1, <4>1, <4>2 DEF RunInv, RunTypeOK, SessionInv, TypeOK,
         FirstInv, StepInv,
             DeliveryInv, AcceptRequest, AcceptTermination, CancelOrClose
    <3>2. CASE ~(sender = "open" /\ Alive)
      BY <2>2, <3>2, EmptyPipes DEF RunInv, RunTypeOK, SessionInv, TypeOK, FirstInv,
         StepInv, DeliveryInv,
         SenderInv, AcceptRequest, AcceptTermination, CancelOrClose
    <3> QED BY <3>1, <3>2
  <2>3. CASE UNCHANGED <<vars, phase, first>>
    BY <2>3 DEF RunInv, FirstInv
  <2> QED BY <2>1, <2>2, <2>3 DEF AcceptRequest
<1> QED BY <1>1, <1>2, <1>3, <1>4, <1>5, <1>6, <1>7 DEF RunInv

\* The end of the context of the caller is accepted first.
LEMMA AcceptCallerKeeps ==
  ASSUME RunInv, AcceptCaller
  PROVE  RunInv'
<1>1. SessionInv'
  BY TerminationStep DEF RunInv, StepInv, AcceptCaller, AcceptTermination
<1>2. InboxOK' /\ IsInjective(inbox)'
  BY InboxKept DEF RunInv, RunTypeOK, AcceptCaller, AcceptTermination
<1>3. RunFlagsOK'
  BY Zenon DEF RunInv, RunTypeOK, RunFlagsOK, AcceptCaller, AcceptTermination, CancelOrClose
<1>4. RunTypeOK'
  BY <1>1, <1>2, <1>3 DEF RunInv, RunTypeOK, SessionInv, AcceptCaller, AcceptTermination,
     CancelOrClose
<1>5. StepInv'
  BY DEF RunInv, StepInv, AcceptCaller, AcceptTermination, CancelOrClose
<1>6. HeldInv'
  BY DEF RunInv, HeldInv, AcceptCaller, AcceptTermination, CancelOrClose
<1>7. FirstInv'
  BY CancelWritten, ZenonT(40) DEF RunInv, FirstInv, SessionInv, RunTypeOK, TypeOK, StepInv, HeldInv,
     StartInv, HoldingInv, HandshakeInv, DeliveryInv, SenderInv, CauseInv, AcceptCaller,
     AcceptTermination, CancelOrClose
<1> QED BY <1>1, <1>2, <1>3, <1>4, <1>5, <1>6, <1>7 DEF RunInv

\* A failure of the display becomes a request.
LEMMA DriverFailedKeeps ==
  ASSUME RunInv, DriverFailed
  PROVE  RunInv'
<1>1. SessionInv'
  BY StutterStep DEF RunInv, DriverFailed
<1>2. InboxOK' /\ IsInjective(inbox)'
  BY Published DEF RunInv, RunTypeOK, DriverFailed
<1>3. RunFlagsOK'
  BY Zenon DEF RunInv, RunTypeOK, RunFlagsOK, DriverFailed
<1>4. RunTypeOK'
  BY <1>1, <1>2, <1>3 DEF RunInv, RunTypeOK, SessionInv, DriverFailed
<1>5. StepInv'
  BY DEF RunInv, StepInv, DriverFailed
<1>6. HeldInv'
  BY DEF RunInv, HeldInv, DriverFailed
<1>7. FirstInv'
  BY DEF RunInv, FirstInv, DriverFailed
<1> QED BY <1>1, <1>2, <1>3, <1>4, <1>5, <1>6, <1>7 DEF RunInv

\* The session is complete.
LEMMA AcceptCompletionKeeps ==
  ASSUME RunInv, AcceptCompletion
  PROVE  RunInv'
<1>1. SessionInv'
  BY StutterStep DEF RunInv, AcceptCompletion, Completed
<1>2. InboxOK' /\ IsInjective(inbox)'
  BY InboxKept DEF RunInv, RunTypeOK, AcceptCompletion, Completed
<1>3. RunFlagsOK'
  BY Zenon DEF RunInv, RunTypeOK, RunFlagsOK, AcceptCompletion, Completed
<1>4. RunTypeOK'
  BY <1>1, <1>2, <1>3 DEF RunInv, RunTypeOK, SessionInv, AcceptCompletion, Completed
<1>5. StepInv'
  BY DEF RunInv, StepInv, AcceptCompletion, Completed
<1>6. HeldInv'
  BY DEF RunInv, HeldInv, AcceptCompletion, Completed
<1>7. FirstInv'
  BY DEF RunInv, FirstInv, AcceptCompletion, Completed
<1> QED BY <1>1, <1>2, <1>3, <1>4, <1>5, <1>6, <1>7 DEF RunInv

\* The display and the watcher are joined.
LEMMA JoinDriverKeeps ==
  ASSUME RunInv, JoinDriver
  PROVE  RunInv'
<1>1. SessionInv'
  BY StutterStep DEF RunInv, JoinDriver
<1>2. InboxOK' /\ IsInjective(inbox)'
  BY InboxKept DEF RunInv, RunTypeOK, JoinDriver
<1>3. RunFlagsOK'
  BY Zenon DEF RunInv, RunTypeOK, RunFlagsOK, JoinDriver
<1>4. RunTypeOK'
  BY <1>1, <1>2, <1>3 DEF RunInv, RunTypeOK, SessionInv, JoinDriver
<1>5. StepInv'
  BY DEF RunInv, StepInv, JoinDriver
<1>6. HeldInv'
  BY DEF RunInv, HeldInv, JoinDriver
<1>7. FirstInv'
  BY DEF RunInv, FirstInv, JoinDriver
<1> QED BY <1>1, <1>2, <1>3, <1>4, <1>5, <1>6, <1>7 DEF RunInv

\* The logs and the lifeline are closed.
LEMMA CloseSessionKeeps ==
  ASSUME RunInv, CloseSession
  PROVE  RunInv'
<1>1. SessionInv'
  BY LifelineOnceStep DEF RunInv, StepInv, CloseSession
<1>2. InboxOK' /\ IsInjective(inbox)'
  BY InboxKept DEF RunInv, RunTypeOK, CloseSession
<1>3. RunFlagsOK'
  BY Zenon DEF RunInv, RunTypeOK, RunFlagsOK, CloseSession, CloseLifelineOnce, StoppedSender
<1>4. RunTypeOK'
  BY <1>1, <1>2, <1>3 DEF RunInv, RunTypeOK, SessionInv, CloseSession, CloseLifelineOnce,
     StoppedSender
<1>5. StepInv'
  BY DEF RunInv, StepInv, CloseSession, CloseLifelineOnce, StoppedSender
<1>6. HeldInv'
  BY DEF RunInv, HeldInv, CloseSession, CloseLifelineOnce, StoppedSender
<1>7. FirstInv'
  BY DEF RunInv, FirstInv, SessionInv, RunTypeOK, TypeOK, StepInv, HeldInv, CloseSession,
     CloseLifelineOnce, StoppedSender
<1> QED BY <1>1, <1>2, <1>3, <1>4, <1>5, <1>6, <1>7 DEF RunInv

\* Run returns the result of a session.
LEMMA ReturnResultKeeps ==
  ASSUME RunInv, ReturnResult
  PROVE  RunInv'
<1>1. SessionInv'
  BY StutterStep DEF RunInv, ReturnResult
<1>2. InboxOK' /\ IsInjective(inbox)'
  BY InboxKept DEF RunInv, RunTypeOK, ReturnResult
<1>3. RunFlagsOK'
  BY Zenon DEF RunInv, RunTypeOK, RunFlagsOK, ReturnResult
<1>4. RunTypeOK'
  BY <1>1, <1>2, <1>3 DEF RunInv, RunTypeOK, SessionInv, ReturnResult
<1>5. StepInv'
  BY DEF RunInv, StepInv, ReturnResult
<1>6. HeldInv'
  BY DEF RunInv, HeldInv, SessionInv, RunTypeOK, TypeOK, StepInv, FirstInv, StartInv,
     HoldingInv, HandshakeInv, DeliveryInv, SenderInv, ReturnResult
<1>7. FirstInv'
  BY DEF RunInv, FirstInv, ReturnResult
<1> QED BY <1>1, <1>2, <1>3, <1>4, <1>5, <1>6, <1>7 DEF RunInv

\* The forwarder reads an event, or learns that there is none.
LEMMA ForwardReadKeeps ==
  ASSUME RunInv, ForwardRead
  PROVE  RunInv'
<1>1. SessionInv'
  BY ReadEventStep DEF RunInv, StepInv, ForwardRead
<1>2. InboxOK' /\ IsInjective(inbox)'
  BY InboxKept, Published DEF RunInv, RunTypeOK, ForwardRead, RequestStop
<1>3. RunFlagsOK'
  BY Zenon DEF RunInv, RunTypeOK, RunFlagsOK, ForwardRead, ReadEvent, RequestStop
<1>4. RunTypeOK'
  BY <1>1, <1>2, <1>3 DEF RunInv, RunTypeOK, SessionInv, ForwardRead, ReadEvent, RequestStop
<1>5. StepInv'
  BY DEF RunInv, StepInv, ForwardRead, ReadEvent, RequestStop
<1>6. HeldInv'
  BY DEF RunInv, HeldInv, ForwardRead, ReadEvent, RequestStop
<1>7. FirstInv'
  BY EventRead, ZenonT(40) DEF RunInv, FirstInv, SessionInv, RunTypeOK, TypeOK, StepInv, HeldInv,
     ForwardRead, ReadEvent, RequestStop
<1> QED BY <1>1, <1>2, <1>3, <1>4, <1>5, <1>6, <1>7 DEF RunInv

\* An event cannot be logged or shown.
LEMMA ForwardFailsKeeps ==
  ASSUME RunInv, ForwardFails
  PROVE  RunInv'
<1>1. SessionInv'
  BY StutterStep DEF RunInv, ForwardFails
<1>2. InboxOK' /\ IsInjective(inbox)'
  BY InboxKept, Published DEF RunInv, RunTypeOK, ForwardFails, RequestStop
<1>3. RunFlagsOK'
  BY Zenon DEF RunInv, RunTypeOK, RunFlagsOK, ForwardFails, RequestStop
<1>4. RunTypeOK'
  BY <1>1, <1>2, <1>3 DEF RunInv, RunTypeOK, SessionInv, ForwardFails, RequestStop
<1>5. StepInv'
  BY DEF RunInv, StepInv, ForwardFails, RequestStop
<1>6. HeldInv'
  BY DEF RunInv, HeldInv, ForwardFails, RequestStop
<1>7. FirstInv'
  BY DEF RunInv, FirstInv, ForwardFails, RequestStop
<1> QED BY <1>1, <1>2, <1>3, <1>4, <1>5, <1>6, <1>7 DEF RunInv

\* An event is logged and shown.
LEMMA ForwardShowKeeps ==
  ASSUME RunInv, ForwardShow
  PROVE  RunInv'
<1>1. SessionInv'
  BY StutterStep DEF RunInv, ForwardShow, Stopped
<1>2. InboxOK' /\ IsInjective(inbox)'
  BY InboxKept, Published DEF RunInv, RunTypeOK, ForwardShow, RequestStop, Stopped
<1>3. RunFlagsOK'
  BY Zenon DEF RunInv, RunTypeOK, RunFlagsOK, ForwardShow, RequestStop, Stopped
<1>4. RunTypeOK'
  BY <1>1, <1>2, <1>3 DEF RunInv, RunTypeOK, SessionInv, ForwardShow, RequestStop, Stopped
<1>5. StepInv'
  BY DEF RunInv, StepInv, ForwardShow, RequestStop, Stopped
<1>6. HeldInv'
  BY DEF RunInv, HeldInv, ForwardShow, RequestStop, Stopped
<1>7. FirstInv'
  BY DEF RunInv, FirstInv, ForwardShow, RequestStop, Stopped
<1> QED BY <1>1, <1>2, <1>3, <1>4, <1>5, <1>6, <1>7 DEF RunInv

\* The plain display ends.
LEMMA PlainDoneKeeps ==
  ASSUME RunInv, PlainDone
  PROVE  RunInv'
<1>1. SessionInv'
  BY StutterStep DEF RunInv, PlainDone
<1>2. InboxOK' /\ IsInjective(inbox)'
  BY InboxKept DEF RunInv, RunTypeOK, PlainDone
<1>3. RunFlagsOK'
  BY Zenon DEF RunInv, RunTypeOK, RunFlagsOK, PlainDone
<1>4. RunTypeOK'
  BY <1>1, <1>2, <1>3 DEF RunInv, RunTypeOK, SessionInv, PlainDone
<1>5. StepInv'
  BY DEF RunInv, StepInv, PlainDone
<1>6. HeldInv'
  BY DEF RunInv, HeldInv, PlainDone
<1>7. FirstInv'
  BY DEF RunInv, FirstInv, PlainDone
<1> QED BY <1>1, <1>2, <1>3, <1>4, <1>5, <1>6, <1>7 DEF RunInv

\* The user types.
LEMMA TypeKeeps ==
  ASSUME RunInv, Type
  PROVE  RunInv'
<1>1. SessionInv'
  BY StutterStep DEF RunInv, Type, Looping
<1>2. InboxOK' /\ IsInjective(inbox)'
  BY InboxKept DEF RunInv, RunTypeOK, Type, Looping
<1>3. RunFlagsOK'
  BY Zenon DEF RunInv, RunTypeOK, RunFlagsOK, Type, Looping
<1>4. RunTypeOK'
  BY <1>1, <1>2, <1>3 DEF RunInv, RunTypeOK, SessionInv, Type, Looping
<1>5. StepInv'
  BY DEF RunInv, StepInv, Type, Looping
<1>6. HeldInv'
  BY DEF RunInv, HeldInv, Type, Looping
<1>7. FirstInv'
  BY DEF RunInv, FirstInv, Type, Looping
<1> QED BY <1>1, <1>2, <1>3, <1>4, <1>5, <1>6, <1>7 DEF RunInv

\* The terminal loop reads the keyboard.
LEMMA LoopInputKeeps ==
  ASSUME RunInv, LoopInput
  PROVE  RunInv'
<1>1. SessionInv'
  BY StutterStep DEF RunInv, LoopInput, Looping, LoopFails
<1>2. InboxOK' /\ IsInjective(inbox)'
  BY InboxKept, Published DEF RunInv, RunTypeOK, LoopInput, Looping, LoopFails
<1>3. RunFlagsOK'
  BY Zenon DEF RunInv, RunTypeOK, RunFlagsOK, LoopInput, Looping, LoopFails
<1>4. RunTypeOK'
  <2>1. /\ keyboard' = "none" /\ pending' \in {pending, 1}
        /\ driver' \in {driver, "stopping"}
        /\ UNCHANGED <<env, run, unsent, raw, watcher, signalled, session, forwarder,
           instr>>
    BY DEF LoopInput, LoopFails
  <2>2. pending' \in 0..MaxPending
    BY <2>1, EnvironmentFacts DEF RunInv, RunTypeOK
  <2> QED BY <1>1, <1>2, <1>3, <2>1, <2>2 DEF RunInv, RunTypeOK, SessionInv
<1>5. StepInv'
  BY DEF RunInv, StepInv, LoopInput, Looping, LoopFails
<1>6. HeldInv'
  BY DEF RunInv, HeldInv, LoopInput, Looping, LoopFails
<1>7. FirstInv'
  BY DEF RunInv, FirstInv, LoopInput, Looping, LoopFails
<1> QED BY <1>1, <1>2, <1>3, <1>4, <1>5, <1>6, <1>7 DEF RunInv

\* The terminal is resized.
LEMMA LoopResizeKeeps ==
  ASSUME RunInv, LoopResize
  PROVE  RunInv'
<1>1. SessionInv'
  BY StutterStep DEF RunInv, LoopResize, Looping, LoopFails
<1>2. InboxOK' /\ IsInjective(inbox)'
  BY InboxKept DEF RunInv, RunTypeOK, LoopResize, Looping, LoopFails
<1>3. RunFlagsOK'
  BY Zenon DEF RunInv, RunTypeOK, RunFlagsOK, LoopResize, Looping, LoopFails
<1>4. RunTypeOK'
  BY <1>1, <1>2, <1>3, EnvironmentFacts DEF RunInv, RunTypeOK, SessionInv, TypeOK,
     LoopResize, Looping, LoopFails
<1>5. StepInv'
  BY DEF RunInv, StepInv, LoopResize, Looping, LoopFails
<1>6. HeldInv'
  BY DEF RunInv, HeldInv, LoopResize, Looping, LoopFails
<1>7. FirstInv'
  BY DEF RunInv, FirstInv, LoopResize, Looping, LoopFails
<1> QED BY <1>1, <1>2, <1>3, <1>4, <1>5, <1>6, <1>7 DEF RunInv

\* An instruction is handed to the sender.
LEMMA SendInstructionKeeps ==
  ASSUME RunInv, SendInstruction
  PROVE  RunInv'
<1>1. SessionInv'
  BY BeginControlStep, StutterStep DEF RunInv, StepInv, SendInstruction, Looping
<1>2. InboxOK' /\ IsInjective(inbox)'
  BY InboxKept DEF RunInv, RunTypeOK, SendInstruction, Looping, BeginControl
<1>3. RunFlagsOK'
  BY Zenon DEF RunInv, RunTypeOK, RunFlagsOK, SendInstruction, Looping, BeginControl
<1>4. RunTypeOK'
  BY <1>1, <1>2, <1>3, EnvironmentFacts DEF RunInv, RunTypeOK, SessionInv, TypeOK,
     SendInstruction, Looping, BeginControl
<1>5. StepInv'
  BY RunBeginControl DEF RunInv, StepInv, SessionInv, RunTypeOK, TypeOK, HeldInv,
     FirstInv, SendInstruction, Looping, BeginControl
<1>6. HeldInv'
  BY RunBeginControl DEF RunInv, HeldInv, SessionInv, RunTypeOK, TypeOK, StepInv,
     FirstInv, SendInstruction, Looping, BeginControl
<1>7. FirstInv'
  BY RunBeginControl DEF RunInv, FirstInv, SessionInv, RunTypeOK, TypeOK, StepInv,
     HeldInv, SendInstruction, Looping, BeginControl
<1> QED BY <1>1, <1>2, <1>3, <1>4, <1>5, <1>6, <1>7 DEF RunInv

\* An instruction is written.
LEMMA InstructionSentKeeps ==
  ASSUME RunInv, InstructionSent
  PROVE  RunInv'
<1>1. SessionInv'
  BY WriteControlStep DEF RunInv, StepInv, InstructionSent
<1>2. InboxOK' /\ IsInjective(inbox)'
  BY InboxKept DEF RunInv, RunTypeOK, InstructionSent, WriteControl
<1>3. RunFlagsOK'
  BY Zenon DEF RunInv, RunTypeOK, RunFlagsOK, InstructionSent, WriteControl
<1>4. RunTypeOK'
  BY <1>1, <1>2, <1>3, EnvironmentFacts DEF RunInv, RunTypeOK, SessionInv, TypeOK,
     InstructionSent, WriteControl
<1>5. StepInv'
  BY RunWriteControl DEF RunInv, StepInv, SessionInv, RunTypeOK, TypeOK, HeldInv,
     FirstInv, InstructionSent, WriteControl
<1>6. HeldInv'
  BY RunWriteControl DEF RunInv, HeldInv, SessionInv, RunTypeOK, TypeOK, StepInv,
     FirstInv, InstructionSent, WriteControl
<1>7. FirstInv'
  BY RunWriteControl DEF RunInv, FirstInv, SessionInv, RunTypeOK, TypeOK, StepInv,
     HeldInv, InstructionSent, WriteControl
<1> QED BY <1>1, <1>2, <1>3, <1>4, <1>5, <1>6, <1>7 DEF RunInv

\* The loop learns what became of an instruction.
LEMMA LoopResultKeeps ==
  ASSUME RunInv, LoopResult
  PROVE  RunInv'
<1>1. SessionInv'
  BY StutterStep DEF RunInv, LoopResult, Looping, LoopFails
<1>2. InboxOK' /\ IsInjective(inbox)'
  BY InboxKept DEF RunInv, RunTypeOK, LoopResult, Looping, LoopFails
<1>3. RunFlagsOK'
  BY Zenon DEF RunInv, RunTypeOK, RunFlagsOK, LoopResult, Looping, LoopFails
<1>4. RunTypeOK'
  <2>1. /\ instr' = "idle" /\ driver' \in {driver, "stopping"}
        /\ UNCHANGED <<env, run, unsent, raw, watcher, signalled, session, forwarder,
           keyboard, pending>>
    BY DEF LoopResult, LoopFails
  <2> QED BY <1>1, <1>2, <1>3, <2>1 DEF RunInv, RunTypeOK, SessionInv
<1>5. StepInv'
  BY DEF RunInv, StepInv, LoopResult, Looping, LoopFails
<1>6. HeldInv'
  BY DEF RunInv, HeldInv, LoopResult, Looping, LoopFails
<1>7. FirstInv'
  BY DEF RunInv, FirstInv, LoopResult, Looping, LoopFails
<1> QED BY <1>1, <1>2, <1>3, <1>4, <1>5, <1>6, <1>7 DEF RunInv

\* Commands are stopped.
LEMMA LoopStopCommandsKeeps ==
  ASSUME RunInv, LoopStopCommands
  PROVE  RunInv'
<1>1. SessionInv'
  BY StutterStep DEF RunInv, LoopStopCommands, Looping
<1>2. InboxOK' /\ IsInjective(inbox)'
  BY InboxKept DEF RunInv, RunTypeOK, LoopStopCommands, Looping
<1>3. RunFlagsOK'
  BY Zenon DEF RunInv, RunTypeOK, RunFlagsOK, LoopStopCommands, Looping
<1>4. RunTypeOK'
  BY <1>1, <1>2, <1>3, EnvironmentFacts DEF RunInv, RunTypeOK, SessionInv, TypeOK,
     LoopStopCommands, Looping
<1>5. StepInv'
  BY DEF RunInv, StepInv, LoopStopCommands, Looping
<1>6. HeldInv'
  BY DEF RunInv, HeldInv, LoopStopCommands, Looping
<1>7. FirstInv'
  BY DEF RunInv, FirstInv, LoopStopCommands, Looping
<1> QED BY <1>1, <1>2, <1>3, <1>4, <1>5, <1>6, <1>7 DEF RunInv

\* The loop ends with the output.
LEMMA LoopFinishesKeeps ==
  ASSUME RunInv, LoopFinishes
  PROVE  RunInv'
<1>1. SessionInv'
  BY StutterStep DEF RunInv, LoopFinishes, Looping, Completed
<1>2. InboxOK' /\ IsInjective(inbox)'
  BY InboxKept DEF RunInv, RunTypeOK, LoopFinishes, Looping, Completed
<1>3. RunFlagsOK'
  BY Zenon DEF RunInv, RunTypeOK, RunFlagsOK, LoopFinishes, Looping, Completed
<1>4. RunTypeOK'
  BY <1>1, <1>2, <1>3 DEF RunInv, RunTypeOK, SessionInv, LoopFinishes, Looping, Completed
<1>5. StepInv'
  BY DEF RunInv, StepInv, LoopFinishes, Looping, Completed
<1>6. HeldInv'
  BY DEF RunInv, HeldInv, LoopFinishes, Looping, Completed
<1>7. FirstInv'
  BY DEF RunInv, FirstInv, LoopFinishes, Looping, Completed
<1> QED BY <1>1, <1>2, <1>3, <1>4, <1>5, <1>6, <1>7 DEF RunInv

\* The terminal is restored.
LEMMA DriverStopsKeeps ==
  ASSUME RunInv, DriverStops
  PROVE  RunInv'
<1>1. SessionInv'
  BY StutterStep DEF RunInv, DriverStops
<1>2. InboxOK' /\ IsInjective(inbox)'
  BY InboxKept, Published DEF RunInv, RunTypeOK, DriverStops
<1>3. RunFlagsOK'
  BY Zenon DEF RunInv, RunTypeOK, RunFlagsOK, DriverStops
<1>4. RunTypeOK'
  BY <1>1, <1>2, <1>3, EnvironmentFacts DEF RunInv, RunTypeOK, SessionInv, TypeOK,
     DriverStops
<1>5. StepInv'
  BY DEF RunInv, StepInv, DriverStops
<1>6. HeldInv'
  BY DEF RunInv, HeldInv, DriverStops
<1>7. FirstInv'
  BY DEF RunInv, FirstInv, DriverStops
<1> QED BY <1>1, <1>2, <1>3, <1>4, <1>5, <1>6, <1>7 DEF RunInv


\* Run calls Launch and Wait.
LEMMA ClientStepKeeps ==
  ASSUME RunInv, ClientStep
  PROVE  RunInv'
<1> USE DEF ClientStep
<1>1. SessionInv'
  BY StartProcessStep, AwaitReadyStep, SendStartStep, AwaitAcceptedStep, CommitStep,
     StopBeforeStartStep, CloseCancellationStep, AbortReapedStep, ReapLimitStep,
     ReapedStep, TeardownStep, BeginWaitStep, Zenon DEF RunInv, ParentStep
<1>2. UNCHANGED <<main, report, held, watcher, driver, forwarder, phase, first>>
  OBVIOUS
<1>3. StepInv' /\ HeldInv' /\ FirstInv' /\ env' = env
  <2>1. CASE ParentStep
    BY <1>2, <2>1, RunStartProcess, RunAwaitReady, RunSendStart, RunAwaitAccepted, RunCommit,
       RunStopBeforeStart, RunCloseCancellation, RunAbortReaped, RunReapLimit, RunReaped,
       RunTeardown, Zenon DEF ParentStep
  <2>2. CASE main = "wait" /\ BeginWait
    BY <1>2, <2>2, RunBeginWait
  <2> QED BY <2>1, <2>2
<1> QED BY <1>1, <1>3, SessionKeepsTypes DEF RunInv

\* The supervisor takes a step of its own.
LEMMA SupervisorStepKeeps ==
  ASSUME RunInv, SupervisorStep
  PROVE  RunInv'
<1> USE DEF SupervisorStep, MainStep
<1>1. SessionInv'
  BY SendReadyStep, ReadStartStep, SendAcceptedStep, WaitForCommitStep, FreezeStep,
     SendFinalStep, ReadCancellationStep, ReadControlsStep, TakeControlStep, SendEventStep,
     WorkReturnsStep, SupervisorDiesStep, Zenon DEF RunInv
<1>2. UNCHANGED <<main, report, held, watcher, driver, forwarder, phase, first>>
  OBVIOUS
<1>3. StepInv' /\ HeldInv' /\ FirstInv' /\ env' = env
  BY <1>2, RunSendReady, RunReadStart, RunSendAccepted, RunWaitForCommit, RunFreeze,
     RunSendFinal, RunReadCancellation, RunReadControls, RunTakeControl, RunSendEvent,
     RunWorkReturns, RunSupervisorDies, Zenon
<1> QED BY <1>1, <1>3, SessionKeepsTypes DEF RunInv

-----------------------------------------------------------------------------
(* The specification                                                       *)

\* A run begins with its watcher and nothing else.
LEMMA RunInitInv ==
  ASSUME RunInit
  PROVE  RunInv
<1>1. SessionInv
  BY InitInv DEF RunInit
<1>2. InboxOK /\ IsInjective(inbox)
  <2>1. inbox = << >> /\ inbox \in Seq(Requests) /\ IsInjective(<< >>)
    BY DEF RunInit, IsInjective
  <2> QED BY <2>1, InboxBounded DEF InboxOK
<1>3. RunFlagsOK
  BY Zenon DEF RunInit, RunFlagsOK
<1>4. RunTypeOK
  <2>1. 0 \in 0..MaxPending
    BY RunConstantsAssumption
  <2> QED BY <1>1, <1>2, <1>3, <2>1 DEF RunInit, RunTypeOK, SessionInv
<1>5. StepInv /\ HeldInv
  BY DEF RunInit, InitWith, StepInv, HeldInv
<1>6. FirstInv
  BY EmptyPipes DEF RunInit, InitWith, FirstInv
<1> QED BY <1>1, <1>2, <1>4, <1>5, <1>6 DEF RunInv

\* A step that changes nothing.
LEMMA NothingKeeps ==
  ASSUME RunInv, UNCHANGED runVars
  PROVE  RunInv'
<1>1. SessionInv'
  BY StutterStep DEF RunInv, runVars
<1>2. RunTypeOK' /\ IsInjective(inbox)'
  BY <1>1, SessionKeepsTypes DEF runVars
<1>3. StepInv' /\ HeldInv' /\ FirstInv'
  BY DEF RunInv, StepInv, HeldInv, FirstInv, runVars
<1> QED BY <1>1, <1>2, <1>3 DEF RunInv

\* Every step of every actor keeps the invariant.
LEMMA RunNextKeeps ==
  ASSUME RunInv, [RunNext]_runVars
  PROVE  RunInv'
<1>1. CASE RunStep
  BY <1>1, PrepareDisplayKeeps, OpenSourceKeeps, OpenLogsKeeps, LaunchedKeeps,
     ReleasePreparationKeeps, FinishPreparationKeeps, AcceptRequestKeeps,
     AcceptCallerKeeps, DriverFailedKeeps, AcceptCompletionKeeps, JoinDriverKeeps,
     CloseSessionKeeps, ReturnResultKeeps, Zenon DEF RunStep
<1>2. CASE ClientStep \/ SupervisorStep
  BY <1>2, ClientStepKeeps, SupervisorStepKeeps
<1>3. CASE WatcherStep
  BY <1>3, TakeSignalKeeps, CancelPreparationKeeps DEF WatcherStep
<1>4. CASE ForwarderStep
  BY <1>4, ForwardReadKeeps, ForwardFailsKeeps, ForwardShowKeeps DEF ForwarderStep
<1>5. CASE PlainDone \/ LoopInput \/ LoopResize \/ SendInstruction \/ InstructionSent
  BY <1>5, PlainDoneKeeps, LoopInputKeeps, LoopResizeKeeps, SendInstructionKeeps,
     InstructionSentKeeps, Zenon
<1>6. CASE LoopResult \/ LoopStopCommands \/ LoopFinishes \/ DriverStops
  BY <1>6, LoopResultKeeps, LoopStopCommandsKeeps, LoopFinishesKeeps, DriverStopsKeeps, Zenon
<1>7. CASE SignalArrives \/ CallerCancels \/ Type
  BY <1>7, SignalArrivesKeeps, CallerCancelsKeeps, TypeKeeps, Zenon
<1>8. CASE UNCHANGED runVars
  BY <1>8, NothingKeeps
<1> QED BY <1>1, <1>2, <1>3, <1>4, <1>5, <1>6, <1>7, <1>8, Zenon DEF RunNext

\* The invariant: what is held, running and known at each step of Run.
THEOREM RunInvariant == RunSpec => []RunInv
<1>1. RunInit => RunInv
  BY RunInitInv, Zenon
<1>2. RunInv /\ [RunNext]_runVars => RunInv'
  BY RunNextKeeps, Zenon
<1> QED BY <1>1, <1>2, PTL DEF RunSpec

\* When Run returns, with or without a session, nothing is left of it: display,
\* logs, watcher, source, pipes and the supervisor itself are released.
THEOREM RunReleasesAll == RunSpec => []AllReleased
<1>1. RunInv => AllReleased
  <2> SUFFICES ASSUME RunInv, main = "returned"
               PROVE  /\ held = {} /\ source = {}
                      /\ ~Alive /\ ~lifeline /\ ~writable
                      /\ watcher = "gone"
                      /\ driver \in {"off", "done"} /\ writer = "idle"
    BY DEF AllReleased
  <2>1. held = {} /\ watcher = "gone" /\ driver \in {"off", "done"}
    BY DEF RunInv, StepInv, HeldInv
  <2>2. ~Alive /\ ~lifeline /\ ~writable /\ writer = "idle"
    BY DEF RunInv, StepInv, SessionInv, StartInv, HoldingInv
  <2>3. source = {}
    BY <2>2 DEF RunInv, HeldInv, SessionInv, TypeOK, HoldingInv
  <2> QED BY <2>1, <2>2, <2>3
<1> QED BY <1>1, RunInvariant, PTL

\* A run that is reported as cancelled before its session never ran its work,
\* and the logs are open as long as the forwarder writes to them.
THEOREM RunStaysClean == RunSpec => []RunIsClean
<1>1. RunInv => RunIsClean
  BY DEF RunInv, StepInv, HeldInv, RunIsClean, CancelledUnstarted, LogsOutliveForwarder,
         RunTypeOK
<1> QED BY <1>1, RunInvariant, PTL

\* The final names the request that was accepted first, or an internal failure.
THEOREM FirstReasonIsFinal == RunSpec => []FirstReasonWins
<1>1. RunInv => FirstReasonWins
  BY DEF RunInv, FirstInv, FirstReasonWins
<1> QED BY <1>1, RunInvariant, PTL

\* A session that returns has the final of its supervisor, unless a process
\* died, a call failed or a limit expired.
THEOREM FinalIsReturned == RunSpec => []FinalReachesResult
<1>1. RunInv => FinalReachesResult
  BY DEF RunInv, HeldInv, SessionInv, TypeOK, DeliveryInv, FinalReachesResult
<1> QED BY <1>1, RunInvariant, PTL
=============================================================================
