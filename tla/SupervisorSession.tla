------------------------- MODULE SupervisorSession -------------------------
(***************************************************************************)
(* internal/runsupervisor: one supervised run, seen from both processes.   *)
(*                                                                         *)
(* The parent starts its own executable as the init of a PID namespace and *)
(* hands it a source directory in a three-way handshake (ready, start,     *)
(* accepted, commit).  Three pipes join them: control (start, commit, then *)
(* inputs and resizes), cancellation (at most one cancel frame; its end of *)
(* file is the lifeline) and events (ready, accepted, outputs, final).     *)
(*                                                                         *)
(* Actors: the parent goroutine in Launch or Wait, its control writer and  *)
(* its event reader; the supervisor's main goroutine, its cancellation     *)
(* reader and its control reader.  Either process may be killed.           *)
(***************************************************************************)
EXTENDS Naturals, Sequences, FiniteSets, SequencesExt

CONSTANTS
  Reasons,       \* cancel reasons the parent may send (CancelReason)
  ControlSlots,  \* control frames the control pipe holds
  QueueSlots,    \* controls the supervisor queues (maximumPendingControls)
  EventSlots,    \* event frames the event pipe holds
  Environments   \* whether a process may be killed from outside (deaths) and
                 \* a system call of the program may fail (faults)

ASSUME ConstantsAssumption ==
  /\ Reasons \subseteq {"user", "terminate", "hangup", "internal"}
  /\ ControlSlots \in Nat \ {0}
  /\ QueueSlots \in Nat \ {0}
  /\ EventSlots \in Nat \ {0}
  /\ \A e \in Environments : e.deaths \in BOOLEAN /\ e.faults \in BOOLEAN

VARIABLES
  launch,    \* step of the parent goroutine that calls Launch and Wait
  outcome,   \* what Launch reports: a client, its context's cause, a failure
  ctx,       \* the launch context is done
  sender,    \* controlSender.state
  lifeline,  \* the parent holds the write end of the cancellation pipe
  writable,  \* the parent holds the write end of the control pipe
  wake,      \* the eventfd that interrupts a blocked control write is set
  writer,    \* the goroutine that writes inputs and resizes
  receiver,  \* eventReceiver: reading, final delivered, or failed
  final,     \* cancel reason of the delivered final
  control,   \* frames in the control pipe
  cancel,    \* frames in the cancellation pipe
  events,    \* frames in the event pipe
  process,   \* the supervisor process
  sup,       \* step of the supervisor's main goroutine
  canceller, \* the goroutine in readCancellation
  controls,  \* the goroutine in readControls
  queue,     \* length of the controls channel
  reason,    \* sessionCancellation.reason
  cancelled, \* the work context is done
  own,       \* reason that the work itself reports
  source,    \* the processes that hold the source directory open
  committed, \* history: the commit frame was written
  ran,       \* history: work was called
  causes,    \* history: what may make a final report a cancellation
  mishap,    \* history: a death, a fault or an expired limit happened
  env        \* the environment of this behaviour

parent  == <<launch, outcome, ctx, sender, lifeline, writable, wake, writer,
             receiver, final>>
pipes   == <<control, cancel, events>>
super   == <<process, sup, canceller, controls, queue, reason, cancelled, own>>
history == <<committed, ran, causes, mishap, env>>
vars    == <<parent, pipes, super, source, history>>

AllReasons == {"none", "user", "terminate", "hangup", "lifeline", "internal"}

Frame(kind) == [kind |-> kind, reason |-> "none"]
Final(r)    == [kind |-> "final", reason |-> r]
EventFrames == {Frame(k) : k \in {"ready", "accepted", "output"}}
               \cup {Final(r) : r \in AllReasons}

PipesOK ==
  /\ control \in Seq({"start", "commit", "control"})
  /\ Len(control) <= ControlSlots
  /\ cancel \in Seq(AllReasons) /\ Len(cancel) <= 1
  /\ events \in Seq(EventFrames) /\ Len(events) <= EventSlots

FlagsOK ==
  /\ ctx \in BOOLEAN /\ lifeline \in BOOLEAN /\ writable \in BOOLEAN
  /\ wake \in BOOLEAN /\ cancelled \in BOOLEAN
  /\ committed \in BOOLEAN /\ ran \in BOOLEAN /\ mishap \in BOOLEAN

TypeOK ==
  /\ PipesOK
  /\ FlagsOK
  /\ launch \in {"start", "awaitReady", "sendStart", "awaitAccepted", "commit",
                 "stop", "abort", "abortWait", "client", "reap", "teardown",
                 "returned", "dead"}
  /\ outcome \in {"none", "client", "cancelled", "failed"}
  /\ sender \in {"open", "cancelling", "stopped", "closed"}
  /\ writer \in {"idle", "writing"}
  /\ receiver \in {"reading", "final", "error"}
  /\ final \in AllReasons
  /\ process \in {"none", "alive", "exited", "killed"}
  /\ sup \in {"boot", "readStart", "accept", "awaitCommit", "work", "finish",
              "sendFinal", "gone"}
  /\ canceller \in {"off", "reading", "done"}
  /\ controls \in {"off", "reading", "holding", "done"}
  /\ queue \in 0..QueueSlots
  /\ reason \in AllReasons
  /\ own \in {"none", "internal"}
  /\ source \subseteq {"parent", "supervisor"}
  /\ causes \subseteq AllReasons \ {"none"}
  /\ env \in Environments

InitWith(holders) ==
  /\ launch = "start" /\ outcome = "none" /\ ctx = FALSE
  /\ sender = "open" /\ lifeline = FALSE /\ writable = FALSE /\ wake = FALSE
  /\ writer = "idle" /\ receiver = "reading" /\ final = "none"
  /\ control = <<>> /\ cancel = <<>> /\ events = <<>>
  /\ process = "none" /\ sup = "gone"
  /\ canceller = "off" /\ controls = "off" /\ queue = 0
  /\ reason = "none" /\ cancelled = FALSE /\ own = "none"
  /\ source = holders
  /\ committed = FALSE /\ ran = FALSE /\ causes = {} /\ mishap = FALSE
  /\ env \in Environments

\* Launch has taken its source capability; nothing is started yet.
Init == InitWith({"parent"})

-----------------------------------------------------------------------------
(***************************************************************************)
(* Processes and pipes, external to the program.                           *)
(***************************************************************************)

Alive == process = "alive"

\* The supervisor process ends: the kernel closes its descriptors.  What it
\* wrote to the event pipe stays readable.
ProcessEnds(how) ==
  /\ process'   = how
  /\ sup'       = "gone"
  /\ canceller' = "off"
  /\ controls'  = "off"
  /\ queue'     = 0
  /\ reason'    = "none"
  /\ cancelled' = FALSE
  /\ own'       = "none"
  /\ control'   = <<>>
  /\ cancel'    = <<>>
  /\ source'    = source \ {"supervisor"}

EventsAtEOF   == events = <<>> /\ ~Alive
ControlAtEOF  == control = <<>> /\ ~writable
LifelineAtEOF == cancel = <<>> /\ ~lifeline

-----------------------------------------------------------------------------
(***************************************************************************)
(* Launch: startClientLaunch and clientLaunch.finish.                      *)
(***************************************************************************)

StartProcess ==
  /\ launch = "start"
  /\ \/ /\ process' = "alive"
        /\ sup' = "boot"
        /\ lifeline' = TRUE /\ writable' = TRUE
        /\ source' = {"parent", "supervisor"}
        /\ launch' = "awaitReady"
        /\ UNCHANGED <<outcome, mishap>>
     \/ /\ env.faults
        /\ mishap' = TRUE
        /\ source' = {}
        /\ outcome' = "failed"
        /\ launch' = "returned"
        /\ UNCHANGED <<process, sup, lifeline, writable>>
  /\ UNCHANGED <<ctx, sender, wake, writer, receiver, final, pipes, canceller,
                 controls, queue, reason, cancelled, own, committed, env, ran,
                 causes>>

\* Where Launch goes on after frame kind arrived, the event pipe reached its
\* end, or its context ended: forward, or to the way out with what it reports.
Handshake(here, kind, forward, back) ==
  /\ launch = here
  /\ \/ /\ events # <<>>
        /\ Head(events).kind = kind
        /\ events' = Tail(events)
        /\ launch' = IF ctx THEN back ELSE forward
        /\ outcome' = IF ctx THEN "cancelled" ELSE outcome
     \/ /\ EventsAtEOF
        /\ launch' = back
        /\ outcome' = "failed"
        /\ UNCHANGED events
     \/ /\ ctx
        /\ launch' = back
        /\ outcome' = "cancelled"
        /\ UNCHANGED events
  /\ UNCHANGED <<ctx, sender, lifeline, writable, wake, writer, receiver,
                 final, control, cancel, super, source, history>>

AwaitReady    == Handshake("awaitReady", "ready", "sendStart", "stop")
AwaitAccepted == Handshake("awaitAccepted", "accepted", "commit", "abort")

\* writeLaunchStartFrame: a request that fills the pipe is interrupted by the
\* end of the context.
SendStart ==
  /\ launch = "sendStart"
  /\ \/ /\ Alive
        /\ control' = Append(control, "start")
        /\ launch' = "awaitAccepted"
        /\ UNCHANGED outcome
     \/ /\ ctx \/ ~Alive
        /\ launch' = "stop"
        /\ outcome' = IF ctx THEN "cancelled" ELSE "failed"
        /\ UNCHANGED control
  /\ UNCHANGED <<ctx, sender, lifeline, writable, wake, writer, receiver,
                 final, cancel, events, super, source, history>>

\* stopBeforeStart and stoppedLaunch: the supervisor is killed; one that had
\* already exited is a failure of its own.
StopBeforeStart ==
  /\ launch = "stop"
  /\ outcome' = IF Alive THEN outcome ELSE "failed"
  /\ launch' = "returned"
  /\ process' = IF Alive THEN "killed" ELSE process
  /\ sup' = "gone"
  /\ control' = <<>>
  /\ events' = <<>>
  /\ lifeline' = FALSE /\ writable' = FALSE
  /\ source' = {}
  /\ UNCHANGED <<ctx, sender, wake, writer, receiver, final, cancel,
                 canceller, controls, queue, reason, cancelled, own, history>>

\* abortSourceHandoff, first half: the supervisor is told by end of file.
CloseCancellation ==
  /\ launch = "abort"
  /\ lifeline' = FALSE
  /\ launch' = "abortWait"
  /\ causes' = causes \cup {"lifeline"}
  /\ UNCHANGED <<outcome, ctx, sender, writable, wake, writer, receiver, final,
                 pipes, super, source, committed, env, ran, mishap>>

\* preCommitFinalError: after the acceptance, if that is still unread, the
\* event pipe holds a final that reports a cancellation and no error.  A
\* final with reason internal carries its diagnostic.
PreCommitFinal ==
  \E i \in 1..Len(events) :
    /\ events[i].kind = "final"
    /\ events[i].reason \notin {"none", "internal"}

\* abortSourceHandoff, second half: the process is reaped, or killed after
\* supervisorReapLimit.
AbortReaped ==
  /\ launch = "abortWait"
  /\ ~Alive
  /\ outcome' = IF process = "exited" /\ PreCommitFinal THEN outcome ELSE "failed"
  /\ launch' = "returned"
  /\ writable' = FALSE
  /\ events' = <<>>
  /\ source' = source \ {"parent"}
  /\ UNCHANGED <<ctx, sender, lifeline, wake, writer, receiver, final, control,
                 cancel, super, history>>

\* supervisorProcess.waitForExit: its limit expires.
ReapLimit ==
  /\ launch \in {"abortWait", "reap"}
  /\ Alive
  /\ ProcessEnds("killed")
  /\ mishap' = TRUE
  /\ UNCHANGED <<parent, events, committed, env, ran, causes>>

\* The commit frame; takeClient; the parent's copy of the source is closed.
Commit ==
  /\ launch = "commit"
  /\ \/ /\ Alive
        /\ control' = Append(control, "commit")
        /\ committed' = TRUE
        /\ outcome' = "client"
        /\ launch' = "client"
        /\ source' = source \ {"parent"}
        /\ UNCHANGED <<sender, lifeline, wake, cancel, causes, mishap>>
     \/ \* the close fails: Cancel(CancelInternal), CloseLifeline, Wait
        /\ Alive
        /\ env.faults
        /\ control' = Append(control, "commit")
        /\ committed' = TRUE
        /\ outcome' = "failed"
        /\ launch' = "reap"
        /\ source' = source \ {"parent"}
        /\ sender' = "stopped"
        /\ wake' = TRUE
        /\ lifeline' = FALSE
        /\ cancel' = Append(cancel, "internal")
        /\ causes' = causes \cup {"internal"}
        /\ mishap' = TRUE
     \/ /\ ~Alive
        /\ outcome' = "failed"
        /\ launch' = "abort"
        /\ UNCHANGED <<sender, lifeline, wake, control, cancel, source,
                       committed, causes, mishap>>
  /\ UNCHANGED <<ctx, writable, writer, receiver, final, events, super, ran,
                 env>>

-----------------------------------------------------------------------------
(***************************************************************************)
(* RunSupervisorClient: controlSender, eventReceiver and Wait.             *)
(***************************************************************************)

\* controlSender.stop: it also wakes a blocked control write.
StoppedSender == IF sender = "closed" THEN "closed" ELSE "stopped"

\* Mutant: cancel does not wake a blocked control write.
CancelSilently(r) ==
  /\ launch = "client"
  /\ sender = "open"
  /\ sender' = "cancelling"
  /\ IF Alive
       THEN /\ cancel' = Append(cancel, r)
            /\ causes' = causes \cup {r}
       ELSE UNCHANGED <<cancel, causes>>
  /\ UNCHANGED <<launch, outcome, ctx, lifeline, writable, wake, writer,
                 receiver, final, control, events, super, source, committed, env,
                 ran, mishap>>

\* controlSender.cancel: only the first reason is written; a supervisor that
\* is gone makes the write fail.
Cancel(r) ==
  /\ launch = "client"
  /\ sender = "open"
  /\ sender' = "cancelling"
  /\ wake' = TRUE
  /\ IF Alive
       THEN /\ cancel' = Append(cancel, r)
            /\ causes' = causes \cup {r}
       ELSE UNCHANGED <<cancel, causes>>
  /\ UNCHANGED <<launch, outcome, ctx, lifeline, writable, writer, receiver,
                 final, control, events, super, source, committed, env, ran, mishap>>

\* Mutant: the control pipe is closed together with the lifeline.
CloseLifelineAndControl ==
  /\ launch = "client"
  /\ lifeline
  /\ lifeline' = FALSE /\ writable' = FALSE
  /\ sender' = StoppedSender
  /\ wake' = TRUE
  /\ causes' = causes \cup {"lifeline"}
  /\ UNCHANGED <<launch, outcome, ctx, writer, receiver, final, pipes, super,
                 source, committed, env, ran, mishap>>

\* controlSender.closeLifeline
CloseLifeline ==
  /\ launch = "client"
  /\ lifeline
  /\ lifeline' = FALSE
  /\ sender' = StoppedSender
  /\ wake' = TRUE
  /\ causes' = causes \cup {"lifeline"}
  /\ UNCHANGED <<launch, outcome, ctx, writable, writer, receiver, final,
                 pipes, super, source, committed, env, ran, mishap>>

\* writeInput and sendFrame: sendMu is taken and the state is seen open.
BeginControl ==
  /\ launch = "client"
  /\ writer = "idle"
  /\ sender = "open"
  /\ writer' = "writing"
  /\ UNCHANGED <<launch, outcome, ctx, sender, lifeline, writable, wake,
                 receiver, final, pipes, super, source, history>>

\* writeAtomicControlFile: the whole frame, or nothing when the supervisor is
\* gone or the wake-up comes while the pipe is full.
WriteControl ==
  /\ writer = "writing"
  /\ \/ /\ Alive /\ Len(control) < ControlSlots
        /\ control' = Append(control, "control")
     \/ /\ ~Alive \/ (Len(control) = ControlSlots /\ wake)
        /\ UNCHANGED control
  /\ writer' = "idle"
  /\ UNCHANGED <<launch, outcome, ctx, sender, lifeline, writable, wake,
                 receiver, final, cancel, events, super, source, history>>

\* eventReceiver.next: the final stops the controls; nothing is read after it.
ReadEvent ==
  /\ launch = "client"
  /\ receiver = "reading"
  /\ \/ /\ events # <<>>
        /\ events' = Tail(events)
        /\ IF Head(events).kind = "final"
             THEN /\ receiver' = "final"
                  /\ final' = Head(events).reason
                  /\ sender' = StoppedSender
                  /\ wake' = TRUE
             ELSE UNCHANGED <<receiver, final, sender, wake>>
     \/ /\ EventsAtEOF
        /\ receiver' = "error"
        /\ UNCHANGED <<events, final, sender, wake>>
  /\ UNCHANGED <<launch, outcome, ctx, lifeline, writable, writer, control,
                 cancel, super, source, history>>

\* Wait: its callers close the lifeline first.
BeginWait ==
  /\ launch = "client"
  /\ ~lifeline
  /\ sender' = StoppedSender
  /\ wake' = TRUE
  /\ launch' = "reap"
  /\ UNCHANGED <<outcome, ctx, lifeline, writable, writer, receiver, final,
                 pipes, super, source, history>>

\* Mutant: Wait goes on without its process.
ReapedAnyway ==
  /\ launch = "reap"
  /\ launch' = "teardown"
  /\ UNCHANGED <<outcome, ctx, sender, lifeline, writable, wake, writer,
                 receiver, final, pipes, super, source, history>>

Reaped ==
  /\ launch = "reap"
  /\ ~Alive
  /\ launch' = "teardown"
  /\ UNCHANGED <<outcome, ctx, sender, lifeline, writable, wake, writer,
                 receiver, final, pipes, super, source, history>>

\* controlSender.teardown waits for the writer (sendMu); events.close
Teardown ==
  /\ launch = "teardown"
  /\ writer = "idle"
  /\ sender' = "closed"
  /\ writable' = FALSE
  /\ events' = <<>>
  /\ launch' = "returned"
  /\ UNCHANGED <<outcome, ctx, lifeline, wake, writer, receiver, final,
                 control, cancel, super, source, history>>

-----------------------------------------------------------------------------
(***************************************************************************)
(* The supervisor: serve and its goroutines.                               *)
(***************************************************************************)

\* sessionCancellation.record: an internal failure replaces every reason, any
\* reason replaces the lifeline.
Precedence(old, new) ==
  IF old = "none" \/ new = "internal" \/ (old = "lifeline" /\ new # "lifeline")
    THEN new ELSE old

\* freeze makes later records without effect: the final is being sent.
Record(r) ==
  IF sup = "sendFinal"
    THEN UNCHANGED <<reason, cancelled>>
    ELSE /\ reason' = Precedence(reason, r)
         /\ cancelled' = TRUE

\* eventPipeSender.send of a handshake frame; a closed pipe ends the session.
SendHandshake(here, kind, next) ==
  /\ Alive
  /\ sup = here
  /\ \/ /\ launch # "dead"
        /\ Len(events) < EventSlots
        /\ events' = Append(events, Frame(kind))
        /\ sup' = next
        /\ canceller' = IF kind = "accepted" THEN "reading" ELSE canceller
        /\ UNCHANGED <<process, controls, queue, reason, cancelled, own,
                       control, cancel, source, mishap>>
     \/ /\ launch = "dead"
        /\ ProcessEnds("exited")
        /\ UNCHANGED <<events, mishap>>
     \/ /\ env.faults
        /\ ProcessEnds("exited")
        /\ mishap' = TRUE
        /\ UNCHANGED events
  /\ UNCHANGED <<parent, committed, env, ran, causes>>

SendReady    == SendHandshake("boot", "ready", "readStart")
SendAccepted == SendHandshake("accept", "accepted", "awaitCommit")

ReadStart ==
  /\ Alive
  /\ sup = "readStart"
  /\ \/ /\ control # <<>>
        /\ control' = Tail(control)
        /\ sup' = "accept"
        /\ UNCHANGED <<process, canceller, controls, queue, reason, cancelled,
                       own, cancel, source>>
     \/ /\ ControlAtEOF
        /\ ProcessEnds("exited")
  /\ UNCHANGED <<parent, events, history>>

\* Mutant: the end of the lifeline is not a cancellation.
ReadFrameOnly ==
  /\ Alive
  /\ canceller = "reading"
  /\ canceller' = "done"
  /\ \/ /\ cancel # <<>>
        /\ cancel' = Tail(cancel)
        /\ Record(Head(cancel))
     \/ /\ LifelineAtEOF
        /\ UNCHANGED <<cancel, reason, cancelled>>
  /\ UNCHANGED <<parent, control, events, process, sup, controls, queue, own,
                 source, history>>

\* readCancellation: one frame, or the end of the lifeline
ReadCancellation ==
  /\ Alive
  /\ canceller = "reading"
  /\ canceller' = "done"
  /\ \/ /\ cancel # <<>>
        /\ cancel' = Tail(cancel)
        /\ Record(Head(cancel))
     \/ /\ LifelineAtEOF
        /\ Record("lifeline")
        /\ UNCHANGED cancel
  /\ UNCHANGED <<parent, control, events, process, sup, controls, queue, own,
                 source, history>>

\* Mutant: the work starts with the acceptance.
NoCommit ==
  /\ Alive
  /\ sup = "awaitCommit"
  /\ sup' = "work"
  /\ ran' = TRUE
  /\ controls' = "reading"
  /\ UNCHANGED <<parent, pipes, process, canceller, queue, reason, cancelled,
                 own, source, committed, env, causes, mishap>>

\* waitForCommit: a select, so that an available commit may win over a
\* cancellation, or lose to it.
WaitForCommit ==
  /\ Alive
  /\ sup = "awaitCommit"
  /\ \/ /\ control # <<>>
        /\ control' = Tail(control)
        /\ sup' = "work"
        /\ ran' = TRUE
        /\ controls' = "reading"
        /\ UNCHANGED <<reason, cancelled>>
     \/ /\ ControlAtEOF
        /\ Record("internal")
        /\ sup' = "finish"
        /\ UNCHANGED <<control, controls, ran>>
     \/ /\ cancelled
        /\ sup' = "finish"
        /\ UNCHANGED <<control, controls, ran, reason, cancelled>>
  /\ UNCHANGED <<parent, cancel, events, process, canceller, queue, own,
                 source, committed, env, causes, mishap>>

\* readControls: the reader stops with the work context once the queue is full.
ReadControls ==
  /\ Alive
  /\ \/ /\ controls = "reading"
        /\ control # <<>>
        /\ control' = Tail(control)
        /\ controls' = "holding"
        /\ UNCHANGED <<queue, reason, cancelled>>
     \/ /\ controls = "reading"
        /\ ControlAtEOF
        /\ controls' = "done"
        /\ Record("internal")
        /\ UNCHANGED <<control, queue>>
     \/ /\ controls = "holding"
        /\ \/ queue < QueueSlots /\ queue' = queue + 1 /\ controls' = "reading"
           \/ cancelled /\ controls' = "done" /\ UNCHANGED queue
        /\ UNCHANGED <<control, reason, cancelled>>
  /\ UNCHANGED <<parent, cancel, events, process, sup, canceller, own, source,
                 history>>

\* The work takes a control from its channel.
TakeControl ==
  /\ Alive
  /\ sup = "work"
  /\ queue > 0
  /\ queue' = queue - 1
  /\ UNCHANGED <<parent, pipes, process, sup, canceller, controls, reason,
                 cancelled, own, source, history>>

\* The work sends an output or a status.  A send that fails, for it waited
\* eventBackpressureLimit or the parent is gone, is an error of the work.
SendEvent ==
  /\ Alive
  /\ sup = "work"
  /\ launch # "dead"
  /\ Len(events) < EventSlots
  /\ events' = Append(events, Frame("output"))
  /\ UNCHANGED <<parent, control, cancel, super, source, history>>

\* callContainedWork returns: the work ended, failed, was cancelled, panicked
\* or left descendants behind (the last two report CancelInternal).
WorkReturns ==
  /\ Alive
  /\ sup = "work"
  /\ sup' = "finish"
  /\ own' \in {"none", "internal"}
  /\ causes' = causes \cup ({own'} \ {"none"})
  /\ UNCHANGED <<parent, pipes, process, canceller, controls, queue, reason,
                 cancelled, source, committed, env, ran, mishap>>

\* applyCancellation
AppliedReason(r) == IF r = "none" THEN own ELSE r

\* freeze; from here no record changes the final, which is being sent.
Freeze ==
  /\ Alive
  /\ sup = "finish"
  /\ sup' = "sendFinal"
  /\ own' = "none"
  /\ reason' = AppliedReason(reason)
  /\ source' = source \ {"supervisor"}
  /\ UNCHANGED <<parent, pipes, process, canceller, controls, queue,
                 cancelled, history>>

\* sendSessionFinal, then the process exits; a full event pipe may cost the
\* final, after eventBackpressureLimit.
SendFinal ==
  /\ Alive
  /\ sup = "sendFinal"
  /\ \/ /\ launch # "dead"
        /\ Len(events) < EventSlots
        /\ events' = Append(events, Final(reason))
        /\ UNCHANGED mishap
     \/ /\ launch # "dead"
        /\ Len(events) = EventSlots
        /\ mishap' = TRUE
        /\ UNCHANGED events
     \/ /\ launch = "dead"
        /\ UNCHANGED <<events, mishap>>
  /\ ProcessEnds("exited")
  /\ UNCHANGED <<parent, committed, env, ran, causes>>

-----------------------------------------------------------------------------
(***************************************************************************)
(* The environment.                                                        *)
(***************************************************************************)

\* A signal or the caller's context ends the preparation.
Interrupt ==
  /\ ~ctx
  /\ launch \notin {"client", "reap", "teardown", "returned", "dead"}
  /\ ctx' = TRUE
  /\ UNCHANGED <<launch, outcome, sender, lifeline, writable, wake, writer,
                 receiver, final, pipes, super, source, history>>

ParentDies ==
  /\ env.deaths
  /\ launch \notin {"start", "returned", "dead"}
  /\ launch' = "dead"
  /\ lifeline' = FALSE /\ writable' = FALSE
  /\ writer' = "idle"
  /\ events' = <<>>
  /\ source' = source \ {"parent"}
  /\ causes' = causes \cup {"lifeline", "internal"}
  /\ mishap' = TRUE
  /\ UNCHANGED <<outcome, ctx, sender, wake, receiver, final, control, cancel,
                 super, committed, env, ran>>

SupervisorDies ==
  /\ env.deaths
  /\ Alive
  /\ ProcessEnds("killed")
  /\ mishap' = TRUE
  /\ UNCHANGED <<parent, events, committed, env, ran, causes>>

-----------------------------------------------------------------------------
(***************************************************************************)
(* The specification.                                                      *)
(***************************************************************************)

\* Launch and Wait, which no caller can abandon
ParentStep ==
  \/ StartProcess \/ AwaitReady \/ SendStart \/ AwaitAccepted \/ Commit
  \/ StopBeforeStart \/ CloseCancellation \/ AbortReaped \/ ReapLimit
  \/ Reaped \/ Teardown

\* What runcommand's session does with its client
ClientCall ==
  \/ \E r \in Reasons : Cancel(r)
  \/ CloseLifeline \/ BeginControl \/ BeginWait

MainStep == SendReady \/ ReadStart \/ SendAccepted \/ WaitForCommit
            \/ Freeze \/ SendFinal

Next ==
  \/ ParentStep \/ ClientCall \/ WriteControl \/ ReadEvent
  \/ MainStep \/ ReadCancellation \/ ReadControls
  \/ TakeControl \/ SendEvent \/ WorkReturns
  \/ Interrupt \/ ParentDies \/ SupervisorDies

\* The parent's goroutines run, its timers expire, and a killed process dies.
\* Nothing is assumed of the supervisor, or of the caller of the client.
ParentFairness ==
  /\ WF_vars(ParentStep)
  /\ WF_vars(WriteControl)
  /\ WF_vars(ReadEvent)

Spec == Init /\ [][Next]_vars /\ ParentFairness

\* The supervisor's goroutines run, and its work returns once its context is
\* done: transfer.Run bounds every cleanup step with a context of its own.
SupervisorFairness ==
  /\ WF_vars(MainStep)
  /\ WF_vars(ReadCancellation)
  /\ WF_vars(ReadControls)
  /\ WF_vars(cancelled /\ WorkReturns)

-----------------------------------------------------------------------------
(***************************************************************************)
(* Properties.                                                             *)
(***************************************************************************)

\* When Launch has failed or Wait has returned, the supervisor is reaped, both
\* copies of the source directory are closed and so are the parent's ends of
\* the pipes.  launch.go: "On failure Launch releases whichever side still
\* owns the source."
NothingOutlivesReturn ==
  launch = "returned" =>
    /\ ~Alive
    /\ source = {}
    /\ ~lifeline /\ ~writable
    /\ writer = "idle"

\* A launch that did not get as far as its commit never runs the work, however
\* its cancellation races with the supervisor's handshake.
NoWorkWithoutCommit ==
  outcome \in {"cancelled", "failed"} /\ ~committed => ~ran

\* A launch that is cancelled reports its cause and nothing else, unless a
\* process died, a call failed or a limit expired: the supervisor acknowledges
\* the lifeline with a cancelled final and no internal error.
CancellationIsClean ==
  launch = "returned" /\ outcome = "failed" => mishap

\* A launch that is not committed leaves no trace but its cause.
LaunchIsClean == TypeOK /\ NoWorkWithoutCommit /\ CancellationIsClean

\* The reason in a delivered final is one that was given: the lifeline only
\* when it was closed without a cancel frame before, a parent's reason only
\* when the parent sent it, an internal failure only when there was one.
FinalHasCause ==
  receiver = "final" =>
    /\ final # "none" => final \in causes
    /\ final = "lifeline" => causes \cap {"user", "terminate", "hangup"} = {}

\* A cancelled launch comes back, even when the supervisor hangs.
CancelledLaunchReturns ==
  ctx /\ launch \notin {"client", "reap", "teardown"}
    ~> launch \in {"client", "returned", "dead"}

\* Wait returns, even when the supervisor hangs: it is killed in the end, and
\* no control write holds up the teardown.
WaitReturns == launch = "reap" ~> launch \in {"returned", "dead"}

\* A control write that is blocked on a full pipe ends with the session, even
\* when the supervisor never reads again: the terminal can be restored.
BlockedWriteReleased ==
  writer = "writing" /\ sender # "open" ~> writer = "idle"

\* No call of the parent hangs: Launch, Wait and control writes return.
ParentReturns == CancelledLaunchReturns /\ WaitReturns /\ BlockedWriteReleased

\* A responsive supervisor ends when it is cancelled or its parent is gone,
\* whichever step of the handshake or of the work it is in.
SupervisorFollows ==
  SupervisorFairness =>
    (launch = "dead" \/ sender = "cancelling" \/ (launch = "client" /\ ~lifeline)
       ~> ~Alive)

-----------------------------------------------------------------------------
(***************************************************************************)
(* The invariant behind the safety properties.                             *)
(***************************************************************************)

BeforeStart  == {"start", "awaitReady", "sendStart", "stop"}
Handshaking  == {"awaitReady", "sendStart", "awaitAccepted", "commit", "stop", "abort"}
AfterCommit  == {"client", "reap", "teardown", "returned", "dead"}
Unaccepted   == {"boot", "readStart", "accept"}

\* Before the first step nothing is running and nothing has been said.
StartInv ==
  launch = "start" =>
    /\ process = "none" /\ canceller = "off" /\ controls = "off"
    /\ reason = "none" /\ ~cancelled
    /\ events = <<>> /\ causes = {}

\* The ends of the pipes and the copies of the source, by the step of the parent.
HoldingInv ==
  /\ launch \notin {"client", "reap", "teardown"} => writer = "idle"
  /\ launch \in Handshaking => lifeline
  /\ launch \in {"start", "abortWait", "reap", "teardown", "returned", "dead"} => ~lifeline
  /\ writable <=> launch \notin {"start", "returned", "dead"}
  /\ "supervisor" \in source => Alive
  /\ launch \in AfterCommit => "parent" \notin source
  /\ launch \in {"teardown", "returned"} => ~Alive

\* How far the supervisor can be, by the step of the parent, and what is in the
\* control pipe then: nothing but the start frame before the commit.
HandshakeInv ==
  /\ Alive <=> sup # "gone"
  /\ ~Alive => control = <<>>
  /\ launch \in BeforeStart => control = <<>> /\ sup \in {"boot", "readStart", "gone"}
  /\ launch \in {"commit", "client", "reap", "teardown"} => sup \notin Unaccepted
  /\ \A f \in ToSet(events) : f.kind = "accepted" => sup \notin Unaccepted
  /\ sup \in Unaccepted => canceller = "off"
  /\ Alive /\ sup \notin Unaccepted => canceller # "off"
  /\ sup \in Unaccepted \cup {"awaitCommit"} => controls = "off"
  /\ committed => launch \in AfterCommit /\ sup \notin Unaccepted
  /\ launch \in {"client", "reap", "teardown"} => committed
  /\ sup \in {"boot", "readStart"} => Len(control) <= 1
  /\ sup \notin {"boot", "readStart"} /\ ~committed => control = <<>>
  /\ outcome = "cancelled" => ~committed
  /\ ran => committed
  /\ sup = "work" => ran

\* The final is the last the supervisor does.  Until the parent has read it, it
\* is in the pipe or still to come, unless there was a mishap.
DeliveryInv ==
  /\ receiver = "final" => ~Alive
  /\ \A f \in ToSet(events) : f.kind = "final" => ~Alive
  /\ launch \in Handshaking \cup {"client"} /\ receiver = "reading" /\ ~mishap =>
       Alive \/ \E f \in ToSet(events) : f.kind = "final"
  /\ receiver = "error" => mishap
  /\ launch \in BeforeStart \cup Handshaking => receiver = "reading"

\* The parent writes at most one cancel frame, and none after the lifeline is closed.
SenderInv ==
  /\ sender = "open" => cancel = <<>>
  /\ launch \notin AfterCommit => sender = "open"
  /\ launch \in {"client", "reap", "teardown"} /\ ~lifeline => sender # "open"

\* The supervisor has answered the end of its lifeline.
Acknowledged ==
  \E f \in ToSet(events) : f.kind = "final" /\ f.reason \notin {"none", "internal"}

\* Without a mishap the supervisor lives as long as the handshake, knows of no
\* cancellation before the lifeline is closed and then of nothing else.
CleanInv ==
  ~mishap =>
    /\ outcome # "failed"
    /\ launch \in {"stop", "abort", "abortWait"} => outcome = "cancelled"
    /\ launch \in Handshaking =>
         Alive /\ ~cancelled /\ reason = "none" /\ sup \in Unaccepted \cup {"awaitCommit"}
    /\ launch = "abortWait" =>
         \/ /\ Alive /\ sup # "work"
            /\ reason \in {"none", "lifeline"}
            /\ cancelled \/ sup \in {"finish", "sendFinal"} => reason = "lifeline"
         \/ process = "exited" /\ Acknowledged

\* A reason of the parent's own was given.
Named == causes \cap {"user", "terminate", "hangup"} # {}

\* What the supervisor knows, has sent or will read has been caused; the lifeline
\* is reported only when nothing else was given and nothing else can be.
CauseInv ==
  /\ reason \in causes \cup {"none"} /\ own \in causes \cup {"none"}
  /\ final \in causes \cup {"none"}
  /\ ToSet(cancel) \subseteq causes \ {"lifeline"}
  /\ \A f \in ToSet(events) : f.reason \in causes \cup {"none"}
  /\ Alive /\ ~writable => "internal" \in causes
  /\ Alive /\ ~lifeline /\ cancel = <<>> /\ canceller # "done" => "lifeline" \in causes
  /\ Alive /\ Named /\ canceller # "done" => cancel # <<>>
  /\ \/ reason = "lifeline" \/ final = "lifeline"
     \/ \E f \in ToSet(events) : f.reason = "lifeline"
     => ~Named /\ (sender # "open" \/ launch \in {"abortWait", "returned", "dead"})

SessionInv ==
  /\ TypeOK /\ StartInv /\ HoldingInv /\ HandshakeInv
  /\ DeliveryInv /\ SenderInv /\ CleanInv /\ CauseInv
=============================================================================
