----------------------------- MODULE RunCommand -----------------------------
(***************************************************************************)
(* internal/runcommand, runoutput and terminal.Program: the parent process *)
(* of a run, around the supervisor session of SupervisorSession.           *)
(*                                                                         *)
(* Command.Run prepares a display, the source and the logs, launches the   *)
(* supervisor and then drives a session.  Beside its goroutine run the     *)
(* signal watcher, the forwarder (sole reader of the events) and the       *)
(* display driver; the interactive driver has a terminal loop and an       *)
(* instruction sender.  They ask for the end of the run through the        *)
(* termination inbox only.                                                 *)
(***************************************************************************)
EXTENDS SupervisorSession

\* An environment also says which display modes prepareDisplay may select and
\* the reasons of the signals the parent may receive, each once.
CONSTANTS
  MaxPending   \* bound on the instructions pending in the terminal loop

ASSUME RunConstantsAssumption ==
  /\ \A e \in Environments :
       /\ e.modes \subseteq {"plain", "interactive"} /\ e.modes # {}
       /\ e.signals \subseteq {"user", "terminate", "hangup"}
  /\ MaxPending \in Nat \ {0}

VARIABLES
  main,       \* step of Command.Run
  mode,       \* the display mode
  held,       \* what Run has to release: watcher, display, logs
  report,     \* what Run returns
  caller,     \* the caller's context is done
  unsent,     \* signals that did not arrive yet
  raw,        \* signals in the watcher's channel
  watcher,    \* the goroutine in parentSignalWatcher.forward
  signalled,  \* signalCause: the first signal's reason
  inbox,      \* terminationInbox.pending
  phase,      \* runSession.phase
  first,      \* runSession.first
  forwarder,  \* the goroutine in Completion.forward
  showing,    \* displayActive in it; once FALSE, the end was requested
  driver,     \* displayDriver: its goroutine
  driverErr,  \* driver.result() is an error
  keyboard,   \* the next event of the terminal's input
  listening,  \* inputEvents is not nil
  sending,    \* instructionStop is not closed
  pending,    \* length of programLoop.pending
  instr       \* the instruction sender: idle, sending, or with a result

session  == <<phase, first>>
signals  == <<unsent, raw, watcher, signalled, caller>>
terminal == <<keyboard, listening, sending, pending, instr>>
display  == <<driver, driverErr, terminal>>
output   == <<forwarder, showing>>
run      == <<main, mode, held, report>>
runVars  == <<vars, run, signals, inbox, session, output, display>>

Requests == {"user", "terminate", "hangup", "internal", "lost"}

InboxOK == inbox \in Seq(Requests) /\ Len(inbox) <= Cardinality(Requests)

RunFlagsOK ==
  /\ caller \in BOOLEAN /\ showing \in BOOLEAN /\ driverErr \in BOOLEAN
  /\ listening \in BOOLEAN /\ sending \in BOOLEAN

RunTypeOK ==
  /\ TypeOK
  /\ InboxOK
  /\ RunFlagsOK
  /\ main \in {"display", "source", "logs", "launch", "release", "finish",
               "drive", "join", "close", "wait", "returned"}
  /\ mode \in {"none", "plain", "interactive"}
  /\ held \subseteq {"watcher", "display", "logs"}
  /\ report \in {"none", "cause", "other", "cancelled", "error", "result"}
  /\ unsent \subseteq env.signals /\ raw \subseteq env.signals
  /\ watcher \in {"watching", "cancelling", "gone"}
  /\ signalled \in env.signals \cup {"none"}
  /\ phase \in {"none", "open", "terminating", "completed"}
  /\ first \in AllReasons
  /\ forwarder \in {"off", "reading", "showing", "done"}
  /\ driver \in {"off", "running", "stopping", "done"}
  /\ keyboard \in {"none", "key", "ctrlC", "lost"}
  /\ pending \in 0..MaxPending
  /\ instr \in {"idle", "sending", "result", "error"}

RunInit ==
  /\ InitWith({})
  /\ main = "display" /\ mode = "none" /\ held = {"watcher"} /\ report = "none"
  /\ caller = FALSE /\ unsent = env.signals /\ raw = {}
  /\ watcher = "watching" /\ signalled = "none"
  /\ inbox = <<>> /\ phase = "none" /\ first = "none"
  /\ forwarder = "off" /\ showing = TRUE
  /\ driver = "off" /\ driverErr = FALSE
  /\ keyboard = "none" /\ listening = TRUE /\ sending = TRUE
  /\ pending = 0 /\ instr = "idle"

-----------------------------------------------------------------------------
(***************************************************************************)
(* The termination inbox and the signal watcher.                           *)
(***************************************************************************)

\* terminationInbox.publish: a request that is still pending is not repeated.
Publish(request) ==
  inbox' = IF Contains(inbox, request) THEN inbox ELSE Append(inbox, request)

\* The signal arrives in the watcher's buffered channel.
SignalArrives ==
  /\ main # "returned"
  /\ \E r \in unsent :
       /\ unsent' = unsent \ {r}
       /\ raw' = IF watcher = "gone" THEN raw ELSE raw \cup {r}
  /\ UNCHANGED <<vars, run, caller, watcher, signalled, inbox, session, output,
                 display>>

CallerCancels ==
  /\ ~caller
  /\ main # "returned"
  /\ caller' = TRUE
  /\ UNCHANGED <<vars, run, unsent, raw, watcher, signalled, inbox, session,
                 output, display>>

\* Mutant: the request is not published, only the preparation is cancelled.
TakeWithoutPublish ==
  /\ watcher = "watching"
  /\ \E r \in raw :
       /\ raw' = raw \ {r}
       /\ signalled' = IF signalled = "none" THEN r ELSE signalled
  /\ watcher' = "cancelling"
  /\ UNCHANGED <<vars, run, unsent, caller, inbox, session, output, display>>

\* forward: the cause is kept and the request published ...
TakeSignal ==
  /\ watcher = "watching"
  /\ \E r \in raw :
       /\ raw' = raw \ {r}
       /\ signalled' = IF signalled = "none" THEN r ELSE signalled
       /\ Publish(r)
  /\ watcher' = "cancelling"
  /\ UNCHANGED <<vars, run, unsent, caller, session, output, display>>

\* ... before the preparation context is cancelled.
CancelPreparation ==
  /\ \/ /\ watcher = "cancelling"
        /\ watcher' = "watching"
     \/ /\ watcher = "watching"
        /\ caller
        /\ watcher' = "gone"
  /\ ctx' = TRUE
  /\ UNCHANGED <<launch, outcome, sender, lifeline, writable, wake, writer,
                 receiver, final, pipes, super, source, history, run, unsent,
                 raw, signalled, caller, inbox, session, output, display>>

-----------------------------------------------------------------------------
(***************************************************************************)
(* Command.Run: the preparation.                                           *)
(***************************************************************************)

\* observePreparationInterruption
Interrupted == caller \/ ctx

\* One step of the preparation, after the check that precedes it
Prepare(here, next, acquired) ==
  /\ main = here
  /\ \/ /\ Interrupted
        /\ main' = "release"
        /\ report' = "cause"
        /\ UNCHANGED <<held, mode, source, mishap>>
     \/ /\ ~Interrupted
        /\ main' = next
        /\ acquired
        /\ UNCHANGED <<report, mishap>>
     \/ /\ ~Interrupted
        /\ env.faults
        /\ main' = "release"
        /\ report' = "other"
        /\ mishap' = TRUE
        /\ UNCHANGED <<held, mode, source>>
  /\ UNCHANGED <<parent, pipes, super, committed, env, ran, causes, signals, inbox,
                 session, output, display>>

PrepareDisplay ==
  Prepare("display", "source",
          /\ mode' \in env.modes
          /\ held' = held \cup {"display"}
          /\ UNCHANGED source)

OpenSource ==
  Prepare("source", "logs",
          /\ source' = {"parent"}
          /\ UNCHANGED <<held, mode>>)

OpenLogs ==
  Prepare("logs", "launch",
          /\ held' = held \cup {"logs"}
          /\ UNCHANGED <<mode, source>>)

\* Launch runs in the goroutine of Run; it checks for interruptions itself.
\* On success the session starts its forwarder and its driver.
Launched ==
  /\ main = "launch"
  /\ launch \in {"client", "returned"}
  /\ IF launch = "client"
       THEN /\ main' = "drive"
            /\ phase' = "open"
            /\ forwarder' = "reading"
            /\ driver' = "running"
            /\ UNCHANGED report
       ELSE /\ main' = "release"
            /\ report' = IF outcome = "cancelled" THEN "cause" ELSE "other"
            /\ UNCHANGED <<phase, forwarder, driver>>
  /\ UNCHANGED <<vars, mode, held, signals, inbox, first, showing, driverErr,
                 terminal>>

\* releasePreparation
ReleasePreparation ==
  /\ main = "release"
  /\ held' = {"watcher"}
  /\ source' = source \ {"parent"}
  /\ main' = "finish"
  /\ UNCHANGED <<parent, pipes, super, history, mode, report, signals, inbox,
                 session, output, display>>

\* finishPreparation: the caller's cause, a failure of its own, or else the
\* signal's cancellation; watcher.close joins the watcher.
FinishPreparation ==
  /\ main = "finish"
  /\ watcher # "cancelling"
  /\ report' = IF ~caller /\ signalled # "none" /\ report = "cause"
                 THEN "cancelled" ELSE "error"
  /\ watcher' = "gone"
  /\ held' = held \ {"watcher"}
  /\ main' = "returned"
  /\ UNCHANGED <<vars, mode, unsent, raw, signalled, caller, inbox, session,
                 output, display>>

-----------------------------------------------------------------------------
(***************************************************************************)
(* runSession: drive, and what follows the completion.                     *)
(***************************************************************************)

\* client.Cancel, which does nothing once the controls are stopped; when its
\* write fails the lifeline is closed.
CancelOrClose(r) ==
  /\ IF sender = "open"
       THEN /\ sender' = IF Alive THEN "cancelling" ELSE "stopped"
            /\ wake' = TRUE
            /\ cancel' = IF Alive THEN Append(cancel, r) ELSE cancel
            /\ causes' = causes \cup {IF Alive THEN r ELSE "lifeline"}
            /\ lifeline' = (lifeline /\ Alive)
       ELSE UNCHANGED <<sender, wake, cancel, causes, lifeline>>
  /\ UNCHANGED <<launch, outcome, ctx, writable, writer, receiver, final,
                 control, events, super, source, committed, env, ran, mishap>>

\* lifelineOnce.close: client.CloseLifeline
CloseLifelineOnce ==
  /\ IF lifeline
       THEN /\ lifeline' = FALSE
            /\ sender' = StoppedSender
            /\ wake' = TRUE
            /\ causes' = causes \cup {"lifeline"}
       ELSE UNCHANGED <<lifeline, sender, wake, causes>>
  /\ UNCHANGED <<launch, outcome, ctx, writable, writer, receiver, final,
                 pipes, super, source, committed, env, ran, mishap>>

\* acceptTermination; commandsStopped is phase = "terminating".
AcceptTermination(r) ==
  /\ phase' = "terminating"
  /\ first' = r
  /\ CancelOrClose(r)

\* acceptControllerLoss
AcceptControllerLoss ==
  /\ IF phase = "open"
       THEN phase' = "terminating" /\ first' = "lifeline"
       ELSE UNCHANGED session
  /\ CloseLifelineOnce

\* Mutant: an accepted request completes the session.
CompletedEarly == forwarder = "done" \/ phase = "terminating"

Completed == forwarder = "done"

\* Mutant: a request is accepted whatever was accepted before.
AlwaysAccept(r) ==
  /\ main = "drive" /\ ~Completed
  /\ ~(phase = "open" /\ caller)
  /\ inbox # <<>> /\ Head(inbox) = r
  /\ inbox' = Tail(inbox)
  /\ phase' = "terminating"
  /\ first' = r
  /\ CancelOrClose(r)
  /\ UNCHANGED <<run, signals, output, display>>

\* acceptReady, from the inbox; its order is completion, caller, inbox.
AcceptRequest(r) ==
  /\ main = "drive" /\ ~Completed
  /\ ~(phase = "open" /\ caller)
  /\ inbox # <<>> /\ Head(inbox) = r
  /\ inbox' = Tail(inbox)
  /\ \/ r = "lost" /\ AcceptControllerLoss
     \/ r # "lost" /\ phase = "open" /\ AcceptTermination(r)
     \/ r # "lost" /\ phase # "open" /\ UNCHANGED <<vars, session>>
  /\ UNCHANGED <<run, signals, output, display>>

AcceptCaller ==
  /\ main = "drive" /\ ~Completed
  /\ phase = "open" /\ caller
  /\ AcceptTermination("internal")
  /\ UNCHANGED <<run, signals, inbox, output, display>>

\* The driver ended with an error: collectDriverResult reads it once.
DriverFailed ==
  /\ main = "drive" /\ ~Completed
  /\ ~(phase = "open" /\ caller)
  /\ inbox = <<>>
  /\ driver = "done" /\ driverErr
  /\ Publish("internal")
  /\ driverErr' = FALSE
  /\ UNCHANGED <<vars, run, signals, session, output, driver, terminal>>

\* The completion ends drive; the final projection goes to the driver.
AcceptCompletion ==
  /\ main = "drive" /\ Completed
  /\ phase' = "completed"
  /\ main' = "join"
  /\ UNCHANGED <<vars, mode, held, report, signals, inbox, first, output,
                 display>>

\* Mutant: the driver is not waited for.
JoinNobody ==
  /\ main = "join"
  /\ watcher # "cancelling"
  /\ watcher' = "gone"
  /\ held' = held \ {"watcher"}
  /\ main' = "close"
  /\ UNCHANGED <<vars, mode, report, unsent, raw, signalled, caller, inbox,
                 session, output, display>>

\* <-driver.done(), then signals.stopAndJoin
JoinDriver ==
  /\ main = "join"
  /\ driver = "done"
  /\ watcher # "cancelling"
  /\ watcher' = "gone"
  /\ held' = held \ {"watcher"}
  /\ main' = "close"
  /\ UNCHANGED <<vars, mode, report, unsent, raw, signalled, caller, inbox,
                 session, output, display>>

\* logs.Close, lifeline.close
CloseSession ==
  /\ main = "close"
  /\ held' = held \ {"logs"}
  /\ CloseLifelineOnce
  /\ main' = "wait"
  /\ UNCHANGED <<mode, report, signals, inbox, session, output, display>>

\* client.Wait runs in SupervisorSession; then the Result is built.
ReturnResult ==
  /\ main = "wait"
  /\ launch = "returned"
  /\ report' = "result"
  /\ main' = "returned"
  /\ UNCHANGED <<vars, mode, held, signals, inbox, session, output, display>>

-----------------------------------------------------------------------------
(***************************************************************************)
(* runoutput: the forwarder reads until the final, whatever fails.         *)
(***************************************************************************)

\* requestStop: the end of the run is asked for once.
RequestStop == IF showing THEN Publish("internal") ELSE UNCHANGED inbox

ForwardRead ==
  /\ forwarder = "reading"
  /\ ReadEvent
  /\ IF receiver' = "reading"
       THEN forwarder' = "showing" /\ UNCHANGED <<inbox, showing>>
       ELSE /\ forwarder' = "done"
            /\ showing' = (showing /\ receiver' = "final")
            /\ IF receiver' = "error" THEN RequestStop ELSE UNCHANGED inbox
  /\ UNCHANGED <<run, signals, session, display>>

\* program.stopped is closed: Show fails.
Stopped == mode = "interactive" /\ driver # "running"

\* Mutant: the forwarder stops at the first failure.
StopForwarding ==
  /\ forwarder = "showing"
  /\ \/ env.faults
     \/ showing /\ Stopped
  /\ RequestStop
  /\ showing' = FALSE
  /\ forwarder' = "done"
  /\ UNCHANGED <<vars, run, signals, session, display>>

\* The raw log rejects the output, or the display fails to show it.
ForwardFails ==
  /\ forwarder = "showing"
  /\ \/ env.faults
     \/ showing /\ Stopped
  /\ RequestStop
  /\ showing' = FALSE
  /\ forwarder' = "reading"
  /\ UNCHANGED <<vars, run, signals, session, display>>

\* The event is logged and shown, Begin included.  The terminal loop takes
\* the request; a redraw that fails also ends the loop.
ForwardShow ==
  /\ forwarder = "showing"
  /\ ~showing \/ ~Stopped
  /\ forwarder' = "reading"
  /\ \/ UNCHANGED <<inbox, showing, display>>
     \/ /\ env.faults /\ showing /\ mode = "interactive"
        /\ showing' = FALSE
        /\ RequestStop
        /\ driver' = "stopping"
        /\ listening' = FALSE /\ sending' = FALSE
        /\ UNCHANGED <<driverErr, keyboard, pending, instr>>
  /\ UNCHANGED <<vars, run, signals, session>>

-----------------------------------------------------------------------------
(***************************************************************************)
(* The display drivers.                                                    *)
(***************************************************************************)

\* The plain driver closes its output after the completion.
PlainDone ==
  /\ mode = "plain" /\ driver = "running"
  /\ Completed
  /\ driver' = "done"
  /\ held' = held \ {"display"}
  /\ UNCHANGED <<vars, main, mode, report, signals, inbox, session, output,
                 driverErr, terminal>>

Looping == mode = "interactive" /\ driver = "running"

\* The user types, or the terminal disappears.
Type ==
  /\ Looping
  /\ keyboard = "none"
  /\ keyboard' \in {"key", "ctrlC", "lost"}
  /\ UNCHANGED <<vars, run, signals, inbox, session, output, driver, driverErr,
                 listening, sending, pending, instr>>

\* waitOnce ends the loop with an error of its own: stopSending, program.stop.
LoopFails ==
  /\ driver' = "stopping"
  /\ driverErr' = TRUE
  /\ listening' = FALSE /\ sending' = FALSE

\* handleInput, interpretInput and acceptInstructions.  readyChannels does not
\* listen to the input while an instruction is pending.
LoopInput ==
  /\ Looping
  /\ listening /\ pending = 0
  /\ keyboard # "none"
  /\ keyboard' = "none"
  /\ \/ /\ keyboard = "key"
        /\ pending' = 1
        /\ UNCHANGED <<inbox, driver, driverErr, listening, sending>>
     \/ /\ keyboard = "ctrlC"
        /\ Publish("user")
        /\ listening' = FALSE /\ sending' = FALSE
        /\ UNCHANGED <<driver, driverErr, pending>>
     \/ /\ keyboard = "lost"
        /\ Publish("lost")
        /\ listening' = FALSE
        /\ UNCHANGED <<driver, driverErr, sending, pending>>
     \/ /\ env.faults /\ keyboard # "lost"
        /\ Publish("internal")
        /\ LoopFails
        /\ UNCHANGED pending
  /\ UNCHANGED <<vars, run, signals, session, output, instr>>

\* handleResize and the expiration of a key sequence: an instruction for the
\* child, or a failure, which the driver publishes when the loop has ended.
LoopResize ==
  /\ Looping
  /\ \/ /\ sending /\ pending < MaxPending
        /\ pending' = pending + 1
        /\ UNCHANGED <<driver, driverErr, listening, sending>>
     \/ /\ env.faults
        /\ LoopFails
        /\ UNCHANGED pending
  /\ UNCHANGED <<vars, run, signals, inbox, session, output, keyboard, instr>>

\* The next instruction goes to the sender: WriteInput or Resize.
SendInstruction ==
  /\ Looping
  /\ sending /\ pending > 0 /\ instr = "idle"
  /\ pending' = pending - 1
  /\ \/ /\ BeginControl
        /\ instr' = "sending"
     \/ /\ sender # "open"
        /\ instr' = "result"
        /\ UNCHANGED vars
  /\ UNCHANGED <<run, signals, inbox, session, output, driver, driverErr,
                 keyboard, listening, sending>>

\* The control write ends; an error counts while the controls are open.
InstructionSent ==
  /\ instr = "sending"
  /\ WriteControl
  /\ instr' = IF sender = "open" /\ control' = control THEN "error" ELSE "result"
  /\ UNCHANGED <<run, signals, inbox, session, output, driver, driverErr,
                 keyboard, listening, sending, pending>>

LoopResult ==
  /\ Looping
  /\ sending
  /\ instr \in {"result", "error"}
  /\ instr' = "idle"
  /\ IF instr = "error"
       THEN LoopFails
       ELSE UNCHANGED <<driver, driverErr, listening, sending>>
  /\ UNCHANGED <<vars, run, signals, inbox, session, output, keyboard,
                 pending>>

\* StopCommands: what is pending is dropped, the output is still shown.
LoopStopCommands ==
  /\ Looping
  /\ phase = "terminating"
  /\ pending # 0 \/ sending \/ listening
  /\ pending' = 0
  /\ listening' = FALSE /\ sending' = FALSE
  /\ UNCHANGED <<vars, run, signals, inbox, session, output, driver, driverErr,
                 keyboard, instr>>

\* outputDone, then the projection from Finish
LoopFinishes ==
  /\ Looping
  /\ Completed /\ main \notin {"launch", "drive"}
  /\ driver' = "stopping"
  /\ listening' = FALSE /\ sending' = FALSE
  /\ UNCHANGED <<vars, run, signals, inbox, session, output, driverErr,
                 keyboard, pending, instr>>

\* stopInstructionSender waits for the sender; the terminal is restored, and
\* an error is published.
DriverStops ==
  /\ driver = "stopping"
  /\ writer = "idle" /\ instr # "sending"
  /\ driver' = "done"
  /\ instr' = "idle"
  /\ pending' = 0
  /\ keyboard' = "none"
  /\ held' = held \ {"display"}
  /\ IF driverErr THEN Publish("internal") ELSE UNCHANGED inbox
  /\ UNCHANGED <<vars, main, mode, report, signals, session, output, driverErr,
                 listening, sending>>

-----------------------------------------------------------------------------
(***************************************************************************)
(* The specification.                                                      *)
(***************************************************************************)

\* Launch and Wait are called by Run, in its goroutine.
ClientStep ==
  /\ main \in {"launch", "wait"}
  /\ ParentStep \/ (main = "wait" /\ BeginWait)
  /\ UNCHANGED <<run, signals, inbox, session, output, display>>

SupervisorStep ==
  /\ MainStep \/ ReadCancellation \/ ReadControls \/ TakeControl \/ SendEvent
     \/ WorkReturns \/ SupervisorDies
  /\ UNCHANGED <<run, signals, inbox, session, output, display>>

RunStep ==
  \/ PrepareDisplay \/ OpenSource \/ OpenLogs \/ Launched
  \/ ReleasePreparation \/ FinishPreparation
  \/ (\E r \in Requests : AcceptRequest(r)) \/ AcceptCaller \/ DriverFailed
  \/ AcceptCompletion \/ JoinDriver \/ CloseSession \/ ReturnResult

WatcherStep == TakeSignal \/ CancelPreparation

ForwarderStep == ForwardRead \/ ForwardFails \/ ForwardShow

RunNext ==
  \/ RunStep \/ ClientStep \/ SupervisorStep \/ WatcherStep \/ ForwarderStep
  \/ PlainDone \/ LoopInput \/ LoopResize \/ SendInstruction
  \/ InstructionSent \/ LoopResult \/ LoopStopCommands \/ LoopFinishes
  \/ DriverStops
  \/ SignalArrives \/ CallerCancels \/ Type

\* Every goroutine of both processes runs; a Go select chooses at random, so
\* that a case ready again and again is taken.  The work returns once it is
\* cancelled; nothing says that a command reads its input or ends.
RunFairness ==
  /\ WF_runVars(RunStep) /\ WF_runVars(ClientStep)
  /\ WF_runVars(TakeSignal) /\ WF_runVars(CancelPreparation)
  /\ WF_runVars(ForwarderStep)
  /\ WF_runVars(PlainDone) /\ SF_runVars(LoopInput)
  /\ WF_runVars(SendInstruction) /\ WF_runVars(InstructionSent)
  /\ WF_runVars(LoopResult) /\ WF_runVars(LoopStopCommands)
  /\ WF_runVars(LoopFinishes) /\ WF_runVars(DriverStops)
  /\ WF_runVars(MainStep /\ SupervisorStep)
  /\ WF_runVars(ReadCancellation /\ SupervisorStep)
  /\ WF_runVars(ReadControls /\ SupervisorStep)
  /\ WF_runVars(cancelled /\ WorkReturns /\ SupervisorStep)

RunSpec == RunInit /\ [][RunNext]_runVars /\ RunFairness

-----------------------------------------------------------------------------
(***************************************************************************)
(* Properties.                                                             *)
(***************************************************************************)

\* When Run returns nothing of the run is left in the parent: the terminal is
\* restored, logs, source and pipes are closed, the watcher has ended and the
\* supervisor is reaped.  result.go: "produced only after every live parent
\* resource is released".
AllReleased ==
  main = "returned" =>
    /\ held = {} /\ source = {}
    /\ ~Alive /\ ~lifeline /\ ~writable
    /\ watcher = "gone"
    /\ driver \in {"off", "done"} /\ writer = "idle"

\* A run that is reported as cancelled during its preparation never started
\* its transfers, whatever the signal raced with.
CancelledUnstarted == report = "cancelled" => ~ran

\* The logs are open as long as the forwarder may write to them.
LogsOutliveForwarder ==
  forwarder \in {"reading", "showing"} => "logs" \in held

\* Nothing is used before it is started or after it was released.
RunIsClean == RunTypeOK /\ CancelledUnstarted /\ LogsOutliveForwarder

\* The reason the supervisor acted on is the one the session accepted first:
\* neither a later request nor a lost terminal replaces it in the final.
FirstReasonWins ==
  receiver = "final" /\ final \notin {"none", "internal"} => final = first

\* A session returns the supervisor's final, however the display, the logs or
\* the terminal fail; only a death, a fault of the supervisor or an expired
\* limit costs it.
FinalReachesResult == report = "result" => receiver = "final" \/ mishap

\* A signal that reached the program ends the run, in every phase of it; and
\* once the session has accepted a request, Run returns, also when a control
\* write is blocked, a display has failed or the terminal is gone.
RequestsEndRun ==
  (raw # {} /\ watcher # "gone") \/ phase = "terminating" ~> main = "returned"

\* Control-C, typed in the terminal, ends the run.  README.md: "Transfer Lanes
\* continues to handle navigation and whole-run cancellation".
ControlCEndsRun == keyboard = "ctrlC" ~> main = "returned"
-----------------------------------------------------------------------------
(***************************************************************************)
(* The invariant behind the safety properties.                             *)
(***************************************************************************)

Preparing == {"display", "source", "logs", "launch", "release", "finish"}

\* Where Launch and Wait are, by the step of Run; and what Run has started.
StepInv ==
  /\ launch # "dead"
  /\ main \in {"display", "source", "logs"} => launch = "start"
  /\ main \in {"drive", "join", "close"} => launch = "client"
  /\ main = "wait" => launch \in {"client", "reap", "teardown", "returned"} /\ ~lifeline
  /\ main \in {"release", "finish", "returned"} => launch \in {"start", "returned"}
  /\ main \in Preparing => driver = "off" /\ forwarder = "off" /\ phase = "none"
  /\ main = "drive" => phase \in {"open", "terminating"}
  /\ main \in {"join", "close", "wait"} => forwarder = "done"
  /\ main \in {"close", "wait"} => driver = "done"
  /\ main = "returned" => forwarder \in {"off", "done"} /\ driver \in {"off", "done"}

\* What Run holds, by its step, and what it will report.
HeldInv ==
  /\ main \in {"launch", "drive", "join", "close"} => "logs" \in held
  /\ main = "finish" => held = {"watcher"}
  /\ main = "wait" => "logs" \notin held
  /\ main = "returned" => held = {}
  /\ main \in {"close", "wait"} => "watcher" \notin held
  /\ main \in {"close", "wait", "returned"} => watcher = "gone"
  /\ driver = "done" => "display" \notin held
  /\ main \in {"finish", "returned"} => "parent" \notin source
  /\ report \in {"cause", "cancelled"} =>
       main \in {"release", "finish", "returned"} /\ ~ran
  /\ report = "result" => main = "returned" /\ forwarder = "done"
  /\ forwarder = "done" => receiver # "reading"

\* While the final is to come, the supervisor has heard of no reason but the
\* accepted one, and will hear of no other.
FirstInv ==
  /\ phase \in {"none", "open"} => first = "none"
  /\ phase = "terminating" => first # "none"
  /\ receiver = "final" /\ final \notin {"none", "internal"} => final = first
  /\ launch \in Handshaking \cup {"client"} /\ receiver = "reading" =>
       /\ reason \in {"none", "internal", first}
       /\ ToSet(cancel) \subseteq {"internal", first}
       /\ \A f \in ToSet(events) : f.reason \in {"none", "internal", first}
       /\ first = "none" => lifeline /\ sender = "open"
       /\ Alive /\ canceller # "done" /\ cancel = <<>> => lifeline \/ first = "lifeline"
       /\ Alive /\ canceller # "done" /\ first \notin {"none", "lifeline"} => cancel # <<>>

RunInv == SessionInv /\ RunTypeOK /\ IsInjective(inbox) /\ StepInv /\ HeldInv /\ FirstInv
=============================================================================
