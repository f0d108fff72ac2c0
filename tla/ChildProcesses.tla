--------------------------- MODULE ChildProcesses ---------------------------
(***************************************************************************)
(* A set of commands inside the supervisor's PID namespace: the start      *)
(* barrier, the reaper, the supervision goroutine, the terminator, the     *)
(* readers of the output and the writer of the input.  The supervisor is   *)
(* the init of the namespace, so it adopts every orphan and kill(-1)       *)
(* reaches every process.                                                  *)
(***************************************************************************)
EXTENDS Naturals, FiniteSets, FiniteSetsExt

CONSTANTS
  Transfers,    \* number of commands
  Descendants,  \* processes the commands may fork
  Streams,      \* transfers whose output is modelled
  Adopted,      \* the parent of an orphan
  MaxOutput,    \* chunks written to a stream
  OutputSlots,  \* capacity of the output channel
  MaxInputs,    \* calls of WriteInput
  Faults        \* which system calls may fail, one kind in a behaviour

ASSUME ChildAssumption ==
  /\ Transfers \in Nat \ {0}
  /\ Streams \subseteq 1..Transfers
  /\ MaxOutput \in Nat /\ MaxInputs \in Nat /\ OutputSlots \in Nat \ {0}
  /\ Faults \subseteq {"bind", "release", "kill", "wait", "read"}
  /\ Descendants \cap (1..Transfers) = {}
  /\ Adopted \notin Descendants \cup (1..Transfers)

Direct == 1..Transfers
Procs == Direct \cup Descendants

VARIABLES
  (* the kernel *)
  proc,       \* state of each process
  parent,     \* of each descendant
  root,       \* the command from which a descendant has its descriptors
  handoff,    \* the unread message in each command's ready pipe
  barrier,    \* "open", "released", or "closed" without a release
  killed,     \* SIGKILL was sent to everything
  fault,      \* the kind of system call that may fail, chosen once
  (* start *)
  launch,     \* step of start
  next,       \* the command start is concerned with
  ctxDone,    \* the caller's context
  (* reapedProcesses *)
  reaper,     \* step of the reaper
  confirmed,  \* wait4 has returned ECHILD
  recorded,   \* direct exits
  changed,    \* token in the channel of one element
  contained,  \* the containment channel is closed
  (* ProcessSet *)
  sup,        \* step of supervise
  results,    \* direct results collected
  cancelled, failed, published, \* processCompletion
  waitErr,    \* Wait returns an error
  term,       \* the terminator: step, signal, errors, whether the reaper's
              \* failure was captured
  (* processIO *)
  pending,    \* chunks in the kernel, per stream
  reader,     \* step of each reader
  queue,      \* chunks in the output channel
  accepting,  \* acceptingControl; its end wakes the writer
  outputWake, \* the readers are woken
  writer,     \* step of the caller of WriteInput
  inputs,     \* its calls so far
  ioClosed,   \* descriptors are closed
  (* history, read by no action *)
  prepared, written, delivered, signalled

kernel == <<proc, parent, root, handoff, barrier, killed, fault>>
starting == <<launch, next, ctxDone>>
reaping == <<reaper, confirmed, recorded, changed, contained>>
completion == <<cancelled, failed, published, waitErr>>
supervision == <<sup, results, completion, term>>
io == <<pending, reader, queue, accepting, outputWake, writer, inputs, ioClosed>>
history == <<prepared, written, delivered, signalled>>
vars == <<kernel, starting, reaping, supervision, io, history>>

\* What a helper writes to its ready pipe.
Handoffs == {"empty", "prepared", "execFailed"}
Alive(p) == proc[p] \in {"preparing", "prepared", "released", "running"}
Launched == {t \in Direct : proc[t] # "none"}

\* What wait4 of the namespace's init may return for, now or later.
ChildrenOfInit ==
  {p \in Procs : proc[p] \notin {"none", "reaped"}
                 /\ (p \in Descendants => parent[p] = Adopted)}

Complete == reaper \notin {"off", "wait"}
Stopped == reaper = "stopped"
NewTerm == [pc |-> "off", signal |-> 1, sup |-> FALSE, cont |-> FALSE, seen |-> FALSE]

ChildInit ==
  /\ proc = [p \in Procs |-> "none"]
  /\ parent = [d \in Descendants |-> Adopted]
  /\ root = [d \in Descendants |-> 1]
  /\ handoff = [t \in Direct |-> "empty"]
  /\ barrier = "open" /\ killed = FALSE /\ fault \in Faults
  /\ launch = "idle" /\ next = 1 /\ ctxDone = FALSE
  /\ reaper = "off" /\ confirmed = FALSE /\ recorded = {} /\ changed = FALSE
  /\ contained = FALSE
  /\ sup = "off" /\ results = {} /\ term = NewTerm
  /\ cancelled = FALSE /\ failed = FALSE /\ published = FALSE /\ waitErr = FALSE
  /\ pending = [s \in Streams |-> 0] /\ reader = [s \in Streams |-> "off"]
  /\ queue = 0 /\ accepting = FALSE /\ outputWake = FALSE
  /\ writer = "idle" /\ inputs = 0 /\ ioClosed = FALSE
  /\ prepared = {} /\ signalled = FALSE
  /\ written = [s \in Streams |-> 0] /\ delivered = [s \in Streams |-> 0]

-----------------------------------------------------------------------------
(* The processes.  A process may exit at any time, for SIGINT and SIGTERM   *)
(* as for any other reason; once SIGKILL is sent it can do nothing else.    *)

\* runInheritedHelper up to the handoff; without a reader of the ready pipe
\* the write fails and the helper exits.
HelperPrepares(t) ==
  /\ proc[t] = "preparing" /\ ~killed
  /\ launch \in {"launching", "ready"}
  /\ proc' = [proc EXCEPT ![t] = "prepared"]
  /\ handoff' = [handoff EXCEPT ![t] = "prepared"]
  /\ prepared' = prepared \cup {t}
  /\ UNCHANGED <<parent, root, barrier, killed, fault, starting, reaping, supervision, io,
                 written, delivered, signalled>>

\* A descriptor is not the expected one, or a mount, the resolver, the working
\* directory, the executable or the session fails: no handoff.
HelperFails(t) ==
  /\ proc[t] = "preparing"
  /\ proc' = [proc EXCEPT ![t] = "zombie"]
  /\ UNCHANGED <<parent, root, handoff, barrier, killed, fault, starting, reaping,
                 supervision, io, history>>

\* awaitBarrier has read a marker.  At the end of the pipe it exits.
HelperReleased(t) ==
  /\ proc[t] = "prepared" /\ ~killed
  /\ barrier = "released"
  /\ proc' = [proc EXCEPT ![t] = "released"]
  /\ UNCHANGED <<parent, root, handoff, barrier, killed, fault, starting, reaping,
                 supervision, io, history>>

\* unix.Exec: the ready pipe closes with the execution.
HelperExecutes(t) ==
  /\ proc[t] = "released" /\ ~killed
  /\ proc' = [proc EXCEPT ![t] = "running"]
  /\ UNCHANGED <<parent, root, handoff, barrier, killed, fault, starting, reaping,
                 supervision, io, history>>

\* unix.Exec fails, which the helper reports before it exits.
HelperExecFails(t) ==
  /\ proc[t] = "released" /\ ~killed
  /\ proc' = [proc EXCEPT ![t] = "zombie"]
  /\ handoff' = [handoff EXCEPT ![t] = "execFailed"]
  /\ UNCHANGED <<parent, root, barrier, killed, fault, starting, reaping, supervision, io,
                 history>>

Fork(p, d) ==
  /\ proc[p] = "running" /\ proc[d] = "none" /\ ~killed
  /\ proc' = [proc EXCEPT ![d] = "running"]
  /\ parent' = [parent EXCEPT ![d] = p]
  /\ root' = [root EXCEPT ![d] = IF p \in Direct THEN p ELSE root[p]]
  /\ UNCHANGED <<handoff, barrier, killed, fault, starting, reaping, supervision, io, history>>

\* The init of the namespace adopts the children of a process that exits.
Exit(p) ==
  /\ Alive(p)
  /\ proc' = [proc EXCEPT ![p] = "zombie"]
  /\ parent' = [d \in Descendants |-> IF parent[d] = p THEN Adopted ELSE parent[d]]
  /\ UNCHANGED <<root, handoff, barrier, killed, fault, starting, reaping, supervision, io,
                 history>>

\* The stream ends when no process has its other end open.
StreamEnded(s) ==
  \A p \in Procs : Alive(p) => (IF p \in Direct THEN p ELSE root[p]) # s

WriteOutput(p) ==
  LET s == IF p \in Direct THEN p ELSE root[p] IN
  /\ proc[p] = "running" /\ ~killed
  /\ s \in Streams /\ written[s] < MaxOutput
  /\ pending' = [pending EXCEPT ![s] = @ + 1]
  /\ written' = [written EXCEPT ![s] = @ + 1]
  /\ UNCHANGED <<kernel, starting, reaping, supervision, reader, queue, accepting,
                 outputWake, writer, inputs, ioClosed, prepared, delivered,
                 signalled>>

-----------------------------------------------------------------------------
(* Cancellation, as seen from any goroutine.                               *)

\* beginTermination, of which only the first call counts.
BeginTermination ==
  term' = IF term.pc = "off" THEN [term EXCEPT !.pc = "begin"] ELSE term

\* beginCancellation: the mark is ignored once the result is published.
BeginCancellation ==
  /\ cancelled' = (cancelled \/ ~published)
  /\ accepting' = FALSE
  /\ BeginTermination

\* failSupervision, of a reader or of a writer.
FailSupervision ==
  /\ failed' = (failed \/ ~published)
  /\ BeginCancellation

\* newProcessSet with the streams that could be bound; `cancel' says that it is
\* cancelled before start returns it.
ReturnSet(step, bound, failures, cancel) ==
  /\ launch' = step
  /\ sup' = "readers"
  /\ reader' = [s \in Streams |-> IF s \in bound THEN "bound" ELSE "off"]
  /\ failed' = failures
  /\ cancelled' = (cancel \/ failures)
  /\ accepting' = ~(cancel \/ failures)
  /\ term' = [term EXCEPT !.pc = IF cancel \/ failures THEN "begin" ELSE "off"]
  /\ UNCHANGED <<results, published, waitErr, pending, queue, outputWake, writer,
                 inputs, ioClosed>>

\* The streams newProcessIO can bind: all of them unless a call fails.
Bindings == IF fault = "bind" THEN SUBSET Streams ELSE {Streams}

-----------------------------------------------------------------------------
(* start                                                                   *)

\* The caller may end its context at any time.
CancelContext ==
  /\ ~ctxDone /\ launch # "idle" /\ ~published
  /\ ctxDone' = TRUE
  /\ UNCHANGED <<kernel, launch, next, reaping, supervision, io, history>>

StartBegins ==
  /\ launch = "idle"
  /\ launch' = "launching"
  /\ UNCHANGED <<kernel, next, ctxDone, reaping, supervision, io, history>>

\* The inputs, the wake descriptors or the barrier are refused.
StartRejects ==
  /\ launch = "idle"
  /\ launch' = "refused"
  /\ UNCHANGED <<kernel, next, ctxDone, reaping, supervision, io, history>>

\* abortBeforeBarrier up to its first wait.
AbortBeforeBarrier ==
  /\ launch' = "aborting"
  /\ barrier' = "closed"
  /\ reaper' = IF reaper = "off" THEN "wait" ELSE reaper

\* launchChild; after the last one the reaper starts.
LaunchChild ==
  /\ launch = "launching"
  /\ proc' = [proc EXCEPT ![next] = "preparing"]
  /\ IF next < Transfers
       THEN next' = next + 1 /\ UNCHANGED <<launch, reaper>>
       ELSE next' = 1 /\ launch' = "ready" /\ reaper' = "wait"
  /\ UNCHANGED <<parent, root, handoff, barrier, killed, fault, ctxDone, confirmed, recorded,
                 changed, contained, supervision, io, history>>

\* launchChild fails, before or after the process exists.
LaunchFails ==
  /\ launch = "launching"
  /\ \E exists \in BOOLEAN :
       proc' = [proc EXCEPT ![next] = IF exists THEN "preparing" ELSE @]
  /\ AbortBeforeBarrier
  /\ UNCHANGED <<parent, root, handoff, killed, fault, next, ctxDone, confirmed, recorded,
                 changed, contained, supervision, io, history>>

\* awaitReadySet reads the handoff of the next command.
AwaitReady ==
  /\ launch = "ready" /\ handoff[next] = "prepared"
  /\ handoff' = [handoff EXCEPT ![next] = "empty"]
  /\ IF next < Transfers
       THEN next' = next + 1 /\ UNCHANGED launch
       ELSE next' = 1 /\ launch' = "release"
  /\ UNCHANGED <<proc, parent, root, barrier, killed, fault, ctxDone, reaping, supervision, io,
                 history>>

\* The helper is gone before its handoff, or the context is done.
NotReady ==
  /\ launch = "ready"
  /\ \/ handoff[next] = "empty" /\ proc[next] \in {"zombie", "reaped"}
     \/ ctxDone
  /\ AbortBeforeBarrier
  /\ UNCHANGED <<proc, parent, root, handoff, killed, fault, next, ctxDone, confirmed, recorded,
                 changed, contained, supervision, io, history>>

\* releaseBarrier writes one marker per command.
ReleaseBarrier ==
  /\ launch = "release"
  /\ barrier' = "released"
  /\ launch' = "exec"
  /\ UNCHANGED <<proc, parent, root, handoff, killed, fault, next, ctxDone, reaping, supervision,
                 io, history>>

\* releaseBarrier fails, possibly after the markers are written.
ReleaseFails ==
  /\ launch = "release" /\ fault = "release"
  /\ barrier' \in {"released", "closed"}
  /\ \E bound \in Bindings : ReturnSet("ownedErr", bound, bound # Streams, TRUE)
  /\ UNCHANGED <<proc, parent, root, handoff, killed, fault, next, ctxDone, reaping, history>>

\* awaitExecSet: the end of the ready pipe stands for the execution.
AwaitExec ==
  /\ launch = "exec"
  /\ handoff[next] = "empty" /\ proc[next] \in {"running", "zombie", "reaped"}
  /\ IF next < Transfers
       THEN next' = next + 1 /\ UNCHANGED <<launch, supervision, io>>
       ELSE next' = next /\ \E bound \in Bindings :
                               ReturnSet("owned", bound, bound # Streams, FALSE)
  /\ UNCHANGED <<kernel, ctxDone, reaping, history>>

\* failAfterBarrier: a failed execution, or the context is done.
NotExecuted ==
  /\ launch = "exec"
  /\ handoff[next] = "execFailed" \/ ctxDone
  /\ \E bound \in Bindings : ReturnSet("ownedErr", bound, bound # Streams, TRUE)
  /\ UNCHANGED <<kernel, next, ctxDone, reaping, history>>

\* abortBeforeBarrier: the reaper has seen the last process, so there is no set.
AbortReaped ==
  /\ launch \in {"aborting", "abortKilled"}
  /\ Stopped /\ confirmed
  /\ launch' = "refused"
  /\ UNCHANGED <<kernel, next, ctxDone, reaping, supervision, io, history>>

\* The first wait expires: everything is killed.
AbortKills ==
  /\ launch = "aborting" /\ ~Stopped
  /\ launch' = "abortKilled"
  /\ killed' \in (IF fault = "kill" THEN {TRUE, killed} ELSE {TRUE})
  /\ UNCHANGED <<proc, parent, root, handoff, barrier, fault, next, ctxDone, reaping,
                 supervision, io, history>>

\* The reaper has failed or the second wait expires: the caller gets a set
\* whose outputs are closed, which cancels it.
AbortGivesUp ==
  /\ \/ launch \in {"aborting", "abortKilled"} /\ Stopped /\ ~confirmed
     \/ launch = "abortKilled" /\ ~Stopped
  /\ ReturnSet("ownedErr", {}, Launched # {}, FALSE)
  /\ UNCHANGED <<kernel, next, ctxDone, reaping, history>>

-----------------------------------------------------------------------------
(* reapAll                                                                 *)

\* wait4 returns a child; recordExit keeps direct exits and notifies.
Reap(p) ==
  /\ reaper = "wait" /\ p \in ChildrenOfInit /\ proc[p] = "zombie"
  /\ proc' = [proc EXCEPT ![p] = "reaped"]
  /\ recorded' = recorded \cup ({p} \cap Direct)
  /\ changed' = TRUE
  /\ UNCHANGED <<parent, root, handoff, barrier, killed, fault, starting, reaper, confirmed,
                 contained, supervision, io, history>>

\* Mutant: the reaper stops with the last direct command.
ConfirmDirectOnly ==
  /\ reaper = "wait" /\ \A t \in Launched : proc[t] = "reaped"
  /\ reaper' = "confirming" /\ confirmed' = TRUE /\ changed' = TRUE
  /\ UNCHANGED <<kernel, starting, recorded, contained, supervision, io, history>>

\* wait4 returns ECHILD: stop, up to the notification.
ReaperConfirms ==
  /\ reaper = "wait" /\ ChildrenOfInit = {}
  /\ reaper' = "confirming" /\ confirmed' = TRUE /\ changed' = TRUE
  /\ UNCHANGED <<kernel, starting, recorded, contained, supervision, io, history>>

ReaperFails ==
  /\ reaper = "wait" /\ fault = "wait"
  /\ reaper' = "closing" /\ changed' = TRUE
  /\ UNCHANGED <<kernel, starting, confirmed, recorded, contained, supervision, io,
                 history>>

\* Mutant: the channels are closed in the other order.
StopBeforeContainment ==
  /\ \/ reaper \in {"confirming", "closing"} /\ reaper' = "stopped" /\ UNCHANGED contained
     \/ reaper = "stopped" /\ confirmed /\ contained' = TRUE /\ UNCHANGED reaper
  /\ UNCHANGED <<kernel, starting, confirmed, recorded, changed, supervision, io, history>>

\* stop closes the containment channel before the other one.
ReaperStops ==
  /\ \/ reaper = "confirming" /\ reaper' = "closing" /\ contained' = TRUE
     \/ reaper = "closing" /\ reaper' = "stopped" /\ UNCHANGED contained
  /\ UNCHANGED <<kernel, starting, confirmed, recorded, changed, supervision, io, history>>

-----------------------------------------------------------------------------
(* terminateProcesses.  Its timers may expire at any time.                 *)

\* captureReaperFailure
Captured(t) ==
  IF ~t.seen /\ Stopped THEN [t EXCEPT !.seen = TRUE, !.sup = @ \/ ~confirmed] ELSE t

TermDone(t) == [t EXCEPT !.pc = "done"]

TermBegins ==
  /\ term.pc = "begin"
  /\ term' = IF contained THEN TermDone(term) ELSE Captured([term EXCEPT !.pc = "signal"])
  /\ UNCHANGED <<kernel, starting, reaping, sup, results, completion, io, history>>

\* SIGINT, SIGTERM, SIGKILL to every process of the namespace.
TermSignals ==
  /\ term.pc = "signal"
  /\ \/ /\ killed' = (killed \/ term.signal = 3)
        /\ signalled' = (signalled \/ \E t \in Direct : Alive(t))
        /\ term' = [term EXCEPT !.pc = "grace"]
     \/ /\ fault = "kill"
        /\ term' = [term EXCEPT !.pc = "grace", !.sup = TRUE]
        /\ UNCHANGED <<killed, signalled>>
  /\ UNCHANGED <<proc, parent, root, handoff, barrier, fault, starting, reaping, sup, results,
                 completion, io, prepared, written, delivered>>

\* waitForContainment
TermContained ==
  /\ term.pc = "grace" /\ contained
  /\ term' = TermDone(Captured(term))
  /\ UNCHANGED <<kernel, starting, reaping, sup, results, completion, io, history>>

\* The grace period is over: the next signal, or the wait for the reaper unless
\* there is an error already.
TermGraceOver ==
  /\ term.pc = "grace"
  /\ term' = LET t == Captured(term) IN
              IF t.signal < 3 THEN [t EXCEPT !.pc = "signal", !.signal = @ + 1]
              ELSE IF t.sup THEN TermDone(t) ELSE [t EXCEPT !.pc = "final"]
  /\ UNCHANGED <<kernel, starting, reaping, sup, results, completion, io, history>>

\* waitForReaperCompletion
TermReaperStopped ==
  /\ term.pc = "final" /\ Stopped
  /\ term' = TermDone([term EXCEPT !.sup = ~confirmed])
  /\ UNCHANGED <<kernel, starting, reaping, sup, results, completion, io, history>>

\* The context of the termination expires in either wait.
TermExpires ==
  /\ term.pc \in {"grace", "final"}
  /\ term' = TermDone([(IF term.pc = "grace" THEN Captured(term) ELSE term)
                        EXCEPT !.cont = TRUE])
  /\ UNCHANGED <<kernel, starting, reaping, sup, results, completion, io, history>>

-----------------------------------------------------------------------------
(* supervise                                                               *)

\* startReaders.  Without a direct command there is nothing to collect.
SupStarts ==
  /\ sup = "readers"
  /\ reader' = [s \in Streams |-> IF reader[s] = "bound" THEN "poll" ELSE "off"]
  /\ sup' = IF Launched = {} THEN "stop" ELSE "collect"
  /\ UNCHANGED <<kernel, starting, reaping, results, completion, term, pending, queue,
                 accepting, outputWake, writer, inputs, ioClosed, history>>

\* collectDirectResults: nextDirect looks at what is recorded.
SupCollects ==
  /\ sup = "collect"
  /\ LET new == recorded \ results IN
     IF new # {}
     THEN /\ results' = results \cup {Min(new)}
          /\ sup' = IF results' = Launched THEN "stop" ELSE "collect"
     ELSE /\ sup' = IF Complete THEN "stop" ELSE "collectWait"
          /\ UNCHANGED results
  /\ UNCHANGED <<kernel, starting, reaping, completion, term, io, history>>

SupWoken ==
  /\ sup = "collectWait" /\ changed
  /\ changed' = FALSE
  /\ sup' = "collect"
  /\ UNCHANGED <<kernel, starting, reaper, confirmed, recorded, contained, results,
                 completion, term, io, history>>

\* stopControls, then finishRemainingDescendants up to its wait.
SupStops ==
  /\ sup = "stop"
  /\ sup' = "await"
  /\ accepting' = FALSE
  /\ BeginTermination
  /\ UNCHANGED <<kernel, starting, reaping, results, completion, pending, reader, queue,
                 outputWake, writer, inputs, ioClosed, history>>

\* Mutant: the readers are stopped before the streams end.
WakeReadersAlways ==
  /\ sup = "await" /\ term.pc = "done"
  /\ sup' = "drain"
  /\ cancelled' = (cancelled \/ term.sup \/ term.cont)
  /\ outputWake' = TRUE
  /\ UNCHANGED <<kernel, starting, reaping, results, failed, published, waitErr, term,
                 pending, reader, queue, accepting, writer, inputs, ioClosed, history>>

\* The terminator is done.  Readers that may never see an end are stopped.
SupTerminated ==
  /\ sup = "await" /\ term.pc = "done"
  /\ sup' = "drain"
  /\ cancelled' = (cancelled \/ term.sup \/ term.cont)
  /\ outputWake' = (outputWake \/ ~confirmed)
  /\ UNCHANGED <<kernel, starting, reaping, results, failed, published, waitErr, term,
                 pending, reader, queue, accepting, writer, inputs, ioClosed, history>>

\* waitReaders, stopReaders
SupDrained ==
  /\ sup = "drain" /\ \A s \in Streams : reader[s] \in {"off", "done"}
  /\ sup' = "writers"
  /\ outputWake' = TRUE
  /\ UNCHANGED <<kernel, starting, reaping, results, completion, term, pending, reader,
                 queue, accepting, writer, inputs, ioClosed, history>>

\* Mutant: the descriptors are closed under a writer.
CloseUnderWriter ==
  /\ sup = "writers"
  /\ sup' = "publish"
  /\ ioClosed' = TRUE
  /\ UNCHANGED <<kernel, starting, reaping, results, completion, term, pending, reader,
                 queue, accepting, outputWake, writer, inputs, history>>

\* waitInputWriters, close, closeOutput
SupCloses ==
  /\ sup = "writers" /\ writer = "idle"
  /\ sup' = "publish"
  /\ ioClosed' = TRUE
  /\ UNCHANGED <<kernel, starting, reaping, results, completion, term, pending, reader,
                 queue, accepting, outputWake, writer, inputs, history>>

\* nextDirect ended early or newResult finds a gap.
ResultMissing == results # Launched

\* publish
SupPublishes ==
  /\ sup = "publish"
  /\ sup' = "done"
  /\ published' = TRUE
  /\ waitErr' = (ResultMissing \/ term.sup \/ term.cont \/ failed)
  /\ UNCHANGED <<kernel, starting, reaping, results, cancelled, failed, term, io, history>>

\* cancelWithContext, and FinishStartFailure after a failed start.
Cancel ==
  /\ (launch = "owned" /\ ctxDone) \/ launch = "ownedErr"
  /\ ~published /\ (~cancelled \/ accepting \/ term.pc = "off")
  /\ BeginCancellation
  /\ UNCHANGED <<kernel, starting, reaping, sup, results, failed, published, waitErr,
                 pending, reader, queue, outputWake, writer, inputs, ioClosed, history>>

-----------------------------------------------------------------------------
(* Output and input.                                                       *)

\* readOutput, up to what it has read; a wake-up goes before output.
ReaderPolls(s) ==
  /\ reader[s] = "poll"
  /\ IF outputWake
     THEN reader' = [reader EXCEPT ![s] = "done"] /\ UNCHANGED pending
     ELSE \/ /\ pending[s] > 0
             /\ pending' = [pending EXCEPT ![s] = @ - 1]
             /\ reader' = [reader EXCEPT ![s] = "deliver"]
          \/ /\ pending[s] = 0 /\ StreamEnded(s)
             /\ reader' = [reader EXCEPT ![s] = "done"]
             /\ UNCHANGED pending
  /\ UNCHANGED <<kernel, starting, reaping, supervision, queue, accepting, outputWake,
                 writer, inputs, ioClosed, history>>

\* Waiting or reading fails.
ReaderFails(s) ==
  /\ reader[s] = "poll" /\ ~outputWake /\ fault = "read"
  /\ reader' = [reader EXCEPT ![s] = "done"]
  /\ FailSupervision
  /\ UNCHANGED <<kernel, starting, reaping, sup, results, published, waitErr, pending,
                 queue, outputWake, writer, inputs, ioClosed, history>>

\* Mutant: the reader waits for the consumer.
WaitForever(s) == FALSE

\* deliverOutput: the channel stays full for abortTimeout.
ReaderTimesOut(s) ==
  /\ reader[s] = "deliver" /\ queue = OutputSlots
  /\ reader' = [reader EXCEPT ![s] = "done"]
  /\ FailSupervision
  /\ UNCHANGED <<kernel, starting, reaping, sup, results, published, waitErr, pending,
                 queue, outputWake, writer, inputs, ioClosed, history>>

\* deliverOutput
ReaderDelivers(s) ==
  /\ reader[s] = "deliver" /\ queue < OutputSlots
  /\ queue' = queue + 1
  /\ delivered' = [delivered EXCEPT ![s] = @ + 1]
  /\ reader' = [reader EXCEPT ![s] = "poll"]
  /\ UNCHANGED <<kernel, starting, reaping, supervision, pending, accepting, outputWake,
                 writer, inputs, ioClosed, prepared, written, signalled>>

\* The consumer of Output, which owes nothing to the set.
Consume ==
  /\ queue > 0
  /\ queue' = queue - 1
  /\ UNCHANGED <<kernel, starting, reaping, supervision, pending, reader, accepting,
                 outputWake, writer, inputs, ioClosed, history>>

\* borrowControl
BorrowControl ==
  /\ writer = "idle" /\ inputs < MaxInputs /\ accepting
  /\ writer' = "writing"
  /\ inputs' = inputs + 1
  /\ UNCHANGED <<kernel, starting, reaping, supervision, pending, reader, queue,
                 accepting, outputWake, ioClosed, history>>

\* writePTYInput: done, ended by stopControls, or failed because no process has
\* the other end of the terminal.
WriterWrites ==
  /\ writer = "writing"
  /\ \/ writer' = "idle"
     \/ (~accepting \/ \E s \in Streams : StreamEnded(s)) /\ writer' = "writeFailed"
  /\ UNCHANGED <<kernel, starting, reaping, supervision, pending, reader, queue,
                 accepting, outputWake, inputs, ioClosed, history>>

\* The end of writeInput: an error counts while controls are accepted.
WriterReports ==
  /\ writer = "writeFailed"
  /\ writer' = "idle"
  /\ IF accepting THEN FailSupervision ELSE UNCHANGED <<failed, cancelled, accepting, term>>
  /\ UNCHANGED <<kernel, starting, reaping, sup, results, published, waitErr, pending,
                 reader, queue, outputWake, inputs, ioClosed, history>>

-----------------------------------------------------------------------------
HelperStep(t) == HelperPrepares(t) \/ HelperFails(t) \/ HelperReleased(t) \/ HelperExecutes(t) \/ HelperExecFails(t)
StartStep ==
  \/ LaunchChild \/ LaunchFails \/ AwaitReady \/ NotReady \/ ReleaseBarrier \/ ReleaseFails
  \/ AwaitExec \/ NotExecuted \/ AbortReaped \/ AbortKills \/ AbortGivesUp
ReaperStep == (\E p \in Procs : Reap(p)) \/ ReaperConfirms \/ ReaperStops
TermStep ==
  TermBegins \/ TermSignals \/ TermContained \/ TermGraceOver \/ TermReaperStopped \/ TermExpires
SupStep ==
  \/ SupStarts \/ SupCollects \/ SupWoken \/ SupStops \/ SupTerminated \/ SupDrained
  \/ SupCloses \/ SupPublishes
ReaderStep(s) == ReaderPolls(s) \/ ReaderTimesOut(s) \/ ReaderDelivers(s)
WriterStep == BorrowControl \/ WriterWrites \/ WriterReports

ChildNext ==
  \/ \E t \in Direct : HelperStep(t)
  \/ \E p \in Procs, d \in Descendants : Fork(p, d)
  \/ \E p \in Procs : Exit(p) \/ WriteOutput(p)
  \/ StartBegins \/ StartRejects \/ CancelContext \/ Cancel \/ Consume
  \/ StartStep \/ ReaperStep \/ TermStep \/ SupStep \/ WriterStep
  \/ \E s \in Streams : ReaderStep(s) \/ ReaderFails(s)
  \/ ReaperFails

\* The supervisor's goroutines run and its timers expire; a killed process
\* dies; a call of WriteInput is ended by the end of the controls.  Commands
\* and the consumer of the output owe nothing, and no call has to fail.
ChildFairness ==
  /\ WF_vars(StartStep \/ SupStep) /\ WF_vars(ReaperStep) /\ WF_vars(TermStep)
  /\ \A s \in Streams : WF_vars(ReaderStep(s))
  /\ WF_vars((~accepting /\ WriterWrites) \/ WriterReports) /\ WF_vars(Cancel)
  /\ \A p \in Procs : WF_vars(killed /\ Exit(p))

ChildSpec == ChildInit /\ [][ChildNext]_vars /\ ChildFairness

-----------------------------------------------------------------------------
FlagsOK ==
  /\ killed \in BOOLEAN /\ ctxDone \in BOOLEAN /\ confirmed \in BOOLEAN
  /\ changed \in BOOLEAN /\ contained \in BOOLEAN /\ cancelled \in BOOLEAN
  /\ failed \in BOOLEAN /\ published \in BOOLEAN /\ waitErr \in BOOLEAN
  /\ accepting \in BOOLEAN /\ outputWake \in BOOLEAN /\ ioClosed \in BOOLEAN
  /\ signalled \in BOOLEAN

TermOK ==
  term \in [pc : {"off", "begin", "signal", "grace", "final", "done"}, signal : 1..3,
            sup : BOOLEAN, cont : BOOLEAN, seen : BOOLEAN]

StreamsOK ==
  /\ reader \in [Streams -> {"off", "bound", "poll", "deliver", "done"}]
  /\ pending \in [Streams -> Nat] /\ written \in [Streams -> Nat]
  /\ delivered \in [Streams -> Nat]
  /\ queue \in 0..OutputSlots

TypeOK ==
  /\ proc \in [Procs -> {"none", "preparing", "prepared", "released", "running",
                         "zombie", "reaped"}]
  /\ parent \in [Descendants -> Procs \cup {Adopted}]
  /\ root \in [Descendants -> Direct]
  /\ handoff \in [Direct -> Handoffs]
  /\ barrier \in {"open", "released", "closed"}
  /\ launch \in {"idle", "launching", "ready", "release", "exec", "aborting",
                 "abortKilled", "owned", "ownedErr", "refused"}
  /\ next \in Direct
  /\ reaper \in {"off", "wait", "confirming", "closing", "stopped"}
  /\ recorded \subseteq Direct /\ results \subseteq Direct /\ prepared \subseteq Direct
  /\ sup \in {"off", "readers", "collect", "collectWait", "stop", "await", "drain",
              "writers", "publish", "done"}
  /\ writer \in {"idle", "writing", "writeFailed"}
  /\ TermOK /\ StreamsOK /\ FlagsOK

\* No command is executed before every command of the set is prepared: the
\* barrier of start and of runInheritedHelper.
StartTogether == (\E t \in Direct : proc[t] = "running") => prepared = Direct

\* When start returns an error without a set, or ContainmentDone is closed, no
\* process is left, adopted descendants included (abortBeforeBarrier, reapAll).
ContainmentMeansAbsent ==
  contained \/ launch = "refused" => \A p \in Procs : proc[p] \in {"none", "reaped"}

\* When start has returned a set and no error, a result without an error and
\* without a cancellation comes from commands that all ended before the first
\* signal was sent (finishRemainingDescendants signals what they left behind).
UndisturbedResult ==
  launch = "owned" /\ published /\ ~waitErr /\ ~cancelled
    => results = Direct /\ ~signalled

\* A Wait without an error comes after everything the commands and their
\* descendants wrote has reached the output channel (supervise, readOutput).
OutputComplete ==
  published /\ ~waitErr => \A s \in Streams : delivered[s] = written[s]

\* The group is contained: its commands are executed together or not at all, and
\* whoever is told that it is gone finds no process of it, descendants included
\* (start, abortBeforeBarrier, reapAll).
GroupContained == TypeOK /\ StartTogether /\ ContainmentMeansAbsent

\* What Wait returns without an error is the commands' own doing: none of them was
\* signalled before it ended, and nothing of their output is missing.
ResultFaithful == UndisturbedResult /\ OutputComplete

\* The descriptors of the streams and of the wake-ups are closed only when no
\* reader and no writer can use them any more (processIO.close).
NoUseAfterClose ==
  ioClosed => writer = "idle" /\ \A s \in Streams : reader[s] \in {"off", "done"}

\* A start whose context is done returns, however its helpers behave.
CancelledStartReturns ==
  ctxDone /\ launch \in {"ready", "exec", "aborting", "abortKilled"}
    ~> launch \in {"owned", "ownedErr", "refused"}

\* Once SIGKILL is sent to an owned set, Wait returns: whether the consumer
\* takes the output, the input is blocked or the reaper has failed.
KilledSetEnds == killed /\ sup # "off" ~> published

\* Neither start nor Wait can be kept from returning, once the context is done or
\* SIGKILL is sent.
SetEnds == CancelledStartReturns /\ KilledSetEnds

-----------------------------------------------------------------------------
(* ChildProcesses implements ProcessGroup.                                 *)

GroupStart ==
  CASE launch = "idle" -> "none"
    [] launch \in {"owned", "ownedErr"} -> "owned"
    [] launch = "refused" -> "refused"
    [] OTHER -> "starting"
GroupLive == \E p \in Procs : proc[p] \notin {"none", "reaped"}
GroupVerdict == IF ~published THEN "open" ELSE IF waitErr THEN "dirty" ELSE "clean"

Group == INSTANCE ProcessGroup WITH
  start <- GroupStart, live <- GroupLive, evidence <- contained, verdict <- GroupVerdict

\* Every step of the set is a step of the abstract group or leaves it alone:
\* in particular Wait returns no error only when the evidence is visible.
ImplementsGroup == Group!GroupSpec

-----------------------------------------------------------------------------
(***************************************************************************)
(* The invariant behind the safety properties.                             *)
(***************************************************************************)

Exists(p) == proc[p] \notin {"none", "reaped"}
NothingLeft == \A p \in Procs : ~Exists(p)

\* Commands are launched one after the other, and nothing before them.
LaunchInv ==
  /\ launch = "idle" => next = 1 /\ \A p \in Procs : proc[p] = "none"
  /\ launch = "launching" =>
       /\ \A d \in Descendants : proc[d] = "none"
       /\ \A t \in Direct : proc[t] = "none" <=> t >= next
  /\ launch \in {"ready", "release", "exec", "owned"} => Launched = Direct
  /\ Launched = {} => \A p \in Procs : proc[p] = "none"
  /\ launch \in {"idle", "launching"} => reaper = "off"

\* A descendant has a running parent or is adopted, and the parents of the
\* processes that exist form no cycle: who is not a child of init has an
\* ancestor that is.
TreeInv ==
  /\ \A d \in Descendants :
       Exists(d) /\ parent[d] # Adopted => proc[parent[d]] = "running"
  /\ \A S \in SUBSET Descendants :
       S # {} /\ (\A d \in S : Exists(d)) => \E d \in S : parent[d] \notin S

\* The barrier is released when every helper has handed over.
BarrierInv ==
  /\ \A t \in Direct : handoff[t] = "prepared" => t \in prepared
  /\ launch = "ready" => \A t \in Direct : t < next => t \in prepared
  /\ launch \in {"release", "exec", "owned"} \/ barrier = "released" => prepared = Direct
  /\ barrier = "released" => launch \in {"exec", "owned", "ownedErr"}
  /\ \A t \in Direct : proc[t] \in {"released", "running"} => barrier = "released"

\* What the reaper has confirmed and recorded, and the evidence of it.
ReaperInv ==
  /\ confirmed => reaper \notin {"off", "wait"} /\ NothingLeft
  /\ contained => confirmed
  /\ reaper = "confirming" => confirmed
  /\ reaper \in {"closing", "stopped"} /\ confirmed => contained
  /\ launch = "refused" => NothingLeft
  /\ \A t \in recorded : proc[t] = "reaped"
  /\ results \subseteq recorded

\* What supervise has done by each of its steps.
SupInv ==
  /\ sup = "off" <=> launch \notin {"owned", "ownedErr"}
  /\ sup = "off" =>
       /\ term.pc = "off" /\ ~accepting /\ ~cancelled /\ ~failed /\ ~signalled
       /\ results = {} /\ \A s \in Streams : reader[s] = "off"
  /\ \A s \in Streams : IF sup \in {"off", "readers"} THEN reader[s] \in {"off", "bound"}
                                                      ELSE reader[s] # "bound"
  /\ sup \in {"await", "drain", "writers", "publish", "done"} =>
       ~accepting /\ term.pc # "off"
  /\ sup \in {"drain", "writers", "publish", "done"} => term.pc = "done"
  /\ sup \in {"writers", "publish", "done"} =>
       \A s \in Streams : reader[s] \in {"off", "done"}
  /\ ioClosed => sup \in {"publish", "done"}
  /\ sup \in {"publish", "done"} => writer = "idle"
  /\ published <=> sup = "done"
  /\ outputWake => \/ sup \in {"writers", "publish", "done"}
                   \/ sup = "drain" /\ (term.sup \/ term.cont)

\* How the terminator ends, and whom it may have signalled.
TermInv ==
  /\ term.pc = "done" => contained \/ term.sup \/ term.cont
  /\ launch = "owned" /\ ~cancelled =>
       /\ term.pc # "off" => sup \in {"await", "drain", "writers", "publish", "done"}
       /\ signalled => term.pc # "off" /\ results # Launched
  /\ published /\ ~waitErr => results = Launched /\ ~term.sup /\ ~term.cont /\ ~failed

\* Where the output of a stream is.
OutputInv ==
  \A s \in Streams :
    /\ reader[s] \in {"off", "bound", "poll"} => written[s] = pending[s] + delivered[s]
    /\ reader[s] = "deliver" => written[s] = pending[s] + delivered[s] + 1
    /\ reader[s] = "done" =>
         \/ failed
         \/ term.pc = "done" /\ (term.sup \/ term.cont)
         \/ written[s] = delivered[s] /\ StreamEnded(s)
    /\ Launched = {} => written[s] = 0
    /\ sup # "off" /\ reader[s] = "off" => failed \/ Launched = {}

ChildInv ==
  TypeOK /\ LaunchInv /\ TreeInv /\ BarrierInv /\ ReaperInv /\ SupInv /\ TermInv /\ OutputInv
=============================================================================
