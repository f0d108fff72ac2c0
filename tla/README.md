# Transfer Lanes: a TLA+ model of its runs

Transfer Lanes copies one directory over several local networks at once: each
network gets a network namespace, a read-only view of a part of the files and a
command that transfers it. A run changes the state of the host (directories
under `/var/tmp/transferlanes`, links, routes, rules, firewall entries, mounts)
and has to put everything back after success, failure, cancellation and the
death of any of its processes. That promise is what this project is about.

The modules model the Go packages under `src/internal/`. Every definition that
stands for code is listed in `PROJECT.json` ("map") with the lines it
translates; this file describes the system, the models, what the runs and the
proofs show, and what is left.

## The system

A run has two processes. The *parent* (`cli`, `runcommand`, `runoutput`,
`terminal` or `plainoutput`, `runlogs`) owns the terminal, the logs and the
signals. It starts its own executable as the *supervisor* (`runsupervisor`,
`transferworker`), which is the init of a PID namespace and does the work
(`transfer`): it recovers what earlier runs left behind, creates a run root
(`rundirectory`), opens the file views (`fileviews`), the host network
(`hostnetwork`) and the resolvers (`namespaceresolvers`), starts the commands
(`childprocesses`), and undoes all of it.

| component | state it keeps | operations | interacts with | hard behaviours | correct when |
|---|---|---|---|---|---|
| `rundirectory` | names and lock files in the authority directory; three kinds of advisory locks | Create, Complete, Close, RetainLivenessUntil, RecoverStale | every process of the host, through the file system | claims without the authority lock; death and power loss between any two calls | a run has one owner; active runs are untouched; evidence stays reachable |
| `runsupervisor` | three pipes, the sender's state, the cancellation reason, the child process | Launch, Cancel, Resize, WriteInput, Next, CloseLifeline, Wait; serve | parent and supervisor | six goroutines in two processes, a full pipe, a hung or killed peer | nothing outlives Launch or Wait; no work without a commit; one truthful final |
| `runcommand` | termination inbox, phase of the session, resources held | Command.Run, signals, drive, shutdown | supervisor client, display, logs | signals during preparation, requests racing with the completion | every way out releases everything; the first reason counts; a request ends the run |
| `runoutput` | the display's and the log's failure | forward | client, logs, display | failures in the middle of the stream | the final is read whatever fails |
| `terminal` | pending instructions, input subscription, screens | Program.Run, Show, StopCommands, Finish | keyboard, client, forwarder | a control write that blocks, a lost terminal | the terminal is restored and the loop ends |
| `hostnetwork` | host lock, claims and activations in the run roots, kernel objects, receipts | Open, OpenNamespace, Close, Recover | kernel, run roots of all runs | death between two kernel objects; concurrent runs; foreign objects | identities are disjoint; every object is claimed on disk; foreign objects are untouched |
| `transfer` | which resources are open | Run, cleanup, retention | all owners | cleanup after a partial start; owners that do not stop | reverse order; liveness is kept while anything is in use |
| `childprocesses` | barrier, direct and adopted children, reaper | Start, Cancel, Wait, ConfirmContainment | kernel, supervisor | escalation of signals, reparented descendants | no descendant outlives the set |
| `fileviews` | leases, mount, descriptors, evidence | Open, OpenView, Close, Recover | kernel, run root | retried Close | each step of Close happens once and in order; what is left can be recovered |
| `namespaceresolvers` | listeners, handlers, upstream connections | Open, Close | child commands | handlers starting during shutdown | no handler after Close |
| `runlogs` | files, latched error | Write, Close | forwarder | partial writes | logs outlive what is written to them |
| `plainoutput` | lines and updates in progress, sanitizer, latched errors | Begin, Show, Close | forwarder | split characters and controls, failing writes | each line once, in full, in bounds, without controls |
| `sourcefiles` | descriptors of the source, snapshot, leases | Open, Scan, Borrow, Allocate, OpenRegular | other programs, `fileviews` | changes during and after a scan, links | what is shown is what was scanned; one transfer per item; no descriptor is lost |
| `throughput` | streams, helpers, observations | Observe, RelativeWeights | network, helpers | failures that cause others, deadlines, rounding | weights state what was measured |
| `networkcatalog` | none | capture, Resolve | kernel | none | resolves as the kernel would |

`PROJECT.json` lists all of them, the ones that are not modelled with the
reason, and the hazards at the lines where they bite.

## The modules

### RunDirectory

`name[r]`, `entries[r]` and the three locks are what the processes share; `pc`,
`op`, `run` and `todo` are where each process is in which operation. A run root
is one directory inode, which keeps its identity under its staging, published
and removing names, as it does for the code, which compares inodes. Each system
call that another process can observe, or that a crash can separate from the
next one, is an action of its own: `MakeStaging` ... `SyncPublished` are
`stageRun` and `commitRunPublication`, `Isolate` ... `SyncRemoved` are
`removeClaimedRun` and `removeUnpublished`, `OpenRecovery` ... `TryLiveness`
are `claimRun`. `diskName` and `diskEntries` are the images of the directories
that a power loss may leave: a change adds an image, a sync leaves one.
`Fault(p)` is the failure of the call at `pc[p]` with the error path that the
code takes from there. The locks are advisory locks of open descriptors: they
vanish with the process.

Abstracted: the contents of the lock files, the modes and owners that are
validated, the suffix of temporary names, all of the evidence in a root as one
entry `"evidence"` (the network's and the views' files, whose own durability is
theirs to keep).

### SupervisorSession

Both ends of the three pipes. The parent goroutine steps through `launch`
(`Launch`, then the client, then `Wait`), beside it a control writer and an
event reader; the supervisor has its main goroutine `sup`, `canceller`
(`readCancellation`) and `controls` (`readControls`). Pipes are sequences of
frames with a capacity; the end of a pipe is a property of the ends that are
still open. `ProcessEnds` is the kernel closing what a process had.
`committed`, `ran`, `causes` and `mishap` are history variables: no action
reads them.

Abstracted: the encoding of frames, the text of diagnostics, the request. The
limits (`supervisorReapLimit`, `eventBackpressureLimit`) may expire at any time
while what they wait for has not happened.

### RunCommand

Extends SupervisorSession by the rest of the parent: the preparation of
`Command.Run`, the signal watcher, the termination inbox, the session, the
forwarder and the display driver. Where the parent calls the client, the action
of SupervisorSession is a conjunct (`ForwardRead` contains `ReadEvent`,
`SendInstruction` contains `BeginControl`) or its effect is repeated for all
states of the sender (`CancelOrClose`, `CloseLifelineOnce`). The free client of
SupervisorSession is thereby replaced by the code that really calls it.

Abstracted: what is shown and logged, the decoding of keys (an input is a key
for the child, Control-C or the loss of the terminal).

### HostNetwork

The network of a run: the evidence in its root (`dir`, `disk`), its objects in
the kernel (`objects`, `traffic`), the host lock, and per process the step of
`Owner.Open`, `Session.Close` or `Owner.Recover` it is in (`pc`, `op`) with the
receipts it holds. The objects are numbered in the order of their installation
(links, then route and two rules per transfer, then the firewall), so that the
clean-up order is the descending one. `Opening` is `openLocked` and
`installPublished`; `Cleaning` is what `rollbackOpen`, `closeSession` and
`recoverLocked` share; `Targets` is where they differ (receipts or claim). As in
the code, an error is noted and the clean-up goes on; `verifyCleanup` decides
whether the evidence may go. The kernel dissolves the namespaces of a dead
process link by link, and routes somewhat later: `Dangling` routes are what
`removeActivatedWeakFIBDuringLinkCascade` waits for.

Abstracted: an identity (subnets, priorities, return table, protocol, names) is
one value of `Slots`; two identities conflict when they are equal. Firewall
programs are `FirewallParts` changes: one for nftables, whose batch is atomic,
several for iptables. Which process owns a run root is what RunDirectory
proves; here `life` keeps the outcome. A discard name counts as the temporary
name it replaces.

### ProcessGroup and ChildProcesses

ProcessGroup is the abstract specification of what `childprocesses` promises to
its callers: a start hands over a set or proves that nothing is left, the
evidence of containment is never wrong, and `Wait` returns no error without that
evidence. ChildProcesses is the code: `launch` steps through `start` (helpers,
ready messages, barrier, execution, abort), `reaper` through `reapAll`, `sup`
through `supervise`, `term` through `terminateProcesses` with its three signals
and grace periods, `reader[s]` and `writer` through the poll loops of processIO.
Processes fork, exit, are orphaned and adopted by the supervisor at any time.
`ImplementsGroup` is the refinement: `evidence` is the closed containment
channel, `live` is that some process is not reaped, `verdict` what Wait returns.

Abstracted: what a helper does between its start and its ready message is one
step that may fail (namespace, views, credentials, descriptors, terminal); chunks
of output are counted; one kind of system call fails in a behaviour (`fault`,
chosen once), any number of times.

### FileViews, NamespaceResolvers and TransferRun

FileViews is the life of a set of views: `AcquireAccess` ... `MountViews` are
`FileViews.open`, `vpc` and `set` are the position in `FileViewSet.Close` and the
fields that let its retry skip what is done, `erase` is the removal of the
evidence, which `Close`, a failed `Open` and a recovery share. NamespaceResolvers
has a goroutine per listener and per query, and `beginShutdown` beside them:
`doomed` is the snapshot of connections that `stopAcceptingHandlers` takes and
closes after it has released the mutex. `contextDone` is the forwarder's context,
a child of the run's: it ends with a cancellation of the run (`CancelContext`) or
with the forwarder's own shutdown. From then on dials are refused, so that a query
gets a failure for an answer, and a server ends when its listener reports an error
(`ListenerFails`); for a closed listener that is certain (`ServerEnds`).

TransferRun composes both in full with `TransferDirectory.Run` and `cleanup.go`:
`pc` is the acquisition, `clean` the cleanup, which either Run or a goroutine
goes through (`who`); `lock` is the liveness lease. The commands, and before them
the helpers that measure, are a `ProcessGroup`: TransferRun uses of them only what
ChildProcesses is shown to implement. The run root is present or gone, and
`netEvidence` is what it says of the host network, as RunDirectory and HostNetwork
justify: nothing, a claim, a claim with routing rules in the kernel (`weak`), an
activated network. `networks.open` goes through these in three steps
(`PublishClaim`, `InstallNetwork`, `ActivateNetwork`), each of which may fail, with a
rollback that may fail too. `CancelRun` is the cancellation of the run at any
time: calls to come may fail by it, views are not opened any more and
the forwarder's context is done; cleanup has contexts of its own.
`SupervisorEnds` may happen at any step, inside `networks.open` too; another process
then recovers, and may die in between (`RecoverDies`). As in `linuxHost.Cleanup`, a
recovery fails as long as there are rules that were never activated, since they
may be another's; `RulesRemoved` is somebody removing them. `pc = "client"` is a
behaviour in which views are opened and closed by a caller that retries, without a
run.

Abstracted: identities of inodes (nothing replaces the entries of a private run
root), DNS messages, the FUSE protocol. A dying supervisor releases its mount,
sockets and locks in one step. The objects of a network are told apart in
HostNetwork only.

### SourceFiles, Allocation, Throughput, TransferPlan and LogicalSource

SourceFiles has the file system as a function from directories and names to
objects, which other programs change (`touched`, `retouched` are history). A scan
is a stack of `scanDirectory` activations with one action per system call;
`walk` is `sourceSymlinkWalk`, component by component, with `..`, absolute texts,
links in the middle and trailing slashes. `root.anchors` are the directories kept
open for later (`addBackingDirectory`), `lease` is SourceAccess, `fds` counts the
open descriptors; `Route` is what `openBackingObject` meets on its way, name by
name. Allocation is `AllocateTransferItems` and `buildViewDirectory` as operators,
with products of two machine words; a sorted slice is a set with the order in which
its elements are taken (`NextFile`, `MinimumLoad`). Throughput is `observeTarget`
with parallel streams, their shared context and its cause, helpers that die, and
`RelativeWeights` with its rounding and its greatest common divisor.

TransferPlan composes them: the command opens the source and hands it over, the
supervisor scans it, gets the weights, allocates and serves. Its properties compare
this with what was in the tree (`ShownAsItWas`, `OpensWhatWasCaptured`), and the
result of the allocation with what is demanded of it. LogicalSource has the
reference definitions that know the whole tree (`LogicalTree`, the tree as resolved
by following links without steps or descriptors), with which `ExactScan` compares
the scan.

Abstracted: names are numbers, a link's text is a sequence of components; an open
through the lease is one step; the counters of a summary; one open handle at a
time. `Word`, `Limit` and `Scale` are small so that products overflow a word
and quotients are rounded; `MaxLinks` is 3 in place of 40.

### PlainOutput and LogicalLines

PlainOutput translates `output.go` and `sanitizer.go` byte by byte: the states of
the sanitizer with UTF-8 inside and outside of control strings, the assembly of
lines with progress updates and their interval, segments of long lines, and
writers that latch their first error. LogicalLines states what is promised
without the machinery: the updates of a logical line are what lies between its
carriage returns, and the text without control sequences is what remains when
whole sequences are dropped. `streams[k].text`, `shown` and `ended` are history.

Abstracted: the prefix of a line, the clock (an interval is over or not).

## Runs

A parameter called `Environments` or `Scenarios` is a set of instances: each
behaviour picks one in its initial state and keeps it (`env`, `scenario`), so that
one run covers several constellations. Properties that state one promise in
several parts are conjunctions, whose named parts stand above them in the module.

| run | instance | shows |
|---|---|---|
| `run_directory` | 2 processes, 2 runs, power loss, and one death or failing call at any step | `ExclusiveOwnership`, `ActiveRunUntouched`, `EvidenceReachable`; `DurablyClaimable`: what the disk shows as published can be claimed; `NobodyWaits`: Complete returns and the authority lock is released |
| `run_directory_race` | 2 processes, 1 run, no failure | *violated*: a recovery fails beside a completion |
| `supervisor` | 2 reasons, 2 control slots, deaths, faults; the supervisor may stop anywhere | `LaunchIsClean`: no work without a commit, no trace of a cancelled launch; `NothingOutlivesReturn`; `FinalHasCause`; `ParentReturns`: Launch, Wait and blocked writes return; `SupervisorFollows`: a responsive supervisor ends |
| `run_command_ends` | plain output with 2 signals, caller, deaths, faults; the interactive display without | `RunIsClean`: a run cancelled in preparation starts nothing, logs outlive the forwarder; `AllReleased`; `RequestsEndRun` |
| `run_command_terminal` | interactive, faults | `FirstReasonWins`, `FinalReachesResult` |
| `run_command_control_c` | interactive | *violated*: Control-C is not read while an instruction is pending |
| `host_network` | 2 processes, 2 identities, 2 firewall parts; 2 runs with deaths, 1 run with deaths, faults and foreign rules, 2 runs with power loss | `IdentitiesDisjoint`; `LeasesSound`: leased namespaces are complete and activated; `EvidenceSuffices`: everything in the kernel is claimed, the evidence can be read; `RecoveryFailsOnlyUnactivated`; `HostLockReleased` |
| `child_processes` | 2 commands, 1 descendant, 1 output stream, 4 kinds of faults | `GroupContained`: start together, contained means gone; `ResultFaithful`: an undisturbed result with complete output; `ImplementsGroup` |
| `child_processes_end` | 1 command, 2 chunks for 1 slot, 1 input, failing wait | `NoUseAfterClose`; `SetEnds`: start returns once cancelled, Wait once killed |
| `transfer_run` | 2 transfers, UDP and TCP listener, 1 query with 2 tries, 1 fault, cancellation and death anywhere | `ServedWhileNeeded`: a process has its network and views, and until the run is cancelled a forwarder that asks the host's resolvers; `ClosedIsClean`, `FreedMeansIdle`, `CleanupReturns`; `CrashRecovered`: what a dead supervisor left is recovered, unless it is rules that were never activated, and no root goes before what it is needed for |
| `transfer_plan` | all placements of 1 directory, 1 file and 1 link with 8 texts, followed and not; pairs of links; trees with up to 2 changes; faults; 2 targets with 2 streams | `ExactScan`: a scan returns exactly the logical tree; `CapturedAsItWas`: also beside changes, and views open later what was captured; `DescriptorsOwned`, `FairShares`, `MeasuredTruthfully`; `PlanReturns`: the plan always comes to serve its views or to close the source |
| `plain_output` | all sequences of 6 bytes with a two-byte character, of 9 ASCII bytes, of control bytes; 2 streams with failing writers; line bound 4 | `Bounded`, `ControlsRemoved`, `OutputSettled`; `TextArrives`: an ended line shows its latest update in full (`LogicalLinesShown`) and no text is lost to a control (`SanitizerExact`) |

**Bounds.** Two processes are enough for every pair of roles at one run root
(owner and recovery, two recoveries); two runs let a recovery meet a live and a
stale one in the same pass. Capacities of one or
two frames make every full and every empty queue reachable with few frames;
the code's capacities (64 KiB pipes, 32 controls) only need more of them. One
pending instruction beside one in flight is what `readyChannels` tells apart;
`MaxPending` bounds the sequence the code leaves unbounded. Each signal arrives
once: a second one of the same kind is dropped by the inbox while the first is
pending and ignored afterwards. For HostNetwork, two processes and two runs meet
in every role (two opening, one opening beside a stale or closing one), two
identities make the allocation choose and run out, and two firewall parts make
a partial firewall possible; one transfer has all kinds of objects.
Two commands make a barrier, one descendant can be orphaned, adopted and keep a
pipe open; two chunks overflow an output channel of one. In TransferRun one query
per listener is enough to meet the shutdown at each of its steps, and one failing
call to separate every two steps of a Close and its retry. In TransferPlan three
directories give a source, an outside and an inside; a link can point to itself,
upwards, to the other link, out of and back into the source. A line bound of four
bytes is the smallest that holds every character; the line properties depend on
the bound only through what fits. For the properties that are proved (see Proofs)
these bounds do not matter: the theorems hold for every value of the constants.

`DurablyClaimable` and the readability of HostNetwork's evidence are stated
for behaviours without process deaths and failing calls. The disk of
the models may reorder the
changes of one directory until it is synced. A process that dies between an
unlink and its sync (`evidence_store_unix.go:305`) leaves a change that the next process does not sync before
it makes its own; if power is lost then, a reordering disk could show the later
change without the earlier one. File systems with a journal do not. In the same
way a publication that fails after its rename (`publish_unix.go:147`) is undone
without a sync.

**Fairness.** `RunDirectory` assumes that a process which is inside an
operation goes on; no process has to start one. HostNetwork states the release
of its lock as an invariant instead: a holder can always take a step
(`HolderGoesOn`), and no operation returns or waits with the lock held
(`LockGivenUp`).
`SupervisorSession!Spec`
assumes fairness of the parent only: its goroutines run, its timers expire, a
killed process dies. `SupervisorFollows` adds, as the premise of the implication, the supervisor's goroutines and that
the work returns once its context is done, for every cleanup step of
`transfer.Run` has a deadline. `RunCommand` assumes the same, and strong
fairness for the case of the terminal loop that reads the keyboard: a Go
`select` chooses among its ready cases at random, so a case that is ready again
and again is taken. ChildProcesses: the supervisor's goroutines and timers run and
a process that got SIGKILL exits; commands owe nothing, and neither does the
consumer of their output. TransferRun: the same goroutines, those of the
forwarder, and that later runs recover; processes, the FUSE server and DNS clients need not
end, and nobody needs to cancel the run or to remove rules. TransferPlan: command and supervisor go
on while they scan, measure, allocate and close, and the kernel closes the files of
commands that have ended. `PlanReturns` therefore allows a behaviour to serve for
ever. Nothing is assumed of other programs. In no module need a command read its
input or end.

`CHECK_DEADLOCK FALSE` stands where a behaviour comes to its end: a run, a set of
processes or an output that has returned stops, and HostNetwork's fixed set of
runs is used up.

## What the violations show

`run_directory_race`: `claimRun` opens a published root and its lock files
without the authority lock. If the owner completes the run in between, the files
are gone and `RecoverStale` returns the error, so that a run that starts at that
moment fails. `snapshot_test.go` expects recovery to succeed beside a
completion; it exercises only the order in which the claim comes first.

`run_command_control_c`: while a command does not read its input, the control
write of the focused terminal blocks and the next key stays pending;
`readyChannels` then no longer listens to the keyboard. Control-C is not
noticed until the command reads or exits; signals still work.

Two limits are stated in the properties instead, for the code means them. A run that
is cancelled lets its commands end in their grace periods, in which their queries are
answered by failures (`ServedWhileNeeded`). And a supervisor that ends between the
first routing rule and the activation leaves rules that no recovery removes
(`CrashRecovered`): "If ownership cannot be established safely, Transfer Lanes leaves
the resources in place" (the repository's README), and `crash_recovery_root_test.go`
removes them itself.

## Proofs

Eight modules hold theorems of the form `Spec => []P`, for every value of the
constants that the assumptions admit. Each rests on an inductive invariant,
which stands at the end of the component's module as a conjunction of named
parts; TLC has checked it on the run's instance before it was proved. The proof
that a step preserves it has one lemma per action, below it a step per part
that the action can disturb; lemmas factor what several actions share.

| module | theorems about | for any |
|---|---|---|
| RunDirectoryProofs | `TypeOK`, `ExclusiveOwnership`, `ActiveRunUntouched`, `EvidenceReachable`, `DurablyClaimable` | processes, run IDs, deaths, failing calls, power losses |
| SupervisorSessionProofs | `LaunchIsClean`, `NothingOutlivesReturn`, `FinalHasCause` | reasons, capacities of pipe and queue |
| RunCommandProofs | `AllReleased`, `RunIsClean`, `FirstReasonWins`, `FinalReachesResult` | the same, signals, pending instructions |
| HostNetworkProofs | `IdentitiesDisjoint`, `LeasesSound`, `EvidenceSuffices`, `RecoveryFailsOnlyUnactivated`, `LockGivenUp` | processes, runs, identities, transfers, firewall parts, leases |
| ChildProcessesProofs | `GroupContained`, `ResultFaithful`, `NoUseAfterClose`, `ImplementsGroup` | commands, descendants, streams, chunks, slots |
| TransferRunProofs | `ServedWhileNeeded`, `ClosedIsClean`, `FreedMeansIdle`, `RemovedLeavesNothing` | transfers, listeners, queries, tries, faults |
| TransferPlanProofs | `DescriptorsOwned`, `CapturedAsItWas`, `FairShares`, `MeasuredTruthfully` | trees, links, changes, failing calls, weights, word sizes, targets, streams, scales and limits |
| PlainOutputProofs | `Bounded`, `ControlsRemoved`, `OutputSettled` | transfers, streams of bytes, failing writes, line bounds of at least 4 |

The assumptions are the named `ASSUME`s of the modules: null values are not
members of the sets they complete, numbers are naturals, capacities are not
zero, descendants are not commands, targets are finitely many, weights are positive,
scenarios are well typed. Nothing else is assumed.

**RunDirectory.** The properties say nothing of the locks, on which they rest.
`IndInv` adds:

- `AuthorityInv`: the holder of the authority lock is exactly the process at a
  step that changes names, so at most one process is between two such steps;
- `StepInv`: each step determines the operation and whether the process has a
  run root and which locks it holds on it;
- `CreatorInv`: run IDs are not reused, so two processes never create or
  complete the same root;
- `LivenessInv`: who owns a root holds its liveness lock, which is what makes a
  successful non-blocking lock a proof of staleness;
- `NameInv` and `ContentInv`: the name of a root and the lock files in it,
  from the step of the process that changes it;
- `DiskEvidenceInv`: an image with evidence belongs to a root whose only disk
  name is the published one.

`DurableInv`, inductive beside it, is for `DurablyClaimable`: a root that the
disk may show as published is published, or its isolation is about to be synced,
and before a first mishap no publication is undone.

**SupervisorSession.** `HoldingInv` says which ends of the pipes and copies of
the source are open at each step of the parent; `HandshakeInv` how far the
supervisor can be then and what can be in the control pipe, which is why no work
runs without a commit: the commit frame is written by nobody else and read by
nobody before. `DeliveryInv` is that the final is the last a supervisor does,
`SenderInv` that at most one cancel frame is written and none after the lifeline
was closed. `CauseInv` follows a reason from the parent's call through pipe,
canceller and final frame. `CleanInv` is the argument for a cancelled launch:
without a mishap the supervisor lives as long as the handshake and then knows of
nothing but the closed lifeline.

**RunCommand.** The module's steps contain or repeat those of SupervisorSession,
so each preserves `SessionInv`, which is reused from the proofs there; the two
modules are proved together in this sense, not by a refinement. `StepInv` ties
the step of `Command.Run` to that of Launch and Wait, `HeldInv` to what it holds,
and `FirstInv` is behind `FirstReasonWins`: until the final is read, the
supervisor has heard, and will hear, of no reason but the accepted one.

**HostNetwork.** `OwnerInv` is the lock: a run has one process at work, and
changes are made by the holder only. `UniqueInv` is `IdentitiesDisjoint` with
what it needs to be inductive, the identity that has been chosen and has neither
claim nor objects yet; it holds because a choice and its publication are under
the lock. `ContentsInv`, `SessionInv` and `FreshInv` say what is in the root and
in the kernel at each step. `ReadInv` and `DiskInv` are for the evidence: between
a change and its sync the disk may show either, and both must be readable.
`RecoverInv` says what a recovery has deleted by each of its steps.
The proof attempt showed that `RecoveryFailsOnlyUnactivated` does not hold with
deaths and power loss together: a run dies at the rename of its activation, a
recovery dies after it has removed the temporary file without a sync, a later one
removes the claim, and a disk that loses power may show the former without the
latter. The property therefore excludes that combination, as `EvidenceReadable`
does.

**ChildProcesses.** The heart is that `wait` reporting no child means that no
process exists, descendants of descendants included. `TreeInv` is the reason: the
parents of the processes that exist have no cycle, stated as "every non-empty set
of existing descendants has a member whose parent is outside", and an orphan is
adopted at once; a set in which nobody is init's child is therefore empty. `ReaperInv` carries this to
`confirmed` and `contained`. `BarrierInv` is for the common start, `TermInv` for
who may have been signalled, `OutputInv` counts chunks written, pending and
delivered. `SetImplementsGroup` is the refinement of ProcessGroup: initial states
map to initial states, and each action to a step of the group or to a stutter.

**TransferRun.** `ViewsInv` and `ResolversInv` are invariants of the components,
which every step of TransferRun preserves, in the components' own actions or by
leaving their variables alone. `MountInv` and `CloseInv` are the order in which a
Close and its retries go; `BackedInv` and `EraseInv` what evidence a step can
rely on; `WorkersInv` and `HandlersInv` that the connection of every goroutine is known to
the shutdown, whenever it was opened, and that every server runs and dials while the
context is not done. `ServedInv` and `ChainInv` say what the
acquisition has, an open network being an activated one, and what the cleanup chains
have reported; `GroupInv` is what ProcessGroup promises at each step. `RootInv` is the hand-over: once the liveness
is released the former owner is done, so that a recovery meets only what is at
rest.

**TransferPlan.** `HolderInv` says who has the source open, by the phase of the
run, and that a borrow stands for the logs, the scan or the lease; `WalkInv` what
each step of the scan is about. `DescriptorsOwned` is inductive with these: each
step of the scan opens or closes what its activation, the walk or the root gains or
loses, and every way out closes exactly those. `SeenInv` is behind
`ShownAsItWas`: what an activation has seen under a name is still there or the
name was changed (`SeenThere`); and once the names were read again, a name under
which something else was there then (`ThenThere`) is still to be compared, and
differs then, unless it was changed a second time. `FailureKnown` follows the first
failure of a target from the stream to the report. The arithmetic of `WeightsFaithful`
(rounded quotients, then division by the greatest common divisor) is proved from
lemmas about `Min`, `Max`, division and products. The proof attempt showed that
three `CASE`s of the modules had overlapping guards, which TLC reads in order and
TLA+ does not; they are written as conditionals now.

Two more invariants stand on these. `ScanInv` says what the scan has captured:
every path once, in a directory that is captured or being scanned
(`CaptureInv`), and every captured object, like every directory being scanned,
where its backing reference says, unless a name on the way was changed (`OpenInv`).
A reference grows by one name at the end, so its route is the route of its
directory and one step more: the lemmas about `Route` compare two routes by the
least place where they differ, which takes the place of an induction over the path.
A link gets a new anchor, and the kept directories of a root only grow; so
references stay valid to the lease, which duplicates them. `OpensWhatWasCaptured`
follows. `ShareInv` is about the loop of `allocateFiles`: each file placed has one
owner, what is placed is no smaller than what is not, and `BalanceInv`, stronger
than `LoadsBalanced`: without any one of its files, a transfer has no more to do
than every other one, relative to the weights. It is preserved because the chosen
transfer is the least loaded (`compareLoad` on words is the comparison of the
products) and the file given to it is the smallest it has. With empty directories
added, `FairShares` needs of `ScanInv` that nothing lies below a file or an empty
directory, so that only its owner sees it, and that every way to it leads through
captured directories. That every set of files has a first one (`FirstElement`) is
proved from the cardinality of a smallest counterexample.

**PlainOutput.** `Bounded` says nothing of the sanitizer's state or of what a
byte makes visible. `PlainInv` puts the bounds into the types: lines and updates
are a `Piece` of at most `MaxLine` bytes, the sanitizer holds back at most three
bytes (fewer than the first one announced, at most four) and passes on at most two
characters of at most four. One lemma per function of `output.go` and
`sanitizer.go` shows that it keeps these types; the step that needs the order of
the code is `AppendVisibleType`, where the line is written before the character
that would exceed the bound is added. The types also say what the bytes are, for
`ControlsRemoved`: what the sanitizer holds back begins a character, whose first
byte says how much is expected, so that what completes it is text or an encoded
control (`ConsumeContinuationType`); a stream takes only text and carriage returns,
and no byte of a line is a control (`LetterGlyphs`). `SettledInv` is that Close empties the
streams in the order of the transfers and that an error is latched with its report.

Checked by TLC only: liveness under fairness; the `ENABLED` half of
`HostLockReleased` (`HolderGoesOn`) and the liveness half of `CrashRecovered`
(`EventuallyRecovered`), whose other halves are `LockGivenUp` and
`RemovedLeavesNothing`; `ExactScan`, whose reference definitions (`LogicalTree`) are recursive operators;
and `TextArrives`, which compares functions of a whole sequence of bytes (folds)
with each other and would need an induction over it.

## Plan

The order follows the promise above: first who owns a run, then how it is ended,
then what it leaves on the host, then what its commands see.

| step | module | contents | state |
|---|---|---|---|
| 1 | RunDirectory | ownership, publication, recovery | safety proved, liveness by TLC |
| 2 | SupervisorSession, RunCommand | the two processes and all of the parent | safety proved, liveness by TLC |
| 3 | HostNetwork | claims, evidence, kernel objects | safety proved, `HolderGoesOn` by TLC |
| 4 | ProcessGroup, ChildProcesses | start, reaping, containment, output | safety and refinement proved, liveness by TLC |
| 5 | FileViews, NamespaceResolvers, TransferRun | views, resolvers, the whole cleanup | safety proved, liveness by TLC |
| 6 | SourceFiles, Allocation, Throughput, TransferPlan | scan, weights, shares, views | descriptors, capture, weights, later opens and shares proved; exact scan and liveness by TLC |
| 7 | PlainOutput, LogicalLines | lines and sanitizer | bounds, controls and settling proved, `TextArrives` by TLC |

## Not modelled

Codecs, request validation, argument parsing, rendering, key decoding and log formats: no
state or concurrency. HTTP, DNS messages, the FUSE protocol and the encoding of
netlink, nftables and iptables programs: I/O whose outcome the models choose.
`networkcatalog` resolves an address in one captured snapshot of the kernel, a pure
function whose check would repeat it. The search of `allocation.go` in hostnetwork
in each dimension of an identity (subnets, priorities, tables) is one choice of
`Slots`. The goroutines of `transfer/command_events.go` that pass controls and
events on are left out; an error that a control meets late cancels the run there.
`listnetworks` and `probe` change nothing; the measurement of `listnetworks` is the
request `"list"` of TransferPlan.
