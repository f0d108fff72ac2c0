----------------------------- MODULE TransferRun -----------------------------
(***************************************************************************)
(* One transfer from its run root to its release: TransferDirectory.Run    *)
(* acquires the run, the host network, the resolvers, the weights, the     *)
(* views and the commands, and gives each back in the order of             *)
(* internal/transfer/cleanup.go, in the background where something does    *)
(* not stop in time; a process that dies leaves the rest to the recovery   *)
(* of another one.  FileViews and NamespaceResolvers are composed in full; *)
(* the processes appear as the ProcessGroup that ChildProcesses            *)
(* implements, the host network and the run root by what their own         *)
(* modules show of them.                                                   *)
(***************************************************************************)
EXTENDS FileViews, NamespaceResolvers

VARIABLES
  pc,           \* where Run stands; "client" without a run
  group,        \* whose processes: "none", "measuring", "commands"
  start, live, evidence, verdict,   \* the state of ProcessGroup
  net,          \* "none", "open", "closed"
  netEvidence,  \* what the run root says of the host network: "none"; a "claim" and
                \* no routing rule; "weak", a claim and rules; "active", with activation
  root,         \* the run root: "none", "present", "gone"
  lock,         \* the liveness lease: "none", "held", "retained", "released"
  clean,        \* the cleanup step that is next, "no" without a cleanup
  who,          \* who cleans up: "main" (Run) or "later" (a goroutine)
  resolverStopped, viewsStopped,    \* what the chains have reported
  alive,        \* the supervisor process is alive
  recovery,     \* another process recovers the root: "no", "network", "views"
  netRecovered  \* its recovery of the host network succeeded

netVars == <<net, netEvidence>>
runVars == <<root, lock>>
stopVars == <<resolverStopped, viewsStopped>>
groupVars == <<start, live, evidence, verdict>>
flowVars == <<pc, group, netVars, runVars, clean, who, stopVars>>
hostVars == <<alive, recovery, netRecovered>>
vars == <<viewVars, faults, resolverVars, groupVars, flowVars, hostVars>>

Group == INSTANCE ProcessGroup

\* A run begins, or another client opens views in a run root it holds.
RunInit ==
  /\ ViewsInit /\ ResolversInit
  /\ Group!GroupInit
  /\ \/ pc = "facts" /\ vpc = "idle" /\ root = "none" /\ lock = "none"
     \/ pc = "client" /\ vpc = "access" /\ root = "present" /\ lock = "held"
  /\ group = "none"
  /\ net = "none" /\ netEvidence = "none"
  /\ clean = "no" /\ who = "main"
  /\ resolverStopped = FALSE /\ viewsStopped = FALSE
  /\ alive = TRUE
  /\ recovery = "no" /\ netRecovered = FALSE

HasViews == vpc \notin {"idle", "refused"}

-----------------------------------------------------------------------------
(* Acquiring: TransferDirectory.Run                                        *)

\* The result is returned; the cleanup, if any, has ended or goes on without Run.
Return == pc' = "returned"

\* cleanup starts at a step of its chain
Cleanup(step) == pc' = "cleanup" /\ clean' = step

\* validate, recoverOldRuns, preflight and readOnlyFacts own nothing.
ReadOnlyFacts(ok) ==
  /\ pc = "facts"
  /\ IF ok THEN pc' = "create" ELSE Return
  /\ UNCHANGED <<viewVars, faults, resolverVars, groupVars, hostVars, group, netVars,
                 runVars, clean, who, stopVars>>

CreateLiveRun(ok) ==
  /\ pc = "create"
  /\ Outcome(ok)
  /\ IF ok THEN pc' = "network" /\ root' = "present" /\ lock' = "held"
           ELSE Return /\ UNCHANGED <<root, lock>>
  /\ UNCHANGED <<viewVars, resolverVars, groupVars, hostVars, group, netVars, clean, who,
                 stopVars>>

\* A call that looks at the context of the run: it may also fail because that is done.
Interruptible(ok) == Outcome(ok) \/ (contextDone /\ ~ok /\ UNCHANGED faults)

\* networks.open returns an error (cleanupRoot).
NetworkRefused == Cleanup("complete") /\ resolverStopped' = TRUE /\ viewsStopped' = TRUE

\* networks.open publishes the claim.  Without it nothing has been done, and nothing is
\* undone: a claim that was not synced stays.
PublishClaim(ok) ==
  /\ pc = "network"
  /\ Interruptible(ok)
  /\ IF ok
     THEN netEvidence' = "claim" /\ pc' = "install" /\ UNCHANGED <<clean, stopVars>>
     ELSE netEvidence' \in {"none", "claim"} /\ NetworkRefused
  /\ UNCHANGED <<viewVars, resolverVars, groupVars, hostVars, group, net, runVars, who>>

\* host.Install: the links and then the routing rules; it may fail on either.
InstallNetwork(ok) ==
  /\ pc = "install"
  /\ Interruptible(ok)
  /\ IF ok
     THEN netEvidence' = "weak" /\ pc' = "activate"
     ELSE netEvidence' \in {"claim", "weak"} /\ pc' = "rollback"
  /\ UNCHANGED <<viewVars, resolverVars, groupVars, hostVars, group, net, runVars, clean, who,
                 stopVars>>

\* host.Verify and publishTrafficActivation: the session exists; resolvers.open begins.
ActivateNetwork(ok) ==
  /\ pc = "activate"
  /\ Interruptible(ok)
  /\ IF ok
     THEN /\ net' = "open" /\ netEvidence' = "active"
          /\ pc' = "resolvers" /\ rpc' = "opening"
     ELSE /\ netEvidence' \in {"weak", "active"} /\ pc' = "rollback"
          /\ UNCHANGED <<net, rpc>>
  /\ UNCHANGED <<viewVars, forwards, workerVars, shutdownVars, groupVars, hostVars, group,
                 runVars, clean, who, stopVars>>

\* rollbackOpen removes what was installed and then the evidence, the activation first;
\* what failed the open may fail this too, and leaves the rest to recovery.
RollBackNetwork ==
  /\ pc = "rollback"
  /\ netEvidence' \in {"none", "claim", netEvidence}
  /\ NetworkRefused
  /\ UNCHANGED <<viewVars, faults, resolverVars, groupVars, hostVars, group, net, runVars, who>>

\* resolvers.open returns: an error leaves the network to close (cleanupNetwork).
ResolversOpened ==
  /\ pc = "resolvers" /\ rpc \in {"open", "refused"}
  /\ IF rpc = "open"
     THEN pc' = "weights" /\ UNCHANGED <<clean, resolverStopped>>
     ELSE Cleanup("network") /\ resolverStopped' = TRUE
  /\ UNCHANGED <<viewVars, faults, resolverVars, groupVars, hostVars, group, netVars,
                 runVars, who, viewsStopped>>

\* The flow goes on to open the views: views.open first looks at the context of the run.
OpenViews == pc' = "views" /\ vpc' = IF contextDone THEN "refused" ELSE "access"

\* finalWeights with weights given, and AllocateTransferItems; an error of
\* either is cleanupResolvers.
ManualWeights(ok) ==
  /\ pc = "weights"
  /\ IF ok THEN OpenViews /\ UNCHANGED clean ELSE Cleanup("resolvers") /\ UNCHANGED vpc
  /\ UNCHANGED <<viewEvidence, mount, access, set, leases, vret, erase, faults,
                 resolverVars, groupVars, hostVars, group, netVars, runVars, who, stopVars>>

\* finalWeights with a measurement: RunHelpers starts a group.
Measure ==
  /\ pc = "weights"
  /\ pc' = "measure" /\ group' = "measuring"
  /\ Group!Begin
  /\ UNCHANGED <<viewVars, faults, resolverVars, hostVars, netVars, runVars, clean, who,
                 stopVars>>

\* RunHelpers returns without a set, or after it has confirmed containment: the
\* weights are known or there is an error.
Measured(ok) ==
  /\ pc = "measure"
  /\ start = "refused" \/ (verdict # "open" /\ evidence)
  /\ ok => verdict = "clean"
  /\ IF ok
     THEN /\ OpenViews /\ group' = "none"
          /\ start' = "none" /\ evidence' = FALSE /\ verdict' = "open"
          /\ UNCHANGED <<live, clean>>
     ELSE Cleanup("resolvers") /\ UNCHANGED <<groupVars, group, vpc>>
  /\ UNCHANGED <<viewEvidence, mount, access, set, leases, vret, erase, faults,
                 resolverVars, hostVars, netVars, runVars, who, stopVars>>

\* RunHelpers cannot confirm containment and hands its set over.
MeasuredUncontained ==
  /\ pc = "measure" /\ verdict = "dirty" /\ ~evidence
  /\ Cleanup("confirm")
  /\ UNCHANGED <<viewVars, faults, resolverVars, groupVars, hostVars, group, netVars,
                 runVars, who, stopVars>>

\* views.open returns: without a set, with a partial one, or with all views.
ViewsOpened ==
  /\ pc = "views" /\ vpc \in {"refused", "partial", "open"}
  /\ IF vpc = "open" THEN pc' = "leases" /\ UNCHANGED clean ELSE Cleanup("resolvers")
  /\ UNCHANGED <<viewVars, faults, resolverVars, groupVars, hostVars, group, netVars,
                 runVars, who, stopVars>>

\* prepareExecutions opens a view for each transfer.
LeaseView(t) ==
  /\ pc = "leases" /\ t \notin leases
  /\ OpenView(t)
  /\ UNCHANGED <<resolverVars, groupVars, hostVars, flowVars>>

LeaseFails ==
  /\ pc = "leases"
  /\ Outcome(FALSE)
  /\ Cleanup("resolvers")
  /\ UNCHANGED <<viewVars, resolverVars, groupVars, hostVars, group, netVars, runVars, who,
                 stopVars>>

\* commands.start begins.
StartCommands ==
  /\ pc = "leases" /\ leases = Transfers
  /\ pc' = "start" /\ group' = "commands"
  /\ Group!Begin
  /\ UNCHANGED <<viewVars, faults, resolverVars, hostVars, netVars, runVars, clean, who,
                 stopVars>>

\* commands.start returns: no set (cleanupViews), a set with an error
\* (stopStartupProcesses) or the running commands.
CommandsStarted(ok) ==
  /\ pc = "start" /\ start \in {"owned", "refused"}
  /\ ok => start = "owned"
  /\ IF ok THEN pc' = "running" /\ UNCHANGED clean
           ELSE Cleanup(IF start = "refused" THEN "resolvers" ELSE "confirm")
  /\ UNCHANGED <<viewVars, faults, resolverVars, groupVars, hostVars, group, netVars,
                 runVars, who, stopVars>>

\* processes.Wait has returned (cleanupObservedProcesses).
CommandsWaited ==
  /\ pc = "running" /\ verdict # "open"
  /\ Cleanup("confirm")
  /\ UNCHANGED <<viewVars, faults, resolverVars, groupVars, hostVars, group, netVars,
                 runVars, who, stopVars>>

-----------------------------------------------------------------------------
(* Releasing: internal/transfer/cleanup.go                                 *)

\* The next step of the chain; nothing but clean, who and the reports moves.
CleanTo(step) == clean' = step

\* ConfirmContainment or FinishStartFailure ends with the evidence, now
\* (containmentConfirmed) or later (closeAfterDelayedContainment).
Contained ==
  /\ clean \in {"confirm", "await"} /\ evidence
  /\ CleanTo("resolvers")
  /\ UNCHANGED <<viewVars, faults, resolverVars, groupVars, hostVars, pc, netVars, runVars,
                 who, stopVars, group>>

\* Mutant: cleanup waits for containment whatever happens.
NeverTimesOut == FALSE

\* The cleanup context is done first: retainUntilProcessContainment.
ContainmentTimesOut ==
  /\ clean = "confirm" /\ ~evidence
  /\ CleanTo("await") /\ who' = "later" /\ lock' = "retained"
  /\ Return
  /\ UNCHANGED <<viewVars, faults, resolverVars, groupVars, hostVars, netVars, root, stopVars,
                 group>>

\* closeResolverChain calls resolvers.Close.
CloseResolvers ==
  /\ clean = "resolvers"
  /\ BeginResolverClose
  /\ CleanTo("resolversWait")
  /\ UNCHANGED <<viewVars, faults, groupVars, hostVars, pc, netVars, runVars, who, stopVars,
                 group>>

\* The chain that follows the resolvers: a second attempt leaves stopped views alone.
AfterResolvers == IF who = "later" /\ viewsStopped THEN "settle" ELSE "views"

\* Mutant: the network is closed whether or not the resolver workers stopped.
ResolversIgnored ==
  /\ clean = "resolversWait" /\ rpc \in {"open", "closed"}
  /\ resolverStopped' = (rpc = "closed")
  /\ CleanTo("network")
  /\ UNCHANGED <<viewVars, faults, resolverVars, groupVars, hostVars, pc, netVars, runVars,
                 who, viewsStopped, group>>

\* resolvers.Close returns: the network is closed only when its workers stopped.
ResolversReturned ==
  /\ clean = "resolversWait" /\ rpc \in {"open", "closed"}
  /\ resolverStopped' = (rpc = "closed")
  /\ CleanTo(IF rpc = "closed" THEN "network" ELSE AfterResolvers)
  /\ UNCHANGED <<viewVars, faults, resolverVars, groupVars, hostVars, pc, netVars, runVars,
                 who, viewsStopped, group>>

\* What a failure leaves of the evidence: the activation is removed before the claim.
Kept == {netEvidence} \cup (IF netEvidence = "active" THEN {"claim"} ELSE {})

\* closeNetwork: a failure leaves evidence for recovery and is only reported.
CloseNetwork(ok) ==
  /\ clean = "network"
  /\ Outcome(ok)
  /\ net' = "closed"
  /\ netEvidence' \in IF ok THEN {"none"} ELSE Kept
  /\ CleanTo(AfterResolvers)
  /\ UNCHANGED <<viewVars, resolverVars, groupVars, hostVars, pc, runVars, who, stopVars,
                 group>>

\* closeViewLeases
CloseLease(t) ==
  /\ clean = "views"
  /\ ReleaseLease(t)
  /\ UNCHANGED <<resolverVars, groupVars, hostVars, flowVars>>

\* closeFileViewChain calls views.Close.
CloseViews ==
  /\ clean = "views" /\ HasViews /\ leases = {}
  /\ BeginClose
  /\ CleanTo("viewsWait")
  /\ UNCHANGED <<resolverVars, groupVars, hostVars, pc, netVars, runVars, who, stopVars,
                 group>>

\* closeFileViewChain returns: there are no views, or Close says whether the
\* mount has stopped.
ViewsReturned ==
  /\ \/ clean = "views" /\ ~HasViews /\ viewsStopped' = TRUE
     \/ clean = "viewsWait" /\ vpc = "open" /\ viewsStopped' = set.stopped
  /\ CleanTo("settle")
  /\ UNCHANGED <<viewVars, faults, resolverVars, groupVars, hostVars, pc, netVars, runVars,
                 who, resolverStopped, group>>

\* Both chains have stopped: Run completes the root, the goroutine closes
\* cleanupDone, which releases liveness and leaves the root to recovery.
Settled ==
  /\ clean = "settle" /\ resolverStopped /\ viewsStopped
  /\ IF who = "main"
     THEN CleanTo("complete") /\ UNCHANGED lock
     ELSE CleanTo("no") /\ lock' = "released"
  /\ UNCHANGED <<viewVars, faults, resolverVars, groupVars, hostVars, pc, netVars, root, who,
                 stopVars, group>>

\* Mutant: liveness is released although an owner did not stop.
ReleaseUnsettled ==
  /\ clean = "settle" /\ ~(resolverStopped /\ viewsStopped)
  /\ CleanTo("no") /\ lock' = "released" /\ Return
  /\ UNCHANGED <<viewVars, faults, resolverVars, groupVars, hostVars, netVars, root, who,
                 stopVars, group>>

\* retainClosingOwners: a goroutine closes once more what did not stop; if that
\* fails too, liveness is held until the process exits.
NotSettled ==
  /\ clean = "settle" /\ ~(resolverStopped /\ viewsStopped)
  /\ IF who = "main"
     THEN /\ who' = "later" /\ lock' = "retained" /\ Return
          /\ CleanTo(IF resolverStopped THEN "views" ELSE "resolvers")
     ELSE CleanTo("no") /\ UNCHANGED <<who, lock, pc>>
  /\ UNCHANGED <<viewVars, faults, resolverVars, groupVars, hostVars, netVars, root, stopVars,
                 group>>

\* completeRun: Complete removes a root without evidence, Close releases one
\* that could not be removed.
CompleteRun(ok) ==
  /\ clean = "complete"
  /\ ok => netEvidence = "none" /\ ~EvidenceLeft
  /\ IF netEvidence # "none" \/ EvidenceLeft THEN UNCHANGED faults ELSE Outcome(ok)
  /\ root' = IF ok THEN "gone" ELSE root
  /\ lock' = "released" /\ CleanTo("no") /\ Return
  /\ UNCHANGED <<viewVars, resolverVars, groupVars, hostVars, netVars, who, stopVars,
                 group>>

-----------------------------------------------------------------------------
(* The processes, the context, the end of the supervisor and recovery      *)

\* A process of the group starts or ends, or the absence of all is evident.
ProcessStep ==
  /\ Group!Spawn \/ Group!Vanish \/ Group!Confirm
  /\ group # "none" /\ alive
  /\ UNCHANGED <<viewVars, faults, resolverVars, flowVars, hostVars>>

\* The call that starts the group returns, or Wait does.
GroupReturns ==
  /\ pc \in {"start", "measure", "running"}
  /\ \/ Group!Own \/ (start = "starting" /\ Group!Refuse)
     \/ pc # "start" /\ \E v \in {"clean", "dirty"} : Group!Conclude(v)
  /\ UNCHANGED <<viewVars, faults, resolverVars, flowVars, hostVars>>

\* The run is cancelled.  What has been acquired is kept: only the calls to come fail, and
\* the forwarder no longer asks the host's resolvers.  Cleanup has contexts of its own.
CancelRun ==
  /\ alive /\ pc \notin {"client", "gone"} /\ rpc \notin {"closed", "refused"}
  /\ CancelContext
  /\ UNCHANGED <<viewVars, faults, groupVars, flowVars, hostVars>>

\* The supervisor exits or is killed.  With it go the processes of its PID
\* namespace, the mounts of its mount namespace, its goroutines and its locks.
SupervisorEnds ==
  /\ alive
  /\ alive' = FALSE /\ pc' = "gone"
  /\ lock' = IF lock = "none" THEN "none" ELSE "released"
  /\ clean' = "no" /\ group' = "none"
  /\ start' = "none" /\ live' = FALSE /\ evidence' = FALSE /\ verdict' = "open"
  /\ who' = "main" /\ resolverStopped' = FALSE /\ viewsStopped' = FALSE /\ net' = "none"
  /\ ViewsDie /\ ResolversDie
  /\ UNCHANGED <<netEvidence, root, recovery, netRecovered>>

RecoverRest == <<pc, group, net, lock, clean, who, stopVars, alive>>

\* recoverOldRuns of another supervisor: RecoverStale has taken the free lock.
RecoverBegins ==
  /\ recovery = "no" /\ root = "present" /\ lock = "released"
  /\ recovery' = "network"
  /\ UNCHANGED <<viewVars, faults, resolverVars, groupVars, netEvidence, root, netRecovered,
                 RecoverRest>>

\* networks.recover, then views.recover whatever it returned.  Routing rules without an
\* activation may be another's: host.Cleanup only observes them, and fails as long as
\* they are there.
RecoverNetwork(ok) ==
  /\ recovery = "network"
  /\ IF netEvidence = "weak" THEN ~ok /\ UNCHANGED faults ELSE Outcome(ok)
  /\ netEvidence' \in IF ok THEN {"none"} ELSE Kept
  /\ netRecovered' = ok
  /\ recovery' = "views"
  /\ BeginErase("stale")
  /\ UNCHANGED <<viewEvidence, mount, access, vpc, set, leases, vret, resolverVars, groupVars,
                 root, RecoverRest>>

\* Somebody removes the routing rules that a recovery must not touch.
RulesRemoved ==
  /\ netEvidence = "weak" /\ lock = "released"
  /\ netEvidence' = "claim"
  /\ UNCHANGED <<viewVars, faults, resolverVars, groupVars, root, recovery, netRecovered,
                 RecoverRest>>

\* The callback of RecoverStale returns: the root goes if nothing failed.
RecoverEnds ==
  /\ recovery = "views" /\ erase.pc \in {"done", "failed"}
  /\ root' = IF netRecovered /\ erase.pc = "done" THEN "gone" ELSE root
  /\ recovery' = "no" /\ erase' = NoErase
  /\ UNCHANGED <<viewEvidence, mount, access, vpc, set, leases, vret, faults, resolverVars,
                 groupVars, netEvidence, netRecovered, RecoverRest>>

\* The recovering process dies.
RecoverDies ==
  /\ recovery # "no"
  /\ Outcome(FALSE)
  /\ recovery' = "no" /\ erase' = NoErase
  /\ UNCHANGED <<viewEvidence, mount, access, vpc, set, leases, vret, resolverVars, groupVars,
                 netEvidence, root, netRecovered, RecoverRest>>

-----------------------------------------------------------------------------
AcquireStep ==
  \/ \E ok \in BOOLEAN :
        \/ ReadOnlyFacts(ok) \/ CreateLiveRun(ok) \/ ManualWeights(ok) \/ Measured(ok)
        \/ PublishClaim(ok) \/ InstallNetwork(ok) \/ ActivateNetwork(ok) \/ CommandsStarted(ok)
  \/ RollBackNetwork \/ ResolversOpened \/ Measure \/ MeasuredUncontained \/ ViewsOpened
  \/ LeaseFails
  \/ StartCommands \/ CommandsWaited
  \/ \E t \in Transfers : LeaseView(t)
ReleaseStep ==
  \/ Contained \/ ContainmentTimesOut \/ CloseResolvers \/ ResolversReturned
  \/ CloseViews \/ ViewsReturned \/ Settled \/ NotSettled
  \/ \E ok \in BOOLEAN : CloseNetwork(ok) \/ CompleteRun(ok)
  \/ \E t \in Transfers : CloseLease(t)
RecoverStep ==
  RecoverBegins \/ RecoverEnds \/ \E ok \in BOOLEAN : RecoverNetwork(ok)

\* The steps of FileViews and of NamespaceResolvers leave the flow alone.
OfViews(step) == step /\ UNCHANGED <<resolverVars, groupVars, flowVars, hostVars>>
OfResolvers(step) == step /\ UNCHANGED <<viewVars, faults, groupVars, flowVars, hostVars>>

ViewStep == OfViews(OpenStep \/ CloseStep \/ EraseStep)
ResolverCallStep ==
  OfResolvers(\/ OpenExplicit \/ StartServers \/ OpenFails \/ (\E s \in Servers : Listen(s))
              \/ ResolversClosed \/ ResolverCloseTimesOut)

RunNext ==
  \/ AcquireStep \/ ReleaseStep \/ ProcessStep \/ GroupReturns
  \/ CancelRun \/ SupervisorEnds \/ RecoverStep \/ RecoverDies \/ RulesRemoved
  \/ ViewStep \/ OfViews(ServerStops) \/ ResolverCallStep
  \/ pc = "client" /\ OfViews(ViewClientStep)
  \/ OfResolvers(WorkerStep)

\* The goroutines of the supervisor run and their timers expire; later runs
\* keep recovering.  No process has to end, and neither has the FUSE server or
\* a DNS client; nobody has to cancel the run or to remove routing rules.
RunFairness ==
  /\ WF_vars(AcquireStep) /\ WF_vars(ReleaseStep)
  /\ WF_vars(ViewStep) /\ WF_vars(ResolverCallStep)
  /\ WF_vars(OfResolvers(ShutdownStep))
  /\ \A s \in Servers : WF_vars(OfResolvers(ServerStep(s)))
  /\ \A q \in Queries : WF_vars(OfResolvers(HandlerStep(q)))
  /\ WF_vars(RecoverStep)

RunSpec == RunInit /\ [][RunNext]_vars /\ RunFairness

-----------------------------------------------------------------------------
ReportsOK ==
  /\ resolverStopped \in BOOLEAN /\ viewsStopped \in BOOLEAN
  /\ alive \in BOOLEAN /\ netRecovered \in BOOLEAN

FlowOK ==
  /\ pc \in {"client", "facts", "create", "network", "install", "activate", "rollback",
             "resolvers", "weights", "measure", "views", "leases", "start", "running",
             "cleanup", "returned", "gone"}
  /\ group \in {"none", "measuring", "commands"}
  /\ net \in {"none", "open", "closed"}
  /\ netEvidence \in {"none", "claim", "weak", "active"}
  /\ root \in {"none", "present", "gone"}
  /\ lock \in {"none", "held", "retained", "released"}
  /\ clean \in {"no", "confirm", "await", "resolvers", "resolversWait", "network", "views",
                "viewsWait", "settle", "complete"}
  /\ who \in {"main", "later"}
  /\ recovery \in {"no", "network", "views"}

RunTypeOK == ViewsTypeOK /\ ResolversTypeOK /\ Group!GroupTypeOK /\ FlowOK /\ ReportsOK

\* A process that can still run has its network, which the root calls activated, so that
\* recovery may remove all of it, and, if it is a command, its views, whatever was cancelled,
\* failed or timed out.  The forwarder is not shut down under it; it answers its queries until
\* the run is cancelled: in the grace periods that follow, upstream dials are refused.
ProcessesServed ==
  live => /\ net = "open" /\ netEvidence = "active" /\ rpc = "open" /\ shutdown = "no"
          /\ contextDone \/ Resolving
          /\ group = "commands" => mount = "serving" /\ leases = Transfers

\* The namespaces are not taken down under a goroutine of the forwarder.
NetworkOutlivesWorkers == net # "open" => ~WorkersLeft

\* The root is free for recovery only when this supervisor runs no process,
\* serves no mount, answers no query and cleans up nothing any more.
FreedMeansIdle ==
  lock = "released" =>
    /\ ~live /\ ~WorkersLeft /\ mount \notin {"serving", "draining"}
    /\ clean = "no"

\* A root is removed only when nothing in it is needed to find what is left.
RemovedLeavesNothing == root = "gone" => netEvidence = "none" /\ ~EvidenceLeft

\* Once the commands have ended, or are not to run, Run returns: whatever
\* process, server or client does not stop.
CleanupReturns == pc = "cleanup" ~> pc \in {"returned", "gone"}

\* What a dead supervisor left is recovered, unless routing rules are left that were never
\* activated; then it is once somebody has removed those.
EventuallyRecovered == ~alive ~> root # "present" \/ netEvidence = "weak"

\* Nothing is taken away under its users: the views are served from a source that is
\* still open, the processes have network and views, and until the run is cancelled a
\* forwarder that asks the host's resolvers (newDNSForwarder), the forwarder's
\* goroutines their namespaces (FileViewSet.Close, the order of cleanup).
ServedWhileNeeded == ServingIsBacked /\ ProcessesServed /\ NetworkOutlivesWorkers

\* A Close that reports success has finished: no mount, evidence or lease of the views
\* and no goroutine of the forwarder is left, also on its second call
\* (FileViewSet.Close, Resolvers.Close).
ClosedIsClean == RunTypeOK /\ ClosedLeavesNothing /\ ClosedHasNoWorker /\ ShutdownReachesAll

\* A supervisor that ends anywhere, inside networks.open too, leaves a root that is recovered,
\* but for rules of a network that was never activated (linuxHost.Cleanup), and no root is
\* removed while something is left to recover.
CrashRecovered == []RemovedLeavesNothing /\ EventuallyRecovered

-----------------------------------------------------------------------------
(***************************************************************************)
(* The invariant behind the safety properties.                             *)
(***************************************************************************)

\* Processes of the group may run, or none can be started any more.
Needed == pc \in {"measure", "start", "running"} \/ clean \in {"confirm", "await"}
Ended == ~live /\ (evidence \/ start # "starting")

\* Run has no network yet.
Preparing == pc \in {"facts", "create", "network", "install", "activate", "rollback"}

GroupInv ==
  /\ group = "none" => start = "none" /\ ~live /\ ~evidence /\ verdict = "open"
  /\ start \in {"none", "refused"} \/ evidence => ~live
  /\ Needed \/ Ended

\* What the flow has acquired by each of its steps, and what it keeps for the
\* processes that may run.
ServedInv ==
  /\ pc = "client" \/ Preparing => net = "none" /\ rpc = "idle" /\ group = "none"
  /\ pc = "resolvers" => /\ rpc \in {"opening", "open", "refused"} /\ shutdown = "no"
                         /\ group = "none"
  /\ pc \in {"weights", "views", "leases"} \/ Needed =>
       net = "open" /\ rpc = "open" /\ shutdown = "no"
  /\ pc \in {"weights", "views", "leases"} => group = "none"
  /\ pc = "measure" => group = "measuring"
  /\ pc \in {"start", "running"} => group = "commands"
  /\ Preparing \/ pc \in {"resolvers", "weights", "measure"} =>
       vpc = "idle" /\ ~EvidenceLeft
  /\ pc = "views" => vpc \notin {"partial", "open"} \/ ~set.closing
  /\ pc \in {"leases", "start", "running"} => vpc = "open" /\ ~set.closing
  /\ Needed /\ group = "commands" => vpc = "open" /\ ~set.closing /\ leases = Transfers
  /\ Needed => group # "none"

\* Who cleans up, what the chains have reported, and who is at work.
ChainInv ==
  /\ clean # "no" => pc = (IF who = "main" THEN "cleanup" ELSE "returned")
  /\ pc = "cleanup" => clean # "no"
  /\ who = "later" => pc = "returned"
  /\ net = "open" => netEvidence = "active"
  /\ net = "open" /\ resolverStopped => clean = "network"
  /\ clean = "network" => rpc \in {"closed", "refused"}
  /\ clean = "complete" => resolverStopped /\ viewsStopped
  /\ resolverStopped \/ viewsStopped => pc \in {"cleanup", "returned"}
  /\ resolverStopped => rpc \in {"idle", "closed", "refused"}
  /\ viewsStopped => vpc \in {"idle", "refused"} \/ set.stopped
  /\ rpc \in {"opening", "open", "closing"} => net = "open"
  /\ rpc = "opening" => pc = "resolvers"
  /\ rpc = "closing" => clean = "resolversWait"
  /\ vpc \in Opening \cup {"views"} => pc \in {"client", "views"}
  /\ vpc \in Closing => pc = "client" \/ clean = "viewsWait"

\* When the root is free, what its owner and a recovery have left of it.
RootInv ==
  /\ pc = "client" => lock = "held" /\ clean = "no"
  /\ lock = "released" =>
       /\ pc \in {"returned", "gone"} /\ clean = "no" /\ net # "open"
       /\ rpc \in {"idle", "closed", "refused"}
       /\ vpc \in {"idle", "refused"} \/ set.stopped
  /\ recovery # "no" => lock = "released" /\ root = "present"
  /\ recovery = "views" <=> erase.by = "stale"
  /\ recovery = "views" /\ netRecovered => netEvidence = "none"
  /\ root = "gone" => lock = "released" /\ recovery = "no"
  /\ RemovedLeavesNothing
  /\ alive <=> pc # "gone"
  /\ pc = "gone" => /\ clean = "no" /\ group = "none" /\ net = "none"
                    /\ rpc = "idle" /\ vpc = "idle" /\ lock \in {"none", "released"}

TransferInv ==
  RunTypeOK /\ ViewsInv /\ ResolversInv /\ GroupInv /\ ServedInv /\ ChainInv /\ RootInv
=============================================================================
