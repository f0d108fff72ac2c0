----------------------------- MODULE TransferPlan -----------------------------
(***************************************************************************)
(* What a transfer works out before its commands run and what the views    *)
(* then serve (internal/transfer/transfer.go, weights.go; the nodes of     *)
(* internal/fileviews): the command hands the source to its supervisor,    *)
(* which scans it while the networks are resolved, takes the weights from  *)
(* the request or measures them, allocates every item to a transfer and    *)
(* opens the views.  A request "list" is the measurement of list-networks. *)
(***************************************************************************)
EXTENDS SourceFiles, Allocation, Throughput

CONSTANTS
  Scenarios,  \* the requests, the trees to begin with and what may befall them
  Weights,    \* the weights a manual request may give, functions of Targets
  MaxHandles  \* bound: files the commands have open at a time

LinkText == [abs : BOOLEAN, comps : Seq(Components), slash : BOOLEAN]

ASSUME PlanAssumption ==
  /\ \A s \in Scenarios :
       /\ s.request \in {"manual", "automatic", "list"}
       /\ s.entries \in [Dirs -> [Names -> Objects \cup {Nil}]] /\ s.size \in [Files -> Nat]
       /\ s.target \in [Links -> LinkText]
       /\ s.changes \in Nat /\ s.faults \in Nat

\* NewTransferWeight and NewTransferWeights: transfers are numbered, there is one at
\* least, and every weight is positive.
ASSUME WeightsAssumption ==
  Targets \subseteq Nat /\ Targets # {} /\ Weights \subseteq [Targets -> Nat \ {0}]

VARIABLES
  request,    \* "manual", "automatic", "list"
  phase,      \* where the command and the supervisor stand
  egress,     \* the outcome of resolving the networks: "none", "ok", "error"
  weights,    \* the TransferWeights, a function of the transfers, or none
  plan        \* the TransferAllocation, or none

flowVars == <<phase, egress, weights, plan>>
planVars == <<request, flowVars, sourceVars, throughputVars>>

PlanInit ==
  /\ \E s \in Scenarios : request = s.request /\ SourceInit(s)
  /\ mode = IF request = "list" THEN "host" ELSE "namespace"
  /\ phase = IF request = "list" THEN "measure" ELSE "open"
  /\ egress = "none" /\ weights = <<>> /\ plan = <<>>
  /\ ThroughputInit

Flow(from, to) == phase = from /\ phase' = to /\ UNCHANGED request
KeepMeasure == UNCHANGED throughputVars
KeepSource == UNCHANGED sourceVars

-----------------------------------------------------------------------------
(* The command                                                             *)

InspectSource == Flow("open", "bind") /\ InspectRoot
RefuseSource ==
  /\ Flow("open", "closed")
  /\ entries[Slash][SourceName] \notin Dirs
  /\ KeepSource

BindSource ==
  /\ Flow("bind", IF SameRoot THEN "command" ELSE "closed")
  /\ OpenSourceRoot

\* runlogs borrows the source to keep its logs out of it.
BorrowForLogs == Flow("command", "borrowed") /\ Borrow
LogsReady == Flow("borrowed", "launch") /\ ReturnBorrow

\* The supervisor inherits the descriptor.
LaunchSupervisor == Flow("launch", "inherit") /\ TransferDescriptor
AcceptSource == Flow("inherit", "facts") /\ TakeSourceRoot

CommandStep ==
  /\ \/ InspectSource \/ RefuseSource
     \/ BindSource \/ BorrowForLogs \/ LogsReady \/ LaunchSupervisor \/ AcceptSource
  /\ UNCHANGED <<egress, weights, plan>> /\ KeepMeasure

-----------------------------------------------------------------------------
(* The supervisor                                                          *)

\* readOnlyFacts resolves the networks and scans the source concurrently.
ResolveEgresses(result) ==
  /\ phase = "facts" /\ egress = "none"
  /\ egress' = result
  /\ UNCHANGED <<request, phase, weights, plan>> /\ KeepMeasure /\ KeepSource

ScanSource ==
  /\ phase = "facts"
  /\ BeginScan \/ RefuseScan \/ ScanStep \/ ScanFault
  /\ UNCHANGED <<request, flowVars>> /\ KeepMeasure

\* It waits for both, whatever the first one returned.
FactsRead ==
  /\ spc = "done" /\ egress # "none"
  /\ Flow("facts", IF egress # "ok" \/ scanned # "snapshot" THEN "close"
                   ELSE IF request = "automatic" THEN "measure" ELSE "weights")
  /\ UNCHANGED <<egress, weights, plan>> /\ KeepMeasure /\ KeepSource

Measure ==
  /\ phase = "measure"
  /\ ThroughputStep
  /\ UNCHANGED <<request, flowVars>> /\ KeepSource

\* measure, validateWeightSet and NewTransferWeights
MeasurementEnds ==
  /\ Observed
  /\ weights' = RelativeWeights(request = "list")
  /\ Flow("measure", IF request = "list" THEN "closed"
                     ELSE IF DOMAIN weights' = Targets THEN "allocate" ELSE "close")
  /\ UNCHANGED <<egress, plan>> /\ KeepMeasure /\ KeepSource

ManualWeights(w) ==
  /\ Flow("weights", "allocate")
  /\ weights' = w
  /\ UNCHANGED <<egress, plan>> /\ KeepMeasure /\ KeepSource

\* AllocateTransferItems
BeginAllocation ==
  /\ Flow("allocate", "place")
  /\ plan' = NewPlan(FilesOf(captured), weights)
  /\ UNCHANGED <<egress, weights>> /\ KeepMeasure /\ KeepSource

AllocateFile ==
  /\ phase = "place" /\ plan.todo # {}
  /\ \E t \in {MinimumLoad(plan.loads)} :
       IF Fits(plan, t) THEN plan' = PlaceFile(plan, t) /\ Flow("place", "place")
                        ELSE plan' = <<>> /\ Flow("place", "close")
  /\ UNCHANGED <<egress, weights>> /\ KeepMeasure /\ KeepSource

FinishAllocation ==
  /\ phase = "place" /\ plan.todo = {}
  /\ \E allocation \in {CompletePlan(plan, EmptyDirsOf(captured))} :
       IF ValidAllocation(allocation, FilesOf(captured), EmptyDirsOf(captured))
       THEN plan' = allocation /\ Flow("place", "views")
       ELSE plan' = <<>> /\ Flow("place", "close")
  /\ UNCHANGED <<egress, weights>> /\ KeepMeasure /\ KeepSource

\* prepareLogicalViews
OpenViews ==
  /\ Flow("views", "serving")
  /\ AcquireAccess
  /\ UNCHANGED <<egress, weights, plan>> /\ KeepMeasure

\* regularFileNode.Open, by a command of the transfer: what it has looked up,
\* opened where the frozen entry says it lies.
OpenFile(t, e) ==
  /\ phase = "serving" /\ Visible(plan, t, e.path)
  /\ LET file == OpenBacking(lease, e.backing)
         handle == [transfer |-> t, entry |-> e, file |-> file]
     IN /\ file \in Files /\ handle \notin handles
        /\ handles' = handles \cup {handle}
        /\ fds' = fds + 1
  /\ Cardinality(handles) < MaxHandles
  /\ UNCHANGED <<treeVars, target, follow, faults, cancelled, root, scanVars, lease>>
  /\ UNCHANGED <<request, flowVars>> /\ KeepMeasure

\* readOnlyFile.Release
ReleaseFile(h) ==
  /\ h \in handles
  /\ handles' = handles \ {h} /\ fds' = fds - 1
  /\ UNCHANGED <<treeVars, target, follow, faults, cancelled, root, scanVars, lease>>
  /\ UNCHANGED <<request, flowVars>> /\ KeepMeasure

\* Every process of the commands has ended: the kernel closes their files.
CommandsEnd ==
  /\ Flow("serving", "ended")
  /\ UNCHANGED <<egress, weights, plan>> /\ KeepMeasure /\ KeepSource

\* The views are closed once the mount has no user.
CloseViews ==
  /\ handles = {}
  /\ Flow("ended", "close")
  /\ CloseAccess
  /\ UNCHANGED <<egress, weights, plan>> /\ KeepMeasure

\* RunTransfer closes the source when the run has returned.
CloseSource ==
  /\ Flow("close", "closed")
  /\ CloseRoot
  /\ UNCHANGED <<egress, weights, plan>> /\ KeepMeasure

SupervisorStep ==
  \/ \E result \in {"ok", "error"} : ResolveEgresses(result)
  \/ ScanSource \/ FactsRead \/ Measure \/ MeasurementEnds
  \/ \E w \in Weights : ManualWeights(w)
  \/ BeginAllocation \/ AllocateFile \/ FinishAllocation \/ OpenViews \/ CloseViews
  \/ CloseSource

ClientStep ==
  \/ \E t \in Targets, e \in FilesOf(captured) : OpenFile(t, e)
  \/ \E h \in handles : ReleaseFile(h)

Surroundings ==
  /\ phase \notin {"closed", "measure"}
  /\ OtherPrograms \/ (phase = "facts" /\ CancelContext)
  /\ UNCHANGED <<request, flowVars>> /\ KeepMeasure

PlanNext == CommandStep \/ SupervisorStep \/ ClientStep \/ CommandsEnd \/ Surroundings

\* The command and the supervisor go on, and the kernel closes the files of commands that
\* have ended.  A command that runs owes nothing: it need not end or close a file.
PlanFairness ==
  /\ WF_planVars(CommandStep) /\ WF_planVars(SupervisorStep)
  /\ WF_planVars(phase = "ended" /\ \E h \in handles : ReleaseFile(h))

PlanSpec == PlanInit /\ [][PlanNext]_planVars /\ PlanFairness

-----------------------------------------------------------------------------
(* Properties                                                              *)

TreeOK ==
  /\ entries \in [Dirs -> [Names -> Objects \cup {Nil}]] /\ size \in [Files -> Nat]
  /\ target \in [Links -> LinkText]
  /\ faults \in Nat /\ changes \in Nat /\ cancelled \in BOOLEAN

RootOK ==
  /\ root \in [state : {"closed", "open", "transferred"}, scanned : BOOLEAN,
               borrows : 0..2, anchors : Seq(Dirs), dir : Dirs \cup {Nil}]
  /\ lease \in Seq(Dirs \cup {Nil}) /\ fds \in Nat
  /\ IsFiniteSet(handles) /\ \A h \in handles : h.transfer \in Targets /\ h.file \in Files

ScanOK ==
  /\ spc \in {"idle", "names", "entry", "directory", "file", "link", "readlink", "reinspect",
              "walk", "enter", "final", "verify", "done"}
  /\ stack \in Seq(Frames)
  /\ item \in [name : Names, id : Objects \cup {Nil}]
  /\ walk \in [dir : Dirs \cup {Nil}, comps : Seq(Components), needDir : BOOLEAN, followed : Nat,
               id : Objects \cup {Nil}, text : Links \cup {Nil}]
  /\ captured \subseteq Entries /\ IsFiniteSet(captured)
  /\ scanned \in {"none", "snapshot", "empty", "error", "fault"}

MeasureOK ==
  /\ tpc \in [Targets -> {"resolve", "prepare", "sample", "done", "dead"}]
  /\ stream \in [Targets -> [Streams -> {"idle", "preparing", "prepared", "failed", "uploading",
                                        "deadline", "cancel", "stream", "broken", "closed"}]]
  /\ cause \in [Targets -> Causes] /\ alone \in [Targets -> Causes]
  /\ stage \in [Targets -> [Streams -> Stages]]
  /\ observation \in [Targets -> [result : {"none", "ok", "failed"}, stage : Stages,
                                  bytes : 0..(Limit - 1)]]

PlanTypeOK ==
  /\ request \in {"manual", "automatic", "list"}
  /\ phase \in {"open", "bind", "command", "borrowed", "launch", "inherit", "facts", "measure",
                "weights", "allocate", "place", "views", "serving", "ended", "close",
                "closed"}
  /\ TreeOK /\ RootOK /\ ScanOK /\ MeasureOK

\* Whatever other programs do during the scan, a directory is captured as it was at
\* one moment, when its names were read again, unless a name that changed was
\* changed back (verifySourceNames).
ShownAsItWas ==
  (spc = "verify" /\ Top.todo = {}) =>
    \/ Top.seen = Top.then
    \/ \E n \in Names : <<Top.dir, n>> \in retouched

\* The slots an open of a backing reference goes through.
Slots(anchors, reference) ==
  LET route == Route(entries, anchors[reference.anchor + 1], reference.names)
  IN {<<route[k - 1], reference.names[k]>> : k \in DOMAIN reference.names}

\* A file opened through a view is the one the scan captured at that path, unless
\* a name on the way to it changed; the paths of links included (BackingReference,
\* addBackingDirectory, OpenRegular).
OpensWhatWasCaptured ==
  lease # <<>> =>
    \A e \in captured :
      Slots(lease, e.backing) \cap touched = {} => OpenBacking(lease, e.backing) = e.id

\* Every descriptor has an owner that will close it: the root and its backing
\* directories, the scan, the lease, the open files; none is left at the end
\* (finishScan, replaceDirectory, SourceAccess.Close, SourceRoot.Close).
DescriptorsOwned ==
  LET held == IF root.state = "closed" THEN 0 ELSE 1 + Len(root.anchors)
      scanning == IF spc \in {"idle", "done"} THEN 0 ELSE ScanDescriptors
      borrowed == IF phase = "borrowed" THEN 1 ELSE 0
  IN /\ fds = held + scanning + borrowed + Len(lease) + Cardinality(handles)
     /\ phase = "closed" => fds = 0

\* What is given to transfers.
Items == FilesOf(captured) \cup EmptyDirsOf(captured)

\* Each file and each empty directory is visible to one transfer, and a transfer
\* sees a directory only if something of its own lies in it (buildViewDirectory).
ViewsPartition ==
  phase = "views" =>
    LET Seers(e) == {t \in Targets : Visible(plan, t, e.path)}
    IN /\ \A e \in Items : Cardinality(Seers(e)) = 1
       /\ \A e \in captured \ Items :
            Seers(e) = UNION {Seers(f) : f \in {i \in Items : IsPrefix(e.path, i.path)}}

\* No transfer was given a file while another had less to do for its weight: without
\* its smallest file each is no more loaded than any other (minimumLoad, compareLoad,
\* whatever the size of the products).
LoadsBalanced ==
  phase = "views" =>
    \A i, j \in DOMAIN plan.loads :
      LET mine == {f \in FilesOf(captured) : <<f.path, i>> \in plan.owners}
          least == Min({f.size : f \in mine})
      IN mine # {} => (plan.loads[i].bytes - least) * plan.loads[j].weight
                        <= plan.loads[j].bytes * plan.loads[i].weight

\* Measured weights are positive, have no common divisor and are proportional to the
\* bytes uploaded within the rounding to the scale (RelativeWeights).
WeightsFaithful ==
  (request # "manual" /\ weights # <<>>) =>
    LET Bytes(t) == observation[t].bytes
        slow == CHOOSE t \in DOMAIN weights : \A u \in DOMAIN weights : Bytes(t) <= Bytes(u)
        Error(t) == weights[t] * Bytes(slow) - weights[slow] * Bytes(t)
    IN /\ \A t \in DOMAIN weights :
            /\ weights[t] \in 1..(Limit - 1)
            /\ 2 * Scale * Error(t) <= weights[slow] * Bytes(slow)
            /\ -2 * Scale * Error(t) <= weights[slow] * Bytes(slow)
       /\ CommonDivisor({weights[t] : t \in DOMAIN weights}) = 1

\* A failed preparation names the stage of the stream that failed first, not of one
\* that was stopped because of it (prepareStreams); a measurement succeeds only if
\* no stream failed, also after the window, and something was uploaded.
FailuresReported ==
  \A t \in Targets :
    /\ (observation[t].result = "failed" /\ alone[t].kind = "stream")
          => observation[t].stage = alone[t].stage
    /\ observation[t].result = "ok" => alone[t] = NoCause /\ observation[t].bytes > 0

\* Weights come only from a group of measurements that all succeeded: no helper died,
\* and no transfer is without a weight (decodeHelperResults, validateWeightSet).
GroupMeasured ==
  (request = "automatic" /\ phase \in {"allocate", "views", "serving"}) =>
    /\ DOMAIN weights = Targets
    /\ \A t \in Targets : tpc[t] = "done" /\ observation[t].result = "ok"

\* Nothing but commands that run keeps a run from its end, whatever the links and the other
\* programs do: the scan and the measurement return, so that the views are served or the
\* source is closed, and after the commands, which are served once, it is closed
\* (followedLinks, the deadlines, borrows).
PlanReturns == []<>(phase \in {"serving", "closed"})

\* What a view shows is what the source was, however other programs change it during
\* the scan, and what it opens later is what was captured.
CapturedAsItWas == PlanTypeOK /\ ShownAsItWas /\ OpensWhatWasCaptured

\* The views divide the source: everything is shown once, and the load follows the
\* weights.
FairShares == ViewsPartition /\ LoadsBalanced

\* Weights state what was measured: by helpers that all succeeded, in proportion, and
\* a failure is the one that came first.
MeasuredTruthfully == WeightsFaithful /\ FailuresReported /\ GroupMeasured

-----------------------------------------------------------------------------
(***************************************************************************)
(* The invariant behind CapturedAsItWas, DescriptorsOwned and              *)
(* MeasuredTruthfully.                                                     *)
(***************************************************************************)

\* Who holds the source, by the phase of the run, and how often it is borrowed.
HolderInv ==
  /\ request = "list" => phase \in {"measure", "closed"}
  /\ root.state = (CASE phase \in {"open", "bind", "closed"} \/ request = "list" -> "closed"
                     [] phase = "inherit" -> "transferred"
                     [] OTHER -> "open")
  /\ root.state # "open" => root.anchors = <<>>
  /\ phase = "bind" => item.id \in Dirs
  /\ root.state # "closed" => root.dir \in Dirs
  /\ phase # "facts" => spc \in {"idle", "done"}
  /\ lease # <<>> <=> phase \in {"serving", "ended"}
  /\ handles # {} => phase \in {"serving", "ended"}
  /\ root.borrows = (IF phase = "borrowed" THEN 1 ELSE 0) + (IF lease # <<>> THEN 1 ELSE 0)
                      + (IF spc \in {"idle", "done"} THEN 0 ELSE 1)

\* What the scan is about, by its step.
WalkInv ==
  /\ spc \in {"idle", "done"} <=> stack = <<>>
  /\ spc = "names" => Top.seen = {}
  /\ spc = "directory" => item.id \in Dirs
  /\ spc = "file" => item.id \in Files
  /\ spc \in {"idle", "done", "names", "entry", "directory", "file", "verify"} => walk.dir = Nil
  /\ spc \in {"walk", "enter", "final"} => walk.dir # Nil
  /\ (walk.dir # Nil /\ spc # "walk") => walk.comps # <<>>
  /\ spc = "enter" => walk.id \in Dirs
  /\ spc = "final" => walk.id \in Dirs \cup Files /\ Head(walk.comps) \in Names
  /\ spc = "reinspect" => walk.text \in Links

\* What an activation of scanDirectory has seen of its directory is there or was
\* changed, and is one object under each name...
SeenThere(frame) ==
  \A s \in frame.seen :
    /\ entries[frame.dir][s[1]] = s[2] \/ <<frame.dir, s[1]>> \in touched
    /\ \A r \in frame.seen : s[1] = r[1] => s = r

\* ...and so is what was there when the names were read again: where the two differ,
\* the name is still to be compared or has changed since.
ThenThere(frame) ==
  /\ {s[1] : s \in frame.seen} = {s[1] : s \in frame.then}
  /\ \A s \in frame.seen : \A r \in frame.then :
       (s[1] = r[1] /\ s # r) =>
         /\ <<frame.dir, s[1]>> \in touched
         /\ entries[frame.dir][s[1]] = r[2] \/ <<frame.dir, s[1]>> \in retouched
         /\ s[1] \in frame.todo \/ <<frame.dir, s[1]>> \in retouched

SeenInv ==
  \A k \in DOMAIN stack :
    /\ SeenThere(stack[k])
    /\ IF spc = "verify" /\ k = Len(stack) THEN ThenThere(stack[k])
       ELSE \A s \in stack[k].seen : s[1] \notin stack[k].todo

\* A failure is the first one's, and is known from the streams until it is reported.
FailureKnown(t) ==
  /\ observation[t].result # "none" => tpc[t] \in {"done", "dead"}
  /\ tpc[t] = "resolve" => alone[t] = NoCause
  /\ (tpc[t] = "prepare" /\ alone[t] # NoCause) =>
       /\ alone[t].kind = "stream" /\ cause[t] = alone[t]
       /\ \E s \in Streams : stream[t][s] = "failed"
  /\ (tpc[t] = "sample" /\ alone[t] # NoCause) =>
       alone[t].kind = "broken" /\ \E s \in Streams : stream[t][s] = "broken"

FailureInv == FailuresReported /\ \A t \in Targets : FailureKnown(t)

\* Weights are what the measurement gave.
WeightsInv ==
  /\ WeightsFaithful
  /\ weights # <<>> => phase \in {"allocate", "place", "views", "serving", "ended", "close",
                                 "closed"}
  /\ phase = "weights" => request = "manual"
  /\ request = "automatic" /\ phase \in {"allocate", "place", "views", "serving"} =>
       /\ DOMAIN weights = Targets
       /\ \A t \in Targets : tpc[t] = "done" /\ observation[t].result = "ok"

PlanInv ==
  /\ PlanTypeOK /\ HolderInv /\ WalkInv /\ SeenInv /\ DescriptorsOwned
  /\ FailureInv /\ WeightsInv

-----------------------------------------------------------------------------
(***************************************************************************)
(* The invariants behind OpensWhatWasCaptured and FairShares.              *)
(***************************************************************************)

\* Every path is captured once, in a directory that is captured or being scanned;
\* the directories being scanned lie in each other.
SeenNames(frame) == {s[1] : s \in frame.seen}
Paths == {e.path : e \in captured}
OnThePath == {stack[k].path : k \in DOMAIN stack}
Active == spc \in {"directory", "file", "link", "readlink", "reinspect", "walk", "enter", "final"}

StackInv ==
  \A k \in DOMAIN stack :
    /\ Len(stack[k].path) = k - 1 /\ stack[k].path \notin Paths
    /\ k > 1 => \E n \in SeenNames(stack[k - 1]) :
                  stack[k].path = Append(stack[k - 1].path, n)
    /\ \A n \in Names : Append(stack[k].path, n) \in Paths => n \in SeenNames(stack[k])

TreeInv ==
  \A e \in captured :
    /\ \A f \in captured : e.path = f.path => e = f
    /\ e.path # <<>>
    /\ \/ Front(e.path) \in OnThePath \cup {<<>>}
       \/ \E d \in captured : d.kind = "directory" /\ d.path = Front(e.path)

ItemInv == Active => item.name \in SeenNames(Top) /\ ItemPath \notin Paths

CaptureInv == StackInv /\ TreeInv /\ ItemInv

\* What is captured, and what is being scanned, is found where its reference says.
Anchors == <<root.dir>> \o root.anchors
Reaches(anchors, reference, object) ==
  /\ reference.anchor + 1 \in DOMAIN anchors
  /\ Slots(anchors, reference) \cap touched = {} => OpenBacking(anchors, reference) = object

OpenInv ==
  /\ lease # <<>> => lease = Anchors
  /\ phase \in {"open", "bind", "command", "borrowed", "launch", "inherit"} \/ spc = "idle" =>
       captured = {}
  /\ root.state = "open" =>
       /\ \A e \in captured : Reaches(Anchors, e.backing, e.id)
       /\ \A k \in DOMAIN stack : Reaches(Anchors, stack[k].backing, stack[k].dir)

\* What the scan has captured, and where it lies.
ScanInv == CaptureInv /\ OpenInv

\* What is placed is no smaller than what is not, each file once, and no transfer was
\* given a file while another had less to do.
Placed == IF phase = "place" THEN FilesOf(captured) \ plan.todo ELSE Items

OwnersInv ==
  /\ \A o \in plan.owners : (\E e \in Placed : o[1] = e.path)
                             /\ \A p \in plan.owners : o[1] = p[1] => o = p
  /\ \A e \in Placed : \E o \in plan.owners : o[1] = e.path

BalanceInv ==
  \A i, j \in Targets : \A f \in FilesOf(captured) :
    <<f.path, i>> \in plan.owners =>
      (plan.loads[i].bytes - f.size) * plan.loads[j].weight
        <= plan.loads[j].bytes * plan.loads[i].weight

ShareInv ==
  /\ phase = "allocate" => weights \in [Targets -> Nat \ {0}]
  /\ phase \in {"place", "views"} =>
       /\ plan \in [todo : SUBSET FilesOf(captured),
                    loads : [Targets -> [weight : Nat \ {0}, bytes : Nat]],
                    owners : SUBSET (Seq(Names) \X Targets)]
       /\ \A f \in FilesOf(captured) \ plan.todo : \A g \in plan.todo : g.size <= f.size
       /\ OwnersInv /\ BalanceInv
=============================================================================
