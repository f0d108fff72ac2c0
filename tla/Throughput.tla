------------------------------ MODULE Throughput ------------------------------
(***************************************************************************)
(* Measuring what each target can upload (internal/throughput): a target   *)
(* prepares its streams in parallel, then uploads on all of them for a     *)
(* window of time, and weights are derived from what was uploaded.  Host   *)
(* measurements observe every target in one process under one context; the *)
(* measurement of a transfer runs one helper process per namespace, which  *)
(* may die, and turns any failure into a failure of the group.             *)
(***************************************************************************)
EXTENDS Integers, Sequences, FiniteSets, FiniteSetsExt

CONSTANTS
  Targets,
  Schemes,      \* the schemes of endpoints: "http", "https"
  UploadBytes,  \* uploadRequestBytes: the size of an upload, for each stream
  MaxUploads,   \* bound: uploads a stream completes
  Scale,        \* normalizedScale
  Limit         \* numbers a uint64 holds are 0 .. Limit - 1

ASSUME ThroughputAssumption ==
  /\ IsFiniteSet(Targets) /\ UploadBytes \in Seq(Nat \ {0}) /\ MaxUploads \in Nat
  /\ Scale \in Nat \ {0} /\ Limit \in Nat \ {0}

VARIABLES
  scheme,       \* the scheme of the endpoint
  mode,         \* "host" or "namespace"
  parent,       \* the context of Observe: "live" or "cancelled"
  tpc,          \* where observeTarget stands, for each target
  stream,       \* where each stream of a target stands
  stage,        \* the failureStage each stream has reached
  cause,        \* why the context of the streams of a target ended
  completed,    \* the bytes each stream has counted
  observation,  \* the Observation of each target
  alone         \* history: the first stream that failed by itself, and its stage

throughputVars == <<scheme, mode, parent, tpc, stream, stage, cause, completed, observation, alone>>
perStream == <<stream, stage>>

Streams == DOMAIN UploadBytes
Stages == {"none", "resolve", "connect", "tls", "validate", "sample"}
NoCause == [kind |-> "none", stage |-> "none"]
Causes == {NoCause} \cup [kind : {"deadline", "cancel", "stream", "broken"}, stage : Stages]
NoObservation == [result |-> "none", stage |-> "none", bytes |-> 0]
Failed(at) == [result |-> "failed", stage |-> at, bytes |-> 0]

ThroughputInit ==
  /\ scheme \in Schemes
  /\ parent = "live"
  /\ tpc = [t \in Targets |-> "resolve"]
  /\ stream = [t \in Targets |-> [s \in Streams |-> "idle"]]
  /\ stage = [t \in Targets |-> [s \in Streams |-> "none"]]
  /\ cause = [t \in Targets |-> NoCause]
  /\ completed = [t \in Targets |-> [s \in Streams |-> 0]]
  /\ observation = [t \in Targets |-> NoObservation]
  /\ alone = [t \in Targets |-> NoCause]

\* Observe returns once the goroutine of every target has ended.
Observed == \A t \in Targets : tpc[t] \in {"done", "dead"}

-----------------------------------------------------------------------------
(* Contexts                                                                *)

\* A context ends once: the first cause stays.
EndContext(t, kind, at) ==
  cause' = [cause EXCEPT ![t] = IF @ = NoCause THEN [kind |-> kind, stage |-> at] ELSE @]

\* The time to prepare, or the window to upload, is over.
ContextExpires(t) ==
  /\ tpc[t] \in {"resolve", "prepare", "sample"} /\ cause[t] = NoCause
  /\ EndContext(t, "deadline", "none")
  /\ UNCHANGED <<scheme, mode, parent, tpc, perStream, completed, observation, alone>>

\* The caller cancels: the context of every target ends with it.
CancelParent ==
  /\ mode = "host" /\ parent = "live"
  /\ parent' = "cancelled"
  /\ cause' = [t \in Targets |-> IF cause[t] = NoCause THEN [kind |-> "cancel", stage |-> "none"]
                                 ELSE cause[t]]
  /\ UNCHANGED <<scheme, mode, tpc, perStream, completed, observation, alone>>

\* A helper process is killed or fails.
HelperDies(t) ==
  /\ mode = "namespace" /\ tpc[t] # "dead"
  /\ tpc' = [tpc EXCEPT ![t] = "dead"]
  /\ stream' = [stream EXCEPT ![t] = [s \in Streams |-> "closed"]]
  /\ UNCHANGED <<scheme, mode, parent, stage, cause, completed, observation, alone>>

-----------------------------------------------------------------------------
(* Preparation                                                             *)

Observe(t, result) ==
  /\ observation' = [observation EXCEPT ![t] = result]
  /\ tpc' = [tpc EXCEPT ![t] = "done"]
  /\ stream' = [stream EXCEPT ![t] = [s \in Streams |-> "closed"]]    \* closeStreams

\* resolveEndpoint
ResolveEndpoint(t, ok) ==
  /\ tpc[t] = "resolve"
  /\ ok => cause[t] = NoCause
  /\ IF ok THEN /\ tpc' = [tpc EXCEPT ![t] = "prepare"]
                /\ stream' = [stream EXCEPT ![t] = [s \in Streams |-> "preparing"]]
                /\ stage' = [stage EXCEPT ![t] = [s \in Streams |-> "connect"]]
                /\ UNCHANGED observation
     ELSE Observe(t, Failed("resolve")) /\ UNCHANGED stage
  /\ UNCHANGED <<scheme, mode, parent, cause, completed, alone>>

Preparing(t, s) == tpc[t] = "prepare" /\ stream[t][s] = "preparing"

\* The dial and the handshake of a stream move its failureStage on.
NextStage(t, s) ==
  CASE stage[t][s] = "connect" -> IF scheme = "https" THEN "tls" ELSE "validate"
    [] OTHER -> "validate"

AdvanceStream(t, s) ==
  /\ Preparing(t, s) /\ stage[t][s] # "validate"
  /\ stage' = [stage EXCEPT ![t][s] = NextStage(t, s)]
  /\ UNCHANGED <<scheme, mode, parent, tpc, stream, cause, completed, observation, alone>>

\* The validation upload is consumed: the stream keeps its connection.
StreamPrepared(t, s) ==
  /\ Preparing(t, s) /\ stage[t][s] = "validate"
  /\ stream' = [stream EXCEPT ![t][s] = "prepared"]
  /\ UNCHANGED <<scheme, mode, parent, tpc, stage, cause, completed, observation, alone>>

\* A stream fails by itself: it cancels its siblings and names its stage.
StreamFails(t, s) ==
  /\ Preparing(t, s)
  /\ stream' = [stream EXCEPT ![t][s] = "failed"]
  /\ EndContext(t, "stream", stage[t][s])
  /\ alone' = [alone EXCEPT ![t] = IF @ = NoCause /\ cause[t] = NoCause
                                   THEN [kind |-> "stream", stage |-> stage[t][s]] ELSE @]
  /\ UNCHANGED <<scheme, mode, parent, tpc, stage, completed, observation>>

\* A stream is stopped by the end of its context; its stage is its own.
StreamStopped(t, s) ==
  /\ Preparing(t, s) /\ cause[t] # NoCause
  /\ stream' = [stream EXCEPT ![t][s] = "failed"]
  /\ UNCHANGED <<scheme, mode, parent, tpc, stage, cause, completed, observation, alone>>

\* Mutant: the stage of the first stream in order.
StageInOrder(t) == stage[t][Min({s \in Streams : stream[t][s] = "failed"})]

\* prepareStreams reports the failure that cancelled the others, else the one
\* of the first stream that failed.
PreparationStage(t) ==
  IF cause[t].kind = "stream" THEN cause[t].stage
  ELSE stage[t][Min({s \in Streams : stream[t][s] = "failed"})]

PreparationEnds(t) ==
  /\ tpc[t] = "prepare" /\ \A s \in Streams : stream[t][s] # "preparing"
  /\ IF \E s \in Streams : stream[t][s] = "failed"
     THEN Observe(t, Failed(PreparationStage(t))) /\ UNCHANGED cause
     ELSE /\ tpc' = [tpc EXCEPT ![t] = "sample"]
          /\ stream' = [stream EXCEPT ![t] = [s \in Streams |-> "uploading"]]
          \* the window is a new context below the one of the caller
          /\ cause' = [cause EXCEPT ![t] = IF parent = "live" THEN NoCause
                                           ELSE [kind |-> "cancel", stage |-> "none"]]
          /\ UNCHANGED observation
  /\ UNCHANGED <<scheme, mode, parent, stage, completed, alone>>

-----------------------------------------------------------------------------
(* The window                                                              *)

Uploading(t, s) == tpc[t] = "sample" /\ stream[t][s] = "uploading"

\* sampleStream counts an upload only while its context lives.
UploadDone(t, s) ==
  /\ Uploading(t, s)
  /\ \/ /\ cause[t] = NoCause /\ completed[t][s] < MaxUploads * UploadBytes[s]
        /\ completed' = [completed EXCEPT ![t][s] = @ + UploadBytes[s]]
        /\ UNCHANGED stream
     \/ /\ cause[t] # NoCause
        /\ stream' = [stream EXCEPT ![t][s] = cause[t].kind]
        /\ UNCHANGED completed
  /\ UNCHANGED <<scheme, mode, parent, tpc, stage, cause, observation, alone>>

\* An upload fails or is not consumed: the siblings are cancelled.
UploadFails(t, s) ==
  /\ Uploading(t, s)
  /\ stream' = [stream EXCEPT ![t][s] = "broken"]
  /\ EndContext(t, "broken", "sample")
  /\ alone' = [alone EXCEPT ![t] = [kind |-> "broken", stage |-> "sample"]]
  /\ UNCHANGED <<scheme, mode, parent, tpc, stage, completed, observation>>

Total(t) == MapThenSumSet(LAMBDA s : completed[t][s], Streams)

\* sampleStreams, once every stream has ended.
Sampled(t) ==
  IF \/ parent = "cancelled" \/ cause[t].kind = "broken"
     \/ \E s \in Streams : stream[t][s] # "deadline"
     \/ Total(t) \notin 1..(Limit - 1)
  THEN Failed("sample")
  ELSE [result |-> "ok", stage |-> "none", bytes |-> Total(t)]

WindowEnds(t) ==
  /\ tpc[t] = "sample" /\ \A s \in Streams : stream[t][s] # "uploading"
  /\ Observe(t, Sampled(t))
  /\ UNCHANGED <<scheme, mode, parent, stage, cause, completed, alone>>

ThroughputStep ==
  \/ CancelParent
  \/ \E t \in Targets :
       \/ ContextExpires(t) \/ HelperDies(t) \/ PreparationEnds(t) \/ WindowEnds(t)
       \/ \E ok \in BOOLEAN : ResolveEndpoint(t, ok)
       \/ \E s \in Streams :
            \/ AdvanceStream(t, s) \/ StreamPrepared(t, s) \/ StreamFails(t, s)
            \/ StreamStopped(t, s) \/ UploadDone(t, s) \/ UploadFails(t, s)

-----------------------------------------------------------------------------
(* Weights                                                                 *)

\* RelativeWeights scales to the slowest target and rounds to the nearest.
Scaled(bytes, slowest) ==
  LET product == bytes * Scale
  IN (product \div slowest) + (IF 2 * (product % slowest) >= slowest THEN 1 ELSE 0)

CommonDivisor(values) ==
  Max({d \in 1..Min(values) : \A v \in values : v % d = 0})

\* The weights of the targets in bytes, a function; none when a scaled value
\* does not fit.
Weigh(bytes) ==
  LET slowest == Min({bytes[t] : t \in DOMAIN bytes})
      scaled == [t \in DOMAIN bytes |-> Scaled(bytes[t], slowest)]
      divisor == CommonDivisor({scaled[t] : t \in DOMAIN bytes})
  IN IF \E t \in DOMAIN bytes : scaled[t] >= Limit THEN <<>>
     ELSE [t \in DOMAIN bytes |-> scaled[t] \div divisor]

\* decodeHelperResults and RelativeWeights: all targets, or for a list those
\* that succeeded; fewer than two have no relative weights.
RelativeWeights(successfulOnly) ==
  LET valid == {t \in Targets : observation[t].result = "ok"}
  IN IF (valid # Targets /\ ~successfulOnly) \/ Cardinality(valid) < 2
        \/ (\E t \in Targets : tpc[t] = "dead") THEN <<>>
     ELSE Weigh([t \in valid |-> observation[t].bytes])

=============================================================================
