------------------------- MODULE HostNetworkProofs -------------------------
(***************************************************************************)
(* Proofs about HostNetwork, for any number of processes, runs, identities *)
(* and transfers, and for every environment.                               *)
(***************************************************************************)
EXTENDS HostNetwork, FiniteSetTheorems, TLAPS

\* A process that is not idle works on a run, alone.
LEMMA Working ==
  ASSUME NetworkInv, NEW p \in Procs, pc[p] # "idle"
  PROVE  /\ run[p] \in Runs /\ run[p] # NoRun
         /\ \A q \in Procs : run[q] = run[p] => q = p
         /\ NoProc \notin Procs
BY ConstantsAssumption DEF NetworkInv, OwnerInv, TypeOK

\* The constants.
LEMMA ConstantFacts ==
  /\ NoProc \notin Procs /\ NoRun \notin Runs
  /\ Transfers \in Nat \ {0} /\ FirewallParts \in Nat \ {0} /\ MaxLeases \in Nat
BY ConstantsAssumption

\* Nothing that a step numbers is beyond the objects of a claim.
LEMMA NextObject ==
  ASSUME NetworkInv, NEW p \in Procs, pc[p] = "install"
  PROVE  /\ Cardinality(receipts[p]) + 1 \in Objects
         /\ \E n \in Nat : /\ receipts[p] = 1..n /\ Cardinality(receipts[p]) = n
                           /\ receipts[p] \cup {n + 1} = 1..(n + 1)
<1>1. PICK n \in 0..(4 * Transfers + FirewallParts - 1) : receipts[p] = 1..n
  BY DEF NetworkInv, StepInv
<1>2. n \in Nat /\ n + 1 \in 1..(4 * Transfers + FirewallParts)
  BY ConstantFacts
<1>3. Cardinality(1..n) = n
  BY <1>2, FS_Interval
<1>4. (1..n) \cup {n + 1} = 1..(n + 1)
  BY <1>2
<1> QED BY <1>1, <1>2, <1>3, <1>4 DEF Objects

\* What is deleted are objects of the claim.
LEMMA ObjectKinds ==
  /\ Firewall \subseteq Objects /\ Links \subseteq Objects /\ WeakFIB \subseteq Objects
  /\ \A p \in Procs, S \in SUBSET Objects :
       TypeOK => Targets(p, S) \in SUBSET Objects
<1>1. Firewall \subseteq Objects /\ Links \subseteq Objects
  BY ConstantFacts DEF Firewall, Links, Objects
<1>2. \A l \in Links : RouteOf(l) \in 1..(4 * Transfers - 2)
  BY ConstantFacts DEF Links, RouteOf
<1>3. \A o \in 1..(4 * Transfers - 2) : {o, o + 1, o + 2} \subseteq Objects
  BY ConstantFacts DEF Objects
<1>4. WeakFIB \subseteq Objects
  BY <1>2, <1>3 DEF WeakFIB, Routes, PolicyRules
<1> QED BY <1>1, <1>4 DEF Targets, TypeOK

-----------------------------------------------------------------------------
(* The steps                                                               *)

USE DEF Unlocked, Publishing, Activating, OpenSteps, Deleting, Dropping, Claimed,
        evidence, kernel, local, Go, Note, Unlock

\* A run starts in a root of its own.
LEMMA StartRunKeeps ==
  ASSUME NetworkInv, NEW p \in Procs, NEW r \in Runs, StartRun(p, r)
  PROVE  NetworkInv'
<1>1. TypeOK'
  BY DEF NetworkInv, TypeOK, Steps, StartRun
<1>2. OwnerInv'
  <2>1. \A q \in Procs : run[q] # r
    BY ConstantFacts DEF NetworkInv, OwnerInv, StartRun
  <2>2. r # NoRun /\ NoProc \notin Procs
    BY ConstantFacts
  <2>3. \A q \in Procs : run'[q] = IF q = p THEN r ELSE run[q]
    BY DEF NetworkInv, TypeOK, StartRun
  <2>4. \A q \in Procs : q # p => run'[q] = run[q] /\ pc'[q] = pc[q] /\ op'[q] = op[q]
                                /\ (run[q] # NoRun => life'[run[q]] = life[run[q]])
    BY <2>1 DEF NetworkInv, TypeOK, StartRun
  <2>5. /\ run'[p] = r /\ pc'[p] = "awaitLock"
        /\ op'[p] = "open"
        /\ life'[r] = "live" /\ lock # p /\ lock' = lock
    BY DEF NetworkInv, TypeOK, OwnerInv, StartRun
  <2> QED BY <2>1, <2>2, <2>3, <2>4, <2>5 DEF NetworkInv, OwnerInv
<1>3. StepInv'
  BY DEF NetworkInv, StepInv, StartRun
<1>4. FreshInv'
  BY DEF NetworkInv, TypeOK, FreshInv, StartRun
<1>5. ContentsInv'
  BY DEF NetworkInv, ContentsInv, StartRun
<1>6. SessionInv'
  BY DEF NetworkInv, SessionInv, StartRun
<1>7. UniqueInv'
  BY DEF NetworkInv, UniqueInv, StartRun
<1>8. NothingUnclaimed'
  BY DEF NetworkInv, NothingUnclaimed, StartRun
<1>9. TrafficActivated'
  BY DEF NetworkInv, TrafficActivated, StartRun
<1> QED BY <1>1, <1>2, <1>3, <1>4, <1>5, <1>6, <1>7, <1>8, <1>9 DEF NetworkInv

\* A stale run is claimed by one process.
LEMMA ClaimStaleKeeps ==
  ASSUME NetworkInv, NEW p \in Procs, NEW r \in Runs, ClaimStale(p, r)
  PROVE  NetworkInv'
<1>1. TypeOK'
  BY DEF NetworkInv, TypeOK, Steps, ClaimStale
<1>2. OwnerInv'
  <2>1. \A q \in Procs : run[q] # r
    BY ConstantFacts DEF NetworkInv, OwnerInv, ClaimStale
  <2>2. r # NoRun /\ NoProc \notin Procs
    BY ConstantFacts
  <2>3. \A q \in Procs : run'[q] = IF q = p THEN r ELSE run[q]
    BY DEF NetworkInv, TypeOK, ClaimStale
  <2>4. \A q \in Procs : q # p => run'[q] = run[q] /\ pc'[q] = pc[q] /\ op'[q] = op[q]
                                /\ (run[q] # NoRun => life'[run[q]] = life[run[q]])
    BY <2>1 DEF NetworkInv, TypeOK, ClaimStale
  <2>5. /\ run'[p] = r /\ pc'[p] = "awaitLock"
        /\ op'[p] = "recover"
        /\ life'[r] = "claimed" /\ lock # p /\ lock' = lock
    BY DEF NetworkInv, TypeOK, OwnerInv, ClaimStale
  <2> QED BY <2>1, <2>2, <2>3, <2>4, <2>5 DEF NetworkInv, OwnerInv
<1>3. StepInv'
  BY DEF NetworkInv, StepInv, ClaimStale
<1>4. FreshInv'
  BY DEF NetworkInv, TypeOK, FreshInv, ClaimStale
<1>5. ContentsInv'
  BY DEF NetworkInv, ContentsInv, ClaimStale
<1>6. SessionInv'
  BY DEF NetworkInv, SessionInv, ClaimStale
<1>7. UniqueInv'
  BY DEF NetworkInv, UniqueInv, ClaimStale
<1>8. NothingUnclaimed'
  BY DEF NetworkInv, NothingUnclaimed, ClaimStale
<1>9. TrafficActivated'
  BY DEF NetworkInv, TrafficActivated, ClaimStale
<1> QED BY <1>1, <1>2, <1>3, <1>4, <1>5, <1>6, <1>7, <1>8, <1>9 DEF NetworkInv

\* A process is done with its run.
LEMMA FinishKeeps ==
  ASSUME NetworkInv, NEW p \in Procs, Finish(p)
  PROVE  NetworkInv'
<1>0. /\ run[p] \in Runs /\ run[p] # NoRun /\ \A q \in Procs : run[q] = run[p] => q = p
      /\ NoProc \notin Procs
  BY Working DEF Finish
<1>1. TypeOK'
  BY <1>0, ConstantFacts DEF NetworkInv, TypeOK, Steps, OwnerInv, StepInv, Finish
<1>2. OwnerInv'
  BY <1>0 DEF NetworkInv, TypeOK, OwnerInv, Finish
<1>3. StepInv'
  BY <1>0 DEF NetworkInv, TypeOK, StepInv, Finish
<1>4. FreshInv'
  BY <1>0 DEF NetworkInv, TypeOK, FreshInv, Finish
<1>5. ContentsInv'
  BY <1>0, SMTT(30) DEF NetworkInv, ContentsInv, Finish
<1>6. SessionInv'
  BY <1>0 DEF NetworkInv, TypeOK, SessionInv, Finish
<1>7. UniqueInv'
  BY <1>0 DEF NetworkInv, UniqueInv, Finish
<1>8. NothingUnclaimed'
  BY <1>0 DEF NetworkInv, NothingUnclaimed, Finish
<1>9. TrafficActivated'
  BY <1>0 DEF NetworkInv, TrafficActivated, Finish
<1> QED BY <1>1, <1>2, <1>3, <1>4, <1>5, <1>6, <1>7, <1>8, <1>9 DEF NetworkInv

\* One process takes the lock.
LEMMA AcquireHostLockKeeps ==
  ASSUME NetworkInv, NEW p \in Procs, AcquireHostLock(p)
  PROVE  NetworkInv'
<1>0. /\ run[p] \in Runs /\ run[p] # NoRun /\ \A q \in Procs : run[q] = run[p] => q = p
      /\ NoProc \notin Procs
  BY Working DEF AcquireHostLock
<1>1. TypeOK'
  BY <1>0 DEF NetworkInv, TypeOK, Steps, AcquireHostLock
<1>2. OwnerInv'
  BY <1>0 DEF NetworkInv, TypeOK, OwnerInv, AcquireHostLock
<1>3. StepInv'
  BY <1>0 DEF NetworkInv, StepInv, AcquireHostLock
<1>4. FreshInv'
  BY <1>0 DEF NetworkInv, FreshInv, AcquireHostLock
<1>5. ContentsInv'
  BY <1>0 DEF NetworkInv, ContentsInv, AcquireHostLock
<1>6. SessionInv'
  BY <1>0 DEF NetworkInv, SessionInv, AcquireHostLock
<1>7. UniqueInv'
  BY <1>0 DEF NetworkInv, UniqueInv, AcquireHostLock
<1>8. NothingUnclaimed'
  BY <1>0 DEF NetworkInv, NothingUnclaimed, AcquireHostLock
<1>9. TrafficActivated'
  BY <1>0 DEF NetworkInv, TrafficActivated, AcquireHostLock
<1> QED BY <1>1, <1>2, <1>3, <1>4, <1>5, <1>6, <1>7, <1>8, <1>9 DEF NetworkInv

\* An operation returns an error, at whichever step.
LEMMA FailKeeps ==
  ASSUME NetworkInv, NEW p \in Procs, NEW f \in SUBSET Flags, Fail(p),
         pc[p] \notin {"idle", "session", "closed", "failed", "recovered"},
         flags' = [flags EXCEPT ![p] = f], UNCHANGED left,
         UNCHANGED disk \/ Sync(run[p]),
         UNCHANGED <<life, slot, dir, objects, traffic, foreign, env, leases, op, run,
            receipts>>
  PROVE  NetworkInv'
<1>0. /\ run[p] \in Runs /\ run[p] # NoRun /\ \A q \in Procs : run[q] = run[p] => q = p
      /\ NoProc \notin Procs
  BY Working DEF Fail, Sync
<1>1. TypeOK'
  BY <1>0 DEF NetworkInv, TypeOK, Steps, Fail, Sync
<1>2. OwnerInv'
  BY <1>0 DEF NetworkInv, TypeOK, OwnerInv, Fail, Sync
<1>3. StepInv'
  BY <1>0 DEF NetworkInv, TypeOK, StepInv, Fail, Sync
<1>4. FreshInv'
  <2>1. \A r \in Runs : life[r] = "fresh" => disk'[r] = disk[r] /\ dir'[r] = dir[r]
    BY <1>0 DEF NetworkInv, TypeOK, OwnerInv, Sync
  <2>2. pc'[p] \in {"session", "failed"}
    BY DEF NetworkInv, TypeOK, Fail
  <2>3. \A q \in Procs : q # p => pc'[q] = pc[q]
    BY DEF NetworkInv, TypeOK, Fail
  <2> QED BY <2>1, <2>2, <2>3 DEF NetworkInv, FreshInv
<1>5. ContentsInv'
  BY <1>0 DEF NetworkInv, TypeOK, ContentsInv, Fail, Sync
<1>6. SessionInv'
  BY <1>0, ConstantFacts DEF NetworkInv, TypeOK, SessionInv, OwnerInv, StepInv, Fail, Sync
<1>7. UniqueInv'
  BY <1>0 DEF NetworkInv, UniqueInv, Fail, Sync
<1>8. NothingUnclaimed'
  BY <1>0 DEF NetworkInv, NothingUnclaimed, Fail, Sync
<1>9. TrafficActivated'
  BY <1>0 DEF NetworkInv, TrafficActivated, Fail, Sync
<1> QED BY <1>1, <1>2, <1>3, <1>4, <1>5, <1>6, <1>7, <1>8, <1>9 DEF NetworkInv

\* An operation returns without one.
LEMMA SucceedKeeps ==
  ASSUME NetworkInv, NEW p \in Procs, Succeed(p), pc[p] \in Dropping \cup {"load"},
         UNCHANGED <<left, flags>>,
         UNCHANGED disk \/ Sync(run[p]),
         UNCHANGED <<life, slot, dir, objects, traffic, foreign, env, leases, op, run,
            receipts>>
  PROVE  NetworkInv'
<1>0. /\ run[p] \in Runs /\ run[p] # NoRun /\ \A q \in Procs : run[q] = run[p] => q = p
      /\ NoProc \notin Procs
  BY Working DEF Succeed, Sync
<1>1. TypeOK'
  <2>1. disk' \in [Runs -> SUBSET (SUBSET Entries)]
    BY <1>0 DEF NetworkInv, TypeOK, Sync
  <2>2. pc' \in [Procs -> Steps] /\ lock' \in Procs \cup {NoProc} /\ spaces' \subseteq Runs
    BY <1>0 DEF NetworkInv, TypeOK, OwnerInv, StepInv, Steps, Succeed
  <2> QED BY <2>1, <2>2 DEF NetworkInv, TypeOK, Succeed
<1>2. OwnerInv'
  BY <1>0, ConstantFacts DEF NetworkInv, TypeOK, OwnerInv, StepInv, Succeed, Sync
<1>3. StepInv'
  BY <1>0, ConstantFacts DEF NetworkInv, TypeOK, StepInv, OwnerInv, Succeed, Sync
<1>4. FreshInv'
  <2>1. \A r \in Runs : life[r] = "fresh" => disk'[r] = disk[r] /\ dir'[r] = dir[r]
    BY <1>0 DEF NetworkInv, TypeOK, OwnerInv, Sync
  <2>2. pc'[p] \in {"closed", "recovered", "failed"}
    BY DEF NetworkInv, TypeOK, OwnerInv, StepInv, Succeed
  <2>3. \A q \in Procs : q # p => pc'[q] = pc[q]
    BY DEF NetworkInv, TypeOK, Succeed
  <2> QED BY <2>1, <2>2, <2>3 DEF NetworkInv, FreshInv
<1>5. ContentsInv'
  BY <1>0, ConstantFacts DEF NetworkInv, TypeOK, ContentsInv, OwnerInv, StepInv, Succeed,
     Sync
<1>6. SessionInv'
  BY <1>0, ConstantFacts DEF NetworkInv, TypeOK, SessionInv, OwnerInv, StepInv, Succeed,
     Sync
<1>7. UniqueInv'
  BY <1>0, ConstantFacts DEF NetworkInv, TypeOK, UniqueInv, OwnerInv, StepInv, Succeed, Sync
<1>8. NothingUnclaimed'
  BY <1>0 DEF NetworkInv, NothingUnclaimed, Succeed, Sync
<1>9. TrafficActivated'
  BY <1>0 DEF NetworkInv, TrafficActivated, Succeed, Sync
<1> QED BY <1>1, <1>2, <1>3, <1>4, <1>5, <1>6, <1>7, <1>8, <1>9 DEF NetworkInv

\* The identity is one that nobody uses or claims.
LEMMA AllocateKeeps ==
  ASSUME NetworkInv, NEW p \in Procs, Allocate(p)
  PROVE  NetworkInv'
<1>0. /\ run[p] \in Runs /\ run[p] # NoRun /\ \A q \in Procs : run[q] = run[p] => q = p
      /\ NoProc \notin Procs
  BY Working DEF Allocate, Reserved
<1>1. TypeOK'
  BY <1>0 DEF NetworkInv, TypeOK, Steps, Allocate, Reserved
<1>2. OwnerInv'
  BY <1>0 DEF NetworkInv, OwnerInv, Allocate, Reserved
<1>3. StepInv'
  BY <1>0 DEF NetworkInv, StepInv, Allocate, Reserved
<1>4. FreshInv'
  BY <1>0 DEF NetworkInv, FreshInv, Allocate, Reserved
<1>5. ContentsInv'
  BY <1>0 DEF NetworkInv, ContentsInv, Allocate, Reserved
<1>6. SessionInv'
  BY <1>0 DEF NetworkInv, SessionInv, Allocate, Reserved
<1>7. UniqueInv'
  BY <1>0, ConstantFacts DEF NetworkInv, TypeOK, UniqueInv, OwnerInv, StepInv, FreshInv,
     ContentsInv, SessionInv, Allocate, Reserved
<1>8. NothingUnclaimed'
  BY <1>0 DEF NetworkInv, NothingUnclaimed, Allocate, Reserved
<1>9. TrafficActivated'
  BY <1>0 DEF NetworkInv, TrafficActivated, Allocate, Reserved
<1> QED BY <1>1, <1>2, <1>3, <1>4, <1>5, <1>6, <1>7, <1>8, <1>9 DEF NetworkInv

\* The network directory is made.
LEMMA MakeNetworkDirectoryKeeps ==
  ASSUME NetworkInv, NEW p \in Procs, MakeNetworkDirectory(p)
  PROVE  NetworkInv'
<1>0. /\ run[p] \in Runs /\ run[p] # NoRun /\ \A q \in Procs : run[q] = run[p] => q = p
      /\ NoProc \notin Procs
  BY Working DEF MakeNetworkDirectory, Change, Changed, Entries
<1>1. TypeOK'
  BY <1>0 DEF NetworkInv, TypeOK, Steps, MakeNetworkDirectory, Change, Changed, Entries
<1>2. OwnerInv'
  BY <1>0 DEF NetworkInv, OwnerInv, MakeNetworkDirectory, Change, Changed, Entries
<1>3. StepInv'
  BY <1>0 DEF NetworkInv, StepInv, MakeNetworkDirectory, Change, Changed, Entries
<1>4. FreshInv'
  BY <1>0, ConstantFacts DEF NetworkInv, TypeOK, FreshInv, OwnerInv, StepInv,
     MakeNetworkDirectory, Change, Changed, Entries
<1>5. ContentsInv'
  BY <1>0 DEF NetworkInv, ContentsInv, MakeNetworkDirectory, Change, Changed, Entries
<1>6. SessionInv'
  BY <1>0 DEF NetworkInv, SessionInv, MakeNetworkDirectory, Change, Changed, Entries
<1>7. UniqueInv'
  BY <1>0 DEF NetworkInv, UniqueInv, MakeNetworkDirectory, Change, Changed, Entries
<1>8. NothingUnclaimed'
  BY <1>0 DEF NetworkInv, NothingUnclaimed, MakeNetworkDirectory, Change, Changed, Entries
<1>9. TrafficActivated'
  BY <1>0 DEF NetworkInv, TrafficActivated, MakeNetworkDirectory, Change, Changed, Entries
<1> QED BY <1>1, <1>2, <1>3, <1>4, <1>5, <1>6, <1>7, <1>8, <1>9 DEF NetworkInv

\* The directory of a run is synced, and the operation goes on.
LEMMA SyncKeeps ==
  ASSUME NetworkInv, NEW p \in Procs, NEW next \in Steps, Sync(run[p]), Go(p, next),
         \/ pc[p] = "syncRoot" /\ next = "createClaim"
         \/ pc[p] = "syncClaim" /\ next = "install"
         \/ pc[p] = "syncStaging" /\ next = "load"
         \/ pc[p] = "syncDropped" /\ next = "dropClaim"
         \/ pc[p] = "syncEmptied" /\ next = "rmdir",
         UNCHANGED <<lock, life, slot, dir, kernel, leases, op, run, receipts, left, flags>>
  PROVE  NetworkInv'
<1>0. /\ run[p] \in Runs /\ run[p] # NoRun /\ \A q \in Procs : run[q] = run[p] => q = p
      /\ NoProc \notin Procs
  BY Working DEF Sync
<1>1. TypeOK'
  BY <1>0 DEF NetworkInv, TypeOK, Steps, Sync
<1>2. OwnerInv'
  BY <1>0 DEF NetworkInv, OwnerInv, Sync
<1>3. StepInv'
  <2>1. 1..0 = {} /\ 0 \in 0..(4 * Transfers + FirewallParts - 1)
    BY ConstantFacts
  <2>2. pc'[p] = "install" =>
          \E n \in 0..(4 * Transfers + FirewallParts - 1) : receipts'[p] = 1..n
    BY <2>1 DEF NetworkInv, TypeOK, StepInv
  <2> QED BY <2>2 DEF NetworkInv, TypeOK, StepInv
<1>4. FreshInv'
  BY <1>0 DEF NetworkInv, TypeOK, FreshInv, Sync
<1>5. ContentsInv'
  BY <1>0 DEF NetworkInv, ContentsInv, Sync
<1>6. SessionInv'
  BY <1>0 DEF NetworkInv, SessionInv, Sync
<1>7. UniqueInv'
  BY <1>0 DEF NetworkInv, UniqueInv, Sync
<1>8. NothingUnclaimed'
  BY <1>0 DEF NetworkInv, NothingUnclaimed, Sync
<1>9. TrafficActivated'
  BY <1>0 DEF NetworkInv, TrafficActivated, Sync
<1> QED BY <1>1, <1>2, <1>3, <1>4, <1>5, <1>6, <1>7, <1>8, <1>9 DEF NetworkInv

\* The temporary claim is written.
LEMMA CreateClaimKeeps ==
  ASSUME NetworkInv, NEW p \in Procs,
         CreateEvidence(p, "createClaim", "claim.tmp", "renameClaim")
  PROVE  NetworkInv'
<1>0. /\ run[p] \in Runs /\ run[p] # NoRun /\ \A q \in Procs : run[q] = run[p] => q = p
      /\ NoProc \notin Procs
  BY Working DEF CreateEvidence, Change, Changed, Entries, Staging
<1>1. TypeOK'
  BY <1>0 DEF NetworkInv, TypeOK, Steps, CreateEvidence, Change, Changed, Entries, Staging
<1>2. OwnerInv'
  BY <1>0 DEF NetworkInv, OwnerInv, CreateEvidence, Change, Changed, Entries, Staging
<1>3. StepInv'
  BY <1>0 DEF NetworkInv, StepInv, CreateEvidence, Change, Changed, Entries, Staging
<1>4. FreshInv'
  BY <1>0, ConstantFacts DEF NetworkInv, TypeOK, FreshInv, OwnerInv, StepInv,
     CreateEvidence, Change, Changed, Entries, Staging
<1>5. ContentsInv'
  BY <1>0 DEF NetworkInv, TypeOK, ContentsInv, CreateEvidence, Change, Changed, Entries,
     Staging
<1>6. SessionInv'
  BY <1>0 DEF NetworkInv, SessionInv, CreateEvidence, Change, Changed, Entries, Staging
<1>7. UniqueInv'
  BY <1>0 DEF NetworkInv, UniqueInv, CreateEvidence, Change, Changed, Entries, Staging
<1>8. NothingUnclaimed'
  BY <1>0 DEF NetworkInv, NothingUnclaimed, CreateEvidence, Change, Changed, Entries,
     Staging
<1>9. TrafficActivated'
  BY <1>0 DEF NetworkInv, TrafficActivated, CreateEvidence, Change, Changed, Entries,
     Staging
<1> QED BY <1>1, <1>2, <1>3, <1>4, <1>5, <1>6, <1>7, <1>8, <1>9 DEF NetworkInv

\* The claim is published: its identity is still nobody else's.
LEMMA RenameClaimKeeps ==
  ASSUME NetworkInv, NEW p \in Procs,
         RenameEvidence(p, "renameClaim", "claim.tmp", "claim", "syncClaim")
  PROVE  NetworkInv'
<1>0. /\ run[p] \in Runs /\ run[p] # NoRun /\ \A q \in Procs : run[q] = run[p] => q = p
      /\ NoProc \notin Procs
  BY Working DEF RenameEvidence, Change, Changed, Entries, Staging
<1>1. TypeOK'
  BY <1>0 DEF NetworkInv, TypeOK, Steps, RenameEvidence, Change, Changed, Entries, Staging
<1>2. OwnerInv'
  BY <1>0 DEF NetworkInv, OwnerInv, RenameEvidence, Change, Changed, Entries, Staging
<1>3. StepInv'
  BY <1>0 DEF NetworkInv, StepInv, RenameEvidence, Change, Changed, Entries, Staging
<1>4. FreshInv'
  BY <1>0 DEF NetworkInv, FreshInv, RenameEvidence, Change, Changed, Entries, Staging
<1>5. ContentsInv'
  BY <1>0 DEF NetworkInv, TypeOK, ContentsInv, RenameEvidence, Change, Changed, Entries,
     Staging
<1>6. SessionInv'
  BY <1>0 DEF NetworkInv, SessionInv, RenameEvidence, Change, Changed, Entries, Staging
<1>7. UniqueInv'
  <2>1. \A r \in Runs : r # run[p] => dir'[r] = dir[r]
    BY DEF NetworkInv, TypeOK, RenameEvidence, Change
  <2>2. pc[p] = "renameClaim" /\ pc'[p] = "syncClaim" /\ UNCHANGED <<objects, slot, run>>
    BY DEF NetworkInv, TypeOK, RenameEvidence
  <2>3. \A q \in Procs : q # p => pc[q] \in Unlocked /\ pc'[q] = pc[q]
    BY <2>2 DEF NetworkInv, TypeOK, OwnerInv, RenameEvidence
  <2>4. \A q \in Runs : objects[q] # {} /\ q # run[p] => slot[q] # slot[run[p]]
    BY <2>2 DEF NetworkInv, NothingUnclaimed, UniqueInv
  <2> QED BY <1>0, <2>1, <2>2, <2>3, <2>4 DEF NetworkInv, UniqueInv
<1>8. NothingUnclaimed'
  BY <1>0 DEF NetworkInv, NothingUnclaimed, RenameEvidence, Change, Changed, Entries,
     Staging
<1>9. TrafficActivated'
  BY <1>0 DEF NetworkInv, TrafficActivated, RenameEvidence, Change, Changed, Entries,
     Staging
<1> QED BY <1>1, <1>2, <1>3, <1>4, <1>5, <1>6, <1>7, <1>8, <1>9 DEF NetworkInv

\* The temporary activation is written.
LEMMA CreateActivationKeeps ==
  ASSUME NetworkInv, NEW p \in Procs,
         CreateEvidence(p, "createActivation", "activation.tmp", "renameActivation")
  PROVE  NetworkInv'
<1>0. /\ run[p] \in Runs /\ run[p] # NoRun /\ \A q \in Procs : run[q] = run[p] => q = p
      /\ NoProc \notin Procs
  BY Working DEF CreateEvidence, Change, Changed, Entries, Staging
<1>1. TypeOK'
  BY <1>0 DEF NetworkInv, TypeOK, Steps, CreateEvidence, Change, Changed, Entries, Staging
<1>2. OwnerInv'
  BY <1>0 DEF NetworkInv, OwnerInv, CreateEvidence, Change, Changed, Entries, Staging
<1>3. StepInv'
  BY <1>0 DEF NetworkInv, StepInv, CreateEvidence, Change, Changed, Entries, Staging
<1>4. FreshInv'
  BY <1>0, ConstantFacts DEF NetworkInv, TypeOK, FreshInv, OwnerInv, StepInv,
     CreateEvidence, Change, Changed, Entries, Staging
<1>5. ContentsInv'
  BY <1>0 DEF NetworkInv, TypeOK, ContentsInv, CreateEvidence, Change, Changed, Entries,
     Staging
<1>6. SessionInv'
  BY <1>0 DEF NetworkInv, SessionInv, CreateEvidence, Change, Changed, Entries, Staging
<1>7. UniqueInv'
  BY <1>0 DEF NetworkInv, UniqueInv, CreateEvidence, Change, Changed, Entries, Staging
<1>8. NothingUnclaimed'
  BY <1>0 DEF NetworkInv, NothingUnclaimed, CreateEvidence, Change, Changed, Entries,
     Staging
<1>9. TrafficActivated'
  BY <1>0 DEF NetworkInv, TrafficActivated, CreateEvidence, Change, Changed, Entries,
     Staging
<1> QED BY <1>1, <1>2, <1>3, <1>4, <1>5, <1>6, <1>7, <1>8, <1>9 DEF NetworkInv

\* The activation is published.
LEMMA RenameActivationKeeps ==
  ASSUME NetworkInv, NEW p \in Procs,
         RenameEvidence(p, "renameActivation", "activation.tmp", "activation", "syncActivation")
  PROVE  NetworkInv'
<1>0. /\ run[p] \in Runs /\ run[p] # NoRun /\ \A q \in Procs : run[q] = run[p] => q = p
      /\ NoProc \notin Procs
  BY Working DEF RenameEvidence, Change, Changed, Entries, Staging
<1>1. TypeOK'
  BY <1>0 DEF NetworkInv, TypeOK, Steps, RenameEvidence, Change, Changed, Entries, Staging
<1>2. OwnerInv'
  BY <1>0 DEF NetworkInv, OwnerInv, RenameEvidence, Change, Changed, Entries, Staging
<1>3. StepInv'
  BY <1>0 DEF NetworkInv, StepInv, RenameEvidence, Change, Changed, Entries, Staging
<1>4. FreshInv'
  BY <1>0 DEF NetworkInv, FreshInv, RenameEvidence, Change, Changed, Entries, Staging
<1>5. ContentsInv'
  BY <1>0 DEF NetworkInv, TypeOK, ContentsInv, RenameEvidence, Change, Changed, Entries,
     Staging
<1>6. SessionInv'
  BY <1>0 DEF NetworkInv, SessionInv, RenameEvidence, Change, Changed, Entries, Staging
<1>7. UniqueInv'
  BY <1>0 DEF NetworkInv, UniqueInv, RenameEvidence, Change, Changed, Entries, Staging
<1>8. NothingUnclaimed'
  BY <1>0 DEF NetworkInv, NothingUnclaimed, RenameEvidence, Change, Changed, Entries,
     Staging
<1>9. TrafficActivated'
  BY <1>0 DEF NetworkInv, TrafficActivated, RenameEvidence, Change, Changed, Entries,
     Staging
<1> QED BY <1>1, <1>2, <1>3, <1>4, <1>5, <1>6, <1>7, <1>8, <1>9 DEF NetworkInv

\* Open returns a session.
LEMMA SyncActivationKeeps ==
  ASSUME NetworkInv, NEW p \in Procs, pc[p] = "syncActivation", Sync(run[p]),
         Go(p, "session"), Unlock(p),
         UNCHANGED <<life, slot, dir, kernel, leases, op, run, receipts, left, flags>>
  PROVE  NetworkInv'
<1>0. /\ run[p] \in Runs /\ run[p] # NoRun /\ \A q \in Procs : run[q] = run[p] => q = p
      /\ NoProc \notin Procs
  BY Working DEF Sync
<1>1. TypeOK'
  BY <1>0 DEF NetworkInv, TypeOK, Steps, Sync
<1>2. OwnerInv'
  BY <1>0 DEF NetworkInv, TypeOK, OwnerInv, Sync
<1>3. StepInv'
  BY <1>0 DEF NetworkInv, StepInv, Sync
<1>4. FreshInv'
  BY <1>0 DEF NetworkInv, TypeOK, FreshInv, Sync
<1>5. ContentsInv'
  BY <1>0 DEF NetworkInv, ContentsInv, Sync
<1>6. SessionInv'
  BY <1>0, ConstantFacts DEF NetworkInv, TypeOK, SessionInv, OwnerInv, StepInv, FreshInv,
     ContentsInv, Sync
<1>7. UniqueInv'
  BY <1>0 DEF NetworkInv, UniqueInv, Sync
<1>8. NothingUnclaimed'
  BY <1>0 DEF NetworkInv, NothingUnclaimed, Sync
<1>9. TrafficActivated'
  BY <1>0 DEF NetworkInv, TrafficActivated, Sync
<1> QED BY <1>1, <1>2, <1>3, <1>4, <1>5, <1>6, <1>7, <1>8, <1>9 DEF NetworkInv

\* An object is installed under a claim.
LEMMA InstallKeeps ==
  ASSUME NetworkInv, NEW p \in Procs, Install(p)
  PROVE  NetworkInv'
<1>0. /\ run[p] \in Runs /\ run[p] # NoRun /\ \A q \in Procs : run[q] = run[p] => q = p
      /\ NoProc \notin Procs
  BY Working DEF Install
<1>1. TypeOK'
  BY <1>0 DEF NetworkInv, TypeOK, Steps, Install
<1>2. OwnerInv'
  BY <1>0 DEF NetworkInv, OwnerInv, Install
<1>3. StepInv'
  <2>1. PICK n \in Nat : /\ receipts[p] = 1..n /\ Cardinality(receipts[p]) = n
                         /\ receipts[p] \cup {n + 1} = 1..(n + 1)
    BY NextObject DEF Install
  <2>2. /\ receipts'[p] = 1..(n + 1)
        /\ pc'[p] = IF (n + 1) + 1 \in Objects THEN "install" ELSE "check"
    BY <2>1 DEF NetworkInv, TypeOK, Install
  <2>3. (n + 1) + 1 \in Objects => n + 1 \in 0..(4 * Transfers + FirewallParts - 1)
    BY ConstantFacts DEF Objects
  <2>4. pc'[p] = "install" =>
          \E m \in 0..(4 * Transfers + FirewallParts - 1) : receipts'[p] = 1..m
    BY <2>2, <2>3
  <2>5. pc'[p] \in {"install", "check"} /\ pc[p] = "install"
    BY <2>2 DEF Install
  <2>6. \A q \in Procs : q # p => pc'[q] = pc[q] /\ receipts'[q] = receipts[q]
    BY DEF NetworkInv, TypeOK, Install
  <2>7. UNCHANGED <<op, flags>>
    BY DEF Install
  <2> QED BY <2>4, <2>5, <2>6, <2>7 DEF NetworkInv, StepInv
<1>4. FreshInv'
  BY <1>0 DEF NetworkInv, FreshInv, Install
<1>5. ContentsInv'
  BY <1>0 DEF NetworkInv, ContentsInv, Install
<1>6. SessionInv'
  BY <1>0 DEF NetworkInv, SessionInv, Install
<1>7. UniqueInv'
  BY <1>0 DEF NetworkInv, UniqueInv, Install
<1>8. NothingUnclaimed'
  BY <1>0, NextObject, ConstantFacts DEF NetworkInv, TypeOK, NothingUnclaimed, OwnerInv,
     StepInv, FreshInv, ContentsInv, SessionInv, Install
<1>9. TrafficActivated'
  BY <1>0 DEF NetworkInv, TrafficActivated, Install
<1> QED BY <1>1, <1>2, <1>3, <1>4, <1>5, <1>6, <1>7, <1>8, <1>9 DEF NetworkInv

\* An object is installed, or not, without a receipt.
LEMMA InstallFailsKeeps ==
  ASSUME NetworkInv, NEW p \in Procs, InstallFails(p)
  PROVE  NetworkInv'
<1>0. /\ run[p] \in Runs /\ run[p] # NoRun /\ \A q \in Procs : run[q] = run[p] => q = p
      /\ NoProc \notin Procs
  BY Working DEF InstallFails
<1>1. TypeOK'
  BY <1>0, NextObject DEF NetworkInv, TypeOK, Steps, InstallFails
<1>2. OwnerInv'
  BY <1>0 DEF NetworkInv, OwnerInv, InstallFails
<1>3. StepInv'
  BY <1>0, NextObject DEF NetworkInv, TypeOK, StepInv, InstallFails
<1>4. FreshInv'
  BY <1>0 DEF NetworkInv, FreshInv, InstallFails
<1>5. ContentsInv'
  BY <1>0 DEF NetworkInv, ContentsInv, InstallFails
<1>6. SessionInv'
  BY <1>0 DEF NetworkInv, SessionInv, InstallFails
<1>7. UniqueInv'
  BY <1>0 DEF NetworkInv, UniqueInv, InstallFails
<1>8. NothingUnclaimed'
  BY <1>0, NextObject, ConstantFacts DEF NetworkInv, TypeOK, NothingUnclaimed, OwnerInv,
     StepInv, FreshInv, ContentsInv, SessionInv, InstallFails
<1>9. TrafficActivated'
  BY <1>0 DEF NetworkInv, TrafficActivated, InstallFails
<1> QED BY <1>1, <1>2, <1>3, <1>4, <1>5, <1>6, <1>7, <1>8, <1>9 DEF NetworkInv

\* The network is complete.
LEMMA VerifyInstalledKeeps ==
  ASSUME NetworkInv, NEW p \in Procs, VerifyInstalled(p)
  PROVE  NetworkInv'
<1>0. /\ run[p] \in Runs /\ run[p] # NoRun /\ \A q \in Procs : run[q] = run[p] => q = p
      /\ NoProc \notin Procs
  BY Working DEF VerifyInstalled, Installed
<1>1. TypeOK'
  BY <1>0 DEF NetworkInv, TypeOK, Steps, VerifyInstalled, Installed
<1>2. OwnerInv'
  BY <1>0 DEF NetworkInv, OwnerInv, VerifyInstalled, Installed
<1>3. StepInv'
  BY <1>0 DEF NetworkInv, StepInv, VerifyInstalled, Installed
<1>4. FreshInv'
  BY <1>0 DEF NetworkInv, FreshInv, VerifyInstalled, Installed
<1>5. ContentsInv'
  BY <1>0 DEF NetworkInv, ContentsInv, VerifyInstalled, Installed
<1>6. SessionInv'
  BY <1>0 DEF NetworkInv, SessionInv, VerifyInstalled, Installed
<1>7. UniqueInv'
  BY <1>0 DEF NetworkInv, UniqueInv, VerifyInstalled, Installed
<1>8. NothingUnclaimed'
  BY <1>0 DEF NetworkInv, NothingUnclaimed, VerifyInstalled, Installed
<1>9. TrafficActivated'
  BY <1>0 DEF NetworkInv, TrafficActivated, VerifyInstalled, Installed
<1> QED BY <1>1, <1>2, <1>3, <1>4, <1>5, <1>6, <1>7, <1>8, <1>9 DEF NetworkInv

\* Open is undone.
LEMMA BeginRollbackKeeps ==
  ASSUME NetworkInv, NEW p \in Procs, BeginRollback(p)
  PROVE  NetworkInv'
<1>0. /\ run[p] \in Runs /\ run[p] # NoRun /\ \A q \in Procs : run[q] = run[p] => q = p
      /\ NoProc \notin Procs
  BY Working DEF BeginRollback
<1>1. TypeOK'
  BY <1>0 DEF NetworkInv, TypeOK, Steps, BeginRollback
<1>2. OwnerInv'
  BY <1>0 DEF NetworkInv, OwnerInv, BeginRollback
<1>3. StepInv'
  BY <1>0 DEF NetworkInv, TypeOK, StepInv, BeginRollback
<1>4. FreshInv'
  BY <1>0 DEF NetworkInv, FreshInv, BeginRollback
<1>5. ContentsInv'
  BY <1>0 DEF NetworkInv, ContentsInv, BeginRollback
<1>6. SessionInv'
  BY <1>0 DEF NetworkInv, SessionInv, BeginRollback
<1>7. UniqueInv'
  BY <1>0 DEF NetworkInv, UniqueInv, BeginRollback
<1>8. NothingUnclaimed'
  BY <1>0 DEF NetworkInv, NothingUnclaimed, BeginRollback
<1>9. TrafficActivated'
  BY <1>0 DEF NetworkInv, TrafficActivated, BeginRollback
<1> QED BY <1>1, <1>2, <1>3, <1>4, <1>5, <1>6, <1>7, <1>8, <1>9 DEF NetworkInv

\* A lease is given out by an open session.
LEMMA OpenNamespaceKeeps ==
  ASSUME NetworkInv, NEW p \in Procs, OpenNamespace(p)
  PROVE  NetworkInv'
<1>0. /\ run[p] \in Runs /\ run[p] # NoRun /\ \A q \in Procs : run[q] = run[p] => q = p
      /\ NoProc \notin Procs
  BY Working DEF OpenNamespace
<1>1. TypeOK'
  BY <1>0, ConstantFacts DEF NetworkInv, TypeOK, Steps, OwnerInv, StepInv, OpenNamespace
<1>2. OwnerInv'
  BY <1>0 DEF NetworkInv, OwnerInv, OpenNamespace
<1>3. StepInv'
  BY <1>0 DEF NetworkInv, StepInv, OpenNamespace
<1>4. FreshInv'
  BY <1>0 DEF NetworkInv, FreshInv, OpenNamespace
<1>5. ContentsInv'
  BY <1>0 DEF NetworkInv, ContentsInv, OpenNamespace
<1>6. SessionInv'
  BY <1>0, ConstantFacts DEF NetworkInv, TypeOK, SessionInv, OwnerInv, StepInv,
     OpenNamespace
<1>7. UniqueInv'
  BY <1>0 DEF NetworkInv, UniqueInv, OpenNamespace
<1>8. NothingUnclaimed'
  BY <1>0 DEF NetworkInv, NothingUnclaimed, OpenNamespace
<1>9. TrafficActivated'
  BY <1>0 DEF NetworkInv, TrafficActivated, OpenNamespace
<1> QED BY <1>1, <1>2, <1>3, <1>4, <1>5, <1>6, <1>7, <1>8, <1>9 DEF NetworkInv

\* A lease is closed.
LEMMA CloseLeaseKeeps ==
  ASSUME NetworkInv, NEW p \in Procs, CloseLease(p)
  PROVE  NetworkInv'
<1>0. /\ run[p] \in Runs /\ run[p] # NoRun /\ \A q \in Procs : run[q] = run[p] => q = p
      /\ NoProc \notin Procs
  BY Working DEF CloseLease
<1>1. TypeOK'
  BY <1>0, ConstantFacts DEF NetworkInv, TypeOK, Steps, OwnerInv, StepInv, CloseLease
<1>2. OwnerInv'
  BY <1>0 DEF NetworkInv, OwnerInv, CloseLease
<1>3. StepInv'
  BY <1>0 DEF NetworkInv, StepInv, CloseLease
<1>4. FreshInv'
  BY <1>0 DEF NetworkInv, FreshInv, CloseLease
<1>5. ContentsInv'
  BY <1>0 DEF NetworkInv, ContentsInv, CloseLease
<1>6. SessionInv'
  BY <1>0 DEF NetworkInv, SessionInv, CloseLease
<1>7. UniqueInv'
  BY <1>0 DEF NetworkInv, UniqueInv, CloseLease
<1>8. NothingUnclaimed'
  BY <1>0 DEF NetworkInv, NothingUnclaimed, CloseLease
<1>9. TrafficActivated'
  BY <1>0 DEF NetworkInv, TrafficActivated, CloseLease
<1> QED BY <1>1, <1>2, <1>3, <1>4, <1>5, <1>6, <1>7, <1>8, <1>9 DEF NetworkInv

\* Traffic flows only where it has been activated.
LEMMA TransmitKeeps ==
  ASSUME NetworkInv, NEW r \in Runs, Transmit(r)
  PROVE  NetworkInv'
<1>1. TypeOK'
  BY DEF NetworkInv, TypeOK, Steps, Transmit
<1>2. OwnerInv'
  BY DEF NetworkInv, OwnerInv, Transmit
<1>3. StepInv'
  BY DEF NetworkInv, StepInv, Transmit
<1>4. FreshInv'
  BY DEF NetworkInv, FreshInv, Transmit
<1>5. ContentsInv'
  BY ConstantFacts DEF NetworkInv, TypeOK, ContentsInv, OwnerInv, StepInv, FreshInv,
     SessionInv, Transmit
<1>6. SessionInv'
  BY DEF NetworkInv, SessionInv, Transmit
<1>7. UniqueInv'
  BY DEF NetworkInv, UniqueInv, Transmit
<1>8. NothingUnclaimed'
  BY DEF NetworkInv, NothingUnclaimed, Transmit
<1>9. TrafficActivated'
  BY ConstantFacts DEF NetworkInv, TypeOK, TrafficActivated, OwnerInv, StepInv, FreshInv,
     ContentsInv, SessionInv, Transmit
<1> QED BY <1>1, <1>2, <1>3, <1>4, <1>5, <1>6, <1>7, <1>8, <1>9 DEF NetworkInv

\* Close begins.
LEMMA BeginCloseKeeps ==
  ASSUME NetworkInv, NEW p \in Procs, BeginClose(p)
  PROVE  NetworkInv'
<1>0. /\ run[p] \in Runs /\ run[p] # NoRun /\ \A q \in Procs : run[q] = run[p] => q = p
      /\ NoProc \notin Procs
  BY Working DEF BeginClose
<1>1. TypeOK'
  BY <1>0 DEF NetworkInv, TypeOK, Steps, BeginClose
<1>2. OwnerInv'
  BY <1>0 DEF NetworkInv, TypeOK, OwnerInv, BeginClose
<1>3. StepInv'
  BY <1>0 DEF NetworkInv, TypeOK, StepInv, BeginClose
<1>4. FreshInv'
  BY <1>0 DEF NetworkInv, FreshInv, BeginClose
<1>5. ContentsInv'
  BY <1>0 DEF NetworkInv, ContentsInv, BeginClose
<1>6. SessionInv'
  BY <1>0 DEF NetworkInv, SessionInv, BeginClose
<1>7. UniqueInv'
  BY <1>0 DEF NetworkInv, UniqueInv, BeginClose
<1>8. NothingUnclaimed'
  BY <1>0 DEF NetworkInv, NothingUnclaimed, BeginClose
<1>9. TrafficActivated'
  BY <1>0 DEF NetworkInv, TrafficActivated, BeginClose
<1> QED BY <1>1, <1>2, <1>3, <1>4, <1>5, <1>6, <1>7, <1>8, <1>9 DEF NetworkInv

\* All leases are closed.
LEMMA DrainedKeeps ==
  ASSUME NetworkInv, NEW p \in Procs, Drained(p)
  PROVE  NetworkInv'
<1>0. /\ run[p] \in Runs /\ run[p] # NoRun /\ \A q \in Procs : run[q] = run[p] => q = p
      /\ NoProc \notin Procs
  BY Working DEF Drained
<1>1. TypeOK'
  BY <1>0 DEF NetworkInv, TypeOK, Steps, Drained
<1>2. OwnerInv'
  BY <1>0 DEF NetworkInv, OwnerInv, Drained
<1>3. StepInv'
  BY <1>0 DEF NetworkInv, StepInv, Drained
<1>4. FreshInv'
  BY <1>0, ConstantFacts DEF NetworkInv, TypeOK, FreshInv, OwnerInv, StepInv, Drained
<1>5. ContentsInv'
  BY <1>0 DEF NetworkInv, ContentsInv, Drained
<1>6. SessionInv'
  BY <1>0 DEF NetworkInv, SessionInv, Drained
<1>7. UniqueInv'
  BY <1>0 DEF NetworkInv, UniqueInv, Drained
<1>8. NothingUnclaimed'
  BY <1>0 DEF NetworkInv, NothingUnclaimed, Drained
<1>9. TrafficActivated'
  BY <1>0 DEF NetworkInv, TrafficActivated, Drained
<1> QED BY <1>1, <1>2, <1>3, <1>4, <1>5, <1>6, <1>7, <1>8, <1>9 DEF NetworkInv

\* Temporary files are removed.
LEMMA RemoveStagingKeeps ==
  ASSUME NetworkInv, NEW p \in Procs, pc[p] = "load", Change(run[p], Staging, {}),
         Go(p, "syncStaging"),
         UNCHANGED <<lock, life, slot, kernel, leases, op, run, receipts, left, flags>>
  PROVE  NetworkInv'
<1>0. /\ run[p] \in Runs /\ run[p] # NoRun /\ \A q \in Procs : run[q] = run[p] => q = p
      /\ NoProc \notin Procs
  BY Working DEF Change, Changed, Entries, Staging
<1>1. TypeOK'
  BY <1>0 DEF NetworkInv, TypeOK, Steps, Change, Changed, Entries, Staging
<1>2. OwnerInv'
  BY <1>0 DEF NetworkInv, OwnerInv, Change, Changed, Entries, Staging
<1>3. StepInv'
  BY <1>0 DEF NetworkInv, StepInv, Change, Changed, Entries, Staging
<1>4. FreshInv'
  BY <1>0 DEF NetworkInv, FreshInv, Change, Changed, Entries, Staging
<1>5. ContentsInv'
  BY <1>0 DEF NetworkInv, ContentsInv, Change, Changed, Entries, Staging
<1>6. SessionInv'
  BY <1>0 DEF NetworkInv, SessionInv, Change, Changed, Entries, Staging
<1>7. UniqueInv'
  BY <1>0 DEF NetworkInv, UniqueInv, Change, Changed, Entries, Staging
<1>8. NothingUnclaimed'
  BY <1>0 DEF NetworkInv, NothingUnclaimed, Change, Changed, Entries, Staging
<1>9. TrafficActivated'
  BY <1>0 DEF NetworkInv, TrafficActivated, Change, Changed, Entries, Staging
<1> QED BY <1>1, <1>2, <1>3, <1>4, <1>5, <1>6, <1>7, <1>8, <1>9 DEF NetworkInv

\* The evidence is loaded.
LEMMA LoadEvidenceKeeps ==
  ASSUME NetworkInv, NEW p \in Procs, LoadEvidence(p)
  PROVE  NetworkInv'
<1>0. /\ run[p] \in Runs /\ run[p] # NoRun /\ \A q \in Procs : run[q] = run[p] => q = p
      /\ NoProc \notin Procs
  BY Working DEF LoadEvidence, Targets, Flags
<1>1. TypeOK'
  <2>1. left' \in [Procs -> SUBSET Objects]
    <3>1. Targets(p, Firewall) \in SUBSET Objects
      BY ObjectKinds DEF NetworkInv
    <3> QED BY <3>1 DEF NetworkInv, TypeOK, LoadEvidence
  <2>2. flags' \in [Procs -> SUBSET Flags]
    BY DEF NetworkInv, TypeOK, LoadEvidence, Flags
  <2> QED BY <2>1, <2>2 DEF NetworkInv, TypeOK, LoadEvidence, Steps
<1>2. OwnerInv'
  BY <1>0 DEF NetworkInv, OwnerInv, LoadEvidence, Targets, Flags
<1>3. StepInv'
  BY <1>0 DEF NetworkInv, TypeOK, StepInv, LoadEvidence, Targets, Flags
<1>4. FreshInv'
  BY <1>0 DEF NetworkInv, FreshInv, LoadEvidence, Targets, Flags
<1>5. ContentsInv'
  BY <1>0, ConstantFacts DEF NetworkInv, TypeOK, ContentsInv, OwnerInv, StepInv,
     LoadEvidence, Targets, Flags
<1>6. SessionInv'
  BY <1>0 DEF NetworkInv, SessionInv, LoadEvidence, Targets, Flags
<1>7. UniqueInv'
  BY <1>0 DEF NetworkInv, UniqueInv, LoadEvidence, Targets, Flags
<1>8. NothingUnclaimed'
  BY <1>0 DEF NetworkInv, NothingUnclaimed, LoadEvidence, Targets, Flags
<1>9. TrafficActivated'
  BY <1>0 DEF NetworkInv, TrafficActivated, LoadEvidence, Targets, Flags
<1> QED BY <1>1, <1>2, <1>3, <1>4, <1>5, <1>6, <1>7, <1>8, <1>9 DEF NetworkInv

\* There is no claim, and so nothing in the kernel.
LEMMA RemoveEmptyKeeps ==
  ASSUME NetworkInv, NEW p \in Procs, pc[p] = "load", ~Claimed(run[p]),
         "activation" \notin dir[run[p]], Go(p, "rmdir"),
         NEW f \in SUBSET {"error"}, Note(p, f),
         UNCHANGED <<lock, life, evidence, kernel, leases, op, run, receipts, left>>
  PROVE  NetworkInv'
<1>0. /\ run[p] \in Runs /\ run[p] # NoRun /\ \A q \in Procs : run[q] = run[p] => q = p
      /\ NoProc \notin Procs
  BY Working DEF Flags
<1>1. TypeOK'
  BY <1>0 DEF NetworkInv, TypeOK, Steps, Flags
<1>2. OwnerInv'
  BY <1>0 DEF NetworkInv, OwnerInv, Flags
<1>3. StepInv'
  BY <1>0 DEF NetworkInv, StepInv, Flags
<1>4. FreshInv'
  BY <1>0 DEF NetworkInv, FreshInv, Flags
<1>5. ContentsInv'
  BY <1>0, ConstantFacts DEF NetworkInv, TypeOK, ContentsInv, OwnerInv, StepInv, FreshInv,
     SessionInv, UniqueInv, NothingUnclaimed, TrafficActivated, Flags
<1>6. SessionInv'
  BY <1>0 DEF NetworkInv, SessionInv, Flags
<1>7. UniqueInv'
  BY <1>0 DEF NetworkInv, UniqueInv, Flags
<1>8. NothingUnclaimed'
  BY <1>0 DEF NetworkInv, NothingUnclaimed, Flags
<1>9. TrafficActivated'
  BY <1>0 DEF NetworkInv, TrafficActivated, Flags
<1> QED BY <1>1, <1>2, <1>3, <1>4, <1>5, <1>6, <1>7, <1>8, <1>9 DEF NetworkInv

\* The activation is removed when nothing is left.
LEMMA DropActivationKeeps ==
  ASSUME NetworkInv, NEW p \in Procs,
         Unlink(p, "activation", "dropActivation", "syncDropped")
  PROVE  NetworkInv'
<1>0. /\ run[p] \in Runs /\ run[p] # NoRun /\ \A q \in Procs : run[q] = run[p] => q = p
      /\ NoProc \notin Procs
  BY Working DEF Unlink, Change, Changed, Entries, Staging
<1>1. TypeOK'
  BY <1>0 DEF NetworkInv, TypeOK, Steps, Unlink, Change, Changed, Entries, Staging
<1>2. OwnerInv'
  BY <1>0 DEF NetworkInv, OwnerInv, Unlink, Change, Changed, Entries, Staging
<1>3. StepInv'
  BY <1>0 DEF NetworkInv, StepInv, Unlink, Change, Changed, Entries, Staging
<1>4. FreshInv'
  BY <1>0 DEF NetworkInv, FreshInv, Unlink, Change, Changed, Entries, Staging
<1>5. ContentsInv'
  BY <1>0 DEF NetworkInv, ContentsInv, Unlink, Change, Changed, Entries, Staging
<1>6. SessionInv'
  BY <1>0 DEF NetworkInv, SessionInv, Unlink, Change, Changed, Entries, Staging
<1>7. UniqueInv'
  BY <1>0 DEF NetworkInv, UniqueInv, Unlink, Change, Changed, Entries, Staging
<1>8. NothingUnclaimed'
  BY <1>0 DEF NetworkInv, NothingUnclaimed, Unlink, Change, Changed, Entries, Staging
<1>9. TrafficActivated'
  BY <1>0, ConstantFacts DEF NetworkInv, TypeOK, TrafficActivated, OwnerInv, StepInv,
     FreshInv, ContentsInv, SessionInv, Unlink, Change, Changed, Entries, Staging
<1> QED BY <1>1, <1>2, <1>3, <1>4, <1>5, <1>6, <1>7, <1>8, <1>9 DEF NetworkInv

\* The claim is removed when nothing is left.
LEMMA DropClaimKeeps ==
  ASSUME NetworkInv, NEW p \in Procs, Unlink(p, "claim", "dropClaim", "syncEmptied")
  PROVE  NetworkInv'
<1>0. /\ run[p] \in Runs /\ run[p] # NoRun /\ \A q \in Procs : run[q] = run[p] => q = p
      /\ NoProc \notin Procs
  BY Working DEF Unlink, Change, Changed, Entries, Staging
<1>1. TypeOK'
  BY <1>0 DEF NetworkInv, TypeOK, Steps, Unlink, Change, Changed, Entries, Staging
<1>2. OwnerInv'
  BY <1>0 DEF NetworkInv, OwnerInv, Unlink, Change, Changed, Entries, Staging
<1>3. StepInv'
  BY <1>0 DEF NetworkInv, StepInv, Unlink, Change, Changed, Entries, Staging
<1>4. FreshInv'
  BY <1>0 DEF NetworkInv, FreshInv, Unlink, Change, Changed, Entries, Staging
<1>5. ContentsInv'
  BY <1>0 DEF NetworkInv, ContentsInv, Unlink, Change, Changed, Entries, Staging
<1>6. SessionInv'
  BY <1>0 DEF NetworkInv, SessionInv, Unlink, Change, Changed, Entries, Staging
<1>7. UniqueInv'
  BY <1>0 DEF NetworkInv, UniqueInv, Unlink, Change, Changed, Entries, Staging
<1>8. NothingUnclaimed'
  BY <1>0, ConstantFacts DEF NetworkInv, TypeOK, NothingUnclaimed, OwnerInv, StepInv,
     FreshInv, ContentsInv, SessionInv, Unlink, Change, Changed, Entries, Staging
<1>9. TrafficActivated'
  BY <1>0 DEF NetworkInv, TrafficActivated, Unlink, Change, Changed, Entries, Staging
<1> QED BY <1>1, <1>2, <1>3, <1>4, <1>5, <1>6, <1>7, <1>8, <1>9 DEF NetworkInv

\* The directory is removed.
LEMMA RemoveDirectoryKeeps ==
  ASSUME NetworkInv, NEW p \in Procs, RemoveDirectory(p)
  PROVE  NetworkInv'
<1>0. /\ run[p] \in Runs /\ run[p] # NoRun /\ \A q \in Procs : run[q] = run[p] => q = p
      /\ NoProc \notin Procs
  BY Working DEF RemoveDirectory, Change, Changed, Entries, Staging
<1>1. TypeOK'
  BY <1>0 DEF NetworkInv, TypeOK, Steps, RemoveDirectory, Change, Changed, Entries, Staging
<1>2. OwnerInv'
  BY <1>0 DEF NetworkInv, OwnerInv, RemoveDirectory, Change, Changed, Entries, Staging
<1>3. StepInv'
  BY <1>0 DEF NetworkInv, StepInv, RemoveDirectory, Change, Changed, Entries, Staging
<1>4. FreshInv'
  BY <1>0 DEF NetworkInv, FreshInv, RemoveDirectory, Change, Changed, Entries, Staging
<1>5. ContentsInv'
  BY <1>0 DEF NetworkInv, ContentsInv, RemoveDirectory, Change, Changed, Entries, Staging
<1>6. SessionInv'
  BY <1>0 DEF NetworkInv, SessionInv, RemoveDirectory, Change, Changed, Entries, Staging
<1>7. UniqueInv'
  BY <1>0 DEF NetworkInv, UniqueInv, RemoveDirectory, Change, Changed, Entries, Staging
<1>8. NothingUnclaimed'
  BY <1>0, ConstantFacts DEF NetworkInv, TypeOK, NothingUnclaimed, OwnerInv, StepInv,
     FreshInv, ContentsInv, SessionInv, RemoveDirectory, Change, Changed, Entries, Staging
<1>9. TrafficActivated'
  BY <1>0, ConstantFacts DEF NetworkInv, TypeOK, TrafficActivated, OwnerInv, StepInv,
     FreshInv, ContentsInv, SessionInv, RemoveDirectory, Change, Changed, Entries, Staging
<1> QED BY <1>1, <1>2, <1>3, <1>4, <1>5, <1>6, <1>7, <1>8, <1>9 DEF NetworkInv

\* An object is deleted, or cannot be.
LEMMA DeletedKeeps ==
  ASSUME NetworkInv, NEW p \in Procs, NEW o, NEW Gone, pc[p] \in Deleting,
         Deleted(p, o, Gone),
         NEW f \in SUBSET (Flags \ {"activated"}), Note(p, f)
  PROVE  NetworkInv'
<1>0. /\ run[p] \in Runs /\ run[p] # NoRun /\ \A q \in Procs : run[q] = run[p] => q = p
      /\ NoProc \notin Procs
  BY Working DEF Deleted, Flags
<1>1. TypeOK'
  BY <1>0 DEF NetworkInv, TypeOK, Steps, Deleted, Flags
<1>2. OwnerInv'
  BY <1>0 DEF NetworkInv, OwnerInv, Deleted, Flags
<1>3. StepInv'
  BY <1>0 DEF NetworkInv, StepInv, Deleted, Flags
<1>4. FreshInv'
  BY <1>0 DEF NetworkInv, FreshInv, Deleted, Flags
<1>5. ContentsInv'
  BY <1>0 DEF NetworkInv, ContentsInv, Deleted, Flags
<1>6. SessionInv'
  BY <1>0 DEF NetworkInv, SessionInv, Deleted, Flags
<1>7. UniqueInv'
  BY <1>0 DEF NetworkInv, UniqueInv, Deleted, Flags
<1>8. NothingUnclaimed'
  BY <1>0 DEF NetworkInv, NothingUnclaimed, Deleted, Flags
<1>9. TrafficActivated'
  BY <1>0 DEF NetworkInv, TrafficActivated, Deleted, Flags
<1> QED BY <1>1, <1>2, <1>3, <1>4, <1>5, <1>6, <1>7, <1>8, <1>9 DEF NetworkInv

\* The clean-up goes on with its next phase.
LEMMA GoesOnKeeps ==
  ASSUME NetworkInv, NEW p \in Procs, NEW next \in Deleting, pc[p] \in Deleting,
         Go(p, next),
         NEW S \in SUBSET Objects, left' = [left EXCEPT ![p] = S],
         NEW f \in SUBSET Flags, flags' = [flags EXCEPT ![p] = f],
         "activated" \in f <=> "activated" \in flags[p],
         NEW T \in SUBSET {run[p]}, spaces' = spaces \ T,
         NEW U \in SUBSET {run[p]}, traffic' = traffic \ U,
         UNCHANGED <<lock, life, evidence, objects, foreign, env, leases, op, run,
            receipts>>
  PROVE  NetworkInv'
<1>0. /\ run[p] \in Runs /\ run[p] # NoRun /\ \A q \in Procs : run[q] = run[p] => q = p
      /\ NoProc \notin Procs
  BY Working
<1>1. TypeOK'
  BY <1>0 DEF NetworkInv, TypeOK, Steps
<1>2. OwnerInv'
  BY <1>0 DEF NetworkInv, OwnerInv
<1>3. StepInv'
  BY <1>0 DEF NetworkInv, StepInv
<1>4. FreshInv'
  BY <1>0 DEF NetworkInv, FreshInv
<1>5. ContentsInv'
  BY <1>0 DEF NetworkInv, ContentsInv
<1>6. SessionInv'
  BY <1>0 DEF NetworkInv, SessionInv
<1>7. UniqueInv'
  BY <1>0 DEF NetworkInv, UniqueInv
<1>8. NothingUnclaimed'
  BY <1>0 DEF NetworkInv, NothingUnclaimed
<1>9. TrafficActivated'
  BY <1>0 DEF NetworkInv, TrafficActivated
<1> QED BY <1>1, <1>2, <1>3, <1>4, <1>5, <1>6, <1>7, <1>8, <1>9 DEF NetworkInv

\* Nothing is left: the evidence may go.
LEMMA CleanKeeps ==
  ASSUME NetworkInv, NEW p \in Procs, NEW next \in {"dropActivation", "dropClaim"},
         pc[p] = "verify", Go(p, next),
         objects[run[p]] = {}, "activated" \in flags[p] => run[p] \notin traffic,
         UNCHANGED <<lock, life, evidence, kernel, leases, op, run, receipts, left, flags>>
  PROVE  NetworkInv'
<1>0. /\ run[p] \in Runs /\ run[p] # NoRun /\ \A q \in Procs : run[q] = run[p] => q = p
      /\ NoProc \notin Procs
  BY Working
<1>1. TypeOK'
  BY <1>0 DEF NetworkInv, TypeOK, Steps
<1>2. OwnerInv'
  BY <1>0 DEF NetworkInv, OwnerInv
<1>3. StepInv'
  BY <1>0 DEF NetworkInv, StepInv
<1>4. FreshInv'
  BY <1>0 DEF NetworkInv, FreshInv
<1>5. ContentsInv'
  BY <1>0, ConstantFacts DEF NetworkInv, TypeOK, ContentsInv, OwnerInv, StepInv, FreshInv,
     SessionInv, UniqueInv, NothingUnclaimed, TrafficActivated
<1>6. SessionInv'
  BY <1>0 DEF NetworkInv, SessionInv
<1>7. UniqueInv'
  BY <1>0 DEF NetworkInv, UniqueInv
<1>8. NothingUnclaimed'
  BY <1>0 DEF NetworkInv, NothingUnclaimed
<1>9. TrafficActivated'
  BY <1>0 DEF NetworkInv, TrafficActivated
<1> QED BY <1>1, <1>2, <1>3, <1>4, <1>5, <1>6, <1>7, <1>8, <1>9 DEF NetworkInv

\* A process dies: its run is stale, and its lock is free.
LEMMA CrashKeeps ==
  ASSUME NetworkInv, NEW p \in Procs, Crash(p)
  PROVE  NetworkInv'
<1>0. /\ run[p] \in Runs /\ run[p] # NoRun /\ \A q \in Procs : run[q] = run[p] => q = p
      /\ NoProc \notin Procs
  BY Working DEF Crash
<1>1. TypeOK'
  BY <1>0, ConstantFacts DEF NetworkInv, TypeOK, Steps, OwnerInv, StepInv, Crash
<1>2. OwnerInv'
  BY <1>0 DEF NetworkInv, TypeOK, OwnerInv, Crash
<1>3. StepInv'
  BY <1>0 DEF NetworkInv, TypeOK, StepInv, Crash
<1>4. FreshInv'
  BY <1>0 DEF NetworkInv, TypeOK, FreshInv, Crash
<1>5. ContentsInv'
  BY <1>0 DEF NetworkInv, TypeOK, ContentsInv, Crash
<1>6. SessionInv'
  BY <1>0 DEF NetworkInv, TypeOK, SessionInv, Crash
<1>7. UniqueInv'
  BY <1>0 DEF NetworkInv, TypeOK, UniqueInv, Crash
<1>8. NothingUnclaimed'
  BY <1>0 DEF NetworkInv, NothingUnclaimed, Crash
<1>9. TrafficActivated'
  BY <1>0 DEF NetworkInv, TrafficActivated, Crash
<1> QED BY <1>1, <1>2, <1>3, <1>4, <1>5, <1>6, <1>7, <1>8, <1>9 DEF NetworkInv

\* Power is lost: nothing is left but the disk.
LEMMA LosePowerKeeps ==
  ASSUME NetworkInv, LosePower
  PROVE  NetworkInv'
<1>1. TypeOK'
  BY ConstantFacts DEF NetworkInv, TypeOK, Steps, OwnerInv, StepInv, LosePower
<1>2. OwnerInv'
  BY ConstantFacts DEF NetworkInv, TypeOK, OwnerInv, StepInv, LosePower
<1>3. StepInv'
  BY DEF NetworkInv, StepInv, LosePower
<1>4. FreshInv'
  BY DEF NetworkInv, FreshInv, LosePower
<1>5. ContentsInv'
  BY DEF NetworkInv, ContentsInv, LosePower
<1>6. SessionInv'
  BY DEF NetworkInv, SessionInv, LosePower
<1>7. UniqueInv'
  BY DEF NetworkInv, UniqueInv, LosePower
<1>8. NothingUnclaimed'
  BY DEF NetworkInv, NothingUnclaimed, LosePower
<1>9. TrafficActivated'
  BY DEF NetworkInv, TrafficActivated, LosePower
<1> QED BY <1>1, <1>2, <1>3, <1>4, <1>5, <1>6, <1>7, <1>8, <1>9 DEF NetworkInv

\* The kernel dissolves what belongs to no open namespace.
LEMMA ObjectsVanishKeep ==
  ASSUME NetworkInv, NEW r \in Runs, NEW Gone, objects[r] = Objects => r \notin spaces,
         objects' = [objects EXCEPT ![r] = @ \ Gone],
         UNCHANGED <<lock, life, evidence, traffic, foreign, env, spaces, leases, local>>
  PROVE  NetworkInv'
<1>1. TypeOK'
  BY DEF NetworkInv, TypeOK, Steps
<1>2. OwnerInv'
  BY DEF NetworkInv, OwnerInv
<1>3. StepInv'
  BY DEF NetworkInv, StepInv
<1>4. FreshInv'
  BY DEF NetworkInv, FreshInv
<1>5. ContentsInv'
  BY DEF NetworkInv, ContentsInv
<1>6. SessionInv'
  BY DEF NetworkInv, SessionInv
<1>7. UniqueInv'
  BY DEF NetworkInv, UniqueInv
<1>8. NothingUnclaimed'
  BY DEF NetworkInv, NothingUnclaimed
<1>9. TrafficActivated'
  BY DEF NetworkInv, TrafficActivated
<1> QED BY <1>1, <1>2, <1>3, <1>4, <1>5, <1>6, <1>7, <1>8, <1>9 DEF NetworkInv

\* Other software adds or deletes a rule.
LEMMA ForeignRuleKeeps ==
  ASSUME NetworkInv, ForeignRule
  PROVE  NetworkInv'
<1>1. TypeOK'
  <2>1. env.foreign \subseteq Slots
    BY ConstantsAssumption DEF NetworkInv, TypeOK
  <2>2. foreign' \subseteq Slots
    BY <2>1 DEF NetworkInv, TypeOK, ForeignRule
  <2> QED BY <2>2 DEF NetworkInv, TypeOK, ForeignRule
<1>2. OwnerInv'
  BY DEF NetworkInv, OwnerInv, ForeignRule
<1>3. StepInv'
  BY DEF NetworkInv, StepInv, ForeignRule
<1>4. FreshInv'
  BY DEF NetworkInv, FreshInv, ForeignRule
<1>5. ContentsInv'
  BY DEF NetworkInv, ContentsInv, ForeignRule
<1>6. SessionInv'
  BY DEF NetworkInv, SessionInv, ForeignRule
<1>7. UniqueInv'
  BY DEF NetworkInv, UniqueInv, ForeignRule
<1>8. NothingUnclaimed'
  BY DEF NetworkInv, NothingUnclaimed, ForeignRule
<1>9. TrafficActivated'
  BY DEF NetworkInv, TrafficActivated, ForeignRule
<1> QED BY <1>1, <1>2, <1>3, <1>4, <1>5, <1>6, <1>7, <1>8, <1>9 DEF NetworkInv

\* Nothing that matters changes.
LEMMA StutterKeeps ==
  ASSUME NetworkInv, UNCHANGED vars
  PROVE  NetworkInv'
<1>1. TypeOK' /\ OwnerInv' /\ StepInv'
  BY DEF NetworkInv, TypeOK, OwnerInv, StepInv, vars
<1>2. FreshInv' /\ ContentsInv' /\ SessionInv' /\ UniqueInv'
  BY DEF NetworkInv, FreshInv, ContentsInv, SessionInv, UniqueInv, vars
<1>3. NothingUnclaimed' /\ TrafficActivated'
  BY DEF NetworkInv, NothingUnclaimed, TrafficActivated, vars
<1> QED BY <1>1, <1>2, <1>3 DEF NetworkInv

\* A step that returns with an error, having noted it, keeps the invariant.
LEMMA FailNotedKeeps ==
  ASSUME NetworkInv, NEW p \in Procs, NEW f \in SUBSET Flags, Fail(p), Note(p, f),
         pc[p] \notin {"idle", "session", "closed", "failed", "recovered"},
         UNCHANGED <<life, evidence, objects, traffic, foreign, env, leases, op, run,
                     receipts, left>>
  PROVE  NetworkInv'
<1>1. flags[p] \cup f \in SUBSET Flags /\ flags' = [flags EXCEPT ![p] = flags[p] \cup f]
  BY DEF NetworkInv, TypeOK
<1>2. UNCHANGED <<life, slot, dir, objects, traffic, foreign, env, leases, op, run,
   receipts>>
  OBVIOUS
<1>3. UNCHANGED left /\ UNCHANGED disk
  OBVIOUS
<1> QED BY <1>1, <1>2, <1>3, FailKeeps

\* The ways in which an operation returns with an error.
LEMMA FailingKeeps ==
  ASSUME NetworkInv, NEW p \in Procs,
         \/ LockTimesOut(p) \/ AllocateFails(p) \/ PublishFails(p) \/ DrainTimesOut(p)
         \/ LoadFails(p) \/ EvidenceFails(p)
  PROVE  NetworkInv'
<1>1. {"error"} \in SUBSET Flags /\ {"error", "mishap"} \in SUBSET Flags
  BY DEF Flags
<1>2. CASE LockTimesOut(p)
  BY <1>1, <1>2, FailNotedKeeps DEF LockTimesOut
<1>3. CASE AllocateFails(p)
  BY <1>1, <1>3, FailNotedKeeps DEF AllocateFails
<1>4. CASE PublishFails(p)
  BY <1>1, <1>4, FailNotedKeeps DEF PublishFails
<1>5. CASE DrainTimesOut(p)
  BY <1>1, <1>5, FailNotedKeeps DEF DrainTimesOut
<1>6. CASE LoadFails(p)
  BY <1>1, <1>6, FailNotedKeeps DEF LoadFails
<1>7. CASE EvidenceFails(p)
  BY <1>1, <1>7, FailNotedKeeps DEF EvidenceFails
<1> QED BY <1>2, <1>3, <1>4, <1>5, <1>6, <1>7

\* An operation that finds no claim returns, or removes the empty directory.
LEMMA LoadNothingKeeps ==
  ASSUME NetworkInv, NEW p \in Procs, LoadNothing(p)
  PROVE  NetworkInv'
<1> DEFINE f == {e \in {"error"} : op[p] # "recover"}
<1>1. f \in SUBSET {"error"} /\ f \in SUBSET Flags
  BY DEF Flags
<1>2. /\ pc[p] = "load" /\ ~Claimed(run[p]) /\ "activation" \notin dir[run[p]]
      /\ Note(p, f)
      /\ UNCHANGED <<life, evidence, objects, traffic, foreign, env, leases, op, run,
                     receipts, left>>
  BY DEF LoadNothing, Readable
<1>3. CASE "network" \in dir[run[p]]
  <2>1. Go(p, "rmdir") /\ UNCHANGED <<lock, spaces>>
    BY <1>3 DEF LoadNothing
  <2> HIDE DEF f
  <2> QED BY <1>1, <1>2, <2>1, RemoveEmptyKeeps
<1>4. CASE "network" \notin dir[run[p]] /\ op[p] = "recover"
  <2>1. Succeed(p)
    BY <1>4 DEF LoadNothing
  <2>2. f = {}
    BY <1>4
  <2>3. UNCHANGED flags
    BY <1>2, <2>2 DEF NetworkInv, TypeOK
  <2> HIDE DEF f
  <2> QED BY <1>2, <2>1, <2>3, SucceedKeeps
<1>5. CASE "network" \notin dir[run[p]] /\ op[p] # "recover"
  <2>1. Fail(p)
    BY <1>5 DEF LoadNothing
  <2> HIDE DEF f
  <2> QED BY <1>1, <1>2, <2>1, FailNotedKeeps
<1> QED BY <1>3, <1>4, <1>5

\* The removal is synced, and the operation returns.
LEMMA SyncRemovedKeeps ==
  ASSUME NetworkInv, NEW p \in Procs, SyncRemoved(p)
  PROVE  NetworkInv'
<1>1. /\ pc[p] = "syncRemoved" /\ Sync(run[p])
      /\ UNCHANGED <<life, slot, dir, objects, traffic, foreign, env, leases, op, run,
                     receipts, left, flags>>
  BY DEF SyncRemoved
<1>2. CASE Fail(p)
  <2>1. flags[p] \in SUBSET Flags /\ flags' = [flags EXCEPT ![p] = flags[p]]
    BY <1>1 DEF NetworkInv, TypeOK
  <2> QED BY <1>1, <1>2, <2>1, FailKeeps
<1>3. CASE Succeed(p)
  BY <1>1, <1>3, SucceedKeeps
<1> QED BY <1>2, <1>3 DEF SyncRemoved

\* The steps that change the evidence.
LEMMA EvidenceStepsKeep ==
  ASSUME NetworkInv, NEW p \in Procs,
         \/ SyncNetworkDirectory(p) \/ PublishClaim(p) \/ PublishActivation(p)
         \/ RemoveStaging(p) \/ RemoveEvidence(p)
  PROVE  NetworkInv'
<1>1. CASE SyncNetworkDirectory(p)
  <2>1. "createClaim" \in Steps
    BY DEF Steps
  <2> QED BY <1>1, <2>1, SyncKeeps DEF SyncNetworkDirectory
<1>2. CASE PublishClaim(p)
  <2>1. CASE SyncEvidence(p, "syncClaim", "install")
    <3>1. "install" \in Steps
      BY DEF Steps
    <3> QED BY <2>1, <3>1, SyncKeeps DEF SyncEvidence
  <2> QED BY <1>2, <2>1, CreateClaimKeeps, RenameClaimKeeps DEF PublishClaim
<1>3. CASE PublishActivation(p)
  BY <1>3, CreateActivationKeeps, RenameActivationKeeps, SyncActivationKeeps
  DEF PublishActivation
<1>4. CASE RemoveStaging(p)
  <2>1. "load" \in Steps
    BY DEF Steps
  <2> QED BY <1>4, <2>1, RemoveStagingKeeps, SyncKeeps DEF RemoveStaging
<1>5. CASE RemoveEvidence(p)
  <2>1. CASE SyncEvidence(p, "syncDropped", "dropClaim")
    <3>1. "dropClaim" \in Steps
      BY DEF Steps
    <3> QED BY <2>1, <3>1, SyncKeeps DEF SyncEvidence
  <2>2. CASE SyncEvidence(p, "syncEmptied", "rmdir")
    <3>1. "rmdir" \in Steps
      BY DEF Steps
    <3> QED BY <2>2, <3>1, SyncKeeps DEF SyncEvidence
  <2> QED BY <1>5, <2>1, <2>2, DropActivationKeeps, DropClaimKeeps DEF RemoveEvidence
<1> QED BY <1>1, <1>2, <1>3, <1>4, <1>5

\* The deletion of one object.
LEMMA DeletionKeeps ==
  ASSUME NetworkInv, NEW p \in Procs,
         DeleteFirewall(p) \/ DeleteRule(p) \/ DeleteRoute(p) \/ DeleteLink(p)
  PROVE  NetworkInv'
<1>1. PICK o, Gone : Deleted(p, o, Gone)
  BY DEF DeleteFirewall, DeleteRule, DeleteRoute, DeleteLink
<1>2. pc[p] \in Deleting
  BY DEF DeleteFirewall, DeleteRule, DeleteRoute, DeleteLink
<1>3. UNCHANGED flags => Note(p, {})
  BY DEF NetworkInv, TypeOK
<1>4. \E f \in SUBSET (Flags \ {"activated"}) : Note(p, f)
  <2>1. /\ {} \in SUBSET (Flags \ {"activated"})
        /\ {"error", "fib"} \in SUBSET (Flags \ {"activated"})
        /\ {"pending"} \in SUBSET (Flags \ {"activated"})
        /\ {"error"} \in SUBSET (Flags \ {"activated"})
    BY DEF Flags
  <2>2. \/ UNCHANGED flags \/ Note(p, {"error", "fib"}) \/ Note(p, {"pending"})
        \/ Note(p, {"error"})
    BY DEF DeleteFirewall, DeleteRule, DeleteRoute, DeleteLink
  <2> HIDE DEF Note
  <2> QED BY <1>3, <2>1, <2>2
<1>5. PICK f \in SUBSET (Flags \ {"activated"}) : Note(p, f)
  BY <1>4
<1> HIDE DEF Note, Deleting
<1> QED BY <1>1, <1>2, <1>5, DeletedKeeps

\* The steps of the clean-up that delete nothing.
LEMMA PhaseKeeps ==
  ASSUME NetworkInv, NEW p \in Procs,
         \/ DeleteFails(p) \/ EndFirewall(p) \/ EndRouting(p) \/ AwaitCascade(p)
         \/ EndLinks(p) \/ ClearConntrack(p)
  PROVE  NetworkInv'
<1>1. \E next \in Deleting : Go(p, next)
  <2>1. UNCHANGED pc => Go(p, pc[p])
    BY DEF NetworkInv, TypeOK
  <2> QED BY <2>1 DEF DeleteFails, EndFirewall, EndRouting, AwaitCascade, EndLinks,
     ClearConntrack
<1>2. pc[p] \in Deleting
  BY DEF DeleteFails, EndFirewall, EndRouting, AwaitCascade, EndLinks, ClearConntrack
<1>3. \E S \in SUBSET Objects : left' = [left EXCEPT ![p] = S]
  <2>1. left[p] \in SUBSET Objects /\ (UNCHANGED left => left' = [left EXCEPT ![p] =
     left[p]])
    BY DEF NetworkInv, TypeOK
  <2>2. /\ Targets(p, WeakFIB) \in SUBSET Objects /\ Targets(p, Links) \in SUBSET Objects
        /\ WeakFIB \in SUBSET Objects
    BY ObjectKinds DEF NetworkInv
  <2>3. CASE DeleteFails(p)
    BY <2>1, <2>3 DEF DeleteFails
  <2>4. CASE EndFirewall(p)
    BY <2>2, <2>4 DEF EndFirewall
  <2>5. CASE EndRouting(p) \/ AwaitCascade(p)
    BY <2>1, <2>2, <2>5 DEF EndRouting, AwaitCascade
  <2>6. CASE EndLinks(p) \/ ClearConntrack(p)
    BY <2>1, <2>6 DEF EndLinks, ClearConntrack
  <2> QED BY <2>3, <2>4, <2>5, <2>6
<1>4. \E f \in SUBSET Flags : /\ flags' = [flags EXCEPT ![p] = f]
                              /\ "activated" \in f <=> "activated" \in flags[p]
  <2>1. flags[p] \in SUBSET Flags /\ (UNCHANGED flags => flags' = [flags EXCEPT ![p] =
     flags[p]])
    BY DEF NetworkInv, TypeOK
  <2>2. CASE \E e \in SUBSET (Flags \ {"activated"}) : Note(p, e)
    <3>1. PICK e \in SUBSET (Flags \ {"activated"}) : Note(p, e)
      BY <2>2
    <3>2. flags' = [flags EXCEPT ![p] = flags[p] \cup e]
      BY <3>1
    <3> QED BY <2>1, <3>1, <3>2
  <2>3. CASE DeleteFails(p)
    <3>1. {"error", "mishap"} \cup {f \in {"fib"} : pc[p] = "fib"} \in SUBSET (Flags \ {"activated"})
      BY DEF Flags
    <3> QED BY <2>2, <2>3, <3>1 DEF DeleteFails
  <2>4. CASE EndRouting(p)
    <3> DEFINE found == {f \in {"error"} : slot[run[p]] \in foreign \/ Dangling(run[p]) # {}}
                        \cup {f \in {"mishap"} : Dangling(run[p]) # {}}
               e == IF op[p] = "recover" /\ "activated" \notin flags[p] THEN found ELSE {}
    <3>1. e \in SUBSET (Flags \ {"activated"})
      BY DEF Flags
    <3>2. Note(p, e)
      BY <2>4 DEF EndRouting
    <3> HIDE DEF e
    <3> QED BY <2>2, <3>1, <3>2
  <2>5. CASE AwaitCascade(p)
    <3>1. {"error", "mishap"} \in SUBSET (Flags \ {"activated"})
      BY DEF Flags
    <3>2. CASE Note(p, {"error", "mishap"})
      BY <2>2, <3>1, <3>2
    <3>3. CASE flags' = [flags EXCEPT ![p] = @ \ {"pending"}]
      <4>1. flags' = [flags EXCEPT ![p] = flags[p] \ {"pending"}]
        BY <3>3
      <4> QED BY <2>1, <4>1
    <3> QED BY <2>5, <3>2, <3>3 DEF AwaitCascade
  <2>6. CASE ClearConntrack(p)
    <3>1. {"error", "mishap"} \in SUBSET (Flags \ {"activated"})
      BY DEF Flags
    <3> QED BY <2>1, <2>2, <2>6, <3>1 DEF ClearConntrack
  <2>7. CASE EndFirewall(p) \/ EndLinks(p)
    BY <2>1, <2>7 DEF EndFirewall, EndLinks
  <2> QED BY <2>3, <2>4, <2>5, <2>6, <2>7
<1>5. \E T \in SUBSET {run[p]} : spaces' = spaces \ T
  <2>1. spaces = spaces \ {}
    OBVIOUS
  <2> QED BY <2>1 DEF DeleteFails, EndFirewall, EndRouting, AwaitCascade, EndLinks,
     ClearConntrack
<1>6. \E U \in SUBSET {run[p]} : traffic' = traffic \ U
  <2>1. traffic = traffic \ {}
    OBVIOUS
  <2> QED BY <2>1 DEF DeleteFails, EndFirewall, EndRouting, AwaitCascade, EndLinks,
     ClearConntrack
<1>7. UNCHANGED <<lock, life, evidence, objects, foreign, env, leases, op, run, receipts>>
  BY DEF DeleteFails, EndFirewall, EndRouting, AwaitCascade, EndLinks, ClearConntrack
<1> QED BY <1>1, <1>2, <1>3, <1>4, <1>5, <1>6, <1>7, GoesOnKeeps

\* The end of the clean-up: the evidence may go, or is kept.
LEMMA VerifyCleanupKeeps ==
  ASSUME NetworkInv, NEW p \in Procs, VerifyCleanup(p)
  PROVE  NetworkInv'
<1>1. /\ pc[p] = "verify"
      /\ UNCHANGED <<life, evidence, objects, traffic, foreign, env, leases, op, run,
                     receipts, left>>
  BY DEF VerifyCleanup
<1>2. CASE /\ objects[run[p]] = {}
           /\ "activated" \in flags[p] => run[p] \notin traffic
           /\ \E next \in {"dropActivation", "dropClaim"} : Go(p, next)
           /\ UNCHANGED <<lock, spaces, flags>>
  <2>1. PICK next \in {"dropActivation", "dropClaim"} : Go(p, next)
    BY <1>2
  <2>2. UNCHANGED <<lock, life, evidence, kernel, leases, op, run, receipts, left, flags>>
    BY <1>1, <1>2
  <2> HIDE DEF Go
  <2> QED BY <1>1, <1>2, <2>1, <2>2, CleanKeeps
<1>3. CASE Fail(p) /\ \E f \in SUBSET Flags : Note(p, f)
  BY <1>1, <1>3, FailNotedKeeps
<1>4. \A S \in SUBSET {"mishap"} : {"error"} \cup S \in SUBSET Flags
  BY DEF Flags
<1> QED BY <1>2, <1>3, <1>4 DEF VerifyCleanup

\* The kernel dissolves the namespaces of a dead process.
LEMMA KernelKeeps ==
  ASSUME NetworkInv, NEW r \in Runs, LinkVanishes(r) \/ RouteVanishes(r)
  PROVE  NetworkInv'
<1>1. CASE LinkVanishes(r)
  <2>1. PICK l : objects' = [objects EXCEPT ![r] = @ \ {l}]
    BY <1>1 DEF LinkVanishes
  <2> QED BY <1>1, <2>1, ObjectsVanishKeep DEF LinkVanishes
<1>2. CASE RouteVanishes(r)
  <2>1. PICK o \in Dangling(r) : objects' = [objects EXCEPT ![r] = @ \ {o}]
    BY <1>2 DEF RouteVanishes
  <2>2. objects[r] # Objects
    BY ObjectKinds DEF Dangling
  <2> QED BY <1>2, <2>1, <2>2, ObjectsVanishKeep DEF RouteVanishes
<1> QED BY <1>1, <1>2

\* Every step keeps the invariant.
LEMMA NextKeeps ==
  ASSUME NetworkInv, [Next]_vars
  PROVE  NetworkInv'
<1>1. ASSUME NEW p \in Procs, Opening(p)
      PROVE  NetworkInv'
  BY <1>1, AllocateKeeps, FailingKeeps, MakeNetworkDirectoryKeeps, EvidenceStepsKeep,
     InstallKeeps, InstallFailsKeeps, VerifyInstalledKeeps, BeginRollbackKeeps
  DEF Opening
<1>2. ASSUME NEW p \in Procs, Cleaning(p)
      PROVE  NetworkInv'
  BY <1>2, EvidenceStepsKeep, LoadEvidenceKeeps, LoadNothingKeeps, FailingKeeps,
     DeletionKeeps, PhaseKeeps, VerifyCleanupKeeps, RemoveDirectoryKeeps, SyncRemovedKeeps
  DEF Cleaning
<1>3. ASSUME NEW p \in Procs, Work(p)
      PROVE  NetworkInv'
  BY <1>1, <1>2, <1>3, AcquireHostLockKeeps, FailingKeeps, DrainedKeeps, FinishKeeps
  DEF Work
<1>4. ASSUME NEW p \in Procs, NEW r \in Runs, StartRun(p, r) \/ ClaimStale(p, r)
      PROVE  NetworkInv'
  BY <1>4, StartRunKeeps, ClaimStaleKeeps
<1>5. ASSUME NEW p \in Procs,
             Crash(p) \/ OpenNamespace(p) \/ CloseLease(p) \/ BeginClose(p)
      PROVE  NetworkInv'
  BY <1>5, CrashKeeps, OpenNamespaceKeeps, CloseLeaseKeeps, BeginCloseKeeps
<1>6. ASSUME NEW r \in Runs, Transmit(r) \/ LinkVanishes(r) \/ RouteVanishes(r)
      PROVE  NetworkInv'
  BY <1>6, TransmitKeeps, KernelKeeps
<1>7. ASSUME ForeignRule \/ LosePower
      PROVE  NetworkInv'
  BY <1>7, ForeignRuleKeeps, LosePowerKeeps
<1> QED BY <1>3, <1>4, <1>5, <1>6, <1>7, StutterKeeps DEF Next

\* Nothing has happened yet.
LEMMA InitHolds ==
  ASSUME Init
  PROVE  NetworkInv
<1>1. TypeOK
  BY ConstantFacts DEF Init, TypeOK, Steps
<1>2. OwnerInv /\ StepInv
  BY ConstantFacts DEF Init, OwnerInv, StepInv
<1>3. FreshInv /\ ContentsInv /\ SessionInv /\ UniqueInv
  BY ConstantFacts DEF Init, FreshInv, ContentsInv, SessionInv, UniqueInv
<1>4. NothingUnclaimed /\ TrafficActivated
  BY DEF Init, NothingUnclaimed, TrafficActivated
<1> QED BY <1>1, <1>2, <1>3, <1>4 DEF NetworkInv

\* The invariant holds in every behaviour: runs and processes correspond, the
\* steps of Open, Close and Recover find what they expect in the root and in the
\* kernel, and what is in the kernel is claimed by one run.
THEOREM NetworkInvariant == Spec => []NetworkInv
<1>1. Init => NetworkInv
  BY InitHolds
<1>2. NetworkInv /\ [Next]_vars => NetworkInv'
  BY NextKeeps
<1> QED BY <1>1, <1>2, PTL DEF Spec

\* allocateClaimNetwork never gives a run an identity whose objects are in the
\* kernel under another run: no Close or recovery deletes objects of another run.
THEOREM IdentitiesStayDisjoint == Spec => []IdentitiesDisjoint
<1>1. NetworkInv => IdentitiesDisjoint
  BY DEF NetworkInv, UniqueInv, NothingUnclaimed, IdentitiesDisjoint
<1> QED BY <1>1, NetworkInvariant, PTL

\* A command in a leased namespace has its complete network until its lease is
\* closed, and tracked connections belong to a run whose root has the activation.
THEOREM LeasesStaySound == Spec => []LeasesSound
<1>1. NetworkInv => LeasesSound
  BY DEF NetworkInv, SessionInv, LeasesSound, LeasedComplete
<1> QED BY <1>1, NetworkInvariant, PTL

-----------------------------------------------------------------------------
(* The evidence can be read                                                *)

\* Only the root of p's run changes, and p goes on.
LEMMA OneRootChanges ==
  ASSUME NetworkInv, ReadInv, DiskInv, NEW p \in Procs, pc[p] # "idle",
         NEW D, NEW E, NEW next, Go(p, next),
         dir' = [dir EXCEPT ![run[p]] = D], disk' = [disk EXCEPT ![run[p]] = E],
         UNCHANGED <<env, run>>,
         PowerAlone => Readable(D) /\ Expected(next, D),
         ~env.crashes /\ ~env.faults =>
           /\ \A c \in E : Readable(c) /\ Written(next, c)
           /\ next \notin Unsynced => E = {D}
  PROVE  ReadInv' /\ DiskInv'
<1>0. /\ run[p] \in Runs /\ run[p] # NoRun /\ \A q \in Procs : run[q] = run[p] => q = p
      /\ NoProc \notin Procs
  BY Working
<1>1. /\ pc'[p] = next /\ dir'[run[p]] = D /\ disk'[run[p]] = E
      /\ \A q \in Procs : q # p => pc'[q] = pc[q]
      /\ \A r \in Runs : r # run[p] => dir'[r] = dir[r] /\ disk'[r] = disk[r]
  BY <1>0 DEF NetworkInv, TypeOK
<1>2. \A q \in Procs : pc[q] # "idle" => run[q] \in Runs
  BY Working
<1>3. PowerAlone' <=> PowerAlone
  BY DEF PowerAlone
<1>4. ReadInv'
  <2>1. SUFFICES ASSUME PowerAlone
                 PROVE  /\ \A r \in Runs : Readable(dir'[r])
                        /\ \A q \in Procs : Expected(pc'[q], dir'[run[q]])
    BY <1>3, <2>1 DEF ReadInv, Readable, Expected
  <2>2. \A r \in Runs : Readable(dir'[r])
    BY <1>1, <2>1 DEF ReadInv
  <2>3. ASSUME NEW q \in Procs, q # p
        PROVE  Expected(pc'[q], dir'[run[q]])
    <3>1. CASE pc[q] = "idle"
      BY <1>1, <2>3, <3>1 DEF Expected
    <3>2. CASE pc[q] # "idle"
      BY <1>0, <1>1, <1>2, <2>1, <2>3, <3>2 DEF ReadInv
    <3> QED BY <3>1, <3>2
  <2> QED BY <1>1, <2>1, <2>2, <2>3
<1>5. DiskInv'
  <2>1. SUFFICES ASSUME ~env.crashes /\ ~env.faults
                 PROVE  /\ \A r \in Runs : \A c \in disk'[r] : Readable(c)
                        /\ \A r \in Runs : (\A q \in Procs : run[q] = r => pc'[q] \notin Unsynced) =>
                             disk'[r] = {dir'[r]}
                        /\ \A q \in Procs : pc'[q] # "idle" =>
                             \A c \in disk'[run[q]] : Written(pc'[q], c)
    BY <2>1 DEF DiskInv, Readable, Written
  <2>2. \A r \in Runs : \A c \in disk'[r] : Readable(c)
    BY <1>1, <2>1 DEF DiskInv
  <2>3. \A r \in Runs : (\A q \in Procs : run[q] = r => pc'[q] \notin Unsynced) =>
                             disk'[r] = {dir'[r]}
    BY <1>0, <1>1, <2>1 DEF DiskInv
  <2>4. \A q \in Procs : pc'[q] # "idle" => \A c \in disk'[run[q]] : Written(pc'[q], c)
    BY <1>0, <1>1, <1>2, <2>1 DEF DiskInv
  <2> QED BY <2>2, <2>3, <2>4
<1> QED BY <1>4, <1>5

\* No root changes, and p goes on.
LEMMA RootsKept ==
  ASSUME NetworkInv, ReadInv, DiskInv, NEW p \in Procs,
         NEW next, Go(p, next), NEW r, run' = [run EXCEPT ![p] = r],
         UNCHANGED <<dir, disk, env>>,
         next \notin Unsynced,
         pc[p] \in Unsynced => env.crashes \/ env.faults,
         PowerAlone => Expected(next, dir[r])
  PROVE  ReadInv' /\ DiskInv'
<1>1. /\ pc'[p] = next /\ run'[p] = r
      /\ \A q \in Procs : q # p => pc'[q] = pc[q] /\ run'[q] = run[q]
  BY DEF NetworkInv, TypeOK
<1>2. PowerAlone' <=> PowerAlone
  BY DEF PowerAlone
<1>3. ReadInv'
  <2>1. SUFFICES ASSUME PowerAlone
                 PROVE  \A q \in Procs : Expected(pc'[q], dir[run'[q]])
    BY <1>2, <2>1 DEF ReadInv, Readable, Expected
  <2> QED BY <1>1, <2>1 DEF ReadInv
<1>4. DiskInv'
  <2>1. SUFFICES ASSUME ~env.crashes /\ ~env.faults
                 PROVE  /\ \A x \in Runs : (\A q \in Procs : run'[q] = x => pc'[q] \notin Unsynced) =>
                             disk[x] = {dir[x]}
                        /\ \A q \in Procs : pc'[q] # "idle" =>
                             \A c \in disk[run'[q]] : Written(pc'[q], c)
    BY <2>1 DEF DiskInv, Readable, Written
  <2>2. \A c : Written(next, c)
    BY DEF Written, Unsynced
  <2> QED BY <1>1, <2>1, <2>2 DEF DiskInv
<1> QED BY <1>3, <1>4

\* No root changes, and nobody goes on.
LEMMA RootsUntouched ==
  ASSUME ReadInv, DiskInv, UNCHANGED <<dir, disk, env, pc, run>>
  PROVE  ReadInv' /\ DiskInv'
BY DEF ReadInv, DiskInv, PowerAlone, Readable, Expected, Written

\* Power is lost: what is read then was on the disk.
LEMMA LosePowerReadable ==
  ASSUME NetworkInv, ReadInv, DiskInv, LosePower
  PROVE  ReadInv' /\ DiskInv'
<1>1. /\ \A r \in Runs : dir'[r] \in disk[r] /\ disk'[r] = {dir'[r]}
      /\ \A p \in Procs : pc'[p] = "idle"
      /\ env' = env /\ env.powerLoss
  BY DEF LosePower
<1>2. ~env.crashes /\ ~env.faults => \A r \in Runs : Readable(dir'[r])
  BY <1>1 DEF DiskInv
<1>3. ReadInv'
  <2>1. SUFFICES ASSUME PowerAlone
                 PROVE  /\ \A r \in Runs : Readable(dir'[r])
                        /\ \A q \in Procs : Expected(pc'[q], dir'[run'[q]])
    BY <1>1, <2>1 DEF ReadInv, Readable, Expected, PowerAlone
  <2> QED BY <1>1, <1>2, <2>1 DEF PowerAlone, Expected
<1>4. DiskInv'
  <2>1. SUFFICES ASSUME ~env.crashes /\ ~env.faults
                 PROVE  /\ \A r \in Runs : \A c \in disk'[r] : Readable(c)
                        /\ \A r \in Runs : disk'[r] = {dir'[r]}
                        /\ \A q \in Procs : pc'[q] = "idle"
    BY <1>1, <2>1 DEF DiskInv, Readable
  <2> QED BY <1>1, <1>2, <2>1
<1> QED BY <1>3, <1>4

\* A root changes by old and new, and p goes on to sync it.
LEMMA RootChanges ==
  ASSUME NetworkInv, ReadInv, DiskInv, NEW p \in Procs, pc[p] # "idle",
         NEW old, NEW new, Change(run[p], old, new),
         NEW next \in Unsynced, Go(p, next), UNCHANGED <<env, run>>,
         PowerAlone =>
           /\ Readable(Changed(dir[run[p]], old, new))
           /\ Expected(next, Changed(dir[run[p]], old, new)),
         ~env.crashes /\ ~env.faults => \A c \in disk[run[p]] :
           /\ Readable(Changed(c, old, new)) /\ Written(next, Changed(c, old, new))
           /\ Written(next, c)
  PROVE  ReadInv' /\ DiskInv'
<1>0. run[p] \in Runs
  BY Working
<1> DEFINE D == Changed(dir[run[p]], old, new)
           E == disk[run[p]] \cup {Changed(c, old, new) : c \in disk[run[p]]}
<1>1. dir' = [dir EXCEPT ![run[p]] = D] /\ disk' = [disk EXCEPT ![run[p]] = E]
  BY DEF Change
<1>2. ~env.crashes /\ ~env.faults => \A c \in E : Readable(c) /\ Written(next, c)
  BY <1>0 DEF DiskInv
<1> HIDE DEF D, E
<1>3. PowerAlone => Readable(D) /\ Expected(next, D)
  BY DEF D
<1> QED BY <1>1, <1>2, <1>3, OneRootChanges

\* A root is synced, and p goes on.
LEMMA RootSynced ==
  ASSUME NetworkInv, ReadInv, DiskInv, NEW p \in Procs, pc[p] # "idle",
         Sync(run[p]), UNCHANGED dir,
         NEW next, next \notin Unsynced, Go(p, next), UNCHANGED <<env, run>>,
         PowerAlone => Expected(next, dir[run[p]])
  PROVE  ReadInv' /\ DiskInv'
<1>0. run[p] \in Runs
  BY Working
<1> DEFINE D == dir[run[p]]
           E == {dir[run[p]]}
<1>1. dir' = [dir EXCEPT ![run[p]] = D] /\ disk' = [disk EXCEPT ![run[p]] = E]
  BY DEF Sync, NetworkInv, TypeOK
<1>2. \A c : Written(next, c)
  BY DEF Written, Unsynced
<1>3. PowerAlone => Readable(D) /\ Expected(next, D)
  BY <1>0 DEF ReadInv
<1>4. ~env.crashes /\ ~env.faults => PowerAlone
  BY DEF PowerAlone
<1>5. ~env.crashes /\ ~env.faults => \A c \in E : Readable(c) /\ Written(next, c)
  BY <1>2, <1>3, <1>4
<1>6. next \notin Unsynced => E = {D}
  OBVIOUS
<1> HIDE DEF D, E
<1> QED BY <1>1, <1>3, <1>5, <1>6, OneRootChanges

\* What has no evidence yet, or has been synced, is on the disk as it is.
LEMMA OnDisk ==
  ASSUME NetworkInv, DiskInv, NEW p \in Procs, pc[p] # "idle", pc[p] \notin Unsynced,
         ~env.crashes /\ ~env.faults
  PROVE  disk[run[p]] = {dir[run[p]]} /\ PowerAlone
BY Working DEF DiskInv, PowerAlone

\* The steps that create and rename the evidence.
LEMMA PublishingReadable ==
  ASSUME NetworkInv, ReadInv, DiskInv, NEW p \in Procs,
         MakeNetworkDirectory(p) \/ PublishClaim(p) \/ PublishActivation(p)
  PROVE  ReadInv' /\ DiskInv'
<1>1. CASE MakeNetworkDirectory(p)
  <2>1. dir[run[p]] = {} /\ pc[p] = "mkdir"
    BY <1>1 DEF MakeNetworkDirectory, NetworkInv, FreshInv, StepInv
  <2>2. ~env.crashes /\ ~env.faults => disk[run[p]] = {{}}
    BY <2>1, OnDisk DEF Unsynced
  <2>3. /\ Readable({"network"}) /\ Expected("syncRoot", {"network"})
        /\ Written("syncRoot", {"network"}) /\ Written("syncRoot", {})
        /\ Changed({}, {}, {"network"}) = {"network"} /\ "syncRoot" \in Unsynced
    BY DEF Readable, Expected, Written, Changed, Staging, Unsynced
  <2>4. /\ Readable(Changed(dir[run[p]], {}, {"network"}))
        /\ Expected("syncRoot", Changed(dir[run[p]], {}, {"network"}))
    BY <2>1, <2>3
  <2>5. ~env.crashes /\ ~env.faults => \A c \in disk[run[p]] :
          /\ Readable(Changed(c, {}, {"network"})) /\ Written("syncRoot", Changed(c, {}, {"network"}))
          /\ Written("syncRoot", c)
    BY <2>2, <2>3
  <2> QED BY <1>1, <2>1, <2>3, <2>4, <2>5, RootChanges DEF MakeNetworkDirectory
<1>2. CASE CreateEvidence(p, "createClaim", "claim.tmp", "renameClaim")
  <2>1. pc[p] = "createClaim" /\ "renameClaim" \in Unsynced
    BY <1>2 DEF CreateEvidence, Unsynced
  <2>2. ~env.crashes /\ ~env.faults => disk[run[p]] = {dir[run[p]]} /\ PowerAlone
    BY <2>1, OnDisk DEF Unsynced
  <2>3. PowerAlone => dir[run[p]] \subseteq {"network"}
    BY <2>1 DEF ReadInv, Expected
  <2>4. ASSUME NEW c, c \subseteq {"network"}
        PROVE  /\ Readable(Changed(c, {}, {"claim.tmp"}))
               /\ Expected("renameClaim", Changed(c, {}, {"claim.tmp"}))
               /\ Written("renameClaim", Changed(c, {}, {"claim.tmp"}))
               /\ Written("renameClaim", c)
    BY <2>4 DEF Readable, Expected, Written, Changed, Staging
  <2> QED BY <1>2, <2>1, <2>2, <2>3, <2>4, RootChanges DEF CreateEvidence
<1>3. CASE RenameEvidence(p, "renameClaim", "claim.tmp", "claim", "syncClaim")
  <2>1. pc[p] = "renameClaim" /\ "syncClaim" \in Unsynced
    BY <1>3 DEF RenameEvidence, Unsynced
  <2>2. PowerAlone => dir[run[p]] \subseteq {"network", "claim.tmp"}
    BY <2>1 DEF ReadInv, Expected
  <2>3. ~env.crashes /\ ~env.faults => \A c \in disk[run[p]] : c \subseteq {"network", "claim.tmp"}
    BY <2>1 DEF DiskInv, Written
  <2>4. ASSUME NEW c, c \subseteq {"network", "claim.tmp"}
        PROVE  /\ Readable(Changed(c, {"claim.tmp"}, {"claim"}))
               /\ Expected("syncClaim", Changed(c, {"claim.tmp"}, {"claim"}))
               /\ Written("syncClaim", Changed(c, {"claim.tmp"}, {"claim"}))
               /\ Written("syncClaim", c)
    BY <2>4 DEF Readable, Expected, Written, Changed, Staging
  <2> QED BY <1>3, <2>1, <2>2, <2>3, <2>4, RootChanges DEF RenameEvidence
<1>4. CASE SyncEvidence(p, "syncClaim", "install")
  <2>1. PowerAlone => Expected("install", dir[run[p]])
    BY <1>4 DEF SyncEvidence, ReadInv, Expected
  <2>2. "install" \notin Unsynced
    BY DEF Unsynced
  <2> QED BY <1>4, <2>1, <2>2, RootSynced DEF SyncEvidence
<1>5. CASE CreateEvidence(p, "createActivation", "activation.tmp", "renameActivation")
  <2>1. pc[p] = "createActivation" /\ "renameActivation" \in Unsynced /\ Claimed(run[p])
    BY <1>5 DEF CreateEvidence, Unsynced, NetworkInv, ContentsInv
  <2>2. ~env.crashes /\ ~env.faults => disk[run[p]] = {dir[run[p]]} /\ PowerAlone
    BY <2>1, OnDisk DEF Unsynced
  <2>3. PowerAlone => dir[run[p]] \cap ({"activation"} \cup Staging) = {}
    BY <2>1 DEF ReadInv, Expected
  <2>4. ASSUME NEW c, "claim" \in c, c \cap ({"activation"} \cup Staging) = {}
        PROVE  /\ Readable(Changed(c, {}, {"activation.tmp"}))
               /\ Expected("renameActivation", Changed(c, {}, {"activation.tmp"}))
               /\ Written("renameActivation", Changed(c, {}, {"activation.tmp"}))
               /\ Written("renameActivation", c)
    BY <2>4 DEF Readable, Expected, Written, Changed, Staging
  <2> QED BY <1>5, <2>1, <2>2, <2>3, <2>4, RootChanges DEF CreateEvidence
<1>6. CASE RenameEvidence(p, "renameActivation", "activation.tmp", "activation", "syncActivation")
  <2>1. pc[p] = "renameActivation" /\ "syncActivation" \in Unsynced /\ Claimed(run[p])
    BY <1>6 DEF RenameEvidence, Unsynced, NetworkInv, ContentsInv
  <2>2. PowerAlone => dir[run[p]] \cap {"claim.tmp", "activation"} = {}
    BY <2>1 DEF ReadInv, Expected
  <2>3. ~env.crashes /\ ~env.faults => \A c \in disk[run[p]] :
          "claim" \in c /\ c \cap {"claim.tmp", "activation"} = {}
    BY <2>1 DEF DiskInv, Written
  <2>4. ASSUME NEW c, "claim" \in c, c \cap {"claim.tmp", "activation"} = {}
        PROVE  /\ Readable(Changed(c, {"activation.tmp"}, {"activation"}))
               /\ Expected("syncActivation", Changed(c, {"activation.tmp"}, {"activation"}))
               /\ Written("syncActivation", Changed(c, {"activation.tmp"}, {"activation"}))
               /\ Written("syncActivation", c)
    BY <2>4 DEF Readable, Expected, Written, Changed, Staging
  <2> QED BY <1>6, <2>1, <2>2, <2>3, <2>4, RootChanges DEF RenameEvidence
<1>7. CASE /\ pc[p] = "syncActivation" /\ Sync(run[p]) /\ Go(p, "session")
           /\ UNCHANGED <<dir, env, run>>
  <2>1. "session" \notin Unsynced /\ Expected("session", dir[run[p]])
    BY DEF Unsynced, Expected
  <2> QED BY <1>7, <2>1, RootSynced
<1> QED BY <1>1, <1>2, <1>3, <1>4, <1>5, <1>6, <1>7 DEF PublishClaim, PublishActivation

\* The steps that remove evidence.
LEMMA RemovingReadable ==
  ASSUME NetworkInv, ReadInv, DiskInv, NEW p \in Procs,
         RemoveStaging(p) \/ RemoveEvidence(p) \/ RemoveDirectory(p)
  PROVE  ReadInv' /\ DiskInv'
<1>0. PowerAlone /\ pc[p] # "idle" => Readable(dir[run[p]])
  BY Working DEF ReadInv
<1>1. CASE /\ pc[p] = "load" /\ Change(run[p], Staging, {}) /\ Go(p, "syncStaging")
           /\ UNCHANGED <<env, run>>
  <2>1. ~env.crashes /\ ~env.faults => disk[run[p]] = {dir[run[p]]} /\ PowerAlone
    BY <1>1, OnDisk DEF Unsynced
  <2>2. ASSUME NEW c, Readable(c)
        PROVE  /\ Readable(Changed(c, Staging, {}))
               /\ Expected("syncStaging", Changed(c, Staging, {}))
               /\ Written("syncStaging", Changed(c, Staging, {}))
               /\ Written("syncStaging", c)
    BY <2>2 DEF Readable, Expected, Written, Changed, Staging
  <2>3. "syncStaging" \in Unsynced
    BY DEF Unsynced
  <2> QED BY <1>0, <1>1, <2>1, <2>2, <2>3, RootChanges
<1>2. CASE /\ pc[p] = "syncStaging" /\ Sync(run[p]) /\ Go(p, "load")
           /\ UNCHANGED <<dir, env, run>>
  <2>1. "load" \notin Unsynced /\ Expected("load", dir[run[p]])
    BY DEF Unsynced, Expected
  <2> QED BY <1>2, <2>1, RootSynced
<1>3. CASE Unlink(p, "activation", "dropActivation", "syncDropped")
  <2>1. pc[p] = "dropActivation" /\ "syncDropped" \in Unsynced
    BY <1>3 DEF Unlink, Unsynced
  <2>2. ~env.crashes /\ ~env.faults => disk[run[p]] = {dir[run[p]]} /\ PowerAlone
    BY <2>1, OnDisk DEF Unsynced
  <2>3. PowerAlone => dir[run[p]] \cap Staging = {}
    BY <2>1 DEF ReadInv, Expected
  <2>4. ASSUME NEW c, c \cap Staging = {}
        PROVE  /\ Readable(Changed(c, {"activation"}, {}))
               /\ Expected("syncDropped", Changed(c, {"activation"}, {}))
               /\ Written("syncDropped", Changed(c, {"activation"}, {}))
               /\ Written("syncDropped", c)
    BY <2>4 DEF Readable, Expected, Written, Changed, Staging
  <2> QED BY <1>3, <2>1, <2>2, <2>3, <2>4, RootChanges DEF Unlink
<1>4. CASE SyncEvidence(p, "syncDropped", "dropClaim")
  <2>1. PowerAlone => Expected("dropClaim", dir[run[p]])
    BY <1>4 DEF SyncEvidence, ReadInv, Expected
  <2>2. "dropClaim" \notin Unsynced
    BY DEF Unsynced
  <2> QED BY <1>4, <2>1, <2>2, RootSynced DEF SyncEvidence
<1>5. CASE Unlink(p, "claim", "dropClaim", "syncEmptied")
  <2>1. pc[p] = "dropClaim" /\ "syncEmptied" \in Unsynced
    BY <1>5 DEF Unlink, Unsynced
  <2>2. ~env.crashes /\ ~env.faults => disk[run[p]] = {dir[run[p]]} /\ PowerAlone
    BY <2>1, OnDisk DEF Unsynced
  <2>3. PowerAlone => dir[run[p]] \cap ({"activation"} \cup Staging) = {}
    BY <2>1 DEF ReadInv, Expected
  <2>4. ASSUME NEW c, c \cap ({"activation"} \cup Staging) = {}
        PROVE  /\ Readable(Changed(c, {"claim"}, {}))
               /\ Expected("syncEmptied", Changed(c, {"claim"}, {}))
               /\ Written("syncEmptied", Changed(c, {"claim"}, {}))
               /\ Written("syncEmptied", c)
    BY <2>4 DEF Readable, Expected, Written, Changed, Staging
  <2> QED BY <1>5, <2>1, <2>2, <2>3, <2>4, RootChanges DEF Unlink
<1>6. CASE SyncEvidence(p, "syncEmptied", "rmdir")
  <2>1. "rmdir" \notin Unsynced /\ Expected("rmdir", dir[run[p]])
    BY DEF Unsynced, Expected
  <2> QED BY <1>6, <2>1, RootSynced DEF SyncEvidence
<1>7. CASE RemoveDirectory(p)
  <2>1. pc[p] = "rmdir" /\ "syncRemoved" \in Unsynced /\ dir[run[p]] \in SUBSET Entries
    BY <1>7, Working DEF RemoveDirectory, Unsynced, NetworkInv, TypeOK
  <2>2. ~env.crashes /\ ~env.faults => disk[run[p]] = {dir[run[p]]}
    BY <2>1, OnDisk DEF Unsynced
  <2>3. ASSUME NEW c \in SUBSET Entries
        PROVE  /\ Readable(Changed(c, Entries, {}))
               /\ Expected("syncRemoved", Changed(c, Entries, {}))
               /\ Written("syncRemoved", Changed(c, Entries, {}))
               /\ Written("syncRemoved", c)
    BY DEF Readable, Expected, Written, Changed, Staging
  <2> QED BY <1>7, <2>1, <2>2, <2>3, RootChanges DEF RemoveDirectory
<1> QED BY <1>1, <1>2, <1>3, <1>4, <1>5, <1>6, <1>7 DEF RemoveStaging, RemoveEvidence

\* The other syncs.
LEMMA SyncsReadable ==
  ASSUME NetworkInv, ReadInv, DiskInv, NEW p \in Procs,
         SyncNetworkDirectory(p) \/ SyncRemoved(p)
  PROVE  ReadInv' /\ DiskInv'
<1>1. CASE SyncNetworkDirectory(p)
  <2>1. PowerAlone => Expected("createClaim", dir[run[p]])
    BY <1>1 DEF SyncNetworkDirectory, ReadInv, Expected
  <2>2. "createClaim" \notin Unsynced
    BY DEF Unsynced
  <2> QED BY <1>1, <2>1, <2>2, RootSynced DEF SyncNetworkDirectory
<1>2. CASE SyncRemoved(p)
  <2>1. op[p] \in {"rollback", "close", "recover"} /\ pc[p] = "syncRemoved"
    BY <1>2 DEF SyncRemoved, NetworkInv, TypeOK, OwnerInv, StepInv
  <2>2. PICK next \in {"session", "failed", "closed", "recovered"} : Go(p, next)
    BY <1>2, <2>1 DEF SyncRemoved, Fail, Succeed
  <2>3. next \notin Unsynced /\ Expected(next, dir[run[p]])
    BY <2>2 DEF Unsynced, Expected
  <2> QED BY <1>2, <2>1, <2>2, <2>3, RootSynced DEF SyncRemoved
<1> QED BY <1>1, <1>2

\* The steps that neither change nor sync a root.
LEMMA ElsewhereReadable ==
  ASSUME NetworkInv, ReadInv, DiskInv, NEW p \in Procs,
         \/ \E r \in Runs : StartRun(p, r) \/ ClaimStale(p, r)
         \/ Finish(p) \/ Crash(p) \/ AcquireHostLock(p) \/ LockTimesOut(p)
         \/ Allocate(p) \/ AllocateFails(p) \/ PublishFails(p)
         \/ Install(p) \/ InstallFails(p) \/ VerifyInstalled(p) \/ BeginRollback(p)
         \/ BeginClose(p) \/ Drained(p) \/ DrainTimesOut(p)
         \/ LoadEvidence(p) \/ LoadNothing(p) \/ LoadFails(p) \/ EvidenceFails(p)
         \/ EndFirewall(p) \/ EndRouting(p) \/ AwaitCascade(p) \/ EndLinks(p)
         \/ ClearConntrack(p) \/ VerifyCleanup(p)
  PROVE  ReadInv' /\ DiskInv'
<1> DEFINE Neutral == {"idle", "awaitLock", "allocate", "mkdir", "session", "drain",
                       "load", "rmdir", "closed", "failed", "recovered"}
<1>1. UNCHANGED run => run' = [run EXCEPT ![p] = run[p]]
  BY DEF NetworkInv, TypeOK
<1>2. \A s \in Neutral : s \notin Unsynced /\ \A c : Expected(s, c)
  BY DEF Unsynced, Expected
<1>3. \A s \in Deleting : s \notin Unsynced /\ \A c : c \cap Staging = {} => Expected(s, c)
  BY DEF Unsynced, Expected
<1>4. CASE (\E r \in Runs : StartRun(p, r) \/ ClaimStale(p, r)) \/ Finish(p) \/ Crash(p)
  <2>1. PICK next \in Neutral : Go(p, next) /\ \E x : run' = [run EXCEPT ![p] = x]
    BY <1>4 DEF StartRun, ClaimStale, Finish, Crash
  <2>2. pc[p] \in Unsynced => env.crashes \/ env.faults
    BY <1>4 DEF StartRun, ClaimStale, Finish, Crash, Unsynced
  <2>3. UNCHANGED <<dir, disk, env>>
    BY <1>4 DEF StartRun, ClaimStale, Finish, Crash
  <2> HIDE DEF Neutral
  <2> QED BY <1>2, <2>1, <2>2, <2>3, RootsKept
<1>5. CASE \/ AcquireHostLock(p) \/ LockTimesOut(p) \/ Allocate(p) \/ AllocateFails(p)
           \/ PublishFails(p) \/ BeginRollback(p) \/ BeginClose(p) \/ Drained(p)
           \/ DrainTimesOut(p) \/ LoadNothing(p) \/ LoadFails(p) \/ EvidenceFails(p)
           \/ InstallFails(p)
  <2>1. PICK next \in Neutral : Go(p, next)
    BY <1>5 DEF AcquireHostLock, LockTimesOut, Allocate, AllocateFails, PublishFails,
       BeginRollback, BeginClose, Drained, DrainTimesOut, LoadNothing, LoadFails,
       EvidenceFails, InstallFails, Fail, Succeed
  <2>2. pc[p] \in Unsynced => env.crashes \/ env.faults
    BY <1>5 DEF AcquireHostLock, LockTimesOut, Allocate, AllocateFails, PublishFails,
       BeginRollback, BeginClose, Drained, DrainTimesOut, LoadNothing, LoadFails,
       EvidenceFails, InstallFails, Unsynced
  <2>3. UNCHANGED <<dir, disk, env, run>>
    BY <1>5 DEF AcquireHostLock, LockTimesOut, Allocate, AllocateFails, PublishFails,
       BeginRollback, BeginClose, Drained, DrainTimesOut, LoadNothing, LoadFails,
       EvidenceFails, InstallFails
  <2> HIDE DEF Neutral
  <2> QED BY <1>1, <1>2, <2>1, <2>2, <2>3, RootsKept
<1>6. CASE Install(p) \/ VerifyInstalled(p)
  <2>1. PICK next \in {"install", "check", "createActivation"} : Go(p, next)
    BY <1>6 DEF Install, VerifyInstalled
  <2>2. pc[p] \in {"install", "check"} /\ UNCHANGED <<dir, disk, env, run>>
    BY <1>6 DEF Install, VerifyInstalled
  <2>3. PowerAlone => Expected(next, dir[run[p]])
    BY <2>2 DEF ReadInv, Expected
  <2>4. pc[p] \notin Unsynced /\ next \notin Unsynced
    BY <2>2 DEF Unsynced
  <2> QED BY <1>1, <2>1, <2>2, <2>3, <2>4, RootsKept
<1>7. CASE LoadEvidence(p)
  <2>1. /\ pc[p] = "load" /\ Go(p, "firewall") /\ UNCHANGED <<dir, disk, env, run>>
        /\ dir[run[p]] \cap Staging = {}
    BY <1>7 DEF LoadEvidence
  <2>2. "load" \notin Unsynced /\ "firewall" \notin Unsynced
    BY DEF Unsynced
  <2>3. Expected("firewall", dir[run[p]])
    BY <1>3, <2>1
  <2> QED BY <1>1, <2>1, <2>2, <2>3, RootsKept
<1>8. CASE EndFirewall(p) \/ EndRouting(p) \/ AwaitCascade(p) \/ EndLinks(p) \/ ClearConntrack(p)
  <2>1. PICK next \in Deleting : Go(p, next)
    BY <1>8 DEF EndFirewall, EndRouting, AwaitCascade, EndLinks, ClearConntrack
  <2>2. pc[p] \in Deleting /\ UNCHANGED <<dir, disk, env, run>>
    BY <1>8 DEF EndFirewall, EndRouting, AwaitCascade, EndLinks, ClearConntrack
  <2>3. PowerAlone => dir[run[p]] \cap Staging = {}
    BY <2>2 DEF ReadInv, Expected
  <2> HIDE DEF Deleting
  <2> QED BY <1>1, <1>3, <2>1, <2>2, <2>3, RootsKept
<1>9. CASE VerifyCleanup(p)
  <2>1. pc[p] = "verify" /\ UNCHANGED <<dir, disk, env, run>> /\ "verify" \notin Unsynced
    BY <1>9 DEF VerifyCleanup, Unsynced
  <2>2. PowerAlone => dir[run[p]] \cap Staging = {}
    BY <2>1 DEF ReadInv, Expected
  <2>3. CASE Fail(p)
    <3>1. PICK next \in Neutral : Go(p, next)
      BY <2>3 DEF Fail
    <3> HIDE DEF Neutral
    <3> QED BY <1>1, <1>2, <2>1, <3>1, RootsKept
  <2>4. CASE Go(p, IF "activated" \in flags[p] THEN "dropActivation" ELSE "dropClaim")
    <3>1. "activated" \in flags[p] <=> "activation" \in dir[run[p]]
      BY <2>1 DEF NetworkInv, ContentsInv
    <3>2. PICK next : next = IF "activated" \in flags[p] THEN "dropActivation" ELSE "dropClaim"
      OBVIOUS
    <3>3. PowerAlone => Expected(next, dir[run[p]])
      BY <2>2, <3>1, <3>2 DEF Expected
    <3>4. next \notin Unsynced
      BY <3>2 DEF Unsynced
    <3> QED BY <1>1, <2>1, <2>4, <3>2, <3>3, <3>4, RootsKept
  <2> QED BY <1>9, <2>3, <2>4 DEF VerifyCleanup
<1> QED BY <1>4, <1>5, <1>6, <1>7, <1>8, <1>9

\* Every step leaves the evidence readable.
LEMMA NextReadable ==
  ASSUME NetworkInv, ReadInv, DiskInv, [Next]_vars
  PROVE  ReadInv' /\ DiskInv'
<1>1. ASSUME NEW p \in Procs, Opening(p)
      PROVE  ReadInv' /\ DiskInv'
  BY <1>1, PublishingReadable, SyncsReadable, ElsewhereReadable DEF Opening
<1>2. ASSUME NEW p \in Procs, DeleteFirewall(p) \/ DeleteRule(p) \/ DeleteRoute(p)
                              \/ DeleteLink(p) \/ DeleteFails(p)
      PROVE  ReadInv' /\ DiskInv'
  <2>1. UNCHANGED <<dir, disk, env, pc, run>>
    BY <1>2 DEF DeleteFirewall, DeleteRule, DeleteRoute, DeleteLink, DeleteFails, Deleted
  <2> QED BY <2>1, RootsUntouched
<1>3. ASSUME NEW p \in Procs, Cleaning(p)
      PROVE  ReadInv' /\ DiskInv'
  BY <1>2, <1>3, RemovingReadable, SyncsReadable, ElsewhereReadable DEF Cleaning
<1>4. ASSUME NEW p \in Procs, Work(p)
      PROVE  ReadInv' /\ DiskInv'
  BY <1>1, <1>3, <1>4, ElsewhereReadable DEF Work
<1>5. ASSUME NEW p \in Procs, \/ \E r \in Runs : StartRun(p, r) \/ ClaimStale(p, r)
                              \/ Crash(p) \/ BeginClose(p)
      PROVE  ReadInv' /\ DiskInv'
  BY <1>5, ElsewhereReadable
<1>6. ASSUME \/ \E p \in Procs : OpenNamespace(p) \/ CloseLease(p)
             \/ \E r \in Runs : Transmit(r) \/ LinkVanishes(r) \/ RouteVanishes(r)
             \/ ForeignRule \/ UNCHANGED vars
      PROVE  ReadInv' /\ DiskInv'
  <2>1. UNCHANGED <<dir, disk, env, pc, run>>
    BY <1>6 DEF OpenNamespace, CloseLease, Transmit, LinkVanishes, RouteVanishes,
       ForeignRule, vars
  <2> QED BY <2>1, RootsUntouched
<1>7. CASE LosePower
  BY <1>7, LosePowerReadable
<1> QED BY <1>4, <1>5, <1>6, <1>7 DEF Next

\* Unless power is lost in an environment with deaths or faults, every root can
\* be read at every step; and where only power is lost, so can whatever the disk
\* may hold of it.
THEOREM EvidenceInvariant == Spec => [](ReadInv /\ DiskInv)
<1>1. Init => ReadInv /\ DiskInv
  <2> SUFFICES ASSUME Init
               PROVE  ReadInv /\ DiskInv
    OBVIOUS
  <2>1. Readable({}) /\ (\A c : Expected("idle", c))
    BY DEF Readable, Expected, Staging
  <2> QED BY <2>1 DEF Init, ReadInv, DiskInv
<1>2. NetworkInv /\ ReadInv /\ DiskInv /\ [Next]_vars => ReadInv' /\ DiskInv'
  BY NextReadable
<1> QED BY <1>1, <1>2, NetworkInvariant, PTL DEF Spec

\* What is in the kernel has its claim in the root, whoever died or failed when;
\* and a loss of power leaves nothing that inspectEvidenceDirectory rejects.
THEOREM EvidenceStaysSufficient == Spec => []EvidenceSuffices
<1>1. NetworkInv /\ DiskInv => EvidenceSuffices
  BY DEF NetworkInv, DiskInv, EvidenceSuffices, EvidenceReadable
<1> QED BY <1>1, NetworkInvariant, EvidenceInvariant, PTL

-----------------------------------------------------------------------------
(* What a recovery achieves                                                *)

\* Every object is a link, routing or firewall, and a policy rule is neither
\* a link nor a route.
LEMMA KindsApart ==
  /\ Objects \subseteq Links \cup WeakFIB \cup Firewall
  /\ \A o \in PolicyRules : o \notin Links /\ o \notin Routes
  /\ WeakFIB = Routes \cup PolicyRules
  /\ \A l \in Links : RouteOf(l) \in Routes
<1>1. ASSUME NEW o \in Objects, o \notin Links, o \notin Firewall
      PROVE  o \in WeakFIB
  <2> DEFINE l == ((o - Transfers - 1) \div 3) + 1
  <2>1. o \in Nat /\ o > Transfers /\ o <= 4 * Transfers
    BY <1>1, ConstantFacts DEF Objects, Links, Firewall
  <2>2. l \in 1..Transfers
    BY <2>1, ConstantFacts
  <2>3. o \in {RouteOf(l), RouteOf(l) + 1, RouteOf(l) + 2}
    BY <2>1, ConstantFacts DEF RouteOf
  <2> HIDE DEF l
  <2> QED BY <2>2, <2>3 DEF WeakFIB, Routes, PolicyRules, Links
<1>2. ASSUME NEW l \in Links
      PROVE  /\ RouteOf(l) + 1 \notin Links /\ RouteOf(l) + 2 \notin Links
             /\ RouteOf(l) + 1 \notin Routes /\ RouteOf(l) + 2 \notin Routes
  BY ConstantFacts DEF Links, Routes, RouteOf
<1>3. \A o \in PolicyRules : o \notin Links /\ o \notin Routes
  BY <1>2 DEF PolicyRules
<1> QED BY <1>1, <1>3 DEF WeakFIB, Routes

\* The rest of the host does not undo what a recovery has achieved.
LEMMA RecoveringKept ==
  ASSUME NEW q \in Procs, Recovering(q), env' = env,
         op'[q] = op[q], pc'[q] = pc[q], run'[q] = run[q], left'[q] = left[q],
         flags'[q] = flags[q],
         pc[q] # "idle" =>
           /\ objects'[run[q]] \subseteq objects[run[q]]
           /\ objects[run[q]] \cap PolicyRules \subseteq objects'[run[q]]
           /\ "activation" \in dir'[run[q]] => "activation" \in dir[run[q]]
           /\ pc[q] = "verify" /\ run[q] \in traffic' => run[q] \in traffic
  PROVE  Recovering(q)'
<1>1. PowerAlone' <=> PowerAlone
  BY DEF PowerAlone
<1>2. CASE pc[q] = "idle"
  BY <1>1, <1>2 DEF Recovering
<1>3. CASE pc[q] # "idle"
  <2>1. /\ objects'[run[q]] \subseteq objects[run[q]]
        /\ objects[run[q]] \cap PolicyRules \subseteq objects'[run[q]]
        /\ "activation" \in dir'[run[q]] => "activation" \in dir[run[q]]
        /\ pc[q] = "verify" /\ run[q] \in traffic' => run[q] \in traffic
    BY <1>3
  <2> QED BY <1>1, <2>1 DEF Recovering
<1> QED BY <1>2, <1>3

\* A step of p touches nobody else's operation, and no run but its own.
Elsewhere(p) ==
  /\ \A q \in Procs \ {p} : /\ op'[q] = op[q] /\ pc'[q] = pc[q] /\ run'[q] = run[q]
                            /\ left'[q] = left[q] /\ flags'[q] = flags[q]
  /\ \A r \in Runs \ {run[p]} : objects'[r] = objects[r] /\ dir'[r] = dir[r]
  /\ traffic' \subseteq traffic /\ UNCHANGED <<env, foreign>>

\* A step of p keeps what the others have achieved.
LEMMA OthersRecover ==
  ASSUME NetworkInv, RecoverInv, NEW p \in Procs, Elsewhere(p), Recovering(p)',
         pc'[p] = "idle" => flags'[p] = {}
  PROVE  RecoverInv'
<1>1. ASSUME NEW q \in Procs, q # p
      PROVE  Recovering(q)'
  <2>1. pc[q] # "idle" => run[q] \in Runs /\ run[q] # run[p]
    BY <1>1, Working
  <2>2. pc[q] # "idle" => objects'[run[q]] = objects[run[q]] /\ dir'[run[q]] = dir[run[q]]
    BY <2>1 DEF Elsewhere
  <2>3. Recovering(q)
    BY DEF RecoverInv
  <2> QED BY <1>1, <2>2, <2>3, RecoveringKept DEF Elsewhere
<1>2. (foreign \subseteq env.foreign)'
  BY DEF RecoverInv, Elsewhere
<1>3. \A q \in Procs : pc'[q] = "idle" => flags'[q] = {}
  BY DEF RecoverInv, Elsewhere
<1> QED BY <1>1, <1>2, <1>3 DEF RecoverInv

\* What every step of a process leaves alone.
LEMMA StepsAreLocal ==
  ASSUME NetworkInv, NEW p \in Procs,
         \/ \E r \in Runs : StartRun(p, r) \/ ClaimStale(p, r)
         \/ Work(p) \/ Crash(p) \/ OpenNamespace(p) \/ CloseLease(p) \/ BeginClose(p)
  PROVE  Elsewhere(p)
<1>1. CASE \E r \in Runs : StartRun(p, r) \/ ClaimStale(p, r)
  BY <1>1 DEF NetworkInv, TypeOK, Elsewhere, StartRun, ClaimStale
<1>2. CASE Finish(p) \/ Crash(p)
  BY <1>2 DEF NetworkInv, TypeOK, Elsewhere, Finish, Crash
<1>3. CASE AcquireHostLock(p) \/ LockTimesOut(p) \/ Drained(p) \/ DrainTimesOut(p)
  BY <1>3 DEF NetworkInv, TypeOK, Elsewhere, AcquireHostLock, LockTimesOut, Drained,
     DrainTimesOut, Fail
<1>4. CASE OpenNamespace(p) \/ CloseLease(p) \/ BeginClose(p)
  BY <1>4 DEF NetworkInv, TypeOK, Elsewhere, OpenNamespace, CloseLease, BeginClose
<1>5. CASE Opening(p)
  <2>1. CASE Allocate(p) \/ AllocateFails(p) \/ PublishFails(p) \/ VerifyInstalled(p) \/ BeginRollback(p)
    BY <2>1 DEF NetworkInv, TypeOK, Elsewhere, Allocate, AllocateFails, PublishFails,
       VerifyInstalled, BeginRollback, Fail
  <2>2. CASE Install(p) \/ InstallFails(p)
    BY <2>2 DEF NetworkInv, TypeOK, Elsewhere, Install, InstallFails
  <2>3. CASE MakeNetworkDirectory(p) \/ SyncNetworkDirectory(p)
    BY <2>3 DEF NetworkInv, TypeOK, Elsewhere, MakeNetworkDirectory, SyncNetworkDirectory,
       Change, Sync
  <2>4. CASE PublishClaim(p) \/ PublishActivation(p)
    BY <2>4 DEF NetworkInv, TypeOK, Elsewhere, PublishClaim, PublishActivation,
       CreateEvidence, RenameEvidence, SyncEvidence, Change, Sync
  <2> QED BY <1>5, <2>1, <2>2, <2>3, <2>4 DEF Opening
<1>6. CASE Cleaning(p)
  <2>1. CASE RemoveStaging(p) \/ RemoveEvidence(p) \/ RemoveDirectory(p)
    BY <2>1 DEF NetworkInv, TypeOK, Elsewhere, RemoveStaging, RemoveEvidence,
       RemoveDirectory, Unlink, SyncEvidence, Change, Sync
  <2>2. CASE LoadEvidence(p) \/ LoadNothing(p) \/ LoadFails(p) \/ EvidenceFails(p)
    BY <2>2 DEF NetworkInv, TypeOK, Elsewhere, LoadEvidence, LoadNothing, LoadFails,
       EvidenceFails, Fail, Succeed
  <2>3. CASE DeleteFirewall(p) \/ DeleteRule(p) \/ DeleteRoute(p) \/ DeleteLink(p)
    BY <2>3 DEF NetworkInv, TypeOK, Elsewhere, DeleteFirewall, DeleteRule, DeleteRoute,
       DeleteLink, Deleted
  <2>4. CASE DeleteFails(p) \/ EndFirewall(p) \/ EndRouting(p) \/ AwaitCascade(p)
    BY <2>4 DEF NetworkInv, TypeOK, Elsewhere, DeleteFails, EndFirewall, EndRouting,
       AwaitCascade
  <2>5. CASE EndLinks(p) \/ ClearConntrack(p) \/ VerifyCleanup(p) \/ SyncRemoved(p)
    BY <2>5 DEF NetworkInv, TypeOK, Elsewhere, EndLinks, ClearConntrack, VerifyCleanup,
       SyncRemoved, Fail, Succeed
  <2> QED BY <1>6, <2>1, <2>2, <2>3, <2>4, <2>5 DEF Cleaning
<1> QED BY <1>1, <1>2, <1>3, <1>4, <1>5, <1>6 DEF Work

\* A recovery begins to load.
LEMMA AcquireRecovers ==
  ASSUME NetworkInv, ReadInv, RecoverInv, NEW p \in Procs, AcquireHostLock(p),
         op[p] = "recover", "mishap" \notin flags'[p], env.foreign = {}, PowerAlone
  PROVE  Recovering(p)'
<1>0. run[p] \in Runs /\ Recovering(p) /\ foreign = {}
  BY Working DEF RecoverInv, AcquireHostLock
<1>1. /\ pc[p] = "awaitLock" /\ pc'[p] = "load" /\ run'[p] = run[p]
      /\ flags'[p] = flags[p] /\ op'[p] = op[p]
  BY <1>0 DEF NetworkInv, TypeOK, AcquireHostLock
<1> QED BY <1>0, <1>1 DEF Recovering

\* Changes of the evidence.
LEMMA RemovalRecovers ==
  ASSUME NetworkInv, ReadInv, RecoverInv, NEW p \in Procs,
         RemoveStaging(p) \/ RemoveEvidence(p) \/ RemoveDirectory(p),
         op[p] = "recover", "mishap" \notin flags'[p], env.foreign = {}, PowerAlone
  PROVE  Recovering(p)'
<1>0. run[p] \in Runs /\ Recovering(p) /\ foreign = {}
  BY Working DEF RecoverInv, RemoveStaging, RemoveEvidence, RemoveDirectory, Unlink,
     SyncEvidence, Change
<1>1. /\ pc[p] \in Dropping \cup {"load", "syncStaging"} /\ pc'[p] \in Dropping \cup {"load", "syncStaging"}
      /\ flags'[p] = flags[p] /\ run'[p] = run[p] /\ op'[p] = op[p]
  BY <1>0 DEF NetworkInv, TypeOK, RemoveStaging, RemoveEvidence, RemoveDirectory, Unlink,
     SyncEvidence, Change
<1> QED BY <1>0, <1>1 DEF Recovering

\* A recovery that has no error returns without one.
LEMMA SyncRemovedRecovers ==
  ASSUME NetworkInv, ReadInv, RecoverInv, NEW p \in Procs, SyncRemoved(p),
         op[p] = "recover", "mishap" \notin flags'[p], env.foreign = {}, PowerAlone
  PROVE  Recovering(p)'
<1>0. run[p] \in Runs /\ Recovering(p) /\ foreign = {}
  BY Working DEF RecoverInv, SyncRemoved, Fail, Succeed
<1>1. /\ pc[p] = "syncRemoved" /\ flags'[p] = flags[p] /\ run'[p] = run[p] /\ op'[p] = op[p]
      /\ pc'[p] = IF "error" \in flags[p] THEN "failed" ELSE "recovered"
  BY <1>0 DEF NetworkInv, TypeOK, SyncRemoved, Fail, Succeed
<1> QED BY <1>0, <1>1 DEF Recovering

\* What is to be deleted is the whole firewall; the evidence can be read.
LEMMA LoadRecovers ==
  ASSUME NetworkInv, ReadInv, RecoverInv, NEW p \in Procs,
         LoadEvidence(p) \/ LoadNothing(p) \/ LoadFails(p),
         op[p] = "recover", "mishap" \notin flags'[p], env.foreign = {}, PowerAlone
  PROVE  Recovering(p)'
<1>0. run[p] \in Runs /\ Recovering(p) /\ foreign = {}
  BY Working DEF RecoverInv, LoadEvidence, LoadNothing, LoadFails, Succeed, Targets
<1>a. Readable(dir[run[p]])
  BY <1>0 DEF ReadInv
<1>1. /\ pc[p] = "load" /\ run'[p] = run[p] /\ op'[p] = op[p]
      /\ \/ /\ pc'[p] = "firewall" /\ left'[p] = Firewall
            /\ flags'[p] = flags[p] \/ flags'[p] = flags[p] \cup {"activated"}
         \/ pc'[p] \in {"rmdir", "recovered"} /\ flags'[p] = flags[p]
  <2>1. CASE LoadEvidence(p)
    <3>1. /\ flags'[p] = flags[p] \cup {f \in {"activated"} : "activation" \in dir[run[p]]}
          /\ pc[p] = "load" /\ pc'[p] = "firewall" /\ run' = run /\ op' = op
          /\ left'[p] = Firewall
      BY <2>1 DEF NetworkInv, TypeOK, LoadEvidence, Targets
    <3>2. \/ {f \in {"activated"} : "activation" \in dir[run[p]]} = {}
          \/ {f \in {"activated"} : "activation" \in dir[run[p]]} = {"activated"}
      OBVIOUS
    <3> QED BY <3>1, <3>2
  <2>2. CASE LoadNothing(p)
    <3>1. {f \in {"error"} : op[p] # "recover"} = {}
      OBVIOUS
    <3>2. flags'[p] = flags[p] /\ pc[p] = "load" /\ run' = run /\ op' = op
      BY <2>2, <3>1 DEF NetworkInv, TypeOK, LoadNothing
    <3>3. pc'[p] \in {"rmdir", "recovered"}
      BY <2>2 DEF NetworkInv, TypeOK, LoadNothing, Succeed
    <3> QED BY <3>2, <3>3
  <2>3. ~LoadFails(p)
    BY <1>a DEF LoadFails
  <2> QED BY <2>1, <2>2, <2>3
<1> QED BY <1>0, <1>1 DEF Recovering

\* A part of the firewall is deleted.
LEMMA DeleteFirewallRecovers ==
  ASSUME NetworkInv, ReadInv, RecoverInv, NEW p \in Procs, DeleteFirewall(p),
         op[p] = "recover", "mishap" \notin flags'[p], env.foreign = {}, PowerAlone
  PROVE  Recovering(p)'
<1>0. run[p] \in Runs /\ Recovering(p) /\ foreign = {}
  BY Working DEF RecoverInv, DeleteFirewall, Deleted
<1>1. /\ pc[p] = "firewall" /\ pc'[p] = pc[p] /\ run'[p] = run[p] /\ op'[p] = op[p] /\ flags'[p] = flags[p]
      /\ \E o : left'[p] = left[p] \ {o} /\ objects'[run[p]] = objects[run[p]] \ {o}
  BY <1>0 DEF NetworkInv, TypeOK, DeleteFirewall, Deleted
<1> QED BY <1>0, <1>1 DEF Recovering

\* A policy rule is deleted: no other software has one.
LEMMA DeleteRuleRecovers ==
  ASSUME NetworkInv, ReadInv, RecoverInv, NEW p \in Procs, DeleteRule(p),
         op[p] = "recover", "mishap" \notin flags'[p], env.foreign = {}, PowerAlone
  PROVE  Recovering(p)'
<1>0. run[p] \in Runs /\ Recovering(p) /\ foreign = {}
  BY Working DEF RecoverInv, DeleteRule, Deleted
<1>1. /\ pc[p] = "fib" /\ pc'[p] = pc[p] /\ run'[p] = run[p] /\ op'[p] = op[p] /\ flags'[p] = flags[p]
      /\ left[p] # {}
      /\ \E o : left'[p] = left[p] \ {o} /\ objects'[run[p]] = objects[run[p]] \ {o}
  BY <1>0, ZenonT(40) DEF NetworkInv, TypeOK, DeleteRule, Deleted
<1> QED BY <1>0, <1>1 DEF Recovering

\* A route is deleted, or waited for.
LEMMA DeleteRouteRecovers ==
  ASSUME NetworkInv, ReadInv, RecoverInv, NEW p \in Procs, DeleteRoute(p),
         op[p] = "recover", "mishap" \notin flags'[p], env.foreign = {}, PowerAlone
  PROVE  Recovering(p)'
<1>0. run[p] \in Runs /\ Recovering(p) /\ foreign = {}
  BY Working DEF RecoverInv, DeleteRoute, Deleted
<1>1. /\ pc[p] = "fib" /\ pc'[p] = pc[p] /\ run'[p] = run[p] /\ op'[p] = op[p]
      /\ left[p] # {}
      /\ \E o : left'[p] = left[p] \ {o} /\ \/ /\ flags'[p] = flags[p]
                                               /\ objects'[run[p]] = objects[run[p]] \ {o}
                                            \/ /\ flags'[p] = flags[p] \cup {"pending"}
                                               /\ objects'[run[p]] \subseteq objects[run[p]]
  <2> DEFINE o == Max(left[p])
  <2>1. /\ pc[p] = "fib" /\ left[p] # {}
        /\ \/ Deleted(p, o, {}) /\ Note(p, {"pending"})
           \/ Deleted(p, o, {o}) /\ UNCHANGED flags
           \/ Deleted(p, o, {o} \cup {l \in Links : RouteOf(l) = o}) /\ Note(p, {"pending"})
    BY DEF DeleteRoute
  <2>2. ASSUME NEW Gone, Deleted(p, o, Gone)
        PROVE  /\ pc'[p] = pc[p] /\ run'[p] = run[p] /\ op'[p] = op[p]
               /\ left'[p] = left[p] \ {o} /\ objects'[run[p]] = objects[run[p]] \ Gone
    BY <1>0, <2>2 DEF Deleted, NetworkInv, TypeOK
  <2>3. Note(p, {"pending"}) => flags'[p] = flags[p] \cup {"pending"}
    BY DEF NetworkInv, TypeOK
  <2> HIDE DEF o, Note
  <2> QED BY <2>1, <2>2, <2>3
<1> QED BY <1>0, <1>1 DEF Recovering

\* A link is deleted.
LEMMA DeleteLinkRecovers ==
  ASSUME NetworkInv, ReadInv, RecoverInv, NEW p \in Procs, DeleteLink(p),
         op[p] = "recover", "mishap" \notin flags'[p], env.foreign = {}, PowerAlone
  PROVE  Recovering(p)'
<1>0. run[p] \in Runs /\ Recovering(p) /\ foreign = {}
  BY Working DEF RecoverInv, DeleteLink, Deleted
<1>1. /\ pc[p] = "links" /\ pc'[p] = pc[p] /\ run'[p] = run[p] /\ op'[p] = op[p] /\ flags'[p] = flags[p]
      /\ \E o : /\ left'[p] = left[p] \ {o} /\ objects'[run[p]] \subseteq objects[run[p]]
                /\ o \notin objects'[run[p]]
  BY <1>0 DEF NetworkInv, TypeOK, DeleteLink, Deleted
<1> QED BY <1>0, <1>1 DEF Recovering

\* The firewall is gone; routing is next, if it was activated.
LEMMA EndFirewallRecovers ==
  ASSUME NetworkInv, ReadInv, RecoverInv, NEW p \in Procs, EndFirewall(p),
         op[p] = "recover", "mishap" \notin flags'[p], env.foreign = {}, PowerAlone
  PROVE  Recovering(p)'
<1>0. run[p] \in Runs /\ Recovering(p) /\ foreign = {}
  BY Working DEF RecoverInv, EndFirewall, Targets
<1>1. /\ pc[p] = "firewall" /\ left[p] = {} /\ pc'[p] = "fib" /\ run'[p] = run[p] /\ op'[p] = op[p]
      /\ flags'[p] = flags[p] /\ objects'[run[p]] = objects[run[p]]
      /\ left'[p] = IF "activated" \in flags[p] THEN WeakFIB ELSE {}
  BY <1>0 DEF NetworkInv, TypeOK, EndFirewall, Targets
<1> QED BY <1>0, <1>1 DEF Recovering

\* Routing is gone, or its routes are waited for.
LEMMA EndRoutingRecovers ==
  ASSUME NetworkInv, ReadInv, RecoverInv, NEW p \in Procs, EndRouting(p),
         op[p] = "recover", "mishap" \notin flags'[p], env.foreign = {}, PowerAlone
  PROVE  Recovering(p)'
<1>0. run[p] \in Runs /\ Recovering(p) /\ foreign = {}
  BY Working DEF RecoverInv, EndRouting, Targets
<1>1. /\ pc[p] = "fib" /\ left[p] = {} /\ run'[p] = run[p] /\ op'[p] = op[p]
      /\ objects'[run[p]] = objects[run[p]] /\ flags'[p] = flags[p]
      /\ \/ pc'[p] = "awaitCascade" /\ "pending" \in flags[p]
         \/ pc'[p] = "links" /\ left'[p] = Links /\ ("pending" \in flags[p] => "fib" \in flags[p])
  BY <1>0 DEF NetworkInv, TypeOK, EndRouting, Targets
<1> QED BY <1>0, <1>1 DEF Recovering

\* The kernel has removed the routes: everything is tried again.
LEMMA AwaitCascadeRecovers ==
  ASSUME NetworkInv, ReadInv, RecoverInv, NEW p \in Procs, AwaitCascade(p),
         op[p] = "recover", "mishap" \notin flags'[p], env.foreign = {}, PowerAlone
  PROVE  Recovering(p)'
<1>0. run[p] \in Runs /\ Recovering(p) /\ foreign = {}
  BY Working DEF RecoverInv, AwaitCascade
<1>1. /\ pc[p] = "awaitCascade" /\ run'[p] = run[p] /\ op'[p] = op[p] /\ pc'[p] = "fib"
      /\ objects'[run[p]] = objects[run[p]] /\ flags'[p] = flags[p] \ {"pending"}
      /\ left'[p] = WeakFIB
  BY <1>0 DEF NetworkInv, TypeOK, AwaitCascade
<1> QED BY <1>0, <1>1 DEF Recovering

\* The links are gone.
LEMMA EndLinksRecovers ==
  ASSUME NetworkInv, ReadInv, RecoverInv, NEW p \in Procs, EndLinks(p),
         op[p] = "recover", "mishap" \notin flags'[p], env.foreign = {}, PowerAlone
  PROVE  Recovering(p)'
<1>0. run[p] \in Runs /\ Recovering(p) /\ foreign = {}
  BY Working DEF RecoverInv, EndLinks
<1>1. /\ pc[p] = "links" /\ left[p] = {} /\ run'[p] = run[p] /\ op'[p] = op[p]
      /\ objects'[run[p]] = objects[run[p]] /\ flags'[p] = flags[p]
      /\ pc'[p] = IF "activated" \in flags[p] THEN "conntrack" ELSE "verify"
  BY <1>0 DEF NetworkInv, TypeOK, EndLinks
<1> QED BY <1>0, <1>1 DEF Recovering

\* The tracked connections are gone.
LEMMA ClearConntrackRecovers ==
  ASSUME NetworkInv, ReadInv, RecoverInv, NEW p \in Procs, ClearConntrack(p),
         op[p] = "recover", "mishap" \notin flags'[p], env.foreign = {}, PowerAlone
  PROVE  Recovering(p)'
<1>0. run[p] \in Runs /\ Recovering(p) /\ foreign = {}
  BY Working DEF RecoverInv, ClearConntrack
<1>1. /\ pc[p] = "conntrack" /\ pc'[p] = "verify" /\ run'[p] = run[p] /\ op'[p] = op[p]
      /\ objects'[run[p]] = objects[run[p]] /\ flags'[p] = flags[p] /\ run[p] \notin traffic'
  BY <1>0 DEF NetworkInv, TypeOK, ClearConntrack
<1> QED BY <1>0, <1>1 DEF Recovering

\* Something is left only if policy rules were installed and not activated.
LEMMA VerifyCleanupRecovers ==
  ASSUME NetworkInv, ReadInv, RecoverInv, NEW p \in Procs, VerifyCleanup(p),
         op[p] = "recover", "mishap" \notin flags'[p], env.foreign = {}, PowerAlone
  PROVE  Recovering(p)'
<1>0. run[p] \in Runs /\ Recovering(p) /\ foreign = {}
  BY Working DEF RecoverInv, VerifyCleanup
<1>1. /\ pc[p] = "verify" /\ run'[p] = run[p] /\ op'[p] = op[p]
      /\ objects'[run[p]] = objects[run[p]] /\ dir'[run[p]] = dir[run[p]]
  BY DEF VerifyCleanup
<1>2. /\ flags[p] \cap {"error", "fib"} = {} /\ "pending" \notin flags[p]
      /\ objects[run[p]] \cap Firewall = {} /\ objects[run[p]] \cap Links = {}
      /\ "activated" \in flags[p] => objects[run[p]] \cap WeakFIB = {} /\ run[p] \notin traffic
  <2>1. "mishap" \notin flags[p]
    BY DEF NetworkInv, TypeOK, VerifyCleanup
  <2> QED BY <1>0, <1>1, <2>1 DEF Recovering
<1>3. objects[run[p]] \subseteq Objects
  BY <1>0 DEF NetworkInv, TypeOK
<1>4. CASE /\ pc'[p] \in {"dropActivation", "dropClaim"}
           /\ flags'[p] = flags[p]
  BY <1>0, <1>1, <1>2, <1>4 DEF Recovering
<1>5. CASE /\ pc'[p] = "failed" /\ flags'[p] \subseteq flags[p] \cup {"error", "mishap"}
           /\ Dangling(run[p]) = {}
           /\ objects[run[p]] # {}
  <2>1. "activated" \notin flags[p] /\ objects[run[p]] \cap Links = {}
    BY <1>2, <1>3, <1>5, KindsApart
  <2>2. "activation" \notin dir[run[p]]
    BY <1>1, <2>1 DEF NetworkInv, ContentsInv
  <2>3. \A l \in Links : RouteOf(l) \notin objects[run[p]]
    BY <1>5, <2>1 DEF Dangling
  <2>4. objects[run[p]] \cap Routes = {}
    BY <2>3 DEF Routes
  <2>5. objects[run[p]] \cap PolicyRules # {}
    BY <1>2, <1>3, <1>5, <2>4, KindsApart
  <2> QED BY <1>0, <1>1, <1>2, <1>5, <2>2, <2>5 DEF Recovering
<1>6. slot[run[p]] \notin foreign
  BY <1>0
<1>7. CASE Fail(p)
  <2>1. pc'[p] = "failed"
    BY <1>7 DEF NetworkInv, TypeOK, Fail
  <2>2. CASE UNCHANGED flags
    BY <1>0, <1>1, <1>2, <1>7, <2>1, <2>2 DEF VerifyCleanup, Fail, NetworkInv, TypeOK
  <2> QED BY <1>2, <1>5, <1>6, <2>1 DEF VerifyCleanup, NetworkInv, TypeOK
<1>8. CASE Go(p,
   IF "activated" \in flags[p] THEN "dropActivation" ELSE "dropClaim") /\ UNCHANGED flags
  <2>1. pc'[p] \in {"dropActivation", "dropClaim"} /\ flags'[p] = flags[p]
    BY <1>8 DEF NetworkInv, TypeOK
  <2> QED BY <1>4, <2>1
<1> QED BY <1>7, <1>8 DEF VerifyCleanup

\* A recovery goes on.
LEMMA OwnStepRecovers ==
  ASSUME NetworkInv, ReadInv, RecoverInv, NEW p \in Procs,
         op[p] = "recover", op'[p] = "recover", "mishap" \notin flags'[p],
         env.foreign = {}, PowerAlone,
         \/ \E r \in Runs : StartRun(p, r)
         \/ Work(p) \/ Crash(p) \/ OpenNamespace(p) \/ CloseLease(p) \/ BeginClose(p)
  PROVE  Recovering(p)'
<1>1. pc[p] \notin OpenSteps \cup {"session", "drain"}
  BY DEF NetworkInv, StepInv
<1>2. (\A r \in Runs : ~StartRun(p, r)) /\ ~Crash(p) /\ ~Finish(p)
  BY DEF StartRun, Crash, Finish, NetworkInv, TypeOK
<1>3. ~Opening(p)
  BY <1>1 DEF Opening, Allocate, AllocateFails, MakeNetworkDirectory, SyncNetworkDirectory,
     PublishClaim, CreateEvidence, RenameEvidence, SyncEvidence, PublishFails, Install,
     InstallFails, VerifyInstalled, PublishActivation, BeginRollback
<1>4. ~OpenNamespace(p) /\ ~CloseLease(p) /\ ~BeginClose(p) /\ ~Drained(p) /\ ~DrainTimesOut(p)
  BY <1>1 DEF OpenNamespace, CloseLease, BeginClose, Drained, DrainTimesOut
<1>5. ~LockTimesOut(p) /\ ~EvidenceFails(p) /\ ~DeleteFails(p)
  BY DEF LockTimesOut, EvidenceFails, DeleteFails, NetworkInv, TypeOK
<1>6. AcquireHostLock(p) \/ Cleaning(p)
  BY <1>2, <1>3, <1>4, <1>5 DEF Work
<1>7. CASE AcquireHostLock(p)
  BY <1>7, AcquireRecovers
<1>8. CASE Cleaning(p)
  BY <1>5, <1>8, RemovalRecovers, SyncRemovedRecovers, LoadRecovers, DeleteFirewallRecovers,
     DeleteRuleRecovers, DeleteRouteRecovers, DeleteLinkRecovers, EndFirewallRecovers,
     EndRoutingRecovers, AwaitCascadeRecovers, EndLinksRecovers, ClearConntrackRecovers,
     VerifyCleanupRecovers
  DEF Cleaning
<1> QED BY <1>6, <1>7, <1>8

\* A process becomes idle only with its operation's end, and forgets it then; only
\* ClaimStale begins a recovery.
LEMMA BeginningsAndEnds ==
  ASSUME NetworkInv, RecoverInv, NEW p \in Procs,
         \/ \E r \in Runs : StartRun(p, r) \/ ClaimStale(p, r)
         \/ Work(p) \/ Crash(p) \/ OpenNamespace(p) \/ CloseLease(p) \/ BeginClose(p)
  PROVE  /\ pc'[p] = "idle" => flags'[p] = {}
         /\ op'[p] = "recover" => op[p] = "recover" \/ \E r \in Runs : ClaimStale(p, r)
<1>1. CASE \E r \in Runs : StartRun(p, r) \/ ClaimStale(p, r)
  BY <1>1 DEF NetworkInv, TypeOK, StartRun, ClaimStale
<1>2. CASE Finish(p) \/ Crash(p)
  BY <1>2 DEF NetworkInv, TypeOK, Finish, Crash
<1>3. CASE AcquireHostLock(p) \/ LockTimesOut(p) \/ Drained(p) \/ DrainTimesOut(p)
  BY <1>3 DEF NetworkInv, TypeOK, AcquireHostLock, LockTimesOut, Drained, DrainTimesOut,
     Fail
<1>4. CASE OpenNamespace(p) \/ CloseLease(p) \/ BeginClose(p)
  BY <1>4 DEF NetworkInv, TypeOK, OpenNamespace, CloseLease, BeginClose
<1>5. CASE Opening(p)
  <2>1. CASE Allocate(p) \/ AllocateFails(p) \/ PublishFails(p) \/ VerifyInstalled(p) \/ BeginRollback(p)
    BY <2>1 DEF NetworkInv, TypeOK, Allocate, AllocateFails, PublishFails,
       VerifyInstalled, BeginRollback, Fail
  <2>2. CASE Install(p) \/ InstallFails(p)
    BY <2>2 DEF NetworkInv, TypeOK, Install, InstallFails
  <2>3. CASE MakeNetworkDirectory(p) \/ SyncNetworkDirectory(p)
    BY <2>3 DEF NetworkInv, TypeOK, MakeNetworkDirectory, SyncNetworkDirectory
  <2>4. CASE PublishClaim(p) \/ PublishActivation(p)
    BY <2>4 DEF NetworkInv, TypeOK, PublishClaim, PublishActivation, CreateEvidence,
       RenameEvidence, SyncEvidence
  <2> QED BY <1>5, <2>1, <2>2, <2>3, <2>4 DEF Opening
<1>6. CASE Cleaning(p)
  <2>1. CASE RemoveStaging(p) \/ RemoveEvidence(p) \/ RemoveDirectory(p)
    BY <2>1 DEF NetworkInv, TypeOK, RemoveStaging, RemoveEvidence, RemoveDirectory, Unlink,
       SyncEvidence
  <2>2. CASE LoadEvidence(p) \/ LoadFails(p) \/ EvidenceFails(p)
    BY <2>2 DEF NetworkInv, TypeOK, LoadEvidence, LoadFails, EvidenceFails, Fail
  <2>3. CASE DeleteFirewall(p) \/ DeleteRule(p) \/ DeleteRoute(p) \/ DeleteLink(p) \/ DeleteFails(p)
    BY <2>3 DEF DeleteFirewall, DeleteRule, DeleteRoute, DeleteLink, DeleteFails, Deleted
  <2>4. CASE EndFirewall(p) \/ EndRouting(p) \/ AwaitCascade(p)
    BY <2>4 DEF NetworkInv, TypeOK, EndFirewall, EndRouting, AwaitCascade
  <2>5. CASE EndLinks(p) \/ ClearConntrack(p) \/ VerifyCleanup(p)
    BY <2>5 DEF NetworkInv, TypeOK, EndLinks, ClearConntrack, VerifyCleanup, Fail
  <2>6. CASE SyncRemoved(p) \/ LoadNothing(p)
    <3>1. op[p] \in {"rollback", "close", "recover"} /\ op' = op
      BY <2>6 DEF SyncRemoved, LoadNothing, NetworkInv, TypeOK, OwnerInv, StepInv
    <3> QED BY <2>6, <3>1 DEF SyncRemoved, LoadNothing, Fail, Succeed, NetworkInv, TypeOK
  <2> QED BY <1>6, <2>1, <2>2, <2>3, <2>4, <2>5, <2>6 DEF Cleaning
<1> QED BY <1>1, <1>2, <1>3, <1>4, <1>5, <1>6 DEF Work

\* Every step of a process keeps what recoveries have achieved.
LEMMA StepRecovers ==
  ASSUME NetworkInv, ReadInv, RecoverInv, NEW p \in Procs,
         \/ \E r \in Runs : StartRun(p, r) \/ ClaimStale(p, r)
         \/ Work(p) \/ Crash(p) \/ OpenNamespace(p) \/ CloseLease(p) \/ BeginClose(p)
  PROVE  RecoverInv'
<1>1. Elsewhere(p)
  BY StepsAreLocal
<1>2. CASE op'[p] # "recover" \/ "mishap" \in flags'[p]
  <2>1. Recovering(p)'
    BY <1>2 DEF Recovering
  <2>2. pc'[p] = "idle" => flags'[p] = {}
    BY BeginningsAndEnds
  <2> QED BY <1>1, <2>1, <2>2, OthersRecover
<1>3. CASE op'[p] = "recover" /\ "mishap" \notin flags'[p]
  <2>1. pc'[p] = "idle" => flags'[p] = {}
    BY BeginningsAndEnds
  <2>2. CASE \E r \in Runs : ClaimStale(p, r)
    <3>1. flags'[p] = {} /\ pc'[p] = "awaitLock"
      BY <2>2 DEF ClaimStale, RecoverInv, NetworkInv, TypeOK
    <3>2. Recovering(p)'
      BY <3>1 DEF Recovering
    <3> QED BY <1>1, <2>1, <3>2, OthersRecover
  <2>3. CASE \A r \in Runs : ~ClaimStale(p, r)
    <3>1. op[p] = "recover"
      BY <1>3, <2>3, BeginningsAndEnds
    <3>2. CASE ~(env.foreign = {} /\ PowerAlone)
      <4>1. ~(env.foreign = {} /\ PowerAlone)'
        BY <1>1, <3>2 DEF Elsewhere, PowerAlone
      <4>2. Recovering(p)'
        BY <4>1 DEF Recovering
      <4> QED BY <1>1, <2>1, <4>2, OthersRecover
    <3>3. CASE env.foreign = {} /\ PowerAlone
      <4>1. Recovering(p)'
        BY <1>3, <2>3, <3>1, <3>3, OwnStepRecovers
      <4> QED BY <1>1, <2>1, <4>1, OthersRecover
    <3> QED BY <3>2, <3>3
  <2> QED BY <2>2, <2>3
<1> QED BY <1>2, <1>3

\* The kernel, other software and power loss.
LEMMA OutsideRecovers ==
  ASSUME NetworkInv, RecoverInv,
         \/ \E r \in Runs : Transmit(r) \/ LinkVanishes(r) \/ RouteVanishes(r)
         \/ ForeignRule \/ LosePower \/ UNCHANGED vars
  PROVE  RecoverInv'
<1>1. CASE LosePower
  <2>1. \A q \in Procs : pc'[q] = "idle" /\ flags'[q] = {} /\ op'[q] = "none"
    BY <1>1 DEF LosePower
  <2>2. foreign' = {}
    BY <1>1 DEF LosePower
  <2> QED BY <2>1, <2>2 DEF RecoverInv, Recovering
<1>2. CASE ForeignRule \/ UNCHANGED vars
  <2>1. UNCHANGED <<op, pc, run, left, flags, objects, dir, traffic, env>>
    BY <1>2 DEF ForeignRule, vars
  <2>2. foreign' \subseteq env.foreign
    BY <1>2 DEF ForeignRule, vars, RecoverInv
  <2>3. \A q \in Procs : Recovering(q)'
    BY <2>1 DEF RecoverInv, Recovering, PowerAlone
  <2> QED BY <2>1, <2>2, <2>3 DEF RecoverInv
<1>3. ASSUME NEW r \in Runs, Transmit(r)
      PROVE  RecoverInv'
  <2>1. UNCHANGED <<op, pc, run, left, flags, objects, dir, env, foreign>>
    BY <1>3 DEF Transmit
  <2>2. \A q \in Procs : pc[q] = "verify" /\ run[q] \in traffic' => run[q] \in traffic
    BY <1>3, Working DEF Transmit, NetworkInv, SessionInv
  <2>3. ASSUME NEW q \in Procs
        PROVE  Recovering(q)'
    BY <2>1, <2>2, RecoveringKept DEF RecoverInv
  <2> QED BY <2>1, <2>3 DEF RecoverInv
<1>4. ASSUME NEW r \in Runs, LinkVanishes(r) \/ RouteVanishes(r)
      PROVE  RecoverInv'
  <2>1. UNCHANGED <<op, pc, run, left, flags, traffic, dir, env, foreign>>
    BY <1>4 DEF LinkVanishes, RouteVanishes
  <2>2. PICK o \in Links \cup Routes : objects' = [objects EXCEPT ![r] = @ \ {o}]
    BY <1>4 DEF LinkVanishes, RouteVanishes, Dangling, Routes
  <2>3. o \notin PolicyRules
    BY <2>2, KindsApart
  <2>4. \A x \in Runs : objects'[x] = IF x = r THEN objects[x] \ {o} ELSE objects[x]
    BY <2>2 DEF NetworkInv, TypeOK
  <2>5. ASSUME NEW q \in Procs
        PROVE  Recovering(q)'
    <3>1. pc[q] # "idle" => /\ objects'[run[q]] \subseteq objects[run[q]]
                            /\ objects[run[q]] \cap PolicyRules \subseteq objects'[run[q]]
      BY <2>3, <2>4, Working
    <3> QED BY <2>1, <3>1, RecoveringKept DEF RecoverInv
  <2> QED BY <2>1, <2>5 DEF RecoverInv
<1> QED BY <1>1, <1>2, <1>3, <1>4

\* What a recovery without mishap has deleted by each of its steps stays deleted.
THEOREM RecoverInvariant == Spec => []RecoverInv
<1>1. Init => RecoverInv
  <2> SUFFICES ASSUME Init
               PROVE  RecoverInv
    OBVIOUS
  <2>1. \A p \in Procs : pc[p] = "idle" /\ flags[p] = {} /\ op[p] = "none"
    BY DEF Init
  <2> QED BY <2>1 DEF Init, RecoverInv, Recovering
<1>2. NetworkInv /\ ReadInv /\ RecoverInv /\ [Next]_vars => RecoverInv'
  BY StepRecovers, OutsideRecovers DEF Next
<1> QED BY <1>1, <1>2, NetworkInvariant, EvidenceInvariant, PTL DEF Spec

\* A recovery without mishap fails only over policy rules of a claim that was
\* not activated: recoverLocked removes everything else, in any state that a
\* death left behind and while the kernel is still dissolving the namespaces.
THEOREM RecoveriesFailOnlyUnactivated == Spec => []RecoveryFailsOnlyUnactivated
<1>1. RecoverInv => RecoveryFailsOnlyUnactivated
  BY DEF RecoverInv, Recovering, RecoveryFailsOnlyUnactivated, PowerAlone
<1> QED BY <1>1, RecoverInvariant, PTL

\* Nobody holds the host lock who has returned or waits for something else:
\* the safety half of HostLockReleased.
THEOREM LockIsGivenUp == Spec => []LockGivenUp
<1>1. NetworkInv => LockGivenUp
  BY DEF NetworkInv, OwnerInv, LockGivenUp
<1> QED BY <1>1, NetworkInvariant, PTL
=============================================================================
