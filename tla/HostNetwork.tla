---------------------------- MODULE HostNetwork ----------------------------
(***************************************************************************)
(* internal/hostnetwork: the network of a run in the host's kernel, and    *)
(* the evidence in its run root from which another process can undo it.    *)
(*                                                                         *)
(* A run claims an identity (subnets, priorities, return table, protocol,  *)
(* names) in a file of its run root, installs its kernel objects one by    *)
(* one, verifies them and marks the claim as activated before traffic may  *)
(* flow.  Session.Close undoes what the process holds receipts for; after  *)
(* a crash, Recover undoes what the claim names.  All changes are made     *)
(* under the host lock; processes, the kernel's own clean-up and foreign   *)
(* rules go on meanwhile.                                                  *)
(*                                                                         *)
(* Who owns a run root is decided by RunDirectory (ExclusiveOwnership);    *)
(* here life and run keep the result.                                      *)
(***************************************************************************)
EXTENDS Naturals, FiniteSets, FiniteSetsExt

CONSTANTS
  Procs,          \* Transfer Lanes processes of the host
  Runs,           \* runs, numbered in the order in which they start
  Slots,          \* identities that a claim may reserve
  NoProc, NoRun, NoSlot,
  Transfers,      \* transfers of a run
  FirewallParts,  \* separate firewall changes: 1 for nftables, more for iptables
  MaxLeases,      \* bound on the namespace leases of a session
  Environments    \* may a process die (crashes), the host lose power, a call fail
                  \* or its context end (faults), where others may add policy
                  \* rules (foreign), the runs of the host, and the identity at
                  \* which the token of a run lets its allocation start

ASSUME ConstantsAssumption ==
  /\ Runs \subseteq Nat
  /\ NoProc \notin Procs /\ NoRun \notin Runs /\ NoSlot \notin Slots
  /\ Transfers \in Nat \ {0} /\ FirewallParts \in Nat \ {0}
  /\ MaxLeases \in Nat
  /\ \A e \in Environments :
       /\ e.crashes \in BOOLEAN /\ e.powerLoss \in BOOLEAN /\ e.faults \in BOOLEAN
       /\ e.foreign \subseteq Slots /\ e.runs \subseteq Runs
       /\ e.start \in [Runs -> Slots]

VARIABLES
  lock,     \* holder of the host lock
  life,     \* life[r]: the run as RunDirectory sees it
  slot,     \* slot[r]: the identity in r's claim
  dir,      \* dir[r]: the network directory of r's root and its entries
  disk,     \* disk[r]: the contents a power loss may leave of it
  objects,  \* objects[r]: r's objects in the kernel
  traffic,  \* runs with entries in the connection tracking table
  foreign,  \* identities at whose priorities others have a policy rule
  env,      \* the environment of this behaviour
  spaces,   \* runs whose network namespaces are open in some process
  leases,   \* leases[r]: open namespace leases of r's session
  pc,       \* pc[p]: next step of process p
  op,       \* op[p]: the operation p performs
  run,      \* run[p]: the run p works on
  receipts, \* receipts[p]: objects that p has installed
  left,     \* left[p]: objects still to be deleted in the current phase
  flags     \* flags[p]: what the operation has noted so far

evidence == <<slot, dir, disk>>
kernel   == <<objects, traffic, foreign, env, spaces>>
local    == <<pc, op, run, receipts, left, flags>>
vars     == <<lock, life, evidence, kernel, leases, local>>

-----------------------------------------------------------------------------
(***************************************************************************)
(* The objects of a claim, numbered in the order of their installation:    *)
(* the links of all transfers, then return route, outbound rule and return *)
(* rule of each transfer, then the firewall.                               *)
(***************************************************************************)

Links       == 1..Transfers
RouteOf(l)  == Transfers + 3 * (l - 1) + 1
Routes      == {RouteOf(l) : l \in Links}
PolicyRules == UNION {{RouteOf(l) + 1, RouteOf(l) + 2} : l \in Links}
WeakFIB     == Routes \cup PolicyRules
Firewall    == (4 * Transfers + 1)..(4 * Transfers + FirewallParts)
Objects     == 1..(4 * Transfers + FirewallParts)

\* Routes of r that have lost their link, which the kernel removes soon
Dangling(r) == {RouteOf(l) : l \in Links \ objects[r]} \cap objects[r]

Staging == {"claim.tmp", "activation.tmp"}
Entries == {"network", "claim", "activation"} \cup Staging
Flags   == {"error", "activated", "fib", "pending", "mishap"}

\* inspectEvidenceDirectory accepts contents c.
Readable(c) ==
  /\ "activation" \in c => "claim" \in c /\ c \cap Staging = {}
  /\ "activation.tmp" \in c => "claim" \in c
  /\ ~(Staging \subseteq c)

Steps ==
  {"idle", "awaitLock", "allocate", "mkdir", "syncRoot", "createClaim",
   "renameClaim", "syncClaim", "install", "check", "createActivation",
   "renameActivation", "syncActivation", "session", "drain", "load",
   "syncStaging", "firewall", "fib", "awaitCascade", "links", "conntrack",
   "verify", "dropActivation", "syncDropped", "dropClaim", "syncEmptied",
   "rmdir", "syncRemoved", "closed", "failed", "recovered"}

TypeOK ==
  /\ lock     \in Procs \cup {NoProc}
  /\ life     \in [Runs -> {"fresh", "live", "closing", "stale", "claimed", "gone"}]
  /\ slot     \in [Runs -> Slots \cup {NoSlot}]
  /\ dir      \in [Runs -> SUBSET Entries]
  /\ disk     \in [Runs -> SUBSET (SUBSET Entries)]
  /\ objects  \in [Runs -> SUBSET Objects]
  /\ traffic  \subseteq Runs /\ spaces \subseteq Runs
  /\ foreign  \subseteq Slots /\ env \in Environments
  /\ leases   \in [Runs -> 0..MaxLeases]
  /\ pc       \in [Procs -> Steps]
  /\ op       \in [Procs -> {"none", "open", "rollback", "close", "recover"}]
  /\ run      \in [Procs -> Runs \cup {NoRun}]
  /\ receipts \in [Procs -> SUBSET Objects]
  /\ left     \in [Procs -> SUBSET Objects]
  /\ flags    \in [Procs -> SUBSET Flags]

Init ==
  /\ lock = NoProc
  /\ life = [r \in Runs |-> "fresh"]
  /\ slot = [r \in Runs |-> NoSlot]
  /\ dir  = [r \in Runs |-> {}]
  /\ disk = [r \in Runs |-> {{}}]
  /\ objects = [r \in Runs |-> {}]
  /\ traffic = {} /\ foreign = {} /\ spaces = {}
  /\ env \in Environments
  /\ leases = [r \in Runs |-> 0]
  /\ pc  = [p \in Procs |-> "idle"]
  /\ op  = [p \in Procs |-> "none"]
  /\ run = [p \in Procs |-> NoRun]
  /\ receipts = [p \in Procs |-> {}]
  /\ left     = [p \in Procs |-> {}]
  /\ flags    = [p \in Procs |-> {}]

-----------------------------------------------------------------------------
(***************************************************************************)
(* Common parts of the steps.                                              *)
(***************************************************************************)

Go(p, step) == pc' = [pc EXCEPT ![p] = step]

Note(p, new) == flags' = [flags EXCEPT ![p] = @ \cup new]

\* Mutant: an error path keeps the host lock.
KeepLock(p) == UNCHANGED lock

\* heldHostLock.Close, deferred by every operation
Unlock(p) == lock' = IF lock = p THEN NoProc ELSE lock

\* What is deleted of set S: a live process deletes what it has receipts for,
\* a recovery what the claim names.
Targets(p, S) == IF op[p] = "recover" THEN S ELSE receipts[p] \cap S

\* The operation returns an error; a failed rollback closes its namespaces.
\* A session whose Close failed stays as it is and may be closed again.
Fail(p) ==
  /\ Unlock(p)
  /\ Go(p, IF op[p] = "close" THEN "session" ELSE "failed")
  /\ spaces' = IF op[p] = "rollback" THEN spaces \ {run[p]} ELSE spaces

\* It returns without one; Close gives up the namespaces now.
Succeed(p) ==
  /\ Unlock(p)
  /\ Go(p, CASE op[p] = "close"    -> "closed"
             [] op[p] = "recover"  -> "recovered"
             [] op[p] = "rollback" -> "failed")
  /\ spaces' = IF op[p] = "recover" THEN spaces ELSE spaces \ {run[p]}

\* Contents c when the entries old are removed, or renamed to new
Changed(c, old, new) == (c \ old) \cup (IF old \subseteq c THEN new ELSE {})

\* The network directory changes; until it is synced, the change may reach
\* the disk without the ones before it.
Change(r, old, new) ==
  /\ dir'  = [dir EXCEPT ![r] = Changed(@, old, new)]
  /\ disk' = [disk EXCEPT ![r] = @ \cup {Changed(c, old, new) : c \in @}]

Sync(r) == disk' = [disk EXCEPT ![r] = {dir[r]}]

-----------------------------------------------------------------------------
(***************************************************************************)
(* Runs begin and end in RunDirectory.                                     *)
(***************************************************************************)

\* createLiveRun, then Owner.Open
StartRun(p, r) ==
  /\ pc[p] = "idle" /\ life[r] = "fresh" /\ r \in env.runs
  /\ \A q \in env.runs : q < r => life[q] # "fresh"
  /\ life' = [life EXCEPT ![r] = "live"]
  /\ run' = [run EXCEPT ![p] = r]
  /\ op' = [op EXCEPT ![p] = "open"]
  /\ Go(p, "awaitLock")
  /\ UNCHANGED <<lock, evidence, kernel, leases, receipts, left, flags>>

\* recoverOldRuns: RecoverStale offers a stale run to Owner.Recover.
ClaimStale(p, r) ==
  /\ pc[p] = "idle" /\ life[r] = "stale"
  /\ life' = [life EXCEPT ![r] = "claimed"]
  /\ run' = [run EXCEPT ![p] = r]
  /\ op' = [op EXCEPT ![p] = "recover"]
  /\ Go(p, "awaitLock")
  /\ UNCHANGED <<lock, evidence, kernel, leases, receipts, left, flags>>

\* completeRun, or the removal after a recovery: a root with evidence is
\* kept, and its liveness is released.  The supervisor exits after its run.
Finish(p) ==
  /\ \/ pc[p] \in {"closed", "failed", "recovered"}
     \/ pc[p] = "session" /\ life[run[p]] = "closing" /\ "error" \in flags[p]
  /\ life' = [life EXCEPT ![run[p]] = IF dir[run[p]] = {} THEN "gone" ELSE "stale"]
  /\ spaces' = IF op[p] = "recover" THEN spaces ELSE spaces \ {run[p]}
  /\ leases' = [leases EXCEPT ![run[p]] = 0]
  /\ run' = [run EXCEPT ![p] = NoRun]
  /\ op' = [op EXCEPT ![p] = "none"]
  /\ receipts' = [receipts EXCEPT ![p] = {}]
  /\ left' = [left EXCEPT ![p] = {}]
  /\ flags' = [flags EXCEPT ![p] = {}]
  /\ Go(p, "idle")
  /\ UNCHANGED <<lock, evidence, objects, traffic, foreign, env>>

-----------------------------------------------------------------------------
(***************************************************************************)
(* The host lock.                                                          *)
(***************************************************************************)

AcquireHostLock(p) ==
  /\ pc[p] = "awaitLock"
  /\ lock = NoProc
  /\ lock' = p
  /\ Go(p, IF op[p] = "open" THEN "allocate" ELSE "load")
  /\ UNCHANGED <<life, evidence, kernel, leases, op, run, receipts, left, flags>>

LockTimesOut(p) ==
  /\ pc[p] = "awaitLock"
  /\ lock # NoProc
  /\ Fail(p)
  /\ Note(p, {"error", "mishap"})
  /\ UNCHANGED <<life, evidence, objects, traffic, foreign, env, leases, op, run,
                 receipts, left>>

-----------------------------------------------------------------------------
(***************************************************************************)
(* Owner.Open.                                                             *)
(***************************************************************************)

Claimed(r) == "claim" \in dir[r]

\* linuxHost.Inspect: identities that the kernel shows in use
InUse == foreign \cup {slot[q] : q \in {r \in Runs : objects[r] # {} \/ r \in traffic}}

\* Mutant: only what is in the kernel is reserved.
ReservedByKernel == InUse

\* reservePublishedClaims: also those that a published claim of any run names
Reserved == InUse \cup {slot[q] : q \in {r \in Runs : Claimed(r)}}

\* readPublishedClaims, ObservePublished and mergePublishedClaimReservations
\* refuse evidence that contradicts itself, a firewall that is neither absent
\* nor complete, and claims that share an identity.
PublishedConsistent ==
  /\ \A q \in Runs : Readable(dir[q])
  /\ \A q \in Runs : Claimed(q) => objects[q] \cap Firewall \in {{}, Firewall}
  /\ \A q, r \in Runs : Claimed(q) /\ Claimed(r) /\ slot[q] = slot[r] => q = r

\* allocateClaimNetwork: the search starts at a random identity.
Allocate(p) ==
  /\ pc[p] = "allocate"
  /\ PublishedConsistent
  /\ \E s \in Slots \ Reserved :
       /\ env.start[run[p]] \notin Reserved => s = env.start[run[p]]
       /\ slot' = [slot EXCEPT ![run[p]] = s]
  /\ Go(p, "mkdir")
  /\ UNCHANGED <<lock, life, dir, disk, kernel, leases, op, run, receipts,
                 left, flags>>

AllocateFails(p) ==
  /\ pc[p] = "allocate"
  /\ Slots \subseteq Reserved \/ ~PublishedConsistent \/ env.faults
  /\ Fail(p)
  /\ Note(p, {"error"})
  /\ UNCHANGED <<life, evidence, objects, traffic, foreign, env, leases, op, run,
                 receipts, left>>

\* publishClaim: the directory ...
MakeNetworkDirectory(p) ==
  /\ pc[p] = "mkdir"
  /\ Change(run[p], {}, {"network"})
  /\ Go(p, "syncRoot")
  /\ UNCHANGED <<lock, life, slot, kernel, leases, op, run, receipts, left, flags>>

\* ... is synced; a new root has no evidence yet.
SyncNetworkDirectory(p) ==
  /\ pc[p] = "syncRoot"
  /\ Sync(run[p])
  /\ Go(p, "createClaim")
  /\ UNCHANGED <<lock, life, slot, dir, kernel, leases, op, run, receipts,
                 left, flags>>

\* writeEvidence: a temporary file, written and synced, ...
CreateEvidence(p, here, temporary, next) ==
  /\ pc[p] = here
  /\ Change(run[p], {}, {temporary})
  /\ Go(p, next)
  /\ UNCHANGED <<lock, life, slot, kernel, leases, op, run, receipts, left, flags>>

\* ... is renamed ...
RenameEvidence(p, here, temporary, name, next) ==
  /\ pc[p] = here
  /\ Change(run[p], {temporary}, {name})
  /\ Go(p, next)
  /\ UNCHANGED <<lock, life, slot, kernel, leases, op, run, receipts, left, flags>>

\* ... and its directory synced.
SyncEvidence(p, here, next) ==
  /\ pc[p] = here
  /\ Sync(run[p])
  /\ Go(p, next)
  /\ UNCHANGED <<lock, life, slot, dir, kernel, leases, op, run, receipts,
                 left, flags>>

PublishClaim(p) ==
  \/ CreateEvidence(p, "createClaim", "claim.tmp", "renameClaim")
  \/ RenameEvidence(p, "renameClaim", "claim.tmp", "claim", "syncClaim")
  \/ SyncEvidence(p, "syncClaim", "install")

\* A claim that could not be published is left to the next recovery: Open
\* rolls back only what it installed.
PublishFails(p) ==
  /\ env.faults
  /\ pc[p] \in {"mkdir", "syncRoot", "createClaim", "renameClaim", "syncClaim"}
  /\ Fail(p)
  /\ Note(p, {"error"})
  /\ UNCHANGED <<life, evidence, objects, traffic, foreign, env, leases, op, run,
                 receipts, left>>

\* linuxHost.Install: the next object, and its receipt
Install(p) ==
  LET r == run[p]
      o == Cardinality(receipts[p]) + 1
  IN /\ pc[p] = "install"
     /\ o \in Objects
     /\ objects' = [objects EXCEPT ![r] = @ \cup {o}]
     /\ receipts' = [receipts EXCEPT ![p] = @ \cup {o}]
     /\ spaces' = spaces \cup {r}
     /\ Go(p, IF o + 1 \in Objects THEN "install" ELSE "check")
     /\ UNCHANGED <<lock, life, evidence, traffic, foreign, env, leases, op, run,
                    left, flags>>

\* A failed call may have changed the kernel, and then has no receipt; links
\* and firewall have one when only the check after the change failed.
InstallFails(p) ==
  LET r == run[p]
      o == Cardinality(receipts[p]) + 1
  IN /\ env.faults
     /\ pc[p] = "install"
     /\ \E made, known \in BOOLEAN :
          /\ known => made /\ o \notin WeakFIB
          /\ objects' = [objects EXCEPT ![r] = IF made THEN @ \cup {o} ELSE @]
          /\ receipts' = [receipts EXCEPT ![p] = IF known THEN @ \cup {o} ELSE @]
     /\ spaces' = spaces \cup {r}
     /\ op' = [op EXCEPT ![p] = "rollback"]
     /\ Go(p, "load")
     /\ UNCHANGED <<lock, life, evidence, traffic, foreign, env, leases, run, left,
                    flags>>

\* requireComplete, Verify, ConfirmConntrackEmpty
Installed(p) ==
  /\ receipts[p] = Objects
  /\ objects[run[p]] = Objects
  /\ slot[run[p]] \notin foreign
  /\ run[p] \notin traffic

VerifyInstalled(p) ==
  /\ pc[p] = "check"
  /\ Installed(p)
  /\ Go(p, "createActivation")
  /\ UNCHANGED <<lock, life, evidence, kernel, leases, op, run, receipts, left,
                 flags>>

\* publishTrafficActivation; then Open returns a session.
PublishActivation(p) ==
  \/ /\ \/ CreateEvidence(p, "createActivation", "activation.tmp", "renameActivation")
        \/ RenameEvidence(p, "renameActivation", "activation.tmp", "activation",
                          "syncActivation")
  \/ /\ pc[p] = "syncActivation"
     /\ Sync(run[p])
     /\ Unlock(p)
     /\ Go(p, "session")
     /\ UNCHANGED <<life, slot, dir, kernel, leases, op, run, receipts, left,
                    flags>>

\* rollbackOpen begins.
BeginRollback(p) ==
  /\ \/ pc[p] = "check" /\ (env.faults \/ ~Installed(p))
     \/ env.faults /\ pc[p] \in {"createActivation", "renameActivation", "syncActivation"}
  /\ op' = [op EXCEPT ![p] = "rollback"]
  /\ Go(p, "load")
  /\ UNCHANGED <<lock, life, evidence, kernel, leases, run, receipts, left, flags>>

-----------------------------------------------------------------------------
(***************************************************************************)
(* Session: namespace leases and the beginning of Close.                   *)
(***************************************************************************)

\* OpenNamespace is refused once the session is closing.
OpenNamespace(p) ==
  LET r == run[p]
  IN /\ pc[p] = "session"
     /\ life[r] = "live"
     /\ leases[r] < MaxLeases
     /\ leases' = [leases EXCEPT ![r] = @ + 1]
     /\ UNCHANGED <<lock, life, evidence, kernel, local>>

\* NamespaceLease.Close, once its processes are gone
CloseLease(p) ==
  LET r == run[p]
  IN /\ pc[p] \in {"session", "drain"}
     /\ leases[r] > 0
     /\ leases' = [leases EXCEPT ![r] = @ - 1]
     /\ UNCHANGED <<lock, life, evidence, kernel, local>>

\* A command in a leased namespace sends: the kernel tracks the connection.
Transmit(r) ==
  /\ leases[r] > 0
  /\ traffic' = traffic \cup {r}
  /\ UNCHANGED <<lock, life, evidence, objects, foreign, env, spaces, leases, local>>

\* beginClose, the first time or after a Close that failed
BeginClose(p) ==
  /\ pc[p] = "session"
  /\ life' = [life EXCEPT ![run[p]] = "closing"]
  /\ op' = [op EXCEPT ![p] = "close"]
  /\ flags' = [flags EXCEPT ![p] = {}]
  /\ Go(p, "drain")
  /\ UNCHANGED <<lock, evidence, kernel, leases, run, receipts, left>>

\* Mutant: Close does not wait for the leases.
DontDrain(p) ==
  /\ pc[p] = "drain"
  /\ Go(p, "awaitLock")
  /\ UNCHANGED <<lock, life, evidence, kernel, leases, op, run, receipts, left,
                 flags>>

Drained(p) ==
  /\ pc[p] = "drain"
  /\ leases[run[p]] = 0
  /\ Go(p, "awaitLock")
  /\ UNCHANGED <<lock, life, evidence, kernel, leases, op, run, receipts, left,
                 flags>>

DrainTimesOut(p) ==
  /\ pc[p] = "drain"
  /\ leases[run[p]] > 0
  /\ Fail(p)
  /\ Note(p, {"error", "mishap"})
  /\ UNCHANGED <<life, evidence, objects, traffic, foreign, env, leases, op, run,
                 receipts, left>>

-----------------------------------------------------------------------------
(***************************************************************************)
(* Evidence: loadNetworkEvidence and removeNetworkEvidence.                *)
(***************************************************************************)

\* removeEvidenceStaging, then the directory is synced.  A discard name
\* counts as the temporary name it replaces.
RemoveStaging(p) ==
  /\ \/ /\ pc[p] = "load"
        /\ Readable(dir[run[p]])
        /\ dir[run[p]] \cap Staging # {}
        /\ Change(run[p], Staging, {})
        /\ Go(p, "syncStaging")
     \/ /\ pc[p] = "syncStaging"
        /\ Sync(run[p])
        /\ Go(p, "load")
        /\ UNCHANGED dir
  /\ UNCHANGED <<lock, life, slot, kernel, leases, op, run, receipts, left, flags>>

\* The evidence is there: what is to be undone, beginning with the firewall
LoadEvidence(p) ==
  LET r == run[p]
  IN /\ pc[p] = "load"
     /\ Readable(dir[r]) /\ dir[r] \cap Staging = {}
     /\ Claimed(r)
     /\ op[p] = "close" => "activation" \in dir[r]
     /\ Note(p, {f \in {"activated"} : "activation" \in dir[r]})
     /\ left' = [left EXCEPT ![p] = Targets(p, Firewall)]
     /\ Go(p, "firewall")
     /\ UNCHANGED <<lock, life, evidence, kernel, leases, op, run, receipts>>

\* There is no claim: an empty directory is removed.  Only a recovery expects
\* that.
LoadNothing(p) ==
  LET r == run[p]
  IN /\ pc[p] = "load"
     /\ Readable(dir[r]) /\ dir[r] \cap Staging = {}
     /\ ~Claimed(r)
     /\ Note(p, {f \in {"error"} : op[p] # "recover"})
     /\ IF "network" \in dir[r]
          THEN Go(p, "rmdir") /\ UNCHANGED <<lock, spaces>>
          ELSE IF op[p] = "recover" THEN Succeed(p) ELSE Fail(p)
     /\ UNCHANGED <<life, evidence, objects, traffic, foreign, env, leases, op, run,
                    receipts, left>>

\* The evidence contradicts itself or the session.
LoadFails(p) ==
  LET r == run[p]
  IN /\ pc[p] = "load"
     /\ \/ ~Readable(dir[r])
        \/ op[p] = "close" /\ Claimed(r) /\ "activation" \notin dir[r]
     /\ Fail(p)
     /\ Note(p, {"error"})
     /\ UNCHANGED <<life, evidence, objects, traffic, foreign, env, leases, op, run,
                    receipts, left>>

\* unlinkEvidence
Unlink(p, name, here, next) ==
  /\ pc[p] = here
  /\ Change(run[p], {name}, {})
  /\ Go(p, next)
  /\ UNCHANGED <<lock, life, slot, kernel, leases, op, run, receipts, left, flags>>

\* Mutant: the removal of the activation is not synced.
RemoveUnsynced(p) ==
  \/ Unlink(p, "activation", "dropActivation", "dropClaim")
  \/ Unlink(p, "claim", "dropClaim", "syncEmptied")
  \/ SyncEvidence(p, "syncEmptied", "rmdir")

\* removeNetworkEvidence: first the activation, then the claim
RemoveEvidence(p) ==
  \/ Unlink(p, "activation", "dropActivation", "syncDropped")
  \/ SyncEvidence(p, "syncDropped", "dropClaim")
  \/ Unlink(p, "claim", "dropClaim", "syncEmptied")
  \/ SyncEvidence(p, "syncEmptied", "rmdir")

\* removeEmptyNetworkDirectory ...
RemoveDirectory(p) ==
  /\ pc[p] = "rmdir"
  /\ Change(run[p], Entries, {})
  /\ Go(p, "syncRemoved")
  /\ UNCHANGED <<lock, life, slot, kernel, leases, op, run, receipts, left, flags>>

\* ... and the run root is synced: the operation returns.
SyncRemoved(p) ==
  /\ pc[p] = "syncRemoved"
  /\ Sync(run[p])
  /\ IF "error" \in flags[p] THEN Fail(p) ELSE Succeed(p)
  /\ UNCHANGED <<life, slot, dir, objects, traffic, foreign, env, leases, op, run,
                 receipts, left, flags>>

\* A call on the evidence fails.
EvidenceFails(p) ==
  /\ env.faults
  /\ pc[p] \in {"load", "syncStaging", "dropActivation", "syncDropped",
                "dropClaim", "syncEmptied", "rmdir", "syncRemoved"}
  /\ Fail(p)
  /\ Note(p, {"error", "mishap"})
  /\ UNCHANGED <<life, evidence, objects, traffic, foreign, env, leases, op, run,
                 receipts, left>>

-----------------------------------------------------------------------------
(***************************************************************************)
(* The clean-up of the kernel: Rollback, Close and Cleanup of linuxHost.   *)
(* An error does not stop it, except within the firewall.                  *)
(***************************************************************************)

\* Object o is dealt with; the effect on the kernel is Gone.
Deleted(p, o, Gone) ==
  /\ objects' = [objects EXCEPT ![run[p]] = @ \ Gone]
  /\ left' = [left EXCEPT ![p] = @ \ {o}]
  /\ UNCHANGED <<lock, life, evidence, traffic, foreign, env, spaces, leases, pc, op,
                 run, receipts>>

\* backend.Remove, backend.Recover
DeleteFirewall(p) ==
  LET o == Max(left[p])
  IN /\ pc[p] = "firewall"
     /\ left[p] # {}
     /\ Deleted(p, o, {o})
     /\ UNCHANGED flags

\* deleteClaimedRule: a rule of another origin at the priority is ambiguous.
DeleteRule(p) ==
  LET o == Max(left[p])
  IN /\ pc[p] = "fib"
     /\ left[p] # {} /\ o \in PolicyRules
     /\ IF slot[run[p]] \in foreign
          THEN Deleted(p, o, {}) /\ Note(p, {"error", "fib"})
          ELSE Deleted(p, o, {o}) /\ UNCHANGED flags

\* deleteReturnRoute: a route without its link is about to disappear; only
\* removeActivatedWeakFIBDuringLinkCascade knows what to do about that.
DeleteRoute(p) ==
  LET r == run[p]
      o == Max(left[p])
      cascade == IF op[p] = "recover" THEN {"pending"} ELSE {"error"}
  IN /\ pc[p] = "fib"
     /\ left[p] # {} /\ o \in Routes
     /\ \/ o \in Dangling(r) /\ Deleted(p, o, {}) /\ Note(p, cascade)
        \/ o \notin Dangling(r) /\ Deleted(p, o, {o}) /\ UNCHANGED flags
        \/ \* the link went away between the observation and the deletion
           /\ o \in objects[r] \ Dangling(r) /\ r \notin spaces
           /\ Deleted(p, o, {o} \cup {l \in Links : RouteOf(l) = o})
           /\ Note(p, cascade)

\* removeOwnedVeth: the routes over a link go with it.
DeleteLink(p) ==
  LET o == Max(left[p])
  IN /\ pc[p] = "links"
     /\ left[p] # {}
     /\ Deleted(p, o, IF o \in objects[run[p]] THEN {o, RouteOf(o)} ELSE {})
     /\ UNCHANGED flags

\* A deletion fails.  Routing goes on with the next object; links may.
DeleteFails(p) ==
  LET o == Max(left[p])
  IN /\ env.faults
     /\ pc[p] \in {"firewall", "fib", "links"}
     /\ left[p] # {}
     /\ Note(p, {"error", "mishap"} \cup {f \in {"fib"} : pc[p] = "fib"})
     /\ \/ pc[p] # "fib" /\ left' = [left EXCEPT ![p] = {}]
        \/ pc[p] # "firewall" /\ left' = [left EXCEPT ![p] = @ \ {o}]
     /\ UNCHANGED <<lock, life, evidence, kernel, leases, pc, op, run, receipts>>

\* Without an activation a recovery deletes no routing.
EndFirewall(p) ==
  /\ pc[p] = "firewall"
  /\ left[p] = {}
  /\ left' = [left EXCEPT ![p] =
       IF op[p] = "recover" /\ "activated" \notin flags[p] THEN {}
       ELSE Targets(p, WeakFIB)]
  /\ Go(p, "fib")
  /\ UNCHANGED <<lock, life, evidence, kernel, leases, op, run, receipts, flags>>

\* Mutant: a route whose link is gone is an error like any other.
EndRoutingAtOnce(p) ==
  /\ pc[p] = "fib"
  /\ left[p] = {}
  /\ Note(p, {f \in {"error"} : "pending" \in flags[p]})
  /\ Go(p, "links")
  /\ left' = [left EXCEPT ![p] = Targets(p, Links)]
  /\ UNCHANGED <<lock, life, evidence, kernel, leases, op, run, receipts>>

\* observeClaimedWeakFIB rejects what an unactivated claim finds, and
\* onlyReturnRouteLinkCascadePending decides whether deleting is retried.
EndRouting(p) ==
  LET r == run[p]
      waits == "pending" \in flags[p] /\ "fib" \notin flags[p]
      observes == op[p] = "recover" /\ "activated" \notin flags[p]
      found == {f \in {"error"} : slot[r] \in foreign \/ Dangling(r) # {}}
               \cup {f \in {"mishap"} : Dangling(r) # {}}
  IN /\ pc[p] = "fib"
     /\ left[p] = {}
     /\ Note(p, IF observes THEN found ELSE {})
     /\ IF waits THEN Go(p, "awaitCascade") /\ UNCHANGED left
        ELSE /\ Go(p, "links")
             /\ left' = [left EXCEPT ![p] = Targets(p, Links)]
     /\ UNCHANGED <<lock, life, evidence, kernel, leases, op, run, receipts>>

\* removeActivatedWeakFIBDuringLinkCascade: everything is tried again; a try
\* that finds the same routes changes nothing.  Or the limit expires.
AwaitCascade(p) ==
  /\ pc[p] = "awaitCascade"
  /\ \/ /\ Dangling(run[p]) = {}
        /\ left' = [left EXCEPT ![p] = WeakFIB]
        /\ flags' = [flags EXCEPT ![p] = @ \ {"pending"}]
        /\ Go(p, "fib")
     \/ /\ left' = [left EXCEPT ![p] = Targets(p, Links)]
        /\ Note(p, {"error", "mishap"})
        /\ Go(p, "links")
  /\ UNCHANGED <<lock, life, evidence, kernel, leases, op, run, receipts>>

\* A rollback closes its namespaces here.
EndLinks(p) ==
  /\ pc[p] = "links"
  /\ left[p] = {}
  /\ spaces' = IF op[p] = "rollback" THEN spaces \ {run[p]} ELSE spaces
  /\ Go(p, IF "activated" \in flags[p] THEN "conntrack" ELSE "verify")
  /\ UNCHANGED <<lock, life, evidence, objects, traffic, foreign, env, leases, op,
                 run, receipts, left, flags>>

\* clearOwnedConntrack
ClearConntrack(p) ==
  /\ pc[p] = "conntrack"
  /\ \/ traffic' = traffic \ {run[p]} /\ UNCHANGED flags
     \/ env.faults /\ Note(p, {"error", "mishap"}) /\ UNCHANGED traffic
  /\ Go(p, "verify")
  /\ UNCHANGED <<lock, life, evidence, objects, foreign, env, spaces, leases, op,
                 run, receipts, left>>

\* verifyCleanup: any error keeps the evidence.
VerifyCleanup(p) ==
  LET r == run[p]
      clean == /\ "error" \notin flags[p]
               /\ objects[r] = {}
               /\ slot[r] \notin foreign
               /\ "activated" \in flags[p] => r \notin traffic
  IN /\ pc[p] = "verify"
     /\ \/ /\ clean
           /\ Go(p, IF "activated" \in flags[p] THEN "dropActivation" ELSE "dropClaim")
           /\ UNCHANGED <<lock, spaces, flags>>
        \/ /\ ~clean \/ env.faults
           /\ Fail(p)
           /\ Note(p, {"error"} \cup {f \in {"mishap"} : clean \/ Dangling(r) # {}})
     /\ UNCHANGED <<life, evidence, objects, traffic, foreign, env, leases, op, run,
                    receipts, left>>

-----------------------------------------------------------------------------
(***************************************************************************)
(* Outside the program: deaths, power loss, the kernel, other software.    *)
(***************************************************************************)

\* The process dies: its descriptors, and so its namespaces, are closed.
Crash(p) ==
  LET r == run[p]
  IN /\ env.crashes
     /\ pc[p] # "idle"
     /\ Unlock(p)
     /\ life' = [life EXCEPT ![r] = "stale"]
     /\ spaces' = IF op[p] = "recover" THEN spaces ELSE spaces \ {r}
     /\ leases' = [leases EXCEPT ![r] = 0]
     /\ run' = [run EXCEPT ![p] = NoRun]
     /\ op' = [op EXCEPT ![p] = "none"]
     /\ receipts' = [receipts EXCEPT ![p] = {}]
     /\ left' = [left EXCEPT ![p] = {}]
     /\ flags' = [flags EXCEPT ![p] = {}]
     /\ Go(p, "idle")
     /\ UNCHANGED <<evidence, objects, traffic, foreign, env>>

\* The host restarts with an empty kernel and what is on the disk.
LosePower ==
  /\ env.powerLoss
  /\ lock' = NoProc
  /\ life' = [r \in Runs |-> IF life[r] \in {"fresh", "gone"} THEN life[r] ELSE "stale"]
  /\ dir' \in {d \in [Runs -> UNION {disk[r] : r \in Runs}] :
                 \A r \in Runs : d[r] \in disk[r]}
  /\ disk' = [r \in Runs |-> {dir'[r]}]
  /\ objects' = [r \in Runs |-> {}]
  /\ traffic' = {} /\ foreign' = {} /\ spaces' = {}
  /\ leases' = [r \in Runs |-> 0]
  /\ pc' = [p \in Procs |-> "idle"]
  /\ op' = [p \in Procs |-> "none"]
  /\ run' = [p \in Procs |-> NoRun]
  /\ receipts' = [p \in Procs |-> {}]
  /\ left' = [p \in Procs |-> {}]
  /\ flags' = [p \in Procs |-> {}]
  /\ UNCHANGED <<slot, env>>

\* The kernel dissolves the namespaces of a dead process: each link goes, and
\* somewhat later the route over it.
LinkVanishes(r) ==
  /\ r \notin spaces
  /\ \E l \in Links \cap objects[r] :
       objects' = [objects EXCEPT ![r] = @ \ {l}]
  /\ UNCHANGED <<lock, life, evidence, traffic, foreign, env, spaces, leases, local>>

RouteVanishes(r) ==
  /\ \E o \in Dangling(r) : objects' = [objects EXCEPT ![r] = @ \ {o}]
  /\ UNCHANGED <<lock, life, evidence, traffic, foreign, env, spaces, leases, local>>

\* Other software adds or deletes a rule at some priority.
ForeignRule ==
  /\ \E s \in env.foreign : foreign' = IF s \in foreign THEN foreign \ {s}
                                       ELSE foreign \cup {s}
  /\ UNCHANGED <<lock, life, evidence, objects, traffic, env, spaces, leases,
                 local>>

-----------------------------------------------------------------------------
\* Owner.Open
Opening(p) ==
  \/ Allocate(p) \/ AllocateFails(p)
  \/ MakeNetworkDirectory(p) \/ SyncNetworkDirectory(p)
  \/ PublishClaim(p) \/ PublishFails(p)
  \/ Install(p) \/ InstallFails(p) \/ VerifyInstalled(p)
  \/ PublishActivation(p) \/ BeginRollback(p)

\* rollbackOpen, closeSession and recoverLocked
Cleaning(p) ==
  \/ RemoveStaging(p) \/ LoadEvidence(p) \/ LoadNothing(p) \/ LoadFails(p)
  \/ DeleteFirewall(p) \/ DeleteRule(p) \/ DeleteRoute(p) \/ DeleteLink(p)
  \/ DeleteFails(p) \/ EndFirewall(p) \/ EndRouting(p) \/ AwaitCascade(p)
  \/ EndLinks(p) \/ ClearConntrack(p) \/ VerifyCleanup(p)
  \/ RemoveEvidence(p) \/ RemoveDirectory(p) \/ SyncRemoved(p)
  \/ EvidenceFails(p)

\* What a process goes on with once it has begun
Work(p) ==
  \/ AcquireHostLock(p) \/ LockTimesOut(p) \/ Opening(p) \/ Cleaning(p)
  \/ Drained(p) \/ DrainTimesOut(p) \/ Finish(p)

Next ==
  \/ \E p \in Procs :
       \/ \E r \in Runs : StartRun(p, r) \/ ClaimStale(p, r)
       \/ Work(p) \/ Crash(p)
       \/ OpenNamespace(p) \/ CloseLease(p) \/ BeginClose(p)
  \/ \E r \in Runs : Transmit(r) \/ LinkVanishes(r) \/ RouteVanishes(r)
  \/ ForeignRule \/ LosePower

\* A process that is inside an operation goes on; every wait has a limit.
Fairness == \A p \in Procs : WF_vars(Work(p))

Spec == Init /\ [][Next]_vars /\ Fairness

-----------------------------------------------------------------------------
(***************************************************************************)
(* Properties.                                                             *)
(***************************************************************************)

\* An identity that has objects in the kernel is claimed by no other run, so
\* that neither a Close nor a recovery of that run can delete them.
IdentitiesDisjoint ==
  \A q, r \in Runs :
    objects[q] # {} /\ q # r /\ (objects[r] # {} \/ Claimed(r)) => slot[q] # slot[r]

\* Whatever is in the kernel can be found again: a run that has objects there
\* has its claim in its root, whoever died, failed or lost its lock when.
NothingUnclaimed == \A r \in Runs : objects[r] # {} => Claimed(r)

\* As long as the kernel tracks connections of a run, its root says so: a
\* recovery knows that it has to delete them.
TrafficActivated == \A r \in traffic : "activation" \in dir[r]

\* A command that runs in a leased namespace has its complete network, from
\* the first lease until the last one is closed.
LeasedComplete == \A r \in Runs : leases[r] > 0 => objects[r] = Objects

\* Where only power is lost, that never leaves evidence which
\* inspectEvidenceDirectory rejects, and with it a run root that no recovery
\* can read.
EvidenceReadable ==
  ~env.crashes /\ ~env.faults => \A r \in Runs : \A c \in disk[r] : Readable(c)

\* A recovery finds what it needs in the root, after deaths, faults and losses
\* of power.
EvidenceSuffices == NothingUnclaimed /\ EvidenceReadable

\* Commands have their whole network, and their connections are known.
LeasesSound == TypeOK /\ TrafficActivated /\ LeasedComplete

\* Without a mishap or foreign rules a recovery fails only if routing rules
\* were installed and not activated: for everything else the claim is enough,
\* also while the kernel is still dissolving the namespaces.  A mishap is a
\* failing call, an expired limit, or an unactivated route seen just after it
\* lost its link.  Power loss counts where it comes alone: together with the
\* death of a recovery it may leave an activation.tmp without its claim.
RecoveryFailsOnlyUnactivated ==
  \A p \in Procs :
    pc[p] = "failed" /\ op[p] = "recover" /\ "mishap" \notin flags[p]
      /\ env.foreign = {} /\ (env.powerLoss => ~env.crashes /\ ~env.faults) =>
      /\ "activation" \notin dir[run[p]]
      /\ objects[run[p]] \cap PolicyRules # {}

\* Nobody holds the host lock who has returned or waits for something else, ...
LockGivenUp ==
  \A p \in Procs : lock = p =>
    pc[p] \notin {"idle", "awaitLock", "session", "drain", "closed", "failed", "recovered"}

\* ... and who holds it can go on.
HolderGoesOn == \A p \in Procs : lock = p => ENABLED Work(p)

\* The host lock, which all runs of the host wait for, is given up on every
\* path of Open, Close and Recover, errors included.
HostLockReleased == LockGivenUp /\ HolderGoesOn

-----------------------------------------------------------------------------
(***************************************************************************)
(* The invariant behind the safety properties.                             *)
(***************************************************************************)

Unlocked   == {"idle", "awaitLock", "session", "drain", "closed", "failed", "recovered"}
Publishing == {"mkdir", "syncRoot", "createClaim", "renameClaim", "syncClaim"}
Activating == {"createActivation", "renameActivation", "syncActivation"}
OpenSteps  == {"allocate", "install", "check"} \cup Publishing \cup Activating
Deleting   == {"firewall", "fib", "awaitCascade", "links", "conntrack", "verify"}
Dropping   == {"dropActivation", "syncDropped", "dropClaim", "syncEmptied", "rmdir",
               "syncRemoved"}
Unsynced   == {"syncRoot", "renameClaim", "syncClaim", "renameActivation",
               "syncActivation", "syncStaging", "syncDropped", "syncEmptied",
               "syncRemoved"}

\* A process works on one run, a run is worked on by one process, and changes
\* are made by the holder of the lock.
OwnerInv ==
  /\ \A p \in Procs : run[p] = NoRun <=> pc[p] = "idle"
  /\ \A p, q \in Procs : run[p] = run[q] /\ run[p] # NoRun => p = q
  /\ \A p \in Procs : lock = p <=> pc[p] \notin Unlocked
  /\ \A p \in Procs : run[p] # NoRun =>
       /\ life[run[p]] \in {"live", "closing", "claimed"}
       /\ op[p] = "open" => life[run[p]] = "live"
       /\ op[p] = "close" => life[run[p]] = "closing"
       /\ op[p] # "none"

\* Which operation a step belongs to; what it has noted and installed so far.
StepInv ==
  \A p \in Procs :
    /\ pc[p] \in OpenSteps => op[p] = "open"
    /\ pc[p] \in Deleting \cup Dropping \cup {"load", "syncStaging"} => op[p] # "open"
    /\ pc[p] = "session" => op[p] \in {"open", "close"}
    /\ pc[p] = "drain" => op[p] = "close"
    /\ pc[p] \in {"load", "syncStaging", "drain", "awaitLock", "idle"} \cup OpenSteps =>
         "activated" \notin flags[p]
    /\ pc[p] = "idle" \/ (op[p] = "open" /\ pc[p] \in {"awaitLock", "allocate"} \cup Publishing) =>
         receipts[p] = {}
    /\ pc[p] = "install" =>
         \E n \in 0..(4 * Transfers + FirewallParts - 1) : receipts[p] = 1..n

\* A root that is not yet in use is empty.
FreshInv ==
  /\ \A r \in Runs : life[r] = "fresh" => dir[r] = {} /\ disk[r] = {{}}
  /\ \A p \in Procs :
       op[p] = "open" /\ pc[p] \in {"awaitLock", "allocate", "mkdir"} => dir[run[p]] = {}

\* What the root says, and what is in the kernel, at each step.
ContentsInv ==
  \A p \in Procs :
    /\ pc[p] = "renameClaim" => "claim.tmp" \in dir[run[p]]
    /\ pc[p] \in {"syncClaim", "install", "check"} \cup Activating \cup Deleting =>
         Claimed(run[p])
    /\ pc[p] = "renameActivation" => "activation.tmp" \in dir[run[p]]
    /\ pc[p] = "syncActivation" => "activation" \in dir[run[p]]
    /\ pc[p] \in Deleting => ("activated" \in flags[p] <=> "activation" \in dir[run[p]])
    /\ pc[p] \in Dropping => objects[run[p]] = {} /\ run[p] \notin traffic

\* An open session has its whole network, which the kernel cannot dissolve.
SessionInv ==
  /\ \A p \in Procs :
       /\ pc[p] = "check" \/ pc[p] \in Activating => run[p] \in spaces
       /\ pc[p] \in Activating => objects[run[p]] = Objects
       /\ pc[p] = "session" /\ op[p] = "open" =>
            /\ objects[run[p]] = Objects /\ run[p] \in spaces
            /\ "activation" \in dir[run[p]]
  /\ \A r \in Runs : leases[r] > 0 =>
       /\ \E p \in Procs : run[p] = r /\ pc[p] \in {"session", "drain"}
       /\ objects[r] = Objects /\ r \in spaces
       /\ "activation" \in dir[r]

\* No other claim names an identity that is in the kernel or about to be.
UniqueInv ==
  /\ \A q, r \in Runs : objects[q] # {} /\ Claimed(r) /\ q # r => slot[q] # slot[r]
  /\ \A p \in Procs, r \in Runs :
       pc[p] \in Publishing \cup {"install"} /\ Claimed(r) /\ r # run[p] =>
         slot[r] # slot[run[p]]

NetworkInv ==
  /\ TypeOK /\ OwnerInv /\ StepInv /\ FreshInv /\ ContentsInv /\ SessionInv /\ UniqueInv
  /\ NothingUnclaimed /\ TrafficActivated

\* Power is lost only where nothing else goes wrong.
PowerAlone == env.powerLoss => ~env.crashes /\ ~env.faults

\* What the steps that change a root expect of its contents c, ...
Expected(step, c) ==
  /\ step \in {"syncRoot", "createClaim"} => c \subseteq {"network"}
  /\ step = "renameClaim" => c \subseteq {"network", "claim.tmp"}
  /\ step \in {"syncClaim", "install", "check", "createActivation", "syncDropped",
               "dropClaim"} => c \cap ({"activation"} \cup Staging) = {}
  /\ step \in Deleting \cup {"dropActivation"} => c \cap Staging = {}
  /\ step = "renameActivation" => c \cap {"claim.tmp", "activation"} = {}

\* ... and of what may be on the disk before the name that they give is.
Written(step, c) ==
  /\ step = "renameClaim" => c \subseteq {"network", "claim.tmp"}
  /\ step = "renameActivation" =>
       "claim" \in c /\ c \cap {"claim.tmp", "activation"} = {}

\* The root of a run can be read at every step.
ReadInv ==
  PowerAlone =>
    /\ \A r \in Runs : Readable(dir[r])
    /\ \A p \in Procs : Expected(pc[p], dir[run[p]])

\* Where only power is lost: a root is on the disk as it is, except between a
\* change and its sync; and what may be on the disk then can be read.
DiskInv ==
  ~env.crashes /\ ~env.faults =>
    /\ \A r \in Runs : \A c \in disk[r] : Readable(c)
    /\ \A r \in Runs : (\A p \in Procs : run[p] = r => pc[p] \notin Unsynced) =>
         disk[r] = {dir[r]}
    /\ \A p \in Procs : pc[p] # "idle" => \A c \in disk[run[p]] : Written(pc[p], c)

\* What a recovery that meets no mishap has achieved by each of its steps.
Recovering(p) ==
  op[p] = "recover" /\ "mishap" \notin flags[p] /\ env.foreign = {} /\ PowerAlone =>
    /\ pc[p] \in Deleting \cup Dropping \cup {"awaitLock", "load", "syncStaging"} =>
         flags[p] \cap {"error", "fib"} = {}
    /\ pc[p] \notin {"fib", "awaitCascade"} \/ "activated" \notin flags[p] =>
         "pending" \notin flags[p]
    /\ pc[p] = "awaitCascade" => "activated" \in flags[p]
    /\ pc[p] = "firewall" => objects[run[p]] \cap Firewall \subseteq left[p]
    /\ pc[p] \in Deleting \ {"firewall"} => objects[run[p]] \cap Firewall = {}
    /\ "activated" \in flags[p] /\ pc[p] = "fib" /\ "pending" \notin flags[p] =>
         objects[run[p]] \cap WeakFIB \subseteq left[p]
    /\ "activated" \in flags[p] /\ pc[p] \in {"links", "conntrack", "verify"} =>
         objects[run[p]] \cap WeakFIB = {}
    /\ "activated" \notin flags[p] /\ pc[p] = "fib" => left[p] = {}
    /\ pc[p] = "links" => objects[run[p]] \cap Links \subseteq left[p]
    /\ pc[p] \in {"conntrack", "verify"} => objects[run[p]] \cap Links = {}
    /\ pc[p] = "verify" /\ "activated" \in flags[p] => run[p] \notin traffic
    /\ pc[p] = "failed" =>
         "activation" \notin dir[run[p]] /\ objects[run[p]] \cap PolicyRules # {}

RecoverInv ==
  /\ foreign \subseteq env.foreign
  /\ \A p \in Procs : pc[p] = "idle" => flags[p] = {}
  /\ \A p \in Procs : Recovering(p)
=============================================================================
