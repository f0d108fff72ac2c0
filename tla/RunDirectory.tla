---------------------------- MODULE RunDirectory ----------------------------
(***************************************************************************)
(* internal/rundirectory: the authority directory /var/tmp/transferlanes,  *)
(* shared by every Transfer Lanes process of the host.                     *)
(*                                                                         *)
(* A run root is one directory inode, identified here with its run ID.     *)
(* It is reached by a staging, a published or a removing name, holds the   *)
(* two lock files and, while other owners have state to undo, evidence     *)
(* entries.  Three advisory locks coordinate the processes: the authority  *)
(* lock (short critical sections that change names), and the recovery and  *)
(* liveness locks of each run root.  Claims of stale runs are made without *)
(* the authority lock.                                                     *)
(*                                                                         *)
(* The disk keeps what was synced; diskName and diskEntries hold, for each *)
(* run root, every image a power loss could leave.                         *)
(***************************************************************************)
EXTENDS Naturals, FiniteSets

CONSTANTS
  Procs,      \* Transfer Lanes processes of the host
  RunIDs,     \* run identities; naturals, since recovery visits them sorted
  NoProc,     \* nobody holds the lock
  NoRun,      \* the process works on no run root
  PowerLoss,  \* may the host lose power?
  MaxMishaps  \* how many processes may die and file system calls may fail

ASSUME ConstantsAssumption ==
  /\ NoProc \notin Procs
  /\ RunIDs \subseteq Nat
  /\ NoRun \notin RunIDs
  /\ PowerLoss \in BOOLEAN /\ MaxMishaps \in Nat

VARIABLES
  name,        \* name[r]: which kind of directory entry leads to run root r
  entries,     \* entries[r]: the directory entries inside run root r
  diskName,    \* diskName[r]: the names r may have on disk
  diskEntries, \* diskEntries[r]: the contents r may have on disk
  fresh,       \* run IDs runid.New has not returned yet
  authority,   \* holder of the authority lock
  recovery,    \* recovery[r]: holder of r's recovery lock
  liveness,    \* liveness[r]: holder of r's liveness lock
  pc,          \* pc[p]: next step of process p
  op,          \* op[p]: the operation p performs
  run,         \* run[p]: the run root p works on
  todo,        \* todo[p]: entries of the recovery snapshot still to visit
  mishaps      \* processes that died and calls that failed so far

vars == <<name, entries, diskName, diskEntries, fresh, authority, recovery,
          liveness, pc, op, run, todo, mishaps>>

tree  == <<name, entries, diskName, diskEntries>>
locks == <<authority, recovery, liveness>>

Names     == {"none", "staging", "published", "removing"}
LockFiles == {"liveness.lock", "recovery.lock"}
Entries   == LockFiles \cup {"evidence"}

Steps ==
  {"idle", "open", "lock", "list", "openRoot", "openRecovery",
   "lockRecovery", "openLiveness", "lockLiveness", "callback", "check",
   "syncIsolated", "unlinkLiveness", "unlinkRecovery", "rmdir",
   "syncRemoved", "mkdir", "makeLiveness", "makeRecovery", "syncStaging",
   "publish", "syncPublished", "unpublish", "live", "retained",
   "awaitRecovery", "closeLease", "abort", "retry", "claimFailed"}

Operations == {"none", "sweep", "claim", "create", "complete"}

TypeOK ==
  /\ name        \in [RunIDs -> Names]
  /\ entries     \in [RunIDs -> SUBSET Entries]
  /\ diskName    \in [RunIDs -> SUBSET Names]
  /\ diskEntries \in [RunIDs -> SUBSET (SUBSET Entries)]
  /\ fresh       \in SUBSET RunIDs
  /\ authority   \in Procs \cup {NoProc}
  /\ recovery    \in [RunIDs -> Procs \cup {NoProc}]
  /\ liveness    \in [RunIDs -> Procs \cup {NoProc}]
  /\ pc          \in [Procs -> Steps]
  /\ op          \in [Procs -> Operations]
  /\ run         \in [Procs -> RunIDs \cup {NoRun}]
  /\ todo        \in [Procs -> SUBSET RunIDs]
  /\ mishaps     \in 0..MaxMishaps

Init ==
  /\ name        = [r \in RunIDs |-> "none"]
  /\ entries     = [r \in RunIDs |-> {}]
  /\ diskName    = [r \in RunIDs |-> {"none"}]
  /\ diskEntries = [r \in RunIDs |-> {{}}]
  /\ fresh       = RunIDs
  /\ authority   = NoProc
  /\ recovery    = [r \in RunIDs |-> NoProc]
  /\ liveness    = [r \in RunIDs |-> NoProc]
  /\ pc          = [p \in Procs |-> "idle"]
  /\ op          = [p \in Procs |-> "none"]
  /\ run         = [p \in Procs |-> NoRun]
  /\ todo        = [p \in Procs |-> {}]
  /\ mishaps     = 0

-----------------------------------------------------------------------------
(***************************************************************************)
(* The file system, external to the program.  A change of a directory is   *)
(* visible at once and reaches the disk at the latest when the directory   *)
(* is synced; until then the disk may show the state before or after it.   *)
(***************************************************************************)

SetName(r, n) ==
  /\ name'     = [name EXCEPT ![r] = n]
  /\ diskName' = [diskName EXCEPT ![r] = @ \cup {n}]

AddEntry(r, e) ==
  /\ entries'     = [entries EXCEPT ![r] = @ \cup {e}]
  /\ diskEntries' = [diskEntries EXCEPT ![r] = @ \cup {c \cup {e} : c \in @}]

DropEntry(r, e) ==
  /\ entries'     = [entries EXCEPT ![r] = @ \ {e}]
  /\ diskEntries' = [diskEntries EXCEPT ![r] = @ \cup {c \ {e} : c \in @}]

SyncAuthority == diskName' = [r \in RunIDs |-> {name[r]}]

\* Evidence files are synced by their own owners before they are relied on.
SetEvidence(r, E) ==
  /\ entries'     = [entries EXCEPT ![r] = (@ \cap LockFiles) \cup E]
  /\ diskEntries' = [diskEntries EXCEPT
                       ![r] = {(c \cap LockFiles) \cup E : c \in @}]

Go(p, step) == pc' = [pc EXCEPT ![p] = step]

\* The locks p holds on run roots vanish with its descriptors.  Liveness is
\* released before recovery, which no claim can observe: it takes recovery first.
ReleaseRunLocks(p) ==
  /\ recovery' = [r \in RunIDs |-> IF recovery[r] = p THEN NoProc ELSE recovery[r]]
  /\ liveness' = [r \in RunIDs |-> IF liveness[r] = p THEN NoProc ELSE liveness[r]]

\* Every operation returns with its descriptors closed.
Return(p) ==
  /\ pc'   = [pc EXCEPT ![p] = "idle"]
  /\ op'   = [op EXCEPT ![p] = "none"]
  /\ run'  = [run EXCEPT ![p] = NoRun]
  /\ todo' = [todo EXCEPT ![p] = {}]

-----------------------------------------------------------------------------
(***************************************************************************)
(* Opening and locking the authority, common to all operations.            *)
(***************************************************************************)

\* openAuthority, syncAuthorityCreation
OpenAuthority(p) ==
  /\ pc[p] = "open"
  /\ SyncAuthority
  /\ Go(p, "lock")
  /\ UNCHANGED <<name, entries, diskEntries, fresh, mishaps, locks, op, run, todo>>

LockedStep(operation) ==
  CASE operation = "sweep"  -> "list"
    [] operation = "create" -> "mkdir"
    [] OTHER                -> "check"

\* lockWithContext on the authority root
LockAuthority(p) ==
  /\ pc[p] = "lock"
  /\ authority = NoProc
  /\ authority' = p
  /\ Go(p, LockedStep(op[p]))
  /\ UNCHANGED <<tree, fresh, mishaps, recovery, liveness, op, run, todo>>

\* lockWithContext gives up when its context ends.  Create locks with
\* context.Background and waits for as long as it takes.
LockTimesOut(p) ==
  /\ pc[p] = "lock"
  /\ op[p] # "create"
  /\ Go(p, "abort")
  /\ UNCHANGED <<tree, fresh, mishaps, locks, op, run, todo>>

-----------------------------------------------------------------------------
(***************************************************************************)
(* removeUnpublished: empties and removes a directory with a temporary     *)
(* name, under the authority lock.                                         *)
(***************************************************************************)

UnlinkLiveness(p) ==
  /\ pc[p] = "unlinkLiveness"
  /\ entries[run[p]] \subseteq LockFiles
  /\ DropEntry(run[p], "liveness.lock")
  /\ Go(p, "unlinkRecovery")
  /\ UNCHANGED <<name, diskName, fresh, mishaps, locks, op, run, todo>>

UnlinkRecovery(p) ==
  /\ pc[p] = "unlinkRecovery"
  /\ DropEntry(run[p], "recovery.lock")
  /\ Go(p, "rmdir")
  /\ UNCHANGED <<name, diskName, fresh, mishaps, locks, op, run, todo>>

RemoveDirectory(p) ==
  /\ pc[p] = "rmdir"
  /\ SetName(run[p], "none")
  /\ Go(p, "syncRemoved")
  /\ UNCHANGED <<entries, diskEntries, fresh, mishaps, locks, op, run, todo>>

\* The last sync of removeUnpublished; its callers then unlock and return,
\* except the recovery snapshot, which goes on with the next entry.
SyncRemoved(p) ==
  /\ pc[p] = "syncRemoved"
  /\ SyncAuthority
  /\ \/ /\ op[p] = "sweep"
        /\ Go(p, "list")
        /\ UNCHANGED authority
     \/ /\ op[p] # "sweep"
        /\ authority' = NoProc
        /\ Go(p, "closeLease")
  /\ UNCHANGED <<name, entries, diskEntries, fresh, mishaps, recovery, liveness, op,
                 run, todo>>

-----------------------------------------------------------------------------
(***************************************************************************)
(* Owner.Create: publishRun, stageRun, commitRunPublication and, after a   *)
(* failure, discardRunPublication.                                         *)
(***************************************************************************)

StartCreate(p) ==
  /\ pc[p] = "idle"
  /\ \E r \in fresh :
       /\ fresh' = fresh \ {r}
       /\ run'   = [run EXCEPT ![p] = r]
  /\ op' = [op EXCEPT ![p] = "create"]
  /\ Go(p, "open")
  /\ UNCHANGED <<tree, mishaps, locks, todo>>

MakeStaging(p) ==
  /\ pc[p] = "mkdir"
  /\ SetName(run[p], "staging")
  /\ Go(p, "makeLiveness")
  /\ UNCHANGED <<entries, diskEntries, fresh, mishaps, locks, op, run, todo>>

MakeLiveness(p) ==
  /\ pc[p] = "makeLiveness"
  /\ AddEntry(run[p], "liveness.lock")
  /\ Go(p, "makeRecovery")
  /\ UNCHANGED <<name, diskName, fresh, mishaps, locks, op, run, todo>>

MakeRecovery(p) ==
  /\ pc[p] = "makeRecovery"
  /\ AddEntry(run[p], "recovery.lock")
  /\ Go(p, "syncStaging")
  /\ UNCHANGED <<name, diskName, fresh, mishaps, locks, op, run, todo>>

\* syncPublishedFiles, then the liveness lock of the new root
SyncStaging(p) ==
  /\ pc[p] = "syncStaging"
  /\ diskEntries' = [diskEntries EXCEPT ![run[p]] = {entries[run[p]]}]
  /\ liveness[run[p]] = NoProc
  /\ liveness' = [liveness EXCEPT ![run[p]] = p]
  /\ Go(p, "publish")
  /\ UNCHANGED <<name, entries, diskName, fresh, mishaps, authority, recovery, op, run,
                 todo>>

Publish(p) ==
  /\ pc[p] = "publish"
  /\ SetName(run[p], "published")
  /\ Go(p, "syncPublished")
  /\ UNCHANGED <<entries, diskEntries, fresh, mishaps, locks, op, run, todo>>

\* The sync that makes the publication durable; Create returns a LiveRun.
SyncPublished(p) ==
  /\ pc[p] = "syncPublished"
  /\ SyncAuthority
  /\ authority' = NoProc
  /\ Go(p, "live")
  /\ UNCHANGED <<name, entries, diskEntries, fresh, mishaps, recovery, liveness, op,
                 run, todo>>

\* discardRunPublication after the rename: the locks are already released.
Unpublish(p) ==
  /\ pc[p] = "unpublish"
  /\ SetName(run[p], "staging")
  /\ Go(p, "unlinkLiveness")
  /\ UNCHANGED <<entries, diskEntries, fresh, mishaps, locks, op, run, todo>>

-----------------------------------------------------------------------------
(***************************************************************************)
(* LiveRun: other owners keep their evidence in the root; the run ends by  *)
(* Complete, by Close, or by RetainLivenessUntil followed by its signal.   *)
(***************************************************************************)

\* hostnetwork and fileviews publish and remove their evidence through OpenRoot.
ChangeEvidence(p) ==
  /\ pc[p] \in {"live", "retained"}
  /\ \/ pc[p] = "live" /\ SetEvidence(run[p], {"evidence"})
     \/ SetEvidence(run[p], {})
  /\ UNCHANGED <<name, diskName, fresh, mishaps, locks, pc, op, run, todo>>

\* LiveRun.Close
CloseLive(p) ==
  /\ pc[p] = "live"
  /\ ReleaseRunLocks(p)
  /\ Return(p)
  /\ UNCHANGED <<tree, fresh, mishaps, authority>>

\* runLease.retainUntil
RetainLiveness(p) ==
  /\ pc[p] = "live"
  /\ Go(p, "retained")
  /\ UNCHANGED <<tree, fresh, mishaps, locks, op, run, todo>>

\* retainUntil's goroutine, once the containment signal is closed
ReleaseRetained(p) ==
  /\ pc[p] = "retained"
  /\ ReleaseRunLocks(p)
  /\ Return(p)
  /\ UNCHANGED <<tree, fresh, mishaps, authority>>

StartComplete(p) ==
  /\ pc[p] = "live"
  /\ op' = [op EXCEPT ![p] = "complete"]
  /\ Go(p, "awaitRecovery")
  /\ UNCHANGED <<tree, fresh, mishaps, locks, run, todo>>

\* completeLive takes the recovery lock before it opens the authority.
LockRecovery(p) ==
  /\ pc[p] = "awaitRecovery"
  /\ recovery[run[p]] = NoProc
  /\ recovery' = [recovery EXCEPT ![run[p]] = p]
  /\ Go(p, "open")
  /\ UNCHANGED <<tree, fresh, mishaps, authority, liveness, op, run, todo>>

\* Mutant: Complete waits for the recovery lock without its context.
CompleteWaits(p) == FALSE

CompleteTimesOut(p) ==
  /\ pc[p] = "awaitRecovery"
  /\ Go(p, "abort")
  /\ UNCHANGED <<tree, fresh, mishaps, locks, op, run, todo>>

-----------------------------------------------------------------------------
(***************************************************************************)
(* Owner.RecoverStale: snapshotRecoveryEntries sweeps temporary names and  *)
(* lists the published runs, claimRun then tries each of them.             *)
(***************************************************************************)

StartRecover(p) ==
  /\ pc[p] = "idle"
  /\ op' = [op EXCEPT ![p] = "sweep"]
  /\ Go(p, "open")
  /\ UNCHANGED <<tree, fresh, mishaps, locks, run, todo>>

\* Mutant: the sweep does not ask isTemporaryName.
AnyName == {r \in RunIDs : name[r] # "none"}

Temporary == {r \in RunIDs : name[r] \in {"staging", "removing"}}

Published == {r \in RunIDs : name[r] = "published"}

\* One temporary name is removed; the snapshot lists the rest when none is left.
SweepTemporary(p) ==
  /\ pc[p] = "list"
  /\ \E r \in Temporary : run' = [run EXCEPT ![p] = r]
  /\ Go(p, "unlinkLiveness")
  /\ UNCHANGED <<tree, fresh, mishaps, locks, op, todo>>

SnapshotPublished(p) ==
  /\ pc[p] = "list"
  /\ Temporary = {}
  /\ todo' = [todo EXCEPT ![p] = Published]
  /\ authority' = NoProc
  /\ run' = [run EXCEPT ![p] = NoRun]
  /\ op'  = [op EXCEPT ![p] = "claim"]
  /\ Go(p, "openRoot")
  /\ UNCHANGED <<tree, fresh, mishaps, recovery, liveness>>

\* claimRun opens the next root; a name that is gone is skipped.
ClaimRun(p) ==
  /\ pc[p] = "openRoot"
  /\ \E r \in todo[p] :
       /\ \A other \in todo[p] : r <= other
       /\ todo' = [todo EXCEPT ![p] = @ \ {r}]
       /\ \/ /\ name[r] = "published"
             /\ run' = [run EXCEPT ![p] = r]
             /\ Go(p, "openRecovery")
          \/ /\ name[r] # "published"
             /\ UNCHANGED <<run, pc>>
  /\ UNCHANGED <<tree, fresh, mishaps, locks, op>>

RecoverDone(p) ==
  /\ pc[p] = "openRoot"
  /\ todo[p] = {}
  /\ Return(p)
  /\ UNCHANGED <<tree, fresh, mishaps, locks>>

\* lockRunForRecovery: openLockFile
OpenRecovery(p) ==
  /\ pc[p] = "openRecovery"
  /\ Go(p, IF "recovery.lock" \in entries[run[p]] THEN "lockRecovery"
                                                  ELSE "claimFailed")
  /\ UNCHANGED <<tree, fresh, mishaps, locks, op, run, todo>>

\* lockRunForRecovery: tryLock; a busy recovery lock restarts the whole pass.
TryRecovery(p) ==
  /\ pc[p] = "lockRecovery"
  /\ \/ /\ recovery[run[p]] = NoProc
        /\ recovery' = [recovery EXCEPT ![run[p]] = p]
        /\ Go(p, "openLiveness")
     \/ /\ recovery[run[p]] # NoProc
        /\ Go(p, "retry")
        /\ UNCHANGED recovery
  /\ UNCHANGED <<tree, fresh, mishaps, authority, liveness, op, run, todo>>

\* checkRunLiveness: openLockFile
OpenLiveness(p) ==
  /\ pc[p] = "openLiveness"
  /\ \/ /\ "liveness.lock" \in entries[run[p]]
        /\ Go(p, "lockLiveness")
        /\ UNCHANGED recovery
     \/ /\ "liveness.lock" \notin entries[run[p]]
        /\ recovery' = [recovery EXCEPT ![run[p]] = NoProc]
        /\ Go(p, "claimFailed")
  /\ UNCHANGED <<tree, fresh, mishaps, authority, liveness, op, run, todo>>

\* Mutant: a run counts as stale whether or not its liveness lock is held.
AlwaysStale(r) == TRUE

Stale(r) == liveness[r] = NoProc

\* checkRunLiveness: tryLock; an active run is left alone.
TryLiveness(p) ==
  /\ pc[p] = "lockLiveness"
  /\ \/ /\ Stale(run[p])
        /\ liveness' = [liveness EXCEPT ![run[p]] = p]
        /\ Go(p, "callback")
        /\ UNCHANGED <<recovery, run>>
     \/ /\ ~Stale(run[p])
        /\ recovery' = [recovery EXCEPT ![run[p]] = NoProc]
        /\ Go(p, "openRoot")
        /\ run' = [run EXCEPT ![p] = NoRun]
        /\ UNCHANGED liveness
  /\ UNCHANGED <<tree, fresh, mishaps, authority, op, todo>>

\* claimRun's error ends RecoverStale.
ReturnClaimError(p) ==
  /\ pc[p] = "claimFailed"
  /\ Return(p)
  /\ UNCHANGED <<tree, fresh, mishaps, locks>>

\* waitForRetry: a new pass, or the end of the context
RestartPass(p) ==
  /\ pc[p] = "retry"
  /\ \/ /\ op'   = [op EXCEPT ![p] = "sweep"]
        /\ run'  = [run EXCEPT ![p] = NoRun]
        /\ todo' = [todo EXCEPT ![p] = {}]
        /\ Go(p, "open")
     \/ Return(p)
  /\ UNCHANGED <<tree, fresh, mishaps, locks>>

\* recoverClaim: the other owners recover, or report that they could not.
RecoverOwners(p) ==
  /\ pc[p] = "callback"
  /\ \/ /\ SetEvidence(run[p], {})
        /\ Go(p, "lock")
     \/ /\ UNCHANGED <<entries, diskEntries>>
        /\ Go(p, "abort")
  /\ UNCHANGED <<name, diskName, fresh, mishaps, locks, op, run, todo>>

-----------------------------------------------------------------------------
(***************************************************************************)
(* removeClaimedRun, under the authority lock, for Complete and recovery.  *)
(***************************************************************************)

\* Mutant: validateFixedEntries is not called.
RemovableWithEvidence(r) == name[r] = "published"

\* The root still has its name and holds exactly the two lock files.
Removable(r) == name[r] = "published" /\ entries[r] = LockFiles

Isolate(p) ==
  /\ pc[p] = "check"
  /\ Removable(run[p])
  /\ SetName(run[p], "removing")
  /\ Go(p, "syncIsolated")
  /\ UNCHANGED <<entries, diskEntries, fresh, mishaps, locks, op, run, todo>>

\* removeClaimedRun refuses a root that lost its name or holds an entry of an
\* owner that did not finish, removeUnpublished one with an unexpected entry.
RefuseRemoval(p) ==
  /\ pc[p] \in {"check", "unlinkLiveness"}
  /\ ~ IF pc[p] = "check" THEN Removable(run[p])
                          ELSE entries[run[p]] \subseteq LockFiles
  /\ authority' = NoProc
  /\ Go(p, "abort")
  /\ UNCHANGED <<tree, fresh, mishaps, recovery, liveness, op, run, todo>>

\* Mutant: the new name is not synced before the lock files are unlinked.
SkipSyncIsolated(p) ==
  /\ pc[p] = "syncIsolated"
  /\ Go(p, "unlinkLiveness")
  /\ UNCHANGED <<tree, fresh, mishaps, locks, op, run, todo>>

SyncIsolated(p) ==
  /\ pc[p] = "syncIsolated"
  /\ SyncAuthority
  /\ Go(p, "unlinkLiveness")
  /\ UNCHANGED <<name, entries, diskEntries, fresh, mishaps, locks, op, run, todo>>

\* runLease.close after a removal: recovery goes on with the next run, the
\* other operations return.
CloseLease(p) ==
  /\ pc[p] = "closeLease"
  /\ ReleaseRunLocks(p)
  /\ \/ /\ op[p] = "claim"
        /\ run' = [run EXCEPT ![p] = NoRun]
        /\ Go(p, "openRoot")
        /\ UNCHANGED <<op, todo>>
     \/ /\ op[p] # "claim"
        /\ Return(p)
  /\ UNCHANGED <<tree, fresh, mishaps, authority>>

\* runLease.close after an error, which the operation returns
Abort(p) ==
  /\ pc[p] = "abort"
  /\ ReleaseRunLocks(p)
  /\ Return(p)
  /\ UNCHANGED <<tree, fresh, mishaps, authority>>

-----------------------------------------------------------------------------
(***************************************************************************)
(* Failures.                                                               *)
(***************************************************************************)

Mishap == mishaps < MaxMishaps /\ mishaps' = mishaps + 1

\* A file system call of the next step fails: the caller undoes what it did.
Fault(p) ==
  /\ Mishap
  /\ \/ /\ pc[p] \in {"open", "openRoot", "openRecovery", "lockRecovery",
                     "openLiveness", "lockLiveness"}
        /\ Go(p, "abort")
        /\ UNCHANGED locks
     \/ /\ pc[p] \in {"makeLiveness", "makeRecovery", "syncStaging", "publish"}
        /\ ReleaseRunLocks(p)
        /\ Go(p, "unlinkLiveness")
        /\ UNCHANGED authority
     \/ /\ pc[p] = "syncPublished"
        /\ ReleaseRunLocks(p)
        /\ Go(p, "unpublish")
        /\ UNCHANGED authority
     \/ /\ pc[p] \in {"mkdir", "unpublish", "list", "check", "syncIsolated",
                     "unlinkLiveness", "unlinkRecovery", "rmdir", "syncRemoved"}
        /\ authority' = NoProc
        /\ Go(p, "abort")
        /\ UNCHANGED <<recovery, liveness>>
  /\ UNCHANGED <<tree, fresh, op, run, todo>>

\* The process dies: the kernel drops its locks, the tree stays as it is.
Crash(p) ==
  /\ Mishap
  /\ pc[p] # "idle"
  /\ authority' = IF authority = p THEN NoProc ELSE authority
  /\ ReleaseRunLocks(p)
  /\ Return(p)
  /\ UNCHANGED <<tree, fresh>>

\* The host loses power: every process dies and the tree is one of the
\* images the disk may hold.
LosePower ==
  /\ PowerLoss
  /\ \E n \in [RunIDs -> UNION {diskName[r] : r \in RunIDs}],
        c \in [RunIDs -> UNION {{{}} \cup diskEntries[r] : r \in RunIDs}] :
       /\ \A r \in RunIDs : n[r] \in diskName[r]
       /\ \A r \in RunIDs :
            IF n[r] = "none" THEN c[r] = {} ELSE c[r] \in diskEntries[r]
       /\ name'        = n
       /\ entries'     = c
       /\ diskName'    = [r \in RunIDs |-> {n[r]}]
       /\ diskEntries' = [r \in RunIDs |-> {c[r]}]
  /\ authority' = NoProc
  /\ recovery'  = [r \in RunIDs |-> NoProc]
  /\ liveness'  = [r \in RunIDs |-> NoProc]
  /\ pc'   = [p \in Procs |-> "idle"]
  /\ op'   = [p \in Procs |-> "none"]
  /\ run'  = [p \in Procs |-> NoRun]
  /\ todo' = [p \in Procs |-> {}]
  /\ UNCHANGED <<fresh, mishaps>>

-----------------------------------------------------------------------------
(***************************************************************************)
(* The specification.                                                      *)
(***************************************************************************)

\* What a process does once an operation was called, timeouts included
Work(p) ==
  \/ OpenAuthority(p)  \/ LockAuthority(p)  \/ LockTimesOut(p)
  \/ UnlinkLiveness(p) \/ UnlinkRecovery(p) \/ RemoveDirectory(p)
  \/ SyncRemoved(p)    \/ MakeStaging(p)    \/ MakeLiveness(p)
  \/ MakeRecovery(p)   \/ SyncStaging(p)    \/ Publish(p)
  \/ SyncPublished(p)  \/ Unpublish(p)      \/ LockRecovery(p)
  \/ CompleteTimesOut(p)
  \/ SweepTemporary(p) \/ SnapshotPublished(p) \/ ClaimRun(p)
  \/ RecoverDone(p)    \/ OpenRecovery(p)   \/ TryRecovery(p)
  \/ OpenLiveness(p)   \/ TryLiveness(p)    \/ ReturnClaimError(p)
  \/ RestartPass(p)    \/ RecoverOwners(p)  \/ Isolate(p)
  \/ RefuseRemoval(p)  \/ SyncIsolated(p)   \/ CloseLease(p) \/ Abort(p)

\* What the rest of the process decides: its operations and the use of a run
Caller(p) ==
  \/ StartCreate(p)    \/ StartRecover(p)   \/ StartComplete(p)
  \/ ChangeEvidence(p) \/ CloseLive(p)      \/ RetainLiveness(p)
  \/ ReleaseRetained(p)

Next ==
  \/ \E p \in Procs : Work(p) \/ Caller(p) \/ Fault(p) \/ Crash(p)
  \/ LosePower

\* A process that was called keeps running: the Go scheduler runs its
\* goroutine, and lock waits are bounded by the caller's context.
Fairness == \A p \in Procs : WF_vars(Work(p))

Spec == Init /\ [][Next]_vars /\ Fairness

-----------------------------------------------------------------------------
(***************************************************************************)
(* Properties.                                                             *)
(***************************************************************************)

\* The caller of Create has a LiveRun it has not given up.
Live(p) == pc[p] \in {"live", "retained", "awaitRecovery"} \/ op[p] = "complete"

\* RecoverStale holds a runLease: claimRun reported claimStale.
Recovering(p) ==
  /\ op[p] = "claim"
  /\ pc[p] \notin {"openRoot", "openRecovery", "lockRecovery", "openLiveness",
                   "lockLiveness", "retry", "claimFailed", "abort"}

\* A run has one owner at a time: the process whose LiveRun it is, or the one
\* that recovers it as stale.  owner.go: "offers each provably stale run
\* under an exclusive lease".
ExclusiveOwnership ==
  \A p, q \in Procs :
    /\ Live(p) \/ Recovering(p)
    /\ Live(q) \/ Recovering(q)
    /\ run[p] = run[q]
    => p = q

\* A run that its process still uses, or retains for processes it could not
\* contain, keeps its published root with both lock files: no concurrent
\* recovery sweeps, isolates or empties it.
ActiveRunUntouched ==
  \A p \in Procs :
    pc[p] \in {"live", "retained", "awaitRecovery"} =>
      /\ name[run[p]] = "published"
      /\ LockFiles \subseteq entries[run[p]]
      /\ liveness[run[p]] = p

\* What the network and view owners left in a root stays reachable under the
\* run's published name until they have undone it, whichever process or
\* crash ends the run: removal never hides it from the next recovery.
EvidenceReachable ==
  \A r \in RunIDs :
    "evidence" \in entries[r] => name[r] = "published" /\ LockFiles \subseteq entries[r]

\* Where only power is lost: whatever that leaves, a root that the disk shows
\* as published has both lock files, so that the next recovery can claim it:
\* publication syncs the files first, removal syncs the new name before it
\* unlinks them.
DurablyClaimable ==
  mishaps = 0 => \A r \in RunIDs :
    "published" \in diskName[r] => \A c \in diskEntries[r] : LockFiles \subseteq c

\* Recovery never fails on a run that another process completes or recovers
\* at the same time.
ClaimNeverFails == \A p \in Procs : pc[p] # "claimFailed"

\* LiveRun.Complete returns whatever the other processes do: both of its
\* lock waits end with its context.
CompletionReturns ==
  \A p \in Procs : pc[p] = "awaitRecovery" ~> pc[p] = "idle"

\* No critical section of a running process keeps the authority lock forever
\* (Create waits for it without a deadline), error paths included.
AuthorityReleased ==
  \A p \in Procs : authority = p ~> authority # p

\* Nobody waits for ever, whoever dies, fails or loses power: a completion
\* returns and the authority lock is passed on.
NobodyWaits == CompletionReturns /\ AuthorityReleased

-----------------------------------------------------------------------------
(***************************************************************************)
(* The inductive invariant behind ExclusiveOwnership, ActiveRunUntouched   *)
(* and EvidenceReachable.  Names change only under the authority lock, by  *)
(* a process whose step says what the name of its run is; liveness stays   *)
(* with the owner; each run has one creator; evidence appears only in a    *)
(* run whose publication is durable.                                       *)
(***************************************************************************)

\* The steps that rename, empty or remove a directory of the authority
Changing ==
  {"list", "check", "mkdir", "makeLiveness", "makeRecovery", "syncStaging",
   "publish", "syncPublished", "unpublish", "syncIsolated", "unlinkLiveness",
   "unlinkRecovery", "rmdir", "syncRemoved"}

\* The steps of a process that has no run root yet
Rootless == {"idle", "list", "openRoot"}

\* The steps of claimRun, before it reports a stale run
Claiming == {"openRecovery", "lockRecovery", "openLiveness", "lockLiveness",
             "retry", "claimFailed"}

\* The steps of Create that the failure of a later one undoes
Staging == {"mkdir", "makeLiveness", "makeRecovery", "syncStaging", "publish",
            "syncPublished", "unpublish"}

\* The steps of removeUnpublished
Emptying == {"unlinkLiveness", "unlinkRecovery", "rmdir", "syncRemoved"}

Creator(p) == op[p] \in {"create", "complete"}

\* The process owns the run: it made it live, or claimed it as stale.
Owner(p) ==
  \/ pc[p] \in {"live", "retained"}
  \/ op[p] = "complete"
  \/ op[p] = "claim" /\ pc[p] \in {"callback", "lock", "check", "syncIsolated",
                                   "closeLease"} \cup Emptying

AuthorityInv == \A p \in Procs : authority = p <=> pc[p] \in Changing

\* Which operation each step belongs to, and whether it has a run root
StepInv ==
  \A p \in Procs :
    /\ pc[p] = "idle" <=> op[p] = "none"
    /\ pc[p] = "list" => op[p] = "sweep"
    /\ pc[p] \in Claiming \cup {"openRoot", "callback"} => op[p] = "claim"
    /\ pc[p] \in Staging \cup {"live", "retained"} => op[p] = "create"
    /\ pc[p] = "awaitRecovery" => op[p] = "complete"
    /\ pc[p] \in {"check", "syncIsolated"} => op[p] \in {"claim", "complete"}
    /\ pc[p] = "open" => op[p] \in {"sweep", "create", "complete"}
    /\ op[p] = "sweep" => pc[p] \in {"open", "lock", "list", "abort"} \cup Emptying
    /\ op[p] = "create" => pc[p] \in {"open", "lock", "live", "retained", "closeLease",
                                      "abort"} \cup Staging \cup Emptying
    /\ op[p] = "complete" => pc[p] \in {"awaitRecovery", "open", "lock", "check",
                                        "syncIsolated", "closeLease", "abort"}
                                        \cup Emptying
    /\ Creator(p) \/ Owner(p) \/ pc[p] \in Claiming \cup Emptying => run[p] \in RunIDs

\* A run ID is given out once.
CreatorInv ==
  /\ \A p \in Procs : Creator(p) => run[p] \notin fresh
  /\ \A p, q \in Procs : Creator(p) /\ Creator(q) /\ run[p] = run[q] => p = q
  /\ \A r \in fresh : name[r] = "none" /\ diskName[r] = {"none"}

\* Owners hold the liveness lock, from the moment the root can be published.
LivenessInv ==
  \A p \in Procs :
    Owner(p) \/ pc[p] \in {"publish", "syncPublished"} => liveness[run[p]] = p

\* The name of the run that the holder of the authority lock works on
NameInv ==
  \A p \in Procs :
    /\ pc[p] = "mkdir" => name[run[p]] = "none"
    /\ op[p] = "create" /\ pc[p] \in {"open", "lock"} => name[run[p]] = "none"
    /\ pc[p] \in {"makeLiveness", "makeRecovery", "syncStaging", "publish"} =>
         name[run[p]] = "staging"
    /\ pc[p] \in {"syncPublished", "unpublish", "live", "retained", "awaitRecovery"} =>
         name[run[p]] = "published"
    /\ pc[p] = "syncIsolated" => name[run[p]] = "removing"
    /\ pc[p] \in {"unlinkLiveness", "unlinkRecovery", "rmdir"} =>
         name[run[p]] \in {"staging", "removing"}

\* What the root of a run being created or used contains, in memory and on disk
ContentInv ==
  \A p \in Procs :
    /\ pc[p] = "makeRecovery" => "liveness.lock" \in entries[run[p]]
    /\ pc[p] \in {"syncStaging", "publish", "syncPublished", "live", "retained",
                  "awaitRecovery"} => LockFiles \subseteq entries[run[p]]
    /\ pc[p] \in {"publish", "syncPublished", "live", "retained"} =>
         \A c \in diskEntries[run[p]] : LockFiles \subseteq c
    /\ pc[p] \in {"live", "retained"} => diskName[run[p]] = {"published"}
    /\ pc[p] \in Staging => "evidence" \notin entries[run[p]]

\* Evidence that a power loss may leave is under a durable published name.
DiskEvidenceInv ==
  \A r \in RunIDs : \A c \in diskEntries[r] :
    "evidence" \in c => /\ "evidence" \in entries[r]
                       /\ diskName[r] = {"published"}
                       /\ LockFiles \subseteq c

IndInv ==
  /\ TypeOK
  /\ AuthorityInv
  /\ StepInv
  /\ CreatorInv
  /\ LivenessInv
  /\ NameInv
  /\ ContentInv
  /\ EvidenceReachable
  /\ DiskEvidenceInv

\* What DurablyClaimable needs besides: a root whose disk may show it published
\* is published, or its isolation is about to be synced; a publication is undone
\* only after a call has failed.
DurableInv ==
  /\ \A r \in RunIDs : name[r] \in diskName[r]
  /\ DurablyClaimable
  /\ mishaps = 0 =>
       /\ \A p \in Procs : pc[p] # "unpublish"
       /\ \A r \in RunIDs :
            "published" \in diskName[r] =>
              name[r] = "published" \/ \E p \in Procs : pc[p] = "syncIsolated" /\ run[p] = r

=============================================================================
