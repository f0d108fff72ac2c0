------------------------------ MODULE FileViews ------------------------------
(***************************************************************************)
(* The read-only views of one run: preparing the mountpoint and its        *)
(* ownership file, serving the mount, leasing views, closing the set in    *)
(* steps that may fail and are retried, and recovering what a dead         *)
(* supervisor left in the run root (internal/fileviews, and the lease over *)
(* the source of internal/sourcefiles/access.go).                          *)
(* Identities of inodes are not modelled: nothing replaces the entries of  *)
(* a private run root.                                                     *)
(***************************************************************************)
EXTENDS Naturals, FiniteSets

CONSTANTS
  Transfers,
  MaxFaults     \* bound: system calls that fail

ASSUME ViewsAssumption == MaxFaults \in Nat

VARIABLES
  mountpoint,   \* the entry "views" exists in the run root
  ownership,    \* the ownership file: "absent", "torn", "complete"
  mount,        \* "none", "serving", "draining" (unmounted), "stopped"
  access,       \* the lease over the source is held
  vpc,          \* where Open or Close stands
  set,          \* the fields of FileViewSet that Close leaves for its retry
  leases,       \* transfers whose view is leased
  vret,         \* what the last Close returned: "none", "ok", "error"
  erase,        \* where the deletion of the evidence stands, and for whom
  faults        \* failures of system calls that may still happen

viewEvidence == <<mountpoint, ownership>>
viewVars == <<mountpoint, ownership, mount, access, vpc, set, leases, vret, erase>>

NoSet == [closing |-> FALSE, drained |-> FALSE, files |-> {}, unmounted |-> FALSE,
          stopped |-> FALSE, closed |-> FALSE]
NoErase == [pc |-> "idle", by |-> "none"]

ViewsInit ==
  /\ mountpoint = FALSE /\ ownership = "absent"
  /\ mount = "none" /\ access = FALSE
  /\ vpc \in {"idle", "access"} /\ set = NoSet /\ leases = {} /\ vret = "none"
  /\ erase = NoErase
  /\ faults = MaxFaults

\* The process ends: its mount namespace and its descriptors go, the run root stays.
ViewsDie ==
  /\ mount' = "none" /\ access' = FALSE
  /\ vpc' = "idle" /\ set' = NoSet /\ leases' = {} /\ vret' = "none"
  /\ erase' = IF erase.by = "stale" THEN erase ELSE NoErase
  /\ UNCHANGED <<viewEvidence, faults>>

\* A step succeeds, or spends one of the failures the environment has left.
Outcome(ok) == IF ok THEN UNCHANGED faults ELSE faults > 0 /\ faults' = faults - 1

EvidenceLeft == mountpoint \/ ownership # "absent"

-----------------------------------------------------------------------------
(* FileViews.Open                                                          *)

\* prepareLogicalViews: the lease over the source comes first.
AcquireAccess(ok) ==
  /\ vpc = "access"
  /\ Outcome(ok)
  /\ access' = ok
  /\ vpc' = IF ok THEN "root" ELSE "refused"
  /\ UNCHANGED <<viewEvidence, mount, set, leases, vret, erase>>

\* Every way out of openFileViewSet without a set returns the source access.
RefuseSet == vpc' = "refused" /\ access' = FALSE

\* openRunRoot and createMountpoint
CreateMountpoint(ok) ==
  /\ vpc = "root"
  /\ Outcome(ok)
  /\ ok => ~EvidenceLeft
  /\ mountpoint' = ok
  /\ IF ok THEN vpc' = "inspect" /\ UNCHANGED access ELSE RefuseSet
  /\ UNCHANGED <<ownership, mount, set, leases, vret, erase>>

BeginErase(who) == erase' = [pc |-> "observe", by |-> who]

\* Open fails after it created the mountpoint: recoverFileViewEvidence.
UndoEvidence == vpc' = "undo" /\ BeginErase("undo")

\* inspectMountpoint and the check that the new directory is not a mount
InspectMountpoint(ok) ==
  /\ vpc = "inspect"
  /\ Outcome(ok)
  /\ IF ok THEN vpc' = "ownership" /\ UNCHANGED erase
           ELSE UndoEvidence
  /\ UNCHANGED <<viewEvidence, mount, access, set, leases, vret>>

\* writeFileViewOwnership: the file exists before it has its contents.
CreateOwnership(ok) ==
  /\ vpc = "ownership"
  /\ Outcome(ok)
  /\ IF ok THEN ownership' = "torn" /\ vpc' = "write" /\ UNCHANGED erase
           ELSE UndoEvidence /\ UNCHANGED ownership
  /\ UNCHANGED <<mountpoint, mount, access, set, leases, vret>>

\* It is written and synced; a failure leaves it torn, or complete but not synced.
WriteOwnership(ok) ==
  /\ vpc = "write"
  /\ Outcome(ok)
  /\ IF ok THEN ownership' = "complete" /\ vpc' = "sync" /\ UNCHANGED erase
           ELSE UndoEvidence /\ ownership' \in {"torn", "complete"}
  /\ UNCHANGED <<mountpoint, mount, access, set, leases, vret>>

SyncEvidence(ok) ==
  /\ vpc = "sync"
  /\ Outcome(ok)
  /\ IF ok THEN vpc' = "mount" /\ UNCHANGED erase
           ELSE UndoEvidence
  /\ UNCHANGED <<viewEvidence, mount, access, set, leases, vret>>

\* mountReadOnlyViews: the server and the goroutine that awaits it start.
MountViews(ok) ==
  /\ vpc = "mount"
  /\ Outcome(ok)
  /\ IF ok THEN vpc' = "views" /\ mount' = "serving" /\ UNCHANGED erase
           ELSE vpc' = "undo" /\ BeginErase("prepared") /\ UNCHANGED mount
  /\ UNCHANGED <<viewEvidence, access, set, leases, vret>>

\* The evidence of a set that will not exist is deleted, or left for recovery.
UndoDone ==
  /\ vpc = "undo" /\ erase.pc \in {"done", "failed"}
  /\ RefuseSet
  /\ erase' = NoErase
  /\ UNCHANGED <<viewEvidence, mount, set, leases, vret, faults>>

\* openMountedViews: a failure still returns the set, with the views it opened.
OpenMountedViews(ok, opened) ==
  /\ vpc = "views"
  /\ Outcome(ok)
  /\ IF ok THEN opened = Transfers ELSE opened # Transfers
  /\ set' = [NoSet EXCEPT !.files = opened]
  /\ vpc' = IF ok THEN "open" ELSE "partial"
  /\ UNCHANGED <<viewEvidence, mount, access, leases, vret, erase>>

-----------------------------------------------------------------------------
(* Leases                                                                  *)

OpenView(t) ==
  /\ ~set.closing /\ ~set.closed /\ t \in set.files
  /\ leases' = leases \cup {t}
  /\ UNCHANGED <<viewEvidence, mount, access, vpc, set, vret, erase, faults>>

\* ViewLease.Close and releaseLease, which signals the drain of a closing set.
ReleaseLease(t) ==
  /\ t \in leases
  /\ leases' = leases \ {t}
  /\ set' = [set EXCEPT !.drained = @ \/ (set.closing /\ leases' = {})]
  /\ UNCHANGED <<viewEvidence, mount, access, vpc, vret, erase, faults>>

-----------------------------------------------------------------------------
(* FileViewSet.Close                                                       *)

ViewsReturn(result) == vret' = result /\ vpc' = "open"

\* beginClose, up to its wait
BeginClose ==
  /\ vpc \in {"open", "partial"}
  /\ vpc' = "drain" /\ vret' = "none"
  /\ set' = [set EXCEPT !.closing = TRUE,
                        !.drained = @ \/ (~set.closing /\ leases = {})]
  /\ UNCHANGED <<viewEvidence, mount, access, leases, erase, faults>>

\* beginClose is done: a closed set returns, another one closes its views.
Drained ==
  /\ vpc = "drain" /\ set.drained
  /\ IF set.closed
     THEN ViewsReturn("ok") /\ UNCHANGED set
     ELSE vpc' = "unmount" /\ set' = [set EXCEPT !.files = {}] /\ UNCHANGED vret
  /\ UNCHANGED <<viewEvidence, mount, access, leases, erase, faults>>

DrainTimesOut ==
  /\ vpc = "drain" /\ ~set.drained
  /\ ViewsReturn("error")
  /\ UNCHANGED <<viewEvidence, mount, access, set, leases, erase, faults>>

\* stopMountedFilesystem, its unmount: once, and not again in a retry
Unmount(ok) ==
  /\ vpc = "unmount"
  /\ IF set.unmounted
     THEN ok /\ vpc' = "wait" /\ UNCHANGED <<mount, set, vret, faults>>
     ELSE /\ Outcome(ok)
          /\ IF ok
             THEN /\ mount' = "draining" /\ vpc' = "wait"
                  /\ set' = [set EXCEPT !.unmounted = TRUE]
                  /\ UNCHANGED vret
             ELSE ViewsReturn("error") /\ UNCHANGED <<mount, set>>
  /\ UNCHANGED <<viewEvidence, access, leases, erase>>

\* The server answers what it has begun and ends.
ServerStops ==
  /\ mount = "draining"
  /\ mount' = "stopped"
  /\ UNCHANGED <<viewEvidence, access, vpc, set, leases, vret, erase, faults>>

\* stopMountedFilesystem, its wait
ServerStopped ==
  /\ vpc = "wait" /\ (set.stopped \/ mount = "stopped")
  /\ set' = [set EXCEPT !.stopped = TRUE]
  /\ vpc' = "return"
  /\ UNCHANGED <<viewEvidence, mount, access, leases, vret, erase, faults>>

WaitTimesOut ==
  /\ vpc = "wait" /\ ~set.stopped /\ mount # "stopped"
  /\ ViewsReturn("error")
  /\ UNCHANGED <<viewEvidence, mount, access, set, leases, erase, faults>>

\* returnSourceAccess; an error of it is only reported.
ReturnAccess ==
  /\ vpc = "return"
  /\ access' = FALSE
  /\ vpc' = "erase"
  /\ BeginErase("close")
  /\ UNCHANGED <<viewEvidence, mount, set, leases, vret, faults>>

\* removeOwnershipEvidence and the end of Close
CloseDone ==
  /\ vpc = "erase" /\ erase.pc \in {"done", "failed"}
  /\ IF erase.pc = "done"
     THEN ViewsReturn("ok") /\ set' = [set EXCEPT !.closed = TRUE]
     ELSE ViewsReturn("error") /\ UNCHANGED set
  /\ erase' = NoErase
  /\ UNCHANGED <<viewEvidence, mount, access, leases, faults>>

-----------------------------------------------------------------------------
(* Deleting the evidence, for Open, for Close and for the recovery of a    *)
(* stale run.                                                              *)

EraseTo(where) == erase' = [erase EXCEPT !.pc = where]

\* deleteFileViewEvidence: what it deletes first, of what is present.
FirstToErase ==
  IF mountpoint THEN "mountpoint" ELSE IF ownership # "absent" THEN "ownership" ELSE "sync"

\* Mutant: recovery wants complete ownership evidence, like the set's owner.
DemandComplete(seesMount) ==
  /\ ~(mountpoint /\ seesMount)
  /\ ownership # "torn"

\* validateRecoverableFileViewEvidence, for a stale run and for a failed Open,
\* and validateOwnedFileViewEvidence, for who has prepared the evidence.
Acceptable(seesMount) ==
  /\ ~(mountpoint /\ seesMount)
  /\ erase.by \in {"prepared", "close"} => ownership # "torn"

\* observeFileViewEvidence and its validation.  The mount is visible in the
\* supervisor's own mount namespace only.
EraseObserve(ok) ==
  /\ erase.pc = "observe"
  /\ Outcome(ok)
  /\ EraseTo(IF ok /\ Acceptable(erase.by # "stale" /\ mount = "serving")
             THEN FirstToErase ELSE "failed")
  /\ UNCHANGED <<viewEvidence, mount, access, vpc, set, leases, vret>>

EraseMountpoint(ok) ==
  /\ erase.pc = "mountpoint"
  /\ Outcome(ok)
  /\ mountpoint' = ~ok
  /\ EraseTo(IF ~ok THEN "failed" ELSE IF ownership # "absent" THEN "ownership" ELSE "sync")
  /\ UNCHANGED <<ownership, mount, access, vpc, set, leases, vret>>

EraseOwnership(ok) ==
  /\ erase.pc = "ownership"
  /\ Outcome(ok)
  /\ ownership' = IF ok THEN "absent" ELSE ownership
  /\ EraseTo(IF ok THEN "sync" ELSE "failed")
  /\ UNCHANGED <<mountpoint, mount, access, vpc, set, leases, vret>>

EraseSync(ok) ==
  /\ erase.pc = "sync"
  /\ Outcome(ok)
  /\ EraseTo(IF ok THEN "done" ELSE "failed")
  /\ UNCHANGED <<viewEvidence, mount, access, vpc, set, leases, vret>>

-----------------------------------------------------------------------------
OpenStep ==
  \/ \E ok \in BOOLEAN :
        \/ AcquireAccess(ok) \/ CreateMountpoint(ok) \/ InspectMountpoint(ok)
        \/ SyncEvidence(ok) \/ MountViews(ok)
        \/ CreateOwnership(ok) \/ WriteOwnership(ok)
        \/ \E opened \in SUBSET Transfers : OpenMountedViews(ok, opened)
  \/ UndoDone
CloseStep ==
  \/ Drained \/ DrainTimesOut \/ ServerStopped \/ WaitTimesOut \/ ReturnAccess \/ CloseDone
  \/ \E ok \in BOOLEAN : Unmount(ok)
\* Any client of a set: it leases views and closes it, again after an error.
ViewClientStep ==
  /\ vpc \in {"open", "partial", "drain", "unmount", "wait"}
  /\ BeginClose \/ \E t \in Transfers : ReleaseLease(t) \/ (t \notin leases /\ OpenView(t))
EraseStep ==
  \E ok \in BOOLEAN :
    EraseObserve(ok) \/ EraseMountpoint(ok) \/ EraseOwnership(ok) \/ EraseSync(ok)

ViewsTypeOK ==
  /\ mountpoint \in BOOLEAN /\ ownership \in {"absent", "torn", "complete"}
  /\ mount \in {"none", "serving", "draining", "stopped"}
  /\ access \in BOOLEAN
  /\ vpc \in {"idle", "access", "root", "inspect", "ownership", "write", "sync", "mount", "views",
              "undo", "refused", "partial", "open", "drain", "unmount", "wait", "return",
              "erase"}
  /\ set \in [closing : BOOLEAN, drained : BOOLEAN, files : SUBSET Transfers,
              unmounted : BOOLEAN, stopped : BOOLEAN, closed : BOOLEAN]
  /\ leases \subseteq Transfers
  /\ vret \in {"none", "ok", "error"}
  /\ erase \in [pc : {"idle", "observe", "mountpoint", "ownership", "sync", "done", "failed"},
                by : {"none", "undo", "prepared", "close", "stale"}]
  /\ faults \in 0..MaxFaults

\* While the server may still answer a command or a request it has begun, the
\* descriptors of the source are held and the run root names the mount, so
\* that whoever finds the root after a crash knows of it (openFileViewSet,
\* FileViewSet.Close).
ServingIsBacked ==
  mount \in {"serving", "draining"} => access /\ mountpoint /\ ownership = "complete"

\* Whatever failed in earlier calls, a Close that returns no error has left
\* nothing: no lease, view, mount or source access, and no evidence.
ClosedLeavesNothing ==
  set.closed => /\ leases = {} /\ set.files = {}
                /\ mount = "stopped" /\ ~access /\ ~EvidenceLeft

-----------------------------------------------------------------------------
(* The invariant behind them.                                              *)

\* Where Open stands before there is a set, and where Close does.
Opening == {"access", "root", "inspect", "ownership", "write", "sync", "mount", "undo"}
Closing == {"drain", "unmount", "wait", "return", "erase"}

\* The mount and the leases, from the step and from what Close has done.
MountInv ==
  /\ vpc \in Opening \cup {"idle", "refused"} => mount = "none" /\ set = NoSet /\ leases = {}
  /\ vpc = "views" => mount = "serving" /\ set = NoSet /\ leases = {}
  /\ vpc \in Closing \cup {"partial", "open"} =>
       IF set.unmounted THEN mount \in {"draining", "stopped"} ELSE mount = "serving"
  /\ vpc = "partial" => ~set.closing
  /\ set.stopped => set.unmounted /\ mount = "stopped"
  /\ vpc \in {"wait", "return", "erase"} => set.unmounted
  /\ vpc \in {"return", "erase"} => set.stopped

\* A Close goes through its steps in this order, also when it is called again.
CloseInv ==
  /\ set.drained => set.closing /\ leases = {}
  /\ set.unmounted => set.drained /\ set.files = {}
  /\ vpc \in {"unmount", "wait", "return", "erase"} => set.drained /\ set.files = {}
  /\ vpc = "erase" => ~access
  /\ set.closed => /\ set.stopped /\ vpc \in {"open", "drain"}
                   /\ ~access /\ ~EvidenceLeft

\* The source and the evidence that a mount needs.
BackedInv ==
  /\ vpc \in (Opening \ {"access"}) \cup {"views", "partial"} => access
  /\ vpc \in {"access", "root"} => ~EvidenceLeft
  /\ vpc \in {"inspect", "ownership", "write", "sync", "mount"} => mountpoint
  /\ vpc \in {"sync", "mount"} => ownership = "complete"
  /\ ServingIsBacked

\* Who deletes the evidence, and what is deleted by each step.
EraseInv ==
  /\ erase.by \in {"undo", "prepared"} <=> vpc = "undo"
  /\ erase.by = "close" <=> vpc = "erase"
  /\ erase.by = "none" <=> erase.pc = "idle"
  /\ erase.by = "stale" => vpc \in {"idle", "refused", "open"} /\ mount \in {"none", "stopped"}
  /\ erase.pc = "mountpoint" => mountpoint
  /\ erase.pc = "ownership" => ~mountpoint
  /\ erase.pc \in {"sync", "done"} => ~EvidenceLeft

ViewsInv == ViewsTypeOK /\ MountInv /\ CloseInv /\ BackedInv /\ EraseInv
=============================================================================
