------------------------- MODULE TransferRunProofs -------------------------
(***************************************************************************)
(* Proofs about TransferRun with FileViews and NamespaceResolvers, for any *)
(* number of transfers, listeners, queries and failing calls.              *)
(***************************************************************************)
EXTENDS TransferRun, TLAPS

-----------------------------------------------------------------------------
(* FileViews                                                               *)

USE DEF viewEvidence, viewVars, workerVars, shutdownVars, resolverVars

\* The source is leased.
LEMMA AcquireAccessViews ==
  ASSUME ViewsInv, NEW ok \in BOOLEAN, AcquireAccess(ok)
  PROVE  ViewsInv'
<1>1. ViewsTypeOK'
  BY ViewsAssumption DEF ViewsInv, ViewsTypeOK, AcquireAccess, Outcome
<1>2. MountInv'
  BY DEF ViewsInv, ViewsTypeOK, MountInv, Opening, Closing, EvidenceLeft, AcquireAccess,
     Outcome
<1>3. CloseInv'
  BY DEF ViewsInv, ViewsTypeOK, CloseInv, Opening, Closing, EvidenceLeft, AcquireAccess,
     Outcome
<1>4. BackedInv'
  BY DEF ViewsInv, ViewsTypeOK, BackedInv, Opening, Closing, EvidenceLeft, ServingIsBacked,
     AcquireAccess, Outcome
<1>5. EraseInv'
  BY DEF ViewsInv, ViewsTypeOK, EraseInv, Opening, Closing, EvidenceLeft, AcquireAccess,
     Outcome
<1> QED BY <1>1, <1>2, <1>3, <1>4, <1>5 DEF ViewsInv

\* The mountpoint is created.
LEMMA CreateMountpointViews ==
  ASSUME ViewsInv, NEW ok \in BOOLEAN, CreateMountpoint(ok)
  PROVE  ViewsInv'
<1>1. ViewsTypeOK'
  <2>1. mountpoint' \in BOOLEAN /\ access' \in BOOLEAN
    BY Zenon DEF ViewsInv, ViewsTypeOK, CreateMountpoint, RefuseSet
  <2>2. faults' \in 0..MaxFaults
    BY ViewsAssumption DEF ViewsInv, ViewsTypeOK, CreateMountpoint, Outcome
  <2>3. vpc' \in {"inspect", "refused"} /\ UNCHANGED <<ownership, mount, set, leases, vret,
                                                       erase>>
    BY DEF CreateMountpoint, RefuseSet
  <2> QED BY <2>1, <2>2, <2>3 DEF ViewsInv, ViewsTypeOK
<1>2. MountInv'
  BY DEF ViewsInv, ViewsTypeOK, MountInv, Opening, Closing, EvidenceLeft, CreateMountpoint,
     Outcome, RefuseSet
<1>3. CloseInv'
  BY DEF ViewsInv, ViewsTypeOK, CloseInv, Opening, Closing, EvidenceLeft, CreateMountpoint,
     Outcome, RefuseSet
<1>4. BackedInv'
  BY DEF ViewsInv, BackedInv, Opening, EvidenceLeft, ServingIsBacked, CreateMountpoint,
     RefuseSet
<1>5. EraseInv'
  BY DEF ViewsInv, ViewsTypeOK, EraseInv, Opening, Closing, EvidenceLeft, CreateMountpoint,
     Outcome, RefuseSet
<1> QED BY <1>1, <1>2, <1>3, <1>4, <1>5 DEF ViewsInv

\* The mountpoint is inspected.
LEMMA InspectMountpointViews ==
  ASSUME ViewsInv, NEW ok \in BOOLEAN, InspectMountpoint(ok)
  PROVE  ViewsInv'
<1>1. ViewsTypeOK'
  BY ViewsAssumption DEF ViewsInv, ViewsTypeOK, InspectMountpoint, Outcome, UndoEvidence,
     BeginErase
<1>2. MountInv'
  BY DEF ViewsInv, MountInv, Opening, Closing, InspectMountpoint, UndoEvidence
<1>3. CloseInv'
  BY DEF ViewsInv, CloseInv, InspectMountpoint, UndoEvidence
<1>4. BackedInv'
  BY DEF ViewsInv, BackedInv, Opening, ServingIsBacked, InspectMountpoint, UndoEvidence
<1>5. EraseInv'
  BY DEF ViewsInv, EraseInv, EvidenceLeft, InspectMountpoint, UndoEvidence, BeginErase
<1> QED BY <1>1, <1>2, <1>3, <1>4, <1>5 DEF ViewsInv

\* The ownership file is created.
LEMMA CreateOwnershipViews ==
  ASSUME ViewsInv, NEW ok \in BOOLEAN, CreateOwnership(ok)
  PROVE  ViewsInv'
<1>1. ViewsTypeOK'
  BY ViewsAssumption DEF ViewsInv, ViewsTypeOK, CreateOwnership, Outcome, UndoEvidence,
     BeginErase
<1>2. MountInv'
  BY DEF ViewsInv, MountInv, Opening, Closing, CreateOwnership, UndoEvidence
<1>3. CloseInv'
  BY DEF ViewsInv, CloseInv, CreateOwnership, UndoEvidence
<1>4. BackedInv'
  BY DEF ViewsInv, BackedInv, Opening, ServingIsBacked, MountInv, CreateOwnership,
     UndoEvidence
<1>5. EraseInv'
  BY DEF ViewsInv, ViewsTypeOK, EraseInv, Opening, Closing, CreateOwnership, UndoEvidence,
     BeginErase
<1> QED BY <1>1, <1>2, <1>3, <1>4, <1>5 DEF ViewsInv

\* The ownership file is written.
LEMMA WriteOwnershipViews ==
  ASSUME ViewsInv, NEW ok \in BOOLEAN, WriteOwnership(ok)
  PROVE  ViewsInv'
<1>1. ViewsTypeOK'
  BY ViewsAssumption DEF ViewsInv, ViewsTypeOK, WriteOwnership, Outcome, UndoEvidence,
     BeginErase
<1>2. MountInv'
  BY DEF ViewsInv, MountInv, Opening, Closing, WriteOwnership, UndoEvidence
<1>3. CloseInv'
  BY DEF ViewsInv, CloseInv, WriteOwnership, UndoEvidence
<1>4. BackedInv'
  BY DEF ViewsInv, BackedInv, Opening, ServingIsBacked, MountInv, WriteOwnership,
     UndoEvidence
<1>5. EraseInv'
  BY DEF ViewsInv, ViewsTypeOK, EraseInv, Opening, Closing, WriteOwnership, UndoEvidence,
     BeginErase
<1> QED BY <1>1, <1>2, <1>3, <1>4, <1>5 DEF ViewsInv

\* The evidence is synced.
LEMMA SyncEvidenceViews ==
  ASSUME ViewsInv, NEW ok \in BOOLEAN, SyncEvidence(ok)
  PROVE  ViewsInv'
<1>1. ViewsTypeOK'
  BY ViewsAssumption DEF ViewsInv, ViewsTypeOK, SyncEvidence, Outcome, UndoEvidence,
     BeginErase
<1>2. MountInv'
  BY DEF ViewsInv, MountInv, Opening, Closing, SyncEvidence, UndoEvidence
<1>3. CloseInv'
  BY DEF ViewsInv, CloseInv, SyncEvidence, UndoEvidence
<1>4. BackedInv'
  BY DEF ViewsInv, BackedInv, Opening, ServingIsBacked, SyncEvidence, UndoEvidence
<1>5. EraseInv'
  BY DEF ViewsInv, EraseInv, EvidenceLeft, SyncEvidence, UndoEvidence, BeginErase
<1> QED BY <1>1, <1>2, <1>3, <1>4, <1>5 DEF ViewsInv

\* The views are mounted.
LEMMA MountViewsViews ==
  ASSUME ViewsInv, NEW ok \in BOOLEAN, MountViews(ok)
  PROVE  ViewsInv'
<1>1. ViewsTypeOK'
  BY ViewsAssumption DEF ViewsInv, ViewsTypeOK, MountViews, Outcome, BeginErase
<1>2. MountInv'
  BY DEF ViewsInv, ViewsTypeOK, MountInv, Opening, Closing, EvidenceLeft, MountViews,
     Outcome, BeginErase
<1>3. CloseInv'
  BY DEF ViewsInv, ViewsTypeOK, CloseInv, Opening, Closing, EvidenceLeft, MountViews,
     Outcome, BeginErase
<1>4. BackedInv'
  BY DEF ViewsInv, BackedInv, Opening, ServingIsBacked, MountViews
<1>5. EraseInv'
  BY DEF ViewsInv, ViewsTypeOK, EraseInv, Opening, Closing, EvidenceLeft, MountViews,
     Outcome, BeginErase
<1> QED BY <1>1, <1>2, <1>3, <1>4, <1>5 DEF ViewsInv

\* The evidence of a failed Open is deleted.
LEMMA UndoDoneViews ==
  ASSUME ViewsInv, UndoDone
  PROVE  ViewsInv'
<1>1. ViewsTypeOK'
  <2>1. access' \in BOOLEAN /\ vpc' = "refused"
    BY DEF UndoDone, RefuseSet
  <2>2. erase' \in [pc : {"idle", "observe", "mountpoint", "ownership", "sync", "done", "failed"},
                   by : {"none", "undo", "prepared", "close", "stale"}]
    BY DEF UndoDone, NoErase
  <2>3. UNCHANGED <<viewEvidence, mount, set, leases, vret, faults>>
    BY DEF UndoDone
  <2> QED BY <2>1, <2>2, <2>3 DEF ViewsInv, ViewsTypeOK
<1>2. MountInv'
  BY DEF ViewsInv, ViewsTypeOK, MountInv, Opening, Closing, EvidenceLeft, UndoDone,
     RefuseSet
<1>3. CloseInv'
  BY DEF ViewsInv, ViewsTypeOK, CloseInv, Opening, Closing, EvidenceLeft, UndoDone,
     RefuseSet
<1>4. BackedInv'
  BY DEF ViewsInv, BackedInv, Opening, ServingIsBacked, MountInv, UndoDone, RefuseSet
<1>5. EraseInv'
  BY DEF EraseInv, NoErase, UndoDone, RefuseSet
<1> QED BY <1>1, <1>2, <1>3, <1>4, <1>5 DEF ViewsInv

\* The views are opened, or some of them.
LEMMA OpenMountedViewsViews ==
  ASSUME ViewsInv, NEW ok \in BOOLEAN, NEW opened \in SUBSET Transfers, OpenMountedViews(ok, opened)
  PROVE  ViewsInv'
<1>1. ViewsTypeOK'
  <2>1. set' \in [closing : BOOLEAN, drained : BOOLEAN, files : SUBSET Transfers,
                 unmounted : BOOLEAN, stopped : BOOLEAN, closed : BOOLEAN]
    BY DEF ViewsInv, ViewsTypeOK, OpenMountedViews, NoSet
  <2>2. faults' \in 0..MaxFaults
    BY ViewsAssumption DEF ViewsInv, ViewsTypeOK, OpenMountedViews, Outcome
  <2>3. vpc' \in {"open", "partial"} /\ UNCHANGED <<viewEvidence, mount, access, leases,
                                                    vret, erase>>
    BY DEF OpenMountedViews
  <2> QED BY <2>1, <2>2, <2>3 DEF ViewsInv, ViewsTypeOK
<1>2. MountInv'
  BY DEF ViewsInv, MountInv, Opening, NoSet, OpenMountedViews
<1>3. CloseInv'
  BY DEF CloseInv, NoSet, OpenMountedViews
<1>4. BackedInv'
  BY DEF ViewsInv, ViewsTypeOK, BackedInv, Opening, Closing, EvidenceLeft, ServingIsBacked,
     OpenMountedViews, Outcome
<1>5. EraseInv'
  BY DEF ViewsInv, ViewsTypeOK, EraseInv, Opening, Closing, EvidenceLeft, OpenMountedViews,
     Outcome
<1> QED BY <1>1, <1>2, <1>3, <1>4, <1>5 DEF ViewsInv

\* A view is leased.
LEMMA OpenViewViews ==
  ASSUME ViewsInv, NEW t \in Transfers, OpenView(t)
  PROVE  ViewsInv'
<1>1. ViewsTypeOK'
  BY ViewsAssumption DEF ViewsInv, ViewsTypeOK, OpenView
<1>2. MountInv'
  BY DEF ViewsInv, ViewsTypeOK, MountInv, Opening, Closing, EvidenceLeft, NoSet, NoErase,
     OpenView
<1>3. CloseInv'
  BY DEF ViewsInv, ViewsTypeOK, CloseInv, Opening, Closing, EvidenceLeft, OpenView
<1>4. BackedInv'
  BY DEF ViewsInv, ViewsTypeOK, BackedInv, Opening, Closing, EvidenceLeft, ServingIsBacked,
     OpenView
<1>5. EraseInv'
  BY DEF ViewsInv, ViewsTypeOK, EraseInv, Opening, Closing, EvidenceLeft, OpenView
<1> QED BY <1>1, <1>2, <1>3, <1>4, <1>5 DEF ViewsInv

\* A lease is released.
LEMMA ReleaseLeaseViews ==
  ASSUME ViewsInv, NEW t \in Transfers, ReleaseLease(t)
  PROVE  ViewsInv'
<1>1. ViewsTypeOK'
  BY ViewsAssumption DEF ViewsInv, ViewsTypeOK, ReleaseLease
<1>2. MountInv'
  BY DEF ViewsInv, ViewsTypeOK, MountInv, Opening, Closing, EvidenceLeft, ReleaseLease
<1>3. CloseInv'
  BY DEF ViewsInv, ViewsTypeOK, CloseInv, Opening, Closing, EvidenceLeft, ReleaseLease
<1>4. BackedInv'
  BY DEF ViewsInv, ViewsTypeOK, BackedInv, Opening, Closing, EvidenceLeft, ServingIsBacked,
     ReleaseLease
<1>5. EraseInv'
  BY DEF ViewsInv, ViewsTypeOK, EraseInv, Opening, Closing, EvidenceLeft, ReleaseLease
<1> QED BY <1>1, <1>2, <1>3, <1>4, <1>5 DEF ViewsInv

\* Close begins.
LEMMA BeginCloseViews ==
  ASSUME ViewsInv, BeginClose, erase.by # "stale"
  PROVE  ViewsInv'
<1>1. ViewsTypeOK'
  <2>1. set' \in [closing : BOOLEAN, drained : BOOLEAN, files : SUBSET Transfers,
                 unmounted : BOOLEAN, stopped : BOOLEAN, closed : BOOLEAN]
    BY DEF ViewsInv, ViewsTypeOK, BeginClose
  <2>2. faults' \in 0..MaxFaults
    BY ViewsAssumption DEF ViewsInv, ViewsTypeOK, BeginClose, Outcome
  <2>3. vpc' = "drain" /\ vret' = "none" /\ UNCHANGED <<viewEvidence, mount, access,
                                                        leases, erase, faults>>
    BY DEF BeginClose
  <2> QED BY <2>1, <2>2, <2>3 DEF ViewsInv, ViewsTypeOK
<1>2. MountInv'
  BY DEF ViewsInv, ViewsTypeOK, MountInv, Opening, Closing, EvidenceLeft, BeginClose
<1>3. CloseInv'
  BY DEF ViewsInv, ViewsTypeOK, CloseInv, Opening, Closing, EvidenceLeft, BeginClose
<1>4. BackedInv'
  BY DEF ViewsInv, ViewsTypeOK, BackedInv, Opening, Closing, EvidenceLeft, ServingIsBacked,
     BeginClose
<1>5. EraseInv'
  BY DEF ViewsInv, ViewsTypeOK, EraseInv, Opening, Closing, EvidenceLeft, BeginClose
<1> QED BY <1>1, <1>2, <1>3, <1>4, <1>5 DEF ViewsInv

\* The leases of a closing set are released.
LEMMA DrainedViews ==
  ASSUME ViewsInv, Drained
  PROVE  ViewsInv'
<1>1. ViewsTypeOK'
  BY ViewsAssumption DEF ViewsInv, ViewsTypeOK, Drained, ViewsReturn
<1>2. MountInv'
  BY DEF ViewsInv, ViewsTypeOK, MountInv, Opening, Closing, EvidenceLeft, Drained,
     ViewsReturn
<1>3. CloseInv'
  BY DEF ViewsInv, ViewsTypeOK, CloseInv, Opening, Closing, EvidenceLeft, Drained,
     ViewsReturn
<1>4. BackedInv'
  BY DEF ViewsInv, ViewsTypeOK, BackedInv, Opening, Closing, EvidenceLeft, ServingIsBacked,
     Drained, ViewsReturn
<1>5. EraseInv'
  BY DEF ViewsInv, ViewsTypeOK, EraseInv, Opening, Closing, EvidenceLeft, Drained,
     ViewsReturn
<1> QED BY <1>1, <1>2, <1>3, <1>4, <1>5 DEF ViewsInv

\* A lease is not released in time.
LEMMA DrainTimesOutViews ==
  ASSUME ViewsInv, DrainTimesOut
  PROVE  ViewsInv'
<1>1. ViewsTypeOK'
  BY ViewsAssumption DEF ViewsInv, ViewsTypeOK, DrainTimesOut, ViewsReturn
<1>2. MountInv'
  BY DEF ViewsInv, ViewsTypeOK, MountInv, Opening, Closing, EvidenceLeft, DrainTimesOut,
     ViewsReturn
<1>3. CloseInv'
  BY DEF ViewsInv, ViewsTypeOK, CloseInv, Opening, Closing, EvidenceLeft, DrainTimesOut,
     ViewsReturn
<1>4. BackedInv'
  BY DEF ViewsInv, ViewsTypeOK, BackedInv, Opening, Closing, EvidenceLeft, ServingIsBacked,
     DrainTimesOut, ViewsReturn
<1>5. EraseInv'
  BY DEF ViewsInv, ViewsTypeOK, EraseInv, Opening, Closing, EvidenceLeft, DrainTimesOut,
     ViewsReturn
<1> QED BY <1>1, <1>2, <1>3, <1>4, <1>5 DEF ViewsInv

\* The views are unmounted.
LEMMA UnmountViews ==
  ASSUME ViewsInv, NEW ok \in BOOLEAN, Unmount(ok)
  PROVE  ViewsInv'
<1>1. ViewsTypeOK'
  <2>1. set' \in [closing : BOOLEAN, drained : BOOLEAN, files : SUBSET Transfers,
                 unmounted : BOOLEAN, stopped : BOOLEAN, closed : BOOLEAN]
    BY DEF ViewsInv, ViewsTypeOK, Unmount
  <2>2. faults' \in 0..MaxFaults
    BY ViewsAssumption DEF ViewsInv, ViewsTypeOK, Unmount, Outcome
  <2>3. /\ vpc' \in {"wait", "open"} /\ mount' \in {mount, "draining"}
        /\ vret' \in {vret, "error"} /\ UNCHANGED <<viewEvidence, access, leases, erase>>
    BY DEF Unmount, ViewsReturn
  <2> QED BY <2>1, <2>2, <2>3 DEF ViewsInv, ViewsTypeOK
<1>2. MountInv'
  BY DEF ViewsInv, ViewsTypeOK, MountInv, Opening, Closing, EvidenceLeft, Unmount, Outcome,
     ViewsReturn
<1>3. CloseInv'
  BY DEF ViewsInv, ViewsTypeOK, CloseInv, Opening, Closing, EvidenceLeft, Unmount, Outcome,
     ViewsReturn
<1>4. BackedInv'
  BY DEF ViewsInv, BackedInv, Opening, Closing, ServingIsBacked, MountInv, Unmount,
     ViewsReturn
<1>5. EraseInv'
  BY DEF ViewsInv, ViewsTypeOK, EraseInv, Opening, Closing, EvidenceLeft, Unmount, Outcome,
     ViewsReturn
<1> QED BY <1>1, <1>2, <1>3, <1>4, <1>5 DEF ViewsInv

\* The server ends.
LEMMA ServerStopsViews ==
  ASSUME ViewsInv, ServerStops
  PROVE  ViewsInv'
<1>1. ViewsTypeOK'
  BY ViewsAssumption DEF ViewsInv, ViewsTypeOK, ServerStops
<1>2. MountInv'
  BY DEF ViewsInv, ViewsTypeOK, MountInv, Opening, Closing, EvidenceLeft, ServerStops
<1>3. CloseInv'
  BY DEF ViewsInv, ViewsTypeOK, CloseInv, Opening, Closing, EvidenceLeft, ServerStops
<1>4. BackedInv'
  BY DEF ViewsInv, ViewsTypeOK, BackedInv, Opening, Closing, EvidenceLeft, ServingIsBacked,
     ServerStops
<1>5. EraseInv'
  BY DEF ViewsInv, ViewsTypeOK, EraseInv, Opening, Closing, EvidenceLeft, ServerStops
<1> QED BY <1>1, <1>2, <1>3, <1>4, <1>5 DEF ViewsInv

\* Close sees that the server has ended.
LEMMA ServerStoppedViews ==
  ASSUME ViewsInv, ServerStopped
  PROVE  ViewsInv'
<1>1. ViewsTypeOK'
  <2>1. set' \in [closing : BOOLEAN, drained : BOOLEAN, files : SUBSET Transfers,
                 unmounted : BOOLEAN, stopped : BOOLEAN, closed : BOOLEAN]
    BY DEF ViewsInv, ViewsTypeOK, ServerStopped
  <2>2. faults' \in 0..MaxFaults
    BY ViewsAssumption DEF ViewsInv, ViewsTypeOK, ServerStopped, Outcome
  <2>3. vpc' = "return" /\ UNCHANGED <<viewEvidence, mount, access, leases, vret, erase,
                                       faults>>
    BY DEF ServerStopped
  <2> QED BY <2>1, <2>2, <2>3 DEF ViewsInv, ViewsTypeOK
<1>2. MountInv'
  BY DEF ViewsInv, ViewsTypeOK, MountInv, Opening, Closing, EvidenceLeft, ServerStopped
<1>3. CloseInv'
  BY DEF ViewsInv, ViewsTypeOK, CloseInv, Opening, Closing, EvidenceLeft, ServerStopped
<1>4. BackedInv'
  BY DEF ViewsInv, ViewsTypeOK, BackedInv, Opening, Closing, EvidenceLeft, ServingIsBacked,
     ServerStopped
<1>5. EraseInv'
  BY DEF ViewsInv, ViewsTypeOK, EraseInv, Opening, Closing, EvidenceLeft, ServerStopped
<1> QED BY <1>1, <1>2, <1>3, <1>4, <1>5 DEF ViewsInv

\* The server does not end in time.
LEMMA WaitTimesOutViews ==
  ASSUME ViewsInv, WaitTimesOut
  PROVE  ViewsInv'
<1>1. ViewsTypeOK'
  BY ViewsAssumption DEF ViewsInv, ViewsTypeOK, WaitTimesOut, ViewsReturn
<1>2. MountInv'
  BY DEF ViewsInv, ViewsTypeOK, MountInv, Opening, Closing, EvidenceLeft, WaitTimesOut,
     ViewsReturn
<1>3. CloseInv'
  BY DEF ViewsInv, ViewsTypeOK, CloseInv, Opening, Closing, EvidenceLeft, WaitTimesOut,
     ViewsReturn
<1>4. BackedInv'
  BY DEF ViewsInv, ViewsTypeOK, BackedInv, Opening, Closing, EvidenceLeft, ServingIsBacked,
     WaitTimesOut, ViewsReturn
<1>5. EraseInv'
  BY DEF ViewsInv, ViewsTypeOK, EraseInv, Opening, Closing, EvidenceLeft, WaitTimesOut,
     ViewsReturn
<1> QED BY <1>1, <1>2, <1>3, <1>4, <1>5 DEF ViewsInv

\* The lease of the source is returned.
LEMMA ReturnAccessViews ==
  ASSUME ViewsInv, ReturnAccess
  PROVE  ViewsInv'
<1>1. ViewsTypeOK'
  <2>1. access' \in BOOLEAN /\ vpc' = "erase"
    BY DEF ReturnAccess
  <2>2. erase' \in [pc : {"idle", "observe", "mountpoint", "ownership", "sync", "done", "failed"},
                   by : {"none", "undo", "prepared", "close", "stale"}]
    BY DEF ReturnAccess, BeginErase
  <2>3. UNCHANGED <<viewEvidence, mount, set, leases, vret, faults>>
    BY DEF ReturnAccess
  <2> QED BY <2>1, <2>2, <2>3 DEF ViewsInv, ViewsTypeOK
<1>2. MountInv'
  BY DEF ViewsInv, ViewsTypeOK, MountInv, Opening, Closing, EvidenceLeft, ReturnAccess,
     BeginErase
<1>3. CloseInv'
  BY DEF ViewsInv, ViewsTypeOK, CloseInv, Opening, Closing, EvidenceLeft, ReturnAccess,
     BeginErase
<1>4. BackedInv'
  BY DEF ViewsInv, BackedInv, Opening, ServingIsBacked, MountInv, ReturnAccess
<1>5. EraseInv'
  BY DEF ViewsInv, ViewsTypeOK, EraseInv, Opening, Closing, EvidenceLeft, ReturnAccess,
     BeginErase
<1> QED BY <1>1, <1>2, <1>3, <1>4, <1>5 DEF ViewsInv

\* The evidence is deleted, or Close fails.
LEMMA CloseDoneViews ==
  ASSUME ViewsInv, CloseDone
  PROVE  ViewsInv'
<1>1. ViewsTypeOK'
  <2>1. vret' \in {"ok", "error"} /\ vpc' = "open"
    BY DEF CloseDone, ViewsReturn
  <2>2. erase' \in [pc : {"idle", "observe", "mountpoint", "ownership", "sync", "done", "failed"},
                   by : {"none", "undo", "prepared", "close", "stale"}]
    BY DEF CloseDone, NoErase
  <2>3. set' \in [closing : BOOLEAN, drained : BOOLEAN, files : SUBSET Transfers,
                 unmounted : BOOLEAN, stopped : BOOLEAN, closed : BOOLEAN]
    BY DEF ViewsInv, ViewsTypeOK, CloseDone
  <2>4. UNCHANGED <<viewEvidence, mount, access, leases, faults>>
    BY DEF CloseDone
  <2> QED BY <2>1, <2>2, <2>3, <2>4 DEF ViewsInv, ViewsTypeOK
<1>2. MountInv'
  BY DEF ViewsInv, ViewsTypeOK, MountInv, Opening, Closing, EvidenceLeft, CloseDone,
     ViewsReturn
<1>3. CloseInv'
  BY DEF ViewsInv, ViewsTypeOK, CloseInv, EvidenceLeft, MountInv, EraseInv, CloseDone,
     ViewsReturn
<1>4. BackedInv'
  BY DEF ViewsInv, ViewsTypeOK, BackedInv, Opening, Closing, EvidenceLeft, ServingIsBacked,
     CloseDone, ViewsReturn
<1>5. EraseInv'
  BY DEF EraseInv, NoErase, CloseDone, ViewsReturn
<1> QED BY <1>1, <1>2, <1>3, <1>4, <1>5 DEF ViewsInv

\* The evidence is observed.
LEMMA EraseObserveViews ==
  ASSUME ViewsInv, NEW ok \in BOOLEAN, EraseObserve(ok)
  PROVE  ViewsInv'
<1>1. ViewsTypeOK'
  BY ViewsAssumption DEF ViewsInv, ViewsTypeOK, EraseObserve, Outcome, EraseTo, Acceptable,
     FirstToErase
<1>2. MountInv'
  BY DEF ViewsInv, MountInv, EraseObserve
<1>3. CloseInv'
  BY DEF ViewsInv, CloseInv, EvidenceLeft, EraseObserve
<1>4. BackedInv'
  BY DEF ViewsInv, BackedInv, EvidenceLeft, ServingIsBacked, EraseObserve
<1>5. EraseInv'
  BY DEF ViewsInv, EraseInv, EvidenceLeft, EraseObserve, EraseTo, FirstToErase
<1> QED BY <1>1, <1>2, <1>3, <1>4, <1>5 DEF ViewsInv

\* The mountpoint is removed.
LEMMA EraseMountpointViews ==
  ASSUME ViewsInv, NEW ok \in BOOLEAN, EraseMountpoint(ok)
  PROVE  ViewsInv'
<1>1. ViewsTypeOK'
  BY ViewsAssumption DEF ViewsInv, ViewsTypeOK, EraseMountpoint, Outcome, EraseTo
<1>2. MountInv'
  BY DEF ViewsInv, ViewsTypeOK, MountInv, Opening, Closing, EvidenceLeft, EraseMountpoint,
     Outcome, EraseTo
<1>3. CloseInv'
  BY DEF ViewsInv, CloseInv, EvidenceLeft, EraseInv, EraseMountpoint
<1>4. BackedInv'
  BY DEF ViewsInv, ViewsTypeOK, BackedInv, Opening, ServingIsBacked, MountInv, EraseInv,
     EraseMountpoint
<1>5. EraseInv'
  BY DEF ViewsInv, ViewsTypeOK, EraseInv, Opening, Closing, EvidenceLeft, EraseMountpoint,
     Outcome, EraseTo
<1> QED BY <1>1, <1>2, <1>3, <1>4, <1>5 DEF ViewsInv

\* The ownership file is removed.
LEMMA EraseOwnershipViews ==
  ASSUME ViewsInv, NEW ok \in BOOLEAN, EraseOwnership(ok)
  PROVE  ViewsInv'
<1>1. ViewsTypeOK'
  BY ViewsAssumption DEF ViewsInv, ViewsTypeOK, EraseOwnership, Outcome, EraseTo
<1>2. MountInv'
  BY DEF ViewsInv, ViewsTypeOK, MountInv, Opening, Closing, EvidenceLeft, EraseOwnership,
     Outcome, EraseTo
<1>3. CloseInv'
  BY DEF ViewsInv, ViewsTypeOK, CloseInv, Opening, Closing, EvidenceLeft, EraseOwnership,
     Outcome, EraseTo
<1>4. BackedInv'
  BY DEF ViewsInv, BackedInv, EvidenceLeft, ServingIsBacked, EraseInv, EraseOwnership
<1>5. EraseInv'
  BY DEF ViewsInv, ViewsTypeOK, EraseInv, Opening, Closing, EvidenceLeft, EraseOwnership,
     Outcome, EraseTo
<1> QED BY <1>1, <1>2, <1>3, <1>4, <1>5 DEF ViewsInv

\* The removal is synced.
LEMMA EraseSyncViews ==
  ASSUME ViewsInv, NEW ok \in BOOLEAN, EraseSync(ok)
  PROVE  ViewsInv'
<1>1. ViewsTypeOK'
  BY ViewsAssumption DEF ViewsInv, ViewsTypeOK, EraseSync, Outcome, EraseTo
<1>2. MountInv'
  BY DEF ViewsInv, ViewsTypeOK, MountInv, Opening, Closing, EvidenceLeft, EraseSync,
     Outcome, EraseTo
<1>3. CloseInv'
  BY DEF ViewsInv, ViewsTypeOK, CloseInv, Opening, Closing, EvidenceLeft, EraseSync,
     Outcome, EraseTo
<1>4. BackedInv'
  BY DEF ViewsInv, BackedInv, EvidenceLeft, ServingIsBacked, EraseSync
<1>5. EraseInv'
  BY DEF ViewsInv, ViewsTypeOK, EraseInv, Opening, Closing, EvidenceLeft, EraseSync,
     Outcome, EraseTo
<1> QED BY <1>1, <1>2, <1>3, <1>4, <1>5 DEF ViewsInv

\* The process ends.
LEMMA ViewsDieViews ==
  ASSUME ViewsInv, ViewsDie
  PROVE  ViewsInv'
<1>1. ViewsTypeOK'
  BY ViewsAssumption DEF ViewsInv, ViewsTypeOK, NoSet, NoErase, ViewsDie
<1>2. MountInv'
  BY DEF ViewsInv, ViewsTypeOK, MountInv, Opening, Closing, EvidenceLeft, NoSet, NoErase,
     ViewsDie
<1>3. CloseInv'
  BY DEF ViewsInv, ViewsTypeOK, CloseInv, Opening, Closing, EvidenceLeft, NoSet, NoErase,
     ViewsDie
<1>4. BackedInv'
  BY DEF ViewsInv, ViewsTypeOK, BackedInv, Opening, Closing, EvidenceLeft, ServingIsBacked,
     ViewsDie
<1>5. EraseInv'
  BY DEF ViewsInv, ViewsTypeOK, EraseInv, Opening, Closing, EvidenceLeft, NoSet, NoErase,
     ViewsDie
<1> QED BY <1>1, <1>2, <1>3, <1>4, <1>5 DEF ViewsInv

-----------------------------------------------------------------------------
(* NamespaceResolvers                                                      *)

USE DEF Resolving

\* The run is cancelled.
LEMMA CancelContextResolvers ==
  ASSUME ResolversInv, CancelContext
  PROVE  ResolversInv'
<1>1. ResolversTypeOK'
  BY DEF ResolversInv, ResolversTypeOK, CancelContext
<1>2. WorkersInv'
  BY DEF ResolversInv, ResolversTypeOK, WorkersInv, CancelContext
<1>3. HandlersInv'
  BY DEF ResolversInv, ResolversTypeOK, HandlersInv, OfStream, CancelContext
<1> QED BY <1>1, <1>2, <1>3 DEF ResolversInv

\* The resolvers are named.
LEMMA OpenExplicitResolvers ==
  ASSUME ResolversInv, OpenExplicit
  PROVE  ResolversInv'
<1>1. ResolversTypeOK'
  BY DEF ResolversInv, ResolversTypeOK, OpenExplicit
<1>2. WorkersInv'
  BY DEF ResolversInv, ResolversTypeOK, WorkersInv, OpenExplicit
<1>3. HandlersInv'
  BY DEF ResolversInv, ResolversTypeOK, HandlersInv, OfStream, OpenExplicit
<1> QED BY <1>1, <1>2, <1>3 DEF ResolversInv

\* A listener is bound.
LEMMA ListenResolvers ==
  ASSUME ResolversInv, NEW s \in Servers, Listen(s)
  PROVE  ResolversInv'
<1>1. ResolversTypeOK'
  BY DEF ResolversInv, ResolversTypeOK, Listen
<1>2. WorkersInv'
  BY DEF ResolversInv, ResolversTypeOK, WorkersInv, Listen
<1>3. HandlersInv'
  BY DEF ResolversInv, ResolversTypeOK, HandlersInv, OfStream, Listen
<1> QED BY <1>1, <1>2, <1>3 DEF ResolversInv

\* The servers start.
LEMMA StartServersResolvers ==
  ASSUME ResolversInv, StartServers
  PROVE  ResolversInv'
<1>1. ResolversTypeOK'
  BY DEF ResolversInv, ResolversTypeOK, StartServers
<1>2. WorkersInv'
  BY DEF ResolversInv, ResolversTypeOK, WorkersInv, StartServers
<1>3. HandlersInv'
  BY DEF ResolversInv, ResolversTypeOK, HandlersInv, OfStream, StartServers
<1> QED BY <1>1, <1>2, <1>3 DEF ResolversInv

\* Open fails.
LEMMA OpenFailsResolvers ==
  ASSUME ResolversInv, OpenFails
  PROVE  ResolversInv'
<1>1. ResolversTypeOK'
  BY DEF ResolversInv, ResolversTypeOK, OpenFails
<1>2. WorkersInv'
  BY DEF ResolversInv, ResolversTypeOK, WorkersInv, OpenFails
<1>3. HandlersInv'
  BY DEF ResolversInv, ResolversTypeOK, HandlersInv, OfStream, OpenFails
<1> QED BY <1>1, <1>2, <1>3 DEF ResolversInv

\* A query is read.
LEMMA ReceiveResolvers ==
  ASSUME ResolversInv, NEW s \in Servers, Receive(s)
  PROVE  ResolversInv'
<1>1. ResolversTypeOK'
  BY DEF ResolversInv, ResolversTypeOK, Receive
<1>2. WorkersInv'
  BY DEF ResolversInv, ResolversTypeOK, WorkersInv, Receive
<1>3. HandlersInv'
  BY DEF ResolversInv, ResolversTypeOK, HandlersInv, OfStream, Receive
<1> QED BY <1>1, <1>2, <1>3 DEF ResolversInv

\* A handler starts, or is refused.
LEMMA StartHandlerResolvers ==
  ASSUME ResolversInv, NEW s \in Servers, StartHandler(s)
  PROVE  ResolversInv'
<1>1. ResolversTypeOK'
  BY DEF ResolversInv, ResolversTypeOK, StartHandler
<1>2. WorkersInv'
  BY DEF ResolversInv, ResolversTypeOK, WorkersInv, StartHandler
<1>3. HandlersInv'
  BY ResolverAssumption DEF ResolversInv, ResolversTypeOK, HandlersInv, OfStream,
     StartHandler
<1> QED BY <1>1, <1>2, <1>3 DEF ResolversInv

\* A listener fails and its server ends.
LEMMA ListenerFailsResolvers ==
  ASSUME ResolversInv, NEW s \in Servers, ListenerFails(s)
  PROVE  ResolversInv'
<1>1. ResolversTypeOK'
  BY DEF ResolversInv, ResolversTypeOK, ListenerFails
<1>2. WorkersInv'
  BY DEF ResolversInv, ResolversTypeOK, WorkersInv, ListenerFails
<1>3. HandlersInv'
  BY DEF ResolversInv, ResolversTypeOK, HandlersInv, OfStream, ListenerFails
<1> QED BY <1>1, <1>2, <1>3 DEF ResolversInv

\* A query is read from a connection.
LEMMA ReadQueryResolvers ==
  ASSUME ResolversInv, NEW q \in Queries, ReadQuery(q)
  PROVE  ResolversInv'
<1>1. ResolversTypeOK'
  BY ResolverAssumption DEF ResolversInv, ResolversTypeOK, Queries, ReadQuery, Step
<1>2. WorkersInv'
  BY DEF ResolversInv, ResolversTypeOK, WorkersInv, ReadQuery, Step
<1>3. HandlersInv'
  BY ResolverAssumption DEF ResolversInv, ResolversTypeOK, HandlersInv, OfStream,
     ReadQuery, Step
<1> QED BY <1>1, <1>2, <1>3 DEF ResolversInv

\* A connection ends.
LEMMA ClientGoneResolvers ==
  ASSUME ResolversInv, NEW q \in Queries, ClientGone(q)
  PROVE  ResolversInv'
<1>1. ResolversTypeOK'
  BY ResolverAssumption DEF ResolversInv, ResolversTypeOK, Queries, ClientGone,
     FinishHandler, Step
<1>2. WorkersInv'
  BY DEF ResolversInv, ResolversTypeOK, WorkersInv, ClientGone, FinishHandler, Step
<1>3. HandlersInv'
  BY DEF ResolversInv, ResolversTypeOK, HandlersInv, OfStream, ClientGone, FinishHandler,
     Step
<1> QED BY <1>1, <1>2, <1>3 DEF ResolversInv

\* A dial begins.
LEMMA DialResolvers ==
  ASSUME ResolversInv, NEW q \in Queries, Dial(q)
  PROVE  ResolversInv'
<1>1. ResolversTypeOK'
  BY ResolverAssumption DEF ResolversInv, ResolversTypeOK, Queries, WorkersInv,
     HandlersInv, OfStream, Dial, Step
<1>2. WorkersInv'
  BY DEF ResolversInv, ResolversTypeOK, WorkersInv, Dial, Step
<1>3. HandlersInv'
  BY DEF ResolversInv, ResolversTypeOK, HandlersInv, OfStream, Dial, Step
<1> QED BY <1>1, <1>2, <1>3 DEF ResolversInv

\* A dial ends.
LEMMA DialedResolvers ==
  ASSUME ResolversInv, NEW q \in Queries, Dialed(q)
  PROVE  ResolversInv'
<1>1. ResolversTypeOK'
  BY DEF ResolversInv, ResolversTypeOK, Dialed, Step, AfterFailure
<1>2. WorkersInv'
  BY DEF ResolversInv, ResolversTypeOK, WorkersInv, Dialed, Step, AfterFailure
<1>3. HandlersInv'
  BY DEF ResolversInv, ResolversTypeOK, HandlersInv, OfStream, Dialed, Step, AfterFailure
<1> QED BY <1>1, <1>2, <1>3 DEF ResolversInv

\* A connection is tracked, or refused.
LEMMA TrackResolvers ==
  ASSUME ResolversInv, NEW q \in Queries, Track(q)
  PROVE  ResolversInv'
<1>1. ResolversTypeOK'
  BY DEF ResolversInv, ResolversTypeOK, Track, Step, AfterFailure
<1>2. WorkersInv'
  BY DEF ResolversInv, ResolversTypeOK, WorkersInv, Track, Step, AfterFailure
<1>3. HandlersInv'
  BY DEF ResolversInv, ResolversTypeOK, HandlersInv, OfStream, Track, Step, AfterFailure
<1> QED BY <1>1, <1>2, <1>3 DEF ResolversInv

\* An exchange ends.
LEMMA ExchangedResolvers ==
  ASSUME ResolversInv, NEW q \in Queries, Exchanged(q)
  PROVE  ResolversInv'
<1>1. ResolversTypeOK'
  BY DEF ResolversInv, ResolversTypeOK, Exchanged, Step
<1>2. WorkersInv'
  BY DEF ResolversInv, ResolversTypeOK, WorkersInv, Exchanged, Step
<1>3. HandlersInv'
  BY DEF ResolversInv, ResolversTypeOK, HandlersInv, OfStream, Exchanged, Step
<1> QED BY <1>1, <1>2, <1>3 DEF ResolversInv

\* A stream is answered.
LEMMA RespondResolvers ==
  ASSUME ResolversInv, NEW q \in Queries, Respond(q)
  PROVE  ResolversInv'
<1>1. ResolversTypeOK'
  BY DEF ResolversInv, ResolversTypeOK, Respond, Step
<1>2. WorkersInv'
  BY DEF ResolversInv, ResolversTypeOK, WorkersInv, Respond, Step
<1>3. HandlersInv'
  BY DEF ResolversInv, ResolversTypeOK, HandlersInv, OfStream, Respond, Step
<1> QED BY <1>1, <1>2, <1>3 DEF ResolversInv

\* The last answer.
LEMMA RespondLastResolvers ==
  ASSUME ResolversInv, NEW q \in Queries, RespondLast(q)
  PROVE  ResolversInv'
<1>1. ResolversTypeOK'
  BY ResolverAssumption DEF ResolversInv, ResolversTypeOK, Queries, RespondLast,
     FinishHandler, Step
<1>2. WorkersInv'
  BY DEF ResolversInv, ResolversTypeOK, WorkersInv, RespondLast, FinishHandler, Step
<1>3. HandlersInv'
  BY DEF ResolversInv, ResolversTypeOK, HandlersInv, OfStream, RespondLast, FinishHandler,
     Step
<1> QED BY <1>1, <1>2, <1>3 DEF ResolversInv

\* The shutdown begins.
LEMMA ShutdownCancelResolvers ==
  ASSUME ResolversInv, ShutdownCancel
  PROVE  ResolversInv'
<1>1. ResolversTypeOK'
  BY DEF ResolversInv, ResolversTypeOK, ShutdownCancel, ShutdownTo
<1>2. WorkersInv'
  BY DEF ResolversInv, ResolversTypeOK, WorkersInv, ShutdownCancel, ShutdownTo
<1>3. HandlersInv'
  BY DEF ResolversInv, ResolversTypeOK, HandlersInv, OfStream, ShutdownCancel, ShutdownTo
<1> QED BY <1>1, <1>2, <1>3 DEF ResolversInv

\* No further handler is accepted.
LEMMA StopAcceptingHandlersResolvers ==
  ASSUME ResolversInv, StopAcceptingHandlers
  PROVE  ResolversInv'
<1>1. ResolversTypeOK'
  BY DEF ResolversInv, ResolversTypeOK, StopAcceptingHandlers, ShutdownTo
<1>2. WorkersInv'
  BY DEF ResolversInv, ResolversTypeOK, WorkersInv, StopAcceptingHandlers, ShutdownTo
<1>3. HandlersInv'
  BY DEF ResolversInv, ResolversTypeOK, HandlersInv, OfStream, StopAcceptingHandlers,
     ShutdownTo
<1> QED BY <1>1, <1>2, <1>3 DEF ResolversInv

\* The connections to host resolvers are closed.
LEMMA CloseUpstreamResolvers ==
  ASSUME ResolversInv, CloseUpstream
  PROVE  ResolversInv'
<1>1. ResolversTypeOK'
  BY DEF ResolversInv, ResolversTypeOK, CloseUpstream, ShutdownTo
<1>2. WorkersInv'
  BY DEF ResolversInv, ResolversTypeOK, WorkersInv, CloseUpstream, ShutdownTo
<1>3. HandlersInv'
  BY DEF ResolversInv, ResolversTypeOK, HandlersInv, OfStream, CloseUpstream, ShutdownTo
<1> QED BY <1>1, <1>2, <1>3 DEF ResolversInv

\* The listeners are closed.
LEMMA CloseListenersResolvers ==
  ASSUME ResolversInv, CloseListeners
  PROVE  ResolversInv'
<1>1. ResolversTypeOK'
  BY DEF ResolversInv, ResolversTypeOK, CloseListeners, ShutdownTo
<1>2. WorkersInv'
  BY DEF ResolversInv, ResolversTypeOK, WorkersInv, CloseListeners, ShutdownTo
<1>3. HandlersInv'
  BY DEF ResolversInv, ResolversTypeOK, HandlersInv, OfStream, CloseListeners, ShutdownTo
<1> QED BY <1>1, <1>2, <1>3 DEF ResolversInv

\* The connections of clients are closed.
LEMMA CloseConnectionsResolvers ==
  ASSUME ResolversInv, CloseConnections
  PROVE  ResolversInv'
<1>1. ResolversTypeOK'
  BY DEF ResolversInv, ResolversTypeOK, CloseConnections, ShutdownTo
<1>2. WorkersInv'
  BY DEF ResolversInv, ResolversTypeOK, WorkersInv, CloseConnections, ShutdownTo
<1>3. HandlersInv'
  BY DEF ResolversInv, ResolversTypeOK, HandlersInv, OfStream, CloseConnections, ShutdownTo
<1> QED BY <1>1, <1>2, <1>3 DEF ResolversInv

\* The servers have ended.
LEMMA ServersStoppedResolvers ==
  ASSUME ResolversInv, ServersStopped
  PROVE  ResolversInv'
<1>1. ResolversTypeOK'
  BY DEF ResolversInv, ResolversTypeOK, ServersStopped, ShutdownTo
<1>2. WorkersInv'
  BY DEF ResolversInv, ResolversTypeOK, WorkersInv, ServersStopped, ShutdownTo
<1>3. HandlersInv'
  BY DEF ResolversInv, ResolversTypeOK, HandlersInv, OfStream, ServersStopped, ShutdownTo
<1> QED BY <1>1, <1>2, <1>3 DEF ResolversInv

\* The handlers have ended.
LEMMA HandlersStoppedResolvers ==
  ASSUME ResolversInv, HandlersStopped
  PROVE  ResolversInv'
<1>1. ResolversTypeOK'
  BY DEF ResolversInv, ResolversTypeOK, HandlersStopped, ShutdownTo
<1>2. WorkersInv'
  BY DEF ResolversInv, ResolversTypeOK, WorkersInv, HandlersStopped, ShutdownTo
<1>3. HandlersInv'
  BY DEF ResolversInv, ResolversTypeOK, HandlersInv, OfStream, HandlersStopped, ShutdownTo
<1> QED BY <1>1, <1>2, <1>3 DEF ResolversInv

\* Close begins.
LEMMA BeginResolverCloseResolvers ==
  ASSUME ResolversInv, BeginResolverClose
  PROVE  ResolversInv'
<1>1. ResolversTypeOK'
  BY DEF ResolversInv, ResolversTypeOK, BeginResolverClose
<1>2. WorkersInv'
  BY DEF ResolversInv, ResolversTypeOK, WorkersInv, BeginResolverClose
<1>3. HandlersInv'
  BY DEF ResolversInv, ResolversTypeOK, HandlersInv, OfStream, BeginResolverClose
<1> QED BY <1>1, <1>2, <1>3 DEF ResolversInv

\* Close ends.
LEMMA ResolversClosedResolvers ==
  ASSUME ResolversInv, ResolversClosed
  PROVE  ResolversInv'
<1>1. ResolversTypeOK'
  BY DEF ResolversInv, ResolversTypeOK, ResolversClosed, WorkersDone
<1>2. WorkersInv'
  BY DEF ResolversInv, ResolversTypeOK, WorkersInv, ResolversClosed, WorkersDone
<1>3. HandlersInv'
  BY DEF ResolversInv, ResolversTypeOK, HandlersInv, OfStream, ResolversClosed, WorkersDone
<1> QED BY <1>1, <1>2, <1>3 DEF ResolversInv

\* Close gives up.
LEMMA ResolverCloseTimesOutResolvers ==
  ASSUME ResolversInv, ResolverCloseTimesOut
  PROVE  ResolversInv'
<1>1. ResolversTypeOK'
  BY DEF ResolversInv, ResolversTypeOK, ResolverCloseTimesOut
<1>2. WorkersInv'
  BY DEF ResolversInv, ResolversTypeOK, WorkersInv, ResolverCloseTimesOut
<1>3. HandlersInv'
  BY DEF ResolversInv, ResolversTypeOK, HandlersInv, OfStream, ResolverCloseTimesOut
<1> QED BY <1>1, <1>2, <1>3 DEF ResolversInv

\* The process ends.
LEMMA ResolversDieResolvers ==
  ASSUME ResolversInv, ResolversDie
  PROVE  ResolversInv'
<1>1. ResolversTypeOK'
  <2>1. /\ DOMAIN source' = Queries /\ tries' \in [Queries -> 0..MaxTries]
        /\ closedConn' \in [client : SUBSET Queries, upstream : SUBSET Queries]
    BY ResolverAssumption DEF ResolversDie
  <2>2. /\ server' \in [Servers -> {"off", "bound", "listen", "got", "done"}]
        /\ handler' \in [Queries -> {"none", "client", "dial", "dialing", "connected", "exchange",
                                     "respond", "over"}]
    BY DEF ResolversDie
  <2>3. rpc' = "idle" /\ shutdown' = "no" /\ activeTCP' = {} /\ upstream' = {} /\ doomed' = {}
    BY DEF ResolversDie
  <2>4. /\ forwards' \in BOOLEAN /\ contextDone' \in BOOLEAN
        /\ closing' \in BOOLEAN /\ upstreamClosed' \in BOOLEAN
    BY DEF ResolversDie
  <2> QED BY <2>1, <2>2, <2>3, <2>4 DEF ResolversTypeOK
<1>2. WorkersInv'
  BY DEF ResolversInv, ResolversTypeOK, WorkersInv, ResolversDie
<1>3. HandlersInv'
  BY DEF ResolversInv, ResolversTypeOK, HandlersInv, OfStream, ResolversDie
<1> QED BY <1>1, <1>2, <1>3 DEF ResolversInv

-----------------------------------------------------------------------------
(* What a step of one component leaves alone, and what it may do to the    *)
(* others                                                                  *)

\* Calls fail only as often as the environment allows.
LEMMA OutcomeType ==
  ASSUME TransferInv, NEW ok \in BOOLEAN, Outcome(ok)
  PROVE  faults' \in 0..MaxFaults
BY ViewsAssumption DEF TransferInv, ViewsInv, ViewsTypeOK, Outcome

\* Those that look at the context of the run fail by that too.
LEMMA InterruptibleType ==
  ASSUME TransferInv, NEW ok \in BOOLEAN, Interruptible(ok)
  PROVE  faults' \in 0..MaxFaults
BY OutcomeType DEF TransferInv, ViewsInv, ViewsTypeOK, Interruptible

\* The views are left alone.
LEMMA ViewsFrame ==
  ASSUME TransferInv, UNCHANGED viewVars, faults' \in 0..MaxFaults
  PROVE  ViewsInv'
BY DEF TransferInv, ViewsInv, ViewsTypeOK, MountInv, CloseInv, BackedInv, EraseInv,
   ServingIsBacked, EvidenceLeft

\* So are the views and the calls that may fail.
LEMMA ViewsUnchanged ==
  ASSUME TransferInv, UNCHANGED <<viewVars, faults>>
  PROVE  ViewsInv'
<1>1. faults' \in 0..MaxFaults
  BY DEF TransferInv, ViewsInv, ViewsTypeOK
<1> QED BY <1>1, ViewsFrame

\* Open begins, or is refused.
LEMMA ViewsBegin ==
  ASSUME TransferInv, vpc = "idle", ~EvidenceLeft, vpc' \in {"access", "refused"},
         erase.by # "stale",
         UNCHANGED <<mountpoint, ownership, mount, access, set, leases, vret, erase, faults>>
  PROVE  ViewsInv'
<1>1. ViewsTypeOK'
  BY DEF TransferInv, ViewsInv, ViewsTypeOK
<1>2. MountInv' /\ CloseInv'
  BY DEF TransferInv, ViewsInv, MountInv, CloseInv, Opening, Closing, NoSet, EvidenceLeft
<1>3. BackedInv' /\ EraseInv'
  BY DEF TransferInv, ViewsInv, MountInv, BackedInv, EraseInv, Opening, ServingIsBacked,
     EvidenceLeft
<1> QED BY <1>1, <1>2, <1>3 DEF ViewsInv

\* The recovery of the evidence begins, or ends.
LEMMA StaleErase ==
  ASSUME TransferInv, erase.by \in {"none", "stale"},
         vpc \in {"idle", "refused", "open"}, mount \in {"none", "stopped"},
         erase' \in {NoErase, [pc |-> "observe", by |-> "stale"]},
         UNCHANGED <<mountpoint, ownership, mount, access, vpc, set, leases, vret>>,
         faults' \in 0..MaxFaults
  PROVE  ViewsInv'
<1>1. ViewsTypeOK'
  BY DEF TransferInv, ViewsInv, ViewsTypeOK, NoErase
<1>2. MountInv' /\ CloseInv' /\ BackedInv'
  BY DEF TransferInv, ViewsInv, MountInv, CloseInv, BackedInv, ServingIsBacked, EvidenceLeft
<1>3. EraseInv'
  BY DEF TransferInv, ViewsInv, EraseInv, NoErase, EvidenceLeft
<1> QED BY <1>1, <1>2, <1>3 DEF ViewsInv

\* The resolvers are left alone.
LEMMA ResolversFrame ==
  ASSUME TransferInv, UNCHANGED resolverVars
  PROVE  ResolversInv'
BY DEF TransferInv, ResolversInv, ResolversTypeOK, WorkersInv, HandlersInv, OfStream

\* Open begins.
LEMMA ResolversBegin ==
  ASSUME TransferInv, rpc = "idle", rpc' = "opening",
         UNCHANGED <<forwards, workerVars, shutdownVars>>
  PROVE  ResolversInv'
BY DEF TransferInv, ResolversInv, ResolversTypeOK, WorkersInv, HandlersInv, OfStream

\* Without a forwarder, or after its shutdown, no goroutine is left.
LEMMA NoWorkers ==
  ASSUME ResolversInv, rpc \in {"idle", "opening", "refused", "closed"} \/ shutdown = "done"
  PROVE  ~WorkersLeft
<1>1. CASE ~forwards
  BY <1>1 DEF ResolversInv, WorkersInv, WorkersLeft
<1>2. CASE forwards
  BY <1>2 DEF ResolversInv, WorkersInv, WorkersLeft
<1> QED BY <1>1, <1>2

-----------------------------------------------------------------------------
(* Acquiring                                                               *)

USE DEF netVars, runVars, stopVars, groupVars, flowVars, hostVars, RecoverRest, Preparing

\* The read-only facts.
LEMMA ReadOnlyFactsKeeps ==
  ASSUME TransferInv, NEW ok \in BOOLEAN, ReadOnlyFacts(ok)
  PROVE  TransferInv'
<1>1. ViewsInv'
  BY ViewsUnchanged DEF ReadOnlyFacts, Return
<1>2. ResolversInv'
  BY ResolversFrame DEF ReadOnlyFacts, Return
<1>3. Group!GroupTypeOK'
  BY DEF Group!GroupTypeOK, TransferInv, RunTypeOK, ReadOnlyFacts, Return
<1>4. FlowOK'
  BY DEF FlowOK, TransferInv, RunTypeOK, ReadOnlyFacts, Return
<1>5. ReportsOK'
  BY DEF ReportsOK, TransferInv, RunTypeOK, ReadOnlyFacts, Return
<1>6. GroupInv'
  BY DEF GroupInv, TransferInv, RunTypeOK, FlowOK, Needed, Ended, ReadOnlyFacts, Return
<1>7. ServedInv'
  BY DEF ServedInv, TransferInv, RunTypeOK, FlowOK, Needed, Ended, EvidenceLeft,
     ReadOnlyFacts, Return
<1>8. ChainInv'
  BY DEF ChainInv, TransferInv, RunTypeOK, FlowOK, Opening, Closing, ReadOnlyFacts, Return
<1>9. RootInv'
  BY DEF RootInv, TransferInv, RunTypeOK, FlowOK, EvidenceLeft, RemovedLeavesNothing,
     ReadOnlyFacts, Return
<1> QED BY <1>1, <1>2, <1>3, <1>4, <1>5, <1>6, <1>7, <1>8, <1>9 DEF TransferInv, RunTypeOK,
   ViewsInv, ResolversInv

\* The run root is created.
LEMMA CreateLiveRunKeeps ==
  ASSUME TransferInv, NEW ok \in BOOLEAN, CreateLiveRun(ok)
  PROVE  TransferInv'
<1>1. ViewsInv'
  BY OutcomeType, ViewsFrame DEF CreateLiveRun, Return
<1>2. ResolversInv'
  BY ResolversFrame DEF CreateLiveRun, Return
<1>3. Group!GroupTypeOK'
  BY DEF Group!GroupTypeOK, TransferInv, RunTypeOK, CreateLiveRun, Return
<1>4. FlowOK'
  BY DEF FlowOK, TransferInv, RunTypeOK, CreateLiveRun, Return
<1>5. ReportsOK'
  BY DEF ReportsOK, TransferInv, RunTypeOK, CreateLiveRun, Return
<1>6. GroupInv'
  BY DEF GroupInv, TransferInv, RunTypeOK, FlowOK, Needed, Ended, CreateLiveRun, Return
<1>7. ServedInv'
  BY DEF ServedInv, TransferInv, RunTypeOK, FlowOK, Needed, Ended, EvidenceLeft,
     CreateLiveRun, Return
<1>8. ChainInv'
  BY DEF ChainInv, TransferInv, RunTypeOK, FlowOK, Opening, Closing, CreateLiveRun, Return
<1>9. RootInv'
  BY DEF RootInv, TransferInv, RunTypeOK, FlowOK, EvidenceLeft, RemovedLeavesNothing,
     CreateLiveRun, Return
<1> QED BY <1>1, <1>2, <1>3, <1>4, <1>5, <1>6, <1>7, <1>8, <1>9 DEF TransferInv, RunTypeOK,
   ViewsInv, ResolversInv

\* The claim of the network is published.
LEMMA PublishClaimKeeps ==
  ASSUME TransferInv, NEW ok \in BOOLEAN, PublishClaim(ok)
  PROVE  TransferInv'
<1>1. ViewsInv'
  BY InterruptibleType, ViewsFrame DEF PublishClaim
<1>2. ResolversInv'
  BY ResolversFrame DEF PublishClaim
<1>3. Group!GroupTypeOK'
  BY DEF Group!GroupTypeOK, TransferInv, RunTypeOK, PublishClaim, NetworkRefused, Cleanup
<1>4. FlowOK'
  BY DEF FlowOK, TransferInv, RunTypeOK, PublishClaim, NetworkRefused, Cleanup
<1>5. ReportsOK'
  BY DEF ReportsOK, TransferInv, RunTypeOK, PublishClaim, NetworkRefused, Cleanup
<1>6. GroupInv'
  BY DEF GroupInv, TransferInv, Ended, ServedInv, PublishClaim
<1>7. ServedInv'
  <2>1. /\ net = "none" /\ rpc = "idle" /\ group = "none" /\ vpc = "idle" /\ ~EvidenceLeft
        /\ shutdown = "no"
    BY DEF TransferInv, ServedInv, ResolversInv, WorkersInv, PublishClaim
  <2>2. group' = "none" /\ vpc' = "idle" /\ ~EvidenceLeft' /\ shutdown' = "no" /\ net' = "none"
    BY <2>1 DEF PublishClaim, EvidenceLeft
  <2>3. CASE ok
    <3>1. pc' = "install" /\ rpc' = "idle" /\ clean' = clean
      BY <2>1, <2>3 DEF PublishClaim
    <3>2. clean = "no"
      BY DEF TransferInv, RunTypeOK, FlowOK, ChainInv, PublishClaim
    <3> QED BY <2>2, <3>1, <3>2 DEF ServedInv, Needed
  <2>4. CASE ~ok
    <3>1. pc' = "cleanup" /\ clean' = "complete"
      BY <2>4 DEF PublishClaim, NetworkRefused, Cleanup
    <3> QED BY <3>1 DEF ServedInv, Needed
  <2> QED BY <2>3, <2>4
<1>8. ChainInv'
  BY DEF ChainInv, TransferInv, RunTypeOK, FlowOK, ServedInv, PublishClaim, NetworkRefused, Cleanup
<1>9. RootInv'
  BY DEF RootInv, TransferInv, RunTypeOK, FlowOK, EvidenceLeft, RemovedLeavesNothing,
     PublishClaim, NetworkRefused, Cleanup
<1> QED BY <1>1, <1>2, <1>3, <1>4, <1>5, <1>6, <1>7, <1>8, <1>9 DEF TransferInv, RunTypeOK,
   ViewsInv, ResolversInv

\* Its links and rules are installed.
LEMMA InstallNetworkKeeps ==
  ASSUME TransferInv, NEW ok \in BOOLEAN, InstallNetwork(ok)
  PROVE  TransferInv'
<1>1. ViewsInv'
  BY InterruptibleType, ViewsFrame DEF InstallNetwork
<1>2. ResolversInv'
  BY ResolversFrame DEF InstallNetwork
<1>3. Group!GroupTypeOK'
  BY DEF Group!GroupTypeOK, TransferInv, RunTypeOK, InstallNetwork
<1>4. FlowOK'
  BY DEF FlowOK, TransferInv, RunTypeOK, InstallNetwork
<1>5. ReportsOK'
  BY DEF ReportsOK, TransferInv, RunTypeOK, InstallNetwork
<1>6. GroupInv'
  BY DEF GroupInv, TransferInv, Ended, ServedInv, InstallNetwork
<1>7. ServedInv'
  <2>1. /\ net = "none" /\ rpc = "idle" /\ group = "none" /\ vpc = "idle" /\ ~EvidenceLeft
        /\ shutdown = "no"
    BY DEF TransferInv, ServedInv, ResolversInv, WorkersInv, InstallNetwork
  <2>2. group' = "none" /\ vpc' = "idle" /\ ~EvidenceLeft' /\ shutdown' = "no" /\ net' = "none"
    BY <2>1 DEF InstallNetwork, EvidenceLeft
  <2>3. CASE ok
    <3>1. pc' = "activate" /\ rpc' = "idle" /\ clean' = clean
      BY <2>1, <2>3 DEF InstallNetwork
    <3>2. clean = "no"
      BY DEF TransferInv, RunTypeOK, FlowOK, ChainInv, InstallNetwork
    <3> QED BY <2>2, <3>1, <3>2 DEF ServedInv, Needed
  <2>4. CASE ~ok
    <3>1. pc' = "rollback" /\ rpc' = "idle" /\ clean' = clean
      BY <2>1, <2>4 DEF InstallNetwork
    <3>2. clean = "no"
      BY DEF TransferInv, RunTypeOK, FlowOK, ChainInv, InstallNetwork
    <3> QED BY <2>2, <3>1, <3>2 DEF ServedInv, Needed
  <2> QED BY <2>3, <2>4
<1>8. ChainInv'
  BY DEF ChainInv, TransferInv, RunTypeOK, FlowOK, ServedInv, InstallNetwork
<1>9. RootInv'
  BY DEF RootInv, TransferInv, RunTypeOK, FlowOK, EvidenceLeft, RemovedLeavesNothing,
     InstallNetwork
<1> QED BY <1>1, <1>2, <1>3, <1>4, <1>5, <1>6, <1>7, <1>8, <1>9 DEF TransferInv, RunTypeOK,
   ViewsInv, ResolversInv

\* It is activated, and the resolvers are opened.
LEMMA ActivateNetworkKeeps ==
  ASSUME TransferInv, NEW ok \in BOOLEAN, ActivateNetwork(ok)
  PROVE  TransferInv'
<1>1. ViewsInv'
  BY InterruptibleType, ViewsFrame DEF ActivateNetwork
<1>2. ResolversInv'
  BY ResolversFrame, ResolversBegin DEF ResolversInv, TransferInv, ServedInv,
     ActivateNetwork
<1>3. Group!GroupTypeOK'
  BY DEF Group!GroupTypeOK, TransferInv, RunTypeOK, ActivateNetwork
<1>4. FlowOK'
  BY DEF FlowOK, TransferInv, RunTypeOK, ActivateNetwork
<1>5. ReportsOK'
  BY DEF ReportsOK, TransferInv, RunTypeOK, ActivateNetwork
<1>6. GroupInv'
  BY DEF GroupInv, TransferInv, Ended, ServedInv, ActivateNetwork
<1>7. ServedInv'
  <2>1. /\ net = "none" /\ rpc = "idle" /\ group = "none" /\ vpc = "idle" /\ ~EvidenceLeft
        /\ shutdown = "no"
    BY DEF TransferInv, ServedInv, ResolversInv, WorkersInv, ActivateNetwork
  <2>2. group' = "none" /\ vpc' = "idle" /\ ~EvidenceLeft' /\ shutdown' = "no"
    BY <2>1 DEF ActivateNetwork, EvidenceLeft
  <2>3. CASE ok
    <3>1. pc' = "resolvers" /\ rpc' = "opening" /\ clean' = clean
      BY <2>1, <2>3 DEF ActivateNetwork
    <3>2. clean = "no"
      BY DEF TransferInv, RunTypeOK, FlowOK, ChainInv, ActivateNetwork
    <3> QED BY <2>2, <3>1, <3>2 DEF ServedInv, Needed
  <2>4. CASE ~ok
    <3>1. pc' = "rollback" /\ rpc' = "idle" /\ clean' = clean /\ net' = "none"
      BY <2>1, <2>4 DEF ActivateNetwork
    <3>2. clean = "no"
      BY DEF TransferInv, RunTypeOK, FlowOK, ChainInv, ActivateNetwork
    <3> QED BY <2>2, <3>1, <3>2 DEF ServedInv, Needed
  <2> QED BY <2>3, <2>4
<1>8. ChainInv'
  BY DEF ChainInv, TransferInv, RunTypeOK, FlowOK, ServedInv, ActivateNetwork
<1>9. RootInv'
  BY DEF RootInv, TransferInv, RunTypeOK, FlowOK, EvidenceLeft, RemovedLeavesNothing,
     ActivateNetwork
<1> QED BY <1>1, <1>2, <1>3, <1>4, <1>5, <1>6, <1>7, <1>8, <1>9 DEF TransferInv, RunTypeOK,
   ViewsInv, ResolversInv

\* What was installed is rolled back.
LEMMA RollBackNetworkKeeps ==
  ASSUME TransferInv, RollBackNetwork
  PROVE  TransferInv'
<1>1. ViewsInv'
  BY ViewsUnchanged DEF RollBackNetwork
<1>2. ResolversInv'
  BY ResolversFrame DEF RollBackNetwork
<1>3. Group!GroupTypeOK'
  BY DEF Group!GroupTypeOK, TransferInv, RunTypeOK, RollBackNetwork, NetworkRefused, Cleanup
<1>4. FlowOK'
  BY DEF FlowOK, TransferInv, RunTypeOK, RollBackNetwork, NetworkRefused, Cleanup
<1>5. ReportsOK'
  BY DEF ReportsOK, TransferInv, RunTypeOK, RollBackNetwork, NetworkRefused, Cleanup
<1>6. GroupInv'
  BY DEF GroupInv, TransferInv, Ended, ServedInv, RollBackNetwork
<1>7. ServedInv'
  <2>1. pc' = "cleanup" /\ clean' = "complete"
    BY DEF RollBackNetwork, NetworkRefused, Cleanup
  <2> QED BY <2>1 DEF ServedInv, Needed
<1>8. ChainInv'
  BY DEF ChainInv, TransferInv, RunTypeOK, FlowOK, ServedInv, RollBackNetwork,
     NetworkRefused, Cleanup
<1>9. RootInv'
  BY DEF RootInv, TransferInv, RunTypeOK, FlowOK, EvidenceLeft, RemovedLeavesNothing,
     RollBackNetwork, NetworkRefused, Cleanup
<1> QED BY <1>1, <1>2, <1>3, <1>4, <1>5, <1>6, <1>7, <1>8, <1>9 DEF TransferInv, RunTypeOK,
   ViewsInv, ResolversInv

\* The resolvers are opened.
LEMMA ResolversOpenedKeeps ==
  ASSUME TransferInv, ResolversOpened
  PROVE  TransferInv'
<1>1. ViewsInv'
  BY ViewsUnchanged DEF ResolversOpened, Cleanup
<1>2. ResolversInv'
  BY ResolversFrame DEF ResolversOpened, Cleanup
<1>3. Group!GroupTypeOK'
  BY DEF Group!GroupTypeOK, TransferInv, RunTypeOK, ResolversOpened, Cleanup
<1>4. FlowOK'
  BY DEF FlowOK, TransferInv, RunTypeOK, ResolversOpened, Cleanup
<1>5. ReportsOK'
  BY DEF ReportsOK, TransferInv, RunTypeOK, ResolversOpened, Cleanup
<1>6. GroupInv'
  BY DEF GroupInv, TransferInv, Ended, ServedInv, ResolversOpened
<1>7. ServedInv'
  BY DEF ServedInv, TransferInv, Needed, EvidenceLeft, ChainInv, ResolversOpened, Cleanup
<1>8. ChainInv'
  BY DEF ChainInv, TransferInv, RunTypeOK, FlowOK, Opening, Closing, ResolversOpened,
     Cleanup
<1>9. RootInv'
  BY DEF RootInv, TransferInv, RunTypeOK, FlowOK, EvidenceLeft, RemovedLeavesNothing,
     ResolversOpened, Cleanup
<1> QED BY <1>1, <1>2, <1>3, <1>4, <1>5, <1>6, <1>7, <1>8, <1>9 DEF TransferInv, RunTypeOK,
   ViewsInv, ResolversInv

\* The weights are given.
LEMMA ManualWeightsKeeps ==
  ASSUME TransferInv, NEW ok \in BOOLEAN, ManualWeights(ok)
  PROVE  TransferInv'
<1>1. ViewsInv'
  BY ViewsUnchanged, ViewsBegin DEF ViewsInv, TransferInv, ServedInv, RootInv,
     ManualWeights, OpenViews, Cleanup
<1>2. ResolversInv'
  BY ResolversFrame DEF ManualWeights, OpenViews, Cleanup
<1>3. Group!GroupTypeOK'
  BY DEF Group!GroupTypeOK, TransferInv, RunTypeOK, ManualWeights, OpenViews, Cleanup
<1>4. FlowOK'
  BY DEF FlowOK, TransferInv, RunTypeOK, ManualWeights, OpenViews, Cleanup
<1>5. ReportsOK'
  BY DEF ReportsOK, TransferInv, RunTypeOK, ManualWeights, OpenViews, Cleanup
<1>6. GroupInv'
  BY DEF GroupInv, TransferInv, Ended, ServedInv, ManualWeights
<1>7. ServedInv'
  BY DEF ServedInv, TransferInv, Needed, ManualWeights, OpenViews, Cleanup
<1>8. ChainInv'
  BY DEF ChainInv, TransferInv, RunTypeOK, FlowOK, Opening, Closing, ManualWeights,
     OpenViews, Cleanup
<1>9. RootInv'
  BY DEF RootInv, TransferInv, RunTypeOK, FlowOK, EvidenceLeft, RemovedLeavesNothing,
     ManualWeights, OpenViews, Cleanup
<1> QED BY <1>1, <1>2, <1>3, <1>4, <1>5, <1>6, <1>7, <1>8, <1>9 DEF TransferInv, RunTypeOK,
   ViewsInv, ResolversInv

\* The measurement starts.
LEMMA MeasureKeeps ==
  ASSUME TransferInv, Measure
  PROVE  TransferInv'
<1>1. ViewsInv'
  BY ViewsUnchanged DEF Measure, Group!Begin
<1>2. ResolversInv'
  BY ResolversFrame DEF Measure, Group!Begin
<1>3. Group!GroupTypeOK'
  BY DEF Group!GroupTypeOK, TransferInv, RunTypeOK, Measure, Group!Begin
<1>4. FlowOK'
  BY DEF FlowOK, TransferInv, RunTypeOK, Measure, Group!Begin
<1>5. ReportsOK'
  BY DEF ReportsOK, TransferInv, RunTypeOK, Measure, Group!Begin
<1>6. GroupInv'
  BY DEF GroupInv, TransferInv, RunTypeOK, FlowOK, Needed, Ended, Measure, Group!Begin
<1>7. ServedInv'
  BY DEF ServedInv, TransferInv, RunTypeOK, FlowOK, Needed, Ended, EvidenceLeft, Measure,
     Group!Begin
<1>8. ChainInv'
  BY DEF ChainInv, TransferInv, RunTypeOK, FlowOK, Opening, Closing, Measure, Group!Begin
<1>9. RootInv'
  BY DEF RootInv, TransferInv, RunTypeOK, FlowOK, EvidenceLeft, RemovedLeavesNothing,
     Measure, Group!Begin
<1> QED BY <1>1, <1>2, <1>3, <1>4, <1>5, <1>6, <1>7, <1>8, <1>9 DEF TransferInv, RunTypeOK,
   ViewsInv, ResolversInv

\* The measurement has ended.
LEMMA MeasuredKeeps ==
  ASSUME TransferInv, NEW ok \in BOOLEAN, Measured(ok)
  PROVE  TransferInv'
<1>1. ViewsInv'
  BY ViewsUnchanged, ViewsBegin DEF ViewsInv, TransferInv, ServedInv, RootInv, Measured,
     OpenViews, Cleanup
<1>2. ResolversInv'
  BY ResolversFrame DEF Measured, OpenViews, Cleanup
<1>3. Group!GroupTypeOK'
  BY DEF Group!GroupTypeOK, TransferInv, RunTypeOK, Measured, OpenViews, Cleanup
<1>4. FlowOK'
  BY DEF FlowOK, TransferInv, RunTypeOK, Measured, OpenViews, Cleanup
<1>5. ReportsOK'
  BY DEF ReportsOK, TransferInv, RunTypeOK, Measured, OpenViews, Cleanup
<1>6. GroupInv'
  BY DEF GroupInv, TransferInv, RunTypeOK, FlowOK, Needed, Ended, Measured, OpenViews,
     Cleanup
<1>7. ServedInv'
  BY DEF ServedInv, TransferInv, Needed, ChainInv, Measured, OpenViews, Cleanup
<1>8. ChainInv'
  BY DEF ChainInv, TransferInv, RunTypeOK, FlowOK, Opening, Closing, Measured, OpenViews,
     Cleanup
<1>9. RootInv'
  BY DEF RootInv, TransferInv, RunTypeOK, FlowOK, EvidenceLeft, RemovedLeavesNothing,
     Measured, OpenViews, Cleanup
<1> QED BY <1>1, <1>2, <1>3, <1>4, <1>5, <1>6, <1>7, <1>8, <1>9 DEF TransferInv, RunTypeOK,
   ViewsInv, ResolversInv

\* The measurement cannot be contained.
LEMMA MeasuredUncontainedKeeps ==
  ASSUME TransferInv, MeasuredUncontained
  PROVE  TransferInv'
<1>1. ViewsInv'
  BY ViewsUnchanged DEF MeasuredUncontained, Cleanup
<1>2. ResolversInv'
  BY ResolversFrame DEF MeasuredUncontained, Cleanup
<1>3. Group!GroupTypeOK'
  BY DEF Group!GroupTypeOK, TransferInv, RunTypeOK, MeasuredUncontained, Cleanup
<1>4. FlowOK'
  BY DEF FlowOK, TransferInv, RunTypeOK, MeasuredUncontained, Cleanup
<1>5. ReportsOK'
  BY DEF ReportsOK, TransferInv, RunTypeOK, MeasuredUncontained, Cleanup
<1>6. GroupInv'
  BY DEF GroupInv, TransferInv, RunTypeOK, FlowOK, Needed, Ended, MeasuredUncontained,
     Cleanup
<1>7. ServedInv'
  BY DEF ServedInv, TransferInv, RunTypeOK, FlowOK, Needed, Ended, EvidenceLeft,
     MeasuredUncontained, Cleanup
<1>8. ChainInv'
  BY DEF ChainInv, TransferInv, RunTypeOK, FlowOK, Opening, Closing, MeasuredUncontained,
     Cleanup
<1>9. RootInv'
  BY DEF RootInv, TransferInv, RunTypeOK, FlowOK, EvidenceLeft, RemovedLeavesNothing,
     MeasuredUncontained, Cleanup
<1> QED BY <1>1, <1>2, <1>3, <1>4, <1>5, <1>6, <1>7, <1>8, <1>9 DEF TransferInv, RunTypeOK,
   ViewsInv, ResolversInv

\* The views are opened.
LEMMA ViewsOpenedKeeps ==
  ASSUME TransferInv, ViewsOpened
  PROVE  TransferInv'
<1>1. ViewsInv'
  BY ViewsUnchanged DEF ViewsOpened, Cleanup
<1>2. ResolversInv'
  BY ResolversFrame DEF ViewsOpened, Cleanup
<1>3. Group!GroupTypeOK'
  BY DEF Group!GroupTypeOK, TransferInv, RunTypeOK, ViewsOpened, Cleanup
<1>4. FlowOK'
  BY DEF FlowOK, TransferInv, RunTypeOK, ViewsOpened, Cleanup
<1>5. ReportsOK'
  BY DEF ReportsOK, TransferInv, RunTypeOK, ViewsOpened, Cleanup
<1>6. GroupInv'
  BY DEF GroupInv, TransferInv, Ended, ServedInv, ViewsOpened
<1>7. ServedInv'
  BY DEF ServedInv, TransferInv, Needed, ViewsOpened, Cleanup
<1>8. ChainInv'
  BY DEF ChainInv, TransferInv, RunTypeOK, FlowOK, Opening, Closing, ViewsOpened, Cleanup
<1>9. RootInv'
  BY DEF RootInv, TransferInv, RunTypeOK, FlowOK, EvidenceLeft, RemovedLeavesNothing,
     ViewsOpened, Cleanup
<1> QED BY <1>1, <1>2, <1>3, <1>4, <1>5, <1>6, <1>7, <1>8, <1>9 DEF TransferInv, RunTypeOK,
   ViewsInv, ResolversInv

\* A view is leased.
LEMMA LeaseViewKeeps ==
  ASSUME TransferInv, NEW t \in Transfers, LeaseView(t)
  PROVE  TransferInv'
<1>1. ViewsInv'
  BY OpenViewViews DEF ViewsInv, TransferInv, LeaseView, OpenView
<1>2. ResolversInv'
  BY ResolversFrame DEF LeaseView, OpenView
<1>3. Group!GroupTypeOK'
  BY DEF Group!GroupTypeOK, TransferInv, RunTypeOK, LeaseView, OpenView
<1>4. FlowOK'
  BY DEF FlowOK, TransferInv, RunTypeOK, LeaseView, OpenView
<1>5. ReportsOK'
  BY DEF ReportsOK, TransferInv, RunTypeOK, LeaseView, OpenView
<1>6. GroupInv'
  BY DEF GroupInv, TransferInv, RunTypeOK, FlowOK, Needed, Ended, LeaseView, OpenView
<1>7. ServedInv'
  BY DEF ServedInv, TransferInv, RunTypeOK, FlowOK, Needed, Ended, EvidenceLeft, LeaseView,
     OpenView
<1>8. ChainInv'
  BY DEF ChainInv, TransferInv, RunTypeOK, FlowOK, Opening, Closing, LeaseView, OpenView
<1>9. RootInv'
  BY DEF RootInv, TransferInv, RunTypeOK, FlowOK, EvidenceLeft, RemovedLeavesNothing,
     LeaseView, OpenView
<1> QED BY <1>1, <1>2, <1>3, <1>4, <1>5, <1>6, <1>7, <1>8, <1>9 DEF TransferInv, RunTypeOK,
   ViewsInv, ResolversInv

\* A view cannot be leased.
LEMMA LeaseFailsKeeps ==
  ASSUME TransferInv, LeaseFails
  PROVE  TransferInv'
<1>1. ViewsInv'
  BY OutcomeType, ViewsFrame DEF LeaseFails, Cleanup
<1>2. ResolversInv'
  BY ResolversFrame DEF LeaseFails, Cleanup
<1>3. Group!GroupTypeOK'
  BY DEF Group!GroupTypeOK, TransferInv, RunTypeOK, LeaseFails, Cleanup
<1>4. FlowOK'
  BY DEF FlowOK, TransferInv, RunTypeOK, LeaseFails, Cleanup
<1>5. ReportsOK'
  BY DEF ReportsOK, TransferInv, RunTypeOK, LeaseFails, Cleanup
<1>6. GroupInv'
  BY DEF GroupInv, TransferInv, Ended, ServedInv, LeaseFails
<1>7. ServedInv'
  BY DEF ServedInv, TransferInv, RunTypeOK, FlowOK, Needed, Ended, EvidenceLeft,
     LeaseFails, Cleanup
<1>8. ChainInv'
  BY DEF ChainInv, TransferInv, RunTypeOK, FlowOK, Opening, Closing, LeaseFails, Cleanup
<1>9. RootInv'
  BY DEF RootInv, TransferInv, RunTypeOK, FlowOK, EvidenceLeft, RemovedLeavesNothing,
     LeaseFails, Cleanup
<1> QED BY <1>1, <1>2, <1>3, <1>4, <1>5, <1>6, <1>7, <1>8, <1>9 DEF TransferInv, RunTypeOK,
   ViewsInv, ResolversInv

\* The start of the commands begins.
LEMMA StartCommandsKeeps ==
  ASSUME TransferInv, StartCommands
  PROVE  TransferInv'
<1>1. ViewsInv'
  BY ViewsUnchanged DEF StartCommands, Group!Begin
<1>2. ResolversInv'
  BY ResolversFrame DEF StartCommands, Group!Begin
<1>3. Group!GroupTypeOK'
  BY DEF Group!GroupTypeOK, TransferInv, RunTypeOK, StartCommands, Group!Begin
<1>4. FlowOK'
  BY DEF FlowOK, TransferInv, RunTypeOK, StartCommands, Group!Begin
<1>5. ReportsOK'
  BY DEF ReportsOK, TransferInv, RunTypeOK, StartCommands, Group!Begin
<1>6. GroupInv'
  BY DEF GroupInv, TransferInv, RunTypeOK, FlowOK, Needed, Ended, StartCommands, Group!Begin
<1>7. ServedInv'
  BY DEF ServedInv, TransferInv, RunTypeOK, FlowOK, Needed, Ended, EvidenceLeft,
     StartCommands, Group!Begin
<1>8. ChainInv'
  BY DEF ChainInv, TransferInv, RunTypeOK, FlowOK, Opening, Closing, StartCommands,
     Group!Begin
<1>9. RootInv'
  BY DEF RootInv, TransferInv, RunTypeOK, FlowOK, EvidenceLeft, RemovedLeavesNothing,
     StartCommands, Group!Begin
<1> QED BY <1>1, <1>2, <1>3, <1>4, <1>5, <1>6, <1>7, <1>8, <1>9 DEF TransferInv, RunTypeOK,
   ViewsInv, ResolversInv

\* The start of the commands returns.
LEMMA CommandsStartedKeeps ==
  ASSUME TransferInv, NEW ok \in BOOLEAN, CommandsStarted(ok)
  PROVE  TransferInv'
<1>1. ViewsInv'
  BY ViewsUnchanged DEF CommandsStarted, Cleanup
<1>2. ResolversInv'
  BY ResolversFrame DEF CommandsStarted, Cleanup
<1>3. Group!GroupTypeOK'
  BY DEF Group!GroupTypeOK, TransferInv, RunTypeOK, CommandsStarted, Cleanup
<1>4. FlowOK'
  BY DEF FlowOK, TransferInv, RunTypeOK, CommandsStarted, Cleanup
<1>5. ReportsOK'
  BY DEF ReportsOK, TransferInv, RunTypeOK, CommandsStarted, Cleanup
<1>6. GroupInv'
  BY DEF GroupInv, TransferInv, RunTypeOK, FlowOK, Needed, Ended, CommandsStarted, Cleanup
<1>7. ServedInv'
  BY DEF ServedInv, TransferInv, RunTypeOK, FlowOK, Needed, Ended, EvidenceLeft,
     CommandsStarted, Cleanup
<1>8. ChainInv'
  BY DEF ChainInv, TransferInv, RunTypeOK, FlowOK, Opening, Closing, CommandsStarted,
     Cleanup
<1>9. RootInv'
  BY DEF RootInv, TransferInv, RunTypeOK, FlowOK, EvidenceLeft, RemovedLeavesNothing,
     CommandsStarted, Cleanup
<1> QED BY <1>1, <1>2, <1>3, <1>4, <1>5, <1>6, <1>7, <1>8, <1>9 DEF TransferInv, RunTypeOK,
   ViewsInv, ResolversInv

\* The commands have ended.
LEMMA CommandsWaitedKeeps ==
  ASSUME TransferInv, CommandsWaited
  PROVE  TransferInv'
<1>1. ViewsInv'
  BY ViewsUnchanged DEF CommandsWaited, Cleanup
<1>2. ResolversInv'
  BY ResolversFrame DEF CommandsWaited, Cleanup
<1>3. Group!GroupTypeOK'
  BY DEF Group!GroupTypeOK, TransferInv, RunTypeOK, CommandsWaited, Cleanup
<1>4. FlowOK'
  BY DEF FlowOK, TransferInv, RunTypeOK, CommandsWaited, Cleanup
<1>5. ReportsOK'
  BY DEF ReportsOK, TransferInv, RunTypeOK, CommandsWaited, Cleanup
<1>6. GroupInv'
  BY DEF GroupInv, TransferInv, RunTypeOK, FlowOK, Needed, Ended, CommandsWaited, Cleanup
<1>7. ServedInv'
  BY DEF ServedInv, TransferInv, RunTypeOK, FlowOK, Needed, Ended, EvidenceLeft,
     CommandsWaited, Cleanup
<1>8. ChainInv'
  BY DEF ChainInv, TransferInv, RunTypeOK, FlowOK, Opening, Closing, CommandsWaited, Cleanup
<1>9. RootInv'
  BY DEF RootInv, TransferInv, RunTypeOK, FlowOK, EvidenceLeft, RemovedLeavesNothing,
     CommandsWaited, Cleanup
<1> QED BY <1>1, <1>2, <1>3, <1>4, <1>5, <1>6, <1>7, <1>8, <1>9 DEF TransferInv, RunTypeOK,
   ViewsInv, ResolversInv

-----------------------------------------------------------------------------
(* Releasing                                                               *)

\* The processes are contained.
LEMMA ContainedKeeps ==
  ASSUME TransferInv, Contained
  PROVE  TransferInv'
<1>1. ViewsInv'
  BY ViewsUnchanged DEF Contained, CleanTo
<1>2. ResolversInv'
  BY ResolversFrame DEF Contained, CleanTo
<1>3. Group!GroupTypeOK'
  BY DEF Group!GroupTypeOK, TransferInv, RunTypeOK, Contained, CleanTo
<1>4. FlowOK'
  BY DEF FlowOK, TransferInv, RunTypeOK, Contained, CleanTo
<1>5. ReportsOK'
  BY DEF ReportsOK, TransferInv, RunTypeOK, Contained, CleanTo
<1>6. GroupInv'
  BY DEF GroupInv, TransferInv, RunTypeOK, FlowOK, Needed, Ended, Contained, CleanTo
<1>7. ServedInv'
  BY DEF ServedInv, TransferInv, RunTypeOK, FlowOK, Needed, Ended, EvidenceLeft, Contained,
     CleanTo
<1>8. ChainInv'
  BY DEF ChainInv, TransferInv, RunTypeOK, FlowOK, Opening, Closing, Contained, CleanTo
<1>9. RootInv'
  BY DEF RootInv, TransferInv, RunTypeOK, FlowOK, EvidenceLeft, RemovedLeavesNothing,
     Contained, CleanTo
<1> QED BY <1>1, <1>2, <1>3, <1>4, <1>5, <1>6, <1>7, <1>8, <1>9 DEF TransferInv, RunTypeOK,
   ViewsInv, ResolversInv

\* The processes are not contained in time.
LEMMA ContainmentTimesOutKeeps ==
  ASSUME TransferInv, ContainmentTimesOut
  PROVE  TransferInv'
<1>1. ViewsInv'
  BY ViewsUnchanged DEF ContainmentTimesOut, CleanTo, Return
<1>2. ResolversInv'
  BY ResolversFrame DEF ContainmentTimesOut, CleanTo, Return
<1>3. Group!GroupTypeOK'
  BY DEF Group!GroupTypeOK, TransferInv, RunTypeOK, ContainmentTimesOut, CleanTo, Return
<1>4. FlowOK'
  BY DEF FlowOK, TransferInv, RunTypeOK, ContainmentTimesOut, CleanTo, Return
<1>5. ReportsOK'
  BY DEF ReportsOK, TransferInv, RunTypeOK, ContainmentTimesOut, CleanTo, Return
<1>6. GroupInv'
  BY DEF GroupInv, TransferInv, RunTypeOK, FlowOK, Needed, Ended, ContainmentTimesOut,
     CleanTo, Return
<1>7. ServedInv'
  BY DEF ServedInv, TransferInv, Needed, ContainmentTimesOut, Return
<1>8. ChainInv'
  BY DEF ChainInv, TransferInv, RunTypeOK, FlowOK, Opening, Closing, ContainmentTimesOut,
     CleanTo, Return
<1>9. RootInv'
  BY DEF RootInv, TransferInv, RunTypeOK, FlowOK, EvidenceLeft, RemovedLeavesNothing,
     ContainmentTimesOut, CleanTo, Return
<1> QED BY <1>1, <1>2, <1>3, <1>4, <1>5, <1>6, <1>7, <1>8, <1>9 DEF TransferInv, RunTypeOK,
   ViewsInv, ResolversInv

\* The resolvers are closed.
LEMMA CloseResolversKeeps ==
  ASSUME TransferInv, CloseResolvers
  PROVE  TransferInv'
<1>1. ViewsInv'
  BY ViewsUnchanged DEF CloseResolvers, CleanTo, BeginResolverClose
<1>2. ResolversInv'
  BY BeginResolverCloseResolvers DEF ResolversInv, TransferInv, CloseResolvers, CleanTo,
     BeginResolverClose
<1>3. Group!GroupTypeOK'
  BY DEF Group!GroupTypeOK, TransferInv, RunTypeOK, CloseResolvers, CleanTo,
     BeginResolverClose
<1>4. FlowOK'
  BY DEF FlowOK, TransferInv, RunTypeOK, CloseResolvers, CleanTo, BeginResolverClose
<1>5. ReportsOK'
  BY DEF ReportsOK, TransferInv, RunTypeOK, CloseResolvers, CleanTo, BeginResolverClose
<1>6. GroupInv'
  BY DEF GroupInv, TransferInv, RunTypeOK, FlowOK, Needed, Ended, CloseResolvers, CleanTo,
     BeginResolverClose
<1>7. ServedInv'
  BY DEF ServedInv, TransferInv, Needed, ChainInv, CloseResolvers, CleanTo
<1>8. ChainInv'
  BY DEF ChainInv, TransferInv, RunTypeOK, FlowOK, Opening, Closing, CloseResolvers,
     CleanTo, BeginResolverClose
<1>9. RootInv'
  BY DEF RootInv, TransferInv, RunTypeOK, FlowOK, EvidenceLeft, RemovedLeavesNothing,
     CloseResolvers, CleanTo, BeginResolverClose
<1> QED BY <1>1, <1>2, <1>3, <1>4, <1>5, <1>6, <1>7, <1>8, <1>9 DEF TransferInv, RunTypeOK,
   ViewsInv, ResolversInv

\* The Close of the resolvers returns.
LEMMA ResolversReturnedKeeps ==
  ASSUME TransferInv, ResolversReturned
  PROVE  TransferInv'
<1>1. ViewsInv'
  BY ViewsUnchanged DEF ResolversReturned, CleanTo, AfterResolvers
<1>2. ResolversInv'
  BY ResolversFrame DEF ResolversReturned, CleanTo, AfterResolvers
<1>3. Group!GroupTypeOK'
  BY DEF Group!GroupTypeOK, TransferInv, RunTypeOK, ResolversReturned, CleanTo,
     AfterResolvers
<1>4. FlowOK'
  BY DEF FlowOK, TransferInv, RunTypeOK, ResolversReturned, CleanTo, AfterResolvers
<1>5. ReportsOK'
  BY DEF ReportsOK, TransferInv, RunTypeOK, ResolversReturned, CleanTo, AfterResolvers
<1>6. GroupInv'
  BY DEF GroupInv, TransferInv, RunTypeOK, FlowOK, Needed, Ended, ResolversReturned,
     CleanTo, AfterResolvers
<1>7. ServedInv'
  BY DEF ServedInv, TransferInv, Needed, EvidenceLeft, ResolversReturned, CleanTo,
     AfterResolvers
<1>8. ChainInv'
  BY DEF ChainInv, TransferInv, RunTypeOK, FlowOK, Opening, Closing, ResolversReturned,
     CleanTo, AfterResolvers
<1>9. RootInv'
  BY DEF RootInv, TransferInv, RunTypeOK, FlowOK, EvidenceLeft, RemovedLeavesNothing,
     ResolversReturned, CleanTo, AfterResolvers
<1> QED BY <1>1, <1>2, <1>3, <1>4, <1>5, <1>6, <1>7, <1>8, <1>9 DEF TransferInv, RunTypeOK,
   ViewsInv, ResolversInv

\* The network is closed.
LEMMA CloseNetworkKeeps ==
  ASSUME TransferInv, NEW ok \in BOOLEAN, CloseNetwork(ok)
  PROVE  TransferInv'
<1>1. ViewsInv'
  BY OutcomeType, ViewsFrame DEF CloseNetwork, CleanTo, AfterResolvers
<1>2. ResolversInv'
  BY ResolversFrame DEF CloseNetwork, CleanTo, AfterResolvers
<1>3. Group!GroupTypeOK'
  BY DEF Group!GroupTypeOK, TransferInv, RunTypeOK, CloseNetwork, CleanTo, AfterResolvers
<1>4. FlowOK'
  BY DEF FlowOK, TransferInv, RunTypeOK, CloseNetwork, CleanTo, AfterResolvers, Kept
<1>5. ReportsOK'
  BY DEF ReportsOK, TransferInv, RunTypeOK, CloseNetwork, CleanTo, AfterResolvers
<1>6. GroupInv'
  BY DEF GroupInv, TransferInv, RunTypeOK, FlowOK, Needed, Ended, CloseNetwork, CleanTo,
     AfterResolvers
<1>7. ServedInv'
  BY DEF ServedInv, TransferInv, Needed, ChainInv, CloseNetwork, CleanTo, AfterResolvers
<1>8. ChainInv'
  BY DEF ChainInv, TransferInv, RunTypeOK, FlowOK, Opening, Closing, CloseNetwork, CleanTo,
     AfterResolvers
<1>9. RootInv'
  BY DEF RootInv, TransferInv, RunTypeOK, FlowOK, EvidenceLeft, RemovedLeavesNothing,
     CloseNetwork, CleanTo, AfterResolvers, Kept
<1> QED BY <1>1, <1>2, <1>3, <1>4, <1>5, <1>6, <1>7, <1>8, <1>9 DEF TransferInv, RunTypeOK,
   ViewsInv, ResolversInv

\* A lease is closed.
LEMMA CloseLeaseKeeps ==
  ASSUME TransferInv, NEW t \in Transfers, CloseLease(t)
  PROVE  TransferInv'
<1>1. ViewsInv'
  BY ReleaseLeaseViews DEF ViewsInv, TransferInv, CloseLease, ReleaseLease
<1>2. ResolversInv'
  BY ResolversFrame DEF CloseLease, ReleaseLease
<1>3. Group!GroupTypeOK'
  BY DEF Group!GroupTypeOK, TransferInv, RunTypeOK, CloseLease, ReleaseLease
<1>4. FlowOK'
  BY DEF FlowOK, TransferInv, RunTypeOK, CloseLease, ReleaseLease
<1>5. ReportsOK'
  BY DEF ReportsOK, TransferInv, RunTypeOK, CloseLease, ReleaseLease
<1>6. GroupInv'
  BY DEF GroupInv, TransferInv, RunTypeOK, FlowOK, Needed, Ended, CloseLease, ReleaseLease
<1>7. ServedInv'
  BY DEF ServedInv, TransferInv, Needed, ChainInv, CloseLease
<1>8. ChainInv'
  BY DEF ChainInv, TransferInv, RunTypeOK, FlowOK, Opening, Closing, CloseLease,
     ReleaseLease
<1>9. RootInv'
  BY DEF RootInv, TransferInv, RunTypeOK, FlowOK, EvidenceLeft, RemovedLeavesNothing,
     CloseLease, ReleaseLease
<1> QED BY <1>1, <1>2, <1>3, <1>4, <1>5, <1>6, <1>7, <1>8, <1>9 DEF TransferInv, RunTypeOK,
   ViewsInv, ResolversInv

\* The views are closed.
LEMMA CloseViewsKeeps ==
  ASSUME TransferInv, CloseViews
  PROVE  TransferInv'
<1>1. ViewsInv'
  BY BeginCloseViews DEF ViewsInv, TransferInv, RootInv, CloseViews, CleanTo, BeginClose
<1>2. ResolversInv'
  BY ResolversFrame DEF CloseViews, CleanTo, BeginClose
<1>3. Group!GroupTypeOK'
  BY DEF Group!GroupTypeOK, TransferInv, RunTypeOK, CloseViews, CleanTo, BeginClose
<1>4. FlowOK'
  BY DEF FlowOK, TransferInv, RunTypeOK, CloseViews, CleanTo, BeginClose
<1>5. ReportsOK'
  BY DEF ReportsOK, TransferInv, RunTypeOK, CloseViews, CleanTo, BeginClose
<1>6. GroupInv'
  BY DEF GroupInv, TransferInv, RunTypeOK, FlowOK, Needed, Ended, CloseViews, CleanTo,
     BeginClose
<1>7. ServedInv'
  BY DEF ServedInv, TransferInv, Needed, ChainInv, CloseViews, CleanTo
<1>8. ChainInv'
  BY DEF ChainInv, TransferInv, RunTypeOK, FlowOK, Opening, Closing, CloseViews, CleanTo,
     BeginClose
<1>9. RootInv'
  BY DEF RootInv, TransferInv, RunTypeOK, FlowOK, EvidenceLeft, RemovedLeavesNothing,
     CloseViews, CleanTo, BeginClose
<1> QED BY <1>1, <1>2, <1>3, <1>4, <1>5, <1>6, <1>7, <1>8, <1>9 DEF TransferInv, RunTypeOK,
   ViewsInv, ResolversInv

\* The Close of the views returns.
LEMMA ViewsReturnedKeeps ==
  ASSUME TransferInv, ViewsReturned
  PROVE  TransferInv'
<1>1. ViewsInv'
  BY ViewsUnchanged DEF ViewsReturned, CleanTo, HasViews
<1>2. ResolversInv'
  BY ResolversFrame DEF ViewsReturned, CleanTo, HasViews
<1>3. Group!GroupTypeOK'
  BY DEF Group!GroupTypeOK, TransferInv, RunTypeOK, ViewsReturned, CleanTo, HasViews
<1>4. FlowOK'
  BY DEF FlowOK, TransferInv, RunTypeOK, ViewsReturned, CleanTo, HasViews
<1>5. ReportsOK'
  <2>1. set.stopped \in BOOLEAN
    BY DEF TransferInv, RunTypeOK, ViewsTypeOK
  <2>2. viewsStopped' \in BOOLEAN
    BY <2>1 DEF ViewsReturned
  <2> QED BY <2>2 DEF TransferInv, RunTypeOK, ReportsOK, ViewsReturned
<1>6. GroupInv'
  BY DEF GroupInv, TransferInv, RunTypeOK, FlowOK, Needed, Ended, ViewsReturned, CleanTo,
     HasViews
<1>7. ServedInv'
  BY DEF ServedInv, TransferInv, Needed, EvidenceLeft, ViewsReturned, CleanTo
<1>8. ChainInv'
  BY DEF ChainInv, TransferInv, RunTypeOK, FlowOK, Opening, Closing, ViewsReturned,
     CleanTo, HasViews
<1>9. RootInv'
  BY DEF RootInv, TransferInv, RunTypeOK, FlowOK, EvidenceLeft, RemovedLeavesNothing,
     ViewsReturned, CleanTo, HasViews
<1> QED BY <1>1, <1>2, <1>3, <1>4, <1>5, <1>6, <1>7, <1>8, <1>9 DEF TransferInv, RunTypeOK,
   ViewsInv, ResolversInv

\* Both chains have stopped.
LEMMA SettledKeeps ==
  ASSUME TransferInv, Settled
  PROVE  TransferInv'
<1>1. ViewsInv'
  BY ViewsUnchanged DEF Settled, CleanTo
<1>2. ResolversInv'
  BY ResolversFrame DEF Settled, CleanTo
<1>3. Group!GroupTypeOK'
  BY DEF Group!GroupTypeOK, TransferInv, RunTypeOK, Settled, CleanTo
<1>4. FlowOK'
  BY DEF FlowOK, TransferInv, RunTypeOK, Settled, CleanTo
<1>5. ReportsOK'
  BY DEF ReportsOK, TransferInv, RunTypeOK, Settled, CleanTo
<1>6. GroupInv'
  BY DEF GroupInv, TransferInv, RunTypeOK, FlowOK, Needed, Ended, Settled, CleanTo
<1>7. ServedInv'
  BY DEF ServedInv, TransferInv, RunTypeOK, FlowOK, Needed, Ended, EvidenceLeft, Settled,
     CleanTo
<1>8. ChainInv'
  BY DEF ChainInv, TransferInv, RunTypeOK, FlowOK, Opening, Closing, Settled, CleanTo
<1>9. RootInv'
  BY DEF RootInv, TransferInv, RemovedLeavesNothing, ChainInv, Settled, CleanTo
<1> QED BY <1>1, <1>2, <1>3, <1>4, <1>5, <1>6, <1>7, <1>8, <1>9 DEF TransferInv, RunTypeOK,
   ViewsInv, ResolversInv

\* A chain has not stopped.
LEMMA NotSettledKeeps ==
  ASSUME TransferInv, NotSettled
  PROVE  TransferInv'
<1>1. ViewsInv'
  BY ViewsUnchanged DEF NotSettled, CleanTo, Return
<1>2. ResolversInv'
  BY ResolversFrame DEF NotSettled, CleanTo, Return
<1>3. Group!GroupTypeOK'
  BY DEF Group!GroupTypeOK, TransferInv, RunTypeOK, NotSettled, CleanTo, Return
<1>4. FlowOK'
  BY DEF FlowOK, TransferInv, RunTypeOK, NotSettled, CleanTo, Return
<1>5. ReportsOK'
  BY DEF ReportsOK, TransferInv, RunTypeOK, NotSettled, CleanTo, Return
<1>6. GroupInv'
  BY DEF GroupInv, TransferInv, Needed, Ended, ChainInv, NotSettled
<1>7. ServedInv'
  BY DEF ServedInv, TransferInv, Needed, EvidenceLeft, NotSettled, CleanTo, Return
<1>8. ChainInv'
  BY DEF ChainInv, TransferInv, RunTypeOK, FlowOK, Opening, Closing, NotSettled, CleanTo,
     Return
<1>9. RootInv'
  BY DEF RootInv, TransferInv, RunTypeOK, FlowOK, EvidenceLeft, RemovedLeavesNothing,
     NotSettled, CleanTo, Return
<1> QED BY <1>1, <1>2, <1>3, <1>4, <1>5, <1>6, <1>7, <1>8, <1>9 DEF TransferInv, RunTypeOK,
   ViewsInv, ResolversInv

\* The root is completed.
LEMMA CompleteRunKeeps ==
  ASSUME TransferInv, NEW ok \in BOOLEAN, CompleteRun(ok)
  PROVE  TransferInv'
<1>1. ViewsInv'
  BY OutcomeType, ViewsFrame, ViewsUnchanged DEF CompleteRun, CleanTo, Return
<1>2. ResolversInv'
  BY ResolversFrame DEF CompleteRun, CleanTo, Return
<1>3. Group!GroupTypeOK'
  BY DEF Group!GroupTypeOK, TransferInv, RunTypeOK, CompleteRun, CleanTo, Return
<1>4. FlowOK'
  BY DEF FlowOK, TransferInv, RunTypeOK, CompleteRun, CleanTo, Return
<1>5. ReportsOK'
  BY DEF ReportsOK, TransferInv, RunTypeOK, CompleteRun, CleanTo, Return
<1>6. GroupInv'
  BY DEF GroupInv, TransferInv, Ended, ServedInv, ChainInv, CompleteRun
<1>7. ServedInv'
  BY DEF ServedInv, Needed, CompleteRun, CleanTo, Return
<1>8. ChainInv'
  BY DEF ChainInv, TransferInv, RunTypeOK, FlowOK, Opening, Closing, CompleteRun, CleanTo,
     Return
<1>9. RootInv'
  BY DEF RootInv, TransferInv, EvidenceLeft, RemovedLeavesNothing, ChainInv, CompleteRun,
     CleanTo, Return
<1> QED BY <1>1, <1>2, <1>3, <1>4, <1>5, <1>6, <1>7, <1>8, <1>9 DEF TransferInv, RunTypeOK,
   ViewsInv, ResolversInv

-----------------------------------------------------------------------------
(* Processes, death and recovery                                           *)

\* A process starts or ends.
LEMMA ProcessStepKeeps ==
  ASSUME TransferInv, ProcessStep
  PROVE  TransferInv'
<1>1. ViewsInv'
  BY ViewsUnchanged DEF ProcessStep, Group!Spawn, Group!Vanish, Group!Confirm
<1>2. ResolversInv'
  BY ResolversFrame DEF ProcessStep, Group!Spawn, Group!Vanish, Group!Confirm
<1>3. Group!GroupTypeOK'
  BY DEF Group!GroupTypeOK, TransferInv, RunTypeOK, ProcessStep, Group!Spawn, Group!Vanish,
     Group!Confirm
<1>4. FlowOK'
  BY DEF FlowOK, TransferInv, RunTypeOK, ProcessStep, Group!Spawn, Group!Vanish,
     Group!Confirm
<1>5. ReportsOK'
  BY DEF ReportsOK, TransferInv, RunTypeOK, ProcessStep, Group!Spawn, Group!Vanish,
     Group!Confirm
<1>6. GroupInv'
  BY DEF GroupInv, TransferInv, Needed, Ended, ProcessStep, Group!Spawn, Group!Vanish,
     Group!Confirm
<1>7. ServedInv'
  BY DEF ServedInv, TransferInv, Needed, EvidenceLeft, ProcessStep
<1>8. ChainInv'
  BY DEF ChainInv, TransferInv, ProcessStep
<1>9. RootInv'
  BY DEF RootInv, TransferInv, EvidenceLeft, RemovedLeavesNothing, ProcessStep
<1> QED BY <1>1, <1>2, <1>3, <1>4, <1>5, <1>6, <1>7, <1>8, <1>9 DEF TransferInv, RunTypeOK,
   ViewsInv, ResolversInv

\* A call about the group returns.
LEMMA GroupReturnsKeeps ==
  ASSUME TransferInv, GroupReturns
  PROVE  TransferInv'
<1>1. ViewsInv'
  BY ViewsUnchanged DEF GroupReturns, Group!Own, Group!Refuse, Group!Conclude
<1>2. ResolversInv'
  BY ResolversFrame DEF GroupReturns, Group!Own, Group!Refuse, Group!Conclude
<1>3. Group!GroupTypeOK'
  BY DEF Group!GroupTypeOK, TransferInv, RunTypeOK, GroupReturns, Group!Own, Group!Refuse,
     Group!Conclude
<1>4. FlowOK'
  BY DEF FlowOK, TransferInv, RunTypeOK, GroupReturns, Group!Own, Group!Refuse,
     Group!Conclude
<1>5. ReportsOK'
  BY DEF ReportsOK, TransferInv, RunTypeOK, GroupReturns, Group!Own, Group!Refuse,
     Group!Conclude
<1>6. GroupInv'
  BY DEF GroupInv, TransferInv, Needed, GroupReturns, Group!Own, Group!Refuse,
     Group!Conclude
<1>7. ServedInv'
  BY DEF ServedInv, TransferInv, Needed, EvidenceLeft, GroupReturns
<1>8. ChainInv'
  BY DEF ChainInv, TransferInv, GroupReturns
<1>9. RootInv'
  BY DEF RootInv, TransferInv, RemovedLeavesNothing, GroupReturns
<1> QED BY <1>1, <1>2, <1>3, <1>4, <1>5, <1>6, <1>7, <1>8, <1>9 DEF TransferInv, RunTypeOK,
   ViewsInv, ResolversInv

\* The supervisor ends.
LEMMA SupervisorEndsKeeps ==
  ASSUME TransferInv, SupervisorEnds
  PROVE  TransferInv'
<1>1. ViewsInv'
  BY ViewsDieViews DEF ViewsInv, TransferInv, SupervisorEnds
<1>2. ResolversInv'
  BY ResolversDieResolvers DEF ResolversInv, TransferInv, SupervisorEnds
<1>3. Group!GroupTypeOK'
  BY DEF Group!GroupTypeOK, TransferInv, RunTypeOK, SupervisorEnds
<1>4. FlowOK'
  BY DEF FlowOK, TransferInv, RunTypeOK, SupervisorEnds
<1>5. ReportsOK'
  BY DEF ReportsOK, TransferInv, RunTypeOK, SupervisorEnds
<1>6. GroupInv'
  BY DEF GroupInv, TransferInv, RunTypeOK, FlowOK, Needed, Ended, SupervisorEnds
<1>7. ServedInv'
  BY DEF ServedInv, TransferInv, RunTypeOK, FlowOK, Needed, Ended, EvidenceLeft,
     SupervisorEnds
<1>8. ChainInv'
  <2>1. /\ pc' = "gone" /\ clean' = "no" /\ who' = "main" /\ ~resolverStopped' /\ ~viewsStopped'
        /\ rpc' = "idle" /\ vpc' = "idle" /\ net' = "none"
    BY DEF SupervisorEnds, ViewsDie, ResolversDie
  <2> QED BY <2>1 DEF ChainInv, Opening, Closing
<1>9. RootInv'
  <2>1. /\ pc' = "gone" /\ clean' = "no" /\ group' = "none" /\ net' = "none" /\ ~alive'
        /\ rpc' = "idle" /\ vpc' = "idle" /\ lock' \in {"none", "released"}
        /\ lock # "none" => lock' = "released"
    BY DEF SupervisorEnds, ViewsDie, ResolversDie
  <2>2. /\ UNCHANGED <<netEvidence, root, recovery, netRecovered>>
        /\ EvidenceLeft' = EvidenceLeft
    BY DEF SupervisorEnds, ViewsDie, EvidenceLeft
  <2>3. erase'.by = "stale" <=> erase.by = "stale"
    BY DEF SupervisorEnds, ViewsDie, NoErase
  <2> QED BY <2>1, <2>2, <2>3 DEF TransferInv, RootInv, RemovedLeavesNothing
<1> QED BY <1>1, <1>2, <1>3, <1>4, <1>5, <1>6, <1>7, <1>8, <1>9 DEF TransferInv, RunTypeOK,
   ViewsInv, ResolversInv

\* A recovery has the lock.
LEMMA RecoverBeginsKeeps ==
  ASSUME TransferInv, RecoverBegins
  PROVE  TransferInv'
<1>1. ViewsInv'
  BY ViewsUnchanged DEF RecoverBegins
<1>2. ResolversInv'
  BY ResolversFrame DEF RecoverBegins
<1>3. Group!GroupTypeOK'
  BY DEF Group!GroupTypeOK, TransferInv, RunTypeOK, RecoverBegins
<1>4. FlowOK'
  BY DEF FlowOK, TransferInv, RunTypeOK, RecoverBegins
<1>5. ReportsOK'
  BY DEF ReportsOK, TransferInv, RunTypeOK, RecoverBegins
<1>6. GroupInv'
  BY DEF GroupInv, TransferInv, RunTypeOK, FlowOK, Needed, Ended, RecoverBegins
<1>7. ServedInv'
  BY DEF ServedInv, TransferInv, RunTypeOK, FlowOK, Needed, Ended, EvidenceLeft,
     RecoverBegins
<1>8. ChainInv'
  BY DEF ChainInv, TransferInv, RunTypeOK, FlowOK, Opening, Closing, RecoverBegins
<1>9. RootInv'
  BY DEF RootInv, TransferInv, RunTypeOK, FlowOK, EvidenceLeft, RemovedLeavesNothing,
     RecoverBegins
<1> QED BY <1>1, <1>2, <1>3, <1>4, <1>5, <1>6, <1>7, <1>8, <1>9 DEF TransferInv, RunTypeOK,
   ViewsInv, ResolversInv

\* The network is recovered.
LEMMA RecoverNetworkKeeps ==
  ASSUME TransferInv, NEW ok \in BOOLEAN, RecoverNetwork(ok)
  PROVE  TransferInv'
<1>1. ViewsInv'
  <2>1. lock = "released" /\ root = "present"
    BY DEF TransferInv, RootInv, RecoverNetwork
  <2>2. vpc \in {"idle", "refused"} \/ set.stopped
    BY <2>1 DEF TransferInv, RootInv
  <2>3. vpc \notin Opening \cup {"views"} \cup Closing
    BY <2>1 DEF TransferInv, RootInv, ChainInv
  <2>4. vpc \in {"idle", "refused", "open"} /\ mount \in {"none", "stopped"}
    BY <2>2, <2>3 DEF TransferInv, ViewsInv, ViewsTypeOK, MountInv, CloseInv, Opening,
       Closing
  <2>5. erase.by \in {"none", "stale"}
    BY <2>4 DEF TransferInv, ViewsInv, ViewsTypeOK, EraseInv
  <2>6. faults' \in 0..MaxFaults
    BY OutcomeType DEF RecoverNetwork, TransferInv, ViewsInv, ViewsTypeOK
  <2> QED BY <2>4, <2>5, <2>6, StaleErase DEF RecoverNetwork, BeginErase
<1>2. ResolversInv'
  BY ResolversFrame DEF RecoverNetwork, BeginErase
<1>3. Group!GroupTypeOK'
  BY DEF Group!GroupTypeOK, TransferInv, RunTypeOK, RecoverNetwork, BeginErase
<1>4. FlowOK'
  BY DEF FlowOK, TransferInv, RunTypeOK, RecoverNetwork, BeginErase, Kept
<1>5. ReportsOK'
  BY DEF ReportsOK, TransferInv, RunTypeOK, RecoverNetwork, BeginErase
<1>6. GroupInv'
  BY DEF GroupInv, TransferInv, RunTypeOK, FlowOK, Needed, Ended, RecoverNetwork, BeginErase
<1>7. ServedInv'
  BY DEF ServedInv, TransferInv, RunTypeOK, FlowOK, Needed, Ended, EvidenceLeft,
     RecoverNetwork, BeginErase
<1>8. ChainInv'
  BY DEF ChainInv, TransferInv, RunTypeOK, FlowOK, RootInv, Opening, Closing, RecoverNetwork,
     BeginErase
<1>9. RootInv'
  BY DEF RootInv, TransferInv, RunTypeOK, FlowOK, EvidenceLeft, RemovedLeavesNothing,
     RecoverNetwork, BeginErase, Kept
<1> QED BY <1>1, <1>2, <1>3, <1>4, <1>5, <1>6, <1>7, <1>8, <1>9 DEF TransferInv, RunTypeOK,
   ViewsInv, ResolversInv

\* Somebody removes rules that were never activated.
LEMMA RulesRemovedKeeps ==
  ASSUME TransferInv, RulesRemoved
  PROVE  TransferInv'
<1>1. ViewsInv' /\ ResolversInv'
  BY ViewsUnchanged, ResolversFrame DEF RulesRemoved
<1>2. Group!GroupTypeOK' /\ FlowOK' /\ ReportsOK'
  BY DEF TransferInv, RunTypeOK, Group!GroupTypeOK, FlowOK, ReportsOK, RulesRemoved
<1>3. GroupInv' /\ ServedInv'
  BY DEF TransferInv, GroupInv, ServedInv, Needed, Ended, EvidenceLeft, RulesRemoved
<1>4. ChainInv'
  BY DEF TransferInv, ChainInv, RootInv, RulesRemoved
<1>5. RootInv'
  BY DEF TransferInv, RootInv, RemovedLeavesNothing, EvidenceLeft, RulesRemoved
<1> QED BY <1>1, <1>2, <1>3, <1>4, <1>5 DEF TransferInv, RunTypeOK, ViewsInv, ResolversInv

\* The recovery ends.
LEMMA RecoverEndsKeeps ==
  ASSUME TransferInv, RecoverEnds
  PROVE  TransferInv'
<1>1. ViewsInv'
  BY StaleErase DEF ViewsInv, TransferInv, RootInv, MountInv, EraseInv, BeginErase,
     ViewsTypeOK, RecoverEnds
<1>2. ResolversInv'
  BY ResolversFrame DEF RecoverEnds
<1>3. Group!GroupTypeOK'
  BY DEF Group!GroupTypeOK, TransferInv, RunTypeOK, RecoverEnds
<1>4. FlowOK'
  BY DEF FlowOK, TransferInv, RunTypeOK, RecoverEnds
<1>5. ReportsOK'
  BY DEF ReportsOK, TransferInv, RunTypeOK, RecoverEnds
<1>6. GroupInv'
  BY DEF GroupInv, TransferInv, RunTypeOK, FlowOK, Needed, Ended, RecoverEnds
<1>7. ServedInv'
  BY DEF ServedInv, TransferInv, RunTypeOK, FlowOK, Needed, Ended, EvidenceLeft, RecoverEnds
<1>8. ChainInv'
  BY DEF ChainInv, TransferInv, RunTypeOK, FlowOK, Opening, Closing, RecoverEnds
<1>9. RootInv'
  <2>1. /\ lock = "released" /\ root = "present"
        /\ netRecovered => netEvidence = "none"
        /\ erase.pc = "done" => ~EvidenceLeft
    BY DEF TransferInv, RootInv, ViewsInv, EraseInv, RecoverEnds
  <2>2. recovery' = "no" /\ erase'.by = "none" /\ EvidenceLeft' = EvidenceLeft
    BY DEF RecoverEnds, NoErase, EvidenceLeft
  <2>3. /\ UNCHANGED <<pc, clean, lock, rpc, vpc, set, alive, group, net, netEvidence,
                       netRecovered>>
        /\ root' = "present" \/ (root' = "gone" /\ netRecovered /\ erase.pc = "done")
    BY <2>1 DEF RecoverEnds
  <2> QED BY <2>1, <2>2, <2>3 DEF TransferInv, RootInv, RemovedLeavesNothing
<1> QED BY <1>1, <1>2, <1>3, <1>4, <1>5, <1>6, <1>7, <1>8, <1>9 DEF TransferInv, RunTypeOK,
   ViewsInv, ResolversInv

\* The recovering process dies.
LEMMA RecoverDiesKeeps ==
  ASSUME TransferInv, RecoverDies
  PROVE  TransferInv'
<1>1. ViewsInv'
  <2>1. lock = "released" /\ root = "present"
    BY DEF TransferInv, RootInv, RecoverDies
  <2>2. vpc \in {"idle", "refused"} \/ set.stopped
    BY <2>1 DEF TransferInv, RootInv
  <2>3. vpc \notin Opening \cup {"views"} \cup Closing
    BY <2>1 DEF TransferInv, RootInv, ChainInv
  <2>4. vpc \in {"idle", "refused", "open"} /\ mount \in {"none", "stopped"}
    BY <2>2, <2>3 DEF TransferInv, ViewsInv, ViewsTypeOK, MountInv, CloseInv, Opening,
       Closing
  <2>5. erase.by \in {"none", "stale"}
    BY <2>4 DEF TransferInv, ViewsInv, ViewsTypeOK, EraseInv
  <2>6. faults' \in 0..MaxFaults
    BY OutcomeType, FALSE \in BOOLEAN DEF RecoverDies
  <2> QED BY <2>4, <2>5, <2>6, StaleErase DEF RecoverDies
<1>2. ResolversInv'
  BY ResolversFrame DEF RecoverDies
<1>3. Group!GroupTypeOK'
  BY DEF Group!GroupTypeOK, TransferInv, RunTypeOK, RecoverDies
<1>4. FlowOK'
  BY DEF FlowOK, TransferInv, RunTypeOK, RecoverDies
<1>5. ReportsOK'
  BY DEF ReportsOK, TransferInv, RunTypeOK, RecoverDies
<1>6. GroupInv'
  BY DEF GroupInv, TransferInv, RunTypeOK, FlowOK, Needed, Ended, RecoverDies
<1>7. ServedInv'
  BY DEF ServedInv, TransferInv, RunTypeOK, FlowOK, Needed, Ended, EvidenceLeft, RecoverDies
<1>8. ChainInv'
  BY DEF ChainInv, TransferInv, RunTypeOK, FlowOK, Opening, Closing, RecoverDies
<1>9. RootInv'
  <2>1. recovery' = "no" /\ erase'.by = "none" /\ EvidenceLeft' = EvidenceLeft
    BY DEF RecoverDies, NoErase, EvidenceLeft
  <2>2. UNCHANGED <<pc, clean, lock, rpc, vpc, set, alive, group, net, netEvidence,
                    netRecovered, root>>
    BY DEF RecoverDies
  <2> QED BY <2>1, <2>2 DEF TransferInv, RootInv, RemovedLeavesNothing
<1> QED BY <1>1, <1>2, <1>3, <1>4, <1>5, <1>6, <1>7, <1>8, <1>9 DEF TransferInv, RunTypeOK,
   ViewsInv, ResolversInv

-----------------------------------------------------------------------------
(* What the steps of FileViews may do to the flow that called Open or      *)
(* Close                                                                   *)

ViewsEffect ==
  /\ leases' = leases
  /\ vpc \in {"idle", "refused", "partial", "open"} => vpc' = vpc /\ set' = set
  /\ vpc \in Opening \cup {"views"} =>
       vpc' \in Opening \cup {"views", "refused", "partial", "open"} /\ ~set'.closing
  /\ vpc \in Closing => vpc' \in Closing \cup {"open"}
  /\ set.stopped => set'.stopped
  /\ erase'.by = "stale" <=> erase.by = "stale"
  /\ EvidenceLeft' => EvidenceLeft \/ vpc \in Opening

\* A step of Open.
LEMMA OpenStepEffect ==
  ASSUME ViewsInv, OpenStep
  PROVE  ViewsEffect
<1>1. ASSUME NEW ok \in BOOLEAN, AcquireAccess(ok) PROVE ViewsEffect
  BY <1>1 DEF ViewsEffect, ViewsInv, MountInv, Opening, NoSet, AcquireAccess
<1>2. ASSUME NEW ok \in BOOLEAN, CreateMountpoint(ok) PROVE ViewsEffect
  BY <1>2 DEF ViewsEffect, ViewsInv, MountInv, Opening, NoSet, CreateMountpoint, RefuseSet
<1>3. ASSUME NEW ok \in BOOLEAN, InspectMountpoint(ok) PROVE ViewsEffect
  BY <1>3 DEF ViewsEffect, ViewsInv, MountInv, EraseInv, Opening, NoSet, InspectMountpoint,
     UndoEvidence, BeginErase
<1>4. ASSUME NEW ok \in BOOLEAN, SyncEvidence(ok) PROVE ViewsEffect
  BY <1>4 DEF ViewsEffect, ViewsInv, MountInv, EraseInv, Opening, NoSet, SyncEvidence,
     UndoEvidence, BeginErase
<1>5. ASSUME NEW ok \in BOOLEAN, MountViews(ok) PROVE ViewsEffect
  BY <1>5 DEF ViewsEffect, ViewsInv, MountInv, EraseInv, Opening, NoSet, MountViews,
     BeginErase
<1>6. ASSUME NEW ok \in BOOLEAN, CreateOwnership(ok) PROVE ViewsEffect
  BY <1>6 DEF ViewsEffect, ViewsInv, MountInv, EraseInv, Opening, NoSet, CreateOwnership,
     UndoEvidence, BeginErase
<1>7. ASSUME NEW ok \in BOOLEAN, WriteOwnership(ok) PROVE ViewsEffect
  BY <1>7 DEF ViewsEffect, ViewsInv, MountInv, EraseInv, Opening, NoSet, WriteOwnership,
     UndoEvidence, BeginErase
<1>8. ASSUME NEW ok \in BOOLEAN, NEW opened \in SUBSET Transfers, OpenMountedViews(ok, opened)
      PROVE  ViewsEffect
  BY <1>8 DEF ViewsEffect, ViewsInv, MountInv, Closing, EvidenceLeft, NoSet,
     OpenMountedViews
<1>9. CASE UndoDone
  BY <1>9 DEF ViewsEffect, ViewsInv, MountInv, EraseInv, Closing, EvidenceLeft, NoErase,
     NoSet, UndoDone, RefuseSet
<1> QED BY <1>1, <1>2, <1>3, <1>4, <1>5, <1>6, <1>7, <1>8, <1>9 DEF OpenStep

\* A step of Close.
LEMMA CloseStepEffect ==
  ASSUME ViewsInv, CloseStep
  PROVE  ViewsEffect
<1>1. CASE Drained
  BY <1>1 DEF ViewsEffect, ViewsInv, ViewsTypeOK, Opening, Closing, EvidenceLeft, Drained,
     ViewsReturn
<1>2. CASE DrainTimesOut
  BY <1>2 DEF ViewsEffect, Opening, EvidenceLeft, DrainTimesOut, ViewsReturn
<1>3. CASE ServerStopped
  BY <1>3 DEF ViewsEffect, Opening, Closing, EvidenceLeft, ServerStopped
<1>4. CASE WaitTimesOut
  BY <1>4 DEF ViewsEffect, Opening, EvidenceLeft, WaitTimesOut, ViewsReturn
<1>5. CASE ReturnAccess
  BY <1>5 DEF ViewsEffect, ViewsInv, EraseInv, Opening, Closing, EvidenceLeft,
     ReturnAccess, BeginErase
<1>6. CASE CloseDone
  BY <1>6 DEF ViewsEffect, ViewsInv, ViewsTypeOK, EraseInv, Opening, EvidenceLeft, NoErase,
     CloseDone, ViewsReturn
<1>7. ASSUME NEW ok \in BOOLEAN, Unmount(ok) PROVE ViewsEffect
  BY <1>7 DEF ViewsEffect, ViewsInv, MountInv, Closing, EvidenceLeft, Unmount, ViewsReturn
<1> QED BY <1>1, <1>2, <1>3, <1>4, <1>5, <1>6, <1>7 DEF CloseStep

\* A step of the deletion of the evidence.
LEMMA EraseStepEffect ==
  ASSUME ViewsInv, EraseStep
  PROVE  ViewsEffect
<1>1. ASSUME NEW ok \in BOOLEAN, EraseObserve(ok) PROVE ViewsEffect
  BY <1>1 DEF ViewsEffect, ViewsInv, MountInv, EvidenceLeft, NoSet, EraseObserve, EraseTo
<1>2. ASSUME NEW ok \in BOOLEAN, EraseMountpoint(ok) PROVE ViewsEffect
  BY <1>2 DEF ViewsEffect, ViewsInv, MountInv, EraseInv, EvidenceLeft, NoSet,
     EraseMountpoint, EraseTo
<1>3. ASSUME NEW ok \in BOOLEAN, EraseOwnership(ok) PROVE ViewsEffect
  BY <1>3 DEF ViewsEffect, ViewsInv, MountInv, EvidenceLeft, NoSet, EraseOwnership, EraseTo
<1>4. ASSUME NEW ok \in BOOLEAN, EraseSync(ok) PROVE ViewsEffect
  BY <1>4 DEF ViewsEffect, ViewsInv, MountInv, EvidenceLeft, NoSet, EraseSync, EraseTo
<1> QED BY <1>1, <1>2, <1>3, <1>4 DEF EraseStep

\* Open keeps the invariant of the views.
LEMMA OpenStepViews ==
  ASSUME ViewsInv, OpenStep
  PROVE  ViewsInv'
BY AcquireAccessViews, CreateMountpointViews, InspectMountpointViews, SyncEvidenceViews,
   MountViewsViews, CreateOwnershipViews, WriteOwnershipViews, OpenMountedViewsViews,
   UndoDoneViews DEF OpenStep

\* So does Close.
LEMMA CloseStepViews ==
  ASSUME ViewsInv, CloseStep
  PROVE  ViewsInv'
BY DrainedViews, DrainTimesOutViews, ServerStoppedViews, WaitTimesOutViews,
   ReturnAccessViews, CloseDoneViews, UnmountViews DEF CloseStep

\* So does the deletion of the evidence.
LEMMA EraseStepViews ==
  ASSUME ViewsInv, EraseStep
  PROVE  ViewsInv'
BY EraseObserveViews, EraseMountpointViews, EraseOwnershipViews,
   EraseSyncViews DEF EraseStep

\* The server of the mount ends.
LEMMA ServerStopsEffect ==
  ASSUME ViewsInv, ServerStops
  PROVE  ViewsEffect
BY DEF ViewsEffect, ViewsInv, MountInv, NoSet, Opening, Closing, EvidenceLeft, ServerStops

\* A step of the views leaves the flow where its invariant holds.
LEMMA ViewsStepKeeps ==
  ASSUME TransferInv, ViewsInv', ViewsEffect,
         UNCHANGED <<resolverVars, groupVars, flowVars, hostVars>>
  PROVE  TransferInv'
<1>1. ResolversInv'
  BY ResolversFrame
<1>2. Group!GroupTypeOK' /\ FlowOK' /\ ReportsOK'
  BY DEF TransferInv, RunTypeOK, Group!GroupTypeOK, FlowOK, ReportsOK
<1>3. GroupInv'
  BY DEF TransferInv, GroupInv, Needed, Ended
<1>4. ServedInv'
  <2>1. vpc = "idle" /\ ~EvidenceLeft => vpc' = "idle" /\ ~EvidenceLeft'
    BY DEF ViewsEffect, Opening
  <2>2. vpc = "open" /\ ~set.closing => vpc' = "open" /\ ~set'.closing /\ leases' = leases
    BY DEF ViewsEffect
  <2>3. pc = "views" => vpc' \notin {"partial", "open"} \/ ~set'.closing
    <3>1. pc = "views" => vpc \notin Closing
      BY DEF TransferInv, ChainInv, RunTypeOK, FlowOK
    <3> QED BY <3>1 DEF TransferInv, ServedInv, ViewsInv, ViewsTypeOK, ViewsEffect,
       Opening, Closing
  <2> QED BY <2>1, <2>2, <2>3 DEF TransferInv, ServedInv, Needed
<1>5. ChainInv'
  <2>1. /\ vpc' \in Opening \cup {"views"} => vpc \in Opening \cup {"views"}
        /\ vpc' \in Closing => vpc \in Closing
    BY DEF TransferInv, ViewsInv, ViewsTypeOK, ViewsEffect, Opening, Closing
  <2>2. vpc \in {"idle", "refused"} \/ set.stopped => vpc' \in {"idle", "refused"} \/ set'.stopped
    BY DEF ViewsEffect
  <2> QED BY <2>1, <2>2 DEF TransferInv, ChainInv
<1>6. RootInv'
  <2>1. vpc \in {"idle", "refused"} \/ set.stopped => vpc' \in {"idle", "refused"} \/ set'.stopped
    BY DEF ViewsEffect
  <2>2. root = "gone" => vpc \notin Opening
    BY DEF TransferInv, RootInv, ChainInv
  <2>3. /\ root = "gone" /\ ~EvidenceLeft => ~EvidenceLeft'
        /\ erase'.by = "stale" <=> erase.by = "stale"
        /\ vpc = "idle" => vpc' = "idle"
    BY <2>2 DEF ViewsEffect
  <2> QED BY <2>1, <2>3 DEF TransferInv, RootInv, RemovedLeavesNothing
<1> QED BY <1>1, <1>2, <1>3, <1>4, <1>5, <1>6 DEF TransferInv, RunTypeOK, ViewsInv,
   ResolversInv

\* Open, Close, the deletion of the evidence and the server of the mount.
LEMMA ViewStepKeeps ==
  ASSUME TransferInv, ViewStep \/ OfViews(ServerStops)
  PROVE  TransferInv'
<1>1. ViewsInv
  BY DEF TransferInv
<1>2. CASE OfViews(OpenStep)
  BY <1>1, <1>2, OpenStepViews, OpenStepEffect, ViewsStepKeeps DEF OfViews
<1>3. CASE OfViews(CloseStep)
  BY <1>1, <1>3, CloseStepViews, CloseStepEffect, ViewsStepKeeps DEF OfViews
<1>4. CASE OfViews(EraseStep)
  BY <1>1, <1>4, EraseStepViews, EraseStepEffect, ViewsStepKeeps DEF OfViews
<1>5. CASE OfViews(ServerStops)
  BY <1>1, <1>5, ServerStopsViews, ServerStopsEffect, ViewsStepKeeps DEF OfViews
<1> QED BY <1>2, <1>3, <1>4, <1>5 DEF ViewStep, OfViews

\* Another client of a set, without a run.
LEMMA ClientKeeps ==
  ASSUME TransferInv, pc = "client", OfViews(ViewClientStep)
  PROVE  TransferInv'
<1>1. erase.by # "stale" /\ clean = "no" /\ group = "none" /\ lock = "held" /\ root # "gone"
  BY DEF TransferInv, RootInv, ServedInv
<1>2. ViewsInv'
  BY <1>1, BeginCloseViews, OpenViewViews, ReleaseLeaseViews DEF TransferInv, OfViews,
     ViewClientStep
<1>3. /\ vpc' \in {vpc, "drain"} /\ vpc \notin Opening \cup {"views", "idle"}
      /\ UNCHANGED <<mountpoint, ownership, erase, resolverVars, groupVars, flowVars,
                     hostVars>>
  BY DEF OfViews, ViewClientStep, BeginClose, OpenView, ReleaseLease, Opening
<1>4. ResolversInv'
  BY <1>3, ResolversFrame
<1>5. Group!GroupTypeOK' /\ FlowOK' /\ ReportsOK'
  BY <1>3 DEF TransferInv, RunTypeOK, Group!GroupTypeOK, FlowOK, ReportsOK
<1>6. GroupInv' /\ ServedInv'
  BY <1>1, <1>3 DEF TransferInv, GroupInv, ServedInv, Needed, Ended
<1>7. ChainInv'
  BY <1>1, <1>3 DEF TransferInv, ChainInv, Opening
<1>8. RootInv'
  BY <1>1, <1>3 DEF TransferInv, RootInv, RemovedLeavesNothing
<1> QED BY <1>2, <1>4, <1>5, <1>6, <1>7, <1>8 DEF TransferInv, RunTypeOK, ViewsInv,
   ResolversInv

-----------------------------------------------------------------------------
(* What the steps of NamespaceResolvers may do to it                       *)

ResolversEffect ==
  /\ rpc \in {"idle", "open", "closed", "refused"} => rpc' = rpc
  /\ rpc = "opening" => rpc' \in {"opening", "open", "refused"}
  /\ rpc = "closing" => rpc' \in {"closing", "closed", "open"}
  /\ shutdown = "no" /\ rpc # "closing" => shutdown' = "no"

\* A step of Open or Close.
LEMMA ResolverCallEffect ==
  ASSUME ResolversInv,
         \/ OpenExplicit \/ StartServers \/ OpenFails \/ (\E s \in Servers : Listen(s))
         \/ ResolversClosed \/ ResolverCloseTimesOut
  PROVE  ResolversInv' /\ ResolversEffect
<1>1. CASE OpenExplicit
  BY <1>1, OpenExplicitResolvers DEF ResolversEffect, OpenExplicit
<1>2. CASE StartServers
  BY <1>2, StartServersResolvers DEF ResolversEffect, StartServers
<1>3. CASE OpenFails
  BY <1>3, OpenFailsResolvers DEF ResolversEffect, OpenFails
<1>4. ASSUME NEW s \in Servers, Listen(s) PROVE ResolversInv' /\ ResolversEffect
  BY <1>4, ListenResolvers DEF ResolversEffect, Listen
<1>5. CASE ResolversClosed
  BY <1>5, ResolversClosedResolvers DEF ResolversEffect, ResolversClosed, WorkersDone
<1>6. CASE ResolverCloseTimesOut
  BY <1>6, ResolverCloseTimesOutResolvers DEF ResolversEffect, ResolverCloseTimesOut
<1> QED BY <1>1, <1>2, <1>3, <1>4, <1>5, <1>6

\* A step of a goroutine of the forwarder.
LEMMA WorkerEffect ==
  ASSUME ResolversInv, WorkerStep
  PROVE  ResolversInv' /\ ResolversEffect
<1>1. ASSUME NEW s \in Servers, Receive(s) PROVE ResolversInv' /\ ResolversEffect
  BY <1>1, ReceiveResolvers DEF ResolversEffect, Receive
<1>2. ASSUME NEW s \in Servers, StartHandler(s) PROVE ResolversInv' /\ ResolversEffect
  BY <1>2, StartHandlerResolvers DEF ResolversEffect, StartHandler
<1>3. ASSUME NEW s \in Servers, ListenerFails(s) PROVE ResolversInv' /\ ResolversEffect
  BY <1>3, ListenerFailsResolvers DEF ResolversEffect, ListenerFails
<1>4. ASSUME NEW q \in Queries, Dial(q) PROVE ResolversInv' /\ ResolversEffect
  BY <1>4, DialResolvers DEF ResolversEffect, Dial, Step
<1>5. ASSUME NEW q \in Queries, Dialed(q) PROVE ResolversInv' /\ ResolversEffect
  BY <1>5, DialedResolvers DEF ResolversEffect, Dialed, Step, AfterFailure
<1>6. ASSUME NEW q \in Queries, Track(q) PROVE ResolversInv' /\ ResolversEffect
  BY <1>6, TrackResolvers DEF ResolversEffect, Track, Step, AfterFailure
<1>7. ASSUME NEW q \in Queries, Exchanged(q) PROVE ResolversInv' /\ ResolversEffect
  BY <1>7, ExchangedResolvers DEF ResolversEffect, Exchanged, Step
<1>8. ASSUME NEW q \in Queries, ReadQuery(q) PROVE ResolversInv' /\ ResolversEffect
  BY <1>8, ReadQueryResolvers DEF ResolversEffect, ReadQuery, Step
<1>9. ASSUME NEW q \in Queries, ClientGone(q) PROVE ResolversInv' /\ ResolversEffect
  BY <1>9, ClientGoneResolvers DEF ResolversEffect, ClientGone, FinishHandler, Step
<1>10. ASSUME NEW q \in Queries, Respond(q) PROVE ResolversInv' /\ ResolversEffect
  BY <1>10, RespondResolvers DEF ResolversEffect, Respond, Step
<1>11. ASSUME NEW q \in Queries, RespondLast(q) PROVE ResolversInv' /\ ResolversEffect
  BY <1>11, RespondLastResolvers DEF ResolversEffect, RespondLast, FinishHandler, Step
<1>12. CASE ShutdownCancel
  BY <1>12, ShutdownCancelResolvers DEF ResolversEffect, ShutdownCancel, ShutdownTo
<1>13. CASE StopAcceptingHandlers
  BY <1>13, StopAcceptingHandlersResolvers DEF ResolversEffect, StopAcceptingHandlers,
     ShutdownTo
<1>14. CASE CloseUpstream
  BY <1>14, CloseUpstreamResolvers DEF ResolversEffect, CloseUpstream, ShutdownTo
<1>15. CASE CloseListeners
  BY <1>15, CloseListenersResolvers DEF ResolversEffect, CloseListeners, ShutdownTo
<1>16. CASE CloseConnections
  BY <1>16, CloseConnectionsResolvers DEF ResolversEffect, CloseConnections, ShutdownTo
<1>17. CASE ServersStopped
  BY <1>17, ServersStoppedResolvers DEF ResolversEffect, ServersStopped, ShutdownTo
<1>18. CASE HandlersStopped
  BY <1>18, HandlersStoppedResolvers DEF ResolversEffect, HandlersStopped, ShutdownTo
<1> QED BY <1>1, <1>2, <1>3, <1>4, <1>5, <1>6, <1>7, <1>8, <1>9, <1>10, <1>11, <1>12,
   <1>13, <1>14, <1>15, <1>16, <1>17, <1>18 DEF WorkerStep, ServerStep, ServerEnds,
   HandlerStep, ClientStep, ShutdownStep

\* A step of the resolvers leaves the flow where its invariant holds.
LEMMA ResolversStepKeeps ==
  ASSUME TransferInv, ResolversInv', ResolversEffect,
         UNCHANGED <<viewVars, faults, groupVars, flowVars, hostVars>>
  PROVE  TransferInv'
<1>1. ViewsInv'
  BY ViewsUnchanged
<1>2. Group!GroupTypeOK' /\ FlowOK' /\ ReportsOK'
  BY DEF TransferInv, RunTypeOK, Group!GroupTypeOK, FlowOK, ReportsOK
<1>3. GroupInv'
  BY DEF TransferInv, GroupInv, Needed, Ended
<1>4. ServedInv'
  <2>1. /\ rpc = "idle" => rpc' = "idle"
        /\ rpc = "open" /\ shutdown = "no" => rpc' = "open" /\ shutdown' = "no"
        /\ rpc \in {"opening", "open", "refused"} /\ shutdown = "no" =>
             rpc' \in {"opening", "open", "refused"} /\ shutdown' = "no"
    BY DEF ResolversEffect
  <2> QED BY <2>1 DEF TransferInv, ServedInv, Needed, EvidenceLeft
<1>5. ChainInv'
  <2>1. /\ rpc \in {"closed", "refused"} => rpc' \in {"closed", "refused"}
        /\ rpc \in {"idle", "closed", "refused"} => rpc' \in {"idle", "closed", "refused"}
        /\ rpc' \in {"opening", "open", "closing"} => rpc \in {"opening", "open", "closing"}
        /\ rpc' = "opening" => rpc = "opening"
        /\ rpc' = "closing" => rpc = "closing"
    BY DEF ResolversEffect, TransferInv, ResolversInv, ResolversTypeOK
  <2> QED BY <2>1 DEF TransferInv, ChainInv
<1>6. RootInv'
  BY DEF TransferInv, RootInv, ResolversEffect, RemovedLeavesNothing, EvidenceLeft
<1> QED BY <1>1, <1>2, <1>3, <1>4, <1>5, <1>6 DEF TransferInv, RunTypeOK, ViewsInv,
   ResolversInv

\* Open and Close of the resolvers, and the goroutines of the forwarder.
LEMMA ResolverStepKeeps ==
  ASSUME TransferInv, ResolverCallStep \/ OfResolvers(WorkerStep)
  PROVE  TransferInv'
<1>1. ResolversInv
  BY DEF TransferInv
<1>2. CASE ResolverCallStep
  BY <1>1, <1>2, ResolverCallEffect, ResolversStepKeeps DEF ResolverCallStep, OfResolvers
<1>3. CASE OfResolvers(WorkerStep)
  BY <1>1, <1>3, WorkerEffect, ResolversStepKeeps DEF OfResolvers
<1> QED BY <1>2, <1>3

\* The run is cancelled.
LEMMA CancelRunKeeps ==
  ASSUME TransferInv, CancelRun
  PROVE  TransferInv'
<1>1. ResolversInv'
  BY CancelContextResolvers DEF TransferInv, CancelRun
<1>2. ResolversEffect
  BY DEF ResolversEffect, CancelRun, CancelContext
<1> QED BY <1>1, <1>2, ResolversStepKeeps DEF CancelRun

-----------------------------------------------------------------------------
(* The theorems                                                            *)

\* A run that begins, or a client with its views, satisfies the invariant.
LEMMA InitInv ==
  RunInit => TransferInv
<1> SUFFICES ASSUME RunInit PROVE TransferInv
  OBVIOUS
<1>1. ViewsTypeOK
  <2>1. set \in [closing : BOOLEAN, drained : BOOLEAN, files : SUBSET Transfers,
                unmounted : BOOLEAN, stopped : BOOLEAN, closed : BOOLEAN]
    BY DEF RunInit, ViewsInit, NoSet
  <2>2. erase \in [pc : {"idle", "observe", "mountpoint", "ownership", "sync", "done", "failed"},
                  by : {"none", "undo", "prepared", "close", "stale"}]
    BY DEF RunInit, ViewsInit, NoErase
  <2>3. mountpoint \in BOOLEAN /\ access \in BOOLEAN
    BY DEF RunInit, ViewsInit
  <2>4. faults \in 0..MaxFaults
    BY ViewsAssumption DEF RunInit, ViewsInit
  <2> QED BY <2>1, <2>2, <2>3, <2>4 DEF RunInit, ViewsInit, ViewsTypeOK
<1>2. MountInv /\ CloseInv /\ BackedInv /\ EraseInv
  BY DEF RunInit, ViewsInit, MountInv, CloseInv, BackedInv, EraseInv, ServingIsBacked,
     EvidenceLeft, NoSet, NoErase, Opening, Closing
<1>3. ResolversTypeOK
  <2>1. tries \in [Queries -> 0..MaxTries] /\ DOMAIN source = Queries
    BY ResolverAssumption DEF RunInit, ResolversInit
  <2>2. closedConn \in [client : SUBSET Queries, upstream : SUBSET Queries]
    BY DEF RunInit, ResolversInit
  <2>3. /\ forwards \in BOOLEAN /\ contextDone \in BOOLEAN
        /\ closing \in BOOLEAN /\ upstreamClosed \in BOOLEAN
    BY DEF RunInit, ResolversInit
  <2>4. /\ server \in [Servers -> {"off", "bound", "listen", "got", "done"}]
        /\ handler \in [Queries -> {"none", "client", "dial", "dialing", "connected", "exchange",
                                    "respond", "over"}]
        /\ rpc = "idle" /\ shutdown = "no" /\ activeTCP = {} /\ upstream = {} /\ doomed = {}
    BY DEF RunInit, ResolversInit
  <2> QED BY <2>1, <2>2, <2>3, <2>4 DEF ResolversTypeOK
<1>4. WorkersInv /\ HandlersInv
  BY ResolverAssumption DEF RunInit, ResolversInit, WorkersInv, HandlersInv
<1>5. Group!GroupTypeOK /\ ReportsOK
  BY DEF RunInit, Group!GroupInit, Group!GroupTypeOK, ReportsOK
<1>6. FlowOK /\ ChainInv
  BY DEF RunInit, ResolversInit, FlowOK, ChainInv, Opening, Closing
<1>7. GroupInv /\ ServedInv
  BY DEF RunInit, ViewsInit, ResolversInit, Group!GroupInit, GroupInv, ServedInv, Needed,
     Ended, EvidenceLeft
<1>8. RootInv
  BY DEF RunInit, ViewsInit, ResolversInit, RootInv, RemovedLeavesNothing, NoErase
<1> QED BY <1>1, <1>2, <1>3, <1>4, <1>5, <1>6, <1>7, <1>8 DEF TransferInv, RunTypeOK,
   ViewsInv, ResolversInv

\* A step that changes nothing.
LEMMA StutterKeeps ==
  ASSUME TransferInv, UNCHANGED vars
  PROVE  TransferInv'
<1>1. ViewsInv' /\ ResolversInv'
  BY ViewsUnchanged, ResolversFrame DEF vars
<1>2. Group!GroupTypeOK' /\ FlowOK' /\ ReportsOK'
  BY DEF TransferInv, RunTypeOK, Group!GroupTypeOK, FlowOK, ReportsOK, vars
<1>3. GroupInv' /\ ServedInv' /\ ChainInv' /\ RootInv'
  BY DEF TransferInv, GroupInv, ServedInv, ChainInv, RootInv, Needed, Ended, EvidenceLeft,
     RemovedLeavesNothing, vars
<1> QED BY <1>1, <1>2, <1>3 DEF TransferInv, RunTypeOK, ViewsInv, ResolversInv

\* Every step keeps the invariant.
LEMMA NextKeeps ==
  ASSUME TransferInv, [RunNext]_vars
  PROVE  TransferInv'
<1>1. CASE AcquireStep
  BY <1>1, ReadOnlyFactsKeeps, CreateLiveRunKeeps, ManualWeightsKeeps, MeasuredKeeps,
     CommandsStartedKeeps, PublishClaimKeeps, InstallNetworkKeeps, ActivateNetworkKeeps,
     RollBackNetworkKeeps, ResolversOpenedKeeps, MeasureKeeps, MeasuredUncontainedKeeps,
     ViewsOpenedKeeps, LeaseFailsKeeps, StartCommandsKeeps, CommandsWaitedKeeps,
     LeaseViewKeeps DEF AcquireStep
<1>2. CASE ReleaseStep
  BY <1>2, ContainedKeeps, ContainmentTimesOutKeeps, CloseResolversKeeps,
     ResolversReturnedKeeps, CloseViewsKeeps, ViewsReturnedKeeps, SettledKeeps,
     NotSettledKeeps, CloseNetworkKeeps, CompleteRunKeeps, CloseLeaseKeeps DEF ReleaseStep
<1>3. \/ ProcessStep \/ GroupReturns \/ CancelRun \/ SupervisorEnds \/ RecoverDies
      \/ RulesRemoved
      => TransferInv'
  BY ProcessStepKeeps, GroupReturnsKeeps, CancelRunKeeps, SupervisorEndsKeeps,
     RecoverDiesKeeps, RulesRemovedKeeps
<1>4. CASE RecoverStep
  BY <1>4, RecoverBeginsKeeps, RecoverEndsKeeps, RecoverNetworkKeeps DEF RecoverStep
<1>5. CASE ViewStep \/ OfViews(ServerStops)
  BY <1>5, ViewStepKeeps
<1>6. CASE ResolverCallStep \/ OfResolvers(WorkerStep)
  BY <1>6, ResolverStepKeeps
<1>7. CASE pc = "client" /\ OfViews(ViewClientStep)
  BY <1>7, ClientKeeps
<1>8. CASE UNCHANGED vars
  BY <1>8, StutterKeeps
<1> QED BY <1>1, <1>2, <1>3, <1>4, <1>5, <1>6, <1>7, <1>8 DEF RunNext

\* The flow of Run, the components it opens and the recovery of its root keep
\* TransferInv (TransferDirectory.Run, cleanup.go, recoverOldRuns).
THEOREM TransferInvariant == RunSpec => []TransferInv
<1>1. TransferInv /\ [RunNext]_vars => TransferInv'
  BY NextKeeps
<1> QED BY <1>1, InitInv, PTL DEF RunSpec

\* In every run, for any number of transfers, queries and failures, nothing is taken away
\* under its users: a process keeps network and views, and until the run is cancelled a
\* forwarder that reads its queries and asks the host's resolvers (the order of cleanup,
\* FileViewSet.Close, newDNSForwarder).
THEOREM ServedUntilUnneeded == RunSpec => []ServedWhileNeeded
<1>1. TransferInv => ServedWhileNeeded
  <2> SUFFICES ASSUME TransferInv PROVE ServedWhileNeeded
    OBVIOUS
  <2>1. ServingIsBacked
    BY DEF TransferInv, ViewsInv, BackedInv
  <2>2. ProcessesServed
    <3> SUFFICES ASSUME live PROVE ProcessesServed
      BY DEF ProcessesServed
    <3>1. Needed
      BY DEF TransferInv, GroupInv, Ended
    <3>2. net = "open" /\ netEvidence = "active" /\ rpc = "open" /\ shutdown = "no"
      BY <3>1 DEF TransferInv, ServedInv, ChainInv
    <3>3. group = "commands" => mount = "serving" /\ leases = Transfers
      <4> SUFFICES ASSUME group = "commands" PROVE mount = "serving" /\ leases = Transfers
        OBVIOUS
      <4>1. vpc = "open" /\ ~set.closing /\ leases = Transfers
        BY <3>1 DEF TransferInv, ServedInv
      <4> QED BY <4>1 DEF TransferInv, ViewsInv, MountInv, CloseInv
    <3>4. contextDone \/ Resolving
      BY DEF TransferInv, ResolversInv, WorkersInv
    <3> QED BY <3>2, <3>3, <3>4 DEF ProcessesServed
  <2>3. NetworkOutlivesWorkers
    <3> SUFFICES ASSUME net # "open" PROVE ~WorkersLeft
      BY DEF NetworkOutlivesWorkers
    <3>1. rpc \in {"idle", "refused", "closed"}
      BY DEF TransferInv, ChainInv, ResolversInv, ResolversTypeOK
    <3> QED BY <3>1, NoWorkers DEF TransferInv
  <2> QED BY <2>1, <2>2, <2>3 DEF ServedWhileNeeded
<1> QED BY <1>1, TransferInvariant, PTL

\* A Close of the views or of the resolvers that reports success has finished,
\* also when an earlier one has failed or timed out.
THEOREM CloseLeavesNothing == RunSpec => []ClosedIsClean
<1>1. TransferInv => ClosedIsClean
  <2> SUFFICES ASSUME TransferInv PROVE ClosedIsClean
    OBVIOUS
  <2>1. RunTypeOK /\ ViewsInv /\ ResolversInv
    BY DEF TransferInv
  <2>2. ClosedLeavesNothing
    BY <2>1 DEF ViewsInv, MountInv, CloseInv, ClosedLeavesNothing
  <2>3. ClosedHasNoWorker
    BY <2>1, NoWorkers DEF ClosedHasNoWorker, WorkersDone
  <2>4. ShutdownReachesAll
    BY <2>1 DEF ResolversInv, WorkersInv, HandlersInv, ShutdownReachesAll
  <2> QED BY <2>1, <2>2, <2>3, <2>4 DEF ClosedIsClean
<1> QED BY <1>1, TransferInvariant, PTL

\* Who finds the lock of a run root free finds no process, mount, query or
\* cleanup of its supervisor (completeRun, retainClosingOwners).
THEOREM FreedIsIdle == RunSpec => []FreedMeansIdle
<1>1. TransferInv => FreedMeansIdle
  <2> SUFFICES ASSUME TransferInv, lock = "released" PROVE FreedMeansIdle
    BY DEF FreedMeansIdle
  <2>1. clean = "no" /\ rpc \in {"idle", "closed", "refused"} /\ pc \in {"returned", "gone"}
    BY DEF TransferInv, RootInv
  <2>2. ~live
    BY <2>1 DEF TransferInv, GroupInv, Needed, Ended
  <2>3. ~WorkersLeft
    BY <2>1, NoWorkers DEF TransferInv
  <2>4. mount \notin {"serving", "draining"}
    BY DEF TransferInv, RootInv, ViewsInv, MountInv
  <2> QED BY <2>1, <2>2, <2>3, <2>4 DEF FreedMeansIdle
<1> QED BY <1>1, TransferInvariant, PTL

\* No run root is removed while something in it is needed to find what is left,
\* by its owner or by a recovery (Complete, RecoverStale): the safety half of
\* CrashRecovered.
THEOREM RemovalLeavesNothing == RunSpec => []RemovedLeavesNothing
<1>1. TransferInv => RemovedLeavesNothing
  BY DEF TransferInv, RootInv
<1> QED BY <1>1, TransferInvariant, PTL

=============================================================================
