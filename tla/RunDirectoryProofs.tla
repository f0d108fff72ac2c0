------------------------ MODULE RunDirectoryProofs ------------------------
(***************************************************************************)
(* Proofs about RunDirectory, for any number of processes and runs, with   *)
(* crashes, power losses and file system faults allowed or not.            *)
(*                                                                         *)
(* IndInv is inductive: each action preserves it, in three groups.  The    *)
(* first says where each process is and who holds the authority lock; the  *)
(* second who created and who owns a run and what its name is, which needs *)
(* the first; the third what the roots contain in memory and on disk,      *)
(* which needs both.                                                       *)
(* DurableInv, which DurablyClaimable needs, is inductive relative to it.  *)
(***************************************************************************)
EXTENDS RunDirectory, TLAPS

USE DEF Names, LockFiles, Entries, Steps, Operations, Changing, Claiming,
        Staging, Emptying, Creator, Owner

\* The file system operators keep the types of the tree.
LEMMA SetNameType ==
  ASSUME TypeOK, NEW r \in RunIDs, NEW n \in Names, SetName(r, n)
  PROVE  name' \in [RunIDs -> Names] /\ diskName' \in [RunIDs -> SUBSET Names]
BY DEF TypeOK, SetName

\* Creating a lock file in a root.
LEMMA AddEntryType ==
  ASSUME TypeOK, NEW r \in RunIDs, NEW e \in Entries, AddEntry(r, e)
  PROVE  /\ entries' \in [RunIDs -> SUBSET Entries]
         /\ diskEntries' \in [RunIDs -> SUBSET (SUBSET Entries)]
<1>1. entries' \in [RunIDs -> SUBSET Entries]
  BY DEF TypeOK, AddEntry
<1>2. {c \cup {e} : c \in diskEntries[r]} \in SUBSET (SUBSET Entries)
  BY DEF TypeOK
<1> QED BY <1>1, <1>2 DEF TypeOK, AddEntry

\* Unlinking a lock file from a root.
LEMMA DropEntryType ==
  ASSUME TypeOK, NEW r \in RunIDs, NEW e \in Entries, DropEntry(r, e)
  PROVE  /\ entries' \in [RunIDs -> SUBSET Entries]
         /\ diskEntries' \in [RunIDs -> SUBSET (SUBSET Entries)]
<1>1. entries' \in [RunIDs -> SUBSET Entries]
  BY DEF TypeOK, DropEntry
<1>2. {c \ {e} : c \in diskEntries[r]} \in SUBSET (SUBSET Entries)
  BY DEF TypeOK
<1> QED BY <1>1, <1>2 DEF TypeOK, DropEntry

\* Owners change only their evidence, and only that of the given root.
LEMMA SetEvidenceEffect ==
  ASSUME TypeOK, NEW r \in RunIDs, NEW E \in SUBSET {"evidence"}, SetEvidence(r, E)
  PROVE  /\ entries' \in [RunIDs -> SUBSET Entries]
         /\ diskEntries' \in [RunIDs -> SUBSET (SUBSET Entries)]
         /\ \A s \in RunIDs \ {r} :
              entries'[s] = entries[s] /\ diskEntries'[s] = diskEntries[s]
         /\ \A s \in RunIDs : entries[s] \cap LockFiles \subseteq entries'[s]
         /\ \A s \in RunIDs : (\A c \in diskEntries[s] : LockFiles \subseteq c)
                                => \A c \in diskEntries'[s] : LockFiles \subseteq c
         /\ "evidence" \in entries'[r] <=> E # {}
<1>1. entries' \in [RunIDs -> SUBSET Entries]
  BY DEF TypeOK, SetEvidence
<1>2. /\ entries'[r] = (entries[r] \cap LockFiles) \cup E
      /\ diskEntries'[r] = {(c \cap LockFiles) \cup E : c \in diskEntries[r]}
      /\ \A s \in RunIDs \ {r} :
           entries'[s] = entries[s] /\ diskEntries'[s] = diskEntries[s]
  BY DEF TypeOK, SetEvidence
<1>3. diskEntries' \in [RunIDs -> SUBSET (SUBSET Entries)]
  <2>1. \A c \in diskEntries[r] : (c \cap LockFiles) \cup E \in SUBSET Entries
    OBVIOUS
  <2>2. diskEntries'[r] \in SUBSET (SUBSET Entries)
    BY <1>2, <2>1
  <2> QED BY <1>2, <2>2 DEF TypeOK, SetEvidence
<1>4. ASSUME NEW s \in RunIDs
      PROVE  entries[s] \cap LockFiles \subseteq entries'[s]
  BY <1>2
<1>5. ASSUME NEW s \in RunIDs, \A c \in diskEntries[s] : LockFiles \subseteq c
      PROVE  \A c \in diskEntries'[s] : LockFiles \subseteq c
  <2>1. CASE s = r
    BY <1>2, <1>5, <2>1
  <2>2. CASE s # r
    BY <1>2, <1>5, <2>2
  <2> QED BY <2>1, <2>2
<1>6. "evidence" \in entries'[r] <=> E # {}
  BY <1>2
<1> QED BY <1>1, <1>2, <1>3, <1>4, <1>5, <1>6

\* OpenAuthority preserves IndInv.
LEMMA OpenAuthorityStep ==
  ASSUME IndInv, NEW p \in Procs, OpenAuthority(p)
  PROVE  IndInv'
<1> USE ConstantsAssumption DEF IndInv, TypeOK, StepInv, OpenAuthority, Go, SyncAuthority, locks
<1>1. TypeOK' /\ AuthorityInv' /\ StepInv'
  BY DEF AuthorityInv
<1>2. CreatorInv' /\ LivenessInv' /\ NameInv'
  BY DEF AuthorityInv, CreatorInv, LivenessInv, NameInv
<1>3. ContentInv' /\ EvidenceReachable' /\ DiskEvidenceInv'
  BY DEF AuthorityInv, CreatorInv, LivenessInv, NameInv, ContentInv,
         EvidenceReachable, DiskEvidenceInv
<1> QED BY <1>1, <1>2, <1>3

\* LockAuthority preserves IndInv.
LEMMA LockAuthorityStep ==
  ASSUME IndInv, NEW p \in Procs, LockAuthority(p)
  PROVE  IndInv'
<1> USE ConstantsAssumption DEF IndInv, TypeOK, StepInv, LockAuthority, Go, LockedStep, tree
<1>1. TypeOK' /\ AuthorityInv' /\ StepInv'
  BY DEF AuthorityInv
<1>2. CreatorInv' /\ LivenessInv' /\ NameInv'
  BY DEF AuthorityInv, CreatorInv, LivenessInv, NameInv
<1>3. ContentInv' /\ EvidenceReachable' /\ DiskEvidenceInv'
  BY DEF AuthorityInv, CreatorInv, LivenessInv, NameInv, ContentInv,
         EvidenceReachable, DiskEvidenceInv
<1> QED BY <1>1, <1>2, <1>3

\* LockTimesOut preserves IndInv.
LEMMA LockTimesOutStep ==
  ASSUME IndInv, NEW p \in Procs, LockTimesOut(p)
  PROVE  IndInv'
<1> USE ConstantsAssumption DEF IndInv, TypeOK, StepInv, LockTimesOut, Go, tree, locks
<1>1. TypeOK' /\ AuthorityInv' /\ StepInv'
  BY DEF AuthorityInv
<1>2. CreatorInv' /\ LivenessInv' /\ NameInv'
  BY DEF AuthorityInv, CreatorInv, LivenessInv, NameInv
<1>3. ContentInv' /\ EvidenceReachable' /\ DiskEvidenceInv'
  BY DEF AuthorityInv, CreatorInv, LivenessInv, NameInv, ContentInv,
         EvidenceReachable, DiskEvidenceInv
<1> QED BY <1>1, <1>2, <1>3

\* UnlinkLiveness preserves IndInv.
LEMMA UnlinkLivenessStep ==
  ASSUME IndInv, NEW p \in Procs, UnlinkLiveness(p)
  PROVE  IndInv'
<1>1. run[p] \in RunIDs
  BY DEF IndInv, StepInv, UnlinkLiveness
<1>2. TypeOK'
  BY <1>1, DropEntryType DEF IndInv, TypeOK, UnlinkLiveness, Go, locks
<1> USE <1>1, ConstantsAssumption DEF IndInv, TypeOK, StepInv, UnlinkLiveness, Go, DropEntry, locks
<1>3. AuthorityInv' /\ StepInv'
  BY DEF AuthorityInv
<1>4. CreatorInv' /\ LivenessInv' /\ NameInv'
  BY DEF AuthorityInv, CreatorInv, LivenessInv, NameInv
<1>5. ContentInv' /\ EvidenceReachable' /\ DiskEvidenceInv'
  BY DEF AuthorityInv, CreatorInv, LivenessInv, NameInv, ContentInv,
         EvidenceReachable, DiskEvidenceInv
<1> QED BY <1>2, <1>3, <1>4, <1>5

\* UnlinkRecovery preserves IndInv.
LEMMA UnlinkRecoveryStep ==
  ASSUME IndInv, NEW p \in Procs, UnlinkRecovery(p)
  PROVE  IndInv'
<1>1. run[p] \in RunIDs
  BY DEF IndInv, StepInv, UnlinkRecovery
<1>2. TypeOK'
  BY <1>1, DropEntryType DEF IndInv, TypeOK, UnlinkRecovery, Go, locks
<1> USE <1>1, ConstantsAssumption DEF IndInv, TypeOK, StepInv, UnlinkRecovery, Go, DropEntry, locks
<1>3. AuthorityInv' /\ StepInv'
  BY DEF AuthorityInv
<1>4. CreatorInv' /\ LivenessInv' /\ NameInv'
  BY DEF AuthorityInv, CreatorInv, LivenessInv, NameInv
<1>5. ContentInv' /\ EvidenceReachable' /\ DiskEvidenceInv'
  BY DEF AuthorityInv, CreatorInv, LivenessInv, NameInv, ContentInv,
         EvidenceReachable, DiskEvidenceInv
<1> QED BY <1>2, <1>3, <1>4, <1>5

\* RemoveDirectory preserves IndInv.
LEMMA RemoveDirectoryStep ==
  ASSUME IndInv, NEW p \in Procs, RemoveDirectory(p)
  PROVE  IndInv'
<1>1. run[p] \in RunIDs
  BY DEF IndInv, StepInv, RemoveDirectory
<1>2. TypeOK'
  BY <1>1, SetNameType DEF IndInv, TypeOK, RemoveDirectory, Go, locks
<1> USE <1>1, ConstantsAssumption DEF IndInv, TypeOK, StepInv, RemoveDirectory, Go, SetName, locks
<1>3. AuthorityInv' /\ StepInv'
  BY DEF AuthorityInv
<1>4. CreatorInv' /\ LivenessInv' /\ NameInv'
  BY DEF AuthorityInv, CreatorInv, LivenessInv, NameInv
<1>5. ContentInv' /\ EvidenceReachable' /\ DiskEvidenceInv'
  BY DEF AuthorityInv, CreatorInv, LivenessInv, NameInv, ContentInv,
         EvidenceReachable, DiskEvidenceInv
<1> QED BY <1>2, <1>3, <1>4, <1>5

\* SyncRemoved preserves IndInv.
LEMMA SyncRemovedStep ==
  ASSUME IndInv, NEW p \in Procs, SyncRemoved(p)
  PROVE  IndInv'
<1> USE ConstantsAssumption DEF IndInv, TypeOK, StepInv, SyncRemoved, Go, SyncAuthority
<1>1. TypeOK' /\ AuthorityInv' /\ StepInv'
  BY DEF AuthorityInv
<1>2. CreatorInv' /\ LivenessInv' /\ NameInv'
  BY DEF AuthorityInv, CreatorInv, LivenessInv, NameInv
<1>3. ContentInv' /\ EvidenceReachable' /\ DiskEvidenceInv'
  BY DEF AuthorityInv, CreatorInv, LivenessInv, NameInv, ContentInv,
         EvidenceReachable, DiskEvidenceInv
<1> QED BY <1>1, <1>2, <1>3

\* MakeStaging preserves IndInv.
LEMMA MakeStagingStep ==
  ASSUME IndInv, NEW p \in Procs, MakeStaging(p)
  PROVE  IndInv'
<1>1. run[p] \in RunIDs
  BY DEF IndInv, StepInv, MakeStaging
<1>2. TypeOK'
  BY <1>1, SetNameType DEF IndInv, TypeOK, MakeStaging, Go, locks
<1> USE <1>1, ConstantsAssumption DEF IndInv, TypeOK, StepInv, MakeStaging, Go, SetName, locks
<1>3. AuthorityInv' /\ StepInv'
  BY DEF AuthorityInv
<1>4. CreatorInv' /\ LivenessInv' /\ NameInv'
  BY DEF AuthorityInv, CreatorInv, LivenessInv, NameInv
<1>5. ContentInv' /\ EvidenceReachable' /\ DiskEvidenceInv'
  BY DEF AuthorityInv, CreatorInv, LivenessInv, NameInv, ContentInv,
         EvidenceReachable, DiskEvidenceInv
<1> QED BY <1>2, <1>3, <1>4, <1>5

\* MakeLiveness preserves IndInv.
LEMMA MakeLivenessStep ==
  ASSUME IndInv, NEW p \in Procs, MakeLiveness(p)
  PROVE  IndInv'
<1>1. run[p] \in RunIDs
  BY DEF IndInv, StepInv, MakeLiveness
<1>2. TypeOK'
  BY <1>1, AddEntryType DEF IndInv, TypeOK, MakeLiveness, Go, locks
<1> USE <1>1, ConstantsAssumption DEF IndInv, TypeOK, StepInv, MakeLiveness, Go, AddEntry, locks
<1>3. AuthorityInv' /\ StepInv'
  BY DEF AuthorityInv
<1>4. CreatorInv' /\ LivenessInv' /\ NameInv'
  BY DEF AuthorityInv, CreatorInv, LivenessInv, NameInv
<1>5. ContentInv' /\ EvidenceReachable' /\ DiskEvidenceInv'
  BY DEF AuthorityInv, CreatorInv, LivenessInv, NameInv, ContentInv,
         EvidenceReachable, DiskEvidenceInv
<1> QED BY <1>2, <1>3, <1>4, <1>5

\* MakeRecovery preserves IndInv.
LEMMA MakeRecoveryStep ==
  ASSUME IndInv, NEW p \in Procs, MakeRecovery(p)
  PROVE  IndInv'
<1>1. run[p] \in RunIDs
  BY DEF IndInv, StepInv, MakeRecovery
<1>2. TypeOK'
  BY <1>1, AddEntryType DEF IndInv, TypeOK, MakeRecovery, Go, locks
<1> USE <1>1, ConstantsAssumption DEF IndInv, TypeOK, StepInv, MakeRecovery, Go, AddEntry, locks
<1>3. AuthorityInv' /\ StepInv'
  BY DEF AuthorityInv
<1>4. CreatorInv' /\ LivenessInv' /\ NameInv'
  BY DEF AuthorityInv, CreatorInv, LivenessInv, NameInv
<1>5. ContentInv' /\ EvidenceReachable' /\ DiskEvidenceInv'
  BY DEF AuthorityInv, CreatorInv, LivenessInv, NameInv, ContentInv,
         EvidenceReachable, DiskEvidenceInv
<1> QED BY <1>2, <1>3, <1>4, <1>5

\* SyncStaging preserves IndInv.
LEMMA SyncStagingStep ==
  ASSUME IndInv, NEW p \in Procs, SyncStaging(p)
  PROVE  IndInv'
<1>1. run[p] \in RunIDs
  BY DEF IndInv, StepInv, SyncStaging
<1>2. TypeOK'
  <2>1. diskEntries' \in [RunIDs -> SUBSET (SUBSET Entries)]
    BY <1>1 DEF IndInv, TypeOK, SyncStaging
  <2> QED BY <1>1, <2>1 DEF IndInv, TypeOK, SyncStaging, Go
<1> USE <1>1, ConstantsAssumption DEF IndInv, TypeOK, StepInv, SyncStaging, Go
<1>3. AuthorityInv' /\ StepInv'
  BY DEF AuthorityInv
<1>4. CreatorInv' /\ LivenessInv' /\ NameInv'
  BY DEF AuthorityInv, CreatorInv, LivenessInv, NameInv
<1>5. ContentInv' /\ EvidenceReachable' /\ DiskEvidenceInv'
  BY DEF AuthorityInv, CreatorInv, LivenessInv, NameInv, ContentInv,
         EvidenceReachable, DiskEvidenceInv
<1> QED BY <1>2, <1>3, <1>4, <1>5

\* Publish preserves IndInv.
LEMMA PublishStep ==
  ASSUME IndInv, NEW p \in Procs, Publish(p)
  PROVE  IndInv'
<1>1. run[p] \in RunIDs
  BY DEF IndInv, StepInv, Publish
<1>2. TypeOK'
  BY <1>1, SetNameType DEF IndInv, TypeOK, Publish, Go, locks
<1> USE <1>1, ConstantsAssumption DEF IndInv, TypeOK, StepInv, Publish, Go, SetName, locks
<1>3. AuthorityInv' /\ StepInv'
  BY DEF AuthorityInv
<1>4. CreatorInv' /\ LivenessInv' /\ NameInv'
  BY DEF AuthorityInv, CreatorInv, LivenessInv, NameInv
<1>5. ContentInv' /\ EvidenceReachable' /\ DiskEvidenceInv'
  BY DEF AuthorityInv, CreatorInv, LivenessInv, NameInv, ContentInv,
         EvidenceReachable, DiskEvidenceInv
<1> QED BY <1>2, <1>3, <1>4, <1>5

\* SyncPublished preserves IndInv.
LEMMA SyncPublishedStep ==
  ASSUME IndInv, NEW p \in Procs, SyncPublished(p)
  PROVE  IndInv'
<1> USE ConstantsAssumption DEF IndInv, TypeOK, StepInv, SyncPublished, Go, SyncAuthority
<1>1. TypeOK' /\ AuthorityInv' /\ StepInv'
  BY DEF AuthorityInv
<1>2. CreatorInv' /\ LivenessInv' /\ NameInv'
  BY DEF AuthorityInv, CreatorInv, LivenessInv, NameInv
<1>3. ContentInv' /\ EvidenceReachable' /\ DiskEvidenceInv'
  BY DEF AuthorityInv, CreatorInv, LivenessInv, NameInv, ContentInv,
         EvidenceReachable, DiskEvidenceInv
<1> QED BY <1>1, <1>2, <1>3

\* Unpublish preserves IndInv.
LEMMA UnpublishStep ==
  ASSUME IndInv, NEW p \in Procs, Unpublish(p)
  PROVE  IndInv'
<1>1. run[p] \in RunIDs
  BY DEF IndInv, StepInv, Unpublish
<1>2. TypeOK'
  BY <1>1, SetNameType DEF IndInv, TypeOK, Unpublish, Go, locks
<1> USE <1>1, ConstantsAssumption DEF IndInv, TypeOK, StepInv, Unpublish, Go, SetName, locks
<1>3. AuthorityInv' /\ StepInv'
  BY DEF AuthorityInv
<1>4. CreatorInv' /\ LivenessInv' /\ NameInv'
  BY DEF AuthorityInv, CreatorInv, LivenessInv, NameInv
<1>5. ContentInv' /\ EvidenceReachable' /\ DiskEvidenceInv'
  BY DEF AuthorityInv, CreatorInv, LivenessInv, NameInv, ContentInv,
         EvidenceReachable, DiskEvidenceInv
<1> QED BY <1>2, <1>3, <1>4, <1>5

\* LockRecovery preserves IndInv.
LEMMA LockRecoveryStep ==
  ASSUME IndInv, NEW p \in Procs, LockRecovery(p)
  PROVE  IndInv'
<1> USE ConstantsAssumption DEF IndInv, TypeOK, StepInv, LockRecovery, Go, tree
<1>1. TypeOK' /\ AuthorityInv' /\ StepInv'
  BY DEF AuthorityInv
<1>2. CreatorInv' /\ LivenessInv' /\ NameInv'
  BY DEF AuthorityInv, CreatorInv, LivenessInv, NameInv
<1>3. ContentInv' /\ EvidenceReachable' /\ DiskEvidenceInv'
  BY DEF AuthorityInv, CreatorInv, LivenessInv, NameInv, ContentInv,
         EvidenceReachable, DiskEvidenceInv
<1> QED BY <1>1, <1>2, <1>3

\* CompleteTimesOut preserves IndInv.
LEMMA CompleteTimesOutStep ==
  ASSUME IndInv, NEW p \in Procs, CompleteTimesOut(p)
  PROVE  IndInv'
<1> USE ConstantsAssumption DEF IndInv, TypeOK, StepInv, CompleteTimesOut, Go, tree, locks
<1>1. TypeOK' /\ AuthorityInv' /\ StepInv'
  BY DEF AuthorityInv
<1>2. CreatorInv' /\ LivenessInv' /\ NameInv'
  BY DEF AuthorityInv, CreatorInv, LivenessInv, NameInv
<1>3. ContentInv' /\ EvidenceReachable' /\ DiskEvidenceInv'
  BY DEF AuthorityInv, CreatorInv, LivenessInv, NameInv, ContentInv,
         EvidenceReachable, DiskEvidenceInv
<1> QED BY <1>1, <1>2, <1>3

\* SweepTemporary preserves IndInv.
LEMMA SweepTemporaryStep ==
  ASSUME IndInv, NEW p \in Procs, SweepTemporary(p)
  PROVE  IndInv'
<1> USE ConstantsAssumption DEF IndInv, TypeOK, StepInv, SweepTemporary, Go, Temporary, tree, locks
<1>1. TypeOK' /\ AuthorityInv' /\ StepInv'
  BY DEF AuthorityInv
<1>2. CreatorInv' /\ LivenessInv' /\ NameInv'
  BY DEF AuthorityInv, CreatorInv, LivenessInv, NameInv
<1>3. ContentInv' /\ EvidenceReachable' /\ DiskEvidenceInv'
  BY DEF AuthorityInv, CreatorInv, LivenessInv, NameInv, ContentInv,
         EvidenceReachable, DiskEvidenceInv
<1> QED BY <1>1, <1>2, <1>3

\* SnapshotPublished preserves IndInv.
LEMMA SnapshotPublishedStep ==
  ASSUME IndInv, NEW p \in Procs, SnapshotPublished(p)
  PROVE  IndInv'
<1> USE ConstantsAssumption DEF IndInv, TypeOK, StepInv, SnapshotPublished, Go, Temporary, Published, tree
<1>1. TypeOK' /\ AuthorityInv' /\ StepInv'
  BY DEF AuthorityInv
<1>2. CreatorInv' /\ LivenessInv' /\ NameInv'
  BY DEF AuthorityInv, CreatorInv, LivenessInv, NameInv
<1>3. ContentInv' /\ EvidenceReachable' /\ DiskEvidenceInv'
  BY DEF AuthorityInv, CreatorInv, LivenessInv, NameInv, ContentInv,
         EvidenceReachable, DiskEvidenceInv
<1> QED BY <1>1, <1>2, <1>3

\* ClaimRun preserves IndInv.
LEMMA ClaimRunStep ==
  ASSUME IndInv, NEW p \in Procs, ClaimRun(p)
  PROVE  IndInv'
<1> USE ConstantsAssumption DEF IndInv, TypeOK, StepInv, ClaimRun, Go, tree, locks
<1>1. TypeOK' /\ AuthorityInv' /\ StepInv'
  BY DEF AuthorityInv
<1>2. CreatorInv' /\ LivenessInv' /\ NameInv'
  BY DEF AuthorityInv, CreatorInv, LivenessInv, NameInv
<1>3. ContentInv' /\ EvidenceReachable' /\ DiskEvidenceInv'
  BY DEF AuthorityInv, CreatorInv, LivenessInv, NameInv, ContentInv,
         EvidenceReachable, DiskEvidenceInv
<1> QED BY <1>1, <1>2, <1>3

\* RecoverDone preserves IndInv.
LEMMA RecoverDoneStep ==
  ASSUME IndInv, NEW p \in Procs, RecoverDone(p)
  PROVE  IndInv'
<1> USE ConstantsAssumption DEF IndInv, TypeOK, StepInv, RecoverDone, Return, tree, locks
<1>1. TypeOK' /\ AuthorityInv' /\ StepInv'
  BY DEF AuthorityInv
<1>2. CreatorInv' /\ LivenessInv' /\ NameInv'
  BY DEF AuthorityInv, CreatorInv, LivenessInv, NameInv
<1>3. ContentInv' /\ EvidenceReachable' /\ DiskEvidenceInv'
  BY DEF AuthorityInv, CreatorInv, LivenessInv, NameInv, ContentInv,
         EvidenceReachable, DiskEvidenceInv
<1> QED BY <1>1, <1>2, <1>3

\* OpenRecovery preserves IndInv.
LEMMA OpenRecoveryStep ==
  ASSUME IndInv, NEW p \in Procs, OpenRecovery(p)
  PROVE  IndInv'
<1> USE ConstantsAssumption DEF IndInv, TypeOK, StepInv, OpenRecovery, Go, tree, locks
<1>1. TypeOK' /\ AuthorityInv' /\ StepInv'
  BY DEF AuthorityInv
<1>2. CreatorInv' /\ LivenessInv' /\ NameInv'
  BY DEF AuthorityInv, CreatorInv, LivenessInv, NameInv
<1>3. ContentInv' /\ EvidenceReachable' /\ DiskEvidenceInv'
  BY DEF AuthorityInv, CreatorInv, LivenessInv, NameInv, ContentInv,
         EvidenceReachable, DiskEvidenceInv
<1> QED BY <1>1, <1>2, <1>3

\* TryRecovery preserves IndInv.
LEMMA TryRecoveryStep ==
  ASSUME IndInv, NEW p \in Procs, TryRecovery(p)
  PROVE  IndInv'
<1> USE ConstantsAssumption DEF IndInv, TypeOK, StepInv, TryRecovery, Go, tree
<1>1. TypeOK' /\ AuthorityInv' /\ StepInv'
  BY DEF AuthorityInv
<1>2. CreatorInv' /\ LivenessInv' /\ NameInv'
  BY DEF AuthorityInv, CreatorInv, LivenessInv, NameInv
<1>3. ContentInv' /\ EvidenceReachable' /\ DiskEvidenceInv'
  BY DEF AuthorityInv, CreatorInv, LivenessInv, NameInv, ContentInv,
         EvidenceReachable, DiskEvidenceInv
<1> QED BY <1>1, <1>2, <1>3

\* OpenLiveness preserves IndInv.
LEMMA OpenLivenessStep ==
  ASSUME IndInv, NEW p \in Procs, OpenLiveness(p)
  PROVE  IndInv'
<1> USE ConstantsAssumption DEF IndInv, TypeOK, StepInv, OpenLiveness, Go, tree
<1>1. TypeOK' /\ AuthorityInv' /\ StepInv'
  BY DEF AuthorityInv
<1>2. CreatorInv' /\ LivenessInv' /\ NameInv'
  BY DEF AuthorityInv, CreatorInv, LivenessInv, NameInv
<1>3. ContentInv' /\ EvidenceReachable' /\ DiskEvidenceInv'
  BY DEF AuthorityInv, CreatorInv, LivenessInv, NameInv, ContentInv,
         EvidenceReachable, DiskEvidenceInv
<1> QED BY <1>1, <1>2, <1>3

\* TryLiveness preserves IndInv.
LEMMA TryLivenessStep ==
  ASSUME IndInv, NEW p \in Procs, TryLiveness(p)
  PROVE  IndInv'
<1> USE ConstantsAssumption DEF IndInv, TypeOK, StepInv, TryLiveness, Go, Stale, tree
<1>1. TypeOK' /\ AuthorityInv' /\ StepInv'
  BY DEF AuthorityInv
<1>2. CreatorInv' /\ NameInv'
  BY DEF AuthorityInv, CreatorInv, NameInv
<1>3. LivenessInv'
  <2>1. CASE Stale(run[p])
    <3>1. liveness' = [liveness EXCEPT ![run[p]] = p] /\ UNCHANGED <<op, run>>
          /\ pc' = [pc EXCEPT ![p] = "callback"]
      BY <2>1
    <3>2. \A q \in Procs : liveness[run[q]] = q => run[q] # run[p]
      BY <2>1
    <3>3. run[p] \in RunIDs
      OBVIOUS
    <3> QED BY <3>1, <3>2, <3>3 DEF LivenessInv
  <2>2. CASE ~Stale(run[p])
    BY <2>2 DEF LivenessInv
  <2> QED BY <2>1, <2>2
<1>4. ContentInv' /\ EvidenceReachable' /\ DiskEvidenceInv'
  BY DEF AuthorityInv, CreatorInv, LivenessInv, NameInv, ContentInv,
         EvidenceReachable, DiskEvidenceInv
<1> QED BY <1>1, <1>2, <1>3, <1>4

\* ReturnClaimError preserves IndInv.
LEMMA ReturnClaimErrorStep ==
  ASSUME IndInv, NEW p \in Procs, ReturnClaimError(p)
  PROVE  IndInv'
<1> USE ConstantsAssumption DEF IndInv, TypeOK, StepInv, ReturnClaimError, Return, tree, locks
<1>1. TypeOK' /\ AuthorityInv' /\ StepInv'
  BY DEF AuthorityInv
<1>2. CreatorInv' /\ LivenessInv' /\ NameInv'
  BY DEF AuthorityInv, CreatorInv, LivenessInv, NameInv
<1>3. ContentInv' /\ EvidenceReachable' /\ DiskEvidenceInv'
  BY DEF AuthorityInv, CreatorInv, LivenessInv, NameInv, ContentInv,
         EvidenceReachable, DiskEvidenceInv
<1> QED BY <1>1, <1>2, <1>3

\* RestartPass preserves IndInv.
LEMMA RestartPassStep ==
  ASSUME IndInv, NEW p \in Procs, RestartPass(p)
  PROVE  IndInv'
<1> USE ConstantsAssumption DEF IndInv, TypeOK, StepInv, RestartPass, Go, Return, tree, locks
<1>1. TypeOK' /\ AuthorityInv' /\ StepInv'
  BY DEF AuthorityInv
<1>2. CreatorInv' /\ LivenessInv' /\ NameInv'
  BY DEF AuthorityInv, CreatorInv, LivenessInv, NameInv
<1>3. ContentInv' /\ EvidenceReachable' /\ DiskEvidenceInv'
  BY DEF AuthorityInv, CreatorInv, LivenessInv, NameInv, ContentInv,
         EvidenceReachable, DiskEvidenceInv
<1> QED BY <1>1, <1>2, <1>3

\* RecoverOwners preserves IndInv.
LEMMA RecoverOwnersStep ==
  ASSUME IndInv, NEW p \in Procs, RecoverOwners(p)
  PROVE  IndInv'
<1> USE ConstantsAssumption DEF IndInv
<1>1. run[p] \in RunIDs
  BY DEF StepInv, RecoverOwners
<1>2. /\ \A r \in RunIDs : entries[r] \cap LockFiles \subseteq entries'[r]
      /\ \A r \in RunIDs : (\A c \in diskEntries[r] : LockFiles \subseteq c)
                             => \A c \in diskEntries'[r] : LockFiles \subseteq c
      /\ \A r \in RunIDs \ {run[p]} : entries'[r] = entries[r]
      /\ "evidence" \in entries'[run[p]] => "evidence" \in entries[run[p]]
      /\ TypeOK'
  <2>1. CASE SetEvidence(run[p], {})
    <3>1. {} \in SUBSET {"evidence"}
      OBVIOUS
    <3>2. /\ entries' \in [RunIDs -> SUBSET Entries]
          /\ diskEntries' \in [RunIDs -> SUBSET (SUBSET Entries)]
          /\ \A r \in RunIDs \ {run[p]} : entries'[r] = entries[r]
          /\ \A r \in RunIDs : entries[r] \cap LockFiles \subseteq entries'[r]
          /\ \A r \in RunIDs : (\A c \in diskEntries[r] : LockFiles \subseteq c)
                                 => \A c \in diskEntries'[r] : LockFiles \subseteq c
          /\ "evidence" \notin entries'[run[p]]
      BY <1>1, <2>1, <3>1, SetEvidenceEffect
    <3>3. TypeOK'
      BY <3>2 DEF TypeOK, RecoverOwners, Go, locks
    <3> QED BY <3>2, <3>3
  <2>2. CASE UNCHANGED <<entries, diskEntries>>
    BY <1>1, <2>2 DEF TypeOK, RecoverOwners, Go, locks
  <2> QED BY <2>1, <2>2 DEF RecoverOwners
<1> USE DEF TypeOK, StepInv, RecoverOwners, Go, locks
<1>3. AuthorityInv' /\ StepInv'
  BY <1>2 DEF AuthorityInv
<1>4. CreatorInv' /\ LivenessInv' /\ NameInv'
  BY <1>2 DEF AuthorityInv, CreatorInv, LivenessInv, NameInv
<1>5. ContentInv'
  <2> SUFFICES ASSUME NEW q \in Procs PROVE ContentInv!(q)'
    BY DEF ContentInv
  <2>1. (pc'[q] # pc[q] => pc'[q] \in {"lock", "abort"}) /\ run'[q] = run[q]
    OBVIOUS
  <2>2. pc[q] \in Staging => "evidence" \notin entries'[run[q]]
    <3> SUFFICES ASSUME pc[q] \in Staging PROVE "evidence" \notin entries'[run[q]]
      OBVIOUS
    <3>1. run[q] \in RunIDs /\ "evidence" \notin entries[run[q]]
      BY DEF ContentInv
    <3>2. CASE run[q] # run[p]
      BY <1>2, <3>1, <3>2
    <3>3. CASE run[q] = run[p]
      BY <1>2, <3>1, <3>3 DEF CreatorInv
    <3> QED BY <3>2, <3>3
  <2>3. /\ pc'[q] = "makeRecovery" => "liveness.lock" \in entries'[run'[q]]
        /\ pc'[q] \in {"syncStaging", "publish", "syncPublished", "live", "retained",
                       "awaitRecovery"} => LockFiles \subseteq entries'[run'[q]]
    <3>1. pc'[q] \in {"makeRecovery", "syncStaging", "publish", "syncPublished", "live",
                    "retained", "awaitRecovery"} => run[q] \in RunIDs /\ pc'[q] = pc[q]
      BY <2>1
    <3>2. run[q] \in RunIDs => \A e \in LockFiles :
            e \in entries[run[q]] => e \in entries'[run[q]]
      BY <1>2
    <3> QED BY <2>1, <3>1, <3>2 DEF ContentInv
  <2>4. /\ pc'[q] \in {"publish", "syncPublished", "live", "retained"} =>
             \A c \in diskEntries'[run'[q]] : LockFiles \subseteq c
        /\ pc'[q] \in {"live", "retained"} => diskName'[run'[q]] = {"published"}
    BY <1>2, <2>1 DEF ContentInv
  <2> QED BY <2>1, <2>2, <2>3, <2>4
<1>6. EvidenceReachable' /\ DiskEvidenceInv'
  BY <1>1, <1>2 DEF SetEvidence, AuthorityInv, CreatorInv, LivenessInv, NameInv, ContentInv,
         EvidenceReachable, DiskEvidenceInv
<1> QED BY <1>2, <1>3, <1>4, <1>5, <1>6

\* Isolate preserves IndInv.
LEMMA IsolateStep ==
  ASSUME IndInv, NEW p \in Procs, Isolate(p)
  PROVE  IndInv'
<1>1. run[p] \in RunIDs
  BY DEF IndInv, StepInv, Isolate
<1>2. TypeOK'
  BY <1>1, SetNameType DEF IndInv, TypeOK, Isolate, Go, locks
<1> USE <1>1, ConstantsAssumption DEF IndInv, TypeOK, StepInv, Isolate, Go, SetName, Removable, locks
<1>3. AuthorityInv' /\ StepInv'
  BY DEF AuthorityInv
<1>4. CreatorInv' /\ LivenessInv' /\ NameInv'
  BY DEF AuthorityInv, CreatorInv, LivenessInv, NameInv
<1>5. ContentInv' /\ EvidenceReachable' /\ DiskEvidenceInv'
  BY DEF AuthorityInv, CreatorInv, LivenessInv, NameInv, ContentInv,
         EvidenceReachable, DiskEvidenceInv
<1> QED BY <1>2, <1>3, <1>4, <1>5

\* RefuseRemoval preserves IndInv.
LEMMA RefuseRemovalStep ==
  ASSUME IndInv, NEW p \in Procs, RefuseRemoval(p)
  PROVE  IndInv'
<1> USE ConstantsAssumption DEF IndInv, TypeOK, StepInv, RefuseRemoval, Go, Removable, tree
<1>1. TypeOK' /\ AuthorityInv' /\ StepInv'
  BY DEF AuthorityInv
<1>2. CreatorInv' /\ LivenessInv' /\ NameInv'
  BY DEF AuthorityInv, CreatorInv, LivenessInv, NameInv
<1>3. ContentInv' /\ EvidenceReachable' /\ DiskEvidenceInv'
  BY DEF AuthorityInv, CreatorInv, LivenessInv, NameInv, ContentInv,
         EvidenceReachable, DiskEvidenceInv
<1> QED BY <1>1, <1>2, <1>3

\* SyncIsolated preserves IndInv.
LEMMA SyncIsolatedStep ==
  ASSUME IndInv, NEW p \in Procs, SyncIsolated(p)
  PROVE  IndInv'
<1> USE ConstantsAssumption DEF IndInv, TypeOK, StepInv, SyncIsolated, Go, SyncAuthority, locks
<1>1. TypeOK' /\ AuthorityInv' /\ StepInv'
  BY DEF AuthorityInv
<1>2. CreatorInv' /\ LivenessInv' /\ NameInv'
  BY DEF AuthorityInv, CreatorInv, LivenessInv, NameInv
<1>3. ContentInv' /\ EvidenceReachable' /\ DiskEvidenceInv'
  BY DEF AuthorityInv, CreatorInv, LivenessInv, NameInv, ContentInv,
         EvidenceReachable, DiskEvidenceInv
<1> QED BY <1>1, <1>2, <1>3

\* CloseLease preserves IndInv.
LEMMA CloseLeaseStep ==
  ASSUME IndInv, NEW p \in Procs, CloseLease(p)
  PROVE  IndInv'
<1> USE ConstantsAssumption DEF IndInv, TypeOK, StepInv, CloseLease, Go, ReleaseRunLocks, Return, tree
<1>1. TypeOK' /\ AuthorityInv' /\ StepInv'
  BY DEF AuthorityInv
<1>2. CreatorInv' /\ LivenessInv' /\ NameInv'
  BY DEF AuthorityInv, CreatorInv, LivenessInv, NameInv
<1>3. ContentInv' /\ EvidenceReachable' /\ DiskEvidenceInv'
  BY DEF AuthorityInv, CreatorInv, LivenessInv, NameInv, ContentInv,
         EvidenceReachable, DiskEvidenceInv
<1> QED BY <1>1, <1>2, <1>3

\* Abort preserves IndInv.
LEMMA AbortStep ==
  ASSUME IndInv, NEW p \in Procs, Abort(p)
  PROVE  IndInv'
<1> USE ConstantsAssumption DEF IndInv, TypeOK, StepInv, Abort, ReleaseRunLocks, Return, tree
<1>1. TypeOK' /\ AuthorityInv' /\ StepInv'
  BY DEF AuthorityInv
<1>2. CreatorInv' /\ LivenessInv' /\ NameInv'
  BY DEF AuthorityInv, CreatorInv, LivenessInv, NameInv
<1>3. ContentInv' /\ EvidenceReachable' /\ DiskEvidenceInv'
  BY DEF AuthorityInv, CreatorInv, LivenessInv, NameInv, ContentInv,
         EvidenceReachable, DiskEvidenceInv
<1> QED BY <1>1, <1>2, <1>3

\* StartCreate preserves IndInv.
LEMMA StartCreateStep ==
  ASSUME IndInv, NEW p \in Procs, StartCreate(p)
  PROVE  IndInv'
<1> USE ConstantsAssumption DEF IndInv, TypeOK, StepInv, StartCreate, Go, tree, locks
<1>1. TypeOK' /\ AuthorityInv' /\ StepInv'
  BY DEF AuthorityInv
<1>2. CreatorInv' /\ LivenessInv' /\ NameInv'
  BY DEF AuthorityInv, CreatorInv, LivenessInv, NameInv
<1>3. ContentInv' /\ EvidenceReachable' /\ DiskEvidenceInv'
  BY DEF AuthorityInv, CreatorInv, LivenessInv, NameInv, ContentInv,
         EvidenceReachable, DiskEvidenceInv
<1> QED BY <1>1, <1>2, <1>3

\* StartRecover preserves IndInv.
LEMMA StartRecoverStep ==
  ASSUME IndInv, NEW p \in Procs, StartRecover(p)
  PROVE  IndInv'
<1> USE ConstantsAssumption DEF IndInv, TypeOK, StepInv, StartRecover, Go, tree, locks
<1>1. TypeOK' /\ AuthorityInv' /\ StepInv'
  BY DEF AuthorityInv
<1>2. CreatorInv' /\ LivenessInv' /\ NameInv'
  BY DEF AuthorityInv, CreatorInv, LivenessInv, NameInv
<1>3. ContentInv' /\ EvidenceReachable' /\ DiskEvidenceInv'
  BY DEF AuthorityInv, CreatorInv, LivenessInv, NameInv, ContentInv,
         EvidenceReachable, DiskEvidenceInv
<1> QED BY <1>1, <1>2, <1>3

\* StartComplete preserves IndInv.
LEMMA StartCompleteStep ==
  ASSUME IndInv, NEW p \in Procs, StartComplete(p)
  PROVE  IndInv'
<1> USE ConstantsAssumption DEF IndInv, TypeOK, StepInv, StartComplete, Go, tree, locks
<1>1. TypeOK' /\ AuthorityInv' /\ StepInv'
  BY DEF AuthorityInv
<1>2. CreatorInv' /\ LivenessInv' /\ NameInv'
  BY DEF AuthorityInv, CreatorInv, LivenessInv, NameInv
<1>3. ContentInv' /\ EvidenceReachable' /\ DiskEvidenceInv'
  BY DEF AuthorityInv, CreatorInv, LivenessInv, NameInv, ContentInv,
         EvidenceReachable, DiskEvidenceInv
<1> QED BY <1>1, <1>2, <1>3

\* ChangeEvidence preserves IndInv.
LEMMA ChangeEvidenceStep ==
  ASSUME IndInv, NEW p \in Procs, ChangeEvidence(p)
  PROVE  IndInv'
<1> USE ConstantsAssumption DEF IndInv
<1>1. run[p] \in RunIDs
  BY DEF StepInv, ChangeEvidence
<1>2. /\ \A r \in RunIDs : entries[r] \cap LockFiles \subseteq entries'[r]
      /\ \A r \in RunIDs : (\A c \in diskEntries[r] : LockFiles \subseteq c)
                             => \A c \in diskEntries'[r] : LockFiles \subseteq c
      /\ \A r \in RunIDs \ {run[p]} : entries'[r] = entries[r]
      /\ "evidence" \in entries'[run[p]] => pc[p] \in {"live", "retained"}
      /\ TypeOK'
  BY <1>1, SetEvidenceEffect DEF TypeOK, ChangeEvidence, locks
<1> USE DEF TypeOK, StepInv, ChangeEvidence, locks
<1>3. AuthorityInv' /\ StepInv'
  BY <1>2 DEF AuthorityInv
<1>4. CreatorInv' /\ LivenessInv' /\ NameInv'
  BY <1>2 DEF AuthorityInv, CreatorInv, LivenessInv, NameInv
<1>5. ContentInv'
  <2> SUFFICES ASSUME NEW q \in Procs PROVE ContentInv!(q)'
    BY DEF ContentInv
  <2>1. (pc'[q] # pc[q] => pc'[q] \in {"lock", "abort"}) /\ run'[q] = run[q]
    OBVIOUS
  <2>2. pc[q] \in Staging => "evidence" \notin entries'[run[q]]
    <3> SUFFICES ASSUME pc[q] \in Staging PROVE "evidence" \notin entries'[run[q]]
      OBVIOUS
    <3>1. run[q] \in RunIDs /\ "evidence" \notin entries[run[q]]
      BY DEF ContentInv
    <3>2. CASE run[q] # run[p]
      BY <1>2, <3>1, <3>2
    <3>3. CASE run[q] = run[p]
      BY <1>2, <3>1, <3>3 DEF CreatorInv
    <3> QED BY <3>2, <3>3
  <2>3. /\ pc'[q] = "makeRecovery" => "liveness.lock" \in entries'[run'[q]]
        /\ pc'[q] \in {"syncStaging", "publish", "syncPublished", "live", "retained",
                       "awaitRecovery"} => LockFiles \subseteq entries'[run'[q]]
    <3>1. pc'[q] \in {"makeRecovery", "syncStaging", "publish", "syncPublished", "live",
                    "retained", "awaitRecovery"} => run[q] \in RunIDs /\ pc'[q] = pc[q]
      BY <2>1
    <3>2. run[q] \in RunIDs => \A e \in LockFiles :
            e \in entries[run[q]] => e \in entries'[run[q]]
      BY <1>2
    <3> QED BY <2>1, <3>1, <3>2 DEF ContentInv
  <2>4. /\ pc'[q] \in {"publish", "syncPublished", "live", "retained"} =>
             \A c \in diskEntries'[run'[q]] : LockFiles \subseteq c
        /\ pc'[q] \in {"live", "retained"} => diskName'[run'[q]] = {"published"}
    BY <1>2, <2>1 DEF ContentInv
  <2> QED BY <2>1, <2>2, <2>3, <2>4
<1>6. EvidenceReachable' /\ DiskEvidenceInv'
  BY <1>1, <1>2 DEF SetEvidence, AuthorityInv, CreatorInv, LivenessInv, NameInv, ContentInv,
         EvidenceReachable, DiskEvidenceInv
<1> QED BY <1>2, <1>3, <1>4, <1>5, <1>6

\* CloseLive preserves IndInv.
LEMMA CloseLiveStep ==
  ASSUME IndInv, NEW p \in Procs, CloseLive(p)
  PROVE  IndInv'
<1> USE ConstantsAssumption DEF IndInv, TypeOK, StepInv, CloseLive, ReleaseRunLocks, Return, tree
<1>1. TypeOK' /\ AuthorityInv' /\ StepInv'
  BY DEF AuthorityInv
<1>2. CreatorInv' /\ LivenessInv' /\ NameInv'
  BY DEF AuthorityInv, CreatorInv, LivenessInv, NameInv
<1>3. ContentInv' /\ EvidenceReachable' /\ DiskEvidenceInv'
  BY DEF AuthorityInv, CreatorInv, LivenessInv, NameInv, ContentInv,
         EvidenceReachable, DiskEvidenceInv
<1> QED BY <1>1, <1>2, <1>3

\* RetainLiveness preserves IndInv.
LEMMA RetainLivenessStep ==
  ASSUME IndInv, NEW p \in Procs, RetainLiveness(p)
  PROVE  IndInv'
<1> USE ConstantsAssumption DEF IndInv, TypeOK, StepInv, RetainLiveness, Go, tree, locks
<1>1. TypeOK' /\ AuthorityInv' /\ StepInv'
  BY DEF AuthorityInv
<1>2. CreatorInv' /\ LivenessInv' /\ NameInv'
  BY DEF AuthorityInv, CreatorInv, LivenessInv, NameInv
<1>3. ContentInv' /\ EvidenceReachable' /\ DiskEvidenceInv'
  BY DEF AuthorityInv, CreatorInv, LivenessInv, NameInv, ContentInv,
         EvidenceReachable, DiskEvidenceInv
<1> QED BY <1>1, <1>2, <1>3

\* ReleaseRetained preserves IndInv.
LEMMA ReleaseRetainedStep ==
  ASSUME IndInv, NEW p \in Procs, ReleaseRetained(p)
  PROVE  IndInv'
<1> USE ConstantsAssumption DEF IndInv, TypeOK, StepInv, ReleaseRetained, ReleaseRunLocks, Return, tree
<1>1. TypeOK' /\ AuthorityInv' /\ StepInv'
  BY DEF AuthorityInv
<1>2. CreatorInv' /\ LivenessInv' /\ NameInv'
  BY DEF AuthorityInv, CreatorInv, LivenessInv, NameInv
<1>3. ContentInv' /\ EvidenceReachable' /\ DiskEvidenceInv'
  BY DEF AuthorityInv, CreatorInv, LivenessInv, NameInv, ContentInv,
         EvidenceReachable, DiskEvidenceInv
<1> QED BY <1>1, <1>2, <1>3

\* Fault preserves IndInv.
LEMMA FaultStep ==
  ASSUME IndInv, NEW p \in Procs, Fault(p)
  PROVE  IndInv'
<1> USE ConstantsAssumption DEF IndInv, TypeOK, StepInv, Fault, Mishap, Go, ReleaseRunLocks, tree, locks
<1>1. TypeOK' /\ AuthorityInv' /\ StepInv'
  BY DEF AuthorityInv
<1>2. CreatorInv' /\ NameInv'
  BY DEF AuthorityInv, CreatorInv, NameInv
<1>3. LivenessInv'
  <2> SUFFICES ASSUME NEW q \in Procs,
                      Owner(q)' \/ pc'[q] \in {"publish", "syncPublished"}
               PROVE  liveness'[run'[q]] = q
    BY DEF LivenessInv
  <2>1. Owner(q) \/ pc[q] \in {"publish", "syncPublished"}
    OBVIOUS
  <2>2. liveness[run[q]] = q /\ run[q] \in RunIDs /\ run'[q] = run[q]
    BY <2>1 DEF LivenessInv
  <2>3. \A r \in RunIDs : liveness[r] # p => liveness'[r] = liveness[r]
    <3>1. UNCHANGED liveness \/ ReleaseRunLocks(p)
      BY DEF Fault
    <3> QED BY <3>1 DEF ReleaseRunLocks
  <2>4. CASE q # p
    BY <2>2, <2>3, <2>4
  <2>5. CASE q = p
    <3>1. UNCHANGED liveness
      BY <2>5
    <3> QED BY <2>2, <3>1
  <2> QED BY <2>4, <2>5
<1>4. ContentInv' /\ EvidenceReachable' /\ DiskEvidenceInv'
  BY DEF AuthorityInv, CreatorInv, LivenessInv, NameInv, ContentInv,
         EvidenceReachable, DiskEvidenceInv
<1> QED BY <1>1, <1>2, <1>3, <1>4

\* Crash preserves IndInv.
LEMMA CrashStep ==
  ASSUME IndInv, NEW p \in Procs, Crash(p)
  PROVE  IndInv'
<1> USE ConstantsAssumption DEF IndInv, TypeOK, StepInv, Crash, Mishap, ReleaseRunLocks, Return, tree
<1>1. TypeOK' /\ AuthorityInv' /\ StepInv'
  BY DEF AuthorityInv
<1>2. CreatorInv' /\ LivenessInv' /\ NameInv'
  BY DEF AuthorityInv, CreatorInv, LivenessInv, NameInv
<1>3. ContentInv' /\ EvidenceReachable' /\ DiskEvidenceInv'
  BY DEF AuthorityInv, CreatorInv, LivenessInv, NameInv, ContentInv,
         EvidenceReachable, DiskEvidenceInv
<1> QED BY <1>1, <1>2, <1>3

\* A power loss leaves an image of the disk, with nobody running.
LEMMA LosePowerStep ==
  ASSUME IndInv, LosePower
  PROVE  IndInv'
<1> USE ConstantsAssumption DEF IndInv, TypeOK, StepInv, LosePower
<1>1. TypeOK'
  <2>1. PICK n \in [RunIDs -> UNION {diskName[r] : r \in RunIDs}],
             c \in [RunIDs -> UNION {{{}} \cup diskEntries[r] : r \in RunIDs}] :
          /\ \A r \in RunIDs : n[r] \in diskName[r]
          /\ \A r \in RunIDs :
               IF n[r] = "none" THEN c[r] = {} ELSE c[r] \in diskEntries[r]
          /\ name' = n /\ entries' = c
          /\ diskName' = [r \in RunIDs |-> {n[r]}]
          /\ diskEntries' = [r \in RunIDs |-> {c[r]}]
    OBVIOUS
  <2>2. \A r \in RunIDs : n[r] \in Names /\ c[r] \in SUBSET Entries
    BY <2>1
  <2>3. name' \in [RunIDs -> Names] /\ entries' \in [RunIDs -> SUBSET Entries]
    <3>1. name' = [r \in RunIDs |-> n[r]] /\ entries' = [r \in RunIDs |-> c[r]]
      BY <2>1
    <3> QED BY <2>2, <3>1
  <2>4. /\ diskName' \in [RunIDs -> SUBSET Names]
        /\ diskEntries' \in [RunIDs -> SUBSET (SUBSET Entries)]
    <3>1. \A r \in RunIDs : {n[r]} \in SUBSET Names /\ {c[r]} \in SUBSET (SUBSET Entries)
      BY <2>2
    <3> QED BY <2>1, <3>1
  <2> QED BY <2>3, <2>4
<1>2. AuthorityInv' /\ StepInv'
  BY DEF AuthorityInv
<1>3. CreatorInv' /\ LivenessInv' /\ NameInv'
  BY DEF CreatorInv, LivenessInv, NameInv
<1>4. ContentInv' /\ EvidenceReachable' /\ DiskEvidenceInv'
  BY DEF ContentInv, EvidenceReachable, DiskEvidenceInv
<1> QED BY <1>1, <1>2, <1>3, <1>4

\* Nothing changes.
LEMMA StutterStep ==
  ASSUME IndInv, UNCHANGED vars
  PROVE  IndInv'
<1> USE DEF vars
<1>1. TypeOK' /\ AuthorityInv' /\ StepInv'
  BY DEF IndInv, TypeOK, AuthorityInv, StepInv
<1>2. CreatorInv' /\ LivenessInv' /\ NameInv'
  BY DEF IndInv, CreatorInv, LivenessInv, NameInv
<1>3. ContentInv' /\ EvidenceReachable' /\ DiskEvidenceInv'
  BY DEF IndInv, ContentInv, EvidenceReachable, DiskEvidenceInv
<1> QED BY <1>1, <1>2, <1>3 DEF IndInv

\* A host where no run was ever created satisfies IndInv.
LEMMA InitIndInv == Init => IndInv
<1> SUFFICES ASSUME Init PROVE IndInv
  OBVIOUS
<1> USE ConstantsAssumption DEF Init
<1>1. TypeOK
  BY DEF TypeOK
<1>2. AuthorityInv /\ StepInv /\ CreatorInv /\ LivenessInv /\ NameInv
  BY DEF AuthorityInv, StepInv, CreatorInv, LivenessInv, NameInv
<1>3. ContentInv /\ EvidenceReachable /\ DiskEvidenceInv
  BY DEF ContentInv, EvidenceReachable, DiskEvidenceInv
<1> QED BY <1>1, <1>2, <1>3 DEF IndInv

\* Every step of every process, and a power loss, preserve IndInv.
LEMMA NextIndInv == IndInv /\ [Next]_vars => IndInv'
<1> SUFFICES ASSUME IndInv, [Next]_vars PROVE IndInv'
  OBVIOUS
<1>1. ASSUME NEW p \in Procs, Work(p) PROVE IndInv'
  BY <1>1,
     OpenAuthorityStep, LockAuthorityStep, LockTimesOutStep,
     UnlinkLivenessStep, UnlinkRecoveryStep, RemoveDirectoryStep,
     SyncRemovedStep, MakeStagingStep, MakeLivenessStep, MakeRecoveryStep,
     SyncStagingStep, PublishStep, SyncPublishedStep, UnpublishStep,
     LockRecoveryStep, CompleteTimesOutStep, SweepTemporaryStep,
     SnapshotPublishedStep, ClaimRunStep, RecoverDoneStep, OpenRecoveryStep,
     TryRecoveryStep, OpenLivenessStep, TryLivenessStep,
     ReturnClaimErrorStep, RestartPassStep, RecoverOwnersStep, IsolateStep,
     RefuseRemovalStep, SyncIsolatedStep, CloseLeaseStep, AbortStep
  DEF Work
<1>2. ASSUME NEW p \in Procs, Caller(p) PROVE IndInv'
  BY <1>2,
     StartCreateStep, StartRecoverStep, StartCompleteStep,
     ChangeEvidenceStep, CloseLiveStep, RetainLivenessStep,
     ReleaseRetainedStep
  DEF Caller
<1>3. CASE LosePower
  BY <1>3, LosePowerStep
<1>4. CASE UNCHANGED vars
  BY <1>4, StutterStep
<1> QED BY <1>1, <1>2, <1>3, <1>4, FaultStep, CrashStep DEF Next

-----------------------------------------------------------------------------
(* What a power loss leaves of a root can be claimed                       *)

\* The conjuncts of IndInv that say what the disk may show.
LEMMA DurableFacts ==
  ASSUME IndInv
  PROVE  /\ name \in [RunIDs -> Names] /\ entries \in [RunIDs -> SUBSET Entries]
         /\ diskName \in [RunIDs -> SUBSET Names]
         /\ diskEntries \in [RunIDs -> SUBSET (SUBSET Entries)]
         /\ pc \in [Procs -> Steps] /\ run \in [Procs -> RunIDs \cup {NoRun}]
         /\ mishaps \in Nat
BY ConstantsAssumption DEF IndInv, TypeOK

\* The process moves on from a step other than the sync of an isolation.
Moves(p) ==
  /\ pc[p] # "syncIsolated"
  /\ pc'[p] # "unpublish"
  /\ \A q \in Procs \ {p} : pc'[q] = pc[q] /\ run'[q] = run[q]

\* A step that leaves names and contents on disk alone.
LEMMA KeptDurable ==
  ASSUME IndInv, DurableInv, NEW p \in Procs, Moves(p),
         UNCHANGED <<name, diskName, diskEntries, mishaps>>
  PROVE  DurableInv'
BY DEF DurableInv, DurablyClaimable, Moves

\* The directory of the authority is synced.
LEMMA SyncDurable ==
  ASSUME IndInv, DurableInv, NEW p \in Procs, pc'[p] # "unpublish",
         \A q \in Procs \ {p} : pc'[q] = pc[q],
         SyncAuthority, UNCHANGED <<name, diskEntries, mishaps>>
  PROVE  DurableInv'
<1>1. \A r \in RunIDs : diskName'[r] = {name[r]}
  BY DEF SyncAuthority
<1> QED BY <1>1 DEF DurableInv, DurablyClaimable

\* A root gets a name, with both lock files on disk if it is published, and is
\* not one that the disk may show as published otherwise.
LEMMA NamedDurable ==
  ASSUME IndInv, DurableInv, NEW p \in Procs, Moves(p), NEW r \in RunIDs, NEW n \in Names,
         SetName(r, n), UNCHANGED <<diskEntries, mishaps>>,
         mishaps = 0 =>
           \/ n = "published" /\ \A c \in diskEntries[r] : LockFiles \subseteq c
           \/ n # "published" /\ "published" \notin diskName[r]
           \/ n # "published" /\ pc'[p] = "syncIsolated" /\ run'[p] = r
  PROVE  DurableInv'
<1>1. /\ name'[r] = n /\ diskName'[r] = diskName[r] \cup {n}
      /\ \A s \in RunIDs \ {r} : name'[s] = name[s] /\ diskName'[s] = diskName[s]
  BY DurableFacts DEF SetName
<1>2. \A s \in RunIDs : name'[s] \in diskName'[s]
  BY <1>1 DEF DurableInv
<1> SUFFICES ASSUME mishaps = 0
             PROVE  /\ \A q \in Procs : pc'[q] # "unpublish"
                    /\ \A s \in RunIDs : "published" \in diskName'[s] =>
                         /\ \A c \in diskEntries[s] : LockFiles \subseteq c
                         /\ \/ name'[s] = "published"
                            \/ \E q \in Procs : pc'[q] = "syncIsolated" /\ run'[q] = s
  BY <1>2 DEF DurableInv, DurablyClaimable
<1>3. \A q \in Procs : pc'[q] # "unpublish"
  BY DEF DurableInv, Moves
<1>4. ASSUME NEW s \in RunIDs \ {r}, "published" \in diskName'[s]
      PROVE  /\ \A c \in diskEntries[s] : LockFiles \subseteq c
             /\ \/ name'[s] = "published"
                \/ \E q \in Procs : pc'[q] = "syncIsolated" /\ run'[q] = s
  BY <1>1, <1>4 DEF DurableInv, DurablyClaimable, Moves
<1>5. ASSUME "published" \in diskName'[r]
      PROVE  /\ \A c \in diskEntries[r] : LockFiles \subseteq c
             /\ \/ name'[r] = "published"
                \/ \E q \in Procs : pc'[q] = "syncIsolated" /\ run'[q] = r
  <2>1. CASE n = "published" /\ \A c \in diskEntries[r] : LockFiles \subseteq c
    BY <1>1, <2>1
  <2>2. CASE n # "published" /\ "published" \notin diskName[r]
    BY <1>1, <1>5, <2>2
  <2>3. CASE n # "published" /\ pc'[p] = "syncIsolated" /\ run'[p] = r
    <3>1. "published" \in diskName[r]
      BY <1>1, <1>5, <2>3
    <3> QED BY <2>3, <3>1 DEF DurableInv, DurablyClaimable
  <2> QED BY <2>1, <2>2, <2>3
<1> QED BY <1>3, <1>4, <1>5

\* The contents of a root change: no lock file goes that the disk needs.
LEMMA ContentsDurable ==
  ASSUME IndInv, DurableInv, NEW p \in Procs, Moves(p), NEW r \in RunIDs,
         \A s \in RunIDs \ {r} : diskEntries'[s] = diskEntries[s],
         UNCHANGED <<name, diskName, mishaps>>,
         \/ \A c \in diskEntries'[r] : LockFiles \subseteq c
         \/ \A c \in diskEntries'[r] : \E d \in diskEntries[r] : d \cap LockFiles \subseteq c
         \/ mishaps = 0 => "published" \notin diskName[r]
  PROVE  DurableInv'
<1> SUFFICES ASSUME mishaps = 0, NEW s \in RunIDs, "published" \in diskName[s]
             PROVE  \A c \in diskEntries'[s] : LockFiles \subseteq c
  BY DEF DurableInv, DurablyClaimable, Moves
<1>1. \A c \in diskEntries[s] : LockFiles \subseteq c
  BY DEF DurableInv, DurablyClaimable
<1>2. CASE s # r
  BY <1>1, <1>2
<1>3. CASE s = r
  BY <1>1, <1>3
<1> QED BY <1>2, <1>3

\* removeUnpublished empties a root that the disk does not show as published:
\* only a root whose isolation is not synced yet has such a disk, and who syncs
\* it holds the authority lock.
LEMMA EmptyingDurable ==
  ASSUME IndInv, DurableInv, NEW p \in Procs,
         pc[p] \in {"unlinkLiveness", "unlinkRecovery", "rmdir"}, mishaps = 0
  PROVE  run[p] \in RunIDs /\ "published" \notin diskName[run[p]]
<1>1. run[p] \in RunIDs
  BY DEF IndInv, StepInv
<1>2. name[run[p]] # "published"
  BY DEF IndInv, NameInv
<1>3. \A q \in Procs : pc[q] # "syncIsolated"
  BY DEF IndInv, AuthorityInv
<1> QED BY <1>1, <1>2, <1>3 DEF DurableInv

\* Steps that change no directory.
LEMMA UnchangedTreeDurable ==
  ASSUME IndInv, DurableInv, NEW p \in Procs,
         \/ LockAuthority(p) \/ LockTimesOut(p) \/ StartCreate(p) \/ CloseLive(p)
         \/ RetainLiveness(p) \/ ReleaseRetained(p) \/ StartComplete(p) \/ LockRecovery(p)
         \/ CompleteTimesOut(p) \/ StartRecover(p) \/ SweepTemporary(p) \/ SnapshotPublished(p)
         \/ ClaimRun(p) \/ RecoverDone(p) \/ OpenRecovery(p) \/ TryRecovery(p)
         \/ OpenLiveness(p) \/ TryLiveness(p) \/ ReturnClaimError(p) \/ RestartPass(p)
         \/ RefuseRemoval(p) \/ CloseLease(p) \/ Abort(p)
  PROVE  DurableInv'
<1>1. CASE LockAuthority(p)
  BY <1>1, KeptDurable, DurableFacts DEF Moves, tree, LockAuthority, Go, LockedStep
<1>2. CASE LockTimesOut(p)
  BY <1>2, KeptDurable, DurableFacts DEF Moves, tree, LockTimesOut, Go
<1>3. CASE StartCreate(p)
  BY <1>3, KeptDurable, DurableFacts DEF Moves, tree, StartCreate, Go
<1>4. CASE CloseLive(p)
  BY <1>4, KeptDurable, DurableFacts DEF Moves, tree, CloseLive, Return
<1>5. CASE RetainLiveness(p)
  BY <1>5, KeptDurable, DurableFacts DEF Moves, tree, RetainLiveness, Go
<1>6. CASE ReleaseRetained(p)
  BY <1>6, KeptDurable, DurableFacts DEF Moves, tree, ReleaseRetained, Return
<1>7. CASE StartComplete(p)
  BY <1>7, KeptDurable, DurableFacts DEF Moves, tree, StartComplete, Go
<1>8. CASE LockRecovery(p)
  BY <1>8, KeptDurable, DurableFacts DEF Moves, tree, LockRecovery, Go
<1>9. CASE CompleteTimesOut(p)
  BY <1>9, KeptDurable, DurableFacts DEF Moves, tree, CompleteTimesOut, Go
<1>10. CASE StartRecover(p)
  BY <1>10, KeptDurable, DurableFacts DEF Moves, tree, StartRecover, Go
<1>11. CASE SweepTemporary(p)
  BY <1>11, KeptDurable, DurableFacts DEF Moves, tree, SweepTemporary, Go
<1>12. CASE SnapshotPublished(p)
  BY <1>12, KeptDurable, DurableFacts DEF Moves, tree, SnapshotPublished, Go
<1>13. CASE ClaimRun(p)
  BY <1>13, KeptDurable, DurableFacts DEF Moves, tree, ClaimRun, Go
<1>14. CASE RecoverDone(p)
  BY <1>14, KeptDurable, DurableFacts DEF Moves, tree, RecoverDone, Return
<1>15. CASE OpenRecovery(p)
  BY <1>15, KeptDurable, DurableFacts DEF Moves, tree, OpenRecovery, Go
<1>16. CASE TryRecovery(p)
  BY <1>16, KeptDurable, DurableFacts DEF Moves, tree, TryRecovery, Go
<1>17. CASE OpenLiveness(p)
  BY <1>17, KeptDurable, DurableFacts DEF Moves, tree, OpenLiveness, Go
<1>18. CASE TryLiveness(p)
  BY <1>18, KeptDurable, DurableFacts DEF Moves, tree, TryLiveness, Go
<1>19. CASE ReturnClaimError(p)
  BY <1>19, KeptDurable, DurableFacts DEF Moves, tree, ReturnClaimError, Return
<1>20. CASE RestartPass(p)
  BY <1>20, KeptDurable, DurableFacts DEF Moves, tree, RestartPass, Go, Return
<1>21. CASE RefuseRemoval(p)
  BY <1>21, KeptDurable, DurableFacts DEF Moves, tree, RefuseRemoval, Go
<1>22. CASE CloseLease(p)
  BY <1>22, KeptDurable, DurableFacts DEF Moves, tree, CloseLease, Go, Return
<1>23. CASE Abort(p)
  BY <1>23, KeptDurable, DurableFacts DEF Moves, tree, Abort, Return
<1> QED BY <1>1, <1>2, <1>3, <1>4, <1>5, <1>6, <1>7, <1>8, <1>9, <1>10, <1>11, <1>12, <1>13, <1>14, <1>15, <1>16, <1>17, <1>18, <1>19, <1>20, <1>21, <1>22, <1>23

\* An operation opens and syncs the authority.
LEMMA OpenAuthorityDurable ==
  ASSUME IndInv, DurableInv, NEW p \in Procs, OpenAuthority(p)
  PROVE  DurableInv'
BY SyncDurable, DurableFacts DEF OpenAuthority, Go

\* A removal is synced.
LEMMA SyncRemovedDurable ==
  ASSUME IndInv, DurableInv, NEW p \in Procs, SyncRemoved(p)
  PROVE  DurableInv'
BY SyncDurable, DurableFacts DEF SyncRemoved, Go

\* A publication is synced.
LEMMA SyncPublishedDurable ==
  ASSUME IndInv, DurableInv, NEW p \in Procs, SyncPublished(p)
  PROVE  DurableInv'
BY SyncDurable, DurableFacts DEF SyncPublished, Go

\* An isolation is synced.
LEMMA SyncIsolatedDurable ==
  ASSUME IndInv, DurableInv, NEW p \in Procs, SyncIsolated(p)
  PROVE  DurableInv'
BY SyncDurable, DurableFacts DEF SyncIsolated, Go

\* A staging directory is made.
LEMMA MakeStagingDurable ==
  ASSUME IndInv, DurableInv, NEW p \in Procs, MakeStaging(p)
  PROVE  DurableInv'
<1>1. run[p] \in RunIDs
  BY DEF IndInv, StepInv, MakeStaging
<1>2. Moves(p) /\ SetName(run[p], "staging") /\ UNCHANGED <<diskEntries, mishaps>>
  BY DurableFacts DEF Moves, MakeStaging, Go
<1>3. mishaps = 0 => "published" \notin diskName[run[p]]
  <2>1. name[run[p]] = "none" /\ \A q \in Procs : pc[q] # "syncIsolated"
    BY DEF IndInv, NameInv, AuthorityInv, MakeStaging
  <2> QED BY <1>1, <2>1 DEF DurableInv
<1> QED BY <1>1, <1>2, <1>3, NamedDurable

\* A staged root is published.
LEMMA PublishDurable ==
  ASSUME IndInv, DurableInv, NEW p \in Procs, Publish(p)
  PROVE  DurableInv'
<1>1. run[p] \in RunIDs
  BY DEF IndInv, StepInv, Publish
<1>2. Moves(p) /\ SetName(run[p], "published") /\ UNCHANGED <<diskEntries, mishaps>>
  BY DurableFacts DEF Moves, Publish, Go
<1>3. \A c \in diskEntries[run[p]] : LockFiles \subseteq c
  BY DEF IndInv, ContentInv, Publish
<1> QED BY <1>1, <1>2, <1>3, NamedDurable

\* A claimed root is isolated.
LEMMA IsolateDurable ==
  ASSUME IndInv, DurableInv, NEW p \in Procs, Isolate(p)
  PROVE  DurableInv'
<1>1. run[p] \in RunIDs
  BY DEF IndInv, StepInv, Isolate
<1>2. Moves(p) /\ SetName(run[p], "removing") /\ UNCHANGED <<diskEntries, mishaps>>
  BY DurableFacts DEF Moves, Isolate, Go
<1>3. pc'[p] = "syncIsolated" /\ run'[p] = run[p]
  BY DurableFacts DEF Isolate, Go
<1> QED BY <1>1, <1>2, <1>3, NamedDurable

\* An emptied root is removed.
LEMMA RemoveDirectoryDurable ==
  ASSUME IndInv, DurableInv, NEW p \in Procs, RemoveDirectory(p)
  PROVE  DurableInv'
<1>1. run[p] \in RunIDs
  BY DEF IndInv, StepInv, RemoveDirectory
<1>2. Moves(p) /\ SetName(run[p], "none") /\ UNCHANGED <<diskEntries, mishaps>>
  BY DurableFacts DEF Moves, RemoveDirectory, Go
<1>3. mishaps = 0 => "published" \notin diskName[run[p]]
  BY EmptyingDurable DEF RemoveDirectory
<1> QED BY <1>1, <1>2, <1>3, NamedDurable

\* A publication is undone, after a failed call.
LEMMA UnpublishDurable ==
  ASSUME IndInv, DurableInv, NEW p \in Procs, Unpublish(p)
  PROVE  DurableInv'
<1>1. run[p] \in RunIDs
  BY DEF IndInv, StepInv, Unpublish
<1>2. Moves(p) /\ SetName(run[p], "staging") /\ UNCHANGED <<diskEntries, mishaps>>
  BY DurableFacts DEF Moves, Unpublish, Go
<1>3. mishaps # 0
  BY DEF DurableInv, Unpublish
<1> QED BY <1>1, <1>2, <1>3, NamedDurable

\* A lock file is created.
LEMMA MakeLivenessDurable ==
  ASSUME IndInv, DurableInv, NEW p \in Procs, MakeLiveness(p)
  PROVE  DurableInv'
<1>1. run[p] \in RunIDs
  BY DEF IndInv, StepInv, MakeLiveness
<1>2. Moves(p) /\ UNCHANGED <<name, diskName, mishaps>>
  BY DurableFacts DEF Moves, MakeLiveness, Go
<1>3. /\ diskEntries'[run[p]] = diskEntries[run[p]] \cup {c \cup {"liveness.lock"} : c \in diskEntries[run[p]]}
      /\ \A s \in RunIDs \ {run[p]} : diskEntries'[s] = diskEntries[s]
  BY <1>1, DurableFacts DEF MakeLiveness, AddEntry
<1>4. \A c \in diskEntries'[run[p]] : \E d \in diskEntries[run[p]] : d \cap LockFiles \subseteq c
  BY <1>3
<1> QED BY <1>1, <1>2, <1>3, <1>4, ContentsDurable

\* The other lock file is created.
LEMMA MakeRecoveryDurable ==
  ASSUME IndInv, DurableInv, NEW p \in Procs, MakeRecovery(p)
  PROVE  DurableInv'
<1>1. run[p] \in RunIDs
  BY DEF IndInv, StepInv, MakeRecovery
<1>2. Moves(p) /\ UNCHANGED <<name, diskName, mishaps>>
  BY DurableFacts DEF Moves, MakeRecovery, Go
<1>3. /\ diskEntries'[run[p]] = diskEntries[run[p]] \cup {c \cup {"recovery.lock"} : c \in diskEntries[run[p]]}
      /\ \A s \in RunIDs \ {run[p]} : diskEntries'[s] = diskEntries[s]
  BY <1>1, DurableFacts DEF MakeRecovery, AddEntry
<1>4. \A c \in diskEntries'[run[p]] : \E d \in diskEntries[run[p]] : d \cap LockFiles \subseteq c
  BY <1>3
<1> QED BY <1>1, <1>2, <1>3, <1>4, ContentsDurable

\* A lock file is unlinked.
LEMMA UnlinkLivenessDurable ==
  ASSUME IndInv, DurableInv, NEW p \in Procs, UnlinkLiveness(p)
  PROVE  DurableInv'
<1>1. run[p] \in RunIDs
  BY DEF IndInv, StepInv, UnlinkLiveness
<1>2. Moves(p) /\ UNCHANGED <<name, diskName, mishaps>>
  BY DurableFacts DEF Moves, UnlinkLiveness, Go
<1>3. \A s \in RunIDs \ {run[p]} : diskEntries'[s] = diskEntries[s]
  BY <1>1, DurableFacts DEF UnlinkLiveness, DropEntry
<1>4. mishaps = 0 => "published" \notin diskName[run[p]]
  BY EmptyingDurable DEF UnlinkLiveness
<1> QED BY <1>1, <1>2, <1>3, <1>4, ContentsDurable

\* The other lock file is unlinked.
LEMMA UnlinkRecoveryDurable ==
  ASSUME IndInv, DurableInv, NEW p \in Procs, UnlinkRecovery(p)
  PROVE  DurableInv'
<1>1. run[p] \in RunIDs
  BY DEF IndInv, StepInv, UnlinkRecovery
<1>2. Moves(p) /\ UNCHANGED <<name, diskName, mishaps>>
  BY DurableFacts DEF Moves, UnlinkRecovery, Go
<1>3. \A s \in RunIDs \ {run[p]} : diskEntries'[s] = diskEntries[s]
  BY <1>1, DurableFacts DEF UnlinkRecovery, DropEntry
<1>4. mishaps = 0 => "published" \notin diskName[run[p]]
  BY EmptyingDurable DEF UnlinkRecovery
<1> QED BY <1>1, <1>2, <1>3, <1>4, ContentsDurable

\* The lock files are synced.
LEMMA SyncStagingDurable ==
  ASSUME IndInv, DurableInv, NEW p \in Procs, SyncStaging(p)
  PROVE  DurableInv'
<1>1. run[p] \in RunIDs
  BY DEF IndInv, StepInv, SyncStaging
<1>2. Moves(p) /\ UNCHANGED <<name, diskName, mishaps>>
  BY DurableFacts DEF Moves, SyncStaging, Go
<1>3. /\ diskEntries'[run[p]] = {entries[run[p]]}
      /\ \A s \in RunIDs \ {run[p]} : diskEntries'[s] = diskEntries[s]
  BY <1>1, DurableFacts DEF SyncStaging
<1>4. LockFiles \subseteq entries[run[p]]
  BY DEF IndInv, ContentInv, SyncStaging
<1>5. \A c \in diskEntries'[run[p]] : LockFiles \subseteq c
  BY <1>3, <1>4
<1> QED BY <1>1, <1>2, <1>3, <1>5, ContentsDurable

\* Evidence comes and goes beside the lock files.
LEMMA EvidenceDurable ==
  ASSUME IndInv, DurableInv, NEW p \in Procs, Moves(p), NEW r \in RunIDs,
         NEW E \in SUBSET {"evidence"}, SetEvidence(r, E),
         UNCHANGED <<name, diskName, mishaps>>
  PROVE  DurableInv'
<1>1. /\ diskEntries'[r] = {(c \cap LockFiles) \cup E : c \in diskEntries[r]}
      /\ \A s \in RunIDs \ {r} : diskEntries'[s] = diskEntries[s]
  BY DurableFacts DEF SetEvidence
<1>2. \A c \in diskEntries'[r] : \E d \in diskEntries[r] : d \cap LockFiles \subseteq c
  BY <1>1
<1> QED BY <1>1, <1>2, ContentsDurable

\* The owners of a live run change their evidence.
LEMMA ChangeEvidenceDurable ==
  ASSUME IndInv, DurableInv, NEW p \in Procs, ChangeEvidence(p)
  PROVE  DurableInv'
<1>1. run[p] \in RunIDs
  BY DEF IndInv, StepInv, ChangeEvidence
<1>2. Moves(p) /\ UNCHANGED <<name, diskName, mishaps>>
  BY DurableFacts DEF Moves, ChangeEvidence
<1>3. \/ SetEvidence(run[p], {"evidence"}) \/ SetEvidence(run[p], {})
      \/ UNCHANGED diskEntries
  BY DEF ChangeEvidence
<1> QED BY <1>1, <1>2, <1>3, EvidenceDurable, KeptDurable

\* The owners recover, or fail.
LEMMA RecoverOwnersDurable ==
  ASSUME IndInv, DurableInv, NEW p \in Procs, RecoverOwners(p)
  PROVE  DurableInv'
<1>1. run[p] \in RunIDs
  BY DEF IndInv, StepInv, RecoverOwners
<1>2. Moves(p) /\ UNCHANGED <<name, diskName, mishaps>>
  BY DurableFacts DEF Moves, RecoverOwners, Go
<1>3. \/ SetEvidence(run[p], {"evidence"}) \/ SetEvidence(run[p], {})
      \/ UNCHANGED diskEntries
  BY DEF RecoverOwners
<1> QED BY <1>1, <1>2, <1>3, EvidenceDurable, KeptDurable

\* A call fails, which is a mishap.
LEMMA FaultDurable ==
  ASSUME IndInv, DurableInv, NEW p \in Procs, Fault(p)
  PROVE  DurableInv'
<1>1. mishaps' # 0 /\ UNCHANGED <<name, diskName>>
  BY DurableFacts DEF Fault, Mishap, tree
<1> QED BY <1>1 DEF DurableInv, DurablyClaimable

\* So is the death of a process.
LEMMA CrashDurable ==
  ASSUME IndInv, DurableInv, NEW p \in Procs, Crash(p)
  PROVE  DurableInv'
<1>1. mishaps' # 0 /\ UNCHANGED <<name, diskName>>
  BY DurableFacts DEF Crash, Mishap, tree
<1> QED BY <1>1 DEF DurableInv, DurablyClaimable

\* The host loses power: each root is one that the disk could show.
LEMMA LosePowerDurable ==
  ASSUME IndInv, DurableInv, LosePower
  PROVE  DurableInv'
<1>1. PICK n \in [RunIDs -> UNION {diskName[r] : r \in RunIDs}],
           c \in [RunIDs -> UNION {{{}} \cup diskEntries[r] : r \in RunIDs}] :
        /\ \A r \in RunIDs : n[r] \in diskName[r]
        /\ \A r \in RunIDs : IF n[r] = "none" THEN c[r] = {} ELSE c[r] \in diskEntries[r]
        /\ name' = n
        /\ diskName' = [r \in RunIDs |-> {n[r]}]
        /\ diskEntries' = [r \in RunIDs |-> {c[r]}]
  BY DEF LosePower
<1>2. \A r \in RunIDs : name'[r] = n[r] /\ diskName'[r] = {n[r]} /\ diskEntries'[r] = {c[r]}
  BY <1>1
<1>3. mishaps' = mishaps /\ \A p \in Procs : pc'[p] = "idle"
  BY DEF LosePower
<1>4. ASSUME mishaps = 0, NEW r \in RunIDs, "published" \in diskName'[r]
      PROVE  name'[r] = "published" /\ \A d \in diskEntries'[r] : LockFiles \subseteq d
  BY <1>1, <1>2, <1>4 DEF DurableInv, DurablyClaimable
<1> QED BY <1>2, <1>3, <1>4 DEF DurableInv, DurablyClaimable

\* An empty host.
LEMMA InitDurable == Init => DurableInv
BY DEF Init, DurableInv, DurablyClaimable

\* Every step keeps what the disk may show claimable.
LEMMA NextDurable == IndInv /\ DurableInv /\ [Next]_vars => DurableInv'
<1> SUFFICES ASSUME IndInv, DurableInv, [Next]_vars PROVE DurableInv'
  OBVIOUS
<1>1. ASSUME NEW p \in Procs, Work(p) PROVE DurableInv'
  BY <1>1, UnchangedTreeDurable, OpenAuthorityDurable, UnlinkLivenessDurable,
     UnlinkRecoveryDurable, RemoveDirectoryDurable, SyncRemovedDurable, MakeStagingDurable,
     MakeLivenessDurable, MakeRecoveryDurable, SyncStagingDurable, PublishDurable,
     SyncPublishedDurable, UnpublishDurable, RecoverOwnersDurable, IsolateDurable,
     SyncIsolatedDurable
     DEF Work
<1>2. ASSUME NEW p \in Procs, Caller(p) PROVE DurableInv'
  BY <1>2, UnchangedTreeDurable, ChangeEvidenceDurable DEF Caller
<1>3. CASE UNCHANGED vars
  BY <1>3 DEF vars, DurableInv, DurablyClaimable
<1> QED BY <1>1, <1>2, <1>3, FaultDurable, CrashDurable, LosePowerDurable DEF Next

-----------------------------------------------------------------------------
(* The theorems                                                            *)

\* IndInv holds in every reachable state of rundirectory, whatever fails.
THEOREM Invariance == Spec => []IndInv
<1> QED BY InitIndInv, NextIndInv, PTL DEF Spec

\* Every variable keeps its type, so that no operation of rundirectory leaves
\* its steps, and no root gets an entry other than lock files and evidence.
THEOREM TypeCorrect == Spec => []TypeOK
<1>1. IndInv => TypeOK
  BY DEF IndInv
<1> QED BY <1>1, Invariance, PTL

\* Two processes never own the same run: the liveness lock has one holder,
\* and IndInv says that every owner holds it.
THEOREM Exclusive == Spec => []ExclusiveOwnership
<1>1. IndInv => ExclusiveOwnership
  <2> SUFFICES ASSUME IndInv, NEW p \in Procs, NEW q \in Procs, run[p] = run[q],
                      Live(p) \/ Recovering(p), Live(q) \/ Recovering(q)
               PROVE  p = q
    BY DEF ExclusiveOwnership
  <2>1. ASSUME NEW s \in Procs, Live(s) \/ Recovering(s)
        PROVE  liveness[run[s]] = s
    BY <2>1 DEF IndInv, TypeOK, StepInv, LivenessInv, Live, Recovering
  <2> QED BY <2>1
<1> QED BY <1>1, Invariance, PTL

\* A live or retained run keeps its published root, its lock files and its
\* liveness lock, whatever the other processes recover or sweep.
THEOREM ActiveUntouched == Spec => []ActiveRunUntouched
<1>1. IndInv => ActiveRunUntouched
  BY DEF IndInv, StepInv, LivenessInv, NameInv, ContentInv, ActiveRunUntouched
<1> QED BY <1>1, Invariance, PTL

\* Evidence of unfinished owners is never hidden from recovery, not even by
\* a power loss between two steps of publication or removal.
THEOREM EvidenceKept == Spec => []EvidenceReachable
<1>1. IndInv => EvidenceReachable
  BY DEF IndInv
<1> QED BY <1>1, Invariance, PTL

\* Whenever only power is lost, a root that the disk may show as published can be
\* claimed by the next recovery (syncPublishedFiles, removeClaimedRun).
THEOREM DurablyClaimed == Spec => []DurablyClaimable
<1>1. DurableInv => DurablyClaimable
  BY DEF DurableInv
<1> QED BY <1>1, InitDurable, NextDurable, Invariance, PTL DEF Spec

=============================================================================
