--------------------------- MODULE BlobStoreProofs ---------------------------
(***************************************************************************)
(* Proofs of the invariants of BlobStore for any set of threads, chunks    *)
(* and manifests and any bound on failures.                                *)
(*                                                                         *)
(* Two facts carry them: a file under its hash never disappears, and a row *)
(* marked present never goes back.  TasksOK says what a thread in the      *)
(* middle of an operation holds.                                           *)
(***************************************************************************)
EXTENDS BlobStore, TLAPS

TasksOK ==
  \A t \in Thread :
    /\ at[t] \in PutSteps => key[t] \in Hash
    /\ at[t] \in DocSteps => doc[t] \in Manifest
    /\ at[t] \in {"count", "update"} => doc[t] \in saved
    /\ at[t] = "scan" <=> conn = t

TypeInv == TypeOK /\ TasksOK

USE ChunksAssumption, MayPutAssumption, FaultsAssumption, NoneAssumption

LEMMA InitTypeInv == Init => TypeInv
BY DEF Init, TypeInv, TypeOK, TasksOK, FileState, PutSteps, DocSteps

\* Every step keeps the type invariant and what the threads hold.
LEMMA NextTypeInv == TypeInv /\ [Next]_vars => TypeInv'
<1> SUFFICES ASSUME TypeInv, [Next]_vars PROVE TypeInv'
  OBVIOUS
<1> USE DEF TypeInv, TypeOK, TasksOK, FileState, PutSteps, DocSteps,
            fileVars, rowVars, lockVars
<1>1. ASSUME NEW t \in Thread, NEW h \in Hash, PutBegin(t, h) PROVE TypeInv'
  BY <1>1 DEF PutBegin, OnDisk
<1>2. ASSUME NEW t \in Thread, PutOpen(t) PROVE TypeInv'
  BY <1>2 DEF PutOpen
<1>3. ASSUME NEW t \in Thread, PutWrite(t) PROVE TypeInv'
  BY <1>3 DEF PutWrite
<1>4. ASSUME NEW t \in Thread, PutRename(t) PROVE TypeInv'
  BY <1>4 DEF PutRename, Renamed
<1>5. ASSUME NEW t \in Thread, PutRenameFails(t) PROVE TypeInv'
  BY <1>5 DEF PutRenameFails
<1>6. ASSUME NEW t \in Thread, PutMark(t) PROVE TypeInv'
  BY <1>6 DEF PutMark
<1>7. ASSUME NEW t \in Thread, NEW m \in Manifest, SaveBegin(t, m) PROVE TypeInv'
  BY <1>7 DEF SaveBegin
<1>8. ASSUME NEW t \in Thread, NEW m \in Manifest, RefreshBegin(t, m) PROVE TypeInv'
  BY <1>8 DEF RefreshBegin
<1>9. ASSUME NEW t \in Thread, SaveScan(t) PROVE TypeInv'
  BY <1>9 DEF SaveScan
<1>10. ASSUME NEW t \in Thread, SaveCommit(t) PROVE TypeInv'
  BY <1>10 DEF SaveCommit
<1>11. ASSUME NEW t \in Thread, RefreshCount(t) PROVE TypeInv'
  BY <1>11 DEF RefreshCount
<1>12. ASSUME NEW t \in Thread, RefreshUpdate(t) PROVE TypeInv'
  BY <1>12 DEF RefreshUpdate
<1>13. ASSUME NEW t \in Thread, Fail(t) PROVE TypeInv'
  BY <1>13 DEF Fail
<1>14. CASE Crash
  BY <1>14 DEF Crash, OperationsEnd
<1>15. CASE UNCHANGED vars
  BY <1>15 DEF vars
<1> QED
  BY <1>1, <1>2, <1>3, <1>4, <1>5, <1>6, <1>7, <1>8, <1>9, <1>10, <1>11, <1>12,
     <1>13, <1>14, <1>15 DEF Next, ThreadStep

\* Every variable keeps its type, and a thread in the middle of an operation
\* always knows the chunk or the manifest it works on.
THEOREM TypeCorrect == Spec => [](TypeOK /\ TasksOK)
<1>1. Init => TypeInv
  BY InitTypeInv
<1>2. TypeInv /\ [Next]_vars => TypeInv'
  BY NextTypeInv
<1>3. TypeInv => TypeOK /\ TasksOK
  BY DEF TypeInv
<1> QED
  BY <1>1, <1>2, <1>3, PTL DEF Spec

-----------------------------------------------------------------------------
(* Marks follow files *)

\* Whoever is about to mark a chunk, or has scanned it as present, has seen its
\* file; a count of zero missing chunks stays right until it is stored.
MarksOK ==
  /\ \A t \in Thread : at[t] = "mark" => OnDisk(key[t])
  /\ \A h \in found : OnDisk(h)
  /\ \A t \in Thread :
       at[t] = "update" /\ t \in nothingMissing => ChunksOf[doc[t]] \subseteq present[doc[t]]

CompleteMarked == \A m \in complete : ChunksOf[m] \subseteq present[m]

DiskInv == TypeInv /\ MarksOK /\ PresentOnDisk /\ CompleteMarked

LEMMA InitDiskInv == Init => DiskInv
<1> SUFFICES ASSUME Init PROVE DiskInv
  OBVIOUS
<1>1. TypeInv
  BY InitTypeInv
<1> QED
  BY <1>1 DEF Init, DiskInv, MarksOK, PresentOnDisk, CompleteMarked

\* No step removes a file from under its hash.
LEMMA FilesStay ==
  ASSUME TypeInv, [Next]_vars, NEW h \in Hash, OnDisk(h)
  PROVE  OnDisk(h)'
<1> USE DEF TypeInv, TypeOK, TasksOK, FileState, PutSteps, OnDisk, fileVars
<1>1. ASSUME NEW t \in Thread, PutWrite(t) PROVE OnDisk(h)'
  BY <1>1 DEF PutWrite
<1>2. ASSUME NEW t \in Thread, PutRename(t) PROVE OnDisk(h)'
  BY <1>2 DEF PutRename
<1>3. ASSUME UNCHANGED blobFile PROVE OnDisk(h)'
  BY <1>3
<1> QED
  BY <1>1, <1>2, <1>3 DEF Next, ThreadStep, vars, PutBegin, PutOpen, PutRenameFails,
     PutMark, SaveBegin, SaveScan, SaveCommit, RefreshBegin, RefreshCount,
     RefreshUpdate, Fail, Crash, OperationsEnd

\* No step takes a mark back from a row that exists.
LEMMA MarksStay ==
  ASSUME TypeInv, [Next]_vars, NEW m \in saved
  PROVE  m \in saved' /\ present[m] \subseteq present'[m]
<1> USE DEF TypeInv, TypeOK, TasksOK, PutSteps, DocSteps, rowVars
<1>1. ASSUME NEW t \in Thread, PutMark(t)
      PROVE  m \in saved' /\ present[m] \subseteq present'[m]
  BY <1>1 DEF PutMark
<1>2. ASSUME NEW t \in Thread, SaveCommit(t)
      PROVE  m \in saved' /\ present[m] \subseteq present'[m]
  BY <1>2 DEF SaveCommit
<1>3. ASSUME UNCHANGED <<saved, present>>
      PROVE  m \in saved' /\ present[m] \subseteq present'[m]
  BY <1>3
<1> QED
  BY <1>1, <1>2, <1>3 DEF Next, ThreadStep, vars, PutBegin, PutOpen, PutWrite,
     PutRename, PutRenameFails, SaveBegin, SaveScan, RefreshBegin, RefreshCount,
     RefreshUpdate, Fail, Crash, OperationsEnd

\* The marks, the scan in progress and the stored counts stay covered by files.
LEMMA NextDiskInv == DiskInv /\ [Next]_vars => DiskInv'
<1> SUFFICES ASSUME DiskInv, [Next]_vars PROVE DiskInv'
  OBVIOUS
<1>1. TypeInv /\ TypeInv'
  BY NextTypeInv DEF DiskInv
<1>2. \A h \in Hash : OnDisk(h) => OnDisk(h)'
  BY FilesStay DEF DiskInv
<1>3. \A m \in saved : m \in saved' /\ present[m] \subseteq present'[m]
  BY MarksStay DEF DiskInv
<1> USE <1>1, <1>2, <1>3 DEF DiskInv, TypeInv, TypeOK, TasksOK, FileState, PutSteps,
        DocSteps, MarksOK, PresentOnDisk, CompleteMarked, fileVars, rowVars, lockVars
<1>4. ASSUME NEW t \in Thread, NEW h \in Hash, PutBegin(t, h) PROVE DiskInv'
  BY <1>4 DEF PutBegin, OnDisk
<1>5. ASSUME NEW t \in Thread, PutOpen(t) \/ PutWrite(t) PROVE DiskInv'
  BY <1>5 DEF PutOpen, PutWrite
<1>6. ASSUME NEW t \in Thread, PutRename(t) PROVE DiskInv'
  BY <1>6 DEF PutRename, OnDisk
<1>7. ASSUME NEW t \in Thread, PutRenameFails(t) PROVE DiskInv'
  BY <1>7 DEF PutRenameFails
<1>8. ASSUME NEW t \in Thread, PutMark(t) PROVE DiskInv'
  BY <1>8 DEF PutMark
<1>9. ASSUME NEW t \in Thread, NEW m \in Manifest, SaveBegin(t, m) \/ RefreshBegin(t, m)
      PROVE  DiskInv'
  BY <1>9 DEF SaveBegin, RefreshBegin
<1>10. ASSUME NEW t \in Thread, SaveScan(t) PROVE DiskInv'
  BY <1>10 DEF SaveScan
<1>11. ASSUME NEW t \in Thread, SaveCommit(t) PROVE DiskInv'
  BY <1>11 DEF SaveCommit
<1>12. ASSUME NEW t \in Thread, RefreshCount(t) PROVE DiskInv'
  BY <1>12 DEF RefreshCount
<1>13. ASSUME NEW t \in Thread, RefreshUpdate(t) PROVE DiskInv'
  BY <1>13 DEF RefreshUpdate
<1>14. ASSUME NEW t \in Thread, Fail(t) PROVE DiskInv'
  BY <1>14 DEF Fail
<1>15. CASE Crash
  BY <1>15 DEF Crash, OperationsEnd
<1>16. CASE UNCHANGED vars
  BY <1>16 DEF vars, OnDisk
<1> QED
  BY <1>4, <1>5, <1>6, <1>7, <1>8, <1>9, <1>10, <1>11, <1>12, <1>13, <1>14, <1>15,
     <1>16 DEF Next, ThreadStep

\* A row marked present has its chunk's file, after any crash or failure.
THEOREM MarksAreOnDisk == Spec => []PresentOnDisk
<1>1. DiskInv => PresentOnDisk
  BY DEF DiskInv
<1> QED
  BY <1>1, InitDiskInv, NextDiskInv, PTL DEF Spec

\* A manifest marked complete has every chunk's file, however the two statements
\* of refresh_manifest_complete interleave with the other threads.
THEOREM CompleteIsOnDisk == Spec => []CompleteOnDisk
<1>1. DiskInv => CompleteOnDisk
  BY DEF DiskInv, TypeInv, TypeOK, PresentOnDisk, CompleteMarked, CompleteOnDisk
<1> QED
  BY <1>1, InitDiskInv, NextDiskInv, PTL DEF Spec

-----------------------------------------------------------------------------
(* No mark is lost while nothing fails *)

BeingMarked(h) == \E u \in Thread : at[u] = "mark" /\ key[u] = h

\* A chunk that the open transaction has scanned and not found may appear before
\* the commit; its writer then waits for the mutex to mark it.
ScanCovered ==
  faults = 0 =>
    \A t \in Thread : at[t] = "scan" =>
      \A h \in ChunksOf[doc[t]] \ (unscanned \cup found) : OnDisk(h) => BeingMarked(h)

\* A descriptor is open only while its thread writes, and one that a rename has
\* moved is on a file that is there.
DescriptorsOK ==
  \A t \in Thread :
    /\ at[t] # "write" => fd[t] = "none"
    /\ fd[t] = "blob" => OnDisk(key[t])

MarkInv == TypeInv /\ DescriptorsOK /\ ScanCovered /\ NoLostMark

LEMMA InitMarkInv == Init => MarkInv
<1> SUFFICES ASSUME Init PROVE MarkInv
  OBVIOUS
<1>1. TypeInv
  BY InitTypeInv
<1> QED
  BY <1>1 DEF Init, MarkInv, DescriptorsOK, ScanCovered, NoLostMark

\* A writer leaves "mark" only when no transaction is open, and then marks every
\* row of its chunk at once.
LEMMA NextMarkInv == MarkInv /\ [Next]_vars => MarkInv'
<1> SUFFICES ASSUME MarkInv, [Next]_vars PROVE MarkInv'
  OBVIOUS
<1>1. TypeInv /\ TypeInv'
  BY NextTypeInv DEF MarkInv
<1> USE <1>1 DEF MarkInv, TypeInv, TypeOK, TasksOK, FileState, PutSteps, DocSteps,
        DescriptorsOK, ScanCovered, NoLostMark, BeingMarked, OnDisk, fileVars, rowVars, lockVars
<1>4. ASSUME NEW t \in Thread, NEW h \in Hash, PutBegin(t, h) PROVE MarkInv'
  BY <1>4 DEF PutBegin
<1>5. ASSUME NEW t \in Thread, PutOpen(t) PROVE MarkInv'
  BY <1>5 DEF PutOpen
<1>6. ASSUME NEW t \in Thread, PutWrite(t) PROVE MarkInv'
  BY <1>6 DEF PutWrite
<1>7. ASSUME NEW t \in Thread, PutRename(t) PROVE MarkInv'
  BY <1>7 DEF PutRename, Renamed
<1>8. ASSUME NEW t \in Thread, PutRenameFails(t) PROVE MarkInv'
  BY <1>8 DEF PutRenameFails
<1>9. ASSUME NEW t \in Thread, PutMark(t) PROVE MarkInv'
  BY <1>9 DEF PutMark
<1>10. ASSUME NEW t \in Thread, NEW m \in Manifest, SaveBegin(t, m) PROVE MarkInv'
  BY <1>10 DEF SaveBegin
<1>11. ASSUME NEW t \in Thread, NEW m \in Manifest, RefreshBegin(t, m) PROVE MarkInv'
  BY <1>11 DEF RefreshBegin
<1>12. ASSUME NEW t \in Thread, SaveScan(t) PROVE MarkInv'
  BY <1>12 DEF SaveScan
<1>13. ASSUME NEW t \in Thread, SaveCommit(t) PROVE MarkInv'
  BY <1>13 DEF SaveCommit
<1>14. ASSUME NEW t \in Thread, RefreshCount(t) \/ RefreshUpdate(t) PROVE MarkInv'
  BY <1>14 DEF RefreshCount, RefreshUpdate
<1>15. ASSUME NEW t \in Thread, Fail(t) PROVE MarkInv'
  BY <1>15 DEF Fail
<1>16. CASE Crash
  BY <1>16 DEF Crash, OperationsEnd
<1>17. CASE UNCHANGED vars
  BY <1>17 DEF vars
<1> QED
  BY <1>4, <1>5, <1>6, <1>7, <1>8, <1>9, <1>10, <1>11, <1>12, <1>13, <1>14, <1>15,
     <1>16, <1>17 DEF Next, ThreadStep

\* While nothing has failed, every saved row of a chunk on disk is marked or a
\* thread is about to mark it.
THEOREM MarksAreNotLost == Spec => []NoLostMark
<1>1. MarkInv => NoLostMark
  BY DEF MarkInv
<1> QED
  BY <1>1, InitMarkInv, NextMarkInv, PTL DEF Spec

-----------------------------------------------------------------------------
(* Chunks with one writer are whole *)

\* A writer's descriptor stays on its own .partial file, and what it renames it
\* has just written in full.
WriterInv ==
  /\ TypeInv
  /\ \A t \in Thread :
       /\ at[t] \in PutSteps => key[t] \in MayPut[t]
       /\ at[t] # "write" => fd[t] = "none"
       /\ at[t] = "write" /\ SoleWriter(key[t]) => fd[t] = "tmp"
       /\ at[t] = "rename" /\ SoleWriter(key[t]) => tmpFile[key[t]] = "full"
  /\ SoleWritersPlaceWholeBlobs

LEMMA InitWriterInv == Init => WriterInv
<1> SUFFICES ASSUME Init PROVE WriterInv
  OBVIOUS
<1>1. TypeInv
  BY InitTypeInv
<1> QED
  BY <1>1 DEF Init, WriterInv, SoleWritersPlaceWholeBlobs, PutSteps

LEMMA NextWriterInv == WriterInv /\ [Next]_vars => WriterInv'
<1> SUFFICES ASSUME WriterInv, [Next]_vars PROVE WriterInv'
  OBVIOUS
<1>1. TypeInv /\ TypeInv'
  BY NextTypeInv DEF WriterInv
<1>2. \A t, u \in Thread :
        /\ t # u /\ at[t] \in PutSteps /\ at[u] \in PutSteps /\ key[t] = key[u]
        => ~SoleWriter(key[t])
  BY DEF SoleWriter, WriterInv
<1> USE <1>1, <1>2 DEF WriterInv, TypeInv, TypeOK, TasksOK, FileState, PutSteps, DocSteps,
        SoleWritersPlaceWholeBlobs, fileVars, rowVars, lockVars
<1>4. ASSUME NEW t \in Thread, NEW h \in Hash, PutBegin(t, h) PROVE WriterInv'
  BY <1>4 DEF PutBegin
<1>5. ASSUME NEW t \in Thread, PutOpen(t) PROVE WriterInv'
  BY <1>5 DEF PutOpen
<1>6. ASSUME NEW t \in Thread, PutWrite(t) PROVE WriterInv'
  BY <1>6 DEF PutWrite
<1>7. ASSUME NEW t \in Thread, PutRename(t) PROVE WriterInv'
  BY <1>7 DEF PutRename, Renamed
<1>8. ASSUME NEW t \in Thread, PutRenameFails(t) PROVE WriterInv'
  BY <1>8 DEF PutRenameFails
<1>9. ASSUME NEW t \in Thread, PutMark(t) PROVE WriterInv'
  BY <1>9 DEF PutMark
<1>10. ASSUME NEW t \in Thread, NEW m \in Manifest, SaveBegin(t, m) PROVE WriterInv'
  BY <1>10 DEF SaveBegin
<1>11. ASSUME NEW t \in Thread, NEW m \in Manifest, RefreshBegin(t, m) PROVE WriterInv'
  BY <1>11 DEF RefreshBegin
<1>12. ASSUME NEW t \in Thread, SaveScan(t) PROVE WriterInv'
  BY <1>12 DEF SaveScan
<1>13. ASSUME NEW t \in Thread, SaveCommit(t) PROVE WriterInv'
  BY <1>13 DEF SaveCommit
<1>14. ASSUME NEW t \in Thread, RefreshCount(t) \/ RefreshUpdate(t) PROVE WriterInv'
  BY <1>14 DEF RefreshCount, RefreshUpdate
<1>15. ASSUME NEW t \in Thread, Fail(t) PROVE WriterInv'
  BY <1>15 DEF Fail
<1>16. CASE Crash
  BY <1>16 DEF Crash, OperationsEnd
<1>17. CASE UNCHANGED vars
  BY <1>17 DEF vars
<1> QED
  BY <1>4, <1>5, <1>6, <1>7, <1>8, <1>9, <1>10, <1>11, <1>12, <1>13, <1>14, <1>15,
     <1>16, <1>17 DEF Next, ThreadStep

\* A chunk that only one thread places is never torn, whatever crashes: the
\* exclusive use of the .partial name is all that is missing for the others.
THEOREM SoleWriters == Spec => []SoleWritersPlaceWholeBlobs
<1>1. WriterInv => SoleWritersPlaceWholeBlobs
  BY DEF WriterInv
<1> QED
  BY <1>1, InitWriterInv, NextWriterInv, PTL DEF Spec

-----------------------------------------------------------------------------
(* The store implements ChunkStore *)

\* An open transaction inserts only chunks of its own manifest.
ScanKnown ==
  \A t \in Thread : at[t] = "scan" => unscanned \cup found \subseteq ChunksOf[doc[t]]

StoreInv == DiskInv /\ MarkInv /\ ScanKnown

LEMMA InitStoreInv == Init => StoreInv
BY InitDiskInv, InitMarkInv DEF Init, StoreInv, ScanKnown

LEMMA NextStoreInv == StoreInv /\ [Next]_vars => StoreInv'
<1> SUFFICES ASSUME StoreInv, [Next]_vars PROVE ScanKnown'
  BY NextDiskInv, NextMarkInv DEF StoreInv
<1> USE DEF StoreInv, DiskInv, TypeInv, TypeOK, TasksOK, PutSteps, DocSteps, ScanKnown, lockVars
<1>1. ASSUME NEW t \in Thread, NEW m \in Manifest, SaveBegin(t, m) PROVE ScanKnown'
  BY <1>1 DEF SaveBegin
<1>2. ASSUME NEW t \in Thread, SaveScan(t) PROVE ScanKnown'
  BY <1>2 DEF SaveScan
<1>3. ASSUME NEW t \in Thread, SaveCommit(t) PROVE ScanKnown'
  BY <1>3 DEF SaveCommit
<1>4. ASSUME NEW t \in Thread, Fail(t) PROVE ScanKnown'
  BY <1>4 DEF Fail
<1>5. CASE Crash
  BY <1>5 DEF Crash, OperationsEnd
<1>6. ASSUME NEW t \in Thread, NEW h \in Hash, PutBegin(t, h) PROVE ScanKnown'
  BY <1>6 DEF PutBegin
<1>7. ASSUME NEW t \in Thread,
             PutOpen(t) \/ PutWrite(t) \/ PutRename(t) \/ PutRenameFails(t) \/ PutMark(t)
      PROVE  ScanKnown'
  BY <1>7 DEF PutOpen, PutWrite, PutRename, PutRenameFails, PutMark
<1>8. ASSUME NEW t \in Thread, NEW m \in Manifest, RefreshBegin(t, m) PROVE ScanKnown'
  BY <1>8 DEF RefreshBegin
<1>9. ASSUME NEW t \in Thread, RefreshCount(t) \/ RefreshUpdate(t) PROVE ScanKnown'
  BY <1>9 DEF RefreshCount, RefreshUpdate
<1>10. CASE UNCHANGED vars
  BY <1>10 DEF vars
<1> QED
  BY <1>1, <1>2, <1>3, <1>4, <1>5, <1>6, <1>7, <1>8, <1>9, <1>10 DEF Next, ThreadStep

\* The chunks on disk, and those of them that a thread is about to mark.
Disk == {h \in Hash : OnDisk(h)}
Placed == {key[t] : t \in {u \in Thread : at[u] = "mark"}}

\* A thread that neither comes to "mark" nor leaves it changes nothing in Placed.
LEMMA PlacedByOthers ==
  ASSUME TypeInv, NEW t \in Thread, at[t] # "mark", at'[t] # "mark",
         \A u \in Thread \ {t} : at'[u] = at[u] /\ key'[u] = key[u]
  PROVE  Placed' = Placed
BY DEF Placed

\* The same for the files, in a step that leaves them alone.
LEMMA DiskUntouched == ASSUME UNCHANGED blobFile PROVE Disk' = Disk
BY DEF Disk, OnDisk

\* Each step of a thread is one step of the abstract store, or none: what a thread
\* does before it has renamed its file, and while its transaction is open, is not seen.
LEMMA StoresChunks == StoreInv /\ [Next]_vars => [Store!Next]_(Store!vars)
<1> SUFFICES ASSUME StoreInv, [Next]_vars PROVE [Store!Next]_(Store!vars)
  OBVIOUS
<1> DEFINE Step == [Store!Next]_(Store!vars)
<1> USE DEF StoreInv, DiskInv, TypeInv, TypeOK, TasksOK, FileState, PutSteps, DocSteps,
            fileVars, rowVars, lockVars
<1>s. ASSUME Disk' = Disk, Placed' = Placed, UNCHANGED <<saved, present, complete, faults>>
      PROVE  Step
  BY <1>s DEF Store!vars, Disk, Placed
<1>p. ASSUME NEW h \in Hash, Disk' = Disk \cup {h}, Placed' = Placed \cup {h},
             UNCHANGED <<saved, present, complete, faults>>
      PROVE  Step
  <2>1. Store!Place(h)
    BY <1>p DEF Store!Place, Disk, Placed
  <2> QED
    BY <2>1 DEF Store!Next
<1>f. ASSUME Disk' = Disk, Placed' \subseteq Placed, faults' = faults + 1,
             UNCHANGED <<saved, present, complete>>
      PROVE  Step
  <2>1. (faults > 0)'
    BY <1>f
  <2>2. Store!Fail
    BY <1>f, <2>1 DEF Store!Fail, Disk, Placed
  <2> QED
    BY <2>2 DEF Store!Next
<1>1. ASSUME NEW t \in Thread, NEW h \in Hash, PutBegin(t, h) PROVE Step
  <2>1. Disk' = Disk
    BY <1>1, DiskUntouched DEF PutBegin
  <2>2. CASE OnDisk(h)
    <3>1. Disk' = Disk \cup {h}
      BY <2>1, <2>2 DEF Disk
    <3>2. at'[t] = "mark" /\ key'[t] = h /\ at[t] # "mark"
      BY <1>1, <2>2 DEF PutBegin
    <3>3. \A u \in Thread \ {t} : at'[u] = at[u] /\ key'[u] = key[u]
      BY <1>1 DEF PutBegin
    <3>4. Placed' = Placed \cup {h}
      BY <3>2, <3>3 DEF Placed
    <3> QED
      BY <1>1, <1>p, <3>1, <3>4 DEF PutBegin
  <2>3. CASE ~OnDisk(h)
    <3>1. Placed' = Placed
      BY <1>1, <2>3, PlacedByOthers DEF PutBegin
    <3> QED
      BY <1>1, <1>s, <2>1, <3>1 DEF PutBegin
  <2> QED
    BY <2>2, <2>3
<1>2. ASSUME NEW t \in Thread, PutOpen(t) PROVE Step
  <2>1. Disk' = Disk
    BY <1>2, DiskUntouched DEF PutOpen
  <2>2. Placed' = Placed
    BY <1>2, PlacedByOthers DEF PutOpen
  <2> QED
    BY <1>2, <1>s, <2>1, <2>2 DEF PutOpen
<1>3. ASSUME NEW t \in Thread, PutWrite(t) PROVE Step
  <2>1. Disk' = Disk
    BY <1>3 DEF PutWrite, Disk, OnDisk, MarkInv, DescriptorsOK
  <2>2. Placed' = Placed
    BY <1>3, PlacedByOthers DEF PutWrite
  <2> QED
    BY <1>3, <1>s, <2>1, <2>2 DEF PutWrite
<1>4. ASSUME NEW t \in Thread, PutRename(t) PROVE Step
  <2>1. Disk' = Disk \cup {key[t]}
    BY <1>4 DEF PutRename, Disk, OnDisk
  <2>2. Placed' = Placed \cup {key[t]}
    BY <1>4 DEF PutRename, Placed
  <2> QED
    BY <1>4, <1>p, <2>1, <2>2 DEF PutRename
<1>5. ASSUME NEW t \in Thread, PutRenameFails(t) PROVE Step
  <2>1. Disk' = Disk
    BY <1>5, DiskUntouched DEF PutRenameFails
  <2>2. Placed' = Placed
    BY <1>5, PlacedByOthers DEF PutRenameFails
  <2> QED
    BY <1>5, <1>s, <2>1, <2>2 DEF PutRenameFails
<1>6. ASSUME NEW t \in Thread, PutMark(t) PROVE Step
  <2>1. Disk' = Disk
    BY <1>6, DiskUntouched DEF PutMark
  <2>2. PICK h \in Placed : h \in Hash /\ h = key[t]
    BY <1>6 DEF PutMark, Placed
  <2>3. \A u \in Thread \ {t} : at'[u] = at[u] /\ key'[u] = key[u]
    BY <1>6 DEF PutMark
  <2>4. Placed \ {h} \subseteq Placed' /\ Placed' \subseteq Placed
    BY <1>6, <2>2, <2>3 DEF PutMark, Placed
  <2>5. Store!Mark(h)
    BY <1>6, <2>1, <2>2, <2>4 DEF PutMark, Store!Mark, Disk, Placed
  <2> QED
    BY <2>2, <2>5 DEF Store!Next
<1>7. ASSUME NEW t \in Thread, NEW m \in Manifest, SaveBegin(t, m) \/ RefreshBegin(t, m)
      PROVE  Step
  <2>1. Disk' = Disk
    BY <1>7, DiskUntouched DEF SaveBegin, RefreshBegin
  <2>2. Placed' = Placed
    BY <1>7, PlacedByOthers DEF SaveBegin, RefreshBegin
  <2> QED
    BY <1>7, <1>s, <2>1, <2>2 DEF SaveBegin, RefreshBegin
<1>8. ASSUME NEW t \in Thread, SaveScan(t) PROVE Step
  <2>1. Disk' = Disk
    BY <1>8, DiskUntouched DEF SaveScan
  <2>2. Placed' = Placed
    BY <1>8 DEF SaveScan, Placed
  <2> QED
    BY <1>8, <1>s, <2>1, <2>2 DEF SaveScan
<1>9. ASSUME NEW t \in Thread, SaveCommit(t) PROVE Step
  <2>1. Disk' = Disk
    BY <1>9, DiskUntouched DEF SaveCommit
  <2>2. Placed' = Placed
    BY <1>9, PlacedByOthers DEF SaveCommit
  <2>3. CASE doc[t] \in saved
    BY <1>9, <1>s, <2>1, <2>2, <2>3 DEF SaveCommit
  <2>4. CASE doc[t] \notin saved
    <3>1. doc[t] \in Manifest /\ found \subseteq ChunksOf[doc[t]] \cap Disk
      BY <1>9 DEF SaveCommit, ScanKnown, MarksOK, Disk
    <3>2. ~(faults > 0) => (ChunksOf[doc[t]] \cap Disk) \ Placed \subseteq found
      <4> SUFFICES ASSUME faults = 0, NEW h \in ChunksOf[doc[t]], OnDisk(h), h \notin Placed
                   PROVE  h \in found
        BY <3>1 DEF Disk
      <4>1. ~BeingMarked(h)
        BY DEF BeingMarked, Placed
      <4> QED
        BY <1>9, <4>1 DEF SaveCommit, MarkInv, ScanCovered
    <3>3. Store!Save(doc[t])
      BY <1>9, <2>1, <2>2, <2>4, <3>1, <3>2 DEF SaveCommit, Store!Save, Disk, Placed
    <3> QED
      BY <3>1, <3>3 DEF Store!Next
  <2> QED
    BY <2>3, <2>4
<1>10. ASSUME NEW t \in Thread, RefreshCount(t) PROVE Step
  <2>1. Disk' = Disk
    BY <1>10, DiskUntouched DEF RefreshCount
  <2>2. Placed' = Placed
    BY <1>10, PlacedByOthers DEF RefreshCount
  <2> QED
    BY <1>10, <1>s, <2>1, <2>2 DEF RefreshCount
<1>11. ASSUME NEW t \in Thread, RefreshUpdate(t) PROVE Step
  <2>1. Disk' = Disk
    BY <1>11, DiskUntouched DEF RefreshUpdate
  <2>2. Placed' = Placed
    BY <1>11, PlacedByOthers DEF RefreshUpdate
  <2>3. doc[t] \in Manifest /\ doc[t] \in saved
    BY <1>11 DEF RefreshUpdate
  <2>4. CASE t \in nothingMissing
    <3>1. Store!Complete(doc[t])
      BY <1>11, <2>1, <2>2, <2>3, <2>4 DEF RefreshUpdate, Store!Complete, MarksOK, Disk, Placed
    <3> QED
      BY <2>3, <3>1 DEF Store!Next
  <2>5. CASE t \notin nothingMissing
    <3>1. Store!Doubt(doc[t])
      BY <1>11, <2>1, <2>2, <2>3, <2>5 DEF RefreshUpdate, Store!Doubt, Disk, Placed
    <3> QED
      BY <2>3, <3>1 DEF Store!Next
  <2> QED
    BY <2>4, <2>5
<1>12. ASSUME NEW t \in Thread, Fail(t) PROVE Step
  <2>1. Disk' = Disk
    BY <1>12, DiskUntouched DEF Fail
  <2>2. Placed' \subseteq Placed
    BY <1>12 DEF Fail, Placed
  <2> QED
    BY <1>12, <2>1, <2>2, <1>f DEF Fail
<1>13. CASE Crash
  <2>1. Disk' = Disk
    BY <1>13, DiskUntouched DEF Crash
  <2>2. Placed' \subseteq Placed
    BY <1>13 DEF Crash, OperationsEnd, Placed
  <2> QED
    BY <1>13, <2>1, <2>2, <1>f DEF Crash
<1>14. CASE UNCHANGED vars
  <2>1. Disk' = Disk /\ Placed' = Placed
    BY <1>14 DEF vars, Disk, OnDisk, Placed
  <2> QED
    BY <1>14, <1>s, <2>1 DEF vars
<1> QED
  BY <1>1, <1>2, <1>3, <1>4, <1>5, <1>6, <1>7, <1>8, <1>9, <1>10, <1>11, <1>12, <1>13,
     <1>14 DEF Next, ThreadStep

\* The interleaved system calls and statements of storage.rs implement the store
\* its callers reason about: no chunk and no mark is ever lost, a mark is made only
\* for a chunk that is there, a save leaves a chunk it misses to the put_blob that
\* is placing it, and complete is set only when everything is marked.
THEOREM StoreKeepsChunks == Spec => KeepsChunks
<1>1. Init => Store!Init
  BY DEF Init, Store!Init, OnDisk
<1> QED
  BY <1>1, InitStoreInv, NextStoreInv, StoresChunks, PTL DEF Spec, KeepsChunks, Store!Spec
==============================================================================
