------------------------------ MODULE BlobStore ------------------------------
(***************************************************************************)
(* The blob half of the store (core/nexus-core/src/storage.rs): chunk      *)
(* files placed by "write a .partial file, then rename", and the rows of   *)
(* manifests and manifest_chunks that say which chunks are on disk.        *)
(*                                                                         *)
(* Threads are the tokio tasks and FFI calls that share one Store.  They   *)
(* interleave at every system call and every acquisition of the connection *)
(* mutex: put_blob holds no lock while it touches the file system, and     *)
(* refresh_manifest_complete takes the mutex twice.                        *)
(***************************************************************************)
EXTENDS Naturals

CONSTANTS
  Thread,     \* concurrent users of one Store
  Hash,       \* BLAKE3 hashes of chunks
  Manifest,   \* manifest ids
  ChunksOf,   \* the hashes a manifest lists
  MayPut,     \* the chunks a thread may be asked to place
  MaxFaults,  \* bound on process crashes and failed operations
  None        \* no thread, no hash, no manifest

ASSUME ChunksAssumption == ChunksOf \in [Manifest -> SUBSET Hash]
ASSUME MayPutAssumption == MayPut \in [Thread -> SUBSET Hash]
ASSUME FaultsAssumption == MaxFaults \in Nat
ASSUME NoneAssumption == None \notin Thread \cup Hash \cup Manifest

VARIABLES
  tmpFile,    \* <hash>.partial: absent, torn (opened or cut short) or full
  blobFile,   \* <hash>: the same three states
  saved,      \* manifests with a row
  complete,   \* manifests whose row has complete = 1
  present,    \* for each manifest, its chunk rows with present = 1
  conn,       \* the holder of the connection mutex across statements
  unscanned,  \* chunks the open save_manifest transaction has yet to insert
  found,      \* chunks it inserts with present = 1
  at,         \* the next step of each thread
  key,        \* the hash a thread is placing
  doc,        \* the manifest a thread is saving or refreshing
  fd,         \* the directory entry a thread's open .partial file is now under
  nothingMissing,  \* threads whose refresh_manifest_complete has counted zero
  faults      \* crashes and failed operations so far

fileVars  == <<tmpFile, blobFile, fd>>
rowVars   == <<saved, complete, present>>
lockVars  == <<conn, unscanned, found>>
vars == <<fileVars, rowVars, lockVars, at, key, doc, nothingMissing, faults>>

FileState == {"absent", "torn", "full"}
PutSteps  == {"open", "write", "rename", "mark"}
DocSteps  == {"scan", "count", "update"}

TypeOK ==
  /\ tmpFile \in [Hash -> FileState]
  /\ blobFile \in [Hash -> FileState]
  /\ saved \subseteq Manifest
  /\ complete \subseteq saved
  /\ present \in [Manifest -> SUBSET Hash]
  /\ conn \in Thread \cup {None}
  /\ unscanned \subseteq Hash
  /\ found \subseteq Hash
  /\ at \in [Thread -> {"idle"} \cup PutSteps \cup DocSteps]
  /\ key \in [Thread -> Hash \cup {None}]
  /\ doc \in [Thread -> Manifest \cup {None}]
  /\ fd \in [Thread -> {"none", "tmp", "blob", "gone"}]
  /\ nothingMissing \subseteq Thread
  /\ faults \in 0..MaxFaults

\* A new data directory: Store::open creates empty tables and an empty blobs/.
Init ==
  /\ tmpFile = [h \in Hash |-> "absent"]
  /\ blobFile = [h \in Hash |-> "absent"]
  /\ saved = {}
  /\ complete = {}
  /\ present = [m \in Manifest |-> {}]
  /\ conn = None
  /\ unscanned = {}
  /\ found = {}
  /\ at = [t \in Thread |-> "idle"]
  /\ key = [t \in Thread |-> None]
  /\ doc = [t \in Thread |-> None]
  /\ fd = [t \in Thread |-> "none"]
  /\ nothingMissing = {}
  /\ faults = 0

-----------------------------------------------------------------------------
(* put_blob *)

OnDisk(h) == blobFile[h] # "absent"

\* Mutant: a leftover .partial file counts as the chunk being there.
PutBeginTrustsPartial(t, h) ==
  /\ at[t] = "idle"
  /\ h \in MayPut[t]
  /\ at' = [at EXCEPT ![t] = IF OnDisk(h) \/ tmpFile[h] # "absent" THEN "mark" ELSE "open"]
  /\ key' = [key EXCEPT ![t] = h]
  /\ UNCHANGED <<fileVars, rowVars, lockVars, doc, nothingMissing, faults>>

\* Mutant: a leftover .partial file is renamed instead of written again.
PutBeginReusesPartial(t, h) ==
  /\ at[t] = "idle"
  /\ h \in MayPut[t]
  /\ at' = [at EXCEPT ![t] = IF OnDisk(h) THEN "mark"
                             ELSE IF tmpFile[h] # "absent" THEN "rename" ELSE "open"]
  /\ key' = [key EXCEPT ![t] = h]
  /\ UNCHANGED <<fileVars, rowVars, lockVars, doc, nothingMissing, faults>>

\* The content matches its hash (otherwise nothing happens), and path.exists()
\* decides whether a file is written at all.
PutBegin(t, h) ==
  /\ at[t] = "idle"
  /\ h \in MayPut[t]
  /\ at' = [at EXCEPT ![t] = IF OnDisk(h) THEN "mark" ELSE "open"]
  /\ key' = [key EXCEPT ![t] = h]
  /\ UNCHANGED <<fileVars, rowVars, lockVars, doc, nothingMissing, faults>>

\* std::fs::write opens the .partial file, creating or truncating it.
PutOpen(t) ==
  /\ at[t] = "open"
  /\ tmpFile' = [tmpFile EXCEPT ![key[t]] = "torn"]
  /\ fd' = [fd EXCEPT ![t] = "tmp"]
  /\ at' = [at EXCEPT ![t] = "write"]
  /\ UNCHANGED <<blobFile, rowVars, lockVars, key, doc, nothingMissing, faults>>

\* ... and writes the bytes through its descriptor, wherever a rename has moved
\* that file in the meantime, and closes it.
PutWrite(t) ==
  /\ at[t] = "write"
  /\ tmpFile' = IF fd[t] = "tmp" THEN [tmpFile EXCEPT ![key[t]] = "full"] ELSE tmpFile
  /\ blobFile' = IF fd[t] = "blob" THEN [blobFile EXCEPT ![key[t]] = "full"] ELSE blobFile
  /\ fd' = [fd EXCEPT ![t] = "none"]
  /\ at' = [at EXCEPT ![t] = "rename"]
  /\ UNCHANGED <<rowVars, lockVars, key, doc, nothingMissing, faults>>

\* What a rename of h's .partial file does to the descriptors open on it.
Renamed(h) ==
  [t \in Thread |->
     IF key[t] = h /\ fd[t] = "tmp" THEN "blob"
     ELSE IF key[t] = h /\ fd[t] = "blob" THEN "gone"
     ELSE fd[t]]

PutRename(t) ==
  /\ at[t] = "rename"
  /\ tmpFile[key[t]] # "absent"
  /\ blobFile' = [blobFile EXCEPT ![key[t]] = tmpFile[key[t]]]
  /\ tmpFile' = [tmpFile EXCEPT ![key[t]] = "absent"]
  /\ fd' = Renamed(key[t])
  /\ at' = [at EXCEPT ![t] = "mark"]
  /\ UNCHANGED <<rowVars, lockVars, key, doc, nothingMissing, faults>>

\* Another thread has renamed the shared .partial file away: put_blob fails.
PutRenameFails(t) ==
  /\ at[t] = "rename"
  /\ tmpFile[key[t]] = "absent"
  /\ at' = [at EXCEPT ![t] = "idle"]
  /\ key' = [key EXCEPT ![t] = None]
  /\ UNCHANGED <<fileVars, rowVars, lockVars, doc, nothingMissing, faults>>

\* mark_chunk_present: one UPDATE over every row with this hash.
PutMark(t) ==
  /\ at[t] = "mark"
  /\ conn = None
  /\ present' = [m \in Manifest |->
                   IF m \in saved /\ key[t] \in ChunksOf[m]
                   THEN present[m] \cup {key[t]} ELSE present[m]]
  /\ at' = [at EXCEPT ![t] = "idle"]
  /\ key' = [key EXCEPT ![t] = None]
  /\ UNCHANGED <<fileVars, saved, complete, lockVars, doc, nothingMissing, faults>>

-----------------------------------------------------------------------------
(* save_manifest and refresh_manifest_complete *)

\* Mutant: the transaction runs without the mutex.
SaveBeginUnlocked(t, m) ==
  /\ at[t] = "idle"
  /\ conn = None
  /\ unscanned' = ChunksOf[m]
  /\ found' = {}
  /\ at' = [at EXCEPT ![t] = "scan"]
  /\ doc' = [doc EXCEPT ![t] = m]
  /\ UNCHANGED <<fileVars, rowVars, conn, key, nothingMissing, faults>>

\* The mutex is held from here to the commit.
SaveBegin(t, m) ==
  /\ at[t] = "idle"
  /\ conn = None
  /\ conn' = t
  /\ unscanned' = ChunksOf[m]
  /\ found' = {}
  /\ at' = [at EXCEPT ![t] = "scan"]
  /\ doc' = [doc EXCEPT ![t] = m]
  /\ UNCHANGED <<fileVars, rowVars, key, nothingMissing, faults>>

\* One INSERT of the loop: present is whether the blob exists at that moment.
SaveScan(t) ==
  /\ at[t] = "scan"
  /\ \E h \in unscanned :
       /\ unscanned' = unscanned \ {h}
       /\ found' = IF OnDisk(h) THEN found \cup {h} ELSE found
  /\ UNCHANGED <<fileVars, rowVars, conn, at, key, doc, nothingMissing, faults>>

\* Mutant: the chunk rows are committed and the manifest's row is not.
SaveCommitNoRow(t) ==
  /\ at[t] = "scan"
  /\ unscanned = {}
  /\ present' = [present EXCEPT ![doc[t]] = found]
  /\ conn' = None
  /\ found' = {}
  /\ at' = [at EXCEPT ![t] = "count"]
  /\ UNCHANGED <<fileVars, saved, complete, unscanned, key, doc, nothingMissing, faults>>

\* Mutant: the rows of a manifest that is already there are replaced.
SaveCommitReplaces(t) ==
  /\ at[t] = "scan"
  /\ unscanned = {}
  /\ saved' = saved \cup {doc[t]}
  /\ present' = [present EXCEPT ![doc[t]] = found]
  /\ conn' = None
  /\ found' = {}
  /\ at' = [at EXCEPT ![t] = "count"]
  /\ UNCHANGED <<fileVars, complete, unscanned, key, doc, nothingMissing, faults>>

\* INSERT OR IGNORE leaves the rows of a manifest that is already there alone.
SaveCommit(t) ==
  /\ at[t] = "scan"
  /\ unscanned = {}
  /\ saved' = saved \cup {doc[t]}
  /\ present' = IF doc[t] \in saved THEN present
                ELSE [present EXCEPT ![doc[t]] = found]
  /\ conn' = None
  /\ found' = {}
  /\ at' = [at EXCEPT ![t] = "count"]
  /\ UNCHANGED <<fileVars, complete, unscanned, key, doc, nothingMissing, faults>>

\* A caller that has found the manifest's row refreshes it.
RefreshBegin(t, m) ==
  /\ at[t] = "idle"
  /\ m \in saved
  /\ at' = [at EXCEPT ![t] = "count"]
  /\ doc' = [doc EXCEPT ![t] = m]
  /\ UNCHANGED <<fileVars, rowVars, lockVars, key, nothingMissing, faults>>

\* Mutant: counts the present rows where it should count the missing ones.
RefreshCountAny(t) ==
  /\ at[t] = "count"
  /\ conn = None
  /\ nothingMissing' = IF present[doc[t]] # {} THEN nothingMissing \cup {t} ELSE nothingMissing \ {t}
  /\ at' = [at EXCEPT ![t] = "update"]
  /\ UNCHANGED <<fileVars, rowVars, lockVars, key, doc, faults>>

RefreshCount(t) ==
  /\ at[t] = "count"
  /\ conn = None
  /\ nothingMissing' = IF ChunksOf[doc[t]] \subseteq present[doc[t]]
                       THEN nothingMissing \cup {t} ELSE nothingMissing \ {t}
  /\ at' = [at EXCEPT ![t] = "update"]
  /\ UNCHANGED <<fileVars, rowVars, lockVars, key, doc, faults>>

RefreshUpdate(t) ==
  /\ at[t] = "update"
  /\ conn = None
  /\ complete' = IF t \in nothingMissing THEN complete \cup {doc[t]} ELSE complete \ {doc[t]}
  /\ at' = [at EXCEPT ![t] = "idle"]
  /\ doc' = [doc EXCEPT ![t] = None]
  /\ nothingMissing' = nothingMissing \ {t}
  /\ UNCHANGED <<fileVars, saved, present, lockVars, key, faults>>

-----------------------------------------------------------------------------
(* Failures *)

\* An I/O or database error leaves the operation through "?": what was done so
\* far stays, an open transaction is rolled back.
Fail(t) ==
  /\ faults < MaxFaults
  /\ at[t] # "idle"
  /\ faults' = faults + 1
  /\ at' = [at EXCEPT ![t] = "idle"]
  /\ key' = [key EXCEPT ![t] = None]
  /\ doc' = [doc EXCEPT ![t] = None]
  /\ fd' = [fd EXCEPT ![t] = "none"]
  /\ nothingMissing' = nothingMissing \ {t}
  /\ conn' = IF conn = t THEN None ELSE conn
  /\ unscanned' = IF conn = t THEN {} ELSE unscanned
  /\ found' = IF conn = t THEN {} ELSE found
  /\ UNCHANGED <<tmpFile, blobFile, rowVars>>

\* Every operation ends where it is, and an open transaction is rolled back.
OperationsEnd ==
  /\ at' = [t \in Thread |-> "idle"]
  /\ key' = [t \in Thread |-> None]
  /\ doc' = [t \in Thread |-> None]
  /\ fd' = [t \in Thread |-> "none"]
  /\ nothingMissing' = {}
  /\ conn' = None
  /\ unscanned' = {}
  /\ found' = {}

\* The process dies and is started again on the same data directory.
Crash ==
  /\ faults < MaxFaults
  /\ faults' = faults + 1
  /\ OperationsEnd
  /\ UNCHANGED <<tmpFile, blobFile, rowVars>>

-----------------------------------------------------------------------------
ThreadStep(t) ==
  \/ \E h \in Hash : PutBegin(t, h)
  \/ PutOpen(t) \/ PutWrite(t) \/ PutRename(t) \/ PutRenameFails(t) \/ PutMark(t)
  \/ \E m \in Manifest : SaveBegin(t, m) \/ RefreshBegin(t, m)
  \/ SaveScan(t) \/ SaveCommit(t) \/ RefreshCount(t) \/ RefreshUpdate(t)
  \/ Fail(t)

Next == (\E t \in Thread : ThreadStep(t)) \/ Crash

Spec == Init /\ [][Next]_vars

-----------------------------------------------------------------------------
(* Properties *)

\* A chunk row says present only when the chunk's file is in the blob store,
\* whatever crashed or failed on the way: put_blob renames before it marks, and
\* save_manifest looks at the file system.  missing_chunks and get_blob rely on it.
PresentOnDisk == \A m \in Manifest : \A h \in present[m] : OnDisk(h)

\* A manifest marked complete has every one of its chunks on disk.  The count and
\* the update of refresh_manifest_complete are two statements with other threads
\* in between, so this needs that no chunk row ever goes back to missing.
CompleteOnDisk == \A m \in complete : \A h \in ChunksOf[m] : OnDisk(h)

\* While nothing has failed, no mark is lost between a save_manifest that did not
\* see a chunk's file and the put_blob that was placing it: a row of a chunk on
\* disk is marked, or a thread is on its way to mark it.
NoLostMark ==
  faults = 0 =>
    \A m \in saved : \A h \in ChunksOf[m] \ present[m] :
      OnDisk(h) => \E t \in Thread : at[t] = "mark" /\ key[t] = h

\* What the store's callers rely on, step by step: no chunk and no mark is lost, a
\* mark is made only for a chunk that is there, a save_manifest that misses a chunk
\* leaves it to the put_blob that is placing it, and complete is set only when
\* everything is marked, though each of these is several steps among those of others.
Store == INSTANCE ChunkStore WITH
  Chunk <- Hash,
  disk <- {h \in Hash : OnDisk(h)},
  placed <- {key[t] : t \in {u \in Thread : at[u] = "mark"}},
  failed <- faults > 0
KeepsChunks == Store!Spec

\* docs/protocol.md: content reaches the blob store by "atomic placement", so a
\* file under its hash always has all of its bytes.
BlobWhole == \A h \in Hash : blobFile[h] # "torn"

\* At most one thread is ever asked to place h.
SoleWriter(h) == \A t, u \in Thread : h \in MayPut[t] \cap MayPut[u] => t = u

\* That holds for a chunk with one writer, whatever other threads save and refresh
\* and whatever crash or failure leaves a .partial file behind: put_blob truncates
\* what it finds there.
SoleWritersPlaceWholeBlobs == \A h \in Hash : SoleWriter(h) => blobFile[h] # "torn"
==============================================================================
