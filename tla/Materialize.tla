----------------------------- MODULE Materialize -----------------------------
(***************************************************************************)
(* materialize_file (node.rs, files.rs): a file is put together from its   *)
(* chunks under a temporary name, checked, and renamed to its destination, *)
(* while the threads of module BlobStore go on filling the store.          *)
(*                                                                         *)
(* The temporary name is the destination's with another extension, so two  *)
(* destinations may share one, and a destination that has this extension   *)
(* is its own.  Here the machine may lose power as well: SQLite syncs its  *)
(* rows, put_blob does not sync its files, and materialize_file syncs what *)
(* it has written but not the directory in which it renames it.            *)
(***************************************************************************)
EXTENDS BlobStore, Sequences

CONSTANTS
  Caller,     \* callers of materialize_file
  Dest,       \* destinations
  TempOf,     \* destination.with_extension("nexus-partial")
  ContentOf,  \* the chunks of a manifest in order
  Asks,       \* <<d, m>> when a caller may ask for manifest m at d
  Junk        \* bytes that are no chunk: a hole, or what a power failure left

Path == Dest \cup {TempOf[d] : d \in Dest}

\* An extension that has been put on once stays.
ASSUME TempAssumption ==
  /\ DOMAIN TempOf = Dest
  /\ \A d \in Dest : TempOf[d] \in Dest => TempOf[TempOf[d]] = TempOf[d]
ASSUME ContentAssumption ==
  /\ ContentOf \in [Manifest -> Seq(Hash)]
  /\ \A m \in Manifest : ChunksOf[m] = {ContentOf[m][i] : i \in DOMAIN ContentOf[m]}
ASSUME AsksAssumption == Asks \in [Caller -> SUBSET (Dest \X Manifest)]
ASSUME JunkAssumption ==
  /\ Junk \notin Hash
  /\ None \notin Path \cup Seq(Hash \cup {Junk})

VARIABLES
  job,        \* the call of each caller
  out,        \* the name under which the file that a call has open is now
  file,       \* the bytes under each name, None when there is no file
  durable,    \* what a power failure would leave at each destination
  unsynced,   \* names whose file has bytes that are not synced
  intact      \* the machine has not lost power

callVars == <<job, out>>
pathVars == <<file, durable, unsynced>>
allVars == <<vars, callVars, pathVars, intact>>

Job == [step : {"create", "copy", "place"}, dest : Dest, doc : Manifest, done : Nat,
        sound : BOOLEAN]
NoJob == [step |-> "idle", dest |-> None, doc |-> None, done |-> 0, sound |-> FALSE]

Bytes == Seq(Hash \cup {Junk}) \cup {None}

MaterializeTypeOK ==
  /\ job \in [Caller -> Job \cup {NoJob}]
  /\ \A c \in Caller : job[c] # NoJob => job[c].done \in 0..Len(ContentOf[job[c].doc])
  /\ out \in [Caller -> Path \cup {None}]
  /\ \A c \in Caller : out[c] # None => job[c].step \in {"copy", "place"}
  /\ file \in [Path -> Bytes]
  /\ durable \in [Dest -> Bytes]
  /\ unsynced \subseteq Path
  /\ intact \in BOOLEAN

MaterializeInit ==
  /\ Init
  /\ job = [c \in Caller |-> NoJob]
  /\ out = [c \in Caller |-> None]
  /\ file = [p \in Path |-> None]
  /\ durable = [d \in Dest |-> None]
  /\ unsynced = {}
  /\ intact = TRUE

-----------------------------------------------------------------------------
\* Mutant: the file is not closed.
EndsOpen(c) ==
  /\ job' = [job EXCEPT ![c] = NoJob]
  /\ out' = out

\* An operation of c ends, by return or by "?"; what it has written stays.
Ends(c) ==
  /\ job' = [job EXCEPT ![c] = NoJob]
  /\ out' = [out EXCEPT ![c] = None]

\* The manifest has a row and none of its chunks is missing.
Whole(m) == m \in saved /\ ChunksOf[m] \subseteq present[m]

MaterializeBegin(c, d, m) ==
  /\ job[c] = NoJob /\ conn = None
  /\ <<d, m>> \in Asks[c] /\ Whole(m)
  /\ job' = [job EXCEPT ![c] = [step |-> "create", dest |-> d, doc |-> m, done |-> 0,
                                sound |-> TRUE]]
  /\ UNCHANGED <<vars, out, pathVars, intact>>

\* A name that is given its bytes keeps them through a power failure, or the directory,
\* which is never synced, still has what was there before.
Reaches(p, b) == durable' = durable \/ (p \in Dest /\ durable' = [durable EXCEPT ![p] = b])

\* File::create truncates the file that is there.
CreateTemporary(c) ==
  /\ job[c].step = "create"
  /\ file' = [file EXCEPT ![TempOf[job[c].dest]] = <<>>]
  /\ unsynced' = unsynced \cup {TempOf[job[c].dest]}
  /\ out' = [out EXCEPT ![c] = TempOf[job[c].dest]]
  /\ job' = [job EXCEPT ![c].step = "copy"]
  /\ UNCHANGED <<vars, durable, intact>>

\* A write at position i, beyond the end of the file if another call has cut it.
Overwrite(s, i, b) ==
  [k \in 1..(IF Len(s) < i THEN i ELSE Len(s)) |->
     IF k = i THEN b ELSE IF k <= Len(s) THEN s[k] ELSE Junk]

\* What get_blob may return that has the size of chunk h.  A file cut short has
\* not, one that a power failure has spoilt may.
Read(h) == IF blobFile[h] = "full" THEN {h} ELSE IF blobFile[h] = "torn" /\ ~intact THEN {Junk} ELSE {}

\* A call that has read b for its next chunk.
Copied(j, b) == [j EXCEPT !.done = @ + 1, !.sound = @ /\ b = ContentOf[j.doc][j.done + 1]]

\* One turn of the loop: a chunk is read, hashed and written.
CopyChunk(c) ==
  LET i == job[c].done + 1
      m == job[c].doc
  IN
  /\ job[c].step = "copy" /\ i <= Len(ContentOf[m])
  /\ \E b \in Read(ContentOf[m][i]) :
       /\ file' = IF out[c] = None THEN file ELSE [file EXCEPT ![out[c]] = Overwrite(@, i, b)]
       /\ job' = [job EXCEPT ![c] = Copied(@, b)]
  /\ unsynced' = unsynced \cup ({out[c]} \ {None})
  /\ UNCHANGED <<vars, out, durable, intact>>

\* The chunk's file is not there or has another size.
CopyFails(c) ==
  LET i == job[c].done + 1
      m == job[c].doc
  IN
  /\ job[c].step = "copy" /\ i <= Len(ContentOf[m])
  /\ blobFile[ContentOf[m][i]] # "full"
  /\ Ends(c)
  /\ UNCHANGED <<vars, pathVars, intact>>

\* Mutant: the file is renamed without a look at its hash.
CheckNothing(c) ==
  /\ job[c].step = "copy" /\ job[c].done = Len(ContentOf[job[c].doc])
  /\ job' = [job EXCEPT ![c].step = "place"]
  /\ unsynced' = unsynced \ {out[c]}
  /\ UNCHANGED <<vars, out, file, durable, intact>>

\* Mutant: sync_all is left out.
CheckUnsynced(c) ==
  /\ job[c].step = "copy" /\ job[c].done = Len(ContentOf[job[c].doc])
  /\ IF job[c].sound THEN job' = [job EXCEPT ![c].step = "place"] /\ out' = out ELSE Ends(c)
  /\ UNCHANGED <<vars, pathVars, intact>>

\* The file is synced.  Then the hash of what was read, which is not looked up in what
\* was written, is compared with the manifest's.
CheckHash(c) ==
  /\ job[c].step = "copy" /\ job[c].done = Len(ContentOf[job[c].doc])
  /\ unsynced' = unsynced \ {out[c]}
  /\ Reaches(out[c], file[out[c]])
  /\ IF job[c].sound THEN job' = [job EXCEPT ![c].step = "place"] /\ out' = out ELSE Ends(c)
  /\ UNCHANGED <<vars, file, intact>>

\* The rename takes whatever is under the temporary name, with the descriptors
\* that are open on it; it fails when another call has renamed it away, and does
\* nothing to a destination that is its own temporary name.
PlaceFile(c) ==
  LET d == job[c].dest
      t == TempOf[d]
  IN
  /\ job[c].step = "place"
  /\ job' = [job EXCEPT ![c] = NoJob]
  /\ IF file[t] = None \/ t = d
     THEN out' = [out EXCEPT ![c] = None] /\ UNCHANGED pathVars
     ELSE /\ file' = [file EXCEPT ![d] = file[t], ![t] = None]
          /\ Reaches(d, file[t])
          /\ unsynced' = (unsynced \ {d, t}) \cup (IF t \in unsynced THEN {d} ELSE {})
          /\ out' = [e \in Caller |->
                       IF e = c \/ out[e] = d THEN None ELSE IF out[e] = t THEN d ELSE out[e]]
  /\ UNCHANGED <<vars, intact>>

-----------------------------------------------------------------------------
(* Failures *)

MaterializeFails(c) ==
  /\ faults < MaxFaults /\ faults' = faults + 1
  /\ job[c] # NoJob
  /\ Ends(c)
  /\ UNCHANGED <<fileVars, rowVars, lockVars, at, key, doc, nothingMissing, pathVars, intact>>

AllEnd ==
  /\ job' = [c \in Caller |-> NoJob]
  /\ out' = [c \in Caller |-> None]

ProcessDies == Crash /\ AllEnd /\ UNCHANGED <<pathVars, intact>>

\* The rows are kept, a chunk's file may be torn or gone, a rename undone, bytes that
\* were not synced spoilt.  What is left under other names no call reads: the next one
\* truncates it.
PowerFails ==
  /\ faults < MaxFaults /\ faults' = faults + 1
  /\ intact' = FALSE
  /\ blobFile' \in {f \in [Hash -> FileState] :
                      \A h \in Hash : f[h] = blobFile[h] \/ (OnDisk(h) /\ f[h] # "full")}
  /\ \E spoilt \in SUBSET (unsynced \cap Dest) :
       durable' = [d \in Dest |-> IF d \in spoilt THEN <<Junk>> ELSE durable[d]]
  /\ file' = [p \in Path |-> IF p \in Dest THEN durable'[p] ELSE file[p]]
  /\ unsynced' = {}
  /\ OperationsEnd /\ AllEnd
  /\ UNCHANGED <<tmpFile, rowVars>>

-----------------------------------------------------------------------------
CallStep(c) ==
  \/ \E d \in Dest, m \in Manifest : MaterializeBegin(c, d, m)
  \/ CreateTemporary(c) \/ CopyChunk(c) \/ CopyFails(c) \/ CheckHash(c) \/ PlaceFile(c)
  \/ MaterializeFails(c)

StoreStep == (\E t \in Thread : ThreadStep(t)) /\ UNCHANGED <<callVars, pathVars, intact>>

MaterializeNext == StoreStep \/ (\E c \in Caller : CallStep(c)) \/ ProcessDies \/ PowerFails

MaterializeSpec == MaterializeInit /\ [][MaterializeNext]_allVars

-----------------------------------------------------------------------------
(* Properties *)

\* The callers that may write under d's temporary name, and the destinations that are
\* not written in place and have one such caller.
Users(d) == {c \in Caller : \E ask \in Asks[c] : TempOf[ask[1]] = TempOf[d]}
SoleDest == {d \in Dest : TempOf[d] # d /\ \A c, e \in Users(d) : c = e}

\* Such a destination holds nothing or a whole file that was asked for there, through
\* crashes, failures, torn chunks and leftover temporary files: docs/protocol.md, "Final
\* materialization rechecks every chunk and the whole-file hash".  It changes when a
\* call places a file, and when a power failure puts back what it held before.
Atomic == INSTANCE AtomicFile WITH
  Dest <- SoleDest,
  Asked <- UNION {Asks[c] : c \in Caller},
  Nothing <- None,
  whole <- {m \in Manifest : Whole(m)},
  placed <- [d \in SoleDest |-> file[d]],
  durable <- [d \in SoleDest |-> durable[d]]
PlacesAtomically == Atomic!Spec
==============================================================================
