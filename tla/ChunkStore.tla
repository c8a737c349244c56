----------------------------- MODULE ChunkStore -----------------------------
(***************************************************************************)
(* What a node relies on when it places chunks and asks what is missing    *)
(* (core/nexus-core/src/storage.rs): chunks and marks are never lost, a    *)
(* mark is made only for a chunk that is there, a complete manifest has    *)
(* all of its marks, and as long as nothing fails a chunk is marked in     *)
(* every manifest that lists it, or is about to be.                        *)
(***************************************************************************)
CONSTANTS
  Chunk,
  Manifest,
  ChunksOf    \* the set of chunks of each manifest

VARIABLES
  disk,       \* chunks in the blob store
  placed,     \* of those, the ones that somebody is about to mark
  saved,      \* manifests with rows
  present,    \* the chunks marked present in each
  complete,   \* manifests marked complete
  failed      \* an operation has failed or the process has died

vars == <<disk, placed, saved, present, complete, failed>>

Init ==
  /\ disk = {} /\ placed = {}
  /\ saved = {} /\ present = [m \in Manifest |-> {}] /\ complete = {}
  /\ failed = FALSE

\* A chunk is placed, or found to be there.
Place(c) ==
  /\ disk' = disk \cup {c} /\ placed' = placed \cup {c}
  /\ UNCHANGED <<saved, present, complete, failed>>

\* One of those who placed c marks it wherever it is listed.
Mark(c) ==
  /\ c \in placed
  /\ placed \ {c} \subseteq placed' /\ placed' \subseteq placed
  /\ present' = [m \in Manifest |-> IF m \in saved /\ c \in ChunksOf[m]
                                    THEN present[m] \cup {c} ELSE present[m]]
  /\ UNCHANGED <<disk, saved, complete, failed>>

\* The rows of a new manifest: a chunk that is there is marked, unless whoever has
\* placed it will do so or something has failed.
Save(m) ==
  /\ m \notin saved /\ saved' = saved \cup {m}
  /\ \E marks \in SUBSET (ChunksOf[m] \cap disk) :
       /\ ~failed => (ChunksOf[m] \cap disk) \ placed \subseteq marks
       /\ present' = [present EXCEPT ![m] = marks]
  /\ UNCHANGED <<disk, placed, complete, failed>>

Complete(m) ==
  /\ m \in saved /\ ChunksOf[m] \subseteq present[m]
  /\ complete' = complete \cup {m}
  /\ UNCHANGED <<disk, placed, saved, present, failed>>

\* The result of an older count is written.
Doubt(m) ==
  /\ complete' = complete \ {m}
  /\ UNCHANGED <<disk, placed, saved, present, failed>>

\* Some who were about to mark a chunk no longer do.
Fail ==
  /\ failed' = TRUE
  /\ placed' \subseteq placed
  /\ UNCHANGED <<disk, saved, present, complete>>

Next ==
  \/ \E c \in Chunk : Place(c) \/ Mark(c)
  \/ \E m \in Manifest : Save(m) \/ Complete(m) \/ Doubt(m)
  \/ Fail

Spec == Init /\ [][Next]_vars
==============================================================================
