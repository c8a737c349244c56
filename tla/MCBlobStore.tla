---------------------------- MODULE MCBlobStore ----------------------------
(* Small instances of BlobStore for TLC. *)
EXTENDS BlobStore, TLC

CONSTANTS t1, t2, h1, h2, m1, m2

\* The two manifests share h2, as two files with a common chunk do.
MCChunksOf == m1 :> {h1, h2} @@ m2 :> {h2}

\* Both threads may be handed the shared chunk, and one of them h1.
MCMayPut == t1 :> {h1, h2} @@ t2 :> {h2}
=============================================================================
