---------------------------- MODULE MCFileTransfer ----------------------------
(* Small instances of FileTransfer for TLC: a sends f1 and f2 to b. *)
EXTENDS FileTransfer, TLC

CONSTANTS a, b, f1, f2, c1, c2

MCAuthorOf == [f \in File |-> a]
MCPeerOf == [f \in File |-> b]

\* A file of two chunks, and one that has the second of them twice.
MCChunksOf == [f \in File |-> IF f = f1 THEN <<c1, c2>> ELSE <<c2, c2>>]
=============================================================================
