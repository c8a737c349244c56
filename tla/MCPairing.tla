----------------------------- MODULE MCPairing -----------------------------
(* Small instances of Pairing for TLC. *)
EXTENDS Pairing, TLC

CONSTANTS a, b, old, new, w1, w2, k1

\* Every device starts under the same name, as two phones of one model do.
MCFirstName == [n \in Node |-> old]

MCFirstAddr == [n \in Node |-> IF n = a THEN w1 ELSE w2]
=============================================================================
