---------------------------- MODULE MCEventSync ----------------------------
(* Small instances of EventSync for TLC: a and b exchange e1 and e2 of a and e3 *)
(* of b. *)
EXTENDS EventSync, TLC

CONSTANTS a, b, old, new, w1, w2, w3, k1, x1, x2, e1, e2, e3

MCFirstName == [n \in Node |-> old]
MCFirstAddr == [n \in Node |-> IF n = a THEN w1 ELSE w2]
MCAuthorOf == [e \in Event |-> IF e = e3 THEN b ELSE a]
MCPeerOf == [e \in Event |-> IF e = e3 THEN a ELSE b]

\* The two have paired before, or have never met.
MCMet == {<<a, b>>, <<b, a>>}
MCStrangers == {}

MCSlots == Permutations(Exchange)
=============================================================================
