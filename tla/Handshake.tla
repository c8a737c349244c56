------------------------------ MODULE Handshake ------------------------------
(***************************************************************************)
(* What pairing promises (docs/protocol.md, "Identity and pairing"): it is *)
(* explicit on the device that initiates it.  A device is trusted by       *)
(* another only after its own user has asked for a pairing, and trusts the *)
(* one it has asked only when that one trusts it; nothing but an exchange  *)
(* makes two devices trust each other, and no trust is withdrawn.          *)
(***************************************************************************)
CONSTANTS
  Node,
  Met         \* <<n, p>> when n trusts p at the start

VARIABLES
  asked,      \* <<n, p>> when n's user has asked to pair with p
  trusts      \* the devices that each device holds paired

Init ==
  /\ asked = {}
  /\ trusts = [n \in Node |-> {p \in Node : <<n, p>> \in Met}]

Ask(n, p) == asked' = asked \cup {<<n, p>>} /\ trusts' = trusts

\* p takes a request of n, which another device's former address may have brought here.
Accept(p, n) ==
  /\ \E q \in Node : <<n, q>> \in asked
  /\ trusts' = [trusts EXCEPT ![p] = @ \cup {n}]
  /\ asked' = asked

\* n learns that the peer it asked has accepted.
Conclude(n, p) ==
  /\ <<n, p>> \in asked /\ n \in trusts[p]
  /\ trusts' = [trusts EXCEPT ![n] = @ \cup {p}]
  /\ asked' = asked

Next == \E n, p \in Node : Ask(n, p) \/ Accept(p, n) \/ Conclude(n, p)

Spec == Init /\ [][Next]_<<asked, trusts>>
==============================================================================
