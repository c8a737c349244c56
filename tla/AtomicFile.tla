----------------------------- MODULE AtomicFile -----------------------------
(***************************************************************************)
(* What materializing a file promises (docs/protocol.md, "Files", and      *)
(* "atomic writes" in README.md): at its destination the file is there as  *)
(* a whole or not at all.  It gets there in one step, only where it was    *)
(* asked for, and only when all of its chunks have arrived.  A power       *)
(* failure may take back what was placed since the last one, but puts      *)
(* nothing at a destination that was not there before.                     *)
(***************************************************************************)
CONSTANTS
  Dest,       \* destinations
  Manifest,   \* files
  ContentOf,  \* what is in a file
  Asked,      \* <<d, m>> when file m may be asked for at d
  Nothing     \* what an unused destination holds

VARIABLES
  whole,      \* the files of which all chunks have arrived
  placed,     \* what each destination holds
  durable     \* what a power failure would leave there

Init ==
  /\ whole = {}
  /\ placed = [d \in Dest |-> Nothing]
  /\ durable = [d \in Dest |-> Nothing]

\* Chunks arrive, and none is lost.
Gather ==
  /\ whole' \in SUBSET Manifest /\ whole \subseteq whole'
  /\ UNCHANGED <<placed, durable>>

Place(d, m) ==
  /\ <<d, m>> \in Asked /\ m \in whole
  /\ placed' = [placed EXCEPT ![d] = ContentOf[m]]
  /\ durable' = durable \/ durable' = [durable EXCEPT ![d] = ContentOf[m]]
  /\ whole' = whole

PowerFails ==
  /\ placed' = durable
  /\ UNCHANGED <<whole, durable>>

Next == Gather \/ PowerFails \/ \E d \in Dest, m \in Manifest : Place(d, m)

Spec == Init /\ [][Next]_<<whole, placed, durable>>
=============================================================================
