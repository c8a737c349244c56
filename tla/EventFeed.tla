------------------------------ MODULE EventFeed ------------------------------
(***************************************************************************)
(* What the reader of a broadcast channel is promised (the events call of  *)
(* core/nexus-core/src/ffi.rs): each event at most once, in the order sent *)
(* and with no gap but for events that later ones have overwritten, which  *)
(* it is never given afterwards.                                           *)
(***************************************************************************)
EXTENDS Functions, Sequences

CONSTANT Capacity

VARIABLES
  sent,       \* events sent so far, which numbers them
  given,      \* those the reader was given, in the order it was given them
  gone        \* those it will never be given

Fresh == sent = 0 /\ given = <<>> /\ gone = {}

\* A new channel with a new reader.
Open == Fresh'

Send == sent' = sent + 1 /\ UNCHANGED <<given, gone>>

Increasing(s) == \A i, j \in DOMAIN s : i < j => s[i] < s[j]

\* What the reader was given stays given and more comes after it, later events than all
\* before; between them nothing is left out but what it has lost.
Deliver ==
  /\ given' \in Seq(0..(sent - 1)) /\ Len(given) <= Len(given')
  /\ \A k \in DOMAIN given : given'[k] = given[k]
  /\ Increasing(given')
  /\ gone \subseteq gone' /\ Range(given') \cap gone' = {}
  /\ \A i \in Range(given') : 0..(i - 1) \subseteq Range(given') \cup gone'
  /\ \A i \in gone' \ gone : i \in 0..(sent - 1) /\ i + Capacity < sent
  /\ sent' = sent

Next == Open \/ Send \/ Deliver

Spec == Fresh /\ [][Next]_<<sent, given, gone>>
==============================================================================
