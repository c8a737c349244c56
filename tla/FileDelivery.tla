---------------------------- MODULE FileDelivery ----------------------------
(***************************************************************************)
(* What sending a file promises (docs/protocol.md, "Files"; README.md,     *)
(* "incomplete-file recovery").  A file is gathered at a node that has its *)
(* manifest, no missing row and a stored file for every chunk.  It is so   *)
(* at its author before anybody hears of it, only the peer it is for hears *)
(* of it, it is gathered there only afterwards, the sender is told so only *)
(* then, and nothing gathered is taken back.  Whether the stored bytes are *)
(* the chunk's is not told apart here.                                     *)
(***************************************************************************)
CONSTANTS
  Node, File, AuthorOf, PeerOf,
  Empty       \* files without a chunk

VARIABLES
  gathered,   \* the files of which each node has every row and chunk file
  announced,  \* files whose event is in their author's log
  heard,      \* files whose event is in their peer's log
  confirmed   \* files that send_file has reported as sent

Init ==
  /\ gathered = [n \in Node |-> {}]
  /\ announced = {} /\ heard = {} /\ confirmed = {}

\* Who may get f: its author from the user, its peer from its author.
MayHave(n, f) ==
  \/ n = AuthorOf[f]
  \/ n = PeerOf[f] /\ f \in heard /\ f \in gathered[AuthorOf[f]]

\* The last missing chunk of some files gets to n.
Gather(n) ==
  /\ \E files \in SUBSET {f \in File : MayHave(n, f)} :
       gathered' = [gathered EXCEPT ![n] = @ \cup files]
  /\ UNCHANGED <<announced, heard, confirmed>>

Announce(f) ==
  /\ f \in gathered[AuthorOf[f]]
  /\ announced' = announced \cup {f}
  /\ UNCHANGED <<gathered, heard, confirmed>>

Hear(f) ==
  /\ f \in announced
  /\ heard' = heard \cup {f}
  /\ UNCHANGED <<gathered, announced, confirmed>>

\* An empty file has no chunk whose arrival could be confirmed.
Confirm(f) ==
  /\ f \in heard /\ (f \in Empty \/ f \in gathered[PeerOf[f]])
  /\ confirmed' = confirmed \cup {f}
  /\ UNCHANGED <<gathered, announced, heard>>

Next ==
  \/ \E n \in Node : Gather(n)
  \/ \E f \in File : Announce(f) \/ Hear(f) \/ Confirm(f)

Spec == Init /\ [][Next]_<<gathered, announced, heard, confirmed>>
==============================================================================
