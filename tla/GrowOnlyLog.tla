----------------------------- MODULE GrowOnlyLog -----------------------------
(***************************************************************************)
(* What the event log promises (docs/protocol.md, "Encrypted events" and   *)
(* "Reconnect sync"): the log of every device only grows, an event starts  *)
(* at its author, it reaches the one device it was written for and no      *)
(* other, and the author is told so only when it has.                      *)
(***************************************************************************)
CONSTANTS Node, Event, AuthorOf, PeerOf

VARIABLES
  log,       \* the events of each device
  confirmed  \* the events whose author has been told that they arrived

Init == log = [n \in Node |-> {}] /\ confirmed = {}

Write(e) ==
  /\ e \notin log[AuthorOf[e]]
  /\ log' = [log EXCEPT ![AuthorOf[e]] = @ \cup {e}]
  /\ confirmed' = confirmed

Deliver(e) ==
  /\ e \in log[AuthorOf[e]]
  /\ log' = [log EXCEPT ![PeerOf[e]] = @ \cup {e}]
  /\ confirmed' = confirmed

Confirm(e) ==
  /\ e \in log[AuthorOf[e]] \cap log[PeerOf[e]]
  /\ confirmed' = confirmed \cup {e}
  /\ log' = log

Next == \E e \in Event : Write(e) \/ Deliver(e) \/ Confirm(e)

Spec == Init /\ [][Next]_<<log, confirmed>>
==============================================================================
