------------------------------- MODULE EventBus -------------------------------
(***************************************************************************)
(* How the core's events reach the app: the broadcast channel of Node, the *)
(* receiver that nexus_create subscribes, and the "events" call by which   *)
(* the app drains it from a timer (node.rs, ffi.rs, app_controller.dart),  *)
(* on top of module Lifecycle.                                             *)
(*                                                                         *)
(* The channel is a ring: it keeps the last Capacity events.  Tasks of the *)
(* node send at any time; a receiver that was overtaken is told so once    *)
(* and goes on with the oldest event that is left.  The app's isolate is   *)
(* blocked by every call it makes, and calls over the network may last.    *)
(***************************************************************************)
EXTENDS Lifecycle, Functions

CONSTANTS
  Capacity,   \* of the ring, 256
  MaxEvents   \* bound on the events that tasks send on one channel

ASSUME BusAssumption == Capacity \in Nat \ {0} /\ MaxEvents \in Nat

VARIABLES
  sent,       \* events sent on the channel of the app's core, which number them
  next,       \* the receiver's cursor: the event it takes next
  batch,      \* the list of the poll in progress
  got,        \* the lists that the app has been given, one after the other
  isolate     \* what the app's isolate does

busVars == <<sent, next, batch, got, isolate>>
allVars == <<vars, busVars>>

BusTypeOK ==
  /\ sent \in 0..(MaxEvents + 1)
  /\ next \in 0..sent
  /\ batch \in Seq(0..(next - 1)) /\ got \in Seq(0..(next - 1))
  /\ isolate \in {"free", "poll", "call"}
  /\ isolate # "poll" => batch = <<>>

\* A channel without events, and a receiver that waits for the first.
NewChannel ==
  /\ sent' = 0 /\ next' = 0
  /\ batch' = <<>> /\ got' = <<>> /\ isolate' = "free"

BusInit ==
  /\ Init
  /\ sent = 0 /\ next = 0 /\ batch = <<>> /\ got = <<>> /\ isolate = "free"

-----------------------------------------------------------------------------
(* The node sends *)

\* Mutant: the receiver subscribes when the node has started.
ReceiveSubscribes ==
  /\ Receive
  /\ sent' = sent + 1 /\ next' = sent + 1
  /\ UNCHANGED <<batch, got, isolate>>

\* start ends with a Ready event.
ReceiveAndReady ==
  /\ Receive
  /\ sent' = sent + 1
  /\ UNCHANGED <<next, batch, got, isolate>>

\* The tasks of a node that listens: a peer discovered or lost, a pairing, a message,
\* progress, a finished sync or file, an error.
Emit ==
  /\ core \in listening /\ sent < MaxEvents
  /\ sent' = sent + 1
  /\ UNCHANGED <<vars, next, batch, got, isolate>>

-----------------------------------------------------------------------------
(* The app polls *)

\* The timer's refresh calls "events", which runs until the receiver has nothing.
PollBegin ==
  /\ step = "ready" /\ isolate = "free"
  /\ isolate' = "poll"
  /\ UNCHANGED <<vars, sent, next, batch, got>>

Overtaken(i) == i + Capacity < sent

\* try_recv takes the next event.
PollTake ==
  /\ isolate = "poll" /\ next < sent /\ ~Overtaken(next)
  /\ batch' = Append(batch, next)
  /\ next' = next + 1
  /\ UNCHANGED <<vars, sent, got, isolate>>

\* Mutant: the list of events outlives the poll.
PollReturnsTwice ==
  /\ got' = got \o batch /\ batch' = batch
  /\ isolate' = "free"
  /\ UNCHANGED <<vars, sent>>

\* The poll returns its list.
PollReturns ==
  /\ got' = got \o batch /\ batch' = <<>>
  /\ isolate' = "free"
  /\ UNCHANGED <<vars, sent>>

PollEmpty ==
  /\ isolate = "poll" /\ next = sent
  /\ next' = next
  /\ PollReturns

\* Mutant: an overtaken receiver stays where it was.
PollLaggedStays ==
  /\ isolate = "poll" /\ Overtaken(next)
  /\ next' = next
  /\ PollReturns

\* Or it reports that the receiver was overtaken, and moves it to the oldest event
\* that is left.  The loop takes this for the end, so the poll returns what it has.
PollLagged ==
  /\ isolate = "poll" /\ Overtaken(next)
  /\ next' = sent - Capacity
  /\ PollReturns

\* The user pairs, sends or syncs: the call blocks until the peer has answered.
CallBegin ==
  /\ step = "ready" /\ isolate = "free"
  /\ isolate' = "call"
  /\ UNCHANGED <<vars, sent, next, batch, got>>

CallReturns ==
  /\ isolate = "call"
  /\ isolate' = "free"
  /\ UNCHANGED <<vars, sent, next, batch, got>>

-----------------------------------------------------------------------------
\* Steps that send nothing; what the running app does, its free isolate does.
QuietStep ==
  /\ \/ CreateFails \/ Bind \/ Browse \/ BrowseFails \/ Bridge \/ Publish \/ PublishFails
     \/ Initialize \/ InitializeFails \/ Retry \/ PortTaken \/ PortLeft
     \/ (\E nm \in Name : Rename(nm)) /\ isolate = "free"
  /\ UNCHANGED busVars

LifeStep ==
  \/ ((\E c \in Core : Create(c)) \/ Relaunch) /\ NewChannel
  \/ ReceiveAndReady
  \/ QuietStep

Poll == PollTake \/ PollEmpty \/ PollLagged

BusNext == LifeStep \/ Emit \/ PollBegin \/ Poll \/ CallBegin \/ CallReturns

BusSpec == BusInit /\ [][BusNext]_allVars

\* The timer fires again and again and gets its turn between calls; a poll goes on.
FairBusSpec == BusSpec /\ SF_allVars(PollBegin) /\ WF_allVars(Poll)

-----------------------------------------------------------------------------
(* Properties *)

\* The app loses no event, from the first that the node sends while it starts, other
\* than those that Capacity later ones have overtaken before it polled: what lies
\* behind the cursor was given to it, is about to be, or is no longer in the ring.
OnlyOvertakenAreLost ==
  \A i \in 0..(next - 1) : i \in Range(got \o batch) \/ Overtaken(i)

\* The lists that polls give, one after the other, hold no event twice and are in the
\* order sent, without gaps but for overtaken events, which no later poll gives: what is
\* behind the cursor and neither given nor in a poll's list is gone, also when a poll
\* ends in the middle of its events.
Feed == INSTANCE EventFeed WITH
  given <- got,
  gone <- {i \in 0..(next - 1) : i \notin Range(got \o batch)}
EventsInOrder == Feed!Spec

\* And it gets the others: as long as its calls over the network return, an event is
\* given to a ready app at some later poll unless it has been overtaken, though a
\* poll that finds itself overtaken ends early.
EventsArrive ==
  []<>(isolate # "call") =>
    \A i \in 0..MaxEvents :
      (step = "ready" /\ i < sent) ~> (i \in Range(got) \/ Overtaken(i) \/ step # "ready")
==============================================================================
