---------------------------- MODULE EventBusProofs ----------------------------
(***************************************************************************)
(* For any capacity of the channel and any number of events: the app loses *)
(* only events that were overtaken, and the composition with the channel   *)
(* leaves the life cycle as it is.                                         *)
(***************************************************************************)
EXTENDS EventBus, TLAPS

USE BusAssumption

\* Until its node is ready, a channel has room for the Ready event.
ReadyToCome == step \in {"bind", "discover", "receive"} => sent \in 0..MaxEvents

\* What a poll adds to its list is later than all that the app has seen.
InSequence == Feed!Increasing(got \o batch)

BusInv == BusTypeOK /\ ReadyToCome /\ OnlyOvertakenAreLost /\ InSequence

\* Every step of the composition is a step of the life cycle or leaves it alone.
LEMMA StepIsLife == [BusNext]_allVars => [Next]_vars
BY DEF BusNext, LifeStep, QuietStep, ReceiveAndReady, Emit, PollBegin, Poll, PollTake, PollEmpty,
       PollLagged, PollReturns, CallBegin, CallReturns, Next, allVars

\* The node sends and the app polls without a change to the life cycle, so what is
\* proved of Lifecycle holds here too.
THEOREM BusKeepsLifecycle == BusSpec => Spec
<1>1. BusInit => Init
  BY DEF BusInit
<1> QED
  BY <1>1, StepIsLife, PTL DEF BusSpec, Spec

-----------------------------------------------------------------------------
\* The cursor moves on from n and the event at n is taken.
LEMMA Taken ==
  ASSUME NEW n \in Nat, NEW s \in Seq(0..(n - 1)), NEW b \in Seq(0..(n - 1)),
         Feed!Increasing(s \o b)
  PROVE  /\ Append(b, n) \in Seq(0..n) /\ s \in Seq(0..n)
         /\ s \o Append(b, n) = Append(s \o b, n)
         /\ Range(s \o Append(b, n)) = Range(s \o b) \cup {n}
         /\ Feed!Increasing(s \o Append(b, n))
<1> DEFINE a == s \o b
<1>1. a \in Seq(0..(n - 1)) /\ a \in Seq(0..n) /\ b \in Seq(0..n) /\ s \in Seq(0..n) /\ n \in 0..n
  OBVIOUS
<1>2. s \o Append(b, n) = Append(a, n) /\ Append(b, n) \in Seq(0..n)
  BY <1>1
<1>3. /\ Append(a, n) \in Seq(0..n)
      /\ DOMAIN Append(a, n) = DOMAIN a \cup {Len(a) + 1}
      /\ \A i \in DOMAIN a : Append(a, n)[i] = a[i] /\ a[i] \in 0..(n - 1) /\ i < Len(a) + 1
      /\ Append(a, n)[Len(a) + 1] = n
      /\ Len(a) \in Nat /\ DOMAIN a = 1..Len(a)
  BY <1>1
<1> HIDE DEF a
<1>4. Range(Append(a, n)) = Range(a) \cup {n}
  BY <1>3 DEF Range
<1>5. Feed!Increasing(Append(a, n))
  <2>1. \A i, j \in DOMAIN a : i < j => a[i] < a[j]
    BY DEF a, Feed!Increasing
  <2> SUFFICES ASSUME NEW i \in DOMAIN Append(a, n), NEW j \in DOMAIN Append(a, n), i < j
               PROVE  Append(a, n)[i] < Append(a, n)[j]
    BY DEF Feed!Increasing
  <2>2. i \in DOMAIN a
    BY <1>3
  <2>3. CASE j \in DOMAIN a
    BY <1>3, <2>1, <2>2, <2>3
  <2>4. CASE j = Len(a) + 1
    BY <1>3, <2>2, <2>4
  <2> QED
    BY <1>3, <2>3, <2>4
<1> QED
  BY <1>1, <1>2, <1>4, <1>5 DEF a

\* A poll that ends, with the cursor at k: what was in the two lists is in one.
LEMMA Returned ==
  ASSUME NEW n \in Nat, NEW k \in Nat, n <= k,
         NEW s \in Seq(0..(n - 1)), NEW b \in Seq(0..(n - 1))
  PROVE  /\ s \o b \in Seq(0..(k - 1)) /\ <<>> \in Seq(0..(k - 1))
         /\ (s \o b) \o <<>> = s \o b
<1>1. 0..(n - 1) \subseteq 0..(k - 1)
  OBVIOUS
<1>2. s \in Seq(0..(k - 1)) /\ b \in Seq(0..(k - 1))
  BY <1>1
<1>3. s \o b \in Seq(0..(k - 1))
  BY <1>2
<1> QED
  BY <1>3

\* A cursor that moves from n to k.
LEMMA Behind ==
  ASSUME NEW n \in Nat, NEW k \in Nat, n <= k, NEW i
  PROVE  /\ i \in 0..(n - 1) => i \in 0..(k - 1)
         /\ i \in 0..(k - 1) => i \in 0..(n - 1) \/ i \in n..(k - 1)
         /\ i \in 0..(n - 1) => 0..(i - 1) \subseteq 0..(n - 1)
OBVIOUS

LEMMA InitialBus == BusInit => BusInv
<1> SUFFICES ASSUME BusInit PROVE BusInv
  OBVIOUS
<1>1. sent = 0 /\ next = 0 /\ batch = <<>> /\ got = <<>> /\ isolate = "free" /\ step = "create"
  BY DEF BusInit, Init
<1>2. InSequence
  BY <1>1 DEF InSequence, Feed!Increasing
<1> QED
  BY <1>1, <1>2 DEF BusInv, BusTypeOK, ReadyToCome, OnlyOvertakenAreLost

LEMMA BusStep == BusInv /\ [BusNext]_allVars => BusInv'
<1> SUFFICES ASSUME BusInv, [BusNext]_allVars PROVE BusInv'
  OBVIOUS
<1> USE DEF BusInv, BusTypeOK, ReadyToCome, OnlyOvertakenAreLost, InSequence, Overtaken, busVars
<1>1. ASSUME NewChannel PROVE BusInv'
  <2>1. sent' = 0 /\ next' = 0 /\ batch' = <<>> /\ got' = <<>> /\ isolate' = "free"
    BY <1>1 DEF NewChannel
  <2>2. InSequence'
    BY <2>1 DEF Feed!Increasing
  <2> QED
    BY <2>1, <2>2
<1>2. CASE ReceiveAndReady
  BY <1>2 DEF ReceiveAndReady, Receive, AfterStart
<1>3. CASE Emit
  BY <1>3 DEF Emit, vars
<1>4. CASE PollBegin \/ CallBegin \/ CallReturns
  BY <1>4 DEF PollBegin, CallBegin, CallReturns, vars
<1>5. CASE PollTake
  <2>1. /\ isolate = "poll" /\ isolate' = "poll" /\ sent' = sent /\ got' = got /\ step' = step
        /\ next < sent /\ next' = next + 1 /\ batch' = Append(batch, next)
    BY <1>5 DEF PollTake, vars
  <2>2. next \in Nat /\ got \in Seq(0..(next - 1)) /\ batch \in Seq(0..(next - 1))
    OBVIOUS
  <2>3. /\ batch' \in Seq(0..next) /\ got' \in Seq(0..next)
        /\ Range(got' \o batch') = Range(got \o batch) \cup {next}
        /\ Feed!Increasing(got' \o batch')
    BY <2>1, <2>2, Taken DEF Feed!Increasing
  <2>4. next' - 1 = next /\ next' \in 0..sent'
    BY <2>1
  <2>5. BusTypeOK'
    BY <2>1, <2>3, <2>4
  <2>6. OnlyOvertakenAreLost'
    <3> SUFFICES ASSUME NEW i \in 0..next PROVE i \in Range(got' \o batch') \/ Overtaken(i)
      BY <2>1, <2>4
    <3>1. i = next \/ i \in 0..(next - 1)
      BY <2>2
    <3> QED
      BY <2>3, <3>1
  <2> QED
    BY <2>1, <2>3, <2>5, <2>6
<1>6. ASSUME PollReturns, isolate = "poll", next' \in next..sent,
             \A i \in next..(next' - 1) : Overtaken(i)
      PROVE  BusInv'
  <2>1. got' = got \o batch /\ batch' = <<>> /\ isolate' = "free" /\ sent' = sent /\ step' = step
    BY <1>6 DEF PollReturns, vars
  <2>2. next \in Nat /\ next' \in Nat /\ next <= next' /\ next' \in 0..sent
    BY <1>6
  <2>3. got' \o batch' = got \o batch /\ got' \in Seq(0..(next' - 1)) /\ batch' \in Seq(0..(next' - 1))
    BY <2>1, <2>2, Returned
  <2>4. OnlyOvertakenAreLost'
    <3> SUFFICES ASSUME NEW i \in 0..(next' - 1) PROVE i \in Range(got' \o batch') \/ Overtaken(i)
      BY <2>1
    <3>1. i \in 0..(next - 1) \/ i \in next..(next' - 1)
      BY <2>2, Behind
    <3> QED
      BY <1>6, <2>3, <3>1
  <2> QED
    BY <2>1, <2>2, <2>3, <2>4
<1>7. CASE Poll
  <2>1. CASE PollEmpty
    BY <2>1, <1>6 DEF PollEmpty
  <2>2. CASE PollLagged
    BY <2>2, <1>6, BusAssumption DEF PollLagged
  <2> QED
    BY <1>5, <1>7, <2>1, <2>2 DEF Poll
<1>8. CASE QuietStep
  <2>1. step' \in {"bind", "discover", "receive"} => step \in {"bind", "discover", "receive"}
    BY <1>8 DEF QuietStep, CreateFails, Bind, Browse, BrowseFails, Bridge, Initialize,
       InitializeFails, Retry, Rename, Publish, PublishFails, PortTaken, PortLeft, AfterStart
  <2> QED
    BY <1>8, <2>1 DEF QuietStep
<1>9. CASE UNCHANGED allVars
  BY <1>9 DEF allVars, vars
<1> QED
  BY <1>1, <1>2, <1>3, <1>4, <1>7, <1>8, <1>9 DEF BusNext, LifeStep

LEMMA BusInvariant == BusSpec => []BusInv
BY InitialBus, BusStep, PTL DEF BusSpec

\* The receiver's cursor never passes what was sent, and what the app was given lies
\* behind it.
THEOREM BusTypeCorrect == BusSpec => []BusTypeOK
<1>1. BusInv => BusTypeOK
  BY DEF BusInv
<1> QED
  BY BusInvariant, <1>1, PTL

\* With a ring of any size, every event from the first one on is given to the app or
\* was overtaken by as many events as the ring has places.
THEOREM LossIsOvertaking == BusSpec => []OnlyOvertakenAreLost
<1>1. BusInv => OnlyOvertakenAreLost
  BY DEF BusInv
<1> QED
  BY BusInvariant, <1>1, PTL
-----------------------------------------------------------------------------
(* The feed: BusSpec implements EventFeed *)

\* What lies behind the cursor, and neither was given nor is in a poll's list.
Gone == {i \in 0..(next - 1) : i \notin Range(got \o batch)}

LEMMA Members ==
  ASSUME NEW S, NEW s \in Seq(S), NEW b \in Seq(S)
  PROVE  /\ Range(s \o b) \subseteq S /\ s \o b \in Seq(S)
         /\ Len(s) <= Len(s \o b) /\ \A k \in DOMAIN s : (s \o b)[k] = s[k]
BY DEF Range

\* A poll that gives its list and moves the cursor over overtaken events only.
LEMMA PollDelivers ==
  ASSUME BusInv, PollReturns, next' \in next..sent,
         \A i \in next..(next' - 1) : Overtaken(i)
  PROVE  Feed!Deliver
<1>1. got' = got \o batch /\ batch' = <<>> /\ sent' = sent
  BY DEF PollReturns
<1>2. /\ sent \in Nat /\ next \in Nat /\ next' \in Nat
      /\ next <= next' /\ next' <= sent
      /\ got \in Seq(0..(next - 1)) /\ batch \in Seq(0..(next - 1))
  BY DEF BusInv, BusTypeOK
<1>3. \A i \in 0..(next - 1) : i \in 0..(next' - 1)
  BY <1>2, Behind
<1>4. got' \o batch' = got' /\ got' \in Seq(0..(next' - 1)) /\ Range(got') \subseteq 0..(next' - 1)
  BY <1>1, <1>2, <1>3, Returned, Members
<1>5. Gone' = {i \in 0..(next' - 1) : i \notin Range(got')}
  BY <1>4 DEF Gone
<1>6. \A i \in Gone' \ Gone : i \in next..(next' - 1)
  <2> SUFFICES ASSUME NEW i \in 0..(next' - 1), i \notin Range(got'), i \notin Gone
               PROVE  i \in next..(next' - 1)
    BY <1>5
  <2>1. i \notin 0..(next - 1)
    BY <1>1 DEF Gone
  <2> QED
    BY <1>2, <2>1, Behind
<1>7. Gone \subseteq Gone'
  BY <1>1, <1>3, <1>5 DEF Gone
<1>8. Range(got') \cup Gone' = 0..(next' - 1) /\ Range(got') \cap Gone' = {}
  BY <1>4, <1>5
<1>9. \A i \in 0..(next' - 1) : i \in 0..(sent - 1) /\ 0..(i - 1) \subseteq 0..(next' - 1)
  BY <1>2, Behind
<1>10. \A i \in Gone' \ Gone : i \in 0..(sent - 1) /\ i + Capacity < sent
  BY <1>5, <1>6, <1>9 DEF Overtaken
<1>11. Len(got) <= Len(got') /\ \A k \in DOMAIN got : got'[k] = got[k]
  BY <1>1, <1>2, Members
<1>12. Feed!Increasing(got')
  BY <1>1 DEF BusInv, InSequence
<1>13. got' \in Seq(0..(sent - 1))
  BY <1>1, <1>2, Returned
<1>14. \A i \in Range(got') : 0..(i - 1) \subseteq Range(got') \cup Gone'
  BY <1>4, <1>8, <1>9
<1>15. \A s : Feed!Range(s) = Range(s)
  BY DEF Feed!Range, Range
<1>16. Feed!Deliver <=>
         /\ got' \in Seq(0..(sent - 1)) /\ Len(got) <= Len(got')
         /\ \A k \in DOMAIN got : got'[k] = got[k]
         /\ Feed!Increasing(got')
         /\ Gone \subseteq Gone' /\ Range(got') \cap Gone' = {}
         /\ \A i \in Range(got') : 0..(i - 1) \subseteq Range(got') \cup Gone'
         /\ \A i \in Gone' \ Gone : i \in 0..(sent - 1) /\ i + Capacity < sent
         /\ sent' = sent
  BY <1>15 DEF Gone, Feed!Deliver
<1> QED
  BY <1>1, <1>7, <1>8, <1>10, <1>11, <1>12, <1>13, <1>14, <1>16

LEMMA StepIsFeed == BusInv /\ [BusNext]_allVars => [Feed!Next]_<<sent, got, Gone>>
<1> SUFFICES ASSUME BusInv, [BusNext]_allVars PROVE [Feed!Next]_<<sent, got, Gone>>
  OBVIOUS
<1> USE DEF BusInv, BusTypeOK
<1>1. CASE NewChannel
  BY <1>1 DEF NewChannel, Feed!Next, Feed!Open, Feed!Fresh
<1>2. CASE ReceiveAndReady \/ Emit
  BY <1>2 DEF ReceiveAndReady, Emit, Feed!Next, Feed!Send
<1>3. CASE PollBegin \/ CallBegin \/ CallReturns
  BY <1>3 DEF PollBegin, CallBegin, CallReturns, Gone
<1>4. CASE PollTake
  <2>1. sent' = sent /\ got' = got /\ next' = next + 1 /\ batch' = Append(batch, next)
    BY <1>4 DEF PollTake
  <2>2. next \in Nat /\ got \in Seq(0..(next - 1)) /\ batch \in Seq(0..(next - 1))
    OBVIOUS
  <2>3. Range(got' \o batch') = Range(got \o batch) \cup {next}
    BY <2>1, <2>2, Taken DEF InSequence
  <2>4. \A i : i \in 0..(next' - 1) <=> i \in 0..(next - 1) \/ i = next
    BY <2>1, <2>2
  <2>5. next \notin 0..(next - 1)
    BY <2>2
  <2>6. Gone' = Gone
    BY <2>3, <2>4, <2>5 DEF Gone
  <2> QED
    BY <2>1, <2>6
<1>5. CASE PollEmpty
  BY <1>5, PollDelivers DEF PollEmpty, Feed!Next
<1>6. CASE PollLagged
  <2>1. PollReturns /\ next' = sent - Capacity /\ next + Capacity < sent
    BY <1>6 DEF PollLagged, Overtaken
  <2>2. next' \in next..sent /\ \A i \in next..(next' - 1) : Overtaken(i)
    BY <2>1 DEF Overtaken
  <2> QED
    BY <2>1, <2>2, PollDelivers DEF Feed!Next
<1>7. CASE QuietStep \/ UNCHANGED allVars
  BY <1>7 DEF QuietStep, busVars, allVars, Gone
<1> QED
  BY <1>1, <1>2, <1>3, <1>4, <1>5, <1>6, <1>7 DEF BusNext, LifeStep, Poll

\* The app's polls are the reader of a feed: for a ring of any size the lists they give
\* hold no event twice and none before an earlier one, leave out only overtaken events,
\* and an event left out is never given later.
THEOREM PollsAreInOrder == BusSpec => EventsInOrder
<1>1. BusInit => Feed!Fresh
  BY DEF BusInit, Feed!Fresh
<1>2. BusInv /\ [BusNext]_allVars
        => [Feed!Next]_<<sent, got, {i \in 0..(next - 1) : i \notin Range(got \o batch)}>>
  BY StepIsFeed DEF Gone
<1> QED
  BY <1>1, <1>2, BusInvariant, PTL DEF BusSpec, EventsInOrder, Feed!Spec
===============================================================================
