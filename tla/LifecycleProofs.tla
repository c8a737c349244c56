---------------------------- MODULE LifecycleProofs ----------------------------
(***************************************************************************)
(* For any number of cores, names, requests and faults: a core whose start *)
(* has returned serves, and nobody calls a core that has been destroyed.   *)
(***************************************************************************)
EXTENDS Lifecycle, SequenceTheorems, TLAPS

USE DEF Fault

\* The steps of the bootstrap from which a core has a listener, an adapter, a loop.
Opened == {"bridge", "publish", "initialize", "ready"}
Received == Opened \cup {"receive"}
Bound == Received \cup {"discover"}

\* The core that the app works with lives, and has what its start has done so far.
CoreInv ==
  /\ step \notin {"create", "error"} => core \in alive
  /\ step = "bind" => core \notin started
  /\ step \in Bound => core \in listening
  /\ step \in Received => apple \/ core \in browsing
  /\ step \in Opened => core \in looping

\* Only Apple's bridge sets a handler, and the core that it names lives.
HandlerInv ==
  /\ step = "bridge" => apple
  /\ handler # None => handler \in alive
  /\ ~apple => handler = None

LifeInv == LifeTypeOK /\ CoreInv /\ HandlerInv

-----------------------------------------------------------------------------
LEMMA InitialLife == Init => LifeInv
BY ForeignAssumption, BoundAssumption
   DEF Init, LifeInv, LifeTypeOK, CoreInv, HandlerInv, Steps, Bound, Received, Opened

\* Every step keeps the types.
LEMMA TypeStep == LifeInv /\ [Next]_vars => LifeTypeOK'
<1> SUFFICES ASSUME LifeInv, [Next]_vars PROVE LifeTypeOK'
  OBVIOUS
<1> USE ForeignAssumption, BoundAssumption
    DEF LifeInv, LifeTypeOK, Steps, nodeVars, bonjourVars
<1>1. ASSUME NEW c \in Core, Create(c) PROVE LifeTypeOK'
  BY <1>1 DEF Create
<1>2. CASE CreateFails
  BY <1>2 DEF CreateFails
<1>3. CASE Bind
  BY <1>3 DEF Bind, AfterStart, CoreInv
<1>4. CASE Browse
  BY <1>4 DEF Browse, CoreInv
<1>5. CASE BrowseFails
  BY <1>5 DEF BrowseFails
<1>6. CASE Receive
  BY <1>6 DEF Receive, AfterStart, CoreInv
<1>7. CASE Bridge
  BY <1>7 DEF Bridge, CoreInv
<1>8. CASE Publish
  BY <1>8 DEF Publish
<1>9. CASE PublishFails
  BY <1>9 DEF PublishFails
<1>10. CASE Initialize
  BY <1>10 DEF Initialize
<1>11. CASE InitializeFails
  <2>1. requests' \in Seq(Name) /\ handler' \in Core \cup {None} /\ published' \in Name \cup {None}
    <3>1. CASE apple
      <4>1. requests' = <<>> /\ handler' = None /\ published' = None
        BY <1>11, <3>1 DEF InitializeFails
      <4> QED
        BY <4>1
    <3>2. CASE ~apple
      BY <1>11, <3>2 DEF InitializeFails
    <3> QED
      BY <3>1, <3>2
  <2>2. /\ alive' \subseteq used'
        /\ listening' \subseteq alive' /\ browsing' \subseteq alive' /\ looping' \subseteq alive'
    BY <1>11 DEF InitializeFails, Destroy
  <2>3. port' \in Core \cup {Foreign, None}
    BY <1>11 DEF InitializeFails, Destroy
  <2> QED
    BY <1>11, <2>1, <2>2, <2>3 DEF InitializeFails, Destroy
<1>12. CASE Retry
  BY <1>12 DEF Retry
<1>13. ASSUME NEW nm \in Name, Rename(nm) PROVE LifeTypeOK'
  BY <1>13 DEF Rename
<1>14. CASE Relaunch
  BY <1>14 DEF Relaunch
<1>15. CASE PortTaken
  BY <1>15 DEF PortTaken
<1>16. CASE PortLeft
  BY <1>16 DEF PortLeft
<1>17. CASE UNCHANGED vars
  BY <1>17 DEF vars
<1> QED
  BY <1>1, <1>2, <1>3, <1>4, <1>5, <1>6, <1>7, <1>8, <1>9, <1>10, <1>11, <1>12, <1>13,
     <1>14, <1>15, <1>16, <1>17 DEF Next

\* Every step keeps what is known of the core and of the handler.
LEMMA CoreStep == LifeInv /\ [Next]_vars => CoreInv' /\ HandlerInv'
<1> SUFFICES ASSUME LifeInv, [Next]_vars PROVE CoreInv' /\ HandlerInv'
  OBVIOUS
<1> USE ForeignAssumption
    DEF LifeInv, LifeTypeOK, CoreInv, HandlerInv, Bound, Received, Opened, nodeVars,
        bonjourVars
<1>1. ASSUME NEW c \in Core, Create(c) PROVE CoreInv' /\ HandlerInv'
  BY <1>1 DEF Create
<1>2. CASE CreateFails
  BY <1>2 DEF CreateFails
<1>3. CASE Bind
  BY <1>3 DEF Bind, AfterStart
<1>4. CASE Browse
  BY <1>4 DEF Browse
<1>5. CASE BrowseFails
  BY <1>5 DEF BrowseFails
<1>6. CASE Receive
  BY <1>6 DEF Receive, AfterStart
<1>7. CASE Bridge
  BY <1>7 DEF Bridge
<1>8. CASE Publish
  BY <1>8 DEF Publish
<1>9. CASE PublishFails
  BY <1>9 DEF PublishFails
<1>10. CASE Initialize
  BY <1>10 DEF Initialize
<1>11. CASE InitializeFails
  BY <1>11 DEF InitializeFails, Destroy
<1>12. CASE Retry
  BY <1>12 DEF Retry
<1>13. ASSUME NEW nm \in Name, Rename(nm) PROVE CoreInv' /\ HandlerInv'
  BY <1>13 DEF Rename
<1>14. CASE Relaunch
  BY <1>14 DEF Relaunch
<1>15. CASE PortTaken
  BY <1>15 DEF PortTaken
<1>16. CASE PortLeft
  BY <1>16 DEF PortLeft
<1>17. CASE UNCHANGED vars
  BY <1>17 DEF vars
<1> QED
  BY <1>1, <1>2, <1>3, <1>4, <1>5, <1>6, <1>7, <1>8, <1>9, <1>10, <1>11, <1>12, <1>13,
     <1>14, <1>15, <1>16, <1>17 DEF Next

LEMMA LifeInvariant == Spec => []LifeInv
<1>1. LifeInv /\ [Next]_vars => LifeInv'
  BY TypeStep, CoreStep DEF LifeInv
<1> QED
  BY InitialLife, <1>1, PTL DEF Spec

-----------------------------------------------------------------------------
\* The life cycle keeps its state well formed (main.dart, nexus_core.dart, ffi.rs,
\* node.rs).
THEOREM LifeTypeCorrect == Spec => []LifeTypeOK
<1>1. LifeInv => LifeTypeOK
  BY DEF LifeInv
<1> QED
  BY LifeInvariant, <1>1, PTL

\* A core whose Node::start has returned without an error listens, handles
\* discoveries and, where it has an adapter of its own, browses: the flag that start
\* sets first never lets a second start of a half-started node succeed.
THEOREM StartServes == Spec => []StartedCoreServes
<1>1. LifeInv => StartedCoreServes
  BY DEF LifeInv, CoreInv, StartedCoreServes, Opened, Received, Bound
<1> QED
  BY LifeInvariant, <1>1, PTL

\* Neither the app nor the handler of the Bonjour channel calls a core that
\* nexus_destroy has released, whatever fails and is tried again.
THEOREM CallsLiveCores == Spec => []CallsOnLiveCores
<1>1. LifeInv => CallsOnLiveCores
  BY DEF LifeInv, CoreInv, HandlerInv, CallsOnLiveCores, CalledByApp, CalledByBonjour
<1> QED
  BY LifeInvariant, <1>1, PTL

-----------------------------------------------------------------------------
(* The published name *)

Named == {"publish", "initialize", "ready"}

\* What Bonjour publishes when the requests on their way are handled.
LastName == IF requests = <<>> THEN published ELSE requests[Len(requests)]

NameInv == LifeInv /\ (apple /\ step \in Named /\ faults = 0 => LastName = name)

\* Taking the first of several requests leaves the last one in place.
LEMMA TailKeepsLast ==
  ASSUME NEW s \in Seq(Name), s # <<>>, Len(s) # 1
  PROVE  Tail(s) # <<>> /\ Tail(s)[Len(Tail(s))] = s[Len(s)]
<1>1. Len(s) \in Nat /\ Len(s) > 1
  <2>1. Len(s) \in Nat \ {0}
    BY EmptySeq, Zenon
  <2> QED
    BY <2>1
<1>2. /\ Tail(s) \in Seq(Name) /\ Len(Tail(s)) = Len(s) - 1
      /\ \A i \in 1..Len(Tail(s)) : Tail(s)[i] = s[i + 1]
  BY HeadTailProperties
<1>3. Tail(s) # <<>>
  BY <1>1, <1>2, EmptySeq
<1>4. Len(s) - 1 \in 1..Len(Tail(s)) /\ (Len(s) - 1) + 1 = Len(s)
  BY <1>1, <1>2
<1>5. Tail(s)[Len(s) - 1] = s[Len(s)]
  BY <1>2, <1>4
<1> QED
  BY <1>2, <1>3, <1>5

LEMMA InitialName == Init => NameInv
BY InitialLife DEF Init, NameInv, Named

LEMMA NameStep == NameInv /\ [Next]_vars => NameInv'
<1> SUFFICES ASSUME NameInv, [Next]_vars PROVE NameInv'
  OBVIOUS
<1>1. LifeInv'
  BY TypeStep, CoreStep DEF NameInv, LifeInv
<1> SUFFICES ASSUME apple', step' \in Named, faults' = 0 PROVE LastName' = name'
  BY <1>1 DEF NameInv
<1> USE DEF LastName, LifeInv, LifeTypeOK
<1>2. ASSUME Fault PROVE FALSE
  BY <1>2 DEF NameInv
<1>3. ASSUME UNCHANGED <<apple, faults, name, requests, published>>, step \in Named
      PROVE  LastName' = name'
  BY <1>3 DEF NameInv
<1>4. CASE Bridge
  <2>1. requests' = Append(requests, name) /\ name' = name /\ requests \in Seq(Name) /\ name \in Name
    BY <1>4 DEF Bridge, NameInv
  <2>2. requests' # <<>> /\ requests'[Len(requests')] = name
    BY <2>1, AppendProperties
  <2> QED
    BY <2>1, <2>2
<1>5. CASE Publish
  <2>1. /\ requests # <<>> /\ requests \in Seq(Name) /\ published' = Head(requests)
        /\ requests' = Tail(requests) /\ UNCHANGED <<apple, name, faults>>
    BY <1>5 DEF Publish, NameInv
  <2>2. step \in Named
    BY <1>5 DEF Publish, Named
  <2>3. requests[Len(requests)] = name
    BY <2>1, <2>2 DEF NameInv
  <2>4. CASE Len(requests) = 1
    <3>1. requests' = <<>> /\ published' = requests[1]
      BY <2>1, <2>4
    <3> QED
      BY <2>1, <2>3, <2>4, <3>1
  <2>5. CASE Len(requests) # 1
    <3>1. requests' # <<>> /\ requests'[Len(requests')] = requests[Len(requests)]
      BY <2>1, <2>5, TailKeepsLast
    <3> QED
      BY <2>1, <2>3, <3>1
  <2> QED
    BY <2>4, <2>5
<1>6. ASSUME NEW nm \in Name, Rename(nm) PROVE LastName' = name'
  <2>1. requests' = Append(requests, nm) /\ name' = nm /\ requests \in Seq(Name)
    BY <1>6 DEF Rename, NameInv
  <2>2. requests' # <<>> /\ requests'[Len(requests')] = nm
    BY <2>1, AppendProperties
  <2> QED
    BY <2>1, <2>2
<1> HIDE DEF LastName
<1>7. CASE Initialize
  BY <1>3, <1>7 DEF Initialize, bonjourVars, Named
<1>8. CASE Bind \/ Browse \/ Receive
  BY <1>8 DEF Bind, Browse, Receive, AfterStart, Named, NameInv
<1> QED
  BY <1>2, <1>3, <1>4, <1>5, <1>6, <1>7, <1>8
     DEF Next, Create, CreateFails, BrowseFails, PublishFails, InitializeFails, Retry, Relaunch,
         PortTaken, PortLeft, bonjourVars, vars, Named

LEMMA NameInvariant == Spec => []NameInv
<1>1. NameInv /\ UNCHANGED vars => NameInv'
  BY NameStep
<1> QED
  BY <1>1, InitialName, NameStep, PTL DEF Spec

\* The published service has the stored name whenever no request is on its way
\* and no operation has failed (nexus_core.dart and AppDelegate.swift).
THEOREM PublishesCurrentName == Spec => []PublishedNameIsCurrent
<1>1. NameInv => PublishedNameIsCurrent
  BY DEF NameInv, PublishedNameIsCurrent, Named, LastName
<1> QED
  BY <1>1, NameInvariant, PTL
===============================================================================
