---------------------------- MODULE PairingProofs ----------------------------
(***************************************************************************)
(* Proofs about the peers tables, for any set of nodes, names, addresses   *)
(* and pair calls and any bound on changes.                                *)
(***************************************************************************)
EXTENDS Pairing, TLAPS

USE BonjourAssumption, FirstNameAssumption, FirstAddrAssumption, ChangesAssumption,
    AbsentAssumption

\* What a call knows in each of its phases.
CallsOK ==
  \A t \in Task :
    /\ call[t].phase \in {"handling", "response"} => call[t].dst \in Node
    /\ call[t].phase = "response" => call[t].rname \in Name

TypeInv == TypeOK /\ CallsOK

LEMMA InitTypeInv == Init => TypeInv
BY DEF Init, TypeInv, TypeOK, CallsOK, Endpoint, Announcement, NotHearing, Call, NoCall

\* A call in progress is a Call record.
LEMMA BusyCall ==
  ASSUME TypeOK, NEW t \in Task, call[t].phase # "idle"
  PROVE  call[t] \in Call
BY DEF TypeOK, NoCall

\* Writing one row keeps the type of the three columns.
LEMMA UpsertType ==
  ASSUME TypeOK, NEW n \in Node, NEW p \in Node, NEW nm \in Name,
         NEW ep \in Endpoint \cup {None}, NEW pd, Upsert(n, p, nm, ep, pd)
  PROVE  /\ storedName' \in [Node -> [Node -> Name \cup {None}]]
         /\ paired' \in [Node -> SUBSET Node]
         /\ endpoint' \in [Node -> [Node -> Endpoint \cup {None}]]
<1>1. storedName' \in [Node -> [Node -> Name \cup {None}]]
  BY DEF TypeOK, Upsert
<1>2. paired' \in [Node -> SUBSET Node]
  BY DEF TypeOK, Upsert
<1>3. endpoint' \in [Node -> [Node -> Endpoint \cup {None}]]
  BY DEF TypeOK, Upsert
<1> QED
  BY <1>1, <1>2, <1>3

\* Filling one slot keeps what the calls know.
LEMMA SetCall ==
  ASSUME TypeInv, NEW t \in Task, NEW r \in Call \cup {NoCall},
         r.phase \in {"handling", "response"} => r.dst \in Node,
         r.phase = "response" => r.rname \in Name,
         call' = [call EXCEPT ![t] = r]
  PROVE  call' \in [Task -> Call \cup {NoCall}] /\ CallsOK'
<1>1. call' \in [Task -> Call \cup {NoCall}]
  BY DEF TypeInv, TypeOK
<1>2. call'[t] = r /\ \A u \in Task : u # t => call'[u] = call[u]
  BY DEF TypeInv, TypeOK
<1> QED
  BY <1>1, <1>2 DEF TypeInv, CallsOK

LEMMA FinishedType ==
  ASSUME TypeInv, NEW t \in Task, Finished(t)
  PROVE  /\ call' \in [Task -> Call \cup {NoCall}] /\ CallsOK'
         /\ live' \subseteq Task /\ asked' \subseteq Node \X Node
<1>1. call' \in [Task -> Call \cup {NoCall}] /\ CallsOK'
  BY SetCall DEF Finished, NoCall
<1> QED
  BY <1>1 DEF Finished, TypeInv, TypeOK

LEMMA NextTypeInv == TypeInv /\ [PairingNext]_pairingVars => TypeInv'
<1> SUFFICES ASSUME TypeInv, [PairingNext]_pairingVars PROVE TypeInv'
  OBVIOUS
<1>1. TypeOK /\ CallsOK
  BY DEF TypeInv
<1> USE DEF selfVars, peerVars, hearVars, callVars
<1>2. ASSUME NEW n \in Node, NEW p \in Node, Discover(n, p) PROVE TypeInv'
  BY <1>2 DEF Discover, Resolved, Announcement, Endpoint, TypeInv, TypeOK, CallsOK
<1>3. ASSUME NEW n \in Node, DiscoverStore(n) PROVE TypeInv'
  <2>1. heard[n] \in Announcement
    BY <1>3 DEF DiscoverStore, TypeInv, TypeOK
  <2>2. Upsert(n, heard[n].peer, heard[n].name, heard[n].ep, n \in wasPaired)
    BY <1>3 DEF DiscoverStore
  <2>3. /\ storedName' \in [Node -> [Node -> Name \cup {None}]]
        /\ paired' \in [Node -> SUBSET Node]
        /\ endpoint' \in [Node -> [Node -> Endpoint \cup {None}]]
    BY <1>1, <2>1, <2>2, UpsertType DEF Announcement
  <2> QED
    BY <1>3, <2>3 DEF DiscoverStore, TypeInv, TypeOK, CallsOK
<1>4. ASSUME NEW t \in Task, NEW n \in Node, NEW p \in Node, PairStart(t, n, p)
      PROVE  TypeInv'
  <2> DEFINE r == [phase |-> "request", src |-> n, peer |-> p, ep |-> endpoint[n][p],
                   name |-> name[n], dst |-> None, hep |-> None, rname |-> None]
  <2>1. r \in Call
    BY <1>4 DEF PairStart, Reachable, Call, TypeInv, TypeOK
  <2>2. call' = [call EXCEPT ![t] = r]
    BY <1>4 DEF PairStart
  <2>3. call' \in [Task -> Call \cup {NoCall}] /\ CallsOK'
    BY <2>1, <2>2, SetCall
  <2> QED
    BY <1>4, <2>3 DEF PairStart, TypeInv, TypeOK
<1>5. ASSUME NEW t \in Task, NEW d \in Node, PairHandle(t, d) PROVE TypeInv'
  <2> DEFINE r == [call[t] EXCEPT !.phase = "handling", !.dst = d,
                                  !.hep = endpoint[d][call[t].src]]
  <2>1. call[t] \in Call
    BY <1>5, <1>1, BusyCall DEF PairHandle
  <2>2. endpoint[d][call[t].src] \in Endpoint \cup {None}
    BY <2>1 DEF TypeInv, TypeOK, Call
  <2>3. r \in Call /\ r.phase = "handling" /\ r.dst = d
    BY <2>1, <2>2 DEF Call
  <2>4. call' = [call EXCEPT ![t] = r]
    BY <1>5 DEF PairHandle
  <2>5. call' \in [Task -> Call \cup {NoCall}] /\ CallsOK'
    BY <2>3, <2>4, SetCall
  <2> QED
    BY <1>5, <2>5 DEF PairHandle, TypeInv, TypeOK
<1>6. ASSUME NEW t \in Task, PairAccept(t) PROVE TypeInv'
  <2>1. call[t] \in Call /\ call[t].dst \in Node
    BY <1>6, <1>1, BusyCall DEF PairAccept, CallsOK
  <2>2. /\ storedName' \in [Node -> [Node -> Name \cup {None}]]
        /\ paired' \in [Node -> SUBSET Node]
        /\ endpoint' \in [Node -> [Node -> Endpoint \cup {None}]]
    BY <1>6, <1>1, <2>1, UpsertType DEF PairAccept, Call
  <2>3. CASE t \in live
    <3> DEFINE r == [call[t] EXCEPT !.phase = "response", !.rname = name[call[t].dst]]
    <3>1. name[call[t].dst] \in Name
      BY <2>1 DEF TypeInv, TypeOK
    <3>2. r \in Call /\ r.phase = "response" /\ r.dst \in Node /\ r.rname \in Name
      BY <2>1, <3>1 DEF Call
    <3>3. call' = [call EXCEPT ![t] = r]
      BY <1>6, <2>3 DEF PairAccept
    <3>4. call' \in [Task -> Call \cup {NoCall}] /\ CallsOK'
      BY <3>2, <3>3, SetCall
    <3> QED
      BY <1>6, <2>2, <2>3, <3>4 DEF PairAccept, TypeInv, TypeOK
  <2>4. CASE t \notin live
    <3>1. Finished(t)
      BY <1>6, <2>4 DEF PairAccept
    <3> QED
      BY <1>6, <2>2, <3>1, FinishedType DEF PairAccept, TypeInv, TypeOK
  <2> QED
    BY <2>3, <2>4
<1>7. ASSUME NEW t \in Task, PairFinish(t) PROVE TypeInv'
  <2>1. call[t] \in Call /\ call[t].dst \in Node /\ call[t].rname \in Name
    BY <1>7, <1>1, BusyCall DEF PairFinish, CallsOK
  <2>2. /\ storedName' \in [Node -> [Node -> Name \cup {None}]]
        /\ paired' \in [Node -> SUBSET Node]
        /\ endpoint' \in [Node -> [Node -> Endpoint \cup {None}]]
    BY <1>7, <1>1, <2>1, UpsertType DEF PairFinish, Call
  <2> QED
    BY <1>7, <2>2, FinishedType DEF PairFinish, TypeInv, TypeOK
<1>8. ASSUME NEW t \in Task, PairMismatch(t) \/ PairLost(t) PROVE TypeInv'
  BY <1>8, FinishedType DEF PairMismatch, PairLost, TypeInv, TypeOK
<1> USE DEF TypeInv, TypeOK, CallsOK
<1>9. ASSUME NEW t \in Task, PairAbandoned(t) PROVE TypeInv'
  BY <1>9 DEF PairAbandoned
<1>10. ASSUME NEW n \in Node, NEW nm \in Name, Rename(n, nm) PROVE TypeInv'
  BY <1>10 DEF Rename
<1>11. ASSUME NEW n \in Node, NEW w \in Addr, Move(n, w) PROVE TypeInv'
  BY <1>11 DEF Move
<1>12. ASSUME NEW n \in Node, Restart(n) PROVE TypeInv'
  BY <1>12 DEF Restart, NoCall
<1>13. CASE UNCHANGED pairingVars
  BY <1>13 DEF pairingVars
<1> QED
  BY <1>2, <1>3, <1>4, <1>5, <1>6, <1>7, <1>8, <1>9, <1>10, <1>11, <1>12, <1>13
  DEF PairingNext, Discovery, PairStep, Change

\* Every variable keeps its type, whatever the calls, the discovery loops and the
\* restarts do to each other.
THEOREM PairingTypeCorrect == PairingSpec => [](TypeOK /\ CallsOK)
<1>1. TypeInv => TypeOK /\ CallsOK
  BY DEF TypeInv
<1> QED
  BY <1>1, InitTypeInv, NextTypeInv, PTL DEF PairingSpec

-----------------------------------------------------------------------------
(* What a step may never do *)

LEMMA StepKeepsPaired == TypeInv /\ [PairingNext]_pairingVars => PairedNeverRevoked
<1> SUFFICES ASSUME TypeInv, [PairingNext]_pairingVars, NEW n \in Node
             PROVE  paired[n] \subseteq paired'[n]
  BY DEF PairedNeverRevoked
<1>1. ASSUME NEW m, NEW p, NEW nm, NEW ep, NEW pd, Upsert(m, p, nm, ep, pd)
      PROVE  paired[n] \subseteq paired'[n]
  BY <1>1 DEF Upsert, TypeInv, TypeOK
<1>2. CASE UNCHANGED paired
  BY <1>2
<1> QED
  BY <1>1, <1>2 DEF PairingNext, Discovery, PairStep, Change, Discover, DiscoverStore,
     PairStart, PairHandle, PairAccept, PairFinish, PairMismatch, PairLost, PairAbandoned,
     Rename, Move, Restart, pairingVars, peerVars

\* No step of any node takes a peer's paired mark back.
THEOREM PairingStable == PairingSpec => PairingIsStable
BY InitTypeInv, NextTypeInv, StepKeepsPaired, PTL DEF PairingSpec, PairingIsStable

LEMMA StepKeepsEndpoints == TypeInv /\ [PairingNext]_pairingVars => EndpointNeverForgotten
<1> SUFFICES ASSUME TypeInv, [PairingNext]_pairingVars, NEW n \in Node, NEW q \in Node,
                    endpoint[n][q] # None
             PROVE  endpoint'[n][q] # None
  BY DEF EndpointNeverForgotten
<1>1. ASSUME NEW m, NEW p, NEW nm, NEW ep, NEW pd, Upsert(m, p, nm, ep, pd)
      PROVE  endpoint'[n][q] # None
  BY <1>1 DEF Upsert, TypeInv, TypeOK
<1>2. CASE UNCHANGED endpoint
  BY <1>2
<1> QED
  BY <1>1, <1>2 DEF PairingNext, Discovery, PairStep, Change, Discover, DiscoverStore,
     PairStart, PairHandle, PairAccept, PairFinish, PairMismatch, PairLost, PairAbandoned,
     Rename, Move, Restart, pairingVars, peerVars

\* No step forgets an endpoint, though handlers write back ones they read before.
THEOREM EndpointsKept == PairingSpec => EndpointsAreKept
BY InitTypeInv, NextTypeInv, StepKeepsEndpoints, PTL DEF PairingSpec, EndpointsAreKept

-----------------------------------------------------------------------------
(* The order of commits *)

\* Every call was asked for; the responder of a call has committed before it
\* answered; a discovery loop that read "paired" read the truth, and it still is.
CommitOrder ==
  /\ \A t \in Task : call[t].phase # "idle" => <<call[t].src, call[t].peer>> \in asked
  /\ \A t \in Task : call[t].phase = "response" => call[t].src \in paired[call[t].dst]
  /\ \A n \in wasPaired : heard[n] # NotHearing => heard[n].peer \in paired[n]

RequestInv == TypeInv /\ CommitOrder

LEMMA InitRequestInv == Init => RequestInv
<1> SUFFICES ASSUME Init PROVE RequestInv
  OBVIOUS
<1>1. TypeInv
  BY InitTypeInv
<1> QED
  BY <1>1 DEF Init, RequestInv, CommitOrder, NoCall

LEMMA NextRequestInv == RequestInv /\ [PairingNext]_pairingVars => RequestInv'
<1> SUFFICES ASSUME RequestInv, [PairingNext]_pairingVars PROVE RequestInv'
  OBVIOUS
<1>1. TypeInv /\ TypeInv'
  BY NextTypeInv DEF RequestInv
<1>2. \A n \in Node : paired[n] \subseteq paired'[n]
  BY <1>1, StepKeepsPaired DEF PairedNeverRevoked
<1>3. \A t \in Task : call[t].phase # "idle" => call[t] \in Call
  BY <1>1, BusyCall DEF TypeInv
<1>4. NoCall.phase = "idle" /\ wasPaired \subseteq Node
  BY <1>1 DEF NoCall, TypeInv, TypeOK
<1>5. \A u \in Task : call[u].phase = "response" => call[u].dst \in Node
  BY <1>1 DEF TypeInv, CallsOK
<1>6. ASSUME NEW t \in Task, PairAccept(t) PROVE RequestInv'
  <2> DEFINE d == call[t].dst
             n == call[t].src
  <2>1. call[t] \in Call /\ d \in Node /\ n \in Node
    BY <1>6, <1>1, <1>3 DEF PairAccept, Call, TypeInv, CallsOK
  <2>2. <<n, call[t].peer>> \in asked
    BY <1>6 DEF PairAccept, RequestInv, CommitOrder
  <2>3. paired' = [paired EXCEPT ![d] = @ \cup {n}]
    BY <1>6 DEF PairAccept, Upsert
  <2>4. n \in paired'[d]
    BY <2>1, <2>3, <1>1 DEF TypeInv, TypeOK
  <2>5. /\ call'[t].phase = "response" =>
             call'[t].src = n /\ call'[t].dst = d /\ call'[t].peer = call[t].peer
        /\ call'[t].phase \in {"response", "idle"}
    <3>1. CASE t \in live
      <4>1. call'[t] = [call[t] EXCEPT !.phase = "response", !.rname = name[d]]
        BY <1>6, <1>1, <3>1 DEF PairAccept, TypeInv, TypeOK
      <4> QED
        BY <4>1, <2>1 DEF Call
    <3>2. CASE t \notin live
      BY <1>6, <1>1, <3>2 DEF PairAccept, Finished, NoCall, TypeInv, TypeOK
    <3> QED
      BY <3>1, <3>2
  <2>6. \A u \in Task : u # t => call'[u] = call[u]
    BY <1>6, <1>1 DEF PairAccept, Finished, TypeInv, TypeOK
  <2>7. asked' = asked /\ heard' = heard /\ wasPaired' = wasPaired
    BY <1>6 DEF PairAccept, Finished, hearVars
  <2>8. CommitOrder'
    BY <2>2, <2>4, <2>5, <2>6, <2>7, <1>1, <1>2, <1>5
    DEF CommitOrder, RequestInv, TypeInv, TypeOK
  <2> QED
    BY <1>1, <2>8 DEF RequestInv
<1>7. ASSUME NEW t \in Task, PairFinish(t) \/ PairMismatch(t) \/ PairLost(t)
      PROVE  RequestInv'
  <2>1. call'[t] = NoCall /\ \A u \in Task : u # t => call'[u] = call[u]
    BY <1>7, <1>1 DEF PairFinish, PairMismatch, PairLost, Finished, TypeInv, TypeOK
  <2>2. asked' = asked /\ heard' = heard /\ wasPaired' = wasPaired
    BY <1>7 DEF PairFinish, PairMismatch, PairLost, Finished, hearVars
  <2>3. CommitOrder'
    BY <2>1, <2>2, <1>2, <1>4, <1>5 DEF CommitOrder, RequestInv
  <2> QED
    BY <1>1, <2>3 DEF RequestInv
<1> USE <1>1, <1>2, <1>3
        DEF RequestInv, TypeInv, TypeOK, CallsOK, CommitOrder,
            selfVars, peerVars, hearVars, callVars
<1>8. ASSUME NEW n \in Node, NEW p \in Node, Discover(n, p) PROVE RequestInv'
  BY <1>8 DEF Discover, NotHearing
<1>9. ASSUME NEW n \in Node, DiscoverStore(n) PROVE RequestInv'
  <2>1. heard[n] \in Announcement
    BY <1>9 DEF DiscoverStore
  <2>2. n \in wasPaired => heard[n].peer \in paired[n]
    BY <1>9 DEF DiscoverStore
  <2>3. paired' = paired
    BY <1>9, <2>2 DEF DiscoverStore, Upsert
  <2> QED
    BY <1>9, <2>3 DEF DiscoverStore
<1>10. ASSUME NEW t \in Task, NEW n \in Node, NEW p \in Node, PairStart(t, n, p)
      PROVE  RequestInv'
  <2>1. /\ call'[t].phase = "request" /\ call'[t].src = n /\ call'[t].peer = p
        /\ \A u \in Task : u # t => call'[u] = call[u]
    BY <1>10 DEF PairStart
  <2>2. paired' = paired /\ heard' = heard /\ wasPaired' = wasPaired
    BY <1>10 DEF PairStart
  <2>3. asked \subseteq asked' /\ <<n, p>> \in asked'
    BY <1>10 DEF PairStart
  <2> QED
    BY <2>1, <2>2, <2>3
<1>11. ASSUME NEW t \in Task, NEW d \in Node, PairHandle(t, d) PROVE RequestInv'
  <2>1. call[t].phase = "request" /\ call[t] \in Call
    BY <1>11 DEF PairHandle
  <2>2. /\ call'[t].phase = "handling"
        /\ call'[t].src = call[t].src /\ call'[t].peer = call[t].peer
        /\ \A u \in Task : u # t => call'[u] = call[u]
    BY <1>11, <2>1 DEF PairHandle, Call
  <2>3. paired' = paired /\ heard' = heard /\ wasPaired' = wasPaired /\ asked' = asked
    BY <1>11 DEF PairHandle
  <2> QED
    BY <2>1, <2>2, <2>3
<1>12. ASSUME NEW t \in Task, PairAbandoned(t) PROVE RequestInv'
  BY <1>12 DEF PairAbandoned
<1>13. ASSUME NEW n \in Node, NEW nm \in Name, Rename(n, nm) PROVE RequestInv'
  BY <1>13 DEF Rename
<1>14. ASSUME NEW n \in Node, NEW w \in Addr, Move(n, w) PROVE RequestInv'
  BY <1>14 DEF Move
<1>15. ASSUME NEW n \in Node, Restart(n) PROVE RequestInv'
  BY <1>15 DEF Restart, NoCall
<1>16. CASE UNCHANGED pairingVars
  BY <1>16 DEF pairingVars
<1> QED
  BY <1>6, <1>7, <1>8, <1>9, <1>10, <1>11, <1>12, <1>13, <1>14, <1>15, <1>16
  DEF PairingNext, Discovery, PairStep, Change

-----------------------------------------------------------------------------
(* The handshake: PairingSpec implements Handshake *)

\* A discovery loop stores a peer as paired only when the row already says so.
LEMMA DiscoverStorePaired ==
  ASSUME RequestInv, NEW n \in Node, DiscoverStore(n)
  PROVE  paired' = paired /\ asked' = asked
<1> USE DEF RequestInv, TypeInv, TypeOK, CommitOrder
<1>1. heard[n] \in Announcement
  BY DEF DiscoverStore
<1>2. n \in wasPaired => heard[n].peer \in paired[n]
  BY DEF DiscoverStore
<1> QED
  BY <1>1, <1>2 DEF DiscoverStore, Upsert, callVars

\* Every step of the pairing exchange, of discovery and around them is a step of
\* the handshake or leaves who asked and who is paired alone.
LEMMA StepIsHandshake ==
  RequestInv /\ [PairingNext]_pairingVars => [Trust!Next]_<<asked, paired>>
<1> SUFFICES ASSUME RequestInv, [PairingNext]_pairingVars
             PROVE  [Trust!Next]_<<asked, paired>>
  OBVIOUS
<1>1. TypeInv /\ CommitOrder
  BY DEF RequestInv
<1>2. ASSUME NEW t \in Task, NEW n \in Node, NEW p \in Node, PairStart(t, n, p)
      PROVE  Trust!Next
  <2>1. Trust!Ask(n, p)
    BY <1>2 DEF PairStart, peerVars, Trust!Ask
  <2> QED
    BY <2>1 DEF Trust!Next
<1>3. ASSUME NEW t \in Task, PairAccept(t) PROVE Trust!Next
  <2>1. call[t] \in Call /\ call[t].dst \in Node
    BY <1>3, <1>1, BusyCall DEF PairAccept, TypeInv, CallsOK
  <2>2. PICK d \in Node : d = call[t].dst
    BY <2>1
  <2>3. PICK n \in Node : n = call[t].src
    BY <2>1 DEF Call
  <2>4. PICK q \in Node : q = call[t].peer
    BY <2>1 DEF Call
  <2>5. <<n, q>> \in asked
    BY <1>3, <1>1, <2>3, <2>4 DEF PairAccept, CommitOrder
  <2>6. paired' = [paired EXCEPT ![d] = @ \cup {n}]
    BY <1>3, <2>2, <2>3 DEF PairAccept, Upsert
  <2>7. asked' = asked
    BY <1>3 DEF PairAccept, Finished
  <2>8. Trust!Accept(d, n)
    BY <2>5, <2>6, <2>7 DEF Trust!Accept
  <2> QED
    BY <2>8 DEF Trust!Next
<1>4. ASSUME NEW t \in Task, PairFinish(t) PROVE Trust!Next
  <2>1. call[t] \in Call /\ call[t].dst \in Node
    BY <1>4, <1>1, BusyCall DEF PairFinish, TypeInv, CallsOK
  <2>2. PICK d \in Node : d = call[t].dst
    BY <2>1
  <2>3. PICK n \in Node : n = call[t].src
    BY <2>1 DEF Call
  <2>4. <<n, d>> \in asked
    BY <1>4, <1>1, <2>2, <2>3 DEF PairFinish, CommitOrder
  <2>5. n \in paired[d]
    BY <1>4, <1>1, <2>2, <2>3 DEF PairFinish, CommitOrder
  <2>6. paired' = [paired EXCEPT ![n] = @ \cup {d}]
    BY <1>4, <2>2, <2>3 DEF PairFinish, Upsert
  <2>7. asked' = asked
    BY <1>4 DEF PairFinish, Finished
  <2>8. Trust!Conclude(n, d)
    BY <2>4, <2>5, <2>6, <2>7 DEF Trust!Conclude
  <2> QED
    BY <2>8 DEF Trust!Next
<1>5. ASSUME NEW n \in Node, DiscoverStore(n) PROVE UNCHANGED <<asked, paired>>
  BY <1>5, DiscoverStorePaired
<1>6. ASSUME NEW t \in Task,
             \/ \E d \in Node : PairHandle(t, d)
             \/ PairMismatch(t) \/ PairLost(t) \/ PairAbandoned(t)
      PROVE  UNCHANGED <<asked, paired>>
  BY <1>6 DEF PairHandle, PairMismatch, PairLost, PairAbandoned, Finished, peerVars
<1>7. ASSUME NEW n \in Node, (\E p \in Node : Discover(n, p)) \/ Change(n)
      PROVE  UNCHANGED <<asked, paired>>
  BY <1>7 DEF Discover, Change, Rename, Move, Restart, peerVars, callVars
<1>8. CASE UNCHANGED pairingVars
  BY <1>8 DEF pairingVars, peerVars, callVars
<1> QED
  BY <1>2, <1>3, <1>4, <1>5, <1>6, <1>7, <1>8 DEF PairingNext, Discovery, PairStep

\* Pairing is the handshake: a node marks a peer paired by taking a request that the
\* peer's user made, or because its own user asked for that peer and the peer has marked
\* it paired first, and no mark is taken back; whoever answers at an address, whenever
\* calls are lost or given up, nodes restart, and discovery writes back what it has read.
THEOREM PairsOnlyByHandshake == PairingSpec => PairsByHandshake
<1>1. Init => Trust!Init
  BY DEF Init, Trust!Init
<1> QED
  BY <1>1, InitRequestInv, NextRequestInv, StepIsHandshake, PTL
  DEF PairingSpec, PairsByHandshake, Trust!Spec
-----------------------------------------------------------------------------
(* One-sided pairings *)

\* Whatever the handshake does, a trust that is not returned was asked for.
LEMMA HandshakeKeepsRequests ==
  TypeInv /\ OneSidedOnlyByRequest /\ [Trust!Next]_<<asked, paired>>
    => OneSidedOnlyByRequest'
<1> SUFFICES ASSUME TypeInv, OneSidedOnlyByRequest, [Trust!Next]_<<asked, paired>>,
                    NEW n \in Node, NEW p \in Node, n \in paired'[p], p \notin paired'[n]
             PROVE  \E q \in Node : <<n, q>> \in asked'
  BY DEF OneSidedOnlyByRequest
<1> USE DEF TypeInv, TypeOK, OneSidedOnlyByRequest
<1>1. ASSUME NEW m \in Node, NEW d \in Node, Trust!Ask(m, d)
      PROVE  \E q \in Node : <<n, q>> \in asked'
  BY <1>1 DEF Trust!Ask
<1>2. ASSUME NEW m \in Node, NEW d \in Node, Trust!Accept(m, d)
      PROVE  \E q \in Node : <<n, q>> \in asked'
  <2>1. p \notin paired[n]
    BY <1>2 DEF Trust!Accept
  <2>2. n \in paired[p] \/ (p = m /\ n = d)
    BY <1>2 DEF Trust!Accept
  <2> QED
    BY <1>2, <2>1, <2>2 DEF Trust!Accept
<1>3. ASSUME NEW m \in Node, NEW d \in Node, Trust!Conclude(m, d)
      PROVE  \E q \in Node : <<n, q>> \in asked'
  <2>1. p \notin paired[n]
    BY <1>3 DEF Trust!Conclude
  <2>2. n \in paired[p] \/ (p = m /\ n = d)
    BY <1>3 DEF Trust!Conclude
  <2> QED
    BY <1>3, <2>1, <2>2 DEF Trust!Conclude
<1>4. CASE UNCHANGED <<asked, paired>>
  BY <1>4
<1> QED
  BY <1>1, <1>2, <1>3, <1>4 DEF Trust!Next

\* A pairing held by one side only was asked for by the other side.
THEOREM OneSidedPairings == PairingSpec => []OneSidedOnlyByRequest
<1>1. Init => OneSidedOnlyByRequest
  BY DEF Init, OneSidedOnlyByRequest
<1>2. RequestInv => TypeInv
  BY DEF RequestInv
<1> QED
  BY <1>1, <1>2, InitRequestInv, NextRequestInv, StepIsHandshake, HandshakeKeepsRequests, PTL
  DEF PairingSpec
==============================================================================
