------------------------------- MODULE Pairing -------------------------------
(***************************************************************************)
(* Who knows whom: the peers table of every node, filled by discovery and  *)
(* by the pairing exchange (core/nexus-core/src/node.rs, storage.rs and    *)
(* transport/lan.rs; apps/nexus_app/lib/core/nexus_core.dart for the nodes *)
(* that discover through Apple's Bonjour).                                 *)
(*                                                                         *)
(* mDNS stores the host name of a peer, which the resolver of the system   *)
(* follows wherever the peer goes; Bonjour stores a numeric address.       *)
(* Addresses move, and one that a node has left may be given to another,   *)
(* so a request sent to a stored address can reach nobody or the wrong     *)
(* node.  Calls, request handlers and the discovery loop of one node       *)
(* interleave between their accesses to its store.                         *)
(***************************************************************************)
EXTENDS Naturals

CONSTANTS
  Node,       \* devices, by device id
  Name,       \* display names
  Addr,       \* numeric network addresses
  Bonjour,    \* nodes whose discovery runs in the app, not in the core
  Task,       \* slots for pair calls in progress
  FirstName,  \* name of each node when it is installed
  FirstAddr,  \* address of each node at the start
  MaxChanges, \* bound on renames, moves and restarts
  None        \* no name, no endpoint, no node

ASSUME BonjourAssumption == Bonjour \subseteq Node
ASSUME FirstNameAssumption == FirstName \in [Node -> Name]
ASSUME FirstAddrAssumption ==
  /\ FirstAddr \in [Node -> Addr]
  /\ \A n, p \in Node : FirstAddr[n] = FirstAddr[p] => n = p
ASSUME ChangesAssumption == MaxChanges \in Nat
ASSUME AbsentAssumption ==
  /\ None \notin Node \cup Name \cup Addr
  /\ Node \cap Addr = {}

VARIABLES
  name,       \* display name of each node, in memory and in local_identity
  announced,  \* the name in each node's service announcement
  addr,       \* where each node listens
  storedName, \* peers.identity_json: the name a node has stored, None without a row
  paired,     \* peers.paired: the peers a node has marked paired
  endpoint,   \* peers.host and port: None when NULL or without a row
  heard,      \* the announcement each discovery loop is handling
  wasPaired,  \* nodes whose discovery loop has found that peer to be paired
  call,       \* pair calls in progress
  live,       \* pair calls whose client still waits
  asked,      \* history: <<n, p>> when a user of n has asked to pair with p
  changes     \* renames, moves and restarts so far

selfVars == <<name, announced, addr>>
peerVars == <<storedName, paired, endpoint>>
hearVars == <<heard, wasPaired>>
callVars == <<call, live, asked>>
pairingVars == <<selfVars, peerVars, hearVars, callVars, changes>>

\* A stored endpoint: a numeric address, or the host name of a node, written as
\* the node it names.
Endpoint == Addr \cup Node
Reaches(ep, n) == ep = addr[n] \/ ep = n

Announcement == [peer : Node, name : Name, ep : Endpoint]
NotHearing == [peer |-> None, name |-> None, ep |-> None]

\* A pair call: src sends a PairRequest for peer to ep, as name; it is handled by
\* dst, which had stored an endpoint hep for src, and answered as rname.  phase
\* names what happens next.
Call == [phase : {"request", "handling", "response"},
         src : Node, peer : Node, ep : Endpoint, name : Name,
         dst : Node \cup {None}, hep : Endpoint \cup {None}, rname : Name \cup {None}]
NoCall == [phase |-> "idle", src |-> None, peer |-> None, ep |-> None, name |-> None,
           dst |-> None, hep |-> None, rname |-> None]

TypeOK ==
  /\ name \in [Node -> Name]
  /\ announced \in [Node -> Name]
  /\ addr \in [Node -> Addr]
  /\ storedName \in [Node -> [Node -> Name \cup {None}]]
  /\ paired \in [Node -> SUBSET Node]
  /\ endpoint \in [Node -> [Node -> Endpoint \cup {None}]]
  /\ heard \in [Node -> Announcement \cup {NotHearing}]
  /\ wasPaired \subseteq Node
  /\ call \in [Task -> Call \cup {NoCall}]
  /\ live \subseteq Task
  /\ asked \subseteq Node \X Node
  /\ changes \in 0..MaxChanges

Init ==
  /\ name = FirstName
  /\ announced = FirstName
  /\ addr = FirstAddr
  /\ storedName = [n \in Node |-> [p \in Node |-> None]]
  /\ paired = [n \in Node |-> {}]
  /\ endpoint = [n \in Node |-> [p \in Node |-> None]]
  /\ heard = [n \in Node |-> NotHearing]
  /\ wasPaired = {}
  /\ call = [t \in Task |-> NoCall]
  /\ live = {}
  /\ asked = {}
  /\ changes = 0

-----------------------------------------------------------------------------
(* The peers table *)

\* Mutants of Upsert: the flag or the endpoint of the new row replaces the old
\* one, or the first endpoint is kept.
UpsertReplacesPaired(n, p, nm, ep, pd) ==
  /\ storedName' = [storedName EXCEPT ![n][p] = nm]
  /\ paired' = [paired EXCEPT ![n] = IF pd THEN @ \cup {p} ELSE @ \ {p}]
  /\ endpoint' = IF ep = None THEN endpoint ELSE [endpoint EXCEPT ![n][p] = ep]
UpsertReplacesEndpoint(n, p, nm, ep, pd) ==
  /\ storedName' = [storedName EXCEPT ![n][p] = nm]
  /\ paired' = [paired EXCEPT ![n] = IF pd THEN @ \cup {p} ELSE @]
  /\ endpoint' = [endpoint EXCEPT ![n][p] = ep]
UpsertKeepsEndpoint(n, p, nm, ep, pd) ==
  /\ storedName' = [storedName EXCEPT ![n][p] = nm]
  /\ paired' = [paired EXCEPT ![n] = IF pd THEN @ \cup {p} ELSE @]
  /\ endpoint' = [endpoint EXCEPT ![n][p] = IF @ = None THEN ep ELSE @]

\* upsert_peer at n: the name is replaced, paired is the MAX of old and new, and
\* an endpoint is replaced unless the new one is NULL.
Upsert(n, p, nm, ep, pd) ==
  /\ storedName' = [storedName EXCEPT ![n][p] = nm]
  /\ paired' = [paired EXCEPT ![n] = IF pd THEN @ \cup {p} ELSE @]
  /\ endpoint' = IF ep = None THEN endpoint ELSE [endpoint EXCEPT ![n][p] = ep]

\* require_reachable_peer and require_paired_peer at n.
Reachable(n, p) == endpoint[n][p] # None
PairedPeer(n, p) == Reachable(n, p) /\ p \in paired[n]

\* require_sender_paired at n: the identity in the request, its name included,
\* is the stored one.
SenderPaired(n, p, nm) == p \in paired[n] /\ storedName[n][p] = nm

-----------------------------------------------------------------------------
(* Discovery *)

\* The endpoint that n gets with p's announcement: the host name, or the best of the
\* numeric addresses that Bonjour has resolved.
Resolved(n, p) == IF n \in Bonjour THEN addr[p] ELSE p

\* n resolves p's announcement (its own is skipped), and handling it has read
\* whether p is paired.
Discover(n, p) ==
  /\ n # p
  /\ heard[n] = NotHearing
  /\ heard' = [heard EXCEPT ![n] = [peer |-> p, name |-> announced[p], ep |-> Resolved(n, p)]]
  /\ wasPaired' = IF p \in paired[n] THEN wasPaired \cup {n} ELSE wasPaired \ {n}
  /\ UNCHANGED <<selfVars, peerVars, callVars, changes>>

\* Then it stores the row.  In between, a pair call or a handler may have paired p.
DiscoverStore(n) ==
  /\ heard[n] # NotHearing
  /\ Upsert(n, heard[n].peer, heard[n].name, heard[n].ep, n \in wasPaired)
  /\ heard' = [heard EXCEPT ![n] = NotHearing]
  /\ wasPaired' = wasPaired \ {n}
  /\ UNCHANGED <<selfVars, callVars, changes>>

-----------------------------------------------------------------------------
(* The pairing exchange *)

Finished(t) ==
  /\ call' = [call EXCEPT ![t] = NoCall]
  /\ live' = live \ {t}
  /\ asked' = asked

\* Mutant: the call does not look whether the peer has an endpoint.
PairStartOffline(t, n, p) ==
  /\ call[t] = NoCall
  /\ call' = [call EXCEPT ![t] =
                 [phase |-> "request", src |-> n, peer |-> p, ep |-> endpoint[n][p],
                  name |-> name[n], dst |-> None, hep |-> None, rname |-> None]]
  /\ live' = live \cup {t}
  /\ asked' = asked \cup {<<n, p>>}
  /\ UNCHANGED <<selfVars, peerVars, hearVars, changes>>

\* The user of n asks to pair with p: the call reads p's endpoint and n's identity.
PairStart(t, n, p) ==
  /\ call[t] = NoCall
  /\ Reachable(n, p)
  /\ call' = [call EXCEPT ![t] =
                 [phase |-> "request", src |-> n, peer |-> p, ep |-> endpoint[n][p],
                  name |-> name[n], dst |-> None, hep |-> None, rname |-> None]]
  /\ live' = live \cup {t}
  /\ asked' = asked \cup {<<n, p>>}
  /\ UNCHANGED <<selfVars, peerVars, hearVars, changes>>

\* Whoever listens at that endpoint takes the request, and reads the endpoint it
\* has stored for the sender.
PairHandle(t, d) ==
  /\ call[t].phase = "request"
  /\ Reaches(call[t].ep, d)
  /\ call' = [call EXCEPT ![t] = [@ EXCEPT !.phase = "handling", !.dst = d,
                                          !.hep = endpoint[d][call[t].src]]]
  /\ UNCHANGED <<selfVars, peerVars, hearVars, live, asked, changes>>

\* It accepts every request: the sender is stored as paired, under the name it
\* gave, with the endpoint read before, and the response carries the receiver's
\* own name.
PairAccept(t) ==
  /\ call[t].phase = "handling"
  /\ Upsert(call[t].dst, call[t].src, call[t].name, call[t].hep, TRUE)
  /\ IF t \in live
     THEN /\ call' = [call EXCEPT ![t] = [@ EXCEPT !.phase = "response",
                                                  !.rname = name[call[t].dst]]]
          /\ UNCHANGED <<live, asked>>
     ELSE Finished(t)
  /\ UNCHANGED <<selfVars, hearVars, changes>>

\* Mutant: the identity in the response is not compared with the peer asked for.
PairFinishUnchecked(t) ==
  /\ call[t].phase = "response"
  /\ Upsert(call[t].src, call[t].peer, call[t].rname, call[t].ep, TRUE)
  /\ Finished(t)
  /\ UNCHANGED <<selfVars, hearVars, changes>>

\* The client stores the responder as paired, at the endpoint it called.
PairFinish(t) ==
  /\ call[t].phase = "response"
  /\ call[t].dst = call[t].peer
  /\ Upsert(call[t].src, call[t].dst, call[t].rname, call[t].ep, TRUE)
  /\ Finished(t)
  /\ UNCHANGED <<selfVars, hearVars, changes>>

\* "response identity mismatch": somebody else answered at that endpoint.
PairMismatch(t) ==
  /\ call[t].phase = "response"
  /\ call[t].dst # call[t].peer
  /\ Finished(t)
  /\ UNCHANGED <<selfVars, peerVars, hearVars, changes>>

\* Nobody listens there, or the connection breaks before the request is read or
\* after the response is written.
PairLost(t) ==
  /\ call[t].phase \in {"request", "response"}
  /\ Finished(t)
  /\ UNCHANGED <<selfVars, peerVars, hearVars, changes>>

\* The connection breaks for the client while its request is on the way or being
\* handled; the handler goes on.
PairAbandoned(t) ==
  /\ t \in live
  /\ call[t].phase \in {"request", "handling"}
  /\ live' = live \ {t}
  /\ UNCHANGED <<selfVars, peerVars, hearVars, call, asked, changes>>

-----------------------------------------------------------------------------
(* Changes around the exchange *)

\* set_display_name.  The announcement of a node with mDNS was built in Node::new
\* and keeps the old name; the app restarts its Bonjour announcement.
Rename(n, nm) ==
  /\ changes < MaxChanges
  /\ nm # name[n]
  /\ name' = [name EXCEPT ![n] = nm]
  /\ announced' = IF n \in Bonjour THEN [announced EXCEPT ![n] = nm] ELSE announced
  /\ changes' = changes + 1
  /\ UNCHANGED <<addr, peerVars, hearVars, callVars>>

\* The network gives n a free address.
Move(n, a) ==
  /\ changes < MaxChanges
  /\ \A p \in Node : addr[p] # a
  /\ addr' = [addr EXCEPT ![n] = a]
  /\ changes' = changes + 1
  /\ UNCHANGED <<name, announced, peerVars, hearVars, callVars>>

\* n's process dies and starts again on its data directory: its tables and name
\* are kept, its announcement is built anew, its clients and handlers are gone.
Restart(n) ==
  /\ changes < MaxChanges
  /\ announced' = [announced EXCEPT ![n] = name[n]]
  /\ heard' = [heard EXCEPT ![n] = NotHearing]
  /\ wasPaired' = wasPaired \ {n}
  /\ call' = [t \in Task |->
                IF \/ call[t].dst = n /\ call[t].phase = "handling"
                   \/ call[t].src = n /\ call[t].phase = "response"
                THEN NoCall ELSE call[t]]
  /\ live' = {t \in live : call[t].src # n /\ call'[t] # NoCall}
  /\ changes' = changes + 1
  /\ UNCHANGED <<name, addr, peerVars, asked>>

-----------------------------------------------------------------------------
Discovery(n) == (\E p \in Node : Discover(n, p)) \/ DiscoverStore(n)

PairStep(t) ==
  \/ \E n, p \in Node : PairStart(t, n, p)
  \/ \E d \in Node : PairHandle(t, d)
  \/ PairAccept(t) \/ PairFinish(t) \/ PairMismatch(t) \/ PairLost(t) \/ PairAbandoned(t)

Change(n) ==
  (\E nm \in Name : Rename(n, nm)) \/ (\E a \in Addr : Move(n, a)) \/ Restart(n)

PairingNext ==
  \/ \E n \in Node : Discovery(n) \/ Change(n)
  \/ \E t \in Task : PairStep(t)

PairingSpec == Init /\ [][PairingNext]_pairingVars

\* mDNS and Bonjour resolve every announcement on the network again and again,
\* and the discovery loop handles what it is given.
DiscoveryFairness ==
  /\ \A n, p \in Node : n # p => SF_pairingVars(Discover(n, p))
  /\ \A n \in Node : WF_pairingVars(DiscoverStore(n))

FairPairingSpec == PairingSpec /\ DiscoveryFairness

-----------------------------------------------------------------------------
(* Properties *)

\* A peer once paired stays paired, though discovery reads the flag, lets pair
\* calls and handlers run, and writes what it read back.
PairedNeverRevoked == \A n \in Node : paired[n] \subseteq paired'[n]
PairingIsStable == [][PairedNeverRevoked]_pairingVars

\* An endpoint once known is replaced and never forgotten, though a request
\* handler writes back one it read before, which may be NULL.
EndpointNeverForgotten ==
  \A n, p \in Node : endpoint[n][p] # None => endpoint'[n][p] # None
EndpointsAreKept == [][EndpointNeverForgotten]_pairingVars

\* Pairing is the handshake of docs/protocol.md: no pairing without the request of a
\* user, none at the client before the one at the peer it asked, and none revoked,
\* though others answer at the peer's address, clients give up, and discovery writes
\* the flag that it has read.
Trust == INSTANCE Handshake WITH Met <- {}, trusts <- paired
PairsByHandshake == Trust!Spec

\* A peer can hold n paired while n does not hold it only because n asked for a
\* pairing: the receiver commits first, and the client checks who answered.
OneSidedOnlyByRequest ==
  \A n, p \in Node :
    n \in paired[p] /\ p \notin paired[n] => \E q \in Node : <<n, q>> \in asked

\* Once the network settles, every node can reach every other again and again,
\* though pair calls and handlers may write old addresses back.
EndpointsHeal == \A n, p \in Node : n # p => []<>Reaches(endpoint[n][p], p)

\* "Automatic two-way event sync and incomplete-file recovery when a paired peer is
\* rediscovered", with "persistent custom device names" (README.md): once the network
\* settles, a node that its peer has paired has its requests admitted there again and
\* again, whatever they are called by then.
PairedPeersAreAdmitted ==
  \A n, p \in Node : n # p => []<>(n \in paired[p] => SenderPaired(p, n, name[n]))
==============================================================================
