------------------------------ MODULE EventSync ------------------------------
(***************************************************************************)
(* The event logs of paired nodes and the two exchanges that fill them:    *)
(* the push of one new event (send_text, send_file) and the sync that a    *)
(* discovery, a finished pairing or the user starts (node.rs).             *)
(*                                                                         *)
(* An exchange is one request and its response.  Its client and its        *)
(* handler run on two nodes, interleave with every other exchange and with *)
(* the pairing and discovery of module Pairing, and touch the store event  *)
(* by event; a file's event is stored first and its manifest after it.     *)
(***************************************************************************)
EXTENDS Pairing, FiniteSets

CONSTANTS
  Event,      \* events that the users may send
  AuthorOf,   \* the author of an event
  PeerOf,     \* the peer it is for
  File,       \* the events that carry a file manifest
  Exchange,   \* slots for exchanges in progress
  MaxFrame,   \* how many events fit into one 8 MiB frame
  Met         \* <<n, p>> when n has paired and discovered p before the start

ASSUME EventAssumption ==
  /\ AuthorOf \in [Event -> Node] /\ PeerOf \in [Event -> Node]
  /\ \A e \in Event : AuthorOf[e] # PeerOf[e]
ASSUME FileAssumption == File \subseteq Event
ASSUME FrameAssumption == MaxFrame \in Nat
ASSUME MetAssumption ==
  /\ Met \subseteq Node \X Node
  /\ \A n, p \in Node : <<n, p>> \in Met => n # p /\ <<p, n>> \in Met
ASSUME NoEventAssumption == None \notin Event

VARIABLES
  log,        \* the events table of each node
  manifests,  \* the file events whose manifest is in each node's manifests table
  due,        \* <<n, p>> when n has a sync with p to start
  xch,        \* exchanges in progress
  waiting,    \* the exchanges whose client still waits
  acked       \* history: events whose push was acknowledged

eventVars == <<log, manifests, due, xch, waiting, acked>>
vars == <<pairingVars, eventVars>>

Busy == [op : {"push", "sync"},
         phase : {"reading", "saving", "request", "merging", "response", "taking"},
         src : Node, peer : Node, ep : Endpoint, name : Name \cup {None},
         known : SUBSET Event, sent : SUBSET Event, promised : SUBSET Event,
         todo : SUBSET Event, filing : Event \cup {None}]
Free == [op |-> "none", phase |-> "free", src |-> None, peer |-> None, ep |-> None,
         name |-> None, known |-> {}, sent |-> {}, promised |-> {}, todo |-> {},
         filing |-> None]

EventTypeOK ==
  /\ log \in [Node -> SUBSET Event]
  /\ manifests \in [Node -> SUBSET File]
  /\ due \subseteq Node \X Node
  /\ xch \in [Exchange -> Busy \cup {Free}]
  /\ waiting \subseteq Exchange
  /\ acked \subseteq Event

\* The tables of nodes of which some have met before, with empty logs.
EventInit ==
  /\ name = FirstName
  /\ announced = FirstName
  /\ addr = FirstAddr
  /\ storedName = [n \in Node |-> [p \in Node |-> IF <<n, p>> \in Met THEN FirstName[p] ELSE None]]
  /\ paired = [n \in Node |-> {p \in Node : <<n, p>> \in Met}]
  /\ endpoint = [n \in Node |-> [p \in Node |->
                   IF <<n, p>> \notin Met THEN None ELSE IF n \in Bonjour THEN FirstAddr[p] ELSE p]]
  /\ heard = [n \in Node |-> NotHearing]
  /\ wasPaired = {}
  /\ call = [t \in Task |-> NoCall]
  /\ live = {}
  /\ asked = {}
  /\ changes = 0
  /\ log = [n \in Node |-> {}]
  /\ manifests = [n \in Node |-> {}]
  /\ due = {}
  /\ xch = [x \in Exchange |-> Free]
  /\ waiting = {}
  /\ acked = {}

-----------------------------------------------------------------------------
(* Sending: the client side *)

\* The events of the stream of n and p that n has, and those of them n wrote.
StreamOf(n, p) == {e \in log[n] : {AuthorOf[e], PeerOf[e]} = {n, p}}
Own(n, p) == {e \in StreamOf(n, p) : AuthorOf[e] = n}

Fits(events) == Cardinality(events) <= MaxFrame

Release(x) ==
  /\ xch' = [xch EXCEPT ![x] = Free]
  /\ waiting' = waiting \ {x}

\* A call of n's user: the peer's row is read and gives the endpoint.
Opened(n, p, operation, step) ==
  [Free EXCEPT !.op = operation, !.phase = step, !.src = n, !.peer = p,
               !.ep = endpoint[n][p]]

Unwritten(e) == e \notin log[AuthorOf[e]] /\ \A x \in Exchange : e \notin xch[x].sent

\* Mutant: the push is sent before the event is stored.
SendTextUnstored(x, e) ==
  LET n == AuthorOf[e] IN
  /\ xch[x] = Free
  /\ e \notin File /\ Unwritten(e)
  /\ PairedPeer(n, PeerOf[e])
  /\ xch' = [xch EXCEPT ![x] = [Opened(n, PeerOf[e], "push", "request") EXCEPT
                                  !.name = name[n], !.sent = {e}]]
  /\ waiting' = waiting \cup {x}
  /\ UNCHANGED <<pairingVars, log, manifests, due, acked>>

\* send_text: the event is stored at its author and its push is sent.
SendText(x, e) ==
  LET n == AuthorOf[e] IN
  /\ xch[x] = Free
  /\ e \notin File /\ Unwritten(e)
  /\ PairedPeer(n, PeerOf[e])
  /\ log' = [log EXCEPT ![n] = @ \cup {e}]
  /\ xch' = [xch EXCEPT ![x] = [Opened(n, PeerOf[e], "push", "request") EXCEPT
                                  !.name = name[n], !.sent = {e}]]
  /\ waiting' = waiting \cup {x}
  /\ UNCHANGED <<pairingVars, manifests, due, acked>>

\* send_file stores the manifest first...
SendFile(x, e) ==
  LET n == AuthorOf[e] IN
  /\ xch[x] = Free
  /\ e \in File /\ Unwritten(e) /\ e \notin manifests[n]
  /\ PairedPeer(n, PeerOf[e])
  /\ manifests' = [manifests EXCEPT ![n] = @ \cup {e}]
  /\ xch' = [xch EXCEPT ![x] = [Opened(n, PeerOf[e], "push", "saving") EXCEPT !.sent = {e}]]
  /\ waiting' = waiting \cup {x}
  /\ UNCHANGED <<pairingVars, log, due, acked>>

\* ... then the event, and sends its push.
SendFileEvent(x) ==
  /\ xch[x].phase = "saving"
  /\ log' = [log EXCEPT ![xch[x].src] = @ \cup xch[x].sent]
  /\ xch' = [xch EXCEPT ![x] = [@ EXCEPT !.phase = "request", !.name = name[xch[x].src]]]
  /\ UNCHANGED <<pairingVars, manifests, due, waiting, acked>>

\* sync reads the event ids it knows...
SyncStart(x, n, p) ==
  /\ xch[x] = Free
  /\ PairedPeer(n, p)
  /\ xch' = [xch EXCEPT ![x] = [Opened(n, p, "sync", "reading") EXCEPT !.known = StreamOf(n, p)]]
  /\ waiting' = waiting \cup {x}
  /\ UNCHANGED <<pairingVars, log, manifests, acked>>

SyncByUser(x, n, p) == SyncStart(x, n, p) /\ due' = due

SyncDue(x, n, p) == <<n, p>> \in due /\ SyncStart(x, n, p) /\ due' = due \ {<<n, p>>}

\* ... then every event of its own, and sends them all; a frame that is too large
\* is not sent.
SyncSend(x) ==
  LET n == xch[x].src own == Own(n, xch[x].peer) IN
  /\ xch[x].phase = "reading"
  /\ IF Fits(own)
     THEN /\ xch' = [xch EXCEPT ![x] = [@ EXCEPT !.phase = "request", !.name = name[n],
                                                 !.sent = own]]
          /\ waiting' = waiting
     ELSE Release(x)
  /\ UNCHANGED <<pairingVars, log, manifests, due, acked>>

-----------------------------------------------------------------------------
(* Handling: the server side *)

\* Mutant: the sender's identity is not looked up in the peers table.
AdmitsAnyone(x, d) == d = xch[x].peer

\* Who takes the request, and whether its checks let the request in: the sender's
\* identity is the stored one, and the stream is the receiver's with the sender.
Admits(x, d) == SenderPaired(d, xch[x].src, xch[x].name) /\ d = xch[x].peer

Handle(x, d) ==
  /\ xch[x].phase = "request"
  /\ Reaches(xch[x].ep, d)
  /\ Admits(x, d)
  /\ xch' = [xch EXCEPT ![x] = [@ EXCEPT !.phase = "merging", !.todo = xch[x].sent]]
  /\ UNCHANGED <<pairingVars, log, manifests, due, waiting, acked>>

\* The checks fail: the client gets an Error and gives up.
Refuse(x, d) ==
  /\ xch[x].phase = "request"
  /\ Reaches(xch[x].ep, d)
  /\ ~Admits(x, d)
  /\ Release(x)
  /\ UNCHANGED <<pairingVars, log, manifests, due, acked>>

\* Mutants: every new event is filed; only an event known before is filed.
StoreEventFilesAll(x, n, e) ==
  /\ e \in xch[x].todo
  /\ xch[x].filing = None
  /\ log' = [log EXCEPT ![n] = @ \cup {e}]
  /\ xch' = [xch EXCEPT ![x] = [@ EXCEPT !.todo = xch[x].todo \ {e},
                                  !.filing = IF e \notin log[n] THEN e ELSE None]]
  /\ UNCHANGED <<pairingVars, manifests, due, waiting, acked>>
StoreEventFilesKnown(x, n, e) ==
  /\ e \in xch[x].todo
  /\ xch[x].filing = None
  /\ log' = [log EXCEPT ![n] = @ \cup {e}]
  /\ xch' = [xch EXCEPT ![x] = [@ EXCEPT !.todo = xch[x].todo \ {e},
                                  !.filing = IF e \in File \cap log[n] THEN e ELSE None]]
  /\ UNCHANGED <<pairingVars, manifests, due, waiting, acked>>

\* insert_event at node n: INSERT OR IGNORE.  The manifest of a new file event is
\* stored by the next step.
StoreEvent(x, n, e) ==
  /\ e \in xch[x].todo
  /\ xch[x].filing = None
  /\ log' = [log EXCEPT ![n] = @ \cup {e}]
  /\ xch' = [xch EXCEPT ![x] = [@ EXCEPT !.todo = xch[x].todo \ {e},
                                  !.filing = IF e \in File \ log[n] THEN e ELSE None]]
  /\ UNCHANGED <<pairingVars, manifests, due, waiting, acked>>

\* process_manifest at node n.
StoreManifest(x, n) ==
  /\ xch[x].filing # None
  /\ manifests' = [manifests EXCEPT ![n] = @ \cup {xch[x].filing}]
  /\ xch' = [xch EXCEPT ![x] = [@ EXCEPT !.filing = None]]
  /\ UNCHANGED <<pairingVars, log, due, waiting, acked>>

HandlerStores(x) ==
  /\ xch[x].phase = "merging"
  /\ \/ \E e \in Event : StoreEvent(x, xch[x].peer, e)
     \/ StoreManifest(x, xch[x].peer)

\* Mutant: the answer does not wait until the events are stored.
AnswerEarly(x) ==
  LET d == xch[x].peer
      missing == IF xch[x].op = "sync" THEN Own(d, xch[x].src) \ xch[x].known ELSE {}
  IN
  /\ xch[x].phase = "merging"
  /\ IF x \in waiting /\ Fits(missing)
     THEN /\ xch' = [xch EXCEPT ![x] = [@ EXCEPT !.phase = "response", !.promised = missing]]
          /\ waiting' = waiting
     ELSE Release(x)
  /\ UNCHANGED <<pairingVars, log, manifests, due, acked>>

\* Everything is stored: an Ack, or the receiver's own events that the sender does
\* not know.  A response that does not fit into a frame is not sent.
Answer(x) ==
  LET d == xch[x].peer
      missing == IF xch[x].op = "sync" THEN Own(d, xch[x].src) \ xch[x].known ELSE {}
  IN
  /\ xch[x].phase = "merging"
  /\ xch[x].todo = {} /\ xch[x].filing = None
  /\ IF x \in waiting /\ Fits(missing)
     THEN /\ xch' = [xch EXCEPT ![x] = [@ EXCEPT !.phase = "response", !.promised = missing]]
          /\ waiting' = waiting
     ELSE Release(x)
  /\ UNCHANGED <<pairingVars, log, manifests, due, acked>>

-----------------------------------------------------------------------------
(* The client takes the response *)

PushAcked(x) ==
  /\ xch[x].phase = "response" /\ xch[x].op = "push"
  /\ acked' = acked \cup xch[x].sent
  /\ Release(x)
  /\ UNCHANGED <<pairingVars, log, manifests, due>>

\* Mutant: the events of the response are not stored.
SyncTakeNothing(x) ==
  /\ xch[x].phase = "response" /\ xch[x].op = "sync"
  /\ xch' = [xch EXCEPT ![x] = [@ EXCEPT !.phase = "taking", !.todo = {}]]
  /\ UNCHANGED <<pairingVars, log, manifests, due, waiting, acked>>

SyncTake(x) ==
  /\ xch[x].phase = "response" /\ xch[x].op = "sync"
  /\ xch' = [xch EXCEPT ![x] = [@ EXCEPT !.phase = "taking", !.todo = xch[x].promised]]
  /\ UNCHANGED <<pairingVars, log, manifests, due, waiting, acked>>

ClientStores(x) ==
  /\ xch[x].phase = "taking"
  /\ \/ \E e \in Event : StoreEvent(x, xch[x].src, e)
     \/ StoreManifest(x, xch[x].src)

\* SyncComplete: what is left is to resume incomplete files.
SyncDone(x) ==
  /\ xch[x].phase = "taking"
  /\ xch[x].todo = {} /\ xch[x].filing = None
  /\ Release(x)
  /\ UNCHANGED <<pairingVars, log, manifests, due, acked>>

-----------------------------------------------------------------------------
(* Failures *)

\* Nobody answers, or the connection breaks before the request is read or after
\* the response is written.
Lost(x) ==
  /\ xch[x].phase \in {"request", "response"}
  /\ Release(x)
  /\ UNCHANGED <<pairingVars, log, manifests, due, acked>>

\* The connection breaks for the client; the handler goes on.
Abandoned(x) ==
  /\ x \in waiting
  /\ xch[x].phase \in {"request", "merging"}
  /\ waiting' = waiting \ {x}
  /\ UNCHANGED <<pairingVars, log, manifests, due, xch, acked>>

\* An error of the store ends the exchange; what is stored stays.
StoreFails(x) ==
  /\ changes < MaxChanges
  /\ xch[x].phase \in {"saving", "reading", "merging", "taking"}
  /\ changes' = changes + 1
  /\ Release(x)
  /\ UNCHANGED <<selfVars, peerVars, hearVars, callVars, log, manifests, due, acked>>

\* The process of n dies, with its clients and handlers, between any two steps.
RestartNode(n) ==
  /\ Restart(n)
  /\ due' = {d \in due : d[1] # n}
  /\ xch' = [x \in Exchange |->
               IF \/ xch[x].peer = n /\ xch[x].phase = "merging"
                  \/ xch[x].src = n /\ xch[x].phase \notin {"request", "merging"}
               THEN Free ELSE xch[x]]
  /\ waiting' = {x \in waiting : xch[x].src # n /\ xch'[x] # Free}
  /\ UNCHANGED <<log, manifests, acked>>

-----------------------------------------------------------------------------
(* Pairing and discovery start syncs *)

\* Mutant: a discovery spawns no sync.
DiscoverWithoutSync(n) ==
  /\ DiscoverStore(n)
  /\ due' = due
  /\ UNCHANGED <<log, manifests, xch, waiting, acked>>

\* A sync is spawned when the core discovers a peer it has found to be paired;
\* remember_peer, which Bonjour uses, spawns none.
DiscoverAndSync(n) ==
  /\ DiscoverStore(n)
  /\ due' = IF n \in wasPaired \ Bonjour THEN due \cup {<<n, heard[n].peer>>} ELSE due
  /\ UNCHANGED <<log, manifests, xch, waiting, acked>>

\* pair ends with a sync.
PairAndSync(t) ==
  /\ PairFinish(t)
  /\ due' = due \cup {<<call[t].src, call[t].peer>>}
  /\ UNCHANGED <<log, manifests, xch, waiting, acked>>

PairingOnly ==
  /\ \/ \E n, p \in Node : Discover(n, p)
     \/ \E t \in Task :
          \/ \E n, p \in Node : PairStart(t, n, p)
          \/ \E d \in Node : PairHandle(t, d)
          \/ PairAccept(t) \/ PairMismatch(t) \/ PairLost(t) \/ PairAbandoned(t)
     \/ \E n \in Node :
          (\E nm \in Name : Rename(n, nm)) \/ (\E w \in Addr : Move(n, w))
  /\ UNCHANGED eventVars

ExchangeStep(x) ==
  \/ \E e \in Event : SendText(x, e) \/ SendFile(x, e)
  \/ SendFileEvent(x)
  \/ \E n, p \in Node : SyncByUser(x, n, p) \/ SyncDue(x, n, p)
  \/ SyncSend(x)
  \/ \E d \in Node : Handle(x, d) \/ Refuse(x, d)
  \/ HandlerStores(x) \/ Answer(x)
  \/ PushAcked(x) \/ SyncTake(x) \/ ClientStores(x) \/ SyncDone(x)
  \/ Lost(x) \/ Abandoned(x) \/ StoreFails(x)

Next ==
  \/ PairingOnly
  \/ \E n \in Node : DiscoverAndSync(n) \/ RestartNode(n)
  \/ \E t \in Task : PairAndSync(t)
  \/ \E x \in Exchange : ExchangeStep(x)

Spec == EventInit /\ [][Next]_vars

\* Peers keep rediscovering each other; a spawned sync gets to run; a request that
\* is sent again and again is at last read; what runs on a node goes on, and a
\* broken connection is noticed.
Fairness ==
  /\ \A n, p \in Node : n # p =>
       /\ SF_vars(Discover(n, p) /\ UNCHANGED eventVars)
       /\ SF_vars(\E x \in Exchange : SyncDue(x, n, p))
  /\ \A n \in Node :
       /\ WF_vars(DiscoverAndSync(n))
       /\ SF_vars(\E x \in Exchange : xch[x].src = n /\ \E d \in Node : Handle(x, d))
  /\ \A x \in Exchange :
       /\ WF_vars(SendFileEvent(x) \/ SyncSend(x) \/ HandlerStores(x) \/ Answer(x)
                  \/ SyncTake(x) \/ ClientStores(x) \/ SyncDone(x))
       /\ WF_vars(Lost(x) \/ \E d \in Node : Refuse(x, d))

FairSpec == Spec /\ Fairness

-----------------------------------------------------------------------------
(* Properties *)

\* The logs are the grow-only logs of docs/protocol.md, and the acknowledged pushes
\* their confirmations: nothing is ever removed, only the author starts an event,
\* only its peer receives it, and no acknowledgement comes before it.
Log == INSTANCE GrowOnlyLog WITH log <- log, confirmed <- acked
LogsOnlyGrow == Log!Spec

\* A push is acknowledged only when the peer has the event in its log, whatever
\* other exchange stored it.
AckMeansStored == \A e \in acked : e \in log[PeerOf[e]]

\* When a sync has taken its response, the receiver has all the sender had written
\* and the sender all the receiver had written, though pushes and other syncs of
\* the two ran meanwhile and what the sender knows was read before them.
SyncIsComplete ==
  \A x \in Exchange : xch[x].phase = "taking" /\ xch[x].todo = {} =>
    /\ xch[x].sent \subseteq log[xch[x].peer]
    /\ xch[x].known \cup xch[x].promised \subseteq log[xch[x].src]

\* An event is taken only from a peer that the taker holds paired, and sent only to
\* one, though either may hold the other paired alone, and the checks are made
\* before the events are stored.
OnlyPairedPeersShare ==
  \A n \in Node : \A e \in log[n] : (IF AuthorOf[e] = n THEN PeerOf[e] ELSE AuthorOf[e]) \in paired[n]

\* While nothing fails, a node that has a file's event has its manifest, or the
\* exchange that stored the event is about to store it: a second copy of the event
\* stores no manifest, so the first must.
Filing(n, e) ==
  \E x \in Exchange :
    /\ xch[x].filing = e
    /\ n = IF xch[x].phase = "merging" THEN xch[x].peer ELSE xch[x].src
ManifestFollowsEvent ==
  changes = 0 => \A n \in Node : \A e \in log[n] \cap File : e \in manifests[n] \/ Filing(n, e)

\* docs/protocol.md, "Reconnect sync": every event its author has stored reaches
\* the peer it is for.
Converges == \A e \in Event : (e \in log[AuthorOf[e]]) ~> (e \in log[PeerOf[e]])

\* README: an incomplete file is recovered when its peer is rediscovered, for which
\* the node that has the file's event needs its manifest.
ManifestRecovers == \A e \in File : (e \in log[PeerOf[e]]) ~> (e \in manifests[PeerOf[e]])
==============================================================================
