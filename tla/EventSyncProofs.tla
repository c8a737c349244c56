---------------------------- MODULE EventSyncProofs ----------------------------
(***************************************************************************)
(* Proofs about the event logs, for any set of nodes, events, exchanges    *)
(* and pair calls, any frame limit, and any number of restarts, failed     *)
(* stores and changes.                                                     *)
(***************************************************************************)
EXTENDS EventSync, PairingProofs

USE EventAssumption, FileAssumption, FrameAssumption, MetAssumption, NoEventAssumption,
    BonjourAssumption, FirstNameAssumption, FirstAddrAssumption, ChangesAssumption,
    AbsentAssumption

-----------------------------------------------------------------------------
(* What an exchange knows *)

\* An exchange in progress has a paired client: what it carries was written by who
\* it says, is in that node's log, and what the other end has taken of it is in the
\* other's.  lg, mf and pd are the logs, manifests and pairings.
Carries(r, lg, mf, pd) ==
  /\ r.peer \in pd[r.src]
  /\ r.known \subseteq lg[r.src]
  /\ \A e \in r.sent : AuthorOf[e] = r.src /\ PeerOf[e] = r.peer
  /\ \A e \in r.promised : AuthorOf[e] = r.peer /\ PeerOf[e] = r.src
  /\ r.promised \subseteq lg[r.peer]
  /\ r.op = "push" => \E e \in Event : r.sent = {e}
  /\ r.phase = "reading" => r.op = "sync"
  /\ r.phase = "saving" => r.op = "push" /\ r.sent \subseteq mf[r.src]
  /\ r.phase # "saving" => r.sent \subseteq lg[r.src]
  /\ r.filing # None => r.filing \in File /\ r.phase \in {"merging", "taking"}
  /\ r.phase \in {"merging", "response", "taking"} => r.src \in pd[r.peer]
  /\ r.phase = "merging" => r.todo \subseteq r.sent /\ r.sent \subseteq lg[r.peer] \cup r.todo
  /\ r.phase \in {"response", "taking"} => r.sent \subseteq lg[r.peer]
  /\ r.phase = "taking" => r.todo \subseteq r.promised
                           /\ r.promised \subseteq lg[r.src] \cup r.todo

\* A slot is free or holds such an exchange.
SlotOK(r, lg, mf, pd) == r = Free \/ (r \in Busy /\ Carries(r, lg, mf, pd))

SlotsOK == \A x \in Exchange : SlotOK(xch[x], log, manifests, paired)

EventInv ==
  /\ TypeInv
  /\ EventTypeOK
  /\ SlotsOK
  /\ AckMeansStored
  /\ OnlyPairedPeersShare

LEMMA FreeIsNotBusy == Free \notin Busy /\ Free.phase = "free" /\ Free.filing = None
BY DEF Free, Busy

\* A slot stays as it should be while logs, manifests and pairings grow.
LEMMA SlotGrows ==
  ASSUME NEW lg \in [Node -> SUBSET Event], NEW lgN \in [Node -> SUBSET Event],
         NEW mf \in [Node -> SUBSET File], NEW mfN \in [Node -> SUBSET File],
         NEW pd \in [Node -> SUBSET Node], NEW pdN \in [Node -> SUBSET Node],
         \A n \in Node : lg[n] \subseteq lgN[n] /\ mf[n] \subseteq mfN[n] /\ pd[n] \subseteq pdN[n],
         NEW r, SlotOK(r, lg, mf, pd)
  PROVE  SlotOK(r, lgN, mfN, pdN)
<1>1. CASE r = Free
  BY <1>1 DEF SlotOK
<1>2. CASE r # Free
  <2>1. r \in Busy /\ r.src \in Node /\ r.peer \in Node
    BY <1>2 DEF SlotOK, Busy
  <2>2. /\ lg[r.src] \subseteq lgN[r.src] /\ lg[r.peer] \subseteq lgN[r.peer]
        /\ mf[r.src] \subseteq mfN[r.src]
        /\ pd[r.src] \subseteq pdN[r.src] /\ pd[r.peer] \subseteq pdN[r.peer]
    BY <2>1
  <2> QED
    BY <1>2, <2>1, <2>2 DEF SlotOK, Carries
<1> QED
  BY <1>1, <1>2

-----------------------------------------------------------------------------
(* What a step does to the logs *)

\* The log of a node is left alone, or gains an event of its own, or one that its
\* author has; the node holds the other one paired.
Grows ==
  \/ log' = log
  \/ \E e \in Event :
       \/ /\ e \notin log[AuthorOf[e]] /\ PeerOf[e] \in paired[AuthorOf[e]]
          /\ log' = [log EXCEPT ![AuthorOf[e]] = @ \cup {e}]
       \/ /\ e \in log[AuthorOf[e]] /\ AuthorOf[e] \in paired[PeerOf[e]]
          /\ log' = [log EXCEPT ![PeerOf[e]] = @ \cup {e}]

Files == manifests' \in [Node -> SUBSET File] /\ \A n \in Node : manifests[n] \subseteq manifests'[n]

LEMMA GrowsType ==
  ASSUME EventInv, Grows
  PROVE  log' \in [Node -> SUBSET Event] /\ \A n \in Node : log[n] \subseteq log'[n]
BY DEF EventInv, EventTypeOK, Grows

LEMMA GrowsShare ==
  ASSUME EventInv, Grows, TypeInv', \A n \in Node : paired[n] \subseteq paired'[n]
  PROVE  OnlyPairedPeersShare'
<1> SUFFICES ASSUME NEW n \in Node, NEW e \in log'[n]
             PROVE  (IF AuthorOf[e] = n THEN PeerOf[e] ELSE AuthorOf[e]) \in paired'[n]
  BY DEF OnlyPairedPeersShare
<1>1. CASE e \in log[n]
  BY <1>1 DEF EventInv, OnlyPairedPeersShare
<1>2. CASE e \notin log[n]
  <2>1. log \in [Node -> SUBSET Event]
    BY DEF EventInv, EventTypeOK
  <2>2. e \in Event
    BY GrowsType
  <2>3. PICK f \in Event :
          \/ /\ PeerOf[f] \in paired[AuthorOf[f]]
             /\ log' = [log EXCEPT ![AuthorOf[f]] = @ \cup {f}]
          \/ /\ AuthorOf[f] \in paired[PeerOf[f]]
             /\ log' = [log EXCEPT ![PeerOf[f]] = @ \cup {f}]
    <3>1. log' # log
      BY <1>2
    <3> QED
      BY <3>1 DEF Grows
  <2>4. CASE PeerOf[f] \in paired[AuthorOf[f]] /\ log' = [log EXCEPT ![AuthorOf[f]] = @ \cup {f}]
    <3>1. n = AuthorOf[f] /\ e = f
      BY <1>2, <2>1, <2>4
    <3> QED
      BY <2>4, <3>1
  <2>5. CASE AuthorOf[f] \in paired[PeerOf[f]] /\ log' = [log EXCEPT ![PeerOf[f]] = @ \cup {f}]
    <3>1. n = PeerOf[f] /\ e = f
      BY <1>2, <2>1, <2>5
    <3> QED
      BY <2>5, <3>1
  <2> QED
    BY <2>3, <2>4, <2>5
<1> QED
  BY <1>1, <1>2

\* A step that fills or frees one slot, lets logs and manifests grow and confirms
\* only what has arrived keeps the invariant.
LEMMA SlotStep ==
  ASSUME EventInv, TypeInv', Grows, Files,
         \A n \in Node : paired[n] \subseteq paired'[n],
         due' \subseteq Node \X Node, waiting' \subseteq Exchange,
         acked' \subseteq Event, \A e \in acked' \ acked : e \in log[PeerOf[e]],
         NEW x \in Exchange, NEW r, SlotOK(r, log', manifests', paired'),
         xch' = [xch EXCEPT ![x] = r]
  PROVE  EventInv'
<1>1. /\ log \in [Node -> SUBSET Event] /\ log' \in [Node -> SUBSET Event]
      /\ \A n \in Node : log[n] \subseteq log'[n]
  BY GrowsType DEF EventInv, EventTypeOK
<1>2. /\ manifests \in [Node -> SUBSET File] /\ manifests' \in [Node -> SUBSET File]
      /\ \A n \in Node : manifests[n] \subseteq manifests'[n]
  BY DEF EventInv, EventTypeOK, Files
<1>3. paired \in [Node -> SUBSET Node] /\ paired' \in [Node -> SUBSET Node]
  BY DEF EventInv, TypeInv, TypeOK
<1>4. xch'[x] = r /\ \A y \in Exchange \ {x} : xch'[y] = xch[y]
  BY DEF EventInv, EventTypeOK
<1>5. \A y \in Exchange : SlotOK(xch[y], log, manifests, paired)
  BY DEF EventInv, SlotsOK
<1>6. ASSUME NEW y \in Exchange PROVE SlotOK(xch'[y], log', manifests', paired')
  <2>1. CASE y = x
    BY <1>4, <2>1
  <2>2. CASE y # x
    <3>1. SlotOK(xch[y], log', manifests', paired')
      <4> HIDE DEF EventInv
      <4> QED
        BY <1>1, <1>2, <1>3, <1>5, SlotGrows
    <3> QED
      BY <1>4, <2>2, <3>1
  <2> QED
    BY <2>1, <2>2
<1>7. xch' \in [Exchange -> Busy \cup {Free}]
  <2>1. r \in Busy \cup {Free}
    BY DEF SlotOK
  <2> QED
    BY <2>1 DEF EventInv, EventTypeOK
<1>8. EventTypeOK'
  BY <1>1, <1>2, <1>7 DEF EventTypeOK
<1>9. AckMeansStored'
  <2> SUFFICES ASSUME NEW e \in acked' PROVE e \in log'[PeerOf[e]]
    BY DEF AckMeansStored
  <2>1. e \in Event /\ e \in log[PeerOf[e]]
    BY DEF EventInv, AckMeansStored
  <2> QED
    BY <1>1, <2>1
<1>10. OnlyPairedPeersShare'
  BY GrowsShare
<1> QED
  BY <1>6, <1>8, <1>9, <1>10 DEF EventInv, SlotsOK

-----------------------------------------------------------------------------
(* The steps of an exchange *)

LEMMA Active ==
  ASSUME EventInv, NEW x \in Exchange, xch[x].phase # "free"
  PROVE  /\ xch[x] \in Busy /\ xch[x].src \in Node /\ xch[x].peer \in Node
         /\ Carries(xch[x], log, manifests, paired)
<1>1. SlotOK(xch[x], log, manifests, paired) /\ xch[x] # Free
  BY FreeIsNotBusy DEF EventInv, SlotsOK
<1> QED
  BY <1>1 DEF SlotOK, Busy

\* The peers table is left alone by most steps.
LEMMA Apart ==
  ASSUME EventInv, UNCHANGED pairingVars
  PROVE  TypeInv' /\ paired' = paired /\ \A n \in Node : paired[n] \subseteq paired'[n]
<1>1. TypeInv'
  BY NextTypeInv DEF EventInv
<1> QED
  BY <1>1 DEF pairingVars, peerVars

\* Freeing a slot is always possible.
LEMMA ReleaseStep ==
  ASSUME EventInv, TypeInv', NEW x \in Exchange, Release(x),
         \A n \in Node : paired[n] \subseteq paired'[n],
         UNCHANGED <<log, manifests, due>>,
         acked' \subseteq Event, \A e \in acked' \ acked : e \in log[PeerOf[e]]
  PROVE  EventInv'
<1>1. SlotOK(Free, log', manifests', paired')
  BY DEF SlotOK
<1>2. Grows /\ Files /\ due' \subseteq Node \X Node
  BY DEF Grows, Files, EventInv, EventTypeOK
<1>3. waiting' \subseteq Exchange /\ xch' = [xch EXCEPT ![x] = Free]
  BY DEF Release, EventInv, EventTypeOK
<1> QED
  BY <1>1, <1>2, <1>3, SlotStep

LEMMA FailureStep ==
  ASSUME EventInv, NEW x \in Exchange,
         \/ Lost(x) \/ StoreFails(x) \/ SyncDone(x) \/ \E d \in Node : Refuse(x, d)
  PROVE  EventInv'
<1>1. CASE StoreFails(x)
  <2>1. TypeInv'
    BY <1>1 DEF StoreFails, EventInv, TypeInv, TypeOK, CallsOK, selfVars, peerVars, hearVars, callVars
  <2>2. Release(x) /\ paired' = paired /\ UNCHANGED <<log, manifests, due, acked>>
    BY <1>1 DEF StoreFails, peerVars
  <2> QED
    BY <2>1, <2>2, ReleaseStep DEF EventInv, EventTypeOK
<1>2. CASE Lost(x) \/ SyncDone(x) \/ \E d \in Node : Refuse(x, d)
  <2>1. Release(x) /\ UNCHANGED <<pairingVars, log, manifests, due, acked>>
    BY <1>2 DEF Lost, SyncDone, Refuse
  <2> QED
    BY <2>1, Apart, ReleaseStep DEF EventInv, EventTypeOK
<1> QED
  BY <1>1, <1>2

\* What a new exchange holds: a record between a free slot and a busy one.
Wide == [op : {"none", "push", "sync"}, phase : {"free", "reading", "saving", "request"},
         src : Node \cup {None}, peer : Node \cup {None}, ep : Endpoint \cup {None},
         name : Name \cup {None}, known : SUBSET Event, sent : SUBSET Event,
         promised : SUBSET Event, todo : SUBSET Event, filing : Event \cup {None}]

Holds(r, operation, step, n, p, known, sent) ==
  /\ r.op = operation /\ r.phase = step /\ r.src = n /\ r.peer = p
  /\ r.known = known /\ r.sent = sent /\ r.promised = {} /\ r.todo = {} /\ r.filing = None

LEMMA OpenedHolds ==
  ASSUME NEW n \in Node, NEW p \in Node, endpoint[n][p] \in Endpoint,
         NEW operation \in {"push", "sync"}, NEW step \in {"reading", "saving", "request"}
  PROVE  /\ Opened(n, p, operation, step) \in Wide
         /\ Opened(n, p, operation, step).ep = endpoint[n][p]
         /\ Holds(Opened(n, p, operation, step), operation, step, n, p, {}, {})
<1>1. Free \in Wide
  BY DEF Free, Wide
<1>2. Opened(n, p, operation, step) \in Wide
  BY <1>1 DEF Opened, Wide
<1> QED
  BY <1>2 DEF Opened, Free, Holds

LEMMA WideIsBusy ==
  ASSUME NEW r \in Wide, r.op # "none", r.phase # "free", r.src \in Node, r.peer \in Node,
         r.ep \in Endpoint
  PROVE  r \in Busy
BY DEF Wide, Busy

LEMMA SendTextStep ==
  ASSUME EventInv, NEW x \in Exchange, NEW e \in Event, SendText(x, e)
  PROVE  EventInv'
<1> DEFINE n == AuthorOf[e]
           p == PeerOf[e]
           r == [Opened(n, p, "push", "request") EXCEPT !.name = name[n], !.sent = {e}]
<1>1. n \in Node /\ p \in Node /\ p \in paired[n] /\ endpoint[n][p] \in Endpoint
  BY DEF SendText, PairedPeer, Reachable, EventInv, TypeInv, TypeOK
<1>2. name[n] \in Name
  BY <1>1 DEF EventInv, TypeInv, TypeOK
<1>3. r \in Busy /\ Holds(r, "push", "request", n, p, {}, {e})
  <2> DEFINE o == Opened(n, p, "push", "request")
  <2>1. o \in Wide /\ o.ep \in Endpoint /\ Holds(o, "push", "request", n, p, {}, {})
    BY <1>1, OpenedHolds
  <2> HIDE DEF o
  <2>2. [o EXCEPT !.name = name[n], !.sent = {e}] \in Wide
    BY <1>2, <2>1 DEF Wide
  <2>3. /\ [o EXCEPT !.name = name[n], !.sent = {e}].ep \in Endpoint
        /\ Holds([o EXCEPT !.name = name[n], !.sent = {e}], "push", "request", n, p, {}, {e})
    BY <2>1 DEF Wide, Holds
  <2>4. [o EXCEPT !.name = name[n], !.sent = {e}] \in Busy
    BY <1>1, <2>2, <2>3, WideIsBusy DEF Holds
  <2> QED
    BY <2>3, <2>4 DEF o
<1>4. log' = [log EXCEPT ![n] = @ \cup {e}] /\ e \notin log[n] /\ e \in log'[n]
  BY <1>1 DEF SendText, Unwritten, EventInv, EventTypeOK
<1>6. TypeInv' /\ paired' = paired /\ \A m \in Node : paired[m] \subseteq paired'[m]
  BY Apart DEF SendText
<1>7. SlotOK(r, log', manifests', paired')
  BY <1>1, <1>3, <1>4, <1>6 DEF SlotOK, Carries, Holds
<1>8. Grows /\ Files
  BY <1>1, <1>4 DEF Grows, Files, SendText, EventInv, EventTypeOK
<1>9. /\ xch' = [xch EXCEPT ![x] = r]
      /\ due' \subseteq Node \X Node /\ waiting' \subseteq Exchange
      /\ acked' \subseteq Event /\ acked' = acked
  BY DEF SendText, EventInv, EventTypeOK
<1> QED
  BY <1>6, <1>7, <1>8, <1>9, SlotStep

LEMMA SendFileStep ==
  ASSUME EventInv, NEW x \in Exchange, NEW e \in Event, SendFile(x, e)
  PROVE  EventInv'
<1> DEFINE n == AuthorOf[e]
           p == PeerOf[e]
           r == [Opened(n, p, "push", "saving") EXCEPT !.sent = {e}]
<1>1. n \in Node /\ p \in Node /\ p \in paired[n] /\ endpoint[n][p] \in Endpoint
  BY DEF SendFile, PairedPeer, Reachable, EventInv, TypeInv, TypeOK
<1>2. r \in Busy /\ Holds(r, "push", "saving", n, p, {}, {e})
  <2> DEFINE o == Opened(n, p, "push", "saving")
  <2>1. o \in Wide /\ o.ep \in Endpoint /\ Holds(o, "push", "saving", n, p, {}, {})
    BY <1>1, OpenedHolds
  <2> HIDE DEF o
  <2>2. [o EXCEPT !.sent = {e}] \in Wide
    BY <2>1 DEF Wide
  <2>3. /\ [o EXCEPT !.sent = {e}].ep \in Endpoint
        /\ Holds([o EXCEPT !.sent = {e}], "push", "saving", n, p, {}, {e})
    BY <2>1 DEF Wide, Holds
  <2>4. [o EXCEPT !.sent = {e}] \in Busy
    BY <1>1, <2>2, <2>3, WideIsBusy DEF Holds
  <2> QED
    BY <2>3, <2>4 DEF o
<1>3. manifests' = [manifests EXCEPT ![n] = @ \cup {e}] /\ e \in manifests'[n] /\ e \in File
  BY <1>1 DEF SendFile, EventInv, EventTypeOK
<1>5. TypeInv' /\ paired' = paired /\ \A m \in Node : paired[m] \subseteq paired'[m]
  BY Apart DEF SendFile
<1>6. SlotOK(r, log', manifests', paired')
  BY <1>1, <1>2, <1>3, <1>5 DEF SlotOK, Carries, Holds
<1>7. Grows /\ Files
  BY <1>3 DEF Grows, Files, SendFile, EventInv, EventTypeOK
<1>8. /\ xch' = [xch EXCEPT ![x] = r]
      /\ due' \subseteq Node \X Node /\ waiting' \subseteq Exchange
      /\ acked' \subseteq Event /\ acked' = acked
  BY DEF SendFile, EventInv, EventTypeOK
<1> QED
  BY <1>5, <1>6, <1>7, <1>8, SlotStep

LEMMA SendFileEventStep ==
  ASSUME EventInv, NEW x \in Exchange, SendFileEvent(x)
  PROVE  EventInv'
<1> DEFINE n == xch[x].src
           r == [xch[x] EXCEPT !.phase = "request", !.name = name[n]]
<1>1. /\ xch[x] \in Busy /\ n \in Node /\ xch[x].peer \in Node
      /\ Carries(xch[x], log, manifests, paired) /\ xch[x].phase = "saving"
  BY Active DEF SendFileEvent
<1>2. PICK e \in Event : xch[x].sent = {e} /\ AuthorOf[e] = n /\ PeerOf[e] = xch[x].peer
  BY <1>1 DEF Carries
<1>3. name[n] \in Name
  BY <1>1 DEF EventInv, TypeInv, TypeOK
<1>4. /\ log' = [log EXCEPT ![n] = @ \cup {e}] /\ e \in log'[n]
      /\ \A m \in Node : log[m] \subseteq log'[m]
  BY <1>1, <1>2 DEF SendFileEvent, EventInv, EventTypeOK
<1>5. r \in Busy
  BY <1>1, <1>3 DEF Busy
<1>6. TypeInv' /\ paired' = paired /\ \A m \in Node : paired[m] \subseteq paired'[m]
  BY Apart DEF SendFileEvent
<1>7. SlotOK(r, log', manifests', paired')
  BY <1>1, <1>2, <1>4, <1>5, <1>6 DEF SlotOK, Carries, Busy
<1>8. Grows /\ Files
  <2>1. xch[x].peer \in paired[n]
    BY <1>1 DEF Carries
  <2>2. Grows
    <3>1. CASE e \in log[n]
      BY <1>4, <3>1 DEF Grows, EventInv, EventTypeOK
    <3>2. CASE e \notin log[n]
      BY <1>2, <1>4, <2>1, <3>2 DEF Grows
    <3> QED
      BY <3>1, <3>2
  <2> QED
    BY <2>2 DEF Files, SendFileEvent, EventInv, EventTypeOK
<1>9. /\ xch' = [xch EXCEPT ![x] = r]
      /\ due' \subseteq Node \X Node /\ waiting' \subseteq Exchange
      /\ acked' \subseteq Event /\ acked' = acked
  BY DEF SendFileEvent, EventInv, EventTypeOK
<1> QED
  BY <1>6, <1>7, <1>8, <1>9, SlotStep

LEMMA SyncStartStep ==
  ASSUME EventInv, NEW x \in Exchange, NEW n \in Node, NEW p \in Node,
         SyncByUser(x, n, p) \/ SyncDue(x, n, p)
  PROVE  EventInv'
<1> DEFINE r == [Opened(n, p, "sync", "reading") EXCEPT !.known = StreamOf(n, p)]
<1>1. SyncStart(x, n, p) /\ due' \subseteq Node \X Node
  BY DEF SyncByUser, SyncDue, EventInv, EventTypeOK
<1>2. p \in paired[n] /\ endpoint[n][p] \in Endpoint
  BY <1>1 DEF SyncStart, PairedPeer, Reachable, EventInv, TypeInv, TypeOK
<1>3. StreamOf(n, p) \subseteq log[n] /\ StreamOf(n, p) \subseteq Event
  BY DEF StreamOf, EventInv, EventTypeOK
<1>4. r \in Busy /\ Holds(r, "sync", "reading", n, p, StreamOf(n, p), {})
  <2> DEFINE o == Opened(n, p, "sync", "reading")
             known == StreamOf(n, p)
  <2>1. o \in Wide /\ o.ep \in Endpoint /\ Holds(o, "sync", "reading", n, p, {}, {})
    BY <1>2, OpenedHolds
  <2>2. known \subseteq Event
    BY <1>3
  <2> HIDE DEF o, known
  <2>3. [o EXCEPT !.known = known] \in Wide
    BY <2>1, <2>2 DEF Wide
  <2>4. /\ [o EXCEPT !.known = known].ep \in Endpoint
        /\ Holds([o EXCEPT !.known = known], "sync", "reading", n, p, known, {})
    BY <2>1 DEF Wide, Holds
  <2>5. [o EXCEPT !.known = known] \in Busy
    BY <2>3, <2>4, WideIsBusy DEF Holds
  <2> QED
    BY <2>4, <2>5 DEF o, known
<1>6. TypeInv' /\ paired' = paired /\ \A m \in Node : paired[m] \subseteq paired'[m]
  BY <1>1, Apart DEF SyncStart
<1>7. SlotOK(r, log', manifests', paired')
  <2>1. log' = log
    BY <1>1 DEF SyncStart
  <2> QED
    BY <1>2, <1>3, <1>4, <1>6, <2>1 DEF SlotOK, Carries, Holds
<1>8. Grows /\ Files
  BY <1>1 DEF Grows, Files, SyncStart, EventInv, EventTypeOK
<1>9. /\ xch' = [xch EXCEPT ![x] = r] /\ waiting' \subseteq Exchange
      /\ acked' \subseteq Event /\ acked' = acked
  BY <1>1 DEF SyncStart, EventInv, EventTypeOK
<1> QED
  BY <1>1, <1>6, <1>7, <1>8, <1>9, SlotStep

\* The events of n's own in its stream with p are written by n for p.
LEMMA OwnEvents ==
  ASSUME EventInv, NEW n \in Node, NEW p \in Node
  PROVE  /\ Own(n, p) \subseteq log[n] /\ Own(n, p) \subseteq Event
         /\ \A e \in Own(n, p) : AuthorOf[e] = n /\ PeerOf[e] = p
<1>1. Own(n, p) \subseteq log[n] /\ Own(n, p) \subseteq Event
  BY DEF Own, StreamOf, EventInv, EventTypeOK
<1>2. ASSUME NEW e \in Own(n, p) PROVE AuthorOf[e] = n /\ PeerOf[e] = p
  <2>1. {AuthorOf[e], PeerOf[e]} = {n, p} /\ AuthorOf[e] = n
    BY <1>2 DEF Own, StreamOf
  <2>2. AuthorOf[e] # PeerOf[e]
    BY <1>1
  <2> QED
    BY <2>1, <2>2
<1> QED
  BY <1>1, <1>2

LEMMA SyncSendStep ==
  ASSUME EventInv, NEW x \in Exchange, SyncSend(x)
  PROVE  EventInv'
<1> DEFINE b == xch[x]
           own == Own(b.src, b.peer)
           r == [b EXCEPT !.phase = "request", !.name = name[b.src], !.sent = own]
<1>1. /\ b \in Busy /\ b.src \in Node /\ b.peer \in Node
      /\ Carries(b, log, manifests, paired) /\ b.phase = "reading"
  BY Active DEF SyncSend
<1>2. /\ own \subseteq log[b.src] /\ own \subseteq Event
      /\ \A e \in own : AuthorOf[e] = b.src /\ PeerOf[e] = b.peer
  BY <1>1, OwnEvents
<1>3. name[b.src] \in Name
  BY <1>1 DEF EventInv, TypeInv, TypeOK
<1>4. TypeInv' /\ paired' = paired /\ \A m \in Node : paired[m] \subseteq paired'[m]
  BY Apart DEF SyncSend
<1>5. UNCHANGED <<log, manifests, due, acked>>
  BY DEF SyncSend
<1>6. CASE Fits(own)
  <2>1. xch' = [xch EXCEPT ![x] = r] /\ waiting' = waiting
    BY <1>6 DEF SyncSend
  <2>2. SlotOK(r, log', manifests', paired')
    <3> HIDE DEF own, b
    <3>1. r \in Busy
      BY <1>1, <1>2, <1>3 DEF Busy
    <3>2. Carries(r, log, manifests, paired)
      BY <1>1, <1>2 DEF Carries, Busy
    <3> QED
      BY <1>4, <1>5, <3>1, <3>2 DEF SlotOK
  <2>3. Grows /\ Files
    BY <1>5 DEF Grows, Files, EventInv, EventTypeOK
  <2>4. due' \subseteq Node \X Node /\ waiting' \subseteq Exchange /\ acked' \subseteq Event
    BY <1>5, <2>1 DEF EventInv, EventTypeOK
  <2> HIDE DEF r
  <2> QED
    BY <1>4, <1>5, <2>1, <2>2, <2>3, <2>4, SlotStep
<1>7. CASE ~Fits(own)
  <2>1. Release(x)
    BY <1>7 DEF SyncSend
  <2> QED
    BY <1>4, <1>5, <2>1, ReleaseStep DEF EventInv, EventTypeOK
<1> QED
  BY <1>6, <1>7

LEMMA HandleStep ==
  ASSUME EventInv, NEW x \in Exchange, NEW d \in Node, Handle(x, d)
  PROVE  EventInv'
<1> DEFINE b == xch[x]
           r == [b EXCEPT !.phase = "merging", !.todo = b.sent]
<1>1. /\ b \in Busy /\ b.src \in Node /\ b.peer \in Node
      /\ Carries(b, log, manifests, paired) /\ b.phase = "request"
  BY Active DEF Handle
<1>2. b.src \in paired[b.peer]
  BY DEF Handle, Admits, SenderPaired
<1>3. TypeInv' /\ paired' = paired /\ \A m \in Node : paired[m] \subseteq paired'[m]
  BY Apart DEF Handle
<1>4. UNCHANGED <<log, manifests, due, waiting, acked>> /\ xch' = [xch EXCEPT ![x] = r]
  BY DEF Handle
<1>5. SlotOK(r, log', manifests', paired')
  <2> HIDE DEF b
  <2>1. r \in Busy
    BY <1>1 DEF Busy
  <2>2. Carries(r, log, manifests, paired)
    BY <1>1, <1>2 DEF Carries, Busy
  <2> QED
    BY <1>3, <1>4, <2>1, <2>2 DEF SlotOK
<1>6. Grows /\ Files
  BY <1>4 DEF Grows, Files, EventInv, EventTypeOK
<1>7. due' \subseteq Node \X Node /\ waiting' \subseteq Exchange /\ acked' \subseteq Event
  BY <1>4 DEF EventInv, EventTypeOK
<1> HIDE DEF r
<1> QED
  BY <1>3, <1>4, <1>5, <1>6, <1>7, SlotStep

\* The handler, or the client with the response, stores one event at n, which was
\* written at the other end m.
LEMMA StoreEventStep ==
  ASSUME EventInv, NEW x \in Exchange, NEW n \in Node, NEW e \in Event, StoreEvent(x, n, e),
         \/ xch[x].phase = "merging" /\ n = xch[x].peer
         \/ xch[x].phase = "taking" /\ n = xch[x].src
  PROVE  EventInv'
<1> DEFINE b == xch[x]
           f == IF e \in File \ log[n] THEN e ELSE None
           r == [b EXCEPT !.todo = b.todo \ {e}, !.filing = f]
<1>1. /\ b \in Busy /\ b.src \in Node /\ b.peer \in Node
      /\ Carries(b, log, manifests, paired)
  BY Active
<1>2. e \in b.todo /\ (f = None \/ f \in File) /\ f \in Event \cup {None}
  BY DEF StoreEvent
<1>3. TypeInv' /\ paired' = paired /\ \A m \in Node : paired[m] \subseteq paired'[m]
  BY Apart DEF StoreEvent
<1>4. /\ UNCHANGED <<manifests, due, waiting, acked>> /\ xch' = [xch EXCEPT ![x] = r]
      /\ log' = [log EXCEPT ![n] = @ \cup {e}]
  <2>1. xch' = [xch EXCEPT ![x] = r]
    BY Zenon DEF StoreEvent
  <2> QED
    BY <2>1 DEF StoreEvent
<1>5. /\ log \in [Node -> SUBSET Event] /\ log' \in [Node -> SUBSET Event]
      /\ e \in log'[n] /\ \A m \in Node : log[m] \subseteq log'[m]
  BY <1>4 DEF EventInv, EventTypeOK
<1>6. /\ PeerOf[e] = n /\ e \in log[AuthorOf[e]] /\ AuthorOf[e] \in paired[n]
  BY <1>1, <1>2 DEF Carries
<1>7. SlotOK(r, log', manifests', paired')
  <2> HIDE DEF b, f
  <2>1. r \in Busy
    BY <1>1, <1>2 DEF Busy
  <2>2. Carries(b, log', manifests, paired)
    BY <1>1, <1>5 DEF Carries
  <2>3. /\ r.op = b.op /\ r.phase = b.phase /\ r.src = b.src /\ r.peer = b.peer
        /\ r.known = b.known /\ r.sent = b.sent /\ r.promised = b.promised
        /\ r.todo = b.todo \ {e} /\ r.filing = f
    BY <1>1 DEF Busy
  <2>4. \/ b.phase = "merging" /\ n = b.peer
        \/ b.phase = "taking" /\ n = b.src
    BY DEF b
  <2> HIDE DEF r
  <2>5. Carries(r, log', manifests, paired)
    BY <1>2, <1>5, <2>2, <2>3, <2>4 DEF Carries
  <2> QED
    BY <1>3, <1>4, <2>1, <2>5 DEF SlotOK
<1>8. Grows /\ Files
  BY <1>4, <1>6 DEF Grows, Files, EventInv, EventTypeOK
<1>9. due' \subseteq Node \X Node /\ waiting' \subseteq Exchange /\ acked' \subseteq Event
  BY <1>4 DEF EventInv, EventTypeOK
<1> HIDE DEF r
<1> QED
  BY <1>3, <1>4, <1>7, <1>8, <1>9, SlotStep

LEMMA StoreManifestStep ==
  ASSUME EventInv, NEW x \in Exchange, NEW n \in Node, StoreManifest(x, n)
  PROVE  EventInv'
<1> DEFINE b == xch[x]
           r == [b EXCEPT !.filing = None]
<1>1. /\ b \in Busy /\ b.src \in Node /\ b.peer \in Node
      /\ Carries(b, log, manifests, paired) /\ b.filing \in File
  <2>1. b.phase # "free"
    BY DEF StoreManifest, EventInv, EventTypeOK, Busy, Free
  <2> QED
    BY <2>1, Active DEF StoreManifest, Carries
<1>2. TypeInv' /\ paired' = paired /\ \A m \in Node : paired[m] \subseteq paired'[m]
  BY Apart DEF StoreManifest
<1>3. /\ UNCHANGED <<log, due, waiting, acked>> /\ xch' = [xch EXCEPT ![x] = r]
      /\ manifests' = [manifests EXCEPT ![n] = @ \cup {b.filing}]
  BY DEF StoreManifest
<1>4. Grows /\ Files
  BY <1>1, <1>3 DEF Grows, Files, EventInv, EventTypeOK
<1>5. SlotOK(r, log', manifests', paired')
  <2> HIDE DEF b
  <2>1. r \in Busy
    BY <1>1 DEF Busy
  <2>2. manifests[b.src] \subseteq manifests'[b.src]
    BY <1>1, <1>4 DEF Files
  <2>3. Carries(r, log, manifests', paired)
    BY <1>1, <2>2 DEF Carries, Busy
  <2> QED
    BY <1>2, <1>3, <2>1, <2>3 DEF SlotOK
<1>6. due' \subseteq Node \X Node /\ waiting' \subseteq Exchange /\ acked' \subseteq Event
  BY <1>3 DEF EventInv, EventTypeOK
<1> HIDE DEF r
<1> QED
  BY <1>2, <1>3, <1>4, <1>5, <1>6, SlotStep

LEMMA AnswerStep ==
  ASSUME EventInv, NEW x \in Exchange, Answer(x)
  PROVE  EventInv'
<1> DEFINE b == xch[x]
           missing == IF b.op = "sync" THEN Own(b.peer, b.src) \ b.known ELSE {}
           r == [b EXCEPT !.phase = "response", !.promised = missing]
<1>1. /\ b \in Busy /\ b.src \in Node /\ b.peer \in Node
      /\ Carries(b, log, manifests, paired) /\ b.phase = "merging" /\ b.todo = {} /\ b.filing = None
  BY Active DEF Answer
<1>2. /\ missing \subseteq log[b.peer] /\ missing \subseteq Event
      /\ \A e \in missing : AuthorOf[e] = b.peer /\ PeerOf[e] = b.src
  BY <1>1, OwnEvents
<1>3. TypeInv' /\ paired' = paired /\ \A m \in Node : paired[m] \subseteq paired'[m]
  BY Apart DEF Answer
<1>4. UNCHANGED <<log, manifests, due, acked>>
  BY DEF Answer
<1>5. CASE x \in waiting /\ Fits(missing)
  <2>1. xch' = [xch EXCEPT ![x] = r] /\ waiting' = waiting
    BY <1>5 DEF Answer
  <2>2. SlotOK(r, log', manifests', paired')
    <3> HIDE DEF missing, b
    <3>1. r \in Busy
      BY <1>1, <1>2 DEF Busy
    <3>2. Carries(r, log, manifests, paired)
      BY <1>1, <1>2 DEF Carries, Busy
    <3> QED
      BY <1>3, <1>4, <3>1, <3>2 DEF SlotOK
  <2>3. Grows /\ Files
    BY <1>4 DEF Grows, Files, EventInv, EventTypeOK
  <2>4. due' \subseteq Node \X Node /\ waiting' \subseteq Exchange /\ acked' \subseteq Event
    BY <1>4, <2>1 DEF EventInv, EventTypeOK
  <2> HIDE DEF r
  <2> QED
    BY <1>3, <1>4, <2>1, <2>2, <2>3, <2>4, SlotStep
<1>6. CASE ~(x \in waiting /\ Fits(missing))
  <2>1. Release(x)
    BY <1>6 DEF Answer
  <2> QED
    BY <1>3, <1>4, <2>1, ReleaseStep DEF EventInv, EventTypeOK
<1> QED
  BY <1>5, <1>6

LEMMA PushAckedStep ==
  ASSUME EventInv, NEW x \in Exchange, PushAcked(x)
  PROVE  EventInv'
<1>1. /\ xch[x] \in Busy /\ xch[x].src \in Node /\ xch[x].peer \in Node
      /\ Carries(xch[x], log, manifests, paired) /\ xch[x].phase = "response"
  BY Active DEF PushAcked
<1>2. /\ acked' = acked \cup xch[x].sent /\ Release(x)
      /\ UNCHANGED <<pairingVars, log, manifests, due>>
  BY DEF PushAcked
<1>3. acked' \subseteq Event
  BY <1>1, <1>2 DEF Busy, EventInv, EventTypeOK
<1>4. \A e \in acked' \ acked : e \in log[PeerOf[e]]
  BY <1>1, <1>2 DEF Carries
<1> QED
  BY <1>2, <1>3, <1>4, Apart, ReleaseStep

LEMMA SyncTakeStep ==
  ASSUME EventInv, NEW x \in Exchange, SyncTake(x)
  PROVE  EventInv'
<1> DEFINE b == xch[x]
           r == [b EXCEPT !.phase = "taking", !.todo = b.promised]
<1>1. /\ b \in Busy /\ b.src \in Node /\ b.peer \in Node
      /\ Carries(b, log, manifests, paired) /\ b.phase = "response"
  BY Active DEF SyncTake
<1>2. TypeInv' /\ paired' = paired /\ \A m \in Node : paired[m] \subseteq paired'[m]
  BY Apart DEF SyncTake
<1>3. UNCHANGED <<log, manifests, due, waiting, acked>> /\ xch' = [xch EXCEPT ![x] = r]
  BY DEF SyncTake
<1>4. SlotOK(r, log', manifests', paired')
  <2> HIDE DEF b
  <2>1. r \in Busy
    BY <1>1 DEF Busy
  <2>2. Carries(r, log, manifests, paired)
    BY <1>1 DEF Carries, Busy
  <2> QED
    BY <1>2, <1>3, <2>1, <2>2 DEF SlotOK
<1>5. Grows /\ Files
  BY <1>3 DEF Grows, Files, EventInv, EventTypeOK
<1>6. due' \subseteq Node \X Node /\ waiting' \subseteq Exchange /\ acked' \subseteq Event
  BY <1>3 DEF EventInv, EventTypeOK
<1> HIDE DEF r
<1> QED
  BY <1>2, <1>3, <1>4, <1>5, <1>6, SlotStep

-----------------------------------------------------------------------------
(* Steps that end clients and handlers, and steps of pairing and discovery *)

\* A step that leaves logs and manifests alone and frees some slots, or none.
LEMMA FreeSlots ==
  ASSUME EventInv, TypeInv', UNCHANGED <<log, manifests, acked>>,
         \A n \in Node : paired[n] \subseteq paired'[n],
         due' \subseteq Node \X Node, waiting' \subseteq Exchange,
         xch' \in [Exchange -> Busy \cup {Free}],
         \A x \in Exchange : xch'[x] \in {Free, xch[x]}
  PROVE  EventInv'
<1>1. log \in [Node -> SUBSET Event] /\ manifests \in [Node -> SUBSET File]
  BY DEF EventInv, EventTypeOK
<1>2. paired \in [Node -> SUBSET Node] /\ paired' \in [Node -> SUBSET Node]
  BY DEF EventInv, TypeInv, TypeOK
<1>3. ASSUME NEW x \in Exchange PROVE SlotOK(xch'[x], log', manifests', paired')
  <2>1. CASE xch'[x] = Free
    BY <2>1 DEF SlotOK
  <2>2. CASE xch'[x] = xch[x]
    <3>1. SlotOK(xch[x], log, manifests, paired)
      BY DEF EventInv, SlotsOK
    <3>2. SlotOK(xch[x], log, manifests, paired')
      BY <1>1, <1>2, <3>1, SlotGrows
    <3> QED
      BY <2>2, <3>2
  <2> QED
    BY <2>1, <2>2
<1>4. EventTypeOK'
  BY DEF EventInv, EventTypeOK
<1>5. AckMeansStored'
  BY DEF EventInv, AckMeansStored
<1>6. OnlyPairedPeersShare'
  BY GrowsShare DEF Grows
<1> QED
  BY <1>3, <1>4, <1>5, <1>6 DEF EventInv, SlotsOK

LEMMA AbandonedStep ==
  ASSUME EventInv, NEW x \in Exchange, Abandoned(x)
  PROVE  EventInv'
<1>1. /\ UNCHANGED <<pairingVars, log, manifests, due, xch, acked>>
      /\ waiting' = waiting \ {x}
  BY DEF Abandoned
<1> QED
  BY <1>1, Apart, FreeSlots DEF EventInv, EventTypeOK

LEMMA StutterStep == EventInv /\ UNCHANGED vars => EventInv'
<1> SUFFICES ASSUME EventInv, UNCHANGED vars PROVE EventInv'
  OBVIOUS
<1>1. UNCHANGED pairingVars /\ UNCHANGED <<log, manifests, due, xch, waiting, acked>>
  BY DEF vars, eventVars
<1> QED
  BY <1>1, Apart, FreeSlots DEF EventInv, EventTypeOK

\* Every step of module Pairing keeps its types and pairings.
LEMMA PairingPart ==
  ASSUME EventInv, PairingNext
  PROVE  TypeInv' /\ \A n \in Node : paired[n] \subseteq paired'[n]
BY NextTypeInv, StepKeepsPaired DEF EventInv, PairedNeverRevoked

LEMMA RestartStep ==
  ASSUME EventInv, NEW n \in Node, RestartNode(n)
  PROVE  EventInv'
<1>1. PairingNext
  BY DEF RestartNode, PairingNext, Change
<1>2. /\ UNCHANGED <<log, manifests, acked>>
      /\ due' \subseteq Node \X Node /\ waiting' \subseteq Exchange
      /\ xch' \in [Exchange -> Busy \cup {Free}]
      /\ \A x \in Exchange : xch'[x] \in {Free, xch[x]}
  BY DEF RestartNode, EventInv, EventTypeOK
<1> QED
  BY <1>1, <1>2, PairingPart, FreeSlots

LEMMA PairingOnlyStep ==
  ASSUME EventInv, PairingOnly
  PROVE  EventInv'
<1>1. PairingNext
  BY DEF PairingOnly, PairingNext, Discovery, PairStep, Change
<1>2. UNCHANGED <<log, manifests, due, xch, waiting, acked>>
  BY DEF PairingOnly, eventVars
<1> QED
  BY <1>1, <1>2, PairingPart, FreeSlots DEF EventInv, EventTypeOK

LEMMA DiscoverStep ==
  ASSUME EventInv, NEW n \in Node, DiscoverAndSync(n)
  PROVE  EventInv'
<1>1. PairingNext /\ heard[n].peer \in Node
  BY DEF DiscoverAndSync, DiscoverStore, PairingNext, Discovery, Announcement,
     EventInv, TypeInv, TypeOK
<1>2. UNCHANGED <<log, manifests, xch, waiting, acked>> /\ due' \subseteq Node \X Node
  BY <1>1 DEF DiscoverAndSync, EventInv, EventTypeOK
<1> QED
  BY <1>1, <1>2, PairingPart, FreeSlots DEF EventInv, EventTypeOK

LEMMA PairAndSyncStep ==
  ASSUME EventInv, NEW t \in Task, PairAndSync(t)
  PROVE  EventInv'
<1>1. PairingNext /\ call[t].src \in Node /\ call[t].peer \in Node
  <2>1. call[t] \in Call
    BY BusyCall DEF PairAndSync, PairFinish, EventInv, TypeInv
  <2> QED
    BY <2>1 DEF PairAndSync, PairingNext, PairStep, Call
<1>2. UNCHANGED <<log, manifests, xch, waiting, acked>> /\ due' \subseteq Node \X Node
  BY <1>1 DEF PairAndSync, EventInv, EventTypeOK
<1> QED
  BY <1>1, <1>2, PairingPart, FreeSlots DEF EventInv, EventTypeOK

-----------------------------------------------------------------------------
(* The invariant *)

LEMMA InitialEvents == EventInit => EventInv
<1> SUFFICES ASSUME EventInit PROVE EventInv
  OBVIOUS
<1>1. TypeInv
  BY DEF EventInit, TypeInv, TypeOK, CallsOK, Endpoint, Announcement, NotHearing, Call, NoCall
<1>2. EventTypeOK
  BY DEF EventInit, EventTypeOK
<1>3. SlotsOK
  BY DEF EventInit, SlotsOK, SlotOK
<1> QED
  BY <1>1, <1>2, <1>3 DEF EventInit, EventInv, AckMeansStored, OnlyPairedPeersShare

LEMMA NextEvents == EventInv /\ [Next]_vars => EventInv'
<1> SUFFICES ASSUME EventInv, [Next]_vars PROVE EventInv'
  OBVIOUS
<1>1. ASSUME NEW x \in Exchange, HandlerStores(x) PROVE EventInv'
  <2>1. xch[x].peer \in Node
    BY <1>1, Active DEF HandlerStores
  <2> QED
    BY <1>1, <2>1, StoreEventStep, StoreManifestStep DEF HandlerStores
<1>2. ASSUME NEW x \in Exchange, ClientStores(x) PROVE EventInv'
  <2>1. xch[x].src \in Node
    BY <1>2, Active DEF ClientStores
  <2> QED
    BY <1>2, <2>1, StoreEventStep, StoreManifestStep DEF ClientStores
<1>3. ASSUME NEW x \in Exchange, ExchangeStep(x) PROVE EventInv'
  BY <1>1, <1>2, <1>3, SendTextStep, SendFileStep, SendFileEventStep, SyncStartStep,
     SyncSendStep, HandleStep, AnswerStep, PushAckedStep, SyncTakeStep, FailureStep,
     AbandonedStep DEF ExchangeStep
<1> QED
  BY <1>3, PairingOnlyStep, DiscoverStep, RestartStep, PairAndSyncStep, StutterStep DEF Next

LEMMA EventInvariant == Spec => []EventInv
BY InitialEvents, NextEvents, PTL DEF Spec

\* The logs and exchanges keep their types, whatever nodes, exchanges, failures and
\* restarts there are.
THEOREM EventTypeCorrect == Spec => []EventTypeOK
<1>1. EventInv => EventTypeOK
  BY DEF EventInv
<1> QED
  BY <1>1, EventInvariant, PTL

\* send_text and send_file return without an error only when the event is in the
\* peer's log (the Ack of handle_message comes after insert_event).
THEOREM AcksAreStored == Spec => []AckMeansStored
<1>1. EventInv => AckMeansStored
  BY DEF EventInv
<1> QED
  BY <1>1, EventInvariant, PTL

\* A finished sync leaves each of the two with all that the other had written when
\* it was read, though pushes and other syncs ran meanwhile (sync_with and the
\* SyncExchange arm of handle_message).
THEOREM SyncsAreComplete == Spec => []SyncIsComplete
<1>1. ASSUME EventInv, NEW x \in Exchange, xch[x].phase = "taking", xch[x].todo = {}
      PROVE  /\ xch[x].sent \subseteq log[xch[x].peer]
             /\ xch[x].known \cup xch[x].promised \subseteq log[xch[x].src]
  BY <1>1, Active DEF Carries
<1>2. EventInv => SyncIsComplete
  BY <1>1 DEF SyncIsComplete
<1> QED
  BY <1>2, EventInvariant, PTL

\* A node has an event only of a peer, or for a peer, that it holds paired
\* (require_paired_peer and require_sender_paired, checked before the events are stored).
THEOREM PairedPeersShare == Spec => []OnlyPairedPeersShare
<1>1. EventInv => OnlyPairedPeersShare
  BY DEF EventInv
<1> QED
  BY <1>1, EventInvariant, PTL

-----------------------------------------------------------------------------
(* Pairing goes on as before *)

\* What a push or a sync does to the tables of Pairing is nothing.
LEMMA StepOfPairing ==
  [Next]_vars => PairingNext \/ UNCHANGED <<selfVars, peerVars, hearVars, callVars>>
<1> SUFFICES ASSUME [Next]_vars
             PROVE  PairingNext \/ UNCHANGED <<selfVars, peerVars, hearVars, callVars>>
  OBVIOUS
<1>1. CASE PairingOnly
  BY <1>1 DEF PairingOnly, PairingNext, Discovery, PairStep, Change
<1>2. ASSUME NEW n \in Node, DiscoverAndSync(n) \/ RestartNode(n) PROVE PairingNext
  BY <1>2 DEF DiscoverAndSync, RestartNode, PairingNext, Discovery, Change
<1>3. ASSUME NEW t \in Task, PairAndSync(t) PROVE PairingNext
  BY <1>3 DEF PairAndSync, PairingNext, PairStep
<1>4. ASSUME NEW x \in Exchange, ExchangeStep(x)
      PROVE  UNCHANGED <<selfVars, peerVars, hearVars, callVars>>
  BY <1>4 DEF ExchangeStep, SendText, SendFile, SendFileEvent, SyncByUser, SyncDue, SyncStart,
     SyncSend, Handle, Refuse, HandlerStores, Answer, PushAcked, SyncTake, ClientStores,
     SyncDone, Lost, Abandoned, StoreFails, StoreEvent, StoreManifest, pairingVars
<1>5. CASE UNCHANGED vars
  BY <1>5 DEF vars, pairingVars
<1> QED
  BY <1>1, <1>2, <1>3, <1>4, <1>5 DEF Next

LEMMA NextCommitOrder ==
  EventInv /\ CommitOrder /\ [Next]_vars
    => CommitOrder' /\ [Trust!Next]_<<asked, paired>>
<1> SUFFICES ASSUME EventInv, CommitOrder, [Next]_vars
             PROVE  CommitOrder' /\ [Trust!Next]_<<asked, paired>>
  OBVIOUS
<1>1. RequestInv
  BY DEF EventInv, RequestInv
<1>2. CASE PairingNext
  BY <1>1, <1>2, NextRequestInv, StepIsHandshake DEF RequestInv
<1>3. CASE UNCHANGED <<selfVars, peerVars, hearVars, callVars>>
  BY <1>3 DEF peerVars, hearVars, callVars, CommitOrder
<1> QED
  BY <1>2, <1>3, StepOfPairing

\* Whoever has met before, and whatever is sent and synced meanwhile, devices come to
\* trust each other by steps of the handshake only.
THEOREM SyncKeepsHandshake == Spec => [][Trust!Next]_<<asked, paired>>
<1>1. EventInit => CommitOrder
  <2> SUFFICES ASSUME EventInit PROVE CommitOrder
    OBVIOUS
  <2>1. wasPaired = {} /\ \A t \in Task : call[t].phase = "idle"
    BY DEF EventInit, NoCall
  <2> QED
    BY <2>1 DEF CommitOrder
<1> QED
  BY <1>1, EventInvariant, NextCommitOrder, PTL DEF Spec

-----------------------------------------------------------------------------
(* The logs are grow-only logs *)

LEMMA SendTextLogs ==
  ASSUME NEW x \in Exchange, NEW e \in Event, SendText(x, e)
  PROVE  Log!Next
<1>1. Log!Write(e)
  BY DEF SendText, Unwritten, Log!Write
<1> QED
  BY <1>1 DEF Log!Next

LEMMA SendFileEventLogs ==
  ASSUME EventInv, NEW x \in Exchange, SendFileEvent(x)
  PROVE  [Log!Next]_<<log, acked>>
<1>1. /\ Carries(xch[x], log, manifests, paired) /\ xch[x].phase = "saving"
      /\ xch[x].src \in Node
  BY Active DEF SendFileEvent
<1>2. PICK e \in Event : xch[x].sent = {e} /\ AuthorOf[e] = xch[x].src
  BY <1>1 DEF Carries
<1>3. log' = [log EXCEPT ![AuthorOf[e]] = @ \cup {e}] /\ acked' = acked
  BY <1>2 DEF SendFileEvent
<1>4. CASE e \in log[AuthorOf[e]]
  BY <1>1, <1>2, <1>3, <1>4 DEF EventInv, EventTypeOK
<1>5. CASE e \notin log[AuthorOf[e]]
  BY <1>3, <1>5 DEF Log!Write, Log!Next
<1> QED
  BY <1>4, <1>5

\* The event that is stored was written at the other end, for this one.
LEMMA StoreEventLogs ==
  ASSUME EventInv, NEW x \in Exchange, NEW n \in Node, NEW e \in Event, StoreEvent(x, n, e),
         \/ xch[x].phase = "merging" /\ n = xch[x].peer
         \/ xch[x].phase = "taking" /\ n = xch[x].src
  PROVE  Log!Next
<1>1. Carries(xch[x], log, manifests, paired)
  BY Active
<1>2. e \in log[AuthorOf[e]] /\ PeerOf[e] = n
  BY <1>1 DEF StoreEvent, Carries
<1>3. Log!Deliver(e)
  BY <1>2 DEF StoreEvent, Log!Deliver
<1> QED
  BY <1>3 DEF Log!Next

LEMMA PushAckedLogs ==
  ASSUME EventInv, NEW x \in Exchange, PushAcked(x)
  PROVE  Log!Next
<1>1. Carries(xch[x], log, manifests, paired)
  BY Active DEF PushAcked
<1>2. PICK e \in Event : xch[x].sent = {e}
  BY <1>1 DEF PushAcked, Carries
<1>3. e \in log[AuthorOf[e]] \cap log[PeerOf[e]]
  BY <1>1, <1>2 DEF PushAcked, Carries
<1>4. Log!Confirm(e)
  BY <1>2, <1>3 DEF PushAcked, Log!Confirm
<1> QED
  BY <1>4 DEF Log!Next

LEMMA NextLogs == EventInv /\ [Next]_vars => [Log!Next]_<<log, acked>>
<1> SUFFICES ASSUME EventInv, [Next]_vars PROVE [Log!Next]_<<log, acked>>
  OBVIOUS
<1>1. ASSUME NEW x \in Exchange, HandlerStores(x) PROVE [Log!Next]_<<log, acked>>
  <2>1. xch[x].peer \in Node
    BY <1>1, Active DEF HandlerStores
  <2> QED
    BY <1>1, <2>1, StoreEventLogs DEF HandlerStores, StoreManifest
<1>2. ASSUME NEW x \in Exchange, ClientStores(x) PROVE [Log!Next]_<<log, acked>>
  <2>1. xch[x].src \in Node
    BY <1>2, Active DEF ClientStores
  <2> QED
    BY <1>2, <2>1, StoreEventLogs DEF ClientStores, StoreManifest
<1>3. ASSUME NEW x \in Exchange, ExchangeStep(x) PROVE [Log!Next]_<<log, acked>>
  BY <1>1, <1>2, <1>3, SendTextLogs, SendFileEventLogs, PushAckedLogs
  DEF ExchangeStep, SendFile, SyncByUser, SyncDue, SyncStart, SyncSend, Handle, Refuse,
      Answer, SyncTake, SyncDone, Lost, Abandoned, StoreFails
<1>4. ASSUME NEW n \in Node, DiscoverAndSync(n) \/ RestartNode(n)
      PROVE  UNCHANGED <<log, acked>>
  BY <1>4 DEF DiscoverAndSync, RestartNode
<1>5. ASSUME NEW t \in Task, PairAndSync(t) PROVE UNCHANGED <<log, acked>>
  BY <1>5 DEF PairAndSync
<1>6. ASSUME PairingOnly \/ UNCHANGED vars PROVE UNCHANGED <<log, acked>>
  BY <1>6 DEF PairingOnly, vars, eventVars
<1> QED
  BY <1>3, <1>4, <1>5, <1>6 DEF Next

\* The event log of insert_event, with the two exchanges that fill it and the
\* acknowledgements of pushes, is the grow-only log of docs/protocol.md: every step
\* is one of its steps or changes nothing that it speaks of.
THEOREM ImplementsGrowOnlyLog == Spec => LogsOnlyGrow
<1>1. EventInit => Log!Init
  BY DEF EventInit, Log!Init
<1> QED
  BY <1>1, EventInvariant, NextLogs, PTL DEF Spec, LogsOnlyGrow, Log!Spec

-----------------------------------------------------------------------------
(* A manifest follows its event *)

\* While nothing fails, what an exchange was about to file for a node it still is,
\* or it has filed it.
Kept == \A n \in Node : \A e \in File : Filing(n, e) => Filing(n, e)' \/ e \in manifests'[n]

LEMMA ManifestStep ==
  ASSUME EventInv, ManifestFollowsEvent, changes' = 0 => changes = 0,
         \A n \in Node : manifests[n] \subseteq manifests'[n],
         changes' = 0 => Kept,
         \A n \in Node : \A e \in File :
            e \in log'[n] \ log[n] => Filing(n, e)' \/ e \in manifests'[n]
  PROVE  ManifestFollowsEvent'
BY DEF ManifestFollowsEvent, Kept

LEMMA OthersKept ==
  ASSUME EventInv, NEW x \in Exchange, NEW r, xch' = [xch EXCEPT ![x] = r], xch[x].filing = None
  PROVE  Kept
<1>1. \A y \in Exchange \ {x} : xch'[y] = xch[y]
  BY DEF EventInv, EventTypeOK
<1> QED
  BY <1>1 DEF Kept, Filing

\* Steps that store nothing and free or advance a slot that has nothing to file.
LEMMA QuietFiles ==
  ASSUME EventInv, ManifestFollowsEvent, NEW x \in Exchange, NEW r,
         xch' = [xch EXCEPT ![x] = r], xch[x].filing = None,
         log' = log, changes' = changes, \A n \in Node : manifests[n] \subseteq manifests'[n]
  PROVE  ManifestFollowsEvent'
BY OthersKept, ManifestStep

LEMMA NothingToFile ==
  ASSUME EventInv, NEW x \in Exchange, xch[x].phase \notin {"merging", "taking"}
  PROVE  xch[x].filing = None
<1>1. CASE xch[x].phase = "free"
  BY <1>1 DEF EventInv, EventTypeOK, Busy, Free
<1>2. CASE xch[x].phase # "free"
  BY <1>2, Active DEF Carries
<1> QED
  BY <1>1, <1>2

LEMMA SendTextFiles ==
  ASSUME EventInv, ManifestFollowsEvent, NEW x \in Exchange, NEW e \in Event, SendText(x, e)
  PROVE  ManifestFollowsEvent'
<1> DEFINE r == [Opened(AuthorOf[e], PeerOf[e], "push", "request") EXCEPT
                   !.name = name[AuthorOf[e]], !.sent = {e}]
<1>1. /\ xch' = [xch EXCEPT ![x] = r] /\ changes' = changes /\ manifests' = manifests
      /\ e \notin File /\ log' = [log EXCEPT ![AuthorOf[e]] = @ \cup {e}]
  BY DEF SendText, pairingVars
<1> HIDE DEF r
<1>2. xch[x].filing = None
  BY FreeIsNotBusy DEF SendText
<1>3. Kept
  BY <1>1, <1>2, OthersKept
<1>4. \A n \in Node : \A f \in File : f \notin log'[n] \ log[n]
  BY <1>1 DEF EventInv, EventTypeOK
<1> QED
  BY <1>1, <1>3, <1>4, ManifestStep

LEMMA SendFileEventFiles ==
  ASSUME EventInv, ManifestFollowsEvent, NEW x \in Exchange, SendFileEvent(x)
  PROVE  ManifestFollowsEvent'
<1> DEFINE b == xch[x]
           r == [b EXCEPT !.phase = "request", !.name = name[b.src]]
<1>1. /\ xch' = [xch EXCEPT ![x] = r] /\ changes' = changes /\ manifests' = manifests
      /\ log' = [log EXCEPT ![b.src] = @ \cup b.sent]
  BY DEF SendFileEvent, pairingVars
<1>2. b.sent \subseteq manifests[b.src] /\ b.src \in Node
  BY Active DEF SendFileEvent, Carries
<1>3. b.filing = None
  BY NothingToFile DEF SendFileEvent
<1> HIDE DEF r
<1>4. Kept
  BY <1>1, <1>3, OthersKept
<1>5. \A n \in Node : \A f \in File : f \in log'[n] \ log[n] => f \in manifests'[n]
  BY <1>1, <1>2 DEF EventInv, EventTypeOK
<1> QED
  BY <1>1, <1>4, <1>5, ManifestStep

LEMMA StoreEventFiles ==
  ASSUME EventInv, ManifestFollowsEvent,
         NEW x \in Exchange, NEW n \in Node, NEW e \in Event, StoreEvent(x, n, e),
         \/ xch[x].phase = "merging" /\ n = xch[x].peer
         \/ xch[x].phase = "taking" /\ n = xch[x].src
  PROVE  ManifestFollowsEvent'
<1> DEFINE b == xch[x]
           f == IF e \in File \ log[n] THEN e ELSE None
           r == [b EXCEPT !.todo = b.todo \ {e}, !.filing = f]
<1>1. b \in Busy
  BY Active
<1>2. xch' = [xch EXCEPT ![x] = r]
  BY Zenon DEF StoreEvent
<1>3. /\ changes' = changes /\ manifests' = manifests /\ b.filing = None
      /\ log' = [log EXCEPT ![n] = @ \cup {e}]
  BY DEF StoreEvent, pairingVars
<1>4. Kept
  <2> HIDE DEF r
  <2> QED
    BY <1>2, <1>3, OthersKept
<1>5. ASSUME NEW m \in Node, NEW g \in File, g \in log'[m] \ log[m] PROVE Filing(m, g)'
  <2>1. m = n /\ g = e /\ f = e
    BY <1>3, <1>5 DEF EventInv, EventTypeOK
  <2>2. r.filing = f /\ r.phase = b.phase /\ r.src = b.src /\ r.peer = b.peer
    <3> HIDE DEF f, b
    <3> QED
      BY <1>1 DEF Busy
  <2>3. xch'[x] = r
    BY <1>2 DEF EventInv, EventTypeOK
  <2> HIDE DEF r, f
  <2>4. xch'[x].filing = g /\ m = IF xch'[x].phase = "merging" THEN xch'[x].peer ELSE xch'[x].src
    BY <2>1, <2>2, <2>3
  <2> QED
    BY <2>4 DEF Filing
<1> QED
  BY <1>3, <1>4, <1>5, ManifestStep

LEMMA StoreManifestFiles ==
  ASSUME EventInv, ManifestFollowsEvent,
         NEW x \in Exchange, NEW n \in Node, StoreManifest(x, n),
         n = IF xch[x].phase = "merging" THEN xch[x].peer ELSE xch[x].src
  PROVE  ManifestFollowsEvent'
<1>1. /\ manifests' = [manifests EXCEPT ![n] = @ \cup {xch[x].filing}] /\ log' = log
      /\ changes' = changes /\ \A y \in Exchange \ {x} : xch'[y] = xch[y]
  BY DEF StoreManifest, pairingVars, EventInv, EventTypeOK
<1>2. xch[x].filing \in manifests'[n] /\ \A m \in Node : manifests[m] \subseteq manifests'[m]
  BY <1>1 DEF EventInv, EventTypeOK
<1>3. Kept
  BY <1>1, <1>2 DEF Kept, Filing
<1> QED
  BY <1>1, <1>2, <1>3, ManifestStep

\* Steps of an exchange that store nothing.
LEMMA OtherFiles ==
  ASSUME EventInv, ManifestFollowsEvent, NEW x \in Exchange,
         \/ \E e \in Event : SendFile(x, e)
         \/ \E n, p \in Node : SyncByUser(x, n, p) \/ SyncDue(x, n, p)
         \/ SyncSend(x) \/ (\E d \in Node : Handle(x, d) \/ Refuse(x, d)) \/ Answer(x)
         \/ PushAcked(x) \/ SyncTake(x) \/ SyncDone(x) \/ Lost(x)
  PROVE  ManifestFollowsEvent'
<1>1. xch[x].filing = None
  BY NothingToFile, FreeIsNotBusy
  DEF SendFile, SyncByUser, SyncDue, SyncStart, SyncSend, Handle, Refuse, Answer, PushAcked,
      SyncTake, SyncDone, Lost
<1>2. log' = log /\ changes' = changes
  BY DEF SendFile, SyncByUser, SyncDue, SyncStart, SyncSend, Handle, Refuse, Answer, PushAcked,
     SyncTake, SyncDone, Lost, pairingVars
<1>3. \A n \in Node : manifests[n] \subseteq manifests'[n]
  <2>1. ASSUME NEW e \in Event, SendFile(x, e)
        PROVE  \A n \in Node : manifests[n] \subseteq manifests'[n]
    BY <2>1 DEF SendFile, EventInv, EventTypeOK
  <2>2. CASE manifests' = manifests
    BY <2>2
  <2> QED
    BY <2>1, <2>2
    DEF SyncByUser, SyncDue, SyncStart, SyncSend, Handle, Refuse, Answer, PushAcked, SyncTake,
        SyncDone, Lost
<1>4. \E r : xch' = [xch EXCEPT ![x] = r]
  BY DEF SendFile, SyncByUser, SyncDue, SyncStart, SyncSend, Handle, Refuse, Answer, PushAcked,
     SyncTake, SyncDone, Lost, Release
<1> QED
  BY <1>1, <1>2, <1>3, <1>4, QuietFiles

\* A step that fails, or restarts a node, ends what the property speaks of.
LEMMA FaultFiles ==
  ASSUME EventInv, (\E x \in Exchange : StoreFails(x)) \/ (\E n \in Node : RestartNode(n))
  PROVE  ManifestFollowsEvent'
<1>1. changes \in Nat /\ changes' = changes + 1
  BY DEF StoreFails, RestartNode, Restart, EventInv, TypeInv, TypeOK
<1> QED
  BY <1>1 DEF ManifestFollowsEvent

LEMMA UntouchedFiles ==
  ASSUME EventInv, ManifestFollowsEvent, UNCHANGED <<log, manifests, xch>>,
         changes' = 0 => changes = 0
  PROVE  ManifestFollowsEvent'
<1>1. Kept
  BY DEF Kept, Filing
<1> QED
  BY <1>1, ManifestStep

LEMMA NextFiles == EventInv /\ ManifestFollowsEvent /\ [Next]_vars => ManifestFollowsEvent'
<1> SUFFICES ASSUME EventInv, ManifestFollowsEvent, [Next]_vars PROVE ManifestFollowsEvent'
  OBVIOUS
<1>1. changes \in Nat
  BY DEF EventInv, TypeInv, TypeOK
<1>2. ASSUME NEW x \in Exchange, HandlerStores(x) PROVE ManifestFollowsEvent'
  <2>1. xch[x].peer \in Node
    BY <1>2, Active DEF HandlerStores
  <2> QED
    BY <1>2, <2>1, StoreEventFiles, StoreManifestFiles DEF HandlerStores
<1>3. ASSUME NEW x \in Exchange, ClientStores(x) PROVE ManifestFollowsEvent'
  <2>1. xch[x].src \in Node
    BY <1>3, Active DEF ClientStores
  <2> QED
    BY <1>3, <2>1, StoreEventFiles, StoreManifestFiles DEF ClientStores
<1>4. ASSUME NEW x \in Exchange, ExchangeStep(x) PROVE ManifestFollowsEvent'
  <2>1. CASE Abandoned(x)
    BY <2>1, UntouchedFiles DEF Abandoned, pairingVars
  <2> QED
    BY <1>2, <1>3, <1>4, <2>1, SendTextFiles, SendFileEventFiles, OtherFiles, FaultFiles
    DEF ExchangeStep
<1>5. ASSUME NEW n \in Node, DiscoverAndSync(n) PROVE ManifestFollowsEvent'
  BY <1>5, UntouchedFiles DEF DiscoverAndSync, DiscoverStore
<1>6. ASSUME NEW t \in Task, PairAndSync(t) PROVE ManifestFollowsEvent'
  BY <1>6, UntouchedFiles DEF PairAndSync, PairFinish
<1>7. ASSUME PairingOnly PROVE ManifestFollowsEvent'
  <2>1. UNCHANGED <<log, manifests, xch>>
    BY <1>7 DEF PairingOnly, eventVars
  <2>2. changes' \in {changes, changes + 1}
    BY <1>7 DEF PairingOnly, Discover, PairStart, PairHandle, PairAccept, PairMismatch,
       PairLost, PairAbandoned, Rename, Move
  <2> QED
    BY <1>1, <2>1, <2>2, UntouchedFiles
<1>8. CASE UNCHANGED vars
  BY <1>8, UntouchedFiles DEF vars, eventVars, pairingVars
<1> QED
  BY <1>4, <1>5, <1>6, <1>7, <1>8, FaultFiles DEF Next

\* While nothing fails, a node that has stored a file's event has its manifest, or
\* the exchange that stored the event is about to store it (insert_event and then
\* process_manifest, which runs for the first copy only).
THEOREM ManifestsFollowEvents == Spec => []ManifestFollowsEvent
<1>1. EventInit => ManifestFollowsEvent
  BY DEF EventInit, ManifestFollowsEvent
<1> QED
  BY <1>1, EventInvariant, NextFiles, PTL DEF Spec
===============================================================================
