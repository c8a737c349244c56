------------------------------- MODULE Lifecycle -------------------------------
(***************************************************************************)
(* How the app creates, starts and closes its core: the bootstrap and its  *)
(* retry button (main.dart), NexusCore.open and the Bonjour bridge         *)
(* (nexus_core.dart, AppDelegate.swift), the C handle (ffi.rs) and         *)
(* Node::start (node.rs).                                                  *)
(*                                                                         *)
(* The isolate of the app runs one step at a time and gives way only where *)
(* it waits for the platform: requests to the native side are handled in   *)
(* order, later, and each may fail.  Meanwhile other programs take and     *)
(* leave the port, and the process may be killed.                          *)
(***************************************************************************)
EXTENDS Naturals, Sequences

CONSTANTS
  Core,        \* handles that one process may create
  Name,        \* device names
  MaxRequests, \* bound on the requests waiting at the native side
  MaxFaults,   \* bound on failed operations and on ports taken by others
  Foreign,     \* another program that has the port
  None         \* no core, no name, nobody

ASSUME BoundAssumption == MaxRequests \in Nat \ {0} /\ MaxFaults \in Nat
ASSUME ForeignAssumption == Foreign \notin Core /\ None \notin Core \cup Name \cup {Foreign}

VARIABLES
  apple,       \* iOS or macOS: discovery is Bonjour's and not the core's
  step,        \* where the bootstrap is
  core,        \* the handle it works with
  used,        \* the handles created in this process
  alive,       \* of those, the ones not destroyed
  started,     \* nodes whose started flag is set
  listening,   \* nodes that accept connections
  browsing,    \* nodes whose mDNS adapter runs
  looping,     \* nodes whose discovery loop runs
  port,        \* who has the listening port
  handler,     \* the core that the channel's handler calls for a resolved peer
  requests,    \* names in the startBonjour requests on their way
  published,   \* the name in the published service, while Bonjour runs
  name,        \* the stored device name
  faults       \* failed operations and ports taken so far

nodeVars == <<used, alive, started, listening, browsing, looping, port>>
bonjourVars == <<handler, requests, published>>
vars == <<apple, step, core, nodeVars, bonjourVars, name, faults>>

Steps == {"create", "bind", "discover", "receive", "bridge", "publish", "initialize",
          "ready", "error"}

LifeTypeOK ==
  /\ apple \in BOOLEAN
  /\ step \in Steps
  /\ core \in Core \cup {None}
  /\ used \subseteq Core /\ alive \subseteq used
  /\ started \subseteq used
  /\ listening \subseteq alive /\ browsing \subseteq alive /\ looping \subseteq alive
  /\ port \in Core \cup {Foreign, None}
  /\ handler \in Core \cup {None}
  /\ requests \in Seq(Name)
  /\ published \in Name \cup {None}
  /\ name \in Name
  /\ faults \in 0..MaxFaults

Init ==
  /\ apple \in BOOLEAN
  /\ step = "create" /\ core = None
  /\ used = {} /\ alive = {} /\ started = {}
  /\ listening = {} /\ browsing = {} /\ looping = {}
  /\ port = None
  /\ handler = None /\ requests = <<>> /\ published = None
  /\ name \in Name
  /\ faults = 0

\* An operation fails: its error is shown, with a button to try again.
Fault == faults < MaxFaults /\ faults' = faults + 1

-----------------------------------------------------------------------------
(* The C handle *)

\* nexus_create makes a runtime and a node.
Create(c) ==
  /\ step = "create" /\ c \notin used
  /\ used' = used \cup {c} /\ alive' = alive \cup {c}
  /\ core' = c /\ step' = "bind"
  /\ UNCHANGED <<apple, started, listening, browsing, looping, port, bonjourVars, name, faults>>

CreateFails ==
  /\ step = "create"
  /\ Fault /\ step' = "error"
  /\ UNCHANGED <<apple, core, nodeVars, bonjourVars, name>>

\* Mutant: the accept loop, which has the node, goes on without its handle.
DestroyHandle(c) ==
  /\ alive' = alive \ {c} /\ browsing' = browsing \ {c} /\ looping' = looping \ {c}
  /\ UNCHANGED <<used, started, listening, port>>

\* nexus_destroy stops the adapter and drops the runtime with all of its tasks.
Destroy(c) ==
  /\ alive' = alive \ {c}
  /\ listening' = listening \ {c}
  /\ browsing' = browsing \ {c}
  /\ looping' = looping \ {c}
  /\ port' = IF port = c THEN None ELSE port
  /\ UNCHANGED <<used, started>>

-----------------------------------------------------------------------------
(* Node::start, called by NexusCore.open *)

AfterStart == IF apple THEN "bridge" ELSE "initialize"

\* A node that is started already has nothing to do.  Otherwise the flag is set
\* first, and the port is bound if nobody has it.
Bind ==
  /\ step = "bind"
  /\ started' = started \cup {core}
  /\ IF core \notin started /\ port = None
     THEN port' = core /\ listening' = listening \cup {core}
     ELSE UNCHANGED <<port, listening>>
  /\ step' = IF core \in started THEN AfterStart
             ELSE IF port = None THEN "discover" ELSE "error"
  /\ UNCHANGED <<apple, core, used, alive, browsing, looping, bonjourVars, name, faults>>

\* The adapter, if there is one, registers the service and browses.
Browse ==
  /\ step = "discover"
  /\ browsing' = IF apple THEN browsing ELSE browsing \cup {core}
  /\ step' = "receive"
  /\ UNCHANGED <<apple, core, used, alive, started, listening, looping, port, bonjourVars,
                 name, faults>>

BrowseFails ==
  /\ step = "discover" /\ ~apple
  /\ Fault /\ step' = "error"
  /\ UNCHANGED <<apple, core, nodeVars, bonjourVars, name>>

Receive ==
  /\ step = "receive"
  /\ looping' = looping \cup {core}
  /\ step' = AfterStart
  /\ UNCHANGED <<apple, core, used, alive, started, listening, browsing, port, bonjourVars,
                 name, faults>>

-----------------------------------------------------------------------------
(* The Bonjour bridge *)

\* The handler of the channel is set and Bonjour is asked to start.
Bridge ==
  /\ step = "bridge"
  /\ handler' = core
  /\ requests' = Append(requests, name)
  /\ step' = "publish"
  /\ UNCHANGED <<apple, core, nodeVars, published, name, faults>>

\* The native side stops what it has published and starts anew.
Publish ==
  /\ requests # <<>>
  /\ published' = Head(requests)
  /\ requests' = Tail(requests)
  /\ step' = IF step = "publish" /\ Len(requests) = 1 THEN "initialize" ELSE step
  /\ UNCHANGED <<apple, core, nodeVars, handler, name, faults>>

\* Or the channel answers with an error, and nothing has changed.
PublishFails ==
  /\ requests # <<>>
  /\ Fault
  /\ requests' = Tail(requests)
  /\ step' = IF step = "publish" /\ Len(requests) = 1 THEN "error" ELSE step
  /\ UNCHANGED <<apple, core, nodeVars, handler, published, name>>

-----------------------------------------------------------------------------
(* The app *)

Initialize ==
  /\ step = "initialize"
  /\ step' = "ready"
  /\ UNCHANGED <<apple, core, nodeVars, bonjourVars, name, faults>>

\* Mutant: the channel keeps its handler.
InitializeFailsUnclean ==
  /\ step = "initialize"
  /\ Fault /\ step' = "error"
  /\ Destroy(core)
  /\ UNCHANGED <<apple, core, bonjourVars, name>>

\* The first call fails: the core is closed, and its bridge before it.
InitializeFails ==
  /\ step = "initialize"
  /\ Fault /\ step' = "error"
  /\ IF apple THEN handler' = None /\ published' = None /\ requests' = <<>>
              ELSE UNCHANGED bonjourVars
  /\ Destroy(core)
  /\ UNCHANGED <<apple, core, name>>

\* Mutant: the core that there is gets started again.
RetryStart ==
  /\ step = "error"
  /\ step' = IF core \in alive THEN "bind" ELSE "create"
  /\ UNCHANGED <<apple, core, nodeVars, bonjourVars, name, faults>>

\* The button on the error screen: all over again.
Retry ==
  /\ step = "error"
  /\ step' = "create"
  /\ UNCHANGED <<apple, core, nodeVars, bonjourVars, name, faults>>

\* Mutant: the bridge restarts with the name that it has published.
RenameRestarts(nm) ==
  /\ step = "ready" /\ nm # name /\ Len(requests) < MaxRequests
  /\ name' = nm
  /\ requests' = IF apple THEN Append(requests, published) ELSE requests
  /\ UNCHANGED <<apple, step, core, nodeVars, handler, published, faults>>

\* The name is stored; on Apple the bridge is restarted with it.
Rename(nm) ==
  /\ step = "ready" /\ nm # name /\ Len(requests) < MaxRequests
  /\ name' = nm
  /\ requests' = IF apple THEN Append(requests, nm) ELSE requests
  /\ UNCHANGED <<apple, step, core, nodeVars, handler, published, faults>>

\* The process is killed; the next one finds the stored name.
Relaunch ==
  /\ step' = "create" /\ core' = None
  /\ used' = {} /\ alive' = {} /\ started' = {}
  /\ listening' = {} /\ browsing' = {} /\ looping' = {}
  /\ handler' = None /\ requests' = <<>> /\ published' = None
  /\ port' = IF port \in Core THEN None ELSE port
  /\ UNCHANGED <<apple, name, faults>>

PortTaken ==
  /\ port = None
  /\ Fault /\ port' = Foreign
  /\ UNCHANGED <<apple, step, core, used, alive, started, listening, browsing, looping,
                 bonjourVars, name>>

PortLeft ==
  /\ port = Foreign /\ port' = None
  /\ UNCHANGED <<apple, step, core, used, alive, started, listening, browsing, looping,
                 bonjourVars, name, faults>>

\* Who may be called at any time: the core that the bootstrap or the app works with,
\* and the one in the channel's handler, as soon as Bonjour resolves a peer.
CalledByApp == IF step \in {"create", "error"} THEN {} ELSE {core}
CalledByBonjour == IF handler = None THEN {} ELSE {handler}

-----------------------------------------------------------------------------
Next ==
  \/ (\E c \in Core : Create(c)) \/ CreateFails
  \/ Bind \/ Browse \/ BrowseFails \/ Receive
  \/ Bridge \/ Publish \/ PublishFails
  \/ Initialize \/ InitializeFails \/ Retry
  \/ \E nm \in Name : Rename(nm)
  \/ Relaunch \/ PortTaken \/ PortLeft

Spec == Init /\ [][Next]_vars

-----------------------------------------------------------------------------
(* Properties *)

\* Once start has returned without an error the node takes connections and handles
\* discoveries, though its flag is set before it has done either and stays set when
\* it fails: a retry makes a node of its own.
StartedCoreServes ==
  step \in {"bridge", "publish", "initialize", "ready"} =>
    core \in listening \cap looping /\ (apple \/ core \in browsing)

\* ffi.rs, nexus_call: "handle must come from nexus_create and remain live".  The
\* app and the channel's handler never call a core that has been destroyed, though a
\* failed open leaves its handler behind and a failed initialization its screen.
CallsOnLiveCores == CalledByApp \cup CalledByBonjour \subseteq alive

\* The published name is the stored one when the native side has handled what it was
\* asked, with renames on its way and another start before them.
PublishedNameIsCurrent ==
  apple /\ step = "ready" /\ requests = <<>> /\ faults = 0 => published = name

\* ffi.rs, nexus_create: "The returned handle must be released exactly once with
\* nexus_destroy": a core that the app no longer works with has been released.
UnusedCoresAreReleased == step \in {"create", "error"} => alive = {}
==============================================================================
