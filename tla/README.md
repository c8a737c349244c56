# Nexus P2P: a TLA+ verification project

Nexus is an offline-first messenger: devices discover each other on the local
network, pair, and exchange encrypted texts and files over TCP. The Rust core
(`core/nexus-core`) carries all of the protocol; a Flutter app, a command-line
tool and two Apple adapters drive it. This directory models the core's stored
state and its exchanges, checks them with TLC and proves the properties that
matter most with TLAPS.

Paths below are relative to the repository; `node.rs`, `storage.rs`, `files.rs`
and `ffi.rs` are in `core/nexus-core/src`, `lan.rs` in its `transport`.
`PROJECT.json` maps every definition to the lines it models.

## 1. Inventory

| Component | State | Operations | What is hard | What makes it correct |
|---|---|---|---|---|
| Blob store and manifest rows (`storage.rs`) | `<hash>` and `<hash>.partial` files; tables `manifests`, `manifest_chunks`; the connection mutex | `put_blob`, `save_manifest`, `mark_chunk_present`, `refresh_manifest_complete` | the file system is used without a lock; two statements where one was meant; crashes between file and row | a row never claims a chunk that is not there; no mark is lost; a file under its hash is whole |
| Peers, discovery, pairing (`node.rs`, `storage.rs`, `lan.rs`) | table `peers` (identity, `paired`, endpoint); display name; announcement | discovery loop, `remember_peer`, `pair` and its handler, `set_display_name` | reads of a row and writes back much later; endpoints that move or are given to another device; one side commits first | a pairing is never undone and is asked for; an endpoint heals |
| Event log, push, sync (`node.rs`, `storage.rs`) | table `events`; table `manifests` as far as a file is known at all | `send_text`, first half of `send_file`, `sync`, the handlers of `PushEvent` and `SyncExchange` | push and sync of one event at once; lost requests and responses; an event and its manifest stored in two transactions | the log is a grow-only set, an acknowledged event is stored, every event arrives |
| File transfer (`node.rs`, `files.rs`) | chunks and manifests above | second half of `send_file`, `ChunkRequest`, `PushChunks`, `resume_files`, `ingest_file`, `materialize_file` | push and resume of one file at once; one file's error ends all; temporary files that two calls share; power failures | what is offered can be asked for, of what is sent the peer has every row and chunk file, what a peer knows of completes; a destination gets the whole file or nothing |
| Life cycle and C ABI (`node.rs`, `ffi.rs`, `main.dart`, `nexus_core.dart`) | `started`, the listener, the runtime, the handle, the bootstrap's progress | `start`, `nexus_create`, `nexus_destroy`, `NexusCore.open`, the retry button | a start that fails half-way; a call that waits for ever | a core whose start succeeded serves; no destroyed core is called |
| Event broadcast (`node.rs`, `ffi.rs`, CLI) | the 256-slot channel and each reader's position | `send`, the poll, the printer | lag, while a call blocks the app | the app loses only what was overwritten, and gets the rest |
| mDNS adapter, TCP transport (`lan.rs`) | service record, sockets | `register`, `browse`, `request`, `read_frame` | a response that never comes; the 8 MiB frame | what fits is sent, what does not is an error |
| Apple discovery bridge (`nexus_core.dart`, `AppDelegate.swift`, `MainFlutterWindow.swift`) | browser, publisher | `start`, `stop`, `bonjourPeer` | numeric addresses; no sync after a rediscovery | as mDNS |
| Identity and cryptography (`identity.rs`, `crypto.rs`) | keys | sign, encrypt, verify | none that a model of this kind sees | primitives, taken as such |
| User interface, CLI, runners, scripts | what is on the screen | calls of the core | a failed send that is sent again | not in scope |

How they interact. Tokio tasks and FFI calls share one `Store`; its mutex covers
single statements and the transaction of `save_manifest`, never a whole
operation. Every request is a TCP connection of its own with one response; the
client's code before, between and after its awaits, the handler on the other
node, the discovery loop and the syncs it spawns all interleave. A node
that dies keeps its tables and files and loses everything else.

## 2. Modules

| Module | Models | Extends |
|---|---|---|
| `ChunkStore` | abstract: a store that never loses a chunk or a mark | |
| `BlobStore` | the blob store, step by system call and mutex acquisition | implements `ChunkStore` |
| `Handshake` | abstract: who may come to trust whom | |
| `Pairing` | the peers table of every node, discovery, the pairing exchange | implements `Handshake` |
| `GrowOnlyLog` | abstract: the log that `docs/protocol.md` promises | |
| `EventSync` | event logs, pushes and syncs on top of the pairing and discovery of `Pairing` | `Pairing`; implements `GrowOnlyLog` |
| `FileDelivery` | abstract: what sending a file promises | |
| `FileTransfer` | chunk pushes and resumes between an author and a peer | implements `FileDelivery`, and `ChunkStore` at each node |
| `AtomicFile` | abstract: a file that is at its destination as a whole or not at all | |
| `Materialize` | `materialize_file` on top of the threads of `BlobStore` | `BlobStore`; implements `AtomicFile` |
| `Lifecycle` | the app's bootstrap, the C handle, `start`, the Bonjour bridge | |
| `EventFeed` | abstract: what the reader of a broadcast channel is promised | |
| `EventBus` | the broadcast channel and the app's poll on top of `Lifecycle` | `Lifecycle`; implements `EventFeed` |
| `BlobStoreProofs`, `MaterializeProofs`, `PairingProofs`, `EventSyncProofs`, `FileTransferProofs`, `LifecycleProofs`, `EventBusProofs` | theorems | the module named |
| `FileDeliveryProofs` | the refinements of `FileTransfer` | `FileTransferProofs` |
| `MCBlobStore`, `MCMaterialize`, `MCPairing`, `MCEventSync`, `MCFileTransfer`, `MCLifecycle`, `MCEventBus` | values for the runs | the module named |

**`BlobStore`.** A thread is a task or FFI call that uses the store; `at[t]` names its
next step. `put_blob` is five steps: the `exists()` check (`PutBegin`), the open and
the write of the `.partial` file (`PutOpen`, `PutWrite`), the rename (`PutRename`, or
`PutRenameFails` when another thread has renamed the file away) and the mark
(`PutMark`). A file is absent, torn or full; `fd[t]` follows the file that an open
descriptor writes to when a rename moves it. `save_manifest` holds the mutex
(`conn`) from `SaveBegin` over one `SaveScan` per chunk to `SaveCommit`, and then
refreshes; `refresh_manifest_complete` takes the mutex twice (`RefreshCount`,
`RefreshUpdate`). `Fail` leaves an operation through `?`, `Crash` ends the process.
A chunk's index in its manifest is left out: rows of one manifest with one hash
are always inserted and marked together.

**`ChunkStore`** is what the store's callers rely on: chunks are placed, then marked in
every manifest that lists them; a new manifest starts with the chunks that are there
marked, except those that somebody is about to mark; `complete` is set only when every
row is marked, and may be taken back by an older count (`Doubt`). A failure takes nothing
away but the intention to mark. `BlobStore` implements it with the files
under their hashes as `disk` and the threads in `PutMark`'s step as those about to mark; a
transaction is one step there (`SaveCommit` becomes `Save`), and opening, writing,
scanning and counting stutter. `FileTransfer`, whose store steps are coarser, implements
it at each node: the fine and the coarse model of the store keep one promise.

**`Pairing`.** `storedName`, `paired` and `endpoint` are the columns of `peers`; keys
never change and are left out, so an identity is a device id and a display name,
which `require_sender_paired` compares as a whole. An mDNS node stores its
peers' host names, which follow a device that moves; a node of `Bonjour` stores
numeric addresses, which do not and which may be given to another device.
`Discover` is an announcement and the read of `paired`, `DiscoverStore` the write. A
pair call is a record in `call[t]` with a `phase`; the handler's read of the endpoint
(`PairHandle`) and its write (`PairAccept`) are two steps, as are the client's request
and what it does with the response (`PairFinish`, `PairMismatch`). `live` holds the
calls whose client still waits: a handler goes on without it.

**`Handshake`** has three actions: a user asks for a pairing (`Ask`), a node takes a
request of somebody who has asked (`Accept`; whom it was meant for cannot be seen, since
an address may have another owner by now), and a node learns that the one it asked has
accepted (`Conclude`). `PairStart`, `PairAccept` and `PairFinish` implement them with `paired`
as the trust; the discovery loop, which writes the flag it has read, must not be a step.

**`EventSync`.** An exchange, push or sync, is a record in `xch[x]`. The client reads
what it knows (`SyncStart`) and what it sends (`SyncSend`) in two steps, the handler
stores event by event (`StoreEvent`, and `StoreManifest` after a new file event) and
answers (`Answer`), the client stores the response the same way. `due` holds the syncs
that were spawned and not yet started. Decryption and signatures are taken as given:
`chat_item` never fails for an event a peer wrote. `resume_files` at the end of a
sync changes nothing that these modules hold, and is left to `FileTransfer`.

**`GrowOnlyLog`** has three actions: the author writes an event, it is delivered to the
peer it is for once the author has it, and the author is told so once the peer has it.
`EventSync` instantiates it with the logs as they are and `acked` as the confirmations;
`LogsOnlyGrow` is its specification, and everything else in `EventSync` stutters.

**`FileTransfer`.** A `send_file`, a `resume_files` or an arriving manifest is a record in
`job[t]`; `phase` is its next step and `at` the node where that runs, since a pushed
batch is handled at the peer. The store's operations are shared by all jobs and are
coarser than in `BlobStore`: `Place` and `Mark` are `put_blob`, `Save`, `Count` and
`Update` are `save_manifest` and `refresh_manifest_complete`, whose count may be out of
date when it is written. A batch is a set of rows (chunk indexes), placed in order;
two rows may have the same chunk. `SendStart` to `SendDone` follow `send_file`,
`AcceptPush` and `RefusePush` its handler, `ResumeStart` to `Fetch` follow
`resume_files` and the handler of `ChunkRequest`. How the event travels is `EventSync`'s:
here it arrives at some time (`Arrive`) and a job of its own then saves the manifest.
So a push may be acknowledged while a sync is still saving the manifest, and the
first batch be refused as "unknown manifest" (`node.rs:561`, `node.rs:640`): both
happen in the program when a push and a sync carry the event at the same time.
`blobs` are the chunks that have a file under their hash, and that is all this module
knows of them. `Place` is one step here, so the case of `blob_shared` does not arise: two
jobs of a node, a push handler and a resume, that place one chunk at once may leave a
torn file under its hash, which is then marked, acknowledged and counted like a whole
one; `materialize_file` refuses it. `Gathered`, what the peer of a sent file has, is
therefore the manifest, a mark on each of its rows and a file for each chunk, which
`materialize_file` needs to begin with, and not that it succeeds. That a chunk's file is
whole is claimed for chunks which one thread places (`SoleWriters`), and its steps are
those of `Materialize`. A chunk that is torn at its author is refused by the peer's
`put_blob`, which ends the transfer as a failed store does; `KnownFilesComplete` supposes
that there is none.

**`FileDelivery`** is where the rows and chunk files of a file may be: all at its author
before its event is in the log (`Announce`), only the peer it is for hears of it (`Hear`)
and may get them all, once its author has them (`Gather`), `send_file` succeeds only then
(`Confirm`), and nothing is taken back. `FileTransfer` implements it with `Gathered` as
`gathered`. A chunk that two files share may be the last one of both.

**`Materialize`.** A call of `materialize_file` is a record in `job[c]`: it finds the
manifest whole (`MaterializeBegin`, which waits for the mutex), creates the temporary
file, copies chunk by chunk, compares the hash of what it has read, and renames. `file`
holds the bytes under each destination and temporary name as a sequence of chunks, and
`out[c]` the name under which the file is now that the call has open, since a rename by
another call takes it along. `TempOf` is `with_extension("nexus-partial")`, so
`holiday.mp3` and `holiday.png` share a temporary name and the calls for both truncate
and overwrite each other's file. A destination that has this extension already is its
own temporary file: it is truncated and written in place, and the rename does nothing.
It may be the temporary file of other destinations as well. Failures are those of
`BlobStore`, an operation that ends through `?`, the death of the process and a power
failure: after the latter the rows are all there, and a chunk's file, which `put_blob`
does not sync, may be cut short, spoilt or gone. `materialize_file` syncs the file before
the rename (`unsynced` holds the names whose files have bytes that are not), and the
directory never: `durable` is what a power failure would leave at each destination, and
whenever a destination gets a file, or its file is synced, `durable` follows or does not
(`Reaches`), so that a placement may be undone.

**`AtomicFile`** has three actions: chunks arrive, a whole file that was asked for at a
destination is placed there, and a power failure puts back what each destination
durably had, which is what it held at some earlier time. `Materialize` implements it with
`Whole` (no chunk row is missing) as what has arrived and `file` as what is placed, for
the destinations of `SoleDest`: not written in place, and their temporary name is used by
the calls of one caller. For the others it does not hold, since two callers that share a
temporary name may rename each other's half-written file (`files.rs:65`).

**`Lifecycle`.** `step` is where the app's bootstrap is: `nexus_create`, the bind, the
adapter and the loop of `Node::start`, the bridge, its request, the first call. The
Dart isolate gives way only where it waits for the platform, so requests to the
native side wait in `requests`, in order, while a running app may rename the device.
The port may be taken by another program; `apple` says whether discovery is Bonjour's. `Retry` is the button on
the error screen and `Relaunch` the death of the process.

**`EventBus`.** The events of the app's core are numbered as they are sent: `start`
sends the first (`ReceiveAndReady`), the node's tasks the others (`Emit`). The channel
keeps the last `Capacity` of them (256 in the program); `next` is the cursor of the
receiver that `nexus_create` subscribes. A poll takes event by event (`PollTake`) until
there is none (`PollEmpty`) or until it finds that it was overtaken (`PollLagged`): the
channel then moves it to the oldest event left, and the loop, which takes any error for
the end, returns what it has. Each call of the app into the core blocks its isolate
(`CallBegin` to `CallReturns`), and the events of the meantime pile up. A `refresh` of
the app whose `peers()` throws never reaches the poll and is not a poll here.

**`EventFeed`** gives its reader a sequence of events, no event twice, in the order sent and
without gaps but for events that were overtaken, which it never gives later. `EventBus`
implements it with the lists of the polls one after the other (`got`) as that sequence
and the events behind the cursor that are neither in it nor in a poll's list as lost.

## 3. Runs

Passing runs:

| Run | Instance | What it shows |
|---|---|---|
| `blob_safety` | 2 threads, 2 manifests that share a chunk, one chunk placed by both threads and one by one only, 1 fault | a marked chunk is on disk, a complete manifest is, no mark is lost, a chunk with a single writer is whole; the store implements `ChunkStore` |
| `materialize` | 1 file of 2 chunks, 1 thread that fetches them, 2 callers, 3 destinations of which one is the temporary file of another and its own, 1 fault | the two others get the whole file or nothing, whatever fails; a power failure leaves them as they were at some earlier time |
| `pairing_two` | an mDNS and a Bonjour node, 1 pair call at a time, 3 addresses, 2 names, 3 changes, fair discovery | pairings and endpoints are never lost to a write of something read before; a pairing is one-sided only after a request, and pairing implements `Handshake`; endpoints heal |
| `sync_safety` | 2 paired nodes, a file of one and a text of the other, 2 exchanges, 1 restart or failed store | the log is grow-only, acknowledged events are stored, a finished sync is complete; without failures a manifest follows its event |
| `sync_stranger` | 2 nodes that have never met, one with Bonjour, 1 pair call and 1 exchange at a time, 2 names, 3 addresses, 1 change | events are exchanged with paired peers only, also while one side alone has stored the pairing |
| `sync_converges` | 2 paired mDNS nodes, fair | every event arrives though any push, request or response is lost |
| `file_transfer` | 2 files of one author that share a chunk, batches of 1, 2 jobs, 1 restart or failed store, fair | what is offered can be asked for, of what is sent the peer has every row and chunk file, transfers implement `FileDelivery` on stores that implement `ChunkStore`; a known file completes and stays complete |
| `life_safety` | 3 cores, 2 names, 2 requests, 3 faults, both kinds of platform, a ring of 2 and 5 events, a fair poll | a started core serves, no destroyed core is called, the published name becomes the stored one; the app loses no event that was not overtaken and gets the others; polls implement `EventFeed` |

Runs that find the program in disagreement with its documents (PROJECT.json,
`findings`):

| Run | Property | What happens |
|---|---|---|
| `blob_shared` | `BlobWhole` | two threads share `<hash>.partial`, and one renames the other's truncated file into the store |
| `pairing_renamed` | `PairedPeersAreAdmitted` | a renamed mDNS node announces its old name and makes its requests under the new one: a peer that has paired it refuses them, however often it rediscovers it, until the node restarts |
| `sync_manifest` | `ManifestRecovers` | a crash between an event and its manifest loses the manifest |
| `life_release` | `UnusedCoresAreReleased` | `NexusCore.open` throws and drops the handle; the port stays bound and every retry fails |

`pairing_renamed` says what the renamed node's own pushes, syncs and file requests meet. Its
peer's syncs are still admitted at the renamed node, whose response brings its events
to the peer, so that events go on to arrive as long as the peer discovers it; between
Bonjour nodes the property holds, because a rename restarts their announcement.

`Converges` is checked between mDNS nodes (a Bonjour peer is stored by `remember_peer`,
which starts no sync, `node.rs:162`; a lost push then waits for one that nobody starts),
without renames (a renamed node's events depend on the responses to its peer's syncs
alone, and the fairness assumed lets each of them be lost), and with a history that fits
into one frame (a sync sends the whole own history, `node.rs:438`, and `lan.rs:176` refuses
more than 8 MiB). Bonjour's missing sync and the frame are hazards in PROJECT.json, not
runs: the documents promise nothing that contradicts them as directly.

Bounds. Two nodes are enough for the exchanges: no step involves a third, since
forwarded events are refused. Two exchanges give every pair of steps that can
interleave (push against sync, sync against sync, of either node).
Events are one per direction, so that each sync both sends and receives, and one
is a file, because only a file's event has a second step. `MaxFaults` bounds crashes
and failed operations and `MaxChanges` renames, moves, restarts and failed stores; two
changes let an address be left by one device and taken by another, and a third lets
something else happen to the pair that still has it. `pairing_two` and `sync_stranger`
have one slot for pair calls: a call's client may have given up while its handler still
runs, calls in both directions follow each other, and discovery, with its own read and
late write, runs beside the call. That several calls at once keep the safety properties
is proved for any number of them (section 4). In `file_transfer` two
files of two rows take two batches each; one has the second chunk of the other, twice,
so that one job marks rows of another's file; with two jobs any two of a send, a resume
of either node and an arriving manifest interleave. The safety properties of that run
have also been checked once with three jobs (2.9 million states, too long for a regular
run).
`materialize` has two callers: one asks for a file at two destinations, the second of which
is the temporary file of the first and its own, the other at a destination with a
temporary name of its own. Callers that share a temporary name are in the module and in
its proof, not in this instance: their interleavings on two chunks are millions of
states (the property has been checked once with two callers that share a name and a
file of two equal chunks, 7 million states, too long for a regular run).
`life_safety` has as many cores as faults, so that each attempt may fail in another
way; in its ring of 2, five events overtake a receiver, let it go on with the oldest and
overtake it again. Exchanges are interchangeable slots, and `sync_safety`, which checks no
liveness, uses that symmetry. Two calls of one node's user at the same
time are allowed: `Node` is shared between tasks, and a spawned sync runs beside a call
of the user.

Deadlock is checked in every run; none occurs, since a node can always discover, call,
sync or be started anew.

Fairness. `DiscoveryFairness` says that the announcements of each peer are resolved again and
again (mDNS and Bonjour browse for as long as the node runs; strong, because the loop
is busy with one announcement at a time) and that the loop handles what it has (weak).
In `EventSync` a spawned sync is started and a node whose syncs are sent again and again
has one read at last (strong: a single connection may always break, all of them do
not); what runs on a node goes on (weak); and a client whose connection has failed
notices (weak). `FileTransfer` says the same of its jobs: the syncs of each pair recur
(strong, a sync needs a free slot), a chunk request that is sent again and again is
served and its answer read (strong), the store's steps go on and a broken connection is
noticed (weak). `EventBus` says that the app's timer gets its turn between calls and that
some refresh reaches the poll (strong: the timer fires again and again, each time it may
find the isolate in a call or `peers()` may throw), and that a poll goes on (weak);
`EventsArrive` is stated for behaviours in which calls over the network return. Noticing
holds for a refused or a reset connection only, because the transport has no read timeout (`lan.rs:180`); a client that waits for ever occupies one
slot of the model, while the program spawns as many as it likes. No fairness is assumed
of users, renames, moves, crashes or lost connections.

## 4. Proofs

All theorems are for every value of the constants that satisfies the modules'
assumptions: any number of nodes, threads, calls, exchanges, files, jobs and faults, any
capacity of the event channel, any limit on what fits into a frame.

**`BlobStoreProofs`.** `TypeCorrect` is plain. `MarksAreOnDisk` and `CompleteIsOnDisk`
rest on `DiskInv`: besides the two properties, a thread about to mark has its file on
disk, the chunks a `save_manifest` transaction has found are on disk, and a thread
whose count was zero has all chunks of its manifest marked. The lemmas `FilesStay` and
`MarksStay` carry it: no step takes a file or a mark away. `MarksAreNotLost` needs
`MarkInv`, which says what the open transaction has yet to scan and that its holder
alone is inside it: a chunk that was scanned as missing and is on disk has a thread
on its way to mark it, which the mutex holds back until the rows are there.
`SoleWriters` says of a chunk that only one thread may place that it is never torn,
however many others place other chunks; `blob_shared` shows that the condition matters.
`StoreKeepsChunks` is the refinement of `ChunkStore`. It takes `StoreInv`, `DiskInv` and
`MarkInv` together with `ScanKnown`, that an open transaction inserts only chunks of its own
manifest: when it commits, `DiskInv` says that what it marks is on disk, and `MarkInv` that
what it does not mark although it is on disk is about to be marked, which `SaveCommit` has
to show for `Save`. The counts of `refresh_manifest_complete` need `MarksStay`, because the
number that is written was read under an earlier acquisition of the mutex.

**`MaterializeProofs`.** `MaterializeIsAtomic` is a refinement: every step of
`Materialize`, the steps of the store's threads and power failures included, is a step of
`AtomicFile` or changes nothing of it, at the destinations of `SoleDest`; destinations that
share a temporary name or are one are there, and must not get in their way. Its invariant
is `PlaceInv`. `SoleOK` says of a call whose temporary name its caller alone uses that its
descriptor is on the file of that name and that the file holds what it has read
so far (`Written`) and is synced before it is placed, so that the rename, which looks at
names only, takes what the hash was computed from. That no other call writes there is
`OutOK`: a descriptor stays among the names that share one temporary name, whatever is
renamed; hence none is ever on the file of a sole destination (`OutNotSole`). `SoleSynced`,
that such a file has no bytes that are not synced, makes a power failure put back what was
there before and nothing else.
`OverwriteProperties` and `WriteAtEnd` are about the writes. `RowsCoveredUntilPowerFails`
takes `DiskInv` over from the store: calls of `materialize_file` and their failures keep it,
and only a power failure ends it.

**`PairingProofs`.** `PairingTypeCorrect`; `PairingStable` and `EndpointsKept` are action
properties that follow from the type invariant and the one place that writes rows
(`Upsert`: the maximum of old and new `paired`, the new endpoint unless it is NULL).
`PairsOnlyByHandshake` is the refinement of `Handshake`. It needs `RequestInv`: every call in
progress was asked for; a response under way has been committed by the node that gives
it, which is what `PairFinish` needs to be `Conclude`; and a discovery loop that has read
"paired" read the truth and it still is, so that what it writes back changes nothing
(`DiscoverStorePaired`). `OneSidedPairings` then follows from the abstract specification:
no step of the handshake leaves a trust that is not returned and was not asked for
(`HandshakeKeepsRequests`).

**`EventSyncProofs`.** One invariant, `EventInv`, carries `EventTypeCorrect`, `AcksAreStored`,
`SyncsAreComplete`, `PairedPeersShare` and the refinement. Its core is `Carries`, what an
exchange in a given phase may rely on: its client holds its peer paired; what it sends
was written by the client for the peer and is in the client's log; of that, what the
handler has yet to store is `todo` and the rest is in the handler's log; the same of
the response. It survives the other exchanges because logs and pairings only grow
(`Grows`) and because a slot that changes is the only one (`SlotStep`); a restart
takes away exchanges and nothing they have stored. `ImplementsGrowOnlyLog` then has three
cases, an event that its author stores, one that its peer stores and an
acknowledgement. `ManifestsFollowEvents` adds that, while nothing fails, an exchange
that was about to store a manifest still is or has done it (`Kept`). The steps of
`Pairing` are taken over from `PairingProofs`, as steps that leave logs and exchanges
alone; `SyncKeepsHandshake` says that they are steps of the handshake here too, whoever has
met before.

**`FileTransferProofs`.** `FileTypeCorrect` and `OfferedFilesAreServed` rest on `FileInv`:
`JobShape` says what a job's phase implies of its other fields, `JobStored` how much of its
file a send has stored at its own node, so that every chunk of an announced file is there. A step
that writes one slot and removes nothing (`OneJob`) leaves the other jobs alone.
`SentFilesAreGathered` needs `PushInv` on top: marks are only made for chunks on disk, the
rows behind a send (`Behind`: neither still in its file nor in the batch under way) are
marked at the peer, and marks are never removed (`MarksMonotone`), so that when no row is
left all of them are.

**`FileDeliveryProofs`.** `NodesKeepChunks` and `FilesAreDelivered` are the refinements of
`ChunkStore`, at every node, and of `FileDelivery`. They need `TransferInv`, which adds to
`FileInv` and `PushInv` who knows of a file: a manifest is at its author, with every row
marked, or at the peer after the event has arrived there (`SavedWhere`), and what each job
knows (`JobFollows`): a push or a handler at the peer runs after the event has arrived, a
job that counts or resumes has its manifest, and a count of zero that is about to be
written is still true. Only so is a step that brings the last chunk of a file to a node one
that `Gather` allows: chunks reach a node through a push, a fetch or another file with the
same chunk, and none of the three may complete a file that the node has not heard of. The
bytes in the chunk files are in neither specification; `BlobStoreProofs` has them.

**`LifecycleProofs`.** `LifeInv` says, for each step of the bootstrap, what the core it
works with has by then: it is alive, it is fresh before its bind, it has its listener
after that, then its adapter and its loop; and that a handler names a living core. From it
follow `LifeTypeCorrect`, `StartServes` and `CallsLiveCores`. `PublishesCurrentName` needs
`NameInv` on top: the last request on its way, or the published name if there is none, is
the stored one; `TailKeepsLast` says that handling one of several requests keeps it.

**`EventBusProofs`.** `BusKeepsLifecycle`: a behaviour of the composition is one of
`Lifecycle`, so that module's theorems hold of it. `BusTypeCorrect` and `LossIsOvertaking`
rest on `BusInv`: what lies behind the cursor was given to the app, is in the poll's list,
or is `Capacity` events behind; and until its node is ready a channel has room for the
Ready event (`ReadyToCome`), which the bound on events would otherwise exclude.
`PollsAreInOrder` is the refinement of `EventFeed`: a poll that returns, at its end or because
it was overtaken, is one `Deliver` (`PollDelivers`), which appends its list, and the
single takes before it stutter. That the list is in order and behind what was given is
part of `BusInv`.

Every safety property that a passing run checks has a theorem. Model-checked only is
liveness (`EndpointsHeal`, `Converges`, `KnownFilesComplete`, `EventsArrive`), which
needs fairness and ENABLED and so is out of the prover's reach.

## 5. Not modelled

- Power failures outside `Materialize`: there a marked chunk may be spoilt and no file is
  placed from it; nothing repairs the chunk, since its row says that it is present.
- The content of messages: encryption, signatures, encodings, addresses in text form,
  and with it how many encoded chunks fit into a frame, and events that cannot be
  decrypted (`node.rs:583`).
- A peer that goes away without closing its connection: the transport has no read
  timeout (`lan.rs:180`), and no property says that such a call ends.
- The command-line tool: a loop that makes one call at a time, beside a printer of events
  that ends at its first loss (`main.rs:48`). Its calls are inputs of the other modules.
- Which event is sent when: `EventBus` numbers events. `FileComplete` in particular may
  be sent twice or never (`node.rs:673`), and the app shows a file's state from its rows.
- A user who sends a failed text again: it is a second event here as in the program.
- What is shown to the user: the order of a chat, which follows the devices' clocks
  (`storage.rs:210`), BLE proximity, lost peers (reported under a shortened id,
  `lan.rs:127`); `AppController.dispose`, which nobody calls.
- Strings handed over the C ABI; the Android contract, which has no implementation.

## 6. Plan

Done: the stored state and its exchanges (`BlobStore`, `Pairing`, `EventSync`,
`FileTransfer`), what leaves the store (`Materialize`), what runs it (`Lifecycle`,
`EventBus`), six abstract specifications that they implement (`ChunkStore`, `Handshake`,
`GrowOnlyLog`, `FileDelivery`, `AtomicFile`, `EventFeed`), and the proofs of all safety
properties, the refinements included.

What could follow:

1. A handle protocol for `Lifecycle` to implement: who may call a core between
   `nexus_create` and `nexus_destroy`, which `CallsOnLiveCores` states of states only.
2. The kinds of events in `EventBus` composed with `FileTransfer`: whether a file that
   completes is told, and how often; the command-line tool's printer as a second
   reader of the channel.
3. A composition of `EventSync` and `FileTransfer` in which an event's arrival is the
   exchange's step and not an action of its own, with the proof that it implements both.
4. Sizes: what fits into a frame of 8 MiB for a sync and for a batch of chunks.
