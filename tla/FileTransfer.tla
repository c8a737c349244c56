----------------------------- MODULE FileTransfer -----------------------------
(***************************************************************************)
(* How a file's chunks get from its author to its peer: send_file takes    *)
(* the file into the author's blob store, offers it and pushes its chunks  *)
(* in batches; a sync of either node ends with resume_files, which asks    *)
(* for the chunks that are missing (node.rs, files.rs, storage.rs).        *)
(*                                                                         *)
(* Both may run at once for one file, several times over, and each stores  *)
(* chunk by chunk.  Pairing, the routes of requests and the delivery of    *)
(* the file's event are those of EventSync, of which this module keeps     *)
(* that the event arrives at some time and its manifest a step later.      *)
(* put_blob is a placement and a mark.  Of a chunk this module knows that  *)
(* its file is there, not what is in it: two jobs of a node that place one *)
(* chunk at once may leave a torn file (module BlobStore), which get_blob  *)
(* returns and the receiver of a transfer refuses.                         *)
(***************************************************************************)
EXTENDS Naturals, Sequences, FiniteSets

CONSTANTS
  Node,
  File,       \* files that users send, each with a manifest of its own
  AuthorOf,   \* who sends a file
  PeerOf,     \* to whom
  Chunk,      \* chunks, by hash
  ChunksOf,   \* the sequence of chunks of each file
  Batch,      \* chunks in one message: 16
  Task,       \* slots for send_file calls and syncs in progress
  MaxFaults,  \* bound on restarts and failed operations of the store
  None        \* no node, no file, no chunk

ASSUME FileAssumption ==
  /\ AuthorOf \in [File -> Node] /\ PeerOf \in [File -> Node]
  /\ \A f \in File : AuthorOf[f] # PeerOf[f]
ASSUME ChunkAssumption == ChunksOf \in [File -> Seq(Chunk)]
ASSUME BatchAssumption == Batch \in Nat \ {0}
ASSUME FaultAssumption == MaxFaults \in Nat
ASSUME NothingAssumption == None \notin Node \cup File \cup Chunk

VARIABLES
  blobs,      \* the chunks with a file in each node's blob store
  saved,      \* the files whose manifest each node has
  present,    \* of each such manifest, the chunks marked present
  complete,   \* the manifests marked complete
  announced,  \* files whose event its author has stored
  arrived,    \* files whose event its peer has stored
  job,        \* what is running: sends, resumes, arriving manifests
  sent,       \* history: files whose send_file has returned without an error
  faults      \* restarts and failed operations so far

storeVars == <<blobs, saved, present, complete>>
eventVars == <<announced, arrived, sent>>
vars == <<storeVars, eventVars, job, faults>>

\* The rows of a file's manifest are its chunk indexes; two may have the same chunk.
Rows(f) == 1..Len(ChunksOf[f])
ChunksAt(f, rows) == {ChunksOf[f][i] : i \in rows}
ChunksIn(f) == ChunksAt(f, Rows(f))

\* The first batch of a set of rows, and what remains after it.
Before(i, rows) == Cardinality({k \in rows : k < i})
Take(rows) == {i \in rows : Before(i, rows) < Batch}
DropOneMore(rows) == {i \in rows : Before(i, rows) > Batch}  \* mutant
Drop(rows) == rows \ Take(rows)

\* A job is started on node; its next step runs at node or, on the way through the
\* handler of a pushed batch, at the peer.  live: its client still waits.
Jobs == [op : {"send", "resume", "file"},
         phase : {"ingest", "save", "count", "update", "announce", "offer", "push",
                  "pushing", "accept", "pushed", "next", "look", "asking", "answer",
                  "fetch"},
         node : Node, at : Node, file : File \cup {None}, files : SUBSET File,
         rest : SUBSET Nat, batch : SUBSET Nat, marking : Chunk \cup {None},
         whole : BOOLEAN, live : BOOLEAN]
NoJob == [op |-> "none", phase |-> "idle", node |-> None, at |-> None, file |-> None,
          files |-> {}, rest |-> {}, batch |-> {}, marking |-> None, whole |-> FALSE,
          live |-> FALSE]

FileTypeOK ==
  /\ blobs \in [Node -> SUBSET Chunk]
  /\ saved \in [Node -> SUBSET File]
  /\ present \in [Node -> [File -> SUBSET Chunk]]
  /\ \A n \in Node, f \in File : present[n][f] \subseteq IF f \in saved[n] THEN ChunksIn(f) ELSE {}
  /\ complete \in [Node -> SUBSET File]
  /\ announced \subseteq File
  /\ arrived \subseteq File
  /\ sent \subseteq File
  /\ job \in [Task -> Jobs \cup {NoJob}]
  /\ faults \in 0..MaxFaults

Init ==
  /\ blobs = [n \in Node |-> {}]
  /\ saved = [n \in Node |-> {}]
  /\ present = [n \in Node |-> [f \in File |-> {}]]
  /\ complete = [n \in Node |-> {}]
  /\ announced = {}
  /\ arrived = {}
  /\ sent = {}
  /\ job = [t \in Task |-> NoJob]
  /\ faults = 0

-----------------------------------------------------------------------------
(* Chunks and manifests in the store of the node where a job runs *)

Begin(t, fields) == job[t] = NoJob /\ job' = [job EXCEPT ![t] = fields]
Goto(t, phase) == job' = [job EXCEPT ![t].phase = phase]
End(t) == job' = [job EXCEPT ![t] = NoJob]

Storing == {"ingest", "accept", "fetch"}
AfterStoring(phase) ==
  CASE phase = "ingest" -> "save" [] phase = "accept" -> "count" [] phase = "fetch" -> "look"

\* put_blob of the batch's next row: the chunk's file is placed unless it is there...
Place(t) ==
  LET j == job[t] IN
  /\ j.phase \in Storing /\ j.marking = None
  /\ \E i \in j.batch :
       /\ Before(i, j.batch) = 0
       /\ blobs' = [blobs EXCEPT ![j.at] = @ \cup {ChunksOf[j.file][i]}]
       /\ job' = [job EXCEPT ![t].marking = ChunksOf[j.file][i], ![t].batch = @ \ {i}]
  /\ UNCHANGED <<saved, present, complete, eventVars, faults>>

\* Mutant: rows are made for manifests that are not there yet.
MarkInserts(t) ==
  LET j == job[t] IN
  /\ j.marking # None
  /\ present' = [present EXCEPT ![j.at] =
                   [f \in File |-> IF j.marking \in ChunksIn(f) THEN @[f] \cup {j.marking}
                                  ELSE @[f]]]
  /\ job' = [job EXCEPT ![t].marking = None,
                        ![t].phase = IF j.batch = {} THEN AfterStoring(j.phase) ELSE j.phase]
  /\ UNCHANGED <<blobs, saved, complete, eventVars, faults>>

\* ... and every row with its hash is marked.
Mark(t) ==
  LET j == job[t] IN
  /\ j.marking # None
  /\ present' = [present EXCEPT ![j.at] =
                   [f \in File |-> IF f \in saved[j.at] /\ j.marking \in ChunksIn(f)
                                   THEN @[f] \cup {j.marking} ELSE @[f]]]
  /\ job' = [job EXCEPT ![t].marking = None,
                        ![t].phase = IF j.batch = {} THEN AfterStoring(j.phase) ELSE j.phase]
  /\ UNCHANGED <<blobs, saved, complete, eventVars, faults>>

\* save_manifest: INSERT OR IGNORE, each row marked if its chunk is on disk.
Save(t) ==
  LET j == job[t] IN
  /\ j.phase = "save"
  /\ saved' = [saved EXCEPT ![j.at] = @ \cup {j.file}]
  /\ present' = IF j.file \in saved[j.at] THEN present
                ELSE [present EXCEPT ![j.at][j.file] = ChunksIn(j.file) \cap blobs[j.at]]
  /\ Goto(t, "count")
  /\ UNCHANGED <<blobs, complete, eventVars, faults>>

\* Mutant: one marked row is taken for all.
CountAny(t) ==
  LET j == job[t] IN
  /\ j.phase = "count"
  /\ job' = [job EXCEPT ![t].phase = "update", ![t].whole = present[j.at][j.file] # {}]
  /\ UNCHANGED <<storeVars, eventVars, faults>>

\* refresh_manifest_complete counts...
Count(t) ==
  LET j == job[t] IN
  /\ j.phase = "count"
  /\ job' = [job EXCEPT ![t].phase = "update",
                        ![t].whole = ChunksIn(j.file) \subseteq present[j.at][j.file]]
  /\ UNCHANGED <<storeVars, eventVars, faults>>

\* ... and writes what it has counted, which may be out of date.
Update(t) ==
  LET j == job[t] IN
  /\ j.phase = "update"
  /\ complete' = [complete EXCEPT ![j.at] = IF j.whole THEN @ \cup {j.file} ELSE @ \ {j.file}]
  /\ CASE j.op = "resume" -> Goto(t, "next")
       [] j.op = "send" /\ j.at = j.node -> Goto(t, "announce")
       [] j.op = "send" /\ j.at # j.node /\ j.live ->
            job' = [job EXCEPT ![t].phase = "pushed", ![t].at = j.node]
       [] OTHER -> End(t)
  /\ UNCHANGED <<blobs, saved, present, eventVars, faults>>

-----------------------------------------------------------------------------
(* send_file *)

\* Mutant: the chunk read last is not put into the store.
SendStartButLast(t, f) ==
  LET n == AuthorOf[f] stored == Rows(f) \ {Len(ChunksOf[f])} IN
  /\ f \notin saved[n]
  /\ \A u \in Task : job[u].op = "send" => job[u].file # f
  /\ Begin(t, [NoJob EXCEPT !.op = "send", !.node = n, !.at = n, !.file = f, !.live = TRUE,
                 !.phase = IF stored = {} THEN "save" ELSE "ingest",
                 !.rest = Rows(f), !.batch = stored])
  /\ UNCHANGED <<storeVars, eventVars, faults>>

\* ingest_file puts every chunk into the author's blob store; then the manifest is
\* saved and refreshed.  Another try is another manifest.
SendStart(t, f) ==
  LET n == AuthorOf[f] IN
  /\ f \notin saved[n]
  /\ \A u \in Task : job[u].op = "send" => job[u].file # f
  /\ Begin(t, [NoJob EXCEPT !.op = "send", !.node = n, !.at = n, !.file = f, !.live = TRUE,
                 !.phase = IF Rows(f) = {} THEN "save" ELSE "ingest",
                 !.rest = Rows(f), !.batch = Rows(f)])
  /\ UNCHANGED <<storeVars, eventVars, faults>>

\* The file's event is stored and pushed.
Announce(t) ==
  /\ job[t].phase = "announce"
  /\ announced' = announced \cup {job[t].file}
  /\ Goto(t, "offer")
  /\ UNCHANGED <<storeVars, arrived, sent, faults>>

\* It reaches the peer with the push or with a sync; process_manifest follows.
Arrive(t, f) ==
  LET n == PeerOf[f] IN
  /\ f \in announced \ arrived
  /\ arrived' = arrived \cup {f}
  /\ Begin(t, [NoJob EXCEPT !.op = "file", !.phase = "save", !.node = n, !.at = n, !.file = f])
  /\ UNCHANGED <<storeVars, announced, sent, faults>>

\* The push is acknowledged by a peer that has the event.
Offered(t) ==
  /\ job[t].phase = "offer"
  /\ job[t].file \in arrived
  /\ Goto(t, "push")
  /\ UNCHANGED <<storeVars, eventVars, faults>>

\* The next batch is read from the blob store and sent, until all are.
Push(t) ==
  LET j == job[t] IN
  /\ j.phase = "push" /\ j.rest # {}
  /\ IF ChunksAt(j.file, Take(j.rest)) \subseteq blobs[j.node]
     THEN job' = [job EXCEPT ![t].phase = "pushing", ![t].batch = Take(j.rest),
                             ![t].rest = Drop(j.rest)]
     ELSE End(t)
  /\ UNCHANGED <<storeVars, eventVars, faults>>

SendDone(t) ==
  /\ job[t].phase = "push" /\ job[t].rest = {}
  /\ sent' = sent \cup {job[t].file}
  /\ End(t)
  /\ UNCHANGED <<storeVars, announced, arrived, faults>>

\* Mutant: chunks are taken without a manifest.
AcceptAnyPush(t) ==
  LET j == job[t] IN
  /\ j.phase = "pushing"
  /\ job' = [job EXCEPT ![t].phase = "accept", ![t].at = PeerOf[j.file]]
  /\ UNCHANGED <<storeVars, eventVars, faults>>

\* PushChunks at the peer: "unknown manifest", or the chunks are stored, the
\* manifest is refreshed and the batch is acknowledged.
AcceptPush(t) ==
  LET j == job[t] IN
  /\ j.phase = "pushing"
  /\ j.file \in saved[PeerOf[j.file]]
  /\ job' = [job EXCEPT ![t].phase = "accept", ![t].at = PeerOf[j.file]]
  /\ UNCHANGED <<storeVars, eventVars, faults>>

RefusePush(t) ==
  /\ job[t].phase = "pushing"
  /\ job[t].file \notin saved[PeerOf[job[t].file]]
  /\ End(t)
  /\ UNCHANGED <<storeVars, eventVars, faults>>

Pushed(t) ==
  /\ job[t].phase = "pushed"
  /\ Goto(t, "push")
  /\ UNCHANGED <<storeVars, eventVars, faults>>

-----------------------------------------------------------------------------
(* resume_files *)

\* The manifests that n has under p's id and that are not marked complete.
Incomplete(n, p) ==
  {f \in saved[n] \ complete[n] : {AuthorOf[f], PeerOf[f]} = {n, p}}

\* A sync of n with p has come to its end.
ResumeStart(t, n, p) ==
  /\ n # p
  /\ Begin(t, [NoJob EXCEPT !.op = "resume", !.phase = "next", !.node = n, !.at = n,
                 !.files = Incomplete(n, p), !.live = TRUE])
  /\ UNCHANGED <<storeVars, eventVars, faults>>

ResumeNext(t) ==
  /\ job[t].phase = "next"
  /\ IF job[t].files = {} THEN End(t)
     ELSE \E f \in job[t].files :
            job' = [job EXCEPT ![t].phase = "look", ![t].file = f, ![t].files = @ \ {f}]
  /\ UNCHANGED <<storeVars, eventVars, faults>>

\* Mutant: a chunk is missing when its file is.
MissingOnDisk(n, f) == {i \in Rows(f) : ChunksOf[f][i] \notin blobs[n]}

\* missing_chunks: the rows that are not marked.
Missing(n, f) == {i \in Rows(f) : ChunksOf[f][i] \notin present[n][f]}

\* The first batch of what is missing is asked for, until nothing is.
ResumeLook(t) ==
  LET j == job[t] missing == Missing(j.node, j.file) IN
  /\ j.phase = "look"
  /\ IF missing = {} THEN Goto(t, "count")
     ELSE job' = [job EXCEPT ![t].phase = "asking", ![t].batch = Take(missing)]
  /\ UNCHANGED <<storeVars, eventVars, faults>>

\* ChunkRequest at the other node: it needs the manifest and every chunk.
CanServe(p, f, rows) == f \in saved[p] /\ ChunksAt(f, rows) \subseteq blobs[p]
Other(n, f) == IF n = AuthorOf[f] THEN PeerOf[f] ELSE AuthorOf[f]

Serve(t) ==
  LET j == job[t] IN
  /\ j.phase = "asking"
  /\ IF CanServe(Other(j.node, j.file), j.file, j.batch) THEN Goto(t, "answer") ELSE End(t)
  /\ UNCHANGED <<storeVars, eventVars, faults>>

Fetch(t) ==
  /\ job[t].phase = "answer"
  /\ Goto(t, "fetch")
  /\ UNCHANGED <<storeVars, eventVars, faults>>

\* missing_chunks of the manifest returns none, and get_blob finds a file for each chunk:
\* what materialize_file needs before it compares sizes and hashes.
Gathered(n, f) == f \in saved[n] /\ Missing(n, f) = {} /\ ChunksIn(f) \subseteq blobs[n]

-----------------------------------------------------------------------------
(* Failures *)

\* A request or its response is lost, and with it the rest of the call or sync.
Lost(t) ==
  /\ job[t].phase \in {"offer", "pushing", "pushed", "asking", "answer"}
  /\ End(t)
  /\ UNCHANGED <<storeVars, eventVars, faults>>

\* The client of a pushed batch is gone; the batch is handled all the same.
Abandoned(t) ==
  LET j == job[t] IN
  /\ j.live /\ (j.phase = "pushing" \/ j.at # j.node)
  /\ job' = [job EXCEPT ![t].live = FALSE]
  /\ UNCHANGED <<storeVars, eventVars, faults>>

\* An operation of the store fails where the job runs.
StoreFails(t) ==
  /\ faults < MaxFaults
  /\ job[t].phase \in Storing \cup {"save", "count", "update", "announce", "push", "look"}
  /\ faults' = faults + 1
  /\ End(t)
  /\ UNCHANGED <<storeVars, eventVars>>

\* The process of n dies: what runs there ends, and its clients no longer wait.
Restart(n) ==
  /\ faults < MaxFaults
  /\ faults' = faults + 1
  /\ job' = [t \in Task |->
               IF job[t].at = n /\ job[t].phase # "pushing" THEN NoJob
               ELSE IF job[t].node = n THEN [job[t] EXCEPT !.live = FALSE]
               ELSE job[t]]
  /\ UNCHANGED <<storeVars, eventVars>>

-----------------------------------------------------------------------------
StoreStep(t) == Place(t) \/ Mark(t) \/ Save(t) \/ Count(t) \/ Update(t)

SendStep(t) ==
  \/ \E f \in File : SendStart(t, f) \/ Arrive(t, f)
  \/ Announce(t) \/ Offered(t) \/ Push(t) \/ SendDone(t)
  \/ AcceptPush(t) \/ RefusePush(t) \/ Pushed(t)

ResumeStep(t) ==
  \/ \E n, p \in Node : ResumeStart(t, n, p)
  \/ ResumeNext(t) \/ ResumeLook(t) \/ Serve(t) \/ Fetch(t)

JobStep(t) ==
  StoreStep(t) \/ SendStep(t) \/ ResumeStep(t) \/ Lost(t) \/ Abandoned(t) \/ StoreFails(t)

Next == (\E t \in Task : JobStep(t)) \/ (\E n \in Node : Restart(n))

Spec == Init /\ [][Next]_vars

\* Syncs of two nodes are started again and again; a request or response that is
\* sent again and again is at last received; what runs on a node goes on, and a
\* broken connection is noticed.
Fairness ==
  /\ \A n, p \in Node : n # p => SF_vars(\E t \in Task : ResumeStart(t, n, p))
  /\ SF_vars(\E t \in Task : Serve(t))
  /\ SF_vars(\E t \in Task : Fetch(t))
  /\ \A t \in Task :
       /\ WF_vars(StoreStep(t) \/ Announce(t) \/ Push(t) \/ SendDone(t) \/ ResumeNext(t)
                  \/ ResumeLook(t))
       /\ WF_vars(Lost(t))

FairSpec == Spec /\ Fairness

-----------------------------------------------------------------------------
(* Properties *)

\* A file that its peer has heard of can be asked of its author at any time: the author
\* has the manifest and a file for every chunk, since send_file stores them before the
\* event that tells of them.
OfferedCanBeServed == \A f \in arrived : CanServe(AuthorOf[f], f, Rows(f))

\* When send_file of a file that is not empty returns without an error, its peer has the
\* manifest, no row of it is missing, and every chunk has its file in the blob store,
\* from then on, though jobs end in the middle of a batch and any node may have
\* restarted.  (An empty file has no batch to ask for its manifest: its event may be
\* acknowledged by a peer that is still storing the manifest, or never will.)
SentMeansGathered == \A f \in sent : ChunksOf[f] # <<>> => Gathered(PeerOf[f], f)

\* The store of each node is the one that module BlobStore implements system call by
\* system call, whatever job uses it: no chunk and no mark is lost, and complete is set
\* only when every row is marked, though the count is read earlier.
Store(n) == INSTANCE ChunkStore WITH
  Manifest <- File,
  ChunksOf <- [f \in File |-> ChunksIn(f)],
  disk <- blobs[n],
  placed <- {job[t].marking : t \in {u \in Task : job[u].at = n}} \ {None},
  saved <- saved[n],
  present <- present[n],
  complete <- complete[n],
  failed <- faults > 0
EveryNodeKeepsChunks ==
  /\ \A n \in Node : Store(n)!Init
  /\ [][\A n \in Node : [Store(n)!Next]_(Store(n)!vars)]_vars

\* A file is gathered at its author before its event is stored, at its peer only after
\* the event has arrived, and nowhere else; no row and no chunk's file is taken back;
\* send_file reports success only when the file is gathered at the peer.
Delivery == INSTANCE FileDelivery WITH
  Empty <- {f \in File : ChunksOf[f] = <<>>},
  gathered <- [n \in Node |-> {f \in File : Gathered(n, f)}],
  heard <- arrived,
  confirmed <- sent
DeliversFiles == Delivery!Spec

\* README, "incomplete-file recovery when a paired peer is rediscovered": a file
\* whose manifest the peer has is complete some day and stays so, though refreshes
\* write counts that are out of date, and pushes, answers and processes are lost; no
\* chunk's file is torn at the author.
KnownFilesComplete ==
  \A f \in File : (f \in saved[PeerOf[f]]) ~> [](f \in complete[PeerOf[f]])
==============================================================================
