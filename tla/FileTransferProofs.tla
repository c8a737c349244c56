-------------------------- MODULE FileTransferProofs --------------------------
(***************************************************************************)
(* For any nodes, files, chunks, batch size and number of jobs: the state  *)
(* keeps its types, the author of a file that a peer has heard of has the  *)
(* manifest and a file for every chunk, and so has the peer when send_file *)
(* has reported success.                                                   *)
(***************************************************************************)
EXTENDS FileTransfer, TLAPS

USE FileAssumption, ChunkAssumption, FaultAssumption, NothingAssumption

\* What the phase of a job says of its other fields.
JobShape(j) ==
  /\ j.phase \notin {"idle", "next"} => j.file \in File
  /\ j.phase \in Storing \cup {"pushing", "asking", "answer"} => j.batch \subseteq Rows(j.file)
  /\ j.op = "send" => /\ j.file \in File
                      /\ j.node = AuthorOf[j.file]
                      /\ j.rest \subseteq Rows(j.file)
  /\ j.op = "send" /\ j.phase \notin {"accept", "count", "update"} => j.at = j.node
  /\ j.marking # None => j.phase \in Storing
  /\ j.phase \in {"ingest", "announce", "offer", "push", "pushing", "pushed"} => j.op = "send"
  /\ j.phase = "accept" => j.op = "send" /\ j.at # j.node
  /\ j.phase \in {"next", "look", "asking", "answer", "fetch"} => j.op = "resume"

\* How far a send has stored its file at its own node, of the chunks b and manifests s.
JobStored(j, b, s) ==
  j.op = "send" /\ j.at = j.node =>
    /\ j.phase = "ingest" => ChunksIn(j.file) \subseteq b[j.node] \cup ChunksAt(j.file, j.batch)
    /\ j.phase \in {"save", "count", "update", "announce"} => ChunksIn(j.file) \subseteq b[j.node]
    /\ j.phase \in {"count", "update", "announce"} => j.file \in s[j.node]

JobInv ==
  /\ job \in [Task -> Jobs \cup {NoJob}]
  /\ \A t \in Task : JobShape(job[t]) /\ JobStored(job[t], blobs, saved)

\* A file is announced when its author has it.
AnnouncedInv ==
  /\ arrived \subseteq announced
  /\ \A f \in announced : CanServe(AuthorOf[f], f, Rows(f))

FileInv == FileTypeOK /\ JobInv /\ AnnouncedInv

\* Chunks and manifests are never removed.
Grows == \A n \in Node : blobs[n] \subseteq blobs'[n] /\ saved[n] \subseteq saved'[n]

-----------------------------------------------------------------------------
LEMMA NoJobFits ==
  NoJob \in Jobs \cup {NoJob} /\ JobShape(NoJob) /\ \A b, s : JobStored(NoJob, b, s)
BY DEF NoJob, JobShape, JobStored, Storing

LEMMA InitialFiles == Init => FileInv
BY NoJobFits DEF Init, FileInv, FileTypeOK, JobInv, AnnouncedInv

\* A step that writes one slot and removes nothing keeps what is known of all jobs.
LEMMA OneJob ==
  ASSUME FileInv, Grows, NEW t \in Task, NEW r \in Jobs \cup {NoJob},
         job' = [job EXCEPT ![t] = r], JobShape(r), JobStored(r, blobs', saved')
  PROVE  JobInv'
<1>1. job' \in [Task -> Jobs \cup {NoJob}]
  BY DEF FileInv, JobInv
<1>2. ASSUME NEW u \in Task PROVE JobShape(job'[u]) /\ JobStored(job'[u], blobs', saved')
  <2>1. CASE u = t
    <3>1. job'[u] = r
      BY <2>1 DEF FileInv, JobInv
    <3> QED
      BY <3>1
  <2>2. CASE u # t
    <3>1. job'[u] = job[u] /\ JobShape(job[u]) /\ JobStored(job[u], blobs, saved)
      BY <2>2 DEF FileInv, JobInv
    <3>2. job[u].op = "send" => job[u].node \in Node
      BY <3>1, FileAssumption DEF JobShape
    <3>3. JobStored(job'[u], blobs', saved')
      BY <3>1, <3>2, FileAssumption DEF JobStored, Grows
    <3> QED
      BY <3>1, <3>3
  <2> QED
    BY <2>1, <2>2
<1> QED
  BY <1>1, <1>2 DEF JobInv

\* In particular, a slot may be cleared.
LEMMA EndJob ==
  ASSUME FileInv, Grows, NEW t \in Task, End(t)
  PROVE  JobInv'
BY OneJob, NoJobFits DEF End, NoJob, JobStored

\* What the steps of a job never change.
Keeps(r, j) == r.op = j.op /\ r.node = j.node /\ r.file = j.file /\ r.rest = j.rest

\* A job under way is a record of Jobs, with what is known of it.
LEMMA BusyJob ==
  ASSUME FileInv, NEW t \in Task, job[t].phase # "idle"
  PROVE  job[t] \in Jobs /\ JobShape(job[t]) /\ JobStored(job[t], blobs, saved)
BY DEF FileInv, JobInv, NoJob

\* The steps of the store.
LEMMA StoreJobs ==
  ASSUME FileInv, NEW t \in Task, StoreStep(t)
  PROVE  JobInv' /\ Grows
<1> DEFINE j == job[t]
           r == job'[t]
<1> SUFFICES Grows /\ job' = [job EXCEPT ![t] = r] /\ r \in Jobs \cup {NoJob} /\ JobShape(r)
             /\ JobStored(r, blobs', saved')
  BY OneJob
<1>0. j \in Jobs /\ JobShape(j) /\ JobStored(j, blobs, saved) /\ j.phase \notin {"idle", "next"}
  <2>1. j.phase \notin {"idle", "next"}
    BY DEF StoreStep, Place, Mark, Save, Count, Update, FileInv, JobInv, JobShape, Storing
  <2> QED
    BY <2>1, BusyJob
<1>1. job \in [Task -> Jobs \cup {NoJob}]
  BY DEF FileInv, JobInv
<1> HIDE DEF j
<1>2. CASE Place(t)
  <2>1. PICK i \in j.batch : /\ blobs' = [blobs EXCEPT ![j.at] = @ \cup {ChunksOf[j.file][i]}]
                             /\ job' = [job EXCEPT ![t].marking = ChunksOf[j.file][i],
                                                   ![t].batch = @ \ {i}]
    BY <1>2 DEF Place, j
  <2>2. j.phase \in Storing /\ saved' = saved
    BY <1>2 DEF Place, j
  <2>3. i \in Rows(j.file) /\ ChunksOf[j.file][i] \in Chunk
    BY <1>0, <2>1, <2>2 DEF JobShape, Rows, Storing
  <2>4. Grows
    BY <2>1, <2>2, <1>0 DEF Grows, FileInv, FileTypeOK, Jobs
  <2>5. r = [j EXCEPT !.marking = ChunksOf[j.file][i], !.batch = @ \ {i}]
    BY <1>1, <2>1 DEF j
  <2>6. r \in Jobs /\ Keeps(r, j) /\ r.at = j.at /\ r.phase = j.phase /\ r.batch = j.batch \ {i}
    BY <1>0, <2>3, <2>5 DEF Jobs, Keeps
  <2>7. JobShape(r)
    BY <1>0, <2>2, <2>6 DEF JobShape, Keeps
  <2>8. JobStored(r, blobs', saved')
    <3>1. CASE r.op = "send" /\ r.at = r.node /\ r.phase = "ingest"
      <4>1. blobs'[j.node] = blobs[j.node] \cup {ChunksOf[j.file][i]}
        BY <1>0, <2>1, <2>6, <3>1 DEF Keeps, Jobs, FileInv, FileTypeOK
      <4>2. ChunksAt(j.file, j.batch) \subseteq ChunksAt(r.file, r.batch) \cup {ChunksOf[j.file][i]}
        BY <2>6 DEF ChunksAt, Keeps
      <4> QED
        BY <1>0, <2>6, <3>1, <4>1, <4>2 DEF JobStored, Keeps
    <3>2. CASE ~(r.op = "send" /\ r.at = r.node /\ r.phase = "ingest")
      BY <2>2, <2>6, <3>2 DEF JobStored, Storing
    <3> QED
      BY <3>1, <3>2
  <2> QED
    BY <1>1, <2>1, <2>4, <2>6, <2>7, <2>8
<1>3. CASE Mark(t)
  <2>1. /\ j.marking # None
        /\ job' = [job EXCEPT ![t].marking = None,
                     ![t].phase = IF j.batch = {} THEN AfterStoring(j.phase) ELSE j.phase]
        /\ UNCHANGED <<blobs, saved>>
    BY <1>3 DEF Mark, j
  <2>2. j.phase \in Storing
    BY <1>0, <2>1 DEF JobShape
  <2>3. r = [j EXCEPT !.marking = None,
                      !.phase = IF j.batch = {} THEN AfterStoring(j.phase) ELSE j.phase]
    BY <1>1, <2>1 DEF j
  <2>4. r \in Jobs
    BY <1>0, <2>2, <2>3 DEF Jobs, Storing, AfterStoring
  <2>5. /\ Keeps(r, j) /\ r.at = j.at /\ r.batch = j.batch /\ r.marking = None
        /\ r.phase = IF j.batch = {} THEN AfterStoring(j.phase) ELSE j.phase
    BY <1>0, <2>3 DEF Jobs, Keeps
  <2>6. JobShape(r)
    BY <1>0, <2>2, <2>5 DEF JobShape, Keeps, Storing, AfterStoring
  <2>7. JobStored(r, blobs', saved')
    <3>1. CASE j.batch # {}
      BY <1>0, <2>1, <2>5, <3>1 DEF JobStored, Keeps
    <3>2. CASE j.batch = {}
      <4>1. ChunksAt(j.file, j.batch) = {}
        BY <3>2 DEF ChunksAt
      <4>2. CASE j.phase = "ingest"
        <5>1. r.phase = "save" /\ j.op = "send"
          BY <1>0, <2>5, <3>2, <4>2 DEF AfterStoring, JobShape
        <5>2. j.at = j.node => ChunksIn(j.file) \subseteq blobs[j.node]
          BY <1>0, <4>1, <4>2, <5>1 DEF JobStored
        <5> QED
          BY <2>1, <2>5, <5>1, <5>2 DEF JobStored, Keeps
      <4>3. CASE j.phase = "accept"
        BY <1>0, <2>5, <4>3 DEF JobShape, JobStored, Keeps
      <4>4. CASE j.phase = "fetch"
        <5>1. r.phase = "look"
          BY <2>5, <3>2, <4>4 DEF AfterStoring
        <5> QED
          BY <5>1 DEF JobStored
      <4> QED
        BY <2>2, <4>2, <4>3, <4>4 DEF Storing
    <3> QED
      BY <3>1, <3>2
  <2> QED
    BY <1>1, <2>1, <2>4, <2>6, <2>7 DEF Grows
<1>4. CASE Save(t)
  <2>1. /\ j.phase = "save"
        /\ saved' = [saved EXCEPT ![j.at] = @ \cup {j.file}]
        /\ job' = [job EXCEPT ![t].phase = "count"]
        /\ blobs' = blobs
    BY <1>4 DEF Save, Goto, j
  <2>2. r = [j EXCEPT !.phase = "count"]
    BY <1>1, <2>1 DEF j
  <2>3. Grows
    BY <1>0, <2>1 DEF Grows, FileInv, FileTypeOK, Jobs
  <2>4. /\ r \in Jobs /\ Keeps(r, j) /\ r.at = j.at /\ r.phase = "count"
        /\ r.marking = j.marking
    BY <1>0, <2>2 DEF Jobs, Keeps
  <2>5. JobShape(r)
    BY <1>0, <2>1, <2>4 DEF JobShape, Keeps, Storing
  <2>6. j.file \in saved'[j.at]
    BY <1>0, <2>1 DEF FileInv, FileTypeOK, Jobs
  <2>7. JobStored(r, blobs', saved')
    BY <1>0, <2>1, <2>4, <2>6 DEF JobStored, Keeps
  <2> QED
    BY <1>1, <2>1, <2>3, <2>4, <2>5, <2>7
<1>5. CASE Count(t)
  <2>1. /\ j.phase = "count"
        /\ job' = [job EXCEPT ![t].phase = "update",
                     ![t].whole = ChunksIn(j.file) \subseteq present[j.at][j.file]]
        /\ UNCHANGED <<blobs, saved>>
    BY <1>5 DEF Count, storeVars, j
  <2>2. r = [j EXCEPT !.phase = "update", !.whole = r.whole] /\ r.whole \in BOOLEAN
    BY <1>1, <1>0, <2>1 DEF j, Jobs
  <2>3. /\ r \in Jobs /\ Keeps(r, j) /\ r.at = j.at /\ r.phase = "update"
        /\ r.marking = j.marking
    BY <1>0, <2>2 DEF Jobs, Keeps
  <2>4. JobShape(r) /\ JobStored(r, blobs', saved')
    BY <1>0, <2>1, <2>3 DEF JobShape, JobStored, Keeps, Storing
  <2> QED
    BY <1>1, <2>1, <2>3, <2>4 DEF Grows
<1>6. CASE Update(t)
  <2>1. j.phase = "update" /\ UNCHANGED <<blobs, saved>> /\ Grows
    BY <1>6 DEF Update, j, Grows
  <2>2. CASE j.op = "resume"
    <3>1. job' = [job EXCEPT ![t].phase = "next"]
      BY <1>6, <2>2 DEF Update, Goto, j
    <3>2. r = [j EXCEPT !.phase = "next"]
      BY <1>1, <3>1 DEF j
    <3>3. /\ r \in Jobs /\ Keeps(r, j) /\ r.at = j.at /\ r.phase = "next"
          /\ r.marking = j.marking
      BY <1>0, <3>2 DEF Jobs, Keeps
    <3>4. j.marking = None
      BY <1>0, <2>1 DEF JobShape, Storing
    <3>5. JobShape(r)
      BY <1>0, <2>1, <2>2, <3>3, <3>4 DEF JobShape, Keeps, Storing
    <3>6. JobStored(r, blobs', saved')
      BY <1>0, <2>1, <2>2, <3>3 DEF JobStored, Keeps
    <3> QED
      BY <1>1, <2>1, <3>1, <3>3, <3>5, <3>6
  <2>3. CASE j.op = "send" /\ j.at = j.node
    <3>1. job' = [job EXCEPT ![t].phase = "announce"]
      BY <1>6, <2>3 DEF Update, Goto, j
    <3>2. r = [j EXCEPT !.phase = "announce"]
      BY <1>1, <3>1 DEF j
    <3>3. /\ r \in Jobs /\ Keeps(r, j) /\ r.at = j.at /\ r.phase = "announce"
          /\ r.marking = j.marking
      BY <1>0, <3>2 DEF Jobs, Keeps
    <3>4. j.marking = None
      BY <1>0, <2>1 DEF JobShape, Storing
    <3>5. JobShape(r)
      BY <1>0, <2>1, <2>3, <3>3, <3>4 DEF JobShape, Keeps, Storing
    <3>6. JobStored(r, blobs', saved')
      BY <1>0, <2>1, <2>3, <3>3 DEF JobStored, Keeps
    <3> QED
      BY <1>1, <2>1, <3>1, <3>3, <3>5, <3>6
  <2>4. CASE j.op = "send" /\ j.at # j.node /\ j.live
    <3>1. job' = [job EXCEPT ![t].phase = "pushed", ![t].at = j.node]
      BY <1>6, <2>4 DEF Update, j
    <3>2. r = [j EXCEPT !.phase = "pushed", !.at = j.node]
      BY <1>1, <3>1 DEF j
    <3>3. /\ r \in Jobs /\ Keeps(r, j) /\ r.at = j.node /\ r.phase = "pushed"
          /\ r.marking = j.marking
      BY <1>0, <3>2 DEF Jobs, Keeps
    <3>4. j.marking = None
      BY <1>0, <2>1 DEF JobShape, Storing
    <3>5. JobShape(r)
      BY <1>0, <2>1, <2>4, <3>3, <3>4 DEF JobShape, Keeps, Storing
    <3>6. JobStored(r, blobs', saved')
      BY <1>0, <2>1, <2>4, <3>3 DEF JobStored, Keeps
    <3> QED
      BY <1>1, <2>1, <3>1, <3>3, <3>5, <3>6
  <2>5. CASE j.op # "resume" /\ ~(j.op = "send" /\ j.at = j.node)
             /\ ~(j.op = "send" /\ j.at # j.node /\ j.live)
    <3>1. End(t)
      BY <1>6, <2>5 DEF Update, j
    <3>2. job' = [job EXCEPT ![t] = NoJob] /\ r = NoJob
      BY <1>1, <3>1 DEF End
    <3> QED
      BY <1>1, <2>1, <3>2, NoJobFits
  <2> QED
    BY <2>2, <2>3, <2>4, <2>5
<1> QED
  BY <1>2, <1>3, <1>4, <1>5, <1>6 DEF StoreStep

\* The steps of send_file, of its handler and of the event's arrival.
LEMMA SendJobs ==
  ASSUME FileInv, NEW t \in Task, SendStep(t)
  PROVE  JobInv' /\ UNCHANGED <<blobs, saved>>
<1> DEFINE j == job[t]
           r == job'[t]
<1>0. UNCHANGED <<blobs, saved>> /\ Grows
  BY DEF SendStep, SendStart, Arrive, Announce, Offered, Push, SendDone, AcceptPush,
         RefusePush, Pushed, storeVars, Grows
<1> SUFFICES \/ End(t)
             \/ /\ job' = [job EXCEPT ![t] = r] /\ r \in Jobs \cup {NoJob} /\ JobShape(r)
                /\ JobStored(r, blobs, saved)
  BY <1>0, OneJob, EndJob
<1>1. job \in [Task -> Jobs \cup {NoJob}]
  BY DEF FileInv, JobInv
<1>2. j.phase # "idle" => j \in Jobs /\ JobShape(j) /\ JobStored(j, blobs, saved)
  BY BusyJob
<1> HIDE DEF j
<1>3. ASSUME NEW f \in File, SendStart(t, f)
      PROVE  /\ job' = [job EXCEPT ![t] = r] /\ r \in Jobs /\ JobShape(r)
             /\ JobStored(r, blobs, saved)
  <2>1. job' = [job EXCEPT ![t] = [NoJob EXCEPT !.op = "send", !.node = AuthorOf[f],
                  !.at = AuthorOf[f], !.file = f, !.live = TRUE,
                  !.phase = IF Rows(f) = {} THEN "save" ELSE "ingest",
                  !.rest = Rows(f), !.batch = Rows(f)]]
    BY <1>3 DEF SendStart, Begin
  <2>2. /\ r.op = "send" /\ r.node = AuthorOf[f] /\ r.at = AuthorOf[f] /\ r.file = f
        /\ r.phase = IF Rows(f) = {} THEN "save" ELSE "ingest"
        /\ r.rest = Rows(f) /\ r.batch = Rows(f) /\ r.marking = None
    BY <1>1, <2>1 DEF NoJob
  <2>3. Rows(f) \subseteq Nat
    BY DEF Rows
  <2>4. r \in Jobs
    BY <1>1, <2>1, <2>3 DEF Jobs, NoJob
  <2>5. JobShape(r)
    BY <2>2 DEF JobShape, Storing
  <2>6. Rows(f) = {} => ChunksIn(f) = {}
    BY DEF ChunksIn, ChunksAt
  <2>7. JobStored(r, blobs, saved)
    BY <2>2, <2>6 DEF JobStored, ChunksIn
  <2> QED
    BY <1>1, <2>1, <2>4, <2>5, <2>7
<1>4. ASSUME NEW f \in File, Arrive(t, f)
      PROVE  /\ job' = [job EXCEPT ![t] = r] /\ r \in Jobs /\ JobShape(r)
             /\ JobStored(r, blobs, saved)
  <2>1. job' = [job EXCEPT ![t] = [NoJob EXCEPT !.op = "file", !.phase = "save",
                  !.node = PeerOf[f], !.at = PeerOf[f], !.file = f]]
    BY <1>4 DEF Arrive, Begin
  <2>2. r.op = "file" /\ r.phase = "save" /\ r.file = f /\ r.marking = None
    BY <1>1, <2>1 DEF NoJob
  <2>3. r \in Jobs
    BY <1>1, <2>1 DEF Jobs, NoJob
  <2>4. JobShape(r) /\ JobStored(r, blobs, saved)
    BY <2>2 DEF JobShape, JobStored, Storing
  <2> QED
    BY <1>1, <2>1, <2>3, <2>4
<1>5. CASE Announce(t)
  <2>1. j.phase = "announce" /\ job' = [job EXCEPT ![t].phase = "offer"]
    BY <1>5 DEF Announce, Goto, j
  <2>2. j \in Jobs /\ JobShape(j) /\ JobStored(j, blobs, saved)
    BY <1>2, <2>1
  <2>3. r = [j EXCEPT !.phase = "offer"]
    BY <1>1, <2>1 DEF j
  <2>4. /\ r \in Jobs /\ Keeps(r, j) /\ r.at = j.at /\ r.phase = "offer"
        /\ r.batch = j.batch /\ r.marking = j.marking
    BY <2>2, <2>3 DEF Jobs, Keeps
  <2>5. JobShape(r)
    BY <2>1, <2>2, <2>4 DEF JobShape, Keeps, Storing
  <2>6. JobStored(r, blobs, saved)
    BY <2>1, <2>2, <2>4 DEF JobStored, Keeps
  <2> QED
    BY <1>1, <2>1, <2>4, <2>5, <2>6
<1>6. CASE Offered(t)
  <2>1. j.phase = "offer" /\ job' = [job EXCEPT ![t].phase = "push"]
    BY <1>6 DEF Offered, Goto, j
  <2>2. j \in Jobs /\ JobShape(j) /\ JobStored(j, blobs, saved)
    BY <1>2, <2>1
  <2>3. r = [j EXCEPT !.phase = "push"]
    BY <1>1, <2>1 DEF j
  <2>4. /\ r \in Jobs /\ Keeps(r, j) /\ r.at = j.at /\ r.phase = "push"
        /\ r.batch = j.batch /\ r.marking = j.marking
    BY <2>2, <2>3 DEF Jobs, Keeps
  <2>5. JobShape(r)
    BY <2>1, <2>2, <2>4 DEF JobShape, Keeps, Storing
  <2>6. JobStored(r, blobs, saved)
    BY <2>1, <2>2, <2>4 DEF JobStored, Keeps
  <2> QED
    BY <1>1, <2>1, <2>4, <2>5, <2>6
<1>7. CASE Push(t)
  <2>1. j.phase = "push"
    BY <1>7 DEF Push, j
  <2>2. j \in Jobs /\ JobShape(j) /\ JobStored(j, blobs, saved)
    BY <1>2, <2>1
  <2>3. CASE ~End(t)
    <3>1. job' = [job EXCEPT ![t].phase = "pushing", ![t].batch = Take(j.rest),
                             ![t].rest = Drop(j.rest)]
      BY <1>7, <2>3 DEF Push, j
    <3>2. r = [j EXCEPT !.phase = "pushing", !.batch = Take(j.rest), !.rest = Drop(j.rest)]
      BY <1>1, <3>1 DEF j
    <3>3. Take(j.rest) \subseteq j.rest /\ Drop(j.rest) \subseteq j.rest
      BY DEF Take, Drop
    <3>4. /\ r \in Jobs /\ r.op = j.op /\ r.node = j.node /\ r.file = j.file /\ r.at = j.at
          /\ r.rest \subseteq j.rest /\ r.batch \subseteq j.rest
          /\ r.phase = "pushing" /\ r.marking = j.marking
      BY <2>2, <3>2, <3>3 DEF Jobs
    <3>5. JobShape(r)
      BY <2>1, <2>2, <3>4 DEF JobShape, Storing
    <3>6. JobStored(r, blobs, saved)
      BY <3>4 DEF JobStored
    <3> QED
      BY <1>1, <3>1, <3>4, <3>5, <3>6
  <2> QED
    BY <2>3
<1>8. CASE AcceptPush(t)
  <2>1. j.phase = "pushing"
        /\ job' = [job EXCEPT ![t].phase = "accept", ![t].at = PeerOf[j.file]]
    BY <1>8 DEF AcceptPush, j
  <2>2. j \in Jobs /\ JobShape(j)
    BY <1>2, <2>1
  <2>3. r = [j EXCEPT !.phase = "accept", !.at = PeerOf[j.file]]
    BY <1>1, <2>1 DEF j
  <2>4. j.file \in File /\ j.op = "send" /\ PeerOf[j.file] \in Node /\ PeerOf[j.file] # j.node
    BY <2>1, <2>2 DEF JobShape
  <2>5. /\ r \in Jobs /\ Keeps(r, j) /\ r.at = PeerOf[j.file] /\ r.phase = "accept"
        /\ r.batch = j.batch /\ r.marking = j.marking
    BY <2>2, <2>3, <2>4 DEF Jobs, Keeps
  <2>6. JobShape(r) /\ JobStored(r, blobs, saved)
    BY <2>1, <2>2, <2>4, <2>5 DEF JobShape, JobStored, Keeps, Storing
  <2> QED
    BY <1>1, <2>1, <2>5, <2>6
<1>9. CASE Pushed(t)
  <2>1. j.phase = "pushed" /\ job' = [job EXCEPT ![t].phase = "push"]
    BY <1>9 DEF Pushed, Goto, j
  <2>2. j \in Jobs /\ JobShape(j) /\ JobStored(j, blobs, saved)
    BY <1>2, <2>1
  <2>3. r = [j EXCEPT !.phase = "push"]
    BY <1>1, <2>1 DEF j
  <2>4. /\ r \in Jobs /\ Keeps(r, j) /\ r.at = j.at /\ r.phase = "push"
        /\ r.batch = j.batch /\ r.marking = j.marking
    BY <2>2, <2>3 DEF Jobs, Keeps
  <2>5. JobShape(r)
    BY <2>1, <2>2, <2>4 DEF JobShape, Keeps, Storing
  <2>6. JobStored(r, blobs, saved)
    BY <2>1, <2>2, <2>4 DEF JobStored, Keeps
  <2> QED
    BY <1>1, <2>1, <2>4, <2>5, <2>6
<1>10. CASE SendDone(t) \/ RefusePush(t)
  BY <1>10 DEF SendDone, RefusePush
<1> QED
  BY <1>3, <1>4, <1>5, <1>6, <1>7, <1>8, <1>9, <1>10 DEF SendStep

\* The steps of resume_files and of its handler.
LEMMA ResumeJobs ==
  ASSUME FileInv, NEW t \in Task, ResumeStep(t)
  PROVE  JobInv' /\ UNCHANGED <<blobs, saved>>
<1> DEFINE j == job[t]
           r == job'[t]
<1>0. UNCHANGED <<blobs, saved>> /\ Grows
  BY DEF ResumeStep, ResumeStart, ResumeNext, ResumeLook, Serve, Fetch, storeVars, Grows
<1> SUFFICES \/ End(t)
             \/ /\ job' = [job EXCEPT ![t] = r] /\ r \in Jobs \cup {NoJob} /\ JobShape(r)
                /\ JobStored(r, blobs, saved)
  BY <1>0, OneJob, EndJob
<1>1. job \in [Task -> Jobs \cup {NoJob}]
  BY DEF FileInv, JobInv
<1>2. j.phase # "idle" => j \in Jobs /\ JobShape(j) /\ JobStored(j, blobs, saved)
  BY BusyJob
<1> HIDE DEF j
<1>3. ASSUME NEW n \in Node, NEW p \in Node, ResumeStart(t, n, p)
      PROVE  /\ job' = [job EXCEPT ![t] = r] /\ r \in Jobs /\ JobShape(r)
             /\ JobStored(r, blobs, saved)
  <2>1. job' = [job EXCEPT ![t] = [NoJob EXCEPT !.op = "resume", !.phase = "next", !.node = n,
                  !.at = n, !.files = Incomplete(n, p), !.live = TRUE]]
    BY <1>3 DEF ResumeStart, Begin
  <2>2. Incomplete(n, p) \subseteq File
    BY DEF Incomplete, FileInv, FileTypeOK
  <2>3. r.op = "resume" /\ r.phase = "next" /\ r.marking = None
    BY <1>1, <2>1 DEF NoJob
  <2>4. r \in Jobs
    BY <1>1, <2>1, <2>2 DEF Jobs, NoJob
  <2>5. JobShape(r) /\ JobStored(r, blobs, saved)
    BY <2>3 DEF JobShape, JobStored, Storing
  <2> QED
    BY <1>1, <2>1, <2>4, <2>5
<1>4. CASE ResumeNext(t)
  <2>1. j.phase = "next"
    BY <1>4 DEF ResumeNext, j
  <2>2. j \in Jobs /\ JobShape(j) /\ JobStored(j, blobs, saved)
    BY <1>2, <2>1
  <2>3. CASE ~End(t)
    <3>1. PICK f \in j.files : job' = [job EXCEPT ![t].phase = "look", ![t].file = f,
                                                 ![t].files = @ \ {f}]
      BY <1>4, <2>3 DEF ResumeNext, j
    <3>2. r = [j EXCEPT !.phase = "look", !.file = f, !.files = @ \ {f}]
      BY <1>1, <3>1 DEF j
    <3>3. f \in File
      BY <2>2 DEF Jobs
    <3>4. /\ r \in Jobs /\ r.op = j.op /\ r.node = j.node /\ r.at = j.at
          /\ r.phase = "look" /\ r.marking = j.marking /\ r.file = f
      BY <2>2, <3>2, <3>3 DEF Jobs
    <3>5. j.op = "resume" /\ j.marking = None
      BY <2>1, <2>2 DEF JobShape, Storing
    <3>6. JobShape(r) /\ JobStored(r, blobs, saved)
      BY <3>3, <3>4, <3>5 DEF JobShape, JobStored, Storing
    <3> QED
      BY <1>1, <3>1, <3>4, <3>6
  <2> QED
    BY <2>3
<1>5. CASE ResumeLook(t)
  <2>1. j.phase = "look"
    BY <1>5 DEF ResumeLook, j
  <2>2. j \in Jobs /\ JobShape(j) /\ JobStored(j, blobs, saved)
    BY <1>2, <2>1
  <2>3. j.op = "resume" /\ j.file \in File /\ j.marking = None
    BY <2>1, <2>2 DEF JobShape, Storing
  <2>4. CASE Goto(t, "count")
    <3>1. job' = [job EXCEPT ![t].phase = "count"]
      BY <2>4 DEF Goto
    <3>2. r = [j EXCEPT !.phase = "count"]
      BY <1>1, <3>1 DEF j
    <3>3. r \in Jobs /\ Keeps(r, j) /\ r.phase = "count" /\ r.marking = j.marking
      BY <2>2, <3>2 DEF Jobs, Keeps
    <3>4. JobShape(r) /\ JobStored(r, blobs, saved)
      BY <2>3, <3>3 DEF JobShape, JobStored, Keeps, Storing
    <3> QED
      BY <1>1, <3>1, <3>3, <3>4
  <2>5. CASE ~Goto(t, "count")
    <3> DEFINE rows == Take(Missing(j.node, j.file))
    <3>1. job' = [job EXCEPT ![t].phase = "asking", ![t].batch = rows]
      BY <1>5, <2>5 DEF ResumeLook, j
    <3>2. rows \subseteq Rows(j.file) /\ rows \subseteq Nat
      BY DEF Take, Missing, Rows
    <3> HIDE DEF rows
    <3>3. r = [j EXCEPT !.phase = "asking", !.batch = rows]
      BY <1>1, <3>1 DEF j
    <3>4. r \in Jobs /\ Keeps(r, j) /\ r.phase = "asking" /\ r.marking = j.marking /\ r.batch = rows
      BY <2>2, <3>2, <3>3 DEF Jobs, Keeps
    <3>5. JobShape(r) /\ JobStored(r, blobs, saved)
      BY <2>3, <3>2, <3>4 DEF JobShape, JobStored, Keeps, Storing
    <3> QED
      BY <1>1, <3>1, <3>4, <3>5
  <2> QED
    BY <2>4, <2>5
<1>6. CASE Serve(t)
  <2>1. j.phase = "asking"
    BY <1>6 DEF Serve, j
  <2>2. j \in Jobs /\ JobShape(j) /\ JobStored(j, blobs, saved)
    BY <1>2, <2>1
  <2>3. CASE Goto(t, "answer")
    <3>1. job' = [job EXCEPT ![t].phase = "answer"]
      BY <2>3 DEF Goto
    <3>2. r = [j EXCEPT !.phase = "answer"]
      BY <1>1, <3>1 DEF j
    <3>3. /\ r \in Jobs /\ Keeps(r, j) /\ r.at = j.at /\ r.phase = "answer"
          /\ r.batch = j.batch /\ r.marking = j.marking
      BY <2>2, <3>2 DEF Jobs, Keeps
    <3>4. JobShape(r)
      BY <2>1, <2>2, <3>3 DEF JobShape, Keeps, Storing
    <3>5. JobStored(r, blobs, saved)
      BY <3>3 DEF JobStored
    <3> QED
      BY <1>1, <3>1, <3>3, <3>4, <3>5
  <2> QED
    BY <1>6, <2>3 DEF Serve
<1>7. CASE Fetch(t)
  <2>1. j.phase = "answer"
    BY <1>7 DEF Fetch, j
  <2>2. j \in Jobs /\ JobShape(j) /\ JobStored(j, blobs, saved)
    BY <1>2, <2>1
  <2>3. CASE Goto(t, "fetch")
    <3>1. job' = [job EXCEPT ![t].phase = "fetch"]
      BY <2>3 DEF Goto
    <3>2. r = [j EXCEPT !.phase = "fetch"]
      BY <1>1, <3>1 DEF j
    <3>3. /\ r \in Jobs /\ Keeps(r, j) /\ r.at = j.at /\ r.phase = "fetch"
          /\ r.batch = j.batch /\ r.marking = j.marking
      BY <2>2, <3>2 DEF Jobs, Keeps
    <3>4. JobShape(r)
      BY <2>1, <2>2, <3>3 DEF JobShape, Keeps, Storing
    <3>5. JobStored(r, blobs, saved)
      BY <3>3 DEF JobStored
    <3> QED
      BY <1>1, <3>1, <3>3, <3>4, <3>5
  <2> QED
    BY <1>7, <2>3 DEF Fetch
<1> QED
  BY <1>3, <1>4, <1>5, <1>6, <1>7 DEF ResumeStep

\* A client that is gone changes nothing that is known of a job.
LEMMA NotLive ==
  ASSUME NEW j \in Jobs, JobShape(j), JobStored(j, blobs, saved)
  PROVE  LET r == [j EXCEPT !.live = FALSE]
         IN  r \in Jobs /\ JobShape(r) /\ JobStored(r, blobs, saved)
<1> DEFINE r == [j EXCEPT !.live = FALSE]
<1>1. /\ r \in Jobs /\ Keeps(r, j) /\ r.at = j.at /\ r.phase = j.phase
      /\ r.batch = j.batch /\ r.marking = j.marking
  BY DEF Jobs, Keeps
<1> HIDE DEF r
<1>2. JobShape(r) /\ JobStored(r, blobs, saved)
  BY <1>1 DEF JobShape, JobStored, Keeps
<1> QED
  BY <1>1, <1>2 DEF r

LEMMA FailingJobs ==
  ASSUME FileInv, NEW t \in Task, Lost(t) \/ Abandoned(t) \/ StoreFails(t)
  PROVE  JobInv' /\ UNCHANGED <<blobs, saved>>
<1>1. UNCHANGED <<blobs, saved>> /\ Grows
  BY DEF Lost, Abandoned, StoreFails, storeVars, Grows
<1>2. CASE Lost(t) \/ StoreFails(t)
  BY <1>1, <1>2, EndJob DEF Lost, StoreFails
<1>3. CASE Abandoned(t)
  <2>1. job[t] \in Jobs /\ JobShape(job[t]) /\ JobStored(job[t], blobs, saved)
    BY <1>3 DEF Abandoned, FileInv, JobInv, NoJob
  <2>2. job' = [job EXCEPT ![t] = [job[t] EXCEPT !.live = FALSE]]
    BY <1>3 DEF Abandoned
  <2> QED
    BY <1>1, <2>1, <2>2, NotLive, OneJob
<1> QED
  BY <1>2, <1>3

LEMMA RestartJobs ==
  ASSUME FileInv, NEW n \in Node, Restart(n)
  PROVE  JobInv' /\ UNCHANGED <<blobs, saved>>
<1>1. UNCHANGED <<blobs, saved>>
  BY DEF Restart, storeVars
<1>2. ASSUME NEW t \in Task
      PROVE  job'[t] \in {NoJob, job[t], [job[t] EXCEPT !.live = FALSE]}
             /\ (job[t].node # n => job'[t] \in {NoJob, job[t]})
  BY DEF Restart
<1>3. ASSUME NEW t \in Task
      PROVE  /\ job'[t] \in Jobs \cup {NoJob} /\ JobShape(job'[t])
             /\ JobStored(job'[t], blobs, saved)
  <2>1. CASE job[t] = NoJob
    <3>1. job[t].node # n
      BY <2>1 DEF NoJob
    <3> QED
      BY <1>2, <2>1, <3>1, NoJobFits
  <2>2. CASE job[t] # NoJob
    <3>1. job[t] \in Jobs /\ JobShape(job[t]) /\ JobStored(job[t], blobs, saved)
      BY <2>2 DEF FileInv, JobInv
    <3> QED
      BY <1>2, <3>1, NotLive, NoJobFits
  <2> QED
    BY <2>1, <2>2
<1> QED
  BY <1>1, <1>3 DEF JobInv, Restart

LEMMA AllJobs == FileInv /\ [Next]_vars => JobInv' /\ Grows
<1> SUFFICES ASSUME FileInv, [Next]_vars PROVE JobInv' /\ Grows
  OBVIOUS
<1>1. ASSUME NEW t \in Task, JobStep(t) PROVE JobInv' /\ Grows
  BY <1>1, StoreJobs, SendJobs, ResumeJobs, FailingJobs DEF JobStep, Grows
<1>2. ASSUME NEW n \in Node, Restart(n) PROVE JobInv' /\ Grows
  BY <1>2, RestartJobs DEF Grows
<1>3. CASE UNCHANGED vars
  BY <1>3 DEF vars, storeVars, Grows, FileInv, JobInv
<1> QED
  BY <1>1, <1>2, <1>3 DEF Next

-----------------------------------------------------------------------------
\* Every step keeps the types.
LEMMA TypeStep == FileInv /\ [Next]_vars => FileTypeOK'
<1> SUFFICES ASSUME FileInv, [Next]_vars PROVE FileTypeOK'
  OBVIOUS
<1>0. job' \in [Task -> Jobs \cup {NoJob}]
  BY AllJobs DEF JobInv
<1>1. ASSUME NEW t \in Task, Place(t) PROVE FileTypeOK'
  <2>1. job[t] \in Jobs /\ JobShape(job[t]) /\ job[t].phase \in Storing
    BY <1>1, BusyJob DEF Place, Storing
  <2>2. job[t].file \in File /\ job[t].batch \subseteq Rows(job[t].file)
    BY <2>1 DEF JobShape, Storing
  <2>3. PICK i \in job[t].batch :
          blobs' = [blobs EXCEPT ![job[t].at] = @ \cup {ChunksOf[job[t].file][i]}]
    BY <1>1 DEF Place
  <2>4. ChunksOf[job[t].file][i] \in Chunk
    BY <2>2, <2>3 DEF Rows
  <2>5. blobs' \in [Node -> SUBSET Chunk]
    BY <2>3, <2>4 DEF FileInv, FileTypeOK
  <2> QED
    BY <1>0, <1>1, <2>5 DEF Place, eventVars, FileInv, FileTypeOK
<1>2. ASSUME NEW t \in Task, Mark(t) PROVE FileTypeOK'
  <2>1. job[t] \in Jobs
    BY <1>2 DEF Mark, FileInv, JobInv, NoJob
  <2> DEFINE c == job[t].marking
             at == job[t].at
             marked == [f \in File |-> IF f \in saved[at] /\ c \in ChunksIn(f)
                                       THEN present[at][f] \cup {c} ELSE present[at][f]]
  <2>2. c \in Chunk /\ at \in Node
    BY <1>2, <2>1 DEF Mark, Jobs
  <2>3. present' = [present EXCEPT ![at] = marked] /\ saved' = saved
    BY <1>2, <2>1, <2>2 DEF Mark, FileInv, FileTypeOK
  <2>4. /\ marked \in [File -> SUBSET Chunk]
        /\ \A f \in File : marked[f] \subseteq IF f \in saved[at] THEN ChunksIn(f) ELSE {}
    BY <2>2 DEF FileInv, FileTypeOK
  <2> HIDE DEF marked, at, c
  <2>5. /\ present' \in [Node -> [File -> SUBSET Chunk]]
        /\ \A n \in Node, f \in File :
             present'[n][f] \subseteq IF f \in saved'[n] THEN ChunksIn(f) ELSE {}
    BY <2>2, <2>3, <2>4 DEF FileInv, FileTypeOK
  <2> QED
    BY <1>0, <1>2, <2>5 DEF Mark, eventVars, FileInv, FileTypeOK
<1>3. ASSUME NEW t \in Task, Save(t) PROVE FileTypeOK'
  <2>1. job[t] \in Jobs /\ JobShape(job[t]) /\ job[t].phase = "save"
    BY <1>3, BusyJob DEF Save
  <2> DEFINE f == job[t].file
             at == job[t].at
  <2>2. f \in File /\ at \in Node
    BY <2>1 DEF JobShape, Jobs
  <2>3. /\ saved' = [saved EXCEPT ![at] = @ \cup {f}]
        /\ present' = IF f \in saved[at] THEN present
                      ELSE [present EXCEPT ![at][f] = ChunksIn(f) \cap blobs[at]]
    BY <1>3 DEF Save
  <2> HIDE DEF f, at
  <2>4. /\ saved' \in [Node -> SUBSET File]
        /\ \A n \in Node : saved[n] \subseteq saved'[n]
        /\ f \in saved'[at]
    BY <2>2, <2>3 DEF FileInv, FileTypeOK
  <2>5. ChunksIn(f) \cap blobs[at] \subseteq Chunk
    BY <2>2 DEF FileInv, FileTypeOK
  <2>6. present' \in [Node -> [File -> SUBSET Chunk]]
    BY <2>2, <2>3, <2>5 DEF FileInv, FileTypeOK
  <2>7. ASSUME NEW n \in Node, NEW g \in File
        PROVE  present'[n][g] \subseteq IF g \in saved'[n] THEN ChunksIn(g) ELSE {}
    <3>1. CASE present'[n][g] = present[n][g]
      BY <2>4, <3>1 DEF FileInv, FileTypeOK
    <3>2. CASE present'[n][g] # present[n][g]
      <4>1. n = at /\ g = f /\ present'[n][g] = ChunksIn(f) \cap blobs[at]
        BY <2>2, <2>3, <3>2 DEF FileInv, FileTypeOK
      <4> QED
        BY <2>4, <4>1
    <3> QED
      BY <3>1, <3>2
  <2> QED
    BY <1>0, <1>3, <2>4, <2>6, <2>7 DEF Save, eventVars, FileInv, FileTypeOK
<1>4. ASSUME NEW t \in Task, Count(t) PROVE FileTypeOK'
  BY <1>0, <1>4 DEF Count, storeVars, eventVars, FileInv, FileTypeOK
<1>5. ASSUME NEW t \in Task, Update(t) PROVE FileTypeOK'
  <2>1. job[t].file \in File
    BY <1>5, BusyJob DEF Update, JobShape
  <2> DEFINE at == job[t].at
  <2>2. complete' = [complete EXCEPT ![at] = IF job[t].whole THEN @ \cup {job[t].file}
                                             ELSE @ \ {job[t].file}]
    BY <1>5 DEF Update
  <2> HIDE DEF at
  <2>3. complete' \in [Node -> SUBSET File]
    BY <2>1, <2>2 DEF FileInv, FileTypeOK
  <2> QED
    BY <1>0, <1>5, <2>3 DEF Update, eventVars, FileInv, FileTypeOK
<1>6. ASSUME NEW t \in Task, SendStep(t) PROVE FileTypeOK'
  <2>1. UNCHANGED <<storeVars, faults>>
    BY <1>6 DEF SendStep, SendStart, Arrive, Announce, Offered, Push, SendDone, AcceptPush,
                RefusePush, Pushed
  <2>2. CASE Announce(t)
    <3>1. job[t].file \in File
      BY <2>2, BusyJob DEF Announce, JobShape
    <3> QED
      BY <1>0, <2>1, <2>2, <3>1 DEF Announce, storeVars, FileInv, FileTypeOK
  <2>3. CASE SendDone(t)
    <3>1. job[t].file \in File
      BY <2>3, BusyJob DEF SendDone, JobShape
    <3> QED
      BY <1>0, <2>1, <2>3, <3>1 DEF SendDone, storeVars, FileInv, FileTypeOK
  <2>4. ASSUME NEW f \in File, Arrive(t, f) PROVE FileTypeOK'
    BY <1>0, <2>1, <2>4 DEF Arrive, storeVars, FileInv, FileTypeOK
  <2>5. CASE UNCHANGED eventVars
    BY <1>0, <2>1, <2>5 DEF storeVars, eventVars, FileInv, FileTypeOK
  <2> QED
    BY <1>6, <2>2, <2>3, <2>4, <2>5
       DEF SendStep, SendStart, Offered, Push, AcceptPush, RefusePush, Pushed
<1>7. ASSUME NEW t \in Task, ResumeStep(t) PROVE FileTypeOK'
  <2>1. UNCHANGED <<storeVars, eventVars, faults>>
    BY <1>7 DEF ResumeStep, ResumeStart, ResumeNext, ResumeLook, Serve, Fetch
  <2> QED
    BY <1>0, <2>1 DEF storeVars, eventVars, FileInv, FileTypeOK
<1>8. ASSUME NEW t \in Task, Lost(t) \/ Abandoned(t) \/ StoreFails(t) PROVE FileTypeOK'
  <2>1. CASE Lost(t)
    BY <1>0, <2>1 DEF Lost, storeVars, eventVars, FileInv, FileTypeOK
  <2>2. CASE Abandoned(t)
    BY <1>0, <2>2 DEF Abandoned, storeVars, eventVars, FileInv, FileTypeOK
  <2>3. CASE StoreFails(t)
    BY <1>0, <2>3 DEF StoreFails, storeVars, eventVars, FileInv, FileTypeOK
  <2> QED
    BY <1>8, <2>1, <2>2, <2>3
<1>9. ASSUME NEW n \in Node, Restart(n) PROVE FileTypeOK'
  BY <1>0, <1>9 DEF Restart, storeVars, eventVars, FileInv, FileTypeOK
<1>10. CASE UNCHANGED vars
  BY <1>0, <1>10 DEF vars, storeVars, eventVars, FileInv, FileTypeOK
<1> QED
  BY <1>1, <1>2, <1>3, <1>4, <1>5, <1>6, <1>7, <1>8, <1>9, <1>10 DEF Next, JobStep, StoreStep

\* A file is announced by a send that has stored all of it.
LEMMA AnnouncedStep == FileInv /\ [Next]_vars => AnnouncedInv'
<1> SUFFICES ASSUME FileInv, [Next]_vars PROVE AnnouncedInv'
  OBVIOUS
<1>0. FileTypeOK /\ AnnouncedInv /\ Grows
  BY AllJobs DEF FileInv
<1>1. ASSUME NEW f \in announced PROVE CanServe(AuthorOf[f], f, Rows(f))'
  BY <1>0 DEF AnnouncedInv, CanServe, Grows, FileTypeOK
<1>2. ASSUME NEW t \in Task, Announce(t) PROVE AnnouncedInv'
  <2>1. JobShape(job[t]) /\ JobStored(job[t], blobs, saved) /\ job[t].phase = "announce"
    BY <1>2, BusyJob DEF Announce
  <2>2. /\ job[t].file \in File /\ job[t].node = AuthorOf[job[t].file]
        /\ job[t].op = "send" /\ job[t].at = job[t].node
    BY <2>1 DEF JobShape
  <2>3. CanServe(AuthorOf[job[t].file], job[t].file, Rows(job[t].file))
    BY <2>1, <2>2 DEF JobStored, CanServe, ChunksIn
  <2>4. UNCHANGED <<blobs, saved, arrived>> /\ announced' = announced \cup {job[t].file}
    BY <1>2 DEF Announce, storeVars
  <2>5. \A f \in announced' : CanServe(AuthorOf[f], f, Rows(f))
    BY <1>0, <2>3, <2>4 DEF AnnouncedInv
  <2> QED
    BY <1>0, <2>4, <2>5 DEF AnnouncedInv, CanServe
<1>3. ASSUME NEW t \in Task, NEW f \in File, Arrive(t, f) PROVE AnnouncedInv'
  BY <1>0, <1>1, <1>3 DEF Arrive, AnnouncedInv
<1>4. CASE UNCHANGED <<announced, arrived>>
  BY <1>0, <1>1, <1>4 DEF AnnouncedInv
<1> QED
  BY <1>2, <1>3, <1>4
     DEF Next, JobStep, StoreStep, SendStep, ResumeStep, Place, Mark, Save, Count, Update,
         SendStart, Offered, Push, SendDone, AcceptPush, RefusePush, Pushed, ResumeStart,
         ResumeNext, ResumeLook, Serve, Fetch, Lost, Abandoned, StoreFails, Restart, vars,
         eventVars

LEMMA FileInvariant == Spec => []FileInv
<1>1. FileInv /\ [Next]_vars => FileInv'
  BY AllJobs, TypeStep, AnnouncedStep DEF FileInv
<1> QED
  BY InitialFiles, <1>1, PTL DEF Spec

-----------------------------------------------------------------------------
\* Jobs, chunks and manifests keep their types, with any number of sends and syncs at
\* once (node.rs, storage.rs).
THEOREM FileTypeCorrect == Spec => []FileTypeOK
<1>1. FileInv => FileTypeOK
  BY DEF FileInv
<1> QED
  BY FileInvariant, <1>1, PTL

\* A file whose event a peer has stored can be recovered from its author: send_file
\* stores every chunk and the manifest before the event, and nothing removes them.
THEOREM OfferedFilesAreServed == Spec => []OfferedCanBeServed
<1>1. FileInv => OfferedCanBeServed
  BY DEF FileInv, AnnouncedInv, OfferedCanBeServed
<1> QED
  BY FileInvariant, <1>1, PTL

-----------------------------------------------------------------------------
(* What has been pushed is at the peer *)

\* The rows of the file whose chunks a send has seen stored at the peer, which are those
\* that it has taken from the file and that are not under way.
Behind(j) == Rows(j.file) \ (j.rest \cup (IF j.phase \in {"pushing", "accept"} THEN j.batch ELSE {}))

\* m: the marks of each node; b: its chunks; s: its manifests.
JobPushed(j, m, b, s) ==
  /\ j.marking # None => j.marking \in b[j.at] \cap ChunksIn(j.file)
  /\ j.op = "send" /\ j.phase \in {"ingest", "save", "announce", "offer"} => j.rest = Rows(j.file)
  /\ j.op = "send" /\ j.at = j.node /\ j.phase \in {"count", "update"} => j.rest = Rows(j.file)
  /\ j.phase = "accept" => j.at = PeerOf[j.file] /\ j.file \in s[j.at]
  /\ j.op = "send" =>
       ChunksAt(j.file, Behind(j)) \subseteq m[PeerOf[j.file]][j.file] \cup {j.marking}

PushInv ==
  /\ \A n \in Node, f \in File : present[n][f] \subseteq blobs[n]
  /\ \A t \in Task : JobPushed(job[t], present, blobs, saved)
  /\ \A f \in sent : ChunksIn(f) \subseteq present[PeerOf[f]][f]

\* Marks are never removed.
MarksGrow == \A n \in Node, f \in File : present[n][f] \subseteq present'[n][f]

LEMMA MarksMonotone == FileInv /\ [Next]_vars => MarksGrow
<1> SUFFICES ASSUME FileInv, [Next]_vars PROVE MarksGrow
  OBVIOUS
<1>1. ASSUME NEW t \in Task, Mark(t) PROVE MarksGrow
  BY <1>1 DEF Mark, MarksGrow, FileInv, FileTypeOK
<1>2. ASSUME NEW t \in Task, Save(t) PROVE MarksGrow
  <2>1. PICK at \in Node, f \in File :
          present' = IF f \in saved[at] THEN present
                     ELSE [present EXCEPT ![at][f] = ChunksIn(f) \cap blobs[at]]
    <3>1. job[t].at \in Node /\ job[t].file \in File
      BY <1>2, BusyJob DEF Save, Jobs, JobShape
    <3> QED
      BY <1>2, <3>1 DEF Save
  <2>2. f \notin saved[at] => present[at][f] = {}
    BY DEF FileInv, FileTypeOK
  <2> QED
    BY <2>1, <2>2 DEF MarksGrow, FileInv, FileTypeOK
<1>3. CASE UNCHANGED present
  BY <1>3 DEF MarksGrow
<1> QED
  BY <1>1, <1>2, <1>3
     DEF Next, JobStep, StoreStep, SendStep, ResumeStep, Place, Count, Update,
         SendStart, Arrive, Announce, Offered, Push, SendDone, AcceptPush, RefusePush, Pushed,
         ResumeStart, ResumeNext, ResumeLook, Serve, Fetch, Lost, Abandoned, StoreFails,
         Restart, vars, storeVars

LEMMA NoJobPushed == \A m, b, s : JobPushed(NoJob, m, b, s)
BY DEF JobPushed, NoJob

\* A job that is no send and marks nothing has pushed nothing.
LEMMA OtherPushed ==
  ASSUME NEW j, j.op # "send", j.marking = None, j.phase # "accept"
  PROVE  \A m, b, s : JobPushed(j, m, b, s)
BY DEF JobPushed

\* What a job knows stays true while marks, chunks and manifests only grow.
LEMMA StillPushed ==
  ASSUME FileInv, Grows, MarksGrow, NEW j \in Jobs \cup {NoJob}, JobShape(j),
         JobPushed(j, present, blobs, saved)
  PROVE  JobPushed(j, present', blobs', saved')
<1>1. CASE j = NoJob
  BY <1>1, NoJobPushed
<1>2. CASE j # NoJob
  <2>1. j.at \in Node /\ (j.op = "send" => j.file \in File /\ PeerOf[j.file] \in Node)
    BY <1>2 DEF Jobs, JobShape
  <2>2. blobs[j.at] \subseteq blobs'[j.at] /\ saved[j.at] \subseteq saved'[j.at]
    BY <2>1 DEF Grows
  <2>3. j.op = "send" => present[PeerOf[j.file]][j.file] \subseteq present'[PeerOf[j.file]][j.file]
    BY <2>1 DEF MarksGrow
  <2> QED
    BY <2>2, <2>3 DEF JobPushed
<1> QED
  BY <1>1, <1>2

\* A step that writes one slot keeps what the other jobs have pushed.
LEMMA OnePushed ==
  ASSUME FileInv, PushInv, [Next]_vars, NEW t \in Task, NEW r, job' = [job EXCEPT ![t] = r],
         JobPushed(r, present', blobs', saved')
  PROVE  \A u \in Task : JobPushed(job'[u], present', blobs', saved')
<1> SUFFICES ASSUME NEW u \in Task PROVE JobPushed(job'[u], present', blobs', saved')
  OBVIOUS
<1>1. Grows /\ MarksGrow
  BY AllJobs, MarksMonotone
<1>2. CASE u = t
  <2>1. job'[u] = r
    BY <1>2 DEF FileInv, JobInv
  <2> QED
    BY <2>1
<1>3. CASE u # t
  <2>1. job'[u] = job[u]
    BY <1>3 DEF FileInv, JobInv
  <2>2. job[u] \in Jobs \cup {NoJob} /\ JobShape(job[u]) /\ JobPushed(job[u], present, blobs, saved)
    BY DEF FileInv, JobInv, PushInv
  <2> QED
    BY <1>1, <2>1, <2>2, StillPushed
<1> QED
  BY <1>2, <1>3

LEMMA EndPushed ==
  ASSUME FileInv, PushInv, [Next]_vars, NEW t \in Task, End(t)
  PROVE  \A u \in Task : JobPushed(job'[u], present', blobs', saved')
BY OnePushed, NoJobPushed DEF End

\* The store steps of a push put its batch behind it, chunk by chunk.
LEMMA StorePushed ==
  ASSUME FileInv, PushInv, [Next]_vars, NEW t \in Task, StoreStep(t)
  PROVE  \A u \in Task : JobPushed(job'[u], present', blobs', saved')
<1> DEFINE j == job[t]
           r == job'[t]
           old == present[PeerOf[j.file]][j.file]
           new == present'[PeerOf[j.file]][j.file]
<1> SUFFICES \/ End(t)
             \/ job' = [job EXCEPT ![t] = r] /\ JobPushed(r, present', blobs', saved')
  BY OnePushed, EndPushed
<1>0. /\ j \in Jobs /\ JobShape(j) /\ j.phase \notin {"idle", "next"}
      /\ JobPushed(j, present, blobs, saved) /\ j.file \in File /\ PeerOf[j.file] \in Node
      /\ j.at \in Node
  <2>1. j.phase \notin {"idle", "next"}
    BY DEF StoreStep, Place, Mark, Save, Count, Update, FileInv, JobInv, JobShape, Storing
  <2>2. j \in Jobs /\ JobShape(j)
    BY <2>1, BusyJob
  <2> QED
    BY <2>1, <2>2 DEF PushInv, JobShape, Jobs
<1>1. job \in [Task -> Jobs \cup {NoJob}]
  BY DEF FileInv, JobInv
<1>2. Grows /\ MarksGrow /\ old \subseteq new
  BY <1>0, AllJobs, MarksMonotone DEF MarksGrow
<1>3. blobs[j.at] \subseteq blobs'[j.at] /\ saved[j.at] \subseteq saved'[j.at]
  BY <1>0, <1>2 DEF Grows
<1> HIDE DEF j, old, new
<1>4. CASE Place(t)
  <2>1. PICK i \in j.batch : /\ blobs' = [blobs EXCEPT ![j.at] = @ \cup {ChunksOf[j.file][i]}]
                             /\ job' = [job EXCEPT ![t].marking = ChunksOf[j.file][i],
                                                   ![t].batch = @ \ {i}]
    BY <1>4 DEF Place, j
  <2>2. j.phase \in Storing /\ j.marking = None /\ present' = present
    BY <1>4 DEF Place, j
  <2>3. i \in Rows(j.file) /\ ChunksOf[j.file][i] \in ChunksIn(j.file)
    BY <1>0, <2>1, <2>2 DEF JobShape, ChunksIn, ChunksAt
  <2>4. r = [j EXCEPT !.marking = ChunksOf[j.file][i], !.batch = @ \ {i}]
    BY <1>1, <2>1 DEF j
  <2>5. /\ Keeps(r, j) /\ r.at = j.at /\ r.phase = j.phase /\ r.batch = j.batch \ {i}
        /\ r.marking = ChunksOf[j.file][i]
    BY <1>0, <2>4 DEF Jobs, Keeps
  <2>6. r.marking \in blobs'[r.at] \cap ChunksIn(r.file)
    BY <1>0, <2>1, <2>3, <2>5 DEF Keeps, FileInv, FileTypeOK
  <2>7. Behind(r) \subseteq Behind(j) \cup {i}
    BY <2>5 DEF Behind, Keeps
  <2>8. ChunksAt(r.file, Behind(r)) \subseteq ChunksAt(j.file, Behind(j)) \cup {r.marking}
    BY <2>5, <2>7 DEF ChunksAt, Keeps
  <2>9. j.op = "send" => ChunksAt(j.file, Behind(j)) \subseteq old
    <3>1. None \notin ChunksAt(j.file, Behind(j))
      BY <1>0 DEF ChunksAt, Behind, Rows
    <3> QED
      BY <1>0, <2>2, <3>1 DEF JobPushed, old
  <2>10. JobPushed(r, present', blobs', saved')
    BY <1>0, <1>2, <1>3, <2>5, <2>6, <2>8, <2>9 DEF JobPushed, Keeps, new
  <2> QED
    BY <1>1, <2>1, <2>10
<1>5. CASE Mark(t)
  <2>1. /\ j.marking # None
        /\ job' = [job EXCEPT ![t].marking = None,
                     ![t].phase = IF j.batch = {} THEN AfterStoring(j.phase) ELSE j.phase]
    BY <1>5 DEF Mark, j
  <2>2. j.phase \in Storing
    BY <1>0, <2>1 DEF JobShape
  <2>3. r = [j EXCEPT !.marking = None,
                      !.phase = IF j.batch = {} THEN AfterStoring(j.phase) ELSE j.phase]
    BY <1>1, <2>1 DEF j
  <2>4. /\ Keeps(r, j) /\ r.at = j.at /\ r.batch = j.batch /\ r.marking = None
        /\ r.phase = IF j.batch = {} THEN AfterStoring(j.phase) ELSE j.phase
    BY <1>0, <2>3 DEF Jobs, Keeps
  <2>5. CASE j.phase = "accept"
    <3>1. j.marking \in ChunksIn(j.file) /\ j.at = PeerOf[j.file] /\ j.file \in saved[j.at]
      BY <1>0, <2>1, <2>5 DEF JobPushed
    <3>2. j.marking \in new
      BY <1>0, <1>5, <3>1 DEF Mark, j, new, FileInv, FileTypeOK
    <3>3. Behind(r) = Behind(j)
      BY <2>4, <2>5 DEF Behind, Keeps, AfterStoring
    <3>4. j.op = "send" => ChunksAt(j.file, Behind(j)) \subseteq new
      BY <1>0, <1>2, <3>2 DEF JobPushed, old
    <3>5. j.op = "send" /\ r.phase \in {"accept", "count"} /\ j.at # j.node
      BY <1>0, <2>4, <2>5 DEF JobShape, AfterStoring
    <3> QED
      BY <1>1, <1>3, <2>1, <2>4, <3>1, <3>3, <3>4, <3>5 DEF JobPushed, Keeps, new
  <2>6. CASE j.phase = "ingest"
    <3>1. j.op = "send" /\ j.rest = Rows(j.file)
      BY <1>0, <2>6 DEF JobShape, JobPushed
    <3>2. r.phase \in {"ingest", "save"}
      BY <2>4, <2>6 DEF AfterStoring
    <3>3. ChunksAt(r.file, Behind(r)) = {}
      BY <2>4, <3>1 DEF Behind, Keeps, ChunksAt
    <3> QED
      BY <1>1, <2>1, <2>4, <3>1, <3>2, <3>3 DEF JobPushed, Keeps
  <2>7. CASE j.phase = "fetch"
    <3>1. r.op = "resume" /\ r.phase \in {"fetch", "look"}
      BY <1>0, <2>4, <2>7 DEF JobShape, Keeps, AfterStoring
    <3> QED
      BY <1>1, <2>1, <2>4, <3>1, OtherPushed
  <2> QED
    BY <2>2, <2>5, <2>6, <2>7 DEF Storing
<1>6. ASSUME NEW phase \in {"count", "update", "announce", "pushed"}, NEW at,
             r.phase = phase, Keeps(r, j), r.at = at, r.marking = None, r.batch = j.batch,
             j.phase \in {"save", "count", "update"}, j.marking = None,
             phase \in {"count", "update"} => at = j.at,
             phase = "announce" => j.at = j.node,
             j.phase = "save" => phase = "count",
             phase = "announce" => j.phase = "update"
      PROVE  JobPushed(r, present', blobs', saved')
  <2>1. j.op = "send" => ChunksAt(j.file, Behind(j)) \subseteq new \cup {None}
    BY <1>0, <1>2, <1>6 DEF JobPushed, old
  <2>2. Behind(r) = Behind(j)
    BY <1>6 DEF Behind, Keeps
  <2>3. r.op = "send" /\ r.phase = "announce" => r.rest = Rows(r.file)
    BY <1>0, <1>6 DEF JobPushed, Keeps
  <2>4. r.op = "send" /\ r.at = r.node /\ r.phase \in {"count", "update"} => r.rest = Rows(r.file)
    BY <1>0, <1>6 DEF JobPushed, Keeps
  <2> QED
    BY <1>6, <2>1, <2>2, <2>3, <2>4 DEF JobPushed, Keeps, new
<1>7. CASE Save(t)
  <2>1. j.phase = "save" /\ job' = [job EXCEPT ![t].phase = "count"]
    BY <1>7 DEF Save, Goto, j
  <2>2. r = [j EXCEPT !.phase = "count"] /\ j.marking = None
    BY <1>0, <1>1, <2>1 DEF j, JobShape, Storing
  <2>3. Keeps(r, j) /\ r.at = j.at /\ r.phase = "count" /\ r.marking = None /\ r.batch = j.batch
    BY <1>0, <2>2 DEF Jobs, Keeps
  <2> QED
    BY <1>1, <1>6, <2>1, <2>2, <2>3
<1>8. CASE Count(t)
  <2>1. /\ j.phase = "count"
        /\ job' = [job EXCEPT ![t].phase = "update",
                     ![t].whole = ChunksIn(j.file) \subseteq present[j.at][j.file]]
    BY <1>8 DEF Count, j
  <2>2. r = [j EXCEPT !.phase = "update", !.whole = r.whole] /\ j.marking = None
    BY <1>0, <1>1, <2>1 DEF j, Jobs, JobShape, Storing
  <2>3. Keeps(r, j) /\ r.at = j.at /\ r.phase = "update" /\ r.marking = None /\ r.batch = j.batch
    BY <1>0, <2>2 DEF Jobs, Keeps
  <2> QED
    BY <1>1, <1>6, <2>1, <2>2, <2>3
<1>9. CASE Update(t)
  <2>1. j.phase = "update" /\ j.marking = None
    BY <1>0, <1>9 DEF Update, j, JobShape, Storing
  <2>2. CASE j.op = "resume"
    <3>1. job' = [job EXCEPT ![t].phase = "next"]
      BY <1>9, <2>2 DEF Update, Goto, j
    <3>2. r = [j EXCEPT !.phase = "next"]
      BY <1>1, <3>1 DEF j
    <3>3. r.op # "send" /\ r.marking = None /\ r.phase = "next"
      BY <1>0, <2>1, <2>2, <3>2 DEF Jobs
    <3> QED
      BY <1>1, <3>1, <3>3, OtherPushed
  <2>3. CASE j.op = "send" /\ j.at = j.node
    <3>1. job' = [job EXCEPT ![t].phase = "announce"]
      BY <1>9, <2>3 DEF Update, Goto, j
    <3>2. r = [j EXCEPT !.phase = "announce"]
      BY <1>1, <3>1 DEF j
    <3>3. Keeps(r, j) /\ r.phase = "announce" /\ r.marking = None /\ r.batch = j.batch /\ r.at = j.at
      BY <1>0, <2>1, <3>2 DEF Jobs, Keeps
    <3> QED
      BY <1>1, <1>6, <2>1, <2>3, <3>1, <3>3
  <2>4. CASE j.op = "send" /\ j.at # j.node /\ j.live
    <3>1. job' = [job EXCEPT ![t].phase = "pushed", ![t].at = j.node]
      BY <1>9, <2>4 DEF Update, j
    <3>2. r = [j EXCEPT !.phase = "pushed", !.at = j.node]
      BY <1>1, <3>1 DEF j
    <3>3. Keeps(r, j) /\ r.phase = "pushed" /\ r.marking = None /\ r.batch = j.batch /\ r.at = j.node
      BY <1>0, <2>1, <3>2 DEF Jobs, Keeps
    <3> QED
      BY <1>1, <1>6, <2>1, <2>4, <3>1, <3>3
  <2>5. CASE j.op # "resume" /\ ~(j.op = "send" /\ j.at = j.node)
             /\ ~(j.op = "send" /\ j.at # j.node /\ j.live)
    BY <1>9, <2>5 DEF Update, j
  <2> QED
    BY <2>2, <2>3, <2>4, <2>5
<1> QED
  BY <1>4, <1>5, <1>7, <1>8, <1>9 DEF StoreStep

\* The other steps of a send move a batch from the rest of the file to its way.
LEMMA SendPushed ==
  ASSUME FileInv, PushInv, [Next]_vars, NEW t \in Task, SendStep(t)
  PROVE  \A u \in Task : JobPushed(job'[u], present', blobs', saved')
<1> DEFINE j == job[t]
           r == job'[t]
<1>0. UNCHANGED <<present, blobs, saved>>
  BY DEF SendStep, SendStart, Arrive, Announce, Offered, Push, SendDone, AcceptPush,
         RefusePush, Pushed, storeVars
<1> SUFFICES \/ End(t)
             \/ job' = [job EXCEPT ![t] = r] /\ JobPushed(r, present, blobs, saved)
  BY <1>0, OnePushed, EndPushed
<1>1. job \in [Task -> Jobs \cup {NoJob}]
  BY DEF FileInv, JobInv
<1>2. j.phase # "idle" => j \in Jobs /\ JobShape(j) /\ JobPushed(j, present, blobs, saved)
  BY BusyJob DEF PushInv
<1> HIDE DEF j
<1>3. ASSUME NEW f \in File, SendStart(t, f)
      PROVE  job' = [job EXCEPT ![t] = r] /\ JobPushed(r, present, blobs, saved)
  <2>1. job' = [job EXCEPT ![t] = [NoJob EXCEPT !.op = "send", !.node = AuthorOf[f],
                  !.at = AuthorOf[f], !.file = f, !.live = TRUE,
                  !.phase = IF Rows(f) = {} THEN "save" ELSE "ingest",
                  !.rest = Rows(f), !.batch = Rows(f)]]
    BY <1>3 DEF SendStart, Begin
  <2>2. /\ r.file = f /\ r.phase \in {"save", "ingest"} /\ r.rest = Rows(f) /\ r.marking = None
    BY <1>1, <2>1 DEF NoJob
  <2>3. ChunksAt(r.file, Behind(r)) = {}
    BY <2>2 DEF ChunksAt, Behind
  <2>4. JobPushed(r, present, blobs, saved)
    BY <2>2, <2>3 DEF JobPushed
  <2> QED
    BY <1>1, <2>1, <2>4
<1>4. ASSUME NEW f \in File, Arrive(t, f)
      PROVE  job' = [job EXCEPT ![t] = r] /\ JobPushed(r, present, blobs, saved)
  <2>1. job' = [job EXCEPT ![t] = [NoJob EXCEPT !.op = "file", !.phase = "save",
                  !.node = PeerOf[f], !.at = PeerOf[f], !.file = f]]
    BY <1>4 DEF Arrive, Begin
  <2>2. r.op = "file" /\ r.phase = "save" /\ r.marking = None
    BY <1>1, <2>1 DEF NoJob
  <2> QED
    BY <1>1, <2>1, <2>2, OtherPushed
<1>5. ASSUME NEW from \in {"announce", "offer", "pushed"}, NEW to \in {"offer", "push"},
             j.phase = from, from = "announce" <=> to = "offer",
             job' = [job EXCEPT ![t].phase = to]
      PROVE  job' = [job EXCEPT ![t] = r] /\ JobPushed(r, present, blobs, saved)
  <2>1. j \in Jobs /\ JobShape(j) /\ JobPushed(j, present, blobs, saved)
    BY <1>2, <1>5
  <2>2. r = [j EXCEPT !.phase = to]
    BY <1>1, <1>5 DEF j
  <2>3. Keeps(r, j) /\ r.phase = to /\ r.batch = j.batch /\ r.marking = j.marking
    BY <2>1, <2>2 DEF Jobs, Keeps
  <2>4. Behind(r) = Behind(j) /\ j.marking = None
    BY <1>5, <2>1, <2>3 DEF Behind, Keeps, JobShape, Storing
  <2>5. JobPushed(r, present, blobs, saved)
    BY <1>5, <2>1, <2>3, <2>4 DEF JobPushed, Keeps
  <2> QED
    BY <1>1, <1>5, <2>5
<1>6. CASE Announce(t) \/ Offered(t) \/ Pushed(t)
  BY <1>5, <1>6 DEF Announce, Offered, Pushed, Goto, j
<1>7. CASE Push(t)
  <2>1. j.phase = "push"
    BY <1>7 DEF Push, j
  <2>2. j \in Jobs /\ JobShape(j) /\ JobPushed(j, present, blobs, saved)
    BY <1>2, <2>1
  <2>3. CASE ~End(t)
    <3>1. job' = [job EXCEPT ![t].phase = "pushing", ![t].batch = Take(j.rest),
                             ![t].rest = Drop(j.rest)]
      BY <1>7, <2>3 DEF Push, j
    <3>2. r = [j EXCEPT !.phase = "pushing", !.batch = Take(j.rest), !.rest = Drop(j.rest)]
      BY <1>1, <3>1 DEF j
    <3>3. /\ r.op = j.op /\ r.file = j.file /\ r.rest = Drop(j.rest) /\ r.batch = Take(j.rest)
          /\ r.phase = "pushing" /\ r.marking = j.marking
      BY <2>2, <3>2 DEF Jobs
    <3>4. r.rest \cup r.batch = j.rest
      BY <3>3 DEF Take, Drop
    <3>5. Behind(r) = Behind(j) /\ j.marking = None
      BY <2>1, <2>2, <3>3, <3>4 DEF Behind, JobShape, Storing
    <3>6. JobPushed(r, present, blobs, saved)
      BY <2>1, <2>2, <3>3, <3>5 DEF JobPushed
    <3> QED
      BY <1>1, <3>1, <3>6
  <2> QED
    BY <2>3
<1>8. CASE AcceptPush(t)
  <2>1. /\ j.phase = "pushing" /\ j.file \in saved[PeerOf[j.file]]
        /\ job' = [job EXCEPT ![t].phase = "accept", ![t].at = PeerOf[j.file]]
    BY <1>8 DEF AcceptPush, j
  <2>2. j \in Jobs /\ JobShape(j) /\ JobPushed(j, present, blobs, saved)
    BY <1>2, <2>1
  <2>3. r = [j EXCEPT !.phase = "accept", !.at = PeerOf[j.file]]
    BY <1>1, <2>1 DEF j
  <2>4. /\ Keeps(r, j) /\ r.at = PeerOf[j.file] /\ r.phase = "accept"
        /\ r.batch = j.batch /\ r.marking = j.marking
    BY <2>2, <2>3 DEF Jobs, Keeps
  <2>5. Behind(r) = Behind(j) /\ j.marking = None
    BY <2>1, <2>2, <2>4 DEF Behind, Keeps, JobShape, Storing
  <2>6. JobPushed(r, present, blobs, saved)
    BY <2>1, <2>2, <2>4, <2>5 DEF JobPushed, Keeps
  <2> QED
    BY <1>1, <2>1, <2>6
<1>9. CASE SendDone(t) \/ RefusePush(t)
  BY <1>9 DEF SendDone, RefusePush
<1> QED
  BY <1>3, <1>4, <1>6, <1>7, <1>8, <1>9 DEF SendStep

\* Resumes push nothing.
LEMMA ResumePushed ==
  ASSUME FileInv, PushInv, [Next]_vars, NEW t \in Task, ResumeStep(t)
  PROVE  \A u \in Task : JobPushed(job'[u], present', blobs', saved')
<1> DEFINE j == job[t]
           r == job'[t]
<1> SUFFICES \/ End(t)
             \/ /\ job' = [job EXCEPT ![t] = r]
                /\ r.op # "send" /\ r.marking = None /\ r.phase # "accept"
  BY OnePushed, EndPushed, OtherPushed
<1>1. job \in [Task -> Jobs \cup {NoJob}]
  BY DEF FileInv, JobInv
<1>2. ASSUME NEW n \in Node, NEW p \in Node, ResumeStart(t, n, p)
      PROVE  /\ job' = [job EXCEPT ![t] = r]
             /\ r.op # "send" /\ r.marking = None /\ r.phase # "accept"
  BY <1>1, <1>2 DEF ResumeStart, Begin, NoJob
<1>3. CASE ~(\E n, p \in Node : ResumeStart(t, n, p))
  <2>1. j.phase \in {"next", "look", "asking", "answer"}
    BY <1>3 DEF ResumeStep, ResumeNext, ResumeLook, Serve, Fetch
  <2>2. j \in Jobs /\ j.op = "resume" /\ j.marking = None
    BY <2>1, BusyJob DEF JobShape, Storing
  <2>3. CASE ~End(t)
    <3>1. /\ job' = [job EXCEPT ![t] = r]
          /\ r.op = j.op /\ r.marking = j.marking
          /\ r.phase \in {"look", "count", "asking", "answer", "fetch"}
      <4>1. CASE ResumeNext(t)
        <5>1. PICK f \in j.files : job' = [job EXCEPT ![t].phase = "look", ![t].file = f,
                                                     ![t].files = @ \ {f}]
          BY <2>3, <4>1 DEF ResumeNext
        <5>2. r = [j EXCEPT !.phase = "look", !.file = f, !.files = @ \ {f}]
          BY <1>1, <5>1
        <5>3. r.op = j.op /\ r.marking = j.marking /\ r.phase = "look"
          BY <2>2, <5>2 DEF Jobs
        <5> QED
          BY <1>1, <5>1, <5>3
      <4>2. CASE ResumeLook(t)
        BY <1>1, <2>2, <4>2 DEF ResumeLook, Goto, Jobs
      <4>3. CASE Serve(t) \/ Fetch(t)
        BY <1>1, <2>2, <2>3, <4>3 DEF Serve, Fetch, Goto, Jobs
      <4> QED
        BY <1>3, <4>1, <4>2, <4>3 DEF ResumeStep
    <3> QED
      BY <2>2, <3>1
  <2> QED
    BY <2>3
<1> QED
  BY <1>2, <1>3

\* A client that is gone takes nothing back.
LEMMA NotLivePushed ==
  ASSUME NEW j \in Jobs, JobPushed(j, present, blobs, saved)
  PROVE  JobPushed([j EXCEPT !.live = FALSE], present, blobs, saved)
<1> DEFINE r == [j EXCEPT !.live = FALSE]
<1>1. /\ Keeps(r, j) /\ r.at = j.at /\ r.phase = j.phase
      /\ r.batch = j.batch /\ r.marking = j.marking
  BY DEF Jobs, Keeps
<1> HIDE DEF r
<1>2. Behind(r) = Behind(j)
  BY <1>1 DEF Behind, Keeps
<1>3. JobPushed(r, present, blobs, saved)
  BY <1>1, <1>2 DEF JobPushed, Keeps
<1> QED
  BY <1>3 DEF r

LEMMA FailingPushed ==
  ASSUME FileInv, PushInv, [Next]_vars,
         \/ \E t \in Task : Lost(t) \/ Abandoned(t) \/ StoreFails(t)
         \/ \E n \in Node : Restart(n)
  PROVE  \A u \in Task : JobPushed(job'[u], present', blobs', saved')
<1> SUFFICES ASSUME NEW u \in Task PROVE JobPushed(job'[u], present', blobs', saved')
  OBVIOUS
<1>0. UNCHANGED <<present, blobs, saved>>
  BY DEF Lost, Abandoned, StoreFails, Restart, storeVars
<1>1. \/ job'[u] \in {NoJob, job[u]}
      \/ job[u] # NoJob /\ job'[u] = [job[u] EXCEPT !.live = FALSE]
  <2>1. ~NoJob.live /\ NoJob.node = None
    BY DEF NoJob
  <2>2. ASSUME NEW t \in Task, Lost(t) \/ StoreFails(t) PROVE job'[u] \in {NoJob, job[u]}
    BY <2>2 DEF Lost, StoreFails, End, FileInv, JobInv
  <2>3. ASSUME NEW t \in Task, Abandoned(t)
        PROVE  \/ job'[u] = job[u]
               \/ job[u] # NoJob /\ job'[u] = [job[u] EXCEPT !.live = FALSE]
    <3>1. job[t] # NoJob /\ job' = [job EXCEPT ![t].live = FALSE]
      BY <2>1, <2>3 DEF Abandoned
    <3>2. CASE u = t
      BY <3>1, <3>2 DEF FileInv, JobInv
    <3>3. CASE u # t
      BY <3>1, <3>3 DEF FileInv, JobInv
    <3> QED
      BY <3>2, <3>3
  <2>4. ASSUME NEW n \in Node, Restart(n)
        PROVE  \/ job'[u] \in {NoJob, job[u]}
               \/ job[u] # NoJob /\ job'[u] = [job[u] EXCEPT !.live = FALSE]
    BY <2>1, <2>4 DEF Restart
  <2> QED
    BY <2>2, <2>3, <2>4
<1>2. JobPushed(job[u], present, blobs, saved) /\ job[u] \in Jobs \cup {NoJob}
  BY DEF PushInv, FileInv, JobInv
<1>3. CASE job'[u] \in {NoJob, job[u]}
  BY <1>0, <1>2, <1>3, NoJobPushed
<1>4. CASE job[u] # NoJob /\ job'[u] = [job[u] EXCEPT !.live = FALSE]
  BY <1>0, <1>2, <1>4, NotLivePushed
<1> QED
  BY <1>1, <1>3, <1>4

LEMMA PushStep == FileInv /\ PushInv /\ [Next]_vars => PushInv'
<1> SUFFICES ASSUME FileInv, PushInv, [Next]_vars PROVE PushInv'
  OBVIOUS
<1>0. Grows /\ MarksGrow
  BY AllJobs, MarksMonotone
<1>1. \A t \in Task : JobPushed(job'[t], present', blobs', saved')
  <2>1. CASE UNCHANGED vars
    BY <2>1 DEF vars, storeVars, PushInv
  <2> QED
    BY <2>1, StorePushed, SendPushed, ResumePushed, FailingPushed DEF Next, JobStep
<1>2. ASSUME NEW n \in Node, NEW f \in File PROVE present'[n][f] \subseteq blobs'[n]
  <2>1. present[n][f] \subseteq blobs'[n]
    BY <1>0 DEF PushInv, Grows
  <2>2. ASSUME NEW t \in Task, Mark(t) PROVE present'[n][f] \subseteq blobs'[n]
    <3>1. job[t].marking \in blobs[job[t].at] /\ blobs' = blobs
      BY <2>2 DEF Mark, PushInv, JobPushed
    <3> QED
      BY <2>1, <2>2, <3>1 DEF Mark, FileInv, FileTypeOK
  <2>3. ASSUME NEW t \in Task, Save(t) PROVE present'[n][f] \subseteq blobs'[n]
    BY <2>1, <2>3 DEF Save, FileInv, FileTypeOK
  <2>4. CASE UNCHANGED present
    BY <2>1, <2>4
  <2> QED
    BY <2>2, <2>3, <2>4
       DEF Next, JobStep, StoreStep, SendStep, ResumeStep, Place, Count, Update,
           SendStart, Arrive, Announce, Offered, Push, SendDone, AcceptPush, RefusePush, Pushed,
           ResumeStart, ResumeNext, ResumeLook, Serve, Fetch, Lost, Abandoned, StoreFails,
           Restart, vars, storeVars
<1>3. ASSUME NEW f \in sent' PROVE ChunksIn(f) \subseteq present'[PeerOf[f]][f]
  <2>1. CASE f \in sent
    BY <1>0, <2>1 DEF PushInv, MarksGrow, FileInv, FileTypeOK
  <2>2. CASE f \notin sent
    <3>1. PICK t \in Task : SendDone(t)
      BY <2>2 DEF Next, JobStep, StoreStep, SendStep, ResumeStep, Place, Mark, Save, Count, Update,
           SendStart, Arrive, Announce, Offered, Push, AcceptPush, RefusePush, Pushed,
           ResumeStart, ResumeNext, ResumeLook, Serve, Fetch, Lost, Abandoned, StoreFails,
           Restart, vars, eventVars
    <3>2. /\ job[t].phase = "push" /\ job[t].rest = {} /\ f = job[t].file
          /\ UNCHANGED <<present, blobs>>
      BY <2>2, <3>1 DEF SendDone, storeVars
    <3>3. /\ job[t].op = "send" /\ job[t].marking = None
          /\ JobPushed(job[t], present, blobs, saved) /\ f \in File
      BY <3>2, BusyJob DEF JobShape, Storing, PushInv
    <3>4. Behind(job[t]) = Rows(f)
      BY <3>2 DEF Behind
    <3>5. ChunksIn(f) \subseteq present[PeerOf[f]][f] \cup {None}
      BY <3>2, <3>3, <3>4 DEF JobPushed, ChunksIn
    <3>6. None \notin ChunksIn(f)
      BY <3>3 DEF ChunksIn, ChunksAt, Rows
    <3> QED
      BY <3>2, <3>5, <3>6
  <2> QED
    BY <2>1, <2>2
<1> QED
  BY <1>1, <1>2, <1>3 DEF PushInv

LEMMA SentIsGathered == FileInv /\ PushInv => SentMeansGathered
<1> SUFFICES ASSUME FileInv, PushInv, NEW f \in sent, ChunksOf[f] # <<>>
             PROVE  Gathered(PeerOf[f], f)
  BY DEF SentMeansGathered
<1>1. f \in File /\ PeerOf[f] \in Node
  BY DEF FileInv, FileTypeOK
<1>2. ChunksIn(f) \subseteq present[PeerOf[f]][f] /\ ChunksIn(f) \subseteq blobs[PeerOf[f]]
  BY <1>1 DEF PushInv
<1>3. Missing(PeerOf[f], f) = {}
  BY <1>2 DEF Missing, ChunksIn, ChunksAt
<1>4. 1 \in Rows(f)
  <2>1. ChunksOf[f] \in Seq(Chunk)
    BY <1>1
  <2> QED
    BY <2>1 DEF Rows
<1>5. ChunksOf[f][1] \in present[PeerOf[f]][f]
  BY <1>2, <1>4 DEF ChunksIn, ChunksAt
<1>6. f \in saved[PeerOf[f]]
  BY <1>1, <1>5 DEF FileInv, FileTypeOK
<1> QED
  BY <1>2, <1>3, <1>6 DEF Gathered

\* When send_file of a file that is not empty returns without an error, the peer has its
\* manifest, every row of it is marked, and every chunk has a file in the peer's blob
\* store; what is in those files is the subject of BlobStoreProofs.
THEOREM SentFilesAreGathered == Spec => []SentMeansGathered
<1>1. Init => PushInv
  BY NoJobPushed DEF Init, PushInv
<1>2. FileInv /\ PushInv => SentMeansGathered
  BY SentIsGathered
<1>3. FileInv /\ PushInv /\ [Next]_vars => PushInv'
  BY PushStep
<1> QED
  BY FileInvariant, <1>1, <1>2, <1>3, PTL DEF Spec
==============================================================================
