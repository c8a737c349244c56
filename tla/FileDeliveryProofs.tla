-------------------------- MODULE FileDeliveryProofs --------------------------
(***************************************************************************)
(* FileTransfer implements two abstract specifications, for any nodes,     *)
(* files, chunks, batch size and number of jobs: the store of every node   *)
(* is a ChunkStore, and the files follow FileDelivery.                     *)
(*                                                                         *)
(* Both need to know where a manifest can be at all, and that a job goes   *)
(* on only where its file's manifest is and after its file's event.        *)
(***************************************************************************)
EXTENDS FileTransferProofs

USE FileAssumption, ChunkAssumption, FaultAssumption, NothingAssumption

\* What a job's phase says of its file; h: the files whose event has arrived, m: the
\* marks of each node, s: its manifests.
JobFollows(j, h, m, s) ==
  /\ j.op = "file" => /\ j.at = PeerOf[j.file] /\ j.file \in h
                      /\ j.phase \in {"save", "count", "update"}
  /\ j.phase = "save" => j.op \in {"send", "file"}
  /\ j.op = "send" /\ (j.phase \in {"push", "pushing", "pushed"} \/ j.at # j.node) => j.file \in h
  /\ j.phase \in {"count", "update"} => j.file \in s[j.at]
  /\ j.phase = "update" /\ j.whole => ChunksIn(j.file) \subseteq m[j.at][j.file]
  /\ j.op = "resume" => j.at = j.node /\ j.files \subseteq s[j.at]
  /\ j.phase \in {"look", "asking", "answer", "fetch"} => j.file \in s[j.at]

\* A manifest is at its file's author, with every chunk marked, or at the peer that the
\* event has reached: a resume never makes one, it only asks for those that are there.
SavedWhere ==
  \A n \in Node : \A f \in saved[n] :
    \/ n = AuthorOf[f] /\ ChunksIn(f) \subseteq present[n][f]
    \/ n = PeerOf[f] /\ f \in arrived

TransferInv ==
  /\ FileInv /\ PushInv /\ SavedWhere
  /\ \A t \in Task : JobFollows(job[t], arrived, present, saved)

\* Everything that the jobs rely on grows.
Onward ==
  /\ Grows /\ MarksGrow /\ arrived \subseteq arrived'
  /\ FileInv' /\ PushInv'

LEMMA GoesOn == FileInv /\ PushInv /\ [Next]_vars => Onward
<1> SUFFICES ASSUME FileInv, PushInv, [Next]_vars PROVE Onward
  OBVIOUS
<1>1. FileInv' /\ PushInv' /\ Grows /\ MarksGrow
  BY AllJobs, TypeStep, AnnouncedStep, PushStep, MarksMonotone DEF FileInv
<1>2. arrived \subseteq arrived'
  BY DEF Next, JobStep, StoreStep, SendStep, ResumeStep, Place, Mark, Save, Count, Update,
         SendStart, Arrive, Announce, Offered, Push, SendDone, AcceptPush, RefusePush, Pushed,
         ResumeStart, ResumeNext, ResumeLook, Serve, Fetch, Lost, Abandoned, StoreFails,
         Restart, vars, eventVars
<1> QED
  BY <1>1, <1>2 DEF Onward

LEMMA NoJobFollows == \A h, m, s : JobFollows(NoJob, h, m, s)
BY DEF JobFollows, NoJob

\* What a job knows stays true while events, marks and manifests only grow.
LEMMA StillFollows ==
  ASSUME FileInv, Onward, NEW j \in Jobs \cup {NoJob}, JobShape(j),
         JobFollows(j, arrived, present, saved)
  PROVE  JobFollows(j, arrived', present', saved')
<1>1. CASE j = NoJob
  BY <1>1, NoJobFollows
<1>2. CASE j # NoJob
  <2>1. j.at \in Node /\ (j.phase = "update" => j.file \in File)
    BY <1>2 DEF Jobs, JobShape
  <2>2. saved[j.at] \subseteq saved'[j.at]
    BY <2>1 DEF Onward, Grows
  <2>3. j.phase = "update" => present[j.at][j.file] \subseteq present'[j.at][j.file]
    BY <2>1 DEF Onward, MarksGrow
  <2>4. arrived \subseteq arrived'
    BY DEF Onward
  <2> QED
    BY <2>2, <2>3, <2>4 DEF JobFollows
<1> QED
  BY <1>1, <1>2

\* A step that writes one slot keeps what is known of the other jobs.
LEMMA OneFollows ==
  ASSUME TransferInv, Onward, NEW t \in Task, NEW r, job' = [job EXCEPT ![t] = r],
         JobFollows(r, arrived', present', saved')
  PROVE  \A u \in Task : JobFollows(job'[u], arrived', present', saved')
<1> SUFFICES ASSUME NEW u \in Task PROVE JobFollows(job'[u], arrived', present', saved')
  OBVIOUS
<1>1. CASE u = t
  <2>1. job'[u] = r
    BY <1>1 DEF TransferInv, FileInv, JobInv
  <2> QED
    BY <2>1
<1>2. CASE u # t
  <2>1. job'[u] = job[u]
    BY <1>2 DEF TransferInv, FileInv, JobInv
  <2>2. /\ FileInv /\ job[u] \in Jobs \cup {NoJob} /\ JobShape(job[u])
        /\ JobFollows(job[u], arrived, present, saved)
    BY DEF TransferInv, FileInv, JobInv
  <2> QED
    BY <2>1, <2>2, StillFollows
<1> QED
  BY <1>1, <1>2

LEMMA EndFollows ==
  ASSUME TransferInv, Onward, NEW t \in Task, End(t)
  PROVE  \A u \in Task : JobFollows(job'[u], arrived', present', saved')
BY OneFollows, NoJobFollows DEF End

\* What a step that moves a job on leaves alone.
SameJob(r, j) ==
  r.op = j.op /\ r.node = j.node /\ r.file = j.file /\ r.files = j.files

\* The steps of the store.
LEMMA StoreFollows ==
  ASSUME TransferInv, Onward, NEW t \in Task, StoreStep(t)
  PROVE  \A u \in Task : JobFollows(job'[u], arrived', present', saved')
<1> DEFINE j == job[t]
           r == job'[t]
<1> SUFFICES \/ End(t)
             \/ job' = [job EXCEPT ![t] = r] /\ JobFollows(r, arrived', present', saved')
  BY OneFollows, EndFollows
<1>0. /\ j \in Jobs /\ JobShape(j) /\ j.phase \notin {"idle", "next"}
      /\ JobFollows(j, arrived, present, saved) /\ JobPushed(j, present, blobs, saved)
      /\ j.file \in File /\ j.at \in Node
  <2>1. j.phase \notin {"idle", "next"}
    BY DEF StoreStep, Place, Mark, Save, Count, Update, TransferInv, FileInv, JobInv, JobShape,
           Storing
  <2>2. j \in Jobs /\ JobShape(j)
    BY <2>1, BusyJob DEF TransferInv
  <2> QED
    BY <2>1, <2>2 DEF TransferInv, PushInv, JobShape, Jobs
<1>1. job \in [Task -> Jobs \cup {NoJob}]
  BY DEF TransferInv, FileInv, JobInv
<1>2. JobFollows(j, arrived', present', saved')
  BY <1>0, StillFollows DEF TransferInv
<1>3. saved[j.at] \subseteq saved'[j.at]
  BY <1>0 DEF Onward, Grows
<1> HIDE DEF j
<1>4. CASE Place(t)
  <2>1. PICK i \in j.batch : job' = [job EXCEPT ![t].marking = ChunksOf[j.file][i],
                                                ![t].batch = @ \ {i}]
    BY <1>4 DEF Place, j
  <2>2. r = [j EXCEPT !.marking = ChunksOf[j.file][i], !.batch = @ \ {i}]
    BY <1>1, <2>1 DEF j
  <2>3. SameJob(r, j) /\ r.at = j.at /\ r.phase = j.phase /\ r.whole = j.whole
    BY <1>0, <2>2 DEF Jobs, SameJob
  <2>4. JobFollows(r, arrived', present', saved')
    BY <1>2, <2>3 DEF JobFollows, SameJob
  <2> QED
    BY <1>1, <2>1, <2>4
<1>5. CASE Mark(t)
  <2>1. /\ j.marking # None
        /\ job' = [job EXCEPT ![t].marking = None,
                     ![t].phase = IF j.batch = {} THEN AfterStoring(j.phase) ELSE j.phase]
    BY <1>5 DEF Mark, j
  <2>2. j.phase \in Storing
    BY <1>0, <2>1 DEF JobShape
  <2>3. r = [j EXCEPT !.marking = None,
                      !.phase = IF j.batch = {} THEN AfterStoring(j.phase) ELSE j.phase]
    BY <1>1, <2>1 DEF j
  <2>4. /\ SameJob(r, j) /\ r.at = j.at /\ r.whole = j.whole
        /\ r.phase \in {j.phase, AfterStoring(j.phase)}
    BY <1>0, <2>3 DEF Jobs, SameJob
  <2>5. JobFollows(r, arrived', present', saved')
    <3>1. CASE j.phase = "ingest"
      <4>1. j.op = "send" /\ j.at = j.node
        BY <1>0, <3>1 DEF JobShape
      <4>2. r.phase \in {"ingest", "save"}
        BY <2>4, <3>1 DEF AfterStoring
      <4> QED
        BY <1>2, <2>4, <4>1, <4>2 DEF JobFollows, SameJob
    <3>2. CASE j.phase = "accept"
      <4>1. j.op = "send" /\ j.file \in saved'[j.at]
        BY <1>0, <1>3, <3>2 DEF JobShape, JobPushed
      <4>2. r.phase \in {"accept", "count"}
        BY <2>4, <3>2 DEF AfterStoring
      <4> QED
        BY <1>2, <2>4, <4>1, <4>2 DEF JobFollows, SameJob
    <3>3. CASE j.phase = "fetch"
      <4>1. j.op = "resume"
        BY <1>0, <3>3 DEF JobShape
      <4>2. r.phase \in {"fetch", "look"}
        BY <2>4, <3>3 DEF AfterStoring
      <4> QED
        BY <1>2, <2>4, <3>3, <4>1, <4>2 DEF JobFollows, SameJob
    <3> QED
      BY <2>2, <3>1, <3>2, <3>3 DEF Storing
  <2> QED
    BY <1>1, <2>1, <2>5
<1>6. CASE Save(t)
  <2>1. /\ j.phase = "save" /\ job' = [job EXCEPT ![t].phase = "count"]
        /\ saved' = [saved EXCEPT ![j.at] = @ \cup {j.file}]
    BY <1>6 DEF Save, Goto, j
  <2>2. r = [j EXCEPT !.phase = "count"]
    BY <1>1, <2>1 DEF j
  <2>3. SameJob(r, j) /\ r.at = j.at /\ r.phase = "count"
    BY <1>0, <2>2 DEF Jobs, SameJob
  <2>4. j.file \in saved'[j.at]
    BY <1>0, <2>1 DEF TransferInv, FileInv, FileTypeOK
  <2>5. JobFollows(r, arrived', present', saved')
    BY <1>2, <2>1, <2>3, <2>4 DEF JobFollows, SameJob
  <2> QED
    BY <1>1, <2>1, <2>5
<1>7. CASE Count(t)
  <2>1. /\ j.phase = "count" /\ UNCHANGED present
        /\ job' = [job EXCEPT ![t].phase = "update",
                     ![t].whole = ChunksIn(j.file) \subseteq present[j.at][j.file]]
    BY <1>7 DEF Count, storeVars, j
  <2>2. r = [j EXCEPT !.phase = "update",
                      !.whole = ChunksIn(j.file) \subseteq present[j.at][j.file]]
    BY <1>1, <2>1 DEF j
  <2>3. /\ SameJob(r, j) /\ r.at = j.at /\ r.phase = "update"
        /\ r.whole = (ChunksIn(j.file) \subseteq present[j.at][j.file])
    BY <1>0, <2>2 DEF Jobs, SameJob
  <2>4. JobFollows(r, arrived', present', saved')
    BY <1>2, <2>1, <2>3 DEF JobFollows, SameJob
  <2> QED
    BY <1>1, <2>1, <2>4
<1>8. CASE Update(t)
  <2>1. j.phase = "update"
    BY <1>8 DEF Update, j
  <2>2. ASSUME j.op = "resume" \/ (j.op = "send" /\ j.at = j.node)
        PROVE  job' = [job EXCEPT ![t] = r] /\ JobFollows(r, arrived', present', saved')
    <3>1. PICK phase \in {"next", "announce"} :
            /\ job' = [job EXCEPT ![t].phase = phase]
            /\ phase = "announce" => j.op = "send" /\ j.at = j.node
            /\ phase = "next" => j.op = "resume"
      BY <1>8, <2>2 DEF Update, Goto, j
    <3>2. r = [j EXCEPT !.phase = phase]
      BY <1>1, <3>1 DEF j
    <3>3. SameJob(r, j) /\ r.at = j.at /\ r.phase = phase
      BY <1>0, <3>2 DEF Jobs, SameJob
    <3>4. JobFollows(r, arrived', present', saved')
      BY <1>2, <2>1, <3>1, <3>3 DEF JobFollows, SameJob
    <3> QED
      BY <1>1, <3>1, <3>4
  <2>3. ASSUME j.op = "send", j.at # j.node, j.live
        PROVE  job' = [job EXCEPT ![t] = r] /\ JobFollows(r, arrived', present', saved')
    <3>1. job' = [job EXCEPT ![t].phase = "pushed", ![t].at = j.node]
      BY <1>8, <2>3 DEF Update, j
    <3>2. r = [j EXCEPT !.phase = "pushed", !.at = j.node]
      BY <1>1, <3>1 DEF j
    <3>3. SameJob(r, j) /\ r.at = j.node /\ r.phase = "pushed"
      BY <1>0, <3>2 DEF Jobs, SameJob
    <3>4. JobFollows(r, arrived', present', saved')
      BY <1>2, <2>3, <3>3 DEF JobFollows, SameJob
    <3> QED
      BY <1>1, <3>1, <3>4
  <2>4. ASSUME j.op # "resume", ~(j.op = "send" /\ j.at = j.node),
               ~(j.op = "send" /\ j.at # j.node /\ j.live)
        PROVE  End(t)
    BY <1>8, <2>4 DEF Update, j
  <2> QED
    BY <2>2, <2>3, <2>4
<1> QED
  BY <1>4, <1>5, <1>6, <1>7, <1>8 DEF StoreStep

\* The other steps of send_file, of its handler and of the event's arrival.
LEMMA SendFollows ==
  ASSUME TransferInv, Onward, NEW t \in Task, SendStep(t)
  PROVE  \A u \in Task : JobFollows(job'[u], arrived', present', saved')
<1> DEFINE j == job[t]
           r == job'[t]
<1> SUFFICES \/ End(t)
             \/ job' = [job EXCEPT ![t] = r] /\ JobFollows(r, arrived', present', saved')
  BY OneFollows, EndFollows
<1>1. job \in [Task -> Jobs \cup {NoJob}]
  BY DEF TransferInv, FileInv, JobInv
<1>2. j.phase # "idle" =>
        j \in Jobs /\ JobShape(j) /\ JobFollows(j, arrived', present', saved')
  BY BusyJob, StillFollows DEF TransferInv
<1> HIDE DEF j
<1>3. ASSUME NEW f \in File, SendStart(t, f)
      PROVE  job' = [job EXCEPT ![t] = r] /\ JobFollows(r, arrived', present', saved')
  <2>1. job' = [job EXCEPT ![t] = [NoJob EXCEPT !.op = "send", !.node = AuthorOf[f],
                  !.at = AuthorOf[f], !.file = f, !.live = TRUE,
                  !.phase = IF Rows(f) = {} THEN "save" ELSE "ingest",
                  !.rest = Rows(f), !.batch = Rows(f)]]
    BY <1>3 DEF SendStart, Begin
  <2>2. r.op = "send" /\ r.node = r.at /\ r.phase \in {"save", "ingest"}
    BY <1>1, <2>1 DEF NoJob
  <2>3. JobFollows(r, arrived', present', saved')
    BY <2>2 DEF JobFollows
  <2> QED
    BY <1>1, <2>1, <2>3
<1>4. ASSUME NEW f \in File, Arrive(t, f)
      PROVE  job' = [job EXCEPT ![t] = r] /\ JobFollows(r, arrived', present', saved')
  <2>1. /\ job' = [job EXCEPT ![t] = [NoJob EXCEPT !.op = "file", !.phase = "save",
                     !.node = PeerOf[f], !.at = PeerOf[f], !.file = f]]
        /\ f \in arrived'
    BY <1>4 DEF Arrive, Begin
  <2>2. r.op = "file" /\ r.phase = "save" /\ r.file = f /\ r.at = PeerOf[f]
    BY <1>1, <2>1 DEF NoJob
  <2>3. JobFollows(r, arrived', present', saved')
    BY <2>1, <2>2 DEF JobFollows
  <2> QED
    BY <1>1, <2>1, <2>3
<1>5. ASSUME NEW from \in {"announce", "offer", "pushed"}, NEW to \in {"offer", "push"},
             j.phase = from, job' = [job EXCEPT ![t].phase = to],
             to = "push" => j.file \in arrived'
      PROVE  job' = [job EXCEPT ![t] = r] /\ JobFollows(r, arrived', present', saved')
  <2>1. j \in Jobs /\ JobShape(j) /\ JobFollows(j, arrived', present', saved')
    BY <1>2, <1>5
  <2>2. r = [j EXCEPT !.phase = to]
    BY <1>1, <1>5 DEF j
  <2>3. SameJob(r, j) /\ r.at = j.at /\ r.phase = to
    BY <2>1, <2>2 DEF Jobs, SameJob
  <2>6. j.op = "send"
    BY <1>5, <2>1 DEF JobShape
  <2>4. JobFollows(r, arrived', present', saved')
    BY <1>5, <2>1, <2>3, <2>6 DEF JobFollows, SameJob
  <2> QED
    BY <1>1, <1>5, <2>4
<1>6. CASE Announce(t)
  BY <1>5, <1>6 DEF Announce, Goto, j
<1>7. CASE Offered(t)
  BY <1>5, <1>7 DEF Offered, Goto, j, eventVars
<1>8. CASE Pushed(t)
  <2>1. j.phase = "pushed" /\ job' = [job EXCEPT ![t].phase = "push"]
    BY <1>8 DEF Pushed, Goto, j
  <2>2. j.file \in arrived'
    BY <1>2, <2>1 DEF JobFollows, JobShape
  <2> QED
    BY <1>5, <2>1, <2>2
<1>9. CASE Push(t)
  <2>1. j.phase = "push"
    BY <1>9 DEF Push, j
  <2>2. j \in Jobs /\ JobShape(j) /\ JobFollows(j, arrived', present', saved')
    BY <1>2, <2>1
  <2>3. CASE ~End(t)
    <3>1. job' = [job EXCEPT ![t].phase = "pushing", ![t].batch = Take(j.rest),
                             ![t].rest = Drop(j.rest)]
      BY <1>9, <2>3 DEF Push, j
    <3>2. r = [j EXCEPT !.phase = "pushing", !.batch = Take(j.rest), !.rest = Drop(j.rest)]
      BY <1>1, <3>1 DEF j
    <3>3. SameJob(r, j) /\ r.at = j.at /\ r.phase = "pushing" /\ j.op = "send"
      BY <2>1, <2>2, <3>2 DEF Jobs, SameJob, JobShape
    <3>4. JobFollows(r, arrived', present', saved')
      BY <2>1, <2>2, <3>3 DEF JobFollows, SameJob
    <3> QED
      BY <1>1, <3>1, <3>4
  <2> QED
    BY <2>3
<1>10. CASE AcceptPush(t)
  <2>1. j.phase = "pushing"
        /\ job' = [job EXCEPT ![t].phase = "accept", ![t].at = PeerOf[j.file]]
    BY <1>10 DEF AcceptPush, j
  <2>2. j \in Jobs /\ JobShape(j) /\ JobFollows(j, arrived', present', saved')
    BY <1>2, <2>1
  <2>3. r = [j EXCEPT !.phase = "accept", !.at = PeerOf[j.file]]
    BY <1>1, <2>1 DEF j
  <2>4. SameJob(r, j) /\ r.at = PeerOf[j.file] /\ r.phase = "accept"
    BY <2>2, <2>3 DEF Jobs, SameJob
  <2>6. j.op = "send"
    BY <2>1, <2>2 DEF JobShape
  <2>5. JobFollows(r, arrived', present', saved')
    BY <2>1, <2>2, <2>4, <2>6 DEF JobFollows, SameJob
  <2> QED
    BY <1>1, <2>1, <2>5
<1>11. CASE SendDone(t) \/ RefusePush(t)
  BY <1>11 DEF SendDone, RefusePush
<1> QED
  BY <1>3, <1>4, <1>6, <1>7, <1>8, <1>9, <1>10, <1>11 DEF SendStep

\* A resume works through the manifests that it has found at its node.
LEMMA ResumeFollows ==
  ASSUME TransferInv, Onward, NEW t \in Task, ResumeStep(t)
  PROVE  \A u \in Task : JobFollows(job'[u], arrived', present', saved')
<1> DEFINE j == job[t]
           r == job'[t]
<1> SUFFICES \/ End(t)
             \/ job' = [job EXCEPT ![t] = r] /\ JobFollows(r, arrived', present', saved')
  BY OneFollows, EndFollows
<1>1. job \in [Task -> Jobs \cup {NoJob}] /\ saved' = saved
  BY DEF TransferInv, FileInv, JobInv, ResumeStep, ResumeStart, ResumeNext, ResumeLook, Serve,
         Fetch, storeVars
<1>2. j.phase # "idle" =>
        j \in Jobs /\ JobShape(j) /\ JobFollows(j, arrived', present', saved')
  BY BusyJob, StillFollows DEF TransferInv
<1> HIDE DEF j
<1>3. ASSUME NEW n \in Node, NEW p \in Node, ResumeStart(t, n, p)
      PROVE  job' = [job EXCEPT ![t] = r] /\ JobFollows(r, arrived', present', saved')
  <2>1. job' = [job EXCEPT ![t] = [NoJob EXCEPT !.op = "resume", !.phase = "next", !.node = n,
                  !.at = n, !.files = Incomplete(n, p), !.live = TRUE]]
    BY <1>3 DEF ResumeStart, Begin
  <2>2. r.op = "resume" /\ r.phase = "next" /\ r.at = n /\ r.node = n /\ r.files = Incomplete(n, p)
    BY <1>1, <2>1 DEF NoJob
  <2>3. JobFollows(r, arrived', present', saved')
    BY <1>1, <2>2 DEF JobFollows, Incomplete
  <2> QED
    BY <1>1, <2>1, <2>3
<1>4. CASE ResumeNext(t)
  <2>1. j.phase = "next"
    BY <1>4 DEF ResumeNext, j
  <2>2. j \in Jobs /\ JobShape(j) /\ JobFollows(j, arrived', present', saved')
    BY <1>2, <2>1
  <2>3. CASE ~End(t)
    <3>1. PICK f \in j.files : job' = [job EXCEPT ![t].phase = "look", ![t].file = f,
                                                 ![t].files = @ \ {f}]
      BY <1>4, <2>3 DEF ResumeNext, j
    <3>2. r = [j EXCEPT !.phase = "look", !.file = f, !.files = @ \ {f}]
      BY <1>1, <3>1 DEF j
    <3>3. /\ r.op = j.op /\ r.node = j.node /\ r.at = j.at /\ r.phase = "look" /\ r.file = f
          /\ r.files \subseteq j.files /\ j.op = "resume"
      BY <2>1, <2>2, <3>2 DEF Jobs, JobShape
    <3>4. JobFollows(r, arrived', present', saved')
      BY <2>2, <3>1, <3>3 DEF JobFollows
    <3> QED
      BY <1>1, <3>1, <3>4
  <2> QED
    BY <2>3
<1>5. ASSUME NEW to \in {"count", "asking", "answer", "fetch"},
             j.phase \in {"look", "asking", "answer"},
             r = [j EXCEPT !.phase = to] \/ r = [j EXCEPT !.phase = to, !.batch = r.batch]
      PROVE  JobFollows(r, arrived', present', saved')
  <2>1. j \in Jobs /\ JobShape(j) /\ JobFollows(j, arrived', present', saved')
    BY <1>2, <1>5
  <2>2. SameJob(r, j) /\ r.at = j.at /\ r.phase = to
    BY <1>5, <2>1 DEF Jobs, SameJob
  <2>3. j.op = "resume"
    BY <1>5, <2>1 DEF JobShape
  <2> QED
    BY <1>5, <2>1, <2>2, <2>3 DEF JobFollows, SameJob
<1>6. CASE ResumeLook(t)
  <2>1. PICK rows : rows = Take(Missing(j.node, j.file))
    OBVIOUS
  <2>2. j.phase = "look" /\ (\/ job' = [job EXCEPT ![t].phase = "count"]
                             \/ job' = [job EXCEPT ![t].phase = "asking", ![t].batch = rows])
    BY <1>6, <2>1 DEF ResumeLook, Goto, j
  <2>3. CASE job' = [job EXCEPT ![t].phase = "count"]
    <3>1. r = [j EXCEPT !.phase = "count"]
      BY <1>1, <2>3 DEF j
    <3> QED
      BY <1>1, <1>5, <2>2, <2>3, <3>1
  <2>4. CASE job' = [job EXCEPT ![t].phase = "asking", ![t].batch = rows]
    <3>1. r = [j EXCEPT !.phase = "asking", !.batch = rows] /\ j \in Jobs
      BY <1>1, <1>2, <2>2, <2>4 DEF j
    <3>2. r = [j EXCEPT !.phase = "asking", !.batch = r.batch]
      BY <3>1 DEF Jobs
    <3> QED
      BY <1>1, <1>5, <2>2, <2>4, <3>2
  <2> QED
    BY <2>2, <2>3, <2>4
<1>7. CASE Serve(t)
  <2>1. j.phase = "asking" /\ (End(t) \/ job' = [job EXCEPT ![t].phase = "answer"])
    BY <1>7 DEF Serve, Goto, j
  <2>2. ASSUME job' = [job EXCEPT ![t].phase = "answer"]
        PROVE  job' = [job EXCEPT ![t] = r] /\ r = [j EXCEPT !.phase = "answer"]
    BY <1>1, <2>2 DEF j
  <2> QED
    BY <1>5, <2>1, <2>2
<1>8. CASE Fetch(t)
  <2>1. j.phase = "answer" /\ job' = [job EXCEPT ![t].phase = "fetch"]
    BY <1>8 DEF Fetch, Goto, j
  <2>2. job' = [job EXCEPT ![t] = r] /\ r = [j EXCEPT !.phase = "fetch"]
    BY <1>1, <2>1 DEF j
  <2> QED
    BY <1>5, <2>1, <2>2
<1> QED
  BY <1>3, <1>4, <1>6, <1>7, <1>8 DEF ResumeStep

\* What a failure leaves of a job: nothing, or all of it but its client.
LEMMA FailingJob ==
  ASSUME FileInv, NEW u \in Task,
         \/ \E t \in Task : Lost(t) \/ Abandoned(t) \/ StoreFails(t)
         \/ \E n \in Node : Restart(n)
  PROVE  \/ job'[u] \in {NoJob, job[u]}
         \/ job[u] \in Jobs /\ job'[u] = [job[u] EXCEPT !.live = FALSE]
<1>1. ~NoJob.live /\ NoJob.node = None
  BY DEF NoJob
<1>2. ASSUME NEW t \in Task, Lost(t) \/ StoreFails(t) PROVE job'[u] \in {NoJob, job[u]}
  BY <1>2 DEF Lost, StoreFails, End, FileInv, JobInv
<1>3. ASSUME NEW t \in Task, Abandoned(t)
      PROVE  \/ job'[u] = job[u]
             \/ job[u] \in Jobs /\ job'[u] = [job[u] EXCEPT !.live = FALSE]
  <2>1. job[t] \in Jobs /\ job' = [job EXCEPT ![t].live = FALSE]
    BY <1>1, <1>3 DEF Abandoned, FileInv, JobInv
  <2>2. CASE u = t
    BY <2>1, <2>2 DEF FileInv, JobInv
  <2>3. CASE u # t
    BY <2>1, <2>3 DEF FileInv, JobInv
  <2> QED
    BY <2>2, <2>3
<1>4. ASSUME NEW n \in Node, Restart(n)
      PROVE  \/ job'[u] \in {NoJob, job[u]}
             \/ job[u] \in Jobs /\ job'[u] = [job[u] EXCEPT !.live = FALSE]
  <2>1. job[u].node = n => job[u] \in Jobs
    BY <1>1 DEF FileInv, JobInv
  <2> QED
    BY <1>4, <2>1 DEF Restart
<1> QED
  BY <1>2, <1>3, <1>4

LEMMA FailingFollows ==
  ASSUME TransferInv, Onward,
         \/ \E t \in Task : Lost(t) \/ Abandoned(t) \/ StoreFails(t)
         \/ \E n \in Node : Restart(n)
  PROVE  \A u \in Task : JobFollows(job'[u], arrived', present', saved')
<1> SUFFICES ASSUME NEW u \in Task PROVE JobFollows(job'[u], arrived', present', saved')
  OBVIOUS
<1>1. JobFollows(job[u], arrived', present', saved')
  BY StillFollows DEF TransferInv, FileInv, JobInv
<1>2. CASE job'[u] \in {NoJob, job[u]}
  BY <1>1, <1>2, NoJobFollows
<1>3. CASE job[u] \in Jobs /\ job'[u] = [job[u] EXCEPT !.live = FALSE]
  <2>1. /\ SameJob(job'[u], job[u]) /\ job'[u].at = job[u].at
        /\ job'[u].phase = job[u].phase /\ job'[u].whole = job[u].whole
    BY <1>3 DEF Jobs, SameJob
  <2> QED
    BY <1>1, <2>1 DEF JobFollows, SameJob
<1> QED
  BY <1>2, <1>3, FailingJob DEF TransferInv

-----------------------------------------------------------------------------
\* Only a save makes a manifest: at the author when every chunk is stored, or at the
\* peer of a file whose event has arrived.
LEMMA SavedWhereStep == TransferInv /\ Onward /\ [Next]_vars => SavedWhere'
<1> SUFFICES ASSUME TransferInv, Onward, [Next]_vars, NEW n \in Node, NEW f \in saved'[n]
             PROVE  \/ n = AuthorOf[f] /\ ChunksIn(f) \subseteq present'[n][f]
                    \/ n = PeerOf[f] /\ f \in arrived'
  BY DEF SavedWhere
<1>1. CASE f \in saved[n]
  <2>1. f \in File
    BY <1>1 DEF TransferInv, FileInv, FileTypeOK
  <2>2. present[n][f] \subseteq present'[n][f] /\ arrived \subseteq arrived'
    BY <2>1 DEF Onward, MarksGrow
  <2> QED
    BY <1>1, <2>2 DEF TransferInv, SavedWhere
<1>2. CASE f \notin saved[n]
  <2>1. PICK t \in Task : Save(t)
    BY <1>2 DEF Next, JobStep, StoreStep, SendStep, ResumeStep, Place, Mark, Count, Update,
         SendStart, Arrive, Announce, Offered, Push, SendDone, AcceptPush, RefusePush, Pushed,
         ResumeStart, ResumeNext, ResumeLook, Serve, Fetch, Lost, Abandoned, StoreFails,
         Restart, vars, storeVars
  <2> DEFINE j == job[t]
  <2>2. /\ j \in Jobs /\ JobShape(j) /\ JobStored(j, blobs, saved) /\ j.phase = "save"
        /\ JobFollows(j, arrived, present, saved)
    BY <2>1, BusyJob DEF Save, TransferInv
  <2>3. /\ saved' = [saved EXCEPT ![j.at] = @ \cup {j.file}]
        /\ present' = IF j.file \in saved[j.at] THEN present
                      ELSE [present EXCEPT ![j.at][j.file] = ChunksIn(j.file) \cap blobs[j.at]]
    BY <2>1 DEF Save
  <2> HIDE DEF j
  <2>4. n = j.at /\ f = j.file /\ f \in File
    BY <1>2, <2>2, <2>3 DEF TransferInv, FileInv, FileTypeOK, Jobs, JobShape
  <2>5. present'[n][f] = ChunksIn(f) \cap blobs[n]
    BY <1>2, <2>3, <2>4 DEF TransferInv, FileInv, FileTypeOK
  <2>6. CASE j.op = "send"
    <3>1. n = AuthorOf[f] /\ j.at = j.node
      BY <2>2, <2>4, <2>6 DEF JobShape
    <3>2. ChunksIn(f) \subseteq blobs[n]
      BY <2>2, <2>4, <2>6, <3>1 DEF JobStored
    <3> QED
      BY <2>5, <3>1, <3>2
  <2>7. CASE j.op = "file"
    BY <2>2, <2>4, <2>7 DEF JobFollows, Onward
  <2> QED
    BY <2>2, <2>6, <2>7 DEF JobFollows
<1> QED
  BY <1>1, <1>2

LEMMA TransferStep == TransferInv /\ [Next]_vars => TransferInv' /\ Onward
<1> SUFFICES ASSUME TransferInv, [Next]_vars PROVE TransferInv' /\ Onward
  OBVIOUS
<1>1. Onward
  BY GoesOn DEF TransferInv
<1>2. SavedWhere'
  BY <1>1, SavedWhereStep
<1>3. \A u \in Task : JobFollows(job'[u], arrived', present', saved')
  <2>1. CASE UNCHANGED vars
    BY <2>1 DEF vars, storeVars, eventVars, TransferInv
  <2> QED
    BY <1>1, <2>1, StoreFollows, SendFollows, ResumeFollows, FailingFollows DEF Next, JobStep
<1> QED
  BY <1>1, <1>2, <1>3 DEF TransferInv, Onward

LEMMA TransferInvariant == Spec => []TransferInv
<1>1. Init => TransferInv
  <2> SUFFICES ASSUME Init PROVE TransferInv
    OBVIOUS
  <2>1. FileInv
    BY InitialFiles
  <2>2. PushInv /\ SavedWhere
    BY NoJobPushed DEF Init, PushInv, SavedWhere
  <2>3. \A t \in Task : JobFollows(job[t], arrived, present, saved)
    BY NoJobFollows DEF Init
  <2> QED
    BY <2>1, <2>2, <2>3 DEF TransferInv
<1> QED
  BY <1>1, TransferStep, PTL DEF Spec

-----------------------------------------------------------------------------
(* The store of each node is a ChunkStore *)

\* The chunks that the jobs running at n are about to mark.
PlacedAt(n) == {job[t].marking : t \in {u \in Task : job[u].at = n}} \ {None}

\* A step that leaves all jobs but one alone, and that one at its node, changes at most
\* the chunk that this one is about to mark.
LEMMA PlacedByOne ==
  ASSUME NEW t \in Task, NEW n,
         \A u \in Task \ {t} : job'[u] = job[u], job'[t].at = job[t].at
  PROVE  /\ job[t].at # n => PlacedAt(n)' = PlacedAt(n)
         /\ job'[t].marking = job[t].marking => PlacedAt(n)' = PlacedAt(n)
         /\ \A c \in Chunk : job[t].at = n /\ job[t].marking = None /\ job'[t].marking = c =>
              PlacedAt(n)' = PlacedAt(n) \cup {c}
         /\ \A c \in Chunk : job[t].at = n /\ job[t].marking = c /\ job'[t].marking = None =>
              PlacedAt(n) \ {c} \subseteq PlacedAt(n)' /\ PlacedAt(n)' \subseteq PlacedAt(n)
<1> DEFINE Others == {job[u].marking : u \in {v \in Task \ {t} : job[v].at = n}} \ {None}
           Mine == (IF job[t].at = n THEN {job[t].marking} ELSE {}) \ {None}
<1>1. PlacedAt(n) = Others \cup Mine
  BY DEF PlacedAt
<1>2. PlacedAt(n)' = Others' \cup Mine'
  BY DEF PlacedAt
<1>3. Others' = Others
  OBVIOUS
<1>4. /\ job[t].at # n => Mine = {} /\ Mine' = {}
      /\ job'[t].marking = job[t].marking => Mine' = Mine
      /\ job[t].at = n /\ job[t].marking = None => Mine = {}
      /\ job[t].at = n /\ job'[t].marking = None => Mine' = {}
      /\ \A c \in Chunk : /\ job[t].at = n /\ job[t].marking = c => Mine = {c}
                          /\ job[t].at = n /\ job'[t].marking = c => Mine' = {c}
  OBVIOUS
<1> HIDE DEF Others, Mine
<1> QED
  BY <1>1, <1>2, <1>3, <1>4

\* A step of a job that marks nothing before and after it is not seen.
LEMMA PlacedUntouched ==
  ASSUME NEW t \in Task, job[t].marking = None, job'[t].marking = None,
         \A u \in Task \ {t} : job'[u] = job[u], NEW n \in Node
  PROVE  PlacedAt(n)' = PlacedAt(n)
BY DEF PlacedAt

\* Only the steps of put_blob have a chunk that is placed and not yet marked.
LEMMA QuietJobs ==
  ASSUME TransferInv, NEW t \in Task,
         Save(t) \/ Count(t) \/ Update(t) \/ SendStep(t) \/ ResumeStep(t) \/ Lost(t),
         NEW n \in Node
  PROVE  PlacedAt(n)' = PlacedAt(n)
<1> DEFINE j == job[t]
           r == job'[t]
<1>1. job \in [Task -> Jobs \cup {NoJob}] /\ NoJob.marking = None
  BY DEF TransferInv, FileInv, JobInv, NoJob
<1>2. \A u \in Task \ {t} : job'[u] = job[u]
  BY <1>1 DEF Save, Count, Update, SendStep, SendStart, Arrive, Announce, Offered, Push, SendDone,
     AcceptPush, RefusePush, Pushed, ResumeStep, ResumeStart, ResumeNext, ResumeLook, Serve, Fetch,
     Lost, Begin, Goto, End
<1>3. j \in Jobs \/ j = NoJob
  BY <1>1
<1>4. j.marking = None
  <2>1. JobShape(j)
    BY DEF TransferInv, FileInv, JobInv
  <2>2. j = NoJob \/ j.phase \notin Storing
    BY DEF Save, Count, Update, SendStep, SendStart, Arrive, Announce, Offered, Push, SendDone,
       AcceptPush, RefusePush, Pushed, ResumeStep, ResumeStart, ResumeNext, ResumeLook, Serve,
       Fetch, Lost, Begin, Storing
  <2> QED
    BY <1>1, <2>1, <2>2 DEF JobShape
<1>5. CASE End(t)
  BY <1>1, <1>2, <1>4, <1>5, PlacedUntouched DEF End
<1>6. CASE \E f \in File : SendStart(t, f) \/ Arrive(t, f)
  <2>1. ASSUME NEW f \in File, SendStart(t, f) PROVE r.marking = None
    BY <1>1, <2>1 DEF SendStart, Begin, NoJob
  <2>2. ASSUME NEW f \in File, Arrive(t, f) PROVE r.marking = None
    BY <1>1, <2>2 DEF Arrive, Begin, NoJob
  <2> QED
    BY <1>2, <1>4, <1>6, <2>1, <2>2, PlacedUntouched
<1>7. CASE \E p, q \in Node : ResumeStart(t, p, q)
  <2>1. r.marking = None
    BY <1>1, <1>7 DEF ResumeStart, Begin, NoJob
  <2> QED
    BY <1>2, <1>4, <2>1, PlacedUntouched
<1>8. ASSUME ~End(t), ~(\E f \in File : SendStart(t, f) \/ Arrive(t, f)),
             ~(\E p, q \in Node : ResumeStart(t, p, q))
      PROVE  r.marking = None
  <2>1. j \in Jobs
    <3>1. j.phase # "idle"
      BY <1>8 DEF Save, Count, Update, SendStep, Announce, Offered, Push, SendDone,
         AcceptPush, RefusePush, Pushed, ResumeStep, ResumeNext, ResumeLook, Serve,
         Fetch, Lost
    <3> QED
      BY <3>1, BusyJob DEF TransferInv
  <2>2. CASE Save(t) \/ Count(t) \/ Update(t)
    BY <1>1, <1>4, <1>8, <2>1, <2>2 DEF Save, Count, Update, Goto, Jobs
  <2>3. CASE SendStep(t)
    BY <1>1, <1>4, <1>8, <2>1, <2>3
       DEF SendStep, Announce, Offered, Push, SendDone, AcceptPush, RefusePush, Pushed, Goto, Jobs
  <2>4. CASE ResumeNext(t)
    <3>1. PICK f \in j.files : r = [j EXCEPT !.phase = "look", !.file = f, !.files = @ \ {f}]
      BY <1>1, <1>8, <2>4 DEF ResumeNext
    <3> QED
      BY <1>4, <2>1, <3>1 DEF Jobs
  <2>5. CASE ResumeLook(t)
    BY <1>1, <1>4, <2>1, <2>5 DEF ResumeLook, Goto, Jobs
  <2>6. CASE Serve(t) \/ Fetch(t)
    BY <1>1, <1>4, <1>8, <2>1, <2>6 DEF Serve, Fetch, Goto, Jobs
  <2>7. CASE Lost(t)
    BY <1>8, <2>7 DEF Lost
  <2> QED
    BY <1>8, <2>2, <2>3, <2>4, <2>5, <2>6, <2>7 DEF ResumeStep
<1> QED
  BY <1>2, <1>4, <1>5, <1>6, <1>7, <1>8, PlacedUntouched

\* A failure may only take chunks away that somebody was about to mark.
LEMMA FailingPlaced ==
  ASSUME TransferInv,
         \/ \E t \in Task : Lost(t) \/ Abandoned(t) \/ StoreFails(t)
         \/ \E n \in Node : Restart(n),
         NEW n \in Node
  PROVE  PlacedAt(n)' \subseteq PlacedAt(n)
<1> SUFFICES ASSUME NEW u \in Task, job'[u].at = n, job'[u].marking # None
             PROVE  job[u].at = n /\ job[u].marking = job'[u].marking
  BY DEF PlacedAt
<1>1. NoJob.marking = None
  BY DEF NoJob
<1>2. CASE job'[u] \in {NoJob, job[u]}
  BY <1>1, <1>2
<1>3. CASE job[u] \in Jobs /\ job'[u] = [job[u] EXCEPT !.live = FALSE]
  BY <1>3 DEF Jobs
<1> QED
  BY <1>2, <1>3, FailingJob DEF TransferInv

\* At each node a step of a job is one step of the abstract store, or none; of the jobs
\* of other nodes it sees nothing.
LEMMA NodeKeepsChunks ==
  ASSUME TransferInv, [Next]_vars, NEW n \in Node
  PROVE  [Store(n)!Next]_(Store(n)!vars)
<1> DEFINE Step == [Store(n)!Next]_(Store(n)!vars)
           Quiet == UNCHANGED <<blobs[n], saved[n], present[n], complete[n], faults>>
<1>0. FileInv /\ FileTypeOK /\ PushInv /\ job \in [Task -> Jobs \cup {NoJob}]
  BY DEF TransferInv, FileInv, JobInv
<1>1. ASSUME Quiet, PlacedAt(n)' = PlacedAt(n) PROVE Step
  BY <1>1 DEF Store!vars, PlacedAt
<1>2. ASSUME NEW t \in Task, Place(t) PROVE Step
  <2> DEFINE at == job[t].at
  <2>1. PICK i \in job[t].batch :
          /\ blobs' = [blobs EXCEPT ![at] = @ \cup {ChunksOf[job[t].file][i]}]
          /\ job' = [job EXCEPT ![t].marking = ChunksOf[job[t].file][i], ![t].batch = @ \ {i}]
    BY <1>2 DEF Place
  <2>2. job[t] \in Jobs /\ JobShape(job[t]) /\ job[t].phase \in Storing /\ job[t].marking = None
    BY <1>0, <1>2, BusyJob DEF Place, Storing
  <2>3. PICK c \in Chunk : c = ChunksOf[job[t].file][i]
    BY <2>1, <2>2 DEF JobShape, Storing, Rows
  <2>4. /\ UNCHANGED <<saved, present, complete, faults>>
        /\ \A u \in Task \ {t} : job'[u] = job[u]
        /\ job'[t].at = at /\ job'[t].marking = c
    BY <1>0, <1>2, <2>1, <2>2, <2>3 DEF Place, Jobs
  <2>5. CASE at = n
    <3>1. PlacedAt(n)' = PlacedAt(n) \cup {c}
      BY <2>2, <2>4, <2>5, PlacedByOne
    <3>2. blobs'[n] = blobs[n] \cup {c}
      BY <1>0, <2>1, <2>3, <2>5 DEF FileTypeOK
    <3>3. Store(n)!Place(c)
      BY <2>4, <3>1, <3>2 DEF Store!Place, PlacedAt
    <3> QED
      BY <3>3 DEF Store!Next
  <2>6. CASE at # n
    <3>1. PlacedAt(n)' = PlacedAt(n)
      BY <2>4, <2>6, PlacedByOne
    <3>2. blobs'[n] = blobs[n]
      BY <1>0, <2>1, <2>6 DEF FileTypeOK
    <3> QED
      BY <1>1, <2>4, <3>1, <3>2
  <2> QED
    BY <2>5, <2>6
<1>3. ASSUME NEW t \in Task, Mark(t) PROVE Step
  <2>1. job[t] \in Jobs /\ job[t].marking # None
    BY <1>0, <1>3 DEF Mark, NoJob
  <2>2. PICK c \in Chunk, at \in Node : c = job[t].marking /\ at = job[t].at
    BY <2>1 DEF Jobs
  <2>3. /\ present' = [present EXCEPT ![at] =
                         [f \in File |-> IF f \in saved[at] /\ c \in ChunksIn(f)
                                         THEN @[f] \cup {c} ELSE @[f]]]
        /\ UNCHANGED <<blobs, saved, complete, faults>>
    BY <1>3, <2>2 DEF Mark
  <2>4. /\ \A u \in Task \ {t} : job'[u] = job[u]
        /\ job'[t].at = at /\ job'[t].marking = None
    BY <1>0, <1>3, <2>1, <2>2 DEF Mark, Jobs
  <2>5. CASE at = n
    <3>1. c \in PlacedAt(n)
      BY <2>1, <2>2, <2>5 DEF PlacedAt
    <3>2. PlacedAt(n) \ {c} \subseteq PlacedAt(n)' /\ PlacedAt(n)' \subseteq PlacedAt(n)
      BY <2>2, <2>4, <2>5, PlacedByOne
    <3>3. present'[n] = [f \in File |-> IF f \in saved[n] /\ c \in ChunksIn(f)
                                        THEN present[n][f] \cup {c} ELSE present[n][f]]
      BY <1>0, <2>3, <2>5 DEF FileTypeOK
    <3>4. Store(n)!Mark(c)
      BY <2>3, <3>1, <3>2, <3>3 DEF Store!Mark, PlacedAt
    <3> QED
      BY <3>4 DEF Store!Next
  <2>6. CASE at # n
    <3>1. PlacedAt(n)' = PlacedAt(n)
      BY <2>2, <2>4, <2>6, PlacedByOne
    <3>2. present'[n] = present[n]
      BY <1>0, <2>3, <2>6 DEF FileTypeOK
    <3> QED
      BY <1>1, <2>3, <3>1, <3>2
  <2> QED
    BY <2>5, <2>6
<1>4. ASSUME NEW t \in Task, Save(t) PROVE Step
  <2>1. job[t] \in Jobs /\ JobShape(job[t]) /\ job[t].phase = "save"
    BY <1>0, <1>4, BusyJob DEF Save
  <2>2. PICK f \in File, at \in Node : f = job[t].file /\ at = job[t].at
    BY <2>1 DEF Jobs, JobShape
  <2>3. /\ saved' = [saved EXCEPT ![at] = @ \cup {f}]
        /\ present' = IF f \in saved[at] THEN present
                      ELSE [present EXCEPT ![at][f] = ChunksIn(f) \cap blobs[at]]
        /\ UNCHANGED <<blobs, complete, faults>>
    BY <1>4, <2>2 DEF Save
  <2>4. PlacedAt(n)' = PlacedAt(n)
    BY <1>4, QuietJobs
  <2>5. CASE at = n /\ f \notin saved[n]
    <3>1. saved'[n] = saved[n] \cup {f}
      BY <1>0, <2>3, <2>5 DEF FileTypeOK
    <3>2. present'[n] = [present[n] EXCEPT ![f] = ChunksIn(f) \cap blobs[n]]
      BY <1>0, <2>3, <2>5 DEF FileTypeOK
    <3>3. Store(n)!Save(f)
      BY <2>3, <2>4, <2>5, <3>1, <3>2 DEF Store!Save, PlacedAt
    <3> QED
      BY <3>3 DEF Store!Next
  <2>6. CASE ~(at = n /\ f \notin saved[n])
    <3>1. saved'[n] = saved[n] /\ present'[n] = present[n]
      BY <1>0, <2>3, <2>6 DEF FileTypeOK
    <3> QED
      BY <1>1, <2>3, <2>4, <3>1
  <2> QED
    BY <2>5, <2>6
<1>5. ASSUME NEW t \in Task, Update(t) PROVE Step
  <2>1. /\ job[t] \in Jobs /\ JobShape(job[t]) /\ job[t].phase = "update"
        /\ JobFollows(job[t], arrived, present, saved)
    BY <1>0, <1>5, BusyJob DEF Update, TransferInv
  <2>2. PICK f \in File, at \in Node : f = job[t].file /\ at = job[t].at
    BY <2>1 DEF Jobs, JobShape
  <2>3. /\ complete' = [complete EXCEPT ![at] = IF job[t].whole THEN @ \cup {f} ELSE @ \ {f}]
        /\ UNCHANGED <<blobs, saved, present, faults>>
    BY <1>5, <2>2 DEF Update
  <2>4. PlacedAt(n)' = PlacedAt(n)
    BY <1>5, QuietJobs
  <2>5. CASE at = n /\ job[t].whole
    <3>1. f \in saved[n] /\ ChunksIn(f) \subseteq present[n][f]
      BY <2>1, <2>2, <2>5 DEF JobFollows
    <3>2. complete'[n] = complete[n] \cup {f}
      BY <1>0, <2>3, <2>5 DEF FileTypeOK
    <3>3. Store(n)!Complete(f)
      BY <2>3, <2>4, <3>1, <3>2 DEF Store!Complete, PlacedAt
    <3> QED
      BY <3>3 DEF Store!Next
  <2>6. CASE at = n /\ ~job[t].whole
    <3>1. complete'[n] = complete[n] \ {f}
      BY <1>0, <2>3, <2>6 DEF FileTypeOK
    <3>2. Store(n)!Doubt(f)
      BY <2>3, <2>4, <3>1 DEF Store!Doubt, PlacedAt
    <3> QED
      BY <3>2 DEF Store!Next
  <2>7. CASE at # n
    <3>1. complete'[n] = complete[n]
      BY <1>0, <2>3, <2>7 DEF FileTypeOK
    <3> QED
      BY <1>1, <2>3, <2>4, <3>1
  <2> QED
    BY <2>5, <2>6, <2>7
<1>6. ASSUME NEW t \in Task, Count(t) \/ SendStep(t) \/ ResumeStep(t) \/ Lost(t) PROVE Step
  <2>1. Quiet
    BY <1>6 DEF Count, SendStep, SendStart, Arrive, Announce, Offered, Push, SendDone, AcceptPush,
       RefusePush, Pushed, ResumeStep, ResumeStart, ResumeNext, ResumeLook, Serve, Fetch, Lost,
       storeVars
  <2>2. PlacedAt(n)' = PlacedAt(n)
    BY <1>6, QuietJobs
  <2> QED
    BY <1>1, <2>1, <2>2
<1>7. ASSUME NEW t \in Task, Abandoned(t) PROVE Step
  <2>1. Quiet
    BY <1>7 DEF Abandoned, storeVars
  <2>2. job[t] \in Jobs
    BY <1>0, <1>7 DEF Abandoned, NoJob
  <2>3. /\ \A u \in Task \ {t} : job'[u] = job[u]
        /\ job'[t].at = job[t].at /\ job'[t].marking = job[t].marking
    BY <1>0, <1>7, <2>2 DEF Abandoned, Jobs
  <2>4. PlacedAt(n)' = PlacedAt(n)
    BY <2>3, PlacedByOne
  <2> QED
    BY <1>1, <2>1, <2>4
<1>8. ASSUME (\E t \in Task : StoreFails(t)) \/ (\E p \in Node : Restart(p)) PROVE Step
  <2>1. UNCHANGED <<blobs, saved, present, complete>> /\ faults' = faults + 1
    BY <1>8 DEF StoreFails, Restart, storeVars
  <2>2. PlacedAt(n)' \subseteq PlacedAt(n)
    BY <1>8, FailingPlaced
  <2>3. (faults > 0)'
    BY <1>0, <2>1 DEF FileTypeOK
  <2>4. Store(n)!Fail
    BY <2>1, <2>2, <2>3 DEF Store!Fail, PlacedAt
  <2> QED
    BY <2>4 DEF Store!Next
<1>9. CASE UNCHANGED vars
  BY <1>1, <1>9 DEF vars, storeVars, PlacedAt
<1> QED
  BY <1>2, <1>3, <1>4, <1>5, <1>6, <1>7, <1>8, <1>9 DEF Next, JobStep, StoreStep

\* Every node keeps chunks and marks as the store promises (module ChunkStore, which
\* BlobStore implements by system calls), though sends, handlers, arriving manifests and
\* resumes use it at once and write counts that are out of date.
THEOREM NodesKeepChunks == Spec => EveryNodeKeepsChunks
<1>1. Init => \A n \in Node : Store(n)!Init
  BY DEF Init, Store!Init, NoJob
<1>2. TransferInv /\ [Next]_vars => [\A n \in Node : [Store(n)!Next]_(Store(n)!vars)]_vars
  BY NodeKeepsChunks
<1> QED
  BY <1>1, <1>2, TransferInvariant, PTL DEF Spec, EveryNodeKeepsChunks

-----------------------------------------------------------------------------
(* Files follow FileDelivery *)

GatheredAt(n) == {f \in File : Gathered(n, f)}

\* Since marks follow chunks, a file is gathered where its manifest is and every row marked.
LEMMA GatheredIsMarked ==
  ASSUME TransferInv, NEW n \in Node, NEW f \in File
  PROVE  f \in GatheredAt(n) <=> f \in saved[n] /\ ChunksIn(f) \subseteq present[n][f]
<1>1. present[n][f] \subseteq blobs[n]
  BY DEF TransferInv, PushInv
<1>2. Missing(n, f) = {} <=> ChunksIn(f) \subseteq present[n][f]
  BY DEF Missing, ChunksIn, ChunksAt
<1> QED
  BY <1>1, <1>2 DEF GatheredAt, Gathered

\* A file is gathered at its author as soon as its manifest is there.
LEMMA AuthorHasIt ==
  ASSUME TransferInv, NEW f \in File, f \in saved[AuthorOf[f]]
  PROVE  f \in GatheredAt(AuthorOf[f])
<1>1. AuthorOf[f] \in Node /\ AuthorOf[f] # PeerOf[f]
  BY FileAssumption
<1>2. ChunksIn(f) \subseteq present[AuthorOf[f]][f]
  BY <1>1 DEF TransferInv, SavedWhere
<1> QED
  BY <1>1, <1>2, GatheredIsMarked

\* Whoever has a manifest may have the file: no other node ever gets one.
LEMMA SavedMayHave ==
  ASSUME TransferInv, NEW n \in Node, NEW f \in saved[n]
  PROVE  f \in File /\ Delivery!MayHave(n, f)
<1>1. f \in File
  BY DEF TransferInv, FileInv, FileTypeOK
<1>2. CASE n = AuthorOf[f]
  BY <1>1, <1>2 DEF Delivery!MayHave
<1>3. CASE n = PeerOf[f] /\ f \in arrived
  <2>1. f \in saved[AuthorOf[f]]
    BY <1>3 DEF TransferInv, FileInv, AnnouncedInv, CanServe
  <2>2. f \in GatheredAt(AuthorOf[f]) /\ AuthorOf[f] \in Node
    BY <1>1, <2>1, AuthorHasIt, FileAssumption
  <2> QED
    BY <1>1, <1>3, <2>2 DEF Delivery!MayHave, GatheredAt
<1> QED
  BY <1>1, <1>2, <1>3 DEF TransferInv, SavedWhere

\* What is gathered stays so.
LEMMA GatheredStays ==
  ASSUME TransferInv, [Next]_vars, NEW n \in Node
  PROVE  GatheredAt(n) \subseteq GatheredAt(n)'
<1> SUFFICES ASSUME NEW f \in File, f \in GatheredAt(n) PROVE f \in GatheredAt(n)'
  BY DEF GatheredAt
<1>1. Onward /\ TransferInv'
  BY TransferStep
<1>2. f \in saved[n] /\ ChunksIn(f) \subseteq present[n][f]
  BY GatheredIsMarked
<1>3. f \in saved'[n] /\ ChunksIn(f) \subseteq present'[n][f]
  BY <1>1, <1>2 DEF Onward, Grows, MarksGrow
<1>4. f \in GatheredAt(n)' <=> f \in saved'[n] /\ ChunksIn(f) \subseteq present'[n][f]
  <2>1. present'[n][f] \subseteq blobs'[n]
    BY <1>1 DEF Onward, PushInv
  <2>2. Missing(n, f)' = {} <=> ChunksIn(f) \subseteq present'[n][f]
    BY DEF Missing, ChunksIn, ChunksAt
  <2> QED
    BY <2>1, <2>2 DEF GatheredAt, Gathered
<1> QED
  BY <1>3, <1>4

\* With neither a new manifest nor a new mark, no other file is gathered.
LEMMA GatheredUntouched ==
  ASSUME TransferInv, [Next]_vars, NEW n \in Node, UNCHANGED <<saved[n], present[n]>>
  PROVE  GatheredAt(n)' = GatheredAt(n)
<1>1. TransferInv' /\ GatheredAt(n) \subseteq GatheredAt(n)'
  BY TransferStep, GatheredStays
<1>2. ASSUME NEW f \in File, f \in GatheredAt(n)' PROVE f \in GatheredAt(n)
  <2>1. f \in saved'[n] /\ ChunksIn(f) \subseteq present'[n][f]
    BY <1>2 DEF GatheredAt, Gathered, Missing, ChunksIn, ChunksAt
  <2> QED
    BY <2>1, GatheredIsMarked
<1> QED
  BY <1>1, <1>2 DEF GatheredAt

Gathering == [n \in Node |-> GatheredAt(n)]

\* A step at one node that stores nothing but chunks and manifests there gathers files.
LEMMA GathersFiles ==
  ASSUME TransferInv, [Next]_vars, NEW n \in Node,
         \A m \in Node \ {n} : UNCHANGED <<saved[m], present[m]>>,
         \A f \in File : f \in saved'[n] => Delivery!MayHave(n, f),
         UNCHANGED <<announced, arrived, sent>>
  PROVE  Delivery!Gather(n)
<1> DEFINE files == GatheredAt(n)'
<1>1. \A m \in Node \ {n} : GatheredAt(m)' = GatheredAt(m)
  BY GatheredUntouched
<1>2. GatheredAt(n) \subseteq GatheredAt(n)'
  BY GatheredStays
<1>3. files \subseteq {f \in File : Delivery!MayHave(n, f)}
  BY DEF GatheredAt, Gathered
<1>4. Gathering' = [Gathering EXCEPT ![n] = @ \cup files]
  BY <1>1, <1>2 DEF Gathering
<1> HIDE DEF files
<1> QED
  BY <1>3, <1>4 DEF Delivery!Gather, Gathering, GatheredAt

LEMMA DeliveryStep ==
  ASSUME TransferInv, [Next]_vars
  PROVE  [Delivery!Next]_<<Gathering, announced, arrived, sent>>
<1> DEFINE Step == [Delivery!Next]_<<Gathering, announced, arrived, sent>>
           Quiet == UNCHANGED <<saved, present>>
<1>0. FileInv /\ FileTypeOK /\ job \in [Task -> Jobs \cup {NoJob}]
  BY DEF TransferInv, FileInv, JobInv
<1>1. ASSUME Quiet PROVE Gathering' = Gathering
  BY <1>1, GatheredUntouched DEF Gathering
<1>2. ASSUME NEW t \in Task, Mark(t) PROVE Step
  <2>1. job[t] \in Jobs
    BY <1>0, <1>2 DEF Mark, NoJob
  <2>2. PICK n \in Node : n = job[t].at
    BY <2>1 DEF Jobs
  <2>3. /\ UNCHANGED <<saved, announced, arrived, sent>>
        /\ \A m \in Node \ {n} : UNCHANGED present[m]
    BY <1>0, <1>2, <2>2 DEF Mark, eventVars, FileTypeOK
  <2>4. \A f \in File : f \in saved'[n] => Delivery!MayHave(n, f)
    BY <2>3, SavedMayHave
  <2>5. Delivery!Gather(n)
    BY <2>3, <2>4, GathersFiles
  <2> QED
    BY <2>5 DEF Delivery!Next
<1>3. ASSUME NEW t \in Task, Save(t) PROVE Step
  <2>1. /\ job[t] \in Jobs /\ JobShape(job[t]) /\ job[t].phase = "save"
        /\ JobFollows(job[t], arrived, present, saved)
    BY <1>0, <1>3, BusyJob DEF Save, TransferInv
  <2>2. PICK n \in Node, f \in File : n = job[t].at /\ f = job[t].file
    BY <2>1 DEF Jobs, JobShape
  <2>3. /\ saved' = [saved EXCEPT ![n] = @ \cup {f}]
        /\ present' = IF f \in saved[n] THEN present
                      ELSE [present EXCEPT ![n][f] = ChunksIn(f) \cap blobs[n]]
        /\ UNCHANGED <<announced, arrived, sent>>
    BY <1>3, <2>2 DEF Save, eventVars
  <2>4. /\ saved'[n] = saved[n] \cup {f}
        /\ \A m \in Node \ {n} : UNCHANGED <<saved[m], present[m]>>
    BY <1>0, <2>3 DEF FileTypeOK
  <2>5. Delivery!MayHave(n, f)
    <3>1. CASE job[t].op = "send"
      <4>1. n = AuthorOf[f]
        BY <2>1, <2>2, <3>1 DEF JobShape
      <4> QED
        BY <4>1 DEF Delivery!MayHave
    <3>2. CASE job[t].op = "file"
      <4>1. n = PeerOf[f] /\ f \in arrived
        BY <2>1, <2>2, <3>2 DEF JobFollows
      <4>2. f \in saved[AuthorOf[f]]
        BY <4>1 DEF TransferInv, FileInv, AnnouncedInv, CanServe
      <4>3. f \in GatheredAt(AuthorOf[f]) /\ AuthorOf[f] \in Node
        BY <4>2, AuthorHasIt, FileAssumption
      <4> QED
        BY <4>1, <4>3 DEF Delivery!MayHave, GatheredAt
    <3> QED
      BY <2>1, <3>1, <3>2 DEF JobFollows
  <2>6. \A g \in File : g \in saved'[n] => Delivery!MayHave(n, g)
    BY <2>4, <2>5, SavedMayHave
  <2>7. Delivery!Gather(n)
    BY <2>3, <2>4, <2>6, GathersFiles
  <2> QED
    BY <2>7 DEF Delivery!Next
<1>4. ASSUME NEW t \in Task, Announce(t) PROVE Step
  <2>1. /\ JobShape(job[t]) /\ JobStored(job[t], blobs, saved) /\ job[t].phase = "announce"
    BY <1>0, <1>4, BusyJob DEF Announce
  <2>2. PICK f \in File : f = job[t].file
    BY <2>1 DEF JobShape
  <2>3. f \in saved[AuthorOf[f]]
    BY <2>1, <2>2 DEF JobShape, JobStored
  <2>4. f \in GatheredAt(AuthorOf[f]) /\ AuthorOf[f] \in Node
    BY <2>3, AuthorHasIt, FileAssumption
  <2>5. announced' = announced \cup {f} /\ UNCHANGED <<arrived, sent>> /\ Quiet
    BY <1>4, <2>2 DEF Announce, storeVars
  <2>6. Delivery!Announce(f)
    BY <1>1, <2>4, <2>5 DEF Delivery!Announce, Gathering, GatheredAt
  <2> QED
    BY <2>6 DEF Delivery!Next
<1>5. ASSUME NEW t \in Task, NEW f \in File, Arrive(t, f) PROVE Step
  <2>1. /\ f \in announced /\ arrived' = arrived \cup {f} /\ UNCHANGED <<announced, sent>>
        /\ Quiet
    BY <1>5 DEF Arrive, storeVars
  <2>2. Delivery!Hear(f)
    BY <1>1, <2>1 DEF Delivery!Hear, Gathering, GatheredAt
  <2> QED
    BY <2>2 DEF Delivery!Next
<1>6. ASSUME NEW t \in Task, SendDone(t) PROVE Step
  <2>1. /\ job[t] \in Jobs /\ JobShape(job[t]) /\ job[t].phase = "push"
        /\ JobFollows(job[t], arrived, present, saved)
    BY <1>0, <1>6, BusyJob DEF SendDone, TransferInv
  <2>2. PICK f \in File : f = job[t].file
    BY <2>1 DEF JobShape
  <2>3. sent' = sent \cup {f} /\ UNCHANGED <<announced, arrived, blobs>> /\ Quiet
    BY <1>6, <2>2 DEF SendDone, storeVars
  <2>4. f \in arrived
    BY <2>1, <2>2 DEF JobFollows, JobShape
  <2>5. ChunksOf[f] # <<>> => f \in GatheredAt(PeerOf[f])
    <3>1. SentMeansGathered'
      BY TransferStep, SentIsGathered, PTL DEF TransferInv
    <3>2. ChunksOf[f] # <<>> => Gathered(PeerOf[f], f)'
      BY <2>3, <3>1 DEF SentMeansGathered
    <3>3. Gathered(PeerOf[f], f)' = Gathered(PeerOf[f], f)
      BY <2>3 DEF Gathered, Missing
    <3> QED
      BY <3>2, <3>3 DEF GatheredAt
  <2>6. PeerOf[f] \in Node
    BY FileAssumption
  <2>7. Delivery!Confirm(f)
    BY <1>1, <2>3, <2>4, <2>5, <2>6 DEF Delivery!Confirm, Gathering, GatheredAt
  <2> QED
    BY <2>7 DEF Delivery!Next
<1>7. ASSUME Quiet, UNCHANGED <<announced, arrived, sent>> PROVE Step
  BY <1>1, <1>7
<1>8. CASE UNCHANGED vars
  BY <1>7, <1>8 DEF vars, storeVars, eventVars
<1> QED
  BY <1>2, <1>3, <1>4, <1>5, <1>6, <1>7, <1>8
     DEF Next, JobStep, StoreStep, SendStep, ResumeStep, Place, Count, Update,
         SendStart, Offered, Push, AcceptPush, RefusePush, Pushed, ResumeStart,
         ResumeNext, ResumeLook, Serve, Fetch, Lost, Abandoned, StoreFails, Restart, vars,
         storeVars, eventVars

\* Where the rows and chunk files of a file may be (module FileDelivery): all at its
\* author before its event is stored, all at its peer only afterwards and nowhere else,
\* none is taken back, and send_file reports success only when the peer has them all.
THEOREM FilesAreDelivered == Spec => DeliversFiles
<1>1. Init => Delivery!Init
  BY DEF Init, Delivery!Init, Gathered
<1>2. TransferInv /\ [Next]_vars => [Delivery!Next]_<<Gathering, announced, arrived, sent>>
  BY DeliveryStep
<1>3. Gathering = [n \in Node |-> {f \in File : Gathered(n, f)}]
  BY DEF Gathering, GatheredAt
<1> QED
  BY <1>1, <1>2, <1>3, TransferInvariant, PTL
     DEF Spec, DeliversFiles, Delivery!Spec, Gathering, GatheredAt
==============================================================================
