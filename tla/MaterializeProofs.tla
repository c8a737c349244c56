--------------------------- MODULE MaterializeProofs ---------------------------
(***************************************************************************)
(* For any chunks, manifests, callers and destinations: a destination      *)
(* whose temporary name one caller uses gets whole files only.             *)
(*                                                                         *)
(* SoleOK carries it: such a caller has the file under its temporary name  *)
(* open, that file holds what the caller has read so far, and is synced    *)
(* before it is placed.  OutOK says that no other caller's descriptor is   *)
(* on that file: a descriptor stays among the names that share one         *)
(* temporary name.                                                         *)
(***************************************************************************)
EXTENDS Materialize, BlobStoreProofs, SequenceTheorems

USE TempAssumption, ContentAssumption, AsksAssumption, JunkAssumption

Open == {"copy", "place"}

\* A call j of c: it was asked for, and it places what it has read to the end.
JobOK(c, j) ==
  j # NoJob =>
    /\ <<j.dest, j.doc>> \in Asks[c]
    /\ j.step = "create" => j.done = 0
    /\ j.step = "place" => j.sound /\ j.done = Len(ContentOf[j.doc])

\* Name p is the temporary name of d or a destination that has the same one.
SharesTemp(p, d) == IF p \in Dest THEN TempOf[p] = TempOf[d] ELSE p = TempOf[d]

\* The file that call j has open is under its temporary name, or another call has
\* renamed it to a destination that has the same one.
OutOK(j, o, f) == o # None => j.step \in Open /\ f[o] # None /\ SharesTemp(o, j.dest)

\* The first j.done chunks have been written to s.
Written(j, s) ==
  /\ s \in Seq(Hash \cup {Junk}) /\ Len(s) = j.done
  /\ j.sound => \A i \in 1..j.done : s[i] = ContentOf[j.doc][i]

OneUser(d) == \A c, e \in Users(d) : c = e

SoleOK(j, o, f, u) ==
  j.step \in Open /\ OneUser(j.dest) =>
    /\ o = TempOf[j.dest] /\ Written(j, f[TempOf[j.dest]])
    /\ j.step = "place" => TempOf[j.dest] \notin u

WholeOK(j) == j # NoJob => Whole(j.doc)

CallInv ==
  \A c \in Caller :
    /\ JobOK(c, job[c]) /\ WholeOK(job[c])
    /\ OutOK(job[c], out[c], file) /\ SoleOK(job[c], out[c], file, unsynced)

SoleSynced == SoleDest \cap unsynced = {}

PlaceInv == TypeInv /\ MaterializeTypeOK /\ CallInv /\ SoleSynced

-----------------------------------------------------------------------------
(* Types *)

\* A write in or behind a sequence gives a sequence, one longer at its end.
LEMMA OverwriteProperties ==
  ASSUME NEW s \in Seq(Hash \cup {Junk}), NEW i \in Nat \ {0}, NEW b \in Hash \cup {Junk}
  PROVE  /\ Overwrite(s, i, b) \in Seq(Hash \cup {Junk})
         /\ i = Len(s) + 1 =>
              /\ Len(Overwrite(s, i, b)) = i
              /\ Overwrite(s, i, b)[i] = b
              /\ \A k \in 1..Len(s) : Overwrite(s, i, b)[k] = s[k]
<1> DEFINE S == Hash \cup {Junk}
           n == IF Len(s) < i THEN i ELSE Len(s)
<1>1. Len(s) \in Nat /\ s \in [1..Len(s) -> S]
  BY LenProperties
<1>2. n \in Nat
  BY <1>1
<1>3. Overwrite(s, i, b) = [k \in 1..n |-> IF k = i THEN b ELSE IF k <= Len(s) THEN s[k] ELSE Junk]
  BY DEF Overwrite
<1>4. \A k \in 1..n : (IF k = i THEN b ELSE IF k <= Len(s) THEN s[k] ELSE Junk) \in S
  BY <1>1, <1>2
<1>5. Overwrite(s, i, b) \in [1..n -> S]
  BY <1>3, <1>4
<1>6. Overwrite(s, i, b) \in Seq(S)
  <2>1. \E k \in Nat : Overwrite(s, i, b) \in [1..k -> S]
    BY <1>5, <1>2
  <2>2. Seq(S) = UNION {[1..k -> S] : k \in Nat}
    BY SeqDef
  <2> QED
    BY <2>1, <2>2
<1>7. ASSUME i = Len(s) + 1 PROVE n = i
  BY <1>7, <1>1
<1>8. ASSUME i = Len(s) + 1 PROVE Len(Overwrite(s, i, b)) = i
  <2>1. Overwrite(s, i, b) \in [1..i -> S]
    BY <1>5, <1>7, <1>8
  <2>2. Overwrite(s, i, b) \in [1..Len(Overwrite(s, i, b)) -> S] /\ Len(Overwrite(s, i, b)) \in Nat
    BY <1>6, LenProperties
  <2> DEFINE k == Len(Overwrite(s, i, b))
  <2> HIDE DEF k
  <2>3. 1..i = 1..k /\ k \in Nat
    BY <2>1, <2>2 DEF k
  <2>4. i \in 1..k
    BY <2>3
  <2>5. k \in 1..i
    BY <2>3, <2>4
  <2>6. k = i
    BY <2>3, <2>4, <2>5
  <2> QED
    BY <2>6 DEF k
<1> HIDE DEF n
<1>9. ASSUME i = Len(s) + 1
      PROVE  /\ Overwrite(s, i, b)[i] = b
             /\ \A k \in 1..Len(s) : Overwrite(s, i, b)[k] = s[k]
  BY <1>1, <1>3, <1>7, <1>9
<1> QED
  BY <1>6, <1>8, <1>9

LEMMA WriteAtEnd ==
  ASSUME NEW s \in Seq(Hash \cup {Junk}), NEW b \in Hash \cup {Junk}, NEW i, i = Len(s) + 1
  PROVE  /\ Len(Overwrite(s, i, b)) = i
         /\ Overwrite(s, i, b)[i] = b
         /\ \A k \in 1..Len(s) : Overwrite(s, i, b)[k] = s[k]
<1>1. i \in Nat \ {0}
  BY LenProperties
<1> QED
  BY <1>1, OverwriteProperties

LEMMA InitPlaceInv == MaterializeInit => PlaceInv
<1> SUFFICES ASSUME MaterializeInit PROVE PlaceInv
  OBVIOUS
<1>1. TypeInv
  BY InitTypeInv DEF MaterializeInit
<1>2. job = [c \in Caller |-> NoJob] /\ out = [c \in Caller |-> None]
  BY DEF MaterializeInit
<1>3. MaterializeTypeOK
  BY <1>2 DEF MaterializeInit, MaterializeTypeOK, Path, NoJob, Bytes
<1>4. \A c \in Caller : job[c] = NoJob /\ out[c] = None
  BY <1>2
<1>5. NoJob.step \notin Open
  BY DEF NoJob, Open
<1>6. CallInv
  BY <1>4, <1>5 DEF CallInv, JobOK, OutOK, SoleOK, WholeOK
<1>7. SoleSynced
  BY DEF MaterializeInit, SoleSynced
<1> QED
  BY <1>1, <1>3, <1>6, <1>7 DEF PlaceInv

\* What a step may do to the store: no manifest that is whole stops being so.
LEMMA StoreKeeps ==
  ASSUME TypeInv, [MaterializeNext]_allVars
  PROVE  TypeInv' /\ \A m \in Manifest : Whole(m) => Whole(m)'
<1>1. ASSUME [Next]_vars PROVE TypeInv' /\ \A m \in Manifest : Whole(m) => Whole(m)'
  BY <1>1, NextTypeInv, MarksStay DEF Whole
<1>2. ASSUME UNCHANGED rowVars, TypeInv'
      PROVE TypeInv' /\ \A m \in Manifest : Whole(m) => Whole(m)'
  BY <1>2 DEF Whole, rowVars
<1>3. CASE PowerFails
  <2>1. TypeInv'
    BY <1>3, FaultsAssumption, NoneAssumption
       DEF PowerFails, OperationsEnd, TypeInv, TypeOK, TasksOK, rowVars, PutSteps, DocSteps
  <2> QED
    BY <1>3, <2>1, <1>2 DEF PowerFails
<1>4. ASSUME NEW c \in Caller, MaterializeFails(c)
      PROVE TypeInv' /\ \A m \in Manifest : Whole(m) => Whole(m)'
  <2>1. TypeInv'
    BY <1>4, FaultsAssumption, NoneAssumption
       DEF MaterializeFails, TypeInv, TypeOK, TasksOK, fileVars, rowVars, lockVars
  <2> QED
    BY <1>4, <2>1, <1>2 DEF MaterializeFails
<1>5. ASSUME NEW c \in Caller, CallStep(c), ~MaterializeFails(c) PROVE UNCHANGED vars
  BY <1>5 DEF CallStep, MaterializeBegin, CreateTemporary, CopyChunk, CopyFails, CheckHash, PlaceFile
<1> QED
  BY <1>1, <1>3, <1>4, <1>5 DEF MaterializeNext, StoreStep, ProcessDies, Next, allVars

\* Every step of a call keeps the types.
LEMMA CallTypes ==
  ASSUME MaterializeTypeOK, CallInv, [MaterializeNext]_allVars
  PROVE  MaterializeTypeOK'
<1> USE DEF MaterializeTypeOK
<1> DEFINE PathTypeOK == file \in [Path -> Bytes] /\ durable \in [Dest -> Bytes] /\ unsynced \subseteq Path
<1>0. Dest \subseteq Path
  BY DEF Path
<1>1. ASSUME NEW c \in Caller, NEW d \in Dest, NEW m \in Manifest, MaterializeBegin(c, d, m)
      PROVE  MaterializeTypeOK'
  <2> DEFINE r == [step |-> "create", dest |-> d, doc |-> m, done |-> 0, sound |-> TRUE]
  <2>1. job' = [job EXCEPT ![c] = r] /\ UNCHANGED <<out, pathVars, intact>> /\ job[c] = NoJob
    BY <1>1 DEF MaterializeBegin
  <2>2. r \in Job /\ r.done \in 0..Len(ContentOf[m]) /\ r.doc = m
    BY LenProperties DEF Job
  <2>3. out[c] = None
    <3>1. NoJob.step \notin {"copy", "place"}
      BY DEF NoJob
    <3> QED
      BY <2>1, <3>1
  <2>4. PathTypeOK'
    BY <2>1 DEF pathVars
  <2> HIDE DEF r
  <2> QED
    BY <2>1, <2>2, <2>3, <2>4
<1>2. ASSUME NEW c \in Caller, CreateTemporary(c) PROVE MaterializeTypeOK'
  <2> DEFINE t == TempOf[job[c].dest]
             r == [job[c] EXCEPT !.step = "copy"]
  <2>1. job[c] \in Job
    BY <1>2 DEF CreateTemporary, NoJob
  <2>2. t \in Path
    BY <2>1 DEF Job, Path
  <2>3. job' = [job EXCEPT ![c] = r] /\ out' = [out EXCEPT ![c] = t]
        /\ file' = [file EXCEPT ![t] = <<>>] /\ intact' = intact
        /\ durable' = durable /\ unsynced' = unsynced \cup {t}
    BY <1>2 DEF CreateTemporary
  <2>4. r \in Job /\ r.done = job[c].done /\ r.doc = job[c].doc /\ r.step = "copy"
    BY <2>1 DEF Job
  <2>5. r.done \in 0..Len(ContentOf[r.doc])
    BY <2>1, <2>4, <1>2 DEF CreateTemporary, NoJob
  <2>6. <<>> \in Bytes
    BY DEF Bytes
  <2> HIDE DEF t, r
  <2>7. PathTypeOK'
    BY <2>2, <2>3, <2>6
  <2> QED
    BY <2>2, <2>3, <2>4, <2>5, <2>7
<1>3. ASSUME NEW c \in Caller, CopyChunk(c) PROVE MaterializeTypeOK'
  <2> DEFINE i == job[c].done + 1
             m == job[c].doc
  <2>1. job[c] \in Job /\ job[c].step = "copy" /\ i \in Nat \ {0}
    BY <1>3 DEF CopyChunk, NoJob, Job
  <2>2. i \in 0..Len(ContentOf[m]) /\ m \in Manifest
    BY <1>3, <2>1, LenProperties DEF CopyChunk, Job
  <2>3. PICK b \in Read(ContentOf[m][i]) :
          /\ file' = IF out[c] = None THEN file ELSE [file EXCEPT ![out[c]] = Overwrite(@, i, b)]
          /\ job' = [job EXCEPT ![c] = Copied(@, b)]
    BY <1>3 DEF CopyChunk
  <2>4. b \in Hash \cup {Junk}
    <3>1. ContentOf[m][i] \in Hash
      BY <2>1, <2>2, LenProperties
    <3> QED
      BY <2>3, <3>1 DEF Read
  <2> DEFINE r == Copied(job[c], b)
  <2>5. r \in Job /\ r.done = i /\ r.doc = m /\ r.step = "copy"
    BY <2>1 DEF Job, Copied
  <2>6. file' \in [Path -> Bytes]
    <3>1. CASE out[c] = None
      BY <2>3, <3>1
    <3>2. CASE out[c] # None
      <4>1. file[out[c]] \in Seq(Hash \cup {Junk}) => Overwrite(file[out[c]], i, b) \in Seq(Hash \cup {Junk})
        BY <2>1, <2>4, OverwriteProperties
      <4>2. file[out[c]] \in Seq(Hash \cup {Junk})
        BY <3>2 DEF CallInv, OutOK, Bytes
      <4> QED
        BY <2>3, <3>2, <4>1, <4>2 DEF Bytes
    <3> QED
      BY <3>1, <3>2
  <2>7. UNCHANGED <<out, durable, intact>> /\ unsynced' \subseteq Path
    BY <1>3 DEF CopyChunk
  <2>8. job' = [job EXCEPT ![c] = r]
    BY <2>3
  <2> HIDE DEF r, i, m
  <2> QED
    BY <2>1, <2>2, <2>5, <2>6, <2>7, <2>8
<1>4. ASSUME NEW c \in Caller, Ends(c), PathTypeOK', intact' = intact PROVE MaterializeTypeOK'
  <2>1. job' = [job EXCEPT ![c] = NoJob] /\ out' = [out EXCEPT ![c] = None]
    BY <1>4 DEF Ends
  <2> QED
    BY <2>1, <1>4
<1>5. ASSUME NEW c \in Caller, CheckHash(c) PROVE MaterializeTypeOK'
  <2>0. PathTypeOK'
    BY <1>0, <1>5 DEF CheckHash, Reaches
  <2>1. CASE job[c].sound
    <3> DEFINE r == [job[c] EXCEPT !.step = "place"]
    <3>1. job[c] \in Job
      BY <1>5 DEF CheckHash, NoJob
    <3>2. job' = [job EXCEPT ![c] = r] /\ UNCHANGED <<out, intact>>
      BY <1>5, <2>1 DEF CheckHash
    <3>3. r \in Job /\ r.done = job[c].done /\ r.doc = job[c].doc /\ r.step = "place"
      BY <3>1 DEF Job
    <3>4. r.done \in 0..Len(ContentOf[r.doc])
      BY <3>1, <3>3, <1>5 DEF CheckHash, NoJob
    <3> HIDE DEF r
    <3> QED
      BY <2>0, <3>2, <3>3, <3>4
  <2>2. CASE ~job[c].sound
    BY <1>5, <2>0, <2>2, <1>4 DEF CheckHash
  <2> QED
    BY <2>1, <2>2
<1>6. ASSUME NEW c \in Caller, PlaceFile(c) PROVE MaterializeTypeOK'
  <2> DEFINE d == job[c].dest
             t == TempOf[d]
  <2>1. job[c] \in Job
    BY <1>6 DEF PlaceFile, NoJob
  <2>2. d \in Dest /\ {d, t} \subseteq Path
    BY <2>1 DEF Job, Path
  <2>3. job' = [job EXCEPT ![c] = NoJob] /\ intact' = intact
    BY <1>6 DEF PlaceFile
  <2>4. CASE file[t] = None \/ t = d
    <3>1. UNCHANGED pathVars /\ out' = [out EXCEPT ![c] = None]
      BY <1>6, <2>4 DEF PlaceFile
    <3> QED
      BY <2>3, <3>1 DEF pathVars
  <2>5. CASE file[t] # None /\ t # d
    <3>1. /\ file' = [file EXCEPT ![d] = file[t], ![t] = None]
          /\ Reaches(d, file[t])
          /\ unsynced' \subseteq unsynced \cup {d}
          /\ out' = [e \in Caller |->
                       IF e = c \/ out[e] = d THEN None ELSE IF out[e] = t THEN d ELSE out[e]]
      BY <1>6, <2>5 DEF PlaceFile
    <3> HIDE DEF d, t
    <3>2. PathTypeOK'
      <4>1. file' \in [Path -> Bytes]
        BY <3>1, <2>2 DEF Bytes
      <4>2. durable' \in [Dest -> Bytes]
        BY <3>1, <2>2 DEF Reaches
      <4> QED
        BY <2>2, <3>1, <4>1, <4>2
    <3>3. out' \in [Caller -> Path \cup {None}]
      BY <3>1, <2>2
    <3>4. \A e \in Caller : out'[e] # None => e # c /\ out[e] # None
      BY <3>1, <2>2
    <3>5. \A e \in Caller : out'[e] # None => job'[e].step \in {"copy", "place"}
      BY <2>3, <3>4
    <3> QED
      BY <2>3, <3>2, <3>3, <3>5
  <2> QED
    BY <2>4, <2>5
<1>7. ASSUME AllEnd, PathTypeOK', intact' \in BOOLEAN PROVE MaterializeTypeOK'
  <2>1. job' = [c \in Caller |-> NoJob] /\ out' = [c \in Caller |-> None]
    BY <1>7 DEF AllEnd
  <2> QED
    BY <2>1, <1>7
<1>8. ASSUME UNCHANGED <<job, out, pathVars, intact>> PROVE MaterializeTypeOK'
  BY <1>8 DEF pathVars
<1>9. UNCHANGED pathVars => PathTypeOK'
  BY DEF pathVars
<1>10. CASE PowerFails
  <2>1. <<Junk>> \in Bytes
    BY DEF Bytes
  <2>2. durable' \in [Dest -> Bytes]
    BY <1>10, <2>1 DEF PowerFails
  <2>3. file' \in [Path -> Bytes] /\ unsynced' = {}
    BY <1>10, <2>2 DEF PowerFails
  <2> QED
    BY <1>7, <1>10, <2>2, <2>3 DEF PowerFails
<1> HIDE DEF MaterializeTypeOK, PathTypeOK
<1> QED
  BY <1>1, <1>2, <1>3, <1>4, <1>5, <1>6, <1>7, <1>8, <1>9, <1>10
     DEF MaterializeNext, CallStep, CopyFails, MaterializeFails, StoreStep, callVars, allVars,
         ProcessDies, MaterializeTypeOK

-----------------------------------------------------------------------------
(* The calls *)

\* Two calls that share a temporary name with a destination that has one user are one.
LEMMA SoleUser ==
  ASSUME MaterializeTypeOK, CallInv, NEW c \in Caller, NEW e \in Caller,
         job[c] # NoJob, job[e] # NoJob, OneUser(job[c].dest),
         TempOf[job[e].dest] = TempOf[job[c].dest]
  PROVE  e = c
<1>1. job[c].dest \in Dest /\ job[e].dest \in Dest
  BY DEF MaterializeTypeOK, Job
<1>2. <<job[c].dest, job[c].doc>> \in Asks[c] /\ <<job[e].dest, job[e].doc>> \in Asks[e]
  BY DEF CallInv, JobOK
<1>3. c \in Users(job[c].dest) /\ e \in Users(job[c].dest)
  BY <1>1, <1>2 DEF Users
<1> QED
  BY <1>3 DEF OneUser

\* A temporary name is no destination that is written under another name.
LEMMA TempShares ==
  ASSUME NEW d \in Dest
  PROVE  TempOf[d] \in Path /\ SharesTemp(TempOf[d], d) /\ TempOf[d] \notin SoleDest
<1>1. TempOf[d] \in Path
  BY DEF Path
<1>2. TempOf[d] \in Dest => TempOf[TempOf[d]] = TempOf[d]
  OBVIOUS
<1> QED
  BY <1>1, <1>2 DEF SharesTemp, SoleDest

\* Nor has a call the file of such a destination open.
LEMMA OutNotSole ==
  ASSUME MaterializeTypeOK, CallInv, NEW c \in Caller
  PROVE  out[c] \notin SoleDest
<1> SUFFICES ASSUME out[c] \in SoleDest PROVE FALSE
  OBVIOUS
<1>1. out[c] \in Dest /\ out[c] # None /\ TempOf[out[c]] # out[c] /\ OneUser(out[c])
  BY DEF SoleDest, Path, OneUser
<1>2. job[c].step \in Open /\ TempOf[out[c]] = TempOf[job[c].dest]
  BY <1>1 DEF CallInv, OutOK, SharesTemp
<1>3. OneUser(job[c].dest)
  BY <1>1, <1>2 DEF OneUser, Users
<1>4. out[c] = TempOf[job[c].dest]
  BY <1>2, <1>3 DEF CallInv, SoleOK
<1> QED
  BY <1>1, <1>2, <1>4

\* One caller's job and descriptor have changed, and its temporary file perhaps.
OneMoves(c, t) ==
  /\ \A e \in Caller \ {c} : job'[e] = job[e] /\ out'[e] = out[e]
  /\ \A p \in Path \ {t} : file'[p] = file[p]
  /\ file[t] # None => file'[t] # None
  /\ unsynced' \subseteq unsynced \cup {t}

\* Then the other calls are as they were.
LEMMA OthersKeep ==
  ASSUME PlaceInv, NEW c \in Caller, job[c] # NoJob, NEW t \in Path,
         SharesTemp(t, job[c].dest), OneMoves(c, t),
         \A m \in Manifest : Whole(m) => Whole(m)', NEW e \in Caller \ {c}
  PROVE  /\ JobOK(e, job'[e]) /\ WholeOK(job[e])'
         /\ OutOK(job'[e], out'[e], file') /\ SoleOK(job'[e], out'[e], file', unsynced')
<1> USE DEF PlaceInv
<1>1. job'[e] = job[e] /\ out'[e] = out[e]
  BY DEF OneMoves
<1>2. JobOK(e, job'[e])
  BY <1>1 DEF CallInv
<1>3. WholeOK(job[e])'
  BY <1>1 DEF CallInv, WholeOK, MaterializeTypeOK, Job
<1>4. OutOK(job'[e], out'[e], file')
  BY <1>1 DEF CallInv, OutOK, OneMoves, MaterializeTypeOK
<1>5. SoleOK(job'[e], out'[e], file', unsynced')
  <2> SUFFICES ASSUME job[e].step \in Open, OneUser(job[e].dest)
               PROVE  /\ out[e] = TempOf[job[e].dest] /\ Written(job[e], file'[TempOf[job[e].dest]])
                      /\ job[e].step = "place" => TempOf[job[e].dest] \notin unsynced'
    BY <1>1 DEF SoleOK
  <2>1. /\ out[e] = TempOf[job[e].dest] /\ Written(job[e], file[TempOf[job[e].dest]])
        /\ job[e].step = "place" => TempOf[job[e].dest] \notin unsynced
    BY DEF CallInv, SoleOK
  <2>2. job[e] # NoJob
    BY DEF NoJob, Open
  <2>3. job[e].dest \in Dest /\ TempOf[job[e].dest] \in Path
    BY <2>2 DEF MaterializeTypeOK, Job, Path
  <2>4. TempOf[job[e].dest] # t
    <3>1. ASSUME TempOf[job[e].dest] = t PROVE FALSE
      <4>1. TempOf[job[c].dest] = TempOf[job[e].dest]
        BY <2>3, <3>1 DEF SharesTemp
      <4>2. c = e
        BY <4>1, <2>2, SoleUser
      <4> QED
        BY <4>2
    <3> QED
      BY <3>1
  <2>5. file'[TempOf[job[e].dest]] = file[TempOf[job[e].dest]]
    BY <2>3, <2>4 DEF OneMoves
  <2>6. TempOf[job[e].dest] \in unsynced' => TempOf[job[e].dest] \in unsynced
    BY <2>4 DEF OneMoves
  <2> QED
    BY <2>1, <2>5, <2>6
<1> QED
  BY <1>2, <1>3, <1>4, <1>5

\* The call invariant of one caller.
OneOK(c) ==
  /\ JobOK(c, job[c]) /\ WholeOK(job[c])
  /\ OutOK(job[c], out[c], file) /\ SoleOK(job[c], out[c], file, unsynced)

LEMMA NoJobOK ==
  ASSUME NEW c \in Caller, job'[c] = NoJob, out'[c] = None
  PROVE  OneOK(c)'
<1>1. NoJob.step \notin Open
  BY DEF NoJob, Open
<1> QED
  BY <1>1 DEF OneOK, JobOK, OutOK, SoleOK, WholeOK

LEMMA OneMovesKeeps ==
  ASSUME PlaceInv, NEW c \in Caller, job[c] # NoJob, NEW t \in Path,
         SharesTemp(t, job[c].dest), OneMoves(c, t),
         \A m \in Manifest : Whole(m) => Whole(m)', OneOK(c)'
  PROVE  CallInv'
<1>1. ASSUME NEW e \in Caller PROVE OneOK(e)'
  BY OthersKeep DEF OneOK
<1> QED
  BY <1>1 DEF OneOK, CallInv

LEMMA UntouchedKeep ==
  ASSUME PlaceInv, file' = file, unsynced' \subseteq unsynced,
         \A m \in Manifest : Whole(m) => Whole(m)', NEW c \in Caller, job'[c] = job[c], out'[c] = out[c]
  PROVE  OneOK(c)'
<1>1. OneOK(c)
  BY DEF OneOK, PlaceInv, CallInv
<1>2. JobOK(c, job'[c]) /\ WholeOK(job[c])' /\ OutOK(job'[c], out'[c], file')
  BY <1>1 DEF OneOK, WholeOK, PlaceInv, MaterializeTypeOK, Job
<1>3. SoleOK(job'[c], out'[c], file', unsynced')
  BY <1>1 DEF OneOK, SoleOK
<1> QED
  BY <1>2, <1>3 DEF OneOK

LEMMA CreateKeeps ==
  ASSUME PlaceInv, \A m \in Manifest : Whole(m) => Whole(m)', NEW c \in Caller, CreateTemporary(c)
  PROVE  CallInv'
<1> DEFINE t == TempOf[job[c].dest]
           r == [job[c] EXCEPT !.step = "copy"]
<1>1. job[c] \in Job /\ job[c] # NoJob
  BY DEF CreateTemporary, NoJob, PlaceInv, MaterializeTypeOK
<1>2. t \in Path /\ SharesTemp(t, job[c].dest) /\ t # None
  BY <1>1, TempShares DEF Job
<1>3. /\ job' = [job EXCEPT ![c] = r] /\ out' = [out EXCEPT ![c] = t] /\ file' = [file EXCEPT ![t] = <<>>]
      /\ unsynced' = unsynced \cup {t}
  BY DEF CreateTemporary
<1>4. r.step = "copy" /\ r.dest = job[c].dest /\ r.doc = job[c].doc /\ r.done = job[c].done
  BY <1>1 DEF Job
<1>5. job[c].done = 0
  BY <1>1 DEF CreateTemporary, PlaceInv, CallInv, JobOK
<1>6. <<>> \in Seq(Hash \cup {Junk}) /\ <<>> # None /\ Len(<<>>) = 0
  <2>1. <<>> \in Seq(Hash \cup {Junk}) /\ Len(<<>>) = 0
    OBVIOUS
  <2> QED
    BY <2>1
<1>7. job'[c] = r /\ out'[c] = t /\ file'[t] = <<>>
  BY <1>2, <1>3 DEF PlaceInv, MaterializeTypeOK
<1>8. OneMoves(c, t)
  BY <1>2, <1>3, <1>6 DEF OneMoves, PlaceInv, MaterializeTypeOK
<1>9. OneOK(c)'
  <2>1. JobOK(c, r)
    BY <1>1, <1>4, <1>5 DEF JobOK, PlaceInv, CallInv
  <2>2. WholeOK(job[c])'
    BY <1>1, <1>4, <1>7 DEF WholeOK, PlaceInv, CallInv, Job
  <2>3. OutOK(r, t, file')
    BY <1>2, <1>4, <1>6, <1>7 DEF OutOK, Open
  <2>4. SoleOK(r, t, file', unsynced')
    <3>1. Written(r, <<>>)
      BY <1>4, <1>5, <1>6 DEF Written
    <3>2. t = TempOf[r.dest]
      BY <1>4
    <3> QED
      BY <1>4, <1>7, <3>1, <3>2 DEF SoleOK
  <2> QED
    BY <2>1, <2>2, <2>3, <2>4, <1>7 DEF OneOK
<1> HIDE DEF t, r
<1> QED
  BY <1>1, <1>2, <1>8, <1>9, OneMovesKeeps DEF t

LEMMA CopyKeeps ==
  ASSUME PlaceInv, \A m \in Manifest : Whole(m) => Whole(m)', NEW c \in Caller, CopyChunk(c)
  PROVE  CallInv'
<1> USE DEF PlaceInv
<1> DEFINE i == job[c].done + 1
           m == job[c].doc
<1>1. job[c] \in Job /\ job[c] # NoJob /\ job[c].step = "copy" /\ i \in Nat \ {0} /\ job[c].done \in Nat
  BY DEF CopyChunk, NoJob, MaterializeTypeOK, Job
<1>2. i \in 1..Len(ContentOf[m]) /\ m \in Manifest
  BY <1>1, LenProperties DEF CopyChunk, Job
<1>3. PICK b \in Read(ContentOf[m][i]) :
        /\ file' = IF out[c] = None THEN file ELSE [file EXCEPT ![out[c]] = Overwrite(@, i, b)]
        /\ job' = [job EXCEPT ![c] = Copied(@, b)]
  BY DEF CopyChunk
<1>4. b \in Hash \cup {Junk}
  <2>1. ContentOf[m][i] \in Hash
    BY <1>2, LenProperties
  <2> QED
    BY <1>3, <2>1 DEF Read
<1> DEFINE r == Copied(job[c], b)
<1>5. /\ r.step = "copy" /\ r.dest = job[c].dest /\ r.doc = m /\ r.done = i
      /\ r.sound <=> job[c].sound /\ b = ContentOf[m][i]
  BY <1>1 DEF Job, Copied
<1>6. job'[c] = r /\ out' = out /\ job' = [job EXCEPT ![c] = r]
  BY <1>3 DEF MaterializeTypeOK, CopyChunk
<1> HIDE DEF r
<1>7. JobOK(c, r) /\ WholeOK(job[c])'
  BY <1>1, <1>2, <1>5, <1>6 DEF JobOK, WholeOK, CallInv
<1>8. CASE out[c] = None
  <2>1. OutOK(r, out[c], file')
    BY <1>8 DEF OutOK
  <2>2. ~OneUser(job[c].dest)
    <3>1. TempOf[job[c].dest] # None
      BY <1>1 DEF Job, Path
    <3> QED
      BY <1>1, <1>8, <3>1 DEF CallInv, SoleOK, Open
  <2>3. SoleOK(r, out[c], file', unsynced')
    BY <1>5, <2>2 DEF SoleOK
  <2>4. file' = file /\ unsynced' = unsynced
    BY <1>3, <1>8 DEF CopyChunk
  <2>5. OneOK(c)'
    BY <1>6, <1>7, <2>1, <2>3 DEF OneOK
  <2>6. ASSUME NEW e \in Caller PROVE OneOK(e)'
    BY <1>6, <2>4, <2>5, UntouchedKeep DEF MaterializeTypeOK
  <2> QED
    BY <2>6 DEF OneOK, CallInv
<1>9. CASE out[c] # None
  <2> DEFINE o == out[c]
  <2>1. o \in Path /\ OutOK(job[c], o, file) /\ SoleOK(job[c], o, file, unsynced)
    BY <1>9 DEF MaterializeTypeOK, CallInv
  <2>2. file[o] \in Seq(Hash \cup {Junk})
    BY <1>9, <2>1 DEF OutOK, MaterializeTypeOK, Bytes
  <2>3. file' = [file EXCEPT ![o] = Overwrite(file[o], i, b)]
    BY <1>3, <1>9
  <2>4. Overwrite(file[o], i, b) \in Seq(Hash \cup {Junk})
    BY <1>1, <1>4, <2>2, OverwriteProperties
  <2>5. file'[o] = Overwrite(file[o], i, b) /\ file'[o] # None /\ unsynced' = unsynced \cup {o}
    BY <1>9, <2>1, <2>3, <2>4 DEF MaterializeTypeOK, CopyChunk
  <2>6. OutOK(r, o, file')
    BY <1>5, <2>1, <2>5, <1>9 DEF OutOK, Open
  <2>7. SoleOK(r, o, file', unsynced')
    <3> SUFFICES ASSUME OneUser(job[c].dest)
                 PROVE  o = TempOf[job[c].dest] /\ Written(r, file'[o])
      BY <1>5, <2>1 DEF SoleOK
    <3>1. o = TempOf[job[c].dest] /\ Written(job[c], file[o])
      BY <1>1, <2>1 DEF SoleOK, Open
    <3>2. Len(file[o]) = job[c].done
      BY <3>1 DEF Written
    <3>3. /\ Len(file'[o]) = i /\ file'[o][i] = b
          /\ \A k \in 1..Len(file[o]) : file'[o][k] = file[o][k]
      <4>1. ASSUME NEW s \in Seq(Hash \cup {Junk}), NEW k, k = Len(s) + 1
            PROVE  /\ Len(Overwrite(s, k, b)) = k /\ Overwrite(s, k, b)[k] = b
                   /\ \A l \in 1..Len(s) : Overwrite(s, k, b)[l] = s[l]
        BY <4>1, <1>4, WriteAtEnd
      <4>2. i = Len(file[o]) + 1
        BY <1>1, <3>2
      <4>3. /\ Len(Overwrite(file[o], i, b)) = i /\ Overwrite(file[o], i, b)[i] = b
            /\ \A l \in 1..Len(file[o]) : Overwrite(file[o], i, b)[l] = file[o][l]
        BY <4>1, <4>2, <2>2
      <4> QED
        BY <4>3, <2>5
    <3>4. ASSUME r.sound, NEW k \in 1..i PROVE file'[o][k] = ContentOf[m][k]
      <4>1. CASE k = i
        BY <1>5, <3>3, <3>4, <4>1
      <4>2. CASE k # i
        <5>1. k \in 1..job[c].done
          BY <1>1, <4>2
        <5> QED
          BY <1>5, <3>1, <3>2, <3>3, <3>4, <5>1 DEF Written
      <4> QED
        BY <4>1, <4>2
    <3> QED
      BY <1>5, <2>4, <2>5, <3>1, <3>3, <3>4 DEF Written
  <2>8. OneMoves(c, o)
    BY <1>6, <2>3, <2>5 DEF OneMoves, MaterializeTypeOK
  <2>9. OneOK(c)'
    BY <1>6, <1>7, <2>6, <2>7 DEF OneOK
  <2>10. SharesTemp(o, job[c].dest)
    BY <1>9, <2>1 DEF OutOK
  <2> HIDE DEF o
  <2> QED
    BY <1>1, <2>1, <2>8, <2>9, <2>10, OneMovesKeeps
<1> QED
  BY <1>8, <1>9

\* A step that changes one caller's job and descriptor, and no file.
LEMMA NoWriteKeeps ==
  ASSUME PlaceInv, \A m \in Manifest : Whole(m) => Whole(m)', file' = file,
         unsynced' \subseteq unsynced, NEW c \in Caller, \A e \in Caller \ {c} : job'[e] = job[e] /\ out'[e] = out[e], OneOK(c)'
  PROVE  CallInv'
<1>1. ASSUME NEW e \in Caller PROVE OneOK(e)'
  BY UntouchedKeep
<1> QED
  BY <1>1 DEF OneOK, CallInv

LEMMA EndKeeps ==
  ASSUME PlaceInv, \A m \in Manifest : Whole(m) => Whole(m)', file' = file,
         unsynced' \subseteq unsynced, NEW c \in Caller, Ends(c)
  PROVE  CallInv'
<1>1. job'[c] = NoJob /\ out'[c] = None
  BY DEF Ends, PlaceInv, MaterializeTypeOK
<1>2. \A e \in Caller \ {c} : job'[e] = job[e] /\ out'[e] = out[e]
  BY DEF Ends, PlaceInv, MaterializeTypeOK
<1> QED
  BY <1>1, <1>2, NoJobOK, NoWriteKeeps

LEMMA BeginKeeps ==
  ASSUME PlaceInv, \A m \in Manifest : Whole(m) => Whole(m)',
         NEW c \in Caller, NEW d \in Dest, NEW m \in Manifest, MaterializeBegin(c, d, m)
  PROVE  CallInv'
<1> DEFINE r == [step |-> "create", dest |-> d, doc |-> m, done |-> 0, sound |-> TRUE]
<1>1. /\ job' = [job EXCEPT ![c] = r] /\ out' = out /\ UNCHANGED <<file, unsynced>>
      /\ job[c] = NoJob /\ <<d, m>> \in Asks[c] /\ Whole(m)
  BY DEF MaterializeBegin, pathVars
<1>2. job'[c] = r /\ \A e \in Caller \ {c} : job'[e] = job[e] /\ out'[e] = out[e]
  BY <1>1 DEF PlaceInv, MaterializeTypeOK
<1>3. out'[c] = None
  <2>1. NoJob.step \notin Open
    BY DEF NoJob, Open
  <2> QED
    BY <1>1, <2>1 DEF PlaceInv, MaterializeTypeOK, Open
<1>4. r.step \notin Open /\ r.step # "place" /\ r.dest = d /\ r.doc = m /\ r.done = 0
  BY DEF Open
<1>5. OneOK(c)'
  <2> HIDE DEF r
  <2>1. JobOK(c, r) /\ SoleOK(r, out'[c], file', unsynced')
    BY <1>1, <1>4 DEF JobOK, SoleOK
  <2>2. WholeOK(job[c])'
    BY <1>1, <1>2, <1>4 DEF WholeOK
  <2> QED
    BY <1>2, <1>3, <2>1, <2>2 DEF OneOK, OutOK
<1> QED
  BY <1>1, <1>2, <1>5, NoWriteKeeps

LEMMA CheckKeeps ==
  ASSUME PlaceInv, \A m \in Manifest : Whole(m) => Whole(m)', NEW c \in Caller, CheckHash(c)
  PROVE  CallInv'
<1>1. CASE ~job[c].sound
  <2>1. Ends(c) /\ file' = file /\ unsynced' \subseteq unsynced
    BY <1>1 DEF CheckHash
  <2> QED
    BY <2>1, EndKeeps
<1>2. CASE job[c].sound
  <2> DEFINE r == [job[c] EXCEPT !.step = "place"]
  <2>1. job' = [job EXCEPT ![c] = r] /\ out' = out /\ file' = file /\ job[c].step = "copy"
        /\ job[c].done = Len(ContentOf[job[c].doc]) /\ unsynced' = unsynced \ {out[c]}
    BY <1>2 DEF CheckHash
  <2>2. job[c] \in Job /\ job[c] # NoJob
    BY <2>1 DEF NoJob, PlaceInv, MaterializeTypeOK
  <2>3. job'[c] = r /\ \A e \in Caller \ {c} : job'[e] = job[e] /\ out'[e] = out[e]
    BY <2>1 DEF PlaceInv, MaterializeTypeOK
  <2>4. r.step = "place" /\ r.dest = job[c].dest /\ r.doc = job[c].doc /\ r.done = job[c].done
        /\ r.sound = job[c].sound
    BY <2>2 DEF Job
  <2>5. OneOK(c)
    BY DEF PlaceInv, CallInv, OneOK
  <2>6. OneOK(c)'
    <3> HIDE DEF r
    <3>1. JobOK(c, r)
      BY <1>2, <2>1, <2>2, <2>4, <2>5 DEF OneOK, JobOK
    <3>2. WholeOK(job[c])'
      BY <2>2, <2>3, <2>4, <2>5 DEF OneOK, WholeOK, Job
    <3>3. OutOK(r, out[c], file)
      BY <2>4, <2>5 DEF OneOK, OutOK, Open
    <3>4. SoleOK(r, out[c], file, unsynced')
      BY <2>1, <2>4, <2>5 DEF OneOK, SoleOK, Open, Written
    <3> QED
      BY <2>1, <2>3, <3>1, <3>2, <3>3, <3>4 DEF OneOK
  <2> QED
    BY <2>1, <2>3, <2>6, NoWriteKeeps
<1> QED
  BY <1>1, <1>2

LEMMA PlaceKeeps ==
  ASSUME PlaceInv, \A m \in Manifest : Whole(m) => Whole(m)', NEW c \in Caller, PlaceFile(c)
  PROVE  CallInv'
<1> USE DEF PlaceInv
<1> DEFINE d == job[c].dest
           t == TempOf[d]
<1>1. job[c] \in Job /\ job[c] # NoJob
  BY DEF PlaceFile, NoJob, MaterializeTypeOK
<1>2. d \in Dest /\ {d, t} \subseteq Path /\ d # None /\ t # None
  BY <1>1 DEF Job, Path
<1>3. job' = [job EXCEPT ![c] = NoJob]
  BY DEF PlaceFile
<1>4. job'[c] = NoJob /\ \A e \in Caller \ {c} : job'[e] = job[e]
  BY <1>3 DEF MaterializeTypeOK
<1>5. CASE file[t] = None \/ t = d
  <2>1. UNCHANGED <<file, unsynced>> /\ out' = [out EXCEPT ![c] = None]
    BY <1>5 DEF PlaceFile, pathVars
  <2>2. Ends(c)
    BY <1>3, <2>1 DEF Ends
  <2> QED
    BY <2>1, <2>2, EndKeeps
<1>6. CASE file[t] # None /\ t # d
  <2>1. /\ file' = [file EXCEPT ![d] = file[t], ![t] = None]
        /\ unsynced' \subseteq unsynced \cup {d}
        /\ out' = [e \in Caller |->
                     IF e = c \/ out[e] = d THEN None ELSE IF out[e] = t THEN d ELSE out[e]]
    BY <1>6 DEF PlaceFile
  <2>2. /\ file'[d] = file[t] /\ \A p \in Path \ {d, t} : file'[p] = file[p]
    BY <1>2, <1>6, <2>1 DEF MaterializeTypeOK
  <2>3. OneOK(c)'
    <3>1. out'[c] = None
      BY <2>1
    <3> QED
      BY <1>4, <3>1, NoJobOK
  <2>4. ASSUME NEW e \in Caller \ {c} PROVE OneOK(e)'
    <3>1. job'[e] = job[e] /\ OneOK(e)
      BY <1>4 DEF CallInv, OneOK
    <3>2. JobOK(e, job'[e]) /\ WholeOK(job[e])'
      BY <3>1 DEF OneOK, WholeOK, MaterializeTypeOK, Job
    <3>3. out'[e] = IF out[e] = d THEN None ELSE IF out[e] = t THEN d ELSE out[e]
      BY <2>1
    <3> HIDE DEF d, t
    <3>4. out[e] \in Path \cup {None}
      BY DEF MaterializeTypeOK
    <3>5. OutOK(job'[e], out'[e], file')
      <4>1. CASE out[e] = d \/ out[e] = None
        BY <1>2, <3>3, <4>1 DEF OutOK
      <4>2. CASE out[e] = t
        <5>1. out'[e] = d /\ OutOK(job[e], t, file)
          BY <1>2, <1>6, <3>1, <3>3, <4>2 DEF OneOK
        <5>2. t = TempOf[job[e].dest] /\ job[e].step \in Open
          <6>1. SharesTemp(t, job[e].dest) /\ job[e].step \in Open
            BY <1>2, <5>1 DEF OutOK
          <6>2. t \in Dest => TempOf[t] = t
            BY <1>2 DEF t
          <6> QED
            BY <6>1, <6>2 DEF SharesTemp
        <5>3. TempOf[d] = t
          BY DEF t
        <5> QED
          BY <1>2, <1>6, <2>2, <3>1, <5>1, <5>2, <5>3 DEF OutOK, SharesTemp
      <4>3. CASE out[e] \notin {d, t, None}
        <5>1. out'[e] = out[e] /\ file'[out[e]] = file[out[e]]
          BY <2>2, <3>3, <3>4, <4>3
        <5> QED
          BY <3>1, <5>1 DEF OneOK, OutOK
      <4> QED
        BY <4>1, <4>2, <4>3
    <3>6. SoleOK(job'[e], out'[e], file', unsynced')
      <4> SUFFICES ASSUME job[e].step \in Open, OneUser(job[e].dest)
                   PROVE  /\ out'[e] = TempOf[job[e].dest] /\ Written(job[e], file'[TempOf[job[e].dest]])
                          /\ job[e].step = "place" => TempOf[job[e].dest] \notin unsynced'
        BY <3>1 DEF SoleOK
      <4>1. /\ out[e] = TempOf[job[e].dest] /\ Written(job[e], file[TempOf[job[e].dest]])
            /\ job[e].step = "place" => TempOf[job[e].dest] \notin unsynced
        BY <3>1 DEF OneOK, SoleOK
      <4>2. job[e] # NoJob
        BY DEF NoJob, Open
      <4>3. job[e].dest \in Dest /\ TempOf[job[e].dest] \in Path
        BY <4>2 DEF MaterializeTypeOK, Job, Path
      <4>4. TempOf[job[e].dest] # t
        <5>1. ASSUME TempOf[job[e].dest] = t PROVE FALSE
          <6>1. c = e
            BY <5>1, <1>1, <4>2, SoleUser DEF t, d
          <6> QED
            BY <6>1
        <5> QED
          BY <5>1
      <4>5. TempOf[job[e].dest] # d
        <5>1. TempOf[job[e].dest] \in Dest => TempOf[TempOf[job[e].dest]] = TempOf[job[e].dest]
          BY <4>3
        <5> QED
          BY <1>2, <4>4, <5>1 DEF t
      <4>6. out[e] \notin {d, t} /\ out[e] \in Path
        BY <4>1, <4>3, <4>4, <4>5
      <4> QED
        BY <2>1, <2>2, <3>3, <4>1, <4>5, <4>6
    <3> QED
      BY <3>2, <3>5, <3>6 DEF OneOK
  <2> QED
    BY <2>3, <2>4 DEF CallInv, OneOK
<1> QED
  BY <1>5, <1>6

\* What is placed at a sole destination has been synced.
LEMMA StepKeepsSynced == PlaceInv /\ [MaterializeNext]_allVars => SoleSynced'
<1> SUFFICES ASSUME PlaceInv, [MaterializeNext]_allVars PROVE SoleSynced'
  OBVIOUS
<1> USE DEF PlaceInv
<1>1. ASSUME unsynced' \subseteq unsynced PROVE SoleSynced'
  BY <1>1 DEF SoleSynced
<1>2. ASSUME NEW c \in Caller, CreateTemporary(c) PROVE SoleSynced'
  <2>1. job[c].dest \in Dest
    BY <1>2 DEF CreateTemporary, MaterializeTypeOK, NoJob, Job
  <2> QED
    BY <1>2, <2>1, TempShares DEF CreateTemporary, SoleSynced
<1>3. ASSUME NEW c \in Caller, CopyChunk(c) PROVE SoleSynced'
  BY <1>3, OutNotSole DEF CopyChunk, SoleSynced
<1>4. ASSUME NEW c \in Caller, PlaceFile(c) PROVE SoleSynced'
  <2> DEFINE d == job[c].dest
  <2>1. unsynced' \subseteq unsynced \/ (TempOf[d] \in unsynced /\ unsynced' \subseteq unsynced \cup {d})
    BY <1>4 DEF PlaceFile, pathVars
  <2>2. CASE d \in SoleDest
    <3>1. OneUser(d) /\ job[c].step = "place"
      BY <1>4, <2>2 DEF PlaceFile, SoleDest, OneUser
    <3>2. TempOf[d] \notin unsynced
      BY <3>1 DEF CallInv, SoleOK, Open
    <3> QED
      BY <1>1, <2>1, <3>2
  <2>3. CASE d \notin SoleDest
    BY <2>1, <2>3 DEF SoleSynced
  <2> QED
    BY <2>2, <2>3
<1>5. ASSUME UNCHANGED pathVars PROVE SoleSynced'
  BY <1>1, <1>5 DEF pathVars
<1>6. ASSUME NEW c \in Caller, CheckHash(c) PROVE SoleSynced'
  BY <1>1, <1>6 DEF CheckHash
<1>7. CASE PowerFails
  BY <1>7 DEF PowerFails, SoleSynced
<1> QED
  BY <1>2, <1>3, <1>4, <1>5, <1>6, <1>7
     DEF MaterializeNext, CallStep, StoreStep, ProcessDies, allVars, MaterializeBegin, CopyFails,
         MaterializeFails

-----------------------------------------------------------------------------
(* The theorems *)

LEMMA NextPlaceInv == PlaceInv /\ [MaterializeNext]_allVars => PlaceInv'
<1> SUFFICES ASSUME PlaceInv, [MaterializeNext]_allVars PROVE PlaceInv'
  OBVIOUS
<1>1. TypeInv' /\ \A m \in Manifest : Whole(m) => Whole(m)'
  BY StoreKeeps DEF PlaceInv
<1>2. MaterializeTypeOK'
  BY CallTypes DEF PlaceInv
<1>3. CallInv'
  <2>1. ASSUME NEW c \in Caller, CallStep(c) PROVE CallInv'
    <3>1. ASSUME Ends(c), UNCHANGED pathVars PROVE CallInv'
      BY <1>1, <3>1, EndKeeps DEF pathVars
    <3>2. CASE \E d \in Dest, m \in Manifest : MaterializeBegin(c, d, m)
      BY <1>1, <3>2, BeginKeeps
    <3>3. CASE CreateTemporary(c)
      BY <1>1, <3>3, CreateKeeps
    <3>4. CASE CopyChunk(c)
      BY <1>1, <3>4, CopyKeeps
    <3>5. CASE CheckHash(c)
      BY <1>1, <3>5, CheckKeeps
    <3>6. CASE PlaceFile(c)
      BY <1>1, <3>6, PlaceKeeps
    <3>7. CASE CopyFails(c) \/ MaterializeFails(c)
      BY <3>1, <3>7 DEF CopyFails, MaterializeFails
    <3> QED
      BY <2>1, <3>2, <3>3, <3>4, <3>5, <3>6, <3>7 DEF CallStep
  <2>2. ASSUME AllEnd PROVE CallInv'
    <3>1. ASSUME NEW c \in Caller PROVE OneOK(c)'
      BY <2>2, NoJobOK DEF AllEnd
    <3> QED
      BY <3>1 DEF CallInv, OneOK
  <2>3. ASSUME UNCHANGED <<job, out, pathVars>> PROVE CallInv'
    <3>1. ASSUME NEW c \in Caller PROVE OneOK(c)'
      BY <1>1, <2>3, UntouchedKeep DEF pathVars
    <3> QED
      BY <3>1 DEF CallInv, OneOK
  <2> QED
    BY <2>1, <2>2, <2>3 DEF MaterializeNext, StoreStep, ProcessDies, PowerFails, allVars, callVars
<1> QED
  BY <1>1, <1>2, <1>3, StepKeepsSynced DEF PlaceInv

\* The calls and the files keep their types, a call is never further than the end of
\* its file, and only one that copies or places has a file open.
THEOREM MaterializeTypeCorrect == MaterializeSpec => []MaterializeTypeOK
<1>1. PlaceInv => MaterializeTypeOK
  BY DEF PlaceInv
<1> QED
  BY <1>1, InitPlaceInv, NextPlaceInv, PTL DEF MaterializeSpec

\* A sequence as long as another, with the same elements, is that other.
LEMMA SameContent ==
  ASSUME NEW m \in Manifest, NEW s \in Seq(Hash \cup {Junk}), Len(s) = Len(ContentOf[m]),
         \A i \in 1..Len(s) : s[i] = ContentOf[m][i]
  PROVE  s = ContentOf[m]
<1>1. s \in [1..Len(s) -> Hash \cup {Junk}] /\ ContentOf[m] \in [1..Len(s) -> Hash]
  BY LenProperties
<1> QED
  BY <1>1

\* Every step of the calls, the threads and the failures is a step of AtomicFile.
LEMMA StepIsAtomic ==
  ASSUME PlaceInv, [MaterializeNext]_allVars
  PROVE  [Atomic!Next]_<<{m \in Manifest : Whole(m)}, [d \in SoleDest |-> file[d]],
                         [d \in SoleDest |-> durable[d]]>>
<1> USE DEF PlaceInv
<1> DEFINE whole == {m \in Manifest : Whole(m)}
           placed == [d \in SoleDest |-> file[d]]
           lasting == [d \in SoleDest |-> durable[d]]
           Same == \A d \in SoleDest : file'[d] = file[d] /\ durable'[d] = durable[d]
<1>1. whole \subseteq whole'
  BY StoreKeeps
<1>2. SoleDest \subseteq Dest /\ SoleDest \subseteq Path /\ None \notin Path
  BY DEF SoleDest, Path
<1>3. ASSUME Same PROVE Atomic!Gather
  <2>1. placed' = placed /\ lasting' = lasting
    BY <1>3
  <2>2. whole' \in SUBSET Manifest
    OBVIOUS
  <2> QED
    BY <1>1, <2>1, <2>2 DEF Atomic!Gather
<1>4. ASSUME NEW c \in Caller, CreateTemporary(c) PROVE Same
  <2>1. TempOf[job[c].dest] \notin SoleDest
    BY <1>4, TempShares DEF CreateTemporary, MaterializeTypeOK, NoJob, Job
  <2> QED
    BY <1>2, <1>4, <2>1 DEF CreateTemporary, MaterializeTypeOK
<1>5. ASSUME NEW c \in Caller, CopyChunk(c) PROVE Same
  <2>1. \A p \in Path : p # out[c] => file'[p] = file[p]
    BY <1>5 DEF CopyChunk, MaterializeTypeOK
  <2>2. durable' = durable
    BY <1>5 DEF CopyChunk
  <2> QED
    BY <1>2, <2>1, <2>2, OutNotSole
<1>6. ASSUME NEW c \in Caller, CheckHash(c) PROVE Same
  <2>1. file' = file /\ \A d \in Dest : d # out[c] => durable'[d] = durable[d]
    BY <1>6 DEF CheckHash, Reaches, MaterializeTypeOK
  <2> QED
    BY <1>2, <2>1, OutNotSole
<1>7. ASSUME NEW c \in Caller, PlaceFile(c)
      PROVE  Same \/ \E d \in SoleDest, m \in Manifest : Atomic!Place(d, m)
  <2> DEFINE d == job[c].dest
             t == TempOf[d]
             m == job[c].doc
  <2>1. job[c] \in Job /\ job[c] # NoJob /\ job[c].step = "place"
    BY <1>7 DEF PlaceFile, MaterializeTypeOK, NoJob
  <2>2. d \in Dest /\ {d, t} \subseteq Path /\ m \in Manifest /\ t \notin SoleDest
    BY <2>1, TempShares DEF Job, Path
  <2>3. \/ UNCHANGED pathVars
        \/ file' = [file EXCEPT ![d] = file[t], ![t] = None] /\ Reaches(d, file[t])
    BY <1>7 DEF PlaceFile
  <2>4. CASE UNCHANGED pathVars
    BY <2>4 DEF pathVars
  <2>5. CASE ~UNCHANGED pathVars /\ d \notin SoleDest
    <3> HIDE DEF d, t
    <3> QED
      BY <1>2, <2>2, <2>3, <2>5 DEF MaterializeTypeOK, Reaches
  <2>6. CASE ~UNCHANGED pathVars /\ d \in SoleDest
    <3>1. <<d, m>> \in Asks[c] /\ Whole(m) /\ job[c].sound /\ job[c].done = Len(ContentOf[m])
      BY <2>1 DEF CallInv, JobOK, WholeOK
    <3>2. Written(job[c], file[t])
      BY <2>1, <2>6 DEF CallInv, SoleOK, Open, SoleDest, OneUser
    <3>3. file[t] = ContentOf[m]
      <4>1. /\ file[t] \in Seq(Hash \cup {Junk}) /\ Len(file[t]) = Len(ContentOf[m])
            /\ \A i \in 1..Len(file[t]) : file[t][i] = ContentOf[m][i]
        BY <3>1, <3>2 DEF Written
      <4> HIDE DEF t, m
      <4> QED
        BY <2>2, <4>1, SameContent
    <3>4. \A p \in SoleDest : file'[p] = IF p = d THEN ContentOf[m] ELSE file[p]
      <4> HIDE DEF d, t, m
      <4>1. file' = [file EXCEPT ![d] = file[t], ![t] = None]
        BY <2>3, <2>6
      <4>2. d # t
        BY <2>2, <2>6
      <4>3. file'[d] = file[t] /\ \A p \in Path : p \notin {d, t} => file'[p] = file[p]
        BY <2>2, <4>1, <4>2 DEF MaterializeTypeOK
      <4> QED
        BY <1>2, <2>2, <3>3, <4>3
    <3>5. placed' = [placed EXCEPT ![d] = ContentOf[m]]
      BY <3>4
    <3>6. lasting' = lasting \/ lasting' = [lasting EXCEPT ![d] = ContentOf[m]]
      <4> HIDE DEF d, t, m
      <4>1. durable' = durable \/ durable' = [durable EXCEPT ![d] = ContentOf[m]]
        BY <2>3, <2>6, <3>3 DEF Reaches
      <4> QED
        BY <1>2, <2>2, <4>1 DEF MaterializeTypeOK
    <3>7. whole' = whole
      BY <1>7 DEF PlaceFile, Whole, vars, rowVars
    <3>8. <<d, m>> \in UNION {Asks[e] : e \in Caller} /\ m \in whole
      BY <2>2, <3>1
    <3>9. d \in SoleDest /\ m \in Manifest
      BY <2>2, <2>6
    <3> HIDE DEF d, m
    <3> QED
      BY <3>5, <3>6, <3>7, <3>8, <3>9 DEF Atomic!Place
  <2> QED
    BY <2>4, <2>5, <2>6
<1>8. ASSUME PowerFails PROVE Atomic!PowerFails
  <2>1. \A d \in SoleDest : durable'[d] = durable[d] /\ file'[d] = durable[d]
    BY <1>2, <1>8 DEF PowerFails, SoleSynced
  <2>2. whole' = whole
    BY <1>8 DEF PowerFails, Whole, rowVars
  <2>3. placed' = lasting /\ lasting' = lasting
    BY <2>1
  <2> QED
    BY <2>2, <2>3 DEF Atomic!PowerFails
<1>9. UNCHANGED pathVars => Same
  BY DEF pathVars
<1> HIDE DEF whole, placed, lasting, Same
<1>10. Atomic!Gather \/ Atomic!PowerFails \/ \E d \in SoleDest, m \in Manifest : Atomic!Place(d, m)
  BY <1>3, <1>4, <1>5, <1>6, <1>7, <1>8, <1>9
     DEF MaterializeNext, CallStep, StoreStep, ProcessDies, allVars, MaterializeBegin, CopyFails,
         MaterializeFails
<1> QED
  BY <1>10 DEF Atomic!Next

\* At a destination whose temporary name one caller uses, materialize_file is the
\* atomic placement that docs/protocol.md promises: whole files that were asked for
\* there, whatever is torn, killed or switched off on the way.  A power failure may take
\* a placement back, since files.rs syncs the file before the rename and nothing after it.
THEOREM MaterializeIsAtomic == MaterializeSpec => PlacesAtomically
<1>1. MaterializeInit => Atomic!Init
  BY DEF MaterializeInit, Atomic!Init, Init, Whole, SoleDest, Path
<1>2. PlaceInv /\ [MaterializeNext]_allVars
        => [Atomic!Next]_<<{m \in Manifest : Whole(m)}, [d \in SoleDest |-> file[d]],
                           [d \in SoleDest |-> durable[d]]>>
  BY StepIsAtomic
<1> QED
  BY <1>1, <1>2, InitPlaceInv, NextPlaceInv, PTL DEF MaterializeSpec, PlacesAtomically, Atomic!Spec

-----------------------------------------------------------------------------
(* The store beside materialize_file *)

\* Until the machine loses power, the rows are covered by files.
CoveredInv == intact => DiskInv

LEMMA StepKeepsRowsCovered ==
  CoveredInv /\ [MaterializeNext]_allVars => CoveredInv'
<1> SUFFICES ASSUME CoveredInv, [MaterializeNext]_allVars, intact' PROVE DiskInv'
  BY DEF CoveredInv
<1>1. CASE StoreStep \/ ProcessDies
  <2>1. [Next]_vars /\ intact' = intact
    BY <1>1 DEF StoreStep, ProcessDies, Next
  <2> QED
    BY <2>1, NextDiskInv DEF CoveredInv
<1>2. CASE PowerFails
  BY <1>2 DEF PowerFails
<1>3. ASSUME NEW c \in Caller, MaterializeFails(c) PROVE DiskInv'
  <2>1. DiskInv /\ TypeInv'
    BY <1>3, StoreKeeps DEF MaterializeFails, CoveredInv, DiskInv
  <2>2. MarksOK' /\ PresentOnDisk' /\ CompleteMarked'
    BY <1>3, <2>1 DEF MaterializeFails, DiskInv, MarksOK, PresentOnDisk, CompleteMarked,
       OnDisk, fileVars, rowVars, lockVars
  <2> QED
    BY <2>1, <2>2 DEF DiskInv
<1>4. ASSUME UNCHANGED vars, intact' = intact PROVE DiskInv'
  BY <1>4, NextDiskInv DEF CoveredInv
<1>5. ASSUME NEW c \in Caller, CallStep(c), ~MaterializeFails(c)
      PROVE  UNCHANGED vars /\ intact' = intact
  BY <1>5 DEF CallStep, MaterializeBegin, CreateTemporary, CopyChunk, CopyFails, CheckHash, PlaceFile
<1>6. CASE UNCHANGED allVars
  BY <1>4, <1>6 DEF allVars
<1> QED
  BY <1>1, <1>2, <1>3, <1>4, <1>5, <1>6 DEF MaterializeNext

\* A chunk row that says present has its file, and a complete manifest all of them,
\* also while calls of materialize_file run, fail and die: a power failure alone can
\* take the file from under its row.
THEOREM RowsCoveredUntilPowerFails ==
  MaterializeSpec => [](intact => PresentOnDisk /\ CompleteOnDisk)
<1>1. MaterializeInit => CoveredInv
  BY InitDiskInv DEF MaterializeInit, CoveredInv
<1>2. CoveredInv => (intact => PresentOnDisk /\ CompleteOnDisk)
  BY DEF CoveredInv, DiskInv, TypeInv, TypeOK, PresentOnDisk, CompleteMarked, CompleteOnDisk
<1> QED
  BY <1>1, <1>2, StepKeepsRowsCovered, PTL DEF MaterializeSpec
===============================================================================
