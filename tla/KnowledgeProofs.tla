-------------------------- MODULE KnowledgeProofs --------------------------
(***************************************************************************)
(* What is kept from one cycle to the next, for any entries, goals, facts, *)
(* patterns, limits and failures: no failure is forgotten and none counted *)
(* twice, what is on file can be found, a search is exact, a recorded      *)
(* outcome stays, no goal is taught what it taught, a pair that failed is  *)
(* silenced, and no single observation turns a suggestion round.           *)
(***************************************************************************)
EXTENDS MCKnowledge, FiniteSetTheorems, SequenceTheorems, TLAPS

\* Sets that are no part of the modules: a set counts one member at most when
\* any two of its members are the same.
LEMMA AtMostOne ==
  ASSUME NEW S, IsFiniteSet(S), \A x, y \in S : x = y
  PROVE  Cardinality(S) \in Nat /\ Cardinality(S) <= 1
  <1>1. CASE S = {}
    BY <1>1, FS_EmptySet
  <1>2. CASE S # {}
    <2>1. PICK x \in S : TRUE
      BY <1>2
    <2>2. S = {x}
      BY <2>1
    <2> QED
      BY <2>2, FS_Singleton
  <1> QED
    BY <1>1, <1>2

-----------------------------------------------------------------------------
(* Memory *)

USE MemAssumption DEF MemAssumption

JobNames == {"retention", "close"}

MemTyped ==
    /\ memLoop \in 0 .. MaxMemLoop /\ loopOf \in [MemEntries -> -1 .. MaxMemLoop]
    /\ memFiles \in [DataTypes -> SUBSET MemEntries] /\ archive \in [DataTypes -> SUBSET MemEntries]
    /\ present \subseteq DataTypes /\ early \subseteq MemDims
    /\ lessons \subseteq LessonEntry /\ shared \subseteq LessonEntry
    /\ counted \in [MemEntries -> 0 .. 2]
    /\ IsFiniteSet(counting)
    /\ \A c \in counting : c.seen \in [MemEntries -> 0 .. 2] /\ c.add \subseteq MemEntries
    /\ jobs \in [JobNames -> Job]
    /\ rec \in [pc : {"idle", "write"}, id : MemEntries, read : SUBSET MemEntries]
    /\ raced \in BOOLEAN /\ mislaid \subseteq MemEntries /\ closes \in Nat /\ memFaults \in Nat

\* The states of a job that has read a file of entries and not ended with it;
\* the lessons drawn from them have been written, or left out, in the later ones.
Busy == {"distil", "byGoal", "putByGoal", "shared", "putShared", "stats", "drop"}
Drawn == {"shared", "putShared", "stats", "drop"}
Uncounted == {"distil", "byGoal", "putByGoal", "shared", "putShared", "stats"}

\* An entry is in the file of its type, which is there, once it is recorded, and
\* so is whatever an operation has read from a file.
InPlace ==
    /\ \A t \in DataTypes : \A e \in memFiles[t] : TypeOf[e] = t /\ e \in Recorded /\ t \in present
    /\ rec.pc = "write" =>
         rec.id \notin Recorded /\ \A e \in rec.read : TypeOf[e] = TypeOf[rec.id] /\ e \in Recorded
    /\ \A j \in JobNames : jobs[j].pc \in Busy =>
         /\ jobs[j].out \subseteq jobs[j].read
         /\ \A e \in jobs[j].read : TypeOf[e] = jobs[j].type /\ e \in Recorded

\* Where a recorded failure is found again.
LessonFor(e) == \E l \in lessons : e \in l.from
Remembered(e) == e \in memFiles[TypeOf[e]] \/ e \in archive[TypeOf[e]] \/ LessonFor(e)

\* What is about to be dropped has a lesson, or will have one.
Distilled ==
    /\ jobs["retention"].pc \in {"byGoal", "putByGoal"} =>
         QualityPassed(jobs["retention"].n, jobs["retention"].out)
    /\ jobs["retention"].pc \in Drawn =>
         \A e \in jobs["retention"].out \cap FailedEntries : e \in mislaid \/ LessonFor(e)

\* Which states a job goes through, and that nothing is archived before the
\* first close comes to it.
Closing ==
    /\ jobs["retention"].pc \in Busy \cup {"idle"}
    /\ jobs["close"].pc # "drop"
    /\ closes = 0 => jobs["close"].pc = "idle"
    /\ closes = 0 \/ (closes = 1 /\ jobs["close"].pc \in Uncounted \cup {"next", "archive"}) =>
         \A t \in DataTypes : archive[t] = {}
    /\ jobs["close"].pc = "rm" => \A e \in jobs["close"].read : e \in archive[TypeOf[e]]

\* The entries that are counted or will be.
Done == {e \in MemEntries : counted[e] > 0 \/ \E c \in counting : e \in c.add \/ c.seen[e] > 0}
Undisturbed == ~raced /\ memFaults = 0 /\ closes = 0
CountsApart ==
    Undisturbed =>
      /\ \A c \in counting : \A e \in MemEntries :
           c.seen[e] \in {0, 1} /\ (e \in c.add => c.seen[e] = 0 /\ e \in Recorded)
           /\ (c.seen[e] = 1 => e \in Recorded)
      /\ \A c, k \in counting : \A e \in MemEntries : e \in c.add /\ e \in k.add => c = k
      /\ \A e \in MemEntries : counted[e] \in {0, 1} /\ (counted[e] = 1 => e \in Recorded)
      /\ \A t \in DataTypes : \A e \in Done \cap memFiles[t] :
           jobs["retention"].pc = "drop" /\ e \in jobs["retention"].out
      /\ jobs["retention"].pc \in Uncounted => jobs["retention"].out \cap Done = {}

MemInv == MemTyped /\ InPlace /\ Distilled /\ Closing /\ FailureKept /\ CountsApart

LEMMA Jobs ==
  ASSUME MemTyped
  PROVE  /\ DOMAIN jobs = JobNames /\ "close" \in JobNames /\ "retention" \in JobNames
         /\ \A j \in JobNames : jobs[j] \in Job
         /\ Idle \in Job /\ Idle.pc = "idle" /\ Idle.read = {} /\ Idle.out = {} /\ NoRecording.pc = "idle"
         /\ NoRecording \in [pc : {"idle", "write"}, id : MemEntries, read : SUBSET MemEntries]
         /\ \A j \in JobNames : After(j) \in Job
         /\ After("retention") = Idle
         /\ After("close").pc = "next" /\ After("close").read = {} /\ After("close").out = {}
  <1>1. DOMAIN jobs = JobNames /\ \A j \in JobNames : jobs[j] \in Job
    BY DEF MemTyped
  <1>2. /\ Idle \in Job /\ Idle.pc = "idle" /\ Idle.read = {} /\ Idle.out = {} /\ NoRecording.pc = "idle"
        /\ NoRecording \in [pc : {"idle", "write"}, id : MemEntries, read : SUBSET MemEntries]
    BY DEF Idle, NoRecording, Job
  <1>3. "close" \in JobNames /\ "retention" \in JobNames
    BY DEF JobNames
  <1>4. /\ After("retention") = Idle
        /\ After("close") = [Idle EXCEPT !.pc = "next", !.todo = jobs["close"].todo]
    BY DEF After
  <1>5. /\ After("close") \in Job /\ After("close").pc = "next"
        /\ After("close").read = {} /\ After("close").out = {}
    <2>1. jobs["close"].todo \in SUBSET DataTypes
      BY <1>1, <1>3 DEF Job
    <2> QED
      BY <1>2, <1>4, <2>1 DEF Job
  <1> QED
    BY <1>1, <1>2, <1>3, <1>4, <1>5 DEF JobNames

\* What each action does to the jobs.
LEMMA JobSteps ==
  ASSUME MemTyped, MemNext
  PROVE  jobs' \in [JobNames -> Job]
  <1>1. CASE UNCHANGED jobs
    BY <1>1 DEF MemTyped
  <1>2. ASSUME NEW t \in DataTypes, Compress(t) PROVE jobs' \in [JobNames -> Job]
    <2>1. memFiles[t] \in SUBSET MemEntries /\ Expired(memFiles[t]) \in SUBSET MemEntries
      BY DEF MemTyped, Expired
    <2>2. [Idle EXCEPT !.pc = "distil", !.type = t, !.read = memFiles[t], !.out = Expired(memFiles[t])] \in Job
      BY <2>1, Jobs DEF Job
    <2> QED
      BY <1>2, <2>2, Jobs DEF Compress, MemTyped
  <1>3. CASE StartClose
    <2>1. [Idle EXCEPT !.pc = "next", !.todo = DataTypes] \in Job
      BY Jobs DEF Job
    <2> QED
      BY <1>3, <2>1 DEF StartClose, MemTyped
  <1>4. CASE CloseNext
    <2>1. jobs["close"] \in Job
      BY Jobs
    <2>2. CASE jobs' = [jobs EXCEPT !["close"].pc = "archive"]
      <3>1. [jobs["close"] EXCEPT !.pc = "archive"] \in Job
        BY <2>1 DEF Job
      <3> QED
        BY <2>2, <3>1 DEF MemTyped
    <2>3. ASSUME NEW t \in jobs["close"].todo,
                 jobs' = [jobs EXCEPT !["close"] =
                   [jobs["close"] EXCEPT !.todo = @ \ {t}, !.pc = IF memFiles[t] = {} THEN "next" ELSE "distil",
                             !.type = t, !.read = memFiles[t], !.out = memFiles[t]]]
          PROVE  jobs' \in [JobNames -> Job]
      <3>1. t \in DataTypes /\ memFiles[t] \in SUBSET MemEntries
        BY <2>1 DEF Job, MemTyped
      <3>2. [jobs["close"] EXCEPT !.todo = @ \ {t}, !.pc = IF memFiles[t] = {} THEN "next" ELSE "distil",
                             !.type = t, !.read = memFiles[t], !.out = memFiles[t]] \in Job
        BY <2>1, <3>1 DEF Job
      <3> QED
        BY <2>3, <3>2 DEF MemTyped
    <2> QED
      BY <1>4, <2>2, <2>3 DEF CloseNext
  <1>5. ASSUME NEW j \in JobNames, Distil(j) PROVE jobs' \in [JobNames -> Job]
    <2>1. PICK n \in 0 .. MaxLessons :
            jobs' = [jobs EXCEPT ![j] =
              IF j = "close" \/ QualityPassed(n, jobs[j].out)
              THEN [@ EXCEPT !.pc = "byGoal", !.n = n] ELSE After(j)]
      BY <1>5 DEF Distil
    <2>2. [jobs[j] EXCEPT !.pc = "byGoal", !.n = n] \in Job /\ After(j) \in Job
      BY Jobs DEF Job
    <2> QED
      BY <2>1, <2>2 DEF MemTyped
  <1>6. ASSUME NEW j \in JobNames, jobs' = [jobs EXCEPT ![j] = After(j)] PROVE jobs' \in [JobNames -> Job]
    BY <1>6, Jobs DEF MemTyped
  <1>7. ASSUME NEW j \in JobNames, NEW p \in {"shared", "stats", "lessons"}, jobs' = [jobs EXCEPT ![j].pc = p]
        PROVE  jobs' \in [JobNames -> Job]
    <2>1. [jobs[j] EXCEPT !.pc = p] \in Job
      BY Jobs DEF Job
    <2> QED
      BY <1>7, <2>1 DEF MemTyped
  <1>8. ASSUME NEW j \in JobNames, StartStatistics(j) PROVE jobs' \in [JobNames -> Job]
    <2>1. [jobs[j] EXCEPT !.pc = "drop"] \in Job /\ After(j) \in Job
      BY Jobs DEF Job
    <2> QED
      BY <1>8, <2>1 DEF StartStatistics, MemTyped
  <1>9. CASE DropCompressed \/ ArchiveLessons
    BY <1>9, Jobs DEF DropCompressed, ArchiveLessons, MemTyped
  <1>10. CASE CopyToArchive
    <2>1. InFiles \in SUBSET MemEntries
      BY DEF InFiles, MemTyped
    <2>2. [jobs["close"] EXCEPT !.pc = "rm", !.read = InFiles] \in Job
      BY <2>1, Jobs DEF Job
    <2>3. CASE jobs' = [jobs EXCEPT !["close"].pc = "rm", !["close"].read = InFiles]
      BY <2>2, <2>3 DEF MemTyped
    <2> QED
      BY <1>7, <1>10, <2>3, Jobs DEF CopyToArchive
  <1>11. CASE RemoveFiles
    <2>1. [Idle EXCEPT !.pc = "lessons"] \in Job
      BY Jobs DEF Job
    <2> QED
      BY <1>11, <2>1 DEF RemoveFiles, MemTyped
  <1>12. CASE MemCrash
    BY <1>12, Jobs DEF MemCrash
  <1>13. ASSUME NEW j \in JobNames, StoreByGoal(j) \/ StoreShared(j) \/ StoreSkipped(j) \/ DistilThrows(j)
         PROVE  jobs' \in [JobNames -> Job]
    <2>1. StoreSkipped(j) => \E p \in {"shared", "stats"} : jobs' = [jobs EXCEPT ![j].pc = p]
      <3>1. CASE StoreSkipped(j) /\ jobs[j].pc = "putByGoal"
        <4>1. jobs' = [jobs EXCEPT ![j].pc = "shared"]
          BY <3>1, Jobs DEF StoreSkipped, MemTyped
        <4> QED
          BY <4>1
      <3>2. CASE StoreSkipped(j) /\ jobs[j].pc # "putByGoal"
        <4>1. jobs' = [jobs EXCEPT ![j].pc = "stats"]
          BY <3>2, Jobs DEF StoreSkipped, MemTyped
        <4> QED
          BY <4>1
      <3> QED
        BY <3>1, <3>2
    <2> QED
      BY <1>6, <1>7, <1>13, <2>1 DEF StoreByGoal, StoreShared, DistilThrows
  <1>14. ASSUME NEW j \in JobNames, StoreFails(j) PROVE jobs' \in [JobNames -> Job]
    <2>1. jobs' = [jobs EXCEPT ![j] = Idle] \/ jobs' = [jobs EXCEPT ![j] = After(j)]
      BY <1>14 DEF StoreFails
    <2> QED
      BY <1>6, <2>1, Jobs DEF MemTyped
  <1>15. ASSUME NEW j \in JobNames, NEW p \in {"putByGoal", "putShared", "mark"}, NEW L \in SUBSET LessonEntry,
                jobs' = [jobs EXCEPT ![j].pc = p, ![j].base = L]
         PROVE  jobs' \in [JobNames -> Job]
    <2>1. [jobs[j] EXCEPT !.pc = p, !.base = L] \in Job
      BY Jobs DEF Job
    <2>2. jobs' = [jobs EXCEPT ![j] = [jobs[j] EXCEPT !.pc = p, !.base = L]]
      BY <1>15 DEF MemTyped
    <2> QED
      BY <2>1, <2>2 DEF MemTyped
  <1>16. CASE ReadForArchive \/ \E j \in JobNames : ReadByGoal(j) \/ ReadShared(j)
    BY <1>15, <1>16, Jobs DEF ReadForArchive, ReadByGoal, ReadShared, MemTyped
  <1> QED
    BY <1>1, <1>2, <1>3, <1>4, <1>5, <1>8, <1>9, <1>10, <1>11, <1>12, <1>13, <1>14, <1>16, Jobs
    DEF MemNext, NextLoop, RecordRead, RecordWrite, RecordNotWritten, UpdateStatistics, Judge, ApplyRetentionPolicy, CollectShortTerm

\* Who changes what.
LEMMA MemEffects ==
  ASSUME MemTyped, MemNext
  PROVE  /\ NextLoop \/ UNCHANGED memLoop
         /\ RecordWrite \/ RecordNotWritten \/ UNCHANGED loopOf
         /\ RecordWrite \/ DropCompressed \/ RemoveFiles \/ UNCHANGED <<memFiles, present, raced>>
         /\ CopyToArchive \/ UNCHANGED archive
         /\ (\E j \in JobNames : StoreByGoal(j)) \/ ArchiveLessons \/ UNCHANGED lessons
         /\ mislaid \subseteq mislaid'
         /\ (\E j \in JobNames : StoreShared(j)) \/ UNCHANGED shared
         /\ UpdateStatistics \/ UNCHANGED counted
         /\ UpdateStatistics \/ (\E j \in JobNames : StartStatistics(j)) \/ MemCrash \/ UNCHANGED counting
         /\ (\E d \in MemDims, satisfied \in BOOLEAN : Judge(d, satisfied)) \/ MemCrash \/ UNCHANGED early
         /\ StartClose \/ UNCHANGED closes
         /\ \/ MemCrash \/ RecordNotWritten \/ (\E j \in JobNames : StoreFails(j) \/ StoreSkipped(j))
            \/ UNCHANGED memFaults
         /\ (\E e \in MemEntries : RecordRead(e)) \/ RecordWrite \/ RecordNotWritten \/ MemCrash \/ UNCHANGED rec
  BY Jobs
  DEF MemNext, NextLoop, RecordRead, RecordWrite, Compress, ApplyRetentionPolicy, CollectShortTerm,
      StartClose, CloseNext, Distil, DistilThrows, StoreByGoal, StoreShared, StartStatistics,
      ReadByGoal, ReadShared, ReadForArchive, StoreSkipped, RecordNotWritten, UpdateStatistics, DropCompressed, CopyToArchive, RemoveFiles, ArchiveLessons, Judge, MemCrash, StoreFails

LEMMA MislaidTyped ==
  ASSUME MemTyped, MemNext
  PROVE  mislaid' \subseteq MemEntries
  <1>1. \A t \in DataTypes : memFiles[t] \subseteq MemEntries
    BY DEF MemTyped
  <1>2. InFiles \subseteq MemEntries /\ Learned(lessons) \subseteq MemEntries
    BY <1>1 DEF InFiles, Learned, MemTyped, LessonEntry
  <1>3. rec.id \in MemEntries /\ TypeOf[rec.id] \in DataTypes /\ jobs["retention"].type \in DataTypes
    BY Jobs DEF MemTyped, Job
  <1>4. mislaid \subseteq MemEntries /\ \A j \in JobNames : jobs[j].out \subseteq MemEntries
    BY Jobs DEF MemTyped, Job
  <1>5. CASE UNCHANGED mislaid
    BY <1>4, <1>5
  <1>6. CASE RecordWrite \/ RecordNotWritten
    BY <1>1, <1>3, <1>4, <1>6 DEF RecordWrite, RecordNotWritten
  <1>7. CASE DropCompressed \/ RemoveFiles \/ ArchiveLessons
    BY <1>1, <1>2, <1>3, <1>4, <1>7 DEF DropCompressed, RemoveFiles, ArchiveLessons
  <1>8. ASSUME NEW j \in JobNames, StoreByGoal(j) \/ StoreSkipped(j) PROVE mislaid' \subseteq MemEntries
    BY <1>2, <1>4, <1>8 DEF StoreByGoal, StoreSkipped
  <1> QED
    BY <1>5, <1>6, <1>7, <1>8, Jobs
    DEF MemNext, NextLoop, RecordRead, Compress, ApplyRetentionPolicy, CollectShortTerm, StartClose, CloseNext,
        Distil, DistilThrows, StoreShared, StartStatistics, ReadByGoal, ReadShared, ReadForArchive,
        UpdateStatistics, CopyToArchive, Judge, MemCrash, StoreFails

LEMMA MemTypesKept ==
  ASSUME MemTyped, MemNext
  PROVE  MemTyped'
  <1>0. jobs' \in [JobNames -> Job]
    BY JobSteps
  <1>1. memLoop' \in 0 .. MaxMemLoop /\ loopOf' \in [MemEntries -> -1 .. MaxMemLoop]
    <2>1. memLoop' \in 0 .. MaxMemLoop
      BY MemEffects DEF NextLoop, MemTyped
    <2>2. loopOf' \in [MemEntries -> -1 .. MaxMemLoop]
      <3>1. CASE UNCHANGED loopOf
        BY <3>1 DEF MemTyped
      <3>2. CASE RecordWrite
        <4>1. memLoop \in -1 .. MaxMemLoop /\ loopOf' = [loopOf EXCEPT ![rec.id] = memLoop]
          BY <3>2 DEF RecordWrite, MemTyped
        <4> QED
          BY <4>1 DEF MemTyped
      <3>3. CASE RecordNotWritten
        <4>1. memLoop \in -1 .. MaxMemLoop /\ (UNCHANGED loopOf \/ loopOf' = [loopOf EXCEPT ![rec.id] = memLoop])
          BY <3>3 DEF RecordNotWritten, MemTyped
        <4> QED
          BY <4>1 DEF MemTyped
      <3> QED
        BY <3>1, <3>2, <3>3, MemEffects
    <2> QED
      BY <2>1, <2>2
  <1>2. memFiles' \in [DataTypes -> SUBSET MemEntries]
    <2>1. CASE UNCHANGED memFiles
      BY <2>1 DEF MemTyped
    <2>2. CASE RecordWrite
      BY <2>2 DEF RecordWrite, MemTyped
    <2>3. CASE DropCompressed
      <3>1. Remaining("retention") \in SUBSET MemEntries
        BY Jobs DEF Remaining, Job
      <3> QED
        BY <2>3, <3>1 DEF DropCompressed, MemTyped
    <2>4. CASE RemoveFiles
      BY <2>4 DEF RemoveFiles
    <2> QED
      BY <2>1, <2>2, <2>3, <2>4, MemEffects
  <1>3. archive' \in [DataTypes -> SUBSET MemEntries]
    <2>1. CASE UNCHANGED archive
      BY <2>1 DEF MemTyped
    <2>2. CASE CopyToArchive
      BY <2>2 DEF CopyToArchive, Archived, MemTyped
    <2> QED
      BY <2>1, <2>2, MemEffects
  <1>4. present' \subseteq DataTypes /\ early' \subseteq MemDims /\ raced' \in BOOLEAN
        /\ closes' \in Nat /\ memFaults' \in Nat
    <2>1. rec.id \in MemEntries /\ TypeOf[rec.id] \in DataTypes /\ jobs["retention"].type \in DataTypes
      BY Jobs DEF MemTyped, Job
    <2>2. present' \subseteq DataTypes /\ raced' \in BOOLEAN
      BY <2>1, MemEffects DEF RecordWrite, DropCompressed, RemoveFiles, MemTyped
    <2>3. early' \subseteq MemDims
      BY MemEffects DEF Judge, MemCrash, MemTyped
    <2>4. closes' \in Nat /\ memFaults' \in Nat
      BY MemEffects DEF StartClose, MemCrash, StoreFails, StoreSkipped, RecordNotWritten, MemTyped
    <2> QED
      BY <2>2, <2>3, <2>4
  <1>5. lessons' \subseteq LessonEntry /\ shared' \subseteq LessonEntry
    <2>1. ASSUME NEW j \in JobNames PROVE NewLessons(j) \subseteq LessonEntry
      <3>1. jobs[j].out \subseteq MemEntries /\ jobs[j].n \in 0 .. MaxLessons
        BY Jobs DEF Job
      <3> QED
        BY <3>1 DEF NewLessons, LessonEntry
    <2>2. CASE UNCHANGED <<lessons, shared>>
      BY <2>2 DEF MemTyped
    <2>3. ASSUME NEW j \in JobNames, StoreByGoal(j) \/ StoreShared(j)
          PROVE  lessons' \subseteq LessonEntry /\ shared' \subseteq LessonEntry
      BY <2>1, <2>3, Jobs DEF StoreByGoal, StoreShared, MemTyped, Job
    <2>4. CASE ArchiveLessons
      <3>1. \A l \in jobs["close"].base : [l EXCEPT !.status = "archived"] \in LessonEntry
        BY Jobs DEF Job, LessonEntry
      <3> QED
        BY <2>4, <3>1 DEF ArchiveLessons, MemTyped
    <2> QED
      BY <2>2, <2>3, <2>4, Jobs
      DEF MemNext, NextLoop, RecordRead, RecordWrite, Compress, ApplyRetentionPolicy, CollectShortTerm,
           StartClose, CloseNext, Distil, DistilThrows, StartStatistics,
           ReadByGoal, ReadShared, ReadForArchive, StoreSkipped, RecordNotWritten, UpdateStatistics, DropCompressed, CopyToArchive, RemoveFiles, Judge, MemCrash, StoreFails
  <1>6. counted' \in [MemEntries -> 0 .. 2]
    <2>1. CASE UNCHANGED counted
      BY <2>1 DEF MemTyped
    <2>2. CASE UpdateStatistics
      <3>1. PICK c \in counting :
              counted' = [e \in MemEntries |-> IF e \in c.add /\ c.seen[e] < 2 THEN c.seen[e] + 1 ELSE c.seen[e]]
        BY <2>2 DEF UpdateStatistics
      <3>2. \A e \in MemEntries : c.seen[e] \in 0 .. 2
        BY DEF MemTyped
      <3> QED
        BY <3>1, <3>2
    <2> QED
      BY <2>1, <2>2, MemEffects
  <1>7. IsFiniteSet(counting')
        /\ \A c \in counting' : c.seen \in [MemEntries -> 0 .. 2] /\ c.add \subseteq MemEntries
    <2>1. CASE UNCHANGED counting
      BY <2>1 DEF MemTyped
    <2>2. ASSUME NEW c \in counting, counting' = counting \ {c}
          PROVE  IsFiniteSet(counting')
                 /\ \A k \in counting' : k.seen \in [MemEntries -> 0 .. 2] /\ k.add \subseteq MemEntries
      BY <2>2, FS_RemoveElement DEF MemTyped
    <2>3. ASSUME NEW j \in JobNames, StartStatistics(j)
          PROVE  IsFiniteSet(counting')
                 /\ \A k \in counting' : k.seen \in [MemEntries -> 0 .. 2] /\ k.add \subseteq MemEntries
      <3>1. counting' = counting \cup {[seen |-> counted, add |-> jobs[j].out]} /\ jobs[j].out \subseteq MemEntries
        BY <2>3, Jobs DEF StartStatistics, Job
      <3> DEFINE new == [seen |-> counted, add |-> jobs[j].out]
      <3>2. new.seen \in [MemEntries -> 0 .. 2] /\ new.add \subseteq MemEntries
        BY <3>1 DEF MemTyped
      <3>3. counting' = counting \cup {new}
        BY <3>1
      <3> HIDE DEF new
      <3>4. IsFiniteSet(counting')
        BY <3>3, FS_AddElement DEF MemTyped
      <3> QED
        BY <3>2, <3>3, <3>4 DEF MemTyped
    <2>4. CASE MemCrash
      BY <2>4, FS_EmptySet DEF MemCrash
    <2> QED
      BY <2>1, <2>2, <2>3, <2>4, MemEffects DEF UpdateStatistics
  <1>8. rec' \in [pc : {"idle", "write"}, id : MemEntries, read : SUBSET MemEntries]
    <2>1. CASE UNCHANGED rec
      BY <2>1 DEF MemTyped
    <2>2. ASSUME NEW e \in MemEntries, RecordRead(e)
          PROVE  rec' \in [pc : {"idle", "write"}, id : MemEntries, read : SUBSET MemEntries]
      <3>1. memFiles[TypeOf[e]] \subseteq MemEntries
        BY DEF MemTyped
      <3> QED
        BY <2>2, <3>1 DEF RecordRead
    <2>3. CASE RecordWrite \/ RecordNotWritten \/ MemCrash
      BY <2>3, Jobs DEF RecordWrite, RecordNotWritten, MemCrash
    <2> QED
      BY <2>1, <2>2, <2>3, MemEffects
  <1>9. mislaid' \subseteq MemEntries
    BY MislaidTyped
  <1> QED
    BY <1>0, <1>1, <1>2, <1>3, <1>4, <1>5, <1>6, <1>7, <1>8, <1>9 DEF MemTyped

\* The steps of the compression and of the closing, one after the other.
SameWork(j) ==
    jobs'[j].type = jobs[j].type /\ jobs'[j].read = jobs[j].read /\ jobs'[j].out = jobs[j].out

\* A job that goes on: the model has answered, a file is read, a file is written.
GoesOn(j) ==
    \/ /\ Distil(j) /\ jobs[j].pc = "distil" /\ jobs'[j].pc = "byGoal"
       /\ j = "close" \/ QualityPassed(jobs'[j].n, jobs'[j].out)
    \/ ReadByGoal(j) /\ jobs[j].pc = "byGoal" /\ jobs'[j].pc = "putByGoal" /\ jobs'[j].n = jobs[j].n
    \/ (StoreByGoal(j) \/ StoreSkipped(j)) /\ jobs[j].pc = "putByGoal" /\ jobs'[j].pc = "shared"
    \/ ReadShared(j) /\ jobs[j].pc = "shared" /\ jobs'[j].pc = "putShared"
    \/ (StoreShared(j) \/ StoreSkipped(j)) /\ jobs[j].pc = "putShared" /\ jobs'[j].pc = "stats"
Stage(j) ==
    \/ Distil(j) \/ ReadByGoal(j) \/ StoreByGoal(j) \/ ReadShared(j) \/ StoreShared(j) \/ StoreSkipped(j)
    \/ StartStatistics(j) \/ DistilThrows(j) \/ StoreFails(j)

LEMMA StageSteps ==
  ASSUME MemTyped, NEW j \in JobNames, Stage(j)
  PROVE  /\ \/ jobs'[j] = Idle /\ jobs[j].pc \in {"distil", "mark"} \cup Busy
            \/ jobs'[j] = After(j) /\ jobs[j].pc \in Busy
            \/ SameWork(j) /\ GoesOn(j)
            \/ j = "retention" /\ SameWork(j) /\ StartStatistics(j) /\ jobs[j].pc = "stats" /\ jobs'[j].pc = "drop"
         /\ StartStatistics(j) => jobs[j].pc = "stats" /\
               (IF j = "close" THEN jobs'[j] = After(j) ELSE SameWork(j) /\ jobs'[j].pc = "drop")
         /\ \A k \in JobNames \ {j} : jobs'[k] = jobs[k]
  <1>1. jobs \in [JobNames -> Job] /\ jobs[j] \in Job
    BY DEF MemTyped
  <1>2. ASSUME Distil(j) PROVE jobs'[j] = After(j) \/ (SameWork(j) /\ GoesOn(j))
    <2>1. PICK n \in 0 .. MaxLessons :
            jobs' = [jobs EXCEPT ![j] =
              IF j = "close" \/ QualityPassed(n, jobs[j].out)
              THEN [@ EXCEPT !.pc = "byGoal", !.n = n] ELSE After(j)]
      BY <1>2 DEF Distil
    <2>2. CASE j = "close" \/ QualityPassed(n, jobs[j].out)
      <3>1. jobs'[j] = [jobs[j] EXCEPT !.pc = "byGoal", !.n = n]
        BY <1>1, <2>1, <2>2
      <3>2. jobs'[j].pc = "byGoal" /\ jobs'[j].n = n /\ jobs'[j].out = jobs[j].out
            /\ jobs'[j].read = jobs[j].read /\ jobs'[j].type = jobs[j].type
        BY <1>1, <3>1 DEF Job
      <3>3. jobs[j].pc = "distil"
        BY <1>2 DEF Distil
      <3> QED
        BY <1>2, <2>2, <3>2, <3>3 DEF SameWork, GoesOn
    <2>3. CASE ~(j = "close" \/ QualityPassed(n, jobs[j].out))
      BY <1>1, <2>1, <2>3
    <2> QED
      BY <2>2, <2>3
  <1>3. ASSUME ReadByGoal(j) PROVE SameWork(j) /\ GoesOn(j)
    <2>1. jobs[j].pc = "byGoal" /\ jobs'[j] = [jobs[j] EXCEPT !.pc = "putByGoal", !.base = lessons]
      BY <1>1, <1>3 DEF ReadByGoal
    <2> QED
      BY <1>1, <1>3, <2>1 DEF SameWork, GoesOn, Job
  <1>4. ASSUME ReadShared(j) PROVE SameWork(j) /\ GoesOn(j)
    <2>1. jobs[j].pc = "shared" /\ jobs'[j] = [jobs[j] EXCEPT !.pc = "putShared", !.base = shared]
      BY <1>1, <1>4 DEF ReadShared
    <2> QED
      BY <1>1, <1>4, <2>1 DEF SameWork, GoesOn, Job
  <1>5. ASSUME StoreByGoal(j) \/ StoreShared(j) PROVE SameWork(j) /\ GoesOn(j)
    BY <1>1, <1>5 DEF StoreByGoal, StoreShared, SameWork, GoesOn, Job
  <1>6. ASSUME StoreSkipped(j) PROVE SameWork(j) /\ GoesOn(j)
    <2>1. jobs'[j] = [jobs[j] EXCEPT !.pc = IF jobs[j].pc = "putByGoal" THEN "shared" ELSE "stats"]
          /\ jobs[j].pc \in {"putByGoal", "putShared"}
      BY <1>1, <1>6 DEF StoreSkipped
    <2> QED
      BY <1>1, <1>6, <2>1 DEF SameWork, GoesOn, Job
  <1>7. ASSUME StartStatistics(j)
        PROVE  jobs[j].pc = "stats" /\
               (IF j = "close" THEN jobs'[j] = After(j) ELSE SameWork(j) /\ jobs'[j].pc = "drop")
    <2>1. jobs[j].pc = "stats"
          /\ jobs' = [jobs EXCEPT ![j] = IF j = "close" THEN After(j) ELSE [@ EXCEPT !.pc = "drop"]]
      BY <1>7 DEF StartStatistics
    <2>2. CASE j = "close"
      BY <1>1, <2>1, <2>2
    <2>3. CASE j # "close"
      <3>1. jobs'[j] = [jobs[j] EXCEPT !.pc = "drop"]
        BY <1>1, <2>1, <2>3
      <3> QED
        BY <1>1, <2>1, <2>3, <3>1 DEF SameWork, Job
    <2> QED
      BY <2>2, <2>3
  <1>8. ASSUME DistilThrows(j) \/ StoreFails(j)
        PROVE  \/ jobs'[j] = Idle /\ jobs[j].pc \in {"distil", "mark"} \cup Busy
               \/ jobs'[j] = After(j) /\ jobs[j].pc \in Busy
    BY <1>1, <1>8 DEF DistilThrows, StoreFails, Busy
  <1>9. ASSUME NEW k \in JobNames \ {j} PROVE jobs'[k] = jobs[k]
    BY <1>1
    DEF Stage, Distil, ReadByGoal, StoreByGoal, ReadShared, StoreShared, StoreSkipped, StartStatistics,
        DistilThrows, StoreFails
  <1>10. Distil(j) => jobs[j].pc \in Busy
    BY DEF Distil, Busy
  <1>11. j = "close" \/ j = "retention"
    BY DEF JobNames
  <1>12. ASSUME StartStatistics(j)
         PROVE  \/ jobs'[j] = After(j) /\ jobs[j].pc \in Busy
                \/ j = "retention" /\ SameWork(j) /\ jobs[j].pc = "stats" /\ jobs'[j].pc = "drop"
    BY <1>7, <1>11, <1>12 DEF Busy
  <1> QED
    BY <1>2, <1>3, <1>4, <1>5, <1>6, <1>7, <1>8, <1>9, <1>10, <1>12 DEF Stage

\* Who moves the jobs.
LEMMA JobMoves ==
  ASSUME MemTyped, MemNext
  PROVE  \/ UNCHANGED jobs \/ (\E t \in DataTypes : Compress(t)) \/ DropCompressed \/ MemCrash
         \/ StartClose \/ CloseNext \/ CopyToArchive \/ RemoveFiles \/ ReadForArchive \/ ArchiveLessons
         \/ \E j \in JobNames : Stage(j)
  BY Jobs
  DEF MemNext, NextLoop, RecordRead, RecordWrite, RecordNotWritten, UpdateStatistics, Judge, ApplyRetentionPolicy,
      CollectShortTerm, Stage

LEMMA RetentionSteps ==
  ASSUME MemTyped, MemNext
  PROVE  \/ jobs'["retention"] = jobs["retention"] \/ jobs'["retention"] = Idle
         \/ /\ jobs'["retention"].pc = "distil" /\ jobs'["retention"].out \subseteq jobs'["retention"].read
            /\ jobs'["retention"].type \in DataTypes
            /\ jobs'["retention"].read = memFiles[jobs'["retention"].type]
            /\ Compress(jobs'["retention"].type)
         \/ SameWork("retention") /\ GoesOn("retention")
         \/ /\ SameWork("retention") /\ StartStatistics("retention")
            /\ jobs["retention"].pc = "stats" /\ jobs'["retention"].pc = "drop"
  <1>1. jobs \in [JobNames -> Job] /\ "retention" \in JobNames /\ "close" \in JobNames /\ "close" # "retention"
    BY DEF MemTyped, JobNames
  <1>2. CASE jobs'["retention"] = jobs["retention"]
    BY <1>2
  <1>3. ASSUME NEW t \in DataTypes, Compress(t)
        PROVE  /\ jobs'["retention"].pc = "distil" /\ jobs'["retention"].out \subseteq jobs'["retention"].read
               /\ jobs'["retention"].type = t
               /\ jobs'["retention"].read = memFiles[jobs'["retention"].type]
    <2>1. jobs'["retention"] =
            [Idle EXCEPT !.pc = "distil", !.type = t, !.read = memFiles[t], !.out = Expired(memFiles[t])]
      BY <1>1, <1>3 DEF Compress
    <2>2. /\ jobs'["retention"].pc = "distil" /\ jobs'["retention"].type = t
          /\ jobs'["retention"].read = memFiles[t] /\ jobs'["retention"].out = Expired(memFiles[t])
      BY <2>1, Jobs DEF Job
    <2> QED
      BY <2>2 DEF Expired
  <1>4. ASSUME NEW j \in JobNames, Stage(j)
        PROVE  jobs'["retention"] = jobs["retention"] \/ j = "retention"
    BY <1>1, <1>4, StageSteps
  <1>5. CASE DropCompressed \/ MemCrash
    BY <1>1, <1>5 DEF DropCompressed, MemCrash
  <1>6. CASE StartClose \/ CloseNext \/ CopyToArchive \/ RemoveFiles \/ ReadForArchive \/ ArchiveLessons
    BY <1>1, <1>6 DEF StartClose, CloseNext, CopyToArchive, RemoveFiles, ReadForArchive, ArchiveLessons
  <1>7. CASE Stage("retention")
    BY <1>1, <1>7, StageSteps, Jobs
  <1> QED
    BY <1>1, <1>2, <1>3, <1>4, <1>5, <1>6, <1>7, JobMoves

LEMMA CloseSteps ==
  ASSUME MemTyped, MemNext
  PROVE  \/ jobs'["close"] = jobs["close"] \/ jobs'["close"] = Idle
         \/ jobs'["close"] = After("close") /\ jobs["close"].pc \in Busy
         \/ jobs'["close"].pc = "next" /\ (StartClose \/ CloseNext)
         \/ jobs'["close"].pc = "archive" /\ CloseNext
         \/ /\ CloseNext /\ jobs'["close"].pc = "distil" /\ jobs'["close"].out = jobs'["close"].read
            /\ jobs'["close"].type \in DataTypes
            /\ jobs'["close"].read = memFiles[jobs'["close"].type]
         \/ SameWork("close") /\ GoesOn("close")
         \/ CopyToArchive /\ jobs'["close"].pc \in {"rm", "lessons"}
         \/ RemoveFiles /\ jobs'["close"].pc = "lessons"
         \/ ReadForArchive /\ jobs["close"].pc = "lessons" /\ jobs'["close"].pc = "mark"
  <1>1. jobs \in [JobNames -> Job] /\ "retention" \in JobNames /\ "close" \in JobNames /\ "close" # "retention"
        /\ jobs["close"] \in Job
    BY DEF MemTyped, JobNames
  <1>2. CASE jobs'["close"] = jobs["close"]
    BY <1>2
  <1>3. CASE StartClose
    <2>1. jobs'["close"] = [Idle EXCEPT !.pc = "next", !.todo = DataTypes]
      BY <1>1, <1>3 DEF StartClose
    <2> QED
      BY <1>3, <2>1, Jobs DEF Job
  <1>4. CASE CloseNext
    <2>1. CASE jobs' = [jobs EXCEPT !["close"].pc = "archive"]
      BY <1>1, <1>4, <2>1 DEF Job
    <2>2. ASSUME NEW t \in jobs["close"].todo,
                 jobs' = [jobs EXCEPT !["close"] =
                   [jobs["close"] EXCEPT !.todo = @ \ {t}, !.pc = IF memFiles[t] = {} THEN "next" ELSE "distil",
                             !.type = t, !.read = memFiles[t], !.out = memFiles[t]]]
          PROVE  /\ jobs'["close"].out = jobs'["close"].read /\ jobs'["close"].type = t /\ t \in DataTypes
                 /\ jobs'["close"].read = memFiles[t]
                 /\ jobs'["close"].pc = IF memFiles[t] = {} THEN "next" ELSE "distil"
      <3>1. jobs'["close"] =
                   [jobs["close"] EXCEPT !.todo = @ \ {t}, !.pc = IF memFiles[t] = {} THEN "next" ELSE "distil",
                             !.type = t, !.read = memFiles[t], !.out = memFiles[t]]
        BY <1>1, <2>2
      <3>2. t \in DataTypes
        BY <1>1 DEF Job
      <3> QED
        BY <1>1, <3>1, <3>2 DEF Job
    <2> QED
      BY <1>4, <2>1, <2>2 DEF CloseNext
  <1>5. CASE CopyToArchive
    <2>1. CASE jobs' = [jobs EXCEPT !["close"].pc = "lessons"]
      BY <1>1, <1>5, <2>1 DEF Job
    <2>2. CASE jobs' = [jobs EXCEPT !["close"].pc = "rm", !["close"].read = InFiles]
      BY <1>1, <1>5, <2>2 DEF Job
    <2> QED
      BY <1>5, <2>1, <2>2 DEF CopyToArchive
  <1>6. CASE RemoveFiles
    <2>1. jobs'["close"] = [Idle EXCEPT !.pc = "lessons"]
      BY <1>1, <1>6 DEF RemoveFiles
    <2> QED
      BY <1>6, <2>1, Jobs DEF Job
  <1>7. CASE ArchiveLessons \/ MemCrash
    BY <1>1, <1>7 DEF ArchiveLessons, MemCrash
  <1>8. CASE DropCompressed \/ \E t \in DataTypes : Compress(t)
    BY <1>1, <1>8 DEF DropCompressed, Compress
  <1>9. ASSUME NEW j \in JobNames, Stage(j)
        PROVE  jobs'["close"] = jobs["close"] \/ j = "close"
    BY <1>1, <1>9, StageSteps
  <1>10. CASE Stage("close")
    BY <1>1, <1>10, StageSteps
  <1>11. CASE ReadForArchive
    <2>1. jobs["close"].pc = "lessons" /\ jobs'["close"] = [jobs["close"] EXCEPT !.pc = "mark", !.base = lessons]
      BY <1>1, <1>11 DEF ReadForArchive
    <2> QED
      BY <1>1, <1>11, <2>1 DEF Job
  <1> QED
    BY <1>1, <1>2, <1>3, <1>4, <1>5, <1>6, <1>7, <1>8, <1>9, <1>10, <1>11, JobMoves

LEMMA RecordedGrows ==
  ASSUME MemTyped, MemNext
  PROVE  /\ Recorded \subseteq Recorded' /\ (RecordWrite => Recorded' = Recorded \cup {rec.id})
         /\ ~RecordWrite => Recorded' \subseteq Recorded \cup mislaid'
  <1>1. CASE RecordWrite
    <2>1. loopOf' = [loopOf EXCEPT ![rec.id] = memLoop] /\ rec.id \in MemEntries /\ memLoop \in Nat
      BY <1>1 DEF RecordWrite, MemTyped
    <2>2. loopOf'[rec.id] >= 0 /\ \A e \in MemEntries \ {rec.id} : loopOf'[e] = loopOf[e]
      BY <2>1 DEF MemTyped
    <2> QED
      BY <1>1, <2>1, <2>2 DEF Recorded
  <1>2. CASE RecordNotWritten /\ ~UNCHANGED loopOf
    <2>1. loopOf' = [loopOf EXCEPT ![rec.id] = memLoop] /\ rec.id \in MemEntries /\ memLoop \in Nat
      BY <1>2 DEF RecordNotWritten, MemTyped
    <2>2. loopOf'[rec.id] >= 0 /\ \A e \in MemEntries \ {rec.id} : loopOf'[e] = loopOf[e]
      BY <2>1 DEF MemTyped
    <2>3. ~RecordWrite
      BY <1>2 DEF RecordNotWritten, RecordWrite, MemTyped
    <2>4. rec.id \in mislaid'
      BY <1>2 DEF RecordNotWritten
    <2> QED
      BY <2>1, <2>2, <2>3, <2>4 DEF Recorded
  <1>3. CASE UNCHANGED loopOf /\ ~RecordWrite
    BY <1>3 DEF Recorded
  <1> QED
    BY <1>1, <1>2, <1>3, MemEffects

LEMMA InPlaceKept ==
  ASSUME MemTyped, InPlace, MemNext
  PROVE  InPlace'
  <1>0. Recorded \subseteq Recorded' /\ (RecordWrite => Recorded' = Recorded \cup {rec.id})
    BY RecordedGrows
  <1>1. \A t \in DataTypes : \A e \in memFiles'[t] : TypeOf[e] = t /\ e \in Recorded' /\ t \in present'
    <2>1. CASE UNCHANGED <<memFiles, present, raced>>
      BY <1>0, <2>1 DEF InPlace
    <2>2. CASE RecordWrite
      <3>1. /\ memFiles' = [memFiles EXCEPT ![TypeOf[rec.id]] = rec.read \union {rec.id}]
            /\ present' = present \union {TypeOf[rec.id]} /\ rec.pc = "write"
            /\ rec.id \in MemEntries /\ TypeOf[rec.id] \in DataTypes
        BY <2>2 DEF RecordWrite, MemTyped
      <3>2. ASSUME NEW t \in DataTypes, NEW e \in memFiles'[t]
            PROVE  TypeOf[e] = t /\ e \in Recorded' /\ t \in present'
        <4>1. CASE t = TypeOf[rec.id]
          <5>1. e \in rec.read \union {rec.id}
            BY <3>1, <3>2, <4>1 DEF MemTyped
          <5> QED
            BY <1>0, <2>2, <3>1, <4>1, <5>1 DEF InPlace
        <4>2. CASE t # TypeOf[rec.id]
          <5>1. e \in memFiles[t]
            BY <3>1, <3>2, <4>2 DEF MemTyped
          <5> QED
            BY <1>0, <3>1, <5>1 DEF InPlace
        <4> QED
          BY <4>1, <4>2
      <3> QED
        BY <3>2
    <2>3. CASE DropCompressed
      <3>1. /\ memFiles' = [memFiles EXCEPT ![jobs["retention"].type] = Remaining("retention")]
            /\ present' = present \union {jobs["retention"].type} /\ jobs["retention"].pc = "drop"
            /\ jobs["retention"].type \in DataTypes
        BY <2>3, Jobs DEF DropCompressed, Job
      <3>2. ASSUME NEW t \in DataTypes, NEW e \in memFiles'[t]
            PROVE  TypeOf[e] = t /\ e \in Recorded' /\ t \in present'
        <4>1. CASE t = jobs["retention"].type
          <5>1. e \in jobs["retention"].read
            BY <3>1, <3>2, <4>1 DEF MemTyped, Remaining
          <5> QED
            BY <1>0, <3>1, <4>1, <5>1, Jobs DEF InPlace, Busy
        <4>2. CASE t # jobs["retention"].type
          <5>1. e \in memFiles[t]
            BY <3>1, <3>2, <4>2 DEF MemTyped
          <5> QED
            BY <1>0, <3>1, <5>1 DEF InPlace
        <4> QED
          BY <4>1, <4>2
      <3> QED
        BY <3>2
    <2>4. CASE RemoveFiles
      BY <2>4 DEF RemoveFiles
    <2> QED
      BY <2>1, <2>2, <2>3, <2>4, MemEffects
  <1>2. rec'.pc = "write" =>
          rec'.id \notin Recorded' /\ \A e \in rec'.read : TypeOf[e] = TypeOf[rec'.id] /\ e \in Recorded'
    <2>1. ASSUME NEW e \in MemEntries, RecordRead(e)
          PROVE  rec'.id \notin Recorded' /\ \A k \in rec'.read : TypeOf[k] = TypeOf[rec'.id] /\ k \in Recorded'
      <3>1. rec'.id = e /\ rec'.read = memFiles[TypeOf[e]] /\ loopOf[e] = -1 /\ UNCHANGED loopOf
            /\ TypeOf[e] \in DataTypes
        BY <2>1 DEF RecordRead
      <3> QED
        BY <3>1 DEF InPlace, Recorded
    <2>2. CASE RecordWrite \/ RecordNotWritten \/ MemCrash
      BY <2>2, Jobs DEF RecordWrite, RecordNotWritten, MemCrash
    <2>3. CASE UNCHANGED rec /\ ~RecordWrite /\ ~RecordNotWritten
      BY <1>0, <2>3, MemEffects DEF InPlace, Recorded
    <2> QED
      BY <2>1, <2>2, <2>3, MemEffects
  <1>3. ASSUME NEW j \in JobNames, jobs'[j].pc \in Busy
        PROVE  /\ jobs'[j].out \subseteq jobs'[j].read
               /\ \A e \in jobs'[j].read : TypeOf[e] = jobs'[j].type /\ e \in Recorded'
    <2>1. CASE jobs'[j] = jobs[j] \/ (SameWork(j) /\ jobs[j].pc \in Busy)
      BY <1>0, <1>3, <2>1 DEF InPlace, SameWork, Busy
    <2>2. CASE /\ jobs'[j].out \subseteq jobs'[j].read
               /\ jobs'[j].type \in DataTypes /\ jobs'[j].read = memFiles[jobs'[j].type]
      BY <1>0, <2>2 DEF InPlace
    <2>3. CASE j = "retention"
      BY <1>3, <2>1, <2>2, <2>3, RetentionSteps, Jobs DEF Busy, GoesOn
    <2>4. CASE j = "close"
      BY <1>3, <2>1, <2>2, <2>4, CloseSteps, Jobs DEF Busy, GoesOn
    <2> QED
      BY <2>3, <2>4 DEF JobNames
  <1> QED
    BY <1>1, <1>2, <1>3 DEF InPlace, Busy

LEMMA LessonsStay ==
  ASSUME MemTyped, MemNext, NEW e, LessonFor(e)
  PROVE  LessonFor(e)' \/ e \in mislaid'
  <1>1. e \in Learned(lessons)
    BY DEF LessonFor, Learned
  <1>2. CASE UNCHANGED lessons
    BY <1>2 DEF LessonFor
  <1>3. CASE e \in Learned(lessons')
    BY <1>3 DEF LessonFor, Learned
  <1>4. CASE e \notin Learned(lessons') /\ ~UNCHANGED lessons
    BY <1>1, <1>4, MemEffects DEF StoreByGoal, ArchiveLessons
  <1> QED
    BY <1>2, <1>3, <1>4

LEMMA DistilledKept ==
  ASSUME MemTyped, InPlace, Distilled, MemNext
  PROVE  Distilled'
  <1> DEFINE r == jobs["retention"]
             s == jobs'["retention"]
  <1>1. ASSUME s.pc \in {"byGoal", "putByGoal"} PROVE QualityPassed(s.n, s.out)
    <2>1. CASE s = r
      BY <1>1, <2>1 DEF Distilled
    <2>2. CASE SameWork("retention") /\ s.n = r.n /\ r.pc = "byGoal"
      BY <1>1, <2>2 DEF Distilled, SameWork
    <2> QED
      BY <1>1, <2>1, <2>2, RetentionSteps, Jobs DEF GoesOn
  <1>2. ASSUME s.pc \in Drawn, NEW e \in s.out \cap FailedEntries
        PROVE  e \in mislaid' \/ LessonFor(e)'
    <2>1. CASE s.out = r.out /\ r.pc \in Drawn
      <3>1. e \in mislaid \/ LessonFor(e)
        BY <1>2, <2>1 DEF Distilled
      <3> QED
        BY <3>1, LessonsStay, MemEffects
    <2>2. CASE SameWork("retention") /\ StoreByGoal("retention")
      <3>1. QualityPassed(r.n, r.out) /\ s.out = r.out /\ r.n \in Nat /\ r.out \subseteq MemEntries
        BY <2>2, Jobs DEF Distilled, SameWork, Job, StoreByGoal
      <3>2. IsFiniteSet(r.out \cap FailedEntries)
        BY <3>1, FS_Subset
      <3>3. Cardinality(r.out \cap FailedEntries) \in Nat /\ Cardinality(r.out \cap FailedEntries) # 0
        BY <1>2, <3>1, <3>2, FS_CardinalityType, FS_EmptySet
      <3>4. r.n # 0
        BY <3>1, <3>3 DEF QualityPassed
      <3>5. [from |-> r.out, n |-> r.n, status |-> "active"] \in lessons'
        BY <2>2, <3>4 DEF StoreByGoal, NewLessons
      <3>6. [from |-> r.out, n |-> r.n, status |-> "active"].from = r.out
        OBVIOUS
      <3> QED
        BY <1>2, <3>1, <3>5, <3>6 DEF LessonFor
    <2>3. CASE SameWork("retention") /\ StoreSkipped("retention") /\ r.pc = "putByGoal"
      <3>1. mislaid' = mislaid \union (r.out \ Learned(lessons)) /\ UNCHANGED lessons /\ s.out = r.out
        BY <2>3 DEF StoreSkipped, SameWork
      <3>2. CASE e \in Learned(lessons)
        BY <3>1, <3>2 DEF Learned, LessonFor
      <3>3. CASE e \notin Learned(lessons)
        BY <1>2, <3>1, <3>3
      <3> QED
        BY <3>2, <3>3
    <2>4. CASE SameWork("retention") /\ GoesOn("retention")
      BY <1>2, <2>1, <2>2, <2>3, <2>4 DEF SameWork, GoesOn, Drawn
    <2>5. CASE SameWork("retention") /\ r.pc = "stats"
      BY <2>1, <2>5 DEF SameWork, Drawn
    <2>6. CASE s = r
      BY <1>2, <2>1, <2>6
    <2>7. s # Idle /\ s.pc # "distil"
      BY <1>2, Jobs DEF Drawn
    <2> QED
      BY <2>4, <2>5, <2>6, <2>7, RetentionSteps
  <1> QED
    BY <1>1, <1>2 DEF Distilled, QualityPassed, LessonFor

LEMMA ClosingKept ==
  ASSUME MemTyped, InPlace, Closing, MemNext
  PROVE  Closing'
  <1> DEFINE c == jobs["close"]
             d == jobs'["close"]
             Before == Uncounted \cup {"next", "archive"}
  <1>0. SameWork("close") /\ GoesOn("close") => c.pc \in Uncounted /\ d.pc \in Uncounted
    BY DEF GoesOn, Uncounted
  <1>1. jobs'["retention"].pc \in Busy \cup {"idle"}
    BY RetentionSteps, Jobs DEF Closing, Busy, GoesOn
  <1>2. d.pc # "drop"
    BY <1>0, CloseSteps, Jobs DEF Closing, Uncounted
  <1>3. closes' = 0 => d.pc = "idle"
    <2>1. StartClose => closes' # 0
      BY DEF StartClose, MemTyped
    <2>2. closes' = 0 => closes = 0 /\ c.pc = "idle"
      BY <2>1, MemEffects DEF Closing
    <2>3. c.pc = "idle" => ~CloseNext /\ c.pc \notin Uncounted /\ c.pc \notin Busy /\ ~CopyToArchive /\ ~RemoveFiles
                          /\ ~ReadForArchive
      BY DEF CloseNext, CopyToArchive, RemoveFiles, ReadForArchive, Uncounted, Busy
    <2> QED
      BY <1>0, <2>1, <2>2, <2>3, CloseSteps, Jobs
  <1>4. ASSUME closes' = 0 \/ (closes' = 1 /\ d.pc \in Before), NEW t \in DataTypes
        PROVE  archive'[t] = {}
    <2>1. CASE StartClose
      <3>1. closes = 0 /\ UNCHANGED archive
        BY <1>4, <2>1 DEF StartClose, MemTyped
      <3> QED
        BY <3>1 DEF Closing
    <2>2. CASE ~StartClose
      <3>1. closes' = closes
        BY <2>2, MemEffects
      <3>2. closes = 0 \/ (closes = 1 /\ c.pc \in Before)
        <4>1. CASE closes = 0
          BY <4>1
        <4>2. CASE closes = 1 /\ d.pc \in Before
          <5>1. d.pc # "idle" /\ d.pc # "rm" /\ d.pc # "lessons" /\ d.pc # "mark"
            BY <4>2 DEF Uncounted
          <5>2. CloseNext => c.pc \in Before
            BY DEF CloseNext
          <5>3. c.pc \in Busy => c.pc \in Before
            BY DEF Busy, Uncounted, Closing
          <5> QED
            BY <1>0, <2>2, <4>2, <5>1, <5>2, <5>3, CloseSteps, Jobs
        <4> QED
          BY <1>4, <3>1, <4>1, <4>2
      <3>3. archive[t] = {}
        BY <3>2 DEF Closing
      <3>4. CASE CopyToArchive
        <4>1. d.pc \in {"rm", "lessons"}
          <5>1. c \in Job /\ jobs \in [JobNames -> Job]
            BY Jobs DEF MemTyped
          <5> QED
            BY <3>4, <5>1, Jobs DEF CopyToArchive, Job
        <4>2. closes = 0 /\ c.pc = "archive"
          BY <1>4, <3>1, <3>4, <4>1 DEF CopyToArchive, Uncounted
        <4> QED
          BY <4>2 DEF Closing
      <3>5. CASE UNCHANGED archive
        BY <3>3, <3>5
      <3> QED
        BY <3>4, <3>5, MemEffects
    <2> QED
      BY <2>1, <2>2
  <1>5. ASSUME d.pc = "rm", NEW e \in d.read PROVE e \in archive'[TypeOf[e]]
    <2>1. CASE d = c
      <3>1. ~CopyToArchive
        <4>1. CopyToArchive => c.pc = "archive"
          BY DEF CopyToArchive
        <4> QED
          BY <1>5, <2>1, <4>1
      <3> QED
        BY <1>5, <2>1, <3>1, MemEffects DEF Closing
    <2>2. CASE CopyToArchive
      <3>1. jobs \in [JobNames -> Job] /\ c \in Job
        BY Jobs DEF MemTyped
      <3>2. d.read = InFiles /\ archive' = [t \in DataTypes |-> IF t \in present THEN memFiles[t] ELSE archive[t]]
        BY <1>5, <2>2, <3>1, Jobs DEF CopyToArchive, Job, Archived
      <3>3. PICK t \in DataTypes : e \in memFiles[t]
        BY <1>5, <3>2 DEF InFiles
      <3>4. TypeOf[e] = t /\ t \in present
        BY <3>3 DEF InPlace
      <3> QED
        BY <3>2, <3>3, <3>4
    <2>3. d.pc \notin Uncounted
      BY <1>5 DEF Uncounted
    <2> QED
      BY <1>0, <1>5, <2>1, <2>2, <2>3, CloseSteps, Jobs
  <1> QED
    BY <1>1, <1>2, <1>3, <1>4, <1>5 DEF Closing

LEMMA FailureStays ==
  ASSUME MemTyped, InPlace, Distilled, Closing, FailureKept, MemNext
  PROVE  FailureKept'
  <1> SUFFICES ASSUME closes' <= 1, NEW e \in FailedEntries \cap Recorded', e \notin mislaid'
               PROVE  e \in memFiles'[TypeOf[e]] \/ e \in archive'[TypeOf[e]] \/ LessonFor(e)'
    BY DEF FailureKept, LessonFor
  <1> DEFINE t == TypeOf[e]
  <1>0. e \in MemEntries /\ t \in DataTypes /\ e \notin mislaid
    BY MemEffects DEF Recorded
  <1>1. closes <= 1
    <2>1. StartClose => closes <= closes'
      BY DEF StartClose, MemTyped
    <2> QED
      BY <2>1, MemEffects DEF MemTyped, StartClose
  <1>2. CASE RecordWrite
    <2>1. /\ memFiles' = [memFiles EXCEPT ![TypeOf[rec.id]] = rec.read \union {rec.id}]
          /\ mislaid' = mislaid \union (memFiles[TypeOf[rec.id]] \ rec.read) /\ UNCHANGED <<archive, lessons>>
      BY <1>2 DEF RecordWrite
    <2>2. CASE e = rec.id
      BY <1>0, <2>1, <2>2 DEF MemTyped
    <2>3. CASE e # rec.id
      <3>1. e \in Recorded
        BY <1>2, <2>3, RecordedGrows
      <3>2. e \in memFiles[t] \/ e \in archive[t] \/ LessonFor(e)
        BY <1>0, <1>1, <3>1 DEF FailureKept, LessonFor
      <3>3. e \in memFiles[t] => e \in memFiles'[t]
        BY <1>0, <2>1 DEF MemTyped
      <3> QED
        BY <2>1, <3>2, <3>3 DEF LessonFor
    <2> QED
      BY <2>2, <2>3
  <1>3. CASE ~RecordWrite
    <2>1. e \in Recorded
      BY <1>3, RecordedGrows
    <2>2. e \in memFiles[t] \/ e \in archive[t] \/ LessonFor(e)
      BY <1>0, <1>1, <2>1 DEF FailureKept, LessonFor
    <2>3. CASE LessonFor(e)
      BY <2>3, LessonsStay
    <2>4. CASE e \in archive[t]
      <3>1. CASE CopyToArchive
        <4>1. CASE UNCHANGED archive
          BY <2>4, <4>1
        <4>2. CASE archive' = [k \in DataTypes |-> IF k \in present THEN Archived(k) ELSE archive[k]]
          <5>1. jobs["close"].pc = "archive"
            BY <3>1 DEF CopyToArchive
          <5>2. closes = 0 \/ closes = 1
            BY <1>1 DEF MemTyped
          <5>3. archive[t] = {}
            BY <1>0, <5>1, <5>2 DEF Closing, Uncounted
          <5> QED
            BY <2>4, <5>3
        <4> QED
          BY <3>1, <4>1, <4>2 DEF CopyToArchive
      <3> QED
        BY <2>4, <3>1, MemEffects
    <2>5. CASE e \in memFiles[t]
      <3>1. CASE DropCompressed
        <4>1. /\ memFiles' = [memFiles EXCEPT ![jobs["retention"].type] = Remaining("retention")]
              /\ mislaid' = mislaid \union (memFiles[jobs["retention"].type] \ jobs["retention"].read)
              /\ jobs["retention"].pc = "drop" /\ UNCHANGED lessons
          BY <3>1 DEF DropCompressed
        <4>2. CASE t # jobs["retention"].type
          BY <1>0, <2>5, <4>1, <4>2 DEF MemTyped
        <4>3. CASE t = jobs["retention"].type
          <5>1. CASE e \in jobs["retention"].out
            BY <1>0, <4>1, <5>1 DEF Distilled, LessonFor, Drawn
          <5>2. CASE e \notin jobs["retention"].out
            BY <1>0, <2>5, <4>1, <4>3, <5>2 DEF MemTyped, Remaining
          <5> QED
            BY <5>1, <5>2
        <4> QED
          BY <4>2, <4>3
      <3>2. CASE RemoveFiles
        <4>1. jobs["close"].pc = "rm" /\ mislaid' = mislaid \union (InFiles \ jobs["close"].read)
              /\ UNCHANGED archive
          BY <3>2 DEF RemoveFiles
        <4>2. e \in InFiles
          BY <1>0, <2>5 DEF InFiles
        <4>3. e \in jobs["close"].read
          BY <4>1, <4>2
        <4> QED
          BY <4>1, <4>3 DEF Closing
      <3>3. CASE UNCHANGED memFiles
        BY <2>5, <3>3
      <3> QED
        BY <1>3, <3>1, <3>2, <3>3, MemEffects
    <2> QED
      BY <2>2, <2>3, <2>4, <2>5
  <1> QED
    BY <1>2, <1>3

\* Counting.
LEMMA CountsKept ==
  ASSUME MemTyped, InPlace, Closing, CountsApart, MemNext
  PROVE  CountsApart'
  <1> DEFINE r == jobs["retention"]
             s == jobs'["retention"]
  <1> SUFFICES ASSUME Undisturbed'
               PROVE  /\ \A c \in counting' : \A e \in MemEntries :
                          c.seen[e] \in {0, 1} /\ (e \in c.add => c.seen[e] = 0 /\ e \in Recorded')
                          /\ (c.seen[e] = 1 => e \in Recorded')
                      /\ \A c, k \in counting' : \A e \in MemEntries : e \in c.add /\ e \in k.add => c = k
                      /\ \A e \in MemEntries : counted'[e] \in {0, 1} /\ (counted'[e] = 1 => e \in Recorded')
                      /\ \A t \in DataTypes : \A e \in Done' \cap memFiles'[t] : s.pc = "drop" /\ e \in s.out
                      /\ s.pc \in Uncounted => s.out \cap Done' = {}
    BY DEF CountsApart
  <1>0. ~raced' /\ memFaults' = 0 /\ closes' = 0
    BY DEF Undisturbed
  <1>1. Undisturbed /\ ~StartClose /\ ~MemCrash /\ \A j \in JobNames : ~StoreFails(j) /\ ~StoreSkipped(j)
    <2>1. ~raced
      BY <1>0, MemEffects DEF RecordWrite, DropCompressed, RemoveFiles, MemTyped
    <2>2. ~StartClose /\ closes = 0
      BY <1>0, MemEffects DEF StartClose, MemTyped
    <2>3. ~MemCrash /\ (\A j \in JobNames : ~StoreFails(j) /\ ~StoreSkipped(j)) /\ memFaults = 0
      BY <1>0, MemEffects DEF MemCrash, StoreFails, StoreSkipped, RecordNotWritten, MemTyped
    <2> QED
      BY <2>1, <2>2, <2>3 DEF Undisturbed
  <1>2. /\ \A c \in counting : \A e \in MemEntries :
              c.seen[e] \in {0, 1} /\ (e \in c.add => c.seen[e] = 0 /\ e \in Recorded)
              /\ (c.seen[e] = 1 => e \in Recorded)
        /\ \A c, k \in counting : \A e \in MemEntries : e \in c.add /\ e \in k.add => c = k
        /\ \A e \in MemEntries : counted[e] \in {0, 1} /\ (counted[e] = 1 => e \in Recorded)
        /\ \A t \in DataTypes : \A e \in Done \cap memFiles[t] : r.pc = "drop" /\ e \in r.out
        /\ r.pc \in Uncounted => r.out \cap Done = {}
    BY <1>1 DEF CountsApart
  <1>3. jobs["close"].pc = "idle" /\ ~RemoveFiles /\ ~StartStatistics("close")
    BY <1>1 DEF Closing, Undisturbed, RemoveFiles, StartStatistics
  <1>4. Recorded \subseteq Recorded'
    BY RecordedGrows
  <1>5. Done \subseteq Recorded
    BY <1>2 DEF Done
  <1>6. CASE StartStatistics("retention")
    <2>1. /\ r.pc = "stats" /\ s.pc = "drop" /\ s.out = r.out
          /\ counting' = counting \cup {[seen |-> counted, add |-> r.out]}
          /\ UNCHANGED <<counted, loopOf, memFiles>>
      <3>1. Stage("retention") /\ "retention" \in JobNames
        BY <1>6, Jobs DEF Stage
      <3>2. r.pc = "stats" /\ s.pc = "drop" /\ s.out = r.out
        BY <1>6, <3>1, StageSteps DEF SameWork
      <3> QED
        BY <1>6, <3>2 DEF StartStatistics
    <2>2. r.out \cap Done = {} /\ r.out \subseteq Recorded /\ r.out \subseteq MemEntries
      BY <1>2, <2>1, Jobs DEF InPlace, Job, Busy, Uncounted
    <2> DEFINE new == [seen |-> counted, add |-> r.out]
    <2>3. new.seen = counted /\ new.add = r.out /\ counting' = counting \cup {new}
      BY <2>1
    <2> HIDE DEF new
    <2>4. \A e \in r.out : counted[e] = 0 /\ \A c \in counting : e \notin c.add
      <3> TAKE e \in r.out
      <3>1. e \notin Done /\ e \in MemEntries
        BY <2>2
      <3> QED
        BY <1>2, <3>1 DEF Done
    <2>5. Recorded' = Recorded
      BY <2>1 DEF Recorded
    <2>6. Done' = Done \cup r.out
      BY <2>1, <2>2, <2>3 DEF Done
    <2>7. \A c \in counting' : \A e \in MemEntries :
              c.seen[e] \in {0, 1} /\ (e \in c.add => c.seen[e] = 0 /\ e \in Recorded')
                          /\ (c.seen[e] = 1 => e \in Recorded')
      BY <1>2, <2>2, <2>3, <2>4, <2>5
    <2>8. \A c, k \in counting' : \A e \in MemEntries : e \in c.add /\ e \in k.add => c = k
      BY <1>2, <2>3, <2>4
    <2>9. \A e \in MemEntries : counted'[e] \in {0, 1} /\ (counted'[e] = 1 => e \in Recorded')
      BY <1>2, <2>1, <2>5
    <2>10. \A t \in DataTypes : \A e \in Done' \cap memFiles'[t] : s.pc = "drop" /\ e \in s.out
      BY <1>2, <2>1, <2>6
    <2>11. s.pc \notin Uncounted
      BY <2>1 DEF Uncounted
    <2> QED
      BY <2>1, <2>7, <2>8, <2>9, <2>10, <2>11
  <1>7. CASE UpdateStatistics
    <2>1. PICK c \in counting :
            /\ counting' = counting \ {c}
            /\ counted' = [e \in MemEntries |-> IF e \in c.add /\ c.seen[e] < 2 THEN c.seen[e] + 1 ELSE c.seen[e]]
      BY <1>7 DEF UpdateStatistics
    <2>2. UNCHANGED <<loopOf, memFiles, jobs>>
      BY <1>7 DEF UpdateStatistics
    <2>3. Recorded' = Recorded /\ c.seen \in [MemEntries -> 0 .. 2]
      BY <2>2 DEF Recorded, MemTyped
    <2>4. ASSUME NEW e \in MemEntries
          PROVE  /\ counted'[e] \in {0, 1} /\ (counted'[e] = 1 => e \in Recorded)
                 /\ (counted'[e] > 0 => e \in c.add \/ c.seen[e] > 0)
      <3>0. counted'[e] = IF e \in c.add /\ c.seen[e] < 2 THEN c.seen[e] + 1 ELSE c.seen[e]
        BY <2>1
      <3>1. c.seen[e] \in {0, 1} /\ (e \in c.add => c.seen[e] = 0 /\ e \in Recorded) /\ (c.seen[e] = 1 => e \in Recorded)
        BY <1>2
      <3> QED
        BY <3>0, <3>1
    <2>5. ASSUME NEW e \in Done' PROVE e \in Done
      <3>1. e \in MemEntries /\ (counted'[e] > 0 \/ \E k \in counting' : e \in k.add \/ k.seen[e] > 0)
        BY DEF Done
      <3>2. \E k \in counting : e \in k.add \/ k.seen[e] > 0
        BY <2>1, <2>4, <3>1
      <3> QED
        BY <3>1, <3>2 DEF Done
    <2>6. \A k \in counting' : k \in counting
      BY <2>1
    <2>7. \A k \in counting' : \A e \in MemEntries :
              k.seen[e] \in {0, 1} /\ (e \in k.add => k.seen[e] = 0 /\ e \in Recorded')
              /\ (k.seen[e] = 1 => e \in Recorded')
      BY <1>2, <2>3, <2>6
    <2>8. \A k, l \in counting' : \A e \in MemEntries : e \in k.add /\ e \in l.add => k = l
      BY <1>2, <2>6
    <2>9. \A e \in MemEntries : counted'[e] \in {0, 1} /\ (counted'[e] = 1 => e \in Recorded')
      BY <2>3, <2>4
    <2>10. \A t \in DataTypes : \A e \in Done' \cap memFiles'[t] : s.pc = "drop" /\ e \in s.out
      BY <1>2, <2>2, <2>5
    <2>11. s.pc \in Uncounted => s.out \cap Done' = {}
      BY <1>2, <2>2, <2>5
    <2> QED
      BY <2>7, <2>8, <2>9, <2>10, <2>11
  <1>8. CASE ~UpdateStatistics /\ ~StartStatistics("retention")
    <2>1. UNCHANGED <<counted, counting>>
      BY <1>1, <1>3, <1>8, MemEffects DEF JobNames
    <2>2. Done' = Done
      BY <2>1 DEF Done
    <2>3. /\ \A c \in counting' : \A e \in MemEntries :
              c.seen[e] \in {0, 1} /\ (e \in c.add => c.seen[e] = 0 /\ e \in Recorded')
              /\ (c.seen[e] = 1 => e \in Recorded')
          /\ \A c, k \in counting' : \A e \in MemEntries : e \in c.add /\ e \in k.add => c = k
          /\ \A e \in MemEntries : counted'[e] \in {0, 1} /\ (counted'[e] = 1 => e \in Recorded')
      BY <1>2, <1>4, <2>1
    <2>4. ASSUME NEW t \in DataTypes, NEW e \in Done \cap memFiles'[t]
          PROVE  s.pc = "drop" /\ e \in s.out
      <3>1. CASE RecordWrite
        <4>1. /\ memFiles' = [memFiles EXCEPT ![TypeOf[rec.id]] = rec.read \union {rec.id}]
              /\ memFiles[TypeOf[rec.id]] = rec.read /\ rec.id \notin Recorded /\ UNCHANGED jobs
          BY <1>0, <3>1 DEF RecordWrite, InPlace, MemTyped
        <4>2. e \in memFiles[t]
          BY <1>5, <2>4, <4>1 DEF MemTyped
        <4> QED
          BY <1>2, <2>4, <4>1, <4>2
      <3>2. CASE DropCompressed
        <4>1. /\ memFiles' = [memFiles EXCEPT ![r.type] = Remaining("retention")]
              /\ memFiles[r.type] = r.read /\ r.pc = "drop"
          BY <1>0, <3>2 DEF DropCompressed, MemTyped
        <4>2. e \in memFiles[t] /\ (t = r.type => e \notin r.out)
          BY <2>4, <4>1 DEF MemTyped, Remaining
        <4>3. e \in r.out /\ TypeOf[e] = t
          BY <1>2, <2>4, <4>2 DEF InPlace
        <4>4. TypeOf[e] = r.type
          BY <4>1, <4>3, Jobs DEF InPlace, Busy
        <4> QED
          BY <4>2, <4>3, <4>4
      <3>3. CASE ~RecordWrite /\ ~DropCompressed
        <4>1. e \in memFiles[t]
          BY <1>3, <2>4, <3>3, MemEffects
        <4>2. r.pc = "drop" /\ e \in r.out
          BY <1>2, <2>4, <4>1
        <4>3. s = r
          <5>1. jobs \in [JobNames -> Job] /\ r.pc # "idle"
            BY <4>2 DEF MemTyped
          <5>2. \A k \in DataTypes : ~Compress(k)
            BY <5>1 DEF Compress
          <5>3. ~Stage("retention")
            BY <1>1, <1>8, <3>3, <4>2
            DEF Stage, Distil, ReadByGoal, StoreByGoal, ReadShared, StoreShared, DistilThrows, JobNames
          <5>4. ~Stage("close")
            BY <1>1, <1>3
            DEF Stage, Distil, ReadByGoal, StoreByGoal, ReadShared, StoreShared, DistilThrows, JobNames
          <5>5. ~CloseNext /\ ~CopyToArchive /\ ~ReadForArchive /\ ~ArchiveLessons
            BY <1>3 DEF CloseNext, CopyToArchive, ReadForArchive, ArchiveLessons
          <5> QED
            BY <1>1, <1>3, <3>3, <5>2, <5>3, <5>4, <5>5, JobMoves DEF JobNames
        <4> QED
          BY <4>2, <4>3
      <3> QED
        BY <3>1, <3>2, <3>3
    <2>5. ASSUME s.pc \in Uncounted PROVE s.out \cap Done = {}
      <3>0. SameWork("retention") /\ GoesOn("retention") => r.pc \in Uncounted
        BY DEF GoesOn, Uncounted
      <3>1. CASE s = r \/ (SameWork("retention") /\ r.pc \in Uncounted)
        BY <1>2, <2>5, <3>1 DEF SameWork
      <3>2. ASSUME NEW t \in DataTypes, s.out \subseteq memFiles[t], Compress(t) PROVE s.out \cap Done = {}
        <4>1. r.pc = "idle"
          BY <3>2 DEF Compress
        <4> QED
          BY <1>2, <3>2, <4>1
      <3>3. s # Idle
        BY <2>5, Jobs DEF Uncounted
      <3> QED
        BY <1>8, <3>0, <3>1, <3>2, <3>3, RetentionSteps
    <2> QED
      BY <2>2, <2>3, <2>4, <2>5
  <1> QED
    BY <1>6, <1>7, <1>8

LEMMA MemStart == MemInit => MemInv
  <1> SUFFICES ASSUME MemInit PROVE MemInv
    OBVIOUS
  <1>1. Idle \in Job /\ Idle.pc = "idle" /\ NoRecording.pc = "idle"
        /\ NoRecording \in [pc : {"idle", "write"}, id : MemEntries, read : SUBSET MemEntries]
    BY DEF Idle, NoRecording, Job
  <1>2. MemTyped
    <2>1. memLoop \in 0 .. MaxMemLoop /\ loopOf \in [MemEntries -> -1 .. MaxMemLoop]
      BY DEF MemInit
    <2>2. IsFiniteSet(counting) /\ counting = {} /\ counted \in [MemEntries -> 0 .. 2]
      BY FS_EmptySet DEF MemInit
    <2>3. jobs \in [JobNames -> Job]
      BY <1>1 DEF MemInit, JobNames
    <2> QED
      BY <1>1, <2>1, <2>2, <2>3 DEF MemInit, MemTyped
  <1>3. Recorded = {} /\ \A j \in JobNames : jobs[j] = Idle
    BY DEF MemInit, Recorded, JobNames
  <1>4. "close" \in JobNames /\ "retention" \in JobNames
    BY DEF JobNames
  <1>5. InPlace /\ Distilled /\ Closing
    BY <1>1, <1>3, <1>4 DEF MemInit, InPlace, Distilled, Closing, Busy, Drawn, Uncounted
  <1>6. FailureKept /\ CountsApart
    BY <1>1, <1>3, <1>4 DEF MemInit, FailureKept, CountsApart, Done, Uncounted
  <1> QED
    BY <1>2, <1>5, <1>6 DEF MemInv

LEMMA MemKeeps == MemInv /\ [MemNext]_memVars => MemInv'
  <1> SUFFICES ASSUME MemInv, [MemNext]_memVars PROVE MemInv'
    OBVIOUS
  <1>1. CASE MemNext
    BY <1>1, MemTypesKept, InPlaceKept, DistilledKept, ClosingKept, FailureStays, CountsKept DEF MemInv
  <1>2. CASE UNCHANGED memVars
    BY <1>2 DEF memVars, MemInv, MemTyped, InPlace, Distilled, Closing, FailureKept, CountsApart, Undisturbed,
                Done, Recorded, LessonFor
  <1> QED
    BY <1>1, <1>2

LEMMA MemTypes == MemInv => MemTypeOK
  <1> SUFFICES ASSUME MemInv PROVE MemTypeOK
    OBVIOUS
  <1>1. MemTyped
    BY DEF MemInv
  <1>2. ASSUME NEW e \in Recorded
        PROVE  [id |-> e, data_type |-> TypeOf[e], loop_number |-> loopOf[e]] \in ShortTermEntry
    <2>1. e \in MemEntries /\ loopOf[e] \in 0 .. MaxMemLoop
      BY <1>1 DEF Recorded, MemTyped
    <2> QED
      BY <2>1 DEF ShortTermEntry
  <1> QED
    BY <1>1, <1>2, Jobs DEF MemTypeOK, MemTyped

LEMMA MemCounts == MemInv => CountedOnce
  <1> SUFFICES ASSUME MemInv, ~raced, memFaults = 0, closes = 0, NEW e \in MemEntries
               PROVE  counted[e] + Cardinality({c \in counting : e \in c.add /\ c.seen[e] = counted[e]}) <= 1
    BY DEF CountedOnce
  <1> DEFINE S == {c \in counting : e \in c.add /\ c.seen[e] = counted[e]}
  <1>1. /\ \A c \in counting : e \in c.add => c.seen[e] = 0
        /\ \A c, k \in counting : e \in c.add /\ e \in k.add => c = k
        /\ counted[e] \in {0, 1}
    BY DEF MemInv, CountsApart, Undisturbed
  <1>2. IsFiniteSet(S)
    BY FS_Subset DEF MemInv, MemTyped
  <1>3. Cardinality(S) \in Nat /\ Cardinality(S) <= 1
    BY <1>1, <1>2, AtMostOne
  <1>4. CASE counted[e] = 1
    <2>1. S = {}
      BY <1>1, <1>4
    <2>2. Cardinality(S) = 0
      BY <2>1, FS_EmptySet
    <2> QED
      BY <1>4, <2>2
  <1>5. CASE counted[e] = 0
    BY <1>3, <1>5
  <1> QED
    BY <1>1, <1>4, <1>5

HIDE MemAssumption DEF MemAssumption

-----------------------------------------------------------------------------
(* Working memory *)

USE WorkingAssumption DEF WorkingAssumption

WorkTyped ==
    /\ filed \subseteq Items /\ gone \subseteq Items /\ index \subseteq Items
    /\ unindexed \subseteq Items /\ selected \subseteq Items
    /\ writers \subseteq Writer /\ overlapped \in BOOLEAN /\ idxFaults \in Nat
    /\ Cardinality(selected) <= MaxSlots

\* What an operation takes off the index is gone from the files, and what is
\* gone does not come back.
Removed ==
    /\ filed \cap gone = {}
    /\ \A w \in writers : w.kind = "remove" => w.item \in gone

WorkInv == WorkTyped /\ Removed /\ Findable

\* The core tier never gets more than all the slots.
LEMMA GuaranteeFits ==
  ASSUME NEW urgency
  PROVE  CoreGuarantee(urgency) \in 0 .. MaxSlots
  <1> DEFINE b == ComputeDynamicBudget(urgency)
  <1>1. b \in {5, 6, 7}
    BY DEF ComputeDynamicBudget
  <1>2. CoreGuarantee(urgency) = (MaxSlots * b + 9) \div 10
    BY DEF CoreGuarantee
  <1> HIDE DEF b
  <1>3. CASE b = 5
    BY <1>2, <1>3
  <1>4. CASE b = 6
    BY <1>2, <1>4
  <1>5. CASE b = 7
    BY <1>2, <1>5
  <1> QED
    BY <1>1, <1>3, <1>4, <1>5

\* What is chosen from a set to fill so many slots fills no more.
LEMMA UpToFits ==
  ASSUME NEW S \in SUBSET Items, NEW k \in Nat, NEW T \in UpTo(k, S)
  PROVE  T \subseteq S /\ IsFiniteSet(T) /\ Cardinality(T) \in Nat /\ Cardinality(T) <= k
  <1>1. T \subseteq S /\ Cardinality(T) = IF Cardinality(S) < k THEN Cardinality(S) ELSE k
    BY DEF UpTo
  <1>2. IsFiniteSet(T) /\ IsFiniteSet(S)
    BY <1>1, FS_Subset
  <1>3. Cardinality(T) \in Nat /\ Cardinality(S) \in Nat
    BY <1>2, FS_CardinalityType
  <1> QED
    BY <1>1, <1>2, <1>3

LEMMA JoinFits ==
  ASSUME NEW S \in SUBSET Items, NEW T \in SUBSET Items, Cardinality(S) <= MaxSlots,
         IsFiniteSet(S), IsFiniteSet(T), Cardinality(T) \in Nat, Cardinality(T) <= MaxSlots - Cardinality(S)
  PROVE  /\ IsFiniteSet(S \cup T) /\ Cardinality(S \cup T) \in Nat /\ Cardinality(S \cup T) <= MaxSlots
         /\ MaxSlots - Cardinality(S \cup T) \in Nat
  <1>1. Cardinality(S) \in Nat /\ Cardinality(S \cap T) \in Nat /\ IsFiniteSet(S \cap T)
    BY FS_CardinalityType, FS_Subset
  <1>2. IsFiniteSet(S \cup T) /\ Cardinality(S \cup T) = Cardinality(S) + Cardinality(T) - Cardinality(S \cap T)
    BY FS_Union
  <1>3. Cardinality(S \cup T) \in Nat
    BY <1>2, FS_CardinalityType
  <1> QED
    BY <1>1, <1>2, <1>3

LEMMA SelectFits ==
  ASSUME WorkTyped, NEW ctx \in Contexts, SelectForWorkingMemory(ctx)
  PROVE  /\ selected' \subseteq Items /\ Cardinality(selected') <= MaxSlots
         /\ writers' \subseteq Writer
         /\ \A w \in writers' : w \in writers \/ w.kind = "touch"
  <1> DEFINE tierCore == {i \in ctx.matching \intersect Loadable : ClassifyTier(i, ctx) = "core"}
             tierRecall == {i \in ctx.matching \intersect Loadable : ClassifyTier(i, ctx) = "recall"}
             tierArchival == {i \in ctx.matching \intersect Loadable : ClassifyTier(i, ctx) = "archival"}
             touches(S) == {[kind |-> "touch", item |-> i, copy |-> index] : i \in S}
  <1>1. PICK core \in UpTo(CoreGuarantee(ctx.level), tierCore) :
          \E recall \in UpTo(MaxSlots - Cardinality(core), tierRecall) :
          \E archival \in UpTo(MaxSlots - Cardinality(core \union recall), tierArchival) :
          \E rest \in IF HasVector
                      THEN UpTo(MaxSlots - Cardinality(core \union recall \union archival),
                                Loadable \ (core \union recall \union archival))
                      ELSE {{}} :
            /\ selected' = core \union recall \union archival \union rest
            /\ writers' = writers \union touches(core \union recall \union archival)
    BY DEF SelectForWorkingMemory
  <1>13. PICK recall \in UpTo(MaxSlots - Cardinality(core), tierRecall) :
          \E archival \in UpTo(MaxSlots - Cardinality(core \union recall), tierArchival) :
          \E rest \in IF HasVector
                      THEN UpTo(MaxSlots - Cardinality(core \union recall \union archival),
                                Loadable \ (core \union recall \union archival))
                      ELSE {{}} :
            /\ selected' = core \union recall \union archival \union rest
            /\ writers' = writers \union touches(core \union recall \union archival)
    BY <1>1
  <1>14. PICK archival \in UpTo(MaxSlots - Cardinality(core \union recall), tierArchival) :
          \E rest \in IF HasVector
                      THEN UpTo(MaxSlots - Cardinality(core \union recall \union archival),
                                Loadable \ (core \union recall \union archival))
                      ELSE {{}} :
            /\ selected' = core \union recall \union archival \union rest
            /\ writers' = writers \union touches(core \union recall \union archival)
    BY <1>13
  <1>15. PICK rest \in IF HasVector
                      THEN UpTo(MaxSlots - Cardinality(core \union recall \union archival),
                                Loadable \ (core \union recall \union archival))
                      ELSE {{}} :
            /\ selected' = core \union recall \union archival \union rest
            /\ writers' = writers \union touches(core \union recall \union archival)
    BY <1>14
  <1>2. tierCore \in SUBSET Items /\ tierRecall \in SUBSET Items /\ tierArchival \in SUBSET Items
        /\ Loadable \in SUBSET Items
    BY DEF Loadable, WorkTyped
  <1> HIDE DEF tierCore, tierRecall, tierArchival
  <1>3. core \subseteq Items /\ IsFiniteSet(core) /\ Cardinality(core) \in Nat /\ Cardinality(core) <= MaxSlots
    <2>1. CoreGuarantee(ctx.level) \in 0 .. MaxSlots
      BY GuaranteeFits
    <2>2. core \subseteq tierCore /\ IsFiniteSet(core) /\ Cardinality(core) \in Nat
          /\ Cardinality(core) <= CoreGuarantee(ctx.level)
      BY <1>2, <2>1, UpToFits
    <2> QED
      BY <1>2, <2>1, <2>2
  <1>4. recall \subseteq Items /\ IsFiniteSet(recall) /\ Cardinality(recall) \in Nat
        /\ Cardinality(recall) <= MaxSlots - Cardinality(core)
    <2>1. MaxSlots - Cardinality(core) \in Nat
      BY <1>3
    <2>2. recall \subseteq tierRecall /\ IsFiniteSet(recall) /\ Cardinality(recall) \in Nat
          /\ Cardinality(recall) <= MaxSlots - Cardinality(core)
      BY <1>2, <1>13, <2>1, UpToFits
    <2> QED
      BY <1>2, <2>2
  <1> DEFINE two == core \union recall
             three == two \union archival
  <1>5. two \subseteq Items /\ IsFiniteSet(two) /\ Cardinality(two) \in Nat /\ Cardinality(two) <= MaxSlots
        /\ MaxSlots - Cardinality(two) \in Nat
    BY <1>3, <1>4, JoinFits
  <1>6. archival \subseteq Items /\ IsFiniteSet(archival) /\ Cardinality(archival) \in Nat
        /\ Cardinality(archival) <= MaxSlots - Cardinality(two)
    <2>1. archival \subseteq tierArchival /\ IsFiniteSet(archival) /\ Cardinality(archival) \in Nat
          /\ Cardinality(archival) <= MaxSlots - Cardinality(two)
      BY <1>14, <1>2, <1>5, UpToFits
    <2> QED
      BY <1>2, <2>1
  <1>7. three \subseteq Items /\ IsFiniteSet(three) /\ Cardinality(three) \in Nat /\ Cardinality(three) <= MaxSlots
        /\ MaxSlots - Cardinality(three) \in Nat
    <2> HIDE DEF two
    <2> QED
      BY <1>5, <1>6, JoinFits
  <1>8. rest \subseteq Items /\ IsFiniteSet(rest) /\ Cardinality(rest) \in Nat
        /\ Cardinality(rest) <= MaxSlots - Cardinality(three)
    <2>1. CASE HasVector
      <3>1. rest \in UpTo(MaxSlots - Cardinality(three), Loadable \ three) /\ Loadable \ three \in SUBSET Items
        BY <1>15, <1>2, <2>1
      <3>2. rest \subseteq Loadable \ three /\ IsFiniteSet(rest) /\ Cardinality(rest) \in Nat
            /\ Cardinality(rest) <= MaxSlots - Cardinality(three)
        <4> HIDE DEF three
        <4> QED
          BY <1>7, <3>1, UpToFits
      <3> QED
        BY <3>1, <3>2
    <2>2. CASE ~HasVector
      <3>1. rest = {}
        BY <1>15, <2>2
      <3> QED
        BY <1>7, <3>1, FS_EmptySet
    <2> QED
      BY <2>1, <2>2
  <1>9. selected' = three \cup rest
    BY <1>15
  <1>10. selected' \subseteq Items /\ Cardinality(selected') <= MaxSlots
    <2> HIDE DEF three
    <2> QED
      BY <1>7, <1>8, <1>9, JoinFits
  <1>11. writers' = writers \cup {[kind |-> "touch", item |-> i, copy |-> index] : i \in three}
    BY <1>15
  <1> HIDE DEF three
  <1>12. \A i \in three : [kind |-> "touch", item |-> i, copy |-> index] \in Writer
    BY <1>7 DEF Writer, WorkTyped
  <1> QED
    BY <1>10, <1>11, <1>12 DEF WorkTyped

LEMMA WorkTypesKept ==
  ASSUME WorkTyped, WorkNext
  PROVE  WorkTyped'
  <1>1. CASE IdxCrash
    BY <1>1, FS_EmptySet DEF IdxCrash, WorkTyped
  <1>2. ASSUME NEW w \in writers, SaveIndex(w) PROVE WorkTyped'
    <2>1. w.item \in Items /\ w.copy \subseteq Items /\ w.kind \in {"update", "remove", "touch"}
      BY DEF WorkTyped, Writer
    <2>2. Edited(w) \subseteq Items
      BY <2>1 DEF Edited
    <2> QED
      BY <1>2, <2>2 DEF SaveIndex, WorkTyped
  <1>3. ASSUME NEW i \in Items, Record(i) \/ Forget(i) PROVE WorkTyped'
    BY <1>3 DEF Record, Forget, WorkTyped
  <1>4. ASSUME NEW i \in Items, NEW kind \in {"update", "remove"}, LoadIndex(kind, i) PROVE WorkTyped'
    <2>1. [kind |-> kind, item |-> i, copy |-> index] \in Writer
      BY DEF Writer, WorkTyped
    <2> QED
      BY <1>4, <2>1 DEF LoadIndex, WorkTyped
  <1>5. ASSUME NEW ctx \in Contexts, SelectForWorkingMemory(ctx) PROVE WorkTyped'
    <2>1. UNCHANGED <<filed, gone, index, unindexed, overlapped, idxFaults>>
      BY <1>5 DEF SelectForWorkingMemory
    <2> QED
      BY <1>5, <2>1, SelectFits DEF WorkTyped
  <1> QED
    BY <1>1, <1>2, <1>3, <1>4, <1>5 DEF WorkNext

LEMMA WorkHolds ==
  ASSUME WorkInv, WorkNext
  PROVE  Removed' /\ Findable'
  <1> USE DEF WorkInv
  <1>1. CASE IdxCrash
    BY <1>1 DEF IdxCrash, Removed, Findable
  <1>2. ASSUME NEW w \in writers, SaveIndex(w) PROVE Removed' /\ Findable'
    <2>1. Removed'
      BY <1>2 DEF SaveIndex, Removed
    <2>2. ASSUME ~overlapped' PROVE filed' \subseteq index' \cup unindexed'
      <3>1. ~overlapped /\ index = w.copy /\ index' = Edited(w) /\ filed' = filed
            /\ unindexed' = IF w.kind = "update" THEN unindexed \ {w.item} ELSE unindexed
        BY <1>2, <2>2 DEF SaveIndex, WorkTyped
      <3>2. filed \subseteq index \cup unindexed
        BY <3>1 DEF Findable
      <3>3. w.kind \in {"update", "remove", "touch"}
        BY DEF WorkTyped, Writer
      <3>4. CASE w.kind = "remove"
        <4>1. w.item \notin filed
          BY <3>4 DEF Removed
        <4> QED
          BY <3>1, <3>2, <3>4, <4>1 DEF Edited
      <3> QED
        BY <3>1, <3>2, <3>3, <3>4 DEF Edited
    <2> QED
      BY <2>1, <2>2 DEF Findable
  <1>3. ASSUME NEW i \in Items, Record(i) \/ Forget(i) PROVE Removed' /\ Findable'
    BY <1>3 DEF Record, Forget, Removed, Findable
  <1>4. ASSUME NEW i \in Items, NEW kind \in {"update", "remove"}, LoadIndex(kind, i) PROVE Removed' /\ Findable'
    <2> DEFINE new == [kind |-> kind, item |-> i, copy |-> index]
    <2>1. writers' = writers \cup {new} /\ new.kind = kind /\ new.item = i
          /\ (kind = "remove" => i \in gone)
          /\ UNCHANGED <<filed, gone, index, unindexed, overlapped>>
      BY <1>4 DEF LoadIndex
    <2> HIDE DEF new
    <2> QED
      BY <2>1 DEF Removed, Findable
  <1>5. ASSUME NEW ctx \in Contexts, SelectForWorkingMemory(ctx) PROVE Removed' /\ Findable'
    <2>1. UNCHANGED <<filed, gone, index, unindexed, overlapped, idxFaults>>
      BY <1>5 DEF SelectForWorkingMemory
    <2>2. \A w \in writers' : w \in writers \/ w.kind = "touch"
      BY <1>5, SelectFits
    <2> QED
      BY <2>1, <2>2 DEF Removed, Findable
  <1> QED
    BY <1>1, <1>2, <1>3, <1>4, <1>5 DEF WorkNext

LEMMA WorkStart == WorkInit => WorkInv
  <1>1. Cardinality({}) = 0
    BY FS_EmptySet
  <1>2. WorkInit => selected = {}
    BY DEF WorkInit
  <1>3. WorkInit => Cardinality(selected) <= MaxSlots
    BY <1>1, <1>2
  <1>4. ASSUME WorkInit PROVE WorkTyped
    <2>1. filed = {} /\ gone = {} /\ index = {} /\ unindexed = {} /\ selected = {} /\ writers = {}
      BY <1>4 DEF WorkInit
    <2>2. overlapped \in BOOLEAN /\ idxFaults \in Nat
      BY <1>4 DEF WorkInit
    <2>3. filed \subseteq Items /\ gone \subseteq Items /\ index \subseteq Items
          /\ unindexed \subseteq Items /\ selected \subseteq Items /\ writers \subseteq Writer
      BY <2>1
    <2> QED
      BY <1>3, <1>4, <2>2, <2>3 DEF WorkTyped
  <1> QED
    BY <1>4 DEF WorkInit, WorkInv, Removed, Findable

LEMMA WorkKeeps == WorkInv /\ [WorkNext]_workVars => WorkInv'
  <1>1. WorkInv /\ WorkNext => WorkInv'
    BY WorkTypesKept, WorkHolds DEF WorkInv
  <1>2. WorkInv /\ UNCHANGED workVars => WorkInv'
    BY DEF workVars, WorkInv, WorkTyped, Removed, Findable
  <1> QED
    BY <1>1, <1>2

LEMMA WorkTypes == WorkInv => WorkTypeOK
  BY DEF WorkInv, WorkTyped, WorkTypeOK

HIDE WorkingAssumption DEF WorkingAssumption

-----------------------------------------------------------------------------
(* Knowledge and decisions *)

USE KnowAssumption DEF KnowAssumption

KnowTyped ==
    /\ domain \in [KnowGoals -> SUBSET Facts] /\ vectors \in [Facts -> KnowGoals \cup {NoGoalYet}]
    /\ indexed \in [Facts -> KnowGoals \cup {NoGoalYet}]
    /\ sharedKb \in [Facts -> SUBSET KnowGoals] /\ saves \subseteq Save /\ sharing \subseteq Sharing
    /\ stray \subseteq Facts /\ acquiring \in SignalTypes \cup {NoGoalYet}
    /\ knowFaults \in Nat
    /\ decisions \in [Decisions -> DecisionRecord \cup {NoRecord}]

\* A fact is saved by one operation, before it is stored anywhere; the copies the
\* saves hold have what was stored, and what a later write dropped is known as stray.
SavedOnce ==
    /\ \A s, t \in saves : s.fact = t.fact => s = t
    /\ \A s, t \in saves : s.fact \notin t.copy
    /\ \A s \in saves : s.fact \notin Stored /\ s.copy \subseteq Stored \cup stray
    /\ \A s \in sharing : s.fact \in Stored \cup stray
    /\ \A s, t \in sharing : s.fact = t.fact => s = t

\* What is stored, or may be stored again from a copy, or is past its first add, is in
\* both indexes.
Searchable(f) == vectors[f] # NoGoalYet /\ indexed[f] # NoGoalYet
Lasting ==
    /\ \A f \in Stored : Searchable(f)
    /\ \A s \in saves : (\A f \in s.copy : Searchable(f)) /\ (s.pc # "embed" => Searchable(s.fact))

\* Of a fact that is not stray, the two indexes say the same, and what the file and
\* the operation under way say.
Agreed ==
    /\ \A f \in Facts \ stray : indexed[f] = vectors[f]
    /\ \A s \in saves : s.fact \notin stray =>
           vectors[s.fact] = IF s.pc = "embed" THEN NoGoalYet ELSE s.goal
    /\ \A s \in sharing : s.fact \notin stray /\ s.pc = "write" => vectors[s.fact] = s.goal
    /\ \A f \in Stored \ stray :
           \/ Found(f) \/ vectors[f] \in sharedKb[f]
           \/ \E s \in sharing : s.fact = f /\ s.pc = "write"
    /\ \A f \in Facts \ (Stored \cup stray) : (\A s \in saves : s.fact # f) => vectors[f] = NoGoalYet

KnowInv == KnowTyped /\ SavedOnce /\ Lasting /\ Agreed

\* What the operations under way are, and are after a step of theirs.
LEMMA SavesAre ==
  ASSUME KnowTyped, NEW s \in saves
  PROVE  /\ s.fact \in Facts /\ s.goal \in KnowGoals /\ s.goal # NoGoalYet /\ s.copy \subseteq Facts
         /\ s.pc \in {"embed", "again", "write"}
         /\ \A at \in {"again", "write"} :
              /\ [s EXCEPT !.pc = at] \in Save
              /\ [s EXCEPT !.pc = at].fact = s.fact /\ [s EXCEPT !.pc = at].goal = s.goal
              /\ [s EXCEPT !.pc = at].copy = s.copy /\ [s EXCEPT !.pc = at].pc = at
  BY DEF KnowTyped, Save, NoGoalYet

LEMMA SharesAre ==
  ASSUME KnowTyped, NEW s \in sharing
  PROVE  /\ s.fact \in Facts /\ s.goal \in KnowGoals /\ s.goal # NoGoalYet
         /\ s.copy \in [Facts -> SUBSET KnowGoals] /\ s.pc \in {"embed", "write"}
         /\ [s EXCEPT !.pc = "write"] \in Sharing
         /\ [s EXCEPT !.pc = "write"].fact = s.fact /\ [s EXCEPT !.pc = "write"].goal = s.goal
         /\ [s EXCEPT !.pc = "write"].pc = "write"
  BY DEF KnowTyped, Sharing, NoGoalYet

LEMMA DecisionsApart ==
  ASSUME DecisionStep
  PROVE  UNCHANGED <<domain, vectors, indexed, sharedKb, saves, sharing, stray, knowFaults>>
  BY DEF DecisionStep, Time, PurgeOldDecisions, GenerateAcquisitionTask, RecordDecision, UpdateDecisionOutcome

LEMMA KnowledgeApart ==
  ASSUME KnowledgeStep
  PROVE  UNCHANGED <<decisions, acquiring>>
  BY DEF KnowledgeStep, KnowCrash, StartSave, StartShare, Embed, EmbedAgain, Write, WriteFails, WriteSkipped,
         EmbedShared, Share, ShareFails

LEMMA KnowTypesKept ==
  ASSUME KnowTyped, KnowNext
  PROVE  KnowTyped'
  <1>a. \A s \in saves :
           /\ s.fact \in Facts /\ s.goal \in KnowGoals /\ s.copy \subseteq Facts
           /\ [s EXCEPT !.pc = "again"] \in Save /\ [s EXCEPT !.pc = "write"] \in Save
    BY SavesAre
  <1>b. \A s \in sharing :
           /\ s.fact \in Facts /\ s.goal \in KnowGoals /\ s.copy \in [Facts -> SUBSET KnowGoals]
           /\ [s EXCEPT !.pc = "write"] \in Sharing
    BY SharesAre
  <1> USE DEF KnowTyped
  <1>1. CASE KnowCrash
    <2>1. {s.fact : s \in {x \in saves : x.pc # "embed"}} \subseteq Facts
      BY DEF Save
    <2>2. {s.fact : s \in {x \in sharing : x.pc = "write"}} \subseteq Facts
      BY DEF Sharing
    <2> QED
      BY <1>1, <2>1, <2>2 DEF KnowCrash
  <1>2. ASSUME NEW f \in Facts, NEW g \in KnowGoals, StartSave(f, g) PROVE KnowTyped'
    <2>1. [fact |-> f, goal |-> g, copy |-> domain[g], pc |-> "embed"] \in Save
      BY DEF Save
    <2> QED
      BY <1>2, <2>1 DEF StartSave
  <1>3. ASSUME NEW f \in Facts, NEW g \in KnowGoals, StartShare(f, g) PROVE KnowTyped'
    <2>1. [fact |-> f, goal |-> g, copy |-> sharedKb, pc |-> "embed"] \in Sharing
      BY DEF Sharing
    <2> QED
      BY <1>3, <2>1 DEF StartShare
  <1>5. ASSUME NEW s \in saves, Embed(s) \/ EmbedAgain(s) PROVE KnowTyped'
    <2>1. vectors' \in [Facts -> KnowGoals \cup {NoGoalYet}]
      BY <1>5, <1>a DEF Embed, EmbedAgain, Added, NotEmbedded
    <2>2. indexed' \in {indexed, vectors'} /\ knowFaults' \in Nat
      BY <1>5 DEF Embed, EmbedAgain, NotEmbedded, IndexSaved, IndexNotSaved
    <2>3. saves' \subseteq Save /\ stray' \subseteq Facts
      BY <1>5, <1>a DEF Embed, EmbedAgain, Proceed, Leave
    <2> QED
      BY <1>5, <2>1, <2>2, <2>3 DEF Embed, EmbedAgain
  <1>7. ASSUME NEW s \in saves, Write(s) PROVE KnowTyped'
    BY <1>7, <1>a DEF Write
  <1>8. ASSUME NEW s \in saves, WriteFails(s) \/ WriteSkipped(s) PROVE KnowTyped'
    <2>1. vectors' \in [Facts -> KnowGoals \cup {NoGoalYet}] /\ indexed' \in {indexed, vectors'}
      BY <1>8, <1>a DEF WriteFails, WriteSkipped, AfterFailedWrite
    <2>2. saves' \subseteq Save /\ stray' \subseteq Facts
      BY <1>8, <1>a DEF WriteFails, WriteSkipped, Leave
    <2>4. knowFaults' \in Nat
      BY <1>8 DEF WriteFails, WriteSkipped
    <2>3. UNCHANGED <<domain, sharedKb, sharing, decisions, acquiring>>
      BY <1>8 DEF WriteFails, WriteSkipped
    <2> QED
      BY <2>1, <2>2, <2>3, <2>4
  <1>9. ASSUME NEW s \in sharing, EmbedShared(s) PROVE KnowTyped'
    <2>1. vectors' \in [Facts -> KnowGoals \cup {NoGoalYet}]
      BY <1>9, <1>b DEF EmbedShared, Added, NotEmbedded
    <2>2. indexed' \in {indexed, vectors'} /\ knowFaults' \in Nat
      BY <1>9 DEF EmbedShared, NotEmbedded, IndexSaved, IndexNotSaved
    <2>3. sharing' \subseteq Sharing /\ stray' \subseteq Facts
      BY <1>9, <1>b DEF EmbedShared
    <2> QED
      BY <1>9, <2>1, <2>2, <2>3 DEF EmbedShared
  <1>10. ASSUME NEW s \in sharing, Share(s) \/ ShareFails(s) PROVE KnowTyped'
    <2>1. [s.copy EXCEPT ![s.fact] = @ \union {s.goal}] \in [Facts -> SUBSET KnowGoals]
      BY <1>b
    <2>2. stray' \subseteq Facts
      <3>1. CASE Share(s)
        BY <3>1, Zenon DEF Share
      <3>2. CASE ShareFails(s)
        BY <1>b, <3>2 DEF ShareFails
      <3> QED
        BY <1>10, <3>1, <3>2
    <2>3. knowFaults' \in Nat
      BY <1>10 DEF Share, ShareFails
    <2> QED
      BY <1>10, <2>1, <2>2, <2>3 DEF Share, ShareFails
  <1>11. ASSUME DecisionStep PROVE KnowTyped'
    <2>1. UNCHANGED <<domain, vectors, indexed, sharedKb, saves, sharing, stray, knowFaults>>
      BY <1>11, DecisionsApart
    <2>2. acquiring' \in SignalTypes \cup {NoGoalYet}
      BY <1>11 DEF DecisionStep, Time, PurgeOldDecisions, GenerateAcquisitionTask, RecordDecision, UpdateDecisionOutcome,
                   DetectKnowledgeGap, SignalTypes
    <2>3. decisions' \in [Decisions -> DecisionRecord \cup {NoRecord}]
      <3>1. CASE UNCHANGED decisions
        BY <3>1
      <3>2. CASE Time
        <4>1. ASSUME NEW d \in Kept PROVE [decisions[d] EXCEPT !.age = @ + 1] \in DecisionRecord
          <5>1. decisions[d] \in DecisionRecord /\ decisions[d].age < MaxAge
            BY <3>2 DEF Kept, Time
          <5> QED
            BY <5>1 DEF DecisionRecord
        <4> QED
          BY <3>2, <4>1 DEF Time
      <3>3. CASE PurgeOldDecisions
        BY <3>3 DEF PurgeOldDecisions
      <3>4. ASSUME NEW d \in Decisions, NEW s \in PivotStrategies, RecordDecision(d, s)
            PROVE  decisions' \in [Decisions -> DecisionRecord \cup {NoRecord}]
        <4>1. [strategy |-> s, outcome |-> "pending", age |-> 0] \in DecisionRecord
          BY DEF DecisionRecord, Outcome
        <4> QED
          BY <3>4, <4>1 DEF RecordDecision
      <3>5. ASSUME NEW s \in PivotStrategies, NEW outcome \in {"success", "failure"}, UpdateDecisionOutcome(s, outcome)
            PROVE  decisions' \in [Decisions -> DecisionRecord \cup {NoRecord}]
        <4>1. PICK d \in Pending(s) : decisions' = [decisions EXCEPT ![d].outcome = outcome]
          BY <3>5 DEF UpdateDecisionOutcome
        <4>2. d \in Decisions /\ decisions[d] \in DecisionRecord
          BY DEF Pending, Kept
        <4>3. [decisions[d] EXCEPT !.outcome = outcome] \in DecisionRecord
          BY <4>2 DEF DecisionRecord, Outcome
        <4> QED
          BY <4>1, <4>2, <4>3
      <3> QED
        BY <1>11, <3>1, <3>2, <3>3, <3>4, <3>5 DEF DecisionStep, GenerateAcquisitionTask
    <2> QED
      BY <2>1, <2>2, <2>3
  <1> QED
    BY <1>1, <1>2, <1>3, <1>5, <1>7, <1>8, <1>9, <1>10, <1>11 DEF KnowNext, KnowledgeStep

\* What a step does to the index: nothing; or it adds an entry for an operation under
\* way, and of the entry alone the two may differ, which makes it stray; or it takes
\* back the entry of a save whose write failed.
NewEntry(f, g) ==
    /\ vectors' = [vectors EXCEPT ![f] = g]
    /\ \/ indexed' = vectors'
       \/ indexed' = indexed /\ f \in stray'

LEMMA SaveMoves ==
  ASSUME KnowTyped, NEW s \in saves, Embed(s) \/ EmbedAgain(s)
  PROVE  /\ UNCHANGED <<domain, sharedKb, sharing>> /\ s.pc \in {"embed", "again"}
         /\ \/ UNCHANGED <<vectors, indexed>> /\ saves' = saves \ {s}
               /\ IF s.pc = "embed" THEN stray' = stray ELSE stray' = stray \cup {s.fact}
            \/ /\ NewEntry(s.fact, s.goal)
               /\ \/ saves' = saves \ {s} /\ stray' = stray \cup {s.fact}
                  \/ /\ \E at \in {"again", "write"} : saves' = (saves \ {s}) \cup {[s EXCEPT !.pc = at]}
                     /\ stray' = stray /\ indexed' = vectors'
  <1>1. CASE Embed(s)
    BY <1>1 DEF Embed, NotEmbedded, Added, IndexSaved, IndexNotSaved, Proceed, Leave, NewEntry
  <1>2. CASE EmbedAgain(s)
    BY <1>2 DEF EmbedAgain, NotEmbedded, Added, IndexSaved, IndexNotSaved, Proceed, Leave, NewEntry
  <1> QED
    BY <1>1, <1>2

LEMMA ShareMoves ==
  ASSUME KnowTyped, NEW s \in sharing, EmbedShared(s)
  PROVE  /\ UNCHANGED <<domain, sharedKb, saves>> /\ s.pc = "embed"
         /\ \/ UNCHANGED <<vectors, indexed, stray>> /\ sharing' = sharing \ {s}
            \/ /\ NewEntry(s.fact, s.goal)
               /\ \/ sharing' = sharing \ {s} /\ stray' = stray \cup {s.fact}
                  \/ /\ sharing' = (sharing \ {s}) \cup {[s EXCEPT !.pc = "write"]}
                     /\ stray' = stray /\ indexed' = vectors'
  BY DEF EmbedShared, NotEmbedded, Added, IndexSaved, IndexNotSaved, NewEntry

\* Only a write changes what is stored, to what its copy and its fact are; what it
\* drops is stray.
LEMMA StoredMoves ==
  ASSUME KnowTyped, KnowNext
  PROVE  /\ stray \subseteq stray' /\ Stored \cup stray \subseteq Stored' \cup stray'
         /\ \/ UNCHANGED domain /\ Stored' = Stored
            \/ \E s \in saves : Write(s) /\ Stored' \subseteq Stored \cup s.copy \cup {s.fact}
                                /\ s.fact \in Stored'
  <1>1. ASSUME NEW s \in saves, Write(s)
        PROVE  /\ stray \subseteq stray' /\ Stored \cup stray \subseteq Stored' \cup stray'
               /\ Stored' \subseteq Stored \cup s.copy \cup {s.fact} /\ s.fact \in Stored'
    <2>1. s.goal \in KnowGoals /\ domain \in [KnowGoals -> SUBSET Facts]
      BY SavesAre DEF KnowTyped
    <2>2. domain'[s.goal] = s.copy \cup {s.fact} /\ \A g \in KnowGoals \ {s.goal} : domain'[g] = domain[g]
      BY <1>1, <2>1 DEF Write
    <2>3. stray' = stray \cup (domain[s.goal] \ s.copy)
      BY <1>1 DEF Write
    <2> QED
      BY <2>1, <2>2, <2>3 DEF Stored
  <1>2. UNCHANGED domain => Stored' = Stored
    BY DEF Stored
  <1>3. ASSUME ~\E s \in saves : Write(s) PROVE UNCHANGED domain /\ stray \subseteq stray'
    <2>1. ASSUME NEW s \in saves, Embed(s) \/ EmbedAgain(s) PROVE UNCHANGED domain /\ stray \subseteq stray'
      BY <2>1, SaveMoves
    <2>2. ASSUME NEW s \in sharing, EmbedShared(s) PROVE UNCHANGED domain /\ stray \subseteq stray'
      BY <2>2, ShareMoves
    <2> QED
      BY <1>3, <2>1, <2>2, DecisionsApart
         DEF KnowNext, KnowledgeStep, KnowCrash, StartSave, StartShare, WriteFails, WriteSkipped, Share, ShareFails, Leave
  <1> QED
    BY <1>1, <1>2, <1>3

LEMMA SavedOnceKept ==
  ASSUME KnowTyped, SavedOnce, KnowNext
  PROVE  SavedOnce'
  <1>0. /\ stray \subseteq stray' /\ Stored \cup stray \subseteq Stored' \cup stray'
        /\ \/ UNCHANGED domain /\ Stored' = Stored
           \/ \E s \in saves : Write(s) /\ Stored' \subseteq Stored \cup s.copy \cup {s.fact}
                               /\ s.fact \in Stored'
    BY StoredMoves
  <1>1. ASSUME NEW f \in Facts, NEW g \in KnowGoals, StartSave(f, g) PROVE SavedOnce'
    <2> DEFINE new == [fact |-> f, goal |-> g, copy |-> domain[g], pc |-> "embed"]
    <2>1. saves' = saves \cup {new} /\ new.fact = f /\ new.copy = domain[g]
          /\ f \notin Stored \cup stray /\ (\A s \in saves : s.fact # f)
          /\ UNCHANGED <<domain, sharing, stray>>
      BY <1>1 DEF StartSave
    <2> HIDE DEF new
    <2>2. domain[g] \subseteq Stored /\ Stored' = Stored
      BY <2>1 DEF Stored
    <2> QED
      BY <2>1, <2>2 DEF SavedOnce
  <1>2. ASSUME NEW f \in Facts, NEW g \in KnowGoals, StartShare(f, g) PROVE SavedOnce'
    <2> DEFINE new == [fact |-> f, goal |-> g, copy |-> sharedKb, pc |-> "embed"]
    <2>1. sharing' = sharing \cup {new} /\ new.fact = f /\ f \in Stored /\ (\A s \in sharing : s.fact # f)
          /\ UNCHANGED <<domain, saves, stray>>
      BY <1>2 DEF StartShare
    <2> HIDE DEF new
    <2>2. Stored' = Stored
      BY <2>1 DEF Stored
    <2> QED
      BY <2>1, <2>2 DEF SavedOnce
  <1>3. ASSUME NEW s \in saves, Embed(s) \/ EmbedAgain(s) PROVE SavedOnce'
    <2>1. /\ UNCHANGED <<sharing, domain>>
          /\ saves' = saves \ {s} \/ \E at \in {"again", "write"} : saves' = (saves \ {s}) \cup {[s EXCEPT !.pc = at]}
      BY <1>3, SaveMoves
    <2>2. Stored' = Stored
      BY <2>1 DEF Stored
    <2>3. \A at \in {"again", "write"} : [s EXCEPT !.pc = at].fact = s.fact /\ [s EXCEPT !.pc = at].copy = s.copy
      BY SavesAre
    <2> QED
      BY <1>0, <2>1, <2>2, <2>3 DEF SavedOnce
  <1>4. ASSUME NEW s \in saves, Write(s) PROVE SavedOnce'
    <2>1. saves' = saves \ {s} /\ UNCHANGED sharing /\ Stored' \subseteq Stored \cup s.copy \cup {s.fact}
      <3>1. s.goal \in KnowGoals /\ domain \in [KnowGoals -> SUBSET Facts]
        BY SavesAre DEF KnowTyped
      <3>2. domain'[s.goal] = s.copy \cup {s.fact} /\ \A g \in KnowGoals \ {s.goal} : domain'[g] = domain[g]
        BY <1>4, <3>1 DEF Write
      <3> QED
        BY <1>4, <3>1, <3>2 DEF Write, Stored
    <2> QED
      BY <1>0, <2>1 DEF SavedOnce
  <1>5. ASSUME NEW s \in saves, WriteFails(s) \/ WriteSkipped(s) PROVE SavedOnce'
    <2>1. saves' = saves \ {s} /\ UNCHANGED <<domain, sharing>>
      BY <1>5 DEF WriteFails, WriteSkipped, Leave
    <2>2. Stored' = Stored
      BY <2>1 DEF Stored
    <2> QED
      BY <1>0, <2>1, <2>2 DEF SavedOnce
  <1>6. ASSUME NEW s \in sharing, EmbedShared(s) PROVE SavedOnce'
    <2>1. /\ UNCHANGED <<saves, domain>>
          /\ sharing' = sharing \ {s} \/ sharing' = (sharing \ {s}) \cup {[s EXCEPT !.pc = "write"]}
      BY <1>6, ShareMoves
    <2>2. Stored' = Stored
      BY <2>1 DEF Stored
    <2>3. [s EXCEPT !.pc = "write"].fact = s.fact
      BY SharesAre
    <2> QED
      BY <1>0, <2>1, <2>2, <2>3 DEF SavedOnce
  <1>7. ASSUME NEW s \in sharing, Share(s) \/ ShareFails(s) PROVE SavedOnce'
    <2>1. sharing' = sharing \ {s} /\ UNCHANGED <<domain, saves>>
      BY <1>7 DEF Share, ShareFails
    <2>2. Stored' = Stored
      BY <2>1 DEF Stored
    <2> QED
      BY <1>0, <2>1, <2>2 DEF SavedOnce
  <1>8. CASE KnowCrash
    BY <1>8 DEF KnowCrash, SavedOnce
  <1>9. CASE DecisionStep
    <2>1. UNCHANGED <<domain, saves, sharing, stray>>
      BY <1>9, DecisionsApart
    <2> QED
      BY <2>1 DEF SavedOnce, Stored
  <1> QED
    BY <1>1, <1>2, <1>3, <1>4, <1>5, <1>6, <1>7, <1>8, <1>9 DEF KnowNext, KnowledgeStep

\* An entry is only ever added, but for the one of the save whose write failed.
LEMMA EntriesLast ==
  ASSUME KnowTyped, KnowNext, NEW f \in Facts, Searchable(f),
         ~\E s \in saves : WriteFails(s) /\ s.fact = f
  PROVE  Searchable(f)'
  <1>1. ASSUME NEW h \in Facts, NEW g \in KnowGoals, g # NoGoalYet, NewEntry(h, g) PROVE Searchable(f)'
    BY <1>1 DEF NewEntry, Searchable, KnowTyped
  <1>2. UNCHANGED <<vectors, indexed>> => Searchable(f)'
    BY DEF Searchable
  <1>3. ASSUME NEW s \in saves, Embed(s) \/ EmbedAgain(s) PROVE Searchable(f)'
    BY <1>1, <1>2, <1>3, SaveMoves, SavesAre
  <1>4. ASSUME NEW s \in sharing, EmbedShared(s) PROVE Searchable(f)'
    BY <1>1, <1>2, <1>4, ShareMoves, SharesAre
  <1>5. ASSUME NEW s \in saves, WriteFails(s) PROVE Searchable(f)'
    <2>1. s.fact # f
      BY <1>5
    <2> QED
      BY <1>5, <2>1 DEF WriteFails, AfterFailedWrite, Searchable, KnowTyped
  <1>6. CASE KnowCrash
    BY <1>6 DEF KnowCrash, Searchable
  <1>7. CASE DecisionStep
    BY <1>2, <1>7, DecisionsApart
  <1> QED
    BY <1>2, <1>3, <1>4, <1>5, <1>6, <1>7
       DEF KnowNext, KnowledgeStep, StartSave, StartShare, Write, WriteSkipped, Share, ShareFails

LEMMA LastingKept ==
  ASSUME KnowTyped, SavedOnce, Lasting, KnowNext
  PROVE  Lasting'
  <1>1. ASSUME NEW f \in Facts, Searchable(f), f \in Stored \/ \E s \in saves : f \in s.copy PROVE Searchable(f)'
    <2>1. ~\E s \in saves : WriteFails(s) /\ s.fact = f
      BY <1>1 DEF SavedOnce
    <2> QED
      BY <1>1, <2>1, EntriesLast
  <1>2. ASSUME NEW s \in saves, s.pc # "embed", ~WriteFails(s) PROVE Searchable(s.fact)'
    <2>1. Searchable(s.fact) /\ ~\E t \in saves : WriteFails(t) /\ t.fact = s.fact
      BY <1>2 DEF Lasting, SavedOnce
    <2>2. s.fact \in Facts
      BY SavesAre
    <2> QED
      BY <2>1, <2>2, EntriesLast
  <1>3. \A s \in saves : s.copy \subseteq Facts
    BY SavesAre
  <1>4. Stored \subseteq Facts
    BY DEF KnowTyped, Stored
  <1>a. \A f \in Stored : Searchable(f)'
    BY <1>1, <1>4 DEF Lasting
  <1>b. \A s \in saves : \A f \in s.copy : Searchable(f)'
    BY <1>1, <1>3 DEF Lasting
  <1>5. \A f \in Stored' : Searchable(f)'
    <2>1. ASSUME NEW s \in saves, Write(s) PROVE Searchable(s.fact)'
      <3>1. s.pc # "embed" /\ ~WriteFails(s)
        <4>1. s.pc = "write" /\ UNCHANGED knowFaults /\ knowFaults \in Nat
          BY <2>1 DEF Write, KnowTyped
        <4>2. WriteFails(s) => knowFaults' = knowFaults + 1
          BY DEF WriteFails
        <4> QED
          BY <4>1, <4>2
      <3> QED
        BY <1>2, <3>1
    <2> QED
      BY <1>a, <1>b, <2>1, StoredMoves
  <1>6. \A s \in saves' : (\A f \in s.copy : Searchable(f)') /\ (s.pc # "embed" => Searchable(s.fact)')
    <2>0. ASSUME NEW t \in saves, ~WriteFails(t)
          PROVE  (\A f \in t.copy : Searchable(f)') /\ (t.pc # "embed" => Searchable(t.fact)')
      BY <1>2, <1>b, <2>0
    <2>1. ASSUME NEW f \in Facts, NEW g \in KnowGoals, StartSave(f, g)
          PROVE  \A s \in saves' : (\A h \in s.copy : Searchable(h)') /\ (s.pc # "embed" => Searchable(s.fact)')
      <3> DEFINE new == [fact |-> f, goal |-> g, copy |-> domain[g], pc |-> "embed"]
      <3>1. saves' = saves \cup {new} /\ new.pc = "embed" /\ new.copy = domain[g]
            /\ UNCHANGED knowFaults
        BY <2>1 DEF StartSave
      <3> HIDE DEF new
      <3>2. \A t \in saves : ~WriteFails(t)
        BY <3>1 DEF WriteFails, KnowTyped
      <3>3. domain[g] \subseteq Stored
        BY DEF Stored
      <3> QED
        BY <1>a, <2>0, <3>1, <3>2, <3>3
    <2>2. ASSUME NEW s \in saves, Embed(s) \/ EmbedAgain(s)
          PROVE  \A t \in saves' : (\A f \in t.copy : Searchable(f)') /\ (t.pc # "embed" => Searchable(t.fact)')
      <3>1. s.pc \in {"embed", "again"}
        BY <2>2, SaveMoves
      <3>2. \A t \in saves \ {s} : ~WriteFails(t) \/ t.fact = s.fact
        <4>1. ASSUME NEW t \in saves \ {s}, WriteFails(t) PROVE FALSE
          <5>1. saves' = saves \ {t}
            BY <4>1 DEF WriteFails, Leave
          <5>2. t \in saves'
            BY <2>2, SaveMoves
          <5> QED
            BY <4>1, <5>1, <5>2
        <4> QED
          BY <4>1
      <3>3. \A t \in saves \ {s} : (\A f \in t.copy : Searchable(f)') /\ (t.pc # "embed" => Searchable(t.fact)')
        BY <2>0, <3>2 DEF SavedOnce
      <3>4. ASSUME NEW at \in {"again", "write"}, saves' = (saves \ {s}) \cup {[s EXCEPT !.pc = at]},
                   NewEntry(s.fact, s.goal), indexed' = vectors'
            PROVE  Searchable(s.fact)'
        BY <3>4, SavesAre DEF NewEntry, Searchable, KnowTyped
      <3>5. CASE saves' = saves \ {s}
        BY <3>3, <3>5
      <3>6. ASSUME NEW at \in {"again", "write"}, saves' = (saves \ {s}) \cup {[s EXCEPT !.pc = at]},
                   NewEntry(s.fact, s.goal), indexed' = vectors'
            PROVE  \A t \in saves' : (\A f \in t.copy : Searchable(f)') /\ (t.pc # "embed" => Searchable(t.fact)')
        <4>1. Searchable(s.fact)' /\ [s EXCEPT !.pc = at].copy = s.copy /\ [s EXCEPT !.pc = at].fact = s.fact
          BY <3>4, <3>6, SavesAre
        <4> QED
          BY <1>b, <3>3, <3>6, <4>1
      <3> QED
        BY <2>2, <3>5, <3>6, SaveMoves
    <2>3. ASSUME NEW s \in saves, Write(s) \/ WriteFails(s) \/ WriteSkipped(s)
          PROVE  \A t \in saves' : (\A f \in t.copy : Searchable(f)') /\ (t.pc # "embed" => Searchable(t.fact)')
      <3>1. saves' = saves \ {s}
        BY <2>3 DEF Write, WriteFails, WriteSkipped, Leave
      <3>2. \A t \in saves \ {s} : ~WriteFails(t)
        BY <3>1 DEF WriteFails, Leave
      <3> QED
        BY <2>0, <3>1, <3>2
    <2>4. ASSUME UNCHANGED saves
          PROVE  \A t \in saves' : (\A f \in t.copy : Searchable(f)') /\ (t.pc # "embed" => Searchable(t.fact)')
      <3>1. \A t \in saves : ~WriteFails(t)
        BY <2>4 DEF WriteFails, Leave
      <3> QED
        BY <2>0, <2>4, <3>1
    <2>5. CASE KnowCrash
      BY <2>5 DEF KnowCrash
    <2> QED
      BY <2>1, <2>2, <2>3, <2>4, <2>5, DecisionsApart
         DEF KnowNext, KnowledgeStep, StartShare, EmbedShared, Share, ShareFails
  <1> QED
    BY <1>5, <1>6 DEF Lasting, Searchable

LEMMA AgreedKept ==
  ASSUME KnowTyped, SavedOnce, Agreed, KnowNext
  PROVE  Agreed'
  <1>0. /\ stray \subseteq stray' /\ Stored \cup stray \subseteq Stored' \cup stray'
        /\ \/ UNCHANGED domain /\ Stored' = Stored
           \/ \E s \in saves : Write(s) /\ Stored' \subseteq Stored \cup s.copy \cup {s.fact}
                               /\ s.fact \in Stored'
    BY StoredMoves
  <1>a. Stored \subseteq Facts
    BY DEF KnowTyped, Stored
  <1>b. \A s \in saves : s.fact \in Facts
    BY SavesAre
  <1>c. \A s \in sharing : s.fact \in Facts
    BY SharesAre
  <1>1. CASE KnowCrash
    <2>1. /\ saves' = {} /\ sharing' = {} /\ UNCHANGED <<domain, indexed, sharedKb>> /\ vectors' = indexed
          /\ stray' = stray \union {s.fact : s \in {x \in saves : x.pc # "embed"}}
                            \union {s.fact : s \in {x \in sharing : x.pc = "write"}}
      BY <1>1 DEF KnowCrash
    <2>2. Stored' = Stored
      BY <2>1 DEF Stored
    <2>3. \A f \in Facts \ stray' : vectors'[f] = vectors[f]
      BY <2>1 DEF Agreed
    <2>4. \A f \in Stored \ stray' : (Found(f) => Found(f)') /\ ~\E s \in sharing : s.fact = f /\ s.pc = "write"
      BY <1>a, <2>1, <2>3 DEF Found
    <2>5. \A f \in Stored \ stray' : Found(f)' \/ vectors'[f] \in sharedKb'[f]
      BY <1>a, <2>1, <2>3, <2>4 DEF Agreed
    <2>6. ASSUME NEW f \in Facts \ (Stored \cup stray') PROVE vectors'[f] = NoGoalYet
      <3>1. CASE \A s \in saves : s.fact # f
        BY <2>1, <2>3, <2>6, <3>1 DEF Agreed
      <3>2. ASSUME NEW s \in saves, s.fact = f PROVE vectors'[f] = NoGoalYet
        <4>1. s.pc = "embed" /\ f \notin stray
          BY <2>1, <2>6, <3>2
        <4> QED
          BY <2>3, <2>6, <3>2, <4>1 DEF Agreed
      <3> QED
        BY <3>1, <3>2
    <2> QED
      BY <2>1, <2>2, <2>5, <2>6 DEF Agreed
  <1>2. ASSUME NEW h \in Facts, NEW g \in KnowGoals, StartSave(h, g) PROVE Agreed'
    <2> DEFINE new == [fact |-> h, goal |-> g, copy |-> domain[g], pc |-> "embed"]
    <2>1. saves' = saves \cup {new} /\ new.fact = h /\ new.pc = "embed"
          /\ h \notin Stored \cup stray /\ (\A s \in saves : s.fact # h)
          /\ UNCHANGED <<domain, vectors, indexed, sharedKb, sharing, stray>>
      BY <1>2 DEF StartSave
    <2> HIDE DEF new
    <2>2. Stored' = Stored /\ \A f : Found(f)' <=> Found(f)
      BY <2>1 DEF Stored, Found
    <2>3. vectors[h] = NoGoalYet
      BY <2>1 DEF Agreed
    <2> QED
      BY <2>1, <2>2, <2>3 DEF Agreed
  <1>3. ASSUME NEW h \in Facts, NEW g \in KnowGoals, StartShare(h, g) PROVE Agreed'
    <2> DEFINE new == [fact |-> h, goal |-> g, copy |-> sharedKb, pc |-> "embed"]
    <2>1. sharing' = sharing \cup {new} /\ new.pc = "embed"
          /\ UNCHANGED <<domain, vectors, indexed, sharedKb, saves, stray>>
      BY <1>3 DEF StartShare
    <2> HIDE DEF new
    <2>2. Stored' = Stored /\ \A f : Found(f)' <=> Found(f)
      BY <2>1 DEF Stored, Found
    <2> QED
      BY <2>1, <2>2 DEF Agreed
  <1>4. ASSUME NEW s \in saves, Embed(s) \/ EmbedAgain(s) PROVE Agreed'
    <2>1. /\ UNCHANGED <<domain, sharedKb, sharing>>
          /\ \/ UNCHANGED <<vectors, indexed>> /\ saves' = saves \ {s}
                /\ IF s.pc = "embed" THEN stray' = stray ELSE stray' = stray \cup {s.fact}
             \/ /\ NewEntry(s.fact, s.goal)
                /\ \/ saves' = saves \ {s} /\ stray' = stray \cup {s.fact}
                   \/ /\ \E at \in {"again", "write"} : saves' = (saves \ {s}) \cup {[s EXCEPT !.pc = at]}
                      /\ stray' = stray /\ indexed' = vectors'
      BY <1>4, SaveMoves
    <2>2. Stored' = Stored
      BY <2>1 DEF Stored
    <2>3. s.fact \in Facts /\ s.fact \notin Stored /\ \A k \in saves : k = s \/ k.fact # s.fact
      BY <1>b DEF SavedOnce
    <2>4. \A k \in sharing : k.fact = s.fact => k.fact \in stray
      BY <2>3 DEF SavedOnce
    <2>5. CASE UNCHANGED <<vectors, indexed>> /\ saves' = saves \ {s}
               /\ IF s.pc = "embed" THEN stray' = stray ELSE stray' = stray \cup {s.fact}
      <3>1. s.fact \notin stray' => vectors[s.fact] = NoGoalYet
        BY <2>5 DEF Agreed
      <3>2. \A f : Found(f)' <=> Found(f)
        BY <2>1, <2>5 DEF Found
      <3> QED
        BY <1>0, <2>1, <2>2, <2>3, <2>5, <3>1, <3>2 DEF Agreed
    <2>6. CASE /\ NewEntry(s.fact, s.goal)
               /\ \/ saves' = saves \ {s} /\ stray' = stray \cup {s.fact}
                  \/ /\ \E at \in {"again", "write"} : saves' = (saves \ {s}) \cup {[s EXCEPT !.pc = at]}
                     /\ stray' = stray /\ indexed' = vectors'
      <3>1. \A f \in Facts \ {s.fact} : vectors'[f] = vectors[f] /\ (Found(f)' <=> Found(f))
        BY <2>1, <2>3, <2>6 DEF NewEntry, Found, KnowTyped
      <3>2. \A f \in Facts \ stray' : indexed'[f] = vectors'[f]
        BY <1>0, <2>1, <2>3, <2>6, <3>1 DEF NewEntry, Agreed
      <3>3. vectors'[s.fact] = s.goal
        BY <2>3, <2>6 DEF NewEntry, KnowTyped
      <3>0. \A at \in {"again", "write"} : /\ [s EXCEPT !.pc = at].fact = s.fact
                                          /\ [s EXCEPT !.pc = at].goal = s.goal
        BY SavesAre
      <3>8. \A at \in {"again", "write"} : [s EXCEPT !.pc = at].pc = at
        BY SavesAre
      <3>4. \A k \in saves' : k.fact \notin stray' =>
                vectors'[k.fact] = IF k.pc = "embed" THEN NoGoalYet ELSE k.goal
        <4> SUFFICES ASSUME NEW k \in saves', k.fact \notin stray'
                     PROVE  vectors'[k.fact] = IF k.pc = "embed" THEN NoGoalYet ELSE k.goal
          OBVIOUS
        <4>1. CASE k \in saves /\ k # s
          BY <1>0, <1>b, <2>3, <3>1, <4>1 DEF Agreed
        <4>2. CASE ~(k \in saves /\ k # s)
          <5>1. PICK at \in {"again", "write"} : k = [s EXCEPT !.pc = at]
            BY <2>6, <4>2
          <5>2. k.fact = s.fact /\ k.goal = s.goal /\ k.pc # "embed"
            BY <3>0, <3>8, <5>1
          <5> QED
            BY <3>3, <5>2
        <4> QED
          BY <4>1, <4>2
      <3>5. \A k \in sharing' : k.fact \notin stray' /\ k.pc = "write" => vectors'[k.fact] = k.goal
        BY <1>0, <1>c, <2>1, <2>4, <3>1 DEF Agreed
      <3>6. \A f \in Stored' \ stray' : \/ Found(f)' \/ vectors'[f] \in sharedKb'[f]
                                        \/ \E k \in sharing' : k.fact = f /\ k.pc = "write"
        BY <1>0, <1>a, <2>1, <2>2, <2>3, <3>1 DEF Agreed
      <3>7. ASSUME NEW f \in Facts \ (Stored' \cup stray'), \A k \in saves' : k.fact # f PROVE vectors'[f] = NoGoalYet
        <4>1. f # s.fact
          BY <2>1, <2>6, <3>0, <3>7
        <4>2. \A k \in saves : k.fact # f
          BY <2>1, <2>3, <3>7, <4>1
        <4> QED
          BY <1>0, <2>2, <3>1, <3>7, <4>1, <4>2 DEF Agreed
      <3> QED
        BY <3>2, <3>4, <3>5, <3>6, <3>7 DEF Agreed
    <2> QED
      BY <2>1, <2>5, <2>6
  <1>5. ASSUME NEW s \in saves, Write(s) PROVE Agreed'
    <2>0. s.goal \in KnowGoals /\ s.goal # NoGoalYet /\ domain \in [KnowGoals -> SUBSET Facts] /\ s.fact \in Facts
      BY SavesAre DEF KnowTyped
    <2>1. /\ UNCHANGED <<vectors, indexed, sharedKb, sharing>> /\ s.pc = "write" /\ saves' = saves \ {s}
          /\ domain' = [domain EXCEPT ![s.goal] = s.copy \union {s.fact}]
          /\ stray' = stray \union (domain[s.goal] \ s.copy)
      BY <1>5 DEF Write
    <2>2. Stored' \subseteq Stored \cup s.copy \cup {s.fact} /\ s.copy \subseteq Stored \cup stray /\ s.fact \in Stored'
      <3>1. domain'[s.goal] = s.copy \cup {s.fact} /\ \A g \in KnowGoals \ {s.goal} : domain'[g] = domain[g]
        BY <2>0, <2>1
      <3> QED
        BY <2>0, <3>1 DEF Stored, SavedOnce
    <2>3. \A f \in Facts \ stray' : Found(f) => Found(f)'
      BY <2>0, <2>1 DEF Found
    <2>4. s.fact \notin stray' => Found(s.fact)'
      <3> SUFFICES ASSUME s.fact \notin stray' PROVE Found(s.fact)'
        OBVIOUS
      <3>1. vectors'[s.fact] = s.goal
        BY <1>0, <2>1 DEF Agreed
      <3>2. s.fact \in domain'[s.goal]
        BY <2>0, <2>1
      <3> QED
        BY <2>0, <3>1, <3>2 DEF Found
    <2>5. \A f \in Stored' \ stray' : f \in Stored \/ f = s.fact
      BY <1>0, <2>2
    <2>6. \A f \in Stored' \ stray' : \/ Found(f)' \/ vectors'[f] \in sharedKb'[f]
                                      \/ \E k \in sharing' : k.fact = f /\ k.pc = "write"
      BY <1>0, <1>a, <2>1, <2>3, <2>4, <2>5 DEF Agreed
    <2>7. ASSUME NEW f \in Facts \ (Stored' \cup stray'), \A k \in saves' : k.fact # f PROVE vectors'[f] = NoGoalYet
      <3>1. f # s.fact /\ f \notin Stored \cup stray
        BY <1>0, <2>2, <2>7
      <3> QED
        BY <2>1, <2>7, <3>1 DEF Agreed
    <2> QED
      BY <1>0, <2>1, <2>6, <2>7 DEF Agreed
  <1>6. ASSUME NEW s \in saves, WriteFails(s) \/ WriteSkipped(s) PROVE Agreed'
    <2>1. UNCHANGED <<domain, sharedKb, sharing>> /\ saves' = saves \ {s}
      BY <1>6 DEF WriteFails, WriteSkipped, Leave
    <2>2. Stored' = Stored /\ s.fact \in Facts /\ s.fact \notin Stored /\ \A k \in saves : k = s \/ k.fact # s.fact
      BY <1>b, <2>1 DEF Stored, SavedOnce
    <2>3. \/ s.fact \in stray' /\ indexed' = indexed
          \/ indexed' = vectors'
      BY <1>6 DEF WriteFails, WriteSkipped, Leave
    <2>4. \A f \in Facts \ {s.fact} : vectors'[f] = vectors[f] /\ (Found(f)' <=> Found(f))
      BY <1>6, <2>1, <2>2 DEF WriteFails, WriteSkipped, AfterFailedWrite, Found, KnowTyped
    <2>5. s.fact \notin stray' => vectors'[s.fact] = NoGoalYet
      BY <1>6, <2>2 DEF WriteFails, WriteSkipped, AfterFailedWrite, Leave, KnowTyped
    <2>6. \A f \in Facts \ stray' : indexed'[f] = vectors'[f]
      BY <1>0, <2>2, <2>3, <2>4 DEF Agreed
    <2>7. \A k \in sharing : k.fact = s.fact => k.fact \in stray
      BY <2>2 DEF SavedOnce
    <2>8. \A k \in saves' : k.fact \notin stray' =>
                vectors'[k.fact] = IF k.pc = "embed" THEN NoGoalYet ELSE k.goal
      BY <1>0, <1>b, <2>1, <2>2, <2>4 DEF Agreed
    <2>9. \A k \in sharing' : k.fact \notin stray' /\ k.pc = "write" => vectors'[k.fact] = k.goal
      BY <1>0, <1>c, <2>1, <2>4, <2>7 DEF Agreed
    <2>10. \A f \in Stored' \ stray' : \/ Found(f)' \/ vectors'[f] \in sharedKb'[f]
                                       \/ \E k \in sharing' : k.fact = f /\ k.pc = "write"
      BY <1>0, <1>a, <2>1, <2>2, <2>4 DEF Agreed
    <2>11. \A f \in Facts \ (Stored' \cup stray') : (\A k \in saves' : k.fact # f) => vectors'[f] = NoGoalYet
      BY <1>0, <2>1, <2>2, <2>4, <2>5 DEF Agreed
    <2> QED
      BY <2>6, <2>8, <2>9, <2>10, <2>11 DEF Agreed
  <1>7. ASSUME NEW s \in sharing, EmbedShared(s) PROVE Agreed'
    <2> DEFINE new == [s EXCEPT !.pc = "write"]
    <2>0. s.fact \in Facts /\ new.fact = s.fact /\ new.goal = s.goal /\ new.pc = "write"
      BY SharesAre
    <2>1. /\ UNCHANGED <<domain, sharedKb, saves>> /\ s.pc = "embed"
          /\ \/ UNCHANGED <<vectors, indexed, stray>> /\ sharing' = sharing \ {s}
             \/ /\ NewEntry(s.fact, s.goal)
                /\ \/ sharing' = sharing \ {s} /\ stray' = stray \cup {s.fact}
                   \/ sharing' = (sharing \ {s}) \cup {new} /\ stray' = stray /\ indexed' = vectors'
      BY <1>7, ShareMoves
    <2> HIDE DEF new
    <2>2. Stored' = Stored /\ s.fact \in Stored \cup stray
      BY <2>1 DEF Stored, SavedOnce
    <2>3. \A k \in saves : k.fact = s.fact => k.fact \in stray
      BY <2>2 DEF SavedOnce
    <2>4. CASE UNCHANGED <<vectors, indexed, stray>> /\ sharing' = sharing \ {s}
      <3>1. \A f : Found(f)' <=> Found(f)
        BY <2>1, <2>4 DEF Found
      <3> QED
        BY <2>1, <2>2, <2>4, <3>1 DEF Agreed
    <2>5. CASE /\ NewEntry(s.fact, s.goal)
               /\ \/ sharing' = sharing \ {s} /\ stray' = stray \cup {s.fact}
                  \/ sharing' = (sharing \ {s}) \cup {new} /\ stray' = stray /\ indexed' = vectors'
      <3>1. \A f \in Facts \ {s.fact} : vectors'[f] = vectors[f] /\ (Found(f)' <=> Found(f))
        BY <2>0, <2>1, <2>5 DEF NewEntry, Found, KnowTyped
      <3>2. \A f \in Facts \ stray' : indexed'[f] = vectors'[f]
        BY <1>0, <2>0, <2>1, <2>5, <3>1 DEF NewEntry, Agreed
      <3>3. vectors'[s.fact] = s.goal /\ \A k \in sharing : k = s \/ k.fact # s.fact
        BY <2>0, <2>5 DEF NewEntry, KnowTyped, SavedOnce
      <3>4. \A k \in saves' : k.fact \notin stray' =>
                vectors'[k.fact] = IF k.pc = "embed" THEN NoGoalYet ELSE k.goal
        BY <1>0, <1>b, <2>1, <2>3, <3>1 DEF Agreed
      <3>5. \A k \in sharing' : k.fact \notin stray' /\ k.pc = "write" => vectors'[k.fact] = k.goal
        BY <1>0, <1>c, <2>0, <2>1, <2>5, <3>1, <3>3 DEF Agreed, NewEntry
      <3>6. \A f \in Stored' \ stray' : \/ Found(f)' \/ vectors'[f] \in sharedKb'[f]
                                        \/ \E k \in sharing' : k.fact = f /\ k.pc = "write"
        <4> SUFFICES ASSUME NEW f \in Stored \ stray'
                     PROVE  \/ Found(f)' \/ vectors'[f] \in sharedKb'[f]
                            \/ \E k \in sharing' : k.fact = f /\ k.pc = "write"
          BY <2>2
        <4>1. CASE f = s.fact
          <5>1. s.fact \notin stray' => sharing' = (sharing \ {s}) \cup {new}
            BY <2>5
          <5> QED
            BY <2>0, <4>1, <5>1
        <4>2. CASE f # s.fact
          BY <1>0, <1>a, <2>1, <3>1, <4>2 DEF Agreed
        <4> QED
          BY <4>1, <4>2
      <3>7. \A f \in Facts \ (Stored' \cup stray') : (\A k \in saves' : k.fact # f) => vectors'[f] = NoGoalYet
        BY <1>0, <2>0, <2>1, <2>2, <3>1 DEF Agreed
      <3> QED
        BY <3>2, <3>4, <3>5, <3>6, <3>7 DEF Agreed
    <2> QED
      BY <2>1, <2>4, <2>5
  <1>8. ASSUME NEW s \in sharing, Share(s) \/ ShareFails(s) PROVE Agreed'
    <2>0. s.fact \in Facts /\ s.goal \in KnowGoals /\ s.copy \in [Facts -> SUBSET KnowGoals]
          /\ \A k \in sharing : k = s \/ k.fact # s.fact
      BY SharesAre DEF SavedOnce
    <2>1. UNCHANGED <<domain, vectors, indexed, saves>> /\ sharing' = sharing \ {s} /\ s.pc = "write"
      BY <1>8 DEF Share, ShareFails
    <2>2. Stored' = Stored /\ \A f : Found(f)' <=> Found(f)
      BY <2>1 DEF Stored, Found
    <2>3. \A f \in Facts \ stray' : sharedKb[f] \subseteq sharedKb'[f]
      BY <1>8 DEF Share, ShareFails
    <2>4. s.fact \notin stray' => vectors'[s.fact] = s.goal /\ s.goal \in sharedKb'[s.fact]
      <3>1. CASE Share(s)
        <4>1. sharedKb'[s.fact] = s.copy[s.fact] \cup {s.goal}
          BY <2>0, <3>1 DEF Share
        <4> QED
          BY <1>0, <2>1, <4>1 DEF Agreed
      <3>2. CASE ShareFails(s)
        BY <3>2 DEF ShareFails
      <3> QED
        BY <1>8, <3>1, <3>2
    <2>5. \A f \in Stored' \ stray' : \/ Found(f)' \/ vectors'[f] \in sharedKb'[f]
                                      \/ \E k \in sharing' : k.fact = f /\ k.pc = "write"
      BY <1>0, <1>a, <2>0, <2>1, <2>2, <2>3, <2>4 DEF Agreed
    <2> QED
      BY <1>0, <2>1, <2>2, <2>5 DEF Agreed
  <1>9. CASE DecisionStep
    <2>1. UNCHANGED <<domain, vectors, indexed, sharedKb, saves, sharing, stray>>
      BY <1>9, DecisionsApart
    <2>2. Stored' = Stored /\ \A f : Found(f)' <=> Found(f)
      BY <2>1 DEF Stored, Found
    <2> QED
      BY <2>1, <2>2 DEF Agreed
  <1> QED
    BY <1>1, <1>2, <1>3, <1>4, <1>5, <1>6, <1>7, <1>8, <1>9 DEF KnowNext, KnowledgeStep

LEMMA KnowStart == KnowInit => KnowInv
  <1> SUFFICES ASSUME KnowInit PROVE KnowInv
    OBVIOUS
  <1>1. KnowTyped
    BY DEF KnowInit, KnowTyped
  <1>2. Stored = {} /\ \A f \in Facts : vectors[f] = NoGoalYet /\ indexed[f] = NoGoalYet
    BY DEF KnowInit, Stored
  <1>3. SavedOnce /\ Lasting /\ Agreed
    BY <1>2 DEF KnowInit, SavedOnce, Lasting, Agreed
  <1> QED
    BY <1>1, <1>3 DEF KnowInv

LEMMA KnowKeeps == KnowInv /\ [KnowNext]_knowVars => KnowInv'
  <1>1. KnowInv /\ KnowNext => KnowInv'
    BY KnowTypesKept, SavedOnceKept, LastingKept, AgreedKept DEF KnowInv
  <1>2. KnowInv /\ UNCHANGED knowVars => KnowInv'
    BY DEF knowVars, KnowInv, KnowTyped, SavedOnce, Lasting, Searchable, Agreed, Stored, Found
  <1> QED
    BY <1>1, <1>2

LEMMA KnowTypes == KnowInv => KnowTypeOK
  BY DEF KnowInv, KnowTyped, KnowTypeOK, Kept

LEMMA KnowExact == KnowInv => SearchExact
  <1> SUFFICES ASSUME KnowInv PROVE SearchExact
    OBVIOUS
  <1>0. Stored \subseteq Facts
    BY DEF KnowInv, KnowTyped, Stored
  <1>1. \A f \in Stored : vectors[f] # NoGoalYet /\ indexed[f] # NoGoalYet
    BY DEF KnowInv, Lasting, Searchable
  <1>2. ASSUME NEW f \in Stored \ stray
        PROVE  Found(f) \/ vectors[f] \in sharedKb[f] \union {s.goal : s \in {x \in sharing : x.fact = f}}
    <2>1. ASSUME NEW s \in sharing, s.fact = f, s.pc = "write"
          PROVE  vectors[f] \in {k.goal : k \in {x \in sharing : x.fact = f}}
      BY <1>2, <2>1 DEF KnowInv, Agreed
    <2> QED
      BY <1>2, <2>1 DEF KnowInv, Agreed
  <1>3. \A f \in Facts \ (Stored \union stray \union {s.fact : s \in saves}) :
            vectors[f] = NoGoalYet /\ indexed[f] = NoGoalYet
    BY DEF KnowInv, Agreed
  <1> QED
    BY <1>1, <1>2, <1>3 DEF SearchExact

\* An outcome is recorded once.
LEMMA OutcomeStep ==
  ASSUME KnowInv, [KnowNext]_knowVars, NEW d \in Kept, decisions[d].outcome # "pending"
  PROVE  decisions'[d] = NoRecord \/ decisions'[d].outcome = decisions[d].outcome
  <1>1. d \in Decisions /\ decisions[d] \in DecisionRecord /\ decisions \in [Decisions -> DecisionRecord \cup {NoRecord}]
    BY DEF KnowInv, KnowTyped, Kept
  <1>2. CASE UNCHANGED decisions
    BY <1>2
  <1>3. CASE Time
    <2>1. decisions'[d] = [decisions[d] EXCEPT !.age = @ + 1]
      BY <1>1, <1>3 DEF Time
    <2> QED
      BY <1>1, <2>1 DEF DecisionRecord
  <1>4. CASE PurgeOldDecisions
    BY <1>1, <1>4 DEF PurgeOldDecisions
  <1>5. ASSUME NEW k \in Decisions, NEW s \in PivotStrategies, RecordDecision(k, s)
        PROVE  decisions'[d] = decisions[d]
    <2>1. k # d
      BY <1>5 DEF RecordDecision, Kept
    <2> QED
      BY <1>1, <1>5, <2>1 DEF RecordDecision
  <1>6. ASSUME NEW s \in PivotStrategies, NEW outcome \in {"success", "failure"}, UpdateDecisionOutcome(s, outcome)
        PROVE  decisions'[d] = decisions[d]
    <2>1. PICK k \in Pending(s) : decisions' = [decisions EXCEPT ![k].outcome = outcome]
      BY <1>6 DEF UpdateDecisionOutcome
    <2>2. k # d
      BY DEF Pending
    <2> QED
      BY <1>1, <2>1, <2>2
  <1>7. KnowledgeStep => UNCHANGED decisions
    BY DEF KnowledgeStep, KnowCrash, StartSave, StartShare, Embed, EmbedAgain, Write, WriteFails, WriteSkipped, EmbedShared,
           Share, ShareFails
  <1>8. ASSUME NEW low \in BOOLEAN, NEW none \in BOOLEAN, NEW answer, GenerateAcquisitionTask(low, none, answer)
        PROVE  UNCHANGED decisions
    BY <1>8 DEF GenerateAcquisitionTask
  <1>9. CASE DecisionStep
    <2>1. Time \/ PurgeOldDecisions \/ decisions'[d] = decisions[d]
      BY <1>2, <1>5, <1>6, <1>8, <1>9 DEF DecisionStep
    <2> QED
      BY <1>3, <1>4, <2>1
  <1> QED
    BY <1>2, <1>7, <1>9 DEF KnowNext, knowVars

HIDE KnowAssumption DEF KnowAssumption

-----------------------------------------------------------------------------
(* Learning and transfer *)

USE LearnAssumption DEF LearnAssumption

AppliedContext == [of : Patterns, src : LearnGoals, dst : LearnGoals, known : BOOLEAN]
FeedbackEntry == [delta : Int, shared : BOOLEAN]

TransferTyped ==
    /\ learned \in [LearnGoals -> SUBSET LearnedPattern] /\ origin \in [Patterns -> SUBSET LearnGoals]
    /\ toShare \subseteq Patterns \X LearnGoals \X LearnGoals /\ meta \subseteq Patterns
    /\ candidates \subseteq Candidate /\ offered \subseteq Candidate /\ contexts \subseteq AppliedContext
    /\ trust \in [DomainPairs -> 0..20] /\ effects \in [DomainPairs -> Seq(TransferEffectiveness)]
    /\ (\A d \in DomainPairs : Len(effects[d]) <= 6) /\ streak \in [DomainPairs -> Nat]

\* Every copy of a pattern, however often it was passed on, names the goal it was
\* drawn from, and what is offered of it goes to another goal.
Traced ==
    /\ \A g \in LearnGoals : \A y \in learned[g] : origin[y.of] # {} /\ origin[y.of] \subseteq y.source_goal_ids
    /\ \A c \in candidates \cup offered : origin[c.of] # {} /\ c.dst \notin origin[c.of]

\* The history of a pair, cut to its last six effects, still shows that the last
\* three were not positive when they were not.
StreakKnown ==
    \A d \in DomainPairs : \A k \in 0..2 :
        k < streak[d] => k < Len(effects[d]) /\ effects[d][Len(effects[d]) - k] # "positive"

TransferInv == TransferTyped /\ Traced /\ StreakKnown
FeedbackInv == feedback \in [LearnGoals -> Seq(FeedbackEntry)]

LEMMA PairsAre ==
  ASSUME NEW p \in Patterns, NEW src \in LearnGoals, NEW dst \in LearnGoals
  PROVE  Pair(p, src, dst) \in DomainPairs /\ <<src, dst>> \in DomainPairs
  BY DEF Pair, DomainPairs

LEMMA OffersAre ==
  ASSUME TransferTyped, NEW g \in LearnGoals, NEW c \in Eligible(g)
  PROVE  /\ c \in Candidate /\ c.of \in Patterns /\ c.src \in LearnGoals /\ c.dst = g
         /\ \E y \in learned[c.src] : y.of = c.of /\ g \notin y.source_goal_ids
         /\ ~ShouldInvalidate(Pair(c.of, c.src, c.dst))
  <1>1. c \in [of : Patterns, src : LearnGoals \ {g}, dst : {g}, state : {"pending"}]
    BY DEF Eligible
  <1>2. c.of \in Patterns /\ c.src \in LearnGoals /\ c.dst = g /\ c \in Candidate
    BY <1>1 DEF Candidate, TransferState
  <1> QED
    BY <1>2 DEF Eligible, CopyOf

LEMMA LastKept ==
  ASSUME NEW s \in Seq(TransferEffectiveness), Len(s) <= 6, NEW effect \in TransferEffectiveness
  PROVE  LET t == LastEffects(Append(s, effect)) IN
         /\ t \in Seq(TransferEffectiveness) /\ Len(t) <= 6 /\ Len(t) > 0 /\ t[Len(t)] = effect
         /\ \A k \in 1..2 : k <= Len(s) => k < Len(t) /\ t[Len(t) - k] = s[Len(s) - (k - 1)]
  <1> DEFINE u == Append(s, effect)
             t == LastEffects(u)
  <1>1. u \in Seq(TransferEffectiveness) /\ Len(u) = Len(s) + 1 /\ u[Len(s) + 1] = effect
        /\ \A i \in 1..Len(s) : u[i] = s[i]
    BY AppendProperties
  <1>2. Len(s) \in Nat
    BY LenProperties
  <1> HIDE DEF u
  <1>3. t = IF Len(u) > 6 THEN SubSeq(u, Len(u) - 5, Len(u)) ELSE u
    BY DEF LastEffects
  <1> HIDE DEF t
  <1>4. /\ t \in Seq(TransferEffectiveness) /\ Len(t) <= 6 /\ Len(t) > 0 /\ t[Len(t)] = effect
        /\ \A k \in 1..2 : k <= Len(s) => k < Len(t) /\ t[Len(t) - k] = s[Len(s) - (k - 1)]
    <2>1. CASE Len(s) < 6
      <3>1. t = u
        BY <1>1, <1>2, <1>3, <2>1
      <3> QED
        BY <1>1, <1>2, <2>1, <3>1
    <2>2. CASE Len(s) = 6
      <3>1. ASSUME NEW i \in 2..7 PROVE u[i] \in TransferEffectiveness
        <4>1. i \in 1..Len(u)
          BY <1>1, <2>2
        <4> QED
          BY <1>1, <4>1, ElementOfSeq
      <3>2. t = SubSeq(u, 2, 7)
        BY <1>1, <1>3, <2>2
      <3>3. t \in Seq(TransferEffectiveness) /\ Len(t) = 6 /\ \A i \in 1..6 : t[i] = u[i + 1]
        BY <3>1, <3>2, SubSeqProperties
      <3>4. t[6] = effect /\ \A k \in 1..2 : t[6 - k] = s[6 - (k - 1)]
        BY <1>1, <2>2, <3>3
      <3> QED
        BY <2>2, <3>3, <3>4
    <2>3. Len(s) < 6 \/ Len(s) = 6
      <3> DEFINE n == Len(s)
      <3>1. n \in Nat /\ n <= 6
        BY <1>2
      <3> HIDE DEF n
      <3>2. n < 6 \/ n = 6
        BY <3>1
      <3> QED
        BY <3>2 DEF n
    <2> QED
      BY <2>1, <2>2, <2>3, Zenon
  <1> QED
    BY <1>4 DEF t, u

LEMMA TrustBounded ==
  ASSUME NEW score \in 0..20, NEW effect \in TransferEffectiveness
  PROVE  Trusted(score, effect) \in 0..20
  <1>1. Trusted(score, "positive") \in 0..20
    BY DEF Trusted
  <1>2. Trusted(score, "negative") \in 0..20
    BY DEF Trusted
  <1>3. Trusted(score, "neutral") \in 0..20
    BY DEF Trusted
  <1>4. effect = "positive" \/ effect = "negative" \/ effect = "neutral"
    BY DEF TransferEffectiveness
  <1> QED
    BY <1>1, <1>2, <1>3, <1>4, Zenon

LEMMA BestKept ==
  ASSUME NEW S, NEW T \in KeepBest(S)
  PROVE  T \subseteq S
  BY DEF KeepBest

LEMMA CopiesAre ==
  ASSUME TransferTyped, NEW g \in LearnGoals, NEW h, NEW p \in Patterns
  PROVE  \A y \in SharedCopies(p, g, h) :
            y \in LearnedPattern /\ \E z \in learned[g] : y.of = z.of /\ z.source_goal_ids \subseteq y.source_goal_ids
  <1> SUFFICES ASSUME NEW z \in CopyOf(p, learned[g])
               PROVE  LET y == [of |-> p, confidence |-> (z.confidence * 7) \div 10, source_goal_ids |-> Sources(z, g, h)]
                      IN  /\ y \in LearnedPattern
                          /\ z \in learned[g] /\ y.of = z.of /\ z.source_goal_ids \subseteq y.source_goal_ids
    BY DEF SharedCopies
  <1>1. z \in learned[g] /\ z.of = p /\ z.confidence \in 0..100 /\ z.source_goal_ids \subseteq LearnGoals
    BY DEF CopyOf, TransferTyped, LearnedPattern
  <1>2. (z.confidence * 7) \div 10 \in 0..100
    BY <1>1
  <1>3. z.source_goal_ids \subseteq Sources(z, g, h) /\ Sources(z, g, h) \subseteq LearnGoals
    BY <1>1 DEF Sources
  <1> QED
    BY <1>1, <1>2, <1>3 DEF LearnedPattern

LEMMA TransferTypesKept ==
  ASSUME TransferTyped, TransferStep
  PROVE  TransferTyped'
  <1> USE DEF TransferTyped
  <1>1. CASE LearnRestart
    BY <1>1 DEF LearnRestart
  <1>2. ASSUME NEW g \in LearnGoals, NEW p \in Patterns, NEW confidence \in {60, 90}, NEW completed \in BOOLEAN,
               AnalyzeLogs(g, p, confidence, completed)
        PROVE  TransferTyped'
    <2> DEFINE new == [of |-> p, confidence |-> confidence, source_goal_ids |-> {g}]
    <2>1. new \in LearnedPattern
      BY DEF LearnedPattern
    <2>2. PICK best \in KeepBest(learned[g] \cup {new}) : learned' = [learned EXCEPT ![g] = best]
      BY <1>2 DEF AnalyzeLogs
    <2>3. best \subseteq LearnedPattern
      <3>1. best \subseteq learned[g] \cup {new}
        BY BestKept
      <3>2. learned[g] \subseteq LearnedPattern
        OBVIOUS
      <3> HIDE DEF new
      <3> QED
        BY <2>1, <3>1, <3>2
    <2>4. learned' \in [LearnGoals -> SUBSET LearnedPattern]
      BY <2>2, <2>3
    <2>5. origin' \in [Patterns -> SUBSET LearnGoals] /\ meta' \subseteq Patterns
      BY <1>2 DEF AnalyzeLogs
    <2>6. toShare' \subseteq Patterns \X LearnGoals \X LearnGoals
      BY <1>2 DEF AnalyzeLogs
    <2> QED
      BY <1>2, <2>4, <2>5, <2>6 DEF AnalyzeLogs
  <1>3. ASSUME NEW p \in Patterns, NEW g \in LearnGoals, NEW h \in LearnGoals, SharePatternAcrossGoals(p, g, h)
        PROVE  TransferTyped'
    <2>1. PICK best \in KeepBest(learned[h] \cup SharedCopies(p, g, h)) : learned' = [learned EXCEPT ![h] = best]
      BY <1>3 DEF SharePatternAcrossGoals
    <2>2. best \subseteq LearnedPattern
      BY BestKept, CopiesAre
    <2>3. learned' \in [LearnGoals -> SUBSET LearnedPattern]
      BY <2>1, <2>2
    <2> QED
      BY <1>3, <2>3 DEF SharePatternAcrossGoals
  <1>4. ASSUME NEW g \in LearnGoals, DetectTransferOpportunities(g) PROVE TransferTyped'
    <2>1. Eligible(g) \subseteq Candidate
      BY OffersAre
    <2> QED
      BY <1>4, <2>1 DEF DetectTransferOpportunities
  <1>5. \A c \in Candidate : Context(c) \in AppliedContext
    BY DEF Candidate, Context, AppliedContext
  <1>6. ASSUME NEW c \in candidates, ApplyTransfer(c) PROVE TransferTyped'
    BY <1>5, <1>6 DEF ApplyTransfer
  <1>7. ASSUME NEW c \in offered, AutoApply(c) PROVE TransferTyped'
    <2>1. \A st \in {"applied", "rejected", "proposed"} : [c EXCEPT !.state = st] \in Candidate
      BY DEF Candidate, TransferState
    <2>2. contexts' \subseteq AppliedContext
      BY <1>5, <1>7 DEF AutoApply
    <2>3. candidates' \subseteq Candidate
      BY <1>7, <2>1 DEF AutoApply
    <2> QED
      BY <1>7, <2>2, <2>3 DEF AutoApply
  <1>8. ASSUME NEW y \in contexts, NEW effect \in TransferEffectiveness,
               NEW written \in SUBSET {"score", "history"}, NEW failed \in BOOLEAN,
               EvaluateTransferEffect(y, effect, written, failed)
        PROVE  TransferTyped'
    <2> DEFINE d == IF y.known THEN Pair(y.of, y.src, y.dst) ELSE <<y.src, y.dst>>
    <2>1. d \in DomainPairs
      BY PairsAre DEF AppliedContext
    <2>2. trust' = [trust EXCEPT ![d] = Trusted(@, effect)] \/ trust' = trust
      BY <1>8 DEF EvaluateTransferEffect
    <2>3. \/ /\ effects' = [effects EXCEPT ![d] = LastEffects(Append(@, effect))]
             /\ streak' = [streak EXCEPT ![d] = IF effect = "positive" THEN 0 ELSE @ + 1]
          \/ UNCHANGED <<effects, streak>>
      BY <1>8 DEF EvaluateTransferEffect
    <2> HIDE DEF d
    <2>4. Trusted(trust[d], effect) \in 0..20
      <3>1. trust[d] \in 0..20
        BY <2>1
      <3> QED
        BY <3>1, TrustBounded
    <2>5. trust' \in [DomainPairs -> 0..20] /\ streak' \in [DomainPairs -> Nat]
      <3>1. trust' \in [DomainPairs -> 0..20]
        BY <2>1, <2>2, <2>4
      <3>2. streak' \in [DomainPairs -> Nat]
        <4>1. streak[d] + 1 \in Nat
          BY <2>1
        <4>2. CASE streak' = [streak EXCEPT ![d] = IF effect = "positive" THEN 0 ELSE @ + 1]
          <5>1. streak' = [streak EXCEPT ![d] = IF effect = "positive" THEN 0 ELSE streak[d] + 1]
            BY <2>1, <4>2
          <5> QED
            BY <4>1, <5>1
        <4> QED
          BY <2>3, <4>2
      <3> QED
        BY <3>1, <3>2
    <2>6. LastEffects(Append(effects[d], effect)) \in Seq(TransferEffectiveness)
          /\ Len(LastEffects(Append(effects[d], effect))) <= 6
      BY <2>1, LastKept
    <2>7. effects' \in [DomainPairs -> Seq(TransferEffectiveness)] /\ \A e \in DomainPairs : Len(effects'[e]) <= 6
      BY <2>1, <2>3, <2>6
    <2>8. \A c \in Candidate : [c EXCEPT !.state = "invalidated"] \in Candidate
      BY DEF Candidate, TransferState
    <2>9. \A c \in candidates' : c \in candidates \/ \E b \in candidates : c = [b EXCEPT !.state = "invalidated"]
      BY <1>8 DEF EvaluateTransferEffect
    <2>10. candidates' \subseteq Candidate
      BY <2>8, <2>9
    <2>11. offered' = {} /\ UNCHANGED <<learned, origin, toShare, meta, contexts>>
      BY <1>8 DEF EvaluateTransferEffect
    <2> QED
      BY <2>5, <2>7, <2>10, <2>11
  <1> HIDE DEF TransferTyped
  <1> QED
    BY <1>1, <1>2, <1>3, <1>4, <1>6, <1>7, <1>8 DEF TransferStep

LEMMA TracedKept ==
  ASSUME TransferTyped, Traced, TransferStep
  PROVE  Traced'
  <1>1. CASE LearnRestart
    BY <1>1 DEF LearnRestart, Traced
  <1>2. ASSUME NEW g \in LearnGoals, NEW p \in Patterns, NEW confidence \in {60, 90}, NEW completed \in BOOLEAN,
               AnalyzeLogs(g, p, confidence, completed)
        PROVE  Traced'
    <2> DEFINE new == [of |-> p, confidence |-> confidence, source_goal_ids |-> {g}]
    <2>1. PICK best \in KeepBest(learned[g] \cup {new}) : learned' = [learned EXCEPT ![g] = best]
      BY <1>2 DEF AnalyzeLogs
    <2>2. origin[p] = {} /\ origin' = [origin EXCEPT ![p] = {g}] /\ UNCHANGED <<candidates, offered>>
      BY <1>2 DEF AnalyzeLogs
    <2>3. new.of = p /\ new.source_goal_ids = {g}
      OBVIOUS
    <2>4. best \subseteq learned[g] \cup {new}
      BY <2>1, BestKept
    <2>5. \A q \in Patterns : origin[q] # {} => origin'[q] = origin[q]
      BY <2>2 DEF TransferTyped
    <2>6. origin'[p] = {g}
      BY <2>2 DEF TransferTyped
    <2> HIDE DEF new
    <2>7. ASSUME NEW h \in LearnGoals, NEW y \in learned'[h]
          PROVE  origin'[y.of] # {} /\ origin'[y.of] \subseteq y.source_goal_ids
      <3>1. y = new \/ y \in learned[h]
        BY <2>1, <2>4 DEF TransferTyped
      <3>2. CASE y = new
        BY <2>3, <2>6, <3>2
      <3>3. CASE y \in learned[h]
        <4>1. y.of \in Patterns
          BY <3>3 DEF TransferTyped, LearnedPattern
        <4> QED
          BY <2>5, <3>3, <4>1 DEF Traced
      <3> QED
        BY <3>1, <3>2, <3>3
    <2>8. ASSUME NEW c \in candidates' \cup offered' PROVE origin'[c.of] # {} /\ c.dst \notin origin'[c.of]
      <3>1. c \in candidates \cup offered /\ c.of \in Patterns
        BY <2>2 DEF TransferTyped, Candidate
      <3> QED
        BY <2>5, <3>1 DEF Traced
    <2> QED
      BY <2>7, <2>8 DEF Traced
  <1>3. ASSUME NEW p \in Patterns, NEW g \in LearnGoals, NEW h \in LearnGoals, SharePatternAcrossGoals(p, g, h)
        PROVE  Traced'
    <2>1. PICK best \in KeepBest(learned[h] \cup SharedCopies(p, g, h)) : learned' = [learned EXCEPT ![h] = best]
      BY <1>3 DEF SharePatternAcrossGoals
    <2>2. UNCHANGED <<origin, candidates, offered>>
      BY <1>3 DEF SharePatternAcrossGoals
    <2>3. best \subseteq learned[h] \cup SharedCopies(p, g, h)
      BY <2>1, BestKept
    <2>4. ASSUME NEW k \in LearnGoals, NEW y \in learned'[k]
          PROVE  origin[y.of] # {} /\ origin[y.of] \subseteq y.source_goal_ids
      <3>1. y \in SharedCopies(p, g, h) \/ y \in learned[k]
        BY <2>1, <2>3 DEF TransferTyped
      <3>2. CASE y \in SharedCopies(p, g, h)
        <4>1. PICK z \in learned[g] : y.of = z.of /\ z.source_goal_ids \subseteq y.source_goal_ids
          BY <3>2, CopiesAre
        <4> QED
          BY <4>1 DEF Traced
      <3>3. CASE y \in learned[k]
        BY <3>3 DEF Traced
      <3> QED
        BY <3>1, <3>2, <3>3
    <2> QED
      BY <2>2, <2>4 DEF Traced
  <1>4. ASSUME NEW g \in LearnGoals, DetectTransferOpportunities(g) PROVE Traced'
    <2>1. ASSUME NEW c \in Eligible(g) PROVE origin[c.of] # {} /\ c.dst \notin origin[c.of]
      <3>1. c.src \in LearnGoals /\ c.dst = g /\ \E y \in learned[c.src] : y.of = c.of /\ g \notin y.source_goal_ids
        BY OffersAre
      <3> QED
        BY <3>1 DEF Traced
    <2>2. offered' \subseteq Eligible(g) /\ candidates' \subseteq candidates \cup Eligible(g) /\ UNCHANGED <<learned, origin>>
      BY <1>4 DEF DetectTransferOpportunities
    <2> QED
      BY <2>1, <2>2 DEF Traced
  <1>5. ASSUME NEW c \in candidates, ApplyTransfer(c) PROVE Traced'
    BY <1>5 DEF ApplyTransfer, Traced
  <1>6. ASSUME NEW c \in Candidate, NEW st PROVE [c EXCEPT !.state = st].of = c.of /\ [c EXCEPT !.state = st].dst = c.dst
    BY DEF Candidate
  <1>7. ASSUME NEW c \in offered, AutoApply(c) PROVE Traced'
    <2>1. \A b \in candidates' : b \in candidates \/ (b.of = c.of /\ b.dst = c.dst)
      <3>1. PICK st : candidates' = (candidates \ {c}) \cup {[c EXCEPT !.state = st]}
        BY <1>7 DEF AutoApply
      <3>2. [c EXCEPT !.state = st].of = c.of /\ [c EXCEPT !.state = st].dst = c.dst
        BY <1>6 DEF TransferTyped
      <3> QED
        BY <3>1, <3>2
    <2>2. offered' = {} /\ UNCHANGED <<learned, origin>>
      BY <1>7 DEF AutoApply
    <2> QED
      BY <2>1, <2>2 DEF Traced
  <1>8. ASSUME NEW y \in contexts, NEW effect \in TransferEffectiveness,
               NEW written \in SUBSET {"score", "history"}, NEW failed \in BOOLEAN,
               EvaluateTransferEffect(y, effect, written, failed)
        PROVE  Traced'
    <2>1. \A c \in candidates' : c \in candidates \/ \E b \in candidates : c = [b EXCEPT !.state = "invalidated"]
      BY <1>8 DEF EvaluateTransferEffect
    <2>2. \A c \in candidates' : \E b \in candidates : c.of = b.of /\ c.dst = b.dst
      <3>1. ASSUME NEW b \in candidates
            PROVE  [b EXCEPT !.state = "invalidated"].of = b.of /\ [b EXCEPT !.state = "invalidated"].dst = b.dst
        BY <1>6 DEF TransferTyped
      <3> QED
        BY <2>1, <3>1
    <2>3. offered' = {} /\ UNCHANGED <<learned, origin>>
      BY <1>8 DEF EvaluateTransferEffect
    <2> QED
      BY <2>2, <2>3 DEF Traced
  <1> QED
    BY <1>1, <1>2, <1>3, <1>4, <1>5, <1>7, <1>8 DEF TransferStep

LEMMA StreakKept ==
  ASSUME TransferTyped, StreakKnown, TransferStep
  PROVE  StreakKnown'
  <1>1. ASSUME NEW y \in contexts, NEW effect \in TransferEffectiveness,
               NEW written \in SUBSET {"score", "history"}, NEW failed \in BOOLEAN,
               EvaluateTransferEffect(y, effect, written, failed)
        PROVE  StreakKnown'
    <2> DEFINE d == IF y.known THEN Pair(y.of, y.src, y.dst) ELSE <<y.src, y.dst>>
    <2>1. d \in DomainPairs
      BY PairsAre DEF AppliedContext, TransferTyped
    <2>2. CASE UNCHANGED <<effects, streak>>
      BY <2>2 DEF StreakKnown
    <2> HIDE DEF d
    <2>3. CASE /\ effects' = [effects EXCEPT ![d] = LastEffects(Append(@, effect))]
               /\ streak' = [streak EXCEPT ![d] = IF effect = "positive" THEN 0 ELSE @ + 1]
      <3> DEFINE s == effects[d]
                 t == LastEffects(Append(s, effect))
      <3>1. s \in Seq(TransferEffectiveness) /\ Len(s) <= 6 /\ Len(s) \in Nat /\ streak[d] \in Nat
        BY <2>1, LenProperties DEF TransferTyped
      <3>2. /\ t \in Seq(TransferEffectiveness) /\ Len(t) > 0 /\ t[Len(t)] = effect
            /\ \A k \in 1..2 : k <= Len(s) => k < Len(t) /\ t[Len(t) - k] = s[Len(s) - (k - 1)]
        BY <3>1, LastKept
      <3>3. Len(t) \in Nat
        BY <3>2, LenProperties
      <3>4. effects'[d] = t /\ streak'[d] = IF effect = "positive" THEN 0 ELSE streak[d] + 1
        BY <2>1, <2>3 DEF TransferTyped
      <3>5. \A k \in 0..2 : k < streak[d] => k < Len(s) /\ s[Len(s) - k] # "positive"
        BY <2>1 DEF StreakKnown
      <3> HIDE DEF s, t
      <3>6. ASSUME NEW k \in 0..2, k < streak'[d]
            PROVE  k < Len(t) /\ t[Len(t) - k] # "positive"
        <4>1. effect # "positive" /\ k < streak[d] + 1
          BY <3>4, <3>6
        <4>2. CASE k = 0
          BY <3>2, <3>3, <4>1, <4>2
        <4>3. CASE k \in 1..2
          <5>1. k - 1 < Len(s) /\ s[Len(s) - (k - 1)] # "positive"
            BY <3>1, <3>5, <4>1, <4>3
          <5> QED
            BY <3>1, <3>2, <3>3, <4>3, <5>1
        <4> QED
          BY <4>2, <4>3
      <3>7. ASSUME NEW e \in DomainPairs, e # d PROVE effects'[e] = effects[e] /\ streak'[e] = streak[e]
        BY <2>3, <3>7 DEF TransferTyped
      <3>8. ASSUME NEW e \in DomainPairs, NEW k \in 0..2, k < streak'[e]
             PROVE  k < Len(effects'[e]) /\ effects'[e][Len(effects'[e]) - k] # "positive"
        <4>1. CASE e = d
          BY <3>4, <3>6, <3>8, <4>1
        <4>2. CASE e # d
          BY <3>7, <3>8, <4>2 DEF StreakKnown
        <4> QED
          BY <4>1, <4>2
      <3> QED
        BY <3>8 DEF StreakKnown
    <2>4. \/ UNCHANGED <<effects, streak>>
          \/ /\ effects' = [effects EXCEPT ![d] = LastEffects(Append(@, effect))]
             /\ streak' = [streak EXCEPT ![d] = IF effect = "positive" THEN 0 ELSE @ + 1]
      BY <1>1 DEF EvaluateTransferEffect, d
    <2> QED
      BY <2>2, <2>3, <2>4, Zenon
  <1>2. ASSUME UNCHANGED <<effects, streak>> PROVE StreakKnown'
    BY <1>2 DEF StreakKnown
  <1> QED
    BY <1>1, <1>2 DEF TransferStep, LearnRestart, AnalyzeLogs, SharePatternAcrossGoals, DetectTransferOpportunities,
         ApplyTransfer, AutoApply

LEMMA TransferStart == LearnInit => TransferInv /\ FeedbackInv
  <1> SUFFICES ASSUME LearnInit PROVE TransferInv /\ FeedbackInv
    OBVIOUS
  <1>1. <<>> \in Seq(TransferEffectiveness) /\ Len(<<>>) = 0 /\ <<>> \in Seq(FeedbackEntry)
    BY EmptySeq
  <1>2. learned = [g \in LearnGoals |-> {}] /\ origin = [p \in Patterns |-> {}] /\ toShare = {} /\ meta = {}
        /\ candidates = {} /\ offered = {} /\ contexts = {} /\ trust = [d \in DomainPairs |-> 10]
        /\ effects = [d \in DomainPairs |-> <<>>] /\ streak = [d \in DomainPairs |-> 0]
        /\ feedback = [g \in LearnGoals |-> <<>>]
    BY DEF LearnInit
  <1>3. TransferTyped
    BY <1>1, <1>2 DEF TransferTyped
  <1>4. Traced /\ StreakKnown
    BY <1>2 DEF Traced, StreakKnown
  <1> QED
    BY <1>1, <1>2, <1>3, <1>4 DEF TransferInv, FeedbackInv

LEMMA TransferKeeps == TransferInv /\ [TransferStep]_transferVars => TransferInv'
  <1>1. TransferInv /\ TransferStep => TransferInv'
    BY TransferTypesKept, TracedKept, StreakKept DEF TransferInv
  <1>2. TransferInv /\ UNCHANGED transferVars => TransferInv'
    BY DEF transferVars, TransferInv, TransferTyped, Traced, StreakKnown
  <1> QED
    BY <1>1, <1>2

LEMMA LearnTypes == TransferInv => LearnTypeOK
  BY DEF TransferInv, TransferTyped, LearnTypeOK

LEMMA EchoFree == TransferInv => NoEcho
  BY DEF TransferInv, Traced, NoEcho

\* What a detection returns is about pairs that are not silenced, and nothing else
\* adds to what is offered.
LEMMA SilencedStep ==
  ASSUME TransferInv, [TransferStep]_transferVars
  PROVE  offered' # offered => \A c \in offered' : streak[Pair(c.of, c.src, c.dst)] < 3
  <1> USE DEF TransferInv
  <1>1. ASSUME NEW g \in LearnGoals, DetectTransferOpportunities(g), NEW c \in offered'
        PROVE  streak[Pair(c.of, c.src, c.dst)] < 3
    <2> DEFINE d == Pair(c.of, c.src, c.dst)
    <2>1. c \in Eligible(g)
      BY <1>1 DEF DetectTransferOpportunities
    <2>2. c.of \in Patterns /\ c.src \in LearnGoals /\ c.dst \in LearnGoals /\ ~ShouldInvalidate(d)
      BY <2>1, OffersAre
    <2>3. d \in DomainPairs
      BY <2>2, PairsAre
    <2> HIDE DEF d
    <2>4. effects[d] \in Seq(TransferEffectiveness) /\ streak[d] \in Nat
      BY <2>3 DEF TransferTyped
    <2>5. Len(effects[d]) \in Nat
      BY <2>4, LenProperties
    <2>6. ASSUME streak[d] >= 3 PROVE ShouldInvalidate(d)
      <3>1. \A k \in 0..2 : k < Len(effects[d]) /\ effects[d][Len(effects[d]) - k] # "positive"
        BY <2>3, <2>4, <2>6 DEF StreakKnown
      <3>2. Len(effects[d]) >= 3
        BY <2>5, <3>1
      <3>3. ASSUME NEW i \in Len(effects[d]) - 2 .. Len(effects[d]) PROVE effects[d][i] # "positive"
        <4>1. Len(effects[d]) - i \in 0..2 /\ Len(effects[d]) - (Len(effects[d]) - i) = i
          BY <2>5, <3>3
        <4> QED
          BY <3>1, <4>1
      <3> QED
        BY <3>2, <3>3 DEF ShouldInvalidate
    <2>7. streak[d] < 3
      BY <2>2, <2>4, <2>6
    <2> QED
      BY <2>7 DEF d
  <1>2. ASSUME NEW y \in contexts, NEW effect, NEW written, NEW failed, EvaluateTransferEffect(y, effect, written, failed)
        PROVE  offered' = {}
    BY <1>2 DEF EvaluateTransferEffect
  <1>3. offered' = {} \/ UNCHANGED offered \/ \E g \in LearnGoals : DetectTransferOpportunities(g)
    <2>1. CASE TransferStep
      BY <1>2, <2>1 DEF TransferStep, LearnRestart, AnalyzeLogs, SharePatternAcrossGoals, ApplyTransfer, AutoApply
    <2>2. CASE UNCHANGED transferVars
      BY <2>2 DEF transferVars
    <2> QED
      BY <2>1, <2>2
  <1> QED
    BY <1>1, <1>3

-----------------------------------------------------------------------------
(* Structural feedback *)

\* A list of feedback is left alone or gets one more entry.
LEMMA FeedbackGrows ==
  ASSUME FeedbackInv, [FeedbackStep]_feedbackVars, NEW g \in LearnGoals
  PROVE  feedback'[g] = feedback[g] \/ \E e \in FeedbackEntry : feedback'[g] = Append(feedback[g], e)
  <1>1. ASSUME NEW h \in LearnGoals, NEW e \in FeedbackEntry, feedback' = [feedback EXCEPT ![h] = Append(@, e)]
        PROVE  feedback'[g] = feedback[g] \/ feedback'[g] = Append(feedback[g], e)
    BY <1>1 DEF FeedbackInv
  <1>2. ASSUME NEW h \in LearnGoals, NEW delta \in Deltas, RecordStructuralFeedback(h, delta)
        PROVE  \E e \in FeedbackEntry : feedback' = [feedback EXCEPT ![h] = Append(@, e)]
    <2>1. [delta |-> delta, shared |-> FALSE] \in FeedbackEntry
      BY DEF FeedbackEntry
    <2> QED
      BY <1>2, <2>1 DEF RecordStructuralFeedback
  <1>3. ASSUME NEW h \in LearnGoals, SharePatterns(h)
        PROVE  \E e \in FeedbackEntry : feedback' = [feedback EXCEPT ![h] = Append(@, e)]
    <2>1. PICK q \in found : feedback' = [feedback EXCEPT ![h] = Append(@, [shared |-> TRUE,
                delta |-> IF q.type = "success" THEN -1 ELSE IF q.type = "failure" THEN 1 ELSE 0])]
      BY <1>3 DEF SharePatterns
    <2>2. [shared |-> TRUE, delta |-> IF q.type = "success" THEN -1 ELSE IF q.type = "failure" THEN 1 ELSE 0]
            \in FeedbackEntry
      BY DEF FeedbackEntry
    <2> QED
      BY <2>1, <2>2
  <1>4. CASE UNCHANGED feedback
    BY <1>4
  <1> QED
    BY <1>1, <1>2, <1>3, <1>4 DEF FeedbackStep, ExtractCrossGoalPatterns, feedbackVars

LEMMA FeedbackKeeps ==
  ASSUME FeedbackInv, [FeedbackStep]_feedbackVars
  PROVE  FeedbackInv'
  <1>1. ASSUME NEW g \in LearnGoals PROVE feedback'[g] \in Seq(FeedbackEntry)
    <2>1. feedback[g] \in Seq(FeedbackEntry)
      BY DEF FeedbackInv
    <2>2. ASSUME NEW e \in FeedbackEntry PROVE Append(feedback[g], e) \in Seq(FeedbackEntry)
      BY <2>1, AppendProperties
    <2>3. feedback'[g] = feedback[g] \/ \E e \in FeedbackEntry : feedback'[g] = Append(feedback[g], e)
      BY FeedbackGrows
    <2> QED
      BY <2>1, <2>2, <2>3
  <1>2. \E f : feedback' = [g \in LearnGoals |-> f[g]]
    <2>1. ASSUME NEW h \in LearnGoals, NEW e, feedback' = [feedback EXCEPT ![h] = Append(@, e)]
          PROVE  feedback' = [g \in LearnGoals |-> feedback'[g]]
      BY <2>1 DEF FeedbackInv
    <2>2. CASE UNCHANGED feedback
      BY <2>2 DEF FeedbackInv
    <2> QED
      BY <2>1, <2>2 DEF FeedbackStep, ExtractCrossGoalPatterns, RecordStructuralFeedback, SharePatterns, feedbackVars
  <1> QED
    BY <1>1, <1>2 DEF FeedbackInv

\* Six tenths of n observations and six tenths of n + 1 cannot lie on opposite
\* sides once n is at least five.
LEMMA UpToN ==
  ASSUME NEW n \in Nat
  PROVE  IsFiniteSet(1..n) /\ Cardinality(1..n) = n
  <1>1. 1 \in Int /\ n \in Int
    OBVIOUS
  <1>2. IsFiniteSet(1..n) /\ Cardinality(1..n) = IF 1 > n THEN 0 ELSE n - 1 + 1
    BY <1>1, FS_Interval, Zenon
  <1> QED
    BY <1>2

LEMMA Outvoted ==
  ASSUME NEW n \in Nat, n >= 5, NEW A \in SUBSET (1..n), NEW B, B \subseteq ((1..n) \ A) \cup {n + 1},
         10 * Cardinality(A) >= 6 * n
  PROVE  10 * Cardinality(B) < 6 * (n + 1)
  <1>1. IsFiniteSet(1..n) /\ Cardinality(1..n) = n
    BY UpToN
  <1>2. IsFiniteSet(A) /\ Cardinality(A) \in Nat
    BY <1>1, FS_Subset, FS_CardinalityType
  <1>3. IsFiniteSet((1..n) \ A) /\ Cardinality((1..n) \ A) = n - Cardinality(A)
    <2>1. (1..n) \cap A = A
      OBVIOUS
    <2> QED
      BY <1>1, <2>1, FS_Difference
  <1> DEFINE rest == ((1..n) \ A) \cup {n + 1}
  <1>4. IsFiniteSet(rest) /\ Cardinality(rest) <= n - Cardinality(A) + 1
    <2>1. n - Cardinality(A) \in Nat
      BY <1>3, FS_CardinalityType
    <2>2. IsFiniteSet(rest) /\ Cardinality(rest) =
            IF n + 1 \in (1..n) \ A THEN Cardinality((1..n) \ A) ELSE Cardinality((1..n) \ A) + 1
      BY <1>3, FS_AddElement
    <2> QED
      BY <1>3, <2>1, <2>2
  <1>5. B \subseteq rest
    OBVIOUS
  <1> HIDE DEF rest
  <1>6. IsFiniteSet(B) /\ Cardinality(B) <= Cardinality(rest)
    BY <1>4, <1>5, FS_Subset
  <1>7. Cardinality(B) \in Nat /\ Cardinality(rest) \in Nat
    BY <1>4, <1>6, FS_CardinalityType
  <1> QED
    BY <1>2, <1>4, <1>6, <1>7

\* One more entry turns no suggestion round, whatever it does to the mean.
LEMMA NoTurn ==
  ASSUME NEW s \in Seq(FeedbackEntry), NEW e \in FeedbackEntry, NEW t, t = Append(s, e)
  PROVE  ~(AutoTune(s) = "up" /\ AutoTune(t) = "down") /\ ~(AutoTune(s) = "down" /\ AutoTune(t) = "up")
  <1> DEFINE n == Len(s)
             up(q) == Sum(q) >= 0
             agree(q) == {i \in 1..Len(q) : (q[i].delta >= 0) = up(q)}
  <1>1. n \in Nat /\ Len(t) = n + 1 /\ \A i \in 1..n : t[i] = s[i]
    BY AppendProperties, LenProperties
  <1>2. \A q : SameSign(q) = Cardinality(agree(q))
    BY DEF SameSign
  <1>3. ASSUME n >= 5, Confident(s), Confident(t), up(s) # up(t) PROVE FALSE
    <2>1. 10 * Cardinality(agree(s)) >= 6 * n /\ 10 * Cardinality(agree(t)) >= 6 * (n + 1)
      BY <1>1, <1>2, <1>3 DEF Confident
    <2>2. agree(s) \in SUBSET (1..n)
      OBVIOUS
    <2>3. agree(t) \subseteq ((1..n) \ agree(s)) \cup {n + 1}
      BY <1>1, <1>3
    <2> HIDE DEF agree
    <2>4. 10 * Cardinality(agree(t)) < 6 * (n + 1)
      BY <1>1, <1>3, <2>1, <2>2, <2>3, Outvoted
    <2>5. agree(t) \subseteq 1..n + 1
      BY <2>2, <2>3, <1>1
    <2>6. Cardinality(agree(t)) \in Nat
      <3>1. n + 1 \in Nat
        BY <1>1
      <3>2. IsFiniteSet(1..n + 1)
        BY <3>1, UpToN
      <3> QED
        BY <2>5, <3>2, FS_Subset, FS_CardinalityType
    <2> QED
      BY <1>1, <2>1, <2>4, <2>6
  <1>4. ASSUME NEW q, AutoTune(q) \in {"up", "down"} PROVE Len(q) >= 5 /\ Confident(q) /\ (AutoTune(q) = "up" <=> up(q))
    <2>1. ~(Len(q) < 5) /\ Confident(q) /\ AutoTune(q) = IF up(q) THEN "up" ELSE "down"
      BY <1>4 DEF AutoTune
    <2> QED
      BY <2>1
  <1> QED
    BY <1>3, <1>4

\* One step leaves a list alone or adds one entry, which turns nothing round.
LEMMA SteadyStep ==
  ASSUME FeedbackInv, [FeedbackStep]_feedbackVars, NEW g \in LearnGoals
  PROVE  {AutoTune(feedback[g]), AutoTune(feedback'[g])} # {"up", "down"}
  <1>1. CASE feedback'[g] = feedback[g]
    BY <1>1
  <1>2. ASSUME NEW e \in FeedbackEntry, feedback'[g] = Append(feedback[g], e)
        PROVE  {AutoTune(feedback[g]), AutoTune(feedback'[g])} # {"up", "down"}
    <2>1. feedback[g] \in Seq(FeedbackEntry)
      BY DEF FeedbackInv
    <2>2. ~(AutoTune(feedback[g]) = "up" /\ AutoTune(feedback'[g]) = "down")
          /\ ~(AutoTune(feedback[g]) = "down" /\ AutoTune(feedback'[g]) = "up")
      BY <1>2, <2>1, NoTurn
    <2> QED
      BY <2>2
  <1> QED
    BY <1>1, <1>2, FeedbackGrows

HIDE LearnAssumption DEF LearnAssumption

-----------------------------------------------------------------------------
(* The parts side by side *)

KeptInv == MemInv /\ WorkInv /\ KnowInv /\ TransferInv /\ FeedbackInv

\* A step of one part leaves every other part alone.
LEMMA PartSteps ==
  ASSUME [KeptNext]_keptVars
  PROVE  /\ [MemNext]_memVars /\ [WorkNext]_workVars /\ [KnowNext]_knowVars
         /\ [TransferStep]_transferVars /\ [FeedbackStep]_feedbackVars
  <1>1. CASE StrategyMoves
    BY <1>1 DEF StrategyMoves, Alone
  <1>2. CASE MemoryMoves
    BY <1>2 DEF MemoryMoves, Alone
  <1>3. CASE WorkingMoves
    BY <1>3 DEF WorkingMoves, Alone
  <1>4. CASE KnowMoves
    BY <1>4 DEF KnowMoves, Alone, KnowNext
  <1>5. CASE DecisionMoves
    BY <1>5 DEF DecisionMoves, Alone, KnowNext
  <1>6. CASE TransferMoves
    BY <1>6 DEF TransferMoves, Alone
  <1>7. CASE FeedbackMoves
    BY <1>7 DEF FeedbackMoves, Alone
  <1>8. CASE UNCHANGED keptVars
    BY <1>8 DEF keptVars, learnVars
  <1> QED
    BY <1>1, <1>2, <1>3, <1>4, <1>5, <1>6, <1>7, <1>8 DEF KeptNext

LEMMA KeptStart == KeptInit => KeptInv
  BY MemStart, WorkStart, KnowStart, TransferStart DEF KeptInit, KeptInv

LEMMA KeptKeeps == KeptInv /\ [KeptNext]_keptVars => KeptInv'
  <1> SUFFICES ASSUME KeptInv, [KeptNext]_keptVars PROVE KeptInv'
    OBVIOUS
  <1>1. MemInv' /\ WorkInv'
    BY PartSteps, MemKeeps, WorkKeeps DEF KeptInv
  <1>2. KnowInv'
    BY PartSteps, KnowKeeps DEF KeptInv
  <1>3. TransferInv' /\ FeedbackInv'
    BY PartSteps, TransferKeeps, FeedbackKeeps DEF KeptInv
  <1> QED
    BY <1>1, <1>2, <1>3 DEF KeptInv

LEMMA KeptAlways == KeptSpec => []KeptInv
  BY KeptStart, KeptKeeps, PTL DEF KeptSpec

\* The files, indexes and lists of every part hold what they are meant to hold,
\* whatever is recorded, compressed, saved, shared and evaluated in any order.
THEOREM KeptTyped == KeptSpec => []TypesOK
  <1>1. ASSUME KeptInv PROVE TypesOK
    <2>1. MemTypeOK /\ WorkTypeOK /\ KnowTypeOK /\ LearnTypeOK
      BY <1>1, MemTypes, WorkTypes, KnowTypes, LearnTypes DEF KeptInv
    <2> QED
      BY <2>1 DEF TypesOK
  <1> QED
    BY <1>1, KeptAlways, PTL

\* A failure is kept in the file, the archive or a lesson; an entry is counted once
\* in the statistics while nothing overlaps; what is on file the index lists.
THEOREM KeptRemembered == KeptSpec => []MemorySound
  <1>1. KeptInv => MemorySound
    BY MemCounts DEF KeptInv, MemInv, WorkInv, MemorySound
  <1> QED
    BY <1>1, KeptAlways, PTL

\* A search finds what is stored and nothing else, and a goal is never offered what
\* was learned from it.
THEOREM KeptExact == KeptSpec => []KnowledgeSound
  <1>1. KeptInv => KnowledgeSound
    BY KnowExact, EchoFree DEF KeptInv, KnowledgeSound
  <1> QED
    BY <1>1, KeptAlways, PTL

\* The outcome of a decision, once recorded, is never overwritten.
THEOREM OutcomesStay == KeptSpec => OutcomeSettled
  <1>1. KeptInv /\ [KeptNext]_keptVars =>
          [\A d \in Kept : decisions[d].outcome # "pending" =>
              decisions'[d] = NoRecord \/ decisions'[d].outcome = decisions[d].outcome]_knowVars
    BY PartSteps, OutcomeStep DEF KeptInv
  <1> QED
    BY <1>1, KeptAlways, PTL DEF KeptSpec, OutcomeSettled

\* A pair of domains whose last three evaluations were not positive is offered
\* nothing more, through restarts that forget everything but the history.
THEOREM PairsSilenced == KeptSpec => PairSilenced
  <1>1. KeptInv /\ [KeptNext]_keptVars =>
          [offered' # offered => \A c \in offered' : streak[Pair(c.of, c.src, c.dst)] < 3]_transferVars
    BY PartSteps, SilencedStep DEF KeptInv
  <1> QED
    BY <1>1, KeptAlways, PTL DEF KeptSpec, PairSilenced

\* No single observation turns a suggested adjustment from up to down or back.
THEOREM TuningSteady == KeptSpec => SteadyTuning
  <1>1. KeptInv /\ [KeptNext]_keptVars =>
          [\A g \in LearnGoals : {AutoTune(feedback[g]), AutoTune(feedback[g])'} # {"up", "down"}]_feedbackVars
    <2>1. ASSUME KeptInv, [KeptNext]_keptVars, NEW g \in LearnGoals
          PROVE  {AutoTune(feedback[g]), AutoTune(feedback'[g])} # {"up", "down"}
      BY <2>1, PartSteps, SteadyStep DEF KeptInv
    <2> QED
      BY <2>1
  <1> QED
    BY <1>1, KeptAlways, PTL DEF KeptSpec, SteadyTuning
=============================================================================
