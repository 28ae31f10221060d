------------------------------ MODULE Memory -------------------------------
(***************************************************************************)
(* MemoryLifecycleManager (src/src/knowledge/memory-*.ts) for one goal:    *)
(* raw entries in one file per data type and a short-term index; expired   *)
(* entries are distilled into lessons; a closing goal is distilled and its *)
(* files moved to the archive.  Every operation awaits between a read and  *)
(* the write that follows, so recordings, compressions, closings and index *)
(* touches overlap.  What the language model extracts is nondeterministic. *)
(***************************************************************************)
EXTENDS Integers, Sequences, FiniteSets

CONSTANTS
    MemEntries,     \* entries that may be recorded
    DataTypes,      \* data types with a file of their own, in the order of the code
    TypeOf,         \* the data type of an entry
    DimsOf,         \* the dimensions of an entry
    FailedEntries,  \* the entries that record a failure
    MemDims,        \* dimensions
    Retention,      \* default_retention_loops
    MaxMemLoop,     \* bound: loops
    MaxLessons,     \* bound: lessons the model draws at once
    MaxCloses,      \* bound: closings of the goal
    MaxMemFaults,   \* bound: crashes and failed steps
    ShortTermLimit  \* entries a file may hold before garbage collection (its size in bytes)

ASSUME MemAssumption ==
    /\ IsFiniteSet(MemEntries) /\ MemEntries # {} /\ DataTypes # {} /\ FailedEntries \subseteq MemEntries
    /\ TypeOf \in [MemEntries -> DataTypes] /\ DimsOf \in [MemEntries -> SUBSET MemDims]
    /\ Retention \in Nat \ {0} /\ ShortTermLimit \in Nat
    /\ MaxMemLoop \in Nat /\ MaxLessons \in Nat /\ MaxCloses \in Nat /\ MaxMemFaults \in Nat

VARIABLES
    memLoop,     \* number of the current loop
    loopOf,      \* loop in which an entry was recorded, -1 before
    memFiles,       \* short-term/goals/<goal>/<type>.json
    present,     \* the data types whose file exists
    lessons,     \* lessons/by-goal/<goal>.json
    shared,      \* lessons/by-dimension/*.json and global.json
        \* long-term/index.json
    counted,     \* statistics: how often each entry was counted
    counting,    \* un-awaited statistics updates
    archive,     \* archive/<goal>/<type>.json
    early,       \* earlyCompressionCandidates
    jobs,        \* the compression and the closing under way
    rec,         \* the recording under way
    raced,       \* did a write overwrite a file that had changed since it was read
    mislaid,     \* entries a write left out: it knew a file as it was before they came, or was skipped
    closes, memFaults
memVars == <<memLoop, loopOf, memFiles, present, lessons, shared, counted,
             counting, archive, early, jobs, rec, raced, mislaid, closes, memFaults>>

ShortTermEntry == [id : MemEntries, data_type : DataTypes, loop_number : 0..MaxMemLoop]
LessonEntry == [from : SUBSET MemEntries, n : 1..MaxLessons, status : {"active", "archived"}]
\* What a job has read before an await: the entries of a file, the lessons of another.
Job == [pc : {"idle", "next", "distil", "byGoal", "putByGoal", "shared", "putShared", "stats",
              "drop", "archive", "rm", "lessons", "mark"},
        todo : SUBSET DataTypes, type : DataTypes, read : SUBSET MemEntries,
        out : SUBSET MemEntries, n : 0..MaxLessons, base : SUBSET LessonEntry]
Idle == [pc |-> "idle", todo |-> {}, type |-> CHOOSE t \in DataTypes : TRUE, read |-> {},
         out |-> {}, n |-> 0, base |-> {}]
NoRecording == [pc |-> "idle", id |-> CHOOSE e \in MemEntries : TRUE, read |-> {}]

Recorded == {e \in MemEntries : loopOf[e] >= 0}
Learned(L) == UNION {l.from : l \in L}
InFiles == UNION {memFiles[t] : t \in DataTypes}
Loops(S) == {loopOf[e] : e \in S}
MaxLoopOf(S) == CHOOSE n \in Loops(S) : \A k \in Loops(S) : k <= n
MinLoopOf(S) == CHOOSE n \in Loops(S) : \A k \in Loops(S) : n <= k

\* initializeDirectories: empty indexes and an empty global lessons file.
MemInit ==
    /\ memLoop = 0 /\ loopOf = [e \in MemEntries |-> -1]
    /\ memFiles = [t \in DataTypes |-> {}] /\ present = {}
    /\ lessons = {} /\ shared = {} /\ counted = [e \in MemEntries |-> 0]
    /\ counting = {} /\ archive = [t \in DataTypes |-> {}] /\ early = {}
    /\ jobs = [j \in {"retention", "close"} |-> Idle] /\ rec = NoRecording
    /\ raced = FALSE /\ mislaid = {} /\ closes = 0 /\ memFaults = 0

NextLoop == /\ memLoop < MaxMemLoop /\ memLoop' = memLoop + 1
            /\ UNCHANGED <<loopOf, memFiles, present, lessons, shared, counted,
                           counting, archive, early, jobs, rec, raced, mislaid, closes, memFaults>>

-----------------------------------------------------------------------------
(* recordToShortTerm: read the file, write it with the entry, then the index. *)
RecordRead(e) ==
    /\ rec.pc = "idle" /\ loopOf[e] = -1
    /\ rec' = [pc |-> "write", id |-> e, read |-> memFiles[TypeOf[e]]]
    /\ UNCHANGED <<memLoop, loopOf, memFiles, present, lessons, shared, counted,
                   counting, archive, early, jobs, raced, mislaid, closes, memFaults>>
RecordWrite ==
    LET t == TypeOf[rec.id] IN
    /\ rec.pc = "write" /\ rec' = NoRecording
    /\ loopOf' = [loopOf EXCEPT ![rec.id] = memLoop]
    /\ memFiles' = [memFiles EXCEPT ![t] = rec.read \union {rec.id}] /\ present' = present \union {t}
    /\ raced' = (raced \/ memFiles[t] # rec.read) /\ mislaid' = mislaid \union (memFiles[t] \ rec.read)
    /\ UNCHANGED <<memLoop, lessons, shared, counted, counting, archive,
                   early, jobs, closes, memFaults>>
\* The write throws, or it meets a missing directory or temporary file and the
\* entry counts as recorded.
RecordNotWritten ==
    /\ rec.pc = "write" /\ memFaults < MaxMemFaults /\ memFaults' = memFaults + 1
    /\ rec' = NoRecording
    /\ \/ UNCHANGED <<loopOf, mislaid>>
       \/ loopOf' = [loopOf EXCEPT ![rec.id] = memLoop] /\ mislaid' = mislaid \union {rec.id}
    /\ UNCHANGED <<memLoop, memFiles, present, lessons, shared, counted, counting, archive,
                   early, jobs, raced, closes>>
-----------------------------------------------------------------------------
(* Retention and the compression it starts. *)
\* compressionDelay: the dissatisfaction of a dimension stretches the period.
DissatisfactionScore == {"low", "mid", "high"}
CompressionDelay(level) ==
    IF level = "high" THEN 2 * Retention
    ELSE IF level = "mid" THEN (3 * Retention) \div 2 ELSE Retention
\* applyRetentionPolicy: the longest delay of the file's dimensions, halved when
\* one of them is a candidate for early compression.
EffectiveLimit(S, scores) ==
    LET dims == UNION {DimsOf[e] : e \in S}
        delays == {CompressionDelay(scores[d]) : d \in dims}
        longest == IF delays = {} THEN Retention ELSE CHOOSE x \in delays : \A y \in delays : y <= x
    IN  IF dims \intersect early = {} \/ longest <= Retention \div 2 THEN longest ELSE Retention \div 2
Due(t, scores) == MaxLoopOf(memFiles[t]) - MinLoopOf(memFiles[t]) >= EffectiveLimit(memFiles[t], scores)
Expired(S) == {e \in S : loopOf[e] <= MaxLoopOf(S) - Retention}

Compress(t) ==
    /\ jobs["retention"].pc = "idle" /\ memFiles[t] # {} /\ Expired(memFiles[t]) # {}
    /\ jobs' = [jobs EXCEPT !["retention"] =
            [Idle EXCEPT !.pc = "distil", !.type = t, !.read = memFiles[t], !.out = Expired(memFiles[t])]]
    /\ UNCHANGED <<memLoop, loopOf, memFiles, present, lessons, shared, counted,
                   counting, archive, early, rec, raced, mislaid, closes, memFaults>>
ApplyRetentionPolicy(t) ==
    /\ memFiles[t] # {} /\ \E scores \in [MemDims -> DissatisfactionScore] : Due(t, scores)
    /\ Compress(t)
\* Above its size limit a goal is compressed whatever the age of its entries.
CollectShortTerm(t) == Cardinality(memFiles[t]) > ShortTermLimit /\ Compress(t)

\* onGoalClose distils what is left, type after type.
StartClose ==
    /\ jobs["close"].pc = "idle" /\ closes < MaxCloses /\ closes' = closes + 1
    /\ jobs' = [jobs EXCEPT !["close"] = [Idle EXCEPT !.pc = "next", !.todo = DataTypes]]
    /\ UNCHANGED <<memLoop, loopOf, memFiles, present, lessons, shared, counted,
                   counting, archive, early, rec, raced, mislaid, memFaults>>
CloseNext ==
    LET j == jobs["close"] IN
    /\ j.pc = "next"
    /\ \/ /\ j.todo = {} /\ jobs' = [jobs EXCEPT !["close"].pc = "archive"]
       \/ \E t \in j.todo : jobs' = [jobs EXCEPT !["close"] =
            [j EXCEPT !.todo = @ \ {t}, !.pc = IF memFiles[t] = {} THEN "next" ELSE "distil",
                      !.type = t, !.read = memFiles[t], !.out = memFiles[t]]]
    /\ UNCHANGED <<memLoop, loopOf, memFiles, present, lessons, shared, counted,
                   counting, archive, early, rec, raced, mislaid, closes, memFaults>>

After(j) == IF j = "close" THEN [Idle EXCEPT !.pc = "next", !.todo = jobs[j].todo] ELSE Idle
\* validateCompressionQuality: at least one lesson for two failures; a closing
\* goal is not checked.
QualityPassed(n, S) == 2 * n >= Cardinality(S \intersect FailedEntries)
\* extractPatterns and distillLessons: the call may throw or find nothing.
Distil(j) ==
    /\ jobs[j].pc = "distil"
    /\ \E n \in 0..MaxLessons :
         jobs' = [jobs EXCEPT ![j] =
            IF j = "close" \/ QualityPassed(n, jobs[j].out)
            THEN [@ EXCEPT !.pc = "byGoal", !.n = n] ELSE After(j)]
    /\ UNCHANGED <<memLoop, loopOf, memFiles, present, lessons, shared, counted,
                   counting, archive, early, rec, raced, mislaid, closes, memFaults>>
DistilThrows(j) ==
    /\ jobs[j].pc = "distil" /\ jobs' = [jobs EXCEPT ![j] = After(j)]
    /\ UNCHANGED <<memLoop, loopOf, memFiles, present, lessons, shared, counted,
                   counting, archive, early, rec, raced, mislaid, closes, memFaults>>

NewLessons(j) == IF jobs[j].n = 0 THEN {}
                 ELSE {[from |-> jobs[j].out, n |-> jobs[j].n, status |-> "active"]}
\* storeLessonsLongTerm: by goal, then by dimension, global and the index; each
\* file is read and then written.
ReadByGoal(j) ==
    /\ jobs[j].pc = "byGoal"
    /\ jobs' = [jobs EXCEPT ![j].pc = "putByGoal", ![j].base = lessons]
    /\ UNCHANGED <<memLoop, loopOf, memFiles, present, lessons, shared, counted, counting,
                   archive, early, rec, raced, mislaid, closes, memFaults>>
StoreByGoal(j) ==
    /\ jobs[j].pc = "putByGoal" /\ jobs' = [jobs EXCEPT ![j].pc = "shared"]
    /\ lessons' = jobs[j].base \union NewLessons(j)
    /\ mislaid' = mislaid \union (Learned(lessons) \ Learned(lessons'))
    /\ UNCHANGED <<memLoop, loopOf, memFiles, present, shared, counted, counting,
                   archive, early, rec, raced, closes, memFaults>>
ReadShared(j) ==
    /\ jobs[j].pc = "shared"
    /\ jobs' = [jobs EXCEPT ![j].pc = "putShared", ![j].base = shared]
    /\ UNCHANGED <<memLoop, loopOf, memFiles, present, lessons, shared, counted, counting,
                   archive, early, rec, raced, mislaid, closes, memFaults>>
StoreShared(j) ==
    /\ jobs[j].pc = "putShared" /\ jobs' = [jobs EXCEPT ![j].pc = "stats"]
    /\ shared' = jobs[j].base \union NewLessons(j)
    /\ UNCHANGED <<memLoop, loopOf, memFiles, present, lessons, counted, counting,
                   archive, early, rec, raced, mislaid, closes, memFaults>>
\* atomicWriteAsync: a missing directory or temporary file counts as written.
StoreSkipped(j) ==
    /\ jobs[j].pc \in {"putByGoal", "putShared"}
    /\ memFaults < MaxMemFaults /\ memFaults' = memFaults + 1
    /\ jobs' = [jobs EXCEPT ![j].pc = IF @ = "putByGoal" THEN "shared" ELSE "stats"]
    /\ mislaid' = IF jobs[j].pc = "putByGoal"
                  THEN mislaid \union (jobs[j].out \ Learned(lessons)) ELSE mislaid
    /\ UNCHANGED <<memLoop, loopOf, memFiles, present, lessons, shared, counted, counting,
                   archive, early, rec, raced, closes>>
\* updateStatistics is not awaited: it reads now and writes when it comes to it.
StartStatistics(j) ==
    /\ jobs[j].pc = "stats" /\ counting' = counting \union {[seen |-> counted, add |-> jobs[j].out]}
    /\ jobs' = [jobs EXCEPT ![j] = IF j = "close" THEN After(j) ELSE [@ EXCEPT !.pc = "drop"]]
    /\ UNCHANGED <<memLoop, loopOf, memFiles, present, lessons, shared, counted,
                   archive, early, rec, raced, mislaid, closes, memFaults>>
UpdateStatistics ==
    /\ \E c \in counting :
         /\ counting' = counting \ {c}
         /\ counted' = [e \in MemEntries |->
                IF e \in c.add /\ c.seen[e] < 2 THEN c.seen[e] + 1 ELSE c.seen[e]]
    /\ UNCHANGED <<memLoop, loopOf, memFiles, present, lessons, shared, archive,
                   early, jobs, rec, raced, mislaid, closes, memFaults>>
\* What is left is computed from the entries read before the model was asked.
MutRemaining(j) == jobs[j].read
Remaining(j) == jobs[j].read \ jobs[j].out
DropCompressed ==
    LET j == jobs["retention"] IN
    /\ j.pc = "drop" /\ memFiles' = [memFiles EXCEPT ![j.type] = Remaining("retention")]
    /\ present' = present \union {j.type} /\ raced' = (raced \/ memFiles[j.type] # j.read)
    /\ mislaid' = mislaid \union (memFiles[j.type] \ j.read)
    /\ jobs' = [jobs EXCEPT !["retention"] = Idle]
    /\ UNCHANGED <<memLoop, loopOf, lessons, shared, counted, counting,
                   archive, early, rec, closes, memFaults>>

-----------------------------------------------------------------------------
(* The archive, and the index. *)
MutArchived(t) == archive[t]
Archived(t) == memFiles[t]
CopyToArchive ==
    LET j == jobs["close"] IN
    /\ j.pc = "archive"
    /\ IF present = {} THEN jobs' = [jobs EXCEPT !["close"].pc = "lessons"] /\ UNCHANGED archive
       ELSE /\ archive' = [t \in DataTypes |-> IF t \in present THEN Archived(t) ELSE archive[t]]
            /\ jobs' = [jobs EXCEPT !["close"].pc = "rm", !["close"].read = InFiles]
    /\ UNCHANGED <<memLoop, loopOf, memFiles, present, lessons, shared, counted,
                   counting, early, rec, raced, mislaid, closes, memFaults>>
RemoveFiles ==
    /\ jobs["close"].pc = "rm" /\ memFiles' = [t \in DataTypes |-> {}] /\ present' = {}
    /\ raced' = (raced \/ InFiles # jobs["close"].read)
    /\ mislaid' = mislaid \union (InFiles \ jobs["close"].read)
    /\ jobs' = [jobs EXCEPT !["close"] = [Idle EXCEPT !.pc = "lessons"]]
    /\ UNCHANGED <<memLoop, loopOf, lessons, shared, counted, counting,
                   archive, early, rec, closes, memFaults>>
\* Only the copy by goal is marked; the shared copies stay active.
ReadForArchive ==
    /\ jobs["close"].pc = "lessons"
    /\ jobs' = [jobs EXCEPT !["close"].pc = "mark", !["close"].base = lessons]
    /\ UNCHANGED <<memLoop, loopOf, memFiles, present, lessons, shared, counted, counting,
                   archive, early, rec, raced, mislaid, closes, memFaults>>
ArchiveLessons ==
    /\ jobs["close"].pc = "mark" /\ jobs' = [jobs EXCEPT !["close"] = Idle]
    /\ lessons' = {[l EXCEPT !.status = "archived"] : l \in jobs["close"].base}
    /\ mislaid' = mislaid \union (Learned(lessons) \ Learned(lessons'))
    /\ UNCHANGED <<memLoop, loopOf, memFiles, present, shared, counted, counting,
                   archive, early, rec, raced, closes, memFaults>>

\* onSatisficingJudgment and markForEarlyCompression.
Judge(d, satisfied) ==
    /\ early' = IF satisfied THEN early \union {d} ELSE early \ {d}
    /\ UNCHANGED <<memLoop, loopOf, memFiles, present, lessons, shared, counted,
                   counting, archive, jobs, rec, raced, mislaid, closes, memFaults>>

-----------------------------------------------------------------------------
\* The process dies: what was under way and the candidates are gone.
MemCrash ==
    /\ memFaults < MaxMemFaults /\ memFaults' = memFaults + 1
    /\ jobs' = [j \in DOMAIN jobs |-> Idle] /\ rec' = NoRecording
    /\ counting' = {} /\ early' = {}
    /\ UNCHANGED <<memLoop, loopOf, memFiles, present, lessons, shared, counted, archive,
                   raced, mislaid, closes>>
\* A write throws: the compression gives up, the closing goes on to the next type
\* or ends.  A skipped write of what is left, or of the marks, does no more.
StoreFails(j) ==
    /\ jobs[j].pc \in {"putByGoal", "putShared", "drop", "mark"} /\ memFaults < MaxMemFaults
    /\ memFaults' = memFaults + 1
    /\ jobs' = [jobs EXCEPT ![j] = IF jobs[j].pc = "mark" THEN Idle ELSE After(j)]
    /\ UNCHANGED <<memLoop, loopOf, memFiles, present, lessons, shared, counted,
                   counting, archive, early, rec, raced, mislaid, closes>>

MemNext ==
    \/ NextLoop \/ RecordWrite \/ StartClose \/ CloseNext
    \/ UpdateStatistics \/ DropCompressed \/ CopyToArchive \/ RemoveFiles
    \/ ReadForArchive \/ ArchiveLessons \/ RecordNotWritten \/ MemCrash
    \/ \E e \in MemEntries : RecordRead(e)
    \/ \E t \in DataTypes : ApplyRetentionPolicy(t) \/ CollectShortTerm(t)
    \/ \E j \in DOMAIN jobs : \/ Distil(j) \/ DistilThrows(j) \/ ReadByGoal(j) \/ StoreByGoal(j)
                              \/ ReadShared(j) \/ StoreShared(j) \/ StoreSkipped(j)
                              \/ StartStatistics(j) \/ StoreFails(j)
    \/ \E d \in MemDims, satisfied \in BOOLEAN : Judge(d, satisfied)

-----------------------------------------------------------------------------
\* Types of the stores and of the operations under way.
MemTypeOK ==
    /\ \A e \in Recorded : [id |-> e, data_type |-> TypeOf[e], loop_number |-> loopOf[e]] \in ShortTermEntry
    /\ \A t \in DataTypes : memFiles[t] \subseteq MemEntries /\ archive[t] \subseteq MemEntries
    /\ lessons \union shared \subseteq LessonEntry
    /\ \A j \in DOMAIN jobs : jobs[j] \in Job
    /\ early \subseteq MemDims

\* A failure that was recorded is not forgotten: through compressions, closings,
\* failed writes and crashes it is in the raw files, in the archive, or lessons
\* drawn from it are stored.  Only a second close, a write that knew the file as it
\* was before the failure came to it, or one silently skipped, loses an entry, and
\* then no other than the one it left out.
FailureKept ==
    closes <= 1 => \A e \in (FailedEntries \intersect Recorded) \ mislaid :
        \/ e \in memFiles[TypeOf[e]] \/ e \in archive[TypeOf[e]]
        \/ \E l \in lessons : e \in l.from

\* The statistics count an entry at most once, as long as no operation overlaps
\* another, none fails on its way and the goal is closed once.
CountedOnce ==
    (~raced /\ memFaults = 0 /\ closes = 0) => \A e \in MemEntries :
        counted[e] + Cardinality({c \in counting : e \in c.add /\ c.seen[e] = counted[e]}) <= 1
=============================================================================
