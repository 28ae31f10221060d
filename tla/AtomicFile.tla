----------------------------- MODULE AtomicFile -----------------------------
(***************************************************************************)
(* StateManager.appendObservation and appendGapHistoryEntry down to the    *)
(* system calls of writeJsonFileAtomic (src/src/state-manager.ts,          *)
(* src/src/utils/json-io.ts): read the log, add an entry, write            *)
(* "<file>.tmp", rename it over the file.  The name of the temporary file  *)
(* is the same for every writer.  Names refer to inodes, so a writer goes  *)
(* on writing to the inode it opened whatever happens to the name.         *)
(* Another process may delete or archive the goal with its directory.      *)
(*                                                                         *)
(* Exclusive says whether the callers take turns, as the awaits of one     *)
(* loop make them, or not, as two processes on the same goal.              *)
(***************************************************************************)
EXTENDS Naturals, FiniteSets

CONSTANTS
    Writers,       \* calls of append, each with an entry of its own
    Inodes,        \* bound: inodes the file system hands out
    None,          \* no inode
    Exclusive,
    MaxFailures    \* bound: failed system calls, crashes and removals of the goal

ASSUME FileAssumption ==
    /\ None \notin Inodes \cup Writers
    /\ Exclusive \in BOOLEAN /\ MaxFailures \in Nat

VARIABLES
    dir,         \* the directory of the goal exists
    file, tmp,   \* the inodes the two names refer to
    body,        \* content of an inode: the entries of a log, or Torn
    mixed,       \* inodes that two writers had open for writing at once
    pc,          \* what a writer awaits
    fd,          \* the inode a writer has open
    read,        \* the entries a writer loaded
    erased,        \* history: entries that went with a removed log
    late,        \* history: appends under way when the goal was removed
    failures

\* A content that is no complete JSON text.
Torn == {None}

vars == <<dir, file, tmp, body, mixed, pc, fd, read, erased, late, failures>>

Step == {"start", "loaded", "ready", "open", "written", "done", "failed"}
Busy == {"loaded", "ready", "open", "written"}

\* What loading the log returns: no file is an empty log.
Stored == IF file = None THEN {} ELSE body[file]

Init ==
    /\ dir = TRUE /\ file = None /\ tmp = None
    /\ erased = {} /\ late = {}
    /\ body = [i \in Inodes |-> Torn] /\ mixed = {}
    /\ pc = [w \in Writers |-> "start"]
    /\ fd = [w \in Writers |-> None] /\ read = [w \in Writers |-> {}]
    /\ failures = 0

\* A caller that awaits the append before it does not start beside it.
MutMayStart == TRUE
MayStart == Exclusive => \A v \in Writers : pc[v] \notin Busy

\* loadObservationLog: a text that does not parse throws.
Load(w) ==
    /\ pc[w] = "start"
    /\ MayStart
    /\ IF Stored = Torn
         THEN pc' = [pc EXCEPT ![w] = "failed"] /\ UNCHANGED read
         ELSE pc' = [pc EXCEPT ![w] = "loaded"] /\ read' = [read EXCEPT ![w] = Stored]
    /\ UNCHANGED <<dir, file, tmp, body, mixed, fd, erased, late, failures>>

\* mkdir, recursive: the directory is there, or is again.
MakeDir(w) ==
    /\ pc[w] = "loaded"
    /\ dir' = TRUE
    /\ pc' = [pc EXCEPT ![w] = "ready"]
    /\ UNCHANGED <<file, tmp, body, mixed, fd, read, erased, late, failures>>

\* The inode that opening the temporary file for writing gives.
MutOpened == IF file # None THEN {file} ELSE Inodes
Opened == IF tmp # None THEN {tmp}
          ELSE Inodes \ ({file} \cup {fd[w] : w \in Writers})

\* writeFile opens the temporary file, which truncates what is there.
Open(w) ==
    /\ pc[w] = "ready" /\ dir
    /\ \E i \in Opened :
        /\ tmp' = i
        /\ fd' = [fd EXCEPT ![w] = i]
        /\ body' = [body EXCEPT ![i] = Torn]
        /\ mixed' = IF \E v \in Writers \ {w} : fd[v] = i THEN mixed \cup {i} ELSE mixed \ {i}
    /\ pc' = [pc EXCEPT ![w] = "open"]
    /\ UNCHANGED <<dir, file, read, erased, late, failures>>

\* Without the directory, opening fails with ENOENT, which
\* StateManager.atomicWrite takes for a removed base directory and ignores.
Skip(w) ==
    /\ pc[w] = "ready" /\ ~dir
    /\ pc' = [pc EXCEPT ![w] = "done"]
    /\ UNCHANGED <<dir, file, tmp, body, mixed, fd, read, erased, late, failures>>

\* writeFile writes the log and closes: two writers of one inode may leave a
\* mixture of their texts.
Write(w) ==
    /\ pc[w] = "open"
    /\ \E c \in {read[w] \cup {w}} \cup (IF fd[w] \in mixed THEN {Torn} ELSE {}) :
        body' = [body EXCEPT ![fd[w]] = c]
    /\ fd' = [fd EXCEPT ![w] = None]
    /\ pc' = [pc EXCEPT ![w] = "written"]
    /\ UNCHANGED <<dir, file, tmp, mixed, read, erased, late, failures>>

\* rename: without the temporary file, ENOENT again, ignored again.
Rename(w) ==
    /\ pc[w] = "written"
    /\ IF tmp # None THEN file' = tmp /\ tmp' = None ELSE UNCHANGED <<file, tmp>>
    /\ pc' = [pc EXCEPT ![w] = "done"]
    /\ UNCHANGED <<dir, body, mixed, fd, read, erased, late, failures>>

\* Where a failed write leaves the caller.
MutFailed == "done"
Failed == "failed"

\* A system call fails with another error: the temporary file is unlinked and
\* the error thrown.
Fail(w) ==
    /\ pc[w] \in Busy /\ failures < MaxFailures
    /\ failures' = failures + 1
    /\ tmp' = None
    /\ fd' = [fd EXCEPT ![w] = None]
    /\ pc' = [pc EXCEPT ![w] = Failed]
    /\ UNCHANGED <<dir, file, body, mixed, read, erased, late>>

\* The process of a writer dies: the temporary file stays.
Crash(w) ==
    /\ pc[w] \in Busy /\ failures < MaxFailures
    /\ failures' = failures + 1
    /\ fd' = [fd EXCEPT ![w] = None]
    /\ pc' = [pc EXCEPT ![w] = "failed"]
    /\ UNCHANGED <<dir, file, tmp, body, mixed, read, erased, late>>

\* deleteGoal or archiveGoal in another process: rm of the directory with all
\* that is in it, which may be cut off after any of the files.
RemoveGoal ==
    /\ dir /\ failures < MaxFailures
    /\ failures' = failures + 1
    /\ file' \in {file, None} /\ tmp' \in {tmp, None}
    /\ dir' \in BOOLEAN /\ (~dir' => file' = None /\ tmp' = None)
    /\ erased' = IF file' = None THEN erased \cup Stored ELSE erased
    /\ late' = late \cup {w \in Writers : pc[w] \in Busy}
    /\ UNCHANGED <<body, mixed, pc, fd, read>>

WriterStep(w) ==
    \/ Load(w) \/ MakeDir(w) \/ Open(w) \/ Skip(w) \/ Write(w) \/ Rename(w)
    \/ Fail(w) \/ Crash(w)

Next == RemoveGoal \/ \E w \in Writers : WriterStep(w)

Spec == Init /\ [][Next]_vars

-----------------------------------------------------------------------------
(* Properties *)

\* Every variable stays in its type, and writers that take turns are busy one
\* at a time.
TypeOK ==
    /\ dir \in BOOLEAN /\ file \in Inodes \cup {None} /\ tmp \in Inodes \cup {None}
    /\ body \in [Inodes -> (SUBSET Writers) \cup {Torn}] /\ mixed \subseteq Inodes
    /\ pc \in [Writers -> Step]
    /\ fd \in [Writers -> Inodes \cup {None}]
    /\ read \in [Writers -> SUBSET Writers]
    /\ erased \subseteq Writers \cup Torn /\ late \subseteq Writers /\ failures \in Nat
    /\ Exclusive => \A v, w \in Writers : pc[v] \in Busy /\ pc[w] \in Busy => v = w

\* "All writes are atomic": the file never holds a partial text, whatever
\* write was cut short and whatever leftover the next one found.
Whole == Stored # Torn

\* An append that returned without an error is in the log, and stays there
\* over the later appends, failures and crashes of others.  A removal of the
\* goal takes the log it removes, and may take the appends under way with it,
\* told as written; it takes no entry of a log it leaves, and every append
\* begun after it is kept.
AcknowledgedKept == \A w \in Writers : pc[w] = "done" => w \in Stored \cup erased \cup late

\* The log behind writers who take turns is the log they were promised.
Log == INSTANCE AppendLog WITH Entries <- Writers, log <- Stored
LogImplemented == Log!Spec
=============================================================================
