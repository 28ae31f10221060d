--------------------------- MODULE ParallelGroup ---------------------------
(***************************************************************************)
(* A task group: generateTaskGroup (src/src/execution/task-generation.ts)  *)
(* has a model split a task into subtasks, tryRunParallel                  *)
(* (src/src/loop/parallel-dispatch.ts) hands them to the ParallelExecutor  *)
(* (src/src/execution/parallel-executor.ts), which runs them in waves, a   *)
(* few at a time, and turns their verdicts into one.                       *)
(*                                                                         *)
(* The waves depend on the dependencies alone, so the next one is computed *)
(* when it starts; which subtasks of a wave come first is left open.  The  *)
(* contradiction report only logs and is left out.                         *)
(***************************************************************************)
EXTENDS Naturals, FiniteSets

CONSTANTS
    Tasks,      \* the subtasks of a group
    Unknown,    \* an id a dependency may name that is no subtask's
    Files,      \* files a subtask may own
    Limit,      \* concurrencyLimit
    MaxDeps,    \* bound: dependencies of a group
    MaxGroups,  \* bound: groups
    MaxCrashes  \* bound: crashes

ASSUME GroupAssumption ==
    /\ IsFiniteSet(Tasks) /\ Cardinality(Tasks) >= 2 /\ Unknown \notin Tasks
    /\ IsFiniteSet(Files)
    /\ Limit \in Nat \ {0}
    /\ MaxDeps \in Nat /\ MaxGroups \in Nat /\ MaxCrashes \in Nat

VARIABLES
    deps,      \* dependencies: pairs, the first before the second
    groupPc,        \* "waves" while the executor works on a group
    waiting,   \* subtasks of the wave that no worker has taken
    running,   \* subtasks whose pipeline is under way
    results,   \* the verdict of a subtask, or "none"
    outcome,   \* what the iteration reports; "single": it fell back to one task
    groups, crashes

groupVars == <<deps, groupPc, waiting, running, results, outcome, groups, crashes>>

-----------------------------------------------------------------------------
(* The rules of the executor *)

NoResults == [t \in Tasks |-> "none"]

Finished == {t \in Tasks : results[t] # "none"}

\* validateFileOwnership takes the keys for files and the lists for their
\* owners: what it refuses is a subtask with two files.
Conflicts(own) == {t \in Tasks : Cardinality(own[t]) > 1}

\* Kahn's waves; on a cycle or an unknown id, all that remains at once.
Ready == {t \in Tasks \ Finished : \A p \in deps : p[2] = t => p[1] \in Finished}
MutOrder == Tasks \ Finished
MutCycle == Ready
Wave == IF Ready = {} THEN Tasks \ Finished ELSE Ready

\* runWithSemaphore starts this many workers.
MutSlots(wave) == Cardinality(wave)
Slots(wave) == IF Limit < Cardinality(wave) THEN Limit ELSE Cardinality(wave)

\* aggregateVerdict.
MutOverall(res) ==
    IF \E t \in Tasks : res[t] = "pass" THEN "pass" ELSE "fail"
Overall(res) ==
    IF \A t \in Tasks : res[t] # "fail" THEN "pass"
    ELSE IF \E t \in Tasks : res[t] = "pass" THEN "partial"
    ELSE "fail"

Action == [pass |-> "completed", partial |-> "keep", fail |-> "escalate"]

-----------------------------------------------------------------------------
(* Actions *)

GroupInit ==
    /\ deps = {}
    /\ groupPc = "idle" /\ waiting = {} /\ running = {} /\ results = NoResults
    /\ outcome = "none" /\ groups = 0 /\ crashes = 0

\* The model answers with any dependencies and any files; a conflict makes
\* execute throw, and the iteration falls back to a single task.  The files are
\* not looked at again.
Generate ==
    /\ groupPc = "idle" /\ groups < MaxGroups
    /\ groups' = groups + 1
    /\ deps' \in {d \in SUBSET ((Tasks \cup {Unknown}) \X Tasks) : Cardinality(d) <= MaxDeps}
    /\ results' = NoResults
    /\ \E own \in [Tasks -> SUBSET Files] :
         IF Conflicts(own) # {}
           THEN outcome' = "single" /\ groupPc' = "idle"
           ELSE outcome' = "none" /\ groupPc' = "waves"
    /\ UNCHANGED <<waiting, running, crashes>>

\* The workers take the first subtasks of the next wave.
StartWave ==
    /\ groupPc = "waves" /\ running = {} /\ Finished # Tasks
    /\ \E first \in SUBSET Wave :
        /\ Cardinality(first) = Slots(Wave)
        /\ running' = first /\ waiting' = Wave \ first
    /\ UNCHANGED <<deps, groupPc, results, outcome, groups, crashes>>

\* A subtask's pipeline ends: one stage gives pass or fail, and what it throws
\* counts as a failure.  Its worker takes the next of the wave.
End(t) ==
    /\ groupPc = "waves" /\ t \in running
    /\ \E v \in {"pass", "fail"} : results' = [results EXCEPT ![t] = v]
    /\ IF waiting = {}
         THEN running' = running \ {t} /\ UNCHANGED waiting
         ELSE \E u \in waiting :
                running' = (running \ {t}) \cup {u} /\ waiting' = waiting \ {u}
    /\ UNCHANGED <<deps, groupPc, outcome, groups, crashes>>

\* The verdict of the group becomes the action of a synthetic task result.
Finish ==
    /\ groupPc = "waves" /\ running = {} /\ Finished = Tasks
    /\ outcome' = Action[Overall(results)] /\ groupPc' = "idle"
    /\ UNCHANGED <<deps, waiting, running, results, groups, crashes>>

\* Nothing of a group survives its process.
GroupCrash ==
    /\ crashes < MaxCrashes
    /\ crashes' = crashes + 1
    /\ groupPc' = "idle" /\ waiting' = {} /\ running' = {}
    /\ results' = NoResults /\ outcome' = "none"
    /\ UNCHANGED <<deps, groups>>

Work == StartWave \/ (\E t \in Tasks : End(t)) \/ Finish
GroupNext == Generate \/ Work \/ GroupCrash

GroupSpec == GroupInit /\ [][GroupNext]_groupVars

\* Every adapter call has a timeout, and a promise that settled is resumed.
FairGroupSpec == GroupSpec /\ WF_groupVars(Work)

-----------------------------------------------------------------------------
(* Properties *)

\* Every variable stays in its type, and a subtask that has its result is
\* neither running nor waiting to run again.
GroupTypeOK ==
    /\ deps \subseteq (Tasks \cup {Unknown}) \X Tasks
    /\ groupPc \in {"idle", "waves"}
    /\ results \in [Tasks -> {"none", "pass", "fail"}]
    /\ running \cup waiting \subseteq {t \in Tasks : results[t] = "none"}
    /\ running \cap waiting = {}
    /\ outcome \in {"none", "single", "completed", "keep", "escalate"}
    /\ groups \in Nat /\ crashes \in Nat

\* No more pipelines are under way than the limit allows, over all waves.
LimitKept == Cardinality(running) <= Limit

\* Subtasks that wait for each other, or for an id that names no subtask.
Knot(s) == \A t \in s : \E d \in s \cup {Unknown} : <<d, t>> \in deps

\* A subtask runs before one it depends on has finished only if it is caught
\* in a knot, which no order could have served.
OrderKept ==
    \A p \in deps : p[2] \in running /\ p[1] \notin Finished =>
        \E s \in SUBSET Tasks : p[2] \in s /\ Knot(s)

\* The waves keep to the limit and to the dependencies.
DispatchSound == LimitKept /\ OrderKept

\* The iteration reports a completed group only when every subtask passed, and
\* escalates only when none did.
OutcomeHonest ==
    /\ outcome = "completed" => \A t \in Tasks : results[t] = "pass"
    /\ outcome = "keep" => \E t, u \in Tasks : results[t] = "pass" /\ results[u] = "fail"
    /\ outcome = "escalate" => \A t \in Tasks : results[t] = "fail"

=============================================================================
