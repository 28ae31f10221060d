------------------------------ MODULE Strategy ------------------------------
(***************************************************************************)
(* What the loop does about stalls of one goal: detectStallsAndRebalance() *)
(* and applyStallAction() of src/src/loop/core-loop-phases-b.ts with       *)
(* StrategyManagerBase.onStallDetected() and the files behind it, the      *)
(* portfolio, the strategy history, and the escalation levels.  Every      *)
(* write of a file is a step, and the process may die or a write fail      *)
(* between two of them.                                                    *)
(*                                                                         *)
(* Strategies are numbered in the order the portfolio lists them.  Their   *)
(* ids are those randomUUID() gives them.  consecutive_stall_count and     *)
(* allocations are left out: only rebalance() reads them, and no run of    *)
(* the loop reaches it (shouldRebalance() waits for a first rebalance).    *)
(* Ranking the candidates by past decisions is left out because it changes *)
(* nothing: each is written back to its own place in the list.             *)
(***************************************************************************)
EXTENDS StallDetector, FiniteSets

CONSTANTS
    NumDims,        \* goal.dimensions are 1 .. NumDims, in that order
    Gaps,           \* the gaps each dimension may be measured at, in hundredths
    MaxPivots,      \* max_pivot_count
    MaxNew,         \* candidates a model returns at most
    MaxStrategies,  \* bound: strategies ever generated
    MaxCycles,      \* bound: iterations that record their gaps
    MaxRuns,        \* bound: calls of run()
    MaxFailures     \* bound: failed writes

ASSUME StrategyAssumption ==
    /\ NumDims \in Nat /\ Gaps \in [1 .. NumDims -> SUBSET (0 .. 100)]
    /\ MaxPivots \in Nat /\ MaxNew \in Nat /\ MaxStrategies \in Nat
    /\ MaxCycles \in Nat /\ MaxRuns \in Nat /\ MaxFailures \in Nat

Dims       == 1 .. NumDims
Strategies == 1 .. MaxStrategies

EscalationCap == 3      \* ESCALATION_CAP
States == {"absent", "candidate", "active", "terminated"}
Steps  == {"off", "idle", "detect", "terminate", "archive", "generate",
           "activate", "count", "raise"}

VARIABLES
    \* files
    hist,       \* gap-history.json: each dimension's gaps
    state,      \* portfolio.json: the state of each strategy
    pivots,     \* portfolio.json: pivot_count
    history,    \* strategy-history.json: ids
    level,      \* stalls/<goal>.json: dimension_escalation
    \* locals of the run
    pc,
    dim,        \* the dimension whose stall is handled, 0 if none
    old,        \* the strategy that was active when it was found, 0 if none
    plain,      \* it is an ordinary pivot, not an escalation
    \* history of the behaviour, and bounds
    seen,       \* dimensions whose stall this run has handled to the end
    lost,       \* strategies whose archiving was cut off
    runs, failures

files  == <<hist, state, pivots, history, level>>
locals == <<pc, dim, old, plain>>
vars == <<files, locals, seen, lost, runs, failures>>

In(st) == {s \in Strategies : state[s] = st}
First(S) == CHOOSE s \in S : \A t \in S : s <= t

\* getActiveStrategy(), as a number; 0 stands for null.
Active == IF In("active") = {} THEN 0 ELSE First(In("active"))

Init ==
    /\ hist = [d \in Dims |-> <<>>]
    /\ state = [s \in Strategies |-> "absent"]
    /\ pivots = [s \in Strategies |-> 0]
    /\ history = {}
    /\ level = [d \in Dims |-> 0]
    /\ pc = "off" /\ dim = 0 /\ old = 0 /\ plain = FALSE
    /\ seen = {} /\ lost = {}
    /\ runs = 0 /\ failures = 0

(***************************************************************************)
(* The run and its iterations                                              *)
(***************************************************************************)

\* A run starts with the levels the last one left.
MutStartRun ==
    /\ pc = "off" /\ runs < MaxRuns
    /\ runs' = runs + 1
    /\ seen' = {}
    /\ pc' = "idle"
    /\ UNCHANGED <<hist, state, pivots, history, level, dim, old, plain, lost,
                   failures>>

\* run() sets the level of every dimension of its goal back to zero.
StartRun ==
    /\ pc = "off" /\ runs < MaxRuns
    /\ runs' = runs + 1
    /\ level' = [d \in Dims |-> 0]
    /\ seen' = {}
    /\ pc' = "idle"
    /\ UNCHANGED <<hist, state, pivots, history, dim, old, plain, lost,
                   failures>>

Measured ==
    {g \in [Dims -> UNION {Gaps[d] : d \in Dims}] :
         \A d \in Dims : g[d] \in Gaps[d]}

\* An iteration records its gaps; it may end before it looks for stalls.
Measure ==
    /\ pc = "idle"
    /\ \A d \in Dims : Len(hist[d]) < MaxCycles
    /\ \E g \in Measured :
           hist' = [d \in Dims |-> Append(hist[d], g[d])]
    /\ pc' \in {"idle", "detect"}
    /\ UNCHANGED <<state, pivots, history, level, dim, old, plain, seen, lost,
                   runs, failures>>

\* The dimension that a stall is reported for: the first that stalls, or the
\* first of the goal if only the goal as a whole does.
Stalled == {d \in Dims : DimensionStall(hist[d])}
Reported ==
    IF Stalled # {} THEN First(Stalled)
    ELSE IF GlobalStall(hist) THEN 1
    ELSE 0

\* The stall count handed to onStallDetected(): 3 escalates, 1 only notifies.
\* A global stall counts as if its dimension's level were 1.
Limited == Active # 0 /\ pivots[Active] >= MaxPivots
StallCount(d) ==
    IF Recommended(hist[d]) = "escalate" \/ Limited THEN 3
    ELSE IF Stalled = {} THEN 2
    ELSE level[d] + 1

\* Look for a stall and choose what to do about it.
Detect ==
    /\ pc = "detect"
    /\ dim' = Reported
    /\ IF Reported = 0
       THEN pc' = "idle" /\ UNCHANGED <<old, plain>>
       ELSE IF Recommended(hist[Reported]) = "refine" \/ StallCount(Reported) < 2
       THEN pc' = "raise" /\ UNCHANGED <<old, plain>>
       ELSE /\ pc' = "terminate"
            /\ old' = Active
            /\ plain' = (Recommended(hist[Reported]) = "pivot" /\ ~Limited)
    /\ UNCHANGED <<files, seen, lost, runs, failures>>

(***************************************************************************)
(* onStallDetected() with a count of 2 or more                             *)
(***************************************************************************)

\* A pivot generates new strategies beside the active one.
MutTerminate ==
    /\ pc = "terminate"
    /\ IF Active = 0 \/ plain
       THEN pc' = "generate" /\ UNCHANGED state
       ELSE /\ state' = [state EXCEPT ![Active] = "terminated"]
            /\ pc' = "archive"
    /\ UNCHANGED <<hist, pivots, history, level, dim, old, plain, seen, lost,
                   runs, failures>>

\* updateState(active, "terminated").
Terminate ==
    /\ pc = "terminate"
    /\ IF Active = 0
       THEN pc' = "generate" /\ UNCHANGED state
       ELSE /\ state' = [state EXCEPT ![Active] = "terminated"]
            /\ pc' = "archive"
    /\ UNCHANGED <<hist, pivots, history, level, dim, old, plain, seen, lost,
                   runs, failures>>

\* The history is written without reading it first.
MutArchive ==
    /\ pc = "archive"
    /\ history' = {old}
    /\ pc' = "generate"
    /\ UNCHANGED <<hist, state, pivots, level, dim, old, plain, seen, lost,
                   runs, failures>>

\* appendToHistory() of what was terminated.
Archive ==
    /\ pc = "archive"
    /\ history' = history \cup {old}
    /\ pc' = "generate"
    /\ UNCHANGED <<hist, state, pivots, level, dim, old, plain, seen, lost,
                   runs, failures>>

\* generateCandidates(); no candidates, or an answer that does not parse, and
\* the goal is left without an active strategy.
Generate ==
    /\ pc = "generate"
    /\ \E new \in SUBSET In("absent") :
           /\ Cardinality(new) <= MaxNew
           /\ \A s \in new, t \in In("absent") \ new : s < t
           /\ state' = [s \in Strategies |->
                            IF s \in new THEN "candidate" ELSE state[s]]
           /\ pc' = IF new = {} THEN "raise" ELSE "activate"
    /\ UNCHANGED <<hist, pivots, history, level, dim, old, plain, seen, lost,
                   runs, failures>>

\* activateBestCandidate(): the first of the list, which an earlier pivot may
\* have left there.
Best == First(In("candidate"))
Activate ==
    /\ pc = "activate"
    /\ state' = [state EXCEPT ![Best] = "active"]
    /\ pc' = IF plain /\ old # 0 THEN "count" ELSE "raise"
    /\ UNCHANGED <<hist, pivots, history, level, dim, old, plain, seen, lost,
                   runs, failures>>

\* incrementPivotCount(), on the strategy that was active before.
Count ==
    /\ pc = "count"
    /\ pivots' = [pivots EXCEPT ![old] = @ + 1]
    /\ pc' = "raise"
    /\ UNCHANGED <<hist, state, history, level, dim, old, plain, seen, lost,
                   runs, failures>>

\* incrementEscalation(), and the rest of the iteration.
Raise ==
    /\ pc = "raise"
    /\ level' = [level EXCEPT
                     ![dim] = IF @ < EscalationCap THEN @ + 1 ELSE @]
    /\ seen' = seen \cup {dim}
    /\ pc' = "idle" /\ dim' = 0 /\ old' = 0 /\ plain' = FALSE
    /\ UNCHANGED <<hist, state, pivots, history, lost, runs, failures>>

(***************************************************************************)
(* Interruptions                                                           *)
(***************************************************************************)

\* What the step at hand cuts off.
CutOff == IF pc = "archive" THEN lost \cup {old} ELSE lost

\* A file cannot be written (or, before generating, the history not be read):
\* the phase gives up and the run goes on.
Fail ==
    /\ pc \in {"terminate", "archive", "generate", "raise"}
    /\ failures < MaxFailures
    /\ failures' = failures + 1
    /\ lost' = CutOff
    /\ pc' = "idle" /\ dim' = 0 /\ old' = 0 /\ plain' = FALSE
    /\ UNCHANGED <<files, seen, runs>>

\* A candidate that cannot be activated, or a pivot that cannot be counted,
\* still raises the level.
FailToPivot ==
    /\ pc \in {"activate", "count"} /\ failures < MaxFailures
    /\ failures' = failures + 1
    /\ pc' = "raise"
    /\ UNCHANGED <<files, dim, old, plain, seen, lost, runs>>

\* The run ends, or the process dies, after any step.
End ==
    /\ pc # "off"
    /\ lost' = CutOff
    /\ pc' = "off" /\ dim' = 0 /\ old' = 0 /\ plain' = FALSE
    /\ UNCHANGED <<files, seen, runs, failures>>

Next ==
    \/ StartRun \/ Measure \/ Detect \/ Terminate \/ Archive \/ Generate
    \/ Activate \/ Count \/ Raise \/ Fail \/ FailToPivot \/ End

Spec == Init /\ [][Next]_vars

(***************************************************************************)
(* Properties                                                              *)
(***************************************************************************)

\* Types of files and locals; an escalation level stays within its cap.
TypeOK ==
    /\ hist \in [Dims -> Seq(0 .. 100)]
    /\ state \in [Strategies -> States]
    /\ pivots \in [Strategies -> Nat]
    /\ history \subseteq Strategies
    /\ level \in [Dims -> 0 .. EscalationCap]
    /\ pc \in Steps
    /\ dim \in Dims \cup {0} /\ old \in Strategies \cup {0}
    /\ plain \in BOOLEAN
    /\ seen \subseteq Dims /\ lost \subseteq Strategies
    /\ runs \in 0 .. MaxRuns /\ failures \in 0 .. MaxFailures

\* At most one strategy of a goal is active, wherever pivots, escalations,
\* failed writes and restarts leave the portfolio: getActiveStrategy() takes
\* the first and would never end the others.
OneActive == \A s, t \in In("active") : s = t

\* The history and the portfolio agree: what the history holds is terminated,
\* and a terminated strategy is in the history unless its archiving is the
\* next step or was cut off (the model is told of the past from the history).
HistoryKept ==
    /\ history \subseteq In("terminated")
    /\ In("terminated") \subseteq
           history \cup lost \cup (IF pc = "archive" THEN {old} ELSE {})

\* A strategy never goes back: an active one is not made a candidate again and
\* a terminated one stays terminated (VALID_TRANSITIONS, which
\* activateBestCandidate() does not consult).
Rank == [st \in States |->
             CASE st = "absent" -> 0 [] st = "candidate" -> 1
               [] st = "active" -> 2 [] st = "terminated" -> 3]
ForwardOnly ==
    [][\A s \in Strategies : Rank[state[s]] <= Rank[state'[s]]]_vars

\* The first stall of a dimension in a run only notifies: an ordinary pivot
\* touches the active strategy only if this run has handled a stall of the
\* same dimension before, whatever level earlier runs left in the file.
FirstStallWaits ==
    [][In("active")' # In("active") /\ plain => dim \in seen]_vars

\* Whenever checkGlobalStall() would report the goal, checkDimensionStall()
\* reports one of its dimensions, which is asked first: a stall of the whole
\* goal is always handled as a stall of a dimension, and waits like one.
GlobalIsLocal == GlobalStall(hist) => Stalled # {}

\* "If the maximum pivot count is exceeded, escalate": ordinary pivots away
\* from a strategy are at most max_pivot_count.
PivotsLimited == Cardinality({s \in Strategies : pivots[s] > 0}) <= MaxPivots
=============================================================================
