------------------------------ MODULE CoreLoop ------------------------------
(***************************************************************************)
(* One goal driven by CoreLoop.run() (src/src/core-loop.ts): the loop over *)
(* iterations, the phases of one iteration in the order the code awaits    *)
(* them, the crash-recovery checkpoint, the counters that end a run, the   *)
(* two-in-a-row confirmation of the satisficing judge, and the hooks after *)
(* the loop.  A process may crash between any two steps and be restarted;  *)
(* the goal file and the checkpoint file survive, everything else does     *)
(* not.  Other processes (the command line, a parent goal's completion     *)
(* cascade) may write the goal file at any time.                           *)
(*                                                                         *)
(* A dimension is abstracted to the relation of its current value to its   *)
(* threshold ("null" when never measured) and to whether its confidence    *)
(* is at least medium; those two facts decide gap = 0 and completion.      *)
(***************************************************************************)
EXTENDS Naturals, Sequences, FiniteSets

CONSTANTS
    Dims,                  \* the goal's dimensions
    MaxIterations,         \* config.maxIterations, per run
    MinIterations,         \* config.minIterations
    MaxConsecutiveErrors,  \* config.maxConsecutiveErrors
    MaxConsecutiveSkips,   \* config.maxConsecutiveSkips
    Budget,                \* total of the iteration budget
    SharedBudget,          \* config.iterationBudget given: it outlives a run
    UseStateDiff,          \* a StateDiffCalculator is injected
    DryRun,                \* config.dryRun
    MaxRuns,               \* bound: calls of run()
    MaxCrashes,            \* bound: process crashes
    MaxEdits               \* bound: writes of the goal file by other processes

ASSUME ConfigAssumption ==
    /\ IsFiniteSet(Dims)
    /\ MaxIterations \in Nat \ {0} /\ MaxConsecutiveErrors \in Nat \ {0}
    /\ Budget \in Nat \ {0}
    /\ MinIterations \in Nat /\ MaxConsecutiveSkips \in Nat
    /\ MaxRuns \in Nat /\ MaxCrashes \in Nat /\ MaxEdits \in Nat
    /\ SharedBudget \in BOOLEAN /\ UseStateDiff \in BOOLEAN /\ DryRun \in BOOLEAN

VARIABLES
    \* files: they survive a crash
    goal,        \* goals/<id>/goal.json: status, dimension values, confidences
    ckpt,        \* goals/<id>/checkpoint.json: cycle number and numeric values
    \* memory of the process
    stopped,     \* CoreLoop.stopped
    streak,      \* SatisficingJudge.satisficingStreak of the goal
    budget,      \* what is left of the iteration budget
    \* locals of run() and runOneIteration()
    pc,          \* the await the run is at, "idle" between runs
    start, idx,  \* startLoopIndex, loopIndex
    errs, denied, escs,  \* the consecutive counters of run()
    iters,       \* iterations: what each pushed result said
    final,       \* finalStatus
    view,        \* the Goal object the iteration works on
    seen, skips, \* stateDiffState: a previous snapshot exists; consecutiveSkips
    res,         \* the LoopIterationResult being filled in
    \* history and bounds
    runs, crashes, edits, \* how often run(), a crash, an outside write happened
    firstMet,    \* <<run, loopIndex>> of the judgement that began the streak
    unread       \* the run failed to restore the checkpoint that is on disk

disk    == <<goal, ckpt>>
loopVars == <<start, idx, errs, denied, escs, iters, final>>
iterVars == <<view, seen, skips, res>>
bounds  == <<runs, crashes, edits>>
vars == <<disk, stopped, streak, budget, pc, loopVars, iterVars, bounds, firstMet,
          unread>>

-----------------------------------------------------------------------------
(* Values *)

Value   == {"null", "short", "met"}
Status  == {"active", "completed"}
GoalRec == [status : Status, val : [Dims -> Value], sure : [Dims -> BOOLEAN]]
NoCkpt  == [cycle |-> 0, val |-> [d \in Dims |-> "null"]]
Never   == <<0, 0>>
Cleared == [status |-> "active", val |-> [d \in Dims |-> "null"], sure |-> [d \in Dims |-> FALSE]]

\* makeEmptyIterationResult: no error, no task, not complete, not skipped.
EmptyResult == [error |-> FALSE, act |-> "none", complete |-> FALSE,
                skipped |-> FALSE, gap |-> "none", judged |-> "no"]
Action == {"none", "approval_denied", "escalate", "other"}
Result == [error : BOOLEAN, act : Action, complete : BOOLEAN,
           skipped : BOOLEAN, gap : {"none", "zero", "positive"},
           judged : {"no", "unmet", "met"}]

\* The limits run() compares its denial and escalation counters with.
DenialLimit == 3
EscalationLimit == 3

\* What every StallReport of the detector carries, and what run() waits for.
ReportedEscalationLevel == 0
MaxEscalationLevel == 3

-----------------------------------------------------------------------------
(* Predicates over a goal *)

\* aggregateGaps(...) = 0: every dimension meets its threshold.
GapZero(g) == \A d \in Dims : g.val[d] = "met"

\* allDimensionsMet: nothing blocking and no dimension of low confidence.
AllMet(g) == GapZero(g) /\ \A d \in Dims : g.sure[d]

\* restoreFromCheckpoint: the numbers of the snapshot replace the values of
\* the goal file; confidences and unsnapshotted dimensions stay.
Restored(g, c) ==
    [g EXCEPT !.val = [d \in Dims |-> IF c.val[d] # "null" THEN c.val[d] ELSE g.val[d]]]

\* Any subset of the dimensions rewritten with fresh values and confidences:
\* an observation or a task's updates, possibly cut short part-way.  Nothing
\* that was measured becomes null again.
Remeasured(g) ==
    {h \in [status : {g.status}, val : [Dims -> Value], sure : [Dims -> BOOLEAN]] :
        \A d \in Dims : h.val[d] = "null" =>
                            g.val[d] = "null" /\ h.sure[d] = g.sure[d]}

-----------------------------------------------------------------------------
(* run(): from the call to the first iteration *)

Init ==
    /\ goal = Cleared
    /\ ckpt = NoCkpt
    /\ stopped = FALSE /\ streak = 0 /\ budget = Budget
    /\ pc = "idle" /\ start = 0 /\ idx = 0
    /\ errs = 0 /\ denied = 0 /\ escs = 0
    /\ iters = <<>> /\ final = "none"
    /\ view = Cleared /\ seen = FALSE /\ skips = 0 /\ res = EmptyResult
    /\ runs = 0 /\ crashes = 0 /\ edits = 0 /\ firstMet = Never
    /\ unread = FALSE

\* The locals of run() go out of scope: they take a fixed value between runs.
LeaveRun ==
    /\ pc' = "idle" /\ start' = 0 /\ idx' = 0
    /\ errs' = 0 /\ denied' = 0 /\ escs' = 0 /\ iters' = <<>> /\ final' = "none"
    /\ view' = Cleared /\ res' = EmptyResult /\ unread' = FALSE

\* run(goalId): clear the stop request and the skip tracking; a goal that is
\* not active is refused with an error result.
Run ==
    /\ pc = "idle" /\ runs < MaxRuns
    /\ runs' = runs + 1
    /\ stopped' = FALSE
    /\ seen' = FALSE /\ skips' = 0
    /\ \/ /\ goal.status = "active"
          /\ pc' = "restore" /\ final' = "max_iterations"
          /\ budget' = IF SharedBudget THEN budget ELSE Budget
       \/ /\ goal.status # "active"
          /\ UNCHANGED <<pc, final, budget>>
    /\ UNCHANGED <<disk, streak, start, idx, errs, denied, escs, iters, view, res,
                   crashes, edits, firstMet, unread>>

\* restoreLoopCheckpoint: non-fatal, and a failed restore starts from 0.
Restore ==
    /\ pc = "restore"
    /\ \/ /\ goal' = Restored(goal, ckpt)
          /\ start' = ckpt.cycle
          /\ unread' = FALSE
       \/ /\ start' = 0
          /\ unread' = (ckpt # NoCkpt)
          /\ UNCHANGED goal
    /\ idx' = start'
    /\ pc' = "top"
    /\ UNCHANGED <<ckpt, stopped, streak, budget, errs, denied, escs, iters, final,
                   iterVars, bounds, firstMet>>

\* Neither resetting the stall escalations, nor reloading the goal for children
\* just created, nor reloading it in the skip path is guarded: a throw there
\* leaves run() at once, past the hooks.
Throw ==
    /\ pc \in {"restore", "observe", "diff"}
    /\ LeaveRun
    /\ UNCHANGED <<disk, stopped, streak, budget, seen, skips, bounds, firstMet>>

-----------------------------------------------------------------------------
(* The head of the loop *)

\* The loop condition, then the stop request and the budget.
MutLastIndex == idx > start + MaxIterations
LastIndex == idx >= start + MaxIterations

LoopExit ==
    /\ pc = "top"
    /\ LastIndex \/ stopped \/ budget = 0
    /\ final' = IF ~LastIndex /\ stopped THEN "stopped" ELSE final
    /\ pc' = "post"
    /\ UNCHANGED <<disk, stopped, streak, budget, start, idx, errs, denied, escs, iters,
                   iterVars, bounds, firstMet, unread>>

\* Phase 1: an unreadable goal file makes the iteration an error.
LoadGoal ==
    /\ pc = "top"
    /\ ~LastIndex /\ ~stopped /\ budget > 0
    /\ \/ /\ res' = EmptyResult
          /\ view' = goal
          /\ pc' = "observe"
       \/ /\ res' = [EmptyResult EXCEPT !.error = TRUE]
          /\ pc' = "account"
          /\ UNCHANGED view
    /\ UNCHANGED <<disk, stopped, streak, budget, loopVars, seen, skips, bounds, firstMet, unread>>

-----------------------------------------------------------------------------
(* runOneIteration: phases 2 to 6 *)

\* Phase 2: observation writes the dimensions it reached; when it throws, the
\* iteration goes on with the goal it had loaded before.
Observe ==
    /\ pc = "observe"
    /\ goal' \in Remeasured(goal)
    /\ \/ view' = goal'
       \/ UNCHANGED view
    /\ pc' = IF UseStateDiff THEN "diff" ELSE "gap"
    /\ UNCHANGED <<ckpt, stopped, streak, budget, loopVars, seen, skips, res,
                   bounds, firstMet, unread>>

\* Phase 2b: no meaningful change since the previous snapshot skips the rest,
\* at most MaxConsecutiveSkips times in a row.  What counts as meaningful is a
\* numeric threshold, so any later snapshot may or may not differ.
StateDiff ==
    /\ pc = "diff"
    /\ seen' = TRUE
    /\ \/ /\ skips' = 0
          /\ pc' = "gap"
          /\ UNCHANGED res
       \/ /\ seen /\ skips < MaxConsecutiveSkips
          /\ skips' = skips + 1
          /\ res' = [res EXCEPT !.skipped = TRUE, !.complete = (goal.status = "completed")]
          /\ pc' = "account"
    /\ UNCHANGED <<disk, stopped, streak, budget, loopVars, view, bounds, firstMet, unread>>

\* Phase 3: gap 0 keeps the iteration from generating a task; calculating or
\* recording the gap may fail.
CalculateGap ==
    /\ pc = "gap"
    /\ \/ /\ res' = [res EXCEPT !.gap = IF GapZero(view) THEN "zero" ELSE "positive"]
          /\ pc' = IF GapZero(view) THEN "judge" ELSE "drive"
       \/ /\ res' = [res EXCEPT !.error = TRUE]
          /\ pc' = "account"
    /\ UNCHANGED <<disk, stopped, streak, budget, loopVars, view, seen, skips,
                   bounds, firstMet, unread>>

\* Phase 4: scoring may fail; a knowledge gap ends the iteration with an
\* acquisition task reported as completed, before anything is judged.
ScoreDrives ==
    /\ pc = "drive"
    /\ \/ /\ pc' = "judge"
          /\ UNCHANGED res
       \/ /\ res' = [res EXCEPT !.error = TRUE]
          /\ pc' = "account"
       \/ /\ res' = [res EXCEPT !.act = "other"]
          /\ pc' = "account"
    /\ UNCHANGED <<disk, stopped, streak, budget, loopVars, view, seen, skips,
                   bounds, firstMet, unread>>

\* The streak that confirms a goal.
MutStreakConfirms(n) == n > 2
StreakConfirms(n) == n >= 2

\* SatisficingJudge.isGoalComplete: two judgements in a row that find every
\* dimension met confirm the goal, and confirming clears the streak.
IsGoalComplete(g) ==
    LET met  == AllMet(g)
        done == met /\ StreakConfirms(streak + 1)
    IN  /\ streak' = IF met /\ Dims # {} /\ ~done THEN streak + 1 ELSE 0
        /\ firstMet' = IF ~met THEN Never
                       ELSE IF streak = 0 THEN <<runs, idx>> ELSE firstMet
        /\ res' = [res EXCEPT !.complete = done \/ Dims = {},
                              !.judged = IF met THEN "met" ELSE "unmet"]

\* Phase 5: the judgement before the task, on the goal phase 3 measured.
CheckCompletion ==
    /\ pc = "judge"
    /\ \/ /\ IsGoalComplete(view)
          /\ pc' = "stall"
       \/ /\ res' = [res EXCEPT !.error = TRUE]
          /\ pc' = "account"
          /\ UNCHANGED <<streak, firstMet>>
    /\ UNCHANGED <<disk, stopped, budget, loopVars, view, seen, skips, bounds, unread>>

\* With gap 0 the iteration ends after the stall check, without a task.
MutSkipsTask == FALSE
SkipsTask == res.gap = "zero"

\* Phase 6 touches strategies only, nothing that run() reads.
DetectStalls ==
    /\ pc = "stall"
    /\ pc' = IF SkipsTask THEN "account" ELSE "task"
    /\ UNCHANGED <<disk, stopped, streak, budget, loopVars, iterVars, bounds, firstMet, unread>>

-----------------------------------------------------------------------------
(* runOneIteration: phases 6b to 7 *)

\* A goal blocked by its prerequisites is an error.  A task group run in
\* parallel reports completed, keep or escalate and judges nothing.  The
\* single task cycle reports any action; its verification may have updated
\* dimensions, also when the cycle then throws.
RunTask ==
    /\ pc = "task"
    /\ \/ /\ res' = [res EXCEPT !.error = TRUE]      \* blocked
          /\ pc' = "account"
          /\ UNCHANGED goal
       \/ /\ res' \in {[res EXCEPT !.act = a] : a \in {"none", "other", "escalate"}}
          /\ pc' = "account"                         \* parallel group
          /\ UNCHANGED goal
       \/ /\ res' \in {[res EXCEPT !.act = a] : a \in Action \ {"none"}}
          /\ goal' \in Remeasured(goal)
          /\ pc' = "rejudge"                         \* task cycle
       \/ /\ res' = [res EXCEPT !.error = TRUE]      \* task cycle threw
          /\ goal' \in Remeasured(goal)
          /\ pc' = "account"
    /\ UNCHANGED <<ckpt, stopped, streak, budget, loopVars, view, seen, skips,
                   bounds, firstMet, unread>>

\* The judgement after the task, on the goal as it now is on disk; a throw
\* here keeps the task's result beside the error.
Rejudge ==
    /\ pc = "rejudge"
    /\ \/ IsGoalComplete(goal)
       \/ /\ res' = [res EXCEPT !.error = TRUE]
          /\ UNCHANGED <<streak, firstMet>>
    /\ pc' = "account"
    /\ UNCHANGED <<disk, stopped, budget, loopVars, view, seen, skips, bounds, unread>>

-----------------------------------------------------------------------------
(* run(): after the iteration *)

\* What an iteration takes from the budget: nothing when it was skipped.
Cost == IF res.skipped THEN 0 ELSE 1

\* IterationBudget.consume refuses to go beyond the total.
Allowed(n) == n <= budget

\* An iteration the budget no longer allows is dropped and ends the loop.
Account ==
    /\ pc = "account"
    /\ \/ /\ ~Allowed(Cost)
          /\ pc' = "post"
          /\ UNCHANGED <<budget, iters>>
       \/ /\ Allowed(Cost)
          /\ budget' = budget - Cost
          /\ iters' = Append(iters, res)
          /\ pc' = IF ~DryRun /\ ~res.error /\ res.act # "none" THEN "ckpt" ELSE "decide"
    /\ UNCHANGED <<disk, stopped, streak, start, idx, errs, denied, escs, final,
                   iterVars, bounds, firstMet, unread>>

\* The cycle a checkpoint records: the next one.
MutCycleNumber == idx
CycleNumber == idx + 1

\* saveLoopCheckpoint: the numbers now on disk and the next cycle; non-fatal.
SaveCheckpoint ==
    /\ pc = "ckpt"
    /\ \/ /\ ckpt' = [cycle |-> CycleNumber, val |-> goal.val]
          /\ unread' = FALSE
       \/ UNCHANGED <<ckpt, unread>>
    /\ pc' = "decide"
    /\ UNCHANGED <<goal, stopped, streak, budget, loopVars, iterVars, bounds, firstMet>>

\* What ends the run after an iteration, in the order the code asks: the
\* first answer wins, "next" is another turn of the loop.
Confirmed == res.complete /\ idx + 1 >= MinIterations
Verdict(e, n, c) ==
    IF Confirmed THEN "completed"
    ELSE IF e >= MaxConsecutiveErrors THEN "error"
    ELSE IF n >= DenialLimit THEN "stopped"
    ELSE IF c >= EscalationLimit \/ ReportedEscalationLevel >= MaxEscalationLevel THEN "stalled"
    ELSE IF stopped THEN "stopped"
    ELSE "next"

\* The counters of run(): a different outcome ends the row.
MutCountDenied == IF res.act \in {"approval_denied", "escalate"} THEN denied + 1 ELSE 0
CountDenied == IF res.act = "approval_denied" THEN denied + 1 ELSE 0
MutCountEscalations == IF res.act = "escalate" THEN 1 ELSE 0
CountEscalations == IF res.act = "escalate" THEN escs + 1 ELSE 0

\* The counters a break leaves behind are not read again, so all three are
\* brought up to date here whatever the verdict.
Decide ==
    /\ pc = "decide"
    /\ errs' = IF res.error THEN errs + 1 ELSE 0
    /\ denied' = CountDenied
    /\ escs' = CountEscalations
    /\ LET v == Verdict(errs', denied', escs')
       IN  IF v = "next"
             THEN pc' = "top" /\ idx' = idx + 1 /\ final' = final
             ELSE pc' = "post" /\ idx' = idx /\ final' = v
    /\ view' = Cleared /\ res' = EmptyResult       \* locals of the iteration
    /\ UNCHANGED <<disk, stopped, streak, budget, start, iters, seen, skips,
                   bounds, firstMet, unread>>

\* Which runs mark the goal file.
MutPersists == final # "error" /\ ~DryRun
Persists == final = "completed" /\ ~DryRun

\* runPostLoopHooks: a completed run marks the goal file, unless the write fails.
PostHooks ==
    /\ pc = "post"
    /\ \/ /\ Persists
          /\ goal' = [goal EXCEPT !.status = "completed"]
       \/ UNCHANGED goal
    /\ LeaveRun
    /\ UNCHANGED <<ckpt, stopped, streak, budget, seen, skips, bounds, firstMet>>

-----------------------------------------------------------------------------
(* The rest of the world *)

\* stop(): a request from a signal handler or a surface, at any moment.
Stop ==
    /\ ~stopped
    /\ stopped' = TRUE
    /\ UNCHANGED <<disk, streak, budget, pc, loopVars, iterVars, bounds, firstMet, unread>>

\* The process dies between two awaits and is started again.
Crash ==
    /\ crashes < MaxCrashes
    /\ crashes' = crashes + 1
    /\ stopped' = FALSE /\ streak' = 0 /\ budget' = Budget /\ firstMet' = Never
    /\ seen' = FALSE /\ skips' = 0
    /\ LeaveRun
    /\ UNCHANGED <<disk, runs, edits>>

\* cmdGoalReset in another process: active again, every dimension cleared.
Reset ==
    /\ edits < MaxEdits
    /\ edits' = edits + 1
    /\ goal' = Cleared
    /\ UNCHANGED <<ckpt, stopped, streak, budget, pc, loopVars, iterVars, runs, crashes,
                   firstMet, unread>>

\* A run of the goal in another process, or a completion cascade, finishes it.
CompletedElsewhere ==
    /\ edits < MaxEdits
    /\ edits' = edits + 1
    /\ goal' = [goal EXCEPT !.status = "completed"]
    /\ UNCHANGED <<ckpt, stopped, streak, budget, pc, loopVars, iterVars, runs, crashes,
                   firstMet, unread>>

\* A run sharing the budget consumes from it.
OthersConsume ==
    /\ SharedBudget /\ budget > 0 /\ pc # "idle"
    /\ budget' = budget - 1
    /\ UNCHANGED <<disk, stopped, streak, pc, loopVars, iterVars, bounds, firstMet, unread>>

Loop == \/ Restore \/ Throw \/ LoopExit \/ LoadGoal \/ Observe \/ StateDiff \/ CalculateGap
        \/ ScoreDrives \/ CheckCompletion \/ DetectStalls \/ RunTask \/ Rejudge
        \/ Account \/ SaveCheckpoint \/ Decide \/ PostHooks

Next == Run \/ Loop \/ Stop \/ Crash \/ Reset \/ CompletedElsewhere \/ OthersConsume

Spec == Init /\ [][Next]_vars

-----------------------------------------------------------------------------
(* Properties *)

PC == {"idle", "restore", "top", "observe", "diff", "gap", "drive", "judge", "stall",
       "task", "rejudge", "account", "ckpt", "decide", "post"}
FinalStatus == {"none", "completed", "stalled", "max_iterations", "error", "stopped"}

\* Every variable stays in its type; in particular the budget is never
\* overdrawn, also when another run empties it during the iteration.
TypeOK ==
    /\ goal \in GoalRec /\ view \in GoalRec
    /\ ckpt \in [cycle : Nat, val : [Dims -> Value]]
    /\ stopped \in BOOLEAN /\ streak \in 0 .. 1 /\ budget \in 0 .. Budget
    /\ pc \in PC /\ start \in Nat /\ idx \in Nat
    /\ errs \in Nat /\ denied \in Nat /\ escs \in Nat
    /\ iters \in Seq(Result) /\ final \in FinalStatus
    /\ seen \in BOOLEAN /\ skips \in 0 .. MaxConsecutiveSkips
    /\ res \in Result
    /\ runs \in Nat /\ crashes \in Nat /\ edits \in Nat
    /\ firstMet \in Nat \X Nat /\ unread \in BOOLEAN

\* A goal is declared complete only on the second of two judgements made in
\* different iterations: the judgement before the task and the one after it
\* never confirm each other (isGoalComplete is called twice per iteration).
TwoCycleConfirmation ==
    res.complete /\ res.judged = "met" /\ Dims # {} => firstMet \notin {Never, <<runs, idx>>}

\* The last n results of the run all satisfy the test.
LastAll(n, Test(_)) ==
    /\ Len(iters) >= n
    /\ \A i \in Len(iters) - n + 1 .. Len(iters) : Test(iters[i])

Failed(r)    == r.error
Denied(r)    == r.act = "approval_denied"
Escalated(r) == r.act = "escalate"

\* The status a run ends with is the one its iterations give: errors, denials
\* and escalations end it only when the last ones in a row are all of that
\* kind, and the iteration limit only after that many iterations or with an
\* empty budget (the counters of run() and their resets).
FinalStatusJustified ==
    pc = "post" =>
        /\ final = "error" => LastAll(MaxConsecutiveErrors, Failed)
        /\ final = "stalled" => LastAll(EscalationLimit, Escalated)
        /\ final = "stopped" => stopped \/ LastAll(DenialLimit, Denied)
        /\ final = "completed" => iters # <<>> /\ iters[Len(iters)].complete
        /\ final = "max_iterations" => Len(iters) = MaxIterations \/ budget = 0

\* A run that goes on to another iteration has no reason to end: none of the
\* limits was reached in a row, and its index counts its results.
NoOverrun ==
    pc = "top" =>
        /\ Len(iters) = idx - start /\ Len(iters) <= MaxIterations
        /\ ~LastAll(MaxConsecutiveErrors, Failed)
        /\ ~LastAll(DenialLimit, Denied)
        /\ ~LastAll(EscalationLimit, Escalated)

\* Two judgements in a row that find everything met do complete the goal,
\* whatever failed, skipped or unjudged iterations lie between them.
MetTwiceCompletes ==
    \A i, j \in DOMAIN iters :
        /\ i < j
        /\ iters[i].judged = "met" /\ ~iters[i].complete
        /\ iters[j].judged = "met" /\ iters[j].gap = "zero"
        /\ \A k \in i + 1 .. j - 1 : iters[k].judged = "no"
        => iters[j].complete

\* A checkpoint never falls back behind the one it replaces, over crashes, runs
\* that start from 0 and failed writes.  The one save that may take it back is
\* the first of a run that could not restore the checkpoint it found.
CheckpointAdvances ==
    [][ckpt' # ckpt => ckpt'.cycle > ckpt.cycle \/ unread]_vars

\* The loop marks the goal completed only after an iteration that saw it
\* complete: confirmed by the judge, or found completed by another process.
CompletedOnlyWhenSeen ==
    [][goal.status = "active" /\ goal'.status = "completed" /\ edits' = edits
        => /\ iters # <<>> /\ ~DryRun
           /\ \/ iters[Len(iters)].complete /\ iters[Len(iters)].judged = "met"
              \/ iters[Len(iters)].skipped /\ edits > 0]_vars
=============================================================================
