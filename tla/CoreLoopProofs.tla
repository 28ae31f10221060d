--------------------------- MODULE CoreLoopProofs ---------------------------
(***************************************************************************)
(* Theorems about CoreLoop, for every set of dimensions, every limit and   *)
(* any number of runs, crashes and outside writes.                         *)
(***************************************************************************)
EXTENDS CoreLoop, SequenceTheorems, TLAPS

-----------------------------------------------------------------------------
(* Types *)

LEMMA ClearedType == Cleared \in GoalRec /\ Cleared.status = "active"
  BY DEF Cleared, GoalRec, Status, Value

LEMMA EmptyResultType == EmptyResult \in Result
  BY DEF EmptyResult, Result, Action

\* An observation or a task's updates leave a goal, with its status.
LEMMA RemeasuredType ==
  ASSUME NEW g \in GoalRec, NEW h \in Remeasured(g)
  PROVE  h \in GoalRec /\ h.status = g.status
  BY DEF Remeasured, GoalRec, Status

\* Restoring a checkpoint leaves a goal.
LEMMA RestoredType ==
  ASSUME NEW g \in GoalRec, NEW c \in [cycle : Nat, val : [Dims -> Value]]
  PROVE  Restored(g, c) \in GoalRec
  BY DEF Restored, GoalRec

\* A judgement fills in a result and leaves a streak of 0 or 1.
LEMMA JudgeType ==
  ASSUME TypeOK, NEW g \in GoalRec, IsGoalComplete(g)
  PROVE  res' \in Result /\ streak' \in 0 .. 1 /\ firstMet' \in Nat \X Nat
  <1>1. res' \in Result
    BY DEF TypeOK, IsGoalComplete, Result
  <1>2. streak' \in 0 .. 1
    BY DEF TypeOK, IsGoalComplete, StreakConfirms
  <1>3. firstMet' \in Nat \X Nat
    BY DEF TypeOK, IsGoalComplete, Never
  <1> QED
    BY <1>1, <1>2, <1>3

\* Every variable stays in its type and the budget is never overdrawn.
THEOREM TypeCorrect == Spec => []TypeOK
<1>1. Init => TypeOK
  <2> SUFFICES ASSUME Init
               PROVE  TypeOK
    OBVIOUS
  <2>1. ckpt \in [cycle : Nat, val : [Dims -> Value]]
    BY DEF Init, NoCkpt, Value
  <2>2. goal \in GoalRec /\ view \in GoalRec /\ res \in Result
    BY ClearedType, EmptyResultType DEF Init
  <2>3. streak \in 0 .. 1 /\ budget \in 0 .. Budget /\ skips \in 0 .. MaxConsecutiveSkips
    BY ConfigAssumption DEF ConfigAssumption, Init
  <2>4. iters \in Seq(Result) /\ firstMet \in Nat \X Nat
    BY DEF Init, Never
  <2> QED
    BY <2>1, <2>2, <2>3, <2>4 DEF Init, TypeOK, PC, FinalStatus
<1>2. TypeOK /\ [Next]_vars => TypeOK'
  <2> SUFFICES ASSUME TypeOK, [Next]_vars
               PROVE  TypeOK'
    OBVIOUS
  <2> USE ConfigAssumption DEF ConfigAssumption
  <2>1. CASE Run
    <3>1. budget' \in 0 .. Budget
      <4>1. budget' = budget \/ budget' = Budget
        BY <2>1 DEF Run
      <4> QED
        BY <4>1 DEF TypeOK
    <3>2. pc' \in PC /\ final' \in FinalStatus
      BY <2>1 DEF Run, TypeOK, PC, FinalStatus
    <3>3. /\ runs' = runs + 1 /\ stopped' = FALSE /\ seen' = FALSE /\ skips' = 0
          /\ UNCHANGED <<disk, streak, start, idx, errs, denied, escs, iters, view, res,
                         crashes, edits, firstMet, unread>>
      BY <2>1 DEF Run
    <3> QED
      <4>1. skips' \in 0 .. MaxConsecutiveSkips /\ runs' \in Nat
        BY <3>3 DEF TypeOK
      <4>2. stopped' \in BOOLEAN /\ seen' \in BOOLEAN
        BY <3>3
      <4> QED
        BY <3>1, <3>2, <3>3, <4>1, <4>2 DEF TypeOK, disk
  <2>2. CASE Restore
    <3>1. goal' \in GoalRec /\ start' \in Nat
      BY <2>2, RestoredType DEF Restore, TypeOK
    <3>2. unread' \in BOOLEAN
      BY <2>2 DEF Restore
    <3> QED
      BY <2>2, <3>1, <3>2 DEF Restore, TypeOK, iterVars, bounds, PC
  <2>3. CASE Throw
    <3>1. unread' \in BOOLEAN
      BY <2>3 DEF Throw, LeaveRun
    <3> QED
      BY <2>3, <3>1, ClearedType, EmptyResultType
         DEF Throw, LeaveRun, TypeOK, disk, bounds, PC, FinalStatus
  <2>4. CASE LoopExit
    BY <2>4 DEF LoopExit, TypeOK, disk, iterVars, bounds, PC, FinalStatus
  <2>5. CASE LoadGoal
    <3>1. res' \in Result
      BY <2>5, EmptyResultType DEF LoadGoal, Result
    <3> QED
      BY <2>5, <3>1 DEF LoadGoal, TypeOK, disk, loopVars, bounds, PC
  <2>6. CASE Observe
    <3>1. goal' \in GoalRec
      BY <2>6, RemeasuredType DEF Observe, TypeOK
    <3> QED
      BY <2>6, <3>1 DEF Observe, TypeOK, loopVars, bounds, PC
  <2>7. CASE StateDiff
    <3>1. res' \in Result
      BY <2>7 DEF StateDiff, TypeOK, Result
    <3>2. skips' \in 0 .. MaxConsecutiveSkips
      <4>1. skips' = 0 \/ (skips < MaxConsecutiveSkips /\ skips' = skips + 1)
        BY <2>7 DEF StateDiff
      <4> QED
        BY <4>1 DEF TypeOK
    <3> QED
      BY <2>7, <3>1, <3>2 DEF StateDiff, TypeOK, disk, loopVars, bounds, PC
  <2>8. CASE CalculateGap
    <3>1. res' \in Result
      BY <2>8 DEF CalculateGap, TypeOK, Result
    <3> QED
      BY <2>8, <3>1 DEF CalculateGap, TypeOK, disk, loopVars, bounds, PC
  <2>9. CASE ScoreDrives
    <3>1. res' \in Result
      BY <2>9 DEF ScoreDrives, TypeOK, Result, Action
    <3> QED
      BY <2>9, <3>1 DEF ScoreDrives, TypeOK, disk, loopVars, bounds, PC
  <2>10. CASE CheckCompletion
    <3>1. res' \in Result /\ streak' \in 0 .. 1 /\ firstMet' \in Nat \X Nat
      <4>1. CASE IsGoalComplete(view)
        BY <4>1, JudgeType DEF TypeOK
      <4>2. CASE ~IsGoalComplete(view)
        BY <2>10, <4>2 DEF CheckCompletion, TypeOK, Result
      <4> QED
        BY <4>1, <4>2
    <3> QED
      BY <2>10, <3>1 DEF CheckCompletion, TypeOK, disk, loopVars, bounds, PC
  <2>11. CASE DetectStalls
    BY <2>11 DEF DetectStalls, TypeOK, disk, loopVars, iterVars, bounds, PC
  <2>12. CASE RunTask
    <3>1. goal' \in GoalRec
      BY <2>12, RemeasuredType DEF RunTask, TypeOK
    <3>2. res' \in Result
      <4>1. CASE res' = [res EXCEPT !.error = TRUE]
        BY <4>1 DEF TypeOK, Result
      <4>2. CASE res' # [res EXCEPT !.error = TRUE]
        <5>1. PICK a \in Action : res' = [res EXCEPT !.act = a]
          BY <2>12, <4>2 DEF RunTask, Action
        <5> QED
          BY <5>1 DEF TypeOK, Result
      <4> QED
        BY <4>1, <4>2
    <3> QED
      BY <2>12, <3>1, <3>2 DEF RunTask, TypeOK, loopVars, bounds, PC
  <2>13. CASE Rejudge
    <3>1. res' \in Result /\ streak' \in 0 .. 1 /\ firstMet' \in Nat \X Nat
      <4>1. CASE IsGoalComplete(goal)
        BY <4>1, JudgeType DEF TypeOK
      <4>2. CASE ~IsGoalComplete(goal)
        BY <2>13, <4>2 DEF Rejudge, TypeOK, Result
      <4> QED
        BY <4>1, <4>2
    <3> QED
      BY <2>13, <3>1 DEF Rejudge, TypeOK, disk, loopVars, bounds, PC
  <2>14. CASE Account
    <3>1. budget' \in 0 .. Budget
      BY <2>14 DEF Account, Allowed, Cost, TypeOK
    <3>2. iters' \in Seq(Result)
      <4>1. iters' = iters \/ iters' = Append(iters, res)
        BY <2>14 DEF Account
      <4>2. iters \in Seq(Result) /\ res \in Result
        BY DEF TypeOK
      <4>3. Append(iters, res) \in Seq(Result)
        BY <4>2, AppendProperties
      <4> QED
        BY <4>1, <4>2, <4>3
    <3> QED
      BY <2>14, <3>1, <3>2 DEF Account, TypeOK, disk, iterVars, bounds, PC
  <2>15. CASE SaveCheckpoint
    <3>1. ckpt' \in [cycle : Nat, val : [Dims -> Value]]
      BY <2>15 DEF SaveCheckpoint, CycleNumber, TypeOK, GoalRec
    <3> QED
      BY <2>15, <3>1 DEF SaveCheckpoint, TypeOK, loopVars, iterVars, bounds, PC
  <2>16. CASE Decide
    <3>1. final' \in FinalStatus /\ pc' \in PC /\ idx' \in Nat
      BY <2>16 DEF Decide, Verdict, TypeOK, FinalStatus, PC
    <3>2. errs' \in Nat /\ denied' \in Nat /\ escs' \in Nat
      BY <2>16 DEF Decide, CountDenied, CountEscalations, TypeOK
    <3> QED
      BY <2>16, <3>1, <3>2, ClearedType, EmptyResultType DEF Decide, TypeOK, disk, bounds
  <2>17. CASE PostHooks
    <3>1. goal' \in GoalRec
      BY <2>17 DEF PostHooks, TypeOK, GoalRec, Status
    <3>2. unread' \in BOOLEAN
      BY <2>17 DEF PostHooks, LeaveRun
    <3> QED
      BY <2>17, <3>1, <3>2, ClearedType, EmptyResultType
         DEF PostHooks, LeaveRun, TypeOK, bounds, PC, FinalStatus
  <2>18. CASE Stop
    BY <2>18 DEF Stop, TypeOK, disk, loopVars, iterVars, bounds
  <2>19. CASE Crash
    <3>1. budget' \in 0 .. Budget /\ streak' \in 0 .. 1 /\ skips' \in 0 .. MaxConsecutiveSkips
      BY <2>19 DEF Crash
    <3>2. iters' \in Seq(Result) /\ firstMet' \in Nat \X Nat /\ crashes' \in Nat
      BY <2>19 DEF Crash, LeaveRun, Never, TypeOK
    <3> QED
      BY <2>19, <3>1, <3>2, ClearedType, EmptyResultType
         DEF Crash, LeaveRun, TypeOK, disk, PC, FinalStatus
  <2>20. CASE Reset
    BY <2>20, ClearedType DEF Reset, TypeOK, loopVars, iterVars
  <2>21. CASE CompletedElsewhere
    <3>1. goal' \in GoalRec
      BY <2>21 DEF CompletedElsewhere, TypeOK, GoalRec, Status
    <3>2. /\ edits' = edits + 1
          /\ UNCHANGED <<ckpt, stopped, streak, budget, pc, loopVars, iterVars, runs,
                         crashes, firstMet, unread>>
      BY <2>21 DEF CompletedElsewhere
    <3> QED
      BY <3>1, <3>2 DEF TypeOK, loopVars, iterVars
  <2>22. CASE OthersConsume
    BY <2>22 DEF OthersConsume, TypeOK, disk, loopVars, iterVars, bounds
  <2>23. CASE UNCHANGED vars
    BY <2>23 DEF TypeOK, vars, disk, loopVars, iterVars, bounds
  <2> QED
    BY <2>1, <2>2, <2>3, <2>4, <2>5, <2>6, <2>7, <2>8, <2>9, <2>10, <2>11, <2>12, <2>13,
       <2>14, <2>15, <2>16, <2>17, <2>18, <2>19, <2>20, <2>21, <2>22, <2>23
       DEF Next, Loop
<1> QED
  BY <1>1, <1>2, PTL DEF Spec

-----------------------------------------------------------------------------
(* Confirmation *)

Before == {"top", "observe", "diff", "gap", "drive", "judge"}
After  == {"stall", "task", "rejudge", "account", "ckpt", "decide", "post"}

\* The judgement that began the streak belongs to an earlier iteration until
\* this iteration has judged, and to this one at the latest after that.
BeganEarlier ==
    /\ pc # "idle" => runs > 0
    /\ firstMet[1] <= runs
    /\ pc = "restore" => firstMet[1] < runs
    /\ pc \in Before => firstMet[1] < runs \/ firstMet[2] < idx
    /\ pc \in After => firstMet[1] < runs \/ firstMet[2] <= idx
    /\ streak = 1 => firstMet # Never

\* An iteration that goes on to a task was judged unmet, because it has a gap.
UnmetBeforeTask ==
    /\ pc = "drive" => ~GapZero(view)
    /\ pc = "judge" => (GapZero(view) => res.gap = "zero")
    /\ pc = "stall" => streak = 0 \/ res.gap = "zero"
    /\ pc \in {"task", "rejudge"} => streak = 0

\* Nothing is complete before it is judged.
NotYetComplete ==
    pc \in {"idle", "restore"} \cup Before => ~res.complete /\ res.judged = "no"

ConfirmInv == BeganEarlier /\ UnmetBeforeTask /\ NotYetComplete /\ TwoCycleConfirmation

\* What a judgement makes of the streak.
LEMMA Judgement ==
  ASSUME TypeOK, NEW g \in GoalRec, IsGoalComplete(g), runs > 0, firstMet[1] <= runs,
         firstMet[1] < runs \/ firstMet[2] <= idx, streak = 1 => firstMet # Never,
         streak = 0 \/ firstMet[1] < runs \/ firstMet[2] < idx
  PROVE  /\ firstMet'[1] <= runs
         /\ firstMet'[1] < runs \/ firstMet'[2] <= idx
         /\ streak' = 1 => firstMet' # Never
         /\ ~GapZero(g) => streak' = 0
         /\ res'.complete /\ res'.judged = "met" /\ Dims # {}
                => firstMet' \notin {Never, <<runs, idx>>}
         /\ res'.gap = res.gap
  <1> DEFINE met  == AllMet(g)
             done == met /\ StreakConfirms(streak + 1)
  <1>1. /\ streak' = IF met /\ Dims # {} /\ ~done THEN streak + 1 ELSE 0
        /\ firstMet' = IF ~met THEN Never
                       ELSE IF streak = 0 THEN <<runs, idx>> ELSE firstMet
    BY DEF IsGoalComplete
  <1>2. /\ res'.complete <=> (done \/ Dims = {})
        /\ res'.judged = IF met THEN "met" ELSE "unmet"
        /\ res'.gap = res.gap
    BY DEF IsGoalComplete, TypeOK, Result
  <1>3. /\ streak \in 0 .. 1 /\ runs \in Nat /\ idx \in Nat /\ firstMet \in Nat \X Nat
        /\ Never[1] = 0 /\ Never[2] = 0
        /\ <<runs, idx>>[1] = runs /\ <<runs, idx>>[2] = idx
    BY DEF TypeOK, Never
  <1>4. met => GapZero(g)
    BY DEF AllMet
  <1>5. done => met /\ streak = 1
    BY <1>3 DEF StreakConfirms
  <1> HIDE DEF met, done
  <1>6. CASE ~met
    BY <1>1, <1>2, <1>3, <1>5, <1>6
  <1>7. CASE met /\ streak = 0
    BY <1>1, <1>2, <1>3, <1>4, <1>5, <1>7
  <1>8. CASE met /\ streak = 1
    BY <1>1, <1>2, <1>3, <1>4, <1>5, <1>8
  <1> QED
    BY <1>3, <1>6, <1>7, <1>8

LEMMA ConfirmStep == TypeOK /\ ConfirmInv /\ [Next]_vars => ConfirmInv'
  <1> SUFFICES ASSUME TypeOK, ConfirmInv, [Next]_vars
               PROVE  ConfirmInv'
    OBVIOUS
  <1> USE DEF Before, After
  <1>0. /\ runs \in Nat /\ idx \in Nat /\ firstMet \in Nat \X Nat /\ res \in Result
        /\ pc \in PC /\ Never \in Nat \X Nat /\ Never[1] = 0
    BY DEF TypeOK, Never
  <1>1. CASE Run
    BY <1>0, <1>1 DEF Run, ConfirmInv, BeganEarlier, UnmetBeforeTask, NotYetComplete,
                      TwoCycleConfirmation
  <1>2. CASE Restore
    <2>1. /\ pc = "restore" /\ pc' = "top"
          /\ UNCHANGED <<streak, iterVars, bounds, firstMet>>
      BY <1>2 DEF Restore
    <2> QED
      BY <1>0, <2>1 DEF ConfirmInv, BeganEarlier, UnmetBeforeTask, NotYetComplete,
                        TwoCycleConfirmation, iterVars, bounds
  <1>3. CASE Throw
    <2>1. res' = EmptyResult /\ pc' = "idle" /\ UNCHANGED <<streak, bounds, firstMet>>
      BY <1>3 DEF Throw, LeaveRun
    <2> QED
      BY <1>0, <2>1 DEF ConfirmInv, BeganEarlier, UnmetBeforeTask, NotYetComplete,
                        TwoCycleConfirmation, bounds, EmptyResult
  <1>4. CASE LoopExit
    BY <1>0, <1>4 DEF LoopExit, ConfirmInv, BeganEarlier, UnmetBeforeTask, NotYetComplete,
                      TwoCycleConfirmation, iterVars, bounds
  <1>5. CASE LoadGoal
    <2>1. /\ pc = "top" /\ pc' \in {"observe", "account"}
          /\ UNCHANGED <<streak, loopVars, bounds, firstMet>>
      BY <1>5 DEF LoadGoal
    <2>2. ~res'.complete /\ res'.judged = "no"
      BY <1>5 DEF LoadGoal, EmptyResult
    <2> QED
      BY <1>0, <2>1, <2>2 DEF ConfirmInv, BeganEarlier, UnmetBeforeTask, NotYetComplete,
                              TwoCycleConfirmation, loopVars, bounds
  <1>6. CASE Observe
    <2>1. /\ pc = "observe" /\ pc' \in {"diff", "gap"}
          /\ UNCHANGED <<streak, loopVars, res, bounds, firstMet>>
      BY <1>6 DEF Observe
    <2> QED
      BY <1>0, <2>1 DEF ConfirmInv, BeganEarlier, UnmetBeforeTask, NotYetComplete,
                        TwoCycleConfirmation, loopVars, bounds
  <1>7. CASE StateDiff
    <2>1. /\ pc = "diff" /\ pc' \in {"gap", "account"}
          /\ UNCHANGED <<streak, loopVars, bounds, firstMet>>
      BY <1>7 DEF StateDiff
    <2>2. res'.judged = res.judged /\ (pc' = "gap" => res' = res)
      BY <1>0, <1>7 DEF StateDiff, Result
    <2> QED
      BY <1>0, <2>1, <2>2 DEF ConfirmInv, BeganEarlier, UnmetBeforeTask, NotYetComplete,
                              TwoCycleConfirmation, loopVars, bounds
  <1>8. CASE CalculateGap
    <2>1. /\ pc = "gap" /\ pc' \in {"judge", "drive", "account"}
          /\ UNCHANGED <<streak, loopVars, view, bounds, firstMet>>
      BY <1>8 DEF CalculateGap
    <2>2. res'.judged = res.judged /\ res'.complete = res.complete
      BY <1>0, <1>8 DEF CalculateGap, Result
    <2>3. pc' = "judge" => res'.gap = "zero"
      BY <1>0, <1>8 DEF CalculateGap, Result
    <2>4. pc' = "drive" => ~GapZero(view)
      BY <1>8 DEF CalculateGap
    <2>5. pc' = "drive" => ~GapZero(view')
      BY <2>1, <2>4
    <2>6. UnmetBeforeTask'
      BY <2>1, <2>3, <2>5 DEF UnmetBeforeTask
    <2> QED
      BY <1>0, <2>1, <2>2, <2>6 DEF ConfirmInv, BeganEarlier, NotYetComplete,
                                    TwoCycleConfirmation, loopVars, bounds
  <1>9. CASE ScoreDrives
    <2>1. /\ pc = "drive" /\ pc' \in {"judge", "account"}
          /\ UNCHANGED <<streak, loopVars, view, bounds, firstMet>>
      BY <1>9 DEF ScoreDrives
    <2>2. res'.judged = res.judged /\ res'.complete = res.complete
      BY <1>0, <1>9 DEF ScoreDrives, Result
    <2>3. ~GapZero(view')
      BY <2>1 DEF ConfirmInv, UnmetBeforeTask
    <2>4. UnmetBeforeTask'
      BY <2>1, <2>3 DEF UnmetBeforeTask
    <2> QED
      BY <1>0, <2>1, <2>2, <2>4 DEF ConfirmInv, BeganEarlier, NotYetComplete,
                                    TwoCycleConfirmation, loopVars, bounds
  <1>10. CASE CheckCompletion
    <2>1. /\ pc = "judge" /\ pc' \in {"stall", "account"}
          /\ UNCHANGED <<loopVars, view, bounds>>
      BY <1>10 DEF CheckCompletion
    <2>2. /\ view \in GoalRec /\ runs > 0 /\ firstMet[1] <= runs
          /\ firstMet[1] < runs \/ firstMet[2] < idx
          /\ streak = 1 => firstMet # Never
          /\ GapZero(view) => res.gap = "zero"
          /\ ~res.complete
      BY <2>1 DEF TypeOK, ConfirmInv, BeganEarlier, UnmetBeforeTask, NotYetComplete
    <2>3. CASE IsGoalComplete(view)
      <3>1. /\ firstMet'[1] <= runs
            /\ firstMet'[1] < runs \/ firstMet'[2] <= idx
            /\ streak' = 1 => firstMet' # Never
            /\ ~GapZero(view) => streak' = 0
            /\ res'.complete /\ res'.judged = "met" /\ Dims # {}
                   => firstMet' \notin {Never, <<runs, idx>>}
            /\ res'.gap = res.gap
        BY <1>0, <2>2, <2>3, Judgement
      <3> QED
        BY <1>0, <2>1, <2>2, <3>1 DEF ConfirmInv, BeganEarlier, UnmetBeforeTask,
                              NotYetComplete, TwoCycleConfirmation, loopVars, bounds
    <2>4. CASE ~IsGoalComplete(view)
      <3>1. /\ pc' = "account" /\ UNCHANGED <<streak, firstMet>>
            /\ res' = [res EXCEPT !.error = TRUE]
        BY <1>10, <2>4 DEF CheckCompletion
      <3>2. ~res'.complete
        BY <1>0, <2>2, <3>1 DEF Result
      <3>3. /\ pc' = "account" /\ UNCHANGED <<streak, firstMet>>
        BY <3>1
      <3> QED
        BY <1>0, <2>1, <2>2, <3>2, <3>3 DEF ConfirmInv, BeganEarlier, UnmetBeforeTask,
                              NotYetComplete, TwoCycleConfirmation, loopVars, bounds
    <2> QED
      BY <2>3, <2>4
  <1>11. CASE DetectStalls
    BY <1>0, <1>11 DEF DetectStalls, SkipsTask, ConfirmInv, BeganEarlier, UnmetBeforeTask,
                   NotYetComplete, TwoCycleConfirmation, loopVars, iterVars, bounds
  <1>12. CASE RunTask
    <2>1. /\ pc = "task" /\ pc' \in {"account", "rejudge"}
          /\ UNCHANGED <<streak, loopVars, bounds, firstMet>>
      BY <1>12 DEF RunTask
    <2>2. res'.judged = res.judged /\ res'.complete = res.complete
      <3>1. CASE res' = [res EXCEPT !.error = TRUE]
        BY <1>0, <3>1 DEF Result
      <3>2. CASE res' # [res EXCEPT !.error = TRUE]
        <4>1. PICK a \in Action : res' = [res EXCEPT !.act = a]
          BY <1>12, <3>2 DEF RunTask, Action
        <4> QED
          BY <1>0, <4>1 DEF Result
      <3> QED
        BY <3>1, <3>2
    <2> QED
      BY <1>0, <2>1, <2>2 DEF ConfirmInv, BeganEarlier, UnmetBeforeTask, NotYetComplete,
                              TwoCycleConfirmation, loopVars, bounds
  <1>13. CASE Rejudge
    <2>1. /\ pc = "rejudge" /\ pc' = "account"
          /\ UNCHANGED <<loopVars, bounds>>
      BY <1>13 DEF Rejudge
    <2>2. /\ goal \in GoalRec /\ runs > 0 /\ firstMet[1] <= runs /\ streak = 0
          /\ firstMet[1] < runs \/ firstMet[2] <= idx
      BY <2>1 DEF TypeOK, ConfirmInv, BeganEarlier, UnmetBeforeTask
    <2>3. CASE IsGoalComplete(goal)
      <3>1. /\ firstMet'[1] <= runs
            /\ firstMet'[1] < runs \/ firstMet'[2] <= idx
            /\ streak' = 1 => firstMet' # Never
            /\ res'.complete /\ res'.judged = "met" /\ Dims # {}
                   => firstMet' \notin {Never, <<runs, idx>>}
        BY <1>0, <2>2, <2>3, Judgement
      <3> QED
        BY <1>0, <2>1, <2>2, <3>1 DEF ConfirmInv, BeganEarlier, UnmetBeforeTask,
                              NotYetComplete, TwoCycleConfirmation, loopVars, bounds
    <2>4. CASE ~IsGoalComplete(goal)
      <3>1. /\ UNCHANGED <<streak, firstMet>>
            /\ res' = [res EXCEPT !.error = TRUE]
        BY <1>13, <2>4 DEF Rejudge
      <3>2. res'.complete = res.complete /\ res'.judged = res.judged
        BY <1>0, <3>1 DEF Result
      <3>3. UNCHANGED <<streak, firstMet>>
        BY <3>1
      <3> QED
        BY <1>0, <2>1, <2>2, <3>2, <3>3 DEF ConfirmInv, BeganEarlier, UnmetBeforeTask,
                              NotYetComplete, TwoCycleConfirmation, loopVars, bounds
    <2> QED
      BY <2>3, <2>4
  <1>14. CASE Account
    <2>1. /\ pc = "account" /\ pc' \in {"post", "ckpt", "decide"}
          /\ UNCHANGED <<streak, idx, iterVars, bounds, firstMet>>
      BY <1>14 DEF Account
    <2> QED
      BY <1>0, <2>1 DEF ConfirmInv, BeganEarlier, UnmetBeforeTask, NotYetComplete,
                        TwoCycleConfirmation, iterVars, bounds
  <1>15. CASE SaveCheckpoint
    <2>1. /\ pc = "ckpt" /\ pc' = "decide"
          /\ UNCHANGED <<streak, loopVars, iterVars, bounds, firstMet>>
      BY <1>15 DEF SaveCheckpoint
    <2> QED
      BY <1>0, <2>1 DEF ConfirmInv, BeganEarlier, UnmetBeforeTask, NotYetComplete,
                        TwoCycleConfirmation, loopVars, iterVars, bounds
  <1>16. CASE Decide
    <2>1. /\ pc = "decide" /\ ((pc' = "top" /\ idx' = idx + 1) \/ (pc' = "post" /\ idx' = idx))
          /\ UNCHANGED <<streak, bounds, firstMet>>
          /\ ~res'.complete /\ res'.judged = "no"
      BY <1>16 DEF Decide, EmptyResult
    <2> QED
      BY <1>0, <2>1 DEF ConfirmInv, BeganEarlier, UnmetBeforeTask, NotYetComplete,
                        TwoCycleConfirmation, bounds
  <1>17. CASE PostHooks
    <2>1. /\ pc' = "idle" /\ UNCHANGED <<streak, bounds, firstMet>>
          /\ ~res'.complete /\ res'.judged = "no"
      BY <1>17 DEF PostHooks, LeaveRun, EmptyResult
    <2> QED
      BY <1>0, <2>1 DEF ConfirmInv, BeganEarlier, UnmetBeforeTask, NotYetComplete,
                        TwoCycleConfirmation, bounds
  <1>18. CASE Stop
    BY <1>18 DEF Stop, ConfirmInv, BeganEarlier, UnmetBeforeTask, NotYetComplete,
                 TwoCycleConfirmation, loopVars, iterVars, bounds
  <1>19. CASE Crash
    <2>1. /\ pc' = "idle" /\ streak' = 0 /\ firstMet' = Never /\ runs' = runs
          /\ ~res'.complete /\ res'.judged = "no"
      BY <1>19 DEF Crash, LeaveRun, EmptyResult
    <2> QED
      BY <1>0, <2>1 DEF ConfirmInv, BeganEarlier, UnmetBeforeTask, NotYetComplete,
                        TwoCycleConfirmation
  <1>20. CASE Reset
    BY <1>20 DEF Reset, ConfirmInv, BeganEarlier, UnmetBeforeTask, NotYetComplete,
                 TwoCycleConfirmation, loopVars, iterVars
  <1>21. CASE CompletedElsewhere
    <2>1. UNCHANGED <<streak, pc, loopVars, iterVars, runs, firstMet>>
      BY <1>21 DEF CompletedElsewhere
    <2> QED
      BY <2>1 DEF ConfirmInv, BeganEarlier, UnmetBeforeTask, NotYetComplete,
                  TwoCycleConfirmation, loopVars, iterVars
  <1>22. CASE OthersConsume
    BY <1>22 DEF OthersConsume, ConfirmInv, BeganEarlier, UnmetBeforeTask, NotYetComplete,
                 TwoCycleConfirmation, loopVars, iterVars, bounds
  <1>23. CASE UNCHANGED vars
    BY <1>23 DEF vars, ConfirmInv, BeganEarlier, UnmetBeforeTask, NotYetComplete,
                 TwoCycleConfirmation, loopVars, iterVars, bounds
  <1> QED
    BY <1>1, <1>2, <1>3, <1>4, <1>5, <1>6, <1>7, <1>8, <1>9, <1>10, <1>11, <1>12, <1>13,
       <1>14, <1>15, <1>16, <1>17, <1>18, <1>19, <1>20, <1>21, <1>22, <1>23
       DEF Next, Loop

LEMMA ConfirmAlways == Spec => []ConfirmInv
<1>1. Init => ConfirmInv
  BY DEF Init, ConfirmInv, BeganEarlier, UnmetBeforeTask, NotYetComplete,
         TwoCycleConfirmation, Before, After, EmptyResult, Never
<1>2. TypeOK /\ ConfirmInv /\ [Next]_vars => ConfirmInv'
  BY ConfirmStep
<1> QED
  BY <1>1, <1>2, TypeCorrect, PTL DEF Spec

\* A goal is declared complete only by judgements of two different iterations.
THEOREM Confirmation == Spec => []TwoCycleConfirmation
<1>1. ConfirmInv => TwoCycleConfirmation
  BY DEF ConfirmInv
<1> QED
  BY <1>1, ConfirmAlways, PTL

-----------------------------------------------------------------------------
(* Checkpoints *)

InIteration == {"observe", "diff", "gap", "drive", "judge", "stall", "task", "rejudge",
                "account"}

\* The checkpoint on disk is not ahead of the iteration, unless the run could
\* not restore it and has not written one of its own since.
CheckpointBehind ==
    /\ pc \in {"top", "ckpt"} \cup InIteration => unread \/ ckpt.cycle <= idx
    /\ pc = "decide" => unread \/ ckpt.cycle <= idx + 1

LEMMA CheckpointStep ==
  ASSUME TypeOK, CheckpointBehind, [Next]_vars
  PROVE  CheckpointBehind' /\ (ckpt' # ckpt => ckpt'.cycle > ckpt.cycle \/ unread)
  <1> USE DEF InIteration
  <1>0. start \in Nat /\ idx \in Nat /\ ckpt.cycle \in Nat
    BY DEF TypeOK
  <1>1. CASE Restore
    <2>1. /\ pc = "restore" /\ pc' = "top" /\ UNCHANGED ckpt
          /\ \/ idx' = ckpt.cycle
             \/ idx' = 0 /\ (unread' \/ ckpt = NoCkpt)
      BY <1>1, Zenon DEF Restore
    <2>2. ckpt = NoCkpt => ckpt.cycle = 0
      BY DEF NoCkpt
    <2>3. unread' \/ ckpt.cycle <= idx'
      BY <1>0, <2>1, <2>2
    <2> QED
      BY <2>1, <2>3 DEF CheckpointBehind
  <1>2. CASE Run
    <2>1. pc' \in {"idle", "restore"}
      BY <1>2 DEF Run
    <2>2. UNCHANGED ckpt
      BY <1>2 DEF Run, disk
    <2> QED
      BY <2>1, <2>2 DEF CheckpointBehind
  <1>3. CASE LoopExit \/ DetectStalls
    BY <1>3 DEF LoopExit, DetectStalls, CheckpointBehind, disk, loopVars
  <1>4. CASE LoadGoal \/ Observe \/ StateDiff \/ CalculateGap \/ ScoreDrives
             \/ CheckCompletion \/ RunTask \/ Rejudge
    <2>1. /\ pc \in {"top"} \cup InIteration /\ pc' \in InIteration
          /\ UNCHANGED <<ckpt, loopVars, unread>>
      BY <1>4 DEF LoadGoal, Observe, StateDiff, CalculateGap, ScoreDrives, CheckCompletion,
                  RunTask, Rejudge, disk
    <2> QED
      BY <2>1 DEF CheckpointBehind, loopVars
  <1>5. CASE Account
    <2>1. /\ pc = "account" /\ pc' \in {"ckpt", "decide", "post"}
          /\ UNCHANGED <<ckpt, unread, idx>>
      BY <1>5 DEF Account, disk
    <2> QED
      BY <1>0, <2>1 DEF CheckpointBehind
  <1>6. CASE SaveCheckpoint
    <2>1. /\ pc = "ckpt" /\ pc' = "decide" /\ UNCHANGED idx
          /\ (UNCHANGED <<ckpt, unread>>) \/ ckpt'.cycle = idx + 1
      BY <1>6 DEF SaveCheckpoint, CycleNumber, loopVars
    <2> QED
      BY <1>0, <2>1 DEF CheckpointBehind
  <1>7. CASE Decide
    <2>1. /\ pc = "decide" /\ ((pc' = "top" /\ idx' = idx + 1) \/ pc' = "post")
          /\ UNCHANGED <<ckpt, unread>>
      BY <1>7 DEF Decide, disk
    <2> QED
      BY <1>0, <2>1 DEF CheckpointBehind
  <1>8. CASE Throw \/ PostHooks \/ Crash
    <2>1. pc' = "idle" /\ UNCHANGED ckpt
      BY <1>8 DEF Throw, PostHooks, Crash, LeaveRun, disk
    <2> QED
      BY <2>1 DEF CheckpointBehind
  <1>9. CASE Stop \/ Reset \/ CompletedElsewhere \/ OthersConsume \/ UNCHANGED vars
    <2>1. UNCHANGED <<ckpt, pc, loopVars, unread>>
      BY <1>9 DEF Stop, Reset, CompletedElsewhere, OthersConsume, vars, disk
    <2> QED
      BY <2>1 DEF CheckpointBehind, loopVars
  <1> QED
    BY <1>1, <1>2, <1>3, <1>4, <1>5, <1>6, <1>7, <1>8, <1>9 DEF Next, Loop

\* A checkpoint never falls back behind the one it replaces.
THEOREM CheckpointsAdvance == Spec => CheckpointAdvances
<1>1. Init => CheckpointBehind
  BY DEF Init, CheckpointBehind, InIteration
<1>2. TypeOK /\ CheckpointBehind /\ [Next]_vars => CheckpointBehind'
  BY CheckpointStep
<1>3. TypeOK /\ CheckpointBehind /\ [Next]_vars
        => [ckpt' # ckpt => ckpt'.cycle > ckpt.cycle \/ unread]_vars
  BY CheckpointStep
<1> QED
  BY <1>1, <1>2, <1>3, TypeCorrect, PTL DEF Spec, CheckpointAdvances

-----------------------------------------------------------------------------
(* Why a run ends *)

\* n counts the elements of S that end the first k elements of s.
Row(s, S, n, k) ==
    /\ n <= k
    /\ \A i \in k - n + 1 .. k : s[i] \in S
    /\ n < k => s[k - n] \notin S

LEMMA RowGrows ==
  ASSUME NEW s, NEW S, NEW n \in Nat, NEW k \in Nat, Row(s, S, n, k), s[k + 1] \in S
  PROVE  Row(s, S, n + 1, k + 1)
  <1>1. \A i \in (k + 1) - (n + 1) + 1 .. k + 1 : s[i] \in S
    <2> TAKE i \in (k + 1) - (n + 1) + 1 .. k + 1
    <2>1. i = k + 1 \/ i \in k - n + 1 .. k
      OBVIOUS
    <2> QED
      BY <2>1 DEF Row
  <1>2. n + 1 < k + 1 => s[(k + 1) - (n + 1)] \notin S
    <2>1. (k + 1) - (n + 1) = k - n
      OBVIOUS
    <2> QED
      BY <2>1 DEF Row
  <1> QED
    BY <1>1, <1>2 DEF Row

LEMMA RowBreaks ==
  ASSUME NEW s, NEW S, NEW k \in Nat, s[k + 1] \notin S
  PROVE  Row(s, S, 0, k + 1)
  <1>1. (k + 1) - 0 = k + 1
    OBVIOUS
  <1> QED
    BY <1>1 DEF Row

\* Appending does not change the rows of what was there.
LEMMA RowAppend ==
  ASSUME NEW T, NEW s \in Seq(T), NEW e \in T, NEW S, NEW n \in Nat, Row(s, S, n, Len(s))
  PROVE  Row(Append(s, e), S, n, Len(s))
  <1>1. Len(s) \in Nat /\ \A i \in 1 .. Len(s) : Append(s, e)[i] = s[i]
    BY AppendProperties
  <1>2. \A i \in Len(s) - n + 1 .. Len(s) : Append(s, e)[i] \in S
    <2> TAKE i \in Len(s) - n + 1 .. Len(s)
    <2>1. i \in 1 .. Len(s)
      BY <1>1 DEF Row
    <2> QED
      BY <1>1, <2>1 DEF Row
  <1>3. n < Len(s) => Append(s, e)[Len(s) - n] \notin S
    <2>1. n < Len(s) => Len(s) - n \in 1 .. Len(s)
      BY <1>1
    <2> QED
      BY <1>1, <2>1 DEF Row
  <1> QED
    BY <1>2, <1>3 DEF Row

FailedResults    == {r \in Result : r.error}
DeniedResults    == {r \in Result : r.act = "approval_denied"}
EscalatedResults == {r \in Result : r.act = "escalate"}

\* Between pushing a result and deciding on it the counters are one behind.
Pushed  == pc \in {"ckpt", "decide"}
Decided == IF Pushed THEN Len(iters) - 1 ELSE Len(iters)

\* The index of the loop counts the results.
Lengths ==
    /\ pc \in {"idle", "restore"} => iters = <<>>
    /\ pc \in {"top"} \cup InIteration => start <= idx /\ Len(iters) = idx - start
    /\ pc = "top" => Len(iters) <= MaxIterations
    /\ pc \in InIteration => Len(iters) < MaxIterations
    /\ Pushed => /\ start <= idx /\ Len(iters) = idx - start + 1
                 /\ Len(iters) <= MaxIterations /\ iters[Len(iters)] = res

\* The counters of run() count the last results in a row, short of the limits.
Rows ==
    pc # "post" =>
        /\ Row(iters, FailedResults, errs, Decided) /\ errs < MaxConsecutiveErrors
        /\ Row(iters, DeniedResults, denied, Decided) /\ denied < DenialLimit
        /\ Row(iters, EscalatedResults, escs, Decided) /\ escs < EscalationLimit

CountInv ==
    /\ Lengths /\ Rows
    /\ pc \notin {"idle", "post"} => final = "max_iterations"
    /\ FinalStatusJustified

\* A full row is what the properties speak of, and a row short of n is not.
LEMMA RowIsLast ==
  ASSUME NEW s, NEW S, NEW n \in Nat, NEW k \in Nat, NEW m \in Nat, Row(s, S, n, k)
  PROVE  /\ n >= m => k >= m /\ \A i \in k - m + 1 .. k : s[i] \in S
         /\ n < m /\ k >= m => \E i \in k - m + 1 .. k : s[i] \notin S
  <1>1. n >= m => k >= m /\ \A i \in k - m + 1 .. k : s[i] \in S
    <2> SUFFICES ASSUME n >= m
                 PROVE  k >= m /\ \A i \in k - m + 1 .. k : s[i] \in S
      OBVIOUS
    <2>1. \A i \in k - m + 1 .. k : i \in k - n + 1 .. k
      OBVIOUS
    <2> QED
      BY <2>1 DEF Row
  <1>2. n < m /\ k >= m => \E i \in k - m + 1 .. k : s[i] \notin S
    <2> SUFFICES ASSUME n < m, k >= m
                 PROVE  \E i \in k - m + 1 .. k : s[i] \notin S
      OBVIOUS
    <2>1. k - n \in k - m + 1 .. k
      OBVIOUS
    <2> QED
      BY <2>1 DEF Row
  <1> QED
    BY <1>1, <1>2

\* The same for the three tests of the properties.
LEMMA LastAllRows ==
  ASSUME TypeOK, NEW n \in Nat, NEW m \in Nat
  PROVE  /\ Row(iters, FailedResults, n, Len(iters)) => (n >= m <=> LastAll(m, Failed))
         /\ Row(iters, DeniedResults, n, Len(iters)) => (n >= m <=> LastAll(m, Denied))
         /\ Row(iters, EscalatedResults, n, Len(iters)) => (n >= m <=> LastAll(m, Escalated))
  <1>1. iters \in Seq(Result) /\ Len(iters) \in Nat
    BY DEF TypeOK
  <1>2. \A i \in 1 .. Len(iters) : iters[i] \in Result
    BY <1>1
  <1>3. Len(iters) >= m => \A i \in Len(iters) - m + 1 .. Len(iters) : i \in 1 .. Len(iters)
    BY <1>1
  <1>4. ASSUME NEW S \in {FailedResults, DeniedResults, EscalatedResults},
               Row(iters, S, n, Len(iters))
        PROVE  n >= m <=> /\ Len(iters) >= m
                          /\ \A i \in Len(iters) - m + 1 .. Len(iters) : iters[i] \in S
    <2>1. /\ n >= m => /\ Len(iters) >= m
                       /\ \A i \in Len(iters) - m + 1 .. Len(iters) : iters[i] \in S
          /\ n < m /\ Len(iters) >= m
                => \E i \in Len(iters) - m + 1 .. Len(iters) : iters[i] \notin S
      BY <1>1, <1>4, RowIsLast
    <2>2. n >= m \/ n < m
      OBVIOUS
    <2> QED
      BY <2>1, <2>2
  <1>5. Row(iters, FailedResults, n, Len(iters)) => (n >= m <=> LastAll(m, Failed))
    BY <1>2, <1>3, <1>4 DEF LastAll, Failed, FailedResults
  <1>6. Row(iters, DeniedResults, n, Len(iters)) => (n >= m <=> LastAll(m, Denied))
    BY <1>2, <1>3, <1>4 DEF LastAll, Denied, DeniedResults
  <1>7. Row(iters, EscalatedResults, n, Len(iters)) => (n >= m <=> LastAll(m, Escalated))
    BY <1>2, <1>3, <1>4 DEF LastAll, Escalated, EscalatedResults
  <1> QED
    BY <1>5, <1>6, <1>7

\* The steps inside an iteration leave the counters and the results alone.
LEMMA CountInside ==
  ASSUME TypeOK, CountInv, pc \in {"top"} \cup InIteration, pc' \in InIteration,
         UNCHANGED loopVars, pc = "top" => ~LastIndex
  PROVE  CountInv'
  <1>1. /\ start \in Nat /\ idx \in Nat /\ MaxIterations \in Nat /\ Len(iters) \in Nat
        /\ UNCHANGED <<start, idx, errs, denied, escs, iters, final>>
    BY ConfigAssumption DEF ConfigAssumption, TypeOK, loopVars
  <1>2. Lengths'
    BY <1>1 DEF CountInv, Lengths, Pushed, InIteration, LastIndex
  <1>3. Rows'
    BY <1>1 DEF CountInv, Rows, Decided, Pushed, InIteration
  <1> QED
    BY <1>1, <1>2, <1>3 DEF CountInv, FinalStatusJustified, InIteration

\* Back between runs everything is zero.
LEMMA CountIdle ==
  ASSUME pc' = "idle", errs' = 0, denied' = 0, escs' = 0, iters' = <<>>
  PROVE  CountInv'
  <1>1. Len(iters') = 0 /\ 0 < MaxConsecutiveErrors
    BY ConfigAssumption DEF ConfigAssumption
  <1>2. Decided' = 0
    BY <1>1 DEF Decided, Pushed
  <1>3. Lengths'
    BY <1>1 DEF Lengths, Pushed, InIteration
  <1>4. \A S : Row(iters', S, 0, 0)
    BY DEF Row
  <1>5. Rows'
    BY <1>1, <1>2, <1>4 DEF Rows, DenialLimit, EscalationLimit
  <1> QED
    BY <1>3, <1>5 DEF CountInv, FinalStatusJustified

\* Nothing but the environment moved: a stop request stays, and a budget
\* that was empty was not consumed from.
LEMMA CountOutside ==
  ASSUME CountInv, UNCHANGED <<pc, loopVars, res>>, stopped => stopped',
         budget = 0 => budget' = 0
  PROVE  CountInv'
  <1>1. UNCHANGED <<pc, start, idx, errs, denied, escs, iters, final, res>>
    BY DEF loopVars
  <1>2. Lengths' /\ Rows'
    BY <1>1 DEF CountInv, Lengths, Rows, Decided, Pushed
  <1>3. FinalStatusJustified'
    BY <1>1 DEF CountInv, FinalStatusJustified, LastAll, Failed, Denied, Escalated
  <1> QED
    BY <1>1, <1>2, <1>3 DEF CountInv

LEMMA CountAccount ==
  ASSUME TypeOK, CountInv, Account
  PROVE  CountInv'
  <1>0. /\ iters \in Seq(Result) /\ res \in Result /\ Len(iters) \in Nat /\ budget \in Nat
        /\ errs \in Nat /\ denied \in Nat /\ escs \in Nat /\ start \in Nat /\ idx \in Nat
        /\ MaxIterations \in Nat
    BY ConfigAssumption DEF ConfigAssumption, TypeOK
  <1>1. /\ pc = "account" /\ UNCHANGED <<start, idx, errs, denied, escs, final, res>>
        /\ final = "max_iterations"
        /\ Len(iters) = idx - start /\ start <= idx /\ Len(iters) < MaxIterations
    BY DEF Account, CountInv, Lengths, InIteration, iterVars
  <1>2. CASE pc' = "post"
    <2>1. UNCHANGED iters /\ budget' = budget /\ budget = 0
      BY <1>0, <1>2 DEF Account, Allowed, Cost
    <2> QED
      BY <1>0, <1>1, <1>2, <2>1
         DEF CountInv, Lengths, Rows, Pushed, InIteration, FinalStatusJustified
  <1>3. CASE pc' # "post"
    <2>1. pc' \in {"ckpt", "decide"} /\ iters' = Append(iters, res)
      BY <1>3 DEF Account
    <2>2. Len(iters') = Len(iters) + 1 /\ iters'[Len(iters')] = res
      BY <1>0, <2>1, AppendProperties
    <2>3. Decided = Len(iters) /\ Decided' = Len(iters)
      BY <1>0, <1>1, <2>1, <2>2 DEF Decided, Pushed
    <2>4. Lengths'
      BY <1>0, <1>1, <2>1, <2>2 DEF Lengths, Pushed, InIteration
    <2>5. /\ Row(iters, FailedResults, errs, Len(iters)) /\ errs < MaxConsecutiveErrors
          /\ Row(iters, DeniedResults, denied, Len(iters)) /\ denied < DenialLimit
          /\ Row(iters, EscalatedResults, escs, Len(iters)) /\ escs < EscalationLimit
      BY <1>1, <2>3 DEF CountInv, Rows
    <2>6. /\ Row(iters', FailedResults, errs, Len(iters))
          /\ Row(iters', DeniedResults, denied, Len(iters))
          /\ Row(iters', EscalatedResults, escs, Len(iters))
      BY <1>0, <2>1, <2>5, RowAppend
    <2>7. Rows'
      BY <1>1, <2>3, <2>5, <2>6 DEF Rows
    <2> QED
      BY <1>1, <2>1, <2>4, <2>7 DEF CountInv, FinalStatusJustified
  <1> QED
    BY <1>2, <1>3

LEMMA CountDecide ==
  ASSUME TypeOK, CountInv, Decide
  PROVE  CountInv'
  <1>0. /\ iters \in Seq(Result) /\ res \in Result /\ Len(iters) \in Nat
        /\ errs \in Nat /\ denied \in Nat /\ escs \in Nat /\ start \in Nat /\ idx \in Nat
        /\ MaxIterations \in Nat /\ MaxConsecutiveErrors \in Nat
    BY ConfigAssumption DEF ConfigAssumption, TypeOK
  <1>1. /\ pc = "decide" /\ UNCHANGED <<start, iters, stopped>>
        /\ Len(iters) = idx - start + 1 /\ start <= idx /\ Len(iters) <= MaxIterations
        /\ iters[Len(iters)] = res /\ final = "max_iterations"
    BY DEF Decide, CountInv, Lengths, Pushed, InIteration
  <1> DEFINE k == Len(iters) - 1
  <1>2. k \in Nat /\ k + 1 = Len(iters) /\ Decided = k
    BY <1>0, <1>1 DEF Decided, Pushed
  <1>3. /\ Row(iters, FailedResults, errs, k) /\ errs < MaxConsecutiveErrors
        /\ Row(iters, DeniedResults, denied, k) /\ denied < DenialLimit
        /\ Row(iters, EscalatedResults, escs, k) /\ escs < EscalationLimit
    BY <1>1, <1>2 DEF CountInv, Rows
  <1> HIDE DEF k
  <1>4. errs' \in Nat /\ Row(iters, FailedResults, errs', Len(iters))
    <2>1. CASE res.error
      <3>1. errs' = errs + 1 /\ iters[k + 1] \in FailedResults
        BY <1>0, <1>1, <1>2, <2>1 DEF Decide, FailedResults
      <3>2. k \in Nat /\ errs \in Nat /\ Row(iters, FailedResults, errs, k)
        BY <1>0, <1>2, <1>3
      <3>3. Row(iters, FailedResults, errs + 1, k + 1)
        BY <3>1, <3>2, RowGrows
      <3> QED
        BY <1>2, <3>1, <3>2, <3>3
    <2>2. CASE ~res.error
      <3>1. errs' = 0 /\ iters[k + 1] \notin FailedResults
        BY <1>1, <1>2, <2>2 DEF Decide, FailedResults
      <3> QED
        BY <1>2, <3>1, RowBreaks
    <2> QED
      BY <2>1, <2>2
  <1>5. denied' \in Nat /\ Row(iters, DeniedResults, denied', Len(iters))
    <2>1. CASE res.act = "approval_denied"
      <3>1. denied' = denied + 1 /\ iters[k + 1] \in DeniedResults
        BY <1>0, <1>1, <1>2, <2>1 DEF Decide, CountDenied, DeniedResults
      <3>2. k \in Nat /\ denied \in Nat /\ Row(iters, DeniedResults, denied, k)
        BY <1>0, <1>2, <1>3
      <3>3. Row(iters, DeniedResults, denied + 1, k + 1)
        BY <3>1, <3>2, RowGrows
      <3> QED
        BY <1>2, <3>1, <3>2, <3>3
    <2>2. CASE res.act # "approval_denied"
      <3>1. denied' = 0 /\ iters[k + 1] \notin DeniedResults
        BY <1>1, <1>2, <2>2 DEF Decide, CountDenied, DeniedResults
      <3> QED
        BY <1>2, <3>1, RowBreaks
    <2> QED
      BY <2>1, <2>2
  <1>6. escs' \in Nat /\ Row(iters, EscalatedResults, escs', Len(iters))
    <2>1. CASE res.act = "escalate"
      <3>1. escs' = escs + 1 /\ iters[k + 1] \in EscalatedResults
        BY <1>0, <1>1, <1>2, <2>1 DEF Decide, CountEscalations, EscalatedResults
      <3>2. k \in Nat /\ escs \in Nat /\ Row(iters, EscalatedResults, escs, k)
        BY <1>0, <1>2, <1>3
      <3>3. Row(iters, EscalatedResults, escs + 1, k + 1)
        BY <3>1, <3>2, RowGrows
      <3> QED
        BY <1>2, <3>1, <3>2, <3>3
    <2>2. CASE res.act # "escalate"
      <3>1. escs' = 0 /\ iters[k + 1] \notin EscalatedResults
        BY <1>1, <1>2, <2>2 DEF Decide, CountEscalations, EscalatedResults
      <3> QED
        BY <1>2, <3>1, RowBreaks
    <2> QED
      BY <2>1, <2>2
  <1>7. DenialLimit \in Nat /\ EscalationLimit \in Nat
    BY DEF DenialLimit, EscalationLimit
  <1>8. CASE pc' = "top"
    <2>1. Verdict(errs', denied', escs') = "next" /\ idx' = idx + 1 /\ final' = final
      BY <1>8 DEF Decide
    <2>2. errs' < MaxConsecutiveErrors /\ denied' < DenialLimit /\ escs' < EscalationLimit
      BY <1>0, <1>4, <1>5, <1>6, <1>7, <2>1 DEF Verdict
    <2>3. Lengths'
      BY <1>0, <1>1, <1>8, <2>1 DEF Lengths, Pushed, InIteration
    <2>4. Decided' = Len(iters)
      BY <1>1, <1>8 DEF Decided, Pushed
    <2>5. Rows'
      BY <1>1, <1>4, <1>5, <1>6, <2>2, <2>4 DEF Rows
    <2> QED
      BY <1>1, <1>8, <2>1, <2>3, <2>5 DEF CountInv, FinalStatusJustified
  <1>9. CASE pc' # "top"
    <2>1. /\ pc' = "post" /\ final' = Verdict(errs', denied', escs') /\ final' # "next"
      BY <1>9 DEF Decide
    <2>2. /\ final' = "completed" => Confirmed
          /\ final' = "error" => errs' >= MaxConsecutiveErrors
          /\ final' = "stopped" => denied' >= DenialLimit \/ stopped
          /\ final' = "stalled" => escs' >= EscalationLimit
          /\ final' # "max_iterations"
      BY <2>1 DEF Verdict, ReportedEscalationLevel, MaxEscalationLevel
    <2>3. /\ errs' >= MaxConsecutiveErrors => LastAll(MaxConsecutiveErrors, Failed)
          /\ denied' >= DenialLimit => LastAll(DenialLimit, Denied)
          /\ escs' >= EscalationLimit => LastAll(EscalationLimit, Escalated)
      BY <1>0, <1>4, <1>5, <1>6, <1>7, LastAllRows
    <2>4. Confirmed => iters # <<>> /\ iters[Len(iters)].complete
      BY <1>0, <1>1 DEF Confirmed
    <2>5. FinalStatusJustified'
      BY <1>1, <2>2, <2>3, <2>4 DEF FinalStatusJustified, LastAll, Failed, Denied, Escalated
    <2>6. Lengths' /\ Rows'
      BY <2>1 DEF Lengths, Rows, Pushed, InIteration
    <2> QED
      BY <2>1, <2>5, <2>6 DEF CountInv
  <1> QED
    BY <1>8, <1>9

LEMMA CountStep == TypeOK /\ CountInv /\ [Next]_vars => CountInv'
  <1> SUFFICES ASSUME TypeOK, CountInv, [Next]_vars
               PROVE  CountInv'
    OBVIOUS
  <1>0. /\ start \in Nat /\ idx \in Nat /\ MaxIterations \in Nat /\ Len(iters) \in Nat
        /\ ckpt.cycle \in Nat /\ iters \in Seq(Result)
    BY ConfigAssumption DEF ConfigAssumption, TypeOK
  <1>1. CASE Run
    <2>1. /\ pc = "idle" /\ UNCHANGED <<start, idx, errs, denied, escs, iters>>
          /\ (pc' = "restore" /\ final' = "max_iterations") \/ pc' = "idle"
      BY <1>1 DEF Run
    <2>2. Decided' = Decided
      BY <2>1 DEF Decided, Pushed
    <2>3. pc # "post" /\ pc' # "post" /\ pc' \in {"idle", "restore"}
      BY <2>1
    <2>4. Rows'
      BY <2>1, <2>2, <2>3 DEF CountInv, Rows
    <2>5. Lengths'
      BY <2>1, <2>3 DEF CountInv, Lengths, Pushed, InIteration
    <2> QED
      BY <2>1, <2>3, <2>4, <2>5 DEF CountInv, FinalStatusJustified
  <1>2. CASE Restore
    <2>1. /\ pc = "restore" /\ pc' = "top" /\ idx' = start' /\ start' \in Nat
          /\ UNCHANGED <<errs, denied, escs, iters, final>>
      BY <1>0, <1>2 DEF Restore
    <2>2. iters = <<>>
      BY <2>1 DEF CountInv, Lengths
    <2>3. Len(iters') = 0 /\ Decided' = Decided
      BY <2>1, <2>2 DEF Decided, Pushed
    <2>4. Lengths'
      <3> DEFINE n == start'
      <3>0. n \in Nat /\ idx' = n
        BY <2>1
      <3> HIDE DEF n
      <3>1. n <= n /\ n - n = 0 /\ 0 <= MaxIterations
        BY <1>0, <3>0
      <3>2. start' <= idx' /\ idx' - start' = 0 /\ 0 <= MaxIterations
        BY <3>0, <3>1 DEF n
      <3> QED
        BY <2>1, <2>3, <3>2 DEF Lengths, Pushed, InIteration
    <2>5. Rows'
      BY <2>1, <2>3 DEF CountInv, Rows
    <2> QED
      BY <2>1, <2>4, <2>5 DEF CountInv, FinalStatusJustified
  <1>3. CASE LoopExit
    <2>1. /\ pc = "top" /\ pc' = "post" /\ UNCHANGED <<iters, budget, stopped, start, idx>>
          /\ LastIndex \/ stopped \/ budget = 0
          /\ final' = IF ~LastIndex /\ stopped THEN "stopped" ELSE final
          /\ final = "max_iterations"
      BY <1>3 DEF LoopExit, CountInv
    <2>2. LastIndex => Len(iters) = MaxIterations
      BY <1>0, <2>1 DEF CountInv, Lengths, LastIndex
    <2>3. FinalStatusJustified'
      BY <2>1, <2>2 DEF FinalStatusJustified
    <2>4. Lengths' /\ Rows'
      BY <2>1 DEF Lengths, Rows, Pushed, InIteration
    <2> QED
      BY <2>1, <2>3, <2>4 DEF CountInv
  <1>4. CASE LoadGoal \/ Observe \/ StateDiff \/ CalculateGap \/ ScoreDrives
             \/ CheckCompletion \/ DetectStalls \/ RunTask \/ Rejudge
    <2>1. /\ pc \in {"top"} \cup InIteration /\ pc' \in InIteration /\ UNCHANGED loopVars
          /\ pc = "top" => ~LastIndex
      BY <1>4 DEF LoadGoal, Observe, StateDiff, CalculateGap, ScoreDrives, CheckCompletion,
                  DetectStalls, RunTask, Rejudge, InIteration
    <2> QED
      BY <2>1, CountInside
  <1>5. CASE Account
    BY <1>5, CountAccount
  <1>6. CASE SaveCheckpoint
    <2>1. /\ pc = "ckpt" /\ pc' = "decide" /\ UNCHANGED <<loopVars, res>>
      BY <1>6 DEF SaveCheckpoint, iterVars
    <2>2. UNCHANGED <<start, idx, errs, denied, escs, iters, final, res>>
      BY <2>1 DEF loopVars
    <2>3. Decided' = Decided
      BY <2>1, <2>2 DEF Decided, Pushed
    <2>4. Lengths' /\ Rows'
      BY <2>1, <2>2, <2>3 DEF CountInv, Lengths, Rows, Pushed, InIteration
    <2> QED
      BY <2>1, <2>2, <2>4 DEF CountInv, FinalStatusJustified
  <1>7. CASE Decide
    BY <1>7, CountDecide
  <1>8. CASE Throw \/ PostHooks \/ Crash
    <2>1. LeaveRun
      BY <1>8 DEF Throw, PostHooks, Crash
    <2> QED
      BY <2>1, CountIdle DEF LeaveRun
  <1>9. CASE Stop \/ Reset \/ CompletedElsewhere \/ OthersConsume \/ UNCHANGED vars
    <2>1. UNCHANGED <<pc, loopVars, res>>
      BY <1>9 DEF Stop, Reset, CompletedElsewhere, OthersConsume, vars, iterVars
    <2>2. (stopped => stopped') /\ (budget = 0 => budget' = 0)
      BY <1>9 DEF Stop, Reset, CompletedElsewhere, OthersConsume, vars
    <2> QED
      BY <2>1, <2>2, CountOutside
  <1> QED
    BY <1>1, <1>2, <1>3, <1>4, <1>5, <1>6, <1>7, <1>8, <1>9 DEF Next, Loop

LEMMA CountInit == Init => CountInv
  BY CountIdle, ConfigAssumption
     DEF Init, CountInv, Lengths, Rows, Row, Decided, Pushed, InIteration,
         FinalStatusJustified, DenialLimit, EscalationLimit, ConfigAssumption

\* A run ends with the status its iterations give.
THEOREM ExitsJustified == Spec => []FinalStatusJustified
<1>1. CountInv => FinalStatusJustified
  BY DEF CountInv
<1> QED
  BY <1>1, CountInit, CountStep, TypeCorrect, PTL DEF Spec

\* A run that goes on has reached none of its limits.
THEOREM NoRunGoesOn == Spec => []NoOverrun
<1>1. TypeOK /\ CountInv => NoOverrun
  <2> SUFFICES ASSUME TypeOK, CountInv, pc = "top"
               PROVE  /\ Len(iters) = idx - start /\ Len(iters) <= MaxIterations
                      /\ ~LastAll(MaxConsecutiveErrors, Failed)
                      /\ ~LastAll(DenialLimit, Denied)
                      /\ ~LastAll(EscalationLimit, Escalated)
    BY DEF NoOverrun
  <2>1. /\ errs \in Nat /\ denied \in Nat /\ escs \in Nat /\ MaxConsecutiveErrors \in Nat
        /\ DenialLimit \in Nat /\ EscalationLimit \in Nat
    BY ConfigAssumption DEF ConfigAssumption, TypeOK, DenialLimit, EscalationLimit
  <2>2. /\ Row(iters, FailedResults, errs, Len(iters)) /\ errs < MaxConsecutiveErrors
        /\ Row(iters, DeniedResults, denied, Len(iters)) /\ denied < DenialLimit
        /\ Row(iters, EscalatedResults, escs, Len(iters)) /\ escs < EscalationLimit
    BY DEF CountInv, Rows, Decided, Pushed
  <2>3. /\ ~LastAll(MaxConsecutiveErrors, Failed)
        /\ ~LastAll(DenialLimit, Denied)
        /\ ~LastAll(EscalationLimit, Escalated)
    BY <2>1, <2>2, LastAllRows
  <2> QED
    BY <2>3 DEF CountInv, Lengths
<1> QED
  BY <1>1, CountInit, CountStep, TypeCorrect, PTL DEF Spec

-----------------------------------------------------------------------------
(* What two judgements that find everything met lead to *)

\* A goal found met and not complete, and not judged since.
WaitsAt(s, i) ==
    /\ i \in DOMAIN s /\ s[i].judged = "met" /\ ~s[i].complete
    /\ \A k \in i + 1 .. Len(s) : s[k].judged = "no"
Waits(s) == \E i \in DOMAIN s : WaitsAt(s, i)

\* MetTwiceCompletes for any sequence of results.
TwiceDone(s) ==
    \A i, j \in DOMAIN s :
        /\ i < j
        /\ s[i].judged = "met" /\ ~s[i].complete
        /\ s[j].judged = "met" /\ s[j].gap = "zero"
        /\ \A k \in i + 1 .. j - 1 : s[k].judged = "no"
        => s[j].complete

\* While a goal waits for its second judgement the streak is 1.  A result that
\* was judged met is complete or begins such a wait, and completes one if it had
\* no gap: with a gap it may have been judged twice.
StreakWaits ==
    /\ pc # "post" /\ res.judged = "no" /\ Waits(iters) => streak = 1
    /\ pc \in {"ckpt", "decide"} /\ Waits(iters) => streak = 1
    /\ pc \in {"stall", "task", "rejudge", "account"} =>
         /\ res.judged = "met" /\ ~res.complete => streak = 1
         /\ res.judged = "met" /\ res.gap = "zero" /\ Waits(iters) => res.complete
    /\ pc \in {"task", "rejudge"} => res.gap # "zero"

MetInv == StreakWaits /\ TwiceDone(iters)

LEMMA WaitsAppend ==
  ASSUME NEW s \in Seq(Result), NEW e \in Result, Waits(Append(s, e))
  PROVE  (e.judged = "met" /\ ~e.complete) \/ (e.judged = "no" /\ Waits(s))
  <1>1. /\ Append(s, e) \in Seq(Result) /\ Len(Append(s, e)) = Len(s) + 1
        /\ Append(s, e)[Len(s) + 1] = e
        /\ \A i \in 1 .. Len(s) : Append(s, e)[i] = s[i]
        /\ Len(s) \in Nat /\ DOMAIN s = 1 .. Len(s)
        /\ DOMAIN Append(s, e) = 1 .. Len(s) + 1
    BY AppendProperties
  <1>2. PICK i \in 1 .. Len(s) + 1 : WaitsAt(Append(s, e), i)
    BY <1>1 DEF Waits
  <1>3. CASE i = Len(s) + 1
    BY <1>1, <1>2, <1>3 DEF WaitsAt
  <1>4. CASE i \in 1 .. Len(s)
    <2>1. e.judged = "no"
      BY <1>1, <1>2, <1>4 DEF WaitsAt
    <2>2. WaitsAt(s, i)
      BY <1>1, <1>2, <1>4 DEF WaitsAt
    <2> QED
      BY <1>1, <1>4, <2>1, <2>2 DEF Waits
  <1> QED
    BY <1>1, <1>2, <1>3, <1>4

LEMMA TwiceAppend ==
  ASSUME NEW s \in Seq(Result), NEW e \in Result, TwiceDone(s),
         Waits(s) /\ e.judged = "met" /\ e.gap = "zero" => e.complete
  PROVE  TwiceDone(Append(s, e))
  <1>1. /\ Append(s, e)[Len(s) + 1] = e
        /\ \A i \in 1 .. Len(s) : Append(s, e)[i] = s[i]
        /\ Len(s) \in Nat /\ DOMAIN s = 1 .. Len(s)
        /\ DOMAIN Append(s, e) = 1 .. Len(s) + 1
    BY AppendProperties
  <1> SUFFICES ASSUME NEW i \in 1 .. Len(s) + 1, NEW j \in 1 .. Len(s) + 1, i < j,
                      Append(s, e)[i].judged = "met", ~Append(s, e)[i].complete,
                      Append(s, e)[j].judged = "met", Append(s, e)[j].gap = "zero",
                      \A k \in i + 1 .. j - 1 : Append(s, e)[k].judged = "no"
               PROVE  Append(s, e)[j].complete
    BY <1>1 DEF TwiceDone
  <1>2. i \in 1 .. Len(s) /\ s[i].judged = "met" /\ ~s[i].complete
    BY <1>1
  <1>3. \A k \in i + 1 .. j - 1 : k \in 1 .. Len(s) /\ s[k].judged = "no"
    BY <1>1, <1>2
  <1>4. CASE j \in 1 .. Len(s)
    <2>1. s[j].judged = "met" /\ s[j].gap = "zero" /\ Append(s, e)[j] = s[j]
      BY <1>1, <1>4
    <2> QED
      BY <1>1, <1>2, <1>3, <1>4, <2>1 DEF TwiceDone
  <1>5. CASE j = Len(s) + 1
    <2>1. WaitsAt(s, i)
      BY <1>1, <1>2, <1>3, <1>5 DEF WaitsAt
    <2> QED
      BY <1>1, <1>2, <1>5, <2>1 DEF Waits
  <1> QED
    BY <1>1, <1>4, <1>5

\* What a judgement makes of the streak and of the result.
LEMMA StreakJudged ==
  ASSUME TypeOK, NEW g \in GoalRec, IsGoalComplete(g)
  PROVE  /\ res'.judged \in {"met", "unmet"} /\ res'.gap = res.gap
         /\ res'.judged = "met" /\ ~res'.complete => streak' = 1
         /\ res'.judged = "met" /\ streak = 1 => res'.complete
         /\ res'.judged = "met" <=> AllMet(g)
         /\ res'.complete => res'.judged = "met"
         /\ res'.skipped = res.skipped
  <1> DEFINE met  == AllMet(g)
             done == met /\ StreakConfirms(streak + 1)
  <1>1. streak' = IF met /\ Dims # {} /\ ~done THEN streak + 1 ELSE 0
    BY DEF IsGoalComplete
  <1>2. /\ res'.complete <=> (done \/ Dims = {})
        /\ res'.judged = IF met THEN "met" ELSE "unmet"
        /\ res'.gap = res.gap /\ res'.skipped = res.skipped
    BY DEF IsGoalComplete, TypeOK, Result
  <1>3. streak \in 0 .. 1
    BY DEF TypeOK
  <1>4. Dims = {} => met
    BY DEF AllMet, GapZero
  <1>5. done <=> met /\ streak = 1
    BY <1>3 DEF StreakConfirms
  <1>6. done \in BOOLEAN /\ met \in BOOLEAN
    BY DEF AllMet
  <1> HIDE DEF met, done
  <1>7. AllMet(g) = met
    BY DEF met
  <1> QED
    BY <1>1, <1>2, <1>3, <1>4, <1>5, <1>6, <1>7

\* Outside a judgement and the end of an iteration, nothing of it moves.
LEMMA MetStays ==
  ASSUME StreakWaits, TwiceDone(iters), UNCHANGED <<iters, streak>>,
         res'.judged = res.judged, res'.complete = res.complete, res'.gap = res.gap,
         \/ pc' = pc
         \/ pc' \in {"task", "account"} /\ pc \in {"stall", "task", "rejudge"}
         \/ pc' = "rejudge" /\ pc = "task"
         \/ pc' = "decide" /\ pc = "ckpt"
         \/ pc' = "post",
         pc' \in {"task", "rejudge"} => res.gap # "zero"
  PROVE  MetInv'
  BY DEF MetInv, StreakWaits

\* A result that has not been judged yet waits for what its goal waited for.
LEMMA MetUnjudged ==
  ASSUME MetInv, UNCHANGED <<iters, streak>>, pc # "post",
         res.judged = "no", res'.judged = "no", pc' \notin {"task", "rejudge"},
         pc' \in {"ckpt", "decide"} => pc \in {"ckpt", "decide"}
  PROVE  MetInv'
  BY DEF MetInv, StreakWaits

LEMMA MetEmpty ==
  ASSUME iters' = <<>>, res' = EmptyResult, pc' \in {"idle", "restore"}
  PROVE  MetInv'
  BY DEF MetInv, StreakWaits, TwiceDone, Waits, EmptyResult

LEMMA MetStep == TypeOK /\ ConfirmInv /\ MetInv /\ [Next]_vars => MetInv'
  <1> SUFFICES ASSUME TypeOK, ConfirmInv, MetInv, [Next]_vars
               PROVE  MetInv'
    OBVIOUS
  <1>0. /\ res \in Result /\ EmptyResult \in Result /\ iters \in Seq(Result)
        /\ EmptyResult.judged = "no"
        /\ pc \in {"idle", "restore", "top", "observe", "diff", "gap", "drive", "judge"}
             => res.judged = "no"
    BY EmptyResultType DEF TypeOK, ConfirmInv, NotYetComplete, Before, EmptyResult
  <1>1. CASE Run
    BY <1>0, <1>1, MetUnjudged DEF Run
  <1>2. CASE Restore \/ LoopExit \/ Observe
    <2>1. /\ UNCHANGED <<iters, streak, res>> /\ pc \in {"restore", "top", "observe"}
          /\ pc' \in {"top", "post", "diff", "gap"}
      BY <1>2 DEF Restore, LoopExit, Observe, loopVars, iterVars
    <2> QED
      BY <1>0, <2>1, MetUnjudged
  <1>3. CASE Throw \/ PostHooks \/ Crash
    <2>1. iters' = <<>> /\ res' = EmptyResult /\ pc' = "idle"
      BY <1>3 DEF Throw, PostHooks, Crash, LeaveRun
    <2> QED
      BY <2>1, MetEmpty
  <1>4. CASE LoadGoal
    <2>1. res' = EmptyResult \/ res' = [EmptyResult EXCEPT !.error = TRUE]
      BY <1>4 DEF LoadGoal
    <2>2. res'.judged = "no"
      BY <1>0, <2>1 DEF EmptyResult
    <2>3. UNCHANGED <<iters, streak>> /\ pc = "top" /\ pc' \in {"observe", "account"}
      BY <1>4 DEF LoadGoal, loopVars
    <2> QED
      BY <1>0, <2>2, <2>3, MetUnjudged
  <1>5. CASE StateDiff \/ CalculateGap \/ ScoreDrives
    <2>1. /\ UNCHANGED <<iters, streak>> /\ pc \in {"diff", "gap", "drive"}
          /\ pc' \in {"gap", "account", "judge", "drive"}
      BY <1>5 DEF StateDiff, CalculateGap, ScoreDrives, loopVars
    <2>2. res'.judged = res.judged
      BY <1>0, <1>5 DEF StateDiff, CalculateGap, ScoreDrives, Result
    <2> QED
      BY <1>0, <2>1, <2>2, MetUnjudged
  <1>6. CASE CheckCompletion
    <2>1. pc = "judge" /\ UNCHANGED iters /\ res.judged = "no"
      BY <1>0, <1>6 DEF CheckCompletion, loopVars
    <2>2. CASE IsGoalComplete(view) /\ pc' = "stall"
      <3>1. /\ res'.judged \in {"met", "unmet"} /\ res'.gap = res.gap
            /\ res'.judged = "met" /\ ~res'.complete => streak' = 1
            /\ res'.judged = "met" /\ streak = 1 => res'.complete
        BY <2>2, StreakJudged DEF TypeOK
      <3> QED
        BY <2>1, <2>2, <3>1 DEF MetInv, StreakWaits
    <2>3. CASE res' = [res EXCEPT !.error = TRUE] /\ pc' = "account" /\ UNCHANGED streak
      <3>1. res'.judged = res.judged
        BY <1>0, <2>3 DEF Result
      <3> QED
        BY <2>1, <2>3, <3>1, MetUnjudged
    <2> QED
      BY <1>6, <2>2, <2>3 DEF CheckCompletion
  <1>7. CASE DetectStalls
    BY <1>7, MetStays DEF DetectStalls, SkipsTask, MetInv, loopVars, iterVars
  <1>8. CASE RunTask
    <2>1. /\ pc = "task" /\ pc' \in {"account", "rejudge"} /\ UNCHANGED <<iters, streak>>
          /\ res.gap # "zero"
      BY <1>8 DEF RunTask, loopVars, MetInv, StreakWaits
    <2>2. res'.judged = res.judged /\ res'.complete = res.complete /\ res'.gap = res.gap
      <3>1. CASE res' = [res EXCEPT !.error = TRUE]
        BY <1>0, <3>1 DEF Result
      <3>2. CASE res' # [res EXCEPT !.error = TRUE]
        <4>1. PICK a \in Action : res' = [res EXCEPT !.act = a]
          BY <1>8, <3>2 DEF RunTask, Action
        <4> QED
          BY <1>0, <4>1 DEF Result
      <3> QED
        BY <3>1, <3>2
    <2> QED
      BY <2>1, <2>2, MetStays DEF MetInv
  <1>9. CASE Rejudge
    <2>1. pc = "rejudge" /\ pc' = "account" /\ UNCHANGED iters /\ res.gap # "zero"
      BY <1>9 DEF Rejudge, loopVars, MetInv, StreakWaits
    <2>2. CASE IsGoalComplete(goal)
      <3>1. /\ res'.judged \in {"met", "unmet"} /\ res'.gap = res.gap
            /\ res'.judged = "met" /\ ~res'.complete => streak' = 1
        BY <2>2, StreakJudged DEF TypeOK
      <3> QED
        BY <2>1, <2>2, <3>1 DEF MetInv, StreakWaits
    <2>3. CASE res' = [res EXCEPT !.error = TRUE] /\ UNCHANGED streak
      <3>1. res'.judged = res.judged /\ res'.complete = res.complete /\ res'.gap = res.gap
        BY <1>0, <2>3 DEF Result
      <3> QED
        BY <2>1, <2>3, <3>1, MetStays DEF MetInv
    <2> QED
      BY <1>9, <2>2, <2>3 DEF Rejudge
  <1>10. CASE Account
    <2>1. pc = "account" /\ UNCHANGED <<streak, res>>
      BY <1>10 DEF Account, iterVars
    <2>2. CASE pc' = "post" /\ UNCHANGED iters
      BY <2>1, <2>2, MetStays DEF MetInv
    <2>3. CASE pc' \in {"ckpt", "decide"} /\ iters' = Append(iters, res)
      <3>1. TwiceDone(iters')
        BY <1>0, <2>1, <2>3, TwiceAppend DEF MetInv, StreakWaits
      <3>2. Waits(iters') => \/ res.judged = "met" /\ ~res.complete
                             \/ res.judged = "no" /\ Waits(iters)
        BY <1>0, <2>3, WaitsAppend
      <3>3. Waits(iters') => streak = 1
        BY <2>1, <3>2 DEF MetInv, StreakWaits
      <3> QED
        BY <2>1, <2>3, <3>1, <3>3 DEF MetInv, StreakWaits
    <2> QED
      BY <1>10, <2>2, <2>3 DEF Account
  <1>11. CASE SaveCheckpoint
    BY <1>11, MetStays DEF SaveCheckpoint, MetInv, loopVars, iterVars
  <1>12. CASE Decide
    <2>1. /\ pc = "decide" /\ pc' \in {"top", "post"} /\ UNCHANGED <<iters, streak>>
          /\ res' = EmptyResult
      BY <1>12 DEF Decide
    <2> QED
      BY <1>0, <2>1 DEF MetInv, StreakWaits
  <1>13. CASE Stop \/ Reset \/ CompletedElsewhere \/ OthersConsume \/ UNCHANGED vars
    <2>1. UNCHANGED <<pc, iters, streak, res>>
      BY <1>13 DEF Stop, Reset, CompletedElsewhere, OthersConsume, vars, loopVars, iterVars
    <2> QED
      BY <2>1, MetStays DEF MetInv, StreakWaits
  <1> QED
    BY <1>1, <1>2, <1>3, <1>4, <1>5, <1>6, <1>7, <1>8, <1>9, <1>10, <1>11, <1>12, <1>13
       DEF Next, Loop

\* Two judgements in a row that find everything met complete the goal.
THEOREM SecondJudgementCompletes == Spec => []MetTwiceCompletes
<1>1. Init => MetInv
  BY MetEmpty DEF Init, MetInv, StreakWaits, TwiceDone, Waits
<1>2. TypeOK /\ ConfirmInv /\ MetInv /\ [Next]_vars => MetInv'
  BY MetStep
<1>3. MetInv => MetTwiceCompletes
  BY DEF MetInv, TwiceDone, MetTwiceCompletes
<1> QED
  BY <1>1, <1>2, <1>3, TypeCorrect, ConfirmAlways, PTL DEF Spec

-----------------------------------------------------------------------------
(* What a goal is marked completed for *)

\* Complete is what the judge said, or what another process did before the
\* iteration was skipped.
Justified(r) == r.complete => \/ r.judged = "met"
                              \/ r.skipped /\ edits > 0

SeenInv ==
    /\ pc # "idle" /\ goal.status = "completed" => edits > 0
    /\ Justified(res)
    /\ \A i \in DOMAIN iters : Justified(iters[i])

\* Only the hooks after the loop and other processes complete a goal.
LEMMA WhoCompletes ==
  ASSUME TypeOK, [Next]_vars, goal.status = "active", goal'.status = "completed"
  PROVE  PostHooks \/ (CompletedElsewhere /\ edits' = edits + 1)
  <1>0. goal \in GoalRec /\ ckpt \in [cycle : Nat, val : [Dims -> Value]]
    BY DEF TypeOK
  <1>1. ~Restore
    <2>1. Restored(goal, ckpt).status = goal.status
      BY <1>0 DEF Restored, GoalRec
    <2> QED
      BY <2>1 DEF Restore
  <1>2. ~Observe /\ ~RunTask
    BY <1>0, RemeasuredType DEF Observe, RunTask
  <1>3. ~Reset
    BY ClearedType DEF Reset
  <1>4. goal' # goal
    OBVIOUS
  <1> QED
    BY <1>1, <1>2, <1>3, <1>4
       DEF Next, Loop, Run, Throw, LoopExit, LoadGoal, StateDiff, CalculateGap, ScoreDrives,
           CheckCompletion, DetectStalls, Rejudge, Account, SaveCheckpoint, Decide, Stop, Crash,
           OthersConsume, CompletedElsewhere, vars, disk

\* Steps that leave complete, judged and skipped of the result alone.
LEMMA SeenStays ==
  ASSUME TypeOK, SeenInv, UNCHANGED iters, edits' = edits \/ edits' = edits + 1,
         Justified(res) => Justified(res)',
         pc' # "idle" /\ goal'.status = "completed" => edits' > 0
  PROVE  SeenInv'
  <1>1. edits \in Nat /\ edits' \in Nat /\ edits' >= edits
    BY DEF TypeOK
  <1>2. \A r : Justified(r) => (r.complete => r.judged = "met" \/ (r.skipped /\ edits' > 0))
    BY <1>1 DEF Justified
  <1> QED
    BY <1>2 DEF SeenInv, Justified

LEMMA SeenStep == TypeOK /\ ConfirmInv /\ SeenInv /\ [Next]_vars => SeenInv'
  <1> SUFFICES ASSUME TypeOK, ConfirmInv, SeenInv, [Next]_vars
               PROVE  SeenInv'
    OBVIOUS
  <1>0. /\ res \in Result /\ iters \in Seq(Result) /\ edits \in Nat
        /\ goal \in GoalRec /\ ckpt \in [cycle : Nat, val : [Dims -> Value]]
        /\ ~EmptyResult.complete
    BY DEF TypeOK, EmptyResult
  <1>1. pc # "idle" /\ goal.status = "completed" => edits > 0
    BY DEF SeenInv
  <1>2. CASE Run
    <2>1. UNCHANGED <<iters, edits, res, goal>> /\ (pc' # "idle" => goal.status = "active")
      BY <1>2 DEF Run, disk
    <2> QED
      BY <2>1, SeenStays DEF Justified
  <1>3. CASE Restore \/ Observe
    <2>1. goal'.status = goal.status
      <3>1. Restored(goal, ckpt).status = goal.status
        BY <1>0 DEF Restored, GoalRec
      <3> QED
        BY <1>0, <1>3, <3>1, RemeasuredType DEF Restore, Observe
    <2>2. UNCHANGED <<iters, edits, res>> /\ pc # "idle"
      BY <1>3 DEF Restore, Observe, loopVars, iterVars, bounds
    <2> QED
      BY <1>1, <2>1, <2>2, SeenStays DEF Justified
  <1>4. CASE Throw \/ PostHooks \/ Crash
    <2>1. iters' = <<>> /\ res' = EmptyResult /\ pc' = "idle" /\ edits' = edits
      BY <1>4 DEF Throw, PostHooks, Crash, LeaveRun, bounds
    <2> QED
      BY <1>0, <2>1 DEF SeenInv, Justified
  <1>5. CASE LoadGoal
    <2>1. res' = EmptyResult \/ res' = [EmptyResult EXCEPT !.error = TRUE]
      BY <1>5 DEF LoadGoal
    <2>2. ~res'.complete
      BY <2>1 DEF EmptyResult
    <2>3. UNCHANGED <<iters, edits, goal>> /\ pc # "idle"
      BY <1>5 DEF LoadGoal, loopVars, bounds, disk
    <2> QED
      BY <1>1, <2>2, <2>3, SeenStays DEF Justified
  <1>6. CASE StateDiff
    <2>1. /\ UNCHANGED <<iters, edits, goal>> /\ pc = "diff"
          /\ \/ res' = res
             \/ res' = [res EXCEPT !.skipped = TRUE, !.complete = (goal.status = "completed")]
      BY <1>6 DEF StateDiff, loopVars, bounds, disk
    <2>2. res'.complete => (res' = res \/ (res'.skipped /\ goal.status = "completed"))
      BY <1>0, <2>1 DEF Result
    <2>3. Justified(res) => Justified(res)'
      BY <1>1, <2>1, <2>2 DEF Justified
    <2> QED
      BY <1>1, <2>1, <2>3, SeenStays
  <1>7. CASE CalculateGap \/ ScoreDrives \/ RunTask
    <2>1. res'.judged = res.judged /\ res'.complete = res.complete /\ res'.skipped = res.skipped
      <3>1. CASE RunTask /\ res' # [res EXCEPT !.error = TRUE]
        <4>1. PICK a \in Action : res' = [res EXCEPT !.act = a]
          BY <3>1 DEF RunTask, Action
        <4> QED
          BY <1>0, <4>1 DEF Result
      <3>2. CASE ~(RunTask /\ res' # [res EXCEPT !.error = TRUE])
        BY <1>0, <1>7, <3>2 DEF CalculateGap, ScoreDrives, Result
      <3> QED
        BY <3>1, <3>2
    <2>2. goal'.status = goal.status
      BY <1>0, <1>7, RemeasuredType DEF CalculateGap, ScoreDrives, RunTask, disk
    <2>3. UNCHANGED <<iters, edits>> /\ pc # "idle"
      BY <1>7 DEF CalculateGap, ScoreDrives, RunTask, loopVars, bounds
    <2> QED
      BY <1>1, <2>1, <2>2, <2>3, SeenStays DEF Justified
  <1>8. CASE CheckCompletion \/ Rejudge
    <2>1. UNCHANGED <<iters, edits, goal>> /\ pc # "idle"
      BY <1>8 DEF CheckCompletion, Rejudge, loopVars, bounds, disk
    <2>2. Justified(res) => Justified(res)'
      <3>1. CASE IsGoalComplete(view) \/ IsGoalComplete(goal)
        <4>1. res'.complete => res'.judged = "met"
          BY <3>1, StreakJudged DEF TypeOK
        <4> QED
          BY <4>1 DEF Justified
      <3>2. CASE res' = [res EXCEPT !.error = TRUE]
        <4>1. res'.judged = res.judged /\ res'.complete = res.complete /\ res'.skipped = res.skipped
          BY <1>0, <3>2 DEF Result
        <4> QED
          BY <2>1, <4>1 DEF Justified
      <3> QED
        BY <1>8, <3>1, <3>2 DEF CheckCompletion, Rejudge
    <2> QED
      BY <1>1, <2>1, <2>2, SeenStays
  <1>9. CASE Account
    <2>1. /\ UNCHANGED <<edits, goal, res>> /\ pc # "idle"
          /\ iters' = iters \/ iters' = Append(iters, res)
      BY <1>9 DEF Account, iterVars, bounds, disk
    <2>2. \A i \in DOMAIN iters' : iters'[i] = res \/ (i \in DOMAIN iters /\ iters'[i] = iters[i])
      BY <1>0, <2>1, AppendProperties
    <2> QED
      BY <1>1, <2>1, <2>2 DEF SeenInv, Justified
  <1>10. CASE LoopExit \/ DetectStalls \/ SaveCheckpoint
    <2>1. UNCHANGED <<iters, edits, goal, res>> /\ pc # "idle"
      BY <1>10 DEF LoopExit, DetectStalls, SaveCheckpoint, loopVars, iterVars, bounds, disk
    <2> QED
      BY <1>1, <2>1, SeenStays DEF Justified
  <1>11. CASE Decide
    <2>1. UNCHANGED <<iters, edits, goal>> /\ pc # "idle" /\ ~res'.complete
      BY <1>0, <1>11 DEF Decide, bounds, disk
    <2> QED
      BY <1>1, <2>1, SeenStays DEF Justified
  <1>12. CASE Stop \/ OthersConsume \/ UNCHANGED vars
    <2>1. UNCHANGED <<pc, iters, edits, goal, res>>
      BY <1>12 DEF Stop, OthersConsume, vars, loopVars, iterVars, bounds, disk
    <2> QED
      BY <1>1, <2>1, SeenStays DEF Justified
  <1>13. CASE Reset \/ CompletedElsewhere
    <2>1. UNCHANGED <<pc, iters, res>> /\ edits' = edits + 1
      BY <1>13 DEF Reset, CompletedElsewhere, loopVars, iterVars
    <2>2. edits' > 0 /\ (Justified(res) => Justified(res)')
      BY <1>0, <2>1 DEF Justified
    <2> QED
      BY <2>1, <2>2, SeenStays
  <1> QED
    BY <1>2, <1>3, <1>4, <1>5, <1>6, <1>7, <1>8, <1>9, <1>10, <1>11, <1>12, <1>13
       DEF Next, Loop

\* A goal is marked completed only after an iteration that saw it complete.
THEOREM CompletedAsSeen == Spec => CompletedOnlyWhenSeen
<1>1. Init => SeenInv
  BY ClearedType DEF Init, SeenInv, Justified, EmptyResult
<1>2. TypeOK /\ ConfirmInv /\ SeenInv /\ [Next]_vars => SeenInv'
  BY SeenStep
<1>3. TypeOK /\ CountInv /\ SeenInv /\ [Next]_vars
        => [goal.status = "active" /\ goal'.status = "completed" /\ edits' = edits
             => /\ iters # <<>> /\ ~DryRun
                /\ \/ iters[Len(iters)].complete /\ iters[Len(iters)].judged = "met"
                   \/ iters[Len(iters)].skipped /\ edits > 0]_vars
  <2> SUFFICES ASSUME TypeOK, CountInv, SeenInv, [Next]_vars, goal.status = "active",
                      goal'.status = "completed", edits' = edits
               PROVE  /\ iters # <<>> /\ ~DryRun
                      /\ \/ iters[Len(iters)].complete /\ iters[Len(iters)].judged = "met"
                         \/ iters[Len(iters)].skipped /\ edits > 0
    OBVIOUS
  <2>1. iters \in Seq(Result) /\ edits \in Nat
    BY DEF TypeOK
  <2>2. PostHooks
    BY <2>1, WhoCompletes
  <2>3. pc = "post" /\ final = "completed" /\ ~DryRun
    BY <2>2 DEF PostHooks, Persists
  <2>4. iters # <<>> /\ iters[Len(iters)].complete
    BY <2>3 DEF CountInv, FinalStatusJustified
  <2>5. Len(iters) \in DOMAIN iters
    BY <2>1, <2>4
  <2>6. Justified(iters[Len(iters)])
    BY <2>5 DEF SeenInv
  <2> QED
    BY <2>3, <2>4, <2>6 DEF Justified
<1> QED
  BY <1>1, <1>2, <1>3, CountInit, CountStep, TypeCorrect, ConfirmAlways, PTL
     DEF Spec, CompletedOnlyWhenSeen
=============================================================================
