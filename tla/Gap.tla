-------------------------------- MODULE Gap ---------------------------------
(***************************************************************************)
(* What an iteration works on: the gap of every dimension and of the goal  *)
(* (drive/gap-calculator.ts), its drive scores (drive/drive-scorer.ts) and *)
(* the dimension a task is aimed at (execution/dimension-selector.ts), as  *)
(* phases 3 and 4 of the loop and the task cycle call them; and, computed  *)
(* apart from them, whether a dimension is met (drive/satisficing-judge.ts)*)
(*                                                                         *)
(* Values are whole, fractions in parts of Unit.  Decay and urgency, the   *)
(* exponentials of a time, are tables in hundredths and tenths, the time   *)
(* in days and in halves of the deadline horizon.                          *)
(*                                                                         *)
(* Left out: opportunities, as buildDriveContext() names none; thresholds  *)
(* below zero and ranges upside down, for which the gap is not a distance  *)
(* (README).                                                               *)
(***************************************************************************)
EXTENDS Integers, FiniteSets, FiniteSetsExt

CONSTANTS Unit,        \* what 1.0 is
          Subjects,    \* the dimension under study: records of Dimensions
          Companions,  \* the dimensions it is measured with
          Deadlines,   \* halves of the horizon left; below 0 overdue
          NoDeadline

Values == [kind : {"number"}, n : Int] \cup [kind : {"null", "word", "blank"}, n : {0}]
Dimensions ==
    [threshold : [type : {"min", "max", "range", "present", "match"},
                  low : Nat, high : Nat, value : Values],
     value : Values, confidence : 0 .. Unit, weight : Nat, days : Nat,
     tier : {"mechanical", "independent_review", "self_report"}]

\* The parts are small enough: what a value is short of by one is not rounded
\* away, neither in the gap of a dimension nor in the mean of two.
ASSUME GapAssumption ==
    /\ Unit \in Nat /\ Unit >= 2
    /\ Companions # {} /\ Subjects \cup Companions \subseteq Dimensions
    /\ \A d \in Subjects \cup Companions :
         LET t == d.threshold
         IN CASE t.type = "min" -> 2 * t.low <= Unit
              [] t.type = "max" -> 2 * t.high <= Unit
              [] t.type = "range" -> t.low <= t.high /\ t.high - t.low <= Unit
              [] OTHER -> TRUE
    /\ Deadlines \subseteq Int /\ NoDeadline \notin Deadlines

VARIABLES gapDims,  \* the dimensions of the goal
          setting,  \* deadline and gap_aggregation
          turn      \* the iteration: phase, gaps, scores, target

gapVars == <<gapDims, setting, turn>>

DimNames == {1, 2}

GapInit ==
    /\ gapDims \in {[n \in DimNames |-> IF n = 1 THEN s ELSE c] : s \in Subjects, c \in Companions}
    /\ setting \in [deadline : Deadlines \cup {NoDeadline}, method : {"max", "weighted_avg", "sum"}]
    /\ turn = [phase |-> "observed", gaps |-> [n \in DimNames |-> 0],
               scores |-> [n \in DimNames |-> 0], target |-> 0]

-----------------------------------------------------------------------------
\* A value that is not a number counts as 0: toNumber(); isTruthy().
IsNull(v) == v.kind = "null"
IsTruthy(v) == v.kind = "word" \/ (v.kind = "number" /\ v.n # 0)
Above(x, y) == Max({0, x - y})

ComputeRawGap(v, t) ==
    CASE t.type = "min"   -> IF IsNull(v) THEN t.low ELSE Above(t.low, v.n)
      [] t.type = "max"   -> IF IsNull(v) THEN Max({t.high, 1}) ELSE Above(v.n, t.high)
      [] t.type = "range" -> IF IsNull(v) THEN t.high - t.low
                             ELSE Above(t.low, v.n) + Above(v.n, t.high)
      [] t.type = "present" -> IF IsTruthy(v) THEN 0 ELSE 1
      [] t.type = "match" -> IF v = t.value THEN 0 ELSE 1

OneIf(p) == IF p THEN Unit ELSE 0
PerUnit(raw, whole) == (raw * Unit) \div whole

MutUnknownGap(raw) == PerUnit(raw, 1)
UnknownGap(raw) == Unit
NormalizeGap(raw, t, v) ==
    IF IsNull(v) THEN UnknownGap(raw)
    ELSE CASE t.type = "min" -> IF t.low = 0 THEN OneIf(raw > 0) ELSE PerUnit(raw, t.low)
           [] t.type = "max" -> IF t.high = 0 THEN OneIf(raw > 0) ELSE PerUnit(raw, t.high)
           [] t.type = "range" -> IF t.high = t.low THEN OneIf(raw > 0)
                                  ELSE Min({Unit, PerUnit(2 * raw, t.high - t.low)})
           [] t.type \in {"present", "match"} -> OneIf(raw > 0)

\* The less sure, the larger; not for a value that is not known at all.
MutApplyConfidenceWeight(gap, conf, weight, unknown) == Min({Unit, (gap * conf * weight) \div Unit})
ApplyConfidenceWeight(gap, conf, weight, unknown) ==
    IF unknown THEN gap ELSE Min({Unit, (gap * (Unit + (Unit - conf) * weight)) \div Unit})

CalculateDimensionGap(d) ==
    ApplyConfidenceWeight(NormalizeGap(ComputeRawGap(d.value, d.threshold), d.threshold, d.value),
                          d.confidence, d.weight, IsNull(d.value))

AggregateGaps(gaps, method) ==
    LET total == gaps[1] + gaps[2]
    IN CASE method = "max" -> Max({gaps[n] : n \in DimNames})
         [] method = "weighted_avg" -> total \div Cardinality(DimNames)
         [] method = "sum" -> total

\* Phase 3: a goal without a gap gets no task in this iteration, and the judge
\* decides.  The history of gaps may fail to be written.
CalculateGap ==
    /\ turn.phase = "observed"
    /\ LET gaps == [n \in DimNames |-> CalculateDimensionGap(gapDims[n])]
       IN turn' \in {[turn EXCEPT !.phase = "failed"],
                     [turn EXCEPT !.gaps = gaps,
                        !.phase = IF AggregateGaps(gaps, setting.method) = 0
                                  THEN "skip" ELSE "gap"]}
    /\ UNCHANGED <<gapDims, setting>>

-----------------------------------------------------------------------------
Decay(days) == <<30, 74, 91>>[Min({days, 2}) + 1]
Urgency ==
    IF setting.deadline = NoDeadline THEN 0
    ELSE <<201, 45, 10>>[Max({0, Min({setting.deadline, 2})}) + 1]
UrgencyOverride == 100

\* combineDriveScores(), in thousandths.
Score(gap, days) ==
    LET dissatisfaction == gap * Decay(days) * 10
        deadline == gap * Urgency * 100
    IN IF Urgency >= UrgencyOverride THEN deadline ELSE Max({dissatisfaction, deadline})

\* Phase 4; a gap of knowledge makes a task of its own, if anything is known.
ScoreDrives ==
    /\ turn.phase = "gap"
    /\ turn' \in {[turn EXCEPT !.phase = "failed"],
                  [turn EXCEPT !.phase = "scored",
                     !.scores = [n \in DimNames |-> Score(turn.gaps[n], gapDims[n].days)]]}
                 \cup IF \A n \in DimNames : gapDims[n].confidence = 0 THEN {}
                      ELSE {[turn EXCEPT !.phase = "acquire"]}
    /\ UNCHANGED <<gapDims, setting>>

\* CONFIDENCE_WEIGHTS, in tenths; for a tier it does not list, the least.
MutTierWeight(tier) == CASE tier = "mechanical" -> 10 [] tier = "independent_review" -> 7 [] OTHER -> 0
TierWeight(tier) == CASE tier = "mechanical" -> 10 [] tier = "independent_review" -> 7 [] OTHER -> 3

\* rankDimensions(): the highest score, of equals the first by name.
FirstBy(score) ==
    CHOOSE n \in DimNames : \A m \in DimNames \ {n} : score[n] > score[m] \/ (score[n] = score[m] /\ n < m)

SelectTargetDimension ==
    /\ turn.phase = "scored"
    /\ turn' = [turn EXCEPT !.phase = "task",
                  !.target = FirstBy([n \in DimNames |-> turn.scores[n] * TierWeight(gapDims[n].tier)])]
    /\ UNCHANGED <<gapDims, setting>>

GapNext == CalculateGap \/ ScoreDrives \/ SelectTargetDimension

-----------------------------------------------------------------------------
\* The judge's own comparison of value and threshold: isSatisfiedRaw().
MutIsSatisfiedRaw(d) ==
    LET v == d.value t == d.threshold
    IN ~IsNull(v) /\ CASE t.type = "min" -> v.n > t.low
                       [] t.type = "max" -> v.n <= t.high
                       [] OTHER -> ComputeRawGap(v, t) = 0
IsSatisfiedRaw(d) ==
    LET v == d.value t == d.threshold
    IN ~IsNull(v) /\ CASE t.type = "min" -> v.n >= t.low
                       [] t.type = "max" -> v.n <= t.high
                       [] t.type = "range" -> v.n >= t.low /\ v.n <= t.high
                       [] t.type = "present" -> IsTruthy(v)
                       [] t.type = "match" -> v = t.value

\* Progress as reported, capped by the tier of the confidence.
ConfidenceTier(conf) ==
    CASE 100 * conf >= 85 * Unit -> "high" [] 2 * conf >= Unit /\ 100 * conf < 85 * Unit -> "medium"
      [] OTHER -> "low"
Ceiling(conf) ==
    CASE ConfidenceTier(conf) = "high" -> 100 [] ConfidenceTier(conf) = "medium" -> 85 [] OTHER -> 60
DimensionProgress(d) ==
    IF IsNull(d.value) THEN 0
    ELSE Unit - Min({Unit, NormalizeGap(ComputeRawGap(d.value, d.threshold), d.threshold, d.value)})
EffectiveProgress(d) == Min({(100 * DimensionProgress(d)) \div Unit, Ceiling(d.confidence)})

-----------------------------------------------------------------------------
\* Types of the dimensions and of the iteration.
GapTypeOK ==
    /\ \A n \in DimNames :
         /\ gapDims[n].threshold.type \in {"min", "max", "range", "present", "match"}
         /\ gapDims[n].value.kind \in {"null", "number", "word", "blank"}
         /\ gapDims[n].confidence \in 0 .. Unit
    /\ turn.phase \in {"observed", "gap", "skip", "scored", "task", "acquire", "failed"}
    /\ turn.gaps \in [DimNames -> 0 .. Unit] /\ turn.target \in {0} \cup DimNames

\* The gap and the judge, each with its own arithmetic, agree: an iteration makes
\* no task only if the judge finds every dimension met, or the loop would wait
\* for a completion that does not come; and it makes one only if some are not.
SkipsWhenMet ==
    LET met == \A n \in DimNames : IsSatisfiedRaw(gapDims[n])
    IN /\ turn.phase = "skip" => met
       /\ turn.phase \in {"gap", "scored", "task", "acquire"} => ~met

\* Whatever its deadline, its age and the tier of its evidence, a dimension that
\* is met is not worked on while another is not.
TargetIsUnmet == turn.phase = "task" => ~IsSatisfiedRaw(gapDims[turn.target])

\* Full progress is shown exactly for a dimension that is met for sure.
FullMeansMet ==
    \A n \in DimNames :
      EffectiveProgress(gapDims[n]) = 100 <=>
        IsSatisfiedRaw(gapDims[n]) /\ ConfidenceTier(gapDims[n].confidence) = "high"
=============================================================================
