---------------------------- MODULE StallDetector ----------------------------
(***************************************************************************)
(* The judgements of StallDetector (src/src/drive/stall-detector.ts) on    *)
(* gap histories.  A history is the sequence of one dimension's normalized *)
(* gaps, oldest first, in hundredths; the detector keeps no state for      *)
(* these judgements.  The four checks the loop never calls (time exceeded, *)
(* consecutive failures of a task, cause by confidence, decay) are left    *)
(* out.                                                                    *)
(***************************************************************************)
EXTENDS Integers, Sequences, Functions

CONSTANT Window         \* getAdjustedN(): loops without improvement, 5 to 10

ASSUME WindowAssumption == Window \in Nat \ {0}

MinImprovement == 5     \* MIN_IMPROVEMENT_DELTA
AchievedGap    == 2     \* ACHIEVED_GAP_THRESHOLD
ZeroWindow     == 3     \* ZERO_PROGRESS_WINDOW
ZeroFloor      == 90    \* ZERO_PROGRESS_GAP_FLOOR
ZeroSpread     == 1     \* ZERO_PROGRESS_MAX_VARIANCE

\* The last n entries of history h.
Recent(h, n) == (Len(h) - n + 1) .. Len(h)

\* The last three gaps are all near the maximum and nearly equal.
ZeroProgress(h) ==
    /\ Len(h) >= ZeroWindow
    /\ \A i \in Recent(h, ZeroWindow) : h[i] >= ZeroFloor
    /\ \A i, j \in Recent(h, ZeroWindow) : h[i] - h[j] < ZeroSpread

Enough(h)   == Len(h) >= Window + 1
Achieved(h) == \A i \in Recent(h, Window + 1) : h[i] <= AchievedGap
Improved(h) == h[Len(h) - Window] - h[Len(h)] >= MinImprovement

\* checkDimensionStall() reports a stall of the dimension.
DimensionStall(h) ==
    Enough(h) /\ (ZeroProgress(h) \/ (~Achieved(h) /\ ~Improved(h)))

\* checkGlobalStall() reports a stall of the goal; H maps its dimensions to
\* their histories.
GlobalStall(H) ==
    LET Dims == DOMAIN H
        Zero == {d \in Dims : ZeroProgress(H[d])}
        Near == {d \in Dims \ Zero : Achieved(H[d])}
    IN /\ Dims # {}
       /\ \A d \in Dims : Enough(H[d])
       /\ \A d \in Dims \ (Zero \cup Near) : ~Improved(H[d])
       /\ ~(Zero \cup Near = Dims /\ Near # {})

Plus(a, b) == a + b
Total(h)   == FoldFunction(Plus, 0, h)
Squares(h) == Total([i \in 1 .. Len(h) |-> h[i] * h[i]])

\* Every gap is larger than the one before, by more than 0.05 over all.
Diverging(h) ==
    /\ \A i \in 1 .. Len(h) - 1 : h[i + 1] > h[i]
    /\ h[Len(h)] - h[1] > 5

\* The variance is over 0.01 and the gap ends within 0.05 of where it began.
Oscillating(h) ==
    /\ Len(h) * Squares(h) - Total(h) * Total(h) > 100 * Len(h) * Len(h)
    /\ h[Len(h)] - h[1] < 5
    /\ h[1] - h[Len(h)] < 5

\* analyzeStallCause(): the recommended action.
Recommended(h) ==
    IF Len(h) < 3 THEN "pivot"
    ELSE IF Diverging(h) THEN "escalate"
    ELSE IF Oscillating(h) THEN "refine"
    ELSE "pivot"
=============================================================================
