---------------------------- MODULE Observation ----------------------------
(***************************************************************************)
(* ObservationEngine.observe() for one "min" dimension of a goal           *)
(* (src/src/observation/): the check that nothing has changed, the data    *)
(* source with its cross validation, the model with or without workspace   *)
(* context, what becomes of a reading that could not be saved, and the     *)
(* rules by which applyObservation() lets an entry into the dimension.     *)
(*                                                                         *)
(* The threshold is 10, so that a score, in tenths, times the threshold is *)
(* the value it stands for; confidences are hundredths, rounded down.      *)
(* Appending to the log and saving the goal fail together here.            *)
(***************************************************************************)
EXTENDS Integers, Sequences, FiniteSets

CONSTANTS
    DataSources,     \* in the order they were added: a sequence of scopes,
                     \* "own" goal, "other" goal or "any"
    Readings,        \* what a data source may report
    Scores,          \* what a model may answer
    MaxObserves,     \* bound: calls of observe()
    MaxObsFaults     \* bound: writes that fail

ASSUME ObservationAssumption ==
    /\ DataSources \in Seq({"own", "other", "any"})
    /\ Readings \subseteq Nat /\ Scores \subseteq 0 .. 10
    /\ MaxObserves \in Nat /\ MaxObsFaults \in Nat

Unknown == -1        \* no value

VARIABLES
    setup,           \* which of pre-check, cross validation, model are configured
    observed,        \* the dimension: value, confidence, last_observed_layer
    latest,          \* its last history item: the value and confidence recorded
    obsPc,
    rescued,         \* the entry that could not be saved
    evidence,        \* history: the greatest value any evidence has shown
    measured,        \* history: a data source has answered
    observes, obsFaults

obsVars == <<setup, observed, latest, obsPc, rescued, evidence, measured, observes, obsFaults>>

Layers == {"none", "self_report", "independent_review", "mechanical"}

\* LAYER_CONFIG and LAYER_PRIORITY: the confidence a layer admits, its rank.
Least(l)    == CASE l = "mechanical" -> 85 [] l = "independent_review" -> 50 [] OTHER -> 10
Greatest(l) == CASE l = "mechanical" -> 100 [] l = "independent_review" -> 84 [] OTHER -> 49
Priority(l) == CASE l = "mechanical" -> 3 [] l = "independent_review" -> 2 [] OTHER -> 1

Smaller(a, b) == IF a < b THEN a ELSE b
Larger(a, b)  == IF a < b THEN b ELSE a
Distance(a, b) == IF a < b THEN b - a ELSE a - b
Within(low, high, x) == Larger(low, Smaller(high, x))

\* What asking a data source may come to: a reading, or null or an error.
SourceAnswers == Readings \cup {Unknown}

Entry(l, v, c) == [layer |-> l, value |-> v, confidence |-> c]

\* createObservationEntry() brings the confidence into the layer's range.
CreateObservationEntry(l, v, c) == Entry(l, v, Within(Least(l), Greatest(l), c))

ObsInit ==
    /\ setup \in [check : BOOLEAN, cross : BOOLEAN, model : BOOLEAN]
    /\ \E v \in {Unknown, 2} : observed = [value |-> v, confidence |-> 50, layer |-> "none"]
    /\ latest = [value |-> Unknown, confidence |-> 0]
    /\ obsPc = "idle" /\ rescued = Entry("none", Unknown, 0)
    /\ evidence = Larger(0, observed.value) /\ measured = FALSE
    /\ observes = 0 /\ obsFaults = 0

(***************************************************************************)
(* applyObservation()                                                      *)
(***************************************************************************)

\* A value within 0 and twice the threshold, and no fall on less confidence.
Effective(e) ==
    IF e.value = Unknown THEN Unknown
    ELSE LET v == Within(0, 20, e.value) IN
         IF v < observed.value /\ e.confidence < observed.confidence
         THEN observed.value ELSE v

\* An entry of a lower layer leaves confidence and layer alone, and so does
\* the first of an equal one that is less confident than the seed.
UpdatesConfidence(e) ==
    \/ Priority(e.layer) > Priority(observed.layer)
    \/ /\ Priority(e.layer) = Priority(observed.layer)
       /\ observed.layer # "none" \/ e.confidence >= observed.confidence

ApplyObservation(e) ==
    /\ observed' = [value      |-> Effective(e),
                    confidence |-> IF UpdatesConfidence(e) THEN e.confidence ELSE observed.confidence,
                    layer      |-> IF UpdatesConfidence(e) THEN e.layer ELSE observed.layer]
    /\ latest' = [value |-> e.value, confidence |-> e.confidence]

\* Applied and on to saved, or the write throws and on to thrown.
Apply(e, saved, thrown) ==
    \/ ApplyObservation(e) /\ obsPc' = saved /\ UNCHANGED obsFaults
    \/ /\ obsFaults < MaxObsFaults /\ obsFaults' = obsFaults + 1
       /\ obsPc' = thrown /\ UNCHANGED <<observed, latest>>

(***************************************************************************)
(* observe()                                                               *)
(***************************************************************************)

\* The goal is loaded; a dimension with no history has nothing to compare.
StartObserve ==
    /\ obsPc = "idle" /\ observes < MaxObserves /\ observes' = observes + 1
    /\ obsPc' = IF setup.check /\ latest.confidence > 0 THEN "check" ELSE "source"
    /\ UNCHANGED <<setup, observed, latest, rescued, evidence, measured, obsFaults>>

\* DimensionPreChecker: age, git and file checks each say changed or not, or
\* nothing at all; one that says changed decides, and so does silence.
SaysChanged(results) == results = {} \/ "changed" \in results

\* Nothing changed: the last item is recorded again, a little less confident,
\* under the layer the dimension has now.
MutCachedLayer == "mechanical"
CachedLayer == IF observed.layer = "none" THEN "self_report" ELSE observed.layer
PreCheck ==
    /\ obsPc = "check"
    /\ \E results \in SUBSET {"changed", "same"} :
        IF SaysChanged(results)
          THEN obsPc' = "source" /\ UNCHANGED <<observed, latest, obsFaults>>
          ELSE Apply(CreateObservationEntry(CachedLayer, latest.value,
                                            Larger(10, (latest.confidence * 95) \div 100)),
                     "idle", "source")
    /\ UNCHANGED <<setup, rescued, evidence, measured, observes>>

\* findDataSourceForDimension(): a source of this goal before one of no goal
\* before one of another; 0 if none answers for the dimension.
SourcesOf(scope) == {i \in DOMAIN DataSources : DataSources[i] = scope}
FirstSource(S) == CHOOSE i \in S : \A j \in S : i <= j
SourceFor ==
    IF SourcesOf("own") # {} THEN FirstSource(SourcesOf("own"))
    ELSE IF SourcesOf("any") # {} THEN FirstSource(SourcesOf("any"))
    ELSE IF DataSources # <<>> THEN 1 ELSE 0

\* The source is asked; null, an error or a failed write leave it to the model.
ObserveFromDataSource ==
    /\ obsPc = "source"
    /\ \E r \in SourceAnswers :
        IF SourceFor = 0 \/ r = Unknown
          THEN /\ obsPc' = "model"
               /\ UNCHANGED <<observed, latest, evidence, measured, obsFaults>>
          ELSE /\ Apply(Entry("mechanical", r, 90),
                        IF setup.cross /\ setup.model THEN "cross" ELSE "idle", "model")
               /\ evidence' = Larger(evidence, r) /\ measured' = TRUE
    /\ UNCHANGED <<setup, rescued, observes>>

\* crossValidate(): the measured value stays, and loses confidence if the
\* model sees something quite different; errors are passed over.
Diverged(m, l) == 5 * Distance(m, l) > Larger(1, Larger(m, l))
Penalty(m, l)  == Smaller(30, (50 * Distance(m, l)) \div Larger(1, Larger(m, l)))
CrossValidate ==
    /\ obsPc = "cross" /\ obsPc' = "idle"
    /\ \/ UNCHANGED observed
       \/ \E l \in Scores :
            /\ Diverged(observed.value, l)
            /\ observed' = [observed EXCEPT !.confidence =
                                Larger(10, @ - Penalty(observed.value, l))]
    /\ UNCHANGED <<setup, latest, rescued, evidence, measured, observes, obsFaults>>

\* The score of the last history item, as observe() rescales it.
PreviousScore == IF latest.value = Unknown THEN Unknown ELSE Within(0, 10, latest.value)

\* observeWithLLM(): without context a score above 0 is not believed, and a
\* jump of more than 0.4 is not either; both fall back to the previous score.
MutBelieved(score, context) == score
Believed(score, context) ==
    IF ~context /\ score > 0 THEN Larger(0, PreviousScore) ELSE score
Jumps(score) == PreviousScore # Unknown /\ Distance(score, PreviousScore) > 4
Preserved(score, context) == ~context /\ score > 0 /\ PreviousScore # Unknown
ModelLayer == IF SourceFor = 0 THEN "self_report" ELSE "independent_review"
ModelConfidence(score, context) ==
    IF Jumps(Believed(score, context)) THEN 50
    ELSE IF context THEN (IF SourceFor = 0 THEN 30 ELSE 70)
    ELSE IF Preserved(score, context) THEN 30 ELSE 10
Judged(score, context) ==
    Entry(ModelLayer,
          IF Jumps(Believed(score, context)) THEN PreviousScore ELSE Believed(score, context),
          ModelConfidence(score, context))

\* Nothing to look at and a value to keep: the model is not asked.
Skips(context) == ~context /\ observed.value # Unknown /\ PreviousScore = Unknown

\* The model is asked, or throws, or is not configured.
ObserveWithLLM ==
    /\ obsPc = "model"
    /\ \/ /\ obsPc' = "fallback"
          /\ UNCHANGED <<observed, latest, rescued, evidence, obsFaults>>
       \/ /\ setup.model
          /\ \E score \in Scores, context \in BOOLEAN :
               LET e == IF Skips(context) THEN Entry(ModelLayer, observed.value, 10)
                        ELSE Judged(score, context)
               IN  /\ Apply(e, "idle", "recover")
                   /\ rescued' = IF obsPc' = "recover" THEN e ELSE rescued
                   /\ evidence' = IF context THEN Larger(evidence, score) ELSE evidence
    /\ UNCHANGED <<setup, measured, observes>>

\* ObservationPersistenceError: the reading is applied as a self report.
Recover ==
    /\ obsPc = "recover"
    /\ Apply(CreateObservationEntry("self_report", rescued.value, rescued.confidence), "idle", "idle")
    /\ rescued' = Entry("none", Unknown, 0)
    /\ UNCHANGED <<setup, evidence, measured, observes>>

\* Nothing answered: the value is reported as it stands.
SelfReport ==
    /\ obsPc = "fallback"
    /\ Apply(CreateObservationEntry("self_report", observed.value,
                 IF SourceFor # 0 THEN observed.confidence ELSE Smaller(30, observed.confidence)),
             "idle", "idle")
    /\ UNCHANGED <<setup, rescued, evidence, measured, observes>>

ObsNext == \/ StartObserve \/ PreCheck \/ ObserveFromDataSource \/ CrossValidate
           \/ ObserveWithLLM \/ Recover \/ SelfReport

-----------------------------------------------------------------------------
\* Types of the dimension and of the call.
ObsTypeOK ==
    /\ observed.value \in Unknown .. 20 /\ observed.confidence \in 0 .. 100
    /\ observed.layer \in Layers /\ latest.value \in Unknown .. 20 \cup Readings
    /\ obsPc \in {"idle", "check", "source", "cross", "model", "recover", "fallback"}
    /\ measured \in BOOLEAN /\ observes \in 0 .. MaxObserves

\* Nothing is gained without evidence: over any number of rounds, failed
\* writes, recoveries and cached readings, the value of a dimension never
\* exceeds what a source reported or a model saw in the workspace.
GainNeedsEvidence == observed.value <= evidence

\* The confidence at which a goal may complete with no verification task (0.85)
\* is only ever reached once a data source has measured the dimension.
ConfidenceEarned == observed.confidence >= 85 => measured
=============================================================================
