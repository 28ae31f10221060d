----------------------------- MODULE Learning ------------------------------
(***************************************************************************)
(* LearningPipeline and KnowledgeTransfer (src/src/knowledge/learning-*.ts,*)
(* knowledge-transfer*.ts, transfer-trust.ts): patterns learned from the   *)
(* logs of a goal, their copies in similar goals, the candidates offered   *)
(* to another goal, and the trust in a pair of domains.  Patterns, trust   *)
(* and history are files; candidates, contexts and trackers live in memory.*)
(***************************************************************************)
EXTENDS Integers, Sequences, FiniteSets
LOCAL Ext == INSTANCE SequencesExt

CONSTANTS
    LearnGoals,      \* goals
    Patterns,        \* patterns the model may draw from the logs
    TaggedPatterns,  \* patterns with applicable domains
    MaxPatterns,     \* max_patterns_per_goal
    MaxEvaluations,  \* bound: evaluations
    MaxRestarts,     \* bound: restarts
    Deltas,          \* observed deltas of structural feedback, in tenths
    MaxFeedback      \* bound: entries of structural feedback

ASSUME LearnAssumption ==
    /\ TaggedPatterns \subseteq Patterns /\ MaxPatterns \in Nat \ {0} /\ Deltas \subseteq Int
    /\ MaxEvaluations \in Nat /\ MaxRestarts \in Nat /\ MaxFeedback \in Nat

VARIABLES
    learned,    \* learning/<goal>_patterns.json
    origin,     \* the goal from whose logs a pattern was drawn
    toShare,    \* copies still to be made: <<pattern, goal, similar goal>>
    meta,       \* patterns a meta-pattern in the vector index was drawn from
    candidates, \* candidates by state
    offered,    \* what the last detection returned
    contexts,   \* applyContexts
    tracker,    \* patternTrackers: for a copy, [nonPositive, invalidated]
    trust,      \* transfer-trust/<pair>.json, in twentieths
    effects,    \* transfer-trust-history/<pair>.json
    streak,     \* evaluations of a pair, of those whose entry in the history was
                \* written, since the last positive one
    evaluations, restarts,
    feedback,   \* learning/<goal>_structural_feedback.json: deltas, [delta, shared]
    found       \* the patterns the last extraction found across goals
transferVars == <<learned, origin, toShare, meta, candidates, offered, contexts, tracker,
                  trust, effects, streak, evaluations, restarts>>
feedbackVars == <<feedback, found>>
learnVars == <<transferVars, feedbackVars>>

LearnedPattern == [of : Patterns, confidence : 0..100, source_goal_ids : SUBSET LearnGoals]
TransferState == {"pending", "proposed", "applied", "rejected", "invalidated"}
Candidate == [of : Patterns, src : LearnGoals, dst : LearnGoals, state : TransferState]
TransferEffectiveness == {"positive", "negative", "neutral"}
CopyOf(p, S) == {x \in S : x.of = p}
\* The key of the trust between two domains.
Pair(p, src, dst) == IF p \in TaggedPatterns THEN <<p, p>> ELSE <<src, dst>>
DomainPairs == (LearnGoals \X LearnGoals) \union {<<p, p>> : p \in TaggedPatterns}

LearnInit ==
    /\ learned = [g \in LearnGoals |-> {}] /\ origin = [p \in Patterns |-> {}] /\ toShare = {} /\ meta = {}
    /\ candidates = {} /\ offered = {} /\ contexts = {}
    /\ tracker = [c \in Patterns \X LearnGoals |-> [nonPositive |-> 0, invalidated |-> FALSE]]
    /\ trust = [d \in DomainPairs |-> 10] /\ effects = [d \in DomainPairs |-> <<>>]
    /\ streak = [d \in DomainPairs |-> 0] /\ evaluations = 0 /\ restarts = 0
    /\ feedback = [g \in LearnGoals |-> <<>>] /\ found = {}

-----------------------------------------------------------------------------
(* Learning. *)
\* The most confident patterns stay when there are too many.
KeepBest(S) == {T \in SUBSET S :
    /\ Cardinality(T) = IF Cardinality(S) < MaxPatterns THEN Cardinality(S) ELSE MaxPatterns
    /\ \A x \in T, y \in S \ T : x.confidence >= y.confidence}
\* analyzeLogs draws a pattern that is frequent and consistent enough (0.6); the
\* meta-patterns follow, if the model answers.  A completed goal shares it.
AnalyzeLogs(g, p, confidence, completed) ==
    /\ origin[p] = {} /\ origin' = [origin EXCEPT ![p] = {g}] /\ confidence >= 60
    /\ \E best \in KeepBest(learned[g] \union {[of |-> p, confidence |-> confidence, source_goal_ids |-> {g}]}) :
         learned' = [learned EXCEPT ![g] = best]
    /\ meta' \in {meta, meta \union {p}}
    /\ \E similar \in SUBSET (LearnGoals \ {g}) :
         toShare' = toShare \union IF completed THEN {<<p, g, h>> : h \in similar} ELSE {}
    /\ UNCHANGED <<candidates, offered, contexts, tracker, trust, effects, streak, evaluations, restarts>>
\* sharePatternAcrossGoals: a weaker copy in each goal the index finds similar.
MutSources(x, g, h) == {h}
Sources(x, g, h) == x.source_goal_ids \union {g}
SharedCopies(p, g, h) ==
    {[of |-> p, confidence |-> (x.confidence * 7) \div 10, source_goal_ids |-> Sources(x, g, h)] :
        x \in {y \in CopyOf(p, learned[g]) : y.confidence * 7 >= 600}}
SharePatternAcrossGoals(p, g, h) ==
    /\ <<p, g, h>> \in toShare /\ toShare' = toShare \ {<<p, g, h>>}
    /\ \E best \in KeepBest(learned[h] \union SharedCopies(p, g, h)) : learned' = [learned EXCEPT ![h] = best]
    /\ UNCHANGED <<origin, meta, candidates, offered, contexts, tracker, trust, effects, streak, evaluations, restarts>>

-----------------------------------------------------------------------------
(* Detection and application. *)
\* shouldInvalidate: the last three evaluations of the pair were not positive.
ShouldInvalidate(d) ==
    /\ Len(effects[d]) >= 3
    /\ \A i \in Len(effects[d]) - 2..Len(effects[d]) : effects[d][i] # "positive"
\* What detectTransferOpportunities keeps before it asks for the similarity.
Eligible(g) == {c \in [of : Patterns, src : LearnGoals \ {g}, dst : {g}, state : {"pending"}] :
    /\ \E x \in CopyOf(c.of, learned[c.src]) : x.confidence >= 60 /\ g \notin x.source_goal_ids
    /\ ~tracker[<<c.of, c.src>>].invalidated
    /\ ~ShouldInvalidate(Pair(c.of, c.src, g))}
DetectTransferOpportunities(g) ==
    /\ \E similar \in SUBSET Eligible(g) : offered' = similar /\ candidates' = candidates \union similar
    /\ UNCHANGED <<learned, origin, toShare, meta, contexts, tracker, trust, effects, streak, evaluations, restarts>>
Context(c) == [of |-> c.of, src |-> c.src, dst |-> c.dst,
               known |-> CopyOf(c.of, learned[c.src]) # {}]
\* applyTransfer: a context is kept unless the ethics gate rejects or fails.
ApplyTransfer(c) ==
    /\ contexts' = contexts \union {Context(c)} /\ contexts' # contexts /\ offered' = {}
    /\ UNCHANGED <<learned, origin, toShare, meta, candidates, tracker, trust, effects, streak, evaluations, restarts>>
HighConfidence(c) ==
    /\ \E x \in CopyOf(c.of, learned[c.src]) : x.confidence >= 85
    /\ trust[Pair(c.of, c.src, c.dst)] >= 14
\* autoApplyHighConfidenceTransfers for one candidate detected: the second ethics
\* check, in applyTransfer, may reject what the first let through.
AutoApply(c) ==
    /\ offered' = {}
    /\ \E state \in IF HighConfidence(c) THEN {"applied", "rejected"} ELSE {"proposed"} :
         /\ candidates' = (candidates \ {c}) \union {[c EXCEPT !.state = state]}
         /\ contexts' \in IF state = "applied" THEN {contexts, contexts \union {Context(c)}} ELSE {contexts}
    /\ UNCHANGED <<learned, origin, toShare, meta, tracker, trust, effects, streak, evaluations, restarts>>

-----------------------------------------------------------------------------
(* Evaluation. *)
\* updateTrust and _appendHistory, which keeps twice the window.
MutTrusted(score, effect) == IF effect = "positive" THEN score + 2 ELSE IF effect = "negative" THEN score - 3 ELSE score
Trusted(score, effect) ==
    CASE effect = "positive" -> IF score + 2 > 20 THEN 20 ELSE score + 2
      [] effect = "negative" -> IF score < 3 THEN 0 ELSE score - 3
      [] effect = "neutral"  -> score
MutLastEffects(s) == IF Len(s) > 2 THEN SubSeq(s, Len(s) - 1, Len(s)) ELSE s
LastEffects(s) == IF Len(s) > 6 THEN SubSeq(s, Len(s) - 5, Len(s)) ELSE s
\* The score and the history are two writes, either of which may be skipped, and a
\* failed write of the history is swallowed; a failed write of the score ends the
\* update, before the candidate can be invalidated.
EvaluateTransferEffect(x, effect, written, failed) ==
    LET d == IF x.known THEN Pair(x.of, x.src, x.dst) ELSE <<x.src, x.dst>>
        missed == tracker[<<x.of, x.src>>].nonPositive + 1
    IN  /\ evaluations < MaxEvaluations /\ evaluations' = evaluations + 1
        /\ tracker' = IF ~x.known THEN tracker
                      ELSE [tracker EXCEPT ![<<x.of, x.src>>] =
                        IF effect = "positive" THEN [@ EXCEPT !.nonPositive = 0]
                        ELSE [nonPositive |-> missed, invalidated |-> @.invalidated \/ missed >= 3]]
        /\ failed => written = {}
        /\ trust' = IF "score" \in written THEN [trust EXCEPT ![d] = Trusted(@, effect)] ELSE trust
        /\ \/ /\ "history" \in written
              /\ effects' = [effects EXCEPT ![d] = LastEffects(Append(@, effect))]
              /\ streak' = [streak EXCEPT ![d] = IF effect = "positive" THEN 0 ELSE @ + 1]
           \/ "history" \notin written /\ UNCHANGED <<effects, streak>>
        /\ candidates' = {IF /\ ~failed /\ ShouldInvalidate(d)'
                             /\ c.of = x.of /\ c.src = x.src /\ c.dst = x.dst
                          THEN [c EXCEPT !.state = "invalidated"] ELSE c : c \in candidates}
        /\ offered' = {}
        /\ UNCHANGED <<learned, origin, toShare, meta, contexts, restarts>>
\* A new process has the files and nothing else.
LearnRestart ==
    /\ restarts < MaxRestarts /\ restarts' = restarts + 1
    /\ toShare' = {} /\ candidates' = {} /\ offered' = {} /\ contexts' = {}
    /\ tracker' = [c \in DOMAIN tracker |-> [nonPositive |-> 0, invalidated |-> FALSE]]
    /\ UNCHANGED <<learned, origin, meta, trust, effects, streak, evaluations>>

TransferStep ==
    \/ LearnRestart
    \/ \E g \in LearnGoals, p \in Patterns, confidence \in {60, 90}, completed \in BOOLEAN :
         AnalyzeLogs(g, p, confidence, completed)
    \/ \E p \in Patterns, g, h \in LearnGoals : SharePatternAcrossGoals(p, g, h)
    \/ \E g \in LearnGoals : DetectTransferOpportunities(g)
    \/ \E c \in candidates : ApplyTransfer(c)
    \/ \E c \in offered : AutoApply(c)
    \/ \E x \in contexts, effect \in TransferEffectiveness, written \in SUBSET {"score", "history"}, failed \in BOOLEAN :
         EvaluateTransferEffect(x, effect, written, failed)

-----------------------------------------------------------------------------
(* Structural feedback of one type. *)
Sum(s) == Ext!FoldLeft(LAMBDA a, e : a + e.delta, 0, s)
Entries == UNION {{<<g, i>> : i \in 1..Len(feedback[g])} : g \in LearnGoals}
RecordStructuralFeedback(g, delta) ==
    /\ Cardinality(Entries) < MaxFeedback /\ found' = {}
    /\ feedback' = [feedback EXCEPT ![g] = Append(@, [delta |-> delta, shared |-> FALSE])]
\* autoTuneParameters: five entries, of which six tenths have the sign of their mean.
SameSign(s) == Cardinality({i \in 1..Len(s) : (s[i].delta >= 0) = (Sum(s) >= 0)})
MutConfident(s) == TRUE
Confident(s) == 10 * SameSign(s) >= 6 * Len(s)
AutoTune(s) == IF Len(s) < 5 \/ ~Confident(s) THEN "none" ELSE IF Sum(s) >= 0 THEN "up" ELSE "down"

\* extractCrossGoalPatterns: an entry joins the first cluster whose mean is within
\* 0.2 of it; a cluster of two goals is a pattern.
Joins(c, e) == LET d == c.sum - c.n * e.delta IN -2 * c.n <= d /\ d <= 2 * c.n
Place(clusters, e) ==
    LET fit == {i \in 1..Len(clusters) : Joins(clusters[i], e)}
        first == CHOOSE i \in fit : \A j \in fit : i <= j
    IN  IF fit = {} THEN Append(clusters, [sum |-> e.delta, n |-> 1, goals |-> {e.goal}])
        ELSE [clusters EXCEPT ![first] = [sum |-> @.sum + e.delta, n |-> @.n + 1, goals |-> @.goals \union {e.goal}]]
PatternType(c) == IF 2 * c.sum < -c.n THEN "success" ELSE IF 2 * c.sum > c.n THEN "failure" ELSE "optimization"
ExtractCrossGoalPatterns(order) ==
    LET of(g) == [i \in 1..Len(feedback[g]) |-> [goal |-> g, delta |-> feedback[g][i].delta]]
        clusters == Ext!FoldLeft(Place, <<>>, Ext!FlattenSeq([i \in 1..Len(order) |-> of(order[i])]))
    IN  /\ found' = {[type |-> PatternType(c), goals |-> c.goals] : c \in {x \in Ext!ToSet(clusters) : Cardinality(x.goals) >= 2}}
        /\ found' # found /\ UNCHANGED feedback
\* sharePatternsAcrossGoals: a made-up entry in every goal the pattern is not from.
SharePatterns(g) ==
    /\ \E p \in found :
         /\ g \notin p.goals
         /\ feedback' = [feedback EXCEPT ![g] = Append(@, [shared |-> TRUE,
                delta |-> IF p.type = "success" THEN -1 ELSE IF p.type = "failure" THEN 1 ELSE 0])]
    /\ Cardinality(Entries) < MaxFeedback /\ found' = {}

FeedbackStep ==
    \/ \E g \in LearnGoals, delta \in Deltas : RecordStructuralFeedback(g, delta)
    \/ ExtractCrossGoalPatterns(Ext!SetToSeq(LearnGoals))
    \/ \E g \in LearnGoals : SharePatterns(g)

-----------------------------------------------------------------------------
\* Types of the files and of the memory of the transfer.
LearnTypeOK ==
    /\ \A g \in LearnGoals : learned[g] \subseteq LearnedPattern
    /\ candidates \union offered \subseteq Candidate
    /\ \A d \in DomainPairs : trust[d] \in 0..20 /\ Len(effects[d]) <= 6
    /\ meta \subseteq Patterns /\ toShare \subseteq Patterns \X LearnGoals \X LearnGoals

\* No echo: a goal is never offered a pattern that was learned from it, not even as
\* the copy another goal holds, under another id, of what it shared.
NoEcho == \A c \in candidates : c.dst \notin origin[c.of]

\* A pair whose last three evaluations on record were not positive is silenced: no
\* detection offers anything for it, before and after a restart, which forgets the
\* trackers, and whatever write of the score or of the history is lost.
PairSilenced ==
    [][offered' # offered => \A c \in offered' : streak[Pair(c.of, c.src, c.dst)] < 3]_transferVars

\* A single new observation never turns a suggested adjustment round: between
\* "raise" and "lower" there is always a time without a suggestion.
SteadyTuning ==
    [][\A g \in LearnGoals : {AutoTune(feedback[g]), AutoTune(feedback[g])'} # {"up", "down"}]_feedbackVars
=============================================================================
