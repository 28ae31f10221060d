----------------------------- MODULE Knowledge -----------------------------
(***************************************************************************)
(* KnowledgeManager (src/src/knowledge/knowledge-*.ts) over its vector     *)
(* index (vector-index.ts): the knowledge files of the goals, the shared   *)
(* knowledge base, the decision records and the tasks that acquire or      *)
(* revalidate knowledge.  A save awaits the embedding of its text between  *)
(* reading the file and writing it.  The index is a map in memory and a    *)
(* file: adding changes the map first, and writing the file may throw.     *)
(***************************************************************************)
EXTENDS Integers, FiniteSets

CONSTANTS
    KnowGoals,     \* goals
    Facts,         \* knowledge entries; each is saved by one goal
    Decisions,     \* decision records
    PivotStrategies, \* strategies decisions are about
    MaxAge,        \* bound: age of a decision, in units of 30 days
    MaxKnowFaults  \* bound: crashes and failed writes

ASSUME KnowAssumption ==
    /\ KnowGoals # {} /\ "none" \notin KnowGoals /\ Facts # {}
    /\ MaxAge \in Nat /\ MaxKnowFaults \in Nat

VARIABLES
    domain,     \* goals/<goal>/domain_knowledge.json
    vectors,    \* the vector index: for an entry, the goal in its metadata
    indexed,    \* the same in the file of the index, read when the process starts
    sharedKb,   \* memory/shared-knowledge/entries.json: for an entry, its source goals
    saves,      \* saveKnowledge under way: [fact, goal, copy, pc]
    sharing,    \* saveToSharedKnowledgeBase under way: [fact, goal, copy, pc]
    decisions,  \* decisions/*.json: for a record, [strategy, outcome, age]
    acquiring,  \* the gap signal the last acquisition task answers
    stray,      \* history: facts whose index entry and file a failed step between them, or a
                \* write of an older copy of the file, may have set apart
    knowFaults
knowVars == <<domain, vectors, indexed, sharedKb, saves, sharing, decisions, acquiring, stray, knowFaults>>

NoGoalYet == "none"
SignalTypes == {"interpretation_difficulty", "strategy_deadlock", "stall_information_deficit",
                "new_domain", "prerequisite_missing"}
Save == [fact : Facts, goal : KnowGoals, copy : SUBSET Facts, pc : {"embed", "again", "write"}]
Sharing == [fact : Facts, goal : KnowGoals, copy : [Facts -> SUBSET KnowGoals], pc : {"embed", "write"}]
Outcome == {"pending", "success", "failure"}
DecisionRecord == [strategy : PivotStrategies, outcome : Outcome, age : 0..MaxAge]
NoRecord == [strategy |-> "none", outcome |-> "pending", age |-> 0]
Stored == UNION {domain[g] : g \in KnowGoals}

KnowInit ==
    /\ domain = [g \in KnowGoals |-> {}] /\ vectors = [f \in Facts |-> NoGoalYet] /\ indexed = vectors
    /\ sharedKb = [f \in Facts |-> {}] /\ saves = {} /\ sharing = {}
    /\ decisions = [d \in Decisions |-> NoRecord] /\ acquiring = NoGoalYet
    /\ stray = {} /\ knowFaults = 0

-----------------------------------------------------------------------------
(* Gaps and the tasks that close them. *)
\* detectKnowledgeGap: low confidence first, then an empty list of strategies,
\* then the model, whose unreadable answer counts as no gap.
DetectKnowledgeGap(lowConfidence, noStrategies, answer) ==
    IF lowConfidence THEN {"interpretation_difficulty"}
    ELSE IF noStrategies THEN {"strategy_deadlock"}
    ELSE answer
\* generateAcquisitionTask throws, writing nothing, when the model names fewer than
\* three questions.
GenerateAcquisitionTask(lowConfidence, noStrategies, answer) ==
    /\ \E signal \in DetectKnowledgeGap(lowConfidence, noStrategies, answer) :
         acquiring' = signal /\ acquiring' # acquiring
    /\ UNCHANGED <<domain, vectors, indexed, sharedKb, saves, sharing, decisions, stray, knowFaults>>

-----------------------------------------------------------------------------
(* VectorIndex. *)
\* add: the embedding may throw with nothing changed; otherwise the entry is in the
\* map, and then in the file, or _save throws, before its rename or after the rename
\* of a save beside it took both.
Added(f, g) == vectors' = [vectors EXCEPT ![f] = g]
NotEmbedded == UNCHANGED <<vectors, indexed, knowFaults>>
IndexSaved == indexed' = vectors' /\ UNCHANGED knowFaults
IndexNotSaved ==
    /\ indexed' \in {indexed, vectors'}
    /\ knowFaults < MaxKnowFaults /\ knowFaults' = knowFaults + 1

-----------------------------------------------------------------------------
(* saveKnowledge: load, embed, push, embed again, write. *)
\* An entry gets its id when it is made and is saved once.
StartSave(f, g) ==
    /\ f \notin Stored \union stray /\ f \notin {s.fact : s \in saves}
    /\ saves' = saves \union {[fact |-> f, goal |-> g, copy |-> domain[g], pc |-> "embed"]}
    /\ UNCHANGED <<domain, vectors, indexed, sharedKb, sharing, decisions, acquiring, stray, knowFaults>>
Proceed(s, pc) == saves' = (saves \ {s}) \union {[s EXCEPT !.pc = pc]} /\ UNCHANGED stray
\* A throw ends the save, and may leave the fact stray; neither of the two adds is
\* covered by the rollback.
Leave(s, apart) ==
    /\ saves' = saves \ {s}
    /\ stray' = stray \union apart
Embed(s) ==
    /\ s.pc = "embed"
    /\ \/ NotEmbedded /\ Leave(s, {})
       \/ Added(s.fact, s.goal) /\ IndexSaved /\ Proceed(s, "again")
       \/ Added(s.fact, s.goal) /\ IndexNotSaved /\ Leave(s, {s.fact})
    /\ UNCHANGED <<domain, sharedKb, sharing, decisions, acquiring>>
EmbedAgain(s) ==
    /\ s.pc = "again"
    /\ \/ NotEmbedded /\ Leave(s, {s.fact})
       \/ Added(s.fact, s.goal) /\ IndexSaved /\ Proceed(s, "write")
       \/ Added(s.fact, s.goal) /\ IndexNotSaved /\ Leave(s, {s.fact})
    /\ UNCHANGED <<domain, sharedKb, sharing, decisions, acquiring>>
\* The copy the save has read replaces what was stored since.
Write(s) ==
    /\ s.pc = "write" /\ saves' = saves \ {s}
    /\ domain' = [domain EXCEPT ![s.goal] = s.copy \union {s.fact}]
    /\ stray' = stray \union (domain[s.goal] \ s.copy)
    /\ UNCHANGED <<vectors, indexed, sharedKb, sharing, decisions, acquiring, knowFaults>>
\* A failed write takes the entry back out of the index: from the map, and then from
\* the file unless that write fails too.
MutAfterFailedWrite(f) == vectors
AfterFailedWrite(f) == [vectors EXCEPT ![f] = NoGoalYet]
WriteFails(s) ==
    /\ s.pc = "write" /\ knowFaults < MaxKnowFaults /\ knowFaults' = knowFaults + 1
    /\ vectors' = AfterFailedWrite(s.fact)
    /\ \/ indexed' = vectors' /\ Leave(s, {})
       \/ indexed' = indexed /\ Leave(s, {s.fact})
    /\ UNCHANGED <<domain, sharedKb, sharing, decisions, acquiring>>
\* atomicWrite skips a write on ENOENT and says nothing.
WriteSkipped(s) ==
    /\ s.pc = "write" /\ knowFaults < MaxKnowFaults /\ knowFaults' = knowFaults + 1
    /\ Leave(s, {s.fact})
    /\ UNCHANGED <<domain, vectors, indexed, sharedKb, sharing, decisions, acquiring>>
\* The process dies: the next one has the index of the file.
KnowCrash ==
    /\ knowFaults < MaxKnowFaults /\ knowFaults' = knowFaults + 1
    /\ saves' = {} /\ sharing' = {} /\ vectors' = indexed
    /\ stray' = stray \union {s.fact : s \in {x \in saves : x.pc # "embed"}}
                      \union {s.fact : s \in {x \in sharing : x.pc = "write"}}
    /\ UNCHANGED <<domain, indexed, sharedKb, decisions, acquiring>>

\* saveToSharedKnowledgeBase: an entry already shared gets one more source goal;
\* its vector now carries the goal that shared it last.
StartShare(f, g) ==
    /\ f \in Stored /\ f \notin {s.fact : s \in sharing}
    /\ sharing' = sharing \union {[fact |-> f, goal |-> g, copy |-> sharedKb, pc |-> "embed"]}
    /\ UNCHANGED <<domain, vectors, indexed, sharedKb, saves, decisions, acquiring, stray, knowFaults>>
EmbedShared(s) ==
    /\ s.pc = "embed"
    /\ \/ /\ Added(s.fact, s.goal) /\ IndexSaved /\ UNCHANGED stray
          /\ sharing' = (sharing \ {s}) \union {[s EXCEPT !.pc = "write"]}
       \/ /\ sharing' = sharing \ {s}
          /\ \/ NotEmbedded /\ UNCHANGED stray
             \/ Added(s.fact, s.goal) /\ IndexNotSaved /\ stray' = stray \union {s.fact}
    /\ UNCHANGED <<domain, sharedKb, saves, decisions, acquiring>>
\* Here too an older copy replaces what was written since.
Share(s) ==
    /\ s.pc = "write" /\ sharing' = sharing \ {s}
    /\ sharedKb' = [s.copy EXCEPT ![s.fact] = @ \union {s.goal}]
    /\ stray' = stray \union {f \in Facts : ~(sharedKb[f] \subseteq sharedKb'[f])}
    /\ UNCHANGED <<domain, vectors, indexed, saves, decisions, acquiring, knowFaults>>
\* The write fails, or is skipped: the index keeps what it was given.
ShareFails(s) ==
    /\ s.pc = "write" /\ knowFaults < MaxKnowFaults /\ knowFaults' = knowFaults + 1
    /\ sharing' = sharing \ {s} /\ stray' = stray \union {s.fact}
    /\ UNCHANGED <<domain, vectors, indexed, sharedKb, saves, decisions, acquiring>>

\* searchKnowledge looks an indexed entry up in the file of the goal its vector names.
Found(f) == vectors[f] # NoGoalYet /\ f \in domain[vectors[f]]

-----------------------------------------------------------------------------
(* Decision records. *)
RecordDecision(d, s) ==
    /\ decisions[d] = NoRecord
    /\ decisions' = [decisions EXCEPT ![d] = [strategy |-> s, outcome |-> "pending", age |-> 0]]
    /\ UNCHANGED <<domain, vectors, indexed, sharedKb, saves, sharing, acquiring, stray, knowFaults>>
Kept == {d \in Decisions : decisions[d] # NoRecord}
\* updateDecisionOutcome: the newest pending record of the strategy.
MutPending(s) == {d \in Kept : decisions[d].strategy = s}
Pending(s) == {d \in Kept : decisions[d].strategy = s /\ decisions[d].outcome = "pending"}
UpdateDecisionOutcome(s, outcome) ==
    /\ \E d \in Pending(s) :
         /\ \A other \in Pending(s) : decisions[d].age <= decisions[other].age
         /\ decisions' = [decisions EXCEPT ![d].outcome = outcome]
    /\ UNCHANGED <<domain, vectors, indexed, sharedKb, saves, sharing, acquiring, stray, knowFaults>>
Time ==
    /\ \A d \in Kept : decisions[d].age < MaxAge
    /\ Kept # {} /\ decisions' = [d \in Decisions |-> IF d \in Kept THEN [decisions[d] EXCEPT !.age = @ + 1]
                                                     ELSE NoRecord]
    /\ UNCHANGED <<domain, vectors, indexed, sharedKb, saves, sharing, acquiring, stray, knowFaults>>
\* purgeOldDecisions: older than ninety days, three units of age.
PurgeOldDecisions ==
    /\ \E d \in Kept : decisions[d].age > 3
    /\ decisions' = [d \in Decisions |-> IF d \in Kept /\ decisions[d].age > 3 THEN NoRecord
                                         ELSE decisions[d]]
    /\ UNCHANGED <<domain, vectors, indexed, sharedKb, saves, sharing, acquiring, stray, knowFaults>>

KnowledgeStep ==
    \/ KnowCrash
    \/ \E f \in Facts, g \in KnowGoals : StartSave(f, g) \/ StartShare(f, g)
    \/ \E s \in saves : Embed(s) \/ EmbedAgain(s) \/ Write(s) \/ WriteFails(s) \/ WriteSkipped(s)
    \/ \E s \in sharing : EmbedShared(s) \/ Share(s) \/ ShareFails(s)
DecisionStep ==
    \/ Time \/ PurgeOldDecisions
    \/ \E lowConfidence, noStrategies \in BOOLEAN, answer \in {{}} \union {{x} : x \in SignalTypes} :
         GenerateAcquisitionTask(lowConfidence, noStrategies, answer)
    \/ \E d \in Decisions, s \in PivotStrategies : RecordDecision(d, s)
    \/ \E s \in PivotStrategies, outcome \in {"success", "failure"} : UpdateDecisionOutcome(s, outcome)
KnowNext == KnowledgeStep \/ DecisionStep

-----------------------------------------------------------------------------
\* Types of the knowledge files, the index and the decision records.
KnowTypeOK ==
    /\ \A g \in KnowGoals : domain[g] \subseteq Facts
    /\ vectors \in [Facts -> KnowGoals \union {NoGoalYet}] /\ indexed \in [Facts -> KnowGoals \union {NoGoalYet}]
    /\ sharedKb \in [Facts -> SUBSET KnowGoals]
    /\ saves \subseteq Save /\ sharing \subseteq Sharing /\ stray \subseteq Facts /\ acquiring \in SignalTypes \union {NoGoalYet}
    /\ \A d \in Kept : decisions[d] \in DecisionRecord

\* What is stored can be searched: over failed embeddings, failed writes of the
\* index and of the files, crashes and operations that overlap, every stored entry
\* is in the index of this process and in the file the next one starts from.  Unless
\* a failure or an older copy set the two apart, a search then finds it in the file
\* of its goal or of the goal that shared it last, and what is neither stored nor
\* being saved is not indexed: a failed write leaves nothing behind.
SearchExact ==
    /\ \A f \in Stored : vectors[f] # NoGoalYet /\ indexed[f] # NoGoalYet
    /\ \A f \in Stored \ stray :
         Found(f) \/ vectors[f] \in sharedKb[f] \union {s.goal : s \in {x \in sharing : x.fact = f}}
    /\ \A f \in Facts \ (Stored \union stray \union {s.fact : s \in saves}) :
         vectors[f] = NoGoalYet /\ indexed[f] = NoGoalYet

\* An outcome recorded for a decision is not changed by a later strategy's end.
OutcomeSettled ==
    [][\A d \in Kept : decisions[d].outcome # "pending" =>
         decisions'[d] = NoRecord \/ decisions'[d].outcome = decisions[d].outcome]_knowVars
=============================================================================
