---------------------------- MODULE MCKnowledge ----------------------------
(***************************************************************************)
(* What is kept from one cycle to the next, for TLC: strategies and their  *)
(* history, memory, working memory, knowledge, decisions, learning and     *)
(* transfer.  They share no variable, so the first of them to move in a    *)
(* behaviour is the only one that moves.                                   *)
(***************************************************************************)
EXTENDS Strategy, Memory, WorkingMemory, Knowledge, Learning

CONSTANTS e1, e2, e3, d1, d2
VARIABLE part
keptVars == <<vars, memVars, workVars, knowVars, learnVars, part>>

\* A first dimension that may improve, worsen or be met, and a second that stays.
MCGaps == <<{0, 50, 100}, {50}>>

MCTypeOf == [e \in MemEntries |-> "task"]
MCDimsOf == [e \in MemEntries |-> IF e = e1 THEN {d1} ELSE {}]
MCItemDims == [e \in Items |-> IF e = e1 THEN {d1} ELSE {d2}]
MCContexts == {[active |-> a, level |-> "mid", satisfied |-> {d1}, urgent |-> {d2},
                recent |-> r, matching |-> Items] : a \in BOOLEAN, r \in {{e1}, {e1, e3}}}
MCDeltas == {-9, -1, 1}

KeptInit == /\ Init /\ MemInit /\ WorkInit /\ KnowInit /\ LearnInit
            /\ part \in {"strategy", "memory", "working", "knowledge", "decisions",
                         "transfer", "feedback"}

\* Only the part p may change its variables.
Alone(p) ==
    /\ part = p /\ UNCHANGED part
    /\ IF p = "strategy" THEN TRUE ELSE UNCHANGED vars
    /\ IF p = "memory" THEN TRUE ELSE UNCHANGED memVars
    /\ IF p = "working" THEN TRUE ELSE UNCHANGED workVars
    /\ IF p \in {"knowledge", "decisions"} THEN TRUE ELSE UNCHANGED knowVars
    /\ IF p = "transfer" THEN TRUE ELSE UNCHANGED transferVars
    /\ IF p = "feedback" THEN TRUE ELSE UNCHANGED feedbackVars

StrategyMoves == Alone("strategy") /\ Next
MemoryMoves   == Alone("memory") /\ MemNext
WorkingMoves  == Alone("working") /\ WorkNext
KnowMoves     == Alone("knowledge") /\ KnowledgeStep
DecisionMoves == Alone("decisions") /\ DecisionStep
TransferMoves == Alone("transfer") /\ TransferStep
FeedbackMoves == Alone("feedback") /\ FeedbackStep
KeptNext ==
    \/ StrategyMoves \/ MemoryMoves \/ WorkingMoves \/ KnowMoves \/ DecisionMoves
    \/ TransferMoves \/ FeedbackMoves
KeptSpec == KeptInit /\ [][KeptNext]_keptVars

\* Types of every store; those of the strategies are proved.
TypesOK ==
    CASE part = "memory" -> MemTypeOK
      [] part = "working" -> WorkTypeOK
      [] part \in {"knowledge", "decisions"} -> KnowTypeOK
      [] part \in {"transfer", "feedback"} -> LearnTypeOK
      [] OTHER -> TRUE

\* What was recorded is kept, counted once and found again.
MemorySound == FailureKept /\ CountedOnce /\ Findable

\* A search is exact, and no goal is handed back what it taught.
KnowledgeSound == SearchExact /\ NoEcho
=============================================================================
