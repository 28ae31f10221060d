--------------------------- MODULE WorkingMemory ---------------------------
(***************************************************************************)
(* The indexes over the memory files (src/src/knowledge/memory-index.ts)   *)
(* and the selection of a working memory (memory-selection.ts,             *)
(* memory-tier.ts).  An index is changed by loading it, editing the copy   *)
(* and saving it, with an await in between; the touches of a selection are *)
(* not awaited and run beside everything else.                             *)
(***************************************************************************)
EXTENDS Integers, FiniteSets

CONSTANTS
    Items,       \* entries that may be recorded
    ItemDims,    \* the dimensions of an entry
    MaxSlots,    \* maxEntries of a selection
    Contexts,    \* selections asked for: [active, level, satisfied, urgent, recent, matching]
    HasVector,   \* is a semantic index configured
    MaxIdxFaults \* bound: crashes

ASSUME WorkingAssumption ==
    IsFiniteSet(Items) /\ MaxSlots \in Nat \ {0} /\ MaxIdxFaults \in Nat

VARIABLES
    filed,      \* entries in the raw files
    gone,       \* entries compressed or archived
    index,      \* short-term/index.json
    writers,    \* operations that hold a copy of the index: [kind, item, copy]
    unindexed,  \* entries recorded whose index write did not happen
    selected,   \* the last working memory selected
    overlapped, \* did a save overwrite an index that had changed since it was loaded
    idxFaults
workVars == <<filed, gone, index, writers, unindexed, selected, overlapped, idxFaults>>

MemoryTier == {"core", "recall", "archival"}
Writer == [kind : {"update", "remove", "touch"}, item : Items, copy : SUBSET Items]

WorkInit == /\ filed = {} /\ gone = {} /\ index = {} /\ writers = {} /\ unindexed = {}
            /\ selected = {} /\ overlapped = FALSE /\ idxFaults = 0

-----------------------------------------------------------------------------
(* Selection. *)
\* classifyTier for an index entry.
ClassifyTier(i, ctx) ==
    LET byAge == IF i \in ctx.recent THEN "core" ELSE "recall"
        demoted == IF byAge = "core" /\ ItemDims[i] # {} /\ ItemDims[i] \subseteq ctx.satisfied
                   THEN "recall" ELSE byAge
    IN  IF ~ctx.active THEN "archival"
        ELSE IF demoted = "recall" /\ ItemDims[i] \intersect ctx.urgent # {} THEN "core" ELSE demoted
\* computeDynamicBudget: tenths of the slots promised to the core tier.
ComputeDynamicBudget(level) == IF level = "high" THEN 7 ELSE IF level = "mid" THEN 6 ELSE 5
CoreGuarantee(level) == (MaxSlots * ComputeDynamicBudget(level) + 9) \div 10
UpTo(k, S) == {T \in SUBSET S : Cardinality(T) = IF Cardinality(S) < k THEN Cardinality(S) ELSE k}
\* loadShortTermEntry: an entry in the index whose file no longer has it is skipped.
Loadable == index \intersect filed
\* selectForWorkingMemory: of the entries that match, core up to its guarantee,
\* then recall, then archival, each by relevance (left open); the semantic index
\* fills what is left.  What matched is touched, and the touches, which are not
\* awaited, have all loaded the index as it is.  (Bound: one selection's touches.)
SelectForWorkingMemory(ctx) ==
    LET of(tier) == {i \in ctx.matching \intersect Loadable : ClassifyTier(i, ctx) = tier} IN
    \E core \in UpTo(CoreGuarantee(ctx.level), of("core")) :
    \E recall \in UpTo(MaxSlots - Cardinality(core), of("recall")) :
    \E archival \in UpTo(MaxSlots - Cardinality(core \union recall), of("archival")) :
    \E rest \in IF HasVector
                THEN UpTo(MaxSlots - Cardinality(core \union recall \union archival),
                          Loadable \ (core \union recall \union archival))
                ELSE {{}} :
        /\ {w \in writers : w.kind = "touch"} = {}
        /\ selected' = core \union recall \union archival \union rest
        /\ writers' = writers \union {[kind |-> "touch", item |-> i, copy |-> index] :
                                        i \in core \union recall \union archival}
        /\ UNCHANGED <<filed, gone, index, unindexed, overlapped, idxFaults>>

-----------------------------------------------------------------------------
(* The index. *)
\* recordToShortTerm writes the raw file, then loads the index to add to it.
Record(i) ==
    /\ i \notin filed \union gone /\ filed' = filed \union {i} /\ unindexed' = unindexed \union {i}
    /\ UNCHANGED <<gone, index, writers, selected, overlapped, idxFaults>>
\* The raw file loses an entry (compression, closing); the index follows.
Forget(i) ==
    /\ i \in filed /\ filed' = filed \ {i} /\ gone' = gone \union {i}
    /\ UNCHANGED <<index, writers, unindexed, selected, overlapped, idxFaults>>
\* updateIndex, removeFromIndex, removeGoalFromIndex: load.
LoadIndex(kind, i) ==
    /\ i \in (IF kind = "update" THEN unindexed ELSE gone \intersect index)
    /\ \A w \in writers : <<w.kind, w.item>> # <<kind, i>>
    /\ writers' = writers \union {[kind |-> kind, item |-> i, copy |-> index]}
    /\ UNCHANGED <<filed, gone, index, unindexed, selected, overlapped, idxFaults>>
\* saveIndex: the copy as edited becomes the index.
MutEdited(w) == IF w.kind = "touch" THEN selected ELSE IF w.kind = "update" THEN w.copy \union {w.item}
                ELSE w.copy \ {w.item}
Edited(w) == CASE w.kind = "update" -> w.copy \union {w.item}
               [] w.kind = "remove" -> w.copy \ {w.item}
               [] w.kind = "touch"  -> w.copy
SaveIndex(w) ==
    /\ index' = Edited(w) /\ writers' = writers \ {w}
    /\ overlapped' = (overlapped \/ index # w.copy)
    /\ unindexed' = IF w.kind = "update" THEN unindexed \ {w.item} ELSE unindexed
    /\ UNCHANGED <<filed, gone, selected, idxFaults>>
\* The process dies between the raw file and the index, or in a save.
IdxCrash ==
    /\ idxFaults < MaxIdxFaults /\ idxFaults' = idxFaults + 1
    /\ writers' = {} /\ selected' = {}
    /\ UNCHANGED <<filed, gone, index, unindexed, overlapped>>

WorkNext ==
    \/ IdxCrash
    \/ \E w \in writers : SaveIndex(w)
    \/ \E i \in Items : \/ Record(i) \/ Forget(i)
                        \/ \E kind \in {"update", "remove"} : LoadIndex(kind, i)
    \/ \E ctx \in Contexts : SelectForWorkingMemory(ctx)

-----------------------------------------------------------------------------
\* Types of the files, the index and its pending writers.
WorkTypeOK ==
    /\ filed \union gone \union index \union unindexed \union selected \subseteq Items
    /\ writers \subseteq Writer /\ Cardinality(selected) <= MaxSlots

\* What is in the raw files can be found: an entry the index does not list is one
\* whose own index write has not happened, unless two operations on the index
\* overlapped (after a crash between the two writes it stays unlisted for good).
Findable ==
    ~overlapped => filed \subseteq index \union unindexed
=============================================================================
