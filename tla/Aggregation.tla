---------------------------- MODULE Aggregation ----------------------------
(***************************************************************************)
(* StateAggregator (src/src/goal/state-aggregator.ts): the children of a   *)
(* goal are loaded one after the other and their gaps and confidences      *)
(* written into the parent's dimension.  Children move on meanwhile: each  *)
(* load and the save is a step, and a child may be measured, closed or     *)
(* archived in between.                                                    *)
(*                                                                         *)
(* Each goal has one "min" dimension, so that its gap is its progress seen *)
(* from above, in tenths.                                                  *)
(***************************************************************************)
EXTENDS Integers, Sequences, FiniteSetsExt

CONSTANTS
    NumChildren,     \* children_ids of the parent are 1 .. NumChildren
    AggGaps,         \* gaps a child may be measured at
    AggMethods,      \* the rule of the parent: "min" unless one is registered
    MaxAggChanges    \* bound: changes of the children

ASSUME AggregationAssumption ==
    /\ NumChildren \in Nat \ {0} /\ AggGaps \subseteq 0 .. 10
    /\ AggMethods \subseteq {"min", "avg", "max", "all_required"}
    /\ MaxAggChanges \in Nat

AggChildren == 1 .. NumChildren

VARIABLES
    child,           \* goal files of the children: status, gap and confidence
    top,             \* what the parent's dimension says: gap and confidence
    method,          \* resolveAggregationMethod()
    loaded,          \* what aggregateChildStates() has read of the first children
    moved,           \* history: children that changed since they were last read
    aggChanges

aggVars == <<child, top, method, loaded, moved, aggChanges>>

ChildStatus == {"active", "completed", "abandoned", "missing"}

AggInit ==
    /\ child = [c \in AggChildren |-> [status |-> "active", gap |-> 10, confidence |-> 5]]
    /\ top = [gap |-> 10, confidence |-> 5]
    /\ method \in AggMethods
    /\ loaded = <<>> /\ moved = AggChildren /\ aggChanges = 0

\* computeChildGap() and minChildConfidence(): a child that is closed has no
\* gap, one that cannot be loaded all of it.
Reading(g) ==
    IF g.status = "missing" THEN [gap |-> 10, confidence |-> 0]
    ELSE [gap |-> IF g.status \in {"completed", "abandoned"} THEN 0 ELSE g.gap,
          confidence |-> g.confidence]

LoadChild ==
    /\ Len(loaded) < NumChildren
    /\ loaded' = Append(loaded, Reading(child[Len(loaded) + 1]))
    /\ moved' = moved \ {Len(loaded) + 1}
    /\ UNCHANGED <<child, top, method, aggChanges>>

GapsRead == {loaded[c].gap : c \in AggChildren}
GapsUpTo[n \in 0 .. NumChildren] == IF n = 0 THEN 0 ELSE GapsUpTo[n - 1] + loaded[n].gap
TotalGap == GapsUpTo[NumChildren]
AggregateValues ==
    CASE method = "min" -> Min(GapsRead)
      [] method = "max" -> Max(GapsRead)
      [] method = "avg" -> TotalGap \div NumChildren
      [] method = "all_required" -> 10 - Min({10 - g : g \in GapsRead})
MutAggregatedConfidence == Max({loaded[c].confidence : c \in AggChildren})
AggregatedConfidence == Min({loaded[c].confidence : c \in AggChildren})

\* The parent is loaded again and saved with the synthetic value.
SaveParent ==
    /\ Len(loaded) = NumChildren
    /\ top' = [gap |-> AggregateValues, confidence |-> AggregatedConfidence]
    /\ loaded' = <<>>
    /\ UNCHANGED <<child, method, moved, aggChanges>>

\* What others do to the children meanwhile: measure, close, archive.
Change ==
    /\ aggChanges < MaxAggChanges /\ aggChanges' = aggChanges + 1
    /\ \E c \in AggChildren :
        /\ child[c].status # "missing"
        /\ \/ \E g \in AggGaps, x \in {3, 9} :
                child' = [child EXCEPT ![c] = [status |-> @.status, gap |-> g, confidence |-> x]]
           \/ \E s \in {"completed", "abandoned", "missing"} :
                child' = [child EXCEPT ![c].status = s]
        /\ moved' = moved \cup {c}
    /\ UNCHANGED <<top, method, loaded>>

AggNext == LoadChild \/ SaveParent \/ Change
AggSpec == AggInit /\ [][AggNext]_aggVars

-----------------------------------------------------------------------------
\* Types of the goal files and of what was read.
AggTypeOK ==
    /\ \A c \in AggChildren : child[c].status \in ChildStatus /\ child[c].gap \in 0 .. 10
    /\ top.gap \in 0 .. 10 /\ Len(loaded) <= NumChildren /\ moved \subseteq AggChildren

\* "The default is bottleneck aggregation": where a parent stands is where the
\* child that is furthest behind stands, as it was last read.
Standing == loaded = <<>>
BottleneckDecides ==
    Standing => \A c \in AggChildren \ moved : top.gap >= Reading(child[c]).gap

\* However the reads of the children interleave with their changes, a parent
\* is no surer than any child that has not changed since it was read, and,
\* where all children are required, no further.
ParentNotAhead ==
    Standing => \A c \in AggChildren \ moved :
        /\ top.confidence <= Reading(child[c]).confidence
        /\ method = "all_required" => top.gap >= Reading(child[c]).gap
=============================================================================
