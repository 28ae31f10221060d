------------------------------ MODULE TreeLoop ------------------------------
(***************************************************************************)
(* A goal tree driven by CoreLoop.run() in tree mode: decomposition of the *)
(* root, the choice of one node per iteration, the node's iteration, the   *)
(* release of its slot and the completion cascade                          *)
(* (src/src/loop/tree-loop-runner.ts, src/src/goal/tree-loop-orchestrator  *)
(* .ts).  One iteration of a node is CoreLoop's, reduced to what it        *)
(* leaves: the node's dimensions met or not, the judge's streak, and       *)
(* whether the judgement reported completion.                              *)
(*                                                                         *)
(* The values StateAggregator writes into a parent's dimensions are left   *)
(* out: the completion of a goal with children never reads them.           *)
(***************************************************************************)
EXTENDS Naturals, Sequences, FiniteSets

CONSTANTS
    Nodes, Root, None,
    Parent,           \* the tree the decomposer proposes: [Nodes \ {Root} -> Nodes]
    Preorder,         \* Nodes in the order _collectAllDescendantIds lists them
    TreeModes,        \* config.treeMode as a process may start with it
    ParallelLimit,    \* parallel_loop_limit
    PerNodeLimit,     \* budget.perNodeLimit
    MaxIterations, MinIterations,
    MaxRuns,          \* bound: calls of run()
    MaxCrashes        \* bound: runs cut short

ASSUME TreeAssumption ==
    /\ IsFiniteSet(Nodes) /\ Root \in Nodes /\ None \notin Nodes
    \* It is a tree: whoever goes from parent to parent leaves every set.
    /\ Parent \in [Nodes \ {Root} -> Nodes]
    /\ \A S \in SUBSET (Nodes \ {Root}) : S # {} => \E n \in S : Parent[n] \notin S
    /\ Preorder \in [1 .. Cardinality(Nodes) -> Nodes]
    /\ \A n \in Nodes : \E i \in DOMAIN Preorder : Preorder[i] = n
    /\ TreeModes \subseteq BOOLEAN
    /\ ParallelLimit \in Nat \ {0} /\ PerNodeLimit \in Nat \ {0}
    /\ MaxIterations \in Nat \ {0} /\ MinIterations \in Nat
    /\ MaxRuns \in Nat /\ MaxCrashes \in Nat

VARIABLES
    \* the goal files
    split,      \* nodes whose children_ids are saved
    leafs,      \* nodes with node_type "leaf"
    done,       \* nodes with status "completed"; the others are active
    busy,       \* nodes with loop_status "running"; the others are idle
    met,        \* nodes whose dimensions are all met with enough confidence
    ckpt,       \* cycle number of the root's checkpoint
    \* memory of the process
    streak,     \* nodes whose satisficingStreak is 1
    mode,       \* this.config.treeMode, which auto-decomposition turns on
    \* locals of run() and runTreeIteration()
    pc, start, idx,
    tried,      \* the root is in decomposedGoals
    used,       \* nodeConsumedMap
    sel,        \* selectedNodeId
    complete,   \* completionJudgment.is_complete of the iteration
    \* history and bounds
    confirmed,  \* nodes whose own iteration reported completion
    runs, crashes

files  == <<split, leafs, done, busy, met, ckpt>>
locals == <<start, idx, tried, used, sel, complete>>
vars == <<files, streak, mode, pc, locals, confirmed, runs, crashes>>

-----------------------------------------------------------------------------
(* The tree *)

Inner == {Parent[n] : n \in Nodes \ {Root}}

Above[n \in Nodes] == IF n = Root THEN {} ELSE {Parent[n]} \cup Above[Parent[n]]

\* Children lists are saved from the root downwards.
Splits == {s \in SUBSET Inner : \A n \in s : n = Root \/ Parent[n] \in s}

Kids(n)   == IF n \in split THEN {c \in Nodes \ {Root} : Parent[c] = n} ELSE {}
Tree(s)   == {n \in Nodes : n = Root \/ Parent[n] \in s}
Childless(n) == {m \in Tree(split) \ split : m = n \/ n \in Above[m]}

\* The position in the order of a walk over the tree.
Before(m, n) == \E i, j \in DOMAIN Preorder : i < j /\ Preorder[i] = m /\ Preorder[j] = n
Earliest(S)  == CHOOSE n \in S : \A m \in S \ {n} : Before(n, m)

-----------------------------------------------------------------------------
(* Judgements *)

\* judgeTreeCompletion: what blocks a goal with children is what blocks those
\* of its children that are not complete.  A childless goal that is met but
\* waits for its second judgement blocks nothing.
MutPasses(c) == c \notin split => c \in met
Passes(c) == c \in met /\ c \notin split

Blocking[n \in Nodes] ==
    IF n \in split THEN UNION {Blocking[c] : c \in {k \in Kids(n) : ~Passes(k)}}
    ELSE IF n \in met THEN {} ELSE {n}

TreeComplete(n) == Blocking[n] = {}

\* The streaks after a tree judgement: every childless goal below is judged.
TreeStreak(n, s) == (s \ Childless(n)) \cup ((Childless(n) \cap met) \ s)

\* What an iteration of a goal without children does to its streak and says:
\* it was not judged, was unmet, was met before any task, or was met after an
\* unmet judgement and a task.  A failed observation leaves the first
\* judgement on the dimensions as they were.
LeafJudgement(n) ==
    \/ streak' = streak /\ complete' = FALSE
    \/ streak' = streak \ {n} /\ complete' = FALSE
    \/ /\ n \in met \cup met'
       /\ streak' = IF n \in streak THEN streak \ {n} ELSE streak \cup {n}
       /\ complete' = (n \in streak)
    \/ n \in met' /\ streak' = streak \cup {n} /\ complete' = FALSE

\* The same for a goal with children, judged up to twice over its tree.
TreeJudgement(n) ==
    \/ streak' = streak /\ complete' = FALSE
    \/ streak' = TreeStreak(n, streak) /\ complete' = TreeComplete(n)
    \/ streak' = TreeStreak(n, TreeStreak(n, streak)) /\ complete' = TreeComplete(n)

-----------------------------------------------------------------------------
(* run() *)

Init ==
    /\ split = {} /\ leafs = {} /\ done = {} /\ busy = {} /\ met = {} /\ ckpt = 0
    /\ streak = {} /\ mode \in TreeModes
    /\ pc = "idle" /\ start = 0 /\ idx = 0 /\ tried = FALSE
    /\ used = [n \in Nodes |-> 0] /\ sel = None /\ complete = FALSE
    /\ confirmed = {} /\ runs = 0 /\ crashes = 0

\* The locals take a fixed value between runs.
LeaveRun ==
    /\ pc' = "idle" /\ start' = 0 /\ idx' = 0 /\ tried' = FALSE
    /\ used' = [n \in Nodes |-> 0] /\ sel' = None /\ complete' = FALSE

\* A run resumes the cycle of the root's checkpoint and the root's values in
\* it; a failed restore starts from 0.
Run ==
    /\ pc = "idle" /\ runs < MaxRuns /\ Root \notin done
    /\ runs' = runs + 1
    /\ \/ start' = ckpt /\ met' \in (IF ckpt = 0 THEN {met}
                                     ELSE {met, met \cup {Root}, met \ {Root}})
       \/ start' = 0 /\ met' = met
    /\ idx' = start' /\ pc' = "top"
    /\ UNCHANGED <<split, leafs, done, busy, ckpt, streak, mode, tried, used, sel, complete,
                   confirmed, crashes>>

LastIteration ==
    /\ pc = "top" /\ idx >= start + MaxIterations
    /\ LeaveRun
    /\ UNCHANGED <<files, streak, mode, confirmed, runs, crashes>>

\* A goal run without tree mode.
FlatIteration ==
    /\ pc = "top" /\ idx < start + MaxIterations /\ ~mode
    /\ sel' = Root /\ complete' = FALSE /\ pc' = "refine"
    /\ UNCHANGED <<files, streak, mode, start, idx, tried, used, confirmed, runs, crashes>>

-----------------------------------------------------------------------------
(* runTreeIteration: decomposition and selection *)

\* startTreeExecution frees every slot of the tree.
MutFreed == busy
Freed == IF idx = 0 THEN {} ELSE busy

\* A root with children goes to selection; the first iteration of an
\* unresumed run frees the slots of an earlier one.
TreeIteration ==
    /\ pc = "top" /\ idx < start + MaxIterations /\ mode
    /\ complete' = FALSE /\ sel' = None
    /\ IF Root \in split
         THEN pc' = "select" /\ busy' = Freed
         ELSE pc' = "decompose" /\ UNCHANGED busy
    /\ UNCHANGED <<split, leafs, done, met, ckpt, streak, mode, start, idx, tried, used,
                   confirmed, runs, crashes>>

\* What decomposing (or refining) the root may leave on disk: children lists
\* from the root downwards; the refiner may also mark a node with children a
\* leaf.  A decomposition that did not throw has typed every childless node.
Decomposed(throws) ==
    /\ split' \in Splits
    /\ leafs' \in SUBSET Tree(split')
    /\ IF throws THEN Root \in leafs' => Root \notin split'
       ELSE /\ Tree(split') \ split' \subseteq leafs'
            /\ Root \in split' => Root \notin leafs'

\* Without subgoals, or after a throw (whatever it saved), the iteration is a
\* flat one of the root.
Decompose ==
    /\ pc = "decompose"
    /\ \/ Decomposed(FALSE) /\ Root \in split' /\ busy' = {} /\ pc' = "select" /\ UNCHANGED sel
       \/ Decomposed(FALSE) /\ Root \notin split' /\ busy' = {} /\ pc' = "refine" /\ sel' = Root
       \/ Decomposed(TRUE) /\ pc' = "refine" /\ sel' = Root /\ UNCHANGED busy
    /\ UNCHANGED <<done, met, ckpt, streak, mode, start, idx, tried, used, complete,
                   confirmed, runs, crashes>>

\* _selectEligibleNodeId: the deepest idle active leaf, else the first idle
\* active node of another type.
Idle == (Tree(split) \ done) \ busy
Deepest(S) == {n \in S : \A m \in S : Cardinality(Above[m]) <= Cardinality(Above[n])}
Choice == IF Idle \cap leafs # {} THEN Earliest(Deepest(Idle \cap leafs)) ELSE Earliest(Idle)

Full == Cardinality(busy) >= ParallelLimit

\* No slot or no node left: the tree is judged from the root.
SelectNone ==
    /\ pc = "select"
    /\ Full \/ Idle = {}
    /\ streak' = TreeStreak(Root, streak)
    /\ complete' = TreeComplete(Root)
    /\ pc' = "account"
    /\ UNCHANGED <<files, mode, start, idx, tried, used, sel, confirmed, runs, crashes>>

\* The chosen node takes a slot; one that had its share of the budget is
\* skipped and keeps the slot.
SelectNode ==
    /\ pc = "select"
    /\ ~Full /\ Idle # {}
    /\ busy' = busy \cup {Choice}
    /\ IF used[Choice] >= PerNodeLimit
         THEN pc' = "account" /\ UNCHANGED <<used, sel>>
         ELSE /\ used' = [used EXCEPT ![Choice] = @ + 1]
              /\ sel' = Choice /\ pc' = "work"
    /\ UNCHANGED <<split, leafs, done, met, ckpt, streak, mode, start, idx, tried, complete,
                   confirmed, runs, crashes>>

-----------------------------------------------------------------------------
(* The iteration of a node *)

\* phaseAutoDecompose, before the iteration of a root that has no children:
\* once per run, and children turn tree mode on for the iterations to come.
\* ensureGoalRefined leaves a goal with validated dimensions alone and
\* swallows what the refinement throws.
AutoDecompose ==
    /\ pc = "refine"
    /\ pc' = "flat"
    /\ IF Root \in split \/ Root \in leafs \/ tried
         THEN UNCHANGED <<split, leafs, mode, tried>>
         ELSE /\ tried' = TRUE
              /\ \E throws \in BOOLEAN : Decomposed(throws)
              /\ mode' = (mode \/ Root \in split')
    /\ UNCHANGED <<done, busy, met, ckpt, streak, start, idx, used, sel, complete,
                   confirmed, runs, crashes>>

\* runOneIteration of the node: new dimension values, and judgements.
Iterate ==
    /\ pc \in {"work", "flat"}
    /\ met' \in {met \cup {sel}, met \ {sel}}
    /\ IF sel \in split THEN TreeJudgement(sel) ELSE LeafJudgement(sel)
    /\ confirmed' = IF complete' THEN confirmed \cup {sel} ELSE confirmed
    /\ pc' = IF pc = "work" THEN "release" ELSE "account"
    /\ UNCHANGED <<split, leafs, done, busy, ckpt, mode, start, idx, tried, used, sel,
                   runs, crashes>>

\* checkCompletionCascade: the ancestors all of whose children are completed,
\* up to the first that has another child left.  The starting node counts as
\* completed, and so does every ancestor found on the way.
MutCascade(n) == Above[n]
Cascade(n) ==
    {p \in Above[n] :
        \A q \in {p} \cup (Above[n] \ Above[p]) :
            Kids(q) \subseteq done \cup {n} \cup Above[n]}

\* onNodeCompleted, or the node's slot is given back for another turn.
Release ==
    /\ pc = "release"
    /\ busy' = busy \ {sel}
    /\ done' = IF complete THEN done \cup Cascade(sel) ELSE done
    /\ pc' = "account"
    /\ UNCHANGED <<split, leafs, met, ckpt, streak, mode, locals, confirmed, runs, crashes>>

-----------------------------------------------------------------------------
(* run(): after the iteration *)

\* A reported completion, of whichever node, completes the root once the
\* minimum of iterations is done; marking the file may fail.
Finish ==
    /\ pc = "account" /\ complete /\ idx + 1 >= MinIterations
    /\ ckpt' \in {ckpt, idx + 1}
    /\ done' \in {done, done \cup {Root}}
    /\ LeaveRun
    /\ UNCHANGED <<split, leafs, busy, met, streak, mode, confirmed, runs, crashes>>

\* Another iteration, or one of the limits of run() ends it.
Continue ==
    /\ pc = "account" /\ ~(complete /\ idx + 1 >= MinIterations)
    /\ ckpt' \in (IF sel = None THEN {ckpt} ELSE {ckpt, idx + 1})
    /\ \/ /\ pc' = "top" /\ idx' = idx + 1
          /\ UNCHANGED <<start, tried, used, sel, complete>>
       \/ LeaveRun
    /\ UNCHANGED <<split, leafs, done, busy, met, streak, mode, confirmed, runs, crashes>>

\* A read or write of a goal file outside the iteration's own handlers throws
\* out of run().
Throw ==
    /\ pc \in {"top", "select", "work", "release"} /\ crashes < MaxCrashes
    /\ crashes' = crashes + 1
    /\ LeaveRun
    /\ UNCHANGED <<files, streak, mode, confirmed, runs>>

\* The process dies.
Crash ==
    /\ pc # "idle" /\ crashes < MaxCrashes
    /\ crashes' = crashes + 1
    /\ streak' = {} /\ mode' \in TreeModes
    /\ LeaveRun
    /\ UNCHANGED <<files, confirmed, runs>>

Next == \/ Run \/ LastIteration \/ FlatIteration \/ TreeIteration \/ Decompose
        \/ SelectNone \/ SelectNode \/ AutoDecompose \/ Iterate \/ Release
        \/ Finish \/ Continue \/ Throw \/ Crash

Spec == Init /\ [][Next]_vars

-----------------------------------------------------------------------------
(* Properties *)

PC == {"idle", "top", "decompose", "select", "refine", "work", "flat", "release", "account"}

\* Every variable stays in its type, and no more nodes run than have a slot.
TypeOK ==
    /\ split \in Splits /\ leafs \subseteq Nodes /\ done \subseteq Nodes
    /\ busy \subseteq Nodes /\ Cardinality(busy) <= ParallelLimit
    /\ met \subseteq Nodes /\ streak \subseteq Nodes /\ confirmed \subseteq Nodes
    /\ ckpt \in Nat /\ mode \in BOOLEAN /\ pc \in PC
    /\ start \in Nat /\ idx \in Nat /\ tried \in BOOLEAN
    /\ used \in [Nodes -> 0 .. PerNodeLimit]
    /\ sel \in Nodes \cup {None} /\ complete \in BOOLEAN
    /\ runs \in Nat /\ crashes \in Nat

\* A tree is reported complete only when every goal without children in it is
\* met, at whatever depth (judgeTreeCompletion walks it recursively).
TreeVerdictSound ==
    complete /\ pc \in {"release", "account"} =>
        LET n == IF sel = None THEN Root ELSE sel
        IN  n \in split => Childless(n) \subseteq met

\* An inner node below the root is completed only after each of its children
\* was: marked completed itself, or confirmed in its own iteration
\* (checkCompletionCascade, over several iterations and restarts).
CascadeSound ==
    \A n \in done \ {Root} : n \in split /\ Kids(n) \subseteq done \cup confirmed

\* A run that starts at iteration 0 is never blocked by the slots of an
\* earlier one: a slot that is taken when it selects was taken by a node it
\* skipped itself (startTreeExecution).
FreshRunUnblocked ==
    pc = "select" /\ start = 0 => \A n \in busy : used[n] >= PerNodeLimit

-----------------------------------------------------------------------------
(* What the documentation says and the code does not do *)

\* "All child goals are in completed or pruned(merged) state" before the
\* parent completes.  (Violated: the completion of one leaf ends the run as
\* completed and marks the root.)
RootCompletesLast ==
    Root \in done /\ Root \in split => Kids(Root) \subseteq done \cup confirmed \cup met
=============================================================================
