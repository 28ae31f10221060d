----------------------------- MODULE GoalTree ------------------------------
(***************************************************************************)
(* The goal files of one tree (src/src/state-manager.ts) and the operations *)
(* that grow and remove it: GoalRefiner.refine, GoalTreeManager's           *)
(* decomposition (src/src/goal), pruning, archiving and deletion.           *)
(*                                                                         *)
(* Each is a recursive walk that writes one file at a time, so a walk is a *)
(* stack of frames and every action writes at most one goal; a crash       *)
(* drops the stack and keeps the files.  What the model answers (is it     *)
(* specific, measurable, which children, do they cover the parent) is a    *)
(* choice.  Goals are numbered in the order their ids are drawn.           *)
(***************************************************************************)
EXTENDS Integers, Sequences, FiniteSets

CONSTANTS
    MaxGoals,       \* bound: goals ever created
    MaxDepth,       \* the manager's depth limit
    RefineDepth,    \* RefineConfig.maxDepth
    MaxChildren,    \* children of one decomposition
    TokenBudget,    \* RefineConfig.tokenBudget, in leaf tests
    NoGoal,
    MaxOps,         \* bound: operations started
    MaxCrashes,     \* bound: crashes
    MaxRewrites     \* bound: saves by a loop that holds an archived goal

ASSUME TreeAssumption ==
    /\ MaxGoals \in Nat \ {0} /\ MaxChildren \in Nat \ {0}
    /\ {MaxDepth, RefineDepth, TokenBudget, MaxOps, MaxCrashes, MaxRewrites} \subseteq Nat

VARIABLES
    live,       \* goals/<id>/goal.json
    archive,    \* archive/<id>/goal/goal.json
    side,       \* where tasks/<id> is (strategies, stalls and reports move alike)
    used,       \* ids drawn so far
    stack,      \* the frames of the operation under way
    visited,    \* _visited of archiveGoal and deleteGoal
    tokens,     \* tokensUsed of refine
    ops, crashes, rewrites,
    cut,        \* was an operation cut off by a crash
    removed     \* goals whose deletion was begun

goalFiles == <<live, archive, side>>
walk == <<stack, visited, tokens>>
treeVars == <<goalFiles, used, walk, ops, crashes, rewrites, cut, removed>>

Ids  == 1..MaxGoals
Root == 1
Drawn == 1..used
Statuses == {"active", "cancelled", "archived"}
Goal == [parent : 0..MaxGoals, children : Seq(Ids), type : {"goal", "subgoal", "leaf"},
         depth : 0..MaxDepth, status : Statuses, validated : BOOLEAN]
ASSUME NoGoalAssumption == NoGoal \notin Goal

Ran(s) == {s[i] : i \in DOMAIN s}
Push(frames) == stack' = frames \o Tail(stack)
Pop == Push(<<>>)
Frame(op, id, n, kids) == [op |-> op, id |-> id, n |-> n, kids |-> kids]
Frames(op, kids, n) == [i \in DOMAIN kids |-> Frame(op, kids[i], n, <<>>)]
Top == Head(stack)
At(op) == stack # <<>> /\ Top.op = op
\* A list without one of its members: the j-th place keeps the j-th that stays.
Without(s, x) ==
    LET stays == {i \in DOMAIN s : s[i] # x}
        nth(j) == CHOOSE i \in stays : Cardinality({k \in stays : k <= i}) = j
    IN  [j \in 1..Cardinality(stays) |-> s[nth(j)]]

-----------------------------------------------------------------------------
(* StateManager *)

\* loadGoal falls back to the archived copy.
LoadGoal(id) == IF live[id] # NoGoal THEN live[id] ELSE archive[id]
SaveGoal(id, g) == live' = [live EXCEPT ![id] = g] /\ UNCHANGED <<archive, side>>
Leaf(g) == [g EXCEPT !.type = "leaf"]
NewGoal(p, depth) == [parent |-> p, children |-> <<>>, type |-> "subgoal", depth |-> depth,
                      status |-> "active", validated |-> FALSE]

TreeInit ==
    /\ live = [id \in Ids |-> IF id = Root THEN [NewGoal(0, 0) EXCEPT !.type = "goal"]
                              ELSE NoGoal]
    /\ archive = [id \in Ids |-> NoGoal]
    /\ side = [id \in Ids |-> "none"]
    /\ used = 1 /\ stack = <<>> /\ visited = {} /\ tokens = 0
    /\ ops = 0 /\ crashes = 0 /\ rewrites = 0 /\ cut = FALSE /\ removed = {}

Begin(op, id) ==
    /\ stack = <<>> /\ ops < MaxOps /\ ops' = ops + 1
    /\ stack' = <<Frame(op, id, 0, <<>>)>> /\ visited' = {} /\ tokens' = 0
    /\ UNCHANGED <<used, crashes, rewrites, cut>>

\* ensureGoalRefined before the first node, reRefineLeaf at a stall: of a goal
\* a loop runs on, which is an active one.
StartRefine(id) ==
    /\ live[id] # NoGoal /\ live[id].status = "active"
    /\ Begin("refine", id) /\ UNCHANGED <<goalFiles, removed>>
\* The loop leaves tasks behind for the goal it works on.
Work ==
    /\ stack = <<>> /\ live[Root] # NoGoal /\ side[Root] = "none"
    /\ side' = [side EXCEPT ![Root] = "live"]
    /\ UNCHANGED <<live, archive, used, walk, ops, crashes, rewrites, cut, removed>>
StartArchive(id) == live[id] # NoGoal /\ Begin("archive", id) /\ UNCHANGED <<goalFiles, removed>>
StartDelete(id) ==
    /\ Begin("delete", id) /\ removed' = removed \union {id} /\ UNCHANGED goalFiles
\* Only the manager's own interface prunes; taken while nothing is archived.
StartPrune(id) == /\ live[id] # NoGoal /\ id # Root
                  /\ \A other \in Drawn : archive[other] = NoGoal
                  /\ Begin("prune", id) /\ UNCHANGED <<goalFiles, removed>>

\* A step inside a walk leaves the bookkeeping alone.
Inside == UNCHANGED <<ops, crashes, rewrites, cut>>
Keeps == UNCHANGED <<used, visited, tokens, removed>> /\ Inside

-----------------------------------------------------------------------------
(* GoalRefiner._refineInternal *)

RetryLimit == 2
Exhausted(frame) == frame.n >= RefineDepth \/ tokens >= TokenBudget

\* The depth and token limits make a leaf of whatever is there.
RefineForced ==
    /\ At("refine") /\ LoadGoal(Top.id) # NoGoal /\ Exhausted(Top)
    /\ SaveGoal(Top.id, Leaf(LoadGoal(Top.id))) /\ Pop /\ Keeps
RefineValidated ==
    /\ At("refine") /\ LoadGoal(Top.id) # NoGoal /\ ~Exhausted(Top)
    /\ LoadGoal(Top.id).validated
    /\ Pop /\ UNCHANGED goalFiles /\ Keeps
\* A leaf whose dimensions are all read from an api stays without validation.
RefineTested ==
    /\ At("refine") /\ LoadGoal(Top.id) # NoGoal /\ ~Exhausted(Top)
    /\ ~LoadGoal(Top.id).validated
    /\ UNCHANGED <<used, visited, removed>> /\ Inside
    /\ \/ /\ tokens' = tokens + 1
          /\ \E validated \in BOOLEAN : SaveGoal(Top.id, [Leaf(LoadGoal(Top.id)) EXCEPT !.validated = validated])
          /\ Pop
       \/ /\ tokens' \in {tokens, tokens + 1}     \* a failed call costs nothing
          /\ Push(<<Frame("decompose", Top.id, 0, <<>>), Frame("children", Top.id, Top.n, <<>>)>>)
          /\ UNCHANGED goalFiles
RefineChildren ==
    /\ At("children")
    /\ Push(Frames("refine", LoadGoal(Top.id).children, Top.n + 1))
    /\ UNCHANGED goalFiles /\ Keeps
\* A listed goal that is on neither side: the walk ends with an exception.
RefineMissing ==
    /\ At("refine") /\ LoadGoal(Top.id) = NoGoal
    /\ stack' = <<>> /\ cut' = TRUE
    /\ UNCHANGED <<goalFiles, used, visited, tokens, ops, crashes, rewrites, removed>>

-----------------------------------------------------------------------------
(* GoalTreeManager._decomposeGoalInternal *)

MutMayDecompose(g) == g.depth <= MaxDepth
MayDecompose(g) == g.depth < MaxDepth
\* Specific enough (never the root), at the depth limit, or no children came
\* back: the goal is saved as a leaf.
DecomposeLeaf ==
    /\ At("decompose")
    /\ SaveGoal(Top.id, Leaf(LoadGoal(Top.id))) /\ Pop /\ Keeps
\* Children that do not cover the parent are asked for again, twice at most.
MutDecomposeRetry ==
    /\ At("decompose") /\ MayDecompose(LoadGoal(Top.id))
    /\ Push(<<Frame("decompose", Top.id, (Top.n + 1) % (RetryLimit + 1), <<>>)>>)
    /\ UNCHANGED goalFiles /\ Keeps
DecomposeRetry ==
    /\ At("decompose") /\ MayDecompose(LoadGoal(Top.id)) /\ Top.n < RetryLimit
    /\ Push(<<Frame("decompose", Top.id, Top.n + 1, <<>>)>>)
    /\ UNCHANGED goalFiles /\ Keeps
MutGrowth(id, kids) ==
    <<Frame("link", id, 0, kids)>> \o Frames("save", kids, id) \o Frames("decompose", kids, 0)
Growth(id, kids) ==
    Frames("save", kids, id) \o <<Frame("link", id, 0, kids)>> \o Frames("decompose", kids, 0)
DecomposeAccept ==
    /\ At("decompose") /\ MayDecompose(LoadGoal(Top.id))
    /\ \E k \in 1..MaxChildren :
         LET kids == [i \in 1..k |-> used + i] IN
         /\ used + k <= MaxGoals /\ used' = used + k
         /\ Push(Growth(Top.id, kids))
    /\ SaveGoal(Top.id, LoadGoal(Top.id))
    /\ UNCHANGED <<visited, tokens, removed>> /\ Inside
SaveChild ==
    /\ At("save")
    /\ SaveGoal(Top.id, NewGoal(Top.n, LoadGoal(Top.n).depth + 1)) /\ Pop /\ Keeps
LinkChildren ==
    /\ At("link")
    /\ SaveGoal(Top.id, [LoadGoal(Top.id) EXCEPT !.children = @ \o Top.kids]) /\ Pop /\ Keeps

-----------------------------------------------------------------------------
(* Pruning *)

Prune ==
    /\ At("prune")
    /\ Push(<<Frame("cancel", Top.id, 0, <<>>), Frame("unlink", Top.id, 0, <<>>)>>)
    /\ UNCHANGED goalFiles /\ Keeps
CancelGoalAndDescendants ==
    /\ At("cancel") /\ UNCHANGED goalFiles /\ Keeps
    /\ IF LoadGoal(Top.id) = NoGoal THEN Pop
       ELSE Push(Frames("cancel", LoadGoal(Top.id).children, 0)
                 \o <<Frame("cancelled", Top.id, 0, <<>>)>>)
Cancelled ==
    /\ At("cancelled") /\ Pop /\ Keeps
    /\ SaveGoal(Top.id, [LoadGoal(Top.id) EXCEPT !.status = "cancelled"])
Unlink ==
    /\ At("unlink") /\ Pop /\ Keeps
    /\ LET p == LoadGoal(Top.id).parent IN
       IF LoadGoal(p) = NoGoal THEN UNCHANGED goalFiles
       ELSE SaveGoal(p, [LoadGoal(p) EXCEPT !.children = Without(@, Top.id)])

-----------------------------------------------------------------------------
(* Archiving and deleting: children first, each goal at most once *)

MutArchiveGoal ==
    /\ At("archive") /\ UNCHANGED <<goalFiles, used, tokens, removed>> /\ Inside
    /\ IF Top.id \in visited \/ live[Top.id] = NoGoal THEN Pop /\ UNCHANGED visited
       ELSE /\ visited' = visited \union {Top.id}
            /\ Push(<<Frame("copy", Top.id, 0, <<>>), Frame("remove", Top.id, 0, <<>>)>>
                    \o Frames("archive", LoadGoal(Top.id).children, 0))
ArchiveGoal ==
    /\ At("archive") /\ UNCHANGED <<goalFiles, used, tokens, removed>> /\ Inside
    /\ IF Top.id \in visited \/ live[Top.id] = NoGoal THEN Pop /\ UNCHANGED visited
       ELSE /\ visited' = visited \union {Top.id}
            /\ Push(Frames("archive", LoadGoal(Top.id).children, 0)
                    \o <<Frame("copy", Top.id, 0, <<>>), Frame("remove", Top.id, 0, <<>>),
                         Frame("mark", Top.id, 0, <<>>), Frame("sideCopy", Top.id, 0, <<>>),
                         Frame("sideRemove", Top.id, 0, <<>>)>>)
CopyToArchive ==
    /\ At("copy") /\ Pop /\ Keeps
    /\ archive' = [archive EXCEPT ![Top.id] = live[Top.id]] /\ UNCHANGED <<live, side>>
RemoveLive ==
    /\ At("remove") /\ Pop /\ Keeps
    /\ live' = [live EXCEPT ![Top.id] = NoGoal] /\ UNCHANGED <<archive, side>>
MarkArchived ==
    /\ At("mark") /\ Pop /\ Keeps
    /\ archive' = [archive EXCEPT ![Top.id].status = "archived"] /\ UNCHANGED <<live, side>>
MoveSide(op, from, to) ==
    /\ At(op) /\ Pop /\ Keeps /\ UNCHANGED <<live, archive>>
    /\ side' = [side EXCEPT ![Top.id] = IF @ \in from THEN to ELSE @]

DeleteGoal ==
    /\ At("delete") /\ UNCHANGED <<goalFiles, used, tokens>> /\ Inside
    /\ removed' = removed \union {Top.id}
    /\ IF Top.id \in visited \/ LoadGoal(Top.id) = NoGoal THEN Pop /\ UNCHANGED visited
       ELSE /\ visited' = visited \union {Top.id}
            /\ Push(Frames("delete", LoadGoal(Top.id).children, 0)
                    \o <<Frame(IF live[Top.id] # NoGoal THEN "remove" ELSE "rmArchive",
                               Top.id, 0, <<>>)>>)
RemoveArchive ==
    /\ At("rmArchive") /\ Pop /\ Keeps
    /\ archive' = [archive EXCEPT ![Top.id] = NoGoal]
    /\ side' = [side EXCEPT ![Top.id] = CASE @ = "archived" -> "none"
                                          [] @ = "both" -> "live" [] OTHER -> @]
    /\ UNCHANGED live

-----------------------------------------------------------------------------
(* The environment *)

\* A loop of another process that held the root writes it back.
Rewrite ==
    /\ rewrites < MaxRewrites /\ rewrites' = rewrites + 1
    /\ stack = <<>> /\ live[Root] = NoGoal /\ archive[Root] # NoGoal
    /\ SaveGoal(Root, [archive[Root] EXCEPT !.status = "active"])
    /\ UNCHANGED <<used, walk, ops, crashes, cut, removed>>
CrashTree ==
    /\ crashes < MaxCrashes /\ crashes' = crashes + 1 /\ stack # <<>>
    /\ stack' = <<>> /\ cut' = TRUE
    /\ UNCHANGED <<goalFiles, used, visited, tokens, ops, rewrites, removed>>

WalkStep ==
    \/ RefineForced \/ RefineValidated \/ RefineTested \/ RefineChildren \/ RefineMissing
    \/ DecomposeLeaf \/ DecomposeRetry \/ DecomposeAccept \/ SaveChild \/ LinkChildren
    \/ Prune \/ CancelGoalAndDescendants \/ Cancelled \/ Unlink
    \/ ArchiveGoal \/ CopyToArchive \/ RemoveLive \/ MarkArchived
    \/ MoveSide("sideCopy", {"live"}, "both") \/ MoveSide("sideRemove", {"both"}, "archived")
    \/ DeleteGoal \/ RemoveArchive
TreeNext ==
    \/ WalkStep \/ CrashTree \/ Rewrite \/ Work
    \/ \E id \in Drawn : \/ StartRefine(id) \/ StartArchive(id) \/ StartDelete(id)
                         \/ StartPrune(id)

TreeSpec == TreeInit /\ [][TreeNext]_treeVars /\ WF_treeVars(WalkStep)

-----------------------------------------------------------------------------
(* Properties *)

\* Types of the goal files and of the walk.
TreeTypeOK ==
    /\ \A id \in Ids : live[id] \in Goal \union {NoGoal} /\ archive[id] \in Goal \union {NoGoal}
    /\ side \in [Ids -> {"none", "live", "both", "archived"}]
    /\ used \in Ids /\ visited \subseteq Ids /\ removed \subseteq Ids
    /\ \A i \in DOMAIN stack : stack[i].id \in Ids /\ stack[i].n \in Nat

\* A goal a tree lists, and that nobody deleted, can be loaded, wherever
\* decompositions, archiving and crashes stopped (children are written before
\* their parent lists them, a directory is copied before it is removed).
ListedGoalsLoad ==
    \A id \in Drawn : LoadGoal(id) # NoGoal =>
        \A c \in Ran(LoadGoal(id).children) : LoadGoal(c) # NoGoal \/ c \in removed

\* Below a goal that has been archived nothing is live, even if the archiving
\* was cut off in the middle of a tree (the children go first).
ArchivedBottomUp ==
    \A id \in Drawn :
        live[id] = NoGoal /\ archive[id] # NoGoal =>
            \A c \in Ran(archive[id].children) : live[c] = NoGoal

\* When no operation was cut off, every subgoal that was not pruned or deleted
\* is listed by its parent, so the tree loop can reach it.
NoOrphans ==
    stack = <<>> /\ ~cut => \A id \in Drawn \ (removed \union {Root}) :
        LET g == LoadGoal(id) IN
        g # NoGoal /\ g.status = "active" /\ LoadGoal(g.parent) # NoGoal =>
            id \in Ran(LoadGoal(g.parent).children)

\* What runs ends: retries, depth and the token budget bound every walk.
WalksEnd == stack # <<>> ~> stack = <<>>
=============================================================================
