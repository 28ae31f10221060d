------------------------------ MODULE MCGoals ------------------------------
(***************************************************************************)
(* The goal files of a tree, the registration of a goal, the graph of      *)
(* dependencies, and what goals are measured by and worked on with: the    *)
(* observation of a dimension, its gap and what it is worth working on,    *)
(* the gap of a parent, the capabilities, the goals that curiosity         *)
(* proposes, and the data sources, for TLC.  They share no variable, so    *)
(* the first of them to move in a behaviour is the only one that moves.    *)
(***************************************************************************)
EXTENDS GoalTree, Negotiation, GoalDeps, Observation, Aggregation, Capability, Curiosity, Gap, Sources

VARIABLE part

goalsVars == <<treeVars, negVars, depsVars, obsVars, aggVars, capVars, curVars, gapVars,
              srcVars, part>>

\* Only the part named may change its variables.
Only(name) ==
    /\ part = name /\ UNCHANGED part
    /\ IF name = "tree" THEN TRUE ELSE UNCHANGED treeVars
    /\ IF name = "negotiation" THEN TRUE ELSE UNCHANGED negVars
    /\ IF name = "deps" THEN TRUE ELSE UNCHANGED depsVars
    /\ IF name = "observation" THEN TRUE ELSE UNCHANGED obsVars
    /\ IF name = "aggregation" THEN TRUE ELSE UNCHANGED aggVars
    /\ IF name \in {"capability", "order"} THEN TRUE ELSE UNCHANGED capVars
    /\ IF name = "curiosity" THEN TRUE ELSE UNCHANGED curVars
    /\ IF name = "gap" THEN TRUE ELSE UNCHANGED gapVars
    /\ IF name = "sources" THEN TRUE ELSE UNCHANGED srcVars

\* What is a choice for one part is settled for all others.
Settled ==
    /\ part = "observation" \/ /\ setup = [check |-> FALSE, cross |-> FALSE, model |-> FALSE]
                               /\ observed.value = Unknown
    /\ part = "aggregation" \/ method = "min"

GapIdle ==
    /\ gapDims = [n \in DimNames |-> CHOOSE c \in Companions : TRUE]
    /\ setting = [deadline |-> NoDeadline, method |-> "max"]
    /\ turn = [phase |-> "observed", gaps |-> [n \in DimNames |-> 0],
               scores |-> [n \in DimNames |-> 0], target |-> 0]

Init ==
    /\ TreeInit /\ NegInit /\ DepsInit /\ ObsInit /\ AggInit /\ CapInit /\ CurInit
    /\ SrcInit
    /\ part \in {"tree", "negotiation", "deps", "observation", "aggregation", "capability",
                "order", "curiosity", "gap", "sources"}
    /\ Settled
    /\ IF part = "gap" THEN GapInit ELSE GapIdle

TreeStep    == Only("tree") /\ TreeNext
NegStep     == Only("negotiation") /\ NegNext
DepsStep    == Only("deps") /\ DepsNext
ObsStep     == Only("observation") /\ ObsNext
AggStep     == Only("aggregation") /\ AggNext
CapStep     == Only("capability") /\ AcquireStep
OrderStep   == Only("order") /\ AddDependency
CurStep     == Only("curiosity") /\ CurNext
GapStep     == Only("gap") /\ GapNext
SrcStep     == Only("sources") /\ SrcNext

Next == TreeStep \/ NegStep \/ DepsStep \/ ObsStep \/ AggStep \/ CapStep \/ OrderStep
        \/ CurStep \/ GapStep \/ SrcStep

\* A walk over a tree goes on by itself.
Spec == Init /\ [][Next]_goalsVars /\ WF_goalsVars(Only("tree") /\ WalkStep)

\* Types of all.
TypesOK == TreeTypeOK /\ NegTypeOK /\ DepsTypeOK /\ ObsTypeOK /\ AggTypeOK
           /\ CapTypeOK /\ CurTypeOK /\ GapTypeOK /\ SrcTypeOK

\* The files of a tree hang together, whatever was cut off: what is listed loads,
\* below an archived goal nothing is live, and nothing active is unlisted.
TreeSound == ListedGoalsLoad /\ ArchivedBottomUp /\ NoOrphans

\* What the loop goes by it has grounds for: progress and confidence come from
\* evidence, a parent is not surer or further than its children, a capability is
\* available only when it passed its checks, none is acquired before those it
\* needs, curiosity proposes within its limit nothing the user has rejected, an
\* iteration works on a dimension that the judge does not find met, and what a
\* goal was registered to be measured by stays.
GroundsHold ==
    CASE part = "observation" -> GainNeedsEvidence /\ ConfidenceEarned
      [] part = "aggregation" -> ParentNotAhead
      [] part = "capability" -> StatusEarned
      [] part = "order" -> AcquisitionOrdered
      [] part = "curiosity" -> ProposalsBounded /\ RejectedStayOut /\ QuickCheckAgrees
      [] part = "gap" -> SkipsWhenMet /\ TargetIsUnmet /\ FullMeansMet
      [] part = "sources" -> StaysMeasured
      [] OTHER -> TRUE

\* Test bounds.
TwoSources == <<"other", "any">>
Seen(o, s, x) == [origin |-> o, status |-> s, odd |-> x]
SomeGoals == {Seen("user", "active", "nothing"), Seen("user", "active", "stalled"),
              Seen("user", "active", "unclear"), Seen("user", "waiting", "nothing"),
              Seen("user", "completed", "deviates"), Seen("curiosity", "active", "stalled"),
              Seen("curiosity", "active", "deviates")}
SameId == [n \in CapNames |-> 1]
Limit(ty, l, h) == [type |-> ty, low |-> l, high |-> h, value |-> [kind |-> "number", n |-> 1]]
Value(k, x) == [kind |-> k, n |-> x]
Dim(t, v, c, w, d, e) ==
    [threshold |-> t, value |-> v, confidence |-> c, weight |-> w, days |-> d, tier |-> e]
SomeSubjects ==
    {Dim(t, v, c, 1, 0, "self_report") :
       t \in {Limit("min", 0, 0), Limit("min", 2, 0), Limit("max", 0, 0), Limit("max", 0, 2),
              Limit("range", 1, 3), Limit("range", 2, 2), Limit("present", 0, 0), Limit("match", 0, 0)},
       v \in {Value("null", 0), Value("word", 0), Value("blank", 0)}
             \cup {Value("number", x) : x \in {-1, 0, 1, 2, 4}},
       c \in {0, 2, 4}}
SomeCompanions ==
    {Dim(Limit("min", 2, 0), Value("number", 2), 4, 1, 7, "mechanical"),
     Dim(Limit("min", 2, 0), Value("number", 1), 4, 1, 7, "self_report"),
     Dim(Limit("max", 0, 2), Value("null", 0), 0, 1, 1, "independent_review"),
     Dim(Limit("present", 0, 0), Value("word", 0), 0, 2, 7, "mechanical")}
Added(ty, ds) == [type |-> ty, dims |-> ds]
SomeAdded == {Added("file", {"size"}), Added("file_existence", {"readme_exists"}),
              Added("github_issue", {})}
SomeDimSets == {{"readme_exists"}, {"readme_exists", "src_exists"}, {"todo_count"},
                {"readme_exists", "todo_count"}, {"todo_count", "size"}}
=============================================================================
