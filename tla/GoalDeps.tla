----------------------------- MODULE GoalDeps ------------------------------
(***************************************************************************)
(* GoalDependencyGraph (src/src/goal/goal-dependency-graph.ts): typed edges *)
(* between goals, kept in memory in the order they were added and written  *)
(* to dependency-graph.json after every change.                            *)
(***************************************************************************)
EXTENDS Integers, Sequences, FiniteSets

CONSTANTS
    DepGoals,       \* the goals edges may connect
    MaxEdges,       \* bound: edges in the graph
    MaxDepFaults    \* bound: failed writes and restarts

ASSUME DepsAssumption == DepGoals # {} /\ MaxEdges \in Nat /\ MaxDepFaults \in Nat

VARIABLES
    edges,        \* graph.edges
    storedEdges,  \* dependency-graph.json
    reactivated,  \* was an edge that had been left set active again
    depFaults
depsVars == <<edges, storedEdges, reactivated, depFaults>>

EdgeTypes == {"prerequisite", "conflict"}
EdgeStatus == {"active", "satisfied"}
Edge == [from : DepGoals, to : DepGoals, type : EdgeTypes, status : EdgeStatus]
EdgeSet == {edges[i] : i \in DOMAIN edges}

Requires(from, to) == \E e \in EdgeSet :
    /\ e.type = "prerequisite" /\ e.status = "active" /\ e.from = from /\ e.to = to

\* detectCycle: a search from the target along active prerequisites.  What it
\* finds is what every set has that holds the target and is closed under them.
MutDetectCycle(from, to) == from = to \/ Requires(to, from)
Closed(found) == \A h \in found, g \in DepGoals : Requires(h, g) => g \in found
DetectCycle(from, to) ==
    \A found \in SUBSET DepGoals : to \in found /\ Closed(found) => from \in found

\* getPrerequisites: what blocks a goal.
Prerequisites(g) == {e \in EdgeSet : e.to = g /\ e.type = "prerequisite" /\ e.status = "active"}
\* getEdge without a type: the first between the two goals, whatever its type.
FirstEdge(from, to) ==
    LET between == {i \in DOMAIN edges : edges[i].from = from /\ edges[i].to = to}
    IN  {i \in between : \A j \in between : i <= j}

-----------------------------------------------------------------------------
DepsInit == edges = <<>> /\ storedEdges = <<>> /\ reactivated = FALSE /\ depFaults = 0

\* Memory changes first; a failed write leaves the file behind it.
Store == \/ storedEdges' = edges' /\ UNCHANGED depFaults
         \/ depFaults < MaxDepFaults /\ depFaults' = depFaults + 1 /\ UNCHANGED storedEdges

AddEdge(from, to, type) ==
    /\ Len(edges) < MaxEdges
    /\ type = "prerequisite" => ~DetectCycle(from, to)
    /\ edges' = Append(edges, [from |-> from, to |-> to, type |-> type, status |-> "active"])
    /\ Store /\ UNCHANGED reactivated
\* autoDetectDependencies adds what the model names, one edge after another;
\* an edge that throws is passed over.
AutoDetect(first, second) ==
    /\ Len(edges) + 1 < MaxEdges /\ UNCHANGED reactivated
    /\ LET one == IF DetectCycle(first[1], first[2]) THEN <<>>
                  ELSE <<[from |-> first[1], to |-> first[2], type |-> "prerequisite",
                          status |-> "active"]>>
       IN edges' = edges \o one \o
            <<[from |-> second[1], to |-> second[2], type |-> "conflict", status |-> "active"]>>
    /\ Store
\* The positions kept, in their order.
InOrder(kept) == {p \in [1 .. Cardinality(kept) -> kept] :
                    \A j, k \in DOMAIN p : j < k => p[j] < p[k]}
Other(e, from, to, type) == ~(e.from = from /\ e.to = to /\ e.type = type)
RemoveEdge(from, to, type) ==
    /\ \E p \in InOrder({i \in DOMAIN edges : Other(edges[i], from, to, type)}) :
         edges' = [k \in DOMAIN p |-> edges[p[k]]]
    /\ Store /\ UNCHANGED reactivated
\* removeEdge of an edge that is not there.
SaveAgain == UNCHANGED <<edges, reactivated>> /\ Store
UpdateEdgeStatus(from, to, status) ==
    \E i \in FirstEdge(from, to) :
        /\ edges' = [edges EXCEPT ![i].status = status]
        /\ reactivated' = (reactivated \/ (edges[i].status # status /\ status = "active"))
        /\ Store
\* init in a new process: an unreadable file counts as an empty graph.
LoadGraph ==
    /\ depFaults < MaxDepFaults /\ depFaults' = depFaults + 1 /\ edges # <<>>
    /\ edges' \in {storedEdges, <<>>} /\ UNCHANGED <<storedEdges, reactivated>>

DepsNext ==
    \/ LoadGraph \/ SaveAgain
    \/ \E e \in EdgeSet : RemoveEdge(e.from, e.to, e.type)
    \/ \E from \in DepGoals : \E to \in DepGoals \ {from} :
         \/ \E type \in EdgeTypes : AddEdge(from, to, type)
         \/ \E status \in EdgeStatus : UpdateEdgeStatus(from, to, status)
         \/ AutoDetect(<<from, to>>, <<to, from>>)

-----------------------------------------------------------------------------
\* Types of the graph and its file.
DepsTypeOK == edges \in Seq(Edge) /\ storedEdges \in Seq(Edge) /\ reactivated \in BOOLEAN

\* The blocked goals can always be freed: no set of goals waits for itself along
\* active prerequisites, after any additions, removals, failed writes and
\* restarts, as long as no edge is set active again (which is not checked).
NoWaitingCircle ==
    ~reactivated => \A waiting \in SUBSET DepGoals :
        waiting # {} => \E g \in waiting : \A e \in Prerequisites(g) : e.from \notin waiting
=============================================================================
