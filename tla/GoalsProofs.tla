---------------------------- MODULE GoalsProofs ----------------------------
(***************************************************************************)
(* What MCGoals checks on small instances, proved for all: the parts share *)
(* no variable, so each has an inductive invariant of its own, and a step  *)
(* of the whole is a step of one part or none.                             *)
(***************************************************************************)
EXTENDS MCGoals, FiniteSetTheorems, FunctionTheorems, SequenceTheorems, WellFoundedInduction, TLAPS

\* A set of numbers has a smallest.
LEMMA Smallest ==
  ASSUME NEW S \in SUBSET Nat, S # {}
  PROVE  \E x \in S : \A y \in S : x <= y
  <1> DEFINE R == {p \in Nat \X Nat : p[1] < p[2]}
  <1>1. IsWellFoundedOn(R, Nat)
    BY NatLessThanWellFounded, Zenon DEF OpToRel
  <1> HIDE DEF R
  <1>2. PICK x \in S : \A y \in S : ~(<<y, x>> \in R)
    BY <1>1, WFMin
  <1>3. ASSUME NEW y \in S PROVE x <= y
    <2>1. <<y, x>> \in Nat \X Nat /\ ~(<<y, x>> \in R)
      BY <1>2
    <2>2. ~(y < x)
      BY <2>1 DEF R
    <2> QED
      BY <2>2
  <1> QED
    BY <1>3

-----------------------------------------------------------------------------
(* Registration of a goal *)

\* A confidence above "low" has no infeasible and no doubtful dimension.
Justified ==
    initial # "low" =>
        \A d \in asked : assessed[d].assessment # "infeasible" /\ assessed[d].confidence # "low"

\* Nothing is on the disk before it is saved, the goal comes first and its log
\* second, and whoever has an answer has it from a negotiation that has ended.
NegInv ==
    /\ NegTypeOK
    /\ step \in {"ethics", "decompose", "evaluate", "capability", "respond", "save"} =>
         goalFile = "none" /\ ~logFile
    /\ step = "log" => goalFile = initial /\ ~logFile
    /\ step \in {"save", "log"} \/ caller \in {"answered", "registered"} => Justified
    /\ caller \in {"answered", "registered"} => logFile /\ goalFile = initial
    /\ caller \in {"answered", "rejected", "failed", "registered", "declined"} => step = "stopped"
    /\ caller \in {"rejected", "declined"} => goalFile = "none" /\ ~logFile

LEMMA NegStart == NegInit => NegInv
  <1>1. NotAsked \in [NegDims -> Result]
    BY DEF NotAsked, Result, Assessments, Levels
  <1> QED
    BY <1>1 DEF NegInit, NegInv, NegTypeOK, Levels, Answers, Justified

\* An exception, with the files as they are.
LEMMA NegThrow ==
  ASSUME NegInv, NEW word \in {"rejected", "failed"}, Throw(word), Files,
         word = "rejected" => step = "ethics", step # "stopped",
         UNCHANGED <<assessed, asked, response, initial>>
  PROVE  NegInv'
  <1>1. CASE caller = "waiting"
    BY <1>1 DEF NegInv, Throw, Files, NegTypeOK, Justified
  <1>2. CASE caller # "waiting"
    BY <1>2 DEF NegInv, Throw, Files, NegTypeOK, Justified
  <1> QED
    BY <1>1, <1>2

LEMMA NegKeeps == NegInv /\ [NegNext]_negVars => NegInv'
  <1> SUFFICES ASSUME NegInv, [NegNext]_negVars PROVE NegInv'
    OBVIOUS
  <1> USE DEF NegInv, NegTypeOK
  <1>1. CASE EthicsCheck
    <2>1. CASE step' = "decompose" /\ UNCHANGED caller
      BY <1>1, <2>1 DEF EthicsCheck, Files, Justified
    <2>2. CASE \E word \in {"rejected", "failed"} : Throw(word)
      BY <1>1, <2>2, NegThrow DEF EthicsCheck
    <2> QED
      BY <1>1, <2>1, <2>2 DEF EthicsCheck
  <1>2. CASE Decompose
    <2>1. CASE Throw("failed") /\ UNCHANGED asked
      BY <1>2, <2>1, NegThrow DEF Decompose
    <2>2. CASE step' = "evaluate" /\ asked' \in SUBSET NegDims /\ UNCHANGED caller
      BY <1>2, <2>2 DEF Decompose, Files
    <2> QED
      BY <1>2, <2>1, <2>2 DEF Decompose
  <1>3. CASE Evaluate
    <2>1. assessed' \in [NegDims -> Result]
      BY <1>3 DEF Evaluate, Result, FailedEvaluation, Assessments, Levels
    <2> QED
      BY <1>3, <2>1 DEF Evaluate, Files
  <1>4. CASE CapabilityCheck
    <2>1. assessed' \in [NegDims -> Result]
      BY <1>4 DEF CapabilityCheck, Result, Assessments
    <2> QED
      BY <1>4, <2>1 DEF CapabilityCheck, Files
  <1>5. CASE Respond
    <2>1. CASE Throw("failed") /\ UNCHANGED <<response, initial>>
      BY <1>5, <2>1, NegThrow DEF Respond
    <2>2. CASE step' = "save" /\ response' = ResponseType /\ initial' = InitialConfidence
               /\ UNCHANGED caller
      <3>1. Justified'
        BY <1>5, <2>2 DEF Respond, Justified, InitialConfidence, Has
      <3>2. response' \in Answers /\ initial' \in Levels
        BY <2>2 DEF ResponseType, InitialConfidence, Answers, Levels
      <3> QED
        BY <1>5, <2>2, <3>1, <3>2 DEF Respond, Files
    <2> QED
      BY <1>5, <2>1, <2>2 DEF Respond
  <1>6. CASE SaveNegotiated
    <2>1. CASE Throw("failed") /\ UNCHANGED goalFile
      BY <1>6, <2>1, NegThrow DEF SaveNegotiated, Files
    <2>2. CASE step' = "log" /\ goalFile' = initial /\ UNCHANGED caller
      BY <1>6, <2>2 DEF SaveNegotiated, Justified
    <2> QED
      BY <1>6, <2>1, <2>2 DEF SaveNegotiated
  <1>7. CASE SaveLog
    <2>1. CASE Throw("failed") /\ UNCHANGED logFile
      BY <1>7, <2>1, NegThrow DEF SaveLog, Files
    <2>2. CASE step' = "stopped" /\ logFile' = TRUE
               /\ caller' = IF caller = "waiting" THEN "answered" ELSE caller
      BY <1>7, <2>2 DEF SaveLog, Justified
    <2> QED
      BY <1>7, <2>1, <2>2 DEF SaveLog
  <1>8. CASE NegTimeout
    BY <1>8 DEF NegTimeout, Justified
  <1>9. CASE CallerExits
    BY <1>9 DEF CallerExits, Justified
  <1>10. CASE Confirm
    BY <1>10 DEF Confirm, Files, Justified
  <1>11. CASE UNCHANGED negVars
    BY <1>11 DEF negVars, Justified
  <1> QED
    BY <1>1, <1>2, <1>3, <1>4, <1>5, <1>6, <1>7, <1>8, <1>9, <1>10, <1>11 DEF NegNext

LEMMA NegTold == NegInv => RegisteredAsTold
  BY DEF NegInv, NegTypeOK, Levels, RegisteredAsTold, Justified

-----------------------------------------------------------------------------
(* The graph of dependencies *)

Blocks(e) == e.type = "prerequisite" /\ e.status = "active"

\* No set of goals waits for itself along the active prerequisites of a graph.
NoCircle(graph) ==
    \A waiting \in SUBSET DepGoals :
        waiting # {} => \E g \in waiting : \A i \in DOMAIN graph :
            Blocks(graph[i]) /\ graph[i].to = g => graph[i].from \notin waiting

\* The file may be behind, but it is a graph that was once in memory.
DepsInv ==
    /\ DepsTypeOK
    /\ ~reactivated => NoCircle(edges) /\ NoCircle(storedEdges)

\* A graph whose blocking edges are some of another's has no more circles.
LEMMA FewerEdges ==
  ASSUME NEW old, NEW new, NoCircle(old),
         \A i \in DOMAIN new : Blocks(new[i]) =>
            \E j \in DOMAIN old : Blocks(old[j]) /\ old[j].to = new[i].to /\ old[j].from = new[i].from
  PROVE  NoCircle(new)
  <1> SUFFICES ASSUME NEW waiting \in SUBSET DepGoals, waiting # {}
               PROVE  \E g \in waiting : \A i \in DOMAIN new :
                        Blocks(new[i]) /\ new[i].to = g => new[i].from \notin waiting
    BY DEF NoCircle
  <1>1. PICK g \in waiting : \A j \in DOMAIN old :
                Blocks(old[j]) /\ old[j].to = g => old[j].from \notin waiting
    BY DEF NoCircle
  <1>2. ASSUME NEW i \in DOMAIN new, Blocks(new[i]), new[i].to = g
        PROVE  new[i].from \notin waiting
    <2>1. PICK j \in DOMAIN old :
                Blocks(old[j]) /\ old[j].to = new[i].to /\ old[j].from = new[i].from
      BY <1>2
    <2> QED
      BY <1>1, <1>2, <2>1
  <1> QED
    BY <1>2

\* An edge that the search for a cycle lets pass closes no circle: the goals
\* of a circle that the search did not find from the target would be one without
\* the edge, and those it did find do not use it.
LEMMA OneMoreEdge ==
  ASSUME DepsTypeOK, NoCircle(edges),
         NEW from \in DepGoals, NEW to \in DepGoals, ~DetectCycle(from, to),
         NEW new,
         \A i \in DOMAIN new : Blocks(new[i]) =>
            \/ \E j \in DOMAIN edges :
                  Blocks(edges[j]) /\ edges[j].to = new[i].to /\ edges[j].from = new[i].from
            \/ new[i].to = to /\ new[i].from = from
  PROVE  NoCircle(new)
  <1>1. PICK found \in SUBSET DepGoals : to \in found /\ Closed(found) /\ from \notin found
    BY DEF DetectCycle
  <1> SUFFICES ASSUME NEW waiting \in SUBSET DepGoals, waiting # {},
                      \A g \in waiting : \E i \in DOMAIN new :
                        Blocks(new[i]) /\ new[i].to = g /\ new[i].from \in waiting
               PROVE  FALSE
    BY DEF NoCircle
  <1>2. ASSUME NEW h, NEW g, NEW j \in DOMAIN edges,
               Blocks(edges[j]), edges[j].from = h, edges[j].to = g, h \in found
        PROVE  g \in found
    <2>1. edges[j] \in Edge
      BY DEF DepsTypeOK
    <2>2. g \in DepGoals /\ Requires(h, g)
      BY <1>2, <2>1 DEF Edge, Requires, EdgeSet, Blocks
    <2> QED
      BY <1>1, <1>2, <2>2 DEF Closed
  <1>3. CASE waiting \subseteq found
    <2>1. \A g \in waiting : \E j \in DOMAIN edges :
             Blocks(edges[j]) /\ edges[j].to = g /\ edges[j].from \in waiting
      BY <1>1, <1>3
    <2> QED
      BY <2>1 DEF NoCircle
  <1>4. CASE ~(waiting \subseteq found)
    <2> DEFINE rest == waiting \ found
    <2>1. ASSUME NEW g \in rest
          PROVE  \E j \in DOMAIN edges :
                    Blocks(edges[j]) /\ edges[j].to = g /\ edges[j].from \in rest
      <3>1. PICK i \in DOMAIN new : Blocks(new[i]) /\ new[i].to = g /\ new[i].from \in waiting
        OBVIOUS
      <3>2. new[i].to # to
        BY <1>1, <3>1
      <3>3. PICK j \in DOMAIN edges :
                Blocks(edges[j]) /\ edges[j].to = g /\ edges[j].from = new[i].from
        BY <3>1, <3>2
      <3>4. edges[j].from \notin found
        BY <1>2, <3>3
      <3> QED
        BY <3>1, <3>3, <3>4
    <2>2. rest # {} /\ rest \in SUBSET DepGoals
      BY <1>4
    <2> HIDE DEF rest
    <2> QED
      BY <2>1, <2>2 DEF NoCircle
  <1> QED
    BY <1>3, <1>4

LEMMA DepsStart == DepsInit => DepsInv
  <1>1. <<>> \in Seq(Edge)
    OBVIOUS
  <1>2. NoCircle(<<>>)
    BY DEF NoCircle
  <1> QED
    BY <1>1, <1>2 DEF DepsInit, DepsInv, DepsTypeOK

\* Whatever memory holds, the file is written or left.
LEMMA DepsStored ==
  ASSUME DepsInv, edges' \in Seq(Edge), reactivated' \in BOOLEAN, Store,
         ~reactivated' => ~reactivated /\ NoCircle(edges')
  PROVE  DepsInv'
  <1>1. storedEdges' = edges' \/ storedEdges' = storedEdges
    BY DEF Store
  <1>2. DepsTypeOK'
    BY <1>1 DEF DepsInv, DepsTypeOK
  <1>3. ~reactivated' => NoCircle(edges') /\ NoCircle(storedEdges')
    BY <1>1 DEF DepsInv
  <1> QED
    BY <1>2, <1>3 DEF DepsInv, NoCircle

LEMMA DepsKeeps == DepsInv /\ [DepsNext]_depsVars => DepsInv'
  <1> SUFFICES ASSUME DepsInv, [DepsNext]_depsVars PROVE DepsInv'
    OBVIOUS
  <1>1. DepsTypeOK /\ (~reactivated => NoCircle(edges) /\ NoCircle(storedEdges))
    BY DEF DepsInv
  <1>2. edges \in Seq(Edge) /\ storedEdges \in Seq(Edge) /\ reactivated \in BOOLEAN
    BY <1>1 DEF DepsTypeOK
  <1>3. CASE LoadGraph
    <2>1. edges' \in {storedEdges, <<>>} /\ UNCHANGED <<storedEdges, reactivated>>
      BY <1>3 DEF LoadGraph
    <2>2. NoCircle(<<>>)
      BY DEF NoCircle
    <2>3. ~reactivated' => NoCircle(edges') /\ NoCircle(storedEdges')
      BY <1>1, <2>1, <2>2
    <2>4. DepsTypeOK'
      <3>1. <<>> \in Seq(Edge)
        OBVIOUS
      <3> QED
        BY <1>2, <2>1, <3>1 DEF DepsTypeOK
    <2> QED
      BY <2>3, <2>4 DEF DepsInv, NoCircle
  <1>4. CASE SaveAgain
    BY <1>1, <1>2, <1>4, DepsStored DEF SaveAgain
  <1>5. ASSUME NEW e \in EdgeSet, RemoveEdge(e.from, e.to, e.type)
        PROVE  DepsInv'
    <2> DEFINE kept == {i \in DOMAIN edges : Other(edges[i], e.from, e.to, e.type)}
    <2>1. PICK p \in InOrder(kept) : edges' = [k \in DOMAIN p |-> edges[p[k]]]
      BY <1>5 DEF RemoveEdge
    <2>2. Cardinality(kept) \in Nat
      <3>1. kept \in SUBSET (1 .. Len(edges)) /\ Len(edges) \in Nat
        BY <1>2
      <3>2. IsFiniteSet(1 .. Len(edges))
        BY <3>1, FS_Interval
      <3> QED
        BY <3>1, <3>2, FS_Subset, FS_CardinalityType
    <2>3. p \in [1 .. Cardinality(kept) -> kept]
      BY <2>1 DEF InOrder
    <2> HIDE DEF kept
    <2>4. kept \subseteq DOMAIN edges
      BY DEF kept
    <2>5. edges' \in Seq(Edge)
      <3>1. \A k \in 1 .. Cardinality(kept) : edges[p[k]] \in Edge
        BY <1>2, <2>3, <2>4
      <3>2. edges' = [k \in 1 .. Cardinality(kept) |-> edges[p[k]]]
        BY <2>1, <2>3
      <3> QED
        BY <2>2, <3>1, <3>2
    <2>6. \A k \in DOMAIN edges' : \E j \in DOMAIN edges : edges'[k] = edges[j]
      BY <2>1, <2>3, <2>4
    <2>7. NoCircle(edges) => NoCircle(edges')
      BY <2>6, FewerEdges
    <2> QED
      BY <1>1, <1>2, <1>5, <2>5, <2>7, DepsStored DEF RemoveEdge
  <1>6. ASSUME NEW from \in DepGoals, NEW to \in DepGoals \ {from}, NEW type \in EdgeTypes,
               AddEdge(from, to, type)
        PROVE  DepsInv'
    <2> DEFINE new == [from |-> from, to |-> to, type |-> type, status |-> "active"]
    <2>1. edges' = Append(edges, new) /\ UNCHANGED reactivated /\ Store
          /\ (type = "prerequisite" => ~DetectCycle(from, to))
      BY <1>6 DEF AddEdge
    <2>2. new \in Edge
      BY DEF Edge, EdgeStatus
    <2>3. edges' \in Seq(Edge)
      BY <1>2, <2>1, <2>2
    <2>4. ASSUME NEW i \in DOMAIN edges'
          PROVE  edges'[i] = new \/ \E j \in DOMAIN edges : edges'[i] = edges[j]
      BY <1>2, <2>1, <2>2, <2>4
    <2>5. ASSUME ~reactivated PROVE NoCircle(edges')
      <3>1. CASE type = "prerequisite"
        <4>1. \A i \in DOMAIN edges' : Blocks(edges'[i]) =>
                \/ \E j \in DOMAIN edges : /\ Blocks(edges[j]) /\ edges[j].to = edges'[i].to
                                            /\ edges[j].from = edges'[i].from
                \/ edges'[i].to = to /\ edges'[i].from = from
          BY <2>4
        <4> HIDE DEF new
        <4> QED
          BY <1>1, <2>1, <2>5, <3>1, <4>1, OneMoreEdge
      <3>2. CASE type # "prerequisite"
        <4>1. ~Blocks(new)
          BY <3>2 DEF Blocks
        <4> QED
          BY <1>1, <2>4, <2>5, <4>1, FewerEdges
      <3> QED
        BY <3>1, <3>2
    <2> QED
      BY <1>2, <2>1, <2>3, <2>5, DepsStored
  <1>7. ASSUME NEW from \in DepGoals, NEW to \in DepGoals \ {from}, NEW status \in EdgeStatus,
               UpdateEdgeStatus(from, to, status)
        PROVE  DepsInv'
    <2>1. PICK i \in DOMAIN edges :
            /\ edges' = [edges EXCEPT ![i].status = status]
            /\ reactivated' = (reactivated \/ (edges[i].status # status /\ status = "active"))
            /\ Store
      BY <1>7 DEF UpdateEdgeStatus, FirstEdge
    <2>2. edges[i] \in Edge
      BY <1>2
    <2>3. edges' \in Seq(Edge)
      <3> DEFINE new == [edges[i] EXCEPT !.status = status]
      <3>1. new \in Edge
        BY <2>2 DEF Edge
      <3>2. edges' = [edges EXCEPT ![i] = new]
        BY <2>1
      <3> HIDE DEF new
      <3> QED
        BY <1>2, <3>1, <3>2
    <2>4. ASSUME ~reactivated', NEW j \in DOMAIN edges', Blocks(edges'[j])
          PROVE  Blocks(edges[j]) /\ edges[j].to = edges'[j].to /\ edges[j].from = edges'[j].from
      <3>1. edges[j] \in Edge /\ j \in DOMAIN edges
        BY <1>2, <2>1
      <3> QED
        BY <1>2, <2>1, <2>2, <2>4, <3>1 DEF Blocks, Edge
    <2>5. ASSUME ~reactivated' PROVE ~reactivated /\ NoCircle(edges')
      <3>1. ~reactivated
        BY <2>1, <2>5
      <3>2. DOMAIN edges' = DOMAIN edges
        BY <2>1
      <3> QED
        BY <1>1, <2>4, <2>5, <3>1, <3>2, FewerEdges
    <2>6. reactivated' \in BOOLEAN
      BY <1>2, <2>1
    <2> QED
      BY <2>1, <2>3, <2>5, <2>6, DepsStored
  <1>8. ASSUME NEW from \in DepGoals, NEW to \in DepGoals \ {from},
               AutoDetect(<<from, to>>, <<to, from>>)
        PROVE  DepsInv'
    <2> DEFINE new == [from |-> from, to |-> to, type |-> "prerequisite", status |-> "active"]
               other == [from |-> to, to |-> from, type |-> "conflict", status |-> "active"]
               one == IF DetectCycle(from, to) THEN <<>> ELSE <<new>>
    <2>1. edges' = edges \o one \o <<other>> /\ UNCHANGED reactivated /\ Store
      BY <1>8 DEF AutoDetect
    <2>2. new \in Edge /\ other \in Edge
      BY DEF Edge, EdgeTypes, EdgeStatus
    <2>3. one \in Seq(Edge) /\ <<other>> \in Seq(Edge) /\ ~Blocks(other)
      BY <2>2 DEF Blocks
    <2>4. edges' \in Seq(Edge)
      <3> HIDE DEF one, other
      <3> QED
        BY <1>2, <2>1, <2>3
    <2>5. ASSUME NEW i \in DOMAIN edges'
          PROVE  \/ \E j \in DOMAIN edges : edges'[i] = edges[j]
                 \/ edges'[i] = other
                 \/ edges'[i] = new /\ ~DetectCycle(from, to)
      <3>1. CASE DetectCycle(from, to)
        <4>1. one = <<>>
          BY <3>1
        <4> HIDE DEF new, other, one
        <4> QED
          BY <1>2, <2>1, <2>2, <2>5, <4>1
      <3>2. CASE ~DetectCycle(from, to)
        <4>1. one = <<new>>
          BY <3>2
        <4> HIDE DEF new, other, one
        <4> QED
          BY <1>2, <2>1, <2>2, <2>5, <3>2, <4>1
      <3> QED
        BY <3>1, <3>2
    <2>6. ASSUME ~reactivated PROVE NoCircle(edges')
      <3> DEFINE Old(e) == \E j \in DOMAIN edges :
                    Blocks(edges[j]) /\ edges[j].to = e.to /\ edges[j].from = e.from
      <3>1. \A i \in DOMAIN edges' : Blocks(edges'[i]) =>
              Old(edges'[i]) \/ (edges'[i] = new /\ ~DetectCycle(from, to))
        <4> HIDE DEF new, other
        <4> QED
          BY <2>3, <2>5
      <3>2. CASE DetectCycle(from, to)
        BY <1>1, <2>6, <3>1, <3>2, FewerEdges
      <3>3. CASE ~DetectCycle(from, to)
        <4>1. \A i \in DOMAIN edges' : Blocks(edges'[i]) =>
                Old(edges'[i]) \/ (edges'[i].to = to /\ edges'[i].from = from)
          BY <3>1
        <4> HIDE DEF new
        <4> QED
          BY <1>1, <2>6, <3>3, <4>1, OneMoreEdge
      <3> QED
        BY <3>2, <3>3
    <2> HIDE DEF new, other, one
    <2> QED
      BY <1>2, <2>1, <2>4, <2>6, DepsStored
  <1>9. CASE UNCHANGED depsVars
    BY <1>1, <1>9 DEF depsVars, DepsInv, DepsTypeOK, NoCircle
  <1> QED
    BY <1>3, <1>4, <1>5, <1>6, <1>7, <1>8, <1>9 DEF DepsNext

LEMMA DepsFreed == DepsInv => NoWaitingCircle
  <1> SUFFICES ASSUME DepsInv, ~reactivated, NEW waiting \in SUBSET DepGoals, waiting # {}
               PROVE  \E g \in waiting : \A e \in Prerequisites(g) : e.from \notin waiting
    BY DEF NoWaitingCircle
  <1>1. PICK g \in waiting : \A i \in DOMAIN edges :
                Blocks(edges[i]) /\ edges[i].to = g => edges[i].from \notin waiting
    BY DEF DepsInv, NoCircle
  <1>2. \A e \in Prerequisites(g) : e.from \notin waiting
    BY <1>1 DEF Prerequisites, EdgeSet, Blocks
  <1> QED
    BY <1>2

-----------------------------------------------------------------------------
(* What a dimension is observed to be *)

ObsValues == (Unknown .. 20) \cup Readings

\* What is recorded is covered by the evidence, and no confidence or layer of a
\* measurement comes about without one.
ObsTyped ==
    /\ observed \in [value : Unknown .. 20, confidence : 0 .. 100, layer : Layers]
    /\ latest \in [value : ObsValues, confidence : 0 .. 100]
    /\ rescued \in [layer : Layers, value : ObsValues, confidence : 0 .. 100]
    /\ obsPc \in {"idle", "check", "source", "cross", "model", "recover", "fallback"}
    /\ evidence \in Nat /\ measured \in BOOLEAN /\ observes \in 0 .. MaxObserves
ObsInv ==
    /\ ObsTyped
    /\ observed.value <= evidence /\ latest.value <= evidence /\ rescued.value <= evidence
    /\ observed.layer = "mechanical" \/ observed.confidence >= 85 \/ obsPc = "cross" => measured

ObsEntry == [layer : Layers \ {"none"}, value : ObsValues, confidence : 0 .. 100]

LEMMA ObsNumbers ==
  /\ \A v \in ObsValues : v \in Int /\ v >= -1
  /\ \A v \in Scores : v \in 0 .. 10 /\ v \in ObsValues
  /\ Readings \subseteq Nat
  BY ObservationAssumption DEF ObservationAssumption, ObsValues, Unknown

\* A confidence is brought into the range of its layer, which ends below 0.85
\* for every layer but that of a measurement.
LEMMA CreatedEntry ==
  ASSUME NEW l \in Layers \ {"none"}, NEW v \in ObsValues, NEW c \in Int
  PROVE  LET e == CreateObservationEntry(l, v, c) IN
         /\ e \in ObsEntry /\ e.value = v /\ e.layer = l
         /\ l # "mechanical" => e.confidence < 85
  <1>1. Within(Least(l), Greatest(l), c) \in Least(l) .. Greatest(l)
    BY DEF Within, Larger, Smaller, Least, Greatest, Layers
  <1>2. /\ Least(l) .. Greatest(l) \subseteq 0 .. 100
        /\ l # "mechanical" => Greatest(l) < 85 /\ Greatest(l) \in Int
    BY DEF Least, Greatest, Layers
  <1>3. l # "mechanical" => Within(Least(l), Greatest(l), c) < 85
    BY <1>1, <1>2 DEF Least
  <1> QED
    BY <1>1, <1>2, <1>3 DEF CreateObservationEntry, Entry, ObsEntry

\* An entry that the evidence covers leaves a dimension that it covers.
LEMMA ObsApplied ==
  ASSUME ObsTyped, NEW e \in ObsEntry, NEW bound \in Nat, NEW earned \in BOOLEAN,
         e.value <= bound, observed.value <= bound,
         e.layer = "mechanical" \/ e.confidence >= 85 => earned,
         observed.layer = "mechanical" \/ observed.confidence >= 85 => earned,
         ApplyObservation(e)
  PROVE  /\ observed' \in [value : Unknown .. 20, confidence : 0 .. 100, layer : Layers]
         /\ latest' \in [value : ObsValues, confidence : 0 .. 100]
         /\ observed'.value <= bound /\ latest'.value <= bound
         /\ observed'.layer = "mechanical" \/ observed'.confidence >= 85 => earned
  <1>1. Effective(e) \in Unknown .. 20 /\ Effective(e) <= bound
    BY ObsNumbers DEF Effective, Within, Larger, Smaller, Unknown, ObsTyped, ObsEntry
  <1>2. /\ observed'.value = Effective(e)
        /\ \/ observed'.confidence = e.confidence /\ observed'.layer = e.layer
           \/ observed'.confidence = observed.confidence /\ observed'.layer = observed.layer
        /\ observed' = [value |-> observed'.value, confidence |-> observed'.confidence,
                        layer |-> observed'.layer]
    BY DEF ApplyObservation
  <1>3. latest' = [value |-> e.value, confidence |-> e.confidence]
    BY DEF ApplyObservation
  <1>4. /\ e.value \in ObsValues /\ e.confidence \in 0 .. 100 /\ e.layer \in Layers
        /\ observed.confidence \in 0 .. 100 /\ observed.layer \in Layers
    BY DEF ObsEntry, ObsTyped
  <1> QED
    BY <1>1, <1>2, <1>3, <1>4

LEMMA ObsStart == ObsInit => ObsInv
  <1> SUFFICES ASSUME ObsInit PROVE ObsInv
    OBVIOUS
  <1>1. PICK v \in {Unknown, 2} : observed = [value |-> v, confidence |-> 50, layer |-> "none"]
    BY DEF ObsInit
  <1>2. observed \in [value : Unknown .. 20, confidence : 0 .. 100, layer : Layers]
    BY <1>1 DEF Unknown, Layers
  <1>3. latest \in [value : ObsValues, confidence : 0 .. 100]
        /\ rescued \in [layer : Layers, value : ObsValues, confidence : 0 .. 100]
    BY DEF ObsInit, Entry, Unknown, ObsValues, Layers
  <1>4. /\ obsPc = "idle" /\ evidence \in Nat /\ evidence >= v /\ measured = FALSE /\ observes = 0
        /\ latest.value = -1 /\ rescued.value = -1
    <2>1. observed.value = v /\ v \in Int
      BY <1>1 DEF Unknown
    <2> QED
      BY <2>1 DEF ObsInit, Larger, Entry, Unknown
  <1>5. observes \in 0 .. MaxObserves
    BY <1>4, ObservationAssumption DEF ObservationAssumption
  <1> QED
    <2>1. observed.value = v /\ observed.confidence = 50 /\ observed.layer = "none" /\ v \in Int
      BY <1>1 DEF Unknown
    <2>2. ObsTyped
      BY <1>2, <1>3, <1>4, <1>5 DEF ObsTyped
    <2> QED
      BY <1>4, <2>1, <2>2 DEF ObsInv

\* A recorded observation, or a write that throws.
LEMMA ObsApply ==
  ASSUME ObsInv, NEW e \in ObsEntry, NEW saved, NEW thrown, Apply(e, saved, thrown),
         {saved, thrown} \subseteq {"idle", "check", "source", "cross", "model", "recover", "fallback"},
         thrown # "cross",
         evidence' \in Nat, evidence' >= evidence, e.value <= evidence',
         measured' \in BOOLEAN, measured => measured', saved = "cross" => measured',
         e.layer = "mechanical" \/ e.confidence >= 85 => measured',
         rescued' \in [layer : Layers, value : ObsValues, confidence : 0 .. 100],
         rescued'.value <= evidence', UNCHANGED observes
  PROVE  ObsInv'
  <1>1. /\ observed.value \in Int /\ latest.value \in Int /\ evidence \in Nat
        /\ observed.value <= evidence' /\ latest.value <= evidence'
    BY ObsNumbers DEF ObsInv, ObsTyped, Unknown
  <1>2. CASE ApplyObservation(e) /\ obsPc' = saved
    <2>1. /\ observed' \in [value : Unknown .. 20, confidence : 0 .. 100, layer : Layers]
          /\ latest' \in [value : ObsValues, confidence : 0 .. 100]
          /\ observed'.value <= evidence' /\ latest'.value <= evidence'
          /\ observed'.layer = "mechanical" \/ observed'.confidence >= 85 => measured'
      BY <1>1, <1>2, ObsApplied DEF ObsInv
    <2> QED
      BY <1>2, <2>1 DEF ObsInv, ObsTyped
  <1>3. CASE obsPc' = thrown /\ UNCHANGED <<observed, latest>>
    BY <1>1, <1>3 DEF ObsInv, ObsTyped
  <1> QED
    BY <1>2, <1>3 DEF Apply

LEMMA ObsKeeps == ObsInv /\ [ObsNext]_obsVars => ObsInv'
  <1> SUFFICES ASSUME ObsInv, [ObsNext]_obsVars PROVE ObsInv'
    OBVIOUS
  <1>1. /\ ObsTyped /\ observed.value <= evidence /\ latest.value <= evidence
        /\ rescued.value <= evidence
        /\ (observed.layer = "mechanical" \/ observed.confidence >= 85 \/ obsPc = "cross" => measured)
    BY DEF ObsInv
  <1>2. /\ observed.value \in ObsValues /\ latest.value \in ObsValues /\ rescued.value \in ObsValues
        /\ observed.confidence \in 0 .. 100 /\ latest.confidence \in 0 .. 100
        /\ rescued.confidence \in 0 .. 100 /\ observed.layer \in Layers
        /\ evidence \in Nat /\ measured \in BOOLEAN
    BY <1>1 DEF ObsTyped, ObsValues
  <1>3. CASE StartObserve
    BY <1>1, <1>3, ObservationAssumption DEF StartObserve, ObsInv, ObsTyped, ObservationAssumption
  <1>4. CASE PreCheck
    <2>1. CASE obsPc' = "source" /\ UNCHANGED <<observed, latest, obsFaults>>
      BY <1>1, <1>4, <2>1 DEF PreCheck, ObsInv, ObsTyped
    <2>2. CASE Apply(CreateObservationEntry(CachedLayer, latest.value,
                         Larger(10, (latest.confidence * 95) \div 100)), "idle", "source")
      <3> DEFINE c == Larger(10, (latest.confidence * 95) \div 100)
                 e == CreateObservationEntry(CachedLayer, latest.value, c)
      <3>1. CachedLayer \in Layers \ {"none"}
            /\ (CachedLayer = "mechanical" => observed.layer = "mechanical")
        BY <1>2 DEF CachedLayer, Layers
      <3>2. c \in Int
        BY <1>2 DEF Larger
      <3> HIDE DEF c
      <3>3. /\ e \in ObsEntry /\ e.value = latest.value /\ e.layer = CachedLayer
            /\ CachedLayer # "mechanical" => e.confidence < 85
        BY <1>2, <3>1, <3>2, CreatedEntry
      <3> HIDE DEF e
      <3>4. UNCHANGED <<rescued, evidence, measured, observes>>
        BY <1>4 DEF PreCheck
      <3>5. e.layer = "mechanical" \/ e.confidence >= 85 => measured
        BY <1>1, <3>1, <3>3 DEF ObsEntry
      <3>6. Apply(e, "idle", "source")
        BY <2>2 DEF e, c
      <3>7. rescued \in [layer : Layers, value : ObsValues, confidence : 0 .. 100]
        BY <1>1 DEF ObsTyped
      <3> QED
        BY <1>1, <1>2, <3>3, <3>4, <3>5, <3>6, <3>7, ObsApply
    <2> QED
      BY <1>4, <2>1, <2>2 DEF PreCheck
  <1>5. CASE ObserveFromDataSource
    <2>1. PICK r \in SourceAnswers :
            IF SourceFor = 0 \/ r = Unknown
              THEN /\ obsPc' = "model"
                   /\ UNCHANGED <<observed, latest, evidence, measured, obsFaults>>
              ELSE /\ Apply(Entry("mechanical", r, 90),
                            IF setup.cross /\ setup.model THEN "cross" ELSE "idle", "model")
                   /\ evidence' = Larger(evidence, r) /\ measured' = TRUE
      BY <1>5 DEF ObserveFromDataSource
    <2>2. UNCHANGED <<rescued, observes>>
      BY <1>5 DEF ObserveFromDataSource
    <2>3. CASE SourceFor = 0 \/ r = Unknown
      BY <1>1, <2>1, <2>2, <2>3 DEF ObsInv, ObsTyped
    <2>4. CASE ~(SourceFor = 0 \/ r = Unknown)
      <3>1. r \in Nat /\ r \in ObsValues
        BY <2>4, ObsNumbers DEF SourceAnswers, ObsValues
      <3>2. evidence' \in Nat /\ evidence' >= evidence /\ r <= evidence'
        BY <1>2, <2>1, <2>4, <3>1 DEF Larger
      <3> DEFINE e == Entry("mechanical", r, 90)
                 saved == IF setup.cross /\ setup.model THEN "cross" ELSE "idle"
      <3>3. e \in ObsEntry /\ e.value = r
        BY <3>1 DEF Entry, ObsEntry, Layers
      <3>4. Apply(e, saved, "model") /\ measured' = TRUE /\ saved \in {"cross", "idle"}
        BY <2>1, <2>4
      <3> HIDE DEF e, saved
      <3>5. rescued' \in [layer : Layers, value : ObsValues, confidence : 0 .. 100]
            /\ rescued'.value <= evidence'
        BY <1>1, <1>2, <2>2, <3>2, ObsNumbers DEF ObsTyped
      <3> QED
        BY <1>1, <1>2, <2>2, <3>2, <3>3, <3>4, <3>5, ObsApply
    <2> QED
      BY <2>3, <2>4
  <1>6. CASE CrossValidate
    <2>1. measured /\ obsPc' = "idle" /\ UNCHANGED <<latest, rescued, evidence, measured, observes>>
      BY <1>1, <1>6 DEF CrossValidate
    <2>2. /\ observed' \in [value : Unknown .. 20, confidence : 0 .. 100, layer : Layers]
          /\ observed'.value = observed.value
      <3>1. CASE UNCHANGED observed
        BY <1>1, <3>1 DEF ObsTyped
      <3>2. CASE \E l \in Scores : observed' = [observed EXCEPT !.confidence =
                                     Larger(10, @ - Penalty(observed.value, l))]
        <4>1. PICK l \in Scores : observed' = [observed EXCEPT !.confidence =
                                     Larger(10, @ - Penalty(observed.value, l))]
          BY <3>2
        <4>2. Penalty(observed.value, l) \in Nat
          <5>1. observed.value \in Int /\ l \in Int
            BY <1>2, ObsNumbers
          <5> DEFINE d == Distance(observed.value, l)
                     m == Larger(1, Larger(observed.value, l))
          <5>2. d \in Nat /\ m \in Nat /\ m > 0
            BY <5>1 DEF Distance, Larger
          <5> HIDE DEF d, m
          <5>3. (50 * d) \div m \in Nat
            BY <5>2
          <5> QED
            BY <5>3 DEF Penalty, Smaller, d, m
        <4>3. Larger(10, observed.confidence - Penalty(observed.value, l)) \in 0 .. 100
          BY <1>2, <4>2 DEF Larger
        <4> QED
          BY <1>1, <4>1, <4>3 DEF ObsTyped
      <3> QED
        BY <1>6, <3>1, <3>2 DEF CrossValidate
    <2> QED
      BY <1>1, <2>1, <2>2 DEF ObsInv, ObsTyped
  <1>7. CASE ObserveWithLLM
    <2>1. UNCHANGED <<measured, observes>>
      BY <1>7 DEF ObserveWithLLM
    <2>2. CASE obsPc' = "fallback" /\ UNCHANGED <<observed, latest, rescued, evidence, obsFaults>>
      BY <1>1, <2>1, <2>2 DEF ObsInv, ObsTyped
    <2>3. ASSUME NEW score \in Scores, NEW context \in BOOLEAN,
                 LET e == IF Skips(context) THEN Entry(ModelLayer, observed.value, 10)
                          ELSE Judged(score, context)
                 IN  /\ Apply(e, "idle", "recover")
                     /\ rescued' = IF obsPc' = "recover" THEN e ELSE rescued
                     /\ evidence' = IF context THEN Larger(evidence, score) ELSE evidence
          PROVE  ObsInv'
      <3> DEFINE e == IF Skips(context) THEN Entry(ModelLayer, observed.value, 10)
                      ELSE Judged(score, context)
      <3>1. score \in 0 .. 10
        BY ObsNumbers
      <3>2. evidence' \in Nat /\ evidence' >= evidence /\ (context => score <= evidence')
        BY <1>2, <2>3, <3>1 DEF Larger
      <3>3. PreviousScore \in Unknown .. 10 /\ PreviousScore <= evidence
        BY <1>1, <1>2, ObsNumbers DEF PreviousScore, Within, Larger, Smaller, Unknown
      <3>4. ModelLayer \in {"self_report", "independent_review"}
        BY DEF ModelLayer
      <3>5. ModelConfidence(score, context) \in {10, 30, 50, 70}
        BY DEF ModelConfidence
      <3>6. Believed(score, context) \in 0 .. 10 /\ Believed(score, context) <= evidence'
        BY <1>2, <3>1, <3>2, <3>3 DEF Believed, Larger, Unknown
      <3>7. /\ e.value \in ObsValues /\ e.value <= evidence'
            /\ e = [layer |-> ModelLayer, value |-> e.value, confidence |-> e.confidence]
            /\ e.confidence \in {10, 30, 50, 70}
        <4>1. CASE Skips(context)
          BY <1>1, <1>2, <3>2, <4>1, ObsNumbers DEF Entry
        <4>2. CASE ~Skips(context)
          <5>1. PreviousScore \in ObsValues /\ Believed(score, context) \in ObsValues
            BY <3>3, <3>6 DEF ObsValues, Unknown
          <5>2. PreviousScore <= evidence'
            BY <1>2, <3>2, <3>3 DEF Unknown
          <5>3. e = Judged(score, context)
            BY <4>2
          <5> QED
            BY <3>5, <3>6, <5>1, <5>2, <5>3 DEF Judged, Entry
        <4> QED
          BY <4>1, <4>2
      <3>8. e \in ObsEntry /\ e.layer # "mechanical" /\ e.confidence < 85
        BY <3>4, <3>7 DEF ObsEntry, Layers
      <3>9. Apply(e, "idle", "recover") /\ rescued' = IF obsPc' = "recover" THEN e ELSE rescued
        BY <2>3
      <3> HIDE DEF e
      <3>10. rescued' \in [layer : Layers, value : ObsValues, confidence : 0 .. 100]
            /\ rescued'.value <= evidence'
        BY <1>1, <1>2, <3>2, <3>7, <3>8, <3>9, ObsNumbers DEF ObsTyped, ObsEntry
      <3>11. ~(e.confidence >= 85)
        BY <3>8 DEF ObsEntry
      <3> QED
        BY <1>1, <1>2, <2>1, <3>2, <3>7, <3>8, <3>9, <3>10, <3>11, ObsApply
    <2> QED
      BY <1>7, <2>2, <2>3 DEF ObserveWithLLM
  <1>8. CASE Recover \/ SelfReport
    <2>1. PICK v \in ObsValues, c \in Int :
             /\ Apply(CreateObservationEntry("self_report", v, c), "idle", "idle")
             /\ v <= evidence
      <3>1. CASE Recover
        BY <1>1, <1>2, <3>1 DEF Recover
      <3>2. CASE SelfReport
        BY <1>1, <1>2, <3>2 DEF SelfReport, Smaller
      <3> QED
        BY <1>8, <3>1, <3>2
    <2> DEFINE e == CreateObservationEntry("self_report", v, c)
    <2>2. e \in ObsEntry /\ e.value = v /\ e.layer = "self_report" /\ e.confidence < 85
      BY CreatedEntry DEF Layers
    <2>3. ~(e.confidence >= 85)
      BY <2>2 DEF ObsEntry
    <2>4. /\ rescued' \in [layer : Layers, value : ObsValues, confidence : 0 .. 100]
          /\ rescued'.value <= evidence
      BY <1>1, <1>2, <1>8 DEF Recover, SelfReport, ObsTyped, Entry, Unknown, ObsValues, Layers
    <2>5. UNCHANGED <<evidence, measured, observes>>
      BY <1>8 DEF Recover, SelfReport
    <2> HIDE DEF e
    <2>6. Apply(e, "idle", "idle")
      BY <2>1 DEF e
    <2> QED
      BY <1>1, <1>2, <2>1, <2>2, <2>3, <2>4, <2>5, <2>6, ObsApply
  <1>9. CASE UNCHANGED obsVars
    BY <1>1, <1>9 DEF obsVars, ObsInv, ObsTyped
  <1> QED
    BY <1>3, <1>4, <1>5, <1>6, <1>7, <1>8, <1>9 DEF ObsNext

LEMMA ObsGrounded == ObsInv => ObsTypeOK /\ GainNeedsEvidence /\ ConfidenceEarned
  BY DEF ObsInv, ObsTyped, ObsTypeOK, ObsValues, GainNeedsEvidence, ConfidenceEarned

-----------------------------------------------------------------------------
(* The gap of a parent *)

USE AggregationAssumption DEF AggregationAssumption

\* The least of some numbers up to 10 is one of them, and so is the greatest.
LEMMA LeastOf ==
  ASSUME NEW S \in SUBSET (0 .. 10), S # {}
  PROVE  Min(S) \in S /\ \A y \in S : Min(S) <= y
  <1>1. S \in SUBSET Nat
    OBVIOUS
  <1>2. \E x \in S : \A y \in S : x <= y
    BY <1>1, Smallest
  <1> QED
    BY <1>2 DEF Min

LEMMA GreatestOf ==
  ASSUME NEW S \in SUBSET (0 .. 10), S # {}
  PROVE  Max(S) \in S /\ \A y \in S : y <= Max(S)
  <1> DEFINE M == {10 - x : x \in S}
  <1>1. M \in SUBSET Nat /\ M # {}
    <2>1. \A x \in S : x \in Int /\ 0 <= x /\ x <= 10
      OBVIOUS
    <2>2. PICK x \in S : TRUE
      OBVIOUS
    <2>3. 10 - x \in M
      OBVIOUS
    <2>4. \A y \in M : y \in Nat
      BY <2>1
    <2> HIDE DEF M
    <2> QED
      BY <2>3, <2>4
  <1>2. PICK m \in M : \A y \in M : m <= y
    BY <1>1, Smallest
  <1>3. PICK x \in S : m = 10 - x
    BY <1>2
  <1>4. \A y \in S : 10 - x <= 10 - y
    BY <1>2, <1>3
  <1>5. \E z \in S : \A y \in S : y <= z
    BY <1>4
  <1> QED
    BY <1>5 DEF Max

\* What was read of a child that has not moved is what it shows now.
AggReadings == [gap : 0 .. 10, confidence : 0 .. 9]
AggInv ==
    /\ child \in [AggChildren -> [status : ChildStatus, gap : 0 .. 10, confidence : 0 .. 9]]
    /\ method \in {"min", "avg", "max", "all_required"}
    /\ loaded \in Seq(AggReadings) /\ Len(loaded) <= NumChildren /\ moved \subseteq AggChildren
    /\ top \in AggReadings
    /\ \A c \in AggChildren \ moved :
         IF c <= Len(loaded) THEN loaded[c] = Reading(child[c])
         ELSE /\ top.confidence <= Reading(child[c]).confidence
              /\ method = "all_required" => top.gap >= Reading(child[c]).gap

LEMMA LoadedTyped ==
  ASSUME loaded \in Seq(AggReadings), Len(loaded) = NumChildren, NEW c \in AggChildren
  PROVE  loaded[c].gap \in 0 .. 10 /\ loaded[c].confidence \in 0 .. 9
  <1>1. c \in 1 .. Len(loaded)
    BY DEF AggChildren
  <1>2. loaded[c] \in AggReadings
    BY <1>1
  <1> QED
    BY <1>2 DEF AggReadings

LEMMA AggStart == AggInit => AggInv
  <1> SUFFICES ASSUME AggInit PROVE AggInv
    OBVIOUS
  <1>1. child \in [AggChildren -> [status : ChildStatus, gap : 0 .. 10, confidence : 0 .. 9]]
    BY DEF AggInit, ChildStatus
  <1>2. loaded \in Seq(AggReadings) /\ Len(loaded) = 0 /\ moved = AggChildren /\ top \in AggReadings
    BY DEF AggInit, AggReadings
  <1>3. method \in {"min", "avg", "max", "all_required"}
    BY DEF AggInit
  <1> QED
    BY <1>1, <1>2, <1>3 DEF AggInv

LEMMA ReadingTyped ==
  ASSUME NEW g \in [status : ChildStatus, gap : 0 .. 10, confidence : 0 .. 9]
  PROVE  Reading(g) \in AggReadings
  BY DEF Reading, AggReadings

\* The definition of the sums has a solution: as far as any number of children
\* there is a function that meets it.
LEMMA GapsUpToIs ==
  ASSUME loaded \in Seq(AggReadings), Len(loaded) = NumChildren
  PROVE  /\ GapsUpTo[0] = 0
         /\ \A n \in AggChildren : GapsUpTo[n] = GapsUpTo[n - 1] + loaded[n].gap
  <1> DEFINE Sums(f, m) == /\ f \in [0 .. NumChildren -> Int]
                           /\ \A n \in 0 .. m :
                                f[n] = IF n = 0 THEN 0 ELSE f[n - 1] + loaded[n].gap
             Bad == {m \in 0 .. NumChildren : \A f : ~Sums(f, m)}
  <1>1. \A n \in AggChildren : loaded[n].gap \in 0 .. 10
    BY LoadedTyped
  <1>2. ASSUME Bad # {} PROVE FALSE
    <2>1. PICK m \in Bad : \A y \in Bad : m <= y
      <3>1. Bad \in SUBSET Nat
        OBVIOUS
      <3> QED
        BY <1>2, <3>1, Smallest
    <2>2. CASE m = 0
      <3>1. Sums([n \in 0 .. NumChildren |-> 0], 0)
        OBVIOUS
      <3> QED
        BY <2>1, <2>2, <3>1
    <2>3. CASE m # 0
      <3>1. m \in 1 .. NumChildren /\ m - 1 \in 0 .. NumChildren /\ m \in AggChildren
        BY <2>1, <2>3 DEF AggChildren
      <3>2. ~(m <= m - 1)
        BY <3>1
      <3>3. m - 1 \notin Bad
        BY <2>1, <3>2
      <3>4. PICK f : Sums(f, m - 1)
        BY <3>1, <3>3
      <3> DEFINE g == [f EXCEPT ![m] = f[m - 1] + loaded[m].gap]
      <3>9. f \in [0 .. NumChildren -> Int]
        BY <3>4
      <3> HIDE DEF Bad, Sums
      <3>5. f \in [0 .. NumChildren -> Int] /\ f[m - 1] \in Int /\ loaded[m].gap \in Int
        <4>1. f[m - 1] \in Int
          BY <3>1, <3>9
        <4>2. loaded[m].gap \in Int
          BY <1>1, <3>1
        <4> QED
          BY <3>9, <4>1, <4>2
      <3>6. g \in [0 .. NumChildren -> Int] /\ g[m] = f[m - 1] + loaded[m].gap
            /\ \A n \in 0 .. m - 1 : g[n] = f[n]
        BY <3>1, <3>5
      <3> HIDE DEF g
      <3>7. ASSUME NEW n \in 0 .. m
            PROVE  g[n] = IF n = 0 THEN 0 ELSE g[n - 1] + loaded[n].gap
        <4>1. CASE n = m
          BY <3>1, <3>6, <4>1 DEF Sums
        <4>2. CASE n # m
          <5>1. n \in 0 .. m - 1 /\ (n # 0 => n - 1 \in 0 .. m - 1)
            BY <3>1, <4>2
          <5> QED
            BY <3>4, <3>6, <5>1 DEF Sums
        <4> QED
          BY <4>1, <4>2
      <3>8. Sums(g, m)
        BY <3>6, <3>7 DEF Sums
      <3> QED
        BY <2>1, <3>8 DEF Bad
    <2> QED
      BY <2>2, <2>3
  <1>3. PICK f : Sums(f, NumChildren)
    <2>0. NumChildren \in Nat
      OBVIOUS
    <2> HIDE DEF Sums, Bad
    <2>1. NumChildren \in 0 .. NumChildren /\ NumChildren \notin Bad
      BY <1>2, <2>0
    <2> QED
      BY <2>1 DEF Bad
  <1>4. f = [n \in 0 .. NumChildren |-> IF n = 0 THEN 0 ELSE f[n - 1] + loaded[n].gap]
    BY <1>3
  <1>5. GapsUpTo = [n \in 0 .. NumChildren |-> IF n = 0 THEN 0 ELSE GapsUpTo[n - 1] + loaded[n].gap]
    BY <1>4, Zenon DEF GapsUpTo
  <1>6. \A n \in 0 .. NumChildren :
          GapsUpTo[n] = IF n = 0 THEN 0 ELSE GapsUpTo[n - 1] + loaded[n].gap
    BY <1>5, Zenon
  <1>7. 0 \in 0 .. NumChildren /\ \A n \in AggChildren : n \in 0 .. NumChildren /\ n # 0
    BY DEF AggChildren
  <1> HIDE DEF Sums, Bad
  <1> QED
    BY <1>6, <1>7, Zenon

\* The gaps of n children come to ten times as much at most.
LEMMA GapsBounded ==
  ASSUME loaded \in Seq(AggReadings), Len(loaded) = NumChildren
  PROVE  TotalGap \in 0 .. 10 * NumChildren
  <1> DEFINE Bad == {n \in 0 .. NumChildren : GapsUpTo[n] \notin 0 .. 10 * n}
  <1>1. \A n \in AggChildren : loaded[n].gap \in 0 .. 10
    BY LoadedTyped
  <1>2. ASSUME Bad # {} PROVE FALSE
    <2>1. PICK m \in Bad : \A y \in Bad : m <= y
      <3>1. Bad \in SUBSET Nat
        OBVIOUS
      <3> QED
        BY <1>2, <3>1, Smallest
    <2>2. m # 0 /\ m \in AggChildren
      BY <2>1, GapsUpToIs DEF AggChildren
    <2>3. GapsUpTo[m - 1] \in 0 .. 10 * (m - 1)
      BY <2>1, <2>2 DEF AggChildren
    <2>4. GapsUpTo[m] = GapsUpTo[m - 1] + loaded[m].gap
      BY <2>2, GapsUpToIs
    <2>5. GapsUpTo[m] \in 0 .. 10 * m
      <3> DEFINE x == GapsUpTo[m - 1]
                 y == loaded[m].gap
      <3>1. m \in Nat /\ x \in 0 .. 10 * (m - 1) /\ y \in 0 .. 10 /\ GapsUpTo[m] = x + y
        BY <1>1, <2>2, <2>3, <2>4
      <3> HIDE DEF x, y
      <3> QED
        BY <3>1
    <2> QED
      BY <2>1, <2>5
  <1> QED
    BY <1>2 DEF TotalGap

LEMMA AggSaved ==
  ASSUME AggInv, SaveParent
  PROVE  /\ top' \in AggReadings
         /\ \A c \in AggChildren :
              /\ top'.confidence <= loaded[c].confidence
              /\ method = "all_required" => top'.gap >= loaded[c].gap
  <1>1. Len(loaded) = NumChildren /\ loaded \in Seq(AggReadings)
    BY DEF AggInv, SaveParent
  <1>2. \A c \in AggChildren : loaded[c].gap \in 0 .. 10 /\ loaded[c].confidence \in 0 .. 9
    BY <1>1, LoadedTyped
  <1>3. 1 \in AggChildren
    BY DEF AggChildren
  <1>4. GapsRead \in SUBSET (0 .. 10) /\ GapsRead # {}
    BY <1>2, <1>3 DEF GapsRead
  <1> DEFINE C == {loaded[c].confidence : c \in AggChildren}
             L == {10 - g : g \in GapsRead}
  <1>5. C \in SUBSET (0 .. 10) /\ C \in SUBSET (0 .. 9) /\ C # {}
    BY <1>2, <1>3
  <1>6. L \in SUBSET (0 .. 10) /\ L # {}
    <2>1. PICK g \in GapsRead : TRUE
      BY <1>4
    <2>2. 10 - g \in L
      OBVIOUS
    <2>3. \A y \in L : y \in 0 .. 10
      BY <1>4
    <2> HIDE DEF L
    <2> QED
      BY <2>2, <2>3
  <1>7. Min(C) \in 0 .. 9 /\ \A c \in AggChildren : Min(C) <= loaded[c].confidence
    <2>1. Min(C) \in C /\ \A y \in C : Min(C) <= y
      BY <1>5, LeastOf
    <2> QED
      BY <1>5, <2>1
  <1>8. Min(L) \in 0 .. 10 /\ \A c \in AggChildren : Min(L) <= 10 - loaded[c].gap
    <2>1. Min(L) \in L /\ \A y \in L : Min(L) <= y
      BY <1>6, LeastOf
    <2>2. \A c \in AggChildren : 10 - loaded[c].gap \in L
      BY DEF GapsRead
    <2> HIDE DEF L
    <2> QED
      BY <1>6, <2>1, <2>2
  <1>9. Min(GapsRead) \in 0 .. 10 /\ Max(GapsRead) \in 0 .. 10
    BY <1>4, LeastOf, GreatestOf
  <1>10. TotalGap \div NumChildren \in 0 .. 10
    <2>1. TotalGap \in 0 .. 10 * NumChildren
      BY <1>1, GapsBounded
    <2> QED
      BY <2>1
  <1> HIDE DEF L, C
  <1>11. AggregateValues \in 0 .. 10 /\ (method = "all_required" => AggregateValues = 10 - Min(L))
    <2>1. CASE method = "min"
      BY <1>9, <2>1 DEF AggregateValues
    <2>2. CASE method = "max"
      BY <1>9, <2>2 DEF AggregateValues
    <2>3. CASE method = "avg"
      BY <1>10, <2>3 DEF AggregateValues
    <2>4. CASE method = "all_required"
      <3>1. AggregateValues = 10 - Min(L)
        BY <2>4 DEF AggregateValues, L
      <3> QED
        BY <1>8, <3>1
    <2> QED
      BY <2>1, <2>2, <2>3, <2>4 DEF AggInv
  <1>12. AggregatedConfidence = Min(C)
    BY DEF AggregatedConfidence, C
  <1>13. top' = [gap |-> AggregateValues, confidence |-> Min(C)]
    BY <1>12 DEF SaveParent
  <1>14. top'.gap = AggregateValues /\ top'.confidence = Min(C) /\ top' \in AggReadings
    BY <1>7, <1>11, <1>13 DEF AggReadings
  <1> QED
    BY <1>2, <1>7, <1>8, <1>11, <1>14

LEMMA AggKeeps == AggInv /\ [AggNext]_aggVars => AggInv'
  <1> SUFFICES ASSUME AggInv, [AggNext]_aggVars PROVE AggInv'
    OBVIOUS
  <1>1. CASE LoadChild
    <2> DEFINE n == Len(loaded) + 1
    <2>1. n \in AggChildren /\ child[n] \in [status : ChildStatus, gap : 0 .. 10, confidence : 0 .. 9]
      BY <1>1 DEF AggInv, LoadChild, AggChildren
    <2>2. Reading(child[n]) \in AggReadings
      BY <2>1, ReadingTyped
    <2>3. /\ loaded' \in Seq(AggReadings) /\ Len(loaded') = n /\ loaded'[n] = Reading(child[n])
          /\ \A c \in 1 .. n - 1 : loaded'[c] = loaded[c]
      BY <1>1, <2>2 DEF AggInv, LoadChild
    <2>4. \A c \in AggChildren \ moved' :
            IF c <= Len(loaded') THEN loaded'[c] = Reading(child[c])
            ELSE /\ top.confidence <= Reading(child[c]).confidence
                 /\ method = "all_required" => top.gap >= Reading(child[c]).gap
      BY <1>1, <2>1, <2>3 DEF AggInv, LoadChild, AggChildren
    <2>5. n <= NumChildren /\ UNCHANGED <<child, top, method>>
      BY <1>1, <2>1 DEF LoadChild, AggChildren
    <2>6. moved' \subseteq AggChildren
      BY <1>1 DEF LoadChild, AggInv
    <2> QED
      BY <2>3, <2>4, <2>5, <2>6 DEF AggInv
  <1>2. CASE SaveParent
    <2>1. /\ top' \in AggReadings
          /\ \A c \in AggChildren :
               /\ top'.confidence <= loaded[c].confidence
               /\ method = "all_required" => top'.gap >= loaded[c].gap
      BY <1>2, AggSaved
    <2>2. loaded' = <<>> /\ Len(loaded') = 0 /\ UNCHANGED <<child, method, moved>>
          /\ Len(loaded) = NumChildren
      BY <1>2 DEF SaveParent
    <2>3. \A c \in AggChildren \ moved : loaded[c] = Reading(child[c])
      BY <2>2 DEF AggInv, AggChildren
    <2> QED
      BY <2>1, <2>2, <2>3 DEF AggInv, AggChildren
  <1>3. CASE Change
    <2>1. PICK c \in AggChildren :
            /\ child[c].status # "missing"
            /\ \/ \E g \in AggGaps, x \in {3, 9} :
                     child' = [child EXCEPT ![c] = [status |-> @.status, gap |-> g, confidence |-> x]]
               \/ \E s \in {"completed", "abandoned", "missing"} :
                     child' = [child EXCEPT ![c].status = s]
            /\ moved' = moved \cup {c}
      BY <1>3 DEF Change
    <2>2. child' \in [AggChildren -> [status : ChildStatus, gap : 0 .. 10, confidence : 0 .. 9]]
      <3>1. /\ child \in [AggChildren -> [status : ChildStatus, gap : 0 .. 10, confidence : 0 .. 9]]
            /\ child[c].status \in ChildStatus
        BY DEF AggInv
      <3>2. CASE \E g \in AggGaps, x \in {3, 9} :
                child' = [child EXCEPT ![c] = [status |-> @.status, gap |-> g, confidence |-> x]]
        <4>1. PICK g \in AggGaps, x \in {3, 9} :
                child' = [child EXCEPT ![c] = [status |-> child[c].status, gap |-> g, confidence |-> x]]
          BY <3>2
        <4>2. [status |-> child[c].status, gap |-> g, confidence |-> x]
                \in [status : ChildStatus, gap : 0 .. 10, confidence : 0 .. 9]
          BY <3>1
        <4> QED
          BY <3>1, <4>1, <4>2
      <3>3. CASE \E s \in {"completed", "abandoned", "missing"} :
                     child' = [child EXCEPT ![c].status = s]
        BY <3>1, <3>3 DEF ChildStatus
      <3> QED
        BY <2>1, <3>2, <3>3
    <2>3. \A d \in AggChildren \ {c} : child'[d] = child[d]
      BY <2>1 DEF AggInv
    <2>4. UNCHANGED <<top, method, loaded>>
      BY <1>3 DEF Change
    <2> QED
      BY <2>1, <2>2, <2>3, <2>4 DEF AggInv
  <1>4. CASE UNCHANGED aggVars
    BY <1>4 DEF aggVars, AggInv
  <1> QED
    BY <1>1, <1>2, <1>3, <1>4 DEF AggNext

LEMMA AggHolds == AggInv => AggTypeOK /\ ParentNotAhead
  <1> SUFFICES ASSUME AggInv PROVE AggTypeOK /\ ParentNotAhead
    OBVIOUS
  <1>1. AggTypeOK
    BY DEF AggInv, AggTypeOK, AggReadings
  <1>2. ParentNotAhead
    BY DEF AggInv, ParentNotAhead, Standing, AggChildren
  <1> QED
    BY <1>1, <1>2

HIDE AggregationAssumption DEF AggregationAssumption

-----------------------------------------------------------------------------
(* The data sources *)

USE SourcesAssumption DEF SourcesAssumption

\* A key stays provided for: a source with it is there that no search is about
\* to remove, or the user has removed one.
KeyKept(k) == k \in userRemoved \/ \E t \in sources \ doomed : Key(t) = k

\* What makes the properties last: a source is only doomed as long as another
\* of its key stays, and what counts as measured has a key that stays.
SrcInv ==
    /\ SrcTypeOK
    /\ goalDims \in [SrcGoals -> SUBSET UNION DimSets]
    /\ \A g \in SrcGoals :
         /\ regPc[g] = "saveFiles" => planned[g] \subseteq FileDims
         /\ regPc[g] = "saveShell" => planned[g] \subseteq ShellDims
    /\ \A s \in doomed : KeyKept(Key(s))
    /\ \A g \in SrcGoals : \A d \in covered[g] :
         \E ty \in {"shell", "file_existence"}, D \in SUBSET SrcDims :
            d \in D /\ KeyKept(<<ty, D>>)

LEMMA SrcStart == SrcInit => SrcInv
  <1>1. {} \in SUBSET SrcDims
    OBVIOUS
  <1> QED
    BY <1>1 DEF SrcInit, SrcInv, SrcTypeOK

\* A key lasts as long as no source with it is lost to a search, or it is the user
\* who removes it.
LEMMA KeysKept ==
  ASSUME NEW k, KeyKept(k), userRemoved \subseteq userRemoved',
         \A t \in sources \ doomed : t \in sources' \ doomed' \/ Key(t) \in userRemoved'
  PROVE  KeyKept(k)'
  BY DEF KeyKept

\* With a key that has a source, one is kept or removed by the user.
LEMMA KeyFound ==
  ASSUME NEW s \in sources, \A x \in doomed : KeyKept(Key(x))
  PROVE  KeyKept(Key(s))
  BY DEF KeyKept

LEMMA SrcStays ==
  ASSUME SrcInv, SrcTypeOK',
         goalDims' \in [SrcGoals -> SUBSET UNION DimSets],
         \A g \in SrcGoals :
           /\ regPc'[g] = "saveFiles" => planned'[g] \subseteq FileDims
           /\ regPc'[g] = "saveShell" => planned'[g] \subseteq ShellDims,
         userRemoved \subseteq userRemoved', doomed' \subseteq doomed,
         \A t \in sources \ doomed : t \in sources' \ doomed' \/ Key(t) \in userRemoved',
         \A g \in SrcGoals : \A d \in covered'[g] :
            \/ d \in covered[g]
            \/ \E ty \in {"shell", "file_existence"}, D \in SUBSET SrcDims :
                  d \in D /\ KeyKept(<<ty, D>>)'
  PROVE  SrcInv'
  <1>1. \A k : KeyKept(k) => KeyKept(k)'
    BY KeysKept
  <1>2. \A s : Key(s)' = Key(s)
    BY DEF Key
  <1>3. \A s \in doomed' : KeyKept(Key(s))'
    BY <1>1, <1>2 DEF SrcInv
  <1>4. \A g \in SrcGoals : \A d \in covered'[g] :
         \E ty \in {"shell", "file_existence"}, D \in SUBSET SrcDims :
            d \in D /\ KeyKept(<<ty, D>>)'
    BY <1>1 DEF SrcInv
  <1> QED
    BY <1>3, <1>4 DEF SrcInv

\* A source with the dimensions of a goal is found, or planned.
LEMMA SrcPlans ==
  ASSUME SrcInv, NEW g \in SrcGoals, NEW D \in SUBSET SrcDims,
         NEW ty \in {"shell", "file_existence"}, NEW save \in {"saveFiles", "saveShell"},
         PlanSource(g, ty, D, save),
         save = "saveFiles" => D \subseteq FileDims, save = "saveShell" => D \subseteq ShellDims,
         UNCHANGED <<sources, unreadable, goalDims, doomed, added, userRemoved>>
  PROVE  SrcInv'
  <1>1. PICK E \in {sources \ unreadable, {}} :
          /\ Existing(E)
          /\ IF Exists(E, ty, D)
               THEN /\ regPc' = [regPc EXCEPT ![g] = After(@)]
                    /\ covered' = [covered EXCEPT ![g] = @ \cup D]
                    /\ UNCHANGED planned
               ELSE /\ regPc' = [regPc EXCEPT ![g] = save]
                    /\ planned' = [planned EXCEPT ![g] = D]
                    /\ UNCHANGED covered
    BY DEF PlanSource
  <1>2. srcFaults' \in 0 .. MaxSrcFaults
    BY <1>1 DEF Existing, Fails, SrcInv, SrcTypeOK
  <1>3. After(regPc[g]) \in {"shell", "done"}
    BY DEF After
  <1>4. CASE Exists(E, ty, D)
    <2>1. PICK s \in sources : s.type = ty /\ s.dims = D
      BY <1>1, <1>4 DEF Exists
    <2>2. KeyKept(Key(s))
      BY <2>1, KeyFound DEF SrcInv
    <2>3. KeyKept(<<ty, D>>)'
      BY <2>1, <2>2 DEF Key, KeyKept
    <2>4. SrcTypeOK'
      BY <1>1, <1>2, <1>3, <1>4 DEF SrcInv, SrcTypeOK
    <2>5. \A h \in SrcGoals : \A d \in covered'[h] : d \in covered[h] \/ d \in D
      BY <1>1, <1>4 DEF SrcInv, SrcTypeOK
    <2>6. \A h \in SrcGoals :
           /\ regPc'[h] = "saveFiles" => planned'[h] \subseteq FileDims
           /\ regPc'[h] = "saveShell" => planned'[h] \subseteq ShellDims
      BY <1>1, <1>3, <1>4 DEF SrcInv, SrcTypeOK
    <2>7. goalDims' \in [SrcGoals -> SUBSET UNION DimSets]
      BY DEF SrcInv
    <2> QED
      BY <2>3, <2>4, <2>5, <2>6, <2>7, SrcStays
  <1>5. CASE ~Exists(E, ty, D)
    <2>1. SrcTypeOK'
      BY <1>1, <1>2, <1>5 DEF SrcInv, SrcTypeOK
    <2>2. \A h \in SrcGoals :
           /\ regPc'[h] = "saveFiles" => planned'[h] \subseteq FileDims
           /\ regPc'[h] = "saveShell" => planned'[h] \subseteq ShellDims
      BY <1>1, <1>5 DEF SrcInv, SrcTypeOK
    <2>3. goalDims' \in [SrcGoals -> SUBSET UNION DimSets] /\ UNCHANGED covered
      BY <1>1, <1>5 DEF SrcInv
    <2> QED
      BY <2>1, <2>2, <2>3, SrcStays
  <1> QED
    BY <1>4, <1>5

LEMMA SrcSkips ==
  ASSUME SrcInv, NEW g \in SrcGoals, SkipSource(g),
         UNCHANGED <<sources, unreadable, goalDims, doomed, added, userRemoved>>
  PROVE  SrcInv'
  <1>1. After(regPc[g]) \in {"shell", "done"} /\ regPc' = [regPc EXCEPT ![g] = After(@)]
        /\ UNCHANGED <<srcFaults, planned, covered>>
    BY DEF After, SkipSource
  <1>2. SrcTypeOK'
    BY <1>1 DEF SrcInv, SrcTypeOK
  <1>3. \A h \in SrcGoals :
           /\ regPc'[h] = "saveFiles" => planned'[h] \subseteq FileDims
           /\ regPc'[h] = "saveShell" => planned'[h] \subseteq ShellDims
    BY <1>1 DEF SrcInv, SrcTypeOK
  <1>4. goalDims' \in [SrcGoals -> SUBSET UNION DimSets]
    BY DEF SrcInv
  <1> QED
    BY <1>1, <1>2, <1>3, <1>4, SrcStays

\* Of the sources with one key the one of the least number is no duplicate.
LEMMA SrcFinds ==
  ASSUME SrcInv, FindDuplicates
  PROVE  SrcInv'
  <1> DEFINE E == sources \ unreadable
  <1>1. E \subseteq Source /\ doomed = {} /\ doomed' = Duplicates(E)
        /\ UNCHANGED <<sources, unreadable, regPc, goalDims, planned, added, srcFaults, covered, userRemoved>>
    BY DEF FindDuplicates, SrcInv, SrcTypeOK
  <1> HIDE DEF E
  <1>2. ASSUME NEW s \in E
        PROVE  \E t \in E \ Duplicates(E) : Key(t) = Key(s)
    <2> DEFINE N == {t.n : t \in {x \in E : Key(x) = Key(s)}}
    <2>1. N \in SUBSET Nat /\ s.n \in N
      <3>1. \A t \in E : t.n \in Nat
        BY <1>1 DEF Source
      <3> QED
        BY <3>1
    <2>2. PICK n \in N : \A y \in N : n <= y
      BY <2>1, Smallest
    <2>3. PICK t \in E : Key(t) = Key(s) /\ t.n = n
      BY <2>2
    <2>4. \A x \in E : Key(x) = Key(t) => ~(x.n < t.n)
      <3> SUFFICES ASSUME NEW x \in E, Key(x) = Key(t) PROVE ~(x.n < t.n)
        OBVIOUS
      <3>1. x.n \in N /\ x.n \in Nat /\ n \in Nat
        BY <2>1, <2>3
      <3> QED
        BY <2>2, <2>3, <3>1
    <2> QED
      BY <2>3, <2>4 DEF Duplicates
  <1>3. doomed' \subseteq E /\ E \subseteq sources
    BY <1>1 DEF Duplicates, E
  <1>4. \A s \in sources : s \in sources' /\ Key(s)' = Key(s)
    BY <1>1 DEF Key
  <1>5. \A s \in doomed' : KeyKept(Key(s))'
    <2> SUFFICES ASSUME NEW s \in doomed' PROVE KeyKept(Key(s))'
      OBVIOUS
    <2>1. PICK t \in E \ Duplicates(E) : Key(t) = Key(s)
      BY <1>2, <1>3
    <2> QED
      BY <1>1, <1>3, <2>1 DEF KeyKept, Key
  <1>6. ASSUME NEW k, KeyKept(k) PROVE KeyKept(k)'
    <2>1. CASE k \in userRemoved
      BY <1>1, <2>1 DEF KeyKept
    <2>2. CASE k \notin userRemoved
      <3>1. PICK t \in sources : Key(t) = k
        BY <1>6, <2>2 DEF KeyKept
      <3>2. CASE t \in doomed'
        BY <1>5, <3>1, <3>2 DEF Key, KeyKept
      <3>3. CASE t \notin doomed'
        BY <1>1, <3>1, <3>3 DEF KeyKept, Key
      <3> QED
        BY <3>2, <3>3
    <2> QED
      BY <2>1, <2>2
  <1>7. SrcTypeOK'
    BY <1>1, <1>3 DEF SrcInv, SrcTypeOK
  <1>8. \A g \in SrcGoals : \A d \in covered'[g] :
         \E ty \in {"shell", "file_existence"}, D \in SUBSET SrcDims :
            d \in D /\ KeyKept(<<ty, D>>)'
    BY <1>1, <1>6 DEF SrcInv
  <1> QED
    BY <1>1, <1>5, <1>7, <1>8 DEF SrcInv

LEMMA SrcKeeps == SrcInv /\ [SrcNext]_srcVars => SrcInv'
  <1> SUFFICES ASSUME SrcInv, [SrcNext]_srcVars PROVE SrcInv'
    OBVIOUS
  <1>0. /\ SrcTypeOK /\ goalDims \in [SrcGoals -> SUBSET UNION DimSets]
        /\ \A g \in SrcGoals :
             /\ regPc[g] = "saveFiles" => planned[g] \subseteq FileDims
             /\ regPc[g] = "saveShell" => planned[g] \subseteq ShellDims
    BY DEF SrcInv
  <1>1. CASE \E h \in ByHand : AddSource(h)
    <2>1. PICK h \in ByHand : AddSource(h)
      BY <1>1
    <2> DEFINE new == [type |-> h.type, n |-> added',
                       dims |-> h.dims \cup IF h.type = "github_issue" THEN IssueDims ELSE {}]
    <2>2. new \in Source
      <3>1. h.type \in SrcTypes /\ new.dims \subseteq SrcDims
        BY DEF SrcDims
      <3>2. added' \in 1 .. MaxAdded + NumSrcGoals
        BY <1>0, <2>1 DEF AddSource, SrcTypeOK
      <3> QED
        BY <3>1, <3>2 DEF Source
    <2>3. sources' = sources \cup {new}
          /\ UNCHANGED <<unreadable, regPc, goalDims, planned, doomed, srcFaults, covered, userRemoved>>
      BY <2>1 DEF AddSource
    <2> HIDE DEF new
    <2>4. added' \in 0 .. MaxAdded
      BY <1>0, <2>1 DEF AddSource, SrcTypeOK
    <2>5. SrcTypeOK'
      BY <1>0, <2>2, <2>3, <2>4 DEF SrcTypeOK
    <2> QED
      BY <1>0, <2>3, <2>5, SrcStays
  <1>2. CASE \E s \in sources : RemoveSource(s)
    <2>1. PICK s \in sources : RemoveSource(s)
      BY <1>2
    <2>2. SrcTypeOK'
      BY <1>0, <2>1 DEF RemoveSource, SrcTypeOK
    <2>3. \A t \in sources \ doomed : t \in sources' \ doomed' \/ Key(t) \in userRemoved'
      BY <2>1 DEF RemoveSource
    <2> QED
      BY <1>0, <2>1, <2>2, <2>3, SrcStays DEF RemoveSource
  <1>3. CASE \E s \in sources : SpoilSource(s) \/ MendSource(s)
    <2>1. UNCHANGED <<sources, regPc, goalDims, planned, doomed, added, covered, userRemoved>>
      BY <1>3 DEF SpoilSource, MendSource
    <2>2. unreadable' \subseteq sources /\ srcFaults' \in 0 .. MaxSrcFaults
      BY <1>0, <1>3 DEF SpoilSource, MendSource, SrcTypeOK, Fails
    <2>3. SrcTypeOK'
      BY <1>0, <2>1, <2>2 DEF SrcTypeOK
    <2> QED
      BY <1>0, <2>1, <2>3, SrcStays
  <1>4. CASE \E g \in SrcGoals, D \in DimSets : StartRegistration(g, D)
    <2>1. PICK g \in SrcGoals, D \in DimSets : StartRegistration(g, D)
      BY <1>4
    <2>2. SrcTypeOK'
      BY <1>0, <2>1 DEF StartRegistration, SrcTypeOK
    <2>3. goalDims' \in [SrcGoals -> SUBSET UNION DimSets]
      BY <1>0, <2>1 DEF StartRegistration
    <2>4. \A h \in SrcGoals :
           /\ regPc'[h] = "saveFiles" => planned'[h] \subseteq FileDims
           /\ regPc'[h] = "saveShell" => planned'[h] \subseteq ShellDims
      BY <1>0, <2>1 DEF StartRegistration, SrcTypeOK
    <2> QED
      BY <2>1, <2>2, <2>3, <2>4, SrcStays DEF StartRegistration
  <1>5. CASE \E g \in SrcGoals : RegisterFiles(g)
    <2>1. PICK g \in SrcGoals : RegisterFiles(g)
      BY <1>5
    <2>2. UNCHANGED <<sources, unreadable, goalDims, doomed, added, userRemoved>>
      BY <2>1 DEF RegisterFiles
    <2>3. CASE SkipSource(g)
      BY <2>2, <2>3, SrcSkips
    <2>4. CASE ~SkipSource(g)
      <3>1. PICK D \in SUBSET goalDims[g] :
               PlanSource(g, "file_existence", D, "saveFiles") /\ goalDims[g] \subseteq FileDims
        BY <2>1, <2>4 DEF RegisterFiles
      <3>2. D \subseteq FileDims /\ D \in SUBSET SrcDims
        BY <3>1 DEF SrcDims
      <3> QED
        BY <2>2, <3>1, <3>2, SrcPlans
    <2> QED
      BY <2>3, <2>4
  <1>6. CASE \E g \in SrcGoals : RegisterShell(g)
    <2>1. PICK g \in SrcGoals : RegisterShell(g)
      BY <1>6
    <2>2. UNCHANGED <<sources, unreadable, goalDims, doomed, added, userRemoved>>
      BY <2>1 DEF RegisterShell
    <2> DEFINE D == goalDims[g] \cap ShellDims
    <2>3. SkipSource(g) \/ PlanSource(g, "shell", D, "saveShell")
      BY <2>1 DEF RegisterShell
    <2>4. D \subseteq ShellDims /\ D \in SUBSET SrcDims
      BY DEF SrcDims
    <2> HIDE DEF D
    <2>5. CASE SkipSource(g)
      BY <2>2, <2>5, SrcSkips
    <2>6. CASE PlanSource(g, "shell", D, "saveShell")
      BY <2>2, <2>4, <2>6, SrcPlans
    <2> QED
      BY <2>3, <2>5, <2>6
  <1>7. CASE \E g \in SrcGoals : SaveSource(g)
    <2>1. PICK g \in SrcGoals : SaveSource(g)
      BY <1>7
    <2>0. PICK ty \in {"shell", "file_existence"}, D \in SUBSET SrcDims :
             ty = (IF regPc[g] = "saveFiles" THEN "file_existence" ELSE "shell") /\ D = planned[g]
      BY <1>0 DEF SrcTypeOK
    <2> DEFINE new == [type |-> ty, n |-> g, dims |-> D]
    <2>2. /\ regPc' = [regPc EXCEPT ![g] = After(@)] /\ planned' = [planned EXCEPT ![g] = {}]
          /\ UNCHANGED <<unreadable, goalDims, doomed, added, userRemoved>>
          /\ After(regPc[g]) \in {"shell", "done"}
      BY <2>1 DEF SaveSource, After
    <2>4. new \in Source
      BY DEF Source, SrcGoals, SrcTypes
    <2>5. \A h \in SrcGoals :
           /\ regPc'[h] = "saveFiles" => planned'[h] \subseteq FileDims
           /\ regPc'[h] = "saveShell" => planned'[h] \subseteq ShellDims
      BY <1>0, <2>2 DEF SrcTypeOK
    <2>6. CASE Fails /\ UNCHANGED <<sources, covered>>
      <3>1. SrcTypeOK'
        BY <1>0, <2>2, <2>6 DEF SrcTypeOK, Fails
      <3> QED
        BY <1>0, <2>2, <2>5, <2>6, <3>1, SrcStays
    <2>7. CASE ~(Fails /\ UNCHANGED <<sources, covered>>)
      <3>1. /\ sources' = sources \cup {new} /\ covered' = [covered EXCEPT ![g] = @ \cup planned[g]]
            /\ UNCHANGED srcFaults
        BY <2>0, <2>1, <2>7 DEF SaveSource
      <3>2. Key(new) = <<ty, D>>
        BY DEF Key
      <3> HIDE DEF new
      <3>3. SrcTypeOK'
        BY <1>0, <2>0, <2>2, <2>4, <3>1 DEF SrcTypeOK
      <3>4. KeyKept(<<ty, D>>)'
        <4>1. CASE new \in doomed
          <5>1. KeyKept(Key(new))
            BY <4>1 DEF SrcInv
          <5> QED
            BY <2>2, <3>1, <3>2, <5>1 DEF KeyKept, Key
        <4>2. CASE new \notin doomed
          BY <2>2, <3>1, <3>2, <4>2 DEF KeyKept, Key
        <4> QED
          BY <4>1, <4>2
      <3>5. \A h \in SrcGoals : \A d \in covered'[h] : d \in covered[h] \/ d \in D
        BY <1>0, <2>0, <3>1 DEF SrcTypeOK
      <3> QED
        BY <1>0, <2>2, <2>5, <3>1, <3>3, <3>4, <3>5, SrcStays
    <2> QED
      BY <2>6, <2>7
  <1>8. CASE FindDuplicates
    BY <1>8, SrcFinds
  <1>9. CASE \E s \in doomed : RemoveDuplicate(s)
    <2>1. PICK s \in doomed : RemoveDuplicate(s)
      BY <1>9
    <2>2. SrcTypeOK'
      BY <1>0, <2>1 DEF RemoveDuplicate, SrcTypeOK, Fails
    <2>3. \A t \in sources \ doomed : t \in sources' \ doomed' \/ Key(t) \in userRemoved'
      BY <2>1 DEF RemoveDuplicate
    <2> QED
      BY <1>0, <2>1, <2>2, <2>3, SrcStays DEF RemoveDuplicate
  <1>10. CASE UNCHANGED srcVars
    BY <1>0, <1>10, SrcStays DEF srcVars, SrcTypeOK
  <1> QED
    BY <1>1, <1>2, <1>3, <1>4, <1>5, <1>6, <1>7, <1>8, <1>9, <1>10 DEF SrcNext

LEMMA SrcMeasured == SrcInv => SrcTypeOK /\ StaysMeasured
  <1> SUFFICES ASSUME SrcInv, NEW g \in SrcGoals, NEW d \in covered[g]
               PROVE  FindDataSource(d, g) # {} \/ \E k \in userRemoved : d \in k[2]
    BY DEF SrcInv, StaysMeasured
  <1>1. PICK ty \in {"shell", "file_existence"}, D \in SUBSET SrcDims :
           d \in D /\ KeyKept(<<ty, D>>)
    BY DEF SrcInv
  <1>2. CASE <<ty, D>> \in userRemoved
    BY <1>1, <1>2
  <1>3. CASE \E t \in sources \ doomed : Key(t) = <<ty, D>>
    <2>1. PICK t \in sources : Key(t) = <<ty, D>>
      BY <1>3
    <2>2. t.dims = D
      BY <1>1, <2>1 DEF Key
    <2>3. t \in Serving(d)
      BY <1>1, <2>2 DEF Serving
    <2> QED
      BY <2>3 DEF FindDataSource
  <1> QED
    BY <1>1, <1>2, <1>3 DEF KeyKept

HIDE SourcesAssumption DEF SourcesAssumption

-----------------------------------------------------------------------------
(* The capabilities and their order *)

USE CapabilityAssumption DEF CapabilityAssumption

CapItem == [name : CapNames, id : {IdOf[n] : n \in CapNames},
            status : {"acquiring", "available", "verification_failed"}]
CapPcs == {"idle", "acquire", "verify", "register", "publish", "escalate", "give up"}

\* What an item of the registry says has been earned.
CapEarned(i) ==
    /\ registry[i].status = "available" => registry[i].name \in passed
    /\ registry[i].status = "verification_failed" => registry[i].name \in told

\* A capability is published only after it has passed, and given up only after the
\* user was told.
CapInv ==
    /\ registry \in Seq(CapItem)
    /\ attempts \in [CapNames -> Nat] /\ capPc \in CapPcs
    /\ missing \in CapNames \cup {NoName} /\ (capPc = "idle" <=> missing = NoName)
    /\ capPc \in {"register", "publish"} => missing \in passed
    /\ capPc = "give up" => missing \in told
    /\ prereqs \in [Caps -> SUBSET Caps]
    /\ \A i \in DOMAIN registry : CapEarned(i)
    /\ \A n \in CapNames : attempts[n] >= 3 => n \in told \/ (capPc = "escalate" /\ missing = n)

LEMMA CapStart == CapInit => CapInv
  <1> SUFFICES ASSUME CapInit PROVE CapInv
    OBVIOUS
  <1>1. registry \in Seq(CapItem) /\ DOMAIN registry = {}
    BY DEF CapInit
  <1>2. attempts \in [CapNames -> Nat] /\ \A n \in CapNames : ~(attempts[n] >= 3)
    BY DEF CapInit
  <1> QED
    BY <1>1, <1>2 DEF CapInit, CapInv, CapPcs

LEMMA FirstIs ==
  ASSUME NEW I \in SUBSET Nat, I # {}
  PROVE  FirstOf(I) \in I /\ \A j \in I : FirstOf(I) <= j
  BY Smallest DEF FirstOf

LEMMA RegistryIs ==
  ASSUME CapInv, NEW I \in SUBSET DOMAIN registry
  PROVE  /\ registry \in Seq(CapItem) /\ Len(registry) \in Nat /\ DOMAIN registry = 1 .. Len(registry)
         /\ I \in SUBSET Nat /\ Cardinality(I) \in Nat
  <1>1. registry \in Seq(CapItem)
    BY DEF CapInv
  <1>2. Len(registry) \in Nat /\ DOMAIN registry = 1 .. Len(registry)
    BY <1>1
  <1>3. I \in SUBSET Nat
    BY <1>2
  <1>4. IsFiniteSet(DOMAIN registry)
    BY <1>2, FS_Interval
  <1>5. IsFiniteSet(I)
    BY <1>4, FS_Subset
  <1> QED
    BY <1>1, <1>2, <1>3, <1>5, FS_CardinalityType

\* A status that is given to a name that has earned it.
LEMMA CapMarks ==
  ASSUME CapInv, NEW n \in CapNames,
         NEW s \in {"acquiring", "available", "verification_failed"}, SetCapabilityStatus(n, s),
         s = "available" => n \in passed', s = "verification_failed" => n \in told',
         passed \subseteq passed', told \subseteq told'
  PROVE  registry' \in Seq(CapItem) /\ \A i \in DOMAIN registry' : CapEarned(i)'
  <1>0. Named(n) \in SUBSET DOMAIN registry
    BY DEF Named
  <1>1. registry \in Seq(CapItem) /\ Named(n) \in SUBSET Nat
    BY <1>0, RegistryIs
  <1>2. CASE Named(n) # {}
    <2> DEFINE k == FirstOf(Named(n))
    <2>1. k \in DOMAIN registry /\ registry[k].name = n /\ registry' = [registry EXCEPT ![k].status = s]
      BY <1>1, <1>2, FirstIs DEF Named, SetCapabilityStatus
    <2> HIDE DEF k
    <2>2. registry[k] \in CapItem
      BY <1>1, <2>1
    <2>3. [registry[k] EXCEPT !.status = s] \in CapItem
      BY <2>2 DEF CapItem
    <2>4. /\ registry' \in Seq(CapItem) /\ DOMAIN registry' = DOMAIN registry
          /\ registry'[k].status = s /\ registry'[k].name = n
          /\ \A i \in DOMAIN registry \ {k} : registry'[i] = registry[i]
      BY <1>1, <2>1, <2>2, <2>3 DEF CapItem
    <2>5. \A i \in DOMAIN registry : CapEarned(i)
      BY DEF CapInv
    <2> QED
      BY <2>4, <2>5 DEF CapEarned
  <1>3. CASE Named(n) = {}
    <2> DEFINE e == [name |-> n, id |-> IdOf[n], status |-> s]
    <2>1. e \in CapItem
      BY DEF CapItem
    <2>2. registry' = Append(registry, e) /\ e.name = n /\ e.status = s
      BY <1>3 DEF SetCapabilityStatus
    <2> HIDE DEF e
    <2>3. /\ registry' \in Seq(CapItem)
          /\ \A i \in DOMAIN registry' : registry'[i] = e \/ (i \in DOMAIN registry /\ registry'[i] = registry[i])
      BY <1>1, <2>1, <2>2
    <2>4. \A i \in DOMAIN registry : CapEarned(i)
      BY DEF CapInv
    <2> QED
      BY <2>2, <2>3, <2>4 DEF CapEarned
  <1> QED
    BY <1>2, <1>3

LEMMA CapRegisters ==
  ASSUME CapInv, NEW n \in CapNames, RegisterCapability(n), UNCHANGED <<passed, told>>
  PROVE  registry' \in Seq(CapItem) /\ \A i \in DOMAIN registry' : CapEarned(i)'
  <1> DEFINE e == [name |-> n, id |-> IdOf[n], status |-> "acquiring"]
  <1>1. e \in CapItem /\ e.status = "acquiring"
    BY DEF CapItem
  <1>0. WithId(n) \in SUBSET DOMAIN registry
    BY DEF WithId
  <1>2. registry \in Seq(CapItem) /\ WithId(n) \in SUBSET Nat
    BY <1>0, RegistryIs
  <1>3. PICK k \in Nat : \/ k \in DOMAIN registry /\ registry' = [registry EXCEPT ![k] = e]
                         \/ registry' = Append(registry, e)
    <2>1. CASE WithId(n) # {}
      <3>1. FirstOf(WithId(n)) \in WithId(n)
        BY <1>2, <2>1, FirstIs
      <3>2. FirstOf(WithId(n)) \in DOMAIN registry /\ FirstOf(WithId(n)) \in Nat
        BY <1>2, <3>1 DEF WithId
      <3> QED
        BY <2>1, <3>2 DEF RegisterCapability
    <2>2. CASE WithId(n) = {}
      BY <2>2 DEF RegisterCapability
    <2> QED
      BY <2>1, <2>2
  <1> HIDE DEF e
  <1>4. /\ registry' \in Seq(CapItem)
        /\ \A i \in DOMAIN registry' : registry'[i] = e \/ (i \in DOMAIN registry /\ registry'[i] = registry[i])
    BY <1>1, <1>2, <1>3
  <1>5. \A i \in DOMAIN registry : CapEarned(i)
    BY DEF CapInv
  <1> QED
    BY <1>1, <1>4, <1>5 DEF CapEarned

LEMMA CapRemoves ==
  ASSUME CapInv, NEW n \in CapNames, RemoveCapability(n)
  PROVE  registry' \in Seq(CapItem) /\ \A i \in DOMAIN registry' : CapEarned(i)'
  <1> DEFINE I == DOMAIN registry \ WithId(n)
  <1>1. PICK p \in Listing(I) : registry' = [k \in DOMAIN p |-> registry[p[k]]]
    BY DEF RemoveCapability
  <1>0. I \in SUBSET DOMAIN registry
    OBVIOUS
  <1>2. registry \in Seq(CapItem) /\ Len(registry) \in Nat /\ DOMAIN registry = 1 .. Len(registry)
    BY <1>0, RegistryIs
  <1>3. Cardinality(I) \in Nat
    BY <1>0, RegistryIs
  <1>4. p \in [1 .. Cardinality(I) -> I]
    BY <1>1 DEF Listing
  <1>5. \A k \in 1 .. Cardinality(I) : p[k] \in DOMAIN registry /\ registry[p[k]] \in CapItem
    <2> SUFFICES ASSUME NEW k \in 1 .. Cardinality(I)
                 PROVE  p[k] \in DOMAIN registry /\ registry[p[k]] \in CapItem
      OBVIOUS
    <2>1. p[k] \in I
      BY <1>4
    <2>2. p[k] \in DOMAIN registry
      BY <1>0, <2>1
    <2> HIDE DEF I
    <2> QED
      BY <1>2, <2>2
  <1> HIDE DEF I
  <1>6. registry' = [k \in 1 .. Cardinality(I) |-> registry[p[k]]]
    BY <1>1, <1>4
  <1>7. registry' \in Seq(CapItem)
    BY <1>3, <1>5, <1>6
  <1>8. \A i \in DOMAIN registry : CapEarned(i)
    BY DEF CapInv
  <1>9. \A k \in 1 .. Cardinality(I) : CapEarned(k)'
    BY <1>5, <1>6, <1>8 DEF CapEarned, RemoveCapability
  <1> QED
    BY <1>6, <1>7, <1>9

LEMMA CapKeeps == CapInv /\ [AcquireStep]_acquireVars /\ UNCHANGED prereqs => CapInv'
  <1> SUFFICES ASSUME CapInv, [AcquireStep]_acquireVars, UNCHANGED prereqs PROVE CapInv'
    OBVIOUS
  <1>0. /\ registry \in Seq(CapItem) /\ attempts \in [CapNames -> Nat] /\ capPc \in CapPcs
        /\ missing \in CapNames \cup {NoName} /\ (capPc = "idle" <=> missing = NoName)
        /\ \A i \in DOMAIN registry : CapEarned(i)
        /\ \A n \in CapNames : attempts[n] >= 3 => n \in told \/ (capPc = "escalate" /\ missing = n)
    BY DEF CapInv
  <1>1. CASE \E n \in CapNames : DetectDeficiency(n)
    <2>1. PICK n \in CapNames : DetectDeficiency(n)
      BY <1>1
    <2>2. UNCHANGED <<attempts, passed, told>> /\ capPc = "idle"
      BY <2>1 DEF DetectDeficiency
    <2>3. CASE n \in Permissions
      BY <1>0, <2>1, <2>2, <2>3 DEF DetectDeficiency, CapInv, CapEarned
    <2>4. CASE n \notin Permissions
      <3>1. SetCapabilityStatus(n, "acquiring") /\ capPc' = "acquire" /\ missing' = n
        BY <2>1, <2>4 DEF DetectDeficiency
      <3>2. registry' \in Seq(CapItem) /\ \A i \in DOMAIN registry' : CapEarned(i)'
        BY <2>2, <3>1, CapMarks
      <3> QED
        BY <1>0, <2>2, <3>1, <3>2 DEF CapInv, CapPcs
    <2> QED
      BY <2>3, <2>4
  <1>2. CASE \E n \in CapNames : RemoveCapability(n)
    <2>1. PICK n \in CapNames : RemoveCapability(n)
      BY <1>2
    <2>2. registry' \in Seq(CapItem) /\ \A i \in DOMAIN registry' : CapEarned(i)'
      BY <2>1, CapRemoves
    <2> QED
      BY <1>0, <2>1, <2>2 DEF RemoveCapability, CapInv
  <1>3. CASE (AdapterExecutes \/ VerifyAcquiredCapability) /\ RecordFailure
    <2>1. missing \in CapNames /\ UNCHANGED <<registry, passed, told>>
          /\ attempts' = [attempts EXCEPT ![missing] = @ + 1]
          /\ Goto(IF attempts[missing] + 1 >= 3 THEN "escalate" ELSE "idle")
          /\ capPc # "escalate"
      BY <1>0, <1>3 DEF AdapterExecutes, VerifyAcquiredCapability, RecordFailure, MaxAttempts
    <2>2. /\ capPc' \in CapPcs /\ missing' \in CapNames \cup {NoName}
          /\ (capPc' = "idle" <=> missing' = NoName) /\ capPc' \in {"escalate", "idle"}
      BY <2>1 DEF Goto, CapPcs
    <2>3. attempts' \in [CapNames -> Nat]
      BY <1>0, <2>1
    <2>4. \A n \in CapNames : attempts'[n] >= 3 => n \in told' \/ (capPc' = "escalate" /\ missing' = n)
      <3> SUFFICES ASSUME NEW n \in CapNames, attempts'[n] >= 3
                   PROVE  n \in told \/ (capPc' = "escalate" /\ missing' = n)
        BY <2>1
      <3>1. CASE n = missing
        BY <1>0, <2>1, <3>1 DEF Goto
      <3>2. CASE n # missing
        BY <1>0, <2>1, <3>2
      <3> QED
        BY <3>1, <3>2
    <2>5. \A i \in DOMAIN registry' : CapEarned(i)'
      BY <1>0, <2>1 DEF CapEarned
    <2> QED
      BY <1>0, <2>1, <2>2, <2>3, <2>4, <2>5 DEF CapInv
  <1>4. CASE AdapterExecutes /\ ~RecordFailure
    BY <1>0, <1>4 DEF AdapterExecutes, Goto, CapInv, CapPcs, CapEarned
  <1>5. CASE VerifyAcquiredCapability /\ ~RecordFailure
    <2>1. /\ missing \in CapNames /\ capPc' = "register" /\ missing' = missing /\ capPc = "verify"
          /\ attempts' = [attempts EXCEPT ![missing] = 0]
          /\ passed' = passed \cup {missing} /\ UNCHANGED <<registry, told>>
      BY <1>0, <1>5 DEF VerifyAcquiredCapability, Goto
    <2>2. attempts' \in [CapNames -> Nat] /\ \A n \in CapNames : attempts'[n] >= 3 => attempts[n] >= 3
      BY <1>0, <2>1
    <2>3. \A i \in DOMAIN registry' : CapEarned(i)'
      BY <1>0, <2>1 DEF CapEarned
    <2>4. \A n \in CapNames : attempts'[n] >= 3 => n \in told'
      BY <1>0, <2>1, <2>2
    <2> QED
      BY <1>0, <2>1, <2>2, <2>3, <2>4 DEF CapInv, CapPcs
  <1>6. CASE Register
    <2>1. /\ missing \in CapNames /\ missing \in passed /\ capPc' = "publish" /\ missing' = missing
          /\ capPc = "register" /\ UNCHANGED <<attempts, passed, told>>
      BY <1>0, <1>6 DEF Register, Goto, CapInv
    <2>2. registry' \in Seq(CapItem) /\ \A i \in DOMAIN registry' : CapEarned(i)'
      BY <1>6, <2>1, CapRegisters DEF Register
    <2> QED
      BY <1>0, <2>1, <2>2 DEF CapInv, CapPcs
  <1>7. CASE Publish
    <2>1. /\ missing \in CapNames /\ missing \in passed /\ capPc' = "idle" /\ missing' = NoName
          /\ capPc = "publish" /\ UNCHANGED <<attempts, passed, told>>
      BY <1>0, <1>7 DEF Publish, Goto, CapInv
    <2>2. registry' \in Seq(CapItem) /\ \A i \in DOMAIN registry' : CapEarned(i)'
      BY <1>7, <2>1, CapMarks DEF Publish
    <2> QED
      BY <1>0, <2>1, <2>2 DEF CapInv, CapPcs
  <1>8. CASE EscalateToUser
    BY <1>0, <1>8 DEF EscalateToUser, Goto, CapInv, CapPcs, CapEarned
  <1>9. CASE GiveUp
    <2>1. /\ missing \in CapNames /\ missing \in told /\ capPc' = "idle" /\ missing' = NoName
          /\ capPc = "give up" /\ UNCHANGED <<attempts, passed, told>>
      BY <1>0, <1>9 DEF GiveUp, Goto, CapInv
    <2>2. registry' \in Seq(CapItem) /\ \A i \in DOMAIN registry' : CapEarned(i)'
      BY <1>9, <2>1, CapMarks DEF GiveUp
    <2> QED
      BY <1>0, <2>1, <2>2 DEF CapInv, CapPcs
  <1>10. CASE WriteFails
    BY <1>0, <1>10 DEF WriteFails, Goto, CapInv, CapPcs, CapEarned
  <1>11. CASE CapRestart
    <2>1. attempts' \in [CapNames -> Nat] /\ \A n \in CapNames : ~(attempts'[n] >= 3)
      BY <1>11 DEF CapRestart
    <2>2. \A i \in DOMAIN registry' : CapEarned(i)'
      BY <1>0, <1>11 DEF CapRestart, CapEarned
    <2> QED
      BY <1>0, <1>11, <2>1, <2>2 DEF CapRestart, Goto, CapInv, CapPcs
  <1>12. CASE UNCHANGED acquireVars
    BY <1>0, <1>12 DEF acquireVars, CapInv, CapEarned
  <1> QED
    BY <1>1, <1>2, <1>3, <1>4, <1>5, <1>6, <1>7, <1>8, <1>9, <1>10, <1>11, <1>12 DEF AcquireStep

LEMMA CapOrders == CapInv /\ AddDependency => CapInv'
  <1> SUFFICES ASSUME CapInv, AddDependency PROVE CapInv'
    OBVIOUS
  <1>1. prereqs' \in [Caps -> SUBSET Caps]
    BY DEF AddDependency, CapInv
  <1>2. \A i \in DOMAIN registry' : CapEarned(i)'
    BY DEF AddDependency, acquireVars, CapInv, CapEarned
  <1> QED
    BY <1>1, <1>2 DEF AddDependency, acquireVars, CapInv

LEMMA CapHolds == CapInv => CapTypeOK /\ StatusEarned
  <1> SUFFICES ASSUME CapInv PROVE CapTypeOK /\ StatusEarned
    OBVIOUS
  <1>0. registry \in Seq(CapItem)
    BY DEF CapInv
  <1>1. \A i \in DOMAIN registry : registry[i] \in CapItem
    BY <1>0
  <1>2. CapTypeOK
    BY <1>1 DEF CapInv, CapTypeOK, CapItem
  <1>3. StatusEarned
    BY DEF CapInv, StatusEarned, CapEarned
  <1> QED
    BY <1>2, <1>3

-----------------------------------------------------------------------------
(* The order of acquisition *)

\* The rounds of the loop have a solution: as far as any number of them there
\* is a function that meets the definition.
NextTaken(order) ==
    LET ready == Ready(ToSet(order))
    IN  IF ready = {} THEN order ELSE Append(order, FirstOf(ready))

LEMMA NextTyped ==
  ASSUME prereqs \in [Caps -> SUBSET Caps], NEW order \in Seq(Caps)
  PROVE  /\ NextTaken(order) \in Seq(Caps)
         /\ Ready(ToSet(order)) # {} =>
              FirstOf(Ready(ToSet(order))) \in Ready(ToSet(order))
  <1>1. Ready(ToSet(order)) \subseteq Caps /\ Ready(ToSet(order)) \in SUBSET Nat
    BY DEF Ready, Caps
  <1>2. CASE Ready(ToSet(order)) = {}
    BY <1>2 DEF NextTaken
  <1>3. CASE Ready(ToSet(order)) # {}
    <2>1. FirstOf(Ready(ToSet(order))) \in Ready(ToSet(order))
      BY <1>1, <1>3, FirstIs
    <2>2. FirstOf(Ready(ToSet(order))) \in Caps
      BY <1>1, <2>1
    <2> QED
      BY <1>3, <2>1, <2>2 DEF NextTaken
  <1> QED
    BY <1>2, <1>3

LEMMA TakenIs ==
  ASSUME prereqs \in [Caps -> SUBSET Caps]
  PROVE  /\ Taken[0] = <<>>
         /\ \A k \in 1 .. NumCaps : Taken[k] = NextTaken(Taken[k - 1])
         /\ \A k \in 0 .. NumCaps : Taken[k] \in Seq(Caps)
  <1> DEFINE Rounds(f, m) == /\ f \in [0 .. NumCaps -> Seq(Caps)]
                             /\ \A k \in 0 .. m :
                                  f[k] = IF k = 0 THEN <<>> ELSE NextTaken(f[k - 1])
             Bad == {m \in 0 .. NumCaps : \A f : ~Rounds(f, m)}
  <1>1. Bad \in SUBSET Nat
    OBVIOUS
  <1>2. ASSUME Bad # {} PROVE FALSE
    <2>1. PICK m \in Bad : \A y \in Bad : m <= y
      BY <1>1, <1>2, Smallest
    <2>2. m \in 0 .. NumCaps /\ m \in Nat
      OBVIOUS
    <2>3. CASE m = 0
      <3>1. Rounds([k \in 0 .. NumCaps |-> <<>>], 0)
        OBVIOUS
      <3> QED
        BY <2>1, <2>3, <3>1
    <2>4. CASE m # 0
      <3>1. m - 1 \in 0 .. NumCaps /\ ~(m <= m - 1)
        BY <2>2, <2>4
      <3>2. m - 1 \notin Bad
        BY <2>1, <3>1
      <3>3. PICK f : Rounds(f, m - 1)
        BY <3>1, <3>2
      <3> HIDE DEF Bad
      <3>4. f \in [0 .. NumCaps -> Seq(Caps)]
        BY <3>3
      <3>5. f[m - 1] \in Seq(Caps)
        BY <3>1, <3>4
      <3>6. NextTaken(f[m - 1]) \in Seq(Caps)
        BY <3>5, NextTyped
      <3> DEFINE g == [f EXCEPT ![m] = NextTaken(f[m - 1])]
      <3>7. /\ g \in [0 .. NumCaps -> Seq(Caps)] /\ g[m] = NextTaken(f[m - 1])
            /\ \A k \in 0 .. m - 1 : g[k] = f[k]
        BY <2>2, <3>4, <3>6
      <3> HIDE DEF g
      <3>8. ASSUME NEW k \in 0 .. m
            PROVE  g[k] = IF k = 0 THEN <<>> ELSE NextTaken(g[k - 1])
        <4>1. CASE k = m
          <5>1. g[m - 1] = f[m - 1]
            BY <2>2, <2>4, <3>7
          <5> QED
            BY <2>4, <3>7, <4>1, <5>1
        <4>2. CASE k # m
          <5>1. k \in 0 .. m - 1 /\ (k # 0 => k - 1 \in 0 .. m - 1)
            BY <2>2, <4>2
          <5> QED
            BY <3>3, <3>7, <5>1
        <4> QED
          BY <4>1, <4>2
      <3>9. Rounds(g, m)
        BY <3>7, <3>8
      <3> QED
        BY <2>1, <3>9 DEF Bad
    <2> QED
      BY <2>3, <2>4
  <1>3. PICK f : Rounds(f, NumCaps)
    <2>1. Bad = {}
      BY <1>2
    <2>2. NumCaps \in 0 .. NumCaps
      OBVIOUS
    <2> HIDE DEF Rounds
    <2> QED
      BY <2>1, <2>2
  <1> HIDE DEF Bad
  <1>4. f = [k \in 0 .. NumCaps |-> IF k = 0 THEN <<>> ELSE NextTaken(f[k - 1])]
    BY <1>3
  <1>5. Taken = [k \in 0 .. NumCaps |-> IF k = 0 THEN <<>> ELSE NextTaken(Taken[k - 1])]
    BY <1>4, Zenon DEF Taken, NextTaken
  <1> HIDE DEF Rounds
  <1>6. \A k \in 0 .. NumCaps : Taken[k] = IF k = 0 THEN <<>> ELSE NextTaken(Taken[k - 1])
    BY <1>5, Zenon
  <1>7. 0 \in 0 .. NumCaps /\ \A k \in 1 .. NumCaps : k \in 0 .. NumCaps /\ k # 0 /\ k - 1 \in 0 .. NumCaps
    OBVIOUS
  <1>8. Taken[0] = <<>> /\ \A k \in 1 .. NumCaps : Taken[k] = NextTaken(Taken[k - 1])
    BY <1>6, <1>7, Zenon
  <1> DEFINE Wrong == {k \in 0 .. NumCaps : Taken[k] \notin Seq(Caps)}
  <1>9. ASSUME Wrong # {} PROVE FALSE
    <2>1. PICK m \in Wrong : \A y \in Wrong : m <= y
      <3>1. Wrong \in SUBSET Nat
        OBVIOUS
      <3> QED
        BY <1>9, <3>1, Smallest
    <2>2. m # 0 /\ m \in 1 .. NumCaps
      <3>1. <<>> \in Seq(Caps) /\ m \in 0 .. NumCaps /\ Taken[m] \notin Seq(Caps)
        OBVIOUS
      <3>2. m # 0
        BY <1>8, <3>1
      <3> QED
        BY <3>1, <3>2
    <2>3. m - 1 \in 0 .. NumCaps /\ ~(m <= m - 1)
      BY <2>2
    <2>4. Taken[m - 1] \in Seq(Caps)
      BY <2>1, <2>3
    <2> QED
      BY <1>8, <2>2, <2>4, NextTyped
  <1> QED
    BY <1>8, <1>9

\* As far as the rounds have got, nothing is taken twice, prerequisites come
\* first, and a round that takes nothing is the end.
OrderedSoFar(o, k) ==
    /\ \A i, j \in DOMAIN o : i # j => o[i] # o[j]
    /\ \A i \in DOMAIN o : prereqs[o[i]] \subseteq {o[j] : j \in 1 .. i - 1}
    /\ Len(o) = k \/ Ready(ToSet(o)) = {}

LEMMA NextOrdered ==
  ASSUME prereqs \in [Caps -> SUBSET Caps], NEW o \in Seq(Caps), NEW k \in Nat, OrderedSoFar(o, k)
  PROVE  OrderedSoFar(NextTaken(o), k + 1)
  <1>1. CASE Ready(ToSet(o)) = {}
    BY <1>1 DEF NextTaken, OrderedSoFar
  <1>2. CASE Ready(ToSet(o)) # {}
    <2> DEFINE c == FirstOf(Ready(ToSet(o)))
               n == Len(o) + 1
               p == Append(o, c)
    <2>1. c \in Caps \ ToSet(o) /\ prereqs[c] \subseteq ToSet(o)
      BY <1>2, NextTyped DEF Ready
    <2>2. NextTaken(o) = p /\ Len(o) = k
      BY <1>2 DEF NextTaken, OrderedSoFar
    <2>3. Len(o) \in Nat /\ DOMAIN o = 1 .. Len(o) /\ ToSet(o) = {o[j] : j \in 1 .. n - 1}
      BY DEF ToSet
    <2> HIDE DEF c
    <2>4. /\ p \in Seq(Caps) /\ DOMAIN p = 1 .. n /\ Len(p) = n /\ p[n] = c
          /\ \A j \in 1 .. n - 1 : p[j] = o[j]
      BY <2>1, <2>3
    <2> HIDE DEF p
    <2>5. \A i \in 1 .. n - 1 : o[i] \in ToSet(o)
      BY <2>3
    <2>8. /\ \A i, j \in 1 .. n - 1 : i # j => o[i] # o[j]
          /\ \A i \in 1 .. n - 1 : prereqs[o[i]] \subseteq {o[j] : j \in 1 .. i - 1}
      <3>1. n - 1 = Len(o)
        BY <2>3
      <3> QED
        BY <2>3, <3>1 DEF OrderedSoFar
    <2>6. \A i, j \in DOMAIN p : i # j => p[i] # p[j]
      <3> SUFFICES ASSUME NEW i \in 1 .. n, NEW j \in 1 .. n, i < j PROVE p[i] # p[j]
        BY <2>3, <2>4
      <3>1. i \in 1 .. n - 1 /\ p[i] = o[i]
        BY <2>3, <2>4
      <3>2. CASE j = n
        BY <2>1, <2>4, <2>5, <3>1, <3>2
      <3>3. CASE j # n
        <4>1. j \in 1 .. n - 1
          BY <2>3, <3>3
        <4> QED
          BY <2>4, <2>8, <3>1, <4>1
      <3> QED
        BY <3>2, <3>3
    <2>7. \A i \in DOMAIN p : prereqs[p[i]] \subseteq {p[j] : j \in 1 .. i - 1}
      <3> SUFFICES ASSUME NEW i \in 1 .. n, NEW q \in prereqs[p[i]]
                   PROVE  \E j \in 1 .. i - 1 : q = p[j]
        BY <2>4
      <3>1. CASE i = n
        <4>1. q \in {o[j] : j \in 1 .. n - 1}
          BY <2>1, <2>3, <2>4, <3>1
        <4> QED
          BY <2>4, <3>1, <4>1
      <3>2. CASE i # n
        <4>1. i \in 1 .. n - 1 /\ p[i] = o[i]
          BY <2>3, <2>4, <3>2
        <4>2. PICK j \in 1 .. i - 1 : q = o[j]
          BY <2>8, <4>1
        <4>3. j \in 1 .. n - 1
          BY <2>3, <4>1
        <4> QED
          BY <2>4, <4>2, <4>3
      <3> QED
        BY <3>1, <3>2
    <2> QED
      BY <2>2, <2>3, <2>4, <2>6, <2>7 DEF OrderedSoFar
  <1> QED
    BY <1>1, <1>2

LEMMA TakenOrdered ==
  ASSUME prereqs \in [Caps -> SUBSET Caps]
  PROVE  \A k \in 0 .. NumCaps : OrderedSoFar(Taken[k], k)
  <1> DEFINE Wrong == {k \in 0 .. NumCaps : ~OrderedSoFar(Taken[k], k)}
  <1>1. OrderedSoFar(Taken[0], 0)
    BY TakenIs DEF OrderedSoFar
  <1>2. ASSUME Wrong # {} PROVE FALSE
    <2>1. PICK m \in Wrong : \A y \in Wrong : m <= y
      <3>1. Wrong \in SUBSET Nat
        OBVIOUS
      <3> QED
        BY <1>2, <3>1, Smallest
    <2>2. m \in 0 .. NumCaps /\ ~OrderedSoFar(Taken[m], m)
      OBVIOUS
    <2>3. m # 0
      BY <1>1, <2>2
    <2>4. m \in 1 .. NumCaps /\ m - 1 \in 0 .. NumCaps /\ m - 1 \in Nat /\ ~(m <= m - 1) /\ (m - 1) + 1 = m
      BY <2>2, <2>3
    <2>5. OrderedSoFar(Taken[m - 1], m - 1)
      BY <2>1, <2>4
    <2>6. Taken[m - 1] \in Seq(Caps) /\ Taken[m] = NextTaken(Taken[m - 1])
      BY <2>4, TakenIs
    <2>7. OrderedSoFar(NextTaken(Taken[m - 1]), m)
      BY <2>4, <2>5, <2>6, NextOrdered
    <2> QED
      BY <2>2, <2>6, <2>7
  <1> QED
    BY <1>2

\* A sequence of different capabilities as long as there are any holds them all.
LEMMA AllTaken ==
  ASSUME NEW o \in Seq(Caps), Len(o) = NumCaps, \A i, j \in DOMAIN o : i # j => o[i] # o[j]
  PROVE  ToSet(o) = Caps
  <1>1. DOMAIN o = Caps /\ o \in [Caps -> Caps]
    BY DEF Caps
  <1>2. o \in Injection(Caps, Caps)
    <2>1. \A i, j \in Caps : o[i] = o[j] => i = j
      BY <1>1
    <2> QED
      BY <1>1, <2>1, Fun_IsInj
  <1>3. IsFiniteSet(Caps)
    BY FS_Interval DEF Caps
  <1>4. o \in Surjection(Caps, Caps)
    BY <1>2, <1>3, FS_Injection
  <1>5. \A c \in Caps : \E i \in Caps : o[i] = c
    BY <1>4 DEF Surjection
  <1> QED
    <2>1. \A c : c \in ToSet(o) <=> \E i \in Caps : o[i] = c
      BY <1>1 DEF ToSet
    <2>2. \A c : c \in ToSet(o) <=> c \in Caps
      <3>1. \A i \in Caps : o[i] \in Caps
        BY <1>1
      <3> QED
        BY <1>5, <2>1, <3>1, Zenon
    <2> QED
      BY <2>2

\* The order at the end: what is left is behind something that is left.
LEMMA OrderIs ==
  ASSUME prereqs \in [Caps -> SUBSET Caps]
  PROVE  LET o == ResolveDependencies IN
         /\ o \in Seq(Caps)
         /\ \A i, j \in DOMAIN o : i # j => o[i] # o[j]
         /\ \A i \in DOMAIN o : prereqs[o[i]] \subseteq {o[j] : j \in 1 .. i - 1}
         /\ Ready(ToSet(o)) = {}
  <1> DEFINE o == Taken[NumCaps]
  <1>1. o \in Seq(Caps) /\ OrderedSoFar(o, NumCaps)
    BY TakenIs, TakenOrdered
  <1> HIDE DEF o
  <1>2. Ready(ToSet(o)) = {}
    <2>1. CASE Len(o) = NumCaps
      <3>1. ToSet(o) = Caps
        BY <1>1, <2>1, AllTaken DEF OrderedSoFar
      <3> QED
        BY <3>1 DEF Ready
    <2> QED
      BY <1>1, <2>1 DEF OrderedSoFar
  <1>3. ResolveDependencies = o
    BY DEF ResolveDependencies, o
  <1> QED
    BY <1>1, <1>2, <1>3 DEF OrderedSoFar

LEMMA BeforeStep ==
  ASSUME prereqs \in [Caps -> SUBSET Caps], NEW c \in Caps, NEW q \in prereqs[c]
  PROVE  Before(q, c) /\ \A p : Before(p, q) => Before(p, c)
  <1>1. Before(q, c)
    BY DEF Before
  <1>2. ASSUME NEW p, Before(p, q), NEW S \in SUBSET Caps, prereqs[c] \subseteq S, Complete(S)
        PROVE  p \in S
    <2>1. q \in S /\ prereqs[q] \subseteq S
      BY <1>2 DEF Complete
    <2> QED
      BY <1>2, <2>1 DEF Before
  <1> QED
    BY <1>1, <1>2 DEF Before

\* What comes before something in the order is earlier in it.
LEMMA BeforeIsEarlier ==
  ASSUME prereqs \in [Caps -> SUBSET Caps], NEW o \in Seq(Caps),
         \A i \in DOMAIN o : prereqs[o[i]] \subseteq {o[j] : j \in 1 .. i - 1},
         NEW i \in DOMAIN o, NEW p, Before(p, o[i])
  PROVE  \E j \in 1 .. i - 1 : p = o[j]
  <1> DEFINE S == {o[j] : j \in 1 .. i - 1}
  <1>1. Len(o) \in Nat /\ DOMAIN o = 1 .. Len(o) /\ \A j \in DOMAIN o : o[j] \in Caps
    OBVIOUS
  <1>2. \A j \in 1 .. i - 1 : j \in DOMAIN o
    BY <1>1
  <1>3. S \in SUBSET Caps
    BY <1>1, <1>2
  <1>4. Complete(S)
    <2> SUFFICES ASSUME NEW c \in S, NEW q \in prereqs[c] PROVE q \in S
      BY DEF Complete
    <2>1. PICK j \in 1 .. i - 1 : c = o[j]
      OBVIOUS
    <2>2. PICK m \in 1 .. j - 1 : q = o[m]
      BY <1>2, <2>1
    <2>3. m \in 1 .. i - 1
      BY <1>1, <2>1, <2>2
    <2> QED
      BY <2>2, <2>3
  <1>5. prereqs[o[i]] \subseteq S
    OBVIOUS
  <1>6. p \in S
    BY <1>3, <1>4, <1>5 DEF Before
  <1> QED
    BY <1>6

\* Of finitely many that each have a prerequisite among them, some are in a
\* circle: else one with the fewest before it would have none.
LEMMA SomeCircular ==
  ASSUME prereqs \in [Caps -> SUBSET Caps], NEW L \in SUBSET Caps, L # {},
         \A c \in L : prereqs[c] \cap L # {}
  PROVE  \E c \in L : Before(c, c)
  <1> SUFFICES ASSUME \A c \in L : ~Before(c, c) PROVE FALSE
    OBVIOUS
  <1> DEFINE A(c) == {p \in Caps : Before(p, c)}
             N == {Cardinality(A(c)) : c \in L}
  <1>1. \A c \in L : IsFiniteSet(A(c)) /\ Cardinality(A(c)) \in Nat
    <2> TAKE c \in L
    <2>1. A(c) \subseteq Caps /\ IsFiniteSet(Caps)
      BY FS_Interval DEF Caps
    <2>2. IsFiniteSet(A(c))
      BY <2>1, FS_Subset
    <2> QED
      BY <2>2, FS_CardinalityType
  <1>2. N \in SUBSET Nat /\ N # {}
    <2> HIDE DEF A
    <2>1. \A c \in L : Cardinality(A(c)) \in N
      OBVIOUS
    <2>2. \A n \in N : n \in Nat
      BY <1>1
    <2> HIDE DEF N
    <2> QED
      BY <2>1, <2>2
  <1>3. PICK n \in N : \A y \in N : n <= y
    BY <1>2, Smallest
  <1>4. PICK c \in L : n = Cardinality(A(c))
    BY <1>3
  <1>5. PICK q \in L : q \in prereqs[c]
    OBVIOUS
  <1>6. A(q) \subseteq A(c) /\ q \in A(c) /\ q \notin A(q)
    BY <1>5, BeforeStep
  <1>7. IsFiniteSet(A(c)) /\ Cardinality(A(q)) \in Nat /\ Cardinality(A(c)) \in Nat
        /\ Cardinality(A(q)) \in N
    BY <1>1
  <1> HIDE DEF A, N
  <1>8. Cardinality(A(q)) < Cardinality(A(c))
    <2>1. A(q) # A(c)
      BY <1>6, Zenon
    <2>2. Cardinality(A(q)) <= Cardinality(A(c)) /\ (Cardinality(A(q)) = Cardinality(A(c)) => A(q) = A(c))
      BY <1>6, <1>7, FS_Subset
    <2> QED
      BY <1>7, <2>1, <2>2
  <1> QED
    BY <1>3, <1>4, <1>7, <1>8

LEMMA OrderHolds == CapInv => AcquisitionOrdered
  <1> SUFFICES ASSUME CapInv PROVE AcquisitionOrdered
    OBVIOUS
  <1>1. prereqs \in [Caps -> SUBSET Caps]
    BY DEF CapInv
  <1> DEFINE o == ResolveDependencies
             circular == {c \in Caps : Before(c, c)}
             lost == Caps \ ToSet(o)
             behind == {c \in Caps : \E p \in circular : p = c \/ Before(p, c)}
  <1>2. /\ o \in Seq(Caps) /\ Ready(ToSet(o)) = {}
        /\ \A i, j \in DOMAIN o : i # j => o[i] # o[j]
        /\ \A i \in DOMAIN o : prereqs[o[i]] \subseteq {o[j] : j \in 1 .. i - 1}
    BY <1>1, OrderIs
  <1> HIDE DEF o
  <1>3. Len(o) \in Nat /\ DOMAIN o = 1 .. Len(o) /\ ToSet(o) = {o[i] : i \in 1 .. Len(o)}
    BY <1>2 DEF ToSet
  <1>4. \A i \in DOMAIN o : \A p : Before(p, o[i]) => \E j \in 1 .. i - 1 : p = o[j]
    BY <1>1, <1>2, BeforeIsEarlier
  <1>5. \A i \in DOMAIN o : ~Before(o[i], o[i])
    <2> SUFFICES ASSUME NEW i \in DOMAIN o, Before(o[i], o[i]) PROVE FALSE
      OBVIOUS
    <2>1. PICK j \in 1 .. i - 1 : o[i] = o[j]
      BY <1>4
    <2>2. j \in DOMAIN o /\ j # i
      BY <1>3, <2>1
    <2> QED
      BY <1>2, <2>1, <2>2
  <1>6. ASSUME NEW c \in lost PROVE c \in behind
    <2> DEFINE L == {q \in lost : q = c \/ Before(q, c)}
    <2>1. L \in SUBSET Caps /\ c \in L
      OBVIOUS
    <2>2. \A d \in L : prereqs[d] \cap L # {}
      <3> SUFFICES ASSUME NEW d \in L PROVE prereqs[d] \cap L # {}
        OBVIOUS
      <3>1. d \in Caps \ ToSet(o) /\ d \notin Ready(ToSet(o))
        BY <1>2
      <3>2. PICK q \in prereqs[d] : q \notin ToSet(o)
        BY <3>1 DEF Ready
      <3>3. q \in lost
        BY <1>1, <3>1, <3>2
      <3>4. Before(q, d) /\ (Before(d, c) => Before(q, c))
        <4>1. Before(q, d)
          BY <1>1, <3>1, BeforeStep
        <4>2. ASSUME Before(d, c) PROVE Before(q, c)
          <5> SUFFICES ASSUME NEW S \in SUBSET Caps, prereqs[c] \subseteq S, Complete(S)
                       PROVE  q \in S
            BY DEF Before
          <5>1. d \in S
            BY <4>2 DEF Before
          <5> QED
            BY <5>1 DEF Complete
        <4> QED
          BY <4>1, <4>2
      <3>5. q \in L
        BY <3>3, <3>4
      <3> QED
        BY <3>5
    <2>3. PICK p \in L : Before(p, p)
      <3>1. L # {}
        BY <2>1
      <3> HIDE DEF L
      <3> QED
        BY <1>1, <2>1, <2>2, <3>1, SomeCircular
    <2> QED
      BY <2>1, <2>3
  <1>7. ASSUME NEW c \in behind PROVE c \in lost
    <2> SUFFICES ASSUME c \in ToSet(o) PROVE FALSE
      OBVIOUS
    <2>1. PICK i \in 1 .. Len(o) : c = o[i]
      BY <1>3
    <2>2. PICK p \in circular : p = c \/ Before(p, c)
      OBVIOUS
    <2>3. CASE p = c
      BY <1>3, <1>5, <2>1, <2>2, <2>3
    <2>4. CASE Before(p, c)
      <3>1. PICK j \in 1 .. i - 1 : p = o[j]
        BY <1>3, <1>4, <2>1, <2>4
      <3>2. j \in DOMAIN o
        BY <1>3, <2>1, <3>1
      <3> QED
        BY <1>5, <2>2, <3>1, <3>2
    <2> QED
      BY <2>2, <2>3, <2>4
  <1>8. lost = behind
    BY <1>6, <1>7
  <1>9. DetectCircularDependency <=> lost # {}
    <2>1. ASSUME NEW c \in Caps, Before(c, c) PROVE lost # {}
      <3>1. c \in behind
        BY <2>1
      <3> QED
        BY <1>8, <3>1
    <2>2. ASSUME lost # {} PROVE \E c \in Caps : Before(c, c)
      <3>1. PICK c \in behind : TRUE
        BY <1>8, <2>2
      <3> QED
        BY <3>1
    <2> QED
      BY <2>1, <2>2 DEF DetectCircularDependency
  <1> QED
    BY <1>2, <1>8, <1>9 DEF AcquisitionOrdered, o

HIDE CapabilityAssumption DEF CapabilityAssumption

-----------------------------------------------------------------------------
(* What curiosity proposes *)

USE CuriosityAssumption DEF CuriosityAssumption

CurItem == [description : Descriptions,
            status : {"pending", "approved", "rejected", "expired", "auto_closed"},
            expires : Int, loops : Nat, again : BOOLEAN]
CurState == [proposals : Seq(CurItem), rejected : SUBSET Descriptions, explored : Never .. MaxCurHours]
CurSave == [state : CurState, late : BOOLEAN]
CurGen == [at : {"no", "trigger", "item", "ethics", "transfer", "end"}, began : Nat, base : Nat,
           made : Nat, item : Descriptions \cup {NoGeneration.item}, again : BOOLEAN]

\* How many proposals a state shows the user; a state none of them is in again.
Shown(s) == Cardinality(ActiveIn(s))
Clean(s) == \A i \in DOMAIN s.proposals : ~s.proposals[i].again

\* The last save, unless it has been overtaken, or else the file has all that was
\* rejected.
RejectionsKept ==
    IF saves # <<>> /\ ~saves[Len(saves)].late
    THEN refusedEver \subseteq saves[Len(saves)].state.rejected
    ELSE refusedEver \subseteq curFile.rejected /\ \A k \in DOMAIN saves : saves[k].late

CurTyped ==
    /\ curiosity \in CurState /\ curFile \in CurState /\ saves \in Seq(CurSave)
    /\ gen \in CurGen /\ loadedState \in BOOLEAN /\ forgotten \in BOOLEAN
    /\ refusedEver \subseteq Descriptions /\ curHour \in 0 .. MaxCurHours
CurBounded ==
    /\ Shown(curiosity) <= MaxActive /\ Shown(curFile) <= MaxActive
    /\ \A k \in DOMAIN saves : Shown(saves[k].state) <= MaxActive
    /\ gen.at \in {"trigger", "item", "ethics", "transfer"} =>
         Shown(curiosity) <= gen.base + gen.made /\ gen.base + gen.made <= MaxActive
    /\ gen.at = "ethics" => gen.item \in Descriptions /\ gen.base + gen.made < MaxActive
CurLoaded == ~loadedState => gen.at = "no" /\ saves = <<>> /\ curiosity = EmptyState
CurClean ==
    ~forgotten =>
      /\ Clean(curiosity) /\ Clean(curFile) /\ \A k \in DOMAIN saves : Clean(saves[k].state)
      /\ gen.at = "ethics" => ~gen.again
      /\ loadedState => refusedEver \subseteq curiosity.rejected
      /\ RejectionsKept
CurInv == CurTyped /\ CurBounded /\ CurLoaded /\ CurClean

LEMMA ShownIs ==
  ASSUME NEW s \in CurState
  PROVE  /\ IsFiniteSet(ActiveIn(s)) /\ Shown(s) \in Nat
         /\ \A S \in SUBSET ActiveIn(s) : Cardinality(S) <= Shown(s)
         /\ Len(s.proposals) \in Nat /\ DOMAIN s.proposals = 1 .. Len(s.proposals)
         /\ s.proposals \in Seq(CurItem)
         /\ \A i \in DOMAIN s.proposals : s.proposals[i] \in CurItem
  <1>1. s.proposals \in Seq(CurItem)
    BY DEF CurState
  <1>2. Len(s.proposals) \in Nat /\ DOMAIN s.proposals = 1 .. Len(s.proposals)
        /\ \A i \in DOMAIN s.proposals : s.proposals[i] \in CurItem
    BY <1>1
  <1>3. IsFiniteSet(1 .. Len(s.proposals)) /\ ActiveIn(s) \subseteq 1 .. Len(s.proposals)
    BY <1>2, FS_Interval DEF ActiveIn
  <1>4. IsFiniteSet(ActiveIn(s))
    BY <1>3, FS_Subset
  <1> QED
    BY <1>1, <1>2, <1>4, FS_CardinalityType, FS_Subset DEF Shown

LEMMA EmptyIs == EmptyState \in CurState /\ Shown(EmptyState) = 0 /\ Clean(EmptyState)
  <1>1. EmptyState \in CurState
    BY DEF EmptyState, CurState, Never
  <1>2. EmptyState.proposals = <<>>
    BY DEF EmptyState
  <1>3. ActiveIn(EmptyState) = {}
    BY <1>2 DEF ActiveIn
  <1> QED
    BY <1>1, <1>2, <1>3, FS_EmptySet DEF Shown, Clean

LEMMA NoGenIs ==
  NoGeneration \in CurGen /\ NoGeneration.at = "no"
  BY DEF NoGeneration, CurGen

LEMMA CurStart == CurInit => CurInv
  <1> SUFFICES ASSUME CurInit PROVE CurInv
    OBVIOUS
  <1>1. saves = <<>> /\ saves \in Seq(CurSave) /\ DOMAIN saves = {} /\ refusedEver = {}
        /\ curiosity = EmptyState /\ curFile = EmptyState /\ loadedState = FALSE /\ forgotten = FALSE
        /\ gen = NoGeneration /\ curHour = 0
    BY DEF CurInit
  <1>2. CurTyped
    <2>1. 0 \in 0 .. MaxCurHours /\ {} \subseteq Descriptions
      OBVIOUS
    <2> QED
      BY <1>1, <2>1, EmptyIs, NoGenIs DEF CurTyped
  <1>3. CurBounded
    BY <1>1, EmptyIs, NoGenIs DEF CurBounded
  <1>4. CurClean /\ CurLoaded
    BY <1>1, EmptyIs, NoGenIs DEF CurClean, CurLoaded, RejectionsKept
  <1> QED
    BY <1>2, <1>3, <1>4 DEF CurInv

\* Expiration hides proposals and changes nothing else.
LEMMA ExpiredIs ==
  ASSUME NEW s \in CurState
  PROVE  /\ AfterExpiration(s) \in CurState /\ Shown(AfterExpiration(s)) <= Shown(s)
         /\ Clean(s) => Clean(AfterExpiration(s))
         /\ AfterExpiration(s).rejected = s.rejected
  <1> DEFINE p == s.proposals
             q == [i \in DOMAIN p |->
                     IF p[i].status = "pending" /\ p[i].expires <= curHour
                     THEN [p[i] EXCEPT !.status = "expired"]
                     ELSE IF p[i].status = "approved" /\ p[i].loops >= LoopLimit
                          THEN [p[i] EXCEPT !.status = "auto_closed"]
                     ELSE p[i]]
  <1>1. AfterExpiration(s) = [s EXCEPT !.proposals = q]
    BY DEF AfterExpiration
  <1>2. p \in Seq(CurItem) /\ DOMAIN p = 1 .. Len(p) /\ Len(p) \in Nat
        /\ \A i \in DOMAIN p : p[i] \in CurItem
    BY ShownIs
  <1>3. ASSUME NEW i \in DOMAIN p
        PROVE  /\ q[i] \in CurItem /\ q[i].again = p[i].again
               /\ q[i].status \in {"pending", "approved"} => p[i].status = q[i].status
    <2>1. p[i] \in CurItem
      BY <1>2
    <2> HIDE DEF p
    <2> QED
      BY <2>1 DEF CurItem
  <1>4. q \in Seq(CurItem) /\ DOMAIN q = DOMAIN p
    <2>1. q \in [1 .. Len(p) -> CurItem]
      BY <1>2, <1>3
    <2> HIDE DEF q
    <2> QED
      BY <1>2, <2>1
  <1> HIDE DEF q
  <1>5. /\ AfterExpiration(s) \in CurState /\ AfterExpiration(s).rejected = s.rejected
        /\ AfterExpiration(s).proposals = q
    BY <1>1, <1>4 DEF CurState
  <1>6. ActiveIn(AfterExpiration(s)) \in SUBSET ActiveIn(s)
    BY <1>3, <1>4, <1>5 DEF ActiveIn
  <1>7. Clean(s) => Clean(AfterExpiration(s))
    BY <1>3, <1>4, <1>5 DEF Clean
  <1> QED
    BY <1>5, <1>6, <1>7, ShownIs DEF Shown

\* A proposal more.
LEMMA ProposedIs ==
  ASSUME NEW s \in CurState, NEW c \in CurItem
  PROVE  LET t == [s EXCEPT !.proposals = Append(@, c)] IN
         /\ t \in CurState /\ Shown(t) <= Shown(s) + 1
         /\ Clean(s) /\ ~c.again => Clean(t)
         /\ t.rejected = s.rejected
  <1> DEFINE p == s.proposals
             t == [s EXCEPT !.proposals = Append(@, c)]
             n == Len(p) + 1
  <1>1. p \in Seq(CurItem) /\ DOMAIN p = 1 .. Len(p) /\ Len(p) \in Nat
    BY ShownIs
  <1>2. t.proposals = Append(p, c) /\ t.rejected = s.rejected
    BY DEF CurState
  <1> HIDE DEF p
  <1>3. /\ Append(p, c) \in Seq(CurItem) /\ DOMAIN Append(p, c) = 1 .. n
        /\ Append(p, c)[n] = c /\ \A i \in 1 .. Len(p) : Append(p, c)[i] = p[i]
    BY <1>1
  <1>4. t \in CurState
    BY <1>2, <1>3 DEF CurState
  <1> HIDE DEF t
  <1>5. ActiveIn(t) \subseteq ActiveIn(s) \cup {n}
    <2> SUFFICES ASSUME NEW i \in ActiveIn(t), i # n PROVE i \in ActiveIn(s)
      OBVIOUS
    <2>1. i \in 1 .. n /\ Append(p, c)[i].status \in {"pending", "approved"}
      BY <1>2, <1>3 DEF ActiveIn
    <2>2. i \in 1 .. Len(p)
      BY <1>1, <2>1
    <2> QED
      BY <1>1, <1>3, <2>1, <2>2 DEF ActiveIn, p
  <1>6. Shown(t) <= Shown(s) + 1
    <2>1. IsFiniteSet(ActiveIn(s)) /\ Shown(s) \in Nat /\ Shown(t) \in Nat
      BY <1>4, ShownIs
    <2>2. /\ IsFiniteSet(ActiveIn(s) \cup {n})
          /\ Cardinality(ActiveIn(s) \cup {n}) <= Shown(s) + 1
          /\ Cardinality(ActiveIn(s) \cup {n}) \in Nat
      <3>1. /\ IsFiniteSet(ActiveIn(s) \cup {n})
            /\ Cardinality(ActiveIn(s) \cup {n}) =
                 IF n \in ActiveIn(s) THEN Cardinality(ActiveIn(s)) ELSE Cardinality(ActiveIn(s)) + 1
        BY <2>1, FS_AddElement
      <3> QED
        BY <2>1, <3>1 DEF Shown
    <2>3. Shown(t) <= Cardinality(ActiveIn(s) \cup {n})
      BY <1>5, <2>2, FS_Subset DEF Shown
    <2> QED
      BY <2>1, <2>2, <2>3
  <1>7. Clean(s) /\ ~c.again => Clean(t)
    <2> SUFFICES ASSUME Clean(s), ~c.again, NEW i \in 1 .. n PROVE ~Append(p, c)[i].again
      BY <1>2, <1>3 DEF Clean
    <2>1. CASE i = n
      BY <1>3, <2>1
    <2>2. CASE i # n
      <3>1. i \in 1 .. Len(p)
        BY <1>1, <2>2
      <3> QED
        BY <1>1, <1>3, <3>1 DEF Clean, p
    <2> QED
      BY <2>1, <2>2
  <1> QED
    BY <1>2, <1>4, <1>6, <1>7 DEF t

\* The user's answer to a proposal that is pending.
LEMMA AnsweredIs ==
  ASSUME NEW s \in CurState, NEW i \in DOMAIN s.proposals, s.proposals[i].status = "pending",
         NEW x \in {"approved", "rejected"}
  PROVE  LET q == [s.proposals EXCEPT ![i].status = x] IN
         /\ q \in Seq(CurItem)
         /\ \A t \in CurState : t.proposals = q => Shown(t) <= Shown(s) /\ (Clean(s) => Clean(t))
  <1> DEFINE p == s.proposals
             q == [p EXCEPT ![i] = [p[i] EXCEPT !.status = x]]
  <1>1. p \in Seq(CurItem) /\ DOMAIN p = 1 .. Len(p) /\ Len(p) \in Nat /\ p[i] \in CurItem
    BY ShownIs
  <1>2. [p[i] EXCEPT !.status = x] \in CurItem /\ [p[i] EXCEPT !.status = x].again = p[i].again
    BY <1>1 DEF CurItem
  <1>3. /\ q \in Seq(CurItem) /\ DOMAIN q = DOMAIN p
        /\ \A j \in DOMAIN p : q[j].again = p[j].again
        /\ \A j \in DOMAIN p : j # i => q[j] = p[j]
    BY <1>1, <1>2
  <1>4. p[i].status \in {"pending", "approved"}
    OBVIOUS
  <1>5. q = [s.proposals EXCEPT ![i].status = x]
    BY <1>1 DEF p, q
  <1> HIDE DEF p, q
  <1>6. ASSUME NEW t \in CurState, t.proposals = q
        PROVE  Shown(t) <= Shown(s) /\ (Clean(s) => Clean(t))
    <2>1. ActiveIn(t) \in SUBSET ActiveIn(s)
      BY <1>3, <1>4, <1>6 DEF ActiveIn, p
    <2>2. Clean(s) => Clean(t)
      BY <1>3, <1>6 DEF Clean, p
    <2> QED
      BY <1>6, <2>1, <2>2, ShownIs DEF Shown
  <1> QED
    BY <1>3, <1>5, <1>6

\* A save more, and a save less.
LEMMA SaveAdded ==
  ASSUME saves \in Seq(CurSave), NEW s \in CurState, SaveState(s)
  PROVE  /\ saves' \in Seq(CurSave) /\ saves' # <<>> /\ Len(saves') \in DOMAIN saves'
         /\ saves'[Len(saves')] = [state |-> s, late |-> FALSE]
         /\ \A k \in DOMAIN saves' : k # Len(saves') => k \in DOMAIN saves /\ saves'[k] = saves[k]
  <1> DEFINE e == [state |-> s, late |-> FALSE]
  <1>1. e \in CurSave /\ saves' = Append(saves, e)
    BY DEF CurSave, SaveState
  <1> HIDE DEF e
  <1>2. /\ saves' \in Seq(CurSave) /\ Len(saves') = Len(saves) + 1 /\ saves'[Len(saves')] = e
        /\ \A k \in DOMAIN saves' : k # Len(saves') => k \in DOMAIN saves /\ saves'[k] = saves[k]
    BY <1>1
  <1>3. Len(saves') \in DOMAIN saves' /\ saves' # <<>>
    BY <1>2
  <1> QED
    BY <1>2, <1>3 DEF e

LEMMA RemovedIs ==
  ASSUME NEW S, NEW q \in Seq(S), NEW k \in DOMAIN q
  PROVE  LET r == RemoveAt(q, k) IN
         /\ r \in Seq(S) /\ Len(r) = Len(q) - 1
         /\ \A j \in 1 .. Len(q) - 1 : r[j] = IF j < k THEN q[j] ELSE q[j + 1]
  <1>1. Len(q) \in Nat /\ k \in 1 .. Len(q) /\ \A j \in 1 .. Len(q) : q[j] \in S
    OBVIOUS
  <1>2. \A j \in 1 .. k - 1 : q[j] \in S
    BY <1>1
  <1>3. \A j \in k + 1 .. Len(q) : q[j] \in S
    BY <1>1
  <1>4. /\ SubSeq(q, 1, k - 1) \in Seq(S) /\ Len(SubSeq(q, 1, k - 1)) = k - 1
        /\ \A j \in 1 .. k - 1 : SubSeq(q, 1, k - 1)[j] = q[j]
    BY <1>1, <1>2
  <1>5. /\ SubSeq(q, k + 1, Len(q)) \in Seq(S) /\ Len(SubSeq(q, k + 1, Len(q))) = Len(q) - k
        /\ \A j \in 1 .. Len(q) - k : SubSeq(q, k + 1, Len(q))[j] = q[k + j]
    BY <1>1, <1>3
  <1> DEFINE a == SubSeq(q, 1, k - 1)
             b == SubSeq(q, k + 1, Len(q))
  <1>6. RemoveAt(q, k) = a \o b
    BY DEF RemoveAt
  <1> HIDE DEF a, b
  <1>7. /\ a \o b \in Seq(S) /\ Len(a \o b) = Len(q) - 1
        /\ \A j \in 1 .. Len(q) - 1 : (a \o b)[j] = IF j <= k - 1 THEN a[j] ELSE b[j - (k - 1)]
    <2>1. a \in Seq(S) /\ b \in Seq(S) /\ Len(a) = k - 1 /\ Len(b) = Len(q) - k
      BY <1>4, <1>5 DEF a, b
    <2>2. /\ a \o b \in Seq(S) /\ Len(a \o b) = Len(a) + Len(b)
          /\ \A j \in 1 .. Len(a) + Len(b) : (a \o b)[j] = IF j <= Len(a) THEN a[j] ELSE b[j - Len(a)]
      BY <2>1, ConcatProperties
    <2>3. Len(a) + Len(b) = Len(q) - 1
      BY <1>1, <2>1
    <2> QED
      BY <2>1, <2>2, <2>3
  <1>8. ASSUME NEW j \in 1 .. Len(q) - 1
        PROVE  (a \o b)[j] = IF j < k THEN q[j] ELSE q[j + 1]
    <2>1. CASE j < k
      <3>1. j \in 1 .. k - 1 /\ j <= k - 1
        BY <1>1, <2>1
      <3> QED
        BY <1>4, <1>7, <2>1, <3>1 DEF a
    <2>2. CASE ~(j < k)
      <3>1. j - (k - 1) \in 1 .. Len(q) - k /\ k + (j - (k - 1)) = j + 1 /\ ~(j <= k - 1)
        BY <1>1, <2>2
      <3> QED
        BY <1>5, <1>7, <2>2, <3>1 DEF b
    <2> QED
      BY <2>1, <2>2
  <1> QED
    BY <1>6, <1>7, <1>8

\* A step of the generation.
LEMMA CurGenerates ==
  ASSUME CurInv, gen.at # "no", gen' \in CurGen, curiosity' \in CurState,
         Shown(curiosity') <= MaxActive, curiosity'.rejected = curiosity.rejected,
         ~forgotten => Clean(curiosity'),
         gen'.at \in {"trigger", "item", "ethics", "transfer"} =>
           Shown(curiosity') <= gen'.base + gen'.made /\ gen'.base + gen'.made <= MaxActive,
         gen'.at = "ethics" =>
           /\ gen'.item \in Descriptions /\ gen'.base + gen'.made < MaxActive
           /\ ~forgotten => ~gen'.again,
         UNCHANGED <<loadedState, curFile, saves, refusedEver, forgotten, curHour>>
  PROVE  CurInv'
  <1>1. loadedState
    BY DEF CurInv, CurLoaded, CurTyped
  <1>2. CurTyped'
    BY DEF CurInv, CurTyped
  <1>3. CurBounded'
    BY DEF CurInv, CurBounded
  <1>4. CurLoaded'
    BY <1>1 DEF CurLoaded
  <1>5. CurClean'
    BY <1>1 DEF CurInv, CurClean, RejectionsKept
  <1> QED
    BY <1>2, <1>3, <1>4, <1>5 DEF CurInv

\* What a state gives that is in memory, when it is there.
LEMMA CurNow ==
  ASSUME CurInv
  PROVE  /\ curiosity \in CurState /\ Shown(curiosity) \in Nat /\ gen \in CurGen
         /\ gen.base \in Nat /\ gen.made \in Nat /\ gen.began \in Nat /\ curHour \in 0 .. MaxCurHours
         /\ Shown(curiosity) <= MaxActive
         /\ gen.at \in {"trigger", "item", "ethics", "transfer"} =>
              Shown(curiosity) <= gen.base + gen.made /\ gen.base + gen.made <= MaxActive
         /\ ~forgotten => Clean(curiosity)
  <1>1. curiosity \in CurState /\ gen \in CurGen /\ curHour \in 0 .. MaxCurHours
    BY DEF CurInv, CurTyped
  <1>2. Shown(curiosity) \in Nat
    BY <1>1, ShownIs
  <1>3. gen.base \in Nat /\ gen.made \in Nat /\ gen.began \in Nat
    BY <1>1 DEF CurGen
  <1> QED
    BY <1>1, <1>2, <1>3 DEF CurInv, CurBounded, CurClean

LEMMA GoesOn ==
  ASSUME CurInv, NEW at \in {"trigger", "item", "transfer", "end"}, NEW made \in Nat, GoOn(at, made)
  PROVE  gen' \in CurGen /\ gen'.at = at /\ gen'.made = made /\ gen'.base = gen.base
  <1>1. gen.began \in Nat /\ gen.base \in Nat
    BY CurNow
  <1>2. NoGeneration \in CurGen
    BY NoGenIs
  <1>3. gen' = [NoGeneration EXCEPT !.at = at, !.began = gen.began, !.base = gen.base, !.made = made]
    BY DEF GoOn
  <1> QED
    BY <1>1, <1>2, <1>3 DEF CurGen

LEMMA Proposes ==
  ASSUME CurInv, NEW d \in Descriptions, NEW again \in BOOLEAN, Propose(d, again),
         ~forgotten => ~again
  PROVE  /\ curiosity' \in CurState /\ Shown(curiosity') <= Shown(curiosity) + 1
         /\ ~forgotten => Clean(curiosity')
         /\ curiosity'.rejected = curiosity.rejected /\ Shown(curiosity') \in Nat
  <1> DEFINE c == Proposal(d, again)
  <1>1. c \in CurItem /\ c.again = again
    <2>1. gen.began + Expiry \in Int
      BY CurNow
    <2> QED
      BY <2>1 DEF Proposal, CurItem
  <1>2. curiosity' = [curiosity EXCEPT !.proposals = Append(@, c)]
    BY DEF Propose
  <1> HIDE DEF c
  <1> QED
    BY <1>1, <1>2, CurNow, ProposedIs, ShownIs

LEMMA CurGenKeeps == CurInv /\ Generate => CurInv'
  <1> SUFFICES ASSUME CurInv, Generate PROVE CurInv'
    OBVIOUS
  <1>0. UNCHANGED <<loadedState, curFile, saves, refusedEver, forgotten, curHour>>
    BY DEF Generate
  <1>1. CASE NextTrigger
    <2>1. gen.at = "trigger" /\ UNCHANGED curiosity /\ (GoOn("transfer", gen.made) \/ GoOn("item", gen.made))
      BY <1>1 DEF NextTrigger
    <2>2. gen' \in CurGen /\ gen'.at \in {"transfer", "item"} /\ gen'.made = gen.made /\ gen'.base = gen.base
      BY <2>1, CurNow, GoesOn
    <2> QED
      BY <1>0, <2>1, <2>2, CurNow, CurGenerates
  <1>2. CASE NextItem
    <2>1. gen.at = "item" /\ UNCHANGED curiosity
      BY <1>2 DEF NextItem
    <2>2. CASE GoOn("trigger", gen.made)
      <3>1. gen' \in CurGen /\ gen'.at = "trigger" /\ gen'.made = gen.made /\ gen'.base = gen.base
        BY <2>2, CurNow, GoesOn
      <3> QED
        BY <1>0, <2>1, <3>1, CurNow, CurGenerates
    <2>3. CASE UNCHANGED gen
      BY <1>0, <2>1, <2>3, CurNow, CurGenerates
    <2>4. ASSUME NEW d \in Descriptions, MoreItems, ~InRejectionCooldown(d),
                 gen' = [gen EXCEPT !.at = "ethics", !.item = d, !.again = d \in refusedEver]
          PROVE  CurInv'
      <3>1. (d \in refusedEver) \in BOOLEAN
        OBVIOUS
      <3>2. gen' \in CurGen /\ gen'.at = "ethics" /\ gen'.item = d /\ gen'.again = (d \in refusedEver)
            /\ gen'.base = gen.base /\ gen'.made = gen.made
        BY <2>4, <3>1, CurNow DEF CurGen
      <3>3. gen.base + gen.made < MaxActive
        BY <2>4 DEF MoreItems, Capacity
      <3>4. ~forgotten => ~gen'.again
        BY <2>1, <2>4, <3>2 DEF InRejectionCooldown, CurInv, CurClean, CurLoaded, CurTyped
      <3> QED
        BY <1>0, <2>1, <3>2, <3>3, <3>4, CurNow, CurGenerates
    <2> QED
      BY <1>2, <2>2, <2>3, <2>4 DEF NextItem
  <1>3. CASE EthicsAnswers
    <2>1. gen.at = "ethics" /\ gen.item \in Descriptions /\ gen.base + gen.made < MaxActive
          /\ (~forgotten => ~gen.again) /\ gen.again \in BOOLEAN
      BY <1>3 DEF EthicsAnswers, CurInv, CurBounded, CurClean, CurTyped, CurGen
    <2>2. CASE GoOn("item", gen.made) /\ UNCHANGED curiosity
      <3>1. gen' \in CurGen /\ gen'.at = "item" /\ gen'.made = gen.made /\ gen'.base = gen.base
        BY <2>2, CurNow, GoesOn
      <3> QED
        BY <1>0, <2>1, <2>2, <3>1, CurNow, CurGenerates
    <2>3. CASE Propose(gen.item, gen.again) /\ GoOn("item", gen.made + 1)
      <3>1. gen' \in CurGen /\ gen'.at = "item" /\ gen'.made = gen.made + 1 /\ gen'.base = gen.base
        BY <2>3, CurNow, GoesOn
      <3>2. /\ curiosity' \in CurState /\ Shown(curiosity') <= Shown(curiosity) + 1
            /\ (~forgotten => Clean(curiosity')) /\ curiosity'.rejected = curiosity.rejected
            /\ Shown(curiosity') \in Nat
        BY <2>1, <2>3, Proposes
      <3>3. Shown(curiosity') <= gen'.base + gen'.made /\ gen'.base + gen'.made <= MaxActive
        BY <2>1, <3>1, <3>2, CurNow
      <3>4. Shown(curiosity') <= MaxActive
        BY <3>1, <3>2, <3>3, CurNow
      <3> QED
        BY <1>0, <2>1, <3>1, <3>2, <3>3, <3>4, CurGenerates
    <2> QED
      BY <1>3, <2>2, <2>3 DEF EthicsAnswers
  <1>4. CASE ProposeTransfer
    <2>1. gen.at = "transfer"
      BY <1>4 DEF ProposeTransfer
    <2>2. CASE GoOn("end", gen.made) /\ UNCHANGED curiosity
      <3>1. gen' \in CurGen /\ gen'.at = "end"
        BY <2>2, CurNow, GoesOn
      <3> QED
        BY <1>0, <2>1, <2>2, <3>1, CurNow, CurGenerates
    <2>3. ASSUME NEW d \in Descriptions, Capacity(gen.base, gen.made), ~InRejectionCooldown(d),
                 Propose(d, d \in refusedEver), GoOn("transfer", gen.made + 1)
          PROVE  CurInv'
      <3>1. gen' \in CurGen /\ gen'.at = "transfer" /\ gen'.made = gen.made + 1 /\ gen'.base = gen.base
        BY <2>3, CurNow, GoesOn
      <3>2. (d \in refusedEver) \in BOOLEAN /\ (~forgotten => ~(d \in refusedEver))
        BY <2>1, <2>3 DEF InRejectionCooldown, CurInv, CurClean, CurLoaded, CurTyped
      <3>3. /\ curiosity' \in CurState /\ Shown(curiosity') <= Shown(curiosity) + 1
            /\ (~forgotten => Clean(curiosity')) /\ curiosity'.rejected = curiosity.rejected
            /\ Shown(curiosity') \in Nat
        BY <2>3, <3>2, Proposes
      <3>4. Shown(curiosity') <= gen'.base + gen'.made /\ gen'.base + gen'.made <= MaxActive
        BY <2>1, <2>3, <3>1, <3>3, CurNow DEF Capacity
      <3>5. Shown(curiosity') <= MaxActive
        BY <3>1, <3>3, <3>4, CurNow
      <3> QED
        BY <1>0, <2>1, <3>1, <3>3, <3>4, <3>5, CurGenerates
    <2> QED
      BY <1>4, <2>2, <2>3 DEF ProposeTransfer
  <1> QED
    BY <1>1, <1>2, <1>3, <1>4 DEF Generate

\* A save of what is in memory leaves nothing behind of what was rejected.
LEMMA CurSaves ==
  ASSUME CurInv, loadedState, NEW s \in CurState, SaveState(s), Shown(s) <= MaxActive,
         NEW refused \in SUBSET Descriptions, refused \subseteq s.rejected \/ forgotten,
         ~forgotten => Clean(s),
         refusedEver' = refused, UNCHANGED <<curFile, forgotten>>
  PROVE  /\ saves' \in Seq(CurSave)
         /\ \A k \in DOMAIN saves' : Shown(saves'[k].state) <= MaxActive
         /\ ~forgotten => /\ \A k \in DOMAIN saves' : Clean(saves'[k].state)
                          /\ RejectionsKept'
  <1>1. /\ saves \in Seq(CurSave) /\ \A k \in DOMAIN saves : Shown(saves[k].state) <= MaxActive
        /\ ~forgotten => \A k \in DOMAIN saves : Clean(saves[k].state)
    BY DEF CurInv, CurTyped, CurBounded, CurClean
  <1>2. /\ saves' \in Seq(CurSave) /\ saves' # <<>> /\ Len(saves') \in DOMAIN saves'
        /\ saves'[Len(saves')] = [state |-> s, late |-> FALSE]
        /\ \A k \in DOMAIN saves' : k # Len(saves') => k \in DOMAIN saves /\ saves'[k] = saves[k]
    BY <1>1, SaveAdded
  <1>3. ASSUME NEW k \in DOMAIN saves'
        PROVE  Shown(saves'[k].state) <= MaxActive /\ (~forgotten => Clean(saves'[k].state))
    <2>1. CASE k = Len(saves')
      BY <1>2, <2>1
    <2>2. CASE k # Len(saves')
      BY <1>1, <1>2, <2>2
    <2> QED
      BY <2>1, <2>2
  <1>4. ~forgotten => RejectionsKept'
    BY <1>2 DEF RejectionsKept
  <1> QED
    BY <1>2, <1>3, <1>4

\* The hook starts from a state whose rejections are on the disk or on their way.
LEMMA CurBegins ==
  ASSUME CurInv, gen.at = "no", NEW s \in CurState, Shown(s) <= MaxActive,
         ~forgotten => Clean(s) /\ refusedEver \subseteq s.rejected,
         BeginGeneration(s) \/ (curiosity' = s /\ UNCHANGED gen)
  PROVE  /\ gen' \in CurGen /\ curiosity' \in CurState /\ Shown(curiosity') <= MaxActive
         /\ ~forgotten => Clean(curiosity') /\ refusedEver \subseteq curiosity'.rejected
         /\ gen'.at \in {"no", "trigger", "end"}
         /\ gen'.at = "trigger" =>
              Shown(curiosity') <= gen'.base + gen'.made /\ gen'.base + gen'.made <= MaxActive
  <1> DEFINE x == [s EXCEPT !.explored = curHour]
  <1>0. gen \in CurGen /\ curHour \in 0 .. MaxCurHours /\ NoGeneration \in CurGen /\ Shown(s) \in Nat
    BY CurNow, NoGenIs, ShownIs
  <1>1. x \in CurState /\ x.proposals = s.proposals /\ x.rejected = s.rejected
    BY <1>0 DEF CurState, Never
  <1>2. Shown(x) = Shown(s) /\ (Clean(s) => Clean(x))
    BY <1>1 DEF Shown, ActiveIn, Clean
  <1> HIDE DEF x
  <1>3. CASE curiosity' = s /\ UNCHANGED gen
    BY <1>0, <1>3
  <1>4. CASE BeginGeneration(s)
    <2>1. CASE Capacity(Cardinality(ActiveIn(s)), 0)
      <3>1. /\ gen' = [NoGeneration EXCEPT !.at = "trigger", !.began = curHour, !.base = Shown(s)]
            /\ curiosity' = x \/ curiosity' = s
        BY <1>4, <2>1 DEF BeginGeneration, Shown, x
      <3>2. gen' \in CurGen /\ gen'.at = "trigger" /\ gen'.base = Shown(s) /\ gen'.made = 0
        <4>1. NoGeneration.made = 0
          BY DEF NoGeneration
        <4>2. gen' = [NoGeneration EXCEPT !.at = "trigger", !.began = curHour, !.base = Shown(s)]
          BY <3>1
        <4>3. curHour \in Nat /\ Shown(s) \in Nat /\ NoGeneration \in CurGen
          BY <1>0
        <4> QED
          BY <4>1, <4>2, <4>3 DEF CurGen
      <3>3. Shown(curiosity') = Shown(s)
        BY <1>2, <3>1
      <3>4. Shown(curiosity') <= gen'.base + gen'.made /\ gen'.base + gen'.made <= MaxActive
        BY <1>0, <3>2, <3>3
      <3> QED
        BY <1>1, <1>2, <3>1, <3>2, <3>3, <3>4
    <2>2. CASE ~Capacity(Cardinality(ActiveIn(s)), 0)
      <3>1. gen' = [NoGeneration EXCEPT !.at = "end"] /\ curiosity' = s
        BY <1>4, <2>2 DEF BeginGeneration
      <3>2. gen' \in CurGen /\ gen'.at = "end"
        BY <1>0, <3>1 DEF CurGen
      <3> QED
        BY <3>1, <3>2
    <2> QED
      BY <2>1, <2>2
  <1> QED
    BY <1>3, <1>4

LEMMA CurLoopKeeps ==
  ASSUME CurInv, NEW goal, PostLoop(goal)
  PROVE  CurInv'
  <1>0. gen.at = "no" /\ loadedState' = TRUE /\ UNCHANGED <<curFile, refusedEver, forgotten, curHour>>
        /\ loadedState \in BOOLEAN /\ refusedEver \in SUBSET Descriptions
    BY DEF PostLoop, CurInv, CurTyped
  <1> DEFINE s == IF loadedState THEN AfterExpiration(curiosity) ELSE LoadState
  <1>1. /\ s \in CurState /\ Shown(s) <= MaxActive
        /\ ~forgotten => Clean(s) /\ refusedEver \subseteq s.rejected
    <2>1. CASE loadedState
      <3>1. /\ AfterExpiration(curiosity) \in CurState
            /\ Shown(AfterExpiration(curiosity)) <= Shown(curiosity)
            /\ (Clean(curiosity) => Clean(AfterExpiration(curiosity)))
            /\ AfterExpiration(curiosity).rejected = curiosity.rejected
            /\ Shown(AfterExpiration(curiosity)) \in Nat
        BY CurNow, ExpiredIs, ShownIs
      <3>2. Shown(AfterExpiration(curiosity)) <= MaxActive
        BY <3>1, CurNow
      <3>3. ~forgotten => refusedEver \subseteq curiosity.rejected
        BY <2>1 DEF CurInv, CurClean
      <3> QED
        BY <2>1, <3>1, <3>2, <3>3, CurNow
    <2>2. CASE ~loadedState
      BY <2>2 DEF LoadState, CurInv, CurTyped, CurBounded, CurClean, CurLoaded, RejectionsKept
    <2> QED
      BY <2>1, <2>2
  <1>2. /\ (loadedState /\ SaveState(s)) \/ UNCHANGED saves
        /\ BeginGeneration(s) \/ (curiosity' = s /\ UNCHANGED gen)
    BY DEF PostLoop
  <1> HIDE DEF s
  <1>3. /\ gen' \in CurGen /\ curiosity' \in CurState /\ Shown(curiosity') <= MaxActive
        /\ ~forgotten => Clean(curiosity') /\ refusedEver \subseteq curiosity'.rejected
        /\ gen'.at \in {"no", "trigger", "end"}
        /\ gen'.at = "trigger" =>
             Shown(curiosity') <= gen'.base + gen'.made /\ gen'.base + gen'.made <= MaxActive
    BY <1>0, <1>1, <1>2, CurBegins
  <1>4. /\ saves' \in Seq(CurSave)
        /\ \A k \in DOMAIN saves' : Shown(saves'[k].state) <= MaxActive
        /\ ~forgotten => /\ \A k \in DOMAIN saves' : Clean(saves'[k].state)
                         /\ RejectionsKept'
    <2>1. CASE loadedState /\ SaveState(s)
      <3>1. refusedEver \subseteq s.rejected \/ forgotten
        BY <1>1
      <3> QED
        BY <1>0, <1>1, <2>1, <3>1, CurSaves
    <2>2. CASE UNCHANGED saves
      BY <1>0, <2>2 DEF CurInv, CurTyped, CurBounded, CurClean, RejectionsKept
    <2> QED
      BY <1>2, <2>1, <2>2
  <1>5. CurTyped'
    BY <1>0, <1>3, <1>4 DEF CurInv, CurTyped
  <1>6. CurBounded'
    BY <1>0, <1>3, <1>4 DEF CurInv, CurBounded
  <1>7. CurLoaded' /\ CurClean'
    BY <1>0, <1>3, <1>4 DEF CurInv, CurLoaded, CurClean
  <1> QED
    BY <1>5, <1>6, <1>7 DEF CurInv

LEMMA CurEnds == CurInv /\ EndGeneration => CurInv'
  <1> SUFFICES ASSUME CurInv, EndGeneration PROVE CurInv'
    OBVIOUS
  <1>1. /\ gen.at = "end" /\ gen' = NoGeneration /\ SaveState(curiosity) /\ loadedState
        /\ UNCHANGED <<curiosity, loadedState, curFile, refusedEver, forgotten, curHour>>
        /\ refusedEver \in SUBSET Descriptions
    BY DEF EndGeneration, CurInv, CurLoaded, CurTyped
  <1>2. refusedEver \subseteq curiosity.rejected \/ forgotten
    BY <1>1 DEF CurInv, CurClean, CurTyped
  <1>3. /\ saves' \in Seq(CurSave)
        /\ \A k \in DOMAIN saves' : Shown(saves'[k].state) <= MaxActive
        /\ ~forgotten => /\ \A k \in DOMAIN saves' : Clean(saves'[k].state)
                         /\ RejectionsKept'
    BY <1>1, <1>2, CurNow, CurSaves
  <1>4. CurTyped'
    BY <1>1, <1>3, NoGenIs DEF CurInv, CurTyped
  <1>5. CurBounded'
    BY <1>1, <1>3, NoGenIs DEF CurInv, CurBounded
  <1>6. CurLoaded' /\ CurClean'
    BY <1>1, <1>3, NoGenIs DEF CurInv, CurLoaded, CurClean
  <1> QED
    BY <1>4, <1>5, <1>6 DEF CurInv

LEMMA CurReviewKeeps == CurInv /\ Review => CurInv'
  <1> SUFFICES ASSUME CurInv, NEW i \in DOMAIN curiosity.proposals, Approve(i) \/ Reject(i),
                      UNCHANGED <<loadedState, curFile, gen, forgotten, curHour>>
               PROVE  CurInv'
    BY DEF Review
  <1>1. curiosity \in CurState /\ loadedState /\ curiosity.proposals[i].status = "pending"
        /\ refusedEver \in SUBSET Descriptions
        /\ curiosity.rejected \in SUBSET Descriptions /\ curiosity.proposals[i].description \in Descriptions
    <2>1. curiosity \in CurState /\ refusedEver \in SUBSET Descriptions /\ loadedState \in BOOLEAN
      BY DEF CurInv, CurTyped
    <2>2. curiosity.proposals[i] \in CurItem
      BY <2>1, ShownIs
    <2>3. loadedState
      BY <2>1 DEF CurInv, CurLoaded, EmptyState
    <2> QED
      BY <2>1, <2>2, <2>3 DEF Approve, Reject, CurState, CurItem
  <1>2. /\ curiosity' \in CurState /\ Shown(curiosity') <= Shown(curiosity)
        /\ (Clean(curiosity) => Clean(curiosity')) /\ SaveState(curiosity')
        /\ refusedEver' \in SUBSET Descriptions
        /\ ~forgotten => refusedEver' \subseteq curiosity'.rejected
    <2>1. ~forgotten => refusedEver \subseteq curiosity.rejected
      BY <1>1 DEF CurInv, CurClean
    <2>2. CASE Approve(i)
      <3> DEFINE q == [curiosity.proposals EXCEPT ![i].status = "approved"]
      <3>1. curiosity' = [curiosity EXCEPT !.proposals = q]
            /\ SaveState(curiosity') /\ refusedEver' = refusedEver
        BY <2>2 DEF Approve
      <3>2. /\ q \in Seq(CurItem)
            /\ \A t \in CurState : t.proposals = q =>
                 Shown(t) <= Shown(curiosity) /\ (Clean(curiosity) => Clean(t))
        BY <1>1, AnsweredIs
      <3> HIDE DEF q
      <3>3. curiosity' \in CurState /\ curiosity'.proposals = q /\ curiosity'.rejected = curiosity.rejected
        BY <1>1, <3>1, <3>2 DEF CurState
      <3> QED
        BY <1>1, <2>1, <3>1, <3>2, <3>3
    <2>3. CASE Reject(i)
      <3> DEFINE d == curiosity.proposals[i].description
                 r == curiosity.rejected \cup {d}
                 q == [curiosity.proposals EXCEPT ![i].status = "rejected"]
      <3>1. /\ curiosity' = [curiosity EXCEPT !.proposals = q, !.rejected = r]
            /\ SaveState(curiosity') /\ refusedEver' = refusedEver \cup {d}
        BY <2>3 DEF Reject
      <3>2. /\ q \in Seq(CurItem)
            /\ \A t \in CurState : t.proposals = q =>
                 Shown(t) <= Shown(curiosity) /\ (Clean(curiosity) => Clean(t))
        BY <1>1, AnsweredIs
      <3>3. r \in SUBSET Descriptions
        BY <1>1
      <3> HIDE DEF q, r
      <3>4. curiosity' \in CurState /\ curiosity'.proposals = q /\ curiosity'.rejected = r
        BY <1>1, <3>1, <3>2, <3>3 DEF CurState
      <3> QED
        BY <1>1, <2>1, <3>1, <3>2, <3>4 DEF r
    <2> QED
      BY <2>2, <2>3
  <1>3. Shown(curiosity') <= MaxActive
    BY <1>2, CurNow, ShownIs
  <1>4. gen.at \in {"trigger", "item", "ethics", "transfer"} => Shown(curiosity') <= gen.base + gen.made
    BY <1>2, CurNow, ShownIs
  <1>5. ~forgotten => Clean(curiosity')
    BY <1>2, CurNow
  <1>6. /\ saves' \in Seq(CurSave)
        /\ \A k \in DOMAIN saves' : Shown(saves'[k].state) <= MaxActive
        /\ ~forgotten => /\ \A k \in DOMAIN saves' : Clean(saves'[k].state)
                         /\ RejectionsKept'
    BY <1>1, <1>2, <1>3, <1>5, CurSaves
  <1>7. CurTyped'
    BY <1>2, <1>6 DEF CurInv, CurTyped
  <1>8. CurBounded'
    BY <1>2, <1>3, <1>4, <1>6 DEF CurInv, CurBounded
  <1>9. CurLoaded' /\ CurClean'
    BY <1>1, <1>2, <1>5, <1>6 DEF CurInv, CurLoaded, CurClean
  <1> QED
    BY <1>7, <1>8, <1>9 DEF CurInv

\* A save lands: those under way that began before it are late from now on.
LEMMA CurLandsKeeps == CurInv /\ SaveLands => CurInv'
  <1> SUFFICES ASSUME CurInv, SaveLands PROVE CurInv'
    OBVIOUS
  <1>0. UNCHANGED <<curiosity, loadedState, gen, refusedEver, curHour>>
    BY DEF SaveLands
  <1>1. /\ saves \in Seq(CurSave) /\ Len(saves) \in Nat /\ DOMAIN saves = 1 .. Len(saves)
        /\ \A j \in DOMAIN saves : saves[j] \in CurSave
    BY DEF CurInv, CurTyped
  <1>2. PICK k \in DOMAIN saves :
          \/ /\ curFile' = saves[k].state /\ forgotten' = (forgotten \/ saves[k].late)
             /\ saves' = RemoveAt([j \in DOMAIN saves |->
                                      [saves[j] EXCEPT !.late = @ \/ j < k]], k)
          \/ forgotten' = TRUE /\ saves' = RemoveAt(saves, k) /\ UNCHANGED curFile
    BY DEF SaveLands
  <1>3. loadedState
    <2>1. saves # <<>>
      BY <1>1, <1>2
    <2> QED
      BY <2>1 DEF CurInv, CurLoaded, CurTyped
  <1>4. CASE /\ curFile' = saves[k].state /\ forgotten' = (forgotten \/ saves[k].late)
             /\ saves' = RemoveAt([j \in DOMAIN saves |-> [saves[j] EXCEPT !.late = @ \/ j < k]], k)
    <2> DEFINE q == [j \in DOMAIN saves |-> [saves[j] EXCEPT !.late = @ \/ j < k]]
    <2>1. ASSUME NEW j \in DOMAIN saves
          PROVE  /\ q[j] \in CurSave /\ q[j].state = saves[j].state
                 /\ q[j].late = (saves[j].late \/ j < k)
      <3>1. saves[j] \in CurSave /\ (saves[j].late \/ j < k) \in BOOLEAN
        BY <1>1
      <3> QED
        BY <3>1 DEF CurSave
    <2>2. q \in Seq(CurSave) /\ Len(q) = Len(saves) /\ DOMAIN q = DOMAIN saves
      <3>1. q \in [1 .. Len(saves) -> CurSave]
        BY <1>1, <2>1
      <3> HIDE DEF q
      <3> QED
        BY <1>1, <3>1
    <2>3. saves' = RemoveAt(q, k)
      BY <1>4
    <2> HIDE DEF q
    <2>4. /\ saves' \in Seq(CurSave) /\ Len(saves') = Len(saves) - 1
          /\ \A j \in 1 .. Len(saves) - 1 : saves'[j] = IF j < k THEN q[j] ELSE q[j + 1]
      BY <2>2, <2>3, RemovedIs
    <2>5. /\ DOMAIN saves' = 1 .. Len(saves) - 1
          /\ \A j \in DOMAIN saves' : j \in DOMAIN saves /\ j + 1 \in DOMAIN saves
      BY <1>1, <1>2, <2>4
    <2>6. ASSUME NEW j \in DOMAIN saves'
          PROVE  \E i \in DOMAIN saves : saves'[j].state = saves[i].state
      BY <2>1, <2>4, <2>5
    <2>7. CurTyped'
      <3>1. saves[k].state \in CurState /\ saves[k].late \in BOOLEAN
        BY <1>1 DEF CurSave
      <3>2. forgotten' \in BOOLEAN
        BY <1>4, <3>1
      <3> QED
        BY <1>0, <1>4, <2>4, <3>1, <3>2 DEF CurInv, CurTyped
    <2>8. CurBounded'
      BY <1>0, <1>2, <1>4, <2>6 DEF CurInv, CurBounded
    <2>9. ASSUME ~forgotten' PROVE RejectionsKept'
      <3>1. ~forgotten /\ ~saves[k].late /\ RejectionsKept
        BY <1>4, <2>9 DEF CurInv, CurClean
      <3>2. saves # <<>> /\ ~saves[Len(saves)].late
            /\ refusedEver \subseteq saves[Len(saves)].state.rejected
        BY <1>1, <1>2, <3>1 DEF RejectionsKept
      <3>3. CASE k = Len(saves)
        <4>1. \A j \in DOMAIN saves' : saves'[j] = q[j] /\ q[j].late
          <5> SUFFICES ASSUME NEW j \in DOMAIN saves' PROVE saves'[j] = q[j] /\ q[j].late
            OBVIOUS
          <5>1. j \in 1 .. Len(saves) - 1 /\ j < k /\ j \in DOMAIN saves
            BY <1>1, <2>5, <3>3
          <5> QED
            BY <2>1, <2>4, <5>1
        <4>2. refusedEver \subseteq curFile'.rejected
          BY <1>4, <3>2, <3>3
        <4>3. saves' = <<>> \/ saves'[Len(saves')].late
          BY <1>1, <2>4, <2>5, <4>1
        <4> QED
          BY <1>0, <4>1, <4>2, <4>3 DEF RejectionsKept
      <3>4. CASE k # Len(saves)
        <4>1. k < Len(saves) /\ Len(saves) - 1 \in 1 .. Len(saves) - 1 /\ ~(Len(saves) - 1 < k)
              /\ Len(saves) \in DOMAIN saves /\ ~(Len(saves) < k)
          BY <1>1, <1>2, <3>4
        <4>2. saves'[Len(saves')] = q[Len(saves)]
          <5>1. saves'[Len(saves) - 1] = q[(Len(saves) - 1) + 1]
            BY <2>4, <4>1
          <5>2. (Len(saves) - 1) + 1 = Len(saves)
            BY <1>1
          <5> QED
            BY <2>4, <5>1, <5>2
        <4>3. saves' # <<>>
          BY <2>4, <2>5, <4>1
        <4> QED
          BY <1>0, <2>1, <3>2, <4>1, <4>2, <4>3 DEF RejectionsKept
      <3> QED
        BY <3>3, <3>4
    <2>10. CurLoaded' /\ CurClean'
      BY <1>0, <1>2, <1>3, <1>4, <2>6, <2>9 DEF CurInv, CurLoaded, CurClean
    <2> QED
      BY <2>7, <2>8, <2>10 DEF CurInv
  <1>5. CASE forgotten' = TRUE /\ saves' = RemoveAt(saves, k) /\ UNCHANGED curFile
    <2>1. /\ saves' \in Seq(CurSave) /\ Len(saves') = Len(saves) - 1
          /\ \A j \in 1 .. Len(saves) - 1 : saves'[j] = IF j < k THEN saves[j] ELSE saves[j + 1]
      BY <1>1, <1>2, <1>5, RemovedIs
    <2>2. \A j \in DOMAIN saves' : \E i \in DOMAIN saves : saves'[j] = saves[i]
      <3> SUFFICES ASSUME NEW j \in DOMAIN saves' PROVE \E i \in DOMAIN saves : saves'[j] = saves[i]
        OBVIOUS
      <3>1. j \in 1 .. Len(saves) - 1
        BY <1>1, <2>1
      <3>2. j \in DOMAIN saves /\ j + 1 \in DOMAIN saves
        BY <1>1, <3>1
      <3> QED
        BY <2>1, <3>1, <3>2
    <2>3. CurTyped'
      BY <1>0, <1>5, <2>1 DEF CurInv, CurTyped
    <2>4. CurBounded'
      BY <1>0, <1>5, <2>2 DEF CurInv, CurBounded
    <2>5. CurLoaded' /\ CurClean'
      BY <1>0, <1>3, <1>5 DEF CurLoaded, CurClean
    <2> QED
      BY <2>3, <2>4, <2>5 DEF CurInv
  <1> QED
    BY <1>2, <1>4, <1>5

LEMMA CurRestartKeeps == CurInv /\ CurRestart => CurInv'
  <1> SUFFICES ASSUME CurInv, CurRestart PROVE CurInv'
    OBVIOUS
  <1>1. /\ forgotten' = (forgotten \/ saves # <<>>) /\ saves' = <<>> /\ saves' \in Seq(CurSave)
        /\ DOMAIN saves' = {} /\ curiosity' = EmptyState /\ loadedState' = FALSE /\ gen' = NoGeneration
        /\ UNCHANGED <<curFile, refusedEver, curHour>> /\ forgotten' \in BOOLEAN
    BY DEF CurRestart, CurInv, CurTyped
  <1>2. CurTyped'
    BY <1>1, EmptyIs, NoGenIs DEF CurInv, CurTyped
  <1>3. CurBounded'
    BY <1>1, EmptyIs, NoGenIs DEF CurInv, CurBounded
  <1>4. CurLoaded' /\ CurClean'
    BY <1>1, EmptyIs, NoGenIs DEF CurInv, CurLoaded, CurClean, RejectionsKept
  <1> QED
    BY <1>2, <1>3, <1>4 DEF CurInv

\* Every step of curiosity keeps it.
LEMMA CurKeeps == CurInv /\ [CurNext]_curVars => CurInv'
  <1> SUFFICES ASSUME CurInv, [CurNext]_curVars PROVE CurInv'
    OBVIOUS
  <1>1. CASE HourPasses
    <2>1. curHour' \in 0 .. MaxCurHours
          /\ UNCHANGED <<curiosity, loadedState, curFile, saves, gen, refusedEver, forgotten>>
      BY <1>1 DEF HourPasses, CurInv, CurTyped
    <2> QED
      BY <2>1 DEF CurInv, CurTyped, CurBounded, CurLoaded, CurClean, RejectionsKept
  <1>2. CASE UNCHANGED curVars
    BY <1>2 DEF curVars, CurInv, CurTyped, CurBounded, CurLoaded, CurClean, RejectionsKept
  <1>3. CASE \E goal \in GoalKinds : PostLoop(goal)
    BY <1>3, CurLoopKeeps
  <1> QED
    BY <1>1, <1>2, <1>3, CurGenKeeps, CurEnds, CurReviewKeeps, CurLandsKeeps, CurRestartKeeps DEF CurNext

LEMMA CurHolds == CurInv => CurTypeOK /\ ProposalsBounded /\ RejectedStayOut /\ QuickCheckAgrees
  <1> SUFFICES ASSUME CurInv PROVE CurTypeOK /\ ProposalsBounded /\ RejectedStayOut /\ QuickCheckAgrees
    OBVIOUS
  <1>1. CurTypeOK
    <2>1. curiosity \in CurState /\ gen \in CurGen
      BY CurNow
    <2>2. \A i \in DOMAIN curiosity.proposals : curiosity.proposals[i] \in CurItem
      BY <2>1, ShownIs
    <2> QED
      BY <2>1, <2>2 DEF CurTypeOK, CurState, CurGen, CurItem
  <1>2. ProposalsBounded /\ RejectedStayOut
    BY DEF CurInv, CurBounded, CurClean, ProposalsBounded, RejectedStayOut, Shown, Clean
  <1>3. QuickCheckAgrees
    <2> SUFFICES ASSUME NEW goals \in GoalSets
                 PROVE  /\ ShouldExplore(goals, curiosity) => EvaluateTriggers(goals, curiosity) # {}
                        /\ TaskQueueEmpty(goals) => ResourceBudget(goals) >= 50
      BY DEF QuickCheckAgrees
    <2>1. ShouldExplore(goals, curiosity) => EvaluateTriggers(goals, curiosity) # {}
      <3>1. CASE TaskQueueEmpty(goals)
        <4>1. "task_queue_empty" \in EvaluateTriggers(goals, curiosity)
          BY <3>1 DEF EvaluateTriggers
        <4> QED
          BY <4>1
      <3>2. CASE PeriodicExploration(curiosity)
        <4>1. "periodic_exploration" \in EvaluateTriggers(goals, curiosity)
          BY <3>2 DEF EvaluateTriggers
        <4> QED
          BY <4>1
      <3>3. CASE RepeatedFailures(goals)
        <4>1. "repeated_failure" \in EvaluateTriggers(goals, curiosity)
          BY <3>3 DEF EvaluateTriggers
        <4> QED
          BY <4>1
      <3> QED
        BY <3>1, <3>2, <3>3 DEF ShouldExplore
    <2>2. TaskQueueEmpty(goals) => ResourceBudget(goals) >= 50
      BY DEF TaskQueueEmpty, ResourceBudget
    <2> QED
      BY <2>1, <2>2
  <1> QED
    BY <1>1, <1>2, <1>3

HIDE CuriosityAssumption DEF CuriosityAssumption

-----------------------------------------------------------------------------
(* The gap of a goal, and what is worked on *)

USE GapAssumption DEF GapAssumption

Fine(d) ==
    LET t == d.threshold
    IN CASE t.type = "min" -> 2 * t.low <= Unit
         [] t.type = "max" -> 2 * t.high <= Unit
         [] t.type = "range" -> t.low <= t.high /\ t.high - t.low <= Unit
         [] OTHER -> TRUE
FineDims == {d \in Dimensions : Fine(d)}
Weighed == [n \in DimNames |-> CalculateDimensionGap(gapDims[n])]

GapPhases == {"observed", "gap", "skip", "scored", "task", "acquire", "failed"}
GapTyped ==
    /\ gapDims \in [DimNames -> FineDims]
    /\ setting.deadline \in Int \/ setting.deadline = NoDeadline
    /\ setting.method \in {"max", "weighted_avg", "sum"}
    /\ turn \in [phase : GapPhases, gaps : [DimNames -> 0 .. Unit], scores : [DimNames -> Nat],
                 target : {0} \cup DimNames]
GapWorked ==
    /\ turn.phase \in {"skip", "gap", "scored", "task", "acquire"} => turn.gaps = Weighed
    /\ turn.phase = "skip" => AggregateGaps(Weighed, setting.method) = 0
    /\ turn.phase \in {"gap", "scored", "task", "acquire"} => AggregateGaps(Weighed, setting.method) # 0
    /\ turn.phase = "scored" => \A n \in DimNames : turn.scores[n] = 0 <=> Weighed[n] = 0
GapAimed == turn.phase = "task" => turn.target \in DimNames /\ Weighed[turn.target] # 0
GapInv == GapTyped /\ GapWorked /\ GapAimed

LEMMA MaxOfTwo ==
  ASSUME NEW a \in Int, NEW b \in Int
  PROVE  Max({a, b}) = IF a >= b THEN a ELSE b
  <1> DEFINE m == IF a >= b THEN a ELSE b
  <1>1. m \in {a, b} /\ \A y \in {a, b} : m >= y
    OBVIOUS
  <1>2. \A x \in {a, b} : (\A y \in {a, b} : x >= y) => x = m
    OBVIOUS
  <1> HIDE DEF m
  <1>3. (CHOOSE x \in {a, b} : \A y \in {a, b} : x >= y) = m
    BY <1>1, <1>2
  <1> QED
    BY <1>3 DEF Max, m

LEMMA MinOfTwo ==
  ASSUME NEW a \in Int, NEW b \in Int
  PROVE  Min({a, b}) = IF a <= b THEN a ELSE b
  <1> DEFINE m == IF a <= b THEN a ELSE b
  <1>1. m \in {a, b} /\ \A y \in {a, b} : m <= y
    OBVIOUS
  <1>2. \A x \in {a, b} : (\A y \in {a, b} : x <= y) => x = m
    OBVIOUS
  <1> HIDE DEF m
  <1>3. (CHOOSE x \in {a, b} : \A y \in {a, b} : x <= y) = m
    BY <1>1, <1>2
  <1> QED
    BY <1>3 DEF Min, m

LEMMA AboveIs ==
  ASSUME NEW x \in Int, NEW y \in Int
  PROVE  Above(x, y) = IF x > y THEN x - y ELSE 0
  <1>1. x - y \in Int /\ 0 \in Int
    OBVIOUS
  <1>2. Max({0, x - y}) = IF 0 >= x - y THEN 0 ELSE x - y
    BY <1>1, MaxOfTwo
  <1> QED
    BY <1>2 DEF Above

\* What a dimension's parts are.
LEMMA DimensionIs ==
  ASSUME NEW d \in FineDims
  PROVE  /\ d.value.n \in Int /\ (d.value.kind # "number" => d.value.n = 0)
         /\ d.value.kind \in {"null", "number", "word", "blank"}
         /\ d.threshold.type \in {"min", "max", "range", "present", "match"}
         /\ d.threshold.low \in Nat /\ d.threshold.high \in Nat
         /\ d.threshold.value \in Values
         /\ d.confidence \in 0 .. Unit /\ d.weight \in Nat /\ d.days \in Nat
         /\ d.tier \in {"mechanical", "independent_review", "self_report"}
         /\ d.threshold.type = "min" => 2 * d.threshold.low <= Unit
         /\ d.threshold.type = "max" => 2 * d.threshold.high <= Unit
         /\ d.threshold.type = "range" =>
              d.threshold.low <= d.threshold.high /\ d.threshold.high - d.threshold.low <= Unit
  <1>1. d \in Dimensions /\ Fine(d)
    BY DEF FineDims
  <1>2. /\ d.threshold \in [type : {"min", "max", "range", "present", "match"},
                            low : Nat, high : Nat, value : Values]
        /\ d.value \in Values
        /\ d.confidence \in 0 .. Unit /\ d.weight \in Nat /\ d.days \in Nat
        /\ d.tier \in {"mechanical", "independent_review", "self_report"}
    BY <1>1 DEF Dimensions
  <1>3. /\ d.value.n \in Int /\ (d.value.kind # "number" => d.value.n = 0)
        /\ d.value.kind \in {"null", "number", "word", "blank"}
    BY <1>2 DEF Values
  <1>4. /\ d.threshold.type = "min" => 2 * d.threshold.low <= Unit
        /\ d.threshold.type = "max" => 2 * d.threshold.high <= Unit
        /\ d.threshold.type = "range" =>
              d.threshold.low <= d.threshold.high /\ d.threshold.high - d.threshold.low <= Unit
    BY <1>1 DEF Fine
  <1>5. /\ d.threshold.type \in {"min", "max", "range", "present", "match"}
        /\ d.threshold.low \in Nat /\ d.threshold.high \in Nat
        /\ d.threshold.value \in Values
    BY <1>2
  <1> QED
    BY <1>2, <1>3, <1>4, <1>5

\* The distance is none exactly when the judge, which compares, finds it met.
LEMMA RawGapIs ==
  ASSUME NEW d \in FineDims, ~IsNull(d.value)
  PROVE  LET raw == ComputeRawGap(d.value, d.threshold)
         IN raw \in Nat /\ (raw = 0 <=> IsSatisfiedRaw(d))
  <1> DEFINE v == d.value
             t == d.threshold
  <1>1. CASE t.type = "min"
    <2>1. ComputeRawGap(v, t) = IF t.low > v.n THEN t.low - v.n ELSE 0
      BY <1>1, DimensionIs, AboveIs DEF ComputeRawGap
    <2>2. IsSatisfiedRaw(d) <=> v.n >= t.low
      BY <1>1 DEF IsSatisfiedRaw
    <2> QED
      BY <2>1, <2>2, DimensionIs
  <1>2. CASE t.type = "max"
    <2>1. ComputeRawGap(v, t) = IF v.n > t.high THEN v.n - t.high ELSE 0
      BY <1>2, DimensionIs, AboveIs DEF ComputeRawGap
    <2>2. IsSatisfiedRaw(d) <=> v.n <= t.high
      BY <1>2 DEF IsSatisfiedRaw
    <2> QED
      BY <2>1, <2>2, DimensionIs
  <1>3. CASE t.type = "range"
    <2>1. ComputeRawGap(v, t) = (IF t.low > v.n THEN t.low - v.n ELSE 0)
                                + (IF v.n > t.high THEN v.n - t.high ELSE 0)
      BY <1>3, DimensionIs, AboveIs DEF ComputeRawGap
    <2>2. IsSatisfiedRaw(d) <=> v.n >= t.low /\ v.n <= t.high
      BY <1>3 DEF IsSatisfiedRaw
    <2> QED
      BY <2>1, <2>2, DimensionIs
  <1>4. CASE t.type = "present"
    <2>1. ComputeRawGap(v, t) = IF IsTruthy(v) THEN 0 ELSE 1
      BY <1>4 DEF ComputeRawGap
    <2>2. IsSatisfiedRaw(d) <=> IsTruthy(v)
      BY <1>4 DEF IsSatisfiedRaw
    <2> QED
      BY <2>1, <2>2
  <1>5. CASE t.type = "match"
    <2>1. ComputeRawGap(v, t) = IF v = t.value THEN 0 ELSE 1
      BY <1>5 DEF ComputeRawGap
    <2>2. IsSatisfiedRaw(d) <=> v = t.value
      BY <1>5 DEF IsSatisfiedRaw
    <2> QED
      BY <2>1, <2>2
  <1> QED
    BY <1>1, <1>2, <1>3, <1>4, <1>5, DimensionIs

\* A share of a whole that is not much larger than the unit is not rounded away.
LEMMA ShareIs ==
  ASSUME NEW raw \in Nat, NEW whole \in Nat \ {0}
  PROVE  /\ PerUnit(raw, whole) \in Nat
         /\ raw = 0 => PerUnit(raw, whole) = 0
         /\ raw # 0 /\ 2 * whole <= Unit => PerUnit(raw, whole) >= 2
         /\ raw # 0 /\ whole <= Unit => PerUnit(2 * raw, whole) >= 2
         /\ PerUnit(2 * raw, whole) \in Nat /\ (raw = 0 => PerUnit(2 * raw, whole) = 0)
  <1>1. \A x \in Nat : /\ x \div whole \in Nat /\ (x = 0 => x \div whole = 0)
                       /\ (x >= 2 * whole => x \div whole >= 2)
    OBVIOUS
  <1>2. raw * Unit \in Nat /\ (2 * raw) * Unit \in Nat
    OBVIOUS
  <1>3. raw = 0 => raw * Unit = 0 /\ (2 * raw) * Unit = 0
    OBVIOUS
  <1>4. raw # 0 => raw * Unit >= Unit /\ (2 * raw) * Unit >= 2 * Unit
    OBVIOUS
  <1>5. raw # 0 /\ 2 * whole <= Unit => raw * Unit >= 2 * whole
    BY <1>2, <1>4
  <1>6. raw # 0 /\ whole <= Unit => (2 * raw) * Unit >= 2 * whole
    BY <1>2, <1>4
  <1> QED
    BY <1>1, <1>2, <1>3, <1>5, <1>6 DEF PerUnit

\* The normalized gap of a known value is none exactly when it is met, and else
\* two parts at least.
LEMMA NormalIs ==
  ASSUME NEW d \in FineDims, ~IsNull(d.value)
  PROVE  LET g == NormalizeGap(ComputeRawGap(d.value, d.threshold), d.threshold, d.value)
         IN g \in Nat /\ (IsSatisfiedRaw(d) => g = 0) /\ (~IsSatisfiedRaw(d) => g >= 2)
  <1> DEFINE t == d.threshold
             raw == ComputeRawGap(d.value, d.threshold)
             g == NormalizeGap(raw, t, d.value)
  <1>1. raw \in Nat /\ (raw = 0 <=> IsSatisfiedRaw(d))
    BY RawGapIs
  <1>2. OneIf(raw > 0) \in Nat /\ (raw = 0 => OneIf(raw > 0) = 0) /\ (raw # 0 => OneIf(raw > 0) >= 2)
    BY <1>1 DEF OneIf
  <1> HIDE DEF raw
  <1>3. CASE t.type = "min"
    <2>1. g = IF t.low = 0 THEN OneIf(raw > 0) ELSE PerUnit(raw, t.low)
      BY <1>3 DEF NormalizeGap
    <2>2. t.low \in Nat /\ 2 * t.low <= Unit
      BY <1>3, DimensionIs
    <2> HIDE DEF g
    <2> QED
      BY <1>1, <1>2, <2>1, <2>2, ShareIs DEF g, raw
  <1>4. CASE t.type = "max"
    <2>1. g = IF t.high = 0 THEN OneIf(raw > 0) ELSE PerUnit(raw, t.high)
      BY <1>4 DEF NormalizeGap
    <2>2. t.high \in Nat /\ 2 * t.high <= Unit
      BY <1>4, DimensionIs
    <2> HIDE DEF g
    <2> QED
      BY <1>1, <1>2, <2>1, <2>2, ShareIs DEF g, raw
  <1>5. CASE t.type = "range"
    <2>1. g = IF t.high = t.low THEN OneIf(raw > 0)
              ELSE Min({Unit, PerUnit(2 * raw, t.high - t.low)})
      BY <1>5 DEF NormalizeGap
    <2>2. t.high \in Nat /\ t.low \in Nat /\ t.low <= t.high /\ t.high - t.low <= Unit
      BY <1>5, DimensionIs
    <2>3. CASE t.high = t.low
      BY <1>1, <1>2, <2>1, <2>3 DEF g, raw
    <2>4. CASE t.high # t.low
      <3>1. t.high - t.low \in Nat \ {0}
        BY <2>2, <2>4
      <3>2. /\ PerUnit(2 * raw, t.high - t.low) \in Nat
            /\ raw = 0 => PerUnit(2 * raw, t.high - t.low) = 0
            /\ raw # 0 => PerUnit(2 * raw, t.high - t.low) >= 2
        BY <1>1, <2>2, <3>1, ShareIs
      <3>3. g = IF Unit <= PerUnit(2 * raw, t.high - t.low) THEN Unit
                ELSE PerUnit(2 * raw, t.high - t.low)
        BY <2>1, <2>4, <3>2, MinOfTwo
      <3> HIDE DEF g
      <3> QED
        BY <1>1, <3>2, <3>3 DEF g, raw
    <2> QED
      BY <2>3, <2>4
  <1>6. CASE t.type \in {"present", "match"}
    <2>1. g = OneIf(raw > 0)
      BY <1>6 DEF NormalizeGap
    <2> QED
      BY <1>1, <1>2, <2>1 DEF g, raw
  <1> QED
    BY <1>3, <1>4, <1>5, <1>6, DimensionIs

\* Confidence makes a gap larger, never none.
LEMMA WeighedIs ==
  ASSUME NEW d \in FineDims
  PROVE  /\ CalculateDimensionGap(d) \in 0 .. Unit
         /\ IsSatisfiedRaw(d) => CalculateDimensionGap(d) = 0
         /\ ~IsSatisfiedRaw(d) => CalculateDimensionGap(d) >= 2
  <1> DEFINE g == NormalizeGap(ComputeRawGap(d.value, d.threshold), d.threshold, d.value)
  <1>1. CASE IsNull(d.value)
    <2>1. CalculateDimensionGap(d) = Unit
      BY <1>1 DEF CalculateDimensionGap, ApplyConfidenceWeight, NormalizeGap, UnknownGap
    <2>2. ~IsSatisfiedRaw(d)
      BY <1>1 DEF IsSatisfiedRaw
    <2> QED
      BY <2>1, <2>2
  <1>2. CASE ~IsNull(d.value)
    <2>1. g \in Nat /\ (IsSatisfiedRaw(d) => g = 0) /\ (~IsSatisfiedRaw(d) => g >= 2)
      BY <1>2, NormalIs
    <2> DEFINE k == (Unit - d.confidence) * d.weight
               x == (g * (Unit + k)) \div Unit
    <2>2. CalculateDimensionGap(d) = Min({Unit, x})
      BY <1>2 DEF CalculateDimensionGap, ApplyConfidenceWeight
    <2> HIDE DEF g
    <2>3. k \in Nat
      <3>1. Unit - d.confidence \in Nat /\ d.weight \in Nat
        BY DimensionIs
      <3> QED
        BY <3>1
    <2> HIDE DEF k
    <2>4. g * (Unit + k) \in Nat /\ g * (Unit + k) >= g * Unit /\ (g = 0 => g * (Unit + k) = 0)
      <3>1. g * (Unit + k) = g * Unit + g * k /\ g * Unit \in Nat /\ g * k \in Nat
        BY <2>1, <2>3
      <3>2. g = 0 => g * Unit = 0 /\ g * k = 0
        BY <2>3
      <3> QED
        BY <3>1, <3>2
    <2>5. \A y \in Nat : /\ y \div Unit \in Nat /\ (y = 0 => y \div Unit = 0)
                         /\ (y >= 2 * Unit => y \div Unit >= 2)
      OBVIOUS
    <2>6. g >= 2 => g * Unit >= 2 * Unit
      BY <2>1
    <2>7. x \in Nat /\ (g = 0 => x = 0) /\ (g >= 2 => x >= 2)
      <3>1. g >= 2 => g * (Unit + k) >= 2 * Unit
        BY <2>1, <2>4, <2>6
      <3> QED
        BY <2>4, <2>5, <3>1
    <2> HIDE DEF x
    <2>8. CalculateDimensionGap(d) = IF Unit <= x THEN Unit ELSE x
      BY <2>2, <2>7, MinOfTwo
    <2> QED
      BY <2>1, <2>7, <2>8
  <1> QED
    BY <1>1, <1>2

\* The gap of a goal is none exactly when every dimension is met.
LEMMA AggregateIs ==
  ASSUME NEW gaps \in [DimNames -> 0 .. Unit], \A n \in DimNames : gaps[n] = 0 \/ gaps[n] >= 2,
         NEW how \in {"max", "weighted_avg", "sum"}
  PROVE  AggregateGaps(gaps, how) = 0 <=> \A n \in DimNames : gaps[n] = 0
  <1>1. /\ gaps[1] \in Nat /\ gaps[2] \in Nat /\ (gaps[1] = 0 \/ gaps[1] >= 2)
        /\ (gaps[2] = 0 \/ gaps[2] >= 2)
    BY DEF DimNames
  <1>2. (\A n \in DimNames : gaps[n] = 0) <=> gaps[1] = 0 /\ gaps[2] = 0
    BY DEF DimNames
  <1>3. CASE how = "max"
    <2>1. {gaps[n] : n \in DimNames} = {gaps[1], gaps[2]}
      BY DEF DimNames
    <2>2. AggregateGaps(gaps, how) = IF gaps[1] >= gaps[2] THEN gaps[1] ELSE gaps[2]
      <3>1. AggregateGaps(gaps, how) = Max({gaps[n] : n \in DimNames})
        BY <1>3 DEF AggregateGaps
      <3>2. Max({gaps[1], gaps[2]}) = IF gaps[1] >= gaps[2] THEN gaps[1] ELSE gaps[2]
        BY <1>1, MaxOfTwo
      <3>3. Max({gaps[n] : n \in DimNames}) = Max({gaps[1], gaps[2]})
        BY <2>1, Zenon
      <3> QED
        BY <3>1, <3>2, <3>3
    <2> QED
      BY <1>1, <1>2, <2>2
  <1>4. CASE how = "weighted_avg"
    <2>1. Cardinality(DimNames) = 2
      <3>1. IsFiniteSet({1}) /\ Cardinality({1}) = 1
        BY FS_Singleton
      <3>2. ASSUME NEW S, NEW x, IsFiniteSet(S), Cardinality(S) = 1, x \notin S
            PROVE  Cardinality(S \cup {x}) = 2
        <4>1. Cardinality(S \cup {x}) = IF x \in S THEN Cardinality(S) ELSE Cardinality(S) + 1
          BY <3>2, FS_AddElement
        <4> QED
          BY <3>2, <4>1
      <3>3. DimNames = {1} \cup {2} /\ 2 \notin {1}
        BY DEF DimNames
      <3> QED
        BY <3>1, <3>2, <3>3
    <2>2. AggregateGaps(gaps, how) = (gaps[1] + gaps[2]) \div 2
      BY <1>4, <2>1 DEF AggregateGaps
    <2> QED
      BY <1>1, <1>2, <2>2
  <1>5. CASE how = "sum"
    <2>1. AggregateGaps(gaps, how) = gaps[1] + gaps[2]
      BY <1>5 DEF AggregateGaps
    <2> QED
      BY <1>1, <1>2, <2>1
  <1> QED
    BY <1>3, <1>4, <1>5

\* The iteration has weighed all dimensions as they are.
LEMMA AllWeighed ==
  ASSUME gapDims \in [DimNames -> FineDims]
  PROVE  /\ Weighed \in [DimNames -> 0 .. Unit]
         /\ \A n \in DimNames : /\ Weighed[n] = 0 \/ Weighed[n] >= 2
                                /\ Weighed[n] = 0 <=> IsSatisfiedRaw(gapDims[n])
  <1>1. ASSUME NEW n \in DimNames
        PROVE  /\ Weighed[n] \in 0 .. Unit /\ (Weighed[n] = 0 \/ Weighed[n] >= 2)
               /\ Weighed[n] = 0 <=> IsSatisfiedRaw(gapDims[n])
    <2>1. gapDims[n] \in FineDims /\ Weighed[n] = CalculateDimensionGap(gapDims[n])
      BY DEF Weighed
    <2> QED
      BY <2>1, WeighedIs
  <1>2. Weighed \in [DimNames -> 0 .. Unit]
    BY <1>1 DEF Weighed
  <1> QED
    BY <1>1, <1>2

\* A score is none exactly when the gap is.
LEMMA ScoreIs ==
  ASSUME NEW gap \in Nat, NEW days \in Nat,
         setting.deadline \in Int \/ setting.deadline = NoDeadline
  PROVE  Score(gap, days) \in Nat /\ (Score(gap, days) = 0 <=> gap = 0)
  <1>1. Decay(days) \in {30, 74, 91}
    <2>1. Min({days, 2}) = IF days <= 2 THEN days ELSE 2
      BY MinOfTwo
    <2> DEFINE k == Min({days, 2}) + 1
    <2>2. k \in 1 .. 3
      BY <2>1
    <2> HIDE DEF k
    <2>3. <<30, 74, 91>>[k] \in {30, 74, 91}
      BY <2>2
    <2> QED
      BY <2>3 DEF Decay, k
  <1>2. Urgency \in {0, 201, 45, 10}
    <2>1. CASE setting.deadline = NoDeadline
      BY <2>1 DEF Urgency
    <2>2. CASE setting.deadline # NoDeadline
      <3>1. Min({setting.deadline, 2}) = IF setting.deadline <= 2 THEN setting.deadline ELSE 2
        BY <2>2, MinOfTwo
      <3> DEFINE m == Min({setting.deadline, 2})
                 k == Max({0, m}) + 1
      <3>2. m \in Int /\ m <= 2
        BY <2>2, <3>1
      <3> HIDE DEF m
      <3>3. Max({0, m}) = IF 0 >= m THEN 0 ELSE m
        BY <3>2, MaxOfTwo
      <3>4. k \in 1 .. 3
        BY <3>2, <3>3
      <3> HIDE DEF k
      <3>5. <<201, 45, 10>>[k] \in {201, 45, 10}
        BY <3>4
      <3> QED
        BY <2>2, <3>5 DEF Urgency, k, m
    <2> QED
      BY <2>1, <2>2
  <1> DEFINE a == gap * Decay(days) * 10
             b == gap * Urgency * 100
  <1>3. a \in Nat /\ (a = 0 <=> gap = 0)
    BY <1>1
  <1>4. b \in Nat /\ (gap = 0 => b = 0) /\ (Urgency # 0 /\ gap # 0 => b # 0)
    BY <1>2
  <1>5. Score(gap, days) = IF Urgency >= 100 THEN b ELSE Max({a, b})
    BY DEF Score, UrgencyOverride
  <1> HIDE DEF a, b
  <1>6. Max({a, b}) = IF a >= b THEN a ELSE b
    BY <1>3, <1>4, MaxOfTwo
  <1> QED
    BY <1>2, <1>3, <1>4, <1>5, <1>6

\* The first of the ranking has the highest score.
LEMMA TopRanked ==
  ASSUME NEW score \in [DimNames -> Nat]
  PROVE  FirstBy(score) \in DimNames /\ \A m \in DimNames : score[FirstBy(score)] >= score[m]
  <1> DEFINE P(n) == \A m \in DimNames \ {n} : score[n] > score[m] \/ (score[n] = score[m] /\ n < m)
             n0 == IF score[1] >= score[2] THEN 1 ELSE 2
  <1>1. score[1] \in Nat /\ score[2] \in Nat
    BY DEF DimNames
  <1>2. n0 \in DimNames /\ P(n0)
    BY <1>1 DEF DimNames
  <1>3. \A n \in DimNames : P(n) => \A m \in DimNames : score[n] >= score[m]
    BY <1>1 DEF DimNames
  <1> HIDE DEF P, n0
  <1>4. (CHOOSE n \in DimNames : P(n)) \in DimNames /\ P(CHOOSE n \in DimNames : P(n))
    BY <1>2
  <1>5. FirstBy(score) = CHOOSE n \in DimNames : P(n)
    BY DEF FirstBy, P
  <1> QED
    BY <1>3, <1>4, <1>5

LEMMA ChosenFine == Subjects \cup Companions \subseteq FineDims /\ (CHOOSE c \in Companions : TRUE) \in Companions
  <1>1. ASSUME NEW d \in Subjects \cup Companions PROVE d \in FineDims
    BY DEF FineDims, Fine
  <1>2. \E c \in Companions : TRUE
    OBVIOUS
  <1> QED
    BY <1>1, <1>2

LEMMA GapStart ==
  ASSUME \/ GapInit
         \/ /\ gapDims = [n \in DimNames |-> CHOOSE c \in Companions : TRUE]
            /\ setting = [deadline |-> NoDeadline, method |-> "max"]
            /\ turn = [phase |-> "observed", gaps |-> [n \in DimNames |-> 0],
                       scores |-> [n \in DimNames |-> 0], target |-> 0]
  PROVE  GapInv
  <1>1. turn = [phase |-> "observed", gaps |-> [n \in DimNames |-> 0],
                scores |-> [n \in DimNames |-> 0], target |-> 0]
    BY DEF GapInit
  <1>2. gapDims \in [DimNames -> FineDims]
    <2>1. CASE GapInit
      <3>1. PICK s \in Subjects, c \in Companions : gapDims = [n \in DimNames |-> IF n = 1 THEN s ELSE c]
        BY <2>1 DEF GapInit
      <3>2. s \in FineDims /\ c \in FineDims
        BY ChosenFine
      <3> QED
        BY <3>1, <3>2
    <2>2. CASE gapDims = [n \in DimNames |-> CHOOSE c \in Companions : TRUE]
      <3>1. (CHOOSE c \in Companions : TRUE) \in FineDims
        BY ChosenFine
      <3> QED
        BY <2>2, <3>1
    <2> QED
      BY <2>1, <2>2
  <1>3. /\ setting.deadline \in Int \/ setting.deadline = NoDeadline
        /\ setting.method \in {"max", "weighted_avg", "sum"}
    BY DEF GapInit
  <1>4. [n \in DimNames |-> 0] \in [DimNames -> 0 .. Unit] /\ [n \in DimNames |-> 0] \in [DimNames -> Nat]
    OBVIOUS
  <1>5. turn \in [phase : GapPhases, gaps : [DimNames -> 0 .. Unit], scores : [DimNames -> Nat],
                  target : {0} \cup DimNames]
    BY <1>1, <1>4 DEF GapPhases
  <1>6. turn.phase = "observed"
    BY <1>1
  <1> QED
    BY <1>2, <1>3, <1>5, <1>6 DEF GapInv, GapTyped, GapWorked, GapAimed

\* A dimension for which the gap and the score are not none comes before one
\* for which they are.
LEMMA AimsAtUnmet ==
  ASSUME gapDims \in [DimNames -> FineDims], NEW score \in [DimNames -> Nat],
         \A n \in DimNames : score[n] = 0 <=> Weighed[n] = 0,
         NEW n \in DimNames, Weighed[n] # 0
  PROVE  LET ranks == [m \in DimNames |-> score[m] * TierWeight(gapDims[m].tier)]
         IN FirstBy(ranks) \in DimNames /\ Weighed[FirstBy(ranks)] # 0
  <1> DEFINE ranks == [m \in DimNames |-> score[m] * TierWeight(gapDims[m].tier)]
  <1>1. ASSUME NEW m \in DimNames
        PROVE  ranks[m] \in Nat /\ (ranks[m] = 0 <=> score[m] = 0)
    <2>1. TierWeight(gapDims[m].tier) \in {10, 7, 3}
      BY DEF TierWeight
    <2>2. score[m] \in Nat
      OBVIOUS
    <2> QED
      BY <2>1, <2>2
  <1>2. ranks \in [DimNames -> Nat]
    BY <1>1
  <1> HIDE DEF ranks
  <1>3. FirstBy(ranks) \in DimNames /\ ranks[FirstBy(ranks)] >= ranks[n]
    BY <1>2, TopRanked
  <1>4. ranks[n] \in Nat /\ ranks[n] # 0 /\ ranks[FirstBy(ranks)] \in Nat
    BY <1>1, <1>3
  <1>5. ranks[FirstBy(ranks)] # 0
    BY <1>3, <1>4
  <1> QED
    BY <1>1, <1>3, <1>5 DEF ranks

LEMMA GapKeeps == GapInv /\ [GapNext]_gapVars => GapInv'
  <1> SUFFICES ASSUME GapInv, [GapNext]_gapVars PROVE GapInv'
    OBVIOUS
  <1>0. /\ gapDims \in [DimNames -> FineDims] /\ setting.method \in {"max", "weighted_avg", "sum"}
        /\ setting.deadline \in Int \/ setting.deadline = NoDeadline
        /\ turn \in [phase : GapPhases, gaps : [DimNames -> 0 .. Unit], scores : [DimNames -> Nat],
                     target : {0} \cup DimNames]
    BY DEF GapInv, GapTyped
  <1>1. /\ Weighed \in [DimNames -> 0 .. Unit]
        /\ \A n \in DimNames : /\ Weighed[n] = 0 \/ Weighed[n] >= 2
                               /\ Weighed[n] = 0 <=> IsSatisfiedRaw(gapDims[n])
    BY <1>0, AllWeighed
  <1> DEFINE Turns == [phase : GapPhases, gaps : [DimNames -> 0 .. Unit], scores : [DimNames -> Nat],
                       target : {0} \cup DimNames]
  <1>2. ASSUME UNCHANGED <<gapDims, setting>> PROVE Weighed' = Weighed
    BY <1>2 DEF Weighed
  <1>3. CASE CalculateGap
    <2>1. UNCHANGED <<gapDims, setting>>
          /\ turn' \in {[turn EXCEPT !.phase = "failed"],
                     [turn EXCEPT !.gaps = Weighed,
                        !.phase = IF AggregateGaps(Weighed, setting.method) = 0
                                  THEN "skip" ELSE "gap"]}
      BY <1>3 DEF CalculateGap, Weighed
    <2>2. Weighed' = Weighed
      BY <1>2, <2>1
    <2>3. turn' \in Turns
      BY <1>0, <1>1, <2>1 DEF GapPhases
    <2>4. \/ turn'.phase = "failed"
          \/ turn'.phase = "skip" /\ turn'.gaps = Weighed /\ AggregateGaps(Weighed, setting.method) = 0
          \/ turn'.phase = "gap" /\ turn'.gaps = Weighed /\ AggregateGaps(Weighed, setting.method) # 0
      BY <1>0, <2>1
    <2> HIDE DEF Turns
    <2>5. GapWorked' /\ GapAimed'
      BY <2>1, <2>2, <2>4 DEF GapWorked, GapAimed
    <2> QED
      BY <1>0, <2>1, <2>3, <2>5 DEF GapInv, GapTyped, Turns
  <1>4. CASE ScoreDrives
    <2> DEFINE sc == [n \in DimNames |-> Score(turn.gaps[n], gapDims[n].days)]
    <2>1. UNCHANGED <<gapDims, setting>> /\ turn.phase = "gap"
          /\ \/ turn' = [turn EXCEPT !.phase = "failed"]
             \/ turn' = [turn EXCEPT !.phase = "scored", !.scores = sc]
             \/ turn' = [turn EXCEPT !.phase = "acquire"]
      BY <1>4 DEF ScoreDrives
    <2>2. Weighed' = Weighed
      BY <1>2, <2>1
    <2>3. sc \in [DimNames -> Nat]
      <3>1. ASSUME NEW n \in DimNames PROVE Score(turn.gaps[n], gapDims[n].days) \in Nat
        <4>1. turn.gaps[n] \in Nat /\ gapDims[n] \in FineDims
          BY <1>0
        <4>2. gapDims[n].days \in Nat
          BY <4>1, DimensionIs
        <4> QED
          BY <1>0, <4>1, <4>2, ScoreIs
      <3> QED
        BY <3>1
    <2>4. turn.gaps = Weighed /\ AggregateGaps(Weighed, setting.method) # 0
      BY <2>1 DEF GapInv, GapWorked
    <2>5. \A n \in DimNames : sc[n] = 0 <=> Weighed[n] = 0
      <3>1. ASSUME NEW n \in DimNames PROVE sc[n] = 0 <=> Weighed[n] = 0
        <4>1. turn.gaps[n] \in Nat /\ turn.gaps[n] = Weighed[n] /\ gapDims[n] \in FineDims
          BY <1>0, <2>4
        <4>2. gapDims[n].days \in Nat
          BY <4>1, DimensionIs
        <4>3. Score(turn.gaps[n], gapDims[n].days) = 0 <=> turn.gaps[n] = 0
          BY <1>0, <4>1, <4>2, ScoreIs
        <4> QED
          BY <4>1, <4>3
      <3> QED
        BY <3>1
    <2> HIDE DEF sc
    <2>6. /\ turn' \in Turns /\ turn'.gaps = turn.gaps
          /\ turn'.phase \in {"failed", "scored", "acquire"}
          /\ turn'.phase = "scored" => turn'.scores = sc
      BY <1>0, <2>1, <2>3 DEF GapPhases
    <2> HIDE DEF Turns
    <2>7. GapWorked' /\ GapAimed'
      BY <2>1, <2>2, <2>4, <2>5, <2>6 DEF GapWorked, GapAimed
    <2> QED
      BY <1>0, <2>1, <2>6, <2>7 DEF GapInv, GapTyped, Turns
  <1>5. CASE SelectTargetDimension
    <2> DEFINE ranks == [n \in DimNames |-> turn.scores[n] * TierWeight(gapDims[n].tier)]
    <2>1. UNCHANGED <<gapDims, setting>> /\ turn.phase = "scored"
          /\ turn' = [turn EXCEPT !.phase = "task", !.target = FirstBy(ranks)]
      BY <1>5 DEF SelectTargetDimension
    <2>2. /\ turn.gaps = Weighed /\ AggregateGaps(Weighed, setting.method) # 0
          /\ \A n \in DimNames : turn.scores[n] = 0 <=> Weighed[n] = 0
          /\ Weighed' = Weighed /\ turn.scores \in [DimNames -> Nat]
      BY <1>0, <1>2, <2>1 DEF GapInv, GapWorked
    <2>3. PICK n \in DimNames : Weighed[n] # 0
      BY <1>0, <1>1, <2>2, AggregateIs
    <2>4. FirstBy(ranks) \in DimNames /\ Weighed[FirstBy(ranks)] # 0
      BY <1>0, <2>2, <2>3, AimsAtUnmet
    <2> HIDE DEF ranks
    <2>5. /\ turn' \in Turns /\ turn'.gaps = turn.gaps /\ turn'.phase = "task"
          /\ turn'.target = FirstBy(ranks)
      BY <1>0, <2>1, <2>4 DEF GapPhases
    <2> HIDE DEF Turns
    <2>6. GapWorked' /\ GapAimed'
      BY <2>1, <2>2, <2>4, <2>5 DEF GapWorked, GapAimed
    <2> QED
      BY <1>0, <2>1, <2>5, <2>6 DEF GapInv, GapTyped, Turns
  <1>6. CASE UNCHANGED gapVars
    <2>1. UNCHANGED <<gapDims, setting, turn>>
      BY <1>6 DEF gapVars
    <2>2. Weighed' = Weighed
      BY <1>2, <2>1
    <2> QED
      BY <2>1, <2>2 DEF GapInv, GapTyped, GapWorked, GapAimed
  <1> QED
    BY <1>3, <1>4, <1>5, <1>6 DEF GapNext

LEMMA GapHolds == GapInv => GapTypeOK /\ SkipsWhenMet /\ TargetIsUnmet /\ FullMeansMet
  <1> SUFFICES ASSUME GapInv PROVE GapTypeOK /\ SkipsWhenMet /\ TargetIsUnmet /\ FullMeansMet
    OBVIOUS
  <1>0. /\ gapDims \in [DimNames -> FineDims] /\ setting.method \in {"max", "weighted_avg", "sum"}
        /\ turn \in [phase : GapPhases, gaps : [DimNames -> 0 .. Unit], scores : [DimNames -> Nat],
                     target : {0} \cup DimNames]
    BY DEF GapInv, GapTyped
  <1>1. /\ Weighed \in [DimNames -> 0 .. Unit]
        /\ \A n \in DimNames : /\ Weighed[n] = 0 \/ Weighed[n] >= 2
                               /\ Weighed[n] = 0 <=> IsSatisfiedRaw(gapDims[n])
    BY <1>0, AllWeighed
  <1>2. GapTypeOK
    <2>1. \A n \in DimNames :
            /\ gapDims[n].threshold.type \in {"min", "max", "range", "present", "match"}
            /\ gapDims[n].value.kind \in {"null", "number", "word", "blank"}
            /\ gapDims[n].confidence \in 0 .. Unit
      BY <1>0, DimensionIs
    <2>2. /\ turn.phase \in GapPhases /\ turn.gaps \in [DimNames -> 0 .. Unit]
          /\ turn.target \in {0} \cup DimNames
      BY <1>0
    <2> QED
      BY <2>1, <2>2 DEF GapTypeOK, GapPhases
  <1>3. SkipsWhenMet
    <2>1. AggregateGaps(Weighed, setting.method) = 0 <=> \A n \in DimNames : Weighed[n] = 0
      BY <1>0, <1>1, AggregateIs
    <2>2. AggregateGaps(Weighed, setting.method) = 0 <=> \A n \in DimNames : IsSatisfiedRaw(gapDims[n])
      BY <1>1, <2>1
    <2> QED
      BY <2>2 DEF SkipsWhenMet, GapInv, GapWorked
  <1>4. TargetIsUnmet
    BY <1>1 DEF TargetIsUnmet, GapInv, GapAimed
  <1>5. FullMeansMet
    <2> SUFFICES ASSUME NEW d \in FineDims
                 PROVE  EffectiveProgress(d) = 100 <=>
                          IsSatisfiedRaw(d) /\ ConfidenceTier(d.confidence) = "high"
      BY <1>0 DEF FullMeansMet
    <2>1. Ceiling(d.confidence) \in {100, 85, 60}
          /\ (Ceiling(d.confidence) = 100 <=> ConfidenceTier(d.confidence) = "high")
      BY DEF Ceiling
    <2>2. DimensionProgress(d) \in 0 .. Unit /\ (DimensionProgress(d) = Unit <=> IsSatisfiedRaw(d))
      <3>1. CASE IsNull(d.value)
        BY <3>1 DEF DimensionProgress, IsSatisfiedRaw
      <3>2. CASE ~IsNull(d.value)
        <4> DEFINE g == NormalizeGap(ComputeRawGap(d.value, d.threshold), d.threshold, d.value)
        <4>1. g \in Nat /\ (IsSatisfiedRaw(d) => g = 0) /\ (~IsSatisfiedRaw(d) => g >= 2)
          BY <3>2, NormalIs
        <4>2. DimensionProgress(d) = Unit - Min({Unit, g})
          BY <3>2 DEF DimensionProgress
        <4> HIDE DEF g
        <4>3. Min({Unit, g}) = IF Unit <= g THEN Unit ELSE g
          BY <4>1, MinOfTwo
        <4> QED
          BY <4>1, <4>2, <4>3
      <3> QED
        BY <3>1, <3>2
    <2> DEFINE p == DimensionProgress(d)
               x == (100 * p) \div Unit
               c == Ceiling(d.confidence)
    <2>3. x \in Int /\ x <= 100 /\ (x = 100 <=> p = Unit)
      <3> HIDE DEF p
      <3>1. p \in 0 .. Unit
        BY <2>2 DEF p
      <3>2. 100 * p \in Nat /\ 100 * p <= 100 * Unit /\ (100 * p = 100 * Unit <=> p = Unit)
        BY <3>1
      <3>3. \A y \in Nat : y <= 100 * Unit =>
              /\ y \div Unit \in Int /\ y \div Unit <= 100
              /\ (y \div Unit = 100 <=> y = 100 * Unit)
        OBVIOUS
      <3> QED
        BY <3>2, <3>3
    <2>4. EffectiveProgress(d) = Min({x, c})
      BY DEF EffectiveProgress
    <2> HIDE DEF x, c
    <2>5. Min({x, c}) = IF x <= c THEN x ELSE c
      BY <2>1, <2>3, MinOfTwo DEF c
    <2> QED
      BY <2>1, <2>2, <2>3, <2>4, <2>5 DEF c, p
  <1> QED
    BY <1>2, <1>3, <1>4, <1>5

HIDE GapAssumption DEF GapAssumption

-----------------------------------------------------------------------------
(* The walks over goal files *)

\* What may stand in a frame.
GrowOps == {"refine", "children", "decompose", "save", "link"}
PruneOps == {"prune", "cancel", "cancelled", "unlink"}
ArchiveOps == {"archive", "copy", "remove", "mark", "sideCopy", "sideRemove"}
DeleteOps == {"delete", "remove", "rmArchive"}
TakeOps == {"archive", "delete", "copy", "remove"}
AFrame == [op : GrowOps \union PruneOps \union ArchiveOps \union DeleteOps,
           id : Ids, n : Nat, kids : Seq(Ids)]

TreeTyped ==
    /\ live \in [Ids -> Goal \union {NoGoal}] /\ archive \in [Ids -> Goal \union {NoGoal}]
    /\ side \in [Ids -> {"none", "live", "both", "archived"}]
    /\ used \in Ids /\ visited \subseteq Ids /\ removed \subseteq Ids
    /\ stack \in Seq(AFrame) /\ tokens \in Nat

Copies(x) == {live[x], archive[x]} \ {NoGoal}
Kids(g) == Ran(g.children)
Lists(x) == UNION {Kids(g) : g \in Copies(x)}
Gone(x) == live[x] = NoGoal /\ archive[x] = NoGoal

\* Parents come before their children, no id is used before it is drawn, and what
\* either copy of a goal lists can be loaded or was deleted.
Grounded ==
    \A x \in Ids : \A g \in Copies(x) :
        /\ x <= used /\ g.parent < x /\ (x # Root => g.parent # 0)
        /\ \A c \in Kids(g) : x < c /\ c <= used /\ (Gone(c) => c \in removed)
\* A goal is listed by one other only, and by the live copy if by the archived one.
OneList ==
    /\ \A p, q \in Ids : p # q => Lists(p) \intersect Lists(q) = {}
    /\ \A p \in Ids : live[p] # NoGoal /\ archive[p] # NoGoal =>
                          Kids(archive[p]) \subseteq Kids(live[p])
BottomUp ==
    \A x \in Ids : live[x] = NoGoal /\ archive[x] # NoGoal =>
                       \A c \in Kids(archive[x]) : live[c] = NoGoal
\* An active goal is listed, or the frame is there that will list it.
Awaited(s, x, p) == \E i \in DOMAIN s : s[i].op = "link" /\ s[i].id = p /\ x \in Ran(s[i].kids)
Reached(x) ==
    LoadGoal(x) # NoGoal /\ LoadGoal(x).status = "active" /\ LoadGoal(LoadGoal(x).parent) # NoGoal =>
        \/ x \in Kids(LoadGoal(LoadGoal(x).parent))
        \/ Awaited(stack, x, LoadGoal(x).parent)
Listed == ~cut => \A x \in Ids \ (removed \union {Root}) : Reached(x)
FilesInv == Grounded /\ OneList /\ BottomUp /\ Listed

Stands(s, i, op, x) == s[i].op = op /\ s[i].id = x
Over(s, i, kinds, x) == \E j \in 1 .. i - 1 : s[j].op \in kinds /\ s[j].id = x

\* Growing: what is refined is live or listed by a live goal, children are written
\* before they are listed, and nothing is on top of the writing.
Near(x) == live[x] # NoGoal \/ \E p \in Ids : live[p] # NoGoal /\ x \in Kids(live[p])
Pending(s, i, x) == \E j \in 1 .. i - 1 : s[j].op = "link" /\ x \in Ran(s[j].kids)
SaveOK(s, i) ==
    /\ Gone(s[i].id) /\ \A j \in 1 .. i - 1 : s[j].op = "save" /\ s[j].id # s[i].id
    /\ Awaited(s, s[i].id, s[i].n)
LinkOK(s, i) ==
    /\ live[s[i].id] # NoGoal /\ live[s[i].id].depth < MaxDepth
    /\ \A j \in 1 .. i - 1 : s[j].op = "save"
    /\ \A c \in Ran(s[i].kids) :
         /\ s[i].id < c /\ c <= used /\ (Gone(c) => Over(s, i, {"save"}, c))
         /\ \A q \in Ids : c \notin Lists(q) /\ \A g \in Copies(q) : g.parent # c
GrowOK(s, i) ==
    /\ s[i].op \in GrowOps
    /\ s[i].op = "refine" => Near(s[i].id)
    /\ s[i].op = "children" =>
         live[s[i].id] # NoGoal \/ (i > 1 /\ Stands(s, i - 1, "decompose", s[i].id))
    /\ s[i].op = "decompose" => (~Gone(s[i].id) /\ Near(s[i].id)) \/ Pending(s, i, s[i].id)
    /\ s[i].op = "save" => SaveOK(s, i)
    /\ s[i].op = "link" => LinkOK(s, i)
Growing == \A i \in DOMAIN stack : GrowOK(stack, i)

\* Pruning: nothing is archived, and a goal is cancelled before it is unlisted.
PruneOK(s, i) ==
    /\ s[i].op \in PruneOps
    /\ s[i].op \in {"prune", "cancelled", "unlink"} => live[s[i].id] # NoGoal
    /\ s[i].op \in {"prune", "unlink"} => s[i].id # Root
    /\ s[i].op = "unlink" =>
         live[s[i].id].status = "cancelled" \/ Over(s, i, {"cancel", "cancelled"}, s[i].id)
Pruning == (\A x \in Ids : archive[x] = NoGoal) /\ \A i \in DOMAIN stack : PruneOK(stack, i)

\* Archiving and deleting: children go first, and a goal is gone through once.
TakeOK(s, i) ==
    s[i].op \in {"copy", "remove"} =>
        /\ s[i].id \in visited /\ live[s[i].id] # NoGoal
        /\ \A c \in Kids(live[s[i].id]) : live[c] = NoGoal \/ Over(s, i, TakeOps, c)
Downward(s) ==
    \A k \in DOMAIN s : \A i \in 1 .. k - 1 :
        s[i].op \in TakeOps /\ s[k].op \in {"copy", "remove"} =>
            \/ s[i].id > s[k].id
            \/ k = i + 1 /\ s[i].op = "copy" /\ s[k].op = "remove" /\ s[i].id = s[k].id
Visits(s) ==
    \A x \in visited : live[x] = NoGoal \/ \E i \in DOMAIN s : s[i].op \in {"copy", "remove"} /\ s[i].id = x
Taking == (\A i \in DOMAIN stack : TakeOK(stack, i)) /\ Downward(stack) /\ Visits(stack)
ArchiveOK(s, i) ==
    /\ s[i].op \in ArchiveOps
    /\ s[i].op = "copy" => i + 1 \in DOMAIN s /\ Stands(s, i + 1, "remove", s[i].id)
    /\ s[i].op = "remove" =>
         archive[s[i].id] = live[s[i].id] \/ (i > 1 /\ Stands(s, i - 1, "copy", s[i].id))
    /\ s[i].op = "mark" =>
         \/ live[s[i].id] = NoGoal /\ archive[s[i].id] # NoGoal
         \/ i > 1 /\ Stands(s, i - 1, "remove", s[i].id)
Archiving == Taking /\ \A i \in DOMAIN stack : ArchiveOK(stack, i)
DeleteOK(s, i) ==
    /\ s[i].op \in DeleteOps
    /\ s[i].op \in {"remove", "rmArchive"} => s[i].id \in removed
    /\ s[i].op = "remove" =>
         \A c \in Kids(live[s[i].id]) : c \in removed \/ Over(s, i, {"delete"}, c)
Deleting == Taking /\ \A i \in DOMAIN stack : DeleteOK(stack, i)

TreeInv == TreeTyped /\ FilesInv /\ (Growing \/ Pruning \/ Archiving \/ Deleting)

\* A push replaces the top: what was below moves, in its order.
Pushed(s, fs, t) ==
    /\ Len(t) = Len(fs) + Len(s) - 1
    /\ \A i \in 1 .. Len(fs) : t[i] = fs[i]
    /\ \A i \in 2 .. Len(s) : t[i + Len(fs) - 1] = s[i]

LEMMA PushShape ==
  ASSUME NEW F, NEW s \in Seq(F), s # <<>>, NEW fs \in Seq(F)
  PROVE  /\ fs \o Tail(s) \in Seq(F) /\ Len(s) >= 1 /\ Head(s) = s[1]
         /\ Pushed(s, fs, fs \o Tail(s))
  <1>1. Len(s) \in Nat /\ Len(s) >= 1 /\ Head(s) = s[1]
    OBVIOUS
  <1>2. Tail(s) \in Seq(F) /\ Len(Tail(s)) = Len(s) - 1 /\ \A i \in 1 .. Len(s) - 1 : Tail(s)[i] = s[i + 1]
    BY <1>1
  <1>3. fs \o Tail(s) \in Seq(F) /\ Len(fs \o Tail(s)) = Len(fs) + Len(s) - 1
    BY <1>1, <1>2
  <1>4. ASSUME NEW i \in 1 .. Len(fs) PROVE (fs \o Tail(s))[i] = fs[i]
    BY <1>1, <1>2
  <1>5. ASSUME NEW i \in 2 .. Len(s) PROVE (fs \o Tail(s))[i + Len(fs) - 1] = s[i]
    <2> DEFINE k == i + Len(fs) - 1
    <2>1. Len(fs) \in Nat /\ k \in Len(fs) + 1 .. Len(fs) + Len(Tail(s)) /\ k - Len(fs) = i - 1
      BY <1>1, <1>2
    <2>2. (fs \o Tail(s))[k] = Tail(s)[k - Len(fs)]
      BY <1>2, <2>1
    <2> QED
      BY <1>1, <1>2, <2>1, <2>2
  <1> QED
    BY <1>1, <1>3, <1>4, <1>5 DEF Pushed

\* Every place after a push is one of the new frames or an old one.
LEMMA PushPlace ==
  ASSUME NEW F, NEW s \in Seq(F), NEW fs \in Seq(F), NEW t \in Seq(F), Pushed(s, fs, t),
         NEW k \in DOMAIN t, Len(s) >= 1
  PROVE  \/ k \in 1 .. Len(fs) /\ t[k] = fs[k]
         \/ \E i \in 2 .. Len(s) : k = i + Len(fs) - 1 /\ t[k] = s[i]
  <1>1. Len(s) \in Nat /\ Len(fs) \in Nat /\ k \in 1 .. Len(t) /\ Len(t) = Len(fs) + Len(s) - 1
    BY DEF Pushed
  <1>2. CASE k <= Len(fs)
    BY <1>1, <1>2 DEF Pushed
  <1>3. CASE k > Len(fs)
    <2> DEFINE i == k - Len(fs) + 1
    <2>1. i \in 2 .. Len(s) /\ k = i + Len(fs) - 1
      BY <1>1, <1>3
    <2> HIDE DEF i
    <2>2. t[k] = s[i]
      BY <2>1 DEF Pushed
    <2> QED
      BY <2>1, <2>2
  <1> QED
    BY <1>1, <1>2, <1>3

\* What was below the top and over a frame is still over it.
LEMMA OverKept ==
  ASSUME NEW F, NEW s \in Seq(F), NEW fs \in Seq(F), NEW t \in Seq(F), Pushed(s, fs, t),
         NEW i \in 2 .. Len(s), NEW kinds, NEW x, Over(s, i, kinds, x)
  PROVE  (s[1].op \in kinds /\ s[1].id = x) \/ Over(t, i + Len(fs) - 1, kinds, x)
  <1>1. Len(s) \in Nat /\ Len(fs) \in Nat
    OBVIOUS
  <1>2. PICK j \in 1 .. i - 1 : s[j].op \in kinds /\ s[j].id = x
    BY DEF Over
  <1>3. CASE j = 1
    BY <1>2, <1>3
  <1>4. CASE j # 1
    <2> DEFINE k == j + Len(fs) - 1
    <2>1. j \in 2 .. Len(s) /\ k \in 1 .. (i + Len(fs) - 1) - 1
      BY <1>1, <1>2, <1>4
    <2>2. t[k] = s[j]
      BY <2>1 DEF Pushed
    <2> QED
      BY <1>2, <2>1, <2>2 DEF Over
  <1> QED
    BY <1>3, <1>4

\* What is pushed is over all that was below.
LEMMA OverNew ==
  ASSUME NEW F, NEW s \in Seq(F), NEW fs \in Seq(F), NEW t \in Seq(F), Pushed(s, fs, t),
         NEW i \in 2 .. Len(s), NEW j \in 1 .. Len(fs), NEW kinds, fs[j].op \in kinds
  PROVE  Over(t, i + Len(fs) - 1, kinds, fs[j].id)
  <1>1. Len(s) \in Nat /\ Len(fs) \in Nat /\ j \in 1 .. (i + Len(fs) - 1) - 1
    OBVIOUS
  <1>2. t[j] = fs[j]
    BY DEF Pushed
  <1> QED
    BY <1>1, <1>2 DEF Over

LEMMA AwaitedKept ==
  ASSUME NEW F, NEW s \in Seq(F), NEW fs \in Seq(F), NEW t \in Seq(F), Pushed(s, fs, t),
         NEW x, NEW p, Awaited(s, x, p), s[1].op # "link" \/ s[1].id # p \/ x \notin Ran(s[1].kids)
  PROVE  Awaited(t, x, p)
  <1>1. Len(s) \in Nat /\ Len(fs) \in Nat
    OBVIOUS
  <1>2. PICK j \in DOMAIN s : s[j].op = "link" /\ s[j].id = p /\ x \in Ran(s[j].kids)
    BY DEF Awaited
  <1>3. j # 1 /\ j \in 1 .. Len(s)
    BY <1>2
  <1> DEFINE k == j + Len(fs) - 1
  <1>4. j \in 2 .. Len(s) /\ k \in 1 .. Len(t)
    BY <1>1, <1>3 DEF Pushed
  <1>5. t[k] = s[j]
    BY <1>4 DEF Pushed
  <1> QED
    BY <1>2, <1>4, <1>5 DEF Awaited

LEMMA PendingKept ==
  ASSUME NEW F, NEW s \in Seq(F), NEW fs \in Seq(F), NEW t \in Seq(F), Pushed(s, fs, t),
         NEW i \in 2 .. Len(s), NEW x, Pending(s, i, x)
  PROVE  (s[1].op = "link" /\ x \in Ran(s[1].kids)) \/ Pending(t, i + Len(fs) - 1, x)
  <1>1. Len(s) \in Nat /\ Len(fs) \in Nat
    OBVIOUS
  <1>2. PICK j \in 1 .. i - 1 : s[j].op = "link" /\ x \in Ran(s[j].kids)
    BY DEF Pending
  <1>3. CASE j = 1
    BY <1>2, <1>3
  <1>4. CASE j # 1
    <2> DEFINE k == j + Len(fs) - 1
    <2>1. j \in 2 .. Len(s) /\ k \in 1 .. (i + Len(fs) - 1) - 1
      BY <1>1, <1>2, <1>4
    <2>2. t[k] = s[j]
      BY <2>1 DEF Pushed
    <2> QED
      BY <1>2, <2>1, <2>2 DEF Pending
  <1> QED
    BY <1>3, <1>4

\* What stood next to each other below the top still does.
LEMMA StandsKept ==
  ASSUME NEW F, NEW s \in Seq(F), NEW fs \in Seq(F), NEW t \in Seq(F), Pushed(s, fs, t),
         NEW i \in 2 .. Len(s), NEW j \in {i - 1, i + 1}, j \in 2 .. Len(s), NEW op, NEW x, Stands(s, j, op, x)
  PROVE  LET k == i + Len(fs) - 1
         IN  /\ j = i - 1 => k > 1 /\ Stands(t, k - 1, op, x)
             /\ j = i + 1 => k + 1 \in DOMAIN t /\ Stands(t, k + 1, op, x)
  <1>1. Len(s) \in Nat /\ Len(fs) \in Nat /\ Len(t) = Len(fs) + Len(s) - 1 /\ DOMAIN t = 1 .. Len(t)
    BY DEF Pushed
  <1>2. t[j + Len(fs) - 1] = s[j]
    BY DEF Pushed
  <1>3. CASE j = i - 1
    <2>1. (i + Len(fs) - 1) - 1 = j + Len(fs) - 1 /\ i + Len(fs) - 1 > 1 /\ j # i + 1
      BY <1>1, <1>3
    <2>2. Stands(t, (i + Len(fs) - 1) - 1, op, x)
      BY <1>2, <2>1 DEF Stands
    <2> QED
      BY <1>3, <2>1, <2>2
  <1>4. CASE j = i + 1
    <2>1. (i + Len(fs) - 1) + 1 = j + Len(fs) - 1 /\ (i + Len(fs) - 1) + 1 \in DOMAIN t /\ j # i - 1
      BY <1>1, <1>4
    <2>2. Stands(t, (i + Len(fs) - 1) + 1, op, x)
      BY <1>2, <2>1 DEF Stands
    <2> QED
      BY <1>4, <2>1, <2>2
  <1> QED
    BY <1>3, <1>4

\* A goal that is edited is a goal.
LEMMA Edits ==
  ASSUME NEW g \in Goal
  PROVE  /\ g # NoGoal /\ g.parent \in 0 .. MaxGoals /\ g.children \in Seq(Ids) /\ g.depth \in 0 .. MaxDepth
         /\ Leaf(g) \in Goal /\ Leaf(g).parent = g.parent /\ Leaf(g).children = g.children
         /\ Leaf(g).depth = g.depth /\ Leaf(g).status = g.status
         /\ \A v \in BOOLEAN : LET h == [Leaf(g) EXCEPT !.validated = v]
                               IN  /\ h \in Goal /\ h.parent = g.parent /\ h.children = g.children
                                   /\ h.depth = g.depth /\ h.status = g.status
         /\ \A st \in Statuses : LET h == [g EXCEPT !.status = st]
                                 IN  /\ h \in Goal /\ h.parent = g.parent /\ h.children = g.children
                                     /\ h.depth = g.depth /\ h.status = st
         /\ \A ks \in Seq(Ids) : LET h == [g EXCEPT !.children = ks]
                                 IN  /\ h \in Goal /\ h.parent = g.parent /\ h.children = ks
                                     /\ h.depth = g.depth /\ h.status = g.status
  <1>1. g # NoGoal
    BY NoGoalAssumption
  <1>2. /\ g.parent \in 0 .. MaxGoals /\ g.children \in Seq(Ids) /\ g.depth \in 0 .. MaxDepth
    BY DEF Goal
  <1>3. /\ Leaf(g) \in Goal /\ Leaf(g).parent = g.parent /\ Leaf(g).children = g.children
        /\ Leaf(g).depth = g.depth /\ Leaf(g).status = g.status
    BY DEF Goal, Leaf
  <1>4. ASSUME NEW h \in Goal, NEW v \in BOOLEAN
        PROVE  /\ [h EXCEPT !.validated = v] \in Goal
               /\ [h EXCEPT !.validated = v].parent = h.parent
               /\ [h EXCEPT !.validated = v].children = h.children
               /\ [h EXCEPT !.validated = v].depth = h.depth
               /\ [h EXCEPT !.validated = v].status = h.status
    BY DEF Goal
  <1>5. ASSUME NEW st \in Statuses
        PROVE  LET h == [g EXCEPT !.status = st]
               IN  /\ h \in Goal /\ h.parent = g.parent /\ h.children = g.children
                   /\ h.depth = g.depth /\ h.status = st
    BY DEF Goal
  <1>6. ASSUME NEW ks \in Seq(Ids)
        PROVE  LET h == [g EXCEPT !.children = ks]
               IN  /\ h \in Goal /\ h.parent = g.parent /\ h.children = ks
                   /\ h.depth = g.depth /\ h.status = g.status
    BY DEF Goal
  <1>7. ASSUME NEW v \in BOOLEAN
        PROVE  LET h == [Leaf(g) EXCEPT !.validated = v]
               IN  /\ h \in Goal /\ h.parent = g.parent /\ h.children = g.children
                   /\ h.depth = g.depth /\ h.status = g.status
    BY <1>3, <1>4
  <1> QED
    BY <1>1, <1>2, <1>3, <1>5, <1>6, <1>7

\* What is loaded is one of the two copies.
LEMMA Loads ==
  ASSUME TreeTyped, NEW x \in Ids
  PROVE  /\ live[x] \in Goal \union {NoGoal} /\ archive[x] \in Goal \union {NoGoal}
         /\ LoadGoal(x) = NoGoal <=> Gone(x)
         /\ LoadGoal(x) # NoGoal => LoadGoal(x) \in Goal /\ LoadGoal(x) \in Copies(x)
         /\ \A g \in Copies(x) : g \in Goal /\ Kids(g) \subseteq Ids /\ Kids(g) \subseteq Lists(x)
  <1>1. live[x] \in Goal \union {NoGoal} /\ archive[x] \in Goal \union {NoGoal}
    BY DEF TreeTyped
  <1>2. LoadGoal(x) = NoGoal <=> Gone(x)
    BY DEF LoadGoal, Gone
  <1>3. LoadGoal(x) # NoGoal => LoadGoal(x) \in Goal /\ LoadGoal(x) \in Copies(x)
    BY <1>1 DEF LoadGoal, Copies
  <1>4. ASSUME NEW g \in Copies(x) PROVE g \in Goal /\ Kids(g) \subseteq Ids /\ Kids(g) \subseteq Lists(x)
    <2>1. g \in Goal
      BY <1>1 DEF Copies
    <2>2. g.children \in Seq(Ids)
      BY <2>1, Edits
    <2>3. \A i \in DOMAIN g.children : g.children[i] \in Ids
      BY <2>2
    <2>4. Kids(g) \subseteq Lists(x)
      BY DEF Lists
    <2> QED
      BY <2>1, <2>3, <2>4 DEF Kids, Ran
  <1> QED
    BY <1>1, <1>2, <1>3, <1>4

\* The root and what is near a live goal are listed by no archived one.
NotBelow(x) == \A q \in Ids : live[q] = NoGoal /\ archive[q] # NoGoal => x \notin Kids(archive[q])

LEMMA NearNotBelow ==
  ASSUME TreeTyped, OneList, BottomUp, NEW x \in Ids, Near(x)
  PROVE  NotBelow(x)
  <1> SUFFICES ASSUME NEW q \in Ids, live[q] = NoGoal, archive[q] # NoGoal, x \in Kids(archive[q])
               PROVE  FALSE
    BY DEF NotBelow
  <1>1. live[x] = NoGoal
    BY DEF BottomUp
  <1>2. PICK p \in Ids : live[p] # NoGoal /\ x \in Kids(live[p])
    BY <1>1 DEF Near
  <1>3. x \in Lists(p) /\ x \in Lists(q) /\ p # q
    BY <1>2, Loads DEF Copies
  <1> QED
    BY <1>3 DEF OneList

LEMMA RootNotBelow ==
  ASSUME TreeTyped, Grounded
  PROVE  NotBelow(Root)
  <1> SUFFICES ASSUME NEW q \in Ids, archive[q] # NoGoal, Root \in Kids(archive[q]) PROVE FALSE
    BY DEF NotBelow
  <1>1. archive[q] \in Copies(q)
    BY DEF Copies
  <1>2. q < Root
    BY <1>1 DEF Grounded
  <1> QED
    BY <1>2 DEF Ids, Root

\* Whoever loads a goal finds what it found before, as far as the tree goes.
SameLoads ==
    \A x \in Ids :
        /\ LoadGoal(x) = NoGoal <=> LoadGoal(x)' = NoGoal
        /\ LoadGoal(x) # NoGoal =>
             /\ LoadGoal(x)'.parent = LoadGoal(x).parent /\ LoadGoal(x)'.children = LoadGoal(x).children
             /\ x # Root /\ LoadGoal(x)'.status = "active" => LoadGoal(x).status = "active"

LEMMA ListedKept ==
  ASSUME TreeTyped, Grounded, Listed, SameLoads, removed \subseteq removed', cut => cut',
         \A x, p : Awaited(stack, x, p) => Awaited(stack', x, p)
  PROVE  Listed'
  <1> SUFFICES ASSUME ~cut', NEW x \in Ids \ (removed' \union {Root}),
                      LoadGoal(x)' # NoGoal, LoadGoal(x)'.status = "active",
                      LoadGoal(LoadGoal(x).parent)' # NoGoal
               PROVE  \/ x \in Kids(LoadGoal(LoadGoal(x).parent)')
                      \/ Awaited(stack', x, LoadGoal(x)'.parent)
    BY DEF Listed, Reached
  <1> DEFINE p == LoadGoal(x).parent
  <1>1. LoadGoal(x) # NoGoal /\ LoadGoal(x).status = "active" /\ LoadGoal(x)'.parent = p
    BY DEF SameLoads
  <1>2. p \in Ids
    <2>1. LoadGoal(x) \in Goal /\ LoadGoal(x) \in Copies(x)
      BY <1>1, Loads
    <2>2. p \in 0 .. MaxGoals
      BY <2>1 DEF Goal
    <2>3. p # 0
      BY <2>1 DEF Grounded
    <2> QED
      BY <2>2, <2>3, TreeAssumption DEF Ids
  <1>3. LoadGoal(LoadGoal(x).parent)' = LoadGoal(p)'
    BY <1>1 DEF LoadGoal
  <1>4. LoadGoal(p) # NoGoal /\ Kids(LoadGoal(p)') = Kids(LoadGoal(p))
    BY <1>2, <1>3 DEF SameLoads, Kids
  <1>5. x \in Kids(LoadGoal(p)) \/ Awaited(stack, x, p)
    BY <1>1, <1>4 DEF Listed, Reached
  <1> QED
    BY <1>1, <1>3, <1>4, <1>5

\* Every copy there is comes from one there was, with its parent and no new child.
Derived ==
    \A y \in Ids : \A h \in Copies(y)' : \E g \in Copies(y) : h.parent = g.parent /\ Kids(h) \subseteq Kids(g)

LEMMA GroundedKept ==
  ASSUME TreeTyped, Grounded, OneList, Derived, used' \in Nat, used <= used', removed \subseteq removed',
         \A y \in Ids : Gone(y)' => Gone(y) \/ y \in removed'
  PROVE  Grounded' /\ \A p, q \in Ids : p # q => Lists(p)' \intersect Lists(q)' = {}
  <1>1. ASSUME NEW x \in Ids, NEW h \in Copies(x)'
        PROVE  /\ x <= used' /\ h.parent < x /\ (x # Root => h.parent # 0)
               /\ \A c \in Kids(h) : x < c /\ c <= used' /\ (Gone(c)' => c \in removed')
    <2>1. PICK g \in Copies(x) : h.parent = g.parent /\ Kids(h) \subseteq Kids(g)
      BY DEF Derived
    <2>2. /\ x <= used /\ g.parent < x /\ (x # Root => g.parent # 0)
          /\ \A c \in Kids(g) : x < c /\ c <= used /\ (Gone(c) => c \in removed)
      BY DEF Grounded
    <2>3. Kids(g) \subseteq Ids /\ Ids \subseteq Nat /\ used \in Ids
      BY Loads DEF Ids, TreeTyped
    <2>4. x <= used'
      BY <2>2, <2>3
    <2>5. ASSUME NEW c \in Kids(h) PROVE x < c /\ c <= used' /\ (Gone(c)' => c \in removed')
      <3>1. c \in Ids /\ x < c /\ c <= used /\ (Gone(c) => c \in removed)
        BY <2>1, <2>2, <2>3
      <3>2. c <= used'
        BY <2>3, <3>1
      <3>3. Gone(c)' => c \in removed'
        BY <3>1
      <3> QED
        BY <3>1, <3>2, <3>3
    <2> QED
      BY <2>1, <2>2, <2>4, <2>5
  <1>2. ASSUME NEW x \in Ids PROVE Lists(x)' \subseteq Lists(x)
    <2> SUFFICES ASSUME NEW h \in Copies(x)', NEW c \in Kids(h) PROVE c \in Lists(x)
      BY DEF Lists
    <2>1. PICK g \in Copies(x) : Kids(h) \subseteq Kids(g)
      BY DEF Derived
    <2> QED
      BY <2>1 DEF Lists
  <1>3. Grounded'
    BY <1>1, Zenon DEF Grounded
  <1>4. ASSUME NEW p \in Ids, NEW q \in Ids, p # q PROVE Lists(p)' \intersect Lists(q)' = {}
    BY <1>2, <1>4 DEF OneList
  <1> QED
    BY <1>3, <1>4

\* A save.
LEMMA Saves ==
  ASSUME TreeTyped, NEW x \in Ids, NEW g \in Goal, SaveGoal(x, g)
  PROVE  /\ live' \in [Ids -> Goal \union {NoGoal}] /\ archive' \in [Ids -> Goal \union {NoGoal}]
         /\ side' \in [Ids -> {"none", "live", "both", "archived"}]
         /\ live'[x] = g /\ g # NoGoal /\ archive' = archive /\ \A y \in Ids : y # x => live'[y] = live[y]
         /\ LoadGoal(x)' = g /\ \A y \in Ids : y # x => LoadGoal(y)' = LoadGoal(y)
         /\ \A y \in Ids : y # x => (Gone(y)' <=> Gone(y)) /\ Copies(y)' = Copies(y) /\ Lists(y)' = Lists(y)
         /\ ~Gone(x)' /\ Copies(x)' = {g, archive[x]} \ {NoGoal}
  <1>1. g # NoGoal
    BY Edits
  <1>2. /\ live' = [live EXCEPT ![x] = g] /\ archive' = archive /\ side' = side
        /\ live \in [Ids -> Goal \union {NoGoal}]
    BY DEF SaveGoal, TreeTyped
  <1>3. live' \in [Ids -> Goal \union {NoGoal}] /\ live'[x] = g /\ \A y \in Ids : y # x => live'[y] = live[y]
    BY <1>2
  <1>4. LoadGoal(x)' = g /\ ~Gone(x)' /\ Copies(x)' = {g, archive[x]} \ {NoGoal}
    BY <1>1, <1>2, <1>3 DEF LoadGoal, Gone, Copies
  <1>5. ASSUME NEW y \in Ids, y # x
        PROVE  LoadGoal(y)' = LoadGoal(y) /\ (Gone(y)' <=> Gone(y)) /\ Copies(y)' = Copies(y) /\ Lists(y)' = Lists(y)
    BY <1>2, <1>3, <1>5 DEF LoadGoal, Gone, Copies, Lists
  <1> QED
    BY <1>1, <1>2, <1>3, <1>4, <1>5 DEF TreeTyped

LEMMA SaveSame ==
  ASSUME TreeTyped, Grounded, OneList, BottomUp, NEW x \in Ids, NEW g \in Goal, SaveGoal(x, g),
         LoadGoal(x) # NoGoal, NotBelow(x), g.parent = LoadGoal(x).parent, g.children = LoadGoal(x).children,
         x # Root /\ g.status = "active" => LoadGoal(x).status = "active",
         used' \in Nat, used <= used', removed \subseteq removed'
  PROVE  Grounded' /\ OneList' /\ BottomUp' /\ SameLoads
  <1>1. Kids(g) = Kids(LoadGoal(x))
    BY DEF Kids
  <1>2. LoadGoal(x) \in Copies(x)
    BY Loads
  <1>3. Derived
    <2> SUFFICES ASSUME NEW y \in Ids, NEW h \in Copies(y)'
                 PROVE  \E k \in Copies(y) : h.parent = k.parent /\ Kids(h) \subseteq Kids(k)
      BY DEF Derived
    <2>1. CASE y = x /\ h = g
      BY <1>1, <1>2, <2>1
    <2>2. CASE y = x /\ h # g
      <3>1. h \in Copies(x)
        BY <2>2, Saves DEF Copies
      <3> QED
        BY <2>2, <3>1
    <2>3. CASE y # x
      <3>1. h \in Copies(y)
        BY <2>3, Saves
      <3> QED
        BY <3>1
    <2> QED
      BY <2>1, <2>2, <2>3
  <1>4. \A y \in Ids : Gone(y)' => Gone(y)
    BY Saves
  <1>5. Grounded' /\ \A p, q \in Ids : p # q => Lists(p)' \intersect Lists(q)' = {}
    BY <1>3, <1>4, GroundedKept
  <1>6. ASSUME NEW p \in Ids, live'[p] # NoGoal, archive'[p] # NoGoal
        PROVE  Kids(archive'[p]) \subseteq Kids(live'[p])
    <2>1. CASE p # x
      BY <1>6, <2>1, Saves DEF OneList
    <2>2. CASE p = x /\ live[x] # NoGoal
      <3>1. Kids(archive[x]) \subseteq Kids(live[x]) /\ LoadGoal(x) = live[x]
        BY <1>6, <2>2, Saves DEF OneList, LoadGoal
      <3> QED
        BY <1>1, <2>2, <3>1, Saves
    <2>3. CASE p = x /\ live[x] = NoGoal
      <3>1. LoadGoal(x) = archive[x]
        BY <2>3 DEF LoadGoal
      <3> QED
        BY <1>1, <2>3, <3>1, Saves
    <2> QED
      BY <2>1, <2>2, <2>3
  <1>7. ASSUME NEW y \in Ids, live'[y] = NoGoal, archive'[y] # NoGoal, NEW c \in Kids(archive'[y])
        PROVE  live'[c] = NoGoal
    <2>1. y # x /\ live[y] = NoGoal /\ archive'[y] = archive[y]
      BY <1>7, Saves
    <2>2. live[c] = NoGoal /\ c # x
      BY <1>7, <2>1 DEF BottomUp, NotBelow
    <2>3. c \in Ids
      BY <1>7, <2>1, Loads DEF Copies
    <2> QED
      BY <2>2, <2>3, Saves
  <1>8. SameLoads
    <2> SUFFICES ASSUME NEW y \in Ids
                 PROVE  /\ LoadGoal(y) = NoGoal <=> LoadGoal(y)' = NoGoal
                        /\ LoadGoal(y) # NoGoal =>
                             /\ LoadGoal(y)'.parent = LoadGoal(y).parent
                             /\ LoadGoal(y)'.children = LoadGoal(y).children
                             /\ y # Root /\ LoadGoal(y)'.status = "active" => LoadGoal(y).status = "active"
      BY DEF SameLoads
    <2> QED
      BY Saves
  <1> QED
    BY <1>5, <1>6, <1>7, <1>8 DEF OneList, BottomUp

\* A child that is written: nothing knew it but the frame that will list it.
LEMMA SaveNew ==
  ASSUME TreeTyped, FilesInv, NEW x \in Ids, NEW p \in Ids, NEW g \in Goal, SaveGoal(x, g), Gone(x),
         g.parent = p, g.children = <<>>, p < x, x <= used,
         \A q \in Ids : x \notin Lists(q) /\ \A h \in Copies(q) : h.parent # x,
         Awaited(stack', x, p), \A y, q : Awaited(stack, y, q) => Awaited(stack', y, q),
         used' = used, removed' = removed, cut' = cut
  PROVE  FilesInv'
  <1> USE DEF FilesInv
  <1>1. Kids(g) = {} /\ Copies(x)' = {g} /\ Lists(x)' = {} /\ live[x] = NoGoal /\ archive[x] = NoGoal
    <2>1. Kids(g) = {}
      BY DEF Kids, Ran
    <2>2. Copies(x)' = {g}
      BY Saves DEF Gone
    <2> QED
      BY <2>1, <2>2 DEF Lists, Gone
  <1>2. Grounded'
    <2> SUFFICES ASSUME NEW y \in Ids, NEW h \in Copies(y)'
                 PROVE  /\ y <= used /\ h.parent < y /\ (y # Root => h.parent # 0)
                        /\ \A c \in Kids(h) : y < c /\ c <= used /\ (Gone(c)' => c \in removed)
      BY DEF Grounded
    <2>1. CASE y = x
      BY <1>1, <2>1 DEF Ids
    <2>2. CASE y # x
      <3>1. h \in Copies(y)
        BY <2>2, Saves
      <3>2. \A c \in Kids(h) : c \in Ids /\ (Gone(c)' => Gone(c))
        BY <3>1, Loads, Saves
      <3> QED
        BY <3>1, <3>2 DEF Grounded
    <2> QED
      BY <2>1, <2>2
  <1>3. ASSUME NEW q \in Ids, NEW r \in Ids, q # r PROVE Lists(q)' \intersect Lists(r)' = {}
    BY <1>1, <1>3, Saves DEF OneList
  <1>4. ASSUME NEW q \in Ids, live'[q] # NoGoal, archive'[q] # NoGoal
        PROVE  Kids(archive'[q]) \subseteq Kids(live'[q])
    BY <1>1, <1>4, Saves DEF OneList
  <1>5. ASSUME NEW y \in Ids, live'[y] = NoGoal, archive'[y] # NoGoal, NEW c \in Kids(archive'[y])
        PROVE  live'[c] = NoGoal
    <2>1. y # x /\ live[y] = NoGoal /\ archive'[y] = archive[y] /\ archive[y] \in Copies(y)
      BY <1>5, Saves DEF Copies
    <2>2. live[c] = NoGoal /\ c \in Lists(y) /\ c \in Ids
      BY <1>5, <2>1, Loads DEF BottomUp
    <2> QED
      BY <2>2, Saves
  <1>6. Listed'
    <2> SUFFICES ASSUME ~cut, NEW y \in Ids \ (removed \union {Root}), LoadGoal(y)' # NoGoal,
                        LoadGoal(y)'.status = "active", LoadGoal(LoadGoal(y).parent)' # NoGoal
                 PROVE  \/ y \in Kids(LoadGoal(LoadGoal(y).parent)')
                        \/ Awaited(stack', y, LoadGoal(y)'.parent)
      BY DEF Listed, Reached
    <2>1. CASE y = x
      BY <2>1, Saves
    <2>2. CASE y # x
      <3>1. LoadGoal(y)' = LoadGoal(y) /\ LoadGoal(y) \in Goal /\ LoadGoal(y) \in Copies(y)
        BY <2>2, Saves, Loads
      <3>2. PICK r \in Ids : r = LoadGoal(y).parent
        <4>1. LoadGoal(y).parent \in 0 .. MaxGoals
          BY <3>1 DEF Goal
        <4>2. LoadGoal(y).parent # 0
          BY <3>1 DEF Grounded
        <4> QED
          BY <4>1, <4>2, TreeAssumption DEF Ids
      <3>3. r # x
        BY <3>1, <3>2
      <3>4. LoadGoal(LoadGoal(y).parent)' = LoadGoal(r)'
        BY <3>1, <3>2 DEF LoadGoal
      <3>5. LoadGoal(r)' = LoadGoal(r)
        BY <3>3, Saves
      <3>6. y \in Kids(LoadGoal(r)) \/ Awaited(stack, y, r)
        BY <3>1, <3>2, <3>4, <3>5 DEF Listed, Reached
      <3> QED
        BY <3>1, <3>2, <3>4, <3>5, <3>6
    <2> QED
      BY <2>1, <2>2
  <1> QED
    BY <1>2, <1>3, <1>4, <1>5, <1>6 DEF OneList, BottomUp

\* The members of a list without one are its members without that one.
LEMMA WithoutIs ==
  ASSUME NEW F, NEW s \in Seq(F), NEW x
  PROVE  Without(s, x) \in Seq(F) /\ Ran(Without(s, x)) = Ran(s) \ {x}
  <1> DEFINE stays == {i \in DOMAIN s : s[i] # x}
             before(i) == {k \in stays : k <= i}
             N == Cardinality(stays)
             nth(j) == CHOOSE i \in stays : Cardinality(before(i)) = j
             rank == [i \in stays |-> Cardinality(before(i))]
  <1>1. DOMAIN s = 1 .. Len(s) /\ Len(s) \in Nat
    OBVIOUS
  <1>2. IsFiniteSet(1 .. Len(s))
    <2>1. 1 \in Int /\ Len(s) \in Int
      BY <1>1
    <2> QED
      BY <2>1, FS_Interval, Zenon
  <1>3. stays \in SUBSET (1 .. Len(s)) /\ \A i \in stays : i \in Int
    BY <1>1
  <1>4. IsFiniteSet(stays)
    BY <1>2, <1>3, FS_Subset, Zenon
  <1>5. N \in Nat
    BY <1>4, FS_CardinalityType, Zenon
  <1>6. ASSUME NEW i \in stays
        PROVE  /\ before(i) \in SUBSET stays /\ IsFiniteSet(before(i)) /\ i \in before(i)
               /\ Cardinality(before(i)) \in 1 .. N
    <2>1. before(i) \in SUBSET stays /\ i \in before(i)
      BY <1>3
    <2>2. IsFiniteSet(before(i)) /\ Cardinality(before(i)) <= N
      BY <1>4, <2>1, FS_Subset, Zenon
    <2>3. Cardinality(before(i)) \in Nat /\ (Cardinality(before(i)) = 0 <=> before(i) = {})
      BY <2>2, FS_CardinalityType, FS_EmptySet, Zenon
    <2>4. Cardinality(before(i)) # 0
      BY <2>1, <2>3, Zenon
    <2> HIDE DEF before, N
    <2> QED
      BY <1>5, <2>1, <2>2, <2>3, <2>4
  <1>7. ASSUME NEW i \in stays, NEW k \in stays, Cardinality(before(i)) = Cardinality(before(k)), i < k
        PROVE  FALSE
    <2>1. before(i) \in SUBSET before(k)
      BY <1>3, <1>7
    <2>2. before(k) = before(i)
      BY <1>6, <1>7, <2>1, FS_Subset, Zenon
    <2>3. k \in before(i)
      BY <1>6, <2>2
    <2> QED
      BY <1>3, <1>7, <2>3
  <1>8. rank \in Injection(stays, 1 .. N)
    <2>1. rank \in [stays -> 1 .. N]
      BY <1>6
    <2>2. ASSUME NEW i \in stays, NEW k \in stays, rank[i] = rank[k] PROVE i = k
      BY <1>3, <1>7, <2>2
    <2> HIDE DEF rank
    <2> QED
      BY <2>1, <2>2 DEF Injection, IsInjective
  <1>9. rank \in Surjection(stays, 1 .. N)
    <2>1. IsFiniteSet(1 .. N) /\ Cardinality(1 .. N) = N
      <3>1. 1 \in Int /\ N \in Int
        BY <1>5
      <3>2. IsFiniteSet(1 .. N) /\ Cardinality(1 .. N) = IF 1 > N THEN 0 ELSE N - 1 + 1
        BY <3>1, FS_Interval, Zenon
      <3> HIDE DEF N
      <3> QED
        BY <1>5, <3>2
    <2> HIDE DEF rank
    <2> QED
      BY <1>8, <2>1, FS_Injection, Zenon
  <1>10. \A j \in 1 .. N : \E i \in stays : Cardinality(before(i)) = j
    <2>1. \A j \in 1 .. N : \E i \in stays : rank[i] = j
      <3> HIDE DEF rank, stays, N
      <3> QED
        BY <1>9 DEF Surjection
    <2> QED
      BY <2>1
  <1>11. ASSUME NEW j \in 1 .. N PROVE nth(j) \in stays
    BY <1>10
  <1>12. ASSUME NEW i \in stays PROVE nth(Cardinality(before(i))) = i
    <2> DEFINE j == Cardinality(before(i))
    <2>1. nth(j) \in stays /\ Cardinality(before(nth(j))) = j
      <3>1. \E k \in stays : Cardinality(before(k)) = j
        OBVIOUS
      <3> QED
        BY <3>1
    <2> DEFINE k == nth(j)
    <2>2. k \in stays /\ Cardinality(before(k)) = Cardinality(before(i))
      BY <2>1
    <2> HIDE DEF k
    <2>3. ~(i < k) /\ ~(k < i) /\ i \in Int /\ k \in Int
      BY <1>3, <1>7, <2>2
    <2>4. k = i
      BY <2>3
    <2> QED
      BY <2>4 DEF k
  <1>13. Without(s, x) = [j \in 1 .. N |-> s[nth(j)]]
    BY DEF Without
  <1> DEFINE w == Without(s, x)
  <1> HIDE DEF N, nth, before
  <1>14. w \in Seq(F) /\ Len(w) = N /\ DOMAIN w = 1 .. N
    <2>1. \A j \in 1 .. N : s[nth(j)] \in F
      BY <1>3, <1>11
    <2>2. w \in [1 .. N -> F]
      BY <1>13, <2>1
    <2> QED
      BY <1>5, <2>2
  <1> HIDE DEF w
  <1>15. ASSUME NEW j \in 1 .. N PROVE w[j] \in Ran(s) \ {x}
    <2>1. w[j] = s[nth(j)] /\ nth(j) \in stays
      BY <1>11, <1>13 DEF w
    <2> QED
      BY <2>1 DEF Ran
  <1>16. ASSUME NEW y \in Ran(s) \ {x} PROVE \E j \in 1 .. N : w[j] = y
    <2>1. PICK i \in DOMAIN s : s[i] = y
      BY DEF Ran
    <2>2. i \in stays
      BY <2>1
    <2>3. Cardinality(before(i)) \in 1 .. N /\ nth(Cardinality(before(i))) = i
      BY <1>6, <1>12, <2>2
    <2>4. w[Cardinality(before(i))] = s[i]
      BY <1>13, <2>3 DEF w
    <2> QED
      BY <2>1, <2>3, <2>4
  <1>17. Ran(w) = {w[j] : j \in 1 .. N}
    BY <1>14 DEF Ran
  <1>18. Ran(w) = Ran(s) \ {x}
    BY <1>15, <1>16, <1>17
  <1> QED
    BY <1>14, <1>18 DEF w

\* A parent that lists the children it was decomposed into.
LEMMA LinkKids ==
  ASSUME NEW a \in Seq(Ids), NEW b \in Seq(Ids)
  PROVE  a \o b \in Seq(Ids) /\ Ran(a \o b) = Ran(a) \union Ran(b)
  <1>1. /\ a \o b \in Seq(Ids) /\ Len(a \o b) = Len(a) + Len(b)
        /\ DOMAIN a = 1 .. Len(a) /\ DOMAIN b = 1 .. Len(b) /\ DOMAIN (a \o b) = 1 .. Len(a) + Len(b)
        /\ Len(a) \in Nat /\ Len(b) \in Nat
    OBVIOUS
  <1>2. ASSUME NEW i \in 1 .. Len(a) PROVE i \in DOMAIN (a \o b) /\ (a \o b)[i] = a[i]
    BY <1>1
  <1>3. ASSUME NEW i \in 1 .. Len(b)
        PROVE  Len(a) + i \in DOMAIN (a \o b) /\ (a \o b)[Len(a) + i] = b[i]
    BY <1>1
  <1>4. ASSUME NEW k \in DOMAIN (a \o b) PROVE (a \o b)[k] \in Ran(a) \union Ran(b)
    <2>1. CASE k <= Len(a)
      <3>1. k \in 1 .. Len(a)
        BY <1>1, <2>1
      <3> QED
        BY <1>1, <1>2, <3>1 DEF Ran
    <2>2. CASE k > Len(a)
      <3> DEFINE i == k - Len(a)
      <3>1. i \in 1 .. Len(b) /\ k = Len(a) + i
        BY <1>1, <2>2
      <3> HIDE DEF i
      <3> QED
        BY <1>1, <1>3, <3>1 DEF Ran
    <2> QED
      BY <1>1, <2>1, <2>2
  <1>5. Ran(a \o b) \subseteq Ran(a) \union Ran(b)
    BY <1>4 DEF Ran
  <1>6. Ran(a) \subseteq Ran(a \o b)
    BY <1>1, <1>2 DEF Ran
  <1>7. Ran(b) \subseteq Ran(a \o b)
    BY <1>1, <1>3 DEF Ran
  <1> QED
    BY <1>1, <1>5, <1>6, <1>7

LEMMA LinkKeeps ==
  ASSUME TreeTyped, FilesInv, NEW x \in Ids, NEW ks \in Seq(Ids), NEW g \in Goal, SaveGoal(x, g),
         live[x] # NoGoal, g.parent = live[x].parent, Kids(g) = Kids(live[x]) \union Ran(ks),
         g.status = live[x].status,
         \A c \in Ran(ks) : x < c /\ c <= used /\ ~Gone(c) /\ \A q \in Ids : c \notin Lists(q),
         \A y, q : Awaited(stack, y, q) => (q = x /\ y \in Ran(ks)) \/ Awaited(stack', y, q),
         used' = used, removed' = removed, cut' = cut
  PROVE  FilesInv'
  <1> USE DEF FilesInv
  <1> DEFINE old == live[x]
  <1>1. old \in Copies(x) /\ LoadGoal(x) = old /\ old \in Goal /\ Lists(x)' \subseteq Lists(x) \union Ran(ks)
    <2>1. old \in Copies(x) /\ LoadGoal(x) = old /\ old \in Goal
      BY Loads DEF Copies, LoadGoal
    <2>2. ASSUME NEW h \in Copies(x)', NEW c \in Kids(h) PROVE c \in Lists(x) \union Ran(ks)
      <3>1. h = g \/ h \in Copies(x)
        BY Saves DEF Copies
      <3> QED
        BY <2>1, <3>1 DEF Lists
    <2> QED
      BY <2>1, <2>2 DEF Lists
  <1>2. \A y \in Ids : Gone(y)' => Gone(y)
    BY Saves
  <1>3. Ran(ks) \subseteq Ids
    <2>1. \A i \in DOMAIN ks : ks[i] \in Ids
      OBVIOUS
    <2> QED
      BY <2>1 DEF Ran
  <1>4. Grounded'
    <2> SUFFICES ASSUME NEW y \in Ids, NEW h \in Copies(y)'
                 PROVE  /\ y <= used /\ h.parent < y /\ (y # Root => h.parent # 0)
                        /\ \A c \in Kids(h) : y < c /\ c <= used /\ (Gone(c)' => c \in removed)
      BY DEF Grounded
    <2>1. CASE h \in Copies(y)
      <3>1. \A c \in Kids(h) : c \in Ids /\ (Gone(c)' => Gone(c))
        BY <1>2, <2>1, Loads
      <3> QED
        BY <2>1, <3>1 DEF Grounded
    <2>2. CASE h \notin Copies(y)
      <3>1. y = x /\ h = g
        BY <2>2, Saves DEF Copies
      <3>2. /\ x <= used /\ old.parent < x /\ (x # Root => old.parent # 0)
            /\ \A c \in Kids(old) : x < c /\ c <= used /\ (Gone(c) => c \in removed)
        BY <1>1 DEF Grounded
      <3>3. Kids(old) \subseteq Ids
        BY <1>1, Loads
      <3>4. ASSUME NEW c \in Kids(g) PROVE x < c /\ c <= used /\ (Gone(c)' => c \in removed)
        BY <1>2, <1>3, <3>2, <3>3
      <3> QED
        BY <3>1, <3>2, <3>4
    <2> QED
      BY <2>1, <2>2
  <1>5. ASSUME NEW p \in Ids, NEW q \in Ids, p # q PROVE Lists(p)' \intersect Lists(q)' = {}
    <2>1. Lists(p) \intersect Lists(q) = {}
      BY <1>5 DEF OneList
    <2>2. CASE p = x
      BY <1>1, <1>5, <2>1, <2>2, Saves
    <2>3. CASE q = x
      BY <1>1, <1>5, <2>1, <2>3, Saves
    <2>4. CASE p # x /\ q # x
      BY <2>1, <2>4, Saves
    <2> QED
      BY <2>2, <2>3, <2>4
  <1>6. ASSUME NEW p \in Ids, live'[p] # NoGoal, archive'[p] # NoGoal
        PROVE  Kids(archive'[p]) \subseteq Kids(live'[p])
    BY <1>6, Saves DEF OneList
  <1>7. ASSUME NEW y \in Ids, live'[y] = NoGoal, archive'[y] # NoGoal, NEW c \in Kids(archive'[y])
        PROVE  live'[c] = NoGoal
    <2>1. y # x /\ live[y] = NoGoal /\ archive'[y] = archive[y] /\ archive[y] \in Copies(y)
      BY <1>7, Saves DEF Copies
    <2>2. live[c] = NoGoal /\ c \in Ids
      BY <1>7, <2>1, Loads DEF BottomUp
    <2>3. c # x
      BY <2>2
    <2> QED
      BY <2>2, <2>3, Saves
  <1>8. Listed'
    <2> SUFFICES ASSUME ~cut, NEW y \in Ids \ (removed \union {Root}), LoadGoal(y)' # NoGoal,
                        LoadGoal(y)'.status = "active", LoadGoal(LoadGoal(y).parent)' # NoGoal
                 PROVE  \/ y \in Kids(LoadGoal(LoadGoal(y).parent)')
                        \/ Awaited(stack', y, LoadGoal(y)'.parent)
      BY DEF Listed, Reached
    <2>1. LoadGoal(y) # NoGoal /\ LoadGoal(y).status = "active" /\ LoadGoal(y)'.parent = LoadGoal(y).parent
      BY <1>1, Saves
    <2>2. LoadGoal(y) \in Goal /\ LoadGoal(y) \in Copies(y)
      BY <2>1, Loads
    <2>3. PICK r \in Ids : r = LoadGoal(y).parent
      <3>1. LoadGoal(y).parent \in 0 .. MaxGoals
        BY <2>2 DEF Goal
      <3>2. LoadGoal(y).parent # 0
        BY <2>2 DEF Grounded
      <3> QED
        BY <3>1, <3>2, TreeAssumption DEF Ids
    <2>4. LoadGoal(LoadGoal(y).parent)' = LoadGoal(r)'
      BY <2>1, <2>3 DEF LoadGoal
    <2>5. LoadGoal(r) # NoGoal /\ Kids(LoadGoal(r)) \subseteq Kids(LoadGoal(r)')
      BY <1>1, <2>4, Saves
    <2>6. y \in Kids(LoadGoal(r)) \/ Awaited(stack, y, r)
      BY <2>1, <2>3, <2>5 DEF Listed, Reached
    <2>7. r = x /\ y \in Ran(ks) => y \in Kids(LoadGoal(r)')
      BY Saves
    <2> QED
      BY <2>1, <2>3, <2>4, <2>5, <2>6, <2>7
  <1> QED
    BY <1>4, <1>5, <1>6, <1>7, <1>8 DEF OneList, BottomUp

\* A parent that no longer lists a cancelled child, while nothing is archived.
LEMMA UnlinkKeeps ==
  ASSUME TreeTyped, FilesInv, NEW x \in Ids, NEW p \in Ids, NEW g \in Goal, SaveGoal(p, g),
         \A y \in Ids : archive[y] = NoGoal, live[p] # NoGoal, p < x,
         live[x] # NoGoal, live[x].status = "cancelled",
         g.parent = live[p].parent, Kids(g) = Kids(live[p]) \ {x}, g.status = live[p].status,
         \A y, q : Awaited(stack, y, q) => Awaited(stack', y, q),
         used' = used, removed' = removed, cut' = cut
  PROVE  FilesInv'
  <1> USE DEF FilesInv
  <1>1. live[p] \in Copies(p) /\ LoadGoal(p) = live[p] /\ LoadGoal(x) = live[x]
    BY DEF Copies, LoadGoal
  <1>2. Derived
    <2> SUFFICES ASSUME NEW y \in Ids, NEW h \in Copies(y)'
                 PROVE  \E k \in Copies(y) : h.parent = k.parent /\ Kids(h) \subseteq Kids(k)
      BY DEF Derived
    <2>1. CASE y = p
      <3>1. h = g
        BY <2>1, Saves
      <3> QED
        BY <1>1, <2>1, <3>1
    <2>2. CASE y # p
      BY <2>2, Saves
    <2> QED
      BY <2>1, <2>2
  <1>3. \A y \in Ids : Gone(y)' => Gone(y)
    BY Saves
  <1>4. Grounded' /\ \A q, r \in Ids : q # r => Lists(q)' \intersect Lists(r)' = {}
    BY <1>2, <1>3, GroundedKept DEF TreeTyped, Ids
  <1>5. \A y \in Ids : archive'[y] = NoGoal
    BY Saves
  <1>6. Listed'
    <2> SUFFICES ASSUME ~cut, NEW y \in Ids \ (removed \union {Root}), LoadGoal(y)' # NoGoal,
                        LoadGoal(y)'.status = "active", LoadGoal(LoadGoal(y).parent)' # NoGoal
                 PROVE  \/ y \in Kids(LoadGoal(LoadGoal(y).parent)')
                        \/ Awaited(stack', y, LoadGoal(y)'.parent)
      BY DEF Listed, Reached
    <2>1. LoadGoal(y) # NoGoal /\ LoadGoal(y).status = "active" /\ LoadGoal(y)'.parent = LoadGoal(y).parent
      BY <1>1, Saves
    <2>2. LoadGoal(y) \in Goal /\ LoadGoal(y) \in Copies(y)
      BY <2>1, Loads
    <2>3. PICK r \in Ids : r = LoadGoal(y).parent
      <3>1. LoadGoal(y).parent \in 0 .. MaxGoals
        BY <2>2 DEF Goal
      <3>2. LoadGoal(y).parent # 0
        BY <2>2 DEF Grounded
      <3> QED
        BY <3>1, <3>2, TreeAssumption DEF Ids
    <2>4. LoadGoal(LoadGoal(y).parent)' = LoadGoal(r)'
      BY <2>1, <2>3 DEF LoadGoal
    <2>5. LoadGoal(r) # NoGoal /\ Kids(LoadGoal(r)) \ {x} \subseteq Kids(LoadGoal(r)')
      BY <1>1, <2>4, Saves
    <2>6. y \in Kids(LoadGoal(r)) \/ Awaited(stack, y, r)
      BY <2>1, <2>3, <2>5 DEF Listed, Reached
    <2>7. y # x
      BY <1>1, <2>1
    <2> QED
      BY <2>1, <2>3, <2>4, <2>5, <2>6, <2>7
  <1> QED
    BY <1>4, <1>5, <1>6 DEF OneList, BottomUp

\* The copy in the archive.
LEMMA CopyKeeps ==
  ASSUME TreeTyped, FilesInv, NEW x \in Ids, live[x] # NoGoal, archive' = [archive EXCEPT ![x] = live[x]],
         live' = live, used' = used, removed' = removed
  PROVE  Grounded' /\ OneList' /\ BottomUp' /\ SameLoads
  <1> USE DEF FilesInv
  <1>1. archive'[x] = live[x] /\ \A y \in Ids : y # x => archive'[y] = archive[y]
    BY DEF TreeTyped
  <1>2. \A y \in Ids : Copies(y)' \subseteq Copies(y) /\ (Gone(y)' => Gone(y)) /\ LoadGoal(y)' = LoadGoal(y)
    BY <1>1 DEF Copies, Gone, LoadGoal
  <1>3. Derived
    BY <1>2 DEF Derived
  <1>4. Grounded' /\ \A p, q \in Ids : p # q => Lists(p)' \intersect Lists(q)' = {}
    BY <1>2, <1>3, GroundedKept DEF TreeTyped, Ids
  <1>5. \A p \in Ids : live'[p] # NoGoal /\ archive'[p] # NoGoal => Kids(archive'[p]) \subseteq Kids(live'[p])
    BY <1>1 DEF OneList
  <1>6. \A y \in Ids : live'[y] = NoGoal /\ archive'[y] # NoGoal => \A c \in Kids(archive'[y]) : live'[c] = NoGoal
    BY <1>1 DEF BottomUp
  <1>7. SameLoads
    BY <1>2 DEF SameLoads
  <1> QED
    BY <1>4, <1>5, <1>6, <1>7 DEF OneList, BottomUp

\* The removal of the original, after its children's.
LEMMA RemoveKeeps ==
  ASSUME TreeTyped, FilesInv, NEW x \in Ids, live[x] # NoGoal, live' = [live EXCEPT ![x] = NoGoal],
         archive' = archive, used' = used, removed' = removed,
         \A c \in Kids(live[x]) : live[c] = NoGoal,
         archive[x] # NoGoal \/ x \in removed
  PROVE  Grounded' /\ OneList' /\ BottomUp'
  <1> USE DEF FilesInv
  <1>1. live'[x] = NoGoal /\ \A y \in Ids : y # x => live'[y] = live[y]
    BY DEF TreeTyped
  <1>2. \A y \in Ids : Copies(y)' \subseteq Copies(y) /\ (Gone(y)' => Gone(y) \/ y \in removed')
    BY <1>1 DEF Copies, Gone
  <1>3. Derived
    BY <1>2 DEF Derived
  <1>4. Grounded' /\ \A p, q \in Ids : p # q => Lists(p)' \intersect Lists(q)' = {}
    BY <1>2, <1>3, GroundedKept DEF TreeTyped, Ids
  <1>5. \A p \in Ids : live'[p] # NoGoal /\ archive'[p] # NoGoal => Kids(archive'[p]) \subseteq Kids(live'[p])
    BY <1>1 DEF OneList
  <1>6. ASSUME NEW y \in Ids, live'[y] = NoGoal, archive'[y] # NoGoal, NEW c \in Kids(archive'[y])
        PROVE  live'[c] = NoGoal
    <2>1. archive[y] \in Copies(y) /\ c \in Ids
      BY <1>6, Loads DEF Copies
    <2>2. CASE y = x
      <3>1. c \in Kids(live[x])
        BY <1>6, <2>2 DEF OneList
      <3>2. live[c] = NoGoal
        BY <3>1
      <3> QED
        BY <1>1, <2>1, <3>2
    <2>3. CASE y # x
      <3>1. live[c] = NoGoal
        BY <1>1, <1>6, <2>3 DEF BottomUp
      <3> QED
        BY <1>1, <2>1, <3>1
    <2> QED
      BY <2>2, <2>3
  <1> QED
    BY <1>4, <1>5, <1>6 DEF OneList, BottomUp

\* An original that is removed with its copy in place, or for good: in the second
\* case with what it lists.
LEMMA RemoveLoads ==
  ASSUME TreeTyped, NEW x \in Ids, live[x] # NoGoal, live' = [live EXCEPT ![x] = NoGoal],
         archive' = archive, archive[x] = live[x]
  PROVE  SameLoads
  <1>1. live'[x] = NoGoal /\ \A y \in Ids : y # x => live'[y] = live[y]
    BY DEF TreeTyped
  <1>2. \A y \in Ids : LoadGoal(y)' = LoadGoal(y)
    BY <1>1 DEF LoadGoal
  <1> QED
    BY <1>2 DEF SameLoads

LEMMA DeleteListed ==
  ASSUME TreeTyped, Grounded, Listed, NEW x \in Ids, x \in removed, removed' = removed, cut' = cut,
         \A y \in Ids : y # x => LoadGoal(y)' = LoadGoal(y),
         LoadGoal(x) = NoGoal => LoadGoal(x)' = NoGoal,
         LoadGoal(x)' \in {LoadGoal(x), NoGoal} \/ Kids(LoadGoal(x)) \subseteq removed,
         \A y, p : ~Awaited(stack, y, p)
  PROVE  Listed'
  <1> SUFFICES ASSUME ~cut, NEW y \in Ids \ (removed \union {Root}), LoadGoal(y)' # NoGoal,
                      LoadGoal(y)'.status = "active", LoadGoal(LoadGoal(y).parent)' # NoGoal
               PROVE  y \in Kids(LoadGoal(LoadGoal(y).parent)')
    BY DEF Listed, Reached
  <1>1. y # x /\ LoadGoal(y)' = LoadGoal(y)
    OBVIOUS
  <1>2. LoadGoal(y) \in Goal /\ LoadGoal(y) \in Copies(y)
    BY <1>1, Loads
  <1>3. PICK r \in Ids : r = LoadGoal(y).parent
    <2>1. LoadGoal(y).parent \in 0 .. MaxGoals
      BY <1>2 DEF Goal
    <2>2. LoadGoal(y).parent # 0
      BY <1>2 DEF Grounded
    <2> QED
      BY <2>1, <2>2, TreeAssumption DEF Ids
  <1>4. LoadGoal(LoadGoal(y).parent)' = LoadGoal(r)'
    BY <1>1, <1>3 DEF LoadGoal
  <1>5. LoadGoal(r) = NoGoal => r = x /\ Gone(x)
    <2>1. r # x => LoadGoal(r) # NoGoal
      BY <1>4
    <2> QED
      BY <2>1, Loads
  <1>6. CASE r # x
    <2>1. LoadGoal(r)' = LoadGoal(r)
      BY <1>6
    <2> QED
      BY <1>1, <1>3, <1>4, <2>1 DEF Listed, Reached
  <1>7. CASE r = x /\ LoadGoal(x) # NoGoal
    <2>1. y \in Kids(LoadGoal(x))
      BY <1>1, <1>3, <1>7 DEF Listed, Reached
    <2>2. LoadGoal(x)' = LoadGoal(x)
      BY <1>4, <1>7, <2>1
    <2> QED
      BY <1>4, <1>7, <2>1, <2>2
  <1>8. CASE r = x /\ LoadGoal(x) = NoGoal
    BY <1>4, <1>8
  <1> QED
    BY <1>6, <1>7, <1>8

\* The status of an archived copy.
LEMMA MarkKeeps ==
  ASSUME TreeTyped, FilesInv, NEW x \in Ids, archive[x] # NoGoal,
         archive' = [archive EXCEPT ![x].status = "archived"],
         live' = live, used' = used, removed' = removed
  PROVE  Grounded' /\ OneList' /\ BottomUp' /\ SameLoads /\ archive'[x] # NoGoal
         /\ archive' \in [Ids -> Goal \union {NoGoal}] /\ \A y \in Ids : y # x => archive'[y] = archive[y]
  <1> USE DEF FilesInv
  <1> DEFINE g == [archive[x] EXCEPT !.status = "archived"]
  <1>1. archive[x] \in Goal /\ archive \in [Ids -> Goal \union {NoGoal}]
    BY DEF TreeTyped
  <1>2. "archived" \in Statuses
    BY DEF Statuses
  <1>3. g \in Goal /\ g.parent = archive[x].parent /\ g.children = archive[x].children /\ g.status = "archived"
    BY <1>1, <1>2, Edits
  <1>4. archive'[x] = g /\ (\A y \in Ids : y # x => archive'[y] = archive[y])
    BY <1>1
  <1>5. archive' = [archive EXCEPT ![x] = g]
    BY <1>1
  <1> HIDE DEF g
  <1>6. g # NoGoal /\ Kids(g) = Kids(archive[x])
    BY <1>3, Edits DEF Kids
  <1>7. archive' \in [Ids -> Goal \union {NoGoal}]
    BY <1>1, <1>3, <1>5
  <1>8. \A y \in Ids : (Gone(y)' <=> Gone(y))
    BY <1>4, <1>6 DEF Gone
  <1>9. Derived
    <2> SUFFICES ASSUME NEW y \in Ids, NEW h \in Copies(y)'
                 PROVE  \E k \in Copies(y) : h.parent = k.parent /\ Kids(h) \subseteq Kids(k)
      BY DEF Derived
    <2>1. CASE h \in Copies(y)
      BY <2>1
    <2>2. CASE h \notin Copies(y)
      <3>1. y = x /\ h = g /\ archive[x] \in Copies(x)
        BY <1>4, <2>2 DEF Copies
      <3> QED
        BY <1>3, <1>6, <3>1
    <2> QED
      BY <2>1, <2>2
  <1>10. Grounded' /\ \A p, q \in Ids : p # q => Lists(p)' \intersect Lists(q)' = {}
    BY <1>8, <1>9, GroundedKept DEF TreeTyped, Ids
  <1>11. \A p \in Ids : live'[p] # NoGoal /\ archive'[p] # NoGoal => Kids(archive'[p]) \subseteq Kids(live'[p])
    BY <1>4, <1>6 DEF OneList
  <1>12. \A y \in Ids : live'[y] = NoGoal /\ archive'[y] # NoGoal => \A c \in Kids(archive'[y]) : live'[c] = NoGoal
    BY <1>4, <1>6 DEF BottomUp
  <1>13. SameLoads
    <2> SUFFICES ASSUME NEW y \in Ids
                 PROVE  /\ LoadGoal(y) = NoGoal <=> LoadGoal(y)' = NoGoal
                        /\ LoadGoal(y) # NoGoal =>
                             /\ LoadGoal(y)'.parent = LoadGoal(y).parent
                             /\ LoadGoal(y)'.children = LoadGoal(y).children
                             /\ y # Root /\ LoadGoal(y)'.status = "active" => LoadGoal(y).status = "active"
      BY DEF SameLoads
    <2>1. CASE live[y] # NoGoal \/ y # x
      <3>1. LoadGoal(y)' = LoadGoal(y)
        BY <1>4, <2>1 DEF LoadGoal
      <3> QED
        BY <3>1
    <2>2. CASE live[y] = NoGoal /\ y = x
      <3>1. LoadGoal(y)' = g /\ LoadGoal(y) = archive[x]
        BY <1>4, <2>2 DEF LoadGoal
      <3> QED
        BY <1>3, <1>6, <3>1
    <2> QED
      BY <2>1, <2>2
  <1> QED
    BY <1>4, <1>6, <1>7, <1>10, <1>11, <1>12, <1>13 DEF OneList, BottomUp

\* An archived copy of a goal that is deleted.
LEMMA RmArchiveKeeps ==
  ASSUME TreeTyped, FilesInv, NEW x \in Ids, archive' = [archive EXCEPT ![x] = NoGoal],
         live' = live, used' = used, removed' = removed, x \in removed
  PROVE  /\ Grounded' /\ OneList' /\ BottomUp'
         /\ (\A y \in Ids : y # x => LoadGoal(y)' = LoadGoal(y)) /\ LoadGoal(x)' \in {LoadGoal(x), NoGoal}
  <1> USE DEF FilesInv
  <1>1. archive'[x] = NoGoal /\ \A y \in Ids : y # x => archive'[y] = archive[y]
    BY DEF TreeTyped
  <1>2. \A y \in Ids : Copies(y)' \subseteq Copies(y) /\ (Gone(y)' => Gone(y) \/ y \in removed')
    BY <1>1 DEF Copies, Gone
  <1>3. Derived
    BY <1>2 DEF Derived
  <1>4. Grounded' /\ \A p, q \in Ids : p # q => Lists(p)' \intersect Lists(q)' = {}
    BY <1>2, <1>3, GroundedKept DEF TreeTyped, Ids
  <1>5. \A p \in Ids : live'[p] # NoGoal /\ archive'[p] # NoGoal => Kids(archive'[p]) \subseteq Kids(live'[p])
    BY <1>1 DEF OneList
  <1>6. \A y \in Ids : live'[y] = NoGoal /\ archive'[y] # NoGoal => \A c \in Kids(archive'[y]) : live'[c] = NoGoal
    BY <1>1 DEF BottomUp
  <1>7. (\A y \in Ids : y # x => LoadGoal(y)' = LoadGoal(y)) /\ LoadGoal(x)' \in {LoadGoal(x), NoGoal}
    BY <1>1 DEF LoadGoal
  <1> QED
    BY <1>4, <1>5, <1>6, <1>7 DEF OneList, BottomUp

-----------------------------------------------------------------------------
(* Frames *)

AllOps == GrowOps \union PruneOps \union ArchiveOps \union DeleteOps

LEMMA FrameIs ==
  ASSUME NEW op \in AllOps, NEW x \in Ids, NEW n \in Nat, NEW ks \in Seq(Ids)
  PROVE  /\ Frame(op, x, n, ks) \in AFrame
         /\ Frame(op, x, n, ks).op = op /\ Frame(op, x, n, ks).id = x
         /\ Frame(op, x, n, ks).n = n /\ Frame(op, x, n, ks).kids = ks
  BY DEF Frame, AFrame, AllOps

LEMMA FramesAre ==
  ASSUME NEW op \in AllOps, NEW n \in Nat, NEW ks \in Seq(Ids)
  PROVE  /\ Frames(op, ks, n) \in Seq(AFrame) /\ Len(Frames(op, ks, n)) = Len(ks)
         /\ \A i \in 1 .. Len(ks) :
              /\ Frames(op, ks, n)[i].op = op /\ Frames(op, ks, n)[i].id = ks[i]
              /\ Frames(op, ks, n)[i].n = n /\ Frames(op, ks, n)[i].kids = <<>>
  <1> DEFINE w == Frames(op, ks, n)
  <1>1. DOMAIN ks = 1 .. Len(ks) /\ Len(ks) \in Nat /\ \A i \in 1 .. Len(ks) : ks[i] \in Ids
    OBVIOUS
  <1>2. w = [i \in 1 .. Len(ks) |-> Frame(op, ks[i], n, <<>>)]
    BY <1>1 DEF Frames
  <1>3. <<>> \in Seq(Ids)
    OBVIOUS
  <1>4. ASSUME NEW i \in 1 .. Len(ks)
        PROVE  w[i] \in AFrame /\ w[i].op = op /\ w[i].id = ks[i] /\ w[i].n = n /\ w[i].kids = <<>>
    <2>1. ks[i] \in Ids /\ w[i] = Frame(op, ks[i], n, <<>>)
      BY <1>1, <1>2
    <2>2. /\ Frame(op, ks[i], n, <<>>) \in AFrame
          /\ Frame(op, ks[i], n, <<>>).op = op /\ Frame(op, ks[i], n, <<>>).id = ks[i]
          /\ Frame(op, ks[i], n, <<>>).n = n /\ Frame(op, ks[i], n, <<>>).kids = <<>>
      BY <1>3, <2>1 DEF Frame, AFrame, AllOps
    <2> QED
      BY <2>1, <2>2
  <1>5. w \in [1 .. Len(ks) -> AFrame]
    BY <1>2, <1>4
  <1>6. w \in Seq(AFrame) /\ Len(w) = Len(ks)
    BY <1>1, <1>5
  <1> QED
    BY <1>4, <1>6

LEMMA TopIs ==
  ASSUME TreeTyped, stack # <<>>
  PROVE  /\ Top = stack[1] /\ Top \in AFrame /\ Top.id \in Ids /\ Top.n \in Nat /\ Top.kids \in Seq(Ids)
         /\ Len(stack) \in Nat /\ Len(stack) >= 1 /\ 1 \in DOMAIN stack
         /\ \A i \in DOMAIN stack : /\ stack[i] \in AFrame /\ stack[i].id \in Ids /\ stack[i].n \in Nat
                                    /\ stack[i].kids \in Seq(Ids)
  <1>1. stack \in Seq(AFrame)
    BY DEF TreeTyped
  <1>2. Len(stack) \in Nat /\ Len(stack) >= 1 /\ Head(stack) = stack[1] /\ 1 \in DOMAIN stack
    BY <1>1
  <1>3. \A i \in DOMAIN stack : stack[i] \in AFrame
    BY <1>1
  <1>4. \A f \in AFrame : f.id \in Ids /\ f.n \in Nat /\ f.kids \in Seq(Ids)
    BY DEF AFrame
  <1> QED
    BY <1>2, <1>3, <1>4 DEF Top

\* What a walk is follows from the frame on top.
LEMMA WalkIs ==
  ASSUME TreeInv, stack # <<>>
  PROVE  /\ Top.op \in GrowOps => Growing
         /\ Top.op \in PruneOps => Pruning
         /\ Top.op \in ArchiveOps \ {"remove"} => Archiving
         /\ Top.op \in DeleteOps \ {"remove"} => Deleting
         /\ Top.op = "remove" => Archiving \/ Deleting
  <1>1. Top = stack[1] /\ 1 \in DOMAIN stack
    BY TopIs DEF TreeInv
  <1>2. Growing => Top.op \in GrowOps
    BY <1>1 DEF Growing, GrowOK
  <1>3. Pruning => Top.op \in PruneOps
    BY <1>1 DEF Pruning, PruneOK
  <1>4. Archiving => Top.op \in ArchiveOps
    BY <1>1 DEF Archiving, ArchiveOK
  <1>5. Deleting => Top.op \in DeleteOps
    BY <1>1 DEF Deleting, DeleteOK
  <1>6. Growing \/ Pruning \/ Archiving \/ Deleting
    BY DEF TreeInv
  <1> HIDE DEF TreeInv, Growing, Pruning, Archiving, Deleting
  <1> QED
    BY <1>2, <1>3, <1>4, <1>5, <1>6 DEF GrowOps, PruneOps, ArchiveOps, DeleteOps

\* What a step with a push does to the frames below the top.
LEMMA PushStep ==
  ASSUME TreeTyped, stack # <<>>, NEW fs \in Seq(AFrame), Push(fs)
  PROVE  /\ stack' \in Seq(AFrame) /\ Pushed(stack, fs, stack')
         /\ Top.op # "link" => \A y, q : Awaited(stack, y, q) => Awaited(stack', y, q)
         /\ \A k \in DOMAIN stack' :
              \/ k \in 1 .. Len(fs) /\ stack'[k] = fs[k]
              \/ \E i \in 2 .. Len(stack) : k = i + Len(fs) - 1 /\ stack'[k] = stack[i]
  <1>1. stack \in Seq(AFrame)
    BY DEF TreeTyped
  <1>2. stack' \in Seq(AFrame) /\ Pushed(stack, fs, stack') /\ Len(stack) >= 1 /\ Top = stack[1]
    BY <1>1, PushShape, TopIs DEF Push
  <1>3. ASSUME Top.op # "link", NEW y, NEW q, Awaited(stack, y, q) PROVE Awaited(stack', y, q)
    BY <1>1, <1>2, <1>3, AwaitedKept
  <1>4. ASSUME NEW k \in DOMAIN stack'
        PROVE  \/ k \in 1 .. Len(fs) /\ stack'[k] = fs[k]
               \/ \E i \in 2 .. Len(stack) : k = i + Len(fs) - 1 /\ stack'[k] = stack[i]
    BY <1>1, <1>2, PushPlace
  <1> QED
    BY <1>2, <1>3, <1>4

\* Live goals stay and list at least what they listed.
Grows ==
    /\ archive' = archive
    /\ \A p \in Ids : live[p] # NoGoal => live'[p] # NoGoal /\ Kids(live[p]) \subseteq Kids(live'[p])

\* What writes children and lists them is on top, or below the top that writes.
LEMMA WritesOnTop ==
  ASSUME TreeTyped, Growing, stack # <<>>, NEW i \in 2 .. Len(stack), stack[i].op \in {"save", "link"}
  PROVE  Top.op = "save"
  <1>1. Top = stack[1] /\ i \in DOMAIN stack /\ 1 \in 1 .. i - 1
    BY TopIs DEF TreeTyped
  <1>2. GrowOK(stack, i)
    BY <1>1 DEF Growing
  <1>3. SaveOK(stack, i) \/ LinkOK(stack, i)
    BY <1>2 DEF GrowOK
  <1> QED
    BY <1>1, <1>3 DEF SaveOK, LinkOK

\* The frames below the top, while a tree grows: those that do not write.
LEMMA GrowBelow ==
  ASSUME TreeTyped, Growing, stack # <<>>, NEW fs \in Seq(AFrame), Push(fs), Grows,
         Top.op = "decompose" =>
             live'[Top.id] # NoGoal \/ (Len(fs) > 0 /\ Stands(fs, Len(fs), "decompose", Top.id)),
         Top.op = "link" => \A c \in Ran(Top.kids) : ~Gone(c)' /\ Near(c)',
         NEW i \in 2 .. Len(stack), stack[i].op # "save", stack[i].op # "link"
  PROVE  GrowOK(stack, i + Len(fs) - 1)'
  <1> DEFINE k == i + Len(fs) - 1
  <1>0. PICK f : f = stack[i]
    OBVIOUS
  <1>1. /\ stack \in Seq(AFrame) /\ stack' \in Seq(AFrame) /\ Pushed(stack, fs, stack')
        /\ Top = stack[1] /\ Len(stack) \in Nat /\ i \in DOMAIN stack /\ f.id \in Ids /\ 1 \in 1 .. i - 1
        /\ Len(fs) \in Nat
    BY <1>0, PushStep, TopIs DEF TreeTyped
  <1>2. stack'[k] = f
    BY <1>0, <1>1 DEF Pushed
  <1>3. GrowOK(stack, i)
    BY <1>1 DEF Growing
  <1>4. f.op # "save" /\ f.op # "link"
    BY <1>0
  <1>5. \A x \in Ids : (~Gone(x) => ~Gone(x)') /\ (Near(x) => Near(x)')
    BY DEF Grows, Gone, Near
  <1>6. f.op = "refine" => Near(f.id)'
    BY <1>0, <1>1, <1>3, <1>5 DEF GrowOK
  <1>7. f.op = "children" => live'[f.id] # NoGoal \/ (k > 1 /\ Stands(stack', k - 1, "decompose", f.id))
    <2> SUFFICES ASSUME f.op = "children", live[f.id] = NoGoal
                 PROVE  live'[f.id] # NoGoal \/ (k > 1 /\ Stands(stack', k - 1, "decompose", f.id))
      BY <1>1 DEF Grows
    <2>1. Stands(stack, i - 1, "decompose", f.id)
      BY <1>0, <1>3 DEF GrowOK
    <2>2. CASE i = 2
      <3>1. Top.op = "decompose" /\ Top.id = f.id
        BY <1>1, <2>1, <2>2 DEF Stands
      <3>2. SUFFICES ASSUME Len(fs) > 0, Stands(fs, Len(fs), "decompose", f.id)
                     PROVE  k > 1 /\ Stands(stack', k - 1, "decompose", f.id)
        BY <3>1
      <3>3. k - 1 = Len(fs) /\ k > 1 /\ Len(fs) \in 1 .. Len(fs)
        BY <1>1, <2>2, <3>2
      <3>4. stack'[Len(fs)] = fs[Len(fs)]
        BY <1>1, <3>3 DEF Pushed
      <3> QED
        BY <3>2, <3>3, <3>4 DEF Stands
    <2>3. CASE i # 2
      <3>1. i - 1 \in 2 .. Len(stack) /\ i - 1 # i + 1
        BY <1>1, <2>3
      <3> QED
        BY <1>1, <2>1, <3>1, StandsKept
    <2> QED
      BY <2>2, <2>3
  <1>8. f.op = "decompose" => (~Gone(f.id)' /\ Near(f.id)') \/ Pending(stack', k, f.id)
    <2> SUFFICES ASSUME f.op = "decompose" PROVE (~Gone(f.id)' /\ Near(f.id)') \/ Pending(stack', k, f.id)
      OBVIOUS
    <2>1. (~Gone(f.id) /\ Near(f.id)) \/ Pending(stack, i, f.id)
      BY <1>0, <1>3 DEF GrowOK
    <2>2. CASE ~Gone(f.id) /\ Near(f.id)
      BY <1>1, <1>5, <2>2
    <2>3. CASE Pending(stack, i, f.id)
      <3>1. (Top.op = "link" /\ f.id \in Ran(Top.kids)) \/ Pending(stack', k, f.id)
        BY <1>1, <2>3, PendingKept
      <3> QED
        BY <3>1
    <2> QED
      BY <2>1, <2>2, <2>3
  <1>9. f.op \in GrowOps
    BY <1>0, <1>3 DEF GrowOK
  <1> HIDE DEF k
  <1> QED
    BY <1>2, <1>4, <1>6, <1>7, <1>8, <1>9 DEF GrowOK, k

\* The frames of a step that grows: those pushed are in order, the others stay so.
LEMMA GrowStep ==
  ASSUME TreeTyped, Growing, stack # <<>>, NEW fs \in Seq(AFrame), Push(fs), Grows, Top.op # "save",
         Top.op = "decompose" =>
             live'[Top.id] # NoGoal \/ (Len(fs) > 0 /\ Stands(fs, Len(fs), "decompose", Top.id)),
         Top.op = "link" => \A c \in Ran(Top.kids) : ~Gone(c)' /\ Near(c)',
         \A k \in 1 .. Len(fs) : GrowOK(stack, k)'
  PROVE  Growing'
  <1>1. ASSUME NEW k \in DOMAIN stack' PROVE GrowOK(stack, k)'
    <2>1. CASE k \in 1 .. Len(fs)
      BY <2>1
    <2>2. CASE k \notin 1 .. Len(fs)
      <3>1. PICK i \in 2 .. Len(stack) : k = i + Len(fs) - 1
        BY <2>2, PushStep
      <3>2. stack[i].op # "save" /\ stack[i].op # "link"
        BY WritesOnTop
      <3>3. GrowOK(stack, i + Len(fs) - 1)'
        BY <3>2, GrowBelow
      <3> QED
        BY <3>1, <3>3
    <2> QED
      BY <2>1, <2>2
  <1> QED
    BY <1>1 DEF Growing

-----------------------------------------------------------------------------
(* The steps that grow a tree *)

\* A step that leaves the files alone.
LEMMA FilesSame ==
  ASSUME TreeTyped, FilesInv, UNCHANGED <<live, archive>>, used' = used, removed \subseteq removed',
         cut => cut', \A y, q : Awaited(stack, y, q) => Awaited(stack', y, q)
  PROVE  FilesInv'
  <1> USE DEF FilesInv
  <1>1. \A y : LoadGoal(y)' = LoadGoal(y) /\ Copies(y)' = Copies(y) /\ (Gone(y)' <=> Gone(y)) /\ Lists(y)' = Lists(y)
    BY DEF LoadGoal, Copies, Gone, Lists
  <1>2. Derived
    BY <1>1 DEF Derived
  <1>3. Grounded'
    BY <1>1, <1>2, GroundedKept DEF TreeTyped, Ids
  <1>4. OneList' /\ BottomUp'
    BY <1>1 DEF OneList, BottomUp
  <1>5. SameLoads
    BY <1>1 DEF SameLoads
  <1>6. Listed'
    BY <1>5, ListedKept
  <1> QED
    BY <1>3, <1>4, <1>6

\* A step that saves what it loaded, as far as the tree goes.
LEMMA GrowSave ==
  ASSUME TreeTyped, FilesInv, stack # <<>>, Top.op # "link", NEW fs \in Seq(AFrame), Push(fs),
         NEW x \in Ids, NEW g \in Goal, SaveGoal(x, g), LoadGoal(x) # NoGoal, NotBelow(x),
         g.parent = LoadGoal(x).parent, g.children = LoadGoal(x).children,
         g.status = "active" => LoadGoal(x).status = "active",
         used' \in Ids, used <= used', UNCHANGED <<visited, removed, cut>>, tokens' \in Nat
  PROVE  TreeTyped' /\ FilesInv' /\ Grows /\ live'[x] = g /\ g # NoGoal
  <1>1. /\ stack' \in Seq(AFrame)
        /\ \A y, q : Awaited(stack, y, q) => Awaited(stack', y, q)
    BY PushStep
  <1>2. TreeTyped'
    BY <1>1, Saves DEF TreeTyped
  <1>3. Grounded' /\ OneList' /\ BottomUp' /\ SameLoads
    BY SaveSame DEF FilesInv, Ids
  <1>4. Listed'
    BY <1>1, <1>3, ListedKept DEF FilesInv
  <1>5. Grows
    <2> SUFFICES ASSUME NEW p \in Ids, live[p] # NoGoal
                 PROVE  live'[p] # NoGoal /\ Kids(live[p]) \subseteq Kids(live'[p])
      BY Saves DEF Grows
    <2>1. CASE p = x
      <3>1. LoadGoal(x) = live[x] /\ live'[x] = g /\ g # NoGoal
        BY <2>1, Saves DEF LoadGoal
      <3> QED
        BY <2>1, <3>1 DEF Kids
    <2>2. CASE p # x
      BY <2>2, Saves
    <2> QED
      BY <2>1, <2>2
  <1> QED
    BY <1>2, <1>3, <1>4, <1>5, Saves DEF FilesInv

\* A walk that saves the goal on top and is done with it.
LEMMA GrowPop ==
  ASSUME TreeInv, stack # <<>>, Top.op \in {"refine", "decompose"}, LoadGoal(Top.id) # NoGoal, Near(Top.id),
         Pop, NEW g \in Goal, SaveGoal(Top.id, g),
         g.parent = LoadGoal(Top.id).parent, g.children = LoadGoal(Top.id).children,
         g.status = LoadGoal(Top.id).status,
         UNCHANGED <<used, visited, removed, cut>>, tokens' \in Nat
  PROVE  TreeInv'
  <1> DEFINE fs == <<>>
  <1>1. fs \in Seq(AFrame) /\ Push(fs) /\ Len(fs) = 0 /\ TreeTyped /\ FilesInv /\ Top.id \in Ids
        /\ Top.op # "link" /\ Top.op # "save" /\ Top.op \in GrowOps
    BY TopIs DEF Pop, TreeInv, GrowOps
  <1>2. Growing
    BY <1>1, WalkIs
  <1>3. NotBelow(Top.id)
    BY <1>1, NearNotBelow DEF FilesInv
  <1> HIDE DEF fs
  <1>4. used' \in Ids /\ used <= used'
    BY <1>1 DEF TreeTyped, Ids
  <1>5. TreeTyped' /\ FilesInv' /\ Grows /\ live'[Top.id] = g /\ g # NoGoal
    BY <1>1, <1>3, <1>4, GrowSave
  <1>6. Growing'
    <2>1. \A k \in 1 .. Len(fs) : GrowOK(stack, k)'
      BY <1>1
    <2>2. live'[Top.id] # NoGoal
      BY <1>5
    <2> QED
      BY <1>1, <1>2, <1>5, <2>1, <2>2, GrowStep
  <1> QED
    BY <1>5, <1>6 DEF TreeInv

\* What a decomposition on top works on is there, and not below an archived goal.
LEMMA OnTop ==
  ASSUME TreeInv, stack # <<>>
  PROVE  /\ Top.op = "decompose" => LoadGoal(Top.id) # NoGoal /\ Near(Top.id)
         /\ Top.op = "refine" => Near(Top.id)
         /\ Top.op = "children" => live[Top.id] # NoGoal
         /\ Top.op = "save" => SaveOK(stack, 1)
         /\ Top.op = "link" => LinkOK(stack, 1)
  <1>1. TreeTyped /\ Top = stack[1] /\ 1 \in DOMAIN stack /\ Top.id \in Ids
    BY TopIs DEF TreeInv
  <1>2. Top.op \in GrowOps => GrowOK(stack, 1)
    BY <1>1, WalkIs DEF Growing
  <1>3. ~Pending(stack, 1, Top.id)
    BY DEF Pending
  <1>4. \A op \in {"decompose", "refine", "children", "save", "link"} : op \in GrowOps
    BY DEF GrowOps
  <1>5. LoadGoal(Top.id) = NoGoal <=> Gone(Top.id)
    BY <1>1, Loads
  <1> QED
    BY <1>1, <1>2, <1>3, <1>4, <1>5 DEF GrowOK

LEMMA RefineForcedKeeps ==
  ASSUME TreeInv, RefineForced
  PROVE  TreeInv'
  <1> DEFINE x == Top.id
             g == LoadGoal(Top.id)
  <1>1. /\ stack # <<>> /\ Top.op = "refine" /\ g # NoGoal /\ Pop /\ SaveGoal(Top.id, Leaf(g))
        /\ UNCHANGED <<used, visited, removed, cut>> /\ tokens' = tokens
    BY DEF RefineForced, At, Keeps, Inside
  <1>2. Near(Top.id) /\ g \in Goal /\ tokens' \in Nat
    BY <1>1, OnTop, Loads, TopIs DEF TreeInv, TreeTyped
  <1>3. Leaf(g) \in Goal /\ Leaf(g).parent = g.parent /\ Leaf(g).children = g.children /\ Leaf(g).status = g.status
    BY <1>2, Edits
  <1> QED
    BY <1>1, <1>2, <1>3, GrowPop

LEMMA DecomposeLeafKeeps ==
  ASSUME TreeInv, DecomposeLeaf
  PROVE  TreeInv'
  <1> DEFINE g == LoadGoal(Top.id)
  <1>1. /\ stack # <<>> /\ Top.op = "decompose" /\ Pop /\ SaveGoal(Top.id, Leaf(g))
        /\ UNCHANGED <<used, visited, removed, cut>> /\ tokens' = tokens
    BY DEF DecomposeLeaf, At, Keeps, Inside
  <1>2. g # NoGoal /\ Near(Top.id) /\ g \in Goal /\ tokens' \in Nat
    BY <1>1, OnTop, Loads, TopIs DEF TreeInv, TreeTyped
  <1>3. Leaf(g) \in Goal /\ Leaf(g).parent = g.parent /\ Leaf(g).children = g.children /\ Leaf(g).status = g.status
    BY <1>2, Edits
  <1> QED
    BY <1>1, <1>2, <1>3, GrowPop

\* A step of a walk that only puts other frames in the place of the top.
LEMMA GrowOnly ==
  ASSUME TreeInv, stack # <<>>, Top.op \in GrowOps \ {"save", "link"}, NEW fs \in Seq(AFrame), Push(fs),
         UNCHANGED <<goalFiles, used, visited, removed, cut>>, tokens' \in Nat,
         Top.op = "decompose" => Len(fs) > 0 /\ Stands(fs, Len(fs), "decompose", Top.id),
         \A k \in 1 .. Len(fs) : GrowOK(stack, k)'
  PROVE  TreeInv'
  <1>1. TreeTyped /\ FilesInv /\ Top.op # "link" /\ Top.op # "save" /\ Growing
    BY WalkIs DEF TreeInv
  <1>2. stack' \in Seq(AFrame) /\ \A y, q : Awaited(stack, y, q) => Awaited(stack', y, q)
    BY <1>1, PushStep
  <1>3. TreeTyped'
    BY <1>1, <1>2 DEF TreeTyped, goalFiles
  <1>4. FilesInv'
    BY <1>1, <1>2, FilesSame DEF goalFiles
  <1>5. Grows
    BY DEF Grows, goalFiles
  <1>6. Growing'
    BY <1>1, <1>5, GrowStep
  <1> QED
    BY <1>3, <1>4, <1>6 DEF TreeInv

LEMMA RefineValidatedKeeps ==
  ASSUME TreeInv, RefineValidated
  PROVE  TreeInv'
  <1> DEFINE fs == <<>>
  <1>1. /\ stack # <<>> /\ Top.op = "refine" /\ Push(fs)
        /\ UNCHANGED <<goalFiles, used, visited, removed, cut>> /\ tokens' = tokens
    BY DEF RefineValidated, At, Keeps, Inside, Pop
  <1>2. fs \in Seq(AFrame) /\ \A k \in 1 .. Len(fs) : GrowOK(stack, k)'
    OBVIOUS
  <1>3. tokens' \in Nat
    BY <1>1 DEF TreeInv, TreeTyped
  <1> HIDE DEF fs
  <1> QED
    BY <1>1, <1>2, <1>3, GrowOnly DEF GrowOps

LEMMA RefineTestedKeeps ==
  ASSUME TreeInv, RefineTested
  PROVE  TreeInv'
  <1> DEFINE g == LoadGoal(Top.id)
             leaf(v) == [Leaf(g) EXCEPT !.validated = v]
             fs == <<Frame("decompose", Top.id, 0, <<>>), Frame("children", Top.id, Top.n, <<>>)>>
  <1>1. /\ stack # <<>> /\ Top.op = "refine" /\ g # NoGoal /\ UNCHANGED <<used, visited, removed, cut>>
        /\ \/ tokens' = tokens + 1 /\ (\E v \in BOOLEAN : SaveGoal(Top.id, leaf(v))) /\ Pop
           \/ tokens' \in {tokens, tokens + 1} /\ Push(fs) /\ UNCHANGED goalFiles
    BY DEF RefineTested, At, Inside
  <1>2. TreeTyped /\ Near(Top.id) /\ g \in Goal /\ Top.id \in Ids /\ Top.n \in Nat /\ tokens \in Nat
    BY <1>1, OnTop, Loads, TopIs DEF TreeInv, TreeTyped
  <1>3. tokens' \in Nat
    BY <1>1, <1>2
  <1>4. ASSUME NEW v \in BOOLEAN, SaveGoal(Top.id, leaf(v)), Pop PROVE TreeInv'
    <2>1. leaf(v) \in Goal /\ leaf(v).parent = g.parent /\ leaf(v).children = g.children /\ leaf(v).status = g.status
      BY <1>2, Edits
    <2> HIDE DEF leaf
    <2> QED
      BY <1>1, <1>2, <1>3, <1>4, <2>1, GrowPop
  <1>5. CASE Push(fs) /\ UNCHANGED goalFiles
    <2> DEFINE d == Frame("decompose", Top.id, 0, <<>>)
               c == Frame("children", Top.id, Top.n, <<>>)
    <2>1. "decompose" \in AllOps /\ "children" \in AllOps /\ <<>> \in Seq(Ids) /\ 0 \in Nat
      BY DEF AllOps, GrowOps
    <2>2. d \in AFrame /\ c \in AFrame /\ d.op = "decompose" /\ d.id = Top.id /\ c.op = "children" /\ c.id = Top.id
      BY <1>2, <2>1 DEF Frame, AFrame, AllOps
    <2> HIDE DEF d, c
    <2>3. fs = <<d, c>>
      BY DEF d, c
    <2> HIDE DEF fs
    <2>4. fs \in Seq(AFrame) /\ Len(fs) = 2 /\ fs[1] = d /\ fs[2] = c
      BY <2>2, <2>3
    <2>5. stack'[1] = d /\ stack'[2] = c
      <3>1. Pushed(stack, fs, stack')
        BY <1>1, <1>2, <1>5, <2>4, PushStep
      <3>2. 1 \in 1 .. Len(fs) /\ 2 \in 1 .. Len(fs)
        BY <2>4
      <3> QED
        BY <2>4, <3>1, <3>2 DEF Pushed
    <2>6. PICK x \in Ids : x = Top.id
      BY <1>2
    <2>7. ~Gone(x)' /\ Near(x)'
      <3>1. ~Gone(x) /\ Near(x)
        BY <1>1, <1>2, <2>6, Loads
      <3> QED
        BY <1>5, <3>1 DEF Gone, Near, goalFiles
    <2>8. GrowOK(stack, 1)'
      BY <2>2, <2>5, <2>6, <2>7 DEF GrowOK, GrowOps
    <2>9. GrowOK(stack, 2)'
      BY <2>2, <2>5, <2>6 DEF GrowOK, GrowOps, Stands
    <2>10. \A k \in 1 .. Len(fs) : k = 1 \/ k = 2
      BY <2>4
    <2>11. \A k \in 1 .. Len(fs) : GrowOK(stack, k)'
      BY <2>8, <2>9, <2>10
    <2>12. Top.op \in GrowOps \ {"save", "link"} /\ Top.op # "decompose"
      BY <1>1 DEF GrowOps
    <2> QED
      BY <1>1, <1>3, <1>5, <2>4, <2>11, <2>12, GrowOnly
  <1> QED
    BY <1>1, <1>4, <1>5

LEMMA RefineChildrenKeeps ==
  ASSUME TreeInv, RefineChildren
  PROVE  TreeInv'
  <1> DEFINE g == LoadGoal(Top.id)
             fs == Frames("refine", g.children, Top.n + 1)
  <1>1. /\ stack # <<>> /\ Top.op = "children" /\ Push(fs)
        /\ UNCHANGED <<goalFiles, used, visited, removed, cut>> /\ tokens' = tokens
    BY DEF RefineChildren, At, Keeps, Inside
  <1>2. TreeTyped /\ Top.id \in Ids /\ Top.n + 1 \in Nat /\ tokens \in Nat /\ live[Top.id] # NoGoal
    BY <1>1, OnTop, TopIs DEF TreeInv, TreeTyped
  <1>3. g = live[Top.id] /\ g.children \in Seq(Ids)
    <2>1. g = live[Top.id] /\ g \in Goal
      BY <1>2, Loads DEF LoadGoal
    <2> QED
      BY <2>1 DEF Goal
  <1>4. PICK ks \in Seq(Ids) : ks = g.children
    BY <1>3
  <1>5. "refine" \in AllOps /\ Top.op \in GrowOps \ {"save", "link"} /\ Top.op # "decompose"
    BY <1>1 DEF AllOps, GrowOps
  <1>6. /\ fs \in Seq(AFrame) /\ Len(fs) = Len(ks)
        /\ \A i \in 1 .. Len(ks) : fs[i].op = "refine" /\ fs[i].id = ks[i]
    BY <1>2, <1>4, <1>5, FramesAre
  <1> HIDE DEF fs
  <1>7. ASSUME NEW k \in 1 .. Len(fs) PROVE GrowOK(stack, k)'
    <2>1. stack'[k] = fs[k]
      BY <1>1, <1>2, <1>6, PushStep DEF Pushed
    <2>2. PICK x : x = ks[k]
      OBVIOUS
    <2>3. x \in Kids(live[Top.id])
      <3>1. k \in DOMAIN ks
        BY <1>6
      <3> QED
        BY <1>3, <1>4, <2>2, <3>1 DEF Kids, Ran
    <2>4. Near(x)'
      BY <1>1, <1>2, <2>3 DEF Near, goalFiles
    <2> QED
      BY <1>6, <2>1, <2>2, <2>4 DEF GrowOK, GrowOps
  <1>8. tokens' \in Nat
    BY <1>1, <1>2
  <1> QED
    BY <1>1, <1>5, <1>6, <1>7, <1>8, GrowOnly

LEMMA DecomposeRetryKeeps ==
  ASSUME TreeInv, DecomposeRetry
  PROVE  TreeInv'
  <1> DEFINE d == Frame("decompose", Top.id, Top.n + 1, <<>>)
             fs == <<d>>
  <1>1. /\ stack # <<>> /\ Top.op = "decompose" /\ Push(fs)
        /\ UNCHANGED <<goalFiles, used, visited, removed, cut>> /\ tokens' = tokens
    BY DEF DecomposeRetry, At, Keeps, Inside
  <1>2. /\ TreeTyped /\ Top.id \in Ids /\ Top.n + 1 \in Nat /\ tokens \in Nat
        /\ LoadGoal(Top.id) # NoGoal /\ Near(Top.id)
    BY <1>1, OnTop, TopIs DEF TreeInv, TreeTyped
  <1>3. "decompose" \in AllOps /\ Top.op \in GrowOps \ {"save", "link"} /\ <<>> \in Seq(Ids)
    BY <1>1 DEF AllOps, GrowOps
  <1>4. d \in AFrame /\ d.op = "decompose" /\ d.id = Top.id
    BY <1>2, <1>3 DEF Frame, AFrame, AllOps
  <1> HIDE DEF d
  <1>5. fs \in Seq(AFrame) /\ Len(fs) = 1 /\ fs[1] = d
    BY <1>4
  <1> HIDE DEF fs
  <1>6. stack'[1] = d
    BY <1>1, <1>2, <1>5, PushStep DEF Pushed
  <1>7. PICK x \in Ids : x = Top.id
    BY <1>2
  <1>8. ~Gone(x)' /\ Near(x)'
    <2>1. ~Gone(x) /\ Near(x)
      BY <1>2, <1>7, Loads
    <2> QED
      BY <1>1, <2>1 DEF Gone, Near, goalFiles
  <1>9. GrowOK(stack, 1)'
    BY <1>4, <1>6, <1>7, <1>8 DEF GrowOK, GrowOps
  <1>10. \A k \in 1 .. Len(fs) : GrowOK(stack, k)'
    BY <1>5, <1>9
  <1>11. Len(fs) > 0 /\ Stands(fs, Len(fs), "decompose", Top.id)
    BY <1>4, <1>5 DEF Stands
  <1> QED
    BY <1>1, <1>2, <1>3, <1>5, <1>10, <1>11, GrowOnly

\* The frames of an accepted decomposition: all children are saved, then they are
\* listed, then each is decomposed.
IsGrowth(fs, x, kids, n) ==
    /\ fs \in Seq(AFrame) /\ Len(fs) = 2 * n + 1
    /\ \A i \in 1 .. n : fs[i].op = "save" /\ fs[i].id = kids[i] /\ fs[i].n = x
    /\ fs[n + 1].op = "link" /\ fs[n + 1].id = x /\ fs[n + 1].kids = kids
    /\ \A i \in 1 .. n : fs[n + 1 + i].op = "decompose" /\ fs[n + 1 + i].id = kids[i]
    /\ \A k \in 1 .. Len(fs) : k \in 1 .. n \/ k = n + 1 \/ \E i \in 1 .. n : k = n + 1 + i

LEMMA GrowthIs ==
  ASSUME NEW x \in Ids, NEW kids \in Seq(Ids)
  PROVE  IsGrowth(Growth(x, kids), x, kids, Len(kids))
  <1> DEFINE n == Len(kids)
             fs == Growth(x, kids)
             a == Frames("save", kids, x)
             l == Frame("link", x, 0, kids)
             b == Frames("decompose", kids, 0)
  <1>1. "save" \in AllOps /\ "link" \in AllOps /\ "decompose" \in AllOps /\ x \in Nat /\ 0 \in Nat /\ n \in Nat
    BY DEF AllOps, GrowOps, Ids
  <1>2. a \in Seq(AFrame) /\ Len(a) = n /\ \A i \in 1 .. n : a[i].op = "save" /\ a[i].id = kids[i] /\ a[i].n = x
    BY <1>1, FramesAre
  <1>3. b \in Seq(AFrame) /\ Len(b) = n /\ \A i \in 1 .. n : b[i].op = "decompose" /\ b[i].id = kids[i]
    BY <1>1, FramesAre
  <1>4. l \in AFrame /\ l.op = "link" /\ l.id = x /\ l.kids = kids
    BY <1>1 DEF Frame, AFrame, AllOps
  <1>5. fs = a \o <<l>> \o b
    BY DEF Growth
  <1>0. n = Len(kids) /\ fs = Growth(x, kids)
    OBVIOUS
  <1> HIDE DEF a, l, b, fs, n
  <1> DEFINE al == a \o <<l>>
  <1>6. /\ al \in Seq(AFrame) /\ Len(al) = n + 1 /\ (\A i \in 1 .. n : al[i] = a[i]) /\ al[n + 1] = l
    BY <1>1, <1>2, <1>4
  <1>7. fs = al \o b
    BY <1>5
  <1> HIDE DEF al
  <1>8. fs \in Seq(AFrame) /\ Len(fs) = 2 * n + 1
    <2>1. fs \in Seq(AFrame) /\ Len(fs) = Len(al) + Len(b)
      <3>1. al \in Seq(AFrame) /\ b \in Seq(AFrame)
        BY <1>3, <1>6
      <3>2. al \o b \in Seq(AFrame) /\ Len(al \o b) = Len(al) + Len(b)
        BY <3>1
      <3> QED
        BY <1>7, <3>2
    <2> QED
      BY <1>1, <1>3, <1>6, <2>1
  <1>9. \A i \in 1 .. n + 1 : fs[i] = al[i]
    BY <1>1, <1>3, <1>6, <1>7
  <1>10. ASSUME NEW i \in 1 .. n PROVE fs[n + 1 + i] = b[i]
    <2> DEFINE k == n + 1 + i
    <2>1. k \in Len(al) + 1 .. Len(al) + Len(b) /\ k - Len(al) = i
      BY <1>1, <1>3, <1>6
    <2> HIDE DEF k
    <2>2. fs[k] = b[k - Len(al)]
      <3>1. al \in Seq(AFrame) /\ b \in Seq(AFrame)
        BY <1>3, <1>6
      <3>2. (al \o b)[k] = b[k - Len(al)]
        BY <2>1, <3>1
      <3> QED
        BY <1>7, <3>2
    <2> QED
      BY <2>1, <2>2 DEF k
  <1>11. \A i \in 1 .. n : i \in 1 .. n + 1
    BY <1>1
  <1>12. n + 1 \in 1 .. n + 1
    BY <1>1
  <1>13. ASSUME NEW k \in 1 .. Len(fs) PROVE k \in 1 .. n \/ k = n + 1 \/ \E i \in 1 .. n : k = n + 1 + i
    <2>1. CASE k > n + 1
      <3>1. k - (n + 1) \in 1 .. n /\ k = n + 1 + (k - (n + 1))
        BY <1>1, <1>8, <2>1
      <3> QED
        BY <3>1
    <2>2. CASE ~(k > n + 1)
      BY <1>1, <1>8, <2>2
    <2> QED
      BY <2>1, <2>2
  <1>14. \A i \in 1 .. n : fs[i].op = "save" /\ fs[i].id = kids[i] /\ fs[i].n = x
    BY <1>2, <1>6, <1>9, <1>11
  <1>15. fs[n + 1].op = "link" /\ fs[n + 1].id = x /\ fs[n + 1].kids = kids
    BY <1>4, <1>6, <1>9, <1>12
  <1>16. \A i \in 1 .. n : fs[n + 1 + i].op = "decompose" /\ fs[n + 1 + i].id = kids[i]
    BY <1>3, <1>10
  <1> QED
    BY <1>0, <1>8, <1>13, <1>14, <1>15, <1>16 DEF IsGrowth

LEMMA DecomposeAcceptKeeps ==
  ASSUME TreeInv, DecomposeAccept
  PROVE  TreeInv'
  <1>1. /\ stack # <<>> /\ Top.op = "decompose" /\ MayDecompose(LoadGoal(Top.id))
        /\ SaveGoal(Top.id, LoadGoal(Top.id)) /\ UNCHANGED <<visited, tokens, removed, cut>>
    BY DEF DecomposeAccept, At, Inside
  <1>2. /\ TreeTyped /\ FilesInv /\ Growing /\ Top = stack[1] /\ LoadGoal(Top.id) # NoGoal /\ Near(Top.id)
        /\ Top.id \in Ids /\ LoadGoal(Top.id) \in Goal
    <2>1. Top.op \in GrowOps
      BY <1>1 DEF GrowOps
    <2>2. TreeTyped /\ FilesInv /\ Growing /\ Top = stack[1] /\ Top.id \in Ids
      BY <1>1, <2>1, TopIs, WalkIs DEF TreeInv
    <2> QED
      BY <1>1, <2>2, OnTop, Loads
  <1>3. PICK n \in 1 .. MaxChildren :
          LET kids == [i \in 1 .. n |-> used + i] IN
          used + n <= MaxGoals /\ used' = used + n /\ Push(Growth(Top.id, kids))
    BY DEF DecomposeAccept
  <1>4. PICK x \in Ids : x = Top.id
    BY <1>2
  <1>5. PICK g \in Goal : g = LoadGoal(x)
    BY <1>2, <1>4
  <1> DEFINE kids == [i \in 1 .. n |-> used + i]
             fs == Growth(x, kids)
  <1>6. used \in Ids /\ used \in 1 .. MaxGoals /\ n \in Nat /\ MaxGoals \in Nat
    BY <1>2, TreeAssumption DEF TreeTyped, Ids
  <1>7. used' \in Ids /\ used <= used' /\ used' \in Nat /\ \A i \in 1 .. n : used + i \in Ids /\ used + i <= used'
    BY <1>3, <1>6 DEF Ids
  <1>8. kids \in Seq(Ids) /\ Len(kids) = n /\ \A i \in 1 .. n : kids[i] = used + i
    <2>1. kids \in [1 .. n -> Ids]
      BY <1>7
    <2> QED
      BY <1>6, <2>1
  <1>9. Ran(kids) = {used + i : i \in 1 .. n}
    <2>1. DOMAIN kids = 1 .. n
      OBVIOUS
    <2> QED
      BY <1>8, <2>1 DEF Ran
  <1>10. Push(fs)
    BY <1>3, <1>4
  <1> HIDE DEF kids
  <1>11. PICK ks \in Seq(Ids) : ks = kids
    BY <1>8
  <1>12. PICK hs \in Seq(AFrame) : hs = fs
    BY <1>8, GrowthIs DEF IsGrowth
  <1>13. /\ Len(hs) = 2 * n + 1
         /\ \A i \in 1 .. n : hs[i].op = "save" /\ hs[i].id = ks[i] /\ hs[i].n = x
         /\ hs[n + 1].op = "link" /\ hs[n + 1].id = x /\ hs[n + 1].kids = ks
         /\ \A i \in 1 .. n : hs[n + 1 + i].op = "decompose" /\ hs[n + 1 + i].id = ks[i]
         /\ \A k \in 1 .. Len(hs) : k \in 1 .. n \/ k = n + 1 \/ \E i \in 1 .. n : k = n + 1 + i
    <2>1. hs = Growth(x, ks) /\ n = Len(ks)
      BY <1>8, <1>11, <1>12
    <2> HIDE DEF fs
    <2>2. IsGrowth(hs, x, ks, n)
      BY <2>1, GrowthIs
    <2> QED
      BY <2>2 DEF IsGrowth
  <1>14. Push(hs)
    BY <1>10, <1>12
  <1>15. Len(ks) = n /\ Ran(ks) = {used + i : i \in 1 .. n} /\ \A i \in 1 .. n : ks[i] = used + i
    BY <1>8, <1>9, <1>11
  <1> HIDE DEF fs
  <1>16. NotBelow(x)
    BY <1>2, <1>4, NearNotBelow DEF FilesInv
  <1>17. SaveGoal(x, g) /\ LoadGoal(x) # NoGoal
    BY <1>1, <1>2, <1>4, <1>5
  <1>18. TreeTyped' /\ FilesInv' /\ Grows /\ live'[x] = g /\ g # NoGoal
    <2>1. tokens' \in Nat /\ Top.op # "link"
      BY <1>1, <1>2 DEF TreeTyped
    <2> QED
      BY <1>1, <1>2, <1>5, <1>7, <1>14, <1>16, <1>17, <2>1, GrowSave
  <1>19. /\ Pushed(stack, hs, stack') /\ stack' \in Seq(AFrame) /\ \A k \in 1 .. 2 * n + 1 : stack'[k] = hs[k]
         /\ DOMAIN stack' = 1 .. Len(stack') /\ Len(stack') >= 2 * n + 1 /\ Len(stack') \in Nat
    <2>1. Pushed(stack, hs, stack') /\ stack' \in Seq(AFrame)
      BY <1>1, <1>2, <1>14, PushStep
    <2>2. Len(stack) >= 1 /\ Len(stack) \in Nat
      BY <1>1, <1>2, TopIs
    <2> QED
      BY <1>6, <1>13, <2>1, <2>2 DEF Pushed
  \* What was drawn now was in no file.
  <1>20. ASSUME NEW q \in Ids, NEW h \in Copies(q)'
         PROVE  h.parent \in Nat /\ h.parent <= used /\ q <= used /\ \A c \in Kids(h) : c \in Ids /\ c <= used
    <2>1. h \in Copies(q)
      <3>1. CASE q = x
        <4>1. g \in Copies(x) /\ Copies(x)' = {g, archive[x]} \ {NoGoal}
          BY <1>2, <1>5, <1>17, Loads, Saves
        <4> QED
          BY <3>1, <4>1 DEF Copies
      <3>2. CASE q # x
        BY <1>2, <1>5, <1>17, <3>2, Saves
      <3> QED
        BY <3>1, <3>2
    <2>2. h \in Goal /\ Kids(h) \subseteq Ids
      BY <1>2, <2>1, Loads
    <2>3. h.parent \in 0 .. MaxGoals
      BY <2>2 DEF Goal
    <2>4. q <= used /\ h.parent < q /\ \A c \in Kids(h) : c <= used
      BY <1>2, <2>1 DEF FilesInv, Grounded
    <2>5. h.parent \in Nat /\ q \in Nat /\ used \in Nat /\ h.parent <= used
      BY <1>6, <2>3, <2>4 DEF Ids
    <2> QED
      BY <2>2, <2>4, <2>5
  <1>21. x <= used /\ x \in Nat
    <2>1. g \in Copies(x)
      BY <1>2, <1>5, <1>17, Loads
    <2> QED
      BY <1>2, <2>1 DEF FilesInv, Grounded, Ids
  <1>22. ASSUME NEW i \in 1 .. n, NEW c, c = used + i
         PROVE  /\ c \in Ids /\ Gone(c)' /\ x < c /\ c <= used' /\ c \in Ran(ks)
                /\ \A q \in Ids : c \notin Lists(q)' /\ \A h \in Copies(q)' : h.parent # c
    <2>1. c \in Ids /\ c \in Nat /\ c > used /\ x < c /\ c <= used'
      <3>1. c \in Ids /\ c <= used'
        BY <1>7, <1>22
      <3>2. c \in Nat /\ c > used /\ x < c
        BY <1>6, <1>21, <1>22
      <3> QED
        BY <3>1, <3>2
    <2>2. c \in Ran(ks)
      BY <1>15, <1>22
    <2>3. Gone(c)'
      <3>1. Copies(c)' = {}
        BY <1>6, <1>20, <2>1
      <3> QED
        BY <3>1 DEF Copies, Gone
    <2>4. ASSUME NEW q \in Ids PROVE c \notin Lists(q)' /\ \A h \in Copies(q)' : h.parent # c
      <3>1. c \notin Lists(q)'
        BY <1>6, <1>20, <2>1 DEF Lists
      <3>2. \A h \in Copies(q)' : h.parent # c
        BY <1>6, <1>20, <2>1
      <3> QED
        BY <3>1, <3>2
    <2> QED
      BY <2>1, <2>2, <2>3, <2>4
  <1>23. n + 1 \in DOMAIN stack' /\ n + 1 \in 1 .. 2 * n + 1 /\ stack'[n + 1] = hs[n + 1]
    BY <1>6, <1>19
  <1>24. ASSUME NEW k \in 1 .. n PROVE GrowOK(stack, k)'
    <2>1. stack'[k] = hs[k] /\ hs[k].op = "save" /\ hs[k].id = used + k /\ hs[k].n = x
      BY <1>6, <1>13, <1>15, <1>19
    <2>2. PICK c \in Ids : c = used + k
      BY <1>22
    <2>3. Gone(c)' /\ c \in Ran(ks)
      BY <1>22, <2>2
    <2>4. ASSUME NEW j \in 1 .. k - 1 PROVE stack'[j].op = "save" /\ stack'[j].id # c
      <3>1. j \in 1 .. n /\ j \in 1 .. 2 * n + 1 /\ used + j # used + k
        BY <1>6
      <3> QED
        BY <1>13, <1>15, <1>19, <2>2, <3>1
    <2>5. Awaited(stack', c, x)
      BY <1>13, <1>23, <2>3 DEF Awaited
    <2>6. SaveOK(stack, k)'
      BY <2>1, <2>2, <2>3, <2>4, <2>5 DEF SaveOK
    <2> QED
      BY <2>1, <2>6 DEF GrowOK, GrowOps
  <1>25. GrowOK(stack, n + 1)'
    <2>1. live'[x] # NoGoal /\ live'[x].depth < MaxDepth
      BY <1>1, <1>4, <1>5, <1>18 DEF MayDecompose
    <2>2. \A j \in 1 .. (n + 1) - 1 : stack'[j].op = "save"
      <3>1. \A j \in 1 .. (n + 1) - 1 : j \in 1 .. n /\ j \in 1 .. 2 * n + 1
        BY <1>6
      <3> QED
        BY <1>13, <1>19, <3>1
    <2>3. ASSUME NEW c \in Ran(ks)
          PROVE  /\ x < c /\ c <= used' /\ (Gone(c)' => Over(stack', n + 1, {"save"}, c))
                 /\ \A q \in Ids : c \notin Lists(q)' /\ \A h \in Copies(q)' : h.parent # c
      <3>1. PICK i \in 1 .. n : c = used + i
        BY <1>15
      <3>2. i \in 1 .. (n + 1) - 1 /\ i \in 1 .. 2 * n + 1
        BY <1>6
      <3>3. stack'[i].op = "save" /\ stack'[i].id = c
        BY <1>13, <1>15, <1>19, <3>1, <3>2
      <3>4. Over(stack', n + 1, {"save"}, c)
        BY <3>2, <3>3 DEF Over
      <3> QED
        BY <1>22, <3>1, <3>4
    <2>4. LinkOK(stack, n + 1)'
      BY <1>13, <1>23, <2>1, <2>2, <2>3 DEF LinkOK
    <2> QED
      BY <1>13, <1>23, <2>4 DEF GrowOK, GrowOps
  <1>26. ASSUME NEW i \in 1 .. n PROVE GrowOK(stack, n + 1 + i)'
    <2>1. n + 1 + i \in 1 .. 2 * n + 1 /\ n + 1 \in 1 .. (n + 1 + i) - 1
      BY <1>6
    <2>2. stack'[n + 1 + i].op = "decompose" /\ stack'[n + 1 + i].id = used + i
      BY <1>13, <1>15, <1>19, <2>1
    <2>3. Pending(stack', n + 1 + i, used + i)
      BY <1>13, <1>22, <1>23, <2>1 DEF Pending
    <2> QED
      BY <2>2, <2>3 DEF GrowOK, GrowOps
  <1>27. \A k \in 1 .. Len(hs) : GrowOK(stack, k)'
    BY <1>13, <1>24, <1>25, <1>26
  <1>28. Growing'
    <2>1. live'[Top.id] # NoGoal /\ Top.op # "save" /\ Top.op # "link"
      BY <1>1, <1>4, <1>18
    <2> QED
      BY <1>1, <1>2, <1>14, <1>18, <1>27, <2>1, GrowStep
  <1> QED
    BY <1>18, <1>28 DEF TreeInv

LEMMA LinkChildrenKeeps ==
  ASSUME TreeInv, LinkChildren
  PROVE  TreeInv'
  <1> DEFINE fs == <<>>
  <1>1. /\ stack # <<>> /\ Top.op = "link" /\ Push(fs)
        /\ SaveGoal(Top.id, [LoadGoal(Top.id) EXCEPT !.children = @ \o Top.kids])
        /\ UNCHANGED <<used, visited, tokens, removed, cut>>
    BY DEF LinkChildren, At, Keeps, Inside, Pop
  <1>2. Top.op \in GrowOps /\ fs \in Seq(AFrame) /\ Len(fs) = 0
    BY <1>1 DEF GrowOps
  <1> HIDE DEF fs
  <1>3. /\ TreeTyped /\ FilesInv /\ Growing /\ Top = stack[1] /\ Top.id \in Ids /\ Top.kids \in Seq(Ids)
        /\ LinkOK(stack, 1) /\ stack \in Seq(AFrame)
    <2>1. TreeTyped /\ FilesInv /\ Growing
      BY <1>1, <1>2, WalkIs DEF TreeInv
    <2> QED
      BY <1>1, <2>1, TopIs, OnTop DEF TreeTyped
  <1>4. PICK x \in Ids : x = Top.id
    BY <1>3
  <1>5. PICK ks \in Seq(Ids) : ks = Top.kids
    BY <1>3
  <1>6. /\ live[x] # NoGoal
        /\ \A c \in Ran(ks) : x < c /\ c <= used /\ ~Gone(c) /\ \A q \in Ids : c \notin Lists(q)
    <2>1. \A c : ~Over(stack, 1, {"save"}, c)
      BY DEF Over
    <2> QED
      BY <1>3, <1>4, <1>5, <2>1 DEF LinkOK
  <1>7. PICK old \in Goal : old = live[x] /\ old = LoadGoal(x)
    BY <1>3, <1>6, Loads DEF LoadGoal
  <1>8. PICK g : g = [old EXCEPT !.children = old.children \o ks]
    OBVIOUS
  <1>9. old.children \in Seq(Ids)
    BY DEF Goal
  <1>10. old.children \o ks \in Seq(Ids) /\ Ran(old.children \o ks) = Ran(old.children) \union Ran(ks)
    BY <1>9, LinkKids
  <1>11. g \in Goal /\ g.parent = old.parent /\ g.children = old.children \o ks /\ g.status = old.status
    BY <1>8, <1>10, Edits
  <1>12. SaveGoal(x, g)
    BY <1>1, <1>4, <1>5, <1>7, <1>8
  <1>13. Kids(g) = Kids(old) \union Ran(ks)
    BY <1>10, <1>11 DEF Kids
  <1>14. Pushed(stack, fs, stack') /\ stack' \in Seq(AFrame)
    BY <1>1, <1>2, <1>3, PushStep
  <1>15. ASSUME NEW y, NEW q, Awaited(stack, y, q), ~(q = x /\ y \in Ran(ks)) PROVE Awaited(stack', y, q)
    BY <1>2, <1>3, <1>4, <1>5, <1>14, <1>15, AwaitedKept
  <1>16. FilesInv'
    BY <1>1, <1>3, <1>6, <1>7, <1>11, <1>12, <1>13, <1>15, LinkKeeps
  <1>17. TreeTyped'
    BY <1>1, <1>3, <1>11, <1>12, <1>14, Saves DEF TreeTyped
  <1>18. live'[x] = g /\ g # NoGoal /\ archive' = archive /\ \A y \in Ids : y # x => live'[y] = live[y]
    BY <1>3, <1>11, <1>12, Saves
  <1>19. Grows
    BY <1>7, <1>13, <1>18 DEF Grows
  <1>20. \A c \in Ran(Top.kids) : ~Gone(c)' /\ Near(c)'
    <2> SUFFICES ASSUME NEW c \in Ran(ks) PROVE ~Gone(c)' /\ Near(c)'
      BY <1>5
    <2>1. c \in Ids
      BY DEF Ran
    <2>2. ~Gone(c)'
      BY <1>6, <1>18, <2>1 DEF Gone
    <2>3. Near(c)'
      BY <1>13, <1>18 DEF Near
    <2> QED
      BY <2>2, <2>3
  <1>21. \A k \in 1 .. Len(fs) : GrowOK(stack, k)'
    BY <1>2
  <1>22. Growing'
    BY <1>1, <1>2, <1>3, <1>19, <1>20, <1>21, GrowStep
  <1> QED
    BY <1>16, <1>17, <1>22 DEF TreeInv

LEMMA SaveChildKeeps ==
  ASSUME TreeInv, SaveChild
  PROVE  TreeInv'
  <1> DEFINE fs == <<>>
  <1>1. /\ stack # <<>> /\ Top.op = "save" /\ Push(fs)
        /\ SaveGoal(Top.id, NewGoal(Top.n, LoadGoal(Top.n).depth + 1))
        /\ UNCHANGED <<used, visited, tokens, removed, cut>>
    BY DEF SaveChild, At, Keeps, Inside, Pop
  <1>2. Top.op \in GrowOps /\ fs \in Seq(AFrame) /\ Len(fs) = 0 /\ Top.op # "link" /\ Top.op # "decompose"
    BY <1>1 DEF GrowOps
  <1> HIDE DEF fs
  <1>3. /\ TreeTyped /\ FilesInv /\ Growing /\ Top = stack[1] /\ Top.id \in Ids
        /\ SaveOK(stack, 1) /\ stack \in Seq(AFrame) /\ 1 \in DOMAIN stack /\ Len(stack) \in Nat
        /\ DOMAIN stack = 1 .. Len(stack)
    <2>1. TreeTyped /\ FilesInv /\ Growing
      BY <1>1, <1>2, WalkIs DEF TreeInv
    <2> QED
      BY <1>1, <2>1, TopIs, OnTop DEF TreeTyped
  <1>4. PICK x \in Ids : x = Top.id
    BY <1>3
  <1>5. PICK m \in DOMAIN stack : stack[m].op = "link" /\ stack[m].id = Top.n /\ x \in Ran(stack[m].kids)
    BY <1>3, <1>4 DEF SaveOK, Awaited
  <1>6. PICK p \in Ids : p = Top.n /\ p = stack[m].id
    BY <1>1, <1>3, <1>5, TopIs
  <1>7. LinkOK(stack, m)
    BY <1>3, <1>5 DEF Growing, GrowOK
  <1>8. /\ live[p] # NoGoal /\ live[p].depth < MaxDepth /\ p < x /\ x <= used
        /\ \A q \in Ids : x \notin Lists(q) /\ \A h \in Copies(q) : h.parent # x
    BY <1>5, <1>6, <1>7 DEF LinkOK
  <1>9. Gone(x) /\ live[x] = NoGoal
    BY <1>3, <1>4 DEF SaveOK, Gone
  <1>10. PICK g : g = NewGoal(p, LoadGoal(p).depth + 1)
    OBVIOUS
  <1>11. g \in Goal /\ g.parent = p /\ g.children = <<>>
    <2>1. LoadGoal(p) = live[p] /\ live[p] \in Goal
      BY <1>3, <1>8, Loads DEF LoadGoal
    <2>2. live[p].depth \in 0 .. MaxDepth /\ MaxDepth \in Nat
      BY <2>1, TreeAssumption DEF Goal
    <2>3. live[p].depth + 1 \in 0 .. MaxDepth
      BY <1>8, <2>2
    <2>4. p \in 0 .. MaxGoals
      BY TreeAssumption DEF Ids
    <2> QED
      BY <1>10, <2>1, <2>3, <2>4 DEF NewGoal, Goal, Statuses
  <1>12. SaveGoal(x, g)
    BY <1>1, <1>4, <1>6, <1>10
  <1>13. /\ Pushed(stack, fs, stack') /\ stack' \in Seq(AFrame)
         /\ \A y, q : Awaited(stack, y, q) => Awaited(stack', y, q)
         /\ \A k \in DOMAIN stack' : \E i \in 2 .. Len(stack) : k = i - 1
    <2>1. \A k \in DOMAIN stack' : \/ k \in 1 .. Len(fs)
                                   \/ \E i \in 2 .. Len(stack) : k = i + Len(fs) - 1
      BY <1>1, <1>2, <1>3, PushStep
    <2>2. \A k \in DOMAIN stack' : \E i \in 2 .. Len(stack) : k = i - 1
      BY <1>2, <2>1
    <2>3. /\ Pushed(stack, fs, stack') /\ stack' \in Seq(AFrame)
          /\ \A y, q : Awaited(stack, y, q) => Awaited(stack', y, q)
      BY <1>1, <1>2, <1>3, PushStep
    <2> QED
      BY <2>2, <2>3
  <1>14. Awaited(stack', x, p)
    <2>1. Awaited(stack, x, p)
      BY <1>5, <1>6 DEF Awaited
    <2> QED
      BY <1>13, <2>1
  <1>15. FilesInv'
    BY <1>1, <1>3, <1>8, <1>9, <1>11, <1>12, <1>13, <1>14, SaveNew
  <1>16. TreeTyped'
    BY <1>1, <1>3, <1>11, <1>12, <1>13, Saves DEF TreeTyped
  <1>17. /\ live'[x] = g /\ g # NoGoal /\ archive' = archive /\ (\A y \in Ids : y # x => live'[y] = live[y])
         /\ Copies(x)' = {g} /\ Lists(x)' = {}
         /\ \A y \in Ids : y # x => (Gone(y)' <=> Gone(y)) /\ Copies(y)' = Copies(y) /\ Lists(y)' = Lists(y)
    <2>1. /\ live'[x] = g /\ g # NoGoal /\ archive' = archive /\ (\A y \in Ids : y # x => live'[y] = live[y])
          /\ \A y \in Ids : y # x => (Gone(y)' <=> Gone(y)) /\ Copies(y)' = Copies(y) /\ Lists(y)' = Lists(y)
      BY <1>3, <1>11, <1>12, Saves
    <2>2. Copies(x)' = {g}
      BY <1>9, <2>1 DEF Copies, Gone
    <2>3. Kids(g) = {}
      BY <1>11 DEF Kids, Ran
    <2>4. Lists(x)' = {}
      BY <2>2, <2>3 DEF Lists
    <2> QED
      BY <2>1, <2>2, <2>4
  <1>18. Grows
    BY <1>9, <1>17 DEF Grows
  <1>19. ASSUME NEW i \in 2 .. Len(stack) PROVE GrowOK(stack, i - 1)'
    <2>1. i + Len(fs) - 1 = i - 1 /\ i \in DOMAIN stack /\ i \in Int /\ i - 1 \in Int
      BY <1>2, <1>3
    <2>2. PICK f : f = stack[i]
      OBVIOUS
    <2>3. stack'[i - 1] = f
      BY <1>13, <2>1, <2>2 DEF Pushed
    <2>4. f.id \in Ids /\ f.kids \in Seq(Ids) /\ GrowOK(stack, i)
      BY <1>1, <1>3, <2>1, <2>2, TopIs DEF Growing
    <2>5. \A j \in 1 .. (i - 1) - 1 : j + 1 \in 1 .. i - 1 /\ j + 1 \in 2 .. Len(stack) /\ stack'[j] = stack[j + 1]
      <3>1. ASSUME NEW j \in 1 .. (i - 1) - 1
            PROVE  j + 1 \in 1 .. i - 1 /\ j + 1 \in 2 .. Len(stack) /\ stack'[j] = stack[j + 1]
        <4>1. j + 1 \in 1 .. i - 1 /\ j + 1 \in 2 .. Len(stack) /\ (j + 1) + Len(fs) - 1 = j
          BY <1>2, <1>3, <2>1
        <4> QED
          BY <1>13, <4>1 DEF Pushed
      <3> QED
        BY <3>1
    <2>6. CASE f.op \notin {"save", "link"}
      <3>1. GrowOK(stack, i + Len(fs) - 1)'
        BY <1>1, <1>2, <1>3, <1>18, <2>2, <2>6, GrowBelow
      <3> QED
        BY <2>1, <3>1
    <2>7. CASE f.op = "save"
      <3>1. Gone(f.id) /\ (\A j \in 1 .. i - 1 : stack[j].op = "save" /\ stack[j].id # f.id)
            /\ Awaited(stack, f.id, f.n)
        BY <2>2, <2>4, <2>7 DEF GrowOK, SaveOK
      <3>2. f.id # x
        BY <1>3, <1>4, <2>1, <3>1
      <3>3. PICK y \in Ids : y = f.id
        BY <2>4
      <3>4. Gone(y)'
        BY <1>17, <3>1, <3>2, <3>3
      <3>5. \A j \in 1 .. (i - 1) - 1 : stack'[j].op = "save" /\ stack'[j].id # y
        BY <2>5, <3>1, <3>3
      <3>6. Awaited(stack', y, f.n)
        BY <1>13, <3>1, <3>3
      <3>7. SaveOK(stack, i - 1)'
        BY <2>3, <3>3, <3>4, <3>5, <3>6 DEF SaveOK
      <3> QED
        BY <2>3, <2>7, <3>7 DEF GrowOK, GrowOps
    <2>8. CASE f.op = "link"
      <3>1. LinkOK(stack, i)
        BY <2>2, <2>4, <2>8 DEF GrowOK
      <3>2. PICK y \in Ids : y = f.id
        BY <2>4
      <3>3. PICK ks \in Seq(Ids) : ks = f.kids
        BY <2>4
      <3>4. live[y] # NoGoal /\ live[y].depth < MaxDepth /\ \A j \in 1 .. i - 1 : stack[j].op = "save"
        BY <2>2, <3>1, <3>2 DEF LinkOK
      <3>5. live'[y] # NoGoal /\ live'[y].depth < MaxDepth
        BY <1>9, <1>17, <3>4
      <3>6. \A j \in 1 .. (i - 1) - 1 : stack'[j].op = "save"
        BY <2>5, <3>4
      \* There is one such frame only, so it is the one that lists the child.
      <3>7. m = i
        <4>1. ~(m < i)
          BY <1>3, <1>5, <3>4
        <4>2. ~(i < m)
          <5>1. ASSUME i < m PROVE FALSE
            <6>1. i \in 1 .. m - 1
              BY <1>3, <2>1, <5>1
            <6> QED
              BY <1>7, <2>2, <2>8, <6>1 DEF LinkOK
          <5> QED
            BY <5>1
        <4> QED
          BY <1>3, <2>1, <4>1, <4>2
      <3>8. p = y
        BY <1>6, <2>2, <3>2, <3>7
      <3>9. ASSUME NEW c \in Ran(ks)
            PROVE  /\ y < c /\ c <= used' /\ (Gone(c)' => Over(stack', i - 1, {"save"}, c))
                   /\ \A q \in Ids : c \notin Lists(q)' /\ \A h \in Copies(q)' : h.parent # c
        <4>1. /\ y < c /\ c <= used /\ (Gone(c) => Over(stack, i, {"save"}, c))
              /\ \A q \in Ids : c \notin Lists(q) /\ \A h \in Copies(q) : h.parent # c
          BY <2>2, <3>1, <3>2, <3>3 DEF LinkOK
        <4>2. c \in Ids /\ c # y
          <5>1. c \in Ids
            BY DEF Ran
          <5> QED
            BY <4>1, <5>1 DEF Ids
        <4>3. Gone(c)' => Over(stack', i - 1, {"save"}, c)
          <5> SUFFICES ASSUME Gone(c)' PROVE Over(stack', i - 1, {"save"}, c)
            OBVIOUS
          <5>1. c # x
            BY <1>17 DEF Gone
          <5>2. Over(stack, i, {"save"}, c)
            BY <1>17, <4>1, <4>2, <5>1
          <5>3. Over(stack', i + Len(fs) - 1, {"save"}, c)
            BY <1>2, <1>3, <1>4, <1>13, <5>1, <5>2, OverKept
          <5> QED
            BY <2>1, <5>3
        <4>4. ASSUME NEW q \in Ids PROVE c \notin Lists(q)' /\ \A h \in Copies(q)' : h.parent # c
          <5>1. CASE q = x
            BY <1>11, <1>17, <3>8, <4>2, <5>1
          <5>2. CASE q # x
            BY <1>17, <4>1, <5>2
          <5> QED
            BY <5>1, <5>2
        <4> QED
          BY <1>1, <4>1, <4>3, <4>4
      <3>10. LinkOK(stack, i - 1)'
        BY <2>3, <3>2, <3>3, <3>5, <3>6, <3>9 DEF LinkOK
      <3> QED
        BY <2>3, <2>8, <3>10 DEF GrowOK, GrowOps
    <2> QED
      BY <2>6, <2>7, <2>8
  <1>20. Growing'
    BY <1>13, <1>19 DEF Growing
  <1> QED
    BY <1>15, <1>16, <1>20 DEF TreeInv

\* A walk that is cut off: the files stay.
LEMMA CutKeeps ==
  ASSUME TreeInv, stack' = <<>>, cut' = TRUE, UNCHANGED <<goalFiles, used, visited, removed, tokens>>
  PROVE  TreeInv'
  <1>1. TreeTyped'
    BY DEF TreeInv, TreeTyped, goalFiles
  <1>2. FilesInv'
    BY DEF TreeInv, FilesInv, goalFiles, Grounded, OneList, BottomUp, Listed, Copies, Lists, Gone
  <1>3. Growing'
    BY DEF Growing
  <1> QED
    BY <1>1, <1>2, <1>3 DEF TreeInv

\* A walk begins with one frame and no goal visited.
LEMMA BeginKeeps ==
  ASSUME TreeInv, NEW op \in AllOps, NEW x \in Ids, Begin(op, x), UNCHANGED goalFiles,
         removed \subseteq removed', removed' \subseteq Ids
  PROVE  /\ TreeTyped' /\ FilesInv' /\ visited' = {} /\ DOMAIN stack' = {1}
         /\ stack'[1].op = op /\ stack'[1].id = x
  <1>1. /\ stack = <<>> /\ stack' = <<Frame(op, x, 0, <<>>)>> /\ visited' = {} /\ tokens' = 0
        /\ UNCHANGED <<used, cut>>
    BY DEF Begin
  <1>2. Frame(op, x, 0, <<>>) \in AFrame /\ Frame(op, x, 0, <<>>).op = op /\ Frame(op, x, 0, <<>>).id = x
    <2>1. <<>> \in Seq(Ids) /\ 0 \in Nat
      OBVIOUS
    <2> QED
      BY <2>1 DEF Frame, AFrame, AllOps
  <1>3. stack' \in Seq(AFrame) /\ DOMAIN stack' = {1} /\ stack'[1].op = op /\ stack'[1].id = x
    BY <1>1, <1>2
  <1>4. TreeTyped'
    BY <1>1, <1>3 DEF TreeInv, TreeTyped, goalFiles
  <1>5. \A y, q : ~Awaited(stack, y, q)
    BY <1>1 DEF Awaited
  <1>6. FilesInv'
    BY <1>1, <1>5, FilesSame DEF TreeInv, goalFiles
  <1> QED
    BY <1>1, <1>3, <1>4, <1>6

LEMMA StartRefineKeeps ==
  ASSUME TreeInv, NEW x \in Ids, StartRefine(x)
  PROVE  TreeInv'
  <1>1. live[x] # NoGoal /\ Begin("refine", x) /\ UNCHANGED goalFiles /\ removed' = removed
    BY DEF StartRefine
  <1>2. "refine" \in AllOps /\ "refine" \in GrowOps /\ removed' \subseteq Ids
    BY <1>1 DEF AllOps, GrowOps, TreeInv, TreeTyped
  <1>3. /\ TreeTyped' /\ FilesInv' /\ DOMAIN stack' = {1} /\ stack'[1].op = "refine" /\ stack'[1].id = x
    BY <1>1, <1>2, BeginKeeps
  <1>4. Near(x)'
    BY <1>1 DEF Near, goalFiles
  <1>5. GrowOK(stack, 1)'
    BY <1>2, <1>3, <1>4 DEF GrowOK
  <1> QED
    BY <1>3, <1>5 DEF TreeInv, Growing

LEMMA StartArchiveKeeps ==
  ASSUME TreeInv, NEW x \in Ids, StartArchive(x)
  PROVE  TreeInv'
  <1>1. Begin("archive", x) /\ UNCHANGED goalFiles /\ removed' = removed
    BY DEF StartArchive
  <1>2. "archive" \in AllOps /\ "archive" \in ArchiveOps /\ removed' \subseteq Ids
    BY <1>1 DEF AllOps, ArchiveOps, TreeInv, TreeTyped
  <1>3. /\ TreeTyped' /\ FilesInv' /\ visited' = {} /\ DOMAIN stack' = {1} /\ stack'[1].op = "archive"
    BY <1>1, <1>2, BeginKeeps
  <1>4. Taking'
    BY <1>3 DEF Taking, TakeOK, Downward, Visits
  <1>5. ArchiveOK(stack, 1)'
    BY <1>2, <1>3 DEF ArchiveOK
  <1> QED
    BY <1>3, <1>4, <1>5 DEF TreeInv, Archiving

LEMMA StartDeleteKeeps ==
  ASSUME TreeInv, NEW x \in Ids, StartDelete(x)
  PROVE  TreeInv'
  <1>1. Begin("delete", x) /\ UNCHANGED goalFiles /\ removed' = removed \union {x}
    BY DEF StartDelete
  <1>2. "delete" \in AllOps /\ "delete" \in DeleteOps /\ removed' \subseteq Ids
    BY <1>1 DEF AllOps, DeleteOps, TreeInv, TreeTyped
  <1>3. /\ TreeTyped' /\ FilesInv' /\ visited' = {} /\ DOMAIN stack' = {1} /\ stack'[1].op = "delete"
    BY <1>1, <1>2, BeginKeeps
  <1>4. Taking'
    BY <1>3 DEF Taking, TakeOK, Downward, Visits
  <1>5. DeleteOK(stack, 1)'
    BY <1>2, <1>3 DEF DeleteOK
  <1> QED
    BY <1>3, <1>4, <1>5 DEF TreeInv, Deleting

LEMMA StartPruneKeeps ==
  ASSUME TreeInv, NEW x \in Ids, StartPrune(x)
  PROVE  TreeInv'
  <1>1. /\ live[x] # NoGoal /\ x # Root /\ (\A y \in Drawn : archive[y] = NoGoal)
        /\ Begin("prune", x) /\ UNCHANGED goalFiles /\ removed' = removed
    BY DEF StartPrune
  <1>2. "prune" \in AllOps /\ "prune" \in PruneOps /\ removed' \subseteq Ids
    BY <1>1 DEF AllOps, PruneOps, TreeInv, TreeTyped
  <1>3. /\ TreeTyped' /\ FilesInv' /\ DOMAIN stack' = {1} /\ stack'[1].op = "prune" /\ stack'[1].id = x
    BY <1>1, <1>2, BeginKeeps
  <1>4. ASSUME NEW y \in Ids PROVE archive'[y] = NoGoal
    <2>1. archive[y] # NoGoal => y <= used
      <3>1. archive[y] # NoGoal => archive[y] \in Copies(y)
        BY DEF Copies
      <3> QED
        BY <3>1 DEF TreeInv, FilesInv, Grounded
    <2>2. used \in Ids
      BY DEF TreeInv, TreeTyped
    <2> QED
      BY <1>1, <2>1, <2>2 DEF Drawn, Ids, goalFiles
  <1>5. PruneOK(stack, 1)'
    BY <1>1, <1>2, <1>3 DEF PruneOK, goalFiles
  <1> QED
    BY <1>3, <1>4, <1>5 DEF TreeInv, Pruning

LEMMA WorkKeeps ==
  ASSUME TreeInv, Work
  PROVE  TreeInv'
  <1>1. /\ stack = <<>> /\ stack' = stack /\ side' = [side EXCEPT ![Root] = "live"]
        /\ UNCHANGED <<live, archive, used, visited, tokens, removed, cut>>
    BY DEF Work, walk
  <1>2. TreeTyped'
    BY <1>1 DEF TreeInv, TreeTyped
  <1>3. FilesInv'
    BY <1>1, FilesSame DEF TreeInv
  <1>4. Growing'
    BY <1>1 DEF Growing
  <1> QED
    BY <1>2, <1>3, <1>4 DEF TreeInv

LEMMA RewriteKeeps ==
  ASSUME TreeInv, Rewrite
  PROVE  TreeInv'
  <1> DEFINE g == [archive[Root] EXCEPT !.status = "active"]
  <1>1. /\ stack = <<>> /\ stack' = stack /\ live[Root] = NoGoal /\ archive[Root] # NoGoal
        /\ SaveGoal(Root, g) /\ UNCHANGED <<used, visited, tokens, removed, cut>>
    BY DEF Rewrite, walk
  <1>2. Root \in Ids /\ TreeTyped /\ FilesInv
    BY TreeAssumption DEF Ids, Root, TreeInv
  <1>3. LoadGoal(Root) = archive[Root] /\ archive[Root] \in Goal
    BY <1>1, <1>2, Loads DEF LoadGoal
  <1>4. g \in Goal /\ g.parent = LoadGoal(Root).parent /\ g.children = LoadGoal(Root).children
    <2>1. "active" \in Statuses
      BY DEF Statuses
    <2>2. PICK old \in Goal : old = archive[Root]
      BY <1>3
    <2>3. PICK h : h = [old EXCEPT !.status = "active"]
      OBVIOUS
    <2>4. h \in Goal /\ h.parent = old.parent /\ h.children = old.children
      BY <2>1, <2>3, Edits
    <2>5. g = h
      BY <2>2, <2>3
    <2> QED
      BY <1>3, <2>2, <2>4, <2>5
  <1> HIDE DEF g
  <1>5. TreeTyped'
    BY <1>1, <1>2, <1>4, Saves DEF TreeTyped
  <1>6. NotBelow(Root)
    BY <1>2, RootNotBelow DEF FilesInv
  <1>7. used' \in Nat /\ used <= used'
    BY <1>1, <1>2 DEF TreeTyped, Ids
  <1>8. Grounded' /\ OneList' /\ BottomUp' /\ SameLoads
    BY <1>1, <1>2, <1>3, <1>4, <1>6, <1>7, SaveSame DEF FilesInv
  <1>9. Listed'
    BY <1>1, <1>2, <1>8, ListedKept DEF FilesInv
  <1>10. Growing'
    BY <1>1 DEF Growing
  <1> QED
    BY <1>5, <1>8, <1>9, <1>10 DEF TreeInv, FilesInv

-----------------------------------------------------------------------------
(* Pruning *)

\* Where no link is under way nothing waits to be listed.
LEMMA NothingAwaited ==
  ASSUME TreeTyped, Pruning \/ Archiving \/ Deleting
  PROVE  (\A y, q : ~Awaited(stack, y, q)) /\ (stack # <<>> => Top.op # "link")
  <1>1. \A i \in DOMAIN stack : stack[i].op \in PruneOps \union ArchiveOps \union DeleteOps
    BY DEF Pruning, Archiving, Deleting, PruneOK, ArchiveOK, DeleteOK
  <1>2. \A i \in DOMAIN stack : stack[i].op # "link"
    BY <1>1 DEF PruneOps, ArchiveOps, DeleteOps
  <1>3. stack # <<>> => Top = stack[1] /\ 1 \in DOMAIN stack
    BY TopIs
  <1> QED
    BY <1>2, <1>3 DEF Awaited

\* Live goals stay, and a cancelled one stays cancelled.
PruneStep ==
    /\ \A x \in Ids : archive'[x] = NoGoal
    /\ \A x \in Ids : live[x] # NoGoal =>
         live'[x] # NoGoal /\ (live[x].status = "cancelled" => live'[x].status = "cancelled")

\* The frames of a step that prunes.
LEMMA PruneFrames ==
  ASSUME TreeTyped, Pruning, stack # <<>>, NEW fs \in Seq(AFrame), Push(fs), PruneStep,
         \A k \in 1 .. Len(fs) : PruneOK(stack, k)',
         Top.op \in {"cancel", "cancelled"} /\ live[Top.id] # NoGoal =>
             \/ live'[Top.id].status = "cancelled"
             \/ \E j \in 1 .. Len(fs) : fs[j].op \in {"cancel", "cancelled"} /\ fs[j].id = Top.id
  PROVE  Pruning'
  <1>1. ASSUME NEW i \in 2 .. Len(stack) PROVE PruneOK(stack, i + Len(fs) - 1)'
    <2>1. /\ stack \in Seq(AFrame) /\ stack' \in Seq(AFrame) /\ Pushed(stack, fs, stack')
          /\ Top = stack[1] /\ i \in DOMAIN stack
      BY PushStep, TopIs DEF TreeTyped
    <2> DEFINE k == i + Len(fs) - 1
    <2>2. PICK f : f = stack[i]
      OBVIOUS
    <2>3. stack'[k] = f /\ f.id \in Ids /\ PruneOK(stack, i)
      BY <2>1, <2>2, TopIs DEF Pushed, Pruning
    <2>4. f.op \in {"prune", "cancelled", "unlink"} => live'[f.id] # NoGoal
      BY <2>2, <2>3 DEF PruneOK, PruneStep
    <2>5. f.op = "unlink" =>
            live'[f.id].status = "cancelled" \/ Over(stack', k, {"cancel", "cancelled"}, f.id)
      <3> SUFFICES ASSUME f.op = "unlink", live'[f.id].status # "cancelled"
                   PROVE  Over(stack', k, {"cancel", "cancelled"}, f.id)
        OBVIOUS
      <3>1. live[f.id] # NoGoal
        BY <2>2, <2>3 DEF PruneOK
      <3>2. Over(stack, i, {"cancel", "cancelled"}, f.id)
        BY <2>2, <2>3, <3>1 DEF PruneOK, PruneStep
      <3>3. CASE Top.op \in {"cancel", "cancelled"} /\ Top.id = f.id
        <4>1. PICK j \in 1 .. Len(fs) : fs[j].op \in {"cancel", "cancelled"} /\ fs[j].id = f.id
          BY <3>1, <3>3
        <4> QED
          BY <2>1, <4>1, OverNew
      <3>4. CASE ~(Top.op \in {"cancel", "cancelled"} /\ Top.id = f.id)
        BY <2>1, <3>2, <3>4, OverKept
      <3> QED
        BY <3>3, <3>4
    <2> HIDE DEF k
    <2> QED
      BY <2>2, <2>3, <2>4, <2>5 DEF PruneOK, k
  <1>2. ASSUME NEW k \in DOMAIN stack' PROVE PruneOK(stack, k)'
    <2>1. CASE k \in 1 .. Len(fs)
      BY <2>1
    <2>2. CASE k \notin 1 .. Len(fs)
      <3>1. PICK i \in 2 .. Len(stack) : k = i + Len(fs) - 1
        BY <2>2, PushStep
      <3> QED
        BY <1>1, <3>1
    <2> QED
      BY <2>1, <2>2
  <1> QED
    BY <1>2 DEF Pruning, PruneStep

LEMMA PruneKeeps ==
  ASSUME TreeInv, Prune
  PROVE  TreeInv'
  <1> DEFINE c == Frame("cancel", Top.id, 0, <<>>)
             u == Frame("unlink", Top.id, 0, <<>>)
             fs == <<c, u>>
  <1>1. /\ stack # <<>> /\ Top.op = "prune" /\ Push(fs)
        /\ UNCHANGED <<goalFiles, used, visited, removed, cut, tokens>>
    BY DEF Prune, At, Keeps, Inside
  <1>2. /\ TreeTyped /\ FilesInv /\ Pruning /\ Top.id \in Ids /\ live[Top.id] # NoGoal /\ Top.id # Root
        /\ Top.op # "link"
    <2>1. TreeTyped /\ FilesInv /\ Pruning /\ Top.id \in Ids /\ Top = stack[1] /\ 1 \in DOMAIN stack
      BY <1>1, WalkIs, TopIs DEF TreeInv, PruneOps
    <2> QED
      BY <1>1, <2>1 DEF Pruning, PruneOK
  <1>3. "cancel" \in AllOps /\ "unlink" \in AllOps /\ <<>> \in Seq(Ids) /\ 0 \in Nat
    BY DEF AllOps, PruneOps
  <1>4. c \in AFrame /\ u \in AFrame /\ c.op = "cancel" /\ c.id = Top.id /\ u.op = "unlink" /\ u.id = Top.id
    BY <1>2, <1>3 DEF Frame, AFrame, AllOps
  <1> HIDE DEF c, u
  <1>5. fs \in Seq(AFrame) /\ Len(fs) = 2 /\ fs[1] = c /\ fs[2] = u
    BY <1>4
  <1> HIDE DEF fs
  <1>6. /\ stack' \in Seq(AFrame) /\ stack'[1] = c /\ stack'[2] = u
        /\ \A y, q : Awaited(stack, y, q) => Awaited(stack', y, q)
    <2>1. Pushed(stack, fs, stack') /\ stack' \in Seq(AFrame)
      BY <1>1, <1>2, <1>5, PushStep
    <2>2. 1 \in 1 .. Len(fs) /\ 2 \in 1 .. Len(fs)
      BY <1>5
    <2>3. \A y, q : Awaited(stack, y, q) => Awaited(stack', y, q)
      BY <1>1, <1>2, <1>5, PushStep
    <2> QED
      BY <1>5, <2>1, <2>2, <2>3 DEF Pushed
  <1>7. TreeTyped' /\ FilesInv'
    <2>1. TreeTyped'
      BY <1>1, <1>2, <1>6 DEF TreeTyped, goalFiles
    <2> QED
      BY <1>1, <1>2, <1>6, <2>1, FilesSame DEF goalFiles
  <1>8. PruneOK(stack, 1)'
    BY <1>4, <1>6 DEF PruneOK, PruneOps
  <1>9. PruneOK(stack, 2)'
    <2>1. Over(stack', 2, {"cancel", "cancelled"}, Top.id)
      <3>1. 1 \in 1 .. 2 - 1
        OBVIOUS
      <3> QED
        BY <1>4, <1>6, <3>1 DEF Over
    <2>2. live'[Top.id] # NoGoal
      BY <1>1, <1>2 DEF goalFiles
    <2>3. PICK x : x = Top.id
      OBVIOUS
    <2> QED
      BY <1>2, <1>4, <1>6, <2>1, <2>2, <2>3 DEF PruneOK, PruneOps
  <1>10. \A k \in 1 .. Len(fs) : PruneOK(stack, k)'
    <2>1. \A k \in 1 .. Len(fs) : k = 1 \/ k = 2
      BY <1>5
    <2> QED
      BY <1>8, <1>9, <2>1
  <1>11. PruneStep
    BY <1>1, <1>2 DEF PruneStep, Pruning, goalFiles
  <1>12. Pruning'
    BY <1>1, <1>2, <1>5, <1>10, <1>11, PruneFrames
  <1> QED
    BY <1>7, <1>12 DEF TreeInv

LEMMA CancelKeeps ==
  ASSUME TreeInv, CancelGoalAndDescendants
  PROVE  TreeInv'
  <1> DEFINE g == LoadGoal(Top.id)
             kids == Frames("cancel", g.children, 0)
             last == Frame("cancelled", Top.id, 0, <<>>)
             fs == IF g = NoGoal THEN <<>> ELSE kids \o <<last>>
  <1>1. /\ stack # <<>> /\ Top.op = "cancel" /\ Push(fs)
        /\ UNCHANGED <<goalFiles, used, visited, removed, cut, tokens>>
    BY DEF CancelGoalAndDescendants, At, Keeps, Inside, Pop
  <1>2. TreeTyped /\ FilesInv /\ Pruning /\ Top.id \in Ids /\ Top.op # "link"
    BY <1>1, WalkIs, TopIs DEF TreeInv, PruneOps
  <1>3. \A y \in Ids : archive[y] = NoGoal
    BY <1>2 DEF Pruning
  <1>4. "cancel" \in AllOps /\ "cancelled" \in AllOps /\ <<>> \in Seq(Ids) /\ 0 \in Nat
    BY DEF AllOps, PruneOps
  <1>5. last \in AFrame /\ last.op = "cancelled" /\ last.id = Top.id
    BY <1>2, <1>4 DEF Frame, AFrame, AllOps
  <1>6. g # NoGoal => live[Top.id] # NoGoal /\ kids \in Seq(AFrame) /\ \A i \in 1 .. Len(kids) : kids[i].op = "cancel"
    <2> SUFFICES ASSUME g # NoGoal
                 PROVE  live[Top.id] # NoGoal /\ kids \in Seq(AFrame) /\ \A i \in 1 .. Len(kids) : kids[i].op = "cancel"
      OBVIOUS
    <2>1. live[Top.id] # NoGoal /\ g \in Goal
      BY <1>2, <1>3, Loads DEF LoadGoal
    <2>2. PICK ks \in Seq(Ids) : ks = g.children
      BY <2>1 DEF Goal
    <2>3. /\ Frames("cancel", ks, 0) \in Seq(AFrame)
          /\ \A i \in 1 .. Len(Frames("cancel", ks, 0)) : Frames("cancel", ks, 0)[i].op = "cancel"
      <3>1. /\ Frames("cancel", ks, 0) \in Seq(AFrame) /\ Len(Frames("cancel", ks, 0)) = Len(ks)
            /\ \A i \in 1 .. Len(ks) : Frames("cancel", ks, 0)[i].op = "cancel"
        BY <1>4, FramesAre
      <3> QED
        BY <3>1
    <2>4. kids = Frames("cancel", ks, 0)
      BY <2>2
    <2> HIDE DEF kids
    <2> QED
      BY <2>1, <2>3, <2>4
  <1> HIDE DEF last, kids
  <1>7. /\ fs \in Seq(AFrame)
        /\ \A k \in 1 .. Len(fs) : fs[k].op = "cancel" \/ fs[k] = last
        /\ g # NoGoal => Len(fs) \in 1 .. Len(fs) /\ fs[Len(fs)] = last
    <2>1. CASE g = NoGoal
      BY <2>1
    <2>2. CASE g # NoGoal
      <3>1. fs = kids \o <<last>> /\ kids \in Seq(AFrame)
        BY <1>6, <2>2
      <3>2. /\ fs \in Seq(AFrame) /\ Len(fs) = Len(kids) + 1 /\ Len(kids) \in Nat /\ fs[Len(kids) + 1] = last
            /\ \A i \in 1 .. Len(kids) : fs[i] = kids[i]
        BY <1>5, <3>1
      <3>3. \A k \in 1 .. Len(fs) : k \in 1 .. Len(kids) \/ k = Len(kids) + 1
        BY <3>2
      <3>4. Len(fs) \in 1 .. Len(fs)
        BY <3>2
      <3> QED
        BY <1>6, <2>2, <3>2, <3>3, <3>4
    <2> QED
      BY <2>1, <2>2
  <1> HIDE DEF fs
  <1>8. Pushed(stack, fs, stack') /\ stack' \in Seq(AFrame) /\ \A y, q : Awaited(stack, y, q) => Awaited(stack', y, q)
    BY <1>1, <1>2, <1>7, PushStep
  <1>9. TreeTyped' /\ FilesInv'
    <2>1. TreeTyped'
      BY <1>1, <1>2, <1>8 DEF TreeTyped, goalFiles
    <2> QED
      BY <1>1, <1>2, <1>8, <2>1, FilesSame DEF goalFiles
  <1>10. PruneStep
    BY <1>1, <1>3 DEF PruneStep, goalFiles
  <1>11. ASSUME NEW k \in 1 .. Len(fs) PROVE PruneOK(stack, k)'
    <2>1. stack'[k] = fs[k]
      BY <1>8 DEF Pushed
    <2>2. CASE fs[k].op = "cancel"
      BY <2>1, <2>2 DEF PruneOK, PruneOps
    <2>3. CASE fs[k] = last
      <3>1. g # NoGoal
        <4>1. CASE g = NoGoal
          BY <4>1 DEF fs
        <4> QED
          BY <4>1
      <3>2. live'[Top.id] # NoGoal
        BY <1>1, <1>6, <3>1 DEF goalFiles
      <3>3. PICK x : x = Top.id
        OBVIOUS
      <3> QED
        BY <1>5, <2>1, <2>3, <3>2, <3>3 DEF PruneOK, PruneOps
    <2> QED
      BY <1>7, <2>2, <2>3
  <1>12. live[Top.id] # NoGoal =>
           \E j \in 1 .. Len(fs) : fs[j].op \in {"cancel", "cancelled"} /\ fs[j].id = Top.id
    BY <1>5, <1>7 DEF LoadGoal
  <1>13. Pruning'
    BY <1>1, <1>2, <1>7, <1>10, <1>11, <1>12, PruneFrames
  <1> QED
    BY <1>9, <1>13 DEF TreeInv

LEMMA CancelledKeeps ==
  ASSUME TreeInv, Cancelled
  PROVE  TreeInv'
  <1> DEFINE fs == <<>>
  <1>1. /\ stack # <<>> /\ Top.op = "cancelled" /\ Push(fs)
        /\ SaveGoal(Top.id, [LoadGoal(Top.id) EXCEPT !.status = "cancelled"])
        /\ UNCHANGED <<used, visited, removed, cut, tokens>>
    BY DEF Cancelled, At, Keeps, Inside, Pop
  <1>2. fs \in Seq(AFrame) /\ Len(fs) = 0
    OBVIOUS
  <1> HIDE DEF fs
  <1>3. /\ TreeTyped /\ FilesInv /\ Pruning /\ Top.id \in Ids /\ live[Top.id] # NoGoal /\ Top.op # "link"
    <2>1. TreeTyped /\ FilesInv /\ Pruning /\ Top.id \in Ids /\ Top = stack[1] /\ 1 \in DOMAIN stack
      BY <1>1, WalkIs, TopIs DEF TreeInv, PruneOps
    <2> QED
      BY <1>1, <2>1 DEF Pruning, PruneOK
  <1>4. PICK x \in Ids : x = Top.id
    BY <1>3
  <1>5. PICK old \in Goal : old = LoadGoal(x) /\ old = live[x]
    BY <1>3, <1>4, Loads DEF LoadGoal
  <1>6. PICK g : g = [old EXCEPT !.status = "cancelled"]
    OBVIOUS
  <1>7. g \in Goal /\ g.parent = old.parent /\ g.children = old.children /\ g.status = "cancelled"
    <2>1. "cancelled" \in Statuses
      BY DEF Statuses
    <2> QED
      BY <1>6, <2>1, Edits
  <1>8. SaveGoal(x, g) /\ LoadGoal(x) # NoGoal /\ NotBelow(x)
    <2>1. LoadGoal(x) # NoGoal
      BY <1>5, NoGoalAssumption
    <2>2. NotBelow(x)
      BY <1>3, <1>4, NearNotBelow DEF FilesInv, Near
    <2> QED
      BY <1>1, <1>4, <1>5, <1>6, <2>1, <2>2
  <1>9. used' \in Ids /\ used <= used' /\ tokens' \in Nat
    BY <1>1, <1>3 DEF TreeTyped, Ids
  <1>10. TreeTyped' /\ FilesInv' /\ live'[x] = g /\ g # NoGoal
    BY <1>1, <1>2, <1>3, <1>5, <1>7, <1>8, <1>9, GrowSave
  <1>11. PruneStep
    <2>1. archive' = archive /\ \A y \in Ids : y # x => live'[y] = live[y]
      BY <1>3, <1>7, <1>8, Saves
    <2> QED
      BY <1>3, <1>7, <1>10, <2>1 DEF PruneStep, Pruning
  <1>12. live'[Top.id].status = "cancelled"
    BY <1>4, <1>7, <1>10
  <1>13. \A k \in 1 .. Len(fs) : PruneOK(stack, k)'
    BY <1>2
  <1>14. Pruning'
    BY <1>1, <1>2, <1>3, <1>11, <1>12, <1>13, PruneFrames
  <1> QED
    BY <1>10, <1>14 DEF TreeInv

LEMMA UnlinkStepKeeps ==
  ASSUME TreeInv, Unlink
  PROVE  TreeInv'
  <1> DEFINE fs == <<>>
  <1>1. /\ stack # <<>> /\ Top.op = "unlink" /\ Push(fs)
        /\ UNCHANGED <<used, visited, removed, cut, tokens>>
    BY DEF Unlink, At, Keeps, Inside, Pop
  <1>2. fs \in Seq(AFrame) /\ Len(fs) = 0
    OBVIOUS
  <1> HIDE DEF fs
  <1>3. /\ TreeTyped /\ FilesInv /\ Pruning /\ Top.id \in Ids /\ live[Top.id] # NoGoal /\ Top.op # "link"
        /\ Top.id # Root /\ live[Top.id].status = "cancelled"
    <2>1. TreeTyped /\ FilesInv /\ Pruning /\ Top.id \in Ids /\ Top = stack[1] /\ 1 \in DOMAIN stack
      BY <1>1, WalkIs, TopIs DEF TreeInv, PruneOps
    <2>2. ~Over(stack, 1, {"cancel", "cancelled"}, Top.id)
      BY DEF Over
    <2> QED
      BY <1>1, <2>1, <2>2 DEF Pruning, PruneOK
  <1>4. PICK x \in Ids : x = Top.id
    BY <1>3
  <1>5. LoadGoal(x) = live[x] /\ live[x] \in Goal /\ live[x] \in Copies(x)
    BY <1>3, <1>4, Loads DEF LoadGoal, Copies
  <1>6. PICK p \in Ids : p = LoadGoal(x).parent /\ p < x
    <2>1. live[x].parent \in 0 .. MaxGoals
      BY <1>5 DEF Goal
    <2>2. live[x].parent # 0 /\ live[x].parent < x
      BY <1>3, <1>4, <1>5 DEF FilesInv, Grounded
    <2> QED
      BY <1>5, <2>1, <2>2, TreeAssumption DEF Ids
  <1>7. \A y \in Ids : archive[y] = NoGoal
    BY <1>3 DEF Pruning
  <1>8. \/ LoadGoal(p) = NoGoal /\ UNCHANGED goalFiles
        \/ LoadGoal(p) # NoGoal /\ SaveGoal(p, [LoadGoal(p) EXCEPT !.children = Without(@, x)])
    BY <1>4, <1>6 DEF Unlink
  <1>9. /\ stack' \in Seq(AFrame) /\ \A y, q : Awaited(stack, y, q) => Awaited(stack', y, q)
    BY <1>1, <1>2, <1>3, PushStep
  <1>10. TreeTyped' /\ FilesInv' /\ PruneStep
    <2>1. CASE UNCHANGED goalFiles
      <3>1. TreeTyped'
        BY <1>1, <1>3, <1>9, <2>1 DEF TreeTyped, goalFiles
      <3>2. FilesInv'
        BY <1>1, <1>3, <1>9, <2>1, FilesSame DEF goalFiles
      <3>3. PruneStep
        BY <1>7, <2>1 DEF PruneStep, goalFiles
      <3> QED
        BY <3>1, <3>2, <3>3
    <2>2. CASE LoadGoal(p) # NoGoal /\ SaveGoal(p, [LoadGoal(p) EXCEPT !.children = Without(@, x)])
      <3>1. PICK old \in Goal : old = LoadGoal(p) /\ old = live[p]
        BY <1>3, <1>7, <2>2, Loads DEF LoadGoal
      <3>2. PICK g : g = [old EXCEPT !.children = Without(old.children, x)]
        OBVIOUS
      <3>3. old.children \in Seq(Ids)
        BY DEF Goal
      <3>4. Without(old.children, x) \in Seq(Ids) /\ Ran(Without(old.children, x)) = Ran(old.children) \ {x}
        BY <3>3, WithoutIs
      <3>5. /\ g \in Goal /\ g.parent = old.parent /\ g.children = Without(old.children, x)
            /\ g.status = old.status
        BY <3>2, <3>4, Edits
      <3>6. Kids(g) = Kids(old) \ {x}
        BY <3>4, <3>5 DEF Kids
      <3>7. SaveGoal(p, g)
        BY <2>2, <3>1, <3>2
      <3>8. live[p] # NoGoal /\ live[x] # NoGoal /\ live[x].status = "cancelled"
        BY <1>3, <1>4, <3>1, NoGoalAssumption
      <3>9. FilesInv'
        BY <1>1, <1>3, <1>6, <1>7, <1>9, <3>1, <3>5, <3>6, <3>7, <3>8, UnlinkKeeps
      <3>10. TreeTyped'
        BY <1>1, <1>3, <1>9, <3>5, <3>7, Saves DEF TreeTyped
      <3>11. PruneStep
        <4>1. archive' = archive /\ live'[p] = g /\ g # NoGoal /\ \A y \in Ids : y # p => live'[y] = live[y]
          BY <1>3, <3>5, <3>7, Saves
        <4> QED
          BY <1>7, <3>1, <3>5, <4>1 DEF PruneStep
      <3> QED
        BY <3>9, <3>10, <3>11
    <2> QED
      BY <1>8, <2>1, <2>2
  <1>11. \A k \in 1 .. Len(fs) : PruneOK(stack, k)'
    BY <1>2
  <1>12. Pruning'
    BY <1>1, <1>2, <1>3, <1>10, <1>11, PruneFrames
  <1> QED
    BY <1>10, <1>12 DEF TreeInv

-----------------------------------------------------------------------------
(* Archiving and deleting *)

Covers(fs, x) == \E j \in 1 .. Len(fs) : fs[j].op \in {"copy", "remove"} /\ fs[j].id = x

\* Below the top of a walk that takes goals away stand goals of smaller ids.
LEMMA TopDown ==
  ASSUME TreeTyped, Taking, stack # <<>>, Top.op \in TakeOps, NEW i \in 2 .. Len(stack),
         stack[i].op \in {"copy", "remove"}
  PROVE  \/ stack[i].id < Top.id
         \/ i = 2 /\ Top.op = "copy" /\ stack[i].op = "remove" /\ stack[i].id = Top.id
  <1>1. Top = stack[1] /\ Len(stack) \in Nat /\ Top.id \in Ids /\ i \in DOMAIN stack /\ stack[i].id \in Ids
    <2>1. stack \in Seq(AFrame)
      BY DEF TreeTyped
    <2>2. i \in DOMAIN stack
      BY <2>1
    <2> QED
      BY <2>2, TopIs
  <1>2. 1 \in 1 .. i - 1
    BY <1>1
  <1>3. \/ stack[1].id > stack[i].id
        \/ i = 1 + 1 /\ stack[1].op = "copy" /\ stack[i].op = "remove" /\ stack[1].id = stack[i].id
    BY <1>1, <1>2 DEF Taking, Downward
  <1> QED
    BY <1>1, <1>3 DEF Ids

\* A goal that is come to again is gone.
LEMMA VisitedGone ==
  ASSUME TreeTyped, Taking, stack # <<>>, Top.op \in {"archive", "delete"}, Top.id \in visited
  PROVE  live[Top.id] = NoGoal
  <1> SUFFICES ASSUME live[Top.id] # NoGoal PROVE FALSE
    OBVIOUS
  <1>1. Top = stack[1] /\ Len(stack) \in Nat /\ Top.id \in Ids /\ stack \in Seq(AFrame)
    BY TopIs DEF TreeTyped
  <1>2. PICK i \in DOMAIN stack : stack[i].op \in {"copy", "remove"} /\ stack[i].id = Top.id
    BY DEF Taking, Visits
  <1>3. i # 1 /\ i \in 1 .. Len(stack)
    BY <1>1, <1>2
  <1>4. i \in 2 .. Len(stack)
    BY <1>1, <1>3
  <1>5. Top.op \in TakeOps
    BY DEF TakeOps
  <1>6. stack[i].id < Top.id
    BY <1>2, <1>4, <1>5, TopDown
  <1> QED
    BY <1>1, <1>2, <1>6 DEF Ids

\* Goals only go; those whose frames stand below stay, and the goal on top is gone
\* or has its frames.
TakeStep(fs) ==
    /\ \A y \in Ids : live'[y] = live[y] \/ live'[y] = NoGoal
    /\ \A i \in 2 .. Len(stack) : stack[i].op \in {"copy", "remove"} => live'[stack[i].id] = live[stack[i].id]
    /\ Top.op \in TakeOps =>
         \/ live'[Top.id] = NoGoal \/ Covers(fs, Top.id)
         \/ 2 \in DOMAIN stack /\ Stands(stack, 2, "remove", Top.id)
    /\ visited \subseteq visited'
    /\ \A y \in visited' : y \in visited \/ (Top.op \in TakeOps /\ y = Top.id)

\* What is pushed stands over goals of smaller ids.
Deeper(fs) ==
    /\ Downward(fs)
    /\ \A j \in 1 .. Len(fs) :
         fs[j].op \in TakeOps => Top.op \in {"archive", "delete"} /\ fs[j].id >= Top.id

LEMMA TakeBelow ==
  ASSUME TreeTyped, Grounded, Taking, stack # <<>>, NEW fs \in Seq(AFrame), Push(fs), TakeStep(fs),
         NEW i \in 2 .. Len(stack)
  PROVE  TakeOK(stack, i + Len(fs) - 1)'
  <1>1. /\ stack \in Seq(AFrame) /\ stack' \in Seq(AFrame) /\ Pushed(stack, fs, stack')
        /\ Top = stack[1] /\ i \in DOMAIN stack /\ Len(stack) \in Nat /\ Len(fs) \in Nat
    BY PushStep, TopIs DEF TreeTyped
  <1> DEFINE k == i + Len(fs) - 1
  <1>2. PICK f : f = stack[i]
    OBVIOUS
  <1>3. stack'[k] = f /\ f.id \in Ids /\ TakeOK(stack, i)
    BY <1>1, <1>2, TopIs DEF Pushed, Taking
  <1> SUFFICES ASSUME f.op \in {"copy", "remove"}
               PROVE  /\ f.id \in visited' /\ live'[f.id] # NoGoal
                      /\ \A c \in Kids(live'[f.id]) : live'[c] = NoGoal \/ Over(stack', k, TakeOps, c)
    BY <1>3 DEF TakeOK
  <1>4. f.id \in visited /\ live[f.id] # NoGoal /\ live'[f.id] = live[f.id] /\ visited \subseteq visited'
    BY <1>2, <1>3 DEF TakeOK, TakeStep
  <1>5. ASSUME NEW c \in Kids(live[f.id]), live'[c] # NoGoal PROVE Over(stack', k, TakeOps, c)
    <2>1. live[f.id] \in Copies(f.id)
      BY <1>4 DEF Copies
    <2>2. c \in Ids /\ f.id < c
      BY <1>3, <2>1, Loads DEF Grounded
    <2>3. live[c] # NoGoal
      BY <1>5, <2>2 DEF TakeStep
    <2>4. Over(stack, i, TakeOps, c)
      BY <1>2, <1>3, <2>3 DEF TakeOK
    <2>5. CASE Top.op \in TakeOps /\ Top.id = c
      <3>1. Covers(fs, c) \/ (2 \in DOMAIN stack /\ Stands(stack, 2, "remove", c))
        BY <1>5, <2>5 DEF TakeStep
      <3>2. CASE Covers(fs, c)
        <4>1. PICK j \in 1 .. Len(fs) : fs[j].op \in {"copy", "remove"} /\ fs[j].id = c
          BY <3>2 DEF Covers
        <4>2. fs[j].op \in TakeOps
          BY <4>1 DEF TakeOps
        <4> QED
          BY <1>1, <4>1, <4>2, OverNew
      <3>3. CASE 2 \in DOMAIN stack /\ Stands(stack, 2, "remove", c)
        <4>1. i # 2
          BY <1>2, <1>3, <2>2, <3>3 DEF Stands, Ids
        <4> DEFINE m == 2 + Len(fs) - 1
        <4>2. 2 \in 2 .. Len(stack) /\ m \in 1 .. k - 1
          BY <1>1, <4>1
        <4>3. stack'[m] = stack[2]
          BY <1>1, <4>2 DEF Pushed
        <4>4. stack'[m].op \in TakeOps /\ stack'[m].id = c
          BY <3>3, <4>3 DEF Stands, TakeOps
        <4> QED
          BY <4>2, <4>4 DEF Over
      <3> QED
        BY <3>1, <3>2, <3>3
    <2>6. CASE ~(Top.op \in TakeOps /\ Top.id = c)
      BY <1>1, <2>4, <2>6, OverKept
    <2> QED
      BY <2>5, <2>6
  <1> QED
    BY <1>4, <1>5

LEMMA DownKept ==
  ASSUME TreeTyped, Taking, stack # <<>>, NEW fs \in Seq(AFrame), Push(fs), Deeper(fs)
  PROVE  Downward(stack)'
  <1>1. /\ stack \in Seq(AFrame) /\ stack' \in Seq(AFrame) /\ Pushed(stack, fs, stack')
        /\ Top = stack[1] /\ Len(stack) \in Nat /\ Len(fs) \in Nat /\ Top.id \in Ids
    BY PushStep, TopIs DEF TreeTyped
  <1> SUFFICES ASSUME NEW k \in DOMAIN stack', NEW h \in 1 .. k - 1, stack'[h].op \in TakeOps,
                      stack'[k].op \in {"copy", "remove"}
               PROVE  \/ stack'[h].id > stack'[k].id
                      \/ /\ k = h + 1 /\ stack'[h].op = "copy" /\ stack'[k].op = "remove"
                         /\ stack'[h].id = stack'[k].id
    BY DEF Downward
  <1>2. h \in DOMAIN stack' /\ k \in Nat /\ h \in Nat /\ h < k
    BY <1>1
  <1>3. CASE k \in 1 .. Len(fs)
    <2>1. /\ h \in 1 .. Len(fs) /\ k \in DOMAIN fs /\ stack'[h] = fs[h] /\ stack'[k] = fs[k]
      BY <1>1, <1>2, <1>3 DEF Pushed
    <2> QED
      BY <2>1 DEF Deeper, Downward
  <1>4. CASE k \notin 1 .. Len(fs)
    <2>1. PICK i \in 2 .. Len(stack) : k = i + Len(fs) - 1 /\ stack'[k] = stack[i]
      BY <1>4, PushStep
    <2>2. CASE h \in 1 .. Len(fs)
      <3>1. stack'[h] = fs[h]
        BY <1>1, <2>2 DEF Pushed
      <3>2. Top.op \in {"archive", "delete"} /\ fs[h].id >= Top.id
        BY <2>2, <3>1 DEF Deeper
      <3>3. Top.op \in TakeOps
        BY <3>2 DEF TakeOps
      <3>4. stack[i].id < Top.id
        BY <2>1, <3>2, <3>3, TopDown
      <3>5. stack[i].id \in Ids /\ fs[h].id \in Ids
        <4>1. fs[h] \in AFrame
          BY <2>2
        <4>2. i \in DOMAIN stack
          BY <1>1
        <4> QED
          BY <4>1, <4>2, TopIs DEF AFrame
      <3> QED
        BY <1>1, <2>1, <3>1, <3>2, <3>4, <3>5 DEF Ids
    <2>3. CASE h \notin 1 .. Len(fs)
      <3>1. PICK m \in 2 .. Len(stack) : h = m + Len(fs) - 1 /\ stack'[h] = stack[m]
        BY <1>2, <2>3, PushStep
      <3>2. m \in 1 .. i - 1 /\ i \in DOMAIN stack /\ (i = m + 1 => k = h + 1)
        BY <1>1, <1>2, <2>1, <3>1
      <3> QED
        BY <2>1, <3>1, <3>2 DEF Taking, Downward
    <2> QED
      BY <2>2, <2>3
  <1> QED
    BY <1>3, <1>4

LEMMA VisitsKept ==
  ASSUME TreeTyped, Taking, stack # <<>>, NEW fs \in Seq(AFrame), Push(fs), TakeStep(fs)
  PROVE  Visits(stack)'
  <1>1. /\ stack \in Seq(AFrame) /\ stack' \in Seq(AFrame) /\ Pushed(stack, fs, stack')
        /\ Top = stack[1] /\ Len(stack) \in Nat /\ Len(fs) \in Nat /\ Top.id \in Ids
    BY PushStep, TopIs DEF TreeTyped
  <1> SUFFICES ASSUME NEW y \in visited', live'[y] # NoGoal
               PROVE  \E k \in DOMAIN stack' : stack'[k].op \in {"copy", "remove"} /\ stack'[k].id = y
    BY DEF Visits
  <1>2. ASSUME NEW i \in 2 .. Len(stack), stack[i].op \in {"copy", "remove"}, stack[i].id = y
        PROVE  \E k \in DOMAIN stack' : stack'[k].op \in {"copy", "remove"} /\ stack'[k].id = y
    <2> DEFINE k == i + Len(fs) - 1
    <2>1. stack'[k] = stack[i] /\ k \in 1 .. Len(stack') /\ DOMAIN stack' = 1 .. Len(stack')
      BY <1>1 DEF Pushed
    <2> QED
      BY <1>2, <2>1
  <1>3. CASE Top.op \in TakeOps /\ y = Top.id
    <2>1. Covers(fs, y) \/ (2 \in DOMAIN stack /\ Stands(stack, 2, "remove", y))
      BY <1>3 DEF TakeStep
    <2>2. CASE Covers(fs, y)
      <3>1. PICK j \in 1 .. Len(fs) : fs[j].op \in {"copy", "remove"} /\ fs[j].id = y
        BY <2>2 DEF Covers
      <3>2. stack'[j] = fs[j] /\ j \in 1 .. Len(stack') /\ DOMAIN stack' = 1 .. Len(stack')
        <4>1. Len(stack) >= 1
          BY TopIs
        <4> QED
          BY <1>1, <4>1 DEF Pushed
      <3> QED
        BY <3>1, <3>2
    <2>3. CASE 2 \in DOMAIN stack /\ Stands(stack, 2, "remove", y)
      <3>1. 2 \in 2 .. Len(stack)
        BY <1>1, <2>3
      <3> QED
        BY <1>2, <2>3, <3>1 DEF Stands
    <2> QED
      BY <2>1, <2>2, <2>3
  <1>4. CASE ~(Top.op \in TakeOps /\ y = Top.id)
    <2>1. y \in visited
      BY <1>4 DEF TakeStep
    <2>2. y \in Ids /\ live[y] # NoGoal
      BY <2>1 DEF TreeTyped, TakeStep
    <2>3. PICK i \in DOMAIN stack : stack[i].op \in {"copy", "remove"} /\ stack[i].id = y
      BY <2>1, <2>2 DEF Taking, Visits
    <2>4. i # 1
      BY <1>1, <1>4, <2>3 DEF TakeOps
    <2>5. i \in 2 .. Len(stack)
      BY <1>1, <2>4
    <2> QED
      BY <1>2, <2>3, <2>5
  <1> QED
    BY <1>3, <1>4

LEMMA TakingKept ==
  ASSUME TreeTyped, Grounded, Taking, stack # <<>>, NEW fs \in Seq(AFrame), Push(fs), TakeStep(fs),
         Deeper(fs), \A k \in 1 .. Len(fs) : TakeOK(stack, k)'
  PROVE  Taking'
  <1>1. ASSUME NEW k \in DOMAIN stack' PROVE TakeOK(stack, k)'
    <2>1. CASE k \in 1 .. Len(fs)
      BY <2>1
    <2>2. CASE k \notin 1 .. Len(fs)
      <3>1. PICK i \in 2 .. Len(stack) : k = i + Len(fs) - 1
        BY <2>2, PushStep
      <3> QED
        BY <3>1, TakeBelow
    <2> QED
      BY <2>1, <2>2
  <1> QED
    BY <1>1, DownKept, VisitsKept DEF Taking

\* What an archiving step leaves in the archive: the copies of the goals whose
\* originals are still to go, and something of those that are gone.
KeepsCopies ==
    /\ \A i \in 2 .. Len(stack) :
         /\ stack[i].op = "remove"
         /\ archive[stack[i].id] = live[stack[i].id] \/ (i = 2 /\ Stands(stack, 1, "copy", stack[i].id))
         => archive'[stack[i].id] = live'[stack[i].id]
    /\ \A y \in Ids : live[y] = NoGoal /\ archive[y] # NoGoal => archive'[y] # NoGoal
    /\ Top.op = "remove" => live'[Top.id] = NoGoal /\ archive'[Top.id] # NoGoal

LEMMA ArchiveBelow ==
  ASSUME TreeTyped, Archiving, stack # <<>>, NEW fs \in Seq(AFrame), Push(fs), TakeStep(fs), KeepsCopies,
         NEW i \in 2 .. Len(stack)
  PROVE  ArchiveOK(stack, i + Len(fs) - 1)'
  <1>1. /\ stack \in Seq(AFrame) /\ stack' \in Seq(AFrame) /\ Pushed(stack, fs, stack')
        /\ Top = stack[1] /\ i \in DOMAIN stack /\ Len(stack) \in Nat /\ Len(fs) \in Nat
    BY PushStep, TopIs DEF TreeTyped
  <1> DEFINE k == i + Len(fs) - 1
  <1>2. PICK f : f = stack[i]
    OBVIOUS
  <1>3. stack'[k] = f /\ f.id \in Ids /\ ArchiveOK(stack, i)
    BY <1>1, <1>2, TopIs DEF Pushed, Archiving
  <1>4. f.op = "copy" => k + 1 \in DOMAIN stack' /\ Stands(stack', k + 1, "remove", f.id)
    <2> SUFFICES ASSUME f.op = "copy" PROVE k + 1 \in DOMAIN stack' /\ Stands(stack', k + 1, "remove", f.id)
      OBVIOUS
    <2>1. i + 1 \in DOMAIN stack /\ Stands(stack, i + 1, "remove", f.id)
      BY <1>2, <1>3 DEF ArchiveOK
    <2>2. i + 1 \in 2 .. Len(stack) /\ i + 1 \in {i - 1, i + 1} /\ i + 1 = i + 1
      BY <1>1, <2>1
    <2> QED
      BY <1>1, <2>1, <2>2, StandsKept
  <1>5. f.op = "remove" => archive'[f.id] = live'[f.id] \/ (k > 1 /\ Stands(stack', k - 1, "copy", f.id))
    <2> SUFFICES ASSUME f.op = "remove", archive'[f.id] # live'[f.id]
                 PROVE  k > 1 /\ Stands(stack', k - 1, "copy", f.id)
      OBVIOUS
    <2>1. archive[f.id] # live[f.id]
      BY <1>2 DEF KeepsCopies
    <2>2. i > 1 /\ Stands(stack, i - 1, "copy", f.id)
      BY <1>2, <1>3, <2>1 DEF ArchiveOK
    <2>3. i # 2
      <3>1. i = 2 => Stands(stack, 1, "copy", f.id)
        BY <2>2
      <3> QED
        BY <1>2, <3>1 DEF KeepsCopies
    <2>4. i - 1 \in 2 .. Len(stack) /\ i - 1 \in {i - 1, i + 1}
      BY <1>1, <2>3
    <2> QED
      BY <1>1, <2>2, <2>4, StandsKept
  <1>6. f.op = "mark" => \/ live'[f.id] = NoGoal /\ archive'[f.id] # NoGoal
                         \/ k > 1 /\ Stands(stack', k - 1, "remove", f.id)
    <2> SUFFICES ASSUME f.op = "mark"
                 PROVE  \/ live'[f.id] = NoGoal /\ archive'[f.id] # NoGoal
                        \/ k > 1 /\ Stands(stack', k - 1, "remove", f.id)
      OBVIOUS
    <2>1. CASE live[f.id] = NoGoal /\ archive[f.id] # NoGoal
      BY <1>3, <2>1 DEF KeepsCopies, TakeStep
    <2>2. CASE i > 1 /\ Stands(stack, i - 1, "remove", f.id)
      <3>1. CASE i = 2
        <4>1. Top.op = "remove" /\ Top.id = f.id
          BY <1>1, <2>2, <3>1 DEF Stands
        <4> QED
          BY <4>1 DEF KeepsCopies
      <3>2. CASE i # 2
        <4>1. i - 1 \in 2 .. Len(stack) /\ i - 1 \in {i - 1, i + 1}
          BY <1>1, <3>2
        <4> QED
          BY <1>1, <2>2, <4>1, StandsKept
      <3> QED
        BY <3>1, <3>2
    <2> QED
      BY <1>2, <1>3, <2>1, <2>2 DEF ArchiveOK
  <1>7. f.op \in ArchiveOps
    BY <1>2, <1>3 DEF ArchiveOK
  <1> HIDE DEF k
  <1>8. ArchiveOK(stack, k)'
    BY <1>3, <1>4, <1>5, <1>6, <1>7 DEF ArchiveOK
  <1> QED
    BY <1>8 DEF k

LEMMA ArchivingKept ==
  ASSUME TreeTyped, Grounded, Archiving, stack # <<>>, NEW fs \in Seq(AFrame), Push(fs), TakeStep(fs),
         Deeper(fs), KeepsCopies, \A k \in 1 .. Len(fs) : TakeOK(stack, k)' /\ ArchiveOK(stack, k)'
  PROVE  Archiving'
  <1>1. ASSUME NEW k \in DOMAIN stack' PROVE ArchiveOK(stack, k)'
    <2>1. CASE k \in 1 .. Len(fs)
      BY <2>1
    <2>2. CASE k \notin 1 .. Len(fs)
      <3>1. PICK i \in 2 .. Len(stack) : k = i + Len(fs) - 1
        BY <2>2, PushStep
      <3> QED
        BY <3>1, ArchiveBelow
    <2> QED
      BY <2>1, <2>2
  <1>2. Taking'
    BY TakingKept DEF Archiving
  <1> QED
    BY <1>1, <1>2 DEF Archiving

LEMMA DeletingKept ==
  ASSUME TreeTyped, Grounded, Deleting, stack # <<>>, NEW fs \in Seq(AFrame), Push(fs), TakeStep(fs),
         Deeper(fs), removed \subseteq removed', Top.op = "delete" => Top.id \in removed',
         \A k \in 1 .. Len(fs) : TakeOK(stack, k)' /\ DeleteOK(stack, k)'
  PROVE  Deleting'
  <1>1. ASSUME NEW i \in 2 .. Len(stack) PROVE DeleteOK(stack, i + Len(fs) - 1)'
    <2>1. /\ stack \in Seq(AFrame) /\ stack' \in Seq(AFrame) /\ Pushed(stack, fs, stack')
          /\ Top = stack[1] /\ i \in DOMAIN stack /\ Len(stack) \in Nat /\ Len(fs) \in Nat
      BY PushStep, TopIs DEF TreeTyped
    <2> DEFINE k == i + Len(fs) - 1
    <2>2. PICK f : f = stack[i]
      OBVIOUS
    <2>3. stack'[k] = f /\ f.id \in Ids /\ DeleteOK(stack, i)
      BY <2>1, <2>2, TopIs DEF Pushed, Deleting
    <2>4. f.op \in DeleteOps /\ (f.op \in {"remove", "rmArchive"} => f.id \in removed')
      BY <2>2, <2>3 DEF DeleteOK
    <2>5. f.op = "remove" => \A c \in Kids(live'[f.id]) : c \in removed' \/ Over(stack', k, {"delete"}, c)
      <3> SUFFICES ASSUME f.op = "remove", NEW c \in Kids(live'[f.id]), c \notin removed'
                   PROVE  Over(stack', k, {"delete"}, c)
        OBVIOUS
      <3>1. live'[f.id] = live[f.id]
        BY <2>2 DEF TakeStep
      <3>2. Over(stack, i, {"delete"}, c)
        BY <2>2, <2>3, <3>1 DEF DeleteOK
      <3>3. ~(stack[1].op \in {"delete"} /\ stack[1].id = c)
        BY <2>1
      <3> QED
        BY <2>1, <3>2, <3>3, OverKept
    <2> HIDE DEF k
    <2>6. DeleteOK(stack, k)'
      BY <2>3, <2>4, <2>5 DEF DeleteOK
    <2> QED
      BY <2>6 DEF k
  <1>2. ASSUME NEW k \in DOMAIN stack' PROVE DeleteOK(stack, k)'
    <2>1. CASE k \in 1 .. Len(fs)
      BY <2>1
    <2>2. CASE k \notin 1 .. Len(fs)
      <3>1. PICK i \in 2 .. Len(stack) : k = i + Len(fs) - 1
        BY <2>2, PushStep
      <3> QED
        BY <1>1, <3>1
    <2> QED
      BY <2>1, <2>2
  <1>3. Taking'
    BY TakingKept DEF Deleting
  <1> QED
    BY <1>2, <1>3 DEF Deleting

\* A step that is done with its frame and takes no goal away.
LEMMA NothingTaken ==
  ASSUME TreeTyped, Taking, stack # <<>>, live' = live, visited' = visited, NEW fs \in Seq(AFrame), Len(fs) = 0,
         Top.op \in TakeOps => live[Top.id] = NoGoal \/ (2 \in DOMAIN stack /\ Stands(stack, 2, "remove", Top.id))
  PROVE  TakeStep(fs) /\ Deeper(fs) /\ \A k \in 1 .. Len(fs) : FALSE
  <1>1. \A k \in 1 .. Len(fs) : FALSE
    OBVIOUS
  <1>2. DOMAIN fs = 1 .. Len(fs)
    OBVIOUS
  <1>3. Deeper(fs)
    BY <1>1, <1>2 DEF Deeper, Downward
  <1>4. TakeStep(fs)
    BY DEF TakeStep
  <1> QED
    BY <1>1, <1>3, <1>4

\* What a walk that takes goals away knows of the goal on top.
LEMMA TakenTop ==
  ASSUME TreeTyped, Taking, stack # <<>>, Top.op \in {"copy", "remove"}
  PROVE  /\ Top.id \in visited /\ live[Top.id] # NoGoal
         /\ Top.op = "remove" => \A c \in Kids(live[Top.id]) : live[c] = NoGoal
         /\ Top.op = "remove" => \A i \in 2 .. Len(stack) :
              stack[i].op \in {"copy", "remove"} => stack[i].id # Top.id
  <1>1. Top = stack[1] /\ 1 \in DOMAIN stack /\ Top.id \in Ids
    BY TopIs
  <1>2. TakeOK(stack, 1)
    BY <1>1 DEF Taking
  <1>3. \A c : ~Over(stack, 1, TakeOps, c)
    BY DEF Over
  <1>4. \A c \in Kids(live[Top.id]) : live[c] = NoGoal
    BY <1>1, <1>2, <1>3 DEF TakeOK
  <1>5. ASSUME Top.op = "remove", NEW i \in 2 .. Len(stack), stack[i].op \in {"copy", "remove"}
        PROVE  stack[i].id # Top.id
    <2>1. Top.op \in TakeOps
      BY <1>5 DEF TakeOps
    <2>2. stack[i].id < Top.id
      BY <1>5, <2>1, TopDown
    <2> QED
      BY <1>1, <2>2 DEF Ids
  <1> QED
    BY <1>1, <1>2, <1>4, <1>5 DEF TakeOK

LEMMA CopyToArchiveKeeps ==
  ASSUME TreeInv, CopyToArchive
  PROVE  TreeInv'
  <1> DEFINE fs == <<>>
  <1>1. /\ stack # <<>> /\ Top.op = "copy" /\ Push(fs)
        /\ archive' = [archive EXCEPT ![Top.id] = live[Top.id]]
        /\ UNCHANGED <<live, side, used, visited, removed, cut, tokens>>
    BY DEF CopyToArchive, At, Keeps, Inside, Pop
  <1>2. fs \in Seq(AFrame) /\ Len(fs) = 0
    OBVIOUS
  <1> HIDE DEF fs
  <1>3. TreeTyped /\ FilesInv /\ Archiving /\ Taking /\ Top.id \in Ids /\ Top = stack[1] /\ 1 \in DOMAIN stack
    BY <1>1, WalkIs, TopIs DEF TreeInv, ArchiveOps, Archiving
  <1>4. live[Top.id] # NoGoal
    BY <1>1, <1>3, TakenTop
  <1>5. 2 \in DOMAIN stack /\ Stands(stack, 2, "remove", Top.id)
    <2>1. ArchiveOK(stack, 1) /\ 1 + 1 = 2
      BY <1>3 DEF Archiving
    <2> QED
      BY <1>1, <1>3, <2>1 DEF ArchiveOK
  <1>6. TakeStep(fs) /\ Deeper(fs) /\ \A k \in 1 .. Len(fs) : FALSE
    BY <1>1, <1>2, <1>3, <1>5, NothingTaken
  <1>7. PICK x \in Ids : x = Top.id
    BY <1>3
  <1>8. archive'[x] = live[x] /\ \A y \in Ids : y # x => archive'[y] = archive[y]
    BY <1>1, <1>3, <1>7 DEF TreeTyped
  <1>9. KeepsCopies
    <2>1. ASSUME NEW i \in 2 .. Len(stack), stack[i].op = "remove",
                 archive[stack[i].id] = live[stack[i].id] \/ (i = 2 /\ Stands(stack, 1, "copy", stack[i].id))
          PROVE  archive'[stack[i].id] = live'[stack[i].id]
      <3>1. PICK y \in Ids : y = stack[i].id
        <4>1. i \in DOMAIN stack
          <5>1. stack \in Seq(AFrame)
            BY <1>3 DEF TreeTyped
          <5> QED
            BY <5>1
        <4> QED
          BY <1>1, <1>3, <4>1, TopIs
      <3>2. CASE y = x
        BY <1>1, <1>8, <3>1, <3>2
      <3>3. CASE y # x
        <4>1. archive[y] = live[y]
          BY <1>3, <1>7, <2>1, <3>1, <3>3 DEF Stands
        <4> QED
          BY <1>1, <1>8, <3>1, <3>3, <4>1
      <3> QED
        BY <3>2, <3>3
    <2>2. \A y \in Ids : live[y] = NoGoal /\ archive[y] # NoGoal => archive'[y] # NoGoal
      BY <1>4, <1>7, <1>8
    <2> QED
      BY <1>1, <2>1, <2>2 DEF KeepsCopies
  <1>10. Archiving'
    BY <1>1, <1>2, <1>3, <1>6, <1>9, ArchivingKept DEF FilesInv
  <1>11. TreeTyped'
    <2>1. stack' \in Seq(AFrame)
      BY <1>1, <1>2, <1>3, PushStep
    <2> QED
      BY <1>1, <1>3, <2>1 DEF TreeTyped
  <1>12. FilesInv'
    <2>1. Grounded' /\ OneList' /\ BottomUp' /\ SameLoads
      BY <1>1, <1>3, <1>4, CopyKeeps
    <2>2. \A y, q : Awaited(stack, y, q) => Awaited(stack', y, q)
      BY <1>1, <1>2, <1>3, PushStep
    <2>3. Listed'
      BY <1>1, <1>3, <2>1, <2>2, ListedKept DEF FilesInv
    <2> QED
      BY <2>1, <2>3 DEF FilesInv
  <1> QED
    BY <1>10, <1>11, <1>12 DEF TreeInv

LEMMA RemoveLiveKeeps ==
  ASSUME TreeInv, RemoveLive
  PROVE  TreeInv'
  <1> DEFINE fs == <<>>
  <1>1. /\ stack # <<>> /\ Top.op = "remove" /\ Push(fs)
        /\ live' = [live EXCEPT ![Top.id] = NoGoal]
        /\ UNCHANGED <<archive, side, used, visited, removed, cut, tokens>>
    BY DEF RemoveLive, At, Keeps, Inside, Pop
  <1>2. fs \in Seq(AFrame) /\ Len(fs) = 0 /\ \A k \in 1 .. Len(fs) : FALSE
    OBVIOUS
  <1> HIDE DEF fs
  <1>3. /\ TreeTyped /\ FilesInv /\ (Archiving \/ Deleting) /\ Taking /\ Top.id \in Ids
        /\ Top = stack[1] /\ 1 \in DOMAIN stack
    BY <1>1, WalkIs, TopIs DEF TreeInv, Archiving, Deleting
  <1>4. PICK x \in Ids : x = Top.id
    BY <1>3
  <1>5. live[x] # NoGoal /\ \A c \in Kids(live[x]) : live[c] = NoGoal
    BY <1>1, <1>3, <1>4, TakenTop
  <1>6. \A i \in 2 .. Len(stack) : stack[i].op \in {"copy", "remove"} => stack[i].id # x
    BY <1>1, <1>3, <1>4, TakenTop
  <1>7. live'[x] = NoGoal /\ \A y \in Ids : y # x => live'[y] = live[y]
    BY <1>1, <1>3, <1>4 DEF TreeTyped
  <1>8. \A i \in 2 .. Len(stack) : stack[i].id \in Ids
    <2>1. \A i \in 2 .. Len(stack) : i \in DOMAIN stack
      <3>1. stack \in Seq(AFrame)
        BY <1>3 DEF TreeTyped
      <3> QED
        BY <3>1
    <2> QED
      BY <1>1, <1>3, <2>1, TopIs
  <1>9. \A i \in 2 .. Len(stack) : stack[i].op \in {"copy", "remove"} => live'[stack[i].id] = live[stack[i].id]
    BY <1>6, <1>7, <1>8
  <1>10. TakeStep(fs)
    <2>1. \A y \in Ids : live'[y] = live[y] \/ live'[y] = NoGoal
      BY <1>7
    <2>2. live'[Top.id] = NoGoal
      BY <1>4, <1>7
    <2> QED
      BY <1>1, <1>9, <2>1, <2>2 DEF TakeStep
  <1>11. Deeper(fs)
    <2>1. DOMAIN fs = 1 .. Len(fs)
      BY <1>2
    <2> QED
      BY <1>2, <2>1 DEF Deeper, Downward
  <1>12. stack' \in Seq(AFrame) /\ \A y, q : Awaited(stack, y, q) => Awaited(stack', y, q)
    BY <1>1, <1>2, <1>3, PushStep
  <1>13. TreeTyped'
    BY <1>1, <1>3, <1>12 DEF TreeTyped
  <1>14. CASE Archiving
    <2>1. archive[x] = live[x]
      <3>1. ArchiveOK(stack, 1)
        BY <1>3, <1>14 DEF Archiving
      <3> QED
        BY <1>1, <1>3, <1>4, <3>1 DEF ArchiveOK
    <2>2. KeepsCopies
      <3>1. ASSUME NEW i \in 2 .. Len(stack), stack[i].op = "remove",
                   archive[stack[i].id] = live[stack[i].id] \/ (i = 2 /\ Stands(stack, 1, "copy", stack[i].id))
            PROVE  archive'[stack[i].id] = live'[stack[i].id]
        <4>1. archive[stack[i].id] = live[stack[i].id]
          BY <1>1, <1>3, <3>1 DEF Stands
        <4>2. live'[stack[i].id] = live[stack[i].id]
          BY <1>9, <3>1
        <4> QED
          BY <1>1, <4>1, <4>2
      <3>2. live'[Top.id] = NoGoal /\ archive'[Top.id] # NoGoal
        BY <1>1, <1>4, <1>5, <1>7, <2>1
      <3> QED
        BY <1>1, <3>1, <3>2 DEF KeepsCopies
    <2>3. Archiving'
      BY <1>1, <1>2, <1>3, <1>10, <1>11, <1>14, <2>2, ArchivingKept DEF FilesInv
    <2>4. Grounded' /\ OneList' /\ BottomUp'
      BY <1>1, <1>3, <1>4, <1>5, <2>1, RemoveKeeps
    <2>5. SameLoads
      BY <1>1, <1>3, <1>4, <1>5, <2>1, RemoveLoads
    <2>6. Listed'
      BY <1>1, <1>3, <1>12, <2>5, ListedKept DEF FilesInv
    <2> QED
      BY <1>13, <2>3, <2>4, <2>6 DEF TreeInv, FilesInv
  <1>15. CASE Deleting
    <2>1. x \in removed /\ \A c \in Kids(live[x]) : c \in removed
      <3>1. DeleteOK(stack, 1)
        BY <1>3, <1>15 DEF Deleting
      <3>2. \A c : ~Over(stack, 1, {"delete"}, c)
        BY DEF Over
      <3> QED
        BY <1>1, <1>3, <1>4, <3>1, <3>2 DEF DeleteOK
    <2>2. Deleting'
      BY <1>1, <1>2, <1>3, <1>10, <1>11, <1>15, DeletingKept DEF FilesInv
    <2>3. Grounded' /\ OneList' /\ BottomUp'
      BY <1>1, <1>3, <1>4, <1>5, <2>1, RemoveKeeps
    <2>4. \A y, q : ~Awaited(stack, y, q)
      BY <1>3, <1>15, NothingAwaited
    <2>5. LoadGoal(x) = live[x] /\ \A y \in Ids : y # x => LoadGoal(y)' = LoadGoal(y)
      BY <1>1, <1>5, <1>7 DEF LoadGoal
    <2>6. LoadGoal(x) # NoGoal /\ Kids(LoadGoal(x)) \subseteq removed
      BY <1>5, <2>1, <2>5
    <2>7. Listed'
      BY <1>1, <1>3, <2>1, <2>4, <2>5, <2>6, DeleteListed DEF FilesInv
    <2> QED
      BY <1>13, <2>2, <2>3, <2>7 DEF TreeInv, FilesInv
  <1> QED
    BY <1>3, <1>14, <1>15

LEMMA MarkArchivedKeeps ==
  ASSUME TreeInv, MarkArchived
  PROVE  TreeInv'
  <1> DEFINE fs == <<>>
  <1>1. /\ stack # <<>> /\ Top.op = "mark" /\ Push(fs)
        /\ archive' = [archive EXCEPT ![Top.id].status = "archived"]
        /\ UNCHANGED <<live, side, used, visited, removed, cut, tokens>>
    BY DEF MarkArchived, At, Keeps, Inside, Pop
  <1>2. fs \in Seq(AFrame) /\ Len(fs) = 0
    OBVIOUS
  <1> HIDE DEF fs
  <1>3. TreeTyped /\ FilesInv /\ Archiving /\ Taking /\ Top.id \in Ids /\ Top = stack[1] /\ 1 \in DOMAIN stack
    BY <1>1, WalkIs, TopIs DEF TreeInv, ArchiveOps, Archiving
  <1>4. PICK x \in Ids : x = Top.id
    BY <1>3
  <1>5. live[x] = NoGoal /\ archive[x] # NoGoal
    <2>1. ArchiveOK(stack, 1)
      BY <1>3 DEF Archiving
    <2> QED
      BY <1>1, <1>3, <1>4, <2>1 DEF ArchiveOK
  <1>6. TakeStep(fs) /\ Deeper(fs) /\ \A k \in 1 .. Len(fs) : FALSE
    <2>1. Top.op \notin TakeOps
      BY <1>1 DEF TakeOps
    <2> QED
      BY <1>1, <1>2, <1>3, <2>1, NothingTaken
  <1>7. /\ Grounded' /\ OneList' /\ BottomUp' /\ SameLoads
        /\ archive'[x] # NoGoal /\ archive' \in [Ids -> Goal \union {NoGoal}]
        /\ \A y \in Ids : y # x => archive'[y] = archive[y]
    BY <1>1, <1>3, <1>4, <1>5, MarkKeeps
  <1>8. KeepsCopies
    <2>1. ASSUME NEW i \in 2 .. Len(stack), stack[i].op = "remove",
                 archive[stack[i].id] = live[stack[i].id] \/ (i = 2 /\ Stands(stack, 1, "copy", stack[i].id))
          PROVE  archive'[stack[i].id] = live'[stack[i].id]
      <3>1. i \in DOMAIN stack
        <4>1. stack \in Seq(AFrame)
          BY <1>3 DEF TreeTyped
        <4> QED
          BY <4>1
      <3>2. PICK y \in Ids : y = stack[i].id
        BY <1>1, <1>3, <3>1, TopIs
      <3>3. live[y] # NoGoal
        BY <1>3, <2>1, <3>1, <3>2 DEF Taking, TakeOK
      <3>4. archive[y] = live[y]
        BY <1>1, <1>3, <2>1, <3>2 DEF Stands
      <3> QED
        BY <1>1, <1>5, <1>7, <3>2, <3>3, <3>4
    <2>2. \A y \in Ids : archive[y] # NoGoal => archive'[y] # NoGoal
      BY <1>7
    <2> QED
      BY <1>1, <2>1, <2>2 DEF KeepsCopies
  <1>9. Archiving'
    BY <1>1, <1>2, <1>3, <1>6, <1>8, ArchivingKept DEF FilesInv
  <1>10. stack' \in Seq(AFrame) /\ \A y, q : Awaited(stack, y, q) => Awaited(stack', y, q)
    BY <1>1, <1>2, <1>3, PushStep
  <1>11. TreeTyped'
    BY <1>1, <1>3, <1>7, <1>10 DEF TreeTyped
  <1>12. Listed'
    BY <1>1, <1>3, <1>7, <1>10, ListedKept DEF FilesInv
  <1> QED
    BY <1>7, <1>9, <1>11, <1>12 DEF TreeInv, FilesInv

\* A step that is done with a frame and leaves both copies of every goal alone.
LEMMA SideKeeps ==
  ASSUME TreeInv, NEW op \in {"sideCopy", "sideRemove"}, NEW from, NEW to \in {"both", "archived"},
         MoveSide(op, from, to)
  PROVE  TreeInv'
  <1> DEFINE fs == <<>>
  <1>1. /\ stack # <<>> /\ Top.op = op /\ Push(fs)
        /\ side' = [side EXCEPT ![Top.id] = IF @ \in from THEN to ELSE @]
        /\ UNCHANGED <<live, archive, used, visited, removed, cut, tokens>>
    BY DEF MoveSide, At, Keeps, Inside, Pop
  <1>2. fs \in Seq(AFrame) /\ Len(fs) = 0
    OBVIOUS
  <1> HIDE DEF fs
  <1>3. TreeTyped /\ FilesInv /\ Archiving /\ Taking /\ Top.id \in Ids /\ Top = stack[1] /\ Top.op # "link"
    BY <1>1, WalkIs, TopIs DEF TreeInv, ArchiveOps, Archiving
  <1>4. Top.op \notin TakeOps /\ Top.op # "copy" /\ Top.op # "remove"
    BY <1>1 DEF TakeOps
  <1>5. TakeStep(fs) /\ Deeper(fs) /\ \A k \in 1 .. Len(fs) : FALSE
    BY <1>1, <1>2, <1>3, <1>4, NothingTaken
  <1>6. KeepsCopies
    BY <1>1, <1>3, <1>4 DEF KeepsCopies, Stands
  <1>7. Archiving'
    BY <1>1, <1>2, <1>3, <1>5, <1>6, ArchivingKept DEF FilesInv
  <1>8. stack' \in Seq(AFrame) /\ \A y, q : Awaited(stack, y, q) => Awaited(stack', y, q)
    BY <1>1, <1>2, <1>3, PushStep
  <1>9. side' \in [Ids -> {"none", "live", "both", "archived"}]
    BY <1>1, <1>3 DEF TreeTyped
  <1>10. TreeTyped'
    BY <1>1, <1>3, <1>8, <1>9 DEF TreeTyped
  <1>11. FilesInv'
    BY <1>1, <1>3, <1>8, FilesSame
  <1> QED
    BY <1>7, <1>10, <1>11 DEF TreeInv

LEMMA RemoveArchiveKeeps ==
  ASSUME TreeInv, RemoveArchive
  PROVE  TreeInv'
  <1> DEFINE fs == <<>>
             new == CASE side[Top.id] = "archived" -> "none" [] side[Top.id] = "both" -> "live"
                      [] OTHER -> side[Top.id]
  <1>1. /\ stack # <<>> /\ Top.op = "rmArchive" /\ Push(fs)
        /\ archive' = [archive EXCEPT ![Top.id] = NoGoal]
        /\ side' = [side EXCEPT ![Top.id] = new]
        /\ UNCHANGED <<live, used, visited, removed, cut, tokens>>
    BY DEF RemoveArchive, At, Keeps, Inside, Pop
  <1>2. fs \in Seq(AFrame) /\ Len(fs) = 0
    OBVIOUS
  <1> HIDE DEF fs
  <1>3. TreeTyped /\ FilesInv /\ Deleting /\ Taking /\ Top.id \in Ids /\ Top = stack[1] /\ 1 \in DOMAIN stack
    BY <1>1, WalkIs, TopIs DEF TreeInv, DeleteOps, Deleting
  <1>4. PICK x \in Ids : x = Top.id
    BY <1>3
  <1>5. x \in removed
    <2>1. DeleteOK(stack, 1)
      BY <1>3 DEF Deleting
    <2> QED
      BY <1>1, <1>3, <1>4, <2>1 DEF DeleteOK
  <1>6. TakeStep(fs) /\ Deeper(fs) /\ \A k \in 1 .. Len(fs) : FALSE
    <2>1. Top.op \notin TakeOps
      BY <1>1 DEF TakeOps
    <2> QED
      BY <1>1, <1>2, <1>3, <2>1, NothingTaken
  <1>7. Deleting'
    BY <1>1, <1>2, <1>3, <1>6, DeletingKept DEF FilesInv
  <1>8. /\ Grounded' /\ OneList' /\ BottomUp'
        /\ (\A y \in Ids : y # x => LoadGoal(y)' = LoadGoal(y)) /\ LoadGoal(x)' \in {LoadGoal(x), NoGoal}
    BY <1>1, <1>3, <1>4, <1>5, RmArchiveKeeps
  <1>9. \A y, q : ~Awaited(stack, y, q)
    BY <1>3, NothingAwaited
  <1>10. Listed'
    BY <1>1, <1>3, <1>5, <1>8, <1>9, DeleteListed DEF FilesInv
  <1>11. stack' \in Seq(AFrame)
    BY <1>1, <1>2, <1>3, PushStep
  <1>12. new \in {"none", "live", "both", "archived"}
    <2>1. side[Top.id] \in {"none", "live", "both", "archived"}
      BY <1>3 DEF TreeTyped
    <2>2. side[Top.id] = "archived" => new = "none"
      OBVIOUS
    <2>3. side[Top.id] = "both" => new = "live"
      OBVIOUS
    <2>4. side[Top.id] \notin {"archived", "both"} => new = side[Top.id]
      OBVIOUS
    <2> QED
      BY <2>1, <2>2, <2>3, <2>4
  <1> HIDE DEF new
  <1>13. side' \in [Ids -> {"none", "live", "both", "archived"}]
    BY <1>1, <1>3, <1>12 DEF TreeTyped
  <1>14. archive' \in [Ids -> Goal \union {NoGoal}]
    BY <1>1, <1>3 DEF TreeTyped
  <1>15. TreeTyped'
    BY <1>1, <1>3, <1>11, <1>13, <1>14 DEF TreeTyped
  <1> QED
    BY <1>7, <1>8, <1>10, <1>15 DEF TreeInv, FilesInv

\* The frames of the children stand over the goal's own.
LEMMA KidsOver ==
  ASSUME NEW s, NEW ks \in Seq(Ids), NEW op, NEW kinds, op \in kinds, NEW k \in Nat, k > Len(ks),
         \A i \in 1 .. Len(ks) : s[i].op = op /\ s[i].id = ks[i], NEW c \in Ran(ks)
  PROVE  Over(s, k, kinds, c)
  <1>1. PICK i \in DOMAIN ks : ks[i] = c
    BY DEF Ran
  <1>2. i \in 1 .. Len(ks) /\ i \in 1 .. k - 1
    OBVIOUS
  <1> QED
    BY <1>1, <1>2 DEF Over

\* The children of a loaded goal, and what is pushed for them.
LEMMA KidFrames ==
  ASSUME TreeTyped, Grounded, NEW x \in Ids, LoadGoal(x) # NoGoal, NEW op \in AllOps
  PROVE  \E ks \in Seq(Ids) :
           /\ ks = LoadGoal(x).children /\ Ran(ks) = Kids(LoadGoal(x))
           /\ \A i \in 1 .. Len(ks) : ks[i] \in Ids /\ x < ks[i] /\ ks[i] \in Ran(ks)
           /\ Frames(op, ks, 0) \in Seq(AFrame) /\ Len(Frames(op, ks, 0)) = Len(ks)
           /\ \A i \in 1 .. Len(ks) : Frames(op, ks, 0)[i].op = op /\ Frames(op, ks, 0)[i].id = ks[i]
  <1>1. LoadGoal(x) \in Goal /\ LoadGoal(x) \in Copies(x)
    BY Loads
  <1>2. PICK ks \in Seq(Ids) : ks = LoadGoal(x).children
    BY <1>1 DEF Goal
  <1>3. Ran(ks) = Kids(LoadGoal(x))
    BY <1>2 DEF Kids
  <1>4. ASSUME NEW i \in 1 .. Len(ks) PROVE ks[i] \in Ids /\ x < ks[i] /\ ks[i] \in Ran(ks)
    <2>1. ks[i] \in Ran(ks) /\ ks[i] \in Ids
      BY DEF Ran
    <2> QED
      BY <1>1, <1>3, <2>1 DEF Grounded
  <1>5. /\ Frames(op, ks, 0) \in Seq(AFrame) /\ Len(Frames(op, ks, 0)) = Len(ks)
        /\ \A i \in 1 .. Len(ks) : Frames(op, ks, 0)[i].op = op /\ Frames(op, ks, 0)[i].id = ks[i]
    <2>1. 0 \in Nat
      OBVIOUS
    <2> QED
      BY <2>1, FramesAre
  <1> QED
    BY <1>2, <1>3, <1>4, <1>5

LEMMA OwnFrame ==
  ASSUME NEW op \in AllOps, NEW x \in Ids
  PROVE  \E f \in AFrame : f = Frame(op, x, 0, <<>>) /\ f.op = op /\ f.id = x
  <1>1. <<>> \in Seq(Ids) /\ 0 \in Nat
    OBVIOUS
  <1>2. Frame(op, x, 0, <<>>) \in AFrame /\ Frame(op, x, 0, <<>>).op = op /\ Frame(op, x, 0, <<>>).id = x
    BY <1>1 DEF Frame, AFrame, AllOps
  <1> QED
    BY <1>2

LEMMA Appended ==
  ASSUME NEW a \in Seq(AFrame), NEW b \in Seq(AFrame)
  PROVE  /\ a \o b \in Seq(AFrame) /\ Len(a \o b) = Len(a) + Len(b)
         /\ \A i \in 1 .. Len(a) : (a \o b)[i] = a[i]
         /\ \A i \in 1 .. Len(b) : (a \o b)[Len(a) + i] = b[i]
  <1>1. ASSUME NEW i \in 1 .. Len(b) PROVE (a \o b)[Len(a) + i] = b[i]
    <2> DEFINE k == Len(a) + i
    <2>1. k \in Len(a) + 1 .. Len(a) + Len(b) /\ k - Len(a) = i /\ Len(a) \in Nat /\ Len(b) \in Nat
      OBVIOUS
    <2>2. (a \o b)[k] = b[k - Len(a)]
      BY <2>1
    <2> QED
      BY <2>1, <2>2
  <1> QED
    BY <1>1

\* A goal that was gone through before, or is not there, needs nothing.
LEMMA PassedBy ==
  ASSUME TreeTyped, Taking, stack # <<>>, Top.op \in {"archive", "delete"}, NEW fs \in Seq(AFrame), Len(fs) = 0,
         live' = live, visited' = visited, Top.id \in visited \/ live[Top.id] = NoGoal
  PROVE  TakeStep(fs) /\ Deeper(fs) /\ \A k \in 1 .. Len(fs) : FALSE
  <1>1. live[Top.id] = NoGoal
    BY VisitedGone
  <1> QED
    BY <1>1, NothingTaken

\* The children first, then the goal's own frames, the first of which keep its place.
GoesThrough(fs, x, ks, n) ==
    /\ n = Len(ks) /\ n < Len(fs)
    /\ \A i \in 1 .. n : ks[i] \in Ids /\ x < ks[i] /\ fs[i].op = Top.op /\ fs[i].id = ks[i]
    /\ \A i \in n + 1 .. Len(fs) : fs[i].id = x /\ fs[i].op \notin {"archive", "delete"}
    /\ \A i \in n + 1 .. Len(fs) : \A k \in i + 1 .. Len(fs) :
          fs[i].op \in TakeOps /\ fs[k].op \in {"copy", "remove"} =>
             k = i + 1 /\ fs[i].op = "copy" /\ fs[k].op = "remove"
    /\ live[x] # NoGoal => fs[n + 1].op \in {"copy", "remove"}

LEMMA GoneThrough ==
  ASSUME TreeTyped, Taking, stack # <<>>, NEW x \in Ids, x = Top.id, Top.op \in {"archive", "delete"},
         live' = live, visited' = visited \union {x}, NEW ks \in Seq(Ids), NEW n \in Nat,
         NEW fs \in Seq(AFrame), GoesThrough(fs, x, ks, n)
  PROVE  TakeStep(fs) /\ Deeper(fs)
  <1> USE DEF GoesThrough
  <1>1. Len(fs) \in Nat /\ DOMAIN fs = 1 .. Len(fs) /\ n + 1 \in 1 .. Len(fs)
        /\ n + 1 \in n + 1 .. Len(fs)
    OBVIOUS
  <1>2. live[x] # NoGoal => Covers(fs, x)
    BY <1>1 DEF Covers
  <1>3. Top.op \in TakeOps
    BY DEF TakeOps
  <1>4. TakeStep(fs)
    BY <1>2, <1>3 DEF TakeStep
  <1>5. ASSUME NEW j \in 1 .. Len(fs), fs[j].op \in TakeOps
        PROVE  Top.op \in {"archive", "delete"} /\ fs[j].id >= Top.id
    <2>1. j \in 1 .. n \/ j \in n + 1 .. Len(fs)
      BY <1>1
    <2> QED
      BY <2>1 DEF Ids
  <1>6. ASSUME NEW k \in DOMAIN fs, NEW i \in 1 .. k - 1, fs[i].op \in TakeOps, fs[k].op \in {"copy", "remove"}
        PROVE  \/ fs[i].id > fs[k].id
               \/ k = i + 1 /\ fs[i].op = "copy" /\ fs[k].op = "remove" /\ fs[i].id = fs[k].id
    <2>1. k \in n + 1 .. Len(fs)
      <3>1. k \notin 1 .. n
        BY <1>6
      <3> QED
        BY <1>1, <3>1
    <2>2. CASE i \in 1 .. n
      BY <2>1, <2>2 DEF Ids
    <2>3. CASE i \notin 1 .. n
      <3>1. i \in n + 1 .. Len(fs) /\ k \in i + 1 .. Len(fs)
        BY <1>1, <2>1, <2>3
      <3> QED
        BY <1>6, <2>1, <3>1
    <2> QED
      BY <2>2, <2>3
  <1>7. Deeper(fs)
    BY <1>5, <1>6 DEF Deeper, Downward
  <1> QED
    BY <1>4, <1>7

LEMMA ArchiveGoalKeeps ==
  ASSUME TreeInv, ArchiveGoal
  PROVE  TreeInv'
  <1>1. /\ stack # <<>> /\ Top.op = "archive" /\ UNCHANGED goalFiles
        /\ UNCHANGED <<live, archive, side, used, removed, cut, tokens>>
    BY DEF ArchiveGoal, At, Inside, goalFiles
  <1>2. TreeTyped /\ FilesInv /\ Archiving /\ Taking /\ Top.id \in Ids /\ Top = stack[1] /\ Top.op # "link"
    BY <1>1, WalkIs, TopIs DEF TreeInv, ArchiveOps, Archiving
  <1>3. KeepsCopies
    BY <1>1, <1>2 DEF KeepsCopies, Stands
  <1>4. PICK x \in Ids : x = Top.id
    BY <1>2
  <1>5. ASSUME NEW fs \in Seq(AFrame), Push(fs), TakeStep(fs), Deeper(fs), visited' \subseteq Ids,
               \A k \in 1 .. Len(fs) : TakeOK(stack, k)' /\ ArchiveOK(stack, k)'
        PROVE  TreeInv'
    <2>1. Archiving'
      BY <1>1, <1>2, <1>3, <1>5, ArchivingKept DEF FilesInv
    <2>2. stack' \in Seq(AFrame) /\ \A y, q : Awaited(stack, y, q) => Awaited(stack', y, q)
      BY <1>1, <1>2, <1>5, PushStep
    <2>3. TreeTyped'
      BY <1>1, <1>2, <1>5, <2>2 DEF TreeTyped
    <2>4. FilesInv'
      BY <1>1, <1>2, <2>2, FilesSame
    <2> QED
      BY <2>1, <2>3, <2>4 DEF TreeInv
  <1>6. CASE x \in visited \/ live[x] = NoGoal
    <2> DEFINE fs == <<>>
    <2>1. Push(fs) /\ visited' = visited
      BY <1>4, <1>6 DEF ArchiveGoal, Pop
    <2>2. fs \in Seq(AFrame) /\ Len(fs) = 0
      OBVIOUS
    <2> HIDE DEF fs
    <2>3. TakeStep(fs) /\ Deeper(fs) /\ \A k \in 1 .. Len(fs) : FALSE
      BY <1>1, <1>2, <1>4, <1>6, <2>1, <2>2, PassedBy
    <2>4. visited' \subseteq Ids
      BY <1>2, <2>1 DEF TreeTyped
    <2> QED
      BY <1>5, <2>1, <2>2, <2>3, <2>4
  <1>7. CASE ~(x \in visited \/ live[x] = NoGoal)
    <2>1. LoadGoal(x) # NoGoal /\ LoadGoal(x) = live[x] /\ "archive" \in AllOps
      BY <1>7 DEF LoadGoal, AllOps, ArchiveOps
    <2>2. PICK ks \in Seq(Ids) :
            /\ ks = LoadGoal(x).children /\ Ran(ks) = Kids(LoadGoal(x))
            /\ \A i \in 1 .. Len(ks) : ks[i] \in Ids /\ x < ks[i] /\ ks[i] \in Ran(ks)
            /\ Frames("archive", ks, 0) \in Seq(AFrame) /\ Len(Frames("archive", ks, 0)) = Len(ks)
            /\ \A i \in 1 .. Len(ks) : /\ Frames("archive", ks, 0)[i].op = "archive"
                                       /\ Frames("archive", ks, 0)[i].id = ks[i]
      BY <1>2, <2>1, KidFrames DEF FilesInv
    <2>3. PICK kids : kids = Frames("archive", ks, 0)
      OBVIOUS
    <2>4. PICK c1 \in AFrame : c1 = Frame("copy", x, 0, <<>>) /\ c1.op = "copy" /\ c1.id = x
      <3>1. "copy" \in AllOps
        BY DEF AllOps, ArchiveOps
      <3> QED
        BY <3>1, OwnFrame
    <2>5. PICK c2 \in AFrame : c2 = Frame("remove", x, 0, <<>>) /\ c2.op = "remove" /\ c2.id = x
      <3>1. "remove" \in AllOps
        BY DEF AllOps, ArchiveOps
      <3> QED
        BY <3>1, OwnFrame
    <2>6. PICK c3 \in AFrame : c3 = Frame("mark", x, 0, <<>>) /\ c3.op = "mark" /\ c3.id = x
      <3>1. "mark" \in AllOps
        BY DEF AllOps, ArchiveOps
      <3> QED
        BY <3>1, OwnFrame
    <2>7. PICK c4 \in AFrame : c4 = Frame("sideCopy", x, 0, <<>>) /\ c4.op = "sideCopy" /\ c4.id = x
      <3>1. "sideCopy" \in AllOps
        BY DEF AllOps, ArchiveOps
      <3> QED
        BY <3>1, OwnFrame
    <2>8. PICK c5 \in AFrame : c5 = Frame("sideRemove", x, 0, <<>>) /\ c5.op = "sideRemove" /\ c5.id = x
      <3>1. "sideRemove" \in AllOps
        BY DEF AllOps, ArchiveOps
      <3> QED
        BY <3>1, OwnFrame
    <2> DEFINE own == <<c1, c2, c3, c4, c5>>
    <2>9. PICK fs : fs = kids \o own
      OBVIOUS
    <2>10. Push(fs) /\ visited' = visited \union {x}
      BY <1>4, <1>7, <2>2, <2>3, <2>4, <2>5, <2>6, <2>7, <2>8, <2>9 DEF ArchiveGoal
    <2>11. PICK n \in Nat : n = Len(ks)
      OBVIOUS
    <2>12. /\ fs \in Seq(AFrame) /\ Len(fs) = n + 5
           /\ fs[n + 1] = c1 /\ fs[n + 2] = c2 /\ fs[n + 3] = c3 /\ fs[n + 4] = c4 /\ fs[n + 5] = c5
           /\ \A i \in 1 .. n : fs[i] = kids[i]
      <3>1. /\ own \in Seq(AFrame) /\ Len(own) = 5
            /\ own[1] = c1 /\ own[2] = c2 /\ own[3] = c3 /\ own[4] = c4 /\ own[5] = c5
        OBVIOUS
      <3> HIDE DEF own
      <3>2. kids \in Seq(AFrame) /\ Len(kids) = n
        BY <2>2, <2>3, <2>11
      <3>3. /\ fs \in Seq(AFrame) /\ Len(fs) = Len(kids) + Len(own)
            /\ (\A i \in 1 .. Len(kids) : fs[i] = kids[i])
            /\ \A i \in 1 .. Len(own) : fs[Len(kids) + i] = own[i]
        <4>1. /\ kids \o own \in Seq(AFrame) /\ Len(kids \o own) = Len(kids) + Len(own)
              /\ (\A i \in 1 .. Len(kids) : (kids \o own)[i] = kids[i])
              /\ \A i \in 1 .. Len(own) : (kids \o own)[Len(kids) + i] = own[i]
          BY <3>1, <3>2, Appended
        <4> QED
          BY <2>9, <4>1
      <3>4. 1 \in 1 .. 5 /\ 2 \in 1 .. 5 /\ 3 \in 1 .. 5 /\ 4 \in 1 .. 5 /\ 5 \in 1 .. 5
        OBVIOUS
      <3> QED
        BY <3>1, <3>2, <3>3, <3>4
    <2> HIDE DEF own
    <2>13. \A i \in 1 .. n : i \in 1 .. Len(fs)
      BY <2>12
    <2>14. \A i \in 1 .. n : fs[i].op = "archive" /\ fs[i].id = ks[i]
      BY <2>2, <2>3, <2>11, <2>12
    <2>15. \A i \in n + 1 .. Len(fs) : i \in {n + 1, n + 2, n + 3, n + 4, n + 5}
      BY <2>12
    <2>16. TakeStep(fs) /\ Deeper(fs)
      <3>1. \A i \in n + 1 .. Len(fs) : fs[i].id = x /\ fs[i].op \notin {"archive", "delete"}
        BY <2>4, <2>5, <2>6, <2>7, <2>8, <2>12, <2>15
      <3>2. ASSUME NEW i \in n + 1 .. Len(fs), NEW k \in i + 1 .. Len(fs), fs[i].op \in TakeOps,
                   fs[k].op \in {"copy", "remove"}
            PROVE  k = i + 1 /\ fs[i].op = "copy" /\ fs[k].op = "remove"
        <4>1. fs[i] = c1 => i = n + 1
          BY <2>4, <2>5, <2>6, <2>7, <2>8, <2>12, <2>15
        <4>2. k \in n + 1 .. Len(fs) /\ k # n + 1
          BY <2>12
        <4>3. k = n + 2
          BY <2>6, <2>7, <2>8, <2>12, <2>15, <3>2, <4>2
        <4>4. i = n + 1
          BY <2>12, <4>3
        <4> QED
          BY <2>4, <2>5, <2>12, <4>3, <4>4
      <3>3. fs[n + 1].op \in {"copy", "remove"} /\ n < Len(fs)
        BY <2>4, <2>11, <2>12
      <3> QED
        <4>1. GoesThrough(fs, x, ks, n)
          BY <1>1, <2>2, <2>11, <2>14, <3>1, <3>2, <3>3 DEF GoesThrough
        <4> QED
          BY <1>1, <1>2, <1>4, <2>10, <2>12, <4>1, GoneThrough
    <2>17. \A k \in 1 .. Len(fs) : stack'[k] = fs[k] /\ k \in DOMAIN stack'
      <3>1. Pushed(stack, fs, stack') /\ stack' \in Seq(AFrame) /\ stack \in Seq(AFrame)
        BY <1>1, <1>2, <2>10, <2>12, PushStep DEF TreeTyped
      <3>2. Len(stack) >= 1 /\ Len(stack) \in Nat
        BY <1>1, <1>2, TopIs
      <3>3. Len(stack') = Len(fs) + Len(stack) - 1 /\ \A k \in 1 .. Len(fs) : stack'[k] = fs[k]
        BY <3>1 DEF Pushed
      <3>4. DOMAIN stack' = 1 .. Len(stack') /\ Len(fs) \in Nat
        BY <2>12, <3>1
      <3> HIDE DEF Pushed
      <3>5. \A k \in 1 .. Len(fs) : k \in DOMAIN stack'
        BY <3>2, <3>3, <3>4
      <3> QED
        BY <3>3, <3>5
    <2>18. \A i \in 1 .. n : stack'[i].op = "archive" /\ stack'[i].id = ks[i]
      BY <2>13, <2>14, <2>17
    <2>19. \A k \in 1 .. Len(fs) : k \in 1 .. n \/ k \in {n + 1, n + 2, n + 3, n + 4, n + 5}
      BY <2>12
    <2>20. /\ stack'[n + 1] = c1 /\ stack'[n + 2] = c2 /\ stack'[n + 3] = c3 /\ stack'[n + 4] = c4 /\ stack'[n + 5] = c5
           /\ n + 2 \in DOMAIN stack'
      BY <2>12, <2>17
    <2>21. ASSUME NEW k \in {n + 1, n + 2}, NEW c \in Kids(live[x]) PROVE Over(stack', k, TakeOps, c)
      <3>1. c \in Ran(ks) /\ k \in Nat /\ k > Len(ks) /\ "archive" \in TakeOps
        BY <2>1, <2>2, <2>11 DEF TakeOps
      <3> QED
        BY <2>11, <2>18, <3>1, KidsOver
    <2>22. ASSUME NEW k \in 1 .. Len(fs) PROVE TakeOK(stack, k)'
      <3> SUFFICES ASSUME stack'[k].op \in {"copy", "remove"} PROVE TakeOK(stack, k)'
        BY DEF TakeOK
      <3>1. k \in {n + 1, n + 2}
        BY <2>6, <2>7, <2>8, <2>18, <2>19, <2>20
      <3>2. stack'[k].id = x
        BY <2>4, <2>5, <2>20, <3>1
      <3>3. x \in visited' /\ live'[x] # NoGoal /\ live' = live
        BY <1>1, <1>7, <2>10
      <3> QED
        BY <2>21, <3>1, <3>2, <3>3 DEF TakeOK
    <2>23. ASSUME NEW k \in 1 .. Len(fs) PROVE ArchiveOK(stack, k)'
      <3>1. CASE k \in 1 .. n
        BY <2>18, <3>1 DEF ArchiveOK, ArchiveOps
      <3>2. CASE k = n + 1
        <4>1. (n + 1) + 1 = n + 2
          OBVIOUS
        <4> QED
          BY <2>4, <2>5, <2>20, <3>2, <4>1 DEF ArchiveOK, ArchiveOps, Stands
      <3>3. CASE k = n + 2
        <4>1. (n + 2) - 1 = n + 1 /\ n + 2 > 1
          OBVIOUS
        <4> QED
          BY <2>4, <2>5, <2>20, <3>3, <4>1 DEF ArchiveOK, ArchiveOps, Stands
      <3>4. CASE k = n + 3
        <4>1. (n + 3) - 1 = n + 2 /\ n + 3 > 1
          OBVIOUS
        <4> QED
          BY <2>5, <2>6, <2>20, <3>4, <4>1 DEF ArchiveOK, ArchiveOps, Stands
      <3>5. CASE k \in {n + 4, n + 5}
        BY <2>7, <2>8, <2>20, <3>5 DEF ArchiveOK, ArchiveOps
      <3> QED
        BY <2>19, <3>1, <3>2, <3>3, <3>4, <3>5
    <2>24. visited' \subseteq Ids
      BY <1>2, <2>10 DEF TreeTyped
    <2> QED
      BY <1>5, <2>10, <2>12, <2>16, <2>22, <2>23, <2>24
  <1> QED
    BY <1>6, <1>7

LEMMA DeleteGoalKeeps ==
  ASSUME TreeInv, DeleteGoal
  PROVE  TreeInv'
  <1>1. /\ stack # <<>> /\ Top.op = "delete" /\ UNCHANGED <<live, archive, side, used, cut, tokens>>
        /\ removed' = removed \union {Top.id}
    BY DEF DeleteGoal, At, Inside, goalFiles
  <1>2. TreeTyped /\ FilesInv /\ Deleting /\ Taking /\ Top.id \in Ids /\ Top.op # "link"
    BY <1>1, WalkIs, TopIs DEF TreeInv, DeleteOps, Deleting
  <1>3. removed' \subseteq Ids /\ removed \subseteq removed' /\ Top.id \in removed'
    BY <1>1, <1>2 DEF TreeTyped
  <1>4. PICK x \in Ids : x = Top.id
    BY <1>2
  <1>5. ASSUME NEW fs \in Seq(AFrame), Push(fs), TakeStep(fs), Deeper(fs), visited' \subseteq Ids,
               \A k \in 1 .. Len(fs) : TakeOK(stack, k)' /\ DeleteOK(stack, k)'
        PROVE  TreeInv'
    <2>1. Deleting'
      BY <1>1, <1>2, <1>3, <1>5, DeletingKept DEF FilesInv
    <2>2. stack' \in Seq(AFrame) /\ \A y, q : Awaited(stack, y, q) => Awaited(stack', y, q)
      BY <1>1, <1>2, <1>5, PushStep
    <2>3. TreeTyped'
      BY <1>1, <1>2, <1>3, <1>5, <2>2 DEF TreeTyped
    <2>4. FilesInv'
      BY <1>1, <1>2, <1>3, <2>2, FilesSame
    <2> QED
      BY <2>1, <2>3, <2>4 DEF TreeInv
  <1>6. CASE x \in visited \/ LoadGoal(x) = NoGoal
    <2> DEFINE fs == <<>>
    <2>1. Push(fs) /\ visited' = visited
      BY <1>4, <1>6 DEF DeleteGoal, Pop
    <2>2. fs \in Seq(AFrame) /\ Len(fs) = 0
      OBVIOUS
    <2> HIDE DEF fs
    <2>3. x \in visited \/ live[x] = NoGoal
      BY <1>6 DEF LoadGoal
    <2>4. TakeStep(fs) /\ Deeper(fs) /\ \A k \in 1 .. Len(fs) : FALSE
      BY <1>1, <1>2, <1>4, <2>1, <2>2, <2>3, PassedBy
    <2>5. visited' \subseteq Ids
      BY <1>2, <2>1 DEF TreeTyped
    <2> QED
      BY <1>5, <2>1, <2>2, <2>4, <2>5
  <1>7. CASE ~(x \in visited \/ LoadGoal(x) = NoGoal)
    <2>1. LoadGoal(x) # NoGoal /\ "delete" \in AllOps /\ (live[x] # NoGoal => LoadGoal(x) = live[x])
      BY <1>7 DEF LoadGoal, AllOps, DeleteOps
    <2>2. PICK ks \in Seq(Ids) :
            /\ ks = LoadGoal(x).children /\ Ran(ks) = Kids(LoadGoal(x))
            /\ \A i \in 1 .. Len(ks) : ks[i] \in Ids /\ x < ks[i] /\ ks[i] \in Ran(ks)
            /\ Frames("delete", ks, 0) \in Seq(AFrame) /\ Len(Frames("delete", ks, 0)) = Len(ks)
            /\ \A i \in 1 .. Len(ks) : /\ Frames("delete", ks, 0)[i].op = "delete"
                                       /\ Frames("delete", ks, 0)[i].id = ks[i]
      BY <1>2, <2>1, KidFrames DEF FilesInv
    <2>3. PICK kids : kids = Frames("delete", ks, 0)
      OBVIOUS
    <2>4. PICK kind : kind = IF live[x] # NoGoal THEN "remove" ELSE "rmArchive"
      OBVIOUS
    <2>5. kind \in {"remove", "rmArchive"} /\ (kind = "remove" <=> live[x] # NoGoal)
      BY <2>4
    <2>6. PICK last \in AFrame : last = Frame(kind, x, 0, <<>>) /\ last.op = kind /\ last.id = x
      <3>1. kind \in AllOps
        BY <2>5 DEF AllOps, DeleteOps
      <3> QED
        BY <3>1, OwnFrame
    <2>7. PICK fs : fs = kids \o <<last>>
      OBVIOUS
    <2>8. Push(fs) /\ visited' = visited \union {x}
      BY <1>4, <1>7, <2>2, <2>3, <2>4, <2>6, <2>7 DEF DeleteGoal
    <2>9. PICK n \in Nat : n = Len(ks)
      OBVIOUS
    <2>10. fs \in Seq(AFrame) /\ Len(fs) = n + 1 /\ fs[n + 1] = last /\ \A i \in 1 .. n : fs[i] = kids[i]
      <3>1. kids \in Seq(AFrame) /\ Len(kids) = n
        BY <2>2, <2>3, <2>9
      <3>2. PICK own \in Seq(AFrame) : own = <<last>> /\ Len(own) = 1 /\ own[1] = last
        <4>1. <<last>> \in Seq(AFrame) /\ Len(<<last>>) = 1 /\ <<last>>[1] = last
          OBVIOUS
        <4> QED
          BY <4>1
      <3>3. /\ kids \o own \in Seq(AFrame) /\ Len(kids \o own) = Len(kids) + Len(own)
            /\ (\A i \in 1 .. Len(kids) : (kids \o own)[i] = kids[i])
            /\ \A i \in 1 .. Len(own) : (kids \o own)[Len(kids) + i] = own[i]
        BY <3>1, Appended
      <3>4. 1 \in 1 .. 1 /\ fs = kids \o own
        BY <2>7, <3>2
      <3> QED
        BY <3>1, <3>2, <3>3, <3>4
    <2>11. \A i \in 1 .. n : fs[i].op = "delete" /\ fs[i].id = ks[i]
      BY <2>2, <2>3, <2>9, <2>10
    <2>12. TakeStep(fs) /\ Deeper(fs)
      <3>1. \A i \in n + 1 .. Len(fs) : i = n + 1
        BY <2>10
      <3>2. \A i \in n + 1 .. Len(fs) : fs[i].id = x /\ fs[i].op \notin {"archive", "delete"}
        BY <2>5, <2>6, <2>10, <3>1
      <3>3. \A i \in n + 1 .. Len(fs) : \A k \in i + 1 .. Len(fs) : FALSE
        BY <2>10
      <3>4. (live[x] # NoGoal => fs[n + 1].op \in {"copy", "remove"}) /\ n < Len(fs)
        BY <2>5, <2>6, <2>9, <2>10
      <3> QED
        <4>1. GoesThrough(fs, x, ks, n)
          BY <1>1, <2>2, <2>9, <2>11, <3>2, <3>3, <3>4 DEF GoesThrough
        <4> QED
          BY <1>1, <1>2, <1>4, <2>8, <2>10, <4>1, GoneThrough
    <2>13. \A k \in 1 .. Len(fs) : stack'[k] = fs[k]
      BY <1>1, <1>2, <2>8, <2>10, PushStep DEF Pushed
    <2>14. \A i \in 1 .. n : stack'[i].op = "delete" /\ stack'[i].id = ks[i]
      BY <2>10, <2>11, <2>13
    <2>15. stack'[n + 1] = last /\ \A k \in 1 .. Len(fs) : k \in 1 .. n \/ k = n + 1
      BY <2>10, <2>13
    <2>16. ASSUME NEW kinds, "delete" \in kinds, kind = "remove", NEW c \in Kids(live[x])
           PROVE  Over(stack', n + 1, kinds, c)
      <3>1. c \in Ran(ks) /\ n + 1 \in Nat /\ n + 1 > Len(ks)
        BY <2>1, <2>2, <2>5, <2>9, <2>16
      <3> QED
        BY <2>9, <2>14, <2>16, <3>1, KidsOver
    <2>17. TakeOK(stack, n + 1)'
      <3>1. x \in visited' /\ live' = live /\ "delete" \in TakeOps
        BY <1>1, <2>8 DEF TakeOps
      <3> QED
        BY <2>5, <2>6, <2>15, <2>16, <3>1 DEF TakeOK
    <2>18. DeleteOK(stack, n + 1)'
      <3>1. x \in removed' /\ live' = live /\ "delete" \in {"delete"}
        BY <1>1, <1>3, <1>4
      <3> QED
        BY <2>5, <2>6, <2>15, <2>16, <3>1 DEF DeleteOK, DeleteOps
    <2>19. ASSUME NEW k \in 1 .. n PROVE TakeOK(stack, k)' /\ DeleteOK(stack, k)'
      <3>1. stack'[k].op = "delete"
        BY <2>14
      <3> QED
        BY <3>1 DEF TakeOK, DeleteOK, DeleteOps
    <2>20. visited' \subseteq Ids
      BY <1>2, <2>8 DEF TreeTyped
    <2> QED
      BY <1>5, <2>8, <2>10, <2>12, <2>15, <2>17, <2>18, <2>19, <2>20
  <1> QED
    BY <1>6, <1>7

-----------------------------------------------------------------------------
(* Every step *)

LEMMA TreeStart == TreeInit => TreeInv
  <1> SUFFICES ASSUME TreeInit PROVE TreeInv
    OBVIOUS
  <1>1. PICK g : g = [NewGoal(0, 0) EXCEPT !.type = "goal"]
    OBVIOUS
  <1>2. g \in Goal /\ g.parent = 0 /\ g.children = <<>> /\ g.depth = 0 /\ g.status = "active"
    <2>1. 0 \in 0 .. MaxGoals /\ 0 \in 0 .. MaxDepth /\ <<>> \in Seq(Ids)
      BY TreeAssumption
    <2>2. NewGoal(0, 0) \in Goal
      BY <2>1 DEF NewGoal, Goal, Statuses
    <2> QED
      BY <1>1, <2>2 DEF NewGoal, Goal
  <1>3. /\ live = [id \in Ids |-> IF id = Root THEN g ELSE NoGoal] /\ archive = [id \in Ids |-> NoGoal]
        /\ side = [id \in Ids |-> "none"] /\ used = 1 /\ stack = <<>> /\ visited = {} /\ tokens = 0
        /\ removed = {}
    BY <1>1 DEF TreeInit
  <1>4. Root \in Ids /\ 1 \in Ids
    BY TreeAssumption DEF Root, Ids
  <1>5. TreeTyped
    <2>1. stack \in Seq(AFrame) /\ tokens \in Nat
      BY <1>3
    <2> QED
      BY <1>2, <1>3, <1>4, <2>1 DEF TreeTyped
  <1>6. \A x \in Ids : archive[x] = NoGoal /\ (x # Root => live[x] = NoGoal) /\ (x = Root => live[x] = g)
    BY <1>3
  <1>7. \A x \in Ids : \A h \in Copies(x) : x = Root /\ h = g
    BY <1>6 DEF Copies
  <1>8. Kids(g) = {}
    BY <1>2 DEF Kids, Ran
  <1>9. Grounded
    BY <1>2, <1>3, <1>7, <1>8 DEF Grounded, Root
  <1>10. OneList
    <2>1. \A x \in Ids : Lists(x) = {}
      BY <1>7, <1>8 DEF Lists
    <2> QED
      BY <1>6, <2>1 DEF OneList
  <1>11. BottomUp
    BY <1>6 DEF BottomUp
  <1>12. Listed
    BY <1>6 DEF Listed, Reached, LoadGoal
  <1>13. Growing
    BY <1>3 DEF Growing
  <1> QED
    BY <1>5, <1>9, <1>10, <1>11, <1>12, <1>13 DEF TreeInv, FilesInv

LEMMA DrawnIds ==
  ASSUME TreeTyped
  PROVE  \A x \in Drawn : x \in Ids
  <1>1. used \in 1 .. MaxGoals
    BY DEF TreeTyped, Ids
  <1>2. MaxGoals \in Nat
    BY TreeAssumption
  <1> QED
    BY <1>1, <1>2 DEF Drawn, Ids

LEMMA WalkKeeps ==
  ASSUME TreeInv, WalkStep
  PROVE  TreeInv'
  <1>1. CASE RefineForced \/ RefineValidated \/ RefineTested \/ RefineChildren \/ RefineMissing
    <2>1. RefineMissing => stack' = <<>> /\ cut' = TRUE /\ UNCHANGED <<goalFiles, used, visited, removed, tokens>>
      BY DEF RefineMissing
    <2> QED
      BY <1>1, <2>1, CutKeeps, RefineForcedKeeps, RefineValidatedKeeps, RefineTestedKeeps, RefineChildrenKeeps
  <1>2. CASE DecomposeLeaf \/ DecomposeRetry \/ DecomposeAccept \/ SaveChild \/ LinkChildren
    BY <1>2, DecomposeLeafKeeps, DecomposeRetryKeeps, DecomposeAcceptKeeps, SaveChildKeeps, LinkChildrenKeeps
  <1>3. CASE Prune \/ CancelGoalAndDescendants \/ Cancelled \/ Unlink
    BY <1>3, PruneKeeps, CancelKeeps, CancelledKeeps, UnlinkStepKeeps
  <1>4. CASE ArchiveGoal \/ CopyToArchive \/ RemoveLive \/ MarkArchived
    BY <1>4, ArchiveGoalKeeps, CopyToArchiveKeeps, RemoveLiveKeeps, MarkArchivedKeeps
  <1>5. CASE MoveSide("sideCopy", {"live"}, "both")
    <2>1. "sideCopy" \in {"sideCopy", "sideRemove"} /\ "both" \in {"both", "archived"}
      OBVIOUS
    <2> QED
      BY <1>5, <2>1, SideKeeps
  <1>6. CASE MoveSide("sideRemove", {"both"}, "archived")
    <2>1. "sideRemove" \in {"sideCopy", "sideRemove"} /\ "archived" \in {"both", "archived"}
      OBVIOUS
    <2> QED
      BY <1>6, <2>1, SideKeeps
  <1>7. CASE DeleteGoal \/ RemoveArchive
    BY <1>7, DeleteGoalKeeps, RemoveArchiveKeeps
  <1> QED
    BY <1>1, <1>2, <1>3, <1>4, <1>5, <1>6, <1>7 DEF WalkStep

LEMMA TreeKeeps == TreeInv /\ [TreeNext]_treeVars => TreeInv'
  <1> SUFFICES ASSUME TreeInv, [TreeNext]_treeVars PROVE TreeInv'
    OBVIOUS
  <1>1. CASE WalkStep
    BY <1>1, WalkKeeps
  <1>2. CASE CrashTree
    BY <1>2, CutKeeps DEF CrashTree
  <1>3. CASE Rewrite \/ Work
    BY <1>3, RewriteKeeps, WorkKeeps
  <1>4. ASSUME NEW id \in Drawn, StartRefine(id) \/ StartArchive(id) \/ StartDelete(id) \/ StartPrune(id)
        PROVE  TreeInv'
    <2>1. id \in Ids
      BY DrawnIds DEF TreeInv
    <2> QED
      BY <1>4, <2>1, StartRefineKeeps, StartArchiveKeeps, StartDeleteKeeps, StartPruneKeeps
  <1>5. CASE UNCHANGED treeVars
    <2>1. UNCHANGED <<live, archive, side, used, stack, visited, tokens, cut, removed>>
      BY <1>5 DEF treeVars, goalFiles, walk
    <2>2. TreeTyped'
      BY <2>1 DEF TreeInv, TreeTyped
    <2>3. FilesInv'
      BY <2>1, FilesSame DEF TreeInv
    <2>4. Growing => Growing'
      BY <2>1 DEF Growing, GrowOK, SaveOK, LinkOK, Near, Pending, Awaited, Stands, Over, Gone, Lists, Copies
    <2>5. Pruning => Pruning'
      BY <2>1 DEF Pruning, PruneOK, Over
    <2>6. Taking => Taking'
      BY <2>1 DEF Taking, TakeOK, Downward, Visits, Over
    <2>7. (Archiving => Archiving') /\ (Deleting => Deleting')
      BY <2>1, <2>6 DEF Archiving, ArchiveOK, Deleting, DeleteOK, Stands, Over
    <2> QED
      BY <2>2, <2>3, <2>4, <2>5, <2>7 DEF TreeInv
  <1> QED
    BY <1>1, <1>2, <1>3, <1>4, <1>5 DEF TreeNext

\* What the files of a tree promise follows.
LEMMA TreeHolds ==
  ASSUME TreeInv
  PROVE  TreeTypeOK /\ ListedGoalsLoad /\ ArchivedBottomUp /\ NoOrphans
  <1>1. TreeTyped /\ Grounded /\ BottomUp /\ Listed
    BY DEF TreeInv, FilesInv
  <1>2. \A id \in Drawn : id \in Ids
    BY <1>1, DrawnIds
  <1>3. TreeTypeOK
    <2>1. \A i \in DOMAIN stack : stack[i].id \in Ids /\ stack[i].n \in Nat
      <3>1. \A i \in DOMAIN stack : stack[i] \in AFrame
        BY <1>1 DEF TreeTyped
      <3> QED
        BY <3>1 DEF AFrame
    <2> QED
      BY <1>1, <2>1 DEF TreeTyped, TreeTypeOK
  <1>4. ListedGoalsLoad
    <2> SUFFICES ASSUME NEW id \in Drawn, LoadGoal(id) # NoGoal, NEW c \in Ran(LoadGoal(id).children),
                        LoadGoal(c) = NoGoal
                 PROVE  c \in removed
      BY DEF ListedGoalsLoad
    <2>1. LoadGoal(id) \in Copies(id) /\ id \in Ids
      BY <1>1, <1>2, Loads
    <2>2. c \in Kids(LoadGoal(id))
      BY DEF Kids
    <2>3. Gone(c)
      BY DEF LoadGoal, Gone
    <2> QED
      BY <1>1, <2>1, <2>2, <2>3 DEF Grounded
  <1>5. ArchivedBottomUp
    BY <1>1, <1>2 DEF BottomUp, ArchivedBottomUp, Kids
  <1>6. NoOrphans
    <2> SUFFICES ASSUME stack = <<>>, ~cut, NEW x \in Drawn \ (removed \union {Root}),
                        LoadGoal(x) # NoGoal, LoadGoal(x).status = "active",
                        LoadGoal(LoadGoal(x).parent) # NoGoal
                 PROVE  x \in Ran(LoadGoal(LoadGoal(x).parent).children)
      BY DEF NoOrphans
    <2>1. \A q : ~Awaited(stack, x, q)
      BY DEF Awaited
    <2> QED
      BY <1>1, <1>2, <2>1 DEF Listed, Reached, Kids
  <1> QED
    BY <1>3, <1>4, <1>5, <1>6

-----------------------------------------------------------------------------
(* All of them together *)

GoalsInv == TreeInv /\ NegInv /\ DepsInv /\ ObsInv /\ AggInv /\ SrcInv /\ CapInv /\ CurInv /\ GapInv

\* A step of the whole, seen from one part, is a step of that part or none.
LEMMA PartSteps ==
  ASSUME [Next]_goalsVars
  PROVE  /\ [TreeNext]_treeVars /\ [NegNext]_negVars /\ [DepsNext]_depsVars /\ [ObsNext]_obsVars /\ [AggNext]_aggVars
         /\ [SrcNext]_srcVars /\ [CurNext]_curVars /\ [GapNext]_gapVars
         /\ AcquireStep \/ AddDependency \/ UNCHANGED capVars
         /\ UNCHANGED part
  <1>1. CASE UNCHANGED goalsVars
    BY <1>1 DEF goalsVars
  <1>2. CASE TreeStep
    BY <1>2 DEF TreeStep, Only
  <1>3. CASE NegStep
    BY <1>3 DEF NegStep, Only
  <1>4. CASE DepsStep
    BY <1>4 DEF DepsStep, Only
  <1>5. CASE ObsStep
    BY <1>5 DEF ObsStep, Only
  <1>6. CASE AggStep
    BY <1>6 DEF AggStep, Only
  <1>7. CASE CapStep
    BY <1>7 DEF CapStep, Only
  <1>8. CASE OrderStep
    BY <1>8 DEF OrderStep, Only
  <1>9. CASE CurStep
    BY <1>9 DEF CurStep, Only
  <1>10. CASE GapStep
    BY <1>10 DEF GapStep, Only
  <1>11. CASE SrcStep
    BY <1>11 DEF SrcStep, Only
  <1> QED
    BY <1>1, <1>2, <1>3, <1>4, <1>5, <1>6, <1>7, <1>8, <1>9, <1>10, <1>11 DEF Next

LEMMA GoalsStart == Init => GoalsInv
  <1> SUFFICES ASSUME Init PROVE GoalsInv
    OBVIOUS
  <1>1. TreeInit /\ NegInit /\ DepsInit /\ ObsInit /\ AggInit /\ CapInit /\ CurInit /\ SrcInit
    BY DEF Init
  <1>2. GapInit \/ GapIdle
    BY DEF Init
  <1>3. GapInv
    BY <1>2, GapStart DEF GapIdle
  <1> QED
    BY <1>1, <1>3, TreeStart, NegStart, DepsStart, ObsStart, AggStart, CapStart, CurStart, SrcStart DEF GoalsInv

LEMMA GoalsKeep == GoalsInv /\ [Next]_goalsVars => GoalsInv'
  <1> SUFFICES ASSUME GoalsInv, [Next]_goalsVars PROVE GoalsInv'
    OBVIOUS
  <1>1. /\ [TreeNext]_treeVars /\ [NegNext]_negVars /\ [DepsNext]_depsVars /\ [ObsNext]_obsVars /\ [AggNext]_aggVars
        /\ [SrcNext]_srcVars /\ [CurNext]_curVars /\ [GapNext]_gapVars
        /\ AcquireStep \/ AddDependency \/ UNCHANGED capVars
    BY PartSteps
  <1>2. TreeInv' /\ NegInv' /\ DepsInv' /\ ObsInv' /\ AggInv' /\ SrcInv'
    BY <1>1, TreeKeeps, NegKeeps, DepsKeeps, ObsKeeps, AggKeeps, SrcKeeps DEF GoalsInv
  <1>3. CurInv' /\ GapInv'
    BY <1>1, CurKeeps, GapKeeps DEF GoalsInv
  <1>4. CapInv'
    <2>1. AcquireStep => UNCHANGED prereqs
      BY DEF AcquireStep
    <2>2. UNCHANGED capVars => UNCHANGED acquireVars /\ UNCHANGED prereqs
      BY DEF capVars, acquireVars
    <2> QED
      BY <1>1, <2>1, <2>2, CapKeeps, CapOrders DEF GoalsInv
  <1> QED
    BY <1>2, <1>3, <1>4 DEF GoalsInv

LEMMA GoalsAlways == Spec => []GoalsInv
  BY GoalsStart, GoalsKeep, PTL DEF Spec

\* The files of a tree hang together, wherever decompositions, archiving, deletions
\* and crashes stopped: what is listed loads, below an archived goal nothing is
\* live, and no active goal is unlisted while nothing was cut off.
THEOREM TreeSoundHolds == Spec => []TreeSound
  <1>1. GoalsInv => TreeSound
    BY TreeHolds DEF GoalsInv, TreeSound
  <1> QED
    BY <1>1, GoalsAlways, PTL

\* The types of all parts.
THEOREM TypesHold == Spec => []TypesOK
  <1>1. GoalsInv => TypesOK
    <2>1. GoalsInv => TreeTypeOK /\ NegTypeOK /\ DepsTypeOK
      BY TreeHolds DEF GoalsInv, NegInv, DepsInv
    <2>2. GoalsInv => ObsTypeOK /\ AggTypeOK /\ CapTypeOK
      BY ObsGrounded, AggHolds, CapHolds DEF GoalsInv
    <2>3. GoalsInv => CurTypeOK /\ GapTypeOK /\ SrcTypeOK
      BY CurHolds, GapHolds DEF GoalsInv, SrcInv
    <2> QED
      BY <2>1, <2>2, <2>3 DEF TypesOK
  <1> QED
    BY <1>1, GoalsAlways, PTL

\* A goal is registered only as the user was told: what it is measured by, the
\* thresholds and the verdict are those of the answer.
THEOREM RegisteredHolds == Spec => []RegisteredAsTold
  <1>1. GoalsInv => RegisteredAsTold
    BY NegTold DEF GoalsInv
  <1> QED
    BY <1>1, GoalsAlways, PTL

\* No goals wait for one another in a circle, with every edge added and removed
\* in whatever order.
THEOREM NoCircleHolds == Spec => []NoWaitingCircle
  <1>1. GoalsInv => NoWaitingCircle
    BY DepsFreed DEF GoalsInv
  <1> QED
    BY <1>1, GoalsAlways, PTL

\* What the loop goes by has grounds, in every part.
THEOREM GroundsAlways == Spec => []GroundsHold
  <1>1. GoalsInv => GroundsHold
    <2>1. GoalsInv => /\ GainNeedsEvidence /\ ConfidenceEarned /\ ParentNotAhead
                      /\ StatusEarned /\ AcquisitionOrdered
                      /\ StaysMeasured
      BY ObsGrounded, AggHolds, CapHolds, OrderHolds, SrcMeasured DEF GoalsInv
    <2>2. GoalsInv => /\ ProposalsBounded /\ RejectedStayOut /\ QuickCheckAgrees
                      /\ SkipsWhenMet /\ TargetIsUnmet /\ FullMeansMet
      BY CurHolds, GapHolds DEF GoalsInv
    <2> QED
      BY <2>1, <2>2 DEF GroundsHold
  <1> QED
    BY <1>1, GoalsAlways, PTL
=============================================================================
