--------------------------- MODULE StrategyProofs ---------------------------
(***************************************************************************)
(* For any window, any dimensions, strategies and limits, and any failed   *)
(* writes and restarts: one strategy is active at most, the history keeps  *)
(* up with the portfolio, a first stall waits, and no stall of the whole   *)
(* goal is ever handled as one.                                            *)
(***************************************************************************)
EXTENDS Strategy, SequenceTheorems, WellFoundedInduction, TLAPS

USE StrategyAssumption DEF StrategyAssumption

-----------------------------------------------------------------------------
(* The first of a set of numbers *)

LEMMA FirstIn ==
  ASSUME NEW S \in SUBSET Nat, S # {}
  PROVE  First(S) \in S /\ \A t \in S : First(S) <= t
  <1> DEFINE R == {p \in Nat \X Nat : p[1] < p[2]}
  <1>1. IsWellFoundedOn(R, Nat)
    BY NatLessThanWellFounded, Zenon DEF OpToRel
  <1> HIDE DEF R
  <1>2. PICK x \in S : \A y \in S : ~(<<y, x>> \in R)
    BY <1>1, WFMin
  <1>3. ASSUME NEW y \in S PROVE x <= y
    <2>1. <<y, x>> \in Nat \X Nat /\ ~(<<y, x>> \in R)
      BY <1>2
    <2>2. ~(y < x)
      BY <2>1 DEF R
    <2> QED
      BY <2>2
  <1> QED
    BY <1>3 DEF First

LEMMA FirstOf ==
  ASSUME TypeOK, NEW st \in States, In(st) # {}
  PROVE  First(In(st)) \in In(st)
  <1>1. In(st) \subseteq Nat
    BY DEF In, Strategies
  <1> QED
    BY <1>1, FirstIn

LEMMA ActiveType ==
  ASSUME TypeOK
  PROVE  /\ Active \in Strategies \cup {0}
         /\ Active = 0 => In("active") = {}
         /\ Active # 0 => Active \in In("active")
  <1>1. "active" \in States /\ In("active") \subseteq Strategies
    BY DEF States, In
  <1>2. 0 \notin Strategies
    BY DEF Strategies
  <1> QED
    BY <1>1, <1>2, FirstOf DEF Active

LEMMA ReportedType ==
  ASSUME TypeOK
  PROVE  Reported \in Dims \cup {0}
  <1>1. CASE Stalled # {}
    <2>1. Stalled \subseteq Nat /\ Stalled \subseteq Dims
      BY DEF Stalled, Dims
    <2> QED
      BY <1>1, <2>1, FirstIn DEF Reported
  <1>2. CASE Stalled = {} /\ GlobalStall(hist)
    <2>1. Dims # {}
      BY <1>2 DEF GlobalStall, TypeOK
    <2> QED
      BY <1>2, <2>1 DEF Reported, Dims
  <1> QED
    BY <1>1, <1>2 DEF Reported

-----------------------------------------------------------------------------
(* Types *)

\* What the locals hold at each step of a stall.
LocalsOK ==
    /\ pc \in {"off", "idle", "detect"} => dim = 0 /\ old = 0 /\ ~plain
    /\ pc \notin {"off", "idle", "detect"} => dim \in Dims
    /\ pc = "terminate" => old = Active
    /\ pc \in {"archive", "generate", "activate"} => In("active") = {}
    /\ pc = "archive" => old \in In("terminated")
    /\ pc = "activate" => In("candidate") # {}
    /\ pc = "count" => old \in Strategies

\* A level above zero was raised in this run, and an ordinary pivot is for a
\* dimension whose level was.
LevelOK ==
    /\ pc # "off" => \A d \in Dims : level[d] # 0 => d \in seen
    /\ plain => dim \in seen

StrategyInv == TypeOK /\ LocalsOK /\ LevelOK /\ OneActive /\ HistoryKept

THEOREM InitInv == Init => StrategyInv
  <1> SUFFICES ASSUME Init PROVE StrategyInv
    OBVIOUS
  <1> USE DEF Init
  <1>0. hist \in [Dims -> Seq(0 .. 100)]
    BY EmptySeq
  <1>a. plain \in BOOLEAN
    OBVIOUS
  <1>b. /\ state \in [Strategies -> States]
        /\ pivots \in [Strategies -> Nat]
        /\ level \in [Dims -> 0 .. EscalationCap]
    BY DEF States, EscalationCap
  <1>1. TypeOK
    BY <1>0, <1>a, <1>b DEF TypeOK, Steps
  <1>2. \A st \in {"candidate", "active", "terminated"} : In(st) = {}
    BY DEF In
  <1> QED
    BY <1>1, <1>2 DEF StrategyInv, LocalsOK, LevelOK, OneActive, HistoryKept

-----------------------------------------------------------------------------
(* The step in which nothing happens to a strategy *)

LEMMA SameStates ==
  ASSUME state' = state
  PROVE  /\ \A st : In(st)' = In(st)
         /\ Active' = Active
  BY DEF In, Active, First
-----------------------------------------------------------------------------
(* The run and its iterations *)

LEMMA StartRunInv ==
  ASSUME StrategyInv, StartRun
  PROVE  StrategyInv'
  <1> USE DEF StrategyInv, StartRun
  <1>0. (\A st : In(st)' = In(st)) /\ Active' = Active
    BY SameStates
  <1>1. TypeOK'
    BY DEF TypeOK, Steps, EscalationCap
  <1>2. LocalsOK'
    BY DEF LocalsOK
  <1>3. LevelOK'
    BY DEF LevelOK, LocalsOK
  <1> QED
    BY <1>0, <1>1, <1>2, <1>3 DEF OneActive, HistoryKept

LEMMA MeasureInv ==
  ASSUME StrategyInv, Measure
  PROVE  StrategyInv'
  <1> USE DEF StrategyInv, Measure
  <1>0. (\A st : In(st)' = In(st)) /\ Active' = Active
    BY SameStates
  <1>1. TypeOK'
    <2>1. \A g \in Measured : \A d \in Dims : g[d] \in 0 .. 100
      BY DEF Measured, Dims
    <2>2. hist' \in [Dims -> Seq(0 .. 100)]
      BY <2>1, AppendProperties DEF TypeOK
    <2> QED
      BY <2>2 DEF TypeOK, Steps
  <1>2. LocalsOK'
    BY DEF LocalsOK
  <1>3. LevelOK'
    BY DEF LevelOK, LocalsOK
  <1> QED
    BY <1>0, <1>1, <1>2, <1>3 DEF OneActive, HistoryKept

\* A stall of the goal is a stall of one of its dimensions.
LEMMA GlobalLocal ==
  ASSUME TypeOK
  PROVE  GlobalIsLocal
  <1> SUFFICES ASSUME GlobalStall(hist) PROVE \E d \in Dims : DimensionStall(hist[d])
    BY DEF GlobalIsLocal, Stalled
  <1>1. DOMAIN hist = Dims
    BY DEF TypeOK
  <1>2. CASE \E d \in Dims : ZeroProgress(hist[d])
    BY <1>1, <1>2 DEF GlobalStall, DimensionStall
  <1>3. CASE ~ \E d \in Dims : ZeroProgress(hist[d])
    <2>1. PICK d \in Dims : ~Achieved(hist[d])
      BY <1>1, <1>3 DEF GlobalStall
    <2> QED
      BY <1>1, <1>3, <2>1 DEF GlobalStall, DimensionStall
  <1> QED
    BY <1>2, <1>3

LEMMA DetectInv ==
  ASSUME StrategyInv, Detect
  PROVE  StrategyInv'
  <1> USE DEF StrategyInv
  <1>0. state' = state /\ (\A st : In(st)' = In(st)) /\ Active' = Active
    BY SameStates DEF Detect, files
  <1>a. dim' = Reported /\ Reported \in Dims \cup {0} /\ Active \in Strategies \cup {0}
    BY ReportedType, ActiveType DEF Detect
  <1>1. TypeOK'
    BY <1>a DEF TypeOK, Detect, files, Steps
  <1>b. 0 \notin Dims
    BY DEF Dims
  <1>2. LocalsOK'
    BY <1>0, <1>a, <1>b DEF LocalsOK, Detect
  <1>3. LevelOK'
    <2>1. ~plain
      BY DEF Detect, LocalsOK
    <2>2. ASSUME plain' PROVE dim' \in seen
      <3>1. /\ Reported # 0 /\ StallCount(Reported) >= 2
            /\ Recommended(hist[Reported]) = "pivot" /\ ~Limited
            /\ StallCount(Reported) \in Nat
        <4>1. /\ Reported # 0 /\ ~(StallCount(Reported) < 2)
              /\ Recommended(hist[Reported]) = "pivot" /\ ~Limited
          BY <2>1, <2>2 DEF Detect
        <4>0. level \in [Dims -> 0 .. 3] /\ Reported \in Dims
          BY <1>a, <4>1 DEF TypeOK, EscalationCap
        <4>2. level[Reported] \in Nat
          BY <4>0
        <4>3. StallCount(Reported) \in Nat
          BY <4>2 DEF StallCount
        <4> QED
          BY <4>1, <4>3
      <3>2. Stalled # {}
        BY <3>1, GlobalLocal DEF GlobalIsLocal, Reported
      <3>3. level[Reported] # 0
        BY <3>1, <3>2 DEF StallCount
      <3> QED
        BY <1>a, <3>1, <3>3 DEF LevelOK, Detect
    <2> QED
      BY <2>2 DEF LevelOK, Detect, files
  <1> QED
    BY <1>0, <1>1, <1>2, <1>3 DEF OneActive, HistoryKept, Detect, files

-----------------------------------------------------------------------------
(* onStallDetected() *)

LEMMA TerminateInv ==
  ASSUME StrategyInv, Terminate
  PROVE  StrategyInv'
  <1> USE DEF StrategyInv
  <1>t. /\ dim \in Dims /\ old = Active
    BY DEF LocalsOK, Terminate
  <1>1. CASE Active = 0
    <2>0. state' = state
      BY <1>1 DEF Terminate
    <2>1. (\A st : In(st)' = In(st)) /\ Active' = Active
      BY <2>0, SameStates
    <2>2. In("active") = {}
      BY <1>1, ActiveType
    <2>3. TypeOK'
      BY <1>1 DEF TypeOK, Terminate, Steps
    <2> QED
      BY <1>1, <1>t, <2>1, <2>2, <2>3
      DEF Terminate, LocalsOK, LevelOK, OneActive, HistoryKept
  <1>2. CASE Active # 0
    <2>1. Active \in In("active") /\ Active \in Strategies
      BY <1>2, ActiveType
    <2>2. /\ state' = [state EXCEPT ![Active] = "terminated"] /\ pc' = "archive"
          /\ UNCHANGED <<hist, pivots, history, level, dim, old, plain, seen,
                         lost, runs, failures>>
      BY <1>2 DEF Terminate
    <2>3. TypeOK'
      BY <2>2 DEF TypeOK, Steps, States
    <2>4. \A s \in Strategies :
             state'[s] = IF s = Active THEN "terminated" ELSE state[s]
      BY <2>2 DEF TypeOK
    <2>5. In("active")' = {}
      BY <2>1, <2>4 DEF In, OneActive
    <2>6. In("terminated")' = In("terminated") \cup {Active}
      BY <2>1, <2>4 DEF In
    <2>7. In("candidate")' = In("candidate")
      BY <2>1, <2>4 DEF In
    <2> QED
      BY <1>t, <2>1, <2>2, <2>3, <2>5, <2>6
      DEF LocalsOK, LevelOK, OneActive, HistoryKept, Terminate
  <1> QED
    BY <1>1, <1>2

LEMMA ArchiveInv ==
  ASSUME StrategyInv, Archive
  PROVE  StrategyInv'
  <1> USE DEF StrategyInv, Archive
  <1>0. (\A st : In(st)' = In(st)) /\ Active' = Active
    BY SameStates
  <1>1. old \in In("terminated") /\ In("terminated") \subseteq Strategies
    BY DEF LocalsOK, In
  <1>2. TypeOK'
    BY <1>1 DEF TypeOK, Steps
  <1> QED
    BY <1>0, <1>1, <1>2 DEF LocalsOK, LevelOK, OneActive, HistoryKept

LEMMA GenerateInv ==
  ASSUME StrategyInv, Generate
  PROVE  StrategyInv'
  <1> USE DEF StrategyInv
  <1>1. PICK new \in SUBSET In("absent") :
          /\ state' = [s \in Strategies |->
                           IF s \in new THEN "candidate" ELSE state[s]]
          /\ pc' = IF new = {} THEN "raise" ELSE "activate"
    BY DEF Generate
  <1>2. /\ UNCHANGED <<hist, pivots, history, level, dim, old, plain, seen,
                       lost, runs, failures>>
        /\ pc = "generate"
    BY DEF Generate
  <1>3. TypeOK'
    BY <1>1, <1>2 DEF TypeOK, Steps, States
  <1>4. \A s \in new : s \in Strategies /\ state[s] = "absent"
    BY DEF In
  <1>5. In("active")' = In("active") /\ In("terminated")' = In("terminated")
    BY <1>1, <1>4 DEF In
  <1>6. new \subseteq In("candidate")'
    BY <1>1, <1>4 DEF In
  <1>7. LocalsOK'
    BY <1>1, <1>2, <1>5, <1>6 DEF LocalsOK
  <1>8. HistoryKept'
    BY <1>1, <1>2, <1>5 DEF HistoryKept
  <1> QED
    BY <1>1, <1>2, <1>3, <1>5, <1>7, <1>8 DEF LevelOK, OneActive

LEMMA ActivateInv ==
  ASSUME StrategyInv, Activate
  PROVE  StrategyInv'
  <1> USE DEF StrategyInv
  <1>0. Best \in In("candidate")
    BY FirstOf DEF Activate, LocalsOK, Best, States
  <1>1. /\ state' = [state EXCEPT ![Best] = "active"]
        /\ pc' = IF plain /\ old # 0 THEN "count" ELSE "raise"
        /\ UNCHANGED <<hist, pivots, history, level, dim, old, plain, seen,
                       lost, runs, failures>>
        /\ pc = "activate"
    BY DEF Activate
  <1>2. TypeOK'
    BY <1>1 DEF TypeOK, Steps, States
  <1>3. \A s \in Strategies :
           state'[s] = IF s = Best THEN "active" ELSE state[s]
    BY <1>1 DEF TypeOK
  <1>4. Best \in Strategies /\ state[Best] = "candidate"
    BY <1>0 DEF In
  <1>5. In("active") = {}
    BY <1>1 DEF LocalsOK
  <1>6. In("active")' = {Best}
    BY <1>3, <1>4, <1>5 DEF In
  <1>7. In("terminated")' = In("terminated")
    BY <1>3, <1>4 DEF In
  <1>8. LocalsOK'
    BY <1>1 DEF LocalsOK, TypeOK
  <1>9. HistoryKept'
    BY <1>1, <1>7 DEF HistoryKept
  <1>10. OneActive'
    BY <1>6 DEF OneActive
  <1> QED
    BY <1>1, <1>2, <1>8, <1>9, <1>10 DEF LevelOK

LEMMA CountInv ==
  ASSUME StrategyInv, Count
  PROVE  StrategyInv'
  <1> USE DEF StrategyInv, Count
  <1>0. (\A st : In(st)' = In(st)) /\ Active' = Active
    BY SameStates
  <1>p. /\ pivots \in [Strategies -> Nat] /\ old \in Strategies
        /\ pivots' = [pivots EXCEPT ![old] = pivots[old] + 1]
    BY DEF TypeOK, LocalsOK
  <1>a. pivots' \in [Strategies -> Nat]
    BY ONLY <1>p
  <1>1. TypeOK'
    BY <1>a DEF TypeOK, Steps
  <1> QED
    BY <1>0, <1>1 DEF LocalsOK, LevelOK, OneActive, HistoryKept

LEMMA RaiseInv ==
  ASSUME StrategyInv, Raise
  PROVE  StrategyInv'
  <1> USE DEF StrategyInv, Raise
  <1>0. (\A st : In(st)' = In(st)) /\ Active' = Active
    BY SameStates
  <1>a. dim \in Dims
    BY DEF LocalsOK
  <1>p. /\ level \in [Dims -> 0 .. 3]
        /\ level' = [level EXCEPT
                         ![dim] = IF level[dim] < 3 THEN level[dim] + 1
                                  ELSE level[dim]]
    BY DEF TypeOK, EscalationCap
  <1>b. level' \in [Dims -> 0 .. EscalationCap]
    BY ONLY <1>a, <1>p DEF EscalationCap
  <1>c. plain' \in BOOLEAN
    OBVIOUS
  <1>1. TypeOK'
    BY <1>a, <1>b, <1>c DEF TypeOK, Steps
  <1>2. LevelOK'
    BY <1>a DEF LevelOK, TypeOK
  <1> QED
    BY <1>0, <1>1, <1>2 DEF LocalsOK, OneActive, HistoryKept

-----------------------------------------------------------------------------
(* Interruptions *)

LEMMA FailInv ==
  ASSUME StrategyInv, Fail
  PROVE  StrategyInv'
  <1> USE DEF StrategyInv, Fail, files, CutOff
  <1>0. (\A st : In(st)' = In(st)) /\ Active' = Active
    BY SameStates
  <1>a. pc = "archive" => old \in Strategies
    BY DEF LocalsOK, In
  <1>b. lost' \subseteq Strategies
    BY <1>a DEF TypeOK
  <1>c. plain' \in BOOLEAN
    OBVIOUS
  <1>1. TypeOK'
    BY <1>b, <1>c DEF TypeOK, Steps
  <1> QED
    BY <1>0, <1>1 DEF LocalsOK, LevelOK, OneActive, HistoryKept

LEMMA FailToPivotInv ==
  ASSUME StrategyInv, FailToPivot
  PROVE  StrategyInv'
  <1> USE DEF StrategyInv, FailToPivot, files
  <1>0. (\A st : In(st)' = In(st)) /\ Active' = Active
    BY SameStates
  <1>1. TypeOK'
    BY DEF TypeOK, Steps
  <1> QED
    BY <1>0, <1>1 DEF LocalsOK, LevelOK, OneActive, HistoryKept

LEMMA EndInv ==
  ASSUME StrategyInv, End
  PROVE  StrategyInv'
  <1> USE DEF StrategyInv, End, files, CutOff
  <1>0. (\A st : In(st)' = In(st)) /\ Active' = Active
    BY SameStates
  <1>a. pc = "archive" => old \in Strategies
    BY DEF LocalsOK, In
  <1>b. lost' \subseteq Strategies
    BY <1>a DEF TypeOK
  <1>c. plain' \in BOOLEAN
    OBVIOUS
  <1>1. TypeOK'
    BY <1>b, <1>c DEF TypeOK, Steps
  <1> QED
    BY <1>0, <1>1 DEF LocalsOK, LevelOK, OneActive, HistoryKept

LEMMA StutterInv ==
  ASSUME StrategyInv, UNCHANGED vars
  PROVE  StrategyInv'
  <1> USE DEF StrategyInv, vars, files, locals
  <1>0. (\A st : In(st)' = In(st)) /\ Active' = Active
    BY SameStates
  <1> QED
    BY <1>0 DEF TypeOK, LocalsOK, LevelOK, OneActive, HistoryKept

THEOREM NextInv == StrategyInv /\ [Next]_vars => StrategyInv'
  BY StartRunInv, MeasureInv, DetectInv, TerminateInv, ArchiveInv, GenerateInv,
     ActivateInv, CountInv, RaiseInv, FailInv, FailToPivotInv, EndInv,
     StutterInv DEF Next

-----------------------------------------------------------------------------
(* The theorems *)

\* StrategyInv holds of every behaviour.
THEOREM AlwaysInv == Spec => []StrategyInv
  BY InitInv, NextInv, PTL DEF Spec

\* At most one strategy is active, for any number of strategies, dimensions,
\* failed writes and restarts.
THEOREM OneStrategyActive == Spec => []OneActive
  <1>1. StrategyInv => OneActive
    BY DEF StrategyInv
  <1> QED
    BY <1>1, AlwaysInv, PTL

\* The history loses no terminated strategy but those whose archiving was cut
\* off.
THEOREM HistoryComplete == Spec => []HistoryKept
  <1>1. StrategyInv => HistoryKept
    BY DEF StrategyInv
  <1> QED
    BY <1>1, AlwaysInv, PTL

\* For every window and every history, a stall of the goal is also one of a
\* dimension, and is handled as that.
THEOREM GlobalNeverAlone == Spec => []GlobalIsLocal
  <1>1. StrategyInv => GlobalIsLocal
    BY GlobalLocal DEF StrategyInv
  <1> QED
    BY <1>1, AlwaysInv, PTL

\* No strategy goes back to a state it has left.
THEOREM StrategiesGoForward == Spec => ForwardOnly
  <1>1. StrategyInv /\ [Next]_vars =>
            [\A s \in Strategies : Rank[state[s]] <= Rank[state'[s]]]_vars
    <2> SUFFICES ASSUME StrategyInv, Next, NEW s \in Strategies
                 PROVE  Rank[state[s]] <= Rank[state'[s]]
      OBVIOUS
    <2> USE DEF Rank, States, TypeOK, StrategyInv
    <2>0. CASE state' = state
      BY <2>0
    <2>1. CASE Terminate /\ Active # 0
      <3>1. Active \in In("active")
        BY <2>1, ActiveType
      <3> QED
        BY <2>1, <3>1 DEF Terminate, In
    <2>2. CASE Generate
      <3>1. PICK new \in SUBSET In("absent") :
               state' = [q \in Strategies |->
                             IF q \in new THEN "candidate" ELSE state[q]]
        BY <2>2 DEF Generate
      <3> QED
        BY <3>1 DEF In
    <2>3. CASE Activate
      <3>1. Best \in In("candidate")
        BY <2>3, FirstOf DEF Activate, LocalsOK, Best
      <3> QED
        BY <2>3, <3>1 DEF Activate, In
    <2> QED
      BY <2>0, <2>1, <2>2, <2>3
      DEF Next, StartRun, Measure, Detect, Terminate, Archive, Count, Raise,
          Fail, FailToPivot, End, files
  <1> QED
    BY <1>1, AlwaysInv, PTL DEF Spec, ForwardOnly

\* An ordinary pivot follows an earlier stall of its dimension in the same run.
THEOREM FirstStallNotifies == Spec => FirstStallWaits
  <1>1. StrategyInv /\ [Next]_vars =>
            [In("active")' # In("active") /\ plain => dim \in seen]_vars
    BY DEF StrategyInv, LevelOK
  <1> QED
    BY <1>1, AlwaysInv, PTL DEF Spec, FirstStallWaits
=============================================================================
