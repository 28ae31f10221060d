--------------------------- MODULE TreeLoopProofs ---------------------------
(***************************************************************************)
(* Theorems about TreeLoop, for every tree, every order of a walk over it, *)
(* every limit and any number of runs and crashes: the types, the verdict  *)
(* on a tree, the completion cascade and the slots a fresh run finds free. *)
(***************************************************************************)
EXTENDS TreeLoop, FiniteSetTheorems, WellFoundedInduction, TLAPS

USE TreeAssumption DEF TreeAssumption

-----------------------------------------------------------------------------
(* The smallest of a set of numbers *)

LEMMA Smallest ==
  ASSUME NEW S \in SUBSET Nat, S # {}
  PROVE  \E x \in S : \A y \in S : x <= y
  <1> DEFINE R == {p \in Nat \X Nat : p[1] < p[2]}
  <1>1. IsWellFoundedOn(R, Nat)
    BY NatLessThanWellFounded, Zenon DEF OpToRel
  <1> HIDE DEF R
  <1>2. PICK x \in S : \A y \in S : ~(<<y, x>> \in R)
    BY <1>1, WFMin
  <1>3. ASSUME NEW y \in S PROVE x <= y
    <2>1. <<y, x>> \in Nat \X Nat /\ ~(<<y, x>> \in R)
      BY <1>2
    <2>2. ~(y < x)
      BY <2>1 DEF R
    <2> QED
      BY <2>2
  <1> QED
    BY <1>3

-----------------------------------------------------------------------------
(* What is above a node *)

\* A set that is closed towards the root, if it is not empty, holds the root.
LEMMA Upwards ==
  ASSUME NEW S \in SUBSET Nodes, S # {}, \A n \in S \ {Root} : Parent[n] \in S
  PROVE  Root \in S
  OBVIOUS

\* The definition of Above has a solution: the nodes that are in every solution
\* of it read as an inclusion.
LEMMA AboveIs ==
  Above = [n \in Nodes |-> IF n = Root THEN {} ELSE {Parent[n]} \cup Above[Parent[n]]]
  <1> DEFINE Closed(R) == \A n \in Nodes \ {Root} : {Parent[n]} \cup R[Parent[n]] \subseteq R[n]
             Rels == [Nodes -> SUBSET Nodes]
             W == [n \in Nodes |-> {m \in Nodes : \A R \in Rels : Closed(R) => m \in R[n]}]
             F == [n \in Nodes |-> IF n = Root THEN {} ELSE {Parent[n]} \cup W[Parent[n]]]
  <1>1. \A n \in Nodes : F[n] \subseteq W[n]
    <2> SUFFICES ASSUME NEW n \in Nodes, NEW m \in F[n]
                 PROVE  m \in W[n]
      OBVIOUS
    <2>1. n # Root /\ Parent[n] \in Nodes /\ (m = Parent[n] \/ m \in W[Parent[n]])
      OBVIOUS
    <2>2. m \in Nodes
      BY <2>1
    <2>3. ASSUME NEW R \in Rels, Closed(R)
          PROVE  m \in R[n]
      <3>1. m = Parent[n] \/ m \in R[Parent[n]]
        BY <2>1, <2>3
      <3> QED
        BY <2>1, <2>3, <3>1
    <2> QED
      BY <2>2, <2>3
  <1>2. F \in Rels
    OBVIOUS
  <1>3. Closed(F)
    <2> SUFFICES ASSUME NEW n \in Nodes \ {Root}
                 PROVE  {Parent[n]} \cup F[Parent[n]] \subseteq F[n]
      OBVIOUS
    <2>1. Parent[n] \in Nodes /\ F[n] = {Parent[n]} \cup W[Parent[n]]
      OBVIOUS
    <2> QED
      BY <1>1, <2>1
  <1>4. ASSUME NEW n \in Nodes, NEW m \in W[n]
        PROVE  m \in F[n]
    <2>1. \A R \in Rels : Closed(R) => m \in R[n]
      BY <1>4
    <2> HIDE DEF F, W
    <2> QED
      BY <2>1, <1>2, <1>3
  <1>5. W = F
    <2>1. W = [n \in Nodes |-> W[n]] /\ F = [n \in Nodes |-> F[n]]
      OBVIOUS
    <2> HIDE DEF F, W
    <2>2. ASSUME NEW n \in Nodes PROVE W[n] = F[n]
      <3>1. \A m : m \in W[n] <=> m \in F[n]
        BY <1>1, <1>4
      <3> QED
        BY <3>1, Zenon
    <2> QED
      BY <2>1, <2>2
  <1>6. \E A : A = [n \in Nodes |-> IF n = Root THEN {} ELSE {Parent[n]} \cup A[Parent[n]]]
    <2> HIDE DEF W
    <2> QED
      BY <1>5
  <1> HIDE DEF W, F
  <1> QED
    BY <1>6 DEF Above

LEMMA AboveRoot == Above[Root] = {}
  BY AboveIs

LEMMA AboveStep ==
  ASSUME NEW n \in Nodes \ {Root}
  PROVE  Parent[n] \in Nodes /\ Above[n] = {Parent[n]} \cup Above[Parent[n]]
  BY AboveIs

LEMMA AboveNodes ==
  ASSUME NEW n \in Nodes
  PROVE  Above[n] \subseteq Nodes
  <1> DEFINE S == {k \in Nodes : ~(Above[k] \subseteq Nodes)}
  <1>1. Root \notin S
    BY AboveRoot
  <1>2. \A k \in S \ {Root} : Parent[k] \in S
    BY AboveStep
  <1> QED
    BY <1>1, <1>2, Upwards

\* What is above a node above n is above n.
LEMMA AboveTransitive ==
  ASSUME NEW n \in Nodes, NEW m \in Above[n]
  PROVE  Above[m] \subseteq Above[n]
  <1> DEFINE S == {k \in Nodes : \E j \in Above[k] : ~(Above[j] \subseteq Above[k])}
  <1>1. Root \notin S
    BY AboveRoot
  <1>2. \A k \in S \ {Root} : Parent[k] \in S
    <2> TAKE k \in S \ {Root}
    <2>1. PICK j \in Above[k] : ~(Above[j] \subseteq Above[k])
      OBVIOUS
    <2>2. Parent[k] \in Nodes /\ Above[k] = {Parent[k]} \cup Above[Parent[k]]
      BY AboveStep
    <2>3. j \in Above[Parent[k]] /\ ~(Above[j] \subseteq Above[Parent[k]])
      BY <2>1, <2>2
    <2> QED
      BY <2>2, <2>3
  <1> HIDE DEF S
  <1>3. S = {}
    <2>1. S \subseteq Nodes
      BY DEF S
    <2> QED
      BY <1>1, <1>2, <2>1, Upwards
  <1> QED
    BY <1>3 DEF S

\* No node is above itself.
LEMMA AboveApart ==
  ASSUME NEW n \in Nodes
  PROVE  n \notin Above[n]
  <1> DEFINE S == {k \in Nodes : k \in Above[k]}
  <1>1. Root \notin S
    BY AboveRoot
  <1>2. \A k \in S \ {Root} : Parent[k] \in S
    <2> TAKE k \in S \ {Root}
    <2>1. Parent[k] \in Nodes /\ Above[k] = {Parent[k]} \cup Above[Parent[k]]
      BY AboveStep
    <2>2. CASE k = Parent[k]
      BY <2>1, <2>2
    <2>3. CASE k \in Above[Parent[k]]
      <3>1. Above[k] \subseteq Above[Parent[k]]
        BY <2>1, <2>3, AboveTransitive
      <3> QED
        BY <2>1, <3>1
    <2> QED
      BY <2>1, <2>2, <2>3
  <1> QED
    BY <1>1, <1>2, Upwards

\* Whatever is above a node is its parent or above a node below it.
LEMMA AboveClosed ==
  ASSUME NEW n \in Nodes, NEW S \in SUBSET Nodes, n \in S,
         \A k \in S \ {Root} : Parent[k] \in S
  PROVE  Above[n] \subseteq S
  <1> DEFINE X == {k \in S : ~(Above[k] \subseteq S)}
  <1>1. Root \notin X
    BY AboveRoot
  <1>2. \A k \in X \ {Root} : Parent[k] \in X
    BY AboveStep
  <1> QED
    BY <1>1, <1>2, Upwards

LEMMA RootAbove ==
  ASSUME NEW n \in Nodes \ {Root}
  PROVE  Root \in Above[n]
  <1> DEFINE X == {k \in Nodes \ {Root} : Root \notin Above[k]}
  <1>1. \A k \in X \ {Root} : Parent[k] \in X
    BY AboveStep
  <1> QED
    BY <1>1, Upwards

\* Children lists reach up to the root.
LEMMA SplitAbove ==
  ASSUME NEW s \in Splits, NEW n \in Tree(s)
  PROVE  Above[n] \subseteq s
  <1>1. /\ n \in Nodes /\ (n = Root \/ Parent[n] \in s) /\ s \subseteq Nodes
        /\ \A k \in s \ {Root} : Parent[k] \in s
    BY DEF Splits, Tree, Inner
  <1>2. CASE n = Root
    BY <1>2, AboveRoot
  <1>3. CASE n # Root
    <2>1. Above[Parent[n]] \subseteq s
      BY <1>1, <1>3, AboveClosed
    <2> QED
      BY <1>1, <1>3, <2>1, AboveStep
  <1> QED
    BY <1>2, <1>3

LEMMA SplitRoot ==
  ASSUME NEW s \in Splits, Root \notin s
  PROVE  s = {} /\ Tree(s) = {Root}
  <1>1. s \subseteq Nodes /\ \A k \in s \ {Root} : Parent[k] \in s
    BY DEF Splits, Inner
  <1>2. s = {}
    BY <1>1, Upwards
  <1> QED
    BY <1>2 DEF Tree

-----------------------------------------------------------------------------
(* The choice of a node *)

LEMMA NodesCount ==
  /\ Cardinality(Nodes) \in Nat
  /\ \A S \in SUBSET Nodes : /\ IsFiniteSet(S) /\ Cardinality(S) \in Nat
                             /\ Cardinality(S) <= Cardinality(Nodes)
  <1>1. IsFiniteSet(Nodes)
    OBVIOUS
  <1>2. Cardinality(Nodes) \in Nat
    BY <1>1, FS_CardinalityType
  <1>3. ASSUME NEW S \in SUBSET Nodes
        PROVE  /\ IsFiniteSet(S) /\ Cardinality(S) \in Nat
               /\ Cardinality(S) <= Cardinality(Nodes)
    BY <1>1, FS_Subset, FS_CardinalityType
  <1> QED
    BY <1>2, <1>3

LEMMA EarliestIn ==
  ASSUME NEW S \in SUBSET Nodes, S # {}
  PROVE  Earliest(S) \in S
  <1> DEFINE P == {i \in DOMAIN Preorder : Preorder[i] \in S}
  <1>1. DOMAIN Preorder \subseteq Nat
    BY NodesCount
  <1>2. P # {} /\ P \subseteq Nat
    <2>1. PICK n \in S : TRUE
      OBVIOUS
    <2>2. PICK i \in DOMAIN Preorder : Preorder[i] = n
      BY <2>1
    <2> QED
      BY <1>1, <2>2
  <1>3. PICK i \in P : \A j \in P : i <= j
    BY <1>2, Smallest
  <1>4. ASSUME NEW m \in S \ {Preorder[i]} PROVE Before(Preorder[i], m)
    <2>1. PICK j \in DOMAIN Preorder : Preorder[j] = m
      OBVIOUS
    <2>2. j \in P /\ i <= j /\ i # j /\ i \in Nat /\ j \in Nat
      BY <1>2, <1>3, <2>1
    <2> QED
      BY <1>3, <2>1, <2>2 DEF Before
  <1> QED
    BY <1>3, <1>4 DEF Earliest

LEMMA DeepestSome ==
  ASSUME NEW S \in SUBSET Nodes, S # {}
  PROVE  Deepest(S) # {} /\ Deepest(S) \subseteq S
  <1> DEFINE c(n) == Cardinality(Above[n])
             C == {Cardinality(Nodes) - c(n) : n \in S}
  <1>1. \A n \in S : c(n) \in Nat /\ c(n) <= Cardinality(Nodes)
    BY AboveNodes, NodesCount
  <1>2. Cardinality(Nodes) \in Nat
    BY NodesCount
  <1>3. C \subseteq Nat /\ C # {}
    BY <1>1, <1>2
  <1>4. PICK x \in C : \A y \in C : x <= y
    BY <1>3, Smallest
  <1>5. PICK n \in S : x = Cardinality(Nodes) - c(n)
    BY <1>4
  <1>6. \A m \in S : Cardinality(Above[m]) <= Cardinality(Above[n])
    <2> TAKE m \in S
    <2>1. x <= Cardinality(Nodes) - c(m)
      BY <1>4
    <2> QED
      BY <1>1, <1>2, <1>5, <2>1
  <1> QED
    BY <1>6 DEF Deepest

LEMMA ChoiceIdle ==
  ASSUME Idle # {}
  PROVE  Choice \in Idle
  <1>1. Idle \subseteq Nodes
    BY DEF Idle, Tree
  <1>2. CASE Idle \cap leafs # {}
    <2>1. Deepest(Idle \cap leafs) # {} /\ Deepest(Idle \cap leafs) \subseteq Idle \cap leafs
      BY <1>1, <1>2, DeepestSome
    <2>2. Earliest(Deepest(Idle \cap leafs)) \in Deepest(Idle \cap leafs)
      BY <1>1, <2>1, EarliestIn
    <2> QED
      BY <1>2, <2>1, <2>2 DEF Choice
  <1>3. CASE Idle \cap leafs = {}
    BY <1>1, <1>3, EarliestIn DEF Choice
  <1> QED
    BY <1>2, <1>3

-----------------------------------------------------------------------------
(* The judgement of a tree *)

\* The definition of Blocking has a solution, found as that of Above is.
LEMMA BlockingIs ==
  Blocking = [n \in Nodes |->
     IF n \in split THEN UNION {Blocking[c] : c \in {k \in Kids(n) : ~Passes(k)}}
     ELSE IF n \in met THEN {} ELSE {n}]
  <1> DEFINE K(n) == {k \in Kids(n) : ~Passes(k)}
             Here(n) == IF n \in met THEN {} ELSE {n}
             Rhs(R, n) == IF n \in split THEN UNION {R[c] : c \in K(n)} ELSE Here(n)
             Closed(R) == \A n \in Nodes : Rhs(R, n) \subseteq R[n]
             Rels == [Nodes -> SUBSET Nodes]
             W == [n \in Nodes |-> {m \in Nodes : \A R \in Rels : Closed(R) => m \in R[n]}]
             F == [n \in Nodes |-> Rhs(W, n)]
  <1>1. \A n \in Nodes : K(n) \subseteq Nodes /\ Here(n) \subseteq Nodes
    BY DEF Kids
  <1> HIDE DEF K, Here
  <1>2. ASSUME NEW R \in Rels, Closed(R), NEW n \in Nodes
        PROVE  Rhs(W, n) \subseteq Rhs(R, n)
    <2>1. \A c \in K(n) : W[c] \subseteq R[c]
      BY <1>1, <1>2
    <2> HIDE DEF W
    <2> QED
      BY <2>1
  <1>3. ASSUME NEW R \in Rels, NEW n \in Nodes PROVE Rhs(R, n) \subseteq Nodes
    BY <1>1, <1>3
  <1>4. W \in Rels
    OBVIOUS
  <1>5. F \in Rels
    <2> HIDE DEF W, Rhs, Rels
    <2>1. \A n \in Nodes : Rhs(W, n) \in SUBSET Nodes
      BY <1>3, <1>4
    <2> QED
      BY <2>1 DEF Rels
  <1>6. ASSUME NEW n \in Nodes, NEW m \in F[n]
        PROVE  m \in W[n]
    <2> HIDE DEF Rhs, Rels
    <2>1. m \in Rhs(W, n)
      BY <1>6
    <2>2. m \in Nodes
      BY <1>3, <1>4, <2>1
    <2>3. ASSUME NEW R \in Rels, Closed(R) PROVE m \in R[n]
      BY <1>2, <2>1, <2>3
    <2> QED
      BY <2>2, <2>3
  <1>7. Closed(F)
    <2> SUFFICES ASSUME NEW n \in Nodes, NEW m \in Rhs(F, n)
                 PROVE  m \in F[n]
      OBVIOUS
    <2>1. F[n] = Rhs(W, n)
      OBVIOUS
    <2> HIDE DEF F, W
    <2>2. CASE n \in split
      <3>1. PICK c \in K(n) : m \in F[c]
        BY <2>2
      <3>2. m \in W[c]
        BY <1>1, <1>6, <3>1
      <3> QED
        BY <2>1, <2>2, <3>2
    <2>3. CASE n \notin split
      BY <2>1, <2>3
    <2> QED
      BY <2>2, <2>3
  <1>8. ASSUME NEW n \in Nodes, NEW m \in W[n]
        PROVE  m \in F[n]
    <2>1. \A R \in Rels : Closed(R) => m \in R[n]
      BY <1>8
    <2> HIDE DEF F, W, Closed
    <2> QED
      BY <2>1, <1>5, <1>7
  <1>9. W = F
    <2>1. W = [n \in Nodes |-> W[n]] /\ F = [n \in Nodes |-> F[n]]
      OBVIOUS
    <2> HIDE DEF F, W
    <2>2. ASSUME NEW n \in Nodes PROVE W[n] = F[n]
      <3>1. \A m : m \in W[n] <=> m \in F[n]
        BY <1>6, <1>8
      <3> QED
        BY <3>1, Zenon
    <2> QED
      BY <2>1, <2>2
  <1>10. \E B : B = [n \in Nodes |-> Rhs(B, n)]
    <2>1. W = [n \in Nodes |-> Rhs(W, n)]
      BY <1>9
    <2> HIDE DEF W
    <2> QED
      BY <2>1
  <1> HIDE DEF W, F
  <1> QED
    BY <1>10 DEF Blocking, K, Here

\* A tree nothing blocks has no unmet goal without children in it.
LEMMA NothingUnmet ==
  ASSUME split \in Splits, NEW n \in split, TreeComplete(n)
  PROVE  Childless(n) \subseteq met
  <1> SUFFICES ASSUME NEW m \in Childless(n), m \notin met
               PROVE  FALSE
    OBVIOUS
  <1>1. m \in Tree(split) /\ m \in Nodes /\ m \notin split /\ n \in Above[m]
    BY DEF Childless, Tree
  <1>2. m \in Blocking[m]
    BY <1>1, BlockingIs
  <1> DEFINE S == {k \in Tree(split) : m \in Blocking[k]}
  <1>3. ASSUME NEW k \in S \ {Root} PROVE Parent[k] \in S
    <2>1. k \in Nodes \ {Root} /\ Parent[k] \in split /\ Parent[k] \in Nodes
      BY <1>3 DEF Tree
    <2>2. k \in Kids(Parent[k]) /\ m \in Blocking[k]
      BY <1>3, <2>1 DEF Kids
    <2>3. ~Passes(k)
      BY <2>1, <2>2, BlockingIs DEF Passes
    <2>4. Blocking[Parent[k]] =
            UNION {Blocking[c] : c \in {j \in Kids(Parent[k]) : ~Passes(j)}}
      BY <2>1, BlockingIs
    <2>5. m \in Blocking[Parent[k]]
      BY <2>2, <2>3, <2>4
    <2>6. Parent[k] \in Tree(split)
      BY <2>1 DEF Splits, Tree
    <2> QED
      BY <2>5, <2>6
  <1>4. S \in SUBSET Nodes /\ m \in S
    BY <1>1, <1>2 DEF Tree
  <1> HIDE DEF S
  <1>5. Above[m] \subseteq S
    BY <1>1, <1>3, <1>4, AboveClosed
  <1> QED
    BY <1>1, <1>5 DEF S, TreeComplete

HIDE TreeAssumption DEF TreeAssumption
-----------------------------------------------------------------------------
(* Types, and where in an iteration the selected node means something *)

\* What the locals of run() and runTreeIteration() say of each other and of the
\* files: a node is selected when it works and when its slot is given back, no
\* slot is taken before the root has children, and an iteration that reports
\* completion at its end is one of a node that has been seen complete.
TurnInv ==
    /\ pc \in {"refine", "flat"} => sel = Root
    /\ pc \in {"work", "release"} => sel \in Tree(split)
    /\ pc \in {"decompose", "select"} => sel = None /\ ~complete
    /\ pc = "decompose" => Root \notin split
    /\ pc = "select" => Root \in split
    /\ pc = "release" /\ complete => sel \in confirmed
    /\ Root \notin split => busy = {}

TreeInv == TypeOK /\ TurnInv

LEMMA Constants ==
  /\ Root \in Nodes /\ None \notin Nodes
  /\ TreeModes \subseteq BOOLEAN
  /\ ParallelLimit \in Nat /\ PerNodeLimit \in Nat
  /\ [n \in Nodes |-> 0] \in [Nodes -> 0 .. PerNodeLimit]
  BY TreeAssumption DEF TreeAssumption
USE Constants

LEMMA Streaks ==
  ASSUME streak \subseteq Nodes, NEW n, NEW s \in SUBSET Nodes
  PROVE  TreeStreak(n, s) \subseteq Nodes
  BY DEF TreeStreak, Childless, Tree

\* A step that changes the locals and leaves the files takes no type away.
LEMMA Leaving ==
  ASSUME TreeInv, LeaveRun,
         UNCHANGED <<split, leafs, met>>, UNCHANGED busy, ckpt' \in Nat,
         done' \subseteq Nodes, streak' \subseteq Nodes, mode' \in BOOLEAN,
         UNCHANGED confirmed, runs' \in Nat, crashes' \in Nat
  PROVE  TreeInv'
  <1>1. TypeOK'
    BY DEF TreeInv, TypeOK, LeaveRun, PC
  <1>2. TurnInv'
    BY DEF TreeInv, TurnInv, LeaveRun, Tree
  <1> QED
    BY <1>1, <1>2 DEF TreeInv

LEMMA TreeInit == Init => TreeInv
  <1> SUFFICES ASSUME Init PROVE TreeInv
    OBVIOUS
  <1>1. split \in Splits /\ Cardinality(busy) <= ParallelLimit
    BY FS_EmptySet DEF Init, Splits
  <1>2. TypeOK
    BY <1>1 DEF Init, TypeOK, PC
  <1>3. TurnInv
    BY DEF Init, TurnInv
  <1> QED
    BY <1>2, <1>3 DEF TreeInv

\* Fewer running nodes need no more slots.
LEMMA FewerSlots ==
  ASSUME busy \subseteq Nodes, Cardinality(busy) <= ParallelLimit, NEW S \in SUBSET busy
  PROVE  S \subseteq Nodes /\ Cardinality(S) <= ParallelLimit
  <1>1. /\ IsFiniteSet(busy) /\ Cardinality(busy) \in Nat /\ Cardinality(S) \in Nat
    BY NodesCount
  <1>2. Cardinality(S) <= Cardinality(busy)
    BY <1>1, FS_Subset
  <1> QED
    BY <1>1, <1>2

LEMMA OneMore ==
  ASSUME NEW S, IsFiniteSet(S), NEW x
  PROVE  Cardinality(S \cup {x}) <= Cardinality(S) + 1
  <1>1. Cardinality(S) \in Nat
    BY FS_CardinalityType
  <1>2. Cardinality(S \cup {x}) = IF x \in S THEN Cardinality(S) ELSE Cardinality(S) + 1
    BY FS_AddElement
  <1> QED
    BY <1>1, <1>2

LEMMA TreeStep == TreeInv /\ [Next]_vars => TreeInv'
  <1> SUFFICES ASSUME TreeInv, [Next]_vars PROVE TreeInv'
    OBVIOUS
  <1>1. TypeOK /\ TurnInv
    BY DEF TreeInv
  <1>2. CASE Run
    <2>1. TypeOK'
      BY <1>1, <1>2 DEF Run, TypeOK, PC
    <2>2. TurnInv'
      BY <1>1, <1>2 DEF Run, TurnInv, Tree
    <2> QED
      BY <2>1, <2>2 DEF TreeInv
  <1>3. CASE LastIteration
    <2>1. LeaveRun /\ UNCHANGED <<files, streak, mode, confirmed, runs, crashes>>
      BY <1>3 DEF LastIteration
    <2> QED
      BY <1>1, <2>1, Leaving DEF TypeOK, files
  <1>4. CASE FlatIteration
    <2>1. TypeOK'
      BY <1>1, <1>4 DEF FlatIteration, TypeOK, PC, files
    <2>2. TurnInv'
      BY <1>1, <1>4 DEF FlatIteration, TurnInv, Tree, files
    <2> QED
      BY <2>1, <2>2 DEF TreeInv
  <1>5. CASE TreeIteration
    <2>1. busy' \subseteq busy /\ UNCHANGED split
      BY <1>5 DEF TreeIteration, Freed
    <2>2. busy' \subseteq Nodes /\ Cardinality(busy') <= ParallelLimit
      BY <1>1, <2>1, FewerSlots DEF TypeOK
    <2>3. TypeOK'
      BY <1>1, <1>5, <2>2 DEF TreeIteration, TypeOK, PC
    <2>4. TurnInv'
      BY <1>1, <1>5, <2>1 DEF TreeIteration, TurnInv
    <2> QED
      BY <2>3, <2>4 DEF TreeInv
  <1>6. CASE Decompose
    <2>1. split' \in Splits /\ leafs' \subseteq Nodes
      BY <1>6 DEF Decompose, Decomposed, Tree
    <2>2. busy' = {}
      BY <1>1, <1>6 DEF Decompose, TurnInv
    <2>3. busy' \subseteq Nodes /\ Cardinality(busy') <= ParallelLimit
      BY <2>2, FS_EmptySet
    <2>4. TypeOK'
      BY <1>1, <1>6, <2>1, <2>3 DEF Decompose, TypeOK, PC
    <2>5. \/ pc' = "refine" /\ sel' = Root
          \/ pc' = "select" /\ sel' = sel /\ Root \in split'
      BY <1>6 DEF Decompose
    <2>6. TurnInv'
      BY <1>1, <1>6, <2>2, <2>5 DEF Decompose, TurnInv
    <2> QED
      BY <2>4, <2>6 DEF TreeInv
  <1>7. CASE SelectNone
    <2>1. streak' \subseteq Nodes
      BY <1>1, <1>7, Streaks DEF SelectNone, TypeOK
    <2>2. TypeOK'
      BY <1>1, <1>7, <2>1 DEF SelectNone, TypeOK, PC, files, TreeComplete
    <2>3. TurnInv'
      BY <1>1, <1>7 DEF SelectNone, TurnInv, files
    <2> QED
      BY <2>2, <2>3 DEF TreeInv
  <1>8. CASE SelectNode
    <2>1. Choice \in Tree(split) /\ Choice \in Nodes
      BY <1>8, ChoiceIdle DEF SelectNode, Idle, Tree
    <2>2. Cardinality(busy') <= ParallelLimit
      <3>1. IsFiniteSet(busy) /\ Cardinality(busy) \in Nat
        BY <1>1, NodesCount DEF TypeOK
      <3>2. busy' = busy \cup {Choice} /\ ~(Cardinality(busy) >= ParallelLimit)
        BY <1>8 DEF SelectNode, Full
      <3>3. Cardinality(busy \cup {Choice}) <= Cardinality(busy) + 1
        BY <3>1, OneMore
      <3>4. Cardinality(busy \cup {Choice}) \in Nat
        BY <1>1, <2>1, NodesCount DEF TypeOK
      <3> QED
        BY <3>1, <3>2, <3>3, <3>4
    <2>3. used' \in [Nodes -> 0 .. PerNodeLimit]
      BY <1>1, <1>8, <2>1 DEF SelectNode, TypeOK
    <2>4. busy' \subseteq Nodes /\ sel' \in Nodes \cup {None} /\ pc' \in PC
      BY <1>1, <1>8, <2>1 DEF SelectNode, TypeOK, PC
    <2>5. TypeOK'
      BY <1>1, <1>8, <2>2, <2>3, <2>4 DEF SelectNode, TypeOK
    <2>6. TurnInv'
      BY <1>1, <1>8, <2>1 DEF SelectNode, TurnInv, Tree
    <2> QED
      BY <2>5, <2>6 DEF TreeInv
  <1>9. CASE AutoDecompose
    <2>1. split' \in Splits /\ leafs' \subseteq Nodes /\ mode' \in BOOLEAN /\ tried' \in BOOLEAN
      BY <1>1, <1>9 DEF AutoDecompose, Decomposed, Tree, TypeOK
    <2>2. UNCHANGED split \/ Root \notin split
      BY <1>9 DEF AutoDecompose
    <2>3. TypeOK'
      BY <1>1, <1>9, <2>1 DEF AutoDecompose, TypeOK, PC
    <2>4. TurnInv'
      BY <1>1, <1>9, <2>2 DEF AutoDecompose, TurnInv
    <2> QED
      BY <2>3, <2>4 DEF TreeInv
  <1>10. CASE Iterate
    <2>1. sel \in Nodes
      BY <1>1, <1>10 DEF Iterate, TurnInv, Tree
    <2>2. streak' \subseteq Nodes
      <3>1. CASE sel \in split
        <4>1. TreeStreak(sel, streak) \subseteq Nodes
          BY <1>1, Streaks DEF TypeOK
        <4>2. TreeStreak(sel, TreeStreak(sel, streak)) \subseteq Nodes
          BY <1>1, <4>1, Streaks DEF TypeOK
        <4> QED
          BY <1>1, <1>10, <3>1, <4>1, <4>2 DEF Iterate, TreeJudgement, TypeOK
      <3>2. CASE sel \notin split
        BY <1>1, <1>10, <2>1, <3>2 DEF Iterate, LeafJudgement, TypeOK
      <3> QED
        BY <3>1, <3>2
    <2>6. complete' \in BOOLEAN
      <3>1. TreeComplete(sel) \in BOOLEAN
        BY DEF TreeComplete
      <3>2. (sel \in streak) \in BOOLEAN
        OBVIOUS
      <3> QED
        BY <1>10, <3>1, <3>2 DEF Iterate, TreeJudgement, LeafJudgement
    <2>3. met' \subseteq Nodes /\ confirmed' \subseteq Nodes /\ pc' \in PC
      BY <1>1, <1>10, <2>1 DEF Iterate, TypeOK, PC
    <2>4. TypeOK'
      BY <1>1, <1>10, <2>2, <2>3, <2>6 DEF Iterate, TypeOK
    <2>5. TurnInv'
      BY <1>1, <1>10 DEF Iterate, TurnInv, Tree
    <2> QED
      BY <2>4, <2>5 DEF TreeInv
  <1>11. CASE Release
    <2>1. busy' \subseteq busy /\ UNCHANGED split
      BY <1>11 DEF Release
    <2>2. busy' \subseteq Nodes /\ Cardinality(busy') <= ParallelLimit
      BY <1>1, <2>1, FewerSlots DEF TypeOK
    <2>3. done' \subseteq Nodes
      <3>1. sel \in Nodes
        BY <1>1, <1>11 DEF Release, TurnInv, Tree
      <3>2. Cascade(sel) \subseteq Nodes
        BY <3>1, AboveNodes DEF Cascade
      <3> QED
        BY <1>1, <1>11, <3>2 DEF Release, TypeOK
    <2>4. TypeOK'
      BY <1>1, <1>11, <2>2, <2>3 DEF Release, TypeOK, PC, locals
    <2>5. TurnInv'
      BY <1>1, <1>11, <2>1 DEF Release, TurnInv, locals
    <2> QED
      BY <2>4, <2>5 DEF TreeInv
  <1>12. CASE Finish
    <2>1. ckpt' \in Nat /\ done' \subseteq Nodes
      BY <1>1, <1>12 DEF Finish, TypeOK
    <2> QED
      BY <1>1, <1>12, <2>1, Leaving DEF Finish, TypeOK
  <1>13. CASE Continue
    <2>1. ckpt' \in Nat
      BY <1>1, <1>13 DEF Continue, TypeOK
    <2>2. CASE LeaveRun
      BY <1>1, <1>13, <2>1, <2>2, Leaving DEF Continue, TypeOK
    <2>3. CASE ~LeaveRun
      <3>1. pc' = "top" /\ idx' = idx + 1 /\ UNCHANGED <<start, tried, used, sel, complete>>
        BY <1>13, <2>3 DEF Continue
      <3>2. TypeOK'
        BY <1>1, <1>13, <2>1, <3>1 DEF Continue, TypeOK, PC
      <3>3. TurnInv'
        BY <1>1, <1>13, <3>1 DEF Continue, TurnInv
      <3> QED
        BY <3>2, <3>3 DEF TreeInv
    <2> QED
      BY <2>2, <2>3
  <1>14. CASE Throw
    BY <1>1, <1>14, Leaving DEF Throw, TypeOK, files
  <1>15. CASE Crash
    <2>1. mode' \in BOOLEAN /\ streak' \subseteq Nodes
      BY <1>15 DEF Crash
    <2> QED
      BY <1>1, <1>15, <2>1, Leaving DEF Crash, TypeOK, files
  <1>16. CASE UNCHANGED vars
    BY <1>1, <1>16 DEF vars, files, locals, TreeInv, TypeOK, TurnInv, Tree
  <1> QED
    BY <1>2, <1>3, <1>4, <1>5, <1>6, <1>7, <1>8, <1>9, <1>10, <1>11, <1>12, <1>13, <1>14,
       <1>15, <1>16 DEF Next

LEMMA TreeAlways == Spec => []TreeInv
  BY TreeInit, TreeStep, PTL DEF Spec

\* Every variable stays in its type, and no more nodes run than the tree loop
\* has slots, through every run, decomposition, failure and crash.
THEOREM TreeTyped == Spec => []TypeOK
  <1>1. TreeInv => TypeOK
    BY DEF TreeInv
  <1> QED
    BY <1>1, TreeAlways, PTL

-----------------------------------------------------------------------------
(* What a reported completion says of a tree *)

\* The goal whose iteration it is.
Judged == IF sel = None THEN Root ELSE sel

LEMMA VerdictIs ==
  TreeVerdictSound <=> ( complete /\ pc \in {"release", "account"} /\ Judged \in split
                           => Childless(Judged) \subseteq met )
  BY DEF TreeVerdictSound, Judged

LEMMA VerdictStep == TreeInv /\ TreeVerdictSound /\ [Next]_vars => TreeVerdictSound'
  <1> SUFFICES ASSUME TreeInv, TreeVerdictSound, [Next]_vars,
                      complete', pc' \in {"release", "account"}, Judged' \in split'
               PROVE  Childless(Judged)' \subseteq met'
    BY DEF TreeVerdictSound, Judged
  <1>0. ASSUME UNCHANGED <<split, sel>>
        PROVE  Judged' = Judged /\ Childless(Judged)' = Childless(Judged)
    BY <1>0 DEF Judged, Childless, Tree
  <1>1. TypeOK /\ TurnInv
    BY DEF TreeInv
  <1>2. CASE SelectNone
    <2>1. sel' = None /\ Root \in split /\ split' = split /\ met' = met /\ TreeComplete(Root)
      BY <1>1, <1>2 DEF SelectNone, TurnInv, files
    <2>2. Childless(Root) \subseteq met
      BY <1>1, <2>1, NothingUnmet DEF TypeOK
    <2>3. Judged = Root /\ UNCHANGED sel
      BY <1>1, <1>2, <2>1 DEF SelectNone, TurnInv, Judged
    <2> QED
      BY <1>0, <2>1, <2>2, <2>3
  <1>3. CASE SelectNode
    BY <1>1, <1>3 DEF SelectNode, TurnInv
  <1>4. CASE Iterate
    <2>1. sel \in Nodes /\ sel # None /\ sel' = sel /\ split' = split /\ met \ {sel} \subseteq met'
      BY <1>1, <1>4 DEF Iterate, TurnInv, Tree
    <2>2. CASE sel \in split
      <3>1. TreeComplete(sel)
        BY <1>4, <2>2 DEF Iterate, TreeJudgement
      <3>2. Childless(sel) \subseteq met
        BY <1>1, <2>2, <3>1, NothingUnmet DEF TypeOK
      <3>3. sel \notin Childless(sel)
        BY <2>2 DEF Childless
      <3>4. Judged = sel
        BY <2>1 DEF Judged
      <3> QED
        BY <1>0, <2>1, <3>2, <3>3, <3>4
    <2>3. CASE sel \notin split
      BY <2>1, <2>3 DEF Judged
    <2> QED
      BY <2>2, <2>3
  <1>5. CASE Release
    <2>1. pc = "release" /\ complete /\ UNCHANGED <<split, met, sel>>
      BY <1>5 DEF Release, locals
    <2> QED
      BY <1>0, <2>1, VerdictIs
  <1>6. CASE UNCHANGED vars
    <2>1. UNCHANGED <<split, met, sel, pc, complete>>
      BY <1>6 DEF vars, files, locals
    <2> QED
      BY <1>0, <2>1, VerdictIs
  <1>7. CASE \/ Run \/ LastIteration \/ FlatIteration \/ TreeIteration \/ Decompose
             \/ AutoDecompose \/ Finish \/ Continue \/ Throw \/ Crash
    BY <1>7 DEF Run, LastIteration, FlatIteration, TreeIteration, Decompose, AutoDecompose,
                Finish, Continue, Throw, Crash, LeaveRun
  <1> QED
    BY <1>2, <1>3, <1>4, <1>5, <1>6, <1>7 DEF Next

\* A tree is reported complete, by its root or by any node with children, only
\* when every goal without children below it is met: the judgement reaches
\* every depth, and nothing between it and the end of the iteration takes a
\* goal of the tree back (judgeTreeCompletion, runTreeIteration).
THEOREM TreeVerdictHolds == Spec => []TreeVerdictSound
  <1>1. Init => TreeVerdictSound
    BY DEF Init, TreeVerdictSound
  <1> QED
    BY <1>1, VerdictStep, TreeAlways, PTL DEF Spec

-----------------------------------------------------------------------------
(* The completion cascade *)

\* A node of the path that the cascade completes has only children that are
\* completed or on the path and completed with it.
LEMMA CascadeChildren ==
  ASSUME TreeInv, pc = "release", NEW p \in Cascade(sel)
  PROVE  p \in split /\ Kids(p) \subseteq done \cup {sel} \cup Cascade(sel)
  <1>1. sel \in Tree(split) /\ sel \in Nodes /\ split \in Splits /\ p \in Above[sel]
    BY DEF TreeInv, TurnInv, TypeOK, Tree, Cascade
  <1>2. Above[sel] \subseteq split /\ Above[sel] \subseteq Nodes
    BY <1>1, SplitAbove, AboveNodes
  <1>3. Kids(p) \subseteq done \cup {sel} \cup Above[sel]
    BY DEF Cascade
  <1>4. ASSUME NEW k \in Kids(p), k \in Above[sel]
        PROVE  k \in Cascade(sel)
    <2>1. k \in Nodes \ {Root} /\ Parent[k] = p /\ p \in Nodes
      BY <1>1, <1>2 DEF Kids
    <2>2. p \in Above[k] /\ Above[p] \subseteq Above[k]
      BY <2>1, AboveStep
    <2>3. k \notin Above[p]
      <3>1. k \in Above[p] => Above[k] \subseteq Above[p]
        BY <2>1, AboveTransitive
      <3>2. p \notin Above[p]
        BY <2>1, AboveApart
      <3> QED
        BY <2>2, <3>1, <3>2
    <2>4. ASSUME NEW q \in {k} \cup (Above[sel] \ Above[k])
          PROVE  q \in {p} \cup (Above[sel] \ Above[p])
      BY <1>4, <2>2, <2>3, <2>4
    <2> QED
      BY <1>4, <2>4 DEF Cascade
  <1> QED
    BY <1>1, <1>2, <1>3, <1>4

LEMMA CascadeStep == TreeInv /\ CascadeSound /\ [Next]_vars => CascadeSound'
  <1> SUFFICES ASSUME TreeInv, CascadeSound, [Next]_vars
               PROVE  CascadeSound'
    OBVIOUS
  <1>1. TypeOK /\ TurnInv
    BY DEF TreeInv
  <1>2. CASE UNCHANGED split /\ done' \ {Root} \subseteq done /\ done \subseteq done'
             /\ confirmed \subseteq confirmed'
    BY <1>2 DEF CascadeSound, Kids
  <1>3. CASE done' = done /\ confirmed' = confirmed /\ Root \notin split
    <2>1. split = {}
      BY <1>1, <1>3, SplitRoot DEF TypeOK
    <2> QED
      BY <1>3, <2>1 DEF CascadeSound
  <1>4. CASE Release
    <2>1. split' = split /\ confirmed' = confirmed /\ done \subseteq done'
      BY <1>4 DEF Release
    <2>2. CASE complete
      <3>1. done' = done \cup Cascade(sel) /\ sel \in confirmed
        BY <1>1, <1>4, <2>2 DEF Release, TurnInv
      <3>2. \A p \in Cascade(sel) : p \in split /\ Kids(p) \subseteq done \cup {sel} \cup Cascade(sel)
        BY <1>4, CascadeChildren DEF Release
      <3> QED
        BY <2>1, <3>1, <3>2 DEF CascadeSound, Kids
    <2>3. CASE ~complete
      BY <1>2, <1>4, <2>1, <2>3 DEF Release
    <2> QED
      BY <2>2, <2>3
  <1>5. CASE Iterate
    BY <1>2, <1>5 DEF Iterate
  <1>6. CASE Finish
    BY <1>2, <1>6 DEF Finish
  <1>7. CASE Decompose \/ AutoDecompose
    <2>1. done' = done /\ confirmed' = confirmed /\ (UNCHANGED split \/ Root \notin split)
      BY <1>1, <1>7 DEF Decompose, AutoDecompose, TurnInv
    <2> QED
      BY <1>2, <1>3, <2>1
  <1>8. CASE \/ Run \/ LastIteration \/ FlatIteration \/ TreeIteration \/ SelectNone
             \/ SelectNode \/ Continue \/ Throw \/ Crash \/ UNCHANGED vars
    <2>1. split' = split /\ done' = done /\ confirmed' = confirmed
      BY <1>8 DEF Run, LastIteration, FlatIteration, TreeIteration, SelectNone, SelectNode,
                  Continue, Throw, Crash, files, vars
    <2> QED
      BY <1>2, <2>1
  <1> QED
    BY <1>4, <1>5, <1>6, <1>7, <1>8 DEF Next

\* An inner node below the root is marked completed only after each of its
\* children was completed, or confirmed by its own iteration, over any number
\* of iterations, runs and crashes (checkCompletionCascade).
THEOREM CascadeHolds == Spec => []CascadeSound
  <1>1. Init => CascadeSound
    BY DEF Init, CascadeSound
  <1> QED
    BY <1>1, CascadeStep, TreeAlways, PTL DEF Spec

-----------------------------------------------------------------------------
(* The slots of an earlier run *)

\* Once the first iteration of an unresumed run in tree mode has freed the
\* slots, only the selected node and nodes that had their share hold one.
FreshInv ==
    pc # "idle" /\ start = 0 /\ mode /\ ~(pc = "top" /\ idx = 0) =>
        \A n \in busy : used[n] >= PerNodeLimit \/ (pc \in {"work", "release"} /\ n = sel)

LEMMA FreshStep == TreeInv /\ FreshInv /\ [Next]_vars => FreshInv'
  <1> SUFFICES ASSUME TreeInv, FreshInv, [Next]_vars
               PROVE  FreshInv'
    OBVIOUS
  <1>1. TypeOK /\ TurnInv
    BY DEF TreeInv
  <1>2. CASE \/ LastIteration \/ Finish \/ Throw \/ Crash
    BY <1>2 DEF LastIteration, Finish, Throw, Crash, LeaveRun, FreshInv
  <1>3. CASE Run
    BY <1>3 DEF Run, FreshInv
  <1>4. CASE FlatIteration
    BY <1>4 DEF FlatIteration, FreshInv
  <1>5. CASE TreeIteration
    <2>1. start' = start /\ mode' = mode /\ used' = used /\ pc = "top" /\ busy' \subseteq busy
      BY <1>5 DEF TreeIteration, Freed
    <2>2. CASE idx = 0
      <3>1. busy' = {}
        BY <1>1, <1>5, <2>2 DEF TreeIteration, Freed, TurnInv
      <3> QED
        BY <3>1 DEF FreshInv
    <2>3. CASE idx # 0
      BY <2>1, <2>3 DEF FreshInv
    <2> QED
      BY <2>2, <2>3
  <1>6. CASE Decompose
    <2>1. busy' = {}
      BY <1>1, <1>6 DEF Decompose, TurnInv
    <2> QED
      BY <2>1 DEF FreshInv
  <1>7. CASE SelectNone
    BY <1>7 DEF SelectNone, FreshInv, files
  <1>8. CASE SelectNode
    <2>1. pc = "select" /\ busy' = busy \cup {Choice} /\ start' = start /\ mode' = mode
      BY <1>8 DEF SelectNode
    <2>2. Choice \in Nodes
      BY <1>8, ChoiceIdle DEF SelectNode, Idle, Tree
    <2>3. CASE used[Choice] >= PerNodeLimit
      <3>1. used' = used
        BY <1>8, <2>3 DEF SelectNode
      <3> QED
        BY <2>1, <2>3, <3>1 DEF FreshInv
    <2>4. CASE ~(used[Choice] >= PerNodeLimit)
      <3>1. used' = [used EXCEPT ![Choice] = @ + 1] /\ sel' = Choice /\ pc' = "work"
        BY <1>8, <2>4 DEF SelectNode
      <3>2. \A n \in Nodes \ {Choice} : used'[n] = used[n]
        BY <1>1, <3>1 DEF TypeOK
      <3>3. busy \subseteq Nodes
        BY <1>1 DEF TypeOK
      <3> QED
        BY <2>1, <3>1, <3>2, <3>3 DEF FreshInv
    <2> QED
      BY <2>3, <2>4
  <1>9. CASE AutoDecompose
    <2>1. UNCHANGED mode \/ Root \notin split
      BY <1>9 DEF AutoDecompose
    <2>2. UNCHANGED mode \/ busy' = {}
      BY <1>1, <1>9, <2>1 DEF AutoDecompose, TurnInv
    <2> QED
      BY <1>9, <2>2 DEF AutoDecompose, FreshInv
  <1>10. CASE Iterate
    BY <1>10 DEF Iterate, FreshInv
  <1>11. CASE Release
    BY <1>11 DEF Release, FreshInv, locals
  <1>12. CASE Continue
    <2>1. CASE LeaveRun
      BY <2>1 DEF LeaveRun, FreshInv
    <2>2. CASE ~LeaveRun
      <3>1. pc = "account" /\ UNCHANGED <<start, mode, busy, used>>
        BY <1>12, <2>2 DEF Continue
      <3> QED
        BY <3>1 DEF FreshInv
    <2> QED
      BY <2>1, <2>2
  <1>13. CASE UNCHANGED vars
    BY <1>13 DEF vars, files, locals, FreshInv
  <1> QED
    BY <1>2, <1>3, <1>4, <1>5, <1>6, <1>7, <1>8, <1>9, <1>10, <1>11, <1>12, <1>13 DEF Next

\* A selection happens in tree mode only.
SelectsInTreeMode == pc \in {"decompose", "select"} => mode

LEMMA SelectsStep == SelectsInTreeMode /\ [Next]_vars => SelectsInTreeMode'
  <1> SUFFICES ASSUME SelectsInTreeMode, [Next]_vars, pc' \in {"decompose", "select"}
               PROVE  mode'
    BY DEF SelectsInTreeMode
  <1>1. CASE TreeIteration
    BY <1>1 DEF TreeIteration
  <1>2. CASE Decompose \/ UNCHANGED vars
    BY <1>2 DEF Decompose, SelectsInTreeMode, vars
  <1>3. CASE \/ Run \/ LastIteration \/ FlatIteration \/ SelectNone \/ SelectNode
             \/ AutoDecompose \/ Iterate \/ Release \/ Finish \/ Continue \/ Throw \/ Crash
    BY <1>3 DEF Run, LastIteration, FlatIteration, SelectNone, SelectNode, AutoDecompose,
                Iterate, Release, Finish, Continue, Throw, Crash, LeaveRun
  <1> QED
    BY <1>1, <1>2, <1>3 DEF Next

\* A run that starts at iteration 0 is never blocked by a slot an earlier run
\* left taken: whatever node holds one when it selects had its share of the
\* budget in this run (startTreeExecution, selectNextNode).
THEOREM FreshRunHolds == Spec => []FreshRunUnblocked
  <1>1. Init => FreshInv /\ SelectsInTreeMode
    BY DEF Init, FreshInv, SelectsInTreeMode
  <1>2. FreshInv /\ SelectsInTreeMode => FreshRunUnblocked
    BY DEF FreshInv, SelectsInTreeMode, FreshRunUnblocked
  <1> QED
    BY <1>1, <1>2, FreshStep, SelectsStep, TreeAlways, PTL DEF Spec
=============================================================================
