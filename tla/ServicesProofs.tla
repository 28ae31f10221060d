--------------------------- MODULE ServicesProofs ---------------------------
(***************************************************************************)
(* What the services promise, for all values of the constants.             *)
(*                                                                         *)
(* Each part has an inductive invariant of its own, from which its types   *)
(* and its promise follow; together they give TypesOK and ServicesSound,   *)
(* for a step of the whole is a step of one part and leaves the others     *)
(* alone.  Files: writers that take turns never show a partial text, keep  *)
(* every entry they acknowledged, and so implement the log they promise.   *)
(* Groups: the workers stay within the limit, no subtask overtakes one it  *)
(* depends on unless both are in a knot, and a group is reported completed *)
(* only when all of it passed.                                             *)
(***************************************************************************)
EXTENDS MCServices, FiniteSetTheorems, WellFoundedInduction, TLAPS

-----------------------------------------------------------------------------
(* Induction over finite sets, by a smallest set, and what a fold returns *)

\* A nonempty collection of subsets of a finite set has one that contains no other.
LEMMA SmallestSet ==
  ASSUME NEW P, IsFiniteSet(P), NEW T \in SUBSET SUBSET P, T # {}
  PROVE  \E s \in T : \A t \in T : t \subseteq s => t = s
  <1>1. \A s \in T : IsFiniteSet(s)
    BY FS_Subset
  <1>2. T \subseteq FiniteSubsetsOf(P)
    BY <1>1 DEF FiniteSubsetsOf
  <1>3. PICK s \in T : \A t \in T : ~(<<t, s>> \in StrictSubsetOrdering(P))
    BY <1>2, FS_StrictSubsetOrderingWellFounded, WFMin
  <1>4. \A t \in T : t \subseteq s => t = s
    BY <1>3 DEF StrictSubsetOrdering
  <1> QED
    BY <1>4

\* A nonempty set of numbers that has a bound has a greatest number.
LEMMA GreatestNumber ==
  ASSUME NEW b \in Nat, NEW T \in SUBSET (0 .. b), T # {}
  PROVE  Max(T) \in T /\ \A m \in T : m <= Max(T)
  <1> DEFINE P == 0 .. b
             U == {{j \in P : j >= i} : i \in T}
  <1>1. IsFiniteSet(P) /\ U \in SUBSET SUBSET P /\ U # {}
    <2>1. U \in SUBSET SUBSET P /\ U # {}
      OBVIOUS
    <2>2. 0 \in Int /\ b \in Int
      OBVIOUS
    <2>3. IsFiniteSet(0 .. b)
      BY <2>2, FS_Interval
    <2> QED
      BY <2>1, <2>3
  <1> HIDE DEF U
  <1>2. PICK s \in U : \A t \in U : t \subseteq s => t = s
    <2> HIDE DEF P
    <2> QED
      BY <1>1, SmallestSet
  <1>3. PICK n \in T : s = {j \in P : j >= n}
    BY <1>2 DEF U
  <1>4. ASSUME NEW m \in T, m > n PROVE FALSE
    <2>1. {j \in P : j >= m} \in U
      BY DEF U
    <2>2. {j \in P : j >= m} \subseteq s /\ n \in s /\ n \notin {j \in P : j >= m}
      BY <1>3, <1>4
    <2> QED
      BY <1>2, <2>1, <2>2
  <1>5. n \in T /\ \A m \in T : n >= m
    BY <1>4
  <1> QED
    BY <1>5 DEF Max

LEMMA LeastNumber ==
  ASSUME NEW b \in Nat, NEW T \in SUBSET (0 .. b), T # {}
  PROVE  \E n \in T : \A m \in T : n <= m
  <1> DEFINE U == {b - i : i \in T}
  <1>1. U \in SUBSET (0 .. b) /\ U # {}
    <2>1. \A u \in U : u \in 0 .. b
      OBVIOUS
    <2>2. U # {}
      OBVIOUS
    <2> HIDE DEF U
    <2> QED
      BY <2>1, <2>2
  <1>2. PICK u \in U : \A v \in U : v <= u
    <2> HIDE DEF U
    <2> QED
      BY <1>1, GreatestNumber
  <1>3. PICK n \in T : u = b - n
    OBVIOUS
  <1>4. ASSUME NEW m \in T PROVE n <= m
    <2>1. b - m \in U /\ n \in 0 .. b /\ m \in 0 .. b
      OBVIOUS
    <2>2. b - m <= b - n
      BY <1>2, <1>3, <2>1
    <2> QED
      BY <2>1, <2>2
  <1> QED
    BY <1>4

\* f folds G over the subsets of P, beginning with b, where C says which element
\* of a set comes last.
Folds(f, P, b, G, C) ==
    f = [Q \in SUBSET P |-> IF Q = {} THEN b ELSE G[C[Q]][f[Q \ {C[Q]}]]]
Picks(C, P) == \A Q \in SUBSET P : Q # {} => C[Q] \in Q

LEMMA FoldUnique ==
  ASSUME NEW P, IsFiniteSet(P), NEW b, NEW G, NEW C, Picks(C, P), NEW R \in SUBSET P,
         NEW f, NEW g, Folds(f, P, b, G, C), Folds(g, R, b, G, C)
  PROVE  f[R] = g[R]
  <1> SUFFICES ASSUME f[R] # g[R] PROVE FALSE
    OBVIOUS
  <1> DEFINE T == {Q \in SUBSET R : f[Q] # g[Q]}
  <1>1. PICK s \in T : \A t \in T : t \subseteq s => t = s
    <2>1. IsFiniteSet(R)
      BY FS_Subset
    <2>2. T \in SUBSET SUBSET R /\ T # {}
      OBVIOUS
    <2> HIDE DEF T
    <2> QED
      BY <2>1, <2>2, SmallestSet
  <1>2. s \in SUBSET R /\ s \in SUBSET P /\ f[s] # g[s]
    OBVIOUS
  <1>3. /\ f[s] = IF s = {} THEN b ELSE G[C[s]][f[s \ {C[s]}]]
        /\ g[s] = IF s = {} THEN b ELSE G[C[s]][g[s \ {C[s]}]]
    BY <1>2 DEF Folds
  <1>4. s # {} /\ C[s] \in s
    BY <1>2, <1>3 DEF Picks
  <1>5. s \ {C[s]} \in SUBSET R /\ s \ {C[s]} # s /\ s \ {C[s]} \subseteq s
    BY <1>2, <1>4
  <1>6. f[s \ {C[s]}] = g[s \ {C[s]}]
    BY <1>1, <1>5
  <1> QED
    BY <1>2, <1>3, <1>6

LEMMA FoldExists ==
  ASSUME NEW P, IsFiniteSet(P), NEW b, NEW G, NEW C, Picks(C, P)
  PROVE  \E f : Folds(f, P, b, G, C)
  <1> DEFINE T == {Q \in SUBSET P : ~\E f : Folds(f, Q, b, G, C)}
  <1> SUFFICES ASSUME P \in T PROVE FALSE
    OBVIOUS
  <1>1. PICK s \in T : \A t \in T : t \subseteq s => t = s
    <2>1. T \in SUBSET SUBSET P /\ T # {}
      OBVIOUS
    <2> HIDE DEF T
    <2> QED
      BY <2>1, SmallestSet
  <1> DEFINE F == [Q \in SUBSET s |-> CHOOSE f : Folds(f, Q, b, G, C)]
             h == [Q \in SUBSET s |-> IF Q = {} THEN b ELSE G[C[Q]][F[Q \ {C[Q]}][Q \ {C[Q]}]]]
  <1>2. s \in SUBSET P /\ ~\E f : Folds(f, s, b, G, C)
    OBVIOUS
  <1>3. ASSUME NEW Q \in SUBSET s, Q # s PROVE Folds(F[Q], Q, b, G, C)
    <2>1. \E f : Folds(f, Q, b, G, C)
      BY <1>1, <1>2, <1>3
    <2> QED
      BY <2>1
  <1> HIDE DEF F, T
  <1>4. ASSUME NEW Q \in SUBSET s, Q # s PROVE h[Q] = F[Q][Q]
    <2>1. Folds(F[Q], Q, b, G, C)
      BY <1>3, <1>4
    <2>2. F[Q][Q] = IF Q = {} THEN b ELSE G[C[Q]][F[Q][Q \ {C[Q]}]]
      BY <2>1 DEF Folds
    <2>3. CASE Q = {}
      BY <2>2, <2>3
    <2>4. CASE Q # {}
      <3> DEFINE R == Q \ {C[Q]}
      <3>1. C[Q] \in Q
        BY <1>2, <2>4 DEF Picks
      <3>2. R \in SUBSET Q /\ R \in SUBSET s /\ R # s
        BY <3>1
      <3>3. Folds(F[R], R, b, G, C)
        BY <1>3, <3>2
      <3>4. IsFiniteSet(Q) /\ Picks(C, Q)
        BY <1>2, FS_Subset DEF Picks
      <3> HIDE DEF h
      <3>5. F[Q][R] = F[R][R]
        <4> HIDE DEF R
        <4> QED
          BY <2>1, <3>2, <3>3, <3>4, FoldUnique
      <3>6. h[Q] = G[C[Q]][F[R][R]]
        BY <2>4 DEF h
      <3> QED
        BY <2>2, <2>4, <3>5, <3>6
    <2> QED
      BY <2>3, <2>4
  <1>5. Folds(h, s, b, G, C)
    <2>1. ASSUME NEW Q \in SUBSET s, Q # {}
          PROVE  h[Q \ {C[Q]}] = F[Q \ {C[Q]}][Q \ {C[Q]}]
      <3> DEFINE R == Q \ {C[Q]}
      <3>1. C[Q] \in Q
        BY <1>2, <2>1 DEF Picks
      <3>2. R \in SUBSET s /\ R # s
        BY <3>1
      <3> HIDE DEF h, R
      <3>3. h[R] = F[R][R]
        BY <1>4, <3>2
      <3> QED
        BY <3>3 DEF R
    <2>2. h = [Q \in SUBSET s |-> IF Q = {} THEN b ELSE G[C[Q]][h[Q \ {C[Q]}]]]
      <3> DEFINE k == [Q \in SUBSET s |-> IF Q = {} THEN b ELSE G[C[Q]][h[Q \ {C[Q]}]]]
      <3>1. \A Q \in SUBSET s : k[Q] = h[Q]
        <4> SUFFICES ASSUME NEW Q \in SUBSET s PROVE k[Q] = h[Q]
          OBVIOUS
        <4>1. h[Q] = IF Q = {} THEN b ELSE G[C[Q]][F[Q \ {C[Q]}][Q \ {C[Q]}]]
          OBVIOUS
        <4>2. k[Q] = IF Q = {} THEN b ELSE G[C[Q]][h[Q \ {C[Q]}]]
          OBVIOUS
        <4> HIDE DEF h, k
        <4> QED
          BY <2>1, <4>1, <4>2
      <3>2. DOMAIN k = SUBSET s /\ DOMAIN h = SUBSET s /\ k = [Q \in SUBSET s |-> k[Q]] /\ h = [Q \in SUBSET s |-> h[Q]]
        OBVIOUS
      <3>3. h = k
        <4> HIDE DEF h, k
        <4> QED
          BY <3>1, <3>2
      <3> QED
        BY <3>3
    <2> QED
      BY <2>2 DEF Folds
  <1> QED
    BY <1>2, <1>5

LEMMA FoldTyped ==
  ASSUME NEW P, IsFiniteSet(P), NEW M, NEW b \in M, NEW G \in [P -> [M -> M]], NEW C, Picks(C, P),
         NEW f, Folds(f, P, b, G, C)
  PROVE  f \in [SUBSET P -> M]
  <1> DEFINE T == {Q \in SUBSET P : f[Q] \notin M}
  <1>1. f = [Q \in SUBSET P |-> f[Q]]
    BY DEF Folds
  <1> SUFFICES ASSUME T # {} PROVE FALSE
    BY <1>1
  <1>2. PICK s \in T : \A t \in T : t \subseteq s => t = s
    <2>1. T \in SUBSET SUBSET P
      OBVIOUS
    <2> HIDE DEF T
    <2> QED
      BY <2>1, SmallestSet
  <1>3. s \in SUBSET P /\ f[s] \notin M
    OBVIOUS
  <1>4. f[s] = IF s = {} THEN b ELSE G[C[s]][f[s \ {C[s]}]]
    BY <1>3 DEF Folds
  <1>5. s # {} /\ C[s] \in s /\ C[s] \in P
    BY <1>3, <1>4 DEF Picks
  <1>6. f[s \ {C[s]}] \in M
    BY <1>2, <1>3, <1>5
  <1>7. G[C[s]] \in [M -> M]
    BY <1>5
  <1>8. G[C[s]][f[s \ {C[s]}]] \in M
    BY <1>6, <1>7
  <1> QED
    BY <1>3, <1>4, <1>5, <1>8

\* A fold over 1 .. n takes one number after the other.
Upwards(f, n, M, b, G) ==
    /\ Folds(f, 1 .. n, b, G, [Q \in SUBSET (1 .. n) |-> Max(Q)])
    /\ f \in [SUBSET (1 .. n) -> M]
    /\ f[{}] = b /\ \A i \in 1 .. n : f[1 .. i] = G[i][f[1 .. i - 1]]

LEMMA FoldUpwards ==
  ASSUME NEW n \in Nat, NEW M, NEW b \in M, NEW G \in [1 .. n -> [M -> M]]
  PROVE  \E f : Upwards(f, n, M, b, G)
  <1> DEFINE P == 1 .. n
             C == [Q \in SUBSET P |-> Max(Q)]
  <1>1. IsFiniteSet(P)
    <2>1. 1 \in Int /\ n \in Int
      OBVIOUS
    <2> QED
      BY <2>1, FS_Interval
  <1>2. Picks(C, P)
    <2> SUFFICES ASSUME NEW Q \in SUBSET P, Q # {} PROVE Max(Q) \in Q
      BY DEF Picks
    <2>1. Q \in SUBSET (0 .. n)
      OBVIOUS
    <2> QED
      BY <2>1, GreatestNumber
  <1>3. PICK f : Folds(f, P, b, G, C)
    <2> HIDE DEF P, C
    <2> QED
      BY <1>1, <1>2, FoldExists
  <1>4. f \in [SUBSET P -> M]
    <2> HIDE DEF C
    <2>1. G \in [P -> [M -> M]]
      OBVIOUS
    <2> HIDE DEF P
    <2> QED
      BY <1>1, <1>2, <1>3, <2>1, FoldTyped
  <1>5. f[{}] = b
    BY <1>3 DEF Folds
  <1>6. ASSUME NEW i \in 1 .. n PROVE f[1 .. i] = G[i][f[1 .. i - 1]]
    <2>1. 1 .. i \in SUBSET (0 .. n) /\ 1 .. i # {} /\ 1 .. i \in SUBSET P
      <3>1. 1 \in 1 .. i /\ \A j \in 1 .. i : j \in 0 .. n /\ j \in P
        OBVIOUS
      <3> QED
        BY <3>1
    <2>2. Max(1 .. i) \in 1 .. i /\ \A m \in 1 .. i : m <= Max(1 .. i)
      BY <2>1, GreatestNumber
    <2>3. Max(1 .. i) = i
      BY <2>2
    <2>4. C[1 .. i] = i /\ (1 .. i) \ {i} = 1 .. i - 1
      BY <2>1, <2>3
    <2>5. f[1 .. i] = G[C[1 .. i]][f[(1 .. i) \ {C[1 .. i]}]]
      <3> HIDE DEF C
      <3> QED
        BY <1>3, <2>1 DEF Folds
    <2> QED
      BY <2>4, <2>5
  <1> QED
    BY <1>3, <1>4, <1>5, <1>6 DEF Upwards

\* The sum of the values of w on a set.
Total(w, P) == MapThenSumSet(LAMBDA x : w[x], P)
Some(Q) == CHOOSE x \in Q : TRUE
Adds(f, w, P) == f = [Q \in SUBSET P |-> IF Q = {} THEN 0 ELSE w[Some(Q)] + f[Q \ {Some(Q)}]]

LEMMA TotalIs == ASSUME NEW w, NEW P PROVE Total(w, P) = (CHOOSE f : Adds(f, w, P))[P]
  BY DEF Total, MapThenSumSet, MapThenFoldSet, Adds, Some

LEMMA AddsExists ==
  ASSUME NEW P, IsFiniteSet(P), NEW w \in [P -> Nat]
  PROVE  \E f \in [SUBSET P -> Nat] : Adds(f, w, P)
  <1> DEFINE G == [x \in P |-> [n \in Nat |-> w[x] + n]]
             C == [Q \in SUBSET P |-> Some(Q)]
  <1>1. G \in [P -> [Nat -> Nat]]
    OBVIOUS
  <1>2. Picks(C, P)
    BY DEF Picks, Some
  <1>3. PICK f : Folds(f, P, 0, G, C)
    <2> HIDE DEF G, C
    <2> QED
      BY <1>1, <1>2, FoldExists
  <1>4. f \in [SUBSET P -> Nat]
    <2> HIDE DEF G, C
    <2>1. 0 \in Nat
      OBVIOUS
    <2> QED
      BY <1>1, <1>2, <1>3, <2>1, FoldTyped
  <1>5. ASSUME NEW Q \in SUBSET P
        PROVE  f[Q] = IF Q = {} THEN 0 ELSE w[Some(Q)] + f[Q \ {Some(Q)}]
    <2>1. f[Q] = IF Q = {} THEN 0 ELSE G[C[Q]][f[Q \ {C[Q]}]]
      <3> HIDE DEF G, C
      <3> QED
        BY <1>3 DEF Folds
    <2>2. CASE Q # {}
      <3>1. C[Q] = Some(Q) /\ Some(Q) \in Q /\ Some(Q) \in P
        BY <1>2, <2>2 DEF Picks
      <3>2. f[Q \ {Some(Q)}] \in Nat
        BY <1>4
      <3>3. G[Some(Q)][f[Q \ {Some(Q)}]] = w[Some(Q)] + f[Q \ {Some(Q)}]
        BY <3>1, <3>2
      <3> HIDE DEF G, C
      <3> QED
        BY <2>1, <2>2, <3>1, <3>3
    <2>3. CASE Q = {}
      BY <2>1, <2>3
    <2> QED
      BY <2>2, <2>3
  <1>6. Adds(f, w, P)
    BY <1>4, <1>5 DEF Adds
  <1> QED
    BY <1>4, <1>6

LEMMA AddsUnique ==
  ASSUME NEW P, IsFiniteSet(P), NEW R \in SUBSET P, NEW w, NEW f, NEW g, Adds(f, w, P), Adds(g, w, R)
  PROVE  f[R] = g[R]
  <1> SUFFICES ASSUME f[R] # g[R] PROVE FALSE
    OBVIOUS
  <1> DEFINE T == {Q \in SUBSET R : f[Q] # g[Q]}
  <1>1. PICK s \in T : \A t \in T : t \subseteq s => t = s
    <2>1. IsFiniteSet(R)
      BY FS_Subset
    <2>2. T \in SUBSET SUBSET R /\ T # {}
      OBVIOUS
    <2> HIDE DEF T
    <2> QED
      BY <2>1, <2>2, SmallestSet
  <1>2. s \in SUBSET R /\ s \in SUBSET P /\ f[s] # g[s]
    OBVIOUS
  <1>3. /\ f[s] = IF s = {} THEN 0 ELSE w[Some(s)] + f[s \ {Some(s)}]
        /\ g[s] = IF s = {} THEN 0 ELSE w[Some(s)] + g[s \ {Some(s)}]
    BY <1>2 DEF Adds
  <1>4. s # {} /\ Some(s) \in s
    BY <1>2, <1>3 DEF Some
  <1>5. s \ {Some(s)} \in SUBSET R /\ s \ {Some(s)} # s /\ s \ {Some(s)} \subseteq s
    BY <1>2, <1>4
  <1>6. f[s \ {Some(s)}] = g[s \ {Some(s)}]
    BY <1>1, <1>5
  <1> QED
    BY <1>2, <1>3, <1>6

\* The order does not matter to a sum.
LEMMA AddsAny ==
  ASSUME NEW P, IsFiniteSet(P), NEW w \in [P -> Nat], NEW f \in [SUBSET P -> Nat], Adds(f, w, P)
  PROVE  f[{}] = 0 /\ \A Q \in SUBSET P : \A x \in Q : f[Q] = w[x] + f[Q \ {x}]
  <1>1. f[{}] = 0
    BY DEF Adds
  <1> DEFINE T == {Q \in SUBSET P : \E x \in Q : f[Q] # w[x] + f[Q \ {x}]}
  <1> SUFFICES ASSUME T # {} PROVE FALSE
    BY <1>1
  <1>2. PICK s \in T : \A t \in T : t \subseteq s => t = s
    <2>1. T \in SUBSET SUBSET P
      OBVIOUS
    <2> HIDE DEF T
    <2> QED
      BY <2>1, SmallestSet
  <1>3. PICK x \in s : f[s] # w[x] + f[s \ {x}]
    OBVIOUS
  <1> DEFINE c == Some(s)
  <1>4. s \in SUBSET P /\ c \in s
    BY <1>3 DEF Some
  <1>5. f[s] = w[c] + f[s \ {c}]
    BY <1>4 DEF Adds
  <1>6. c # x
    BY <1>3, <1>5
  <1> HIDE DEF c
  <1>7. ASSUME NEW t \in SUBSET s, t # s, NEW y \in t PROVE f[t] = w[y] + f[t \ {y}]
    BY <1>2, <1>4, <1>7
  <1>8. f[s \ {c}] = w[x] + f[(s \ {c}) \ {x}]
    BY <1>4, <1>6, <1>7
  <1>9. f[s \ {x}] = w[c] + f[(s \ {x}) \ {c}]
    BY <1>4, <1>6, <1>7
  <1>10. (s \ {c}) \ {x} = (s \ {x}) \ {c}
    OBVIOUS
  <1>11. w[x] \in Nat /\ w[c] \in Nat /\ f[(s \ {x}) \ {c}] \in Nat
    BY <1>4
  <1> DEFINE k == f[(s \ {x}) \ {c}]
             l == f[s \ {c}]
             n == f[s \ {x}]
  <1>12. f[s] = w[c] + l /\ l = w[x] + k /\ n = w[c] + k /\ f[s] # w[x] + n /\ k \in Nat
    BY <1>3, <1>5, <1>8, <1>9, <1>10, <1>11
  <1> HIDE DEF k, l, n
  <1> QED
    BY <1>11, <1>12

\* What a sum is: nothing for no element, and one more for each element.
LEMMA Sums ==
  ASSUME NEW P, IsFiniteSet(P), NEW w \in [P -> Nat]
  PROVE  /\ Total(w, {}) = 0
         /\ \A Q \in SUBSET P : Total(w, Q) \in Nat
         /\ \A Q \in SUBSET P : \A x \in Q : Total(w, Q) = w[x] + Total(w, Q \ {x})
  <1>1. PICK f \in [SUBSET P -> Nat] : Adds(f, w, P)
    BY AddsExists
  <1>2. ASSUME NEW Q \in SUBSET P PROVE Total(w, Q) = f[Q]
    <2>1. Adds([R \in SUBSET Q |-> f[R]], w, Q)
      <3> DEFINE g == [R \in SUBSET Q |-> f[R]]
      <3>1. ASSUME NEW R \in SUBSET Q
            PROVE  g[R] = IF R = {} THEN 0 ELSE w[Some(R)] + g[R \ {Some(R)}]
        BY <1>1 DEF Adds
      <3>2. g = [R \in SUBSET Q |-> g[R]]
        OBVIOUS
      <3> HIDE DEF g
      <3>3. Adds(g, w, Q)
        BY <3>1, <3>2 DEF Adds
      <3> QED
        BY <3>3 DEF g
    <2> DEFINE h == CHOOSE g : Adds(g, w, Q)
    <2>2. Adds(h, w, Q)
      BY <2>1
    <2>3. Total(w, Q) = h[Q]
      BY TotalIs
    <2> HIDE DEF h
    <2>4. f[Q] = h[Q]
      BY <1>1, <2>2, AddsUnique
    <2> QED
      BY <2>3, <2>4
  <1>3. f[{}] = 0 /\ \A Q \in SUBSET P : \A x \in Q : f[Q] = w[x] + f[Q \ {x}]
    BY <1>1, AddsAny
  <1>4. {} \in SUBSET P /\ \A Q \in SUBSET P : \A x : Q \ {x} \in SUBSET P
    OBVIOUS
  <1> QED
    BY <1>1, <1>2, <1>3, <1>4

-----------------------------------------------------------------------------
(* Sessions and checkpoints *)

USE SessionsAssumption DEF SessionsAssumption

LEMMA Tokens ==
  ASSUME NEW D, IsFiniteSet(D), NEW s \in [D -> Nat]
  PROVE  /\ TokensOf(s, {}) = 0
         /\ \A P \in SUBSET D : TokensOf(s, P) \in Nat
         /\ \A P \in SUBSET D : \A p \in D \ P : TokensOf(s, P \cup {p}) = TokensOf(s, P) + s[p]
  <1>1. /\ Total(s, {}) = 0
        /\ \A Q \in SUBSET D : Total(s, Q) \in Nat
        /\ \A Q \in SUBSET D : \A x \in Q : Total(s, Q) = s[x] + Total(s, Q \ {x})
    BY Sums
  <1>2. \A P : TokensOf(s, P) = Total(s, P)
    BY DEF TokensOf, Total
  <1>3. ASSUME NEW P \in SUBSET D, NEW p \in D \ P PROVE Total(s, P \cup {p}) = Total(s, P) + s[p]
    <2>1. P \cup {p} \in SUBSET D /\ p \in P \cup {p} /\ (P \cup {p}) \ {p} = P
      OBVIOUS
    <2>2. Total(s, P \cup {p}) = s[p] + Total(s, P)
      BY <1>1, <2>1
    <2>3. s[p] \in Nat /\ Total(s, P) \in Nat
      BY <1>1
    <2> QED
      BY <2>2, <2>3
  <1> QED
    BY <1>1, <1>2, <1>3

\* filterSlotsByBudget(): what is kept fits, and the first slot is kept if it does.
LEMMA KeptWithin ==
  ASSUME NEW b \in Nat, NEW D \in SUBSET (1 .. b), D # {}, NEW s \in [D -> SlotSizes]
  PROVE  /\ KeptSlots(s) \subseteq D /\ TokensOf(s, KeptSlots(s)) <= Budget
         /\ 2 \in D /\ 1 \notin D => 2 \in KeptSlots(s) \/ s[2] > Budget
  <1>1. IsFiniteSet(D)
    <2>1. 1 \in Int /\ b \in Int
      OBVIOUS
    <2>2. IsFiniteSet(1 .. b)
      BY <2>1, FS_Interval
    <2> QED
      BY <2>2, FS_Subset
  <1>0. s \in [D -> Nat]
    OBVIOUS
  <1>2. DOMAIN s = D
    OBVIOUS
  <1>3. /\ TokensOf(s, {}) = 0
        /\ \A P \in SUBSET D : TokensOf(s, P) \in Nat
        /\ \A P \in SUBSET D : \A p \in D \ P : TokensOf(s, P \cup {p}) = TokensOf(s, P) + s[p]
    BY <1>0, <1>1, Tokens
  <1> DEFINE n == Max(D)
  <1>4. n \in D /\ n \in Nat /\ \A p \in D : p <= n
    <2>1. D \in SUBSET (0 .. b)
      OBVIOUS
    <2>2. n \in D /\ \A p \in D : p <= n
      BY <2>1, GreatestNumber
    <2>3. \A p \in D : p \in Nat
      OBVIOUS
    <2> HIDE DEF n
    <2> QED
      BY <2>2, <2>3
  <1> DEFINE M == {K \in SUBSET D : TokensOf(s, K) <= Budget}
             Fits(p, K) == p \in D /\ TokensOf(s, K) + s[p] <= Budget
             G == [p \in 1 .. n |-> [K \in M |-> IF Fits(p, K) THEN K \cup {p} ELSE K]]
  <1>5. {} \in M
    BY <1>3
  <1>6. ASSUME NEW p \in 1 .. n, NEW K \in M PROVE (IF Fits(p, K) THEN K \cup {p} ELSE K) \in M
    <2>1. CASE Fits(p, K) /\ p \notin K
      <3>1. K \cup {p} \in SUBSET D /\ TokensOf(s, K \cup {p}) = TokensOf(s, K) + s[p]
        BY <1>3, <2>1
      <3> QED
        BY <2>1, <3>1
    <2>2. CASE Fits(p, K) /\ p \in K
      <3>1. K \cup {p} = K
        BY <2>2
      <3> QED
        BY <2>2, <3>1
    <2>3. CASE ~Fits(p, K)
      BY <2>3
    <2> QED
      BY <2>1, <2>2, <2>3
  <1>7. G \in [1 .. n -> [M -> M]]
    <2> HIDE DEF M, Fits, n
    <2> QED
      BY <1>6
  <1>8. PICK f : /\ f \in [SUBSET (1 .. n) -> M] /\ f[{}] = {}
                 /\ \A i \in 1 .. n : f[1 .. i] = G[i][f[1 .. i - 1]]
    <2> HIDE DEF M, G, n, Fits
    <2>1. n \in Nat
      BY <1>4
    <2>2. \E f : Upwards(f, n, M, {}, G)
      BY <1>5, <1>7, <2>1, FoldUpwards
    <2> QED
      BY <2>2 DEF Upwards
  <1> DEFINE g == [p \in 0 .. n |-> f[1 .. p]]
  <1>9. g[0] = {} /\ \A p \in 0 .. n : g[p] \in M
    <2>1. 1 .. 0 = {}
      OBVIOUS
    <2>2. \A p \in 0 .. n : 1 .. p \in SUBSET (1 .. n)
      <3> HIDE DEF n
      <3> SUFFICES ASSUME NEW p \in 0 .. n PROVE \A i \in 1 .. p : i \in 1 .. n
        OBVIOUS
      <3> QED
        BY <1>4
    <2> HIDE DEF M, n
    <2> QED
      BY <1>4, <1>8, <2>1, <2>2
  <1>10. ASSUME NEW p \in 1 .. n
         PROVE  g[p] = IF Fits(p, g[p - 1]) THEN g[p - 1] \cup {p} ELSE g[p - 1]
    <2>1. p \in 0 .. n /\ p - 1 \in 0 .. n
      BY <1>4
    <2>2. g[p] = f[1 .. p] /\ g[p - 1] = f[1 .. p - 1]
      BY <2>1
    <2>3. g[p - 1] \in M
      BY <1>9, <2>1
    <2> HIDE DEF g, M, Fits, n
    <2>4. g[p] = G[p][g[p - 1]]
      BY <1>8, <2>2
    <2> QED
      BY <2>3, <2>4
  <1> DEFINE Is(h) == h = [p \in 0 .. n |->
                             IF p = 0 THEN {}
                             ELSE IF p \in DOMAIN s /\ TokensOf(s, h[p - 1]) + s[p] <= Budget
                                  THEN h[p - 1] \cup {p} ELSE h[p - 1]]
             k == CHOOSE h : Is(h)
  <1>11. Is(g)
    <2>1. \A p \in 0 .. n : g[p] = IF p = 0 THEN {}
                                   ELSE IF p \in DOMAIN s /\ TokensOf(s, g[p - 1]) + s[p] <= Budget
                                        THEN g[p - 1] \cup {p} ELSE g[p - 1]
      <3> SUFFICES ASSUME NEW p \in 0 .. n, p # 0
                   PROVE  g[p] = IF p \in DOMAIN s /\ TokensOf(s, g[p - 1]) + s[p] <= Budget
                                 THEN g[p - 1] \cup {p} ELSE g[p - 1]
        BY <1>9
      <3>1. p \in 1 .. n
        BY <1>4
      <3> HIDE DEF g
      <3> QED
        BY <1>2, <1>10, <3>1
    <2>2. g = [p \in 0 .. n |-> g[p]]
      OBVIOUS
    <2> HIDE DEF g
    <2> QED
      BY <2>1, <2>2
  <1>12. Is(k)
    <2> HIDE DEF g, Is
    <2> QED
      BY <1>11
  <1>13. KeptSlots(s) = k[n]
    BY <1>2 DEF KeptSlots
  <1>14. \A p \in 0 .. n : k[p] = g[p]
    <2> DEFINE T == {p \in 0 .. n : k[p] # g[p]}
    <2> SUFFICES ASSUME T # {} PROVE FALSE
      OBVIOUS
    <2>1. T \in SUBSET (0 .. n)
      OBVIOUS
    <2>2. PICK p \in T : \A q \in T : p <= q
      <3> HIDE DEF T, n
      <3> QED
        BY <1>4, <2>1, LeastNumber
    <2>3. p \in 0 .. n /\ k[p] # g[p]
      OBVIOUS
    <2>4. \A h : Is(h) => h[p] = IF p = 0 THEN {}
                                 ELSE IF p \in DOMAIN s /\ TokensOf(s, h[p - 1]) + s[p] <= Budget
                                      THEN h[p - 1] \cup {p} ELSE h[p - 1]
      <3> HIDE DEF n, k, g, T
      <3> QED
        BY <2>3
    <2>5. p # 0
      <3> HIDE DEF n, k, g, T, Is
      <3> QED
        BY <1>11, <1>12, <2>3, <2>4
    <2>6. p - 1 \in 0 .. n /\ p - 1 < p
      <3> HIDE DEF n, k, g, T, Is
      <3> QED
        BY <1>4, <2>3, <2>5
    <2>7. k[p - 1] = g[p - 1]
      <3>1. p - 1 \notin T
        <4> HIDE DEF n, k, g, T, Is
        <4> QED
          BY <2>2, <2>3, <2>6
      <3> HIDE DEF n, k, g, Is
      <3> QED
        BY <2>6, <3>1
    <2> HIDE DEF n, k, g, T, Is
    <2> QED
      BY <1>11, <1>12, <2>3, <2>4, <2>7
  <1>15. KeptSlots(s) = g[n] /\ g[n] \in M
    <2>1. n \in 0 .. n
      <3> HIDE DEF n
      <3> QED
        BY <1>4
    <2> HIDE DEF n, k, g, M, Is
    <2> QED
      BY <1>9, <1>13, <1>14, <2>1
  <1>16. ASSUME 2 \in D, 1 \notin D, ~(s[2] > Budget) PROVE 2 \in g[n]
    <2>1. n >= 2 /\ s[2] <= Budget
      <3>1. s[2] \in Nat
        BY <1>0, <1>16
      <3> HIDE DEF n
      <3> QED
        BY <1>4, <1>16, <3>1
    <2> DEFINE T == {p \in 2 .. n : 2 \notin g[p]}
    <2> SUFFICES ASSUME T # {} PROVE FALSE
      <3>1. n \in 2 .. n
        <4> HIDE DEF n
        <4> QED
          BY <1>4, <2>1
      <3> HIDE DEF n, g
      <3> QED
        BY <3>1
    <2>2. \A p \in T : p \in 0 .. n
      <3> HIDE DEF n, g
      <3> QED
        BY <1>4
    <2>3. PICK p \in T : \A q \in T : p <= q
      <3> HIDE DEF T, n
      <3> QED
        BY <1>4, <2>2, LeastNumber
    <2>4. p \in 2 .. n /\ 2 \notin g[p]
      <3> HIDE DEF n, g
      <3> QED
        OBVIOUS
    <2>5. \A q \in 1 .. n : g[q] = IF Fits(q, g[q - 1]) THEN g[q - 1] \cup {q} ELSE g[q - 1]
      <3> HIDE DEF n, g, Fits
      <3> QED
        BY <1>10
    <2>6. CASE p = 2
      <3>1. g[1] = {}
        <4>1. ~Fits(1, g[0])
          <5> HIDE DEF g
          <5> QED
            BY <1>16
        <4>2. 1 \in 1 .. n /\ 1 - 1 = 0
          <5> HIDE DEF n
          <5> QED
            BY <1>4, <2>1
        <4> HIDE DEF n, g, Fits
        <4> QED
          BY <1>9, <2>5, <4>1, <4>2
      <3>2. Fits(2, g[1])
        <4>1. TokensOf(s, g[1]) = 0 /\ s[2] \in Nat
          <5> HIDE DEF g
          <5> QED
            BY <1>0, <1>3, <1>16, <3>1
        <4> HIDE DEF n, g
        <4> QED
          BY <1>16, <2>1, <4>1
      <3>3. 2 \in 1 .. n /\ 2 - 1 = 1
        <4> HIDE DEF n
        <4> QED
          BY <1>4, <2>1
      <3>4. g[2] = g[1] \cup {2}
        <4> HIDE DEF n, g, Fits
        <4> QED
          BY <2>5, <3>2, <3>3
      <3> HIDE DEF n, g, Fits, T
      <3> QED
        BY <2>4, <2>6, <3>4
    <2>7. CASE p # 2
      <3>1. p - 1 \in 2 .. n /\ p - 1 < p /\ p \in 1 .. n
        <4> HIDE DEF n, g, T
        <4> QED
          BY <1>4, <2>4, <2>7
      <3>2. 2 \in g[p - 1]
        <4>1. p - 1 \notin T
          <5> HIDE DEF T, n
          <5> QED
            BY <2>3, <2>4, <3>1
        <4> HIDE DEF n, g
        <4> QED
          BY <3>1, <4>1
      <3> HIDE DEF n, g, Fits, T
      <3> QED
        BY <2>4, <2>5, <3>1, <3>2
    <2> QED
      BY <2>6, <2>7
  <1>17. KeptSlots(s) \subseteq D /\ TokensOf(s, KeptSlots(s)) <= Budget
    <2> HIDE DEF n, g
    <2> QED
      BY <1>15
  <1> HIDE DEF n, g, M
  <1> QED
    BY <1>15, <1>16, <1>17

-----------------------------------------------------------------------------
SessTyped ==
    /\ sessionFile \in [SessIds -> {"none", "active", "ended"}] /\ checkFile \in [SessIds -> BOOLEAN]
    /\ sessionIndex \in Seq(SessIds) /\ checkIndex \subseteq SessIds
PcTyped ==
    /\ sessPc \in [at : {"rest", "session_index", "add", "remove"}, id : Nat]
    /\ sessPc.at # "rest" => sessPc.id \in SessIds
SlotsHeld == slots.kept \subseteq DOMAIN slots.all /\ WithinBudget

\* What is in the index has a file, and is there once.
Indexed ==
    \A k, m \in DOMAIN sessionIndex :
        /\ sessionFile[sessionIndex[k]] # "none"
        /\ sessionIndex[k] = sessionIndex[m] => k = m

\* An active session that is not in the index was cut off or is about to be.
AwaitedIds ==
    /\ sessPc.at = "session_index" => sessionFile[sessPc.id] # "none"
    /\ \A i \in SessIds : sessionFile[i] = "active" =>
           InIndex(i) \/ i \in cutSave \/ (sessPc.at = "session_index" /\ sessPc.id = i)

\* A checkpoint that is listed has its file, or its deletion was cut off or goes on.
StoredChecks ==
    /\ sessPc.at = "add" => checkFile[sessPc.id] = TRUE
    /\ \A i \in checkIndex : checkFile[i] = TRUE \/ i \in cutDelete \/ (sessPc.at = "remove" /\ sessPc.id = i)

SessInv == SessTyped /\ PcTyped /\ SlotsHeld /\ Indexed /\ AwaitedIds /\ StoredChecks

LEMMA NoSlotsHeld == NoSlots.kept \subseteq DOMAIN NoSlots.all /\ DOMAIN NoSlots.all = {}
  BY DEF NoSlots

LEMMA SessStart == SessInit => SessInv
  <1> SUFFICES ASSUME SessInit PROVE SessInv
    OBVIOUS
  <1>1. /\ sessionFile = [i \in SessIds |-> "none"] /\ sessionIndex = <<>> /\ slots = NoSlots
        /\ checkFile = [i \in SessIds |-> FALSE] /\ checkIndex = {} /\ sessPc = [at |-> "rest", id |-> 0]
    BY DEF SessInit, Resting
  <1>2. SessTyped
    <2>1. sessionFile \in [SessIds -> {"none", "active", "ended"}]
      BY <1>1
    <2>2. checkFile \in [SessIds -> BOOLEAN] /\ sessionIndex \in Seq(SessIds) /\ checkIndex \subseteq SessIds
      BY <1>1
    <2> QED
      BY <2>1, <2>2 DEF SessTyped
  <1>3. PcTyped
    BY <1>1 DEF PcTyped
  <1>4. SlotsHeld
    BY <1>1, NoSlotsHeld DEF SlotsHeld, WithinBudget
  <1>5. Indexed
    BY <1>1 DEF Indexed
  <1>6. AwaitedIds /\ StoredChecks
    BY <1>1 DEF AwaitedIds, StoredChecks
  <1> QED
    BY <1>2, <1>3, <1>4, <1>5, <1>6 DEF SessInv

\* The context a session is given.
LEMMA GivenWithin ==
  ASSUME NEW type \in DOMAIN SlotsOfType, NEW c \in BOOLEAN, NEW j \in BOOLEAN,
         NEW s \in [Priorities(type, c, j) -> SlotSizes], slots' = [all |-> s, kept |-> KeptSlots(s)]
  PROVE  SlotsHeld'
  <1> DEFINE own == {2 * n : n \in 1 .. SlotsOfType[type]} \cup (IF c THEN {9} ELSE {})
             D == Priorities(type, c, j)
  <1>1. SlotsOfType[type] \in 2 .. 4
    BY DEF SlotsOfType
  <1>2. own \in SUBSET (0 .. 9) /\ 2 \in own /\ 0 \notin own /\ 1 \notin own
    <2>1. \A p \in own : p \in 0 .. 9 /\ p # 0 /\ p # 1
      BY <1>1
    <2>2. 2 \in own
      BY <1>1
    <2> HIDE DEF own
    <2> QED
      BY <2>1, <2>2
  <1>3. Max(own) \in own /\ 9 \in Nat
    <2> HIDE DEF own
    <2>1. own # {} /\ 9 \in Nat
      BY <1>2
    <2> QED
      BY <1>2, <2>1, GreatestNumber
  <1>4. D = own \cup (IF j THEN {Max(own) + 2} ELSE {})
    BY DEF Priorities
  <1>5. D \in SUBSET (1 .. 11) /\ D # {} /\ 2 \in D /\ 1 \notin D
    <2> HIDE DEF own, D
    <2>1. Max(own) \in 2 .. 9
      <3>1. \A p \in own : p \in 2 .. 9
        BY <1>2
      <3> QED
        BY <1>3, <3>1
    <2>2. \A p \in own : p \in 1 .. 11
      BY <1>2
    <2>3. \A p \in D : p \in 1 .. 11 /\ p # 1
      BY <1>2, <1>4, <2>1, <2>2
    <2>4. 2 \in D
      BY <1>2, <1>4
    <2> QED
      BY <2>3, <2>4
  <1> HIDE DEF own, D
  <1>6. s \in [D -> SlotSizes] /\ 11 \in Nat
    BY DEF D
  <1>7. KeptSlots(s) \subseteq D /\ TokensOf(s, KeptSlots(s)) <= Budget /\ (2 \in KeptSlots(s) \/ s[2] > Budget)
    BY <1>5, <1>6, KeptWithin
  <1>8. slots'.all = s /\ slots'.kept = KeptSlots(s) /\ DOMAIN s = D
    BY <1>6
  <1> QED
    BY <1>7, <1>8 DEF SlotsHeld, WithinBudget

LEMMA SlotsStay ==
  ASSUME SlotsHeld, slots' = slots \/ slots' = NoSlots
  PROVE  SlotsHeld'
  BY NoSlotsHeld DEF SlotsHeld, WithinBudget

LEMMA CreateKeeps == SessInv /\ CreateSession => SessInv'
  <1> SUFFICES ASSUME SessInv, CreateSession PROVE SessInv'
    OBVIOUS
  <1>1. SessTyped /\ PcTyped /\ SlotsHeld /\ Indexed /\ AwaitedIds /\ StoredChecks
    BY DEF SessInv
  <1>2. PICK i \in FreshId(UsedSessions), type \in DOMAIN SlotsOfType, c \in BOOLEAN, j \in BOOLEAN :
          /\ sessionFile' = [sessionFile EXCEPT ![i] = "active"]
          /\ \E s \in [Priorities(type, c, j) -> SlotSizes] : slots' = [all |-> s, kept |-> KeptSlots(s)]
          /\ sessPc' = [at |-> "session_index", id |-> i]
    BY DEF CreateSession
  <1>3. UNCHANGED <<sessionIndex, checkFile, checkIndex, cutSave, cutDelete, sessFaults>> /\ sessPc.at = "rest"
    BY DEF CreateSession
  <1>4. i \in SessIds /\ i \in Nat
    BY DEF FreshId, SessIds
  <1>5. SlotsHeld'
    BY <1>2, GivenWithin
  <1>6. /\ sessionFile' \in [SessIds -> {"none", "active", "ended"}] /\ sessionFile'[i] = "active"
        /\ \A k \in SessIds : k # i => sessionFile'[k] = sessionFile[k]
    BY <1>1, <1>2, <1>4 DEF SessTyped
  <1>7. SessTyped'
    BY <1>1, <1>3, <1>6 DEF SessTyped
  <1>8. PcTyped'
    BY <1>2, <1>4 DEF PcTyped, SessIds
  <1>9. Indexed'
    <2>1. \A k \in DOMAIN sessionIndex : sessionIndex[k] \in SessIds
      BY <1>1 DEF SessTyped
    <2> QED
      BY <1>1, <1>3, <1>6, <2>1 DEF Indexed
  <1>10. AwaitedIds'
    BY <1>1, <1>2, <1>3, <1>6 DEF AwaitedIds, InIndex
  <1>11. StoredChecks'
    BY <1>1, <1>2, <1>3 DEF StoredChecks
  <1> QED
    BY <1>5, <1>7, <1>8, <1>9, <1>10, <1>11 DEF SessInv

LEMMA EndKeeps == SessInv /\ EndSession => SessInv'
  <1> SUFFICES ASSUME SessInv, EndSession PROVE SessInv'
    OBVIOUS
  <1>1. SessTyped /\ PcTyped /\ SlotsHeld /\ Indexed /\ AwaitedIds /\ StoredChecks
    BY DEF SessInv
  <1>2. PICK i \in UsedSessions :
          /\ sessionFile' = [sessionFile EXCEPT ![i] = "ended"]
          /\ sessPc' = [at |-> "session_index", id |-> i]
    BY DEF EndSession
  <1>3. UNCHANGED <<sessionIndex, checkFile, checkIndex, cutSave, cutDelete, sessFaults>> /\ sessPc.at = "rest"
        /\ slots' = NoSlots
    BY DEF EndSession
  <1>4. i \in SessIds /\ i \in Nat
    BY DEF UsedSessions, SessIds
  <1>5. SlotsHeld'
    BY <1>1, <1>3, SlotsStay
  <1>6. /\ sessionFile' \in [SessIds -> {"none", "active", "ended"}] /\ sessionFile'[i] = "ended"
        /\ \A k \in SessIds : k # i => sessionFile'[k] = sessionFile[k]
    BY <1>1, <1>2, <1>4 DEF SessTyped
  <1>7. SessTyped'
    BY <1>1, <1>3, <1>6 DEF SessTyped
  <1>8. PcTyped'
    BY <1>2, <1>4 DEF PcTyped, SessIds
  <1>9. Indexed'
    <2>1. \A k \in DOMAIN sessionIndex : sessionIndex[k] \in SessIds
      BY <1>1 DEF SessTyped
    <2> QED
      BY <1>1, <1>3, <1>6, <2>1 DEF Indexed
  <1>10. AwaitedIds'
    BY <1>1, <1>2, <1>3, <1>6 DEF AwaitedIds, InIndex
  <1>11. StoredChecks'
    BY <1>1, <1>2, <1>3 DEF StoredChecks
  <1> QED
    BY <1>5, <1>7, <1>8, <1>9, <1>10, <1>11 DEF SessInv

LEMMA IndexKeeps == SessInv /\ UpdateSessionIndex => SessInv'
  <1> SUFFICES ASSUME SessInv, UpdateSessionIndex PROVE SessInv'
    OBVIOUS
  <1>1. SessTyped /\ PcTyped /\ SlotsHeld /\ Indexed /\ AwaitedIds /\ StoredChecks
    BY DEF SessInv
  <1> DEFINE i == sessPc.id
  <1>2. /\ sessPc.at = "session_index" /\ sessPc' = [at |-> "rest", id |-> 0]
        /\ cutSave' = cutSave \ {i} /\ slots' = NoSlots
        /\ UNCHANGED <<sessionFile, checkFile, checkIndex, cutDelete, sessFaults>>
    BY DEF UpdateSessionIndex, Resting
  <1>3. sessionIndex' = IF InIndex(i) THEN sessionIndex ELSE Append(sessionIndex, i)
    BY DEF UpdateSessionIndex, WithSession
  <1>4. i \in SessIds /\ sessionFile[i] # "none" /\ sessionIndex \in Seq(SessIds)
    BY <1>1, <1>2 DEF PcTyped, AwaitedIds, SessTyped
  <1> HIDE DEF i
  <1>5. sessionIndex' \in Seq(SessIds)
    BY <1>3, <1>4
  <1>6. /\ \E k \in DOMAIN sessionIndex' : sessionIndex'[k] = i
        /\ \A k \in DOMAIN sessionIndex : k \in DOMAIN sessionIndex' /\ sessionIndex'[k] = sessionIndex[k]
    <2>1. CASE InIndex(i)
      BY <1>3, <2>1 DEF InIndex
    <2>2. CASE ~InIndex(i)
      BY <1>3, <1>4, <2>2
    <2> QED
      BY <2>1, <2>2
  <1>7. Indexed'
    <2>1. CASE InIndex(i)
      BY <1>1, <1>2, <1>3, <2>1 DEF Indexed
    <2>2. CASE ~InIndex(i)
      <3> DEFINE n == Len(sessionIndex) + 1
      <3>1. /\ DOMAIN sessionIndex' = DOMAIN sessionIndex \cup {n} /\ sessionIndex'[n] = i
            /\ \A k \in DOMAIN sessionIndex : sessionIndex'[k] = sessionIndex[k] /\ sessionIndex[k] # i
        BY <1>3, <1>4, <2>2 DEF InIndex
      <3> HIDE DEF n
      <3> QED
        BY <1>1, <1>2, <1>4, <3>1 DEF Indexed
    <2> QED
      BY <2>1, <2>2
  <1>8. AwaitedIds'
    BY <1>1, <1>2, <1>6 DEF AwaitedIds, InIndex, i
  <1>9. StoredChecks'
    BY <1>1, <1>2 DEF StoredChecks
  <1>10. SessTyped' /\ SlotsHeld'
    BY <1>1, <1>2, <1>5, SlotsStay DEF SessTyped
  <1>11. PcTyped'
    BY <1>2 DEF PcTyped
  <1> QED
    BY <1>7, <1>8, <1>9, <1>10, <1>11 DEF SessInv

LEMMA IndexCutKeeps == SessInv /\ IndexCutOff => SessInv'
  <1> SUFFICES ASSUME SessInv, IndexCutOff PROVE SessInv'
    OBVIOUS
  <1>1. SessTyped /\ PcTyped /\ SlotsHeld /\ Indexed /\ AwaitedIds /\ StoredChecks
    BY DEF SessInv
  <1>2. /\ sessPc.at = "session_index" /\ sessPc' = [at |-> "rest", id |-> 0] /\ slots' = NoSlots
        /\ UNCHANGED <<sessionFile, sessionIndex, checkFile, checkIndex, cutDelete>>
        /\ cutSave' = IF InIndex(sessPc.id) THEN cutSave ELSE cutSave \cup {sessPc.id}
    BY DEF IndexCutOff, Resting
  <1>3. SessTyped' /\ SlotsHeld'
    BY <1>1, <1>2, SlotsStay DEF SessTyped
  <1>4. PcTyped'
    BY <1>2 DEF PcTyped
  <1>5. Indexed' /\ StoredChecks'
    BY <1>1, <1>2 DEF Indexed, StoredChecks
  <1>6. AwaitedIds'
    BY <1>1, <1>2 DEF AwaitedIds, InIndex
  <1> QED
    BY <1>3, <1>4, <1>5, <1>6 DEF SessInv

LEMMA ChecksKeep ==
  ASSUME SessInv, UNCHANGED <<sessionFile, sessionIndex, slots>>, cutSave \subseteq cutSave',
         sessPc.at # "session_index", sessPc'.at # "session_index",
         checkFile' \in [SessIds -> BOOLEAN], checkIndex' \subseteq SessIds, PcTyped', StoredChecks'
  PROVE  SessInv'
  <1>1. SessTyped /\ SlotsHeld /\ Indexed /\ AwaitedIds
    BY DEF SessInv
  <1>2. SessTyped'
    BY <1>1 DEF SessTyped
  <1>3. SlotsHeld' /\ Indexed'
    BY <1>1, SlotsStay DEF Indexed
  <1>4. AwaitedIds'
    BY <1>1 DEF AwaitedIds, InIndex
  <1> QED
    BY <1>2, <1>3, <1>4 DEF SessInv

LEMMA CheckStepKeeps == SessInv /\ CheckpointStep => SessInv'
  <1> SUFFICES ASSUME SessInv, CheckpointStep PROVE SessInv'
    OBVIOUS
  <1>1. SessTyped /\ PcTyped /\ StoredChecks
    BY DEF SessInv
  <1>2. checkFile \in [SessIds -> BOOLEAN] /\ checkIndex \subseteq SessIds
    BY <1>1 DEF SessTyped
  <1>3. CASE SaveCheckpoint
    <2> DEFINE i == NextCheck
    <2>1. /\ sessPc.at = "rest" /\ i \in SessIds /\ checkFile' = [checkFile EXCEPT ![i] = TRUE]
          /\ sessPc' = [at |-> "add", id |-> i]
          /\ UNCHANGED <<sessionFile, sessionIndex, slots, checkIndex, cutSave, cutDelete, sessFaults>>
      BY <1>3 DEF SaveCheckpoint
    <2> HIDE DEF i
    <2>2. PcTyped'
      BY <2>1 DEF PcTyped, SessIds
    <2>3. StoredChecks'
      BY <1>1, <1>2, <2>1 DEF StoredChecks
    <2>4. checkFile' \in [SessIds -> BOOLEAN]
      BY <1>2, <2>1
    <2> QED
      BY <1>2, <2>1, <2>2, <2>3, <2>4, ChecksKeep
  <1>4. CASE AddToIndex
    <2>1. /\ sessPc.at = "add" /\ checkIndex' = checkIndex \cup {sessPc.id} /\ sessPc' = [at |-> "rest", id |-> 0]
          /\ UNCHANGED <<sessionFile, sessionIndex, slots, checkFile, cutSave, cutDelete, sessFaults>>
      BY <1>4 DEF AddToIndex, Resting
    <2>2. PcTyped'
      BY <2>1 DEF PcTyped
    <2>3. StoredChecks'
      BY <1>1, <1>2, <2>1 DEF StoredChecks
    <2>4. checkIndex' \subseteq SessIds
      BY <1>1, <1>2, <2>1 DEF PcTyped
    <2> QED
      BY <1>2, <2>1, <2>2, <2>3, <2>4, ChecksKeep
  <1>5. CASE DeleteCheckpoint
    <2>1. PICK i \in checkIndex :
            /\ sessPc' = [at |-> "remove", id |-> i]
            /\ checkFile' = [checkFile EXCEPT ![i] = FALSE] \/ UNCHANGED checkFile
      BY <1>5 DEF DeleteCheckpoint
    <2>2. sessPc.at = "rest" /\ UNCHANGED <<sessionFile, sessionIndex, slots, checkIndex, cutSave, cutDelete>>
      BY <1>5 DEF DeleteCheckpoint
    <2>3. checkFile' \in [SessIds -> BOOLEAN] /\ \A k \in SessIds : k # i => checkFile'[k] = checkFile[k]
      BY <1>2, <2>1
    <2>4. PcTyped'
      BY <1>2, <2>1 DEF PcTyped, SessIds
    <2>5. StoredChecks'
      BY <1>1, <1>2, <2>1, <2>2, <2>3 DEF StoredChecks
    <2> QED
      BY <1>2, <2>1, <2>2, <2>3, <2>4, <2>5, ChecksKeep
  <1>6. CASE RemoveFromIndex
    <2>1. /\ sessPc.at = "remove" /\ sessPc' = [at |-> "rest", id |-> 0] /\ checkIndex' = checkIndex \ {sessPc.id}
          /\ cutDelete' = cutDelete \ {sessPc.id}
          /\ UNCHANGED <<sessionFile, sessionIndex, slots, checkFile, cutSave, sessFaults>>
      BY <1>6 DEF RemoveFromIndex, Resting, Remaining
    <2>2. PcTyped'
      BY <2>1 DEF PcTyped
    <2>3. StoredChecks'
      BY <1>1, <1>2, <2>1 DEF StoredChecks
    <2>4. checkIndex' \subseteq SessIds
      BY <1>2, <2>1
    <2> QED
      BY <1>2, <2>1, <2>2, <2>3, <2>4, ChecksKeep
  <1>7. CASE CheckCutOff
    <2>1. /\ sessPc.at \in {"add", "remove"} /\ sessPc' = [at |-> "rest", id |-> 0]
          /\ UNCHANGED <<sessionFile, sessionIndex, slots, checkFile, checkIndex>>
          /\ cutSave \subseteq cutSave' /\ cutDelete \subseteq cutDelete'
          /\ (sessPc.at = "remove" => sessPc.id \in cutDelete')
      BY <1>7 DEF CheckCutOff, Resting
    <2>2. PcTyped'
      BY <2>1 DEF PcTyped
    <2>3. StoredChecks'
      BY <1>1, <1>2, <2>1 DEF StoredChecks
    <2> QED
      BY <1>2, <2>1, <2>2, <2>3, ChecksKeep
  <1> QED
    BY <1>3, <1>4, <1>5, <1>6, <1>7 DEF CheckpointStep

LEMMA SessKeeps == SessInv /\ [SessionStep \/ CheckpointStep]_sessVars => SessInv'
  <1> SUFFICES ASSUME SessInv, [SessionStep \/ CheckpointStep]_sessVars PROVE SessInv'
    OBVIOUS
  <1>1. CASE UNCHANGED sessVars
    <2>1. UNCHANGED <<sessionFile, sessionIndex, slots, checkFile, checkIndex, sessPc, cutSave, cutDelete>>
      BY <1>1 DEF sessVars
    <2> QED
      BY <2>1 DEF SessInv, SessTyped, PcTyped, SlotsHeld, WithinBudget, Indexed, AwaitedIds, InIndex, StoredChecks
  <1> QED
    BY <1>1, CreateKeeps, EndKeeps, IndexKeeps, IndexCutKeeps, CheckStepKeeps DEF SessionStep

LEMMA SessHolds == SessInv => WithinBudget /\ SessionsFound /\ CheckpointLoads
  <1> SUFFICES ASSUME SessInv PROVE SessionsFound /\ CheckpointLoads
    BY DEF SessInv, SlotsHeld
  <1>1. SessTyped /\ Indexed /\ AwaitedIds /\ StoredChecks
    BY DEF SessInv
  <1>2. SessionsFound
    BY <1>1 DEF SessionsFound, Indexed, AwaitedIds, InIndex, ActiveSessions
  <1>3. ASSUME sessPc.at = "rest", cutDelete = {}, checkIndex # {} PROVE LoadCheckpoint # 0
    <2>1. checkIndex \in SUBSET (0 .. MaxSessions) /\ MaxSessions \in Nat
      BY <1>1 DEF SessTyped, SessIds
    <2>2. Max(checkIndex) \in checkIndex
      BY <1>3, <2>1, GreatestNumber
    <2>3. checkFile[Max(checkIndex)] = TRUE
      BY <1>1, <1>3, <2>2 DEF StoredChecks
    <2>4. Max(checkIndex) # 0
      BY <1>1, <2>2 DEF SessTyped, SessIds
    <2> QED
      BY <1>3, <2>3, <2>4 DEF LoadCheckpoint
  <1> QED
    BY <1>2, <1>3 DEF CheckpointLoads

LEMMA SessTypes == SessInv => SessTypeOK
  BY DEF SessInv, SessTyped, PcTyped, SlotsHeld, SessTypeOK

HIDE SessionsAssumption DEF SessionsAssumption

-----------------------------------------------------------------------------
(* Reports and notices *)

USE ReportsAssumption DEF ReportsAssumption

Hourly == 0 .. MaxHour
RepRecords == [kind : Kinds, hour : Hourly, loops : Nat]

RepTyped == hour \in Hourly /\ saved \in Seq(RepRecords) /\ lastSent \in [Notices -> -1 .. MaxHour]

\* What is under way is the report of a notice, and was checked before.
DispatchesTyped ==
    \A d \in dispatches :
        /\ d.report \in DOMAIN saved /\ saved[d.report].kind \in Notices
        /\ d.channel \in 1 .. Len(Channels) + 1 /\ d.since \in -1 .. hour
        /\ d.since # -1 => d.channel <= Len(Channels)

\* What was delivered was answered before now, and its type remembers it.
DeliveredTyped ==
    \A a \in delivered :
        /\ a.report \in DOMAIN saved /\ saved[a.report].kind \in Notices
        /\ a.from \in 0 .. hour /\ a.to \in 0 .. hour
        /\ a.to <= lastSent[saved[a.report].kind]
SentBefore == \A t \in Notices : lastSent[t] <= hour

\* What is with a channel was given to it when the cooldown was over.
Apart ==
    \A d \in dispatches : d.since # -1 =>
        \A a \in delivered :
            saved[a.report].kind = saved[d.report].kind /\ a.to < d.since =>
                d.since - a.to >= Cooldown[saved[d.report].kind]

\* The report of a day has the loops of the day.
DayCounts ==
    \A i \in Listed({"daily"}) : saved[i].loops = Cardinality({j \in Executions(saved[i].hour) : j < i})

RepInv ==
    /\ RepTyped /\ DispatchesTyped /\ DeliveredTyped /\ SentBefore
    /\ Apart /\ SpacedOut /\ DayCounts

LEMMA RepStart == RepInit => RepInv
  <1> SUFFICES ASSUME RepInit PROVE RepInv
    OBVIOUS
  <1>1. /\ hour = 0 /\ saved = <<>> /\ dispatches = {} /\ delivered = {}
        /\ lastSent = [t \in Notices |-> -1]
    BY DEF RepInit
  <1>2. RepTyped
    <2>1. hour \in Hourly /\ saved \in Seq(RepRecords)
      BY <1>1 DEF Hourly
    <2>2. -1 \in -1 .. MaxHour
      OBVIOUS
    <2>3. lastSent \in [Notices -> -1 .. MaxHour]
      BY <1>1, <2>2
    <2> QED
      BY <2>1, <2>3 DEF RepTyped
  <1>3. DispatchesTyped /\ DeliveredTyped /\ Apart /\ SpacedOut
    BY <1>1 DEF DispatchesTyped, DeliveredTyped, Apart, SpacedOut
  <1>4. SentBefore
    BY <1>1 DEF SentBefore
  <1>5. DayCounts
    BY <1>1 DEF DayCounts, Listed
  <1> QED
    BY <1>2, <1>3, <1>4, <1>5 DEF RepInv

\* One more report: those before it stay what they are.
LEMMA SavedMore ==
  ASSUME RepInv, NEW x \in RepRecords, saved' = Append(saved, x)
  PROVE  /\ saved' \in Seq(RepRecords) /\ Len(saved) \in Nat /\ DOMAIN saved = 1 .. Len(saved)
         /\ DOMAIN saved' = DOMAIN saved \cup {Len(saved) + 1} /\ saved'[Len(saved) + 1] = x
         /\ \A i \in DOMAIN saved : saved'[i] = saved[i] /\ i < Len(saved) + 1
  <1>1. saved \in Seq(RepRecords)
    BY DEF RepInv, RepTyped
  <1> QED
    BY <1>1

\* What is counted before a report does not change with those after it.
LEMMA CountsStay ==
  ASSUME RepInv, NEW x \in RepRecords, saved' = Append(saved, x), UNCHANGED hour,
         x.kind = "daily" => x.loops = LoopsToday /\ x.hour = hour
  PROVE  DayCounts'
  <1> DEFINE n == Len(saved) + 1
  <1>1. /\ DOMAIN saved' = DOMAIN saved \cup {n} /\ saved'[n] = x /\ n \notin DOMAIN saved
        /\ \A i \in DOMAIN saved : saved'[i] = saved[i] /\ i \in Nat /\ i < n
        /\ n \in Nat
    BY SavedMore
  <1> HIDE DEF n
  <1>2. DayCounts
    BY DEF RepInv
  <1> SUFFICES ASSUME NEW i \in DOMAIN saved', saved'[i].kind = "daily"
               PROVE  saved'[i].loops =
                        Cardinality({j \in {k \in DOMAIN saved' :
                                              saved'[k].kind = "execution" /\ DayOf(saved'[k].hour) = DayOf(saved'[i].hour)} : j < i})
    <2>1. \A h : {j \in DOMAIN saved' : saved'[j].kind = "execution" /\ DayOf(saved'[j].hour) = DayOf(h)}
               = {j \in {k \in DOMAIN saved' : saved'[k].kind \in {"execution"}} : DayOf(saved'[j].hour) = DayOf(h)}
      OBVIOUS
    <2> QED
      BY <2>1 DEF DayCounts, Listed, Executions
  <1>3. CASE i \in DOMAIN saved
    <2>1. i \in Listed({"daily"}) /\ saved'[i] = saved[i]
      BY <1>1, <1>3 DEF Listed
    <2>2. {j \in {k \in DOMAIN saved' : saved'[k].kind = "execution" /\ DayOf(saved'[k].hour) = DayOf(saved[i].hour)} : j < i}
          = {j \in Executions(saved[i].hour) : j < i}
      <3>1. ~(n < i)
        BY <1>1, <1>3
      <3> QED
        BY <1>1, <3>1 DEF Executions, Listed
    <2> QED
      BY <1>2, <2>1, <2>2 DEF DayCounts
  <1>4. CASE i = n
    <2>1. x.loops = LoopsToday /\ x.hour = hour /\ saved'[i] = x
      BY <1>1, <1>4
    <2>2. {j \in {k \in DOMAIN saved' : saved'[k].kind = "execution" /\ DayOf(saved'[k].hour) = DayOf(hour)} : j < n}
          = {k \in Listed({"execution"}) : DayOf(saved[k].hour) = DayOf(hour)}
      <3>1. ~(n < n)
        BY <1>1
      <3> QED
        BY <1>1, <3>1 DEF Listed
    <2> QED
      BY <1>4, <2>1, <2>2 DEF LoopsToday
  <1> QED
    BY <1>1, <1>3, <1>4

\* One more report, and what was under way before.
LEMMA SavingKeeps ==
  ASSUME RepInv, NEW x \in RepRecords, saved' = Append(saved, x), UNCHANGED <<hour, lastSent, delivered>>,
         x.kind = "daily" => x.loops = LoopsToday /\ x.hour = hour,
         \A d \in dispatches' : d \in dispatches \/ (/\ d.report = Len(saved) + 1 /\ x.kind \in Notices
                                                     /\ d.channel \in 1 .. Len(Channels) + 1 /\ d.since = -1)
  PROVE  RepInv'
  <1>1. RepTyped /\ DispatchesTyped /\ DeliveredTyped /\ SentBefore /\ Apart /\ SpacedOut /\ DayCounts
    BY DEF RepInv
  <1>2. /\ saved' \in Seq(RepRecords)
        /\ DOMAIN saved' = DOMAIN saved \cup {Len(saved) + 1} /\ saved'[Len(saved) + 1] = x
        /\ \A i \in DOMAIN saved : saved'[i] = saved[i]
    BY SavedMore
  <1>3. RepTyped' /\ SentBefore'
    BY <1>1, <1>2 DEF RepTyped, SentBefore
  <1>4. DispatchesTyped'
    <2>1. -1 \in -1 .. hour
      BY <1>1 DEF RepTyped, Hourly
    <2> QED
      BY <1>1, <1>2, <2>1 DEF DispatchesTyped
  <1>5. DeliveredTyped'
    BY <1>1, <1>2 DEF DeliveredTyped
  <1>6. SpacedOut'
    BY <1>1, <1>2 DEF SpacedOut, DeliveredTyped
  <1>7. Apart'
    <2> SUFFICES ASSUME NEW d \in dispatches', d.since # -1, NEW a \in delivered,
                        saved'[a.report].kind = saved'[d.report].kind, a.to < d.since
                 PROVE  d.since - a.to >= Cooldown[saved'[d.report].kind]
      BY DEF Apart
    <2>1. d \in dispatches /\ saved'[d.report] = saved[d.report] /\ saved'[a.report] = saved[a.report]
      BY <1>1, <1>2 DEF DispatchesTyped, DeliveredTyped
    <2> QED
      BY <1>1, <2>1 DEF Apart
  <1>8. DayCounts'
    BY CountsStay
  <1> QED
    BY <1>3, <1>4, <1>5, <1>6, <1>7, <1>8 DEF RepInv

LEMMA RepStays == ASSUME RepInv, UNCHANGED <<hour, saved, dispatches, lastSent, delivered>> PROVE RepInv'
  <1>1. RepTyped /\ DispatchesTyped /\ DeliveredTyped /\ SentBefore /\ Apart /\ SpacedOut /\ DayCounts
    BY DEF RepInv
  <1>2. RepTyped' /\ DispatchesTyped' /\ DeliveredTyped'
    BY <1>1 DEF RepTyped, DispatchesTyped, DeliveredTyped
  <1>3. SentBefore' /\ Apart' /\ SpacedOut'
    BY <1>1 DEF SentBefore, Apart, SpacedOut
  <1>4. DayCounts'
    BY <1>1 DEF DayCounts, Listed, Executions
  <1> QED
    BY <1>2, <1>3, <1>4 DEF RepInv

LEMMA EndIterationKeeps == RepInv /\ EndIteration => RepInv'
  <1> SUFFICES ASSUME RepInv, EndIteration PROVE RepInv'
    OBVIOUS
  <1>1. UNCHANGED <<hour, dispatches, lastSent, delivered>>
    BY DEF EndIteration
  <1>2. CASE UNCHANGED saved
    BY <1>1, <1>2, RepStays
  <1>3. CASE saved' = Saved("execution", 1)
    <2> DEFINE x == [kind |-> "execution", hour |-> hour, loops |-> 1]
    <2>1. x \in RepRecords /\ x.kind = "execution"
      BY DEF RepRecords, RepInv, RepTyped, Kinds
    <2>2. saved' = Append(saved, x)
      BY <1>3 DEF Saved
    <2> HIDE DEF x
    <2> QED
      BY <1>1, <2>1, <2>2, SavingKeeps
  <1> QED
    BY <1>2, <1>3 DEF EndIteration

LEMMA TodayCounts == RepInv => LoopsToday \in Nat
  <1> SUFFICES ASSUME RepInv PROVE LoopsToday \in Nat
    OBVIOUS
  <1>1. saved \in Seq(RepRecords)
    BY DEF RepInv, RepTyped
  <1>2. 1 \in Int /\ Len(saved) \in Int /\ DOMAIN saved = 1 .. Len(saved)
    BY <1>1
  <1>3. IsFiniteSet(1 .. Len(saved))
    BY <1>2, FS_Interval
  <1> DEFINE S == {i \in Listed({"execution"}) : DayOf(saved[i].hour) = DayOf(hour)}
  <1>4. S \in SUBSET (1 .. Len(saved))
    BY <1>2 DEF Listed
  <1> HIDE DEF S
  <1>5. Cardinality(S) \in Nat
    BY <1>3, <1>4, FS_Subset, FS_CardinalityType
  <1> QED
    BY <1>5 DEF LoopsToday, S

LEMMA DailyKeeps == RepInv /\ DailySummary => RepInv'
  <1> SUFFICES ASSUME RepInv, DailySummary PROVE RepInv'
    OBVIOUS
  <1> DEFINE x == [kind |-> "daily", hour |-> hour, loops |-> LoopsToday]
  <1>1. UNCHANGED <<hour, dispatches, lastSent, delivered>> /\ saved' = Append(saved, x)
    BY DEF DailySummary, Saved
  <1>2. x \in RepRecords /\ x.loops = LoopsToday /\ x.hour = hour
    BY TodayCounts DEF RepRecords, RepInv, RepTyped, Kinds
  <1> HIDE DEF x
  <1> QED
    BY <1>1, <1>2, SavingKeeps

LEMMA NotifyKeeps == ASSUME RepInv, NEW t \in Notices, Notify(t) PROVE RepInv'
  <1>1. UNCHANGED <<hour, lastSent, delivered>>
    BY DEF Notify
  <1>2. CASE UNCHANGED <<saved, dispatches>>
    BY <1>1, <1>2, RepStays
  <1>3. CASE saved' = Saved(t, 0) /\ dispatches' = dispatches \cup {Dispatch(Len(saved) + 1, 1)}
    <2> DEFINE x == [kind |-> t, hour |-> hour, loops |-> 0]
               d == Dispatch(Len(saved) + 1, 1)
    <2>1. x \in RepRecords /\ x.kind = t /\ t # "daily"
      BY DEF RepRecords, RepInv, RepTyped, Kinds
    <2>2. saved' = Append(saved, x)
      BY <1>3 DEF Saved
    <2>3. d.report = Len(saved) + 1 /\ d.channel = 1 /\ d.since = -1
      BY DEF Dispatch
    <2>4. 1 \in 1 .. Len(Channels) + 1
      OBVIOUS
    <2> HIDE DEF x, d
    <2>5. dispatches' = dispatches \cup {d}
      BY <1>3 DEF d
    <2> QED
      BY <1>1, <2>1, <2>2, <2>3, <2>4, <2>5, SavingKeeps
  <1> QED
    BY <1>2, <1>3 DEF Notify

\* The next channel is asked, or passed over.
LEMMA MovesKeep ==
  ASSUME RepInv, NEW d \in dispatches, UNCHANGED <<hour, saved, lastSent, delivered>>,
         \A e \in dispatches' : e \in dispatches \/
             (/\ e.report = d.report /\ e.channel \in 1 .. Len(Channels) + 1
              /\ (e.since = -1 \/ (e.since = hour /\ e.channel <= Len(Channels) /\ ~IsCooldown(TypeOfReport(d)))))
  PROVE  RepInv'
  <1>1. RepTyped /\ DispatchesTyped /\ DeliveredTyped /\ SentBefore /\ Apart /\ SpacedOut /\ DayCounts
    BY DEF RepInv
  <1>2. hour \in Nat
    BY <1>1 DEF RepTyped, Hourly
  <1>3. RepTyped' /\ DeliveredTyped' /\ SentBefore' /\ SpacedOut' /\ DayCounts'
    BY <1>1 DEF RepTyped, DeliveredTyped, SentBefore, SpacedOut, DayCounts, Listed, Executions
  <1>4. DispatchesTyped'
    <2>1. -1 \in -1 .. hour /\ hour \in -1 .. hour
      BY <1>2
    <2> QED
      BY <1>1, <2>1 DEF DispatchesTyped
  <1>5. Apart'
    <2> SUFFICES ASSUME NEW e \in dispatches', e.since # -1, NEW a \in delivered,
                        saved[a.report].kind = saved[e.report].kind, a.to < e.since
                 PROVE  e.since - a.to >= Cooldown[saved[e.report].kind]
      BY DEF Apart
    <2>1. CASE e \in dispatches
      BY <1>1, <2>1 DEF Apart
    <2>2. CASE e \notin dispatches
      <3> DEFINE t == saved[e.report].kind
      <3>1. e.report = d.report /\ e.since = hour /\ ~IsCooldown(t)
        BY <2>2 DEF TypeOfReport
      <3>2. t \in Notices /\ Cooldown[t] \in Nat /\ lastSent[t] \in -1 .. MaxHour
        BY <1>1, <3>1 DEF DispatchesTyped, RepTyped
      <3>3. a.to \in Nat /\ a.to <= lastSent[t]
        BY <1>1, <1>2 DEF DeliveredTyped
      <3> HIDE DEF t
      <3>4. Cooldown[t] = 0 \/ hour - lastSent[t] >= Cooldown[t]
        BY <1>2, <3>1, <3>2, <3>3 DEF IsCooldown
      <3>5. hour - a.to >= Cooldown[t]
        BY <1>2, <3>1, <3>2, <3>3, <3>4
      <3> QED
        BY <3>1, <3>5 DEF t
    <2> QED
      BY <2>1, <2>2
  <1> QED
    BY <1>3, <1>4, <1>5 DEF RepInv

LEMMA ChannelKeeps == ASSUME RepInv, NEW d \in dispatches, AtChannel(d) PROVE RepInv'
  <1> DEFINE t == TypeOfReport(d)
             e == Dispatch(d.report, d.channel + 1)
             f == [d EXCEPT !.since = hour]
  <1>1. UNCHANGED <<hour, saved, lastSent, delivered>> /\ d.channel <= Len(Channels) /\ d.since = -1
    BY DEF AtChannel
  <1>2. d.channel \in 1 .. Len(Channels) + 1 /\ Len(Channels) \in Nat /\ d.report \in DOMAIN saved
    BY DEF RepInv, DispatchesTyped
  <1>3. e.report = d.report /\ e.channel \in 1 .. Len(Channels) + 1 /\ e.since = -1
    BY <1>1, <1>2 DEF Dispatch
  <1>4. \/ dispatches' = (dispatches \ {d}) \cup {e}
        \/ dispatches' = (dispatches \ {d}) \cup {f} /\ ~IsCooldown(t)
    BY DEF AtChannel
  <1>5. f.report = d.report /\ f.channel = d.channel /\ (f.since = hour \/ f.since = -1)
    BY <1>1
  <1> HIDE DEF e, f, t
  <1> QED
    BY <1>1, <1>2, <1>3, <1>4, <1>5, MovesKeep DEF t

LEMMA AnswerKeeps == ASSUME RepInv, NEW d \in dispatches, ChannelAnswers(d) PROVE RepInv'
  <1>1. RepTyped /\ DispatchesTyped /\ DeliveredTyped /\ SentBefore /\ Apart /\ SpacedOut /\ DayCounts
    BY DEF RepInv
  <1> DEFINE e == Dispatch(d.report, d.channel + 1)
             x == [report |-> d.report, channel |-> d.channel, from |-> d.since, to |-> hour]
             t == saved[d.report].kind
  <1>2. UNCHANGED <<hour, saved>> /\ d.since # -1 /\ dispatches' = (dispatches \ {d}) \cup {e}
    BY DEF ChannelAnswers
  <1>3. /\ d.channel \in 1 .. Len(Channels) + 1 /\ d.report \in DOMAIN saved /\ d.since \in -1 .. hour
        /\ t \in Notices /\ hour \in Nat /\ hour \in 0 .. MaxHour
    BY <1>1 DEF DispatchesTyped, RepTyped, Hourly
  <1>4. e.report = d.report /\ e.channel = d.channel + 1 /\ e.since = -1
    BY DEF Dispatch
  <1>5. x.report = d.report /\ x.from = d.since /\ x.to = hour
    OBVIOUS
  <1>6. \/ delivered' = delivered \cup {x} /\ lastSent' = [lastSent EXCEPT ![t] = hour]
        \/ UNCHANGED <<lastSent, delivered>>
    BY DEF ChannelAnswers, MarksSent, TypeOfReport
  <1>7. d.channel <= Len(Channels)
    <2>1. Len(Channels) \in Nat
      OBVIOUS
    <2> QED
      BY <1>1, <1>2, <1>3, <2>1 DEF DispatchesTyped
  <1> HIDE DEF e, x, t
  <1>8. e.channel \in 1 .. Len(Channels) + 1
    <2>1. Len(Channels) \in Nat
      OBVIOUS
    <2> QED
      BY <1>3, <1>4, <1>7, <2>1
  <1>9. CASE UNCHANGED <<lastSent, delivered>>
    BY <1>2, <1>4, <1>8, <1>9, MovesKeep
  <1>10. CASE delivered' = delivered \cup {x} /\ lastSent' = [lastSent EXCEPT ![t] = hour]
    <2>1. lastSent' \in [Notices -> -1 .. MaxHour] /\ lastSent'[t] = hour
          /\ \A u \in Notices : u # t => lastSent'[u] = lastSent[u]
      <3>1. hour \in -1 .. MaxHour
        BY <1>3
      <3> QED
        BY <1>1, <1>3, <1>10, <3>1 DEF RepTyped
    <2>2. RepTyped' /\ DayCounts'
      BY <1>1, <1>2, <2>1 DEF RepTyped, DayCounts, Listed, Executions
    <2>3. SentBefore'
      <3> SUFFICES ASSUME NEW u \in Notices PROVE lastSent'[u] <= hour'
        BY DEF SentBefore
      <3>1. CASE u = t
        BY <1>2, <1>3, <2>1, <3>1
      <3>2. CASE u # t
        BY <1>1, <1>2, <2>1, <3>2 DEF SentBefore
      <3> QED
        BY <3>1, <3>2
    <2>4. \A u \in Notices : lastSent[u] <= lastSent'[u]
      <3>1. \A u \in Notices : lastSent[u] \in Int
        BY <1>1 DEF RepTyped
      <3> QED
        BY <1>1, <2>1, <3>1 DEF SentBefore
    <2>5. DeliveredTyped'
      <3> SUFFICES ASSUME NEW a \in delivered'
                   PROVE  /\ a.report \in DOMAIN saved /\ saved[a.report].kind \in Notices
                          /\ a.from \in 0 .. hour /\ a.to \in 0 .. hour
                          /\ a.to <= lastSent'[saved[a.report].kind]
        BY <1>2 DEF DeliveredTyped
      <3>1. CASE a = x
        <4>1. a.report \in DOMAIN saved /\ saved[a.report].kind = t
          BY <1>3, <1>5, <3>1 DEF t
        <4> QED
          BY <1>2, <1>3, <1>5, <2>1, <3>1, <4>1
      <3>2. CASE a \in delivered
        <4> DEFINE u == saved[a.report].kind
        <4>1. /\ a.report \in DOMAIN saved /\ u \in Notices
              /\ a.from \in 0 .. hour /\ a.to \in 0 .. hour /\ a.to <= lastSent[u]
          BY <1>1, <3>2 DEF DeliveredTyped
        <4>2. lastSent[u] \in Int /\ lastSent'[u] \in Int /\ lastSent[u] <= lastSent'[u]
          BY <1>1, <2>1, <2>4, <4>1 DEF RepTyped
        <4> HIDE DEF u
        <4>3. a.to <= lastSent'[u]
          BY <4>1, <4>2
        <4> QED
          BY <4>1, <4>3 DEF u
      <3> QED
        BY <1>10, <3>1, <3>2
    <2>6. DispatchesTyped'
      <3>1. -1 \in -1 .. hour
        BY <1>3
      <3> QED
        BY <1>1, <1>2, <1>3, <1>4, <1>8, <3>1 DEF DispatchesTyped, t
    <2>7. \A f \in dispatches : f.since \in -1 .. hour
      BY <1>1 DEF DispatchesTyped
    <2>8. Apart'
      <3> SUFFICES ASSUME NEW f \in dispatches', f.since # -1, NEW a \in delivered',
                          saved[a.report].kind = saved[f.report].kind, a.to < f.since
                   PROVE  f.since - a.to >= Cooldown[saved[f.report].kind]
        BY <1>2 DEF Apart
      <3>1. f \in dispatches
        BY <1>2, <1>4
      <3>2. a # x
        BY <1>3, <1>5, <2>7, <3>1
      <3> QED
        BY <1>1, <1>10, <3>1, <3>2 DEF Apart
    <2>9. SpacedOut'
      <3> SUFFICES ASSUME NEW a \in delivered', NEW b \in delivered',
                          saved[a.report].kind = saved[b.report].kind, a # b, a.to < b.from
                   PROVE  b.from - a.to >= Cooldown[saved[a.report].kind]
        BY <1>2 DEF SpacedOut
      <3>1. b.from \in 0 .. hour
        BY <1>2, <2>5 DEF DeliveredTyped
      <3>2. a \in delivered
        BY <1>3, <1>5, <1>10, <3>1
      <3>3. CASE b = x
        BY <1>1, <1>2, <1>5, <3>2, <3>3 DEF Apart
      <3>4. CASE b \in delivered
        BY <1>1, <3>2, <3>4 DEF SpacedOut
      <3> QED
        BY <1>10, <3>3, <3>4
    <2> QED
      BY <2>2, <2>3, <2>5, <2>6, <2>8, <2>9 DEF RepInv
  <1> QED
    BY <1>6, <1>9, <1>10

LEMMA PluginsKeep == ASSUME RepInv, NEW d \in dispatches, ToPlugins(d) PROVE RepInv'
  BY MovesKeep DEF ToPlugins

LEMMA TickKeeps == RepInv /\ Tick => RepInv'
  <1> SUFFICES ASSUME RepInv, Tick PROVE RepInv'
    OBVIOUS
  <1>1. RepTyped /\ DispatchesTyped /\ DeliveredTyped /\ SentBefore /\ Apart /\ SpacedOut /\ DayCounts
    BY DEF RepInv
  <1>2. hour < MaxHour /\ hour' = hour + 1 /\ UNCHANGED <<saved, dispatches, lastSent, delivered>>
    BY DEF Tick
  <1>3. hour \in Nat /\ hour' \in Hourly
    BY <1>1, <1>2 DEF RepTyped, Hourly
  <1>4. RepTyped' /\ Apart' /\ SpacedOut'
    BY <1>1, <1>2, <1>3 DEF RepTyped, Apart, SpacedOut
  <1>5. DayCounts'
    BY <1>1, <1>2 DEF DayCounts, Listed, Executions
  <1>6. DispatchesTyped' /\ DeliveredTyped'
    <2>1. \A h \in -1 .. hour : h \in -1 .. hour'
      BY <1>2, <1>3
    <2>2. \A h \in 0 .. hour : h \in 0 .. hour'
      BY <1>2, <1>3
    <2> QED
      BY <1>1, <1>2, <2>1, <2>2 DEF DispatchesTyped, DeliveredTyped
  <1>7. SentBefore'
    <2>1. \A t \in Notices : lastSent[t] \in Int
      BY <1>1 DEF RepTyped
    <2> QED
      BY <1>1, <1>2, <1>3, <2>1 DEF SentBefore
  <1> QED
    BY <1>4, <1>5, <1>6, <1>7 DEF RepInv

LEMMA RestartKeeps == RepInv /\ RepRestart => RepInv'
  <1> SUFFICES ASSUME RepInv, RepRestart PROVE RepInv'
    OBVIOUS
  <1>1. RepTyped /\ DayCounts
    BY DEF RepInv
  <1>2. /\ dispatches' = {} /\ lastSent' = [t \in Notices |-> -1] /\ delivered' = {}
        /\ UNCHANGED <<hour, saved>>
    BY DEF RepRestart
  <1>3. RepTyped'
    <2>1. -1 \in -1 .. MaxHour
      OBVIOUS
    <2>2. lastSent' \in [Notices -> -1 .. MaxHour]
      BY <1>2, <2>1
    <2> QED
      BY <1>1, <1>2, <2>2 DEF RepTyped
  <1>4. DayCounts'
    BY <1>1, <1>2 DEF DayCounts, Listed, Executions
  <1>5. DispatchesTyped' /\ DeliveredTyped' /\ Apart' /\ SpacedOut'
    BY <1>2 DEF DispatchesTyped, DeliveredTyped, Apart, SpacedOut
  <1>6. SentBefore'
    BY <1>1, <1>2 DEF SentBefore, RepTyped, Hourly
  <1> QED
    BY <1>3, <1>4, <1>5, <1>6 DEF RepInv

LEMMA RepKeeps == RepInv /\ [SummaryStep \/ NoticeStep]_repVars => RepInv'
  <1> SUFFICES ASSUME RepInv, [SummaryStep \/ NoticeStep]_repVars PROVE RepInv'
    OBVIOUS
  <1>1. CASE UNCHANGED repVars
    BY <1>1, RepStays DEF repVars
  <1> QED
    BY <1>1, EndIterationKeeps, DailyKeeps, NotifyKeeps, ChannelKeeps, AnswerKeeps, PluginsKeep, TickKeeps, RestartKeeps
       DEF SummaryStep, NoticeStep

LEMMA RepTypes == RepInv => RepTypeOK /\ SpacedOut
  <1> SUFFICES ASSUME RepInv PROVE RepTypeOK /\ SpacedOut
    OBVIOUS
  <1>1. RepTyped /\ DispatchesTyped /\ SpacedOut
    BY DEF RepInv
  <1>2. hour \in 0 .. MaxHour /\ lastSent \in [Notices -> -1 .. MaxHour]
    BY <1>1 DEF RepTyped, Hourly
  <1>3. saved \in Seq(RepRecords)
    BY <1>1 DEF RepTyped
  <1>4. \A i \in DOMAIN saved : saved[i].kind \in Kinds /\ saved[i].loops \in Nat
    <2>1. \A i \in DOMAIN saved : saved[i] \in RepRecords
      BY <1>3
    <2> QED
      BY <2>1 DEF RepRecords
  <1>5. \A d \in dispatches : d.report \in DOMAIN saved /\ d.channel \in 1 .. Len(Channels) + 1
    BY <1>1 DEF DispatchesTyped
  <1>6. \A i \in DOMAIN saved : saved[i].kind \in Kinds
    BY <1>4
  <1>7. RepTypeOK
    BY <1>2, <1>5, <1>6, Zenon DEF RepTypeOK
  <1> QED
    BY <1>1, <1>7

\* A sum over days that were each reported once counts no loop twice.
LEMMA WeekCounts == RepInv => SumsAgree
  <1> SUFFICES ASSUME RepInv, OncePerDay PROVE WeeklyLoops <= Cardinality(Listed({"execution"}))
    BY DEF RepInv, DayCounts, SumsAgree
  <1>1. saved \in Seq(RepRecords) /\ DayCounts
    BY DEF RepInv, RepTyped
  <1> DEFINE A == 1 .. Len(saved)
             W == WithinWeek
             X == Listed({"execution"})
             E(i) == {j \in Executions(saved[i].hour) : j < i}
             U(Q) == {j \in X : \E i \in Q : j \in E(i)}
             w == [i \in W |-> saved[i].loops]
  <1>2. DOMAIN saved = A /\ IsFiniteSet(A)
    <2>1. 1 \in Int /\ Len(saved) \in Int /\ DOMAIN saved = A
      BY <1>1
    <2> QED
      BY <2>1, FS_Interval
  <1>3. W \in SUBSET A /\ X \in SUBSET A /\ W \subseteq Listed({"daily"})
    BY <1>2 DEF WithinWeek, Listed
  <1>4. IsFiniteSet(W) /\ IsFiniteSet(X)
    <2> HIDE DEF A, W, X
    <2> QED
      BY <1>2, <1>3, FS_Subset
  <1>5. w \in [W -> Nat]
    <2>1. \A i \in A : saved[i].loops \in Nat
      <3>1. \A i \in A : saved[i] \in RepRecords
        BY <1>1, <1>2
      <3> QED
        BY <3>1 DEF RepRecords
    <2>2. \A i \in W : saved[i].loops \in Nat
      <3> HIDE DEF A, W
      <3> QED
        BY <1>3, <2>1
    <2> HIDE DEF W
    <2> QED
      BY <2>2
  <1>6. \A i \in W : w[i] = Cardinality(E(i)) /\ E(i) \in SUBSET X
    BY <1>1, <1>3 DEF DayCounts, Executions
  <1>7. \A i, k \in W : i # k => E(i) \cap E(k) = {}
    <2>1. \A i, k \in W : i # k => DayOf(saved[i].hour) # DayOf(saved[k].hour)
      BY DEF OncePerDay
    <2> QED
      BY <2>1 DEF Executions
  <1>8. /\ Total(w, {}) = 0
        /\ \A Q \in SUBSET W : Total(w, Q) \in Nat
        /\ \A Q \in SUBSET W : \A i \in Q : Total(w, Q) = w[i] + Total(w, Q \ {i})
    <2> HIDE DEF W, w
    <2> QED
      BY <1>4, <1>5, Sums
  <1>9. \A Q \in SUBSET W : Total(w, Q) <= Cardinality(U(Q))
    <2> DEFINE T == {Q \in SUBSET W : ~(Total(w, Q) <= Cardinality(U(Q)))}
    <2> SUFFICES ASSUME T # {} PROVE FALSE
      OBVIOUS
    <2>1. PICK s \in T : \A t \in T : t \subseteq s => t = s
      <3>1. T \in SUBSET SUBSET W
        OBVIOUS
      <3> HIDE DEF T, W
      <3> QED
        BY <1>4, <3>1, SmallestSet
    <2>2. s \in SUBSET W /\ ~(Total(w, s) <= Cardinality(U(s)))
      OBVIOUS
    <2>3. \A Q : U(Q) \in SUBSET X
      OBVIOUS
    <2>4. \A Q : IsFiniteSet(U(Q)) /\ Cardinality(U(Q)) \in Nat
      <3> HIDE DEF U, X
      <3> QED
        BY <1>4, <2>3, FS_Subset, FS_CardinalityType
    <2>5. s # {}
      <3> SUFFICES ASSUME s = {} PROVE FALSE
        OBVIOUS
      <3> DEFINE us == U(s)
                 n == Cardinality(us)
                 m == Total(w, s)
      <3>1. m = 0
        BY <1>8
      <3>2. n \in Nat /\ ~(m <= n)
        BY <2>2, <2>4
      <3> HIDE DEF us, n, m
      <3> QED
        BY <3>1, <3>2
    <2>6. PICK i \in s : TRUE
      BY <2>5
    <2> DEFINE r == s \ {i}
    <2>7. r \in SUBSET W /\ r # s /\ i \in W /\ r \notin T
      BY <2>1, <2>2, <2>6
    <2>8. Total(w, r) <= Cardinality(U(r))
      BY <2>7
    <2>9. U(s) = U(r) \cup E(i)
      BY <1>6, <2>6, <2>7
    <2>10. U(r) \cap E(i) = {}
      BY <1>7, <2>2, <2>7
    <2>11. Total(w, s) = w[i] + Total(w, r) /\ Total(w, r) \in Nat
      <3> HIDE DEF W, w
      <3> QED
        BY <1>8, <2>2, <2>6, <2>7
    <2>12. w[i] = Cardinality(E(i)) /\ IsFiniteSet(E(i)) /\ Cardinality(E(i)) \in Nat
      <3>1. w[i] = Cardinality(E(i)) /\ E(i) \in SUBSET X
        BY <1>6, <2>7
      <3> HIDE DEF E, X, w
      <3> QED
        BY <1>4, <3>1, FS_Subset, FS_CardinalityType
    <2>13. Cardinality(U(s)) = Cardinality(U(r)) + Cardinality(E(i))
      <3> DEFINE us == U(s)
                 ur == U(r)
                 ei == E(i)
      <3>1. us = ur \cup ei /\ ur \cap ei = {}
        BY <2>9, <2>10
      <3>2. IsFiniteSet(ur) /\ IsFiniteSet(ei) /\ Cardinality(ur) \in Nat /\ Cardinality(ei) \in Nat
        BY <2>4, <2>12
      <3>3. Cardinality(us) = Cardinality(ur) + Cardinality(ei)
        <4> HIDE DEF us, ur, ei
        <4>1. Cardinality(ur \cup ei) = Cardinality(ur) + Cardinality(ei) - Cardinality(ur \cap ei)
          BY <3>2, FS_Union
        <4>2. Cardinality({}) = 0
          BY FS_EmptySet
        <4>3. Cardinality(ur) \in Nat /\ Cardinality(ei) \in Nat
          BY <3>2
        <4>4. Cardinality(us) = Cardinality(ur) + Cardinality(ei) - 0
          BY <3>1, <4>1, <4>2, Zenon
        <4> QED
          BY <4>3, <4>4
      <3> QED
        BY <3>3
    <2> HIDE DEF U, E, w, r
    <2> QED
      BY <2>2, <2>4, <2>8, <2>11, <2>12, <2>13
  <1>10. WeeklyLoops = Total(w, W)
    <2> DEFINE B(f, i) == f = [Q \in SUBSET W |-> IF Q = {} THEN 0 ELSE saved[Some(Q)].loops + f[Q \ {Some(Q)}]]
               g == CHOOSE f : B(f, W)
    <2>1. \A f : B(f, W) <=> Adds(f, w, W)
      <3> SUFFICES ASSUME NEW f
                   PROVE  [Q \in SUBSET W |-> IF Q = {} THEN 0 ELSE saved[Some(Q)].loops + f[Q \ {Some(Q)}]]
                          = [Q \in SUBSET W |-> IF Q = {} THEN 0 ELSE w[Some(Q)] + f[Q \ {Some(Q)}]]
        BY DEF Adds
      <3>1. \A Q \in SUBSET W : Q # {} => w[Some(Q)] = saved[Some(Q)].loops
        BY DEF Some
      <3> HIDE DEF w, W
      <3> QED
        BY <3>1
    <2>2. WeeklyLoops = g[W]
      BY DEF WeeklyLoops, MapThenSumSet, MapThenFoldSet, Some
    <2>3. PICK h : Adds(h, w, W)
      <3> HIDE DEF W, w
      <3> QED
        BY <1>4, <1>5, AddsExists
    <2> DEFINE k == CHOOSE f : Adds(f, w, W)
    <2>4. Adds(k, w, W)
      <3> HIDE DEF W, w
      <3> QED
        BY <2>3
    <2>5. Adds(g, w, W)
      <3>1. B(g, W)
        <4> HIDE DEF B, w, W
        <4> QED
          BY <2>1, <2>3
      <3> HIDE DEF B, g, w, W
      <3> QED
        BY <2>1, <3>1
    <2>6. Total(w, W) = k[W]
      <3> HIDE DEF w, W
      <3> QED
        BY TotalIs
    <2>7. g[W] = k[W]
      <3>1. W \in SUBSET W
        OBVIOUS
      <3> HIDE DEF g, k, w, W
      <3> QED
        BY <1>4, <2>4, <2>5, <3>1, AddsUnique
    <2> HIDE DEF g, k, w, W
    <2> QED
      BY <2>2, <2>6, <2>7
  <1>11. U(W) \in SUBSET X
    OBVIOUS
  <1>12. Cardinality(U(W)) <= Cardinality(X) /\ Cardinality(X) \in Nat /\ Cardinality(U(W)) \in Nat
    <2> HIDE DEF U, X
    <2> QED
      BY <1>4, <1>11, FS_Subset, FS_CardinalityType
  <1>13. Total(w, W) <= Cardinality(U(W)) /\ Total(w, W) \in Nat
    <2>1. W \in SUBSET W
      OBVIOUS
    <2> HIDE DEF U, X, w, W
    <2> QED
      BY <1>8, <1>9, <2>1
  <1> HIDE DEF U, w, W
  <1> QED
    BY <1>10, <1>12, <1>13

HIDE ReportsAssumption DEF ReportsAssumption

-----------------------------------------------------------------------------
(* The log file *)

USE LogFileAssumption DEF LogFileAssumption

Numbers == Seq(Nat)
Rotations == [type : {"none", "date", "size"}, day : Nat,
              at : {"flush", "unlink", "shift", "rename", "open"}, i : Nat]
Memories == [buffer : Numbers, queue : Numbers, size : Nat, hadData : BOOLEAN, lastDate : Nat,
             rotation : Rotations, errored : BOOLEAN, stat : {"asked", "read", "done"}, seen : Nat]

\* Lines in one text before those of another.
LEMMA RangeOf ==
  /\ Range(<<>>) = {}
  /\ \A s \in Numbers : Range(s) \subseteq Nat /\ Range(s) = {s[i] : i \in DOMAIN s}
  /\ \A s \in Numbers, x \in Nat : Range(Append(s, x)) = Range(s) \cup {x}
  /\ \A s \in Numbers : s # <<>> => /\ Head(s) \in Nat /\ Tail(s) \in Numbers
                                    /\ Range(s) = {Head(s)} \cup Range(Tail(s))
  <1>1. Range(<<>>) = {}
    BY DEF Range
  <1>2. \A s \in Numbers : Range(s) \subseteq Nat /\ Range(s) = {s[i] : i \in DOMAIN s}
    BY DEF Range, Numbers
  <1>3. ASSUME NEW s \in Numbers, NEW x \in Nat PROVE Range(Append(s, x)) = Range(s) \cup {x}
    <2> DEFINE t == Append(s, x)
    <2>1. Len(s) \in Nat /\ DOMAIN s = 1 .. Len(s) /\ DOMAIN t = 1 .. Len(s) + 1
      BY DEF Numbers
    <2>2. t[Len(s) + 1] = x /\ \A i \in 1 .. Len(s) : t[i] = s[i]
      BY DEF Numbers
    <2> HIDE DEF t
    <2>3. Range(t) \subseteq Range(s) \cup {x}
      BY <2>1, <2>2 DEF Range
    <2>4. x \in Range(t) /\ Range(s) \subseteq Range(t)
      <3>1. Len(s) + 1 \in DOMAIN t /\ \A i \in DOMAIN s : i \in DOMAIN t /\ t[i] = s[i]
        BY <2>1, <2>2
      <3> QED
        BY <2>2, <3>1 DEF Range
    <2> QED
      BY <2>3, <2>4 DEF t
  <1>4. ASSUME NEW s \in Numbers, s # <<>>
        PROVE  Head(s) \in Nat /\ Tail(s) \in Numbers /\ Range(s) = {Head(s)} \cup Range(Tail(s))
    <2> DEFINE t == Tail(s)
    <2>1. /\ Len(s) \in Nat /\ Len(s) # 0 /\ DOMAIN s = 1 .. Len(s)
          /\ Head(s) \in Nat /\ Head(s) = s[1] /\ t \in Numbers
      BY <1>4 DEF Numbers
    <2>2. DOMAIN t = 1 .. Len(s) - 1 /\ \A i \in 1 .. Len(s) - 1 : t[i] = s[i + 1]
      BY <1>4 DEF Numbers
    <2> HIDE DEF t
    <2>3. Range(t) \subseteq Range(s) /\ s[1] \in Range(s)
      <3>1. 1 \in DOMAIN s /\ \A i \in DOMAIN t : i + 1 \in DOMAIN s /\ t[i] = s[i + 1]
        BY <2>1, <2>2
      <3> QED
        BY <3>1 DEF Range
    <2>4. ASSUME NEW i \in DOMAIN s PROVE s[i] \in {s[1]} \cup Range(t)
      <3>1. CASE i = 1
        BY <3>1
      <3>2. CASE i # 1
        <4>1. i - 1 \in DOMAIN t /\ t[i - 1] = s[i]
          BY <2>1, <2>2, <3>2
        <4> QED
          BY <4>1 DEF Range
      <3> QED
        BY <3>1, <3>2
    <2>5. Range(s) \subseteq {s[1]} \cup Range(t)
      BY <2>4 DEF Range
    <2> QED
      BY <2>1, <2>3, <2>5 DEF t
  <1> QED
    BY <1>1, <1>2, <1>3, <1>4

LEMMA RisingMore ==
  ASSUME NEW s \in Numbers, Increasing(s), NEW x \in Nat, \A y \in Range(s) : y < x
  PROVE  Increasing(Append(s, x))
  <1> DEFINE t == Append(s, x)
  <1>1. Len(s) \in Nat /\ DOMAIN s = 1 .. Len(s) /\ DOMAIN t = 1 .. Len(s) + 1
    BY DEF Numbers
  <1>2. t[Len(s) + 1] = x /\ \A i \in 1 .. Len(s) : t[i] = s[i] /\ s[i] < x
    BY <1>1 DEF Numbers, Range
  <1> HIDE DEF t
  <1>3. ASSUME NEW i \in DOMAIN t, NEW j \in DOMAIN t, i < j PROVE t[i] < t[j]
    <2>1. i \in 1 .. Len(s)
      BY <1>1, <1>3
    <2>2. CASE j \in 1 .. Len(s)
      BY <1>1, <1>2, <1>3, <2>1, <2>2 DEF Increasing
    <2>3. CASE j = Len(s) + 1
      BY <1>2, <2>1, <2>3
    <2> QED
      BY <1>1, <2>2, <2>3
  <1> QED
    BY <1>3 DEF Increasing, t

LEMMA RisingLess ==
  ASSUME NEW s \in Numbers, Increasing(s), s # <<>>
  PROVE  Increasing(Tail(s)) /\ \A y \in Range(Tail(s)) : Head(s) < y
  <1> DEFINE t == Tail(s)
  <1>1. Len(s) \in Nat /\ Len(s) # 0 /\ DOMAIN s = 1 .. Len(s) /\ Head(s) = s[1]
    BY DEF Numbers
  <1>2. DOMAIN t = 1 .. Len(s) - 1 /\ \A i \in 1 .. Len(s) - 1 : t[i] = s[i + 1]
    BY DEF Numbers
  <1> HIDE DEF t
  <1>3. ASSUME NEW i \in DOMAIN t, NEW j \in DOMAIN t, i < j PROVE t[i] < t[j]
    <2>1. i + 1 \in DOMAIN s /\ j + 1 \in DOMAIN s /\ i + 1 < j + 1
      BY <1>1, <1>2, <1>3
    <2> QED
      BY <1>2, <2>1 DEF Increasing
  <1>4. ASSUME NEW y \in Range(t) PROVE s[1] < y
    <2>1. PICK i \in DOMAIN t : y = t[i]
      BY DEF Range
    <2>2. i + 1 \in DOMAIN s /\ 1 \in DOMAIN s /\ 1 < i + 1 /\ y = s[i + 1]
      BY <1>1, <1>2, <2>1
    <2> QED
      BY <2>2 DEF Increasing
  <1> QED
    BY <1>1, <1>3, <1>4 DEF Increasing, t

\* A text that goes upwards has no more lines than its last line says.
LEMMA RisingLong ==
  ASSUME NEW s \in Numbers, Increasing(s), NEW n \in Nat, Range(s) \subseteq 1 .. n
  PROVE  Len(s) \in 0 .. n /\ \A i \in DOMAIN s : i <= s[i]
  <1>1. Len(s) \in Nat /\ DOMAIN s = 1 .. Len(s) /\ \A i \in DOMAIN s : s[i] \in 1 .. n
    BY DEF Numbers, Range
  <1>2. \A i \in DOMAIN s : i <= s[i]
    <2> DEFINE T == {i \in DOMAIN s : ~(i <= s[i])}
    <2> SUFFICES ASSUME T # {} PROVE FALSE
      OBVIOUS
    <2>1. T \in SUBSET (0 .. Len(s))
      BY <1>1
    <2>2. PICK i \in T : \A j \in T : i <= j
      <3> HIDE DEF T
      <3> QED
        BY <1>1, <2>1, LeastNumber
    <2>3. i \in DOMAIN s /\ s[i] < i
      BY <1>1
    <2>4. i # 1
      BY <1>1, <2>3
    <2>5. i - 1 \in DOMAIN s /\ i - 1 < i
      BY <1>1, <2>3, <2>4
    <2>6. i - 1 <= s[i - 1]
      <3>1. i - 1 \notin T
        <4> HIDE DEF T
        <4> QED
          BY <1>1, <2>2, <2>3, <2>5
      <3> QED
        BY <2>5, <3>1
    <2>7. s[i - 1] < s[i]
      BY <2>3, <2>5 DEF Increasing
    <2>8. s[i] \in Nat /\ s[i - 1] \in Nat /\ i \in Nat
      BY <1>1, <2>3, <2>5
    <2> HIDE DEF T
    <2> QED
      BY <2>3, <2>6, <2>7, <2>8
  <1>3. CASE Len(s) = 0
    BY <1>3
  <1>4. CASE Len(s) # 0
    <2>1. Len(s) \in DOMAIN s
      BY <1>1, <1>4
    <2> QED
      BY <1>1, <1>2, <2>1
  <1> QED
    BY <1>1, <1>2, <1>3, <1>4


\* Where a rotation in the memory m of a logger stands.
Turning(m) ==
    /\ m.rotation.type = "none" => m.queue = <<>>
    /\ m.rotation.type = "size" /\ m.rotation.at \in {"flush", "unlink"} => m.rotation.i = LogFiles - 1
    /\ m.rotation.type # "none" /\ m.rotation.at = "unlink" => m.rotation.type = "size" /\ m.rotation.i > 0
    /\ m.rotation.type # "none" /\ m.rotation.at = "shift" =>
          m.rotation.i \in 1 .. LogFiles - 1 /\ sized[m.rotation.i + 1] = <<>>
    /\ m.rotation.type = "date" =>
          /\ m.rotation.day \in Days /\ m.rotation.day < m.lastDate
          /\ m.rotation.at # "open" => \A d \in Days : dated[d] # <<>> => d < m.rotation.day

\* A file put aside for a day is of a day before the last that was written on.
Dates(m) ==
    /\ m.lastDate <= today
    /\ \A d \in Days : dated[d] # <<>> => d < today /\ (m.lastDate # NoDay => d < m.lastDate)

InOrder(m) == Increasing(m.buffer) /\ Increasing(m.queue) /\ Precedes(m.buffer, m.queue)

LEMMA RotationFor ==
  ASSUME NEW m \in Memories, today \in Nat
  PROVE  /\ CheckRotation(m) \in Rotations /\ CheckRotation(m).at = "flush"
         /\ CheckRotation(m).type = "size" => CheckRotation(m).i = LogFiles - 1
         /\ CheckRotation(m).type = "date" => /\ CheckRotation(m).day = m.lastDate
                                              /\ m.lastDate # NoDay /\ m.lastDate # today
  <1>1. LogFiles - 1 \in Nat /\ m.lastDate \in Nat /\ NoDay \in Nat
    BY DEF Memories, NoDay
  <1>2. NoRotation \in Rotations /\ NoRotation.at = "flush" /\ NoRotation.type = "none"
    BY DEF NoRotation, Rotations, NoDay
  <1> DEFINE r == [NoRotation EXCEPT !.type = "date", !.day = m.lastDate]
             z == [NoRotation EXCEPT !.type = "size", !.i = LogFiles - 1]
  <1>3. r \in Rotations /\ r.at = "flush" /\ r.type = "date" /\ r.day = m.lastDate
    BY <1>1 DEF NoRotation, Rotations
  <1>4. z \in Rotations /\ z.at = "flush" /\ z.type = "size" /\ z.i = LogFiles - 1
    BY <1>1 DEF NoRotation, Rotations, NoDay
  <1>5. \/ CheckRotation(m) = r /\ m.lastDate # NoDay /\ m.lastDate # today
        \/ CheckRotation(m) = NoRotation \/ CheckRotation(m) = z
    BY DEF CheckRotation
  <1> HIDE DEF r, z
  <1> QED
    BY <1>2, <1>3, <1>4, <1>5

\* What writeToFile() may do: queue the line, begin a rotation with it, drop it
\* after an error of the stream, or give it to the stream.
Queued(m, w, x) == /\ w.buffer = m.buffer /\ w.queue = Append(m.queue, x)
                   /\ w.size = m.size /\ w.lastDate = m.lastDate /\ w.rotation = m.rotation
                   /\ m.rotation.type # "none"
Begun(m, w, x) == /\ w.buffer = m.buffer /\ w.queue = Append(m.queue, x) /\ w.size = m.size
                  /\ w.lastDate = today /\ w.rotation = CheckRotation(m) /\ w.rotation.type # "none"
Dropped(m, w) == /\ w.buffer = m.buffer /\ w.queue = m.queue /\ w.size = m.size
                 /\ w.lastDate = today /\ w.rotation = m.rotation /\ m.rotation.type = "none"
Streamed(m, w, x) == /\ w.buffer = Append(m.buffer, x) /\ w.queue = m.queue /\ w.size = m.size + 1
                     /\ w.lastDate = today /\ w.rotation = m.rotation /\ m.rotation.type = "none"

LEMMA WriteDoes ==
  ASSUME NEW m \in Memories, NEW x \in Nat, today \in Nat, NEW w, w = WriteToFile(m, x)
  PROVE  /\ w \in Memories /\ w.stat = m.stat /\ w.seen = m.seen
         /\ Queued(m, w, x) \/ Begun(m, w, x) \/ Dropped(m, w) \/ Streamed(m, w, x)
  <1>1. /\ m.buffer \in Numbers /\ m.queue \in Numbers /\ m.size \in Nat /\ m.hadData \in BOOLEAN
        /\ m.lastDate \in Nat /\ m.rotation \in Rotations /\ m.errored \in BOOLEAN /\ m.seen \in Nat
        /\ m.stat \in {"asked", "read", "done"}
    BY DEF Memories
  <1>2. Append(m.buffer, x) \in Numbers /\ Append(m.queue, x) \in Numbers /\ m.size + 1 \in Nat
    BY <1>1 DEF Numbers
  <1>3. CheckRotation(m) \in Rotations
    BY RotationFor
  <1> DEFINE c == Checked(m)
  <1>4. /\ c \in Memories /\ c.buffer = m.buffer /\ c.queue = m.queue /\ c.size = m.size
        /\ c.lastDate = today /\ c.rotation = m.rotation /\ c.stat = m.stat /\ c.seen = m.seen
    <2>1. (m.hadData /\ m.lastDate \in {NoDay, today}) \in BOOLEAN
      OBVIOUS
    <2> DEFINE b == (m.hadData /\ m.lastDate \in {NoDay, today})
    <2>2. c = [m EXCEPT !.lastDate = today, !.hadData = b]
      BY DEF Checked
    <2> HIDE DEF b, c
    <2> QED
      BY <2>1, <2>2 DEF Memories, b
  <1> HIDE DEF c
  <1>5. CASE m.rotation.type # "none"
    <2>1. w = [m EXCEPT !.queue = Append(m.queue, x)]
      BY <1>5 DEF WriteToFile
    <2> DEFINE q == Append(m.queue, x)
    <2> HIDE DEF q
    <2>2. q \in Numbers /\ w = [m EXCEPT !.queue = q]
      BY <1>2, <2>1 DEF q
    <2>3. w \in Memories
      BY <2>2 DEF Memories
    <2>4. /\ w.stat = m.stat /\ w.seen = m.seen /\ w.buffer = m.buffer /\ w.queue = q
          /\ w.size = m.size /\ w.lastDate = m.lastDate /\ w.rotation = m.rotation
      BY <2>2 DEF Memories
    <2> QED
      BY <1>5, <2>3, <2>4 DEF Queued, q
  <1>6. CASE m.rotation.type = "none" /\ CheckRotation(m).type # "none"
    <2> DEFINE q == Append(c.queue, x)
               r == CheckRotation(m)
    <2>1. w = [c EXCEPT !.queue = q, !.rotation = r]
      BY <1>6 DEF WriteToFile, c
    <2>2. q \in Numbers /\ q = Append(m.queue, x) /\ r \in Rotations
      BY <1>2, <1>3, <1>4
    <2> HIDE DEF q, r
    <2>3. w \in Memories
      BY <1>4, <2>1, <2>2 DEF Memories
    <2>4. /\ w.stat = c.stat /\ w.seen = c.seen /\ w.buffer = c.buffer /\ w.queue = q
          /\ w.size = c.size /\ w.lastDate = c.lastDate /\ w.rotation = r
      BY <1>4, <2>1 DEF Memories
    <2> QED
      BY <1>4, <1>6, <2>2, <2>3, <2>4 DEF Begun, r
  <1>7. CASE m.rotation.type = "none" /\ CheckRotation(m).type = "none" /\ m.errored
    <2>1. w = c
      BY <1>7 DEF WriteToFile, c
    <2> QED
      BY <1>4, <1>7, <2>1 DEF Dropped
  <1>8. CASE m.rotation.type = "none" /\ CheckRotation(m).type = "none" /\ ~m.errored
    <2> DEFINE b == Append(c.buffer, x)
               z == c.size + 1
    <2>1. w = [c EXCEPT !.buffer = b, !.size = z, !.hadData = TRUE]
      BY <1>8 DEF WriteToFile, c
    <2>2. b \in Numbers /\ b = Append(m.buffer, x) /\ z \in Nat /\ z = m.size + 1
      BY <1>2, <1>4
    <2> HIDE DEF b, z
    <2>3. w \in Memories
      BY <1>4, <2>1, <2>2 DEF Memories
    <2>4. /\ w.stat = c.stat /\ w.seen = c.seen /\ w.buffer = b /\ w.queue = c.queue
          /\ w.size = z /\ w.lastDate = c.lastDate /\ w.rotation = c.rotation
      BY <1>4, <2>1 DEF Memories
    <2> QED
      BY <1>4, <1>8, <2>2, <2>3, <2>4 DEF Streamed
  <1> QED
    BY <1>5, <1>6, <1>7, <1>8

\* A memory m goes over to w with the line x: nothing of it is lost or changes its
\* place, and the line comes last, unless it is dropped.
Follows(m, w, x) ==
    /\ w \in Memories /\ Turning(w) /\ Dates(w) /\ InOrder(w)
    /\ Held(m) \subseteq Held(w) /\ Held(w) \subseteq Held(m) \cup {x}
    /\ Range(m.buffer) \subseteq Range(w.buffer)
    /\ w.size <= m.size + 1 /\ w.stat = m.stat /\ w.seen = m.seen

LEMMA WriteKeeps ==
  ASSUME NEW m \in Memories, NEW x \in Nat, today \in Days, dated \in [Days -> Numbers],
         Turning(m), Dates(m), InOrder(m), \A y \in Held(m) : y < x
  PROVE  Follows(m, WriteToFile(m, x), x)
  <1> DEFINE w == WriteToFile(m, x)
  <1> HIDE DEF w
  <1>1. today \in Nat /\ NoDay = 0
    BY DEF Days, NoDay
  <1>2. /\ w \in Memories /\ w.stat = m.stat /\ w.seen = m.seen
        /\ Queued(m, w, x) \/ Begun(m, w, x) \/ Dropped(m, w) \/ Streamed(m, w, x)
    BY <1>1, WriteDoes DEF w
  <1>3. m.buffer \in Numbers /\ m.queue \in Numbers /\ m.size \in Nat /\ m.lastDate \in Nat
    BY DEF Memories
  <1>4. /\ Range(Append(m.buffer, x)) = Range(m.buffer) \cup {x}
        /\ Range(Append(m.queue, x)) = Range(m.queue) \cup {x} /\ Range(<<>>) = {}
    BY <1>3, RangeOf
  <1>5. (\A y \in Range(m.buffer) : y < x) /\ (\A y \in Range(m.queue) : y < x)
    BY DEF Held
  <1>6. Increasing(Append(m.buffer, x)) /\ Increasing(Append(m.queue, x)) /\ Precedes(m.buffer, Append(m.queue, x))
    BY <1>3, <1>4, <1>5, RisingMore DEF InOrder, Precedes
  <1>7. ASSUME w.buffer = m.buffer, w.queue = Append(m.queue, x)
        PROVE  /\ InOrder(w) /\ Held(m) \subseteq Held(w) /\ Held(w) \subseteq Held(m) \cup {x}
               /\ Range(m.buffer) \subseteq Range(w.buffer)
    BY <1>4, <1>6, <1>7 DEF InOrder, Held
  <1>8. ASSUME Dates(m), w.lastDate = today PROVE Dates(w)
    BY <1>1, <1>8 DEF Dates
  <1>9. CASE Queued(m, w, x)
    <2>1. Turning(w)
      <3>1. w.rotation = m.rotation /\ w.lastDate = m.lastDate /\ m.rotation.type # "none"
        BY <1>9 DEF Queued
      <3> QED
        BY <3>1 DEF Turning
    <2>2. Dates(w)
      BY <1>9 DEF Dates, Queued
    <2>3. w.size <= m.size + 1
      BY <1>3, <1>9 DEF Queued
    <2> QED
      BY <1>2, <1>7, <1>9, <2>1, <2>2, <2>3 DEF Queued, Follows, w
  <1>10. CASE Begun(m, w, x)
    <2> DEFINE r == CheckRotation(m)
    <2>1. /\ r.at = "flush" /\ r.type # "none" /\ w.rotation = r /\ w.lastDate = today
          /\ r.type = "size" => r.i = LogFiles - 1
          /\ r.type = "date" => r.day = m.lastDate /\ m.lastDate # NoDay /\ m.lastDate # today
      BY <1>1, <1>10, RotationFor DEF Begun
    <2> HIDE DEF r
    <2>2. r.type = "date" => r.day \in Days /\ r.day < today /\ \A d \in Days : dated[d] # <<>> => d < r.day
      BY <1>1, <1>3, <2>1 DEF Dates, Days
    <2>3. Turning(w)
      BY <2>1, <2>2 DEF Turning
    <2>4. w.size <= m.size + 1
      BY <1>3, <1>10 DEF Begun
    <2> QED
      BY <1>2, <1>7, <1>8, <1>10, <2>1, <2>3, <2>4 DEF Begun, Follows, w
  <1>11. CASE Dropped(m, w)
    <2>1. w.rotation = m.rotation /\ m.rotation.type = "none" /\ m.queue = <<>> /\ w.queue = <<>> /\ w.lastDate = today
      BY <1>11 DEF Dropped, Turning
    <2>2. Turning(w)
      BY <2>1 DEF Turning
    <2>3. w.size <= m.size + 1 /\ w.buffer = m.buffer /\ w.queue = m.queue
      BY <1>3, <1>11 DEF Dropped
    <2>4. InOrder(w) /\ Held(w) = Held(m)
      BY <2>3 DEF InOrder, Held
    <2> QED
      BY <1>2, <1>8, <2>1, <2>2, <2>3, <2>4 DEF Follows, w
  <1>12. CASE Streamed(m, w, x)
    <2>1. w.rotation = m.rotation /\ m.rotation.type = "none" /\ m.queue = <<>> /\ w.queue = <<>> /\ w.lastDate = today
      BY <1>12 DEF Streamed, Turning
    <2>2. Turning(w)
      BY <2>1 DEF Turning
    <2>3. w.size <= m.size + 1 /\ w.buffer = Append(m.buffer, x) /\ w.queue = m.queue
      BY <1>3, <1>12 DEF Streamed
    <2>4. Increasing(w.buffer) /\ Increasing(w.queue) /\ Range(w.queue) = {} /\ Range(w.buffer) = Range(m.buffer) \cup {x}
      BY <1>4, <1>6, <2>1, <2>3 DEF InOrder
    <2>5. InOrder(w)
      BY <2>4 DEF InOrder, Precedes
    <2>6. Held(m) \subseteq Held(w) /\ Held(w) \subseteq Held(m) \cup {x} /\ Range(m.buffer) \subseteq Range(w.buffer)
      BY <2>3, <2>4 DEF Held
    <2> QED
      BY <1>2, <1>8, <2>1, <2>2, <2>3, <2>5, <2>6 DEF Follows, w
  <1> QED
    BY <1>2, <1>9, <1>10, <1>11, <1>12 DEF w


\* Lines written one after the other, as Drain does with the queue.
LEMMA FoldRuns ==
  ASSUME today \in Nat, NEW b \in Memories, NEW q \in Numbers
  PROVE  \E g : /\ g[0] = b /\ g[Len(q)] = FoldLeft(WriteToFile, b, q)
                /\ \A i \in 0 .. Len(q) : g[i] \in Memories
                /\ \A i \in 1 .. Len(q) : g[i] = WriteToFile(g[i - 1], q[i])
  <1> DEFINE n == Len(q)
             M == Memories
             G == [i \in 1 .. n |-> [m \in M |-> WriteToFile(m, q[i])]]
             Is(f) == f = [Q \in SUBSET (1 .. n) |->
                             IF Q = {} THEN b ELSE WriteToFile(f[Q \ {Max(Q)}], q[Max(Q)])]
             k == CHOOSE f : Is(f)
  <1>1. n \in Nat /\ DOMAIN q = 1 .. n /\ \A i \in 1 .. n : q[i] \in Nat
    BY DEF Numbers
  <1>2. \A i \in 1 .. n : \A m \in M : WriteToFile(m, q[i]) \in M
    <2> HIDE DEF n
    <2> QED
      BY <1>1, WriteDoes
  <1>3. PICK h : Upwards(h, n, M, b, G)
    <2>1. G \in [1 .. n -> [M -> M]]
      <3> HIDE DEF n, M
      <3> QED
        BY <1>2
    <2> HIDE DEF n, M, G
    <2>2. b \in M
      BY DEF M
    <2> QED
      BY <1>1, <2>1, <2>2, FoldUpwards
  <1>4. \A Q \in SUBSET (1 .. n) : Q # {} => Max(Q) \in Q
    <2> SUFFICES ASSUME NEW Q \in SUBSET (1 .. n), Q # {} PROVE Max(Q) \in Q
      OBVIOUS
    <2>1. Q \in SUBSET (0 .. n)
      OBVIOUS
    <2> HIDE DEF n
    <2> QED
      BY <1>1, <2>1, GreatestNumber
  <1>5. Is(h)
    <2> DEFINE C == [Q \in SUBSET (1 .. n) |-> Max(Q)]
               H == [Q \in SUBSET (1 .. n) |-> IF Q = {} THEN b ELSE G[C[Q]][h[Q \ {C[Q]}]]]
    <2>1. h = H /\ h \in [SUBSET (1 .. n) -> M]
      <3> HIDE DEF n, M, G
      <3> QED
        BY <1>3 DEF Upwards, Folds
    <2>2. ASSUME NEW Q \in SUBSET (1 .. n), Q # {}
          PROVE  G[C[Q]][h[Q \ {C[Q]}]] = WriteToFile(h[Q \ {Max(Q)}], q[Max(Q)])
      <3>1. C[Q] = Max(Q) /\ Max(Q) \in 1 .. n
        BY <1>4, <2>2
      <3>2. h[Q \ {Max(Q)}] \in M
        <4> HIDE DEF n, M
        <4> QED
          BY <2>1
      <3> HIDE DEF n, M, C
      <3> QED
        BY <3>1, <3>2
    <2>3. h = [Q \in SUBSET (1 .. n) |-> IF Q = {} THEN b ELSE WriteToFile(h[Q \ {Max(Q)}], q[Max(Q)])]
      <3> DEFINE K == [Q \in SUBSET (1 .. n) |-> IF Q = {} THEN b ELSE WriteToFile(h[Q \ {Max(Q)}], q[Max(Q)])]
      <3>1. \A Q \in SUBSET (1 .. n) : H[Q] = K[Q]
        <4> SUFFICES ASSUME NEW Q \in SUBSET (1 .. n) PROVE H[Q] = K[Q]
          OBVIOUS
        <4>1. H[Q] = IF Q = {} THEN b ELSE G[C[Q]][h[Q \ {C[Q]}]]
          <5> HIDE DEF G, C, n, M
          <5> QED
            OBVIOUS
        <4>2. K[Q] = IF Q = {} THEN b ELSE WriteToFile(h[Q \ {Max(Q)}], q[Max(Q)])
          <5> HIDE DEF n
          <5> QED
            OBVIOUS
        <4> HIDE DEF G, C, n, M, H, K
        <4> QED
          BY <2>2, <4>1, <4>2
      <3>2. /\ DOMAIN H = SUBSET (1 .. n) /\ DOMAIN K = SUBSET (1 .. n)
            /\ H = [Q \in SUBSET (1 .. n) |-> H[Q]] /\ K = [Q \in SUBSET (1 .. n) |-> K[Q]]
        <4> HIDE DEF n, G, C, M
        <4> QED
          OBVIOUS
      <3>3. H = K
        <4> HIDE DEF H, K, n
        <4> QED
          BY <3>1, <3>2
      <3> HIDE DEF H
      <3> QED
        BY <2>1, <3>3
    <2> HIDE DEF n
    <2> QED
      BY <2>3
  <1>6. Is(k)
    <2> HIDE DEF Is
    <2> QED
      BY <1>5
  <1>7. FoldLeft(WriteToFile, b, q) = k[1 .. n]
    BY <1>1 DEF FoldLeft, MapThenFoldSet
  <1> HIDE DEF k
  <1>8. k[{}] = b
    <2> HIDE DEF n
    <2> QED
      BY <1>6
  <1>9. ASSUME NEW i \in 1 .. n PROVE k[1 .. i] = WriteToFile(k[1 .. i - 1], q[i])
    <2> HIDE DEF n, Is
    <2>1. 1 .. i \in SUBSET (0 .. i) /\ 1 .. i # {} /\ 1 .. i \in SUBSET (1 .. n) /\ i \in Nat
      <3>1. i \in 1 .. i /\ \A j \in 1 .. i : j \in 0 .. i /\ j \in 1 .. n
        BY <1>1
      <3> QED
        BY <3>1
    <2>2. Max(1 .. i) \in 1 .. i /\ \A m \in 1 .. i : m <= Max(1 .. i)
      BY <2>1, GreatestNumber
    <2>3. Max(1 .. i) = i
      BY <2>1, <2>2
    <2>4. (1 .. i) \ {i} = 1 .. i - 1
      BY <2>1
    <2>5. k[1 .. i] = WriteToFile(k[(1 .. i) \ {Max(1 .. i)}], q[Max(1 .. i)])
      BY <1>6, <2>1 DEF Is
    <2> QED
      BY <2>3, <2>4, <2>5
  <1> DEFINE g == [i \in 0 .. n |-> k[1 .. i]]
  <1>10. g[0] = b /\ g[n] = FoldLeft(WriteToFile, b, q)
    <2>1. 1 .. 0 = {}
      OBVIOUS
    <2>2. 0 \in 0 .. n /\ n \in 0 .. n
      <3> HIDE DEF n
      <3> QED
        BY <1>1
    <2> HIDE DEF n
    <2> QED
      BY <1>7, <1>8, <2>1, <2>2
  <1>11. \A i \in 1 .. n : g[i] = WriteToFile(g[i - 1], q[i])
    <2> HIDE DEF n
    <2> SUFFICES ASSUME NEW i \in 1 .. n PROVE g[i] = WriteToFile(g[i - 1], q[i])
      OBVIOUS
    <2>1. i \in 0 .. n /\ i - 1 \in 0 .. n
      BY <1>1
    <2>2. g[i] = k[1 .. i] /\ g[i - 1] = k[1 .. i - 1]
      BY <2>1
    <2> HIDE DEF g
    <2> QED
      BY <1>9, <2>2
  <1>12. \A i \in 0 .. n : g[i] \in M
    <2> DEFINE T == {i \in 0 .. n : g[i] \notin M}
    <2> HIDE DEF n, g
    <2> SUFFICES ASSUME T # {} PROVE FALSE
      OBVIOUS
    <2>1. PICK i \in T : \A j \in T : i <= j
      <3>1. T \in SUBSET (0 .. n)
        OBVIOUS
      <3> HIDE DEF T
      <3> QED
        BY <1>1, <3>1, LeastNumber
    <2>2. i \in 0 .. n /\ g[i] \notin M
      OBVIOUS
    <2>3. i # 0
      BY <1>10, <2>2
    <2>4. i \in 1 .. n /\ i - 1 \in 0 .. n /\ ~(i <= i - 1)
      BY <1>1, <2>2, <2>3
    <2>5. g[i - 1] \in M
      BY <2>1, <2>4
    <2> HIDE DEF M, T
    <2> QED
      BY <1>2, <1>11, <2>2, <2>4, <2>5
  <1> HIDE DEF g
  <1> QED
    BY <1>10, <1>11, <1>12

LEMMA DrainKeeps ==
  ASSUME NEW m \in Memories, NEW q \in Numbers, today \in Days, dated \in [Days -> Numbers],
         Turning(m), Dates(m), InOrder(m), m.size = 0, Increasing(q), \A y \in Held(m), z \in Range(q) : y < z
  PROVE  LET w == FoldLeft(WriteToFile, m, q)
         IN  /\ w \in Memories /\ Turning(w) /\ Dates(w) /\ InOrder(w)
             /\ Held(w) \subseteq Held(m) \cup Range(q) /\ Range(m.buffer) \subseteq Range(w.buffer)
             /\ w.size <= Len(q) /\ w.seen = m.seen
  <1> DEFINE n == Len(q)
  <1>1. n \in Nat /\ DOMAIN q = 1 .. n /\ \A i \in 1 .. n : q[i] \in Nat /\ q[i] \in Range(q)
    BY DEF Numbers, Range
  <1>2. today \in Nat
    BY DEF Days
  <1>3. PICK g : /\ g[0] = m /\ g[n] = FoldLeft(WriteToFile, m, q)
                 /\ \A i \in 0 .. n : g[i] \in Memories
                 /\ \A i \in 1 .. n : g[i] = WriteToFile(g[i - 1], q[i])
    BY <1>2, FoldRuns
  <1> HIDE DEF n
  <1> DEFINE Fine(i) == /\ Turning(g[i]) /\ Dates(g[i]) /\ InOrder(g[i])
                        /\ \A y \in Held(g[i]) : y \in Held(m) \/ \E j \in 1 .. i : y = q[j]
                        /\ Range(m.buffer) \subseteq Range(g[i].buffer)
                        /\ g[i].size <= i /\ g[i].seen = m.seen
  <1>4. Fine(0)
    BY <1>3
  <1>5. ASSUME NEW i \in 1 .. n, Fine(i - 1) PROVE Fine(i)
    <2> DEFINE v == g[i - 1]
               w == g[i]
    <2>1. v \in Memories /\ w = WriteToFile(v, q[i]) /\ q[i] \in Nat /\ i - 1 \in Nat /\ i \in Nat /\ v.size \in Nat
      <3>1. i \in 0 .. n /\ i - 1 \in 0 .. n
        BY <1>1
      <3> QED
        BY <1>1, <1>3, <3>1 DEF Memories
    <2>2. ASSUME NEW y \in Held(v) PROVE y < q[i]
      <3>1. CASE y \in Held(m)
        BY <1>1, <3>1
      <3>2. CASE \E j \in 1 .. i - 1 : y = q[j]
        <4>1. PICK j \in 1 .. i - 1 : y = q[j]
          BY <3>2
        <4>2. j \in DOMAIN q /\ i \in DOMAIN q /\ j < i
          BY <1>1
        <4> QED
          BY <4>1, <4>2 DEF Increasing
      <3> QED
        BY <1>5, <2>2, <3>1, <3>2
    <2>3. Turning(v) /\ Dates(v) /\ InOrder(v) /\ v.size <= i - 1 /\ v.seen = m.seen /\ Range(m.buffer) \subseteq Range(v.buffer)
      BY <1>5
    <2>4. \A y \in Held(v) : y \in Held(m) \/ \E j \in 1 .. i - 1 : y = q[j]
      BY <1>5
    <2> HIDE DEF v, w
    <2>5. Follows(v, w, q[i])
      <3>1. Follows(v, WriteToFile(v, q[i]), q[i])
        BY <2>1, <2>2, <2>3, WriteKeeps
      <3> QED
        BY <2>1, <3>1
    <2>6. \A y \in Held(w) : y \in Held(m) \/ \E j \in 1 .. i : y = q[j]
      <3> SUFFICES ASSUME NEW y \in Held(w), y \notin Held(m) PROVE \E j \in 1 .. i : y = q[j]
        OBVIOUS
      <3>1. y \in Held(v) \/ y = q[i]
        BY <2>5 DEF Follows
      <3>2. i \in 1 .. i /\ \A j \in 1 .. i - 1 : j \in 1 .. i
        BY <2>1
      <3> QED
        BY <2>4, <3>1, <3>2
    <2>7. w.size <= i
      <3>1. w.size \in Nat /\ w.size <= v.size + 1
        BY <2>5 DEF Follows, Memories
      <3> QED
        BY <2>1, <2>3, <3>1
    <2>8. Turning(w) /\ Dates(w) /\ InOrder(w) /\ Range(m.buffer) \subseteq Range(w.buffer) /\ w.seen = m.seen
      BY <2>3, <2>5 DEF Follows
    <2> QED
      BY <2>6, <2>7, <2>8 DEF w
  <1> HIDE DEF Fine
  <1>6. Fine(n)
    <2> DEFINE T == {i \in 0 .. n : ~Fine(i)}
    <2> SUFFICES ASSUME T # {} PROVE FALSE
      BY <1>1
    <2>1. PICK i \in T : \A j \in T : i <= j
      <3>1. T \in SUBSET (0 .. n)
        OBVIOUS
      <3> HIDE DEF T
      <3> QED
        BY <1>1, <3>1, LeastNumber
    <2>2. i \in 0 .. n /\ ~Fine(i)
      OBVIOUS
    <2>3. i # 0
      BY <1>4, <2>2
    <2>4. i \in 1 .. n /\ i - 1 \in 0 .. n /\ ~(i <= i - 1)
      BY <1>1, <2>2, <2>3
    <2>5. Fine(i - 1)
      BY <2>1, <2>4
    <2> QED
      BY <1>5, <2>2, <2>4, <2>5
  <1> DEFINE w == FoldLeft(WriteToFile, m, q)
  <1>7. w = g[n] /\ w \in Memories
    <2>1. n \in 0 .. n
      BY <1>1
    <2> QED
      BY <1>3, <2>1
  <1>8. Held(w) \subseteq Held(m) \cup Range(q)
    <2> SUFFICES ASSUME NEW y \in Held(w) PROVE y \in Held(m) \/ y \in Range(q)
      OBVIOUS
    <2> HIDE DEF w
    <2> QED
      BY <1>1, <1>6, <1>7 DEF Fine
  <1> HIDE DEF w
  <1>9. /\ Turning(w) /\ Dates(w) /\ InOrder(w) /\ Range(m.buffer) \subseteq Range(w.buffer)
        /\ w.size <= n /\ w.seen = m.seen
    BY <1>6, <1>7 DEF Fine
  <1> QED
    BY <1>7, <1>8, <1>9 DEF w, n


LogTyped ==
    /\ current \in Numbers /\ sized \in [1 .. LogFiles -> Numbers] /\ dated \in [Days -> Numbers]
    /\ logger \in Memories /\ today \in Days /\ lines \in 0 .. MaxLines /\ logFaults \in 0 .. MaxLogFaults
Memory == Turning(logger) /\ Dates(logger) /\ InOrder(logger) /\ logger.size <= lines /\ logger.seen <= lines
FilesRise ==
    /\ Increasing(current) /\ \A i \in 1 .. LogFiles : Increasing(sized[i])
    /\ \A d \in Days : Increasing(dated[d])
FilesFollow ==
    /\ \A i, j \in 1 .. LogFiles : i < j => Precedes(sized[j], sized[i])
    /\ \A d, e \in Days : d < e => Precedes(dated[d], dated[e])
    /\ \A i \in 1 .. LogFiles : Precedes(sized[i], current)
    /\ \A d \in Days : Precedes(dated[d], current)

\* What is in the files, and what is in memory, which comes after it.
OnFiles == Range(current) \cup {x \in Nat : \E i \in 1 .. LogFiles : x \in Range(sized[i])}
                          \cup {x \in Nat : \E d \in Days : x \in Range(dated[d])}
MemoryLast == \A x \in OnFiles, y \in Held(logger) : x < y
AllKept == 1 .. lines = OnFiles \cup Held(logger) \cup gone

LogInv == LogTyped /\ Memory /\ FilesRise /\ FilesFollow /\ MemoryLast /\ AllKept

LEMMA EmptyText ==
  /\ <<>> \in Numbers /\ Range(<<>>) = {} /\ Increasing(<<>>)
  /\ \A s : Precedes(<<>>, s) /\ Precedes(s, <<>>)
  <1>1. <<>> \in Numbers /\ Range(<<>>) = {} /\ DOMAIN <<>> = {}
    BY RangeOf DEF Numbers
  <1> QED
    BY <1>1 DEF Increasing, Precedes

LEMMA LogStart == LogInit => LogInv
  <1> SUFFICES ASSUME LogInit PROVE LogInv
    OBVIOUS
  <1>1. /\ current = <<>> /\ sized = [i \in 1 .. LogFiles |-> <<>>] /\ dated = [d \in Days |-> <<>>]
        /\ logger = NewLogger /\ today = 1 /\ lines = 0 /\ logFaults = 0 /\ gone = {}
    BY DEF LogInit
  <1>2. /\ logger \in Memories /\ logger.buffer = <<>> /\ logger.queue = <<>> /\ logger.size = 0 /\ logger.seen = 0
        /\ logger.lastDate = 0 /\ logger.rotation.type = "none"
    <2>1. NoRotation \in Rotations /\ NoRotation.type = "none"
      BY DEF NoRotation, Rotations, NoDay
    <2> QED
      BY <1>1, <2>1, EmptyText DEF NewLogger, Memories, NoDay
  <1>3. LogTyped
    <2>1. today \in Days /\ lines \in 0 .. MaxLines /\ logFaults \in 0 .. MaxLogFaults
      BY <1>1 DEF Days
    <2>2. sized \in [1 .. LogFiles -> Numbers] /\ dated \in [Days -> Numbers] /\ current \in Numbers
      BY <1>1, EmptyText
    <2> QED
      BY <1>2, <2>1, <2>2 DEF LogTyped
  <1>4. (\A i \in 1 .. LogFiles : sized[i] = <<>>) /\ (\A d \in Days : dated[d] = <<>>)
    BY <1>1
  <1>5. Memory
    <2>1. InOrder(logger)
      BY <1>2, EmptyText DEF InOrder
    <2>2. Turning(logger)
      BY <1>2 DEF Turning
    <2>3. Dates(logger)
      BY <1>1, <1>2, <1>4 DEF Dates
    <2> QED
      BY <1>1, <1>2, <2>1, <2>2, <2>3 DEF Memory
  <1>6. FilesRise /\ FilesFollow
    BY <1>1, <1>4, EmptyText DEF FilesRise, FilesFollow
  <1>7. OnFiles = {} /\ Held(logger) = {} /\ gone = {} /\ 1 .. lines = {}
    BY <1>1, <1>2, <1>4, EmptyText DEF OnFiles, Held
  <1>8. MemoryLast /\ AllKept
    BY <1>7 DEF MemoryLast, AllKept
  <1> QED
    BY <1>3, <1>5, <1>6, <1>8 DEF LogInv

\* A step that leaves the files alone.
LEMMA FilesStay ==
  ASSUME FilesRise, FilesFollow, UNCHANGED <<current, sized, dated>>
  PROVE  FilesRise' /\ FilesFollow' /\ OnFiles' = OnFiles
  BY DEF FilesRise, FilesFollow, OnFiles

LEMMA LineKeeps == LogInv /\ LogLine => LogInv'
  <1> SUFFICES ASSUME LogInv, LogLine PROVE LogInv'
    OBVIOUS
  <1>1. LogTyped /\ Memory /\ FilesRise /\ FilesFollow /\ MemoryLast /\ AllKept
    BY DEF LogInv
  <1>2. /\ lines < MaxLines /\ lines' = lines + 1 /\ logger' = WriteToFile(logger, lines')
        /\ UNCHANGED <<current, sized, dated, today, logFaults>>
    BY DEF LogLine
  <1>3. gone' = IF lines' \in Held(logger') THEN gone ELSE gone \cup {lines'}
    BY DEF LogLine
  <1> DEFINE x == lines'
             w == logger'
  <1>4. x \in Nat /\ lines \in Nat /\ x = lines + 1 /\ x \in 0 .. MaxLines
    BY <1>1, <1>2 DEF LogTyped
  <1>5. \A y \in OnFiles \cup Held(logger) \cup gone : y < x
    BY <1>1, <1>4 DEF AllKept
  <1> HIDE DEF x, w
  <1>6. Follows(logger, w, x)
    <2>1. \A y \in Held(logger) : y < x
      BY <1>5
    <2>2. Follows(logger, WriteToFile(logger, x), x)
      BY <1>1, <1>4, <2>1, WriteKeeps DEF LogTyped, Memory
    <2> QED
      BY <1>2, <2>2 DEF w, x
  <1>7. Memory'
    <2>1. w.size \in Nat /\ w.seen = logger.seen /\ logger.seen \in Nat /\ logger.size \in Nat /\ w.size <= logger.size + 1
      BY <1>1, <1>6 DEF Follows, Memories, LogTyped
    <2>2. w.size <= x /\ w.seen <= x
      BY <1>1, <1>4, <2>1 DEF Memory
    <2>3. Turning(logger') /\ Dates(logger') /\ InOrder(logger')
      BY <1>6 DEF Follows, w
    <2> QED
      BY <1>2, <2>2, <2>3 DEF Memory, w, x, Turning, Dates, InOrder
  <1>8. LogTyped'
    BY <1>1, <1>2, <1>4, <1>6 DEF LogTyped, Follows, w, x
  <1>9. FilesRise' /\ FilesFollow' /\ OnFiles' = OnFiles
    BY <1>1, <1>2, FilesStay
  <1>10. Held(logger) \subseteq Held(w) /\ Held(w) \subseteq Held(logger) \cup {x}
    BY <1>6 DEF Follows
  <1>11. MemoryLast'
    BY <1>1, <1>5, <1>9, <1>10 DEF MemoryLast, w, x
  <1>12. AllKept'
    <2>1. 1 .. x = (1 .. lines) \cup {x}
      BY <1>4
    <2>2. gone' = IF x \in Held(w) THEN gone ELSE gone \cup {x}
      BY <1>3 DEF w, x
    <2>3. 1 .. x = OnFiles \cup Held(w) \cup gone'
      BY <1>1, <1>10, <2>1, <2>2 DEF AllKept
    <2> QED
      BY <1>9, <2>3 DEF AllKept, w, x
  <1> QED
    BY <1>7, <1>8, <1>9, <1>11, <1>12 DEF LogInv


\* A step of the disk that leaves the files alone, where the memory keeps its lines.
LEMMA MemoryMoves ==
  ASSUME LogInv, UNCHANGED <<current, sized, dated, lines>>, today' \in Days, today <= today',
         logFaults' \in 0 .. MaxLogFaults, logger' \in Memories, gone' = gone \cup (Held(logger) \ Held(logger')),
         Turning(logger'), logger'.lastDate \in {logger.lastDate, NoDay}, InOrder(logger'),
         Held(logger') \subseteq Held(logger), logger'.size <= lines, logger'.seen <= lines
  PROVE  LogInv'
  <1>1. LogTyped /\ Memory /\ FilesRise /\ FilesFollow /\ MemoryLast /\ AllKept
    BY DEF LogInv
  <1>2. FilesRise' /\ FilesFollow' /\ OnFiles' = OnFiles
    BY <1>1, FilesStay
  <1>3. LogTyped'
    BY <1>1 DEF LogTyped
  <1>4. MemoryLast' /\ AllKept'
    BY <1>1, <1>2 DEF MemoryLast, AllKept
  <1>5. Memory'
    <2>1. today \in Nat /\ today' \in Nat /\ \A d \in Days : d \in Nat
      BY <1>1 DEF LogTyped, Days
    <2>2. logger.lastDate \in Nat /\ NoDay = 0
      BY <1>1 DEF LogTyped, Memories, NoDay
    <2>3. logger'.lastDate <= today'
      BY <1>1, <2>1, <2>2 DEF Memory, Dates
    <2>4. \A d \in Days : dated'[d] # <<>> => d < today' /\ (logger'.lastDate # NoDay => d < logger'.lastDate)
      <3> SUFFICES ASSUME NEW d \in Days, dated[d] # <<>>
                   PROVE  d < today' /\ (logger'.lastDate # NoDay => d < logger'.lastDate)
        OBVIOUS
      <3>1. d < today /\ (logger.lastDate # NoDay => d < logger.lastDate)
        BY <1>1 DEF Memory, Dates
      <3>2. d < today'
        <4>1. d \in Nat /\ d < today
          BY <2>1, <3>1
        <4> QED
          BY <2>1, <4>1
      <3>3. logger'.lastDate # NoDay => d < logger'.lastDate
        <4>1. logger'.lastDate = logger.lastDate \/ logger'.lastDate = NoDay
          OBVIOUS
        <4> QED
          BY <3>1, <4>1, Zenon
      <3> QED
        BY <3>2, <3>3
    <2>5. Turning(logger)'
      BY DEF Turning
    <2>6. Dates(logger)'
      BY <2>3, <2>4 DEF Dates
    <2> QED
      BY <2>5, <2>6 DEF Memory, InOrder
  <1> QED
    BY <1>2, <1>3, <1>4, <1>5 DEF LogInv

LEMMA StatReadsKeeps == LogInv /\ StatReads => LogInv'
  <1> SUFFICES ASSUME LogInv, StatReads PROVE LogInv'
    OBVIOUS
  <1>1. LogTyped /\ Memory /\ FilesRise /\ AllKept
    BY DEF LogInv
  <1>2. /\ logger' = [logger EXCEPT !.stat = "read", !.seen = Len(current)]
        /\ UNCHANGED <<current, logFaults, gone, sized, dated, today, lines>>
    BY DEF StatReads, OnDisk
  <1>3. Len(current) \in Nat /\ Len(current) <= lines
    <2>1. Range(current) \subseteq 1 .. lines /\ lines \in Nat
      BY <1>1 DEF AllKept, OnFiles, LogTyped
    <2>2. Len(current) \in 0 .. lines
      BY <1>1, <2>1, RisingLong DEF LogTyped, FilesRise
    <2> QED
      BY <2>1, <2>2
  <1> DEFINE n == Len(current)
             w == logger'
  <1>4. w = [logger EXCEPT !.stat = "read", !.seen = n] /\ logger \in Memories
    BY <1>1, <1>2 DEF LogTyped
  <1> HIDE DEF n, w
  <1>5. /\ w \in Memories /\ w.buffer = logger.buffer /\ w.queue = logger.queue /\ w.size = logger.size
        /\ w.rotation = logger.rotation /\ w.lastDate = logger.lastDate /\ w.seen = n
    BY <1>3, <1>4 DEF Memories, n
  <1>6. Turning(w) /\ InOrder(w) /\ Held(w) = Held(logger)
    BY <1>1, <1>5 DEF Turning, InOrder, Held, Memory
  <1>7. w.size <= lines /\ w.seen <= lines
    BY <1>1, <1>3, <1>5 DEF Memory, n
  <1>8. today <= today' /\ today' \in Days /\ logFaults' \in 0 .. MaxLogFaults
    BY <1>1, <1>2 DEF LogTyped, Days
  <1> QED
    BY <1>2, <1>5, <1>6, <1>7, <1>8, MemoryMoves DEF w

LEMMA StatResolvesKeeps == LogInv /\ StatResolves => LogInv'
  <1> SUFFICES ASSUME LogInv, StatResolves PROVE LogInv'
    OBVIOUS
  <1>1. LogTyped /\ Memory
    BY DEF LogInv
  <1> DEFINE w == logger'
             b == logger.seen > 0
  <1>2. /\ \/ w = [logger EXCEPT !.stat = "done", !.size = logger.seen, !.hadData = b]
           \/ w = [logger EXCEPT !.stat = "done"]
        /\ UNCHANGED <<current, logFaults, gone, sized, dated, today, lines>>
    BY DEF StatResolves, OnDisk
  <1>3. b \in BOOLEAN /\ logger \in Memories /\ logger.seen \in Nat
    BY <1>1 DEF LogTyped, Memories
  <1> HIDE DEF w, b
  <1>5. /\ w \in Memories /\ w.buffer = logger.buffer /\ w.queue = logger.queue
        /\ w.rotation = logger.rotation /\ w.lastDate = logger.lastDate /\ w.seen = logger.seen
        /\ w.size = logger.size \/ w.size = logger.seen
    BY <1>2, <1>3 DEF Memories
  <1>6. Turning(w) /\ InOrder(w) /\ Held(w) = Held(logger)
    BY <1>1, <1>5 DEF Turning, InOrder, Held, Memory
  <1>7. w.size <= lines /\ w.seen <= lines
    BY <1>1, <1>5 DEF Memory
  <1>8. today <= today' /\ today' \in Days /\ logFaults' \in 0 .. MaxLogFaults
    BY <1>1, <1>2 DEF LogTyped, Days
  <1> QED
    BY <1>2, <1>5, <1>6, <1>7, <1>8, MemoryMoves DEF w

LEMMA StreamErrorKeeps == LogInv /\ StreamError => LogInv'
  <1> SUFFICES ASSUME LogInv, StreamError PROVE LogInv'
    OBVIOUS
  <1>1. LogTyped /\ Memory
    BY DEF LogInv
  <1> DEFINE w == logger'
  <1>2. /\ w = [logger EXCEPT !.buffer = <<>>, !.errored = TRUE]
        /\ logFaults < MaxLogFaults /\ logFaults' = logFaults + 1 /\ gone' = gone \cup Range(logger.buffer)
        /\ UNCHANGED <<current, sized, dated, today, lines>>
    BY DEF StreamError, OnDisk
  <1>3. logger \in Memories /\ <<>> \in Numbers
    BY <1>1, EmptyText DEF LogTyped
  <1> HIDE DEF w
  <1>5. /\ w \in Memories /\ w.buffer = <<>> /\ w.queue = logger.queue
        /\ w.rotation = logger.rotation /\ w.lastDate = logger.lastDate /\ w.seen = logger.seen
        /\ w.size = logger.size
    BY <1>2, <1>3 DEF Memories
  <1>6. Turning(w) /\ InOrder(w)
    BY <1>1, <1>5, EmptyText DEF Turning, InOrder, Memory
  <1>7. w.size <= lines /\ w.seen <= lines
    BY <1>1, <1>5 DEF Memory
  <1>8. today <= today' /\ today' \in Days /\ logFaults' \in 0 .. MaxLogFaults
    BY <1>1, <1>2 DEF LogTyped, Days
  <1>9. Held(w) = Range(logger.queue) /\ Held(logger) = Range(logger.buffer) \cup Range(logger.queue)
    BY <1>5, EmptyText DEF Held
  <1>10. \A y \in Range(logger.buffer) : y \notin Range(logger.queue)
    BY <1>1, <1>3, RangeOf DEF Memory, InOrder, Precedes, Memories
  <1>11. gone' = gone \cup (Held(logger) \ Held(w))
    BY <1>2, <1>9, <1>10
  <1> QED
    BY <1>2, <1>5, <1>6, <1>7, <1>8, <1>9, <1>11, MemoryMoves DEF w

LEMMA RestartsKeep == LogInv /\ Restart => LogInv'
  <1> SUFFICES ASSUME LogInv, Restart PROVE LogInv'
    OBVIOUS
  <1>1. LogTyped
    BY DEF LogInv
  <1> DEFINE w == logger'
  <1>2. /\ w = NewLogger /\ logFaults < MaxLogFaults /\ logFaults' = logFaults + 1
        /\ gone' = gone \cup Held(logger) /\ UNCHANGED <<current, sized, dated, today, lines>>
    BY DEF Restart, OnDisk
  <1> HIDE DEF w
  <1>3. NoRotation \in Rotations /\ NoRotation.type = "none"
    BY DEF NoRotation, Rotations, NoDay
  <1>5. /\ w \in Memories /\ w.buffer = <<>> /\ w.queue = <<>> /\ w.rotation.type = "none"
        /\ w.lastDate = NoDay /\ w.seen = 0 /\ w.size = 0
    BY <1>2, <1>3, EmptyText DEF Memories, NewLogger, NoDay
  <1>6. Turning(w) /\ InOrder(w) /\ Held(w) = {}
    BY <1>5, EmptyText DEF Turning, InOrder, Held
  <1>8. /\ today <= today' /\ today' \in Days /\ logFaults' \in 0 .. MaxLogFaults
        /\ w.size <= lines /\ w.seen <= lines
    BY <1>1, <1>2, <1>5 DEF LogTyped, Days
  <1> QED
    BY <1>2, <1>5, <1>6, <1>8, MemoryMoves DEF w

LEMMA MidnightKeeps == LogInv /\ Midnight => LogInv'
  <1> SUFFICES ASSUME LogInv, Midnight PROVE LogInv'
    OBVIOUS
  <1>1. LogTyped /\ Memory
    BY DEF LogInv
  <1>2. /\ today < MaxDays /\ today' = today + 1
        /\ UNCHANGED <<current, sized, dated, logger, lines, logFaults, gone>>
    BY DEF Midnight
  <1>3. today <= today' /\ today' \in Days /\ logFaults' \in 0 .. MaxLogFaults /\ logger' \in Memories
    BY <1>1, <1>2 DEF LogTyped, Days
  <1>4. /\ Turning(logger') /\ InOrder(logger') /\ Held(logger') = Held(logger)
        /\ logger'.size <= lines /\ logger'.seen <= lines /\ logger'.lastDate = logger.lastDate
    BY <1>1, <1>2 DEF Memory
  <1> QED
    BY <1>2, <1>3, <1>4, MemoryMoves

\* A step of a rotation in memory.
LEMMA Proceeds ==
  ASSUME LogTyped, NEW spot \in {"flush", "unlink", "shift", "rename", "open"}, NEW i \in Nat, Proceed(spot, i)
  PROVE  /\ logger' \in Memories /\ logger'.buffer = logger.buffer /\ logger'.queue = logger.queue
         /\ logger'.size = logger.size /\ logger'.seen = logger.seen /\ logger'.lastDate = logger.lastDate
         /\ logger'.rotation.type = logger.rotation.type /\ logger'.rotation.day = logger.rotation.day
         /\ logger'.rotation.at = spot /\ logger'.rotation.i = i
  <1> DEFINE r == [logger.rotation EXCEPT !.at = spot, !.i = i]
  <1>1. logger \in Memories /\ logger.rotation \in Rotations
    BY DEF LogTyped, Memories
  <1>2. logger' = [logger EXCEPT !.rotation = r]
    <2>1. logger' = [logger EXCEPT !.rotation.at = spot, !.rotation.i = i]
      BY DEF Proceed
    <2> QED
      BY <1>1, <2>1 DEF Memories, Rotations
  <1>3. /\ r \in Rotations /\ r.at = spot /\ r.i = i /\ r.type = logger.rotation.type
        /\ r.day = logger.rotation.day
    BY <1>1 DEF Rotations
  <1> HIDE DEF r
  <1>4. logger' \in Memories /\ logger'.rotation = r
    BY <1>1, <1>2, <1>3 DEF Memories
  <1> QED
    BY <1>1, <1>2, <1>3, <1>4 DEF Memories

LEMMA FlushedKeeps == LogInv /\ Flushed => LogInv'
  <1> SUFFICES ASSUME LogInv, Flushed PROVE LogInv'
    OBVIOUS
  <1>1. LogTyped /\ Memory
    BY DEF LogInv
  <1> DEFINE r == logger.rotation
             spot == IF r.type = "size" /\ r.i > 0 THEN "unlink" ELSE "rename"
             w == logger'
  <1>2. /\ r.type # "none" /\ r.at = "flush" /\ Proceed(spot, r.i)
        /\ UNCHANGED <<current, logFaults, gone, sized, dated, today, lines>>
    BY DEF Flushed, OnDisk, At
  <1>3. r.i \in Nat /\ logger \in Memories
    BY <1>1 DEF LogTyped, Memories, Rotations
  <1>4. \/ spot = "unlink" /\ r.type = "size" /\ r.i > 0
        \/ spot = "rename"
    OBVIOUS
  <1> HIDE DEF spot
  <1>5. /\ w \in Memories /\ w.buffer = logger.buffer /\ w.queue = logger.queue
        /\ w.size = logger.size /\ w.seen = logger.seen /\ w.lastDate = logger.lastDate
        /\ w.rotation.type = r.type /\ w.rotation.day = r.day /\ w.rotation.at = spot /\ w.rotation.i = r.i
    BY <1>1, <1>2, <1>3, <1>4, Proceeds
  <1> HIDE DEF w
  <1>6. Turning(w)
    <2>1. Turning(logger)
      BY <1>1 DEF Memory
    <2> QED
      BY <1>2, <1>4, <1>5, <2>1 DEF Turning
  <1>7. InOrder(w) /\ Held(w) = Held(logger) /\ w.size <= lines /\ w.seen <= lines
    BY <1>1, <1>5 DEF InOrder, Held, Memory
  <1>8. today <= today' /\ today' \in Days /\ logFaults' \in 0 .. MaxLogFaults
    BY <1>1, <1>2 DEF LogTyped, Days
  <1> QED
    BY <1>2, <1>5, <1>6, <1>7, <1>8, MemoryMoves DEF w


\* A step of a rotation that moves files: nothing leaves them but what is gone.
LEMMA FilesMove ==
  ASSUME LogInv, UNCHANGED <<today, lines, logFaults>>, logger' \in Memories, Turning(logger)', Dates(logger)',
         InOrder(logger'), Held(logger') = Held(logger), logger'.size = logger.size, logger'.seen = logger.seen,
         current' \in Numbers, sized' \in [1 .. LogFiles -> Numbers], dated' \in [Days -> Numbers],
         FilesRise', FilesFollow', OnFiles' \subseteq OnFiles, OnFiles \cup gone = OnFiles' \cup gone'
  PROVE  LogInv'
  <1>1. LogTyped /\ Memory /\ MemoryLast /\ AllKept
    BY DEF LogInv
  <1>2. LogTyped'
    BY <1>1 DEF LogTyped
  <1>3. Memory'
    <2>1. logger'.size <= lines /\ logger'.seen <= lines
      BY <1>1 DEF Memory
    <2> QED
      BY <2>1 DEF Memory, InOrder
  <1>4. MemoryLast' /\ AllKept'
    BY <1>1 DEF MemoryLast, AllKept
  <1> QED
    BY <1>2, <1>3, <1>4 DEF LogInv

LEMMA FlushKeeps == LogInv /\ Flush => LogInv'
  <1> SUFFICES ASSUME LogInv, Flush PROVE LogInv'
    OBVIOUS
  <1>1. LogTyped /\ Memory /\ FilesRise /\ FilesFollow /\ MemoryLast /\ AllKept
    BY DEF LogInv
  <1> DEFINE x == Head(logger.buffer)
             b == Tail(logger.buffer)
             w == logger'
  <1>2. /\ logger.buffer # <<>> /\ current' = Append(current, x) /\ w = [logger EXCEPT !.buffer = b]
        /\ UNCHANGED <<sized, dated, today, lines, logFaults, gone>>
    BY DEF Flush, OnDisk
  <1>3. /\ logger \in Memories /\ logger.buffer \in Numbers /\ current \in Numbers
        /\ Increasing(logger.buffer)
    BY <1>1 DEF LogTyped, Memories, Memory, InOrder
  <1>4. /\ x \in Nat /\ b \in Numbers /\ Range(logger.buffer) = {x} \cup Range(b)
        /\ Increasing(b) /\ \A y \in Range(b) : x < y
    BY <1>2, <1>3, RangeOf, RisingLess
  <1> HIDE DEF x, b, w
  <1>5. /\ w \in Memories /\ w.buffer = b /\ w.queue = logger.queue
        /\ w.rotation = logger.rotation /\ w.lastDate = logger.lastDate /\ w.seen = logger.seen
        /\ w.size = logger.size
    BY <1>2, <1>3, <1>4 DEF Memories
  <1>6. current' \in Numbers /\ Range(current') = Range(current) \cup {x}
    BY <1>2, <1>3, <1>4, RangeOf DEF Numbers
  <1>7. x \in Held(logger) /\ Held(logger) = {x} \cup Held(w) /\ \A y \in Held(w) : x < y
    <2>1. /\ Held(logger) = Range(logger.buffer) \cup Range(logger.queue)
          /\ Held(w) = Range(b) \cup Range(logger.queue)
      BY <1>5 DEF Held
    <2>2. \A y \in Range(logger.queue) : x < y
      BY <1>1, <1>4 DEF Memory, InOrder, Precedes
    <2> QED
      BY <1>4, <2>1, <2>2
  <1>8. \A y \in OnFiles : y < x
    BY <1>1, <1>7 DEF MemoryLast
  <1>9. FilesRise'
    <2>1. Increasing(current')
      BY <1>1, <1>2, <1>3, <1>4, <1>8, RisingMore DEF FilesRise, OnFiles
    <2> QED
      BY <1>1, <1>2, <2>1 DEF FilesRise
  <1>10. FilesFollow'
    <2>1. \A i \in 1 .. LogFiles : Range(sized[i]) \subseteq OnFiles
      BY <1>1, RangeOf DEF OnFiles, LogTyped
    <2>2. \A d \in Days : Range(dated[d]) \subseteq OnFiles
      BY <1>1, RangeOf DEF OnFiles, LogTyped
    <2> QED
      BY <1>1, <1>2, <1>6, <1>8, <2>1, <2>2 DEF FilesFollow, Precedes
  <1>11. OnFiles' = OnFiles \cup {x}
    BY <1>2, <1>6 DEF OnFiles
  <1>12. MemoryLast'
    BY <1>1, <1>7, <1>11 DEF MemoryLast, w
  <1>13. AllKept'
    BY <1>1, <1>2, <1>7, <1>11 DEF AllKept, w
  <1>14. LogTyped'
    BY <1>1, <1>2, <1>5, <1>6 DEF LogTyped, w
  <1>15. Memory'
    <2>1. Turning(w) /\ Dates(w) /\ w.size <= lines /\ w.seen <= lines
      BY <1>1, <1>5 DEF Memory, Turning, Dates
    <2>2. InOrder(w)
      <3>1. Increasing(logger.queue) /\ Precedes(logger.buffer, logger.queue)
        BY <1>1 DEF Memory, InOrder
      <3> QED
        BY <1>4, <1>5, <3>1 DEF InOrder, Precedes
    <2> QED
      BY <1>2, <2>1, <2>2 DEF Memory, Turning, Dates, InOrder, w
  <1> QED
    BY <1>9, <1>10, <1>12, <1>13, <1>14, <1>15 DEF LogInv

LEMMA UnlinkKeeps == LogInv /\ UnlinkOldest => LogInv'
  <1> SUFFICES ASSUME LogInv, UnlinkOldest PROVE LogInv'
    OBVIOUS
  <1>1. LogTyped /\ Memory /\ FilesRise /\ FilesFollow
    BY DEF LogInv
  <1> DEFINE r == logger.rotation
             w == logger'
             n == LogFiles
  <1>2. /\ r.type # "none" /\ r.at = "unlink" /\ Proceed("shift", r.i)
        /\ sized' = [sized EXCEPT ![n] = <<>>] /\ gone' = gone \cup Range(sized[n])
        /\ UNCHANGED <<current, dated, today, lines, logFaults>>
    BY DEF UnlinkOldest, At
  <1>3. r.i \in Nat /\ logger \in Memories
    BY <1>1 DEF LogTyped, Memories, Rotations
  <1>4. /\ w \in Memories /\ w.buffer = logger.buffer /\ w.queue = logger.queue
        /\ w.size = logger.size /\ w.seen = logger.seen /\ w.lastDate = logger.lastDate
        /\ w.rotation.type = r.type /\ w.rotation.day = r.day /\ w.rotation.at = "shift" /\ w.rotation.i = r.i
    BY <1>1, <1>2, <1>3, Proceeds
  <1>5. /\ r.type = "size" /\ r.i = n - 1 /\ r.i > 0
    BY <1>1, <1>2 DEF Memory, Turning
  <1>6. n \in 1 .. n /\ r.i \in 1 .. n - 1 /\ r.i + 1 = n
    BY <1>3, <1>5
  <1> HIDE DEF w
  <1>7. /\ sized' \in [1 .. n -> Numbers] /\ sized'[n] = <<>>
        /\ \A i \in 1 .. n : i # n => sized'[i] = sized[i]
    BY <1>1, <1>2, <1>6, EmptyText DEF LogTyped
  <1> HIDE DEF n
  <1>8. Turning(logger)'
    BY <1>2, <1>4, <1>5, <1>6, <1>7 DEF Turning, n, w
  <1>9. Dates(logger)'
    BY <1>1, <1>2, <1>4 DEF Dates, Memory, w
  <1>10. InOrder(w) /\ Held(w) = Held(logger)
    BY <1>1, <1>4 DEF InOrder, Held, Memory
  <1>11. \A i \in 1 .. n : sized'[i] = <<>> \/ sized'[i] = sized[i]
    BY <1>7
  <1>12. FilesRise'
    BY <1>1, <1>2, <1>11, EmptyText DEF FilesRise, n
  <1>13. FilesFollow'
    BY <1>1, <1>2, <1>11, EmptyText DEF FilesFollow, n
  <1>14. OnFiles' \subseteq OnFiles
    BY <1>2, <1>11, EmptyText DEF OnFiles, n
  <1>15. OnFiles \cup gone = OnFiles' \cup gone'
    <2>1. ASSUME NEW x \in OnFiles PROVE x \in OnFiles' \/ x \in Range(sized[n])
      <3>1. ASSUME NEW i \in 1 .. n, x \in Range(sized[i]) PROVE x \in Range(sized'[i]) \/ x \in Range(sized[n])
        BY <1>7, <3>1
      <3> QED
        BY <1>2, <3>1 DEF OnFiles, n
    <2>2. Range(sized[n]) \subseteq OnFiles
      BY <1>1, <1>6, RangeOf DEF OnFiles, LogTyped, n
    <2> QED
      BY <1>2, <1>14, <2>1, <2>2
  <1>16. current' \in Numbers /\ sized' \in [1 .. LogFiles -> Numbers] /\ dated' \in [Days -> Numbers]
    BY <1>1, <1>2, <1>7 DEF LogTyped, n
  <1> QED
    BY <1>2, <1>4, <1>8, <1>9, <1>10, <1>12, <1>13, <1>14, <1>15, <1>16, FilesMove DEF w


LEMMA ShiftKeeps == LogInv /\ Shift => LogInv'
  <1> SUFFICES ASSUME LogInv, Shift PROVE LogInv'
    OBVIOUS
  <1>1. LogTyped /\ Memory /\ FilesRise /\ FilesFollow
    BY DEF LogInv
  <1> DEFINE r == logger.rotation
             j == logger.rotation.i
             w == logger'
             spot == IF j > 1 THEN "shift" ELSE "rename"
  <1>2. /\ r.type # "none" /\ r.at = "shift" /\ Proceed(spot, j - 1)
        /\ sized' = IF sized[j] = <<>> THEN sized ELSE [sized EXCEPT ![j + 1] = sized[j], ![j] = <<>>]
        /\ UNCHANGED <<current, dated, today, lines, logFaults, gone>>
    BY DEF Shift, At
  <1>3. /\ j \in 1 .. LogFiles - 1 /\ sized[j + 1] = <<>>
        /\ r.type = "date" => r.day \in Days /\ r.day < logger.lastDate
                              /\ \A d \in Days : dated[d] # <<>> => d < r.day
    BY <1>1, <1>2 DEF Memory, Turning
  <1>4. j \in 1 .. LogFiles /\ j + 1 \in 1 .. LogFiles /\ j \in Nat /\ j - 1 \in Nat /\ j # j + 1
    BY <1>3
  <1>5. (spot = "shift" /\ j - 1 \in 1 .. LogFiles - 1) \/ spot = "rename"
    BY <1>3
  <1>6. spot \in {"flush", "unlink", "shift", "rename", "open"}
    OBVIOUS
  <1> HIDE DEF spot
  <1>7. /\ w \in Memories /\ w.buffer = logger.buffer /\ w.queue = logger.queue
        /\ w.size = logger.size /\ w.seen = logger.seen /\ w.lastDate = logger.lastDate
        /\ w.rotation.type = r.type /\ w.rotation.day = r.day /\ w.rotation.at = spot /\ w.rotation.i = j - 1
    BY <1>1, <1>2, <1>4, <1>6, Proceeds
  <1> HIDE DEF w
  <1>8. /\ sized' \in [1 .. LogFiles -> Numbers] /\ sized'[j] = <<>> /\ sized'[j + 1] = sized[j]
        /\ \A i \in 1 .. LogFiles : i # j /\ i # j + 1 => sized'[i] = sized[i]
    <2>1. sized \in [1 .. LogFiles -> Numbers] /\ <<>> \in Numbers
      BY <1>1, EmptyText DEF LogTyped
    <2>2. CASE sized[j] = <<>>
      BY <1>2, <1>3, <2>1, <2>2
    <2>3. CASE sized[j] # <<>>
      <3>1. sized' = [sized EXCEPT ![j + 1] = sized[j], ![j] = <<>>]
        BY <1>2, <2>3
      <3> QED
        BY <1>4, <2>1, <3>1
    <2> QED
      BY <2>2, <2>3
  <1>9. Turning(logger)'
    <2>1. logger.rotation.type # "none"
      BY <1>2
    <2>2. spot = "shift" => j - 1 \in 1 .. LogFiles - 1 /\ sized'[(j - 1) + 1] = <<>>
      <3>1. (j - 1) + 1 = j
        BY <1>4
      <3> QED
        BY <1>5, <1>8, <3>1
    <2>3. spot # "flush" /\ spot # "unlink" /\ (spot = "shift" \/ spot = "rename")
      BY <1>5
    <2>4. r.type = "date" => r.day \in Days /\ r.day < w.lastDate /\ \A d \in Days : dated'[d] # <<>> => d < r.day
      BY <1>2, <1>3, <1>7
    <2> HIDE DEF r
    <2> QED
      BY <1>7, <2>1, <2>2, <2>3, <2>4 DEF Turning, w, r
  <1>10. Dates(logger)'
    BY <1>1, <1>2, <1>7 DEF Dates, Memory, w
  <1>11. InOrder(w) /\ Held(w) = Held(logger)
    BY <1>1, <1>7 DEF InOrder, Held, Memory
  <1>12. \A i \in 1 .. LogFiles : \/ sized'[i] = <<>> \/ sized'[i] = sized[i]
                                  \/ i = j + 1 /\ sized'[i] = sized[j]
    BY <1>8
  <1>13. FilesRise'
    BY <1>1, <1>2, <1>4, <1>12, EmptyText DEF FilesRise
  <1>14. FilesFollow'
    <2>1. ASSUME NEW i \in 1 .. LogFiles, NEW k \in 1 .. LogFiles, i < k
          PROVE  Precedes(sized'[k], sized'[i])
      <3>1. CASE i = j
        BY <1>8, <3>1, EmptyText
      <3>2. CASE i = j + 1
        <4>1. sized'[i] = sized[j] /\ sized'[k] = sized[k] /\ j < k
          BY <1>4, <1>8, <2>1, <3>2
        <4> QED
          BY <1>1, <1>4, <4>1 DEF FilesFollow
      <3>3. CASE i # j /\ i # j + 1 /\ k = j
        BY <1>8, <3>3, EmptyText
      <3>4. CASE i # j /\ i # j + 1 /\ k = j + 1
        <4>1. sized'[i] = sized[i] /\ sized'[k] = sized[j] /\ i < j
          BY <1>4, <1>8, <2>1, <3>4
        <4> QED
          BY <1>1, <1>4, <4>1 DEF FilesFollow
      <3>5. CASE i # j /\ i # j + 1 /\ k # j /\ k # j + 1
        BY <1>1, <1>8, <2>1, <3>5 DEF FilesFollow
      <3> QED
        BY <3>1, <3>2, <3>3, <3>4, <3>5
    <2>2. \A i \in 1 .. LogFiles : Precedes(sized'[i], current)
      BY <1>1, <1>4, <1>12, EmptyText DEF FilesFollow
    <2> QED
      BY <1>1, <1>2, <2>1, <2>2 DEF FilesFollow
  <1>15. \A x : (\E i \in 1 .. LogFiles : x \in Range(sized'[i])) <=> \E i \in 1 .. LogFiles : x \in Range(sized[i])
    <2>1. ASSUME NEW x, NEW i \in 1 .. LogFiles, x \in Range(sized'[i])
          PROVE  \E k \in 1 .. LogFiles : x \in Range(sized[k])
      BY <1>4, <1>12, <2>1, EmptyText
    <2>2. ASSUME NEW x, NEW i \in 1 .. LogFiles, x \in Range(sized[i])
          PROVE  \E k \in 1 .. LogFiles : x \in Range(sized'[k])
      <3>1. CASE i = j
        BY <1>4, <1>8, <2>2, <3>1
      <3>2. CASE i = j + 1
        BY <1>3, <2>2, <3>2, EmptyText
      <3>3. CASE i # j /\ i # j + 1
        BY <1>8, <2>2, <3>3
      <3> QED
        BY <3>1, <3>2, <3>3
    <2> QED
      BY <2>1, <2>2
  <1>16. OnFiles' = OnFiles
    BY <1>2, <1>15 DEF OnFiles
  <1>17. current' \in Numbers /\ sized' \in [1 .. LogFiles -> Numbers] /\ dated' \in [Days -> Numbers]
    BY <1>1, <1>2, <1>8 DEF LogTyped
  <1> QED
    BY <1>2, <1>7, <1>9, <1>10, <1>11, <1>13, <1>14, <1>16, <1>17, FilesMove DEF w

LEMMA RenameKeeps == LogInv /\ RenameCurrent => LogInv'
  <1> SUFFICES ASSUME LogInv, RenameCurrent PROVE LogInv'
    OBVIOUS
  <1>1. LogTyped /\ Memory /\ FilesRise /\ FilesFollow
    BY DEF LogInv
  <1> DEFINE r == logger.rotation
             t == logger.rotation.day
             w == logger'
  <1>2. /\ r.type # "none" /\ r.at = "rename" /\ Proceed("open", 0) /\ current' = <<>>
        /\ UNCHANGED <<today, lines, logFaults>>
    BY DEF RenameCurrent, At
  <1>3. \/ current = <<>> /\ UNCHANGED <<sized, dated, gone>>
        \/ r.type = "date" /\ dated' = [dated EXCEPT ![t] = current] /\ UNCHANGED <<sized, gone>>
        \/ r.type = "size" /\ sized' = [sized EXCEPT ![1] = current] /\ gone' = gone \cup Range(sized[1])
           /\ UNCHANGED dated
    <2>1. r.type \in {"none", "date", "size"}
      BY <1>1 DEF LogTyped, Memories, Rotations
    <2> QED
      BY <1>2, <2>1 DEF RenameCurrent
  <1>4. r.type = "date" => t \in Days /\ t < logger.lastDate /\ \A d \in Days : dated[d] # <<>> => d < t
    BY <1>1, <1>2 DEF Memory, Turning
  <1>5. /\ w \in Memories /\ w.buffer = logger.buffer /\ w.queue = logger.queue
        /\ w.size = logger.size /\ w.seen = logger.seen /\ w.lastDate = logger.lastDate
        /\ w.rotation.type = r.type /\ w.rotation.day = r.day /\ w.rotation.at = "open"
    <2>1. 0 \in Nat
      OBVIOUS
    <2> QED
      BY <1>1, <1>2, <2>1, Proceeds
  <1> HIDE DEF w
  <1>6. InOrder(w) /\ Held(w) = Held(logger)
    BY <1>1, <1>5 DEF InOrder, Held, Memory
  <1>7. Turning(logger)'
    <2>1. w.rotation.type # "none" /\ w.rotation.at = "open"
          /\ (w.rotation.type = "date" => w.rotation.day \in Days /\ w.rotation.day < w.lastDate)
      BY <1>2, <1>4, <1>5
    <2> QED
      BY <2>1 DEF Turning, w
  <1>8. /\ current \in Numbers /\ sized \in [1 .. LogFiles -> Numbers] /\ dated \in [Days -> Numbers]
        /\ current' = <<>> /\ current' \in Numbers /\ 1 \in 1 .. LogFiles
    BY <1>1, <1>2, EmptyText DEF LogTyped
  <1>9. \A d \in Days : d \in Nat
    BY DEF Days
  <1>10. CASE current = <<>> /\ UNCHANGED <<sized, dated, gone>>
    <2>1. FilesRise' /\ FilesFollow' /\ OnFiles' = OnFiles
      BY <1>1, <1>8, <1>10, FilesStay
    <2>2. Dates(logger)'
      BY <1>1, <1>2, <1>5, <1>10 DEF Dates, Memory, w
    <2> QED
      BY <1>2, <1>5, <1>6, <1>7, <1>8, <1>10, <2>1, <2>2, FilesMove DEF w
  <1>11. CASE r.type = "date" /\ dated' = [dated EXCEPT ![t] = current] /\ UNCHANGED <<sized, gone>>
    <2>1. t \in Days /\ t < logger.lastDate /\ \A d \in Days : dated[d] # <<>> => d < t
      BY <1>4, <1>11
    <2>2. /\ dated' \in [Days -> Numbers] /\ dated'[t] = current
          /\ \A d \in Days : d # t => dated'[d] = dated[d]
      BY <1>8, <1>11, <2>1
    <2>3. dated[t] = <<>> /\ \A d \in Days : d > t => dated[d] = <<>>
      BY <1>9, <2>1
    <2> HIDE DEF t, r
    <2>4. FilesRise'
      BY <1>1, <1>2, <1>11, <2>1, <2>2, EmptyText DEF FilesRise
    <2>5. \A d, e \in Days : d < e => Precedes(dated'[d], dated'[e])
      <3> SUFFICES ASSUME NEW d \in Days, NEW e \in Days, d < e PROVE Precedes(dated'[d], dated'[e])
        OBVIOUS
      <3>1. CASE d = t
        <4>1. dated'[e] = <<>>
          BY <1>9, <2>1, <2>2, <2>3, <3>1
        <4> QED
          BY <4>1, EmptyText
      <3>2. CASE e = t
        <4>1. dated'[d] = dated[d] /\ dated'[e] = current
          BY <1>9, <2>2, <3>2
        <4> QED
          BY <1>1, <4>1 DEF FilesFollow
      <3>3. CASE d # t /\ e # t
        BY <1>1, <2>2, <3>3 DEF FilesFollow
      <3> QED
        BY <3>1, <3>2, <3>3
    <2>6. FilesFollow'
      BY <1>1, <1>2, <1>11, <2>5, EmptyText DEF FilesFollow
    <2>7. OnFiles' = OnFiles
      <3>1. \A x : (\E d \in Days : x \in Range(dated'[d])) <=> (x \in Range(current) \/ \E d \in Days : x \in Range(dated[d]))
        <4>1. \A d \in Days : Range(dated'[d]) \subseteq Range(current) \cup Range(dated[d])
          BY <2>2
        <4>2. \A d \in Days : d # t => Range(dated'[d]) = Range(dated[d])
          BY <2>2
        <4>3. Range(dated[t]) = {} /\ Range(dated'[t]) = Range(current)
          BY <2>2, <2>3, EmptyText
        <4> QED
          BY <2>1, <4>1, <4>2, <4>3
      <3>2. Range(current') = {} /\ sized' = sized /\ Range(current) \subseteq Nat
        BY <1>2, <1>8, <1>11, EmptyText, RangeOf
      <3> QED
        BY <3>1, <3>2 DEF OnFiles
    <2>8. Dates(logger)'
      <3>1. today \in Nat /\ logger.lastDate \in Nat /\ t \in Nat /\ logger.lastDate <= today
        BY <1>1, <1>9, <2>1 DEF LogTyped, Memories, Memory, Dates
      <3>2. t < today /\ t < logger.lastDate
        BY <2>1, <3>1
      <3>3. \A d \in Days : dated[d] # <<>> => d < today /\ (logger.lastDate # NoDay => d < logger.lastDate)
        BY <1>1 DEF Memory, Dates
      <3>4. \A d \in Days : dated'[d] # <<>> => d < today /\ (logger.lastDate # NoDay => d < logger.lastDate)
        BY <2>2, <3>2, <3>3
      <3> QED
        BY <1>2, <1>5, <3>1, <3>4 DEF Dates, w
    <2> QED
      BY <1>2, <1>5, <1>6, <1>7, <1>8, <1>11, <2>2, <2>4, <2>6, <2>7, <2>8, FilesMove DEF w
  <1>12. CASE r.type = "size" /\ sized' = [sized EXCEPT ![1] = current] /\ gone' = gone \cup Range(sized[1])
              /\ UNCHANGED dated
    <2>1. /\ sized' \in [1 .. LogFiles -> Numbers] /\ sized'[1] = current
          /\ \A i \in 1 .. LogFiles : i # 1 => sized'[i] = sized[i]
      BY <1>8, <1>12
    <2> HIDE DEF t, r
    <2>2. FilesRise'
      BY <1>1, <1>2, <1>12, <2>1, EmptyText DEF FilesRise
    <2>3. \A i, k \in 1 .. LogFiles : i < k => Precedes(sized'[k], sized'[i])
      <3> SUFFICES ASSUME NEW i \in 1 .. LogFiles, NEW k \in 1 .. LogFiles, i < k PROVE Precedes(sized'[k], sized'[i])
        OBVIOUS
      <3>1. sized'[k] = sized[k]
        BY <2>1
      <3>2. CASE i = 1
        BY <1>1, <2>1, <3>1, <3>2 DEF FilesFollow
      <3>3. CASE i # 1
        BY <1>1, <2>1, <3>1, <3>3 DEF FilesFollow
      <3> QED
        BY <3>2, <3>3
    <2>4. FilesFollow'
      BY <1>1, <1>2, <1>12, <2>3, EmptyText DEF FilesFollow
    <2>5. Range(current') = {} /\ dated' = dated /\ Range(current) \subseteq Nat
      BY <1>2, <1>8, <1>12, EmptyText, RangeOf
    <2>6. \A x : (\E i \in 1 .. LogFiles : x \in Range(sized'[i])) => (x \in Range(current) \/ \E i \in 1 .. LogFiles : x \in Range(sized[i]))
      BY <1>8, <2>1
    <2>7. \A x : x \in Range(current) \/ (\E i \in 1 .. LogFiles : x \in Range(sized[i]))
                 => x \in Range(sized[1]) \/ \E i \in 1 .. LogFiles : x \in Range(sized'[i])
      BY <1>8, <2>1
    <2>8. OnFiles' \subseteq OnFiles
      BY <2>5, <2>6 DEF OnFiles
    <2>9. OnFiles \subseteq OnFiles' \cup Range(sized[1])
      BY <2>5, <2>7 DEF OnFiles
    <2>10. Range(sized[1]) \subseteq OnFiles
      BY <1>8, RangeOf DEF OnFiles
    <2>11. OnFiles \cup gone = OnFiles' \cup gone'
      BY <1>12, <2>8, <2>9, <2>10
    <2>12. Dates(logger)'
      BY <1>1, <1>2, <1>5, <1>12 DEF Dates, Memory, w
    <2> QED
      BY <1>2, <1>5, <1>6, <1>7, <1>8, <1>12, <2>1, <2>2, <2>4, <2>8, <2>11, <2>12, FilesMove DEF w
  <1> QED
    BY <1>3, <1>10, <1>11, <1>12


LEMMA DrainsKeep == LogInv /\ Drain => LogInv'
  <1> SUFFICES ASSUME LogInv, Drain PROVE LogInv'
    OBVIOUS
  <1>1. LogTyped /\ Memory /\ FilesRise /\ FilesFollow /\ MemoryLast /\ AllKept
    BY DEF LogInv
  <1> DEFINE m == [logger EXCEPT !.rotation = NoRotation, !.size = 0, !.queue = <<>>]
             q == logger.queue
             w == logger'
  <1>2. /\ w = FoldLeft(WriteToFile, m, q) /\ gone' = gone \cup (Range(q) \ Held(w))
        /\ UNCHANGED <<current, logFaults, sized, dated, today, lines>>
    BY DEF Drain, OnDisk
  <1>3. NoRotation \in Rotations /\ NoRotation.type = "none" /\ logger \in Memories /\ q \in Numbers /\ <<>> \in Numbers
    BY <1>1, EmptyText DEF LogTyped, Memories, NoRotation, Rotations, NoDay
  <1> HIDE DEF w, q
  <1>4. /\ m \in Memories /\ m.buffer = logger.buffer /\ m.queue = <<>> /\ m.size = 0 /\ m.seen = logger.seen
        /\ m.rotation = NoRotation /\ m.lastDate = logger.lastDate
    BY <1>3 DEF Memories
  <1> HIDE DEF m
  <1>5. Held(logger) = Range(logger.buffer) \cup Range(q) /\ Held(m) = Range(logger.buffer)
    BY <1>4, EmptyText DEF Held, q
  <1>6. Turning(m) /\ Dates(m) /\ InOrder(m)
    BY <1>1, <1>3, <1>4, EmptyText DEF Turning, Dates, InOrder, Memory
  <1>7. Increasing(q) /\ \A y \in Held(m), z \in Range(q) : y < z
    BY <1>1, <1>5 DEF Memory, InOrder, Precedes, q
  <1>8. /\ w \in Memories /\ Turning(w) /\ Dates(w) /\ InOrder(w)
        /\ Held(w) \subseteq Held(m) \cup Range(q) /\ Range(m.buffer) \subseteq Range(w.buffer)
        /\ w.size <= Len(q) /\ w.seen = m.seen
    BY <1>1, <1>2, <1>3, <1>4, <1>6, <1>7, DrainKeeps DEF LogTyped
  <1>9. w.size <= lines /\ w.seen <= lines
    <2>1. Range(q) \subseteq 1 .. lines /\ lines \in Nat
      BY <1>1, <1>5 DEF AllKept, LogTyped
    <2>2. Len(q) \in 0 .. lines
      BY <1>3, <1>7, <2>1, RisingLong
    <2>3. w.size \in Nat
      BY <1>8 DEF Memories
    <2>4. w.size <= lines
      BY <1>8, <2>1, <2>2, <2>3
    <2> QED
      BY <1>1, <1>4, <1>8, <2>4 DEF Memory
  <1>10. FilesRise' /\ FilesFollow' /\ OnFiles' = OnFiles
    BY <1>1, <1>2, FilesStay
  <1>11. MemoryLast'
    BY <1>1, <1>5, <1>8, <1>10 DEF MemoryLast, w
  <1>12. AllKept'
    <2>1. Range(logger.buffer) \subseteq Held(w) /\ Held(w) \subseteq Range(logger.buffer) \cup Range(q)
      BY <1>4, <1>5, <1>8 DEF Held
    <2>2. 1 .. lines = OnFiles \cup Held(w) \cup gone'
      BY <1>1, <1>2, <1>5, <2>1 DEF AllKept
    <2> QED
      BY <1>2, <1>10, <2>2 DEF AllKept, w
  <1>13. LogTyped'
    BY <1>1, <1>2, <1>8 DEF LogTyped, w
  <1>14. Memory'
    BY <1>2, <1>8, <1>9 DEF Memory, Turning, Dates, InOrder, w
  <1> QED
    BY <1>10, <1>11, <1>12, <1>13, <1>14 DEF LogInv

LEMMA LogStays == LogInv /\ UNCHANGED logVars => LogInv'
  <1> SUFFICES ASSUME LogInv, UNCHANGED <<current, sized, dated, logger, today, lines, logFaults, gone>> PROVE LogInv'
    BY DEF logVars
  <1>1. LogTyped /\ Memory /\ FilesRise /\ FilesFollow /\ MemoryLast /\ AllKept
    BY DEF LogInv
  <1>2. FilesRise' /\ FilesFollow' /\ OnFiles' = OnFiles
    BY <1>1, FilesStay
  <1>3. LogTyped' /\ Memory'
    BY <1>1 DEF LogTyped, Memory, Turning, Dates, InOrder
  <1>4. MemoryLast' /\ AllKept'
    BY <1>1, <1>2 DEF MemoryLast, AllKept
  <1> QED
    BY <1>2, <1>3, <1>4 DEF LogInv

LEMMA LogKeeps == LogInv /\ [LogNext]_logVars => LogInv'
  BY LineKeeps, StatReadsKeeps, StatResolvesKeeps, FlushKeeps, StreamErrorKeeps, FlushedKeeps, UnlinkKeeps,
     ShiftKeeps, RenameKeeps, DrainsKeep, MidnightKeeps, RestartsKeep, LogStays DEF LogNext

\* The texts as they are told apart in LogOrdered.
LEMMA TextsAre ==
  ASSUME LogTyped
  PROVE  /\ Texts = {current} \cup {sized[i] : i \in 1 .. LogFiles} \cup {dated[d] : d \in Days}
         /\ Range(sized) = {sized[i] : i \in 1 .. LogFiles} /\ Range(dated) = {dated[d] : d \in Days}
         /\ UNION {Range(t) : t \in Texts} = OnFiles
  <1>1. /\ current \in Numbers /\ sized \in [1 .. LogFiles -> Numbers] /\ dated \in [Days -> Numbers]
    BY DEF LogTyped
  <1>2. Range(sized) = {sized[i] : i \in 1 .. LogFiles} /\ Range(dated) = {dated[d] : d \in Days}
    BY <1>1 DEF Range
  <1>3. Texts = {current} \cup {sized[i] : i \in 1 .. LogFiles} \cup {dated[d] : d \in Days}
    BY <1>2 DEF Texts
  <1>4. /\ Range(current) \subseteq Nat /\ \A i \in 1 .. LogFiles : Range(sized[i]) \subseteq Nat
        /\ \A d \in Days : Range(dated[d]) \subseteq Nat
    BY <1>1, RangeOf
  <1>5. UNION {Range(t) : t \in Texts} = OnFiles
    BY <1>3, <1>4 DEF OnFiles
  <1> QED
    BY <1>2, <1>3, <1>5

LEMMA LogTypes == LogInv => LogTypeOK
  <1> SUFFICES ASSUME LogInv PROVE LogTypeOK
    OBVIOUS
  <1>1. LogTyped /\ Memory /\ AllKept
    BY DEF LogInv
  <1>2. \A t \in Texts : Range(t) \subseteq 1 .. lines
    <2>1. \A t \in Texts : Range(t) \subseteq OnFiles
      BY <1>1, TextsAre
    <2> QED
      BY <1>1, <2>1 DEF AllKept
  <1>3. Held(logger) \subseteq 1 .. lines /\ gone \subseteq 1 .. lines
    BY <1>1 DEF AllKept
  <1>4. DOMAIN sized = 1 .. LogFiles /\ DOMAIN dated = Days
    BY <1>1 DEF LogTyped
  <1>5. logger.lastDate \in Days \cup {NoDay}
    <2>1. logger.lastDate \in Nat /\ logger.lastDate <= today /\ today \in 1 .. MaxDays
      BY <1>1 DEF LogTyped, Memories, Memory, Dates, Days
    <2> QED
      BY <2>1 DEF Days, NoDay
  <1>6. logger.size \in 0 .. lines
    <2>1. logger.size \in Nat /\ logger.size <= lines /\ lines \in Nat
      BY <1>1 DEF LogTyped, Memories, Memory
    <2> QED
      BY <2>1
  <1>7. logger.stat \in {"asked", "read", "done"}
    BY <1>1 DEF LogTyped, Memories
  <1>8. today \in Days /\ lines \in 0 .. MaxLines /\ logFaults \in 0 .. MaxLogFaults
    BY <1>1 DEF LogTyped
  <1> QED
    BY <1>2, <1>3, <1>4, <1>5, <1>6, <1>7, <1>8 DEF LogTypeOK

\* One sequence after the other.
LEMMA Joined ==
  ASSUME NEW s \in Numbers, NEW t \in Numbers
  PROVE  /\ Range(s \o t) = Range(s) \cup Range(t)
         /\ Increasing(s) /\ Increasing(t) /\ Precedes(s, t) => Increasing(s \o t)
  <1> DEFINE u == s \o t
             a == Len(s)
             b == Len(t)
  <1>1. /\ a \in Nat /\ b \in Nat /\ DOMAIN s = 1 .. a /\ DOMAIN t = 1 .. b /\ DOMAIN u = 1 .. a + b
        /\ \A i \in 1 .. a + b : u[i] = IF i <= a THEN s[i] ELSE t[i - a]
    BY DEF Numbers
  <1> HIDE DEF u, a, b
  <1>2. \A i \in 1 .. a : i \in 1 .. a + b /\ u[i] = s[i]
    BY <1>1
  <1>3. \A j \in 1 .. b : a + j \in 1 .. a + b /\ u[a + j] = t[j]
    <2> SUFFICES ASSUME NEW j \in 1 .. b PROVE a + j \in 1 .. a + b /\ u[a + j] = t[j]
      OBVIOUS
    <2>1. a + j \in 1 .. a + b /\ ~(a + j <= a) /\ (a + j) - a = j
      BY <1>1
    <2> QED
      BY <1>1, <2>1
  <1>4. \A i \in 1 .. a + b : i \in 1 .. a \/ (~(i <= a) /\ i - a \in 1 .. b /\ u[i] = t[i - a])
    BY <1>1
  <1>5. Range(u) = Range(s) \cup Range(t)
    <2>1. Range(s) \subseteq Range(u) /\ Range(t) \subseteq Range(u)
      BY <1>1, <1>2, <1>3 DEF Range
    <2>2. Range(u) \subseteq Range(s) \cup Range(t)
      BY <1>1, <1>2, <1>4 DEF Range
    <2> QED
      BY <2>1, <2>2
  <1>6. ASSUME Increasing(s), Increasing(t), Precedes(s, t) PROVE Increasing(u)
    <2> SUFFICES ASSUME NEW i \in 1 .. a + b, NEW j \in 1 .. a + b, i < j PROVE u[i] < u[j]
      BY <1>1 DEF Increasing
    <2>1. CASE i \in 1 .. a /\ j \in 1 .. a
      BY <1>1, <1>2, <1>6, <2>1 DEF Increasing
    <2>2. CASE i \in 1 .. a /\ ~(j <= a)
      <3>1. j - a \in DOMAIN t /\ u[j] = t[j - a] /\ i \in DOMAIN s /\ u[i] = s[i]
        BY <1>1, <1>2, <1>4, <2>2
      <3> QED
        BY <1>6, <3>1 DEF Precedes, Range
    <2>3. CASE ~(i <= a)
      <3>1. ~(j <= a) /\ i - a < j - a
        BY <1>1, <2>3
      <3>2. u[i] = t[i - a] /\ u[j] = t[j - a] /\ i - a \in DOMAIN t /\ j - a \in DOMAIN t
        BY <1>1, <1>4, <2>3, <3>1
      <3> QED
        BY <1>6, <3>1, <3>2 DEF Increasing
    <2> QED
      BY <1>1, <2>1, <2>2, <2>3
  <1> QED
    BY <1>5, <1>6 DEF u

LEMMA LogHolds == LogInv => LogOrdered
  <1> SUFFICES ASSUME LogInv PROVE LogOrdered
    OBVIOUS
  <1>1. LogTyped /\ Memory /\ FilesRise /\ FilesFollow /\ MemoryLast /\ AllKept
    BY DEF LogInv
  <1> DEFINE b == logger.buffer \o logger.queue
  <1>2. Range(b) = Held(logger) /\ Increasing(b)
    <2>1. logger.buffer \in Numbers /\ logger.queue \in Numbers
      BY <1>1 DEF LogTyped, Memories
    <2> QED
      BY <1>1, <2>1, Joined DEF Memory, InOrder, Held
  <1> HIDE DEF b
  <1>3. \A t \in Texts : Increasing(t)
    BY <1>1, TextsAre DEF FilesRise
  <1>4. \A t \in Range(sized) \cup Range(dated) : Precedes(t, current)
    BY <1>1, TextsAre DEF FilesFollow
  <1>5. \A t \in Texts : Precedes(t, b)
    <2>1. \A t \in Texts : Range(t) \subseteq OnFiles
      BY <1>1, TextsAre
    <2> QED
      BY <1>1, <1>2, <2>1 DEF MemoryLast, Precedes
  <1>6. 1 .. lines = (UNION {Range(t) : t \in Texts}) \cup Held(logger) \cup gone
    BY <1>1, TextsAre DEF AllKept
  <1> QED
    BY <1>1, <1>2, <1>3, <1>4, <1>5, <1>6 DEF LogOrdered, FilesFollow, b

HIDE LogFileAssumption DEF LogFileAssumption

-----------------------------------------------------------------------------
(* The event queue *)

USE EventsAssumption DEF EventsAssumption

Places == {"none", "events", "processed", "archive"}
Handlings == {"no", "read", "written"}
Used == {f \in EvFiles : place[f] # "none"}
Visible(f) == place[f] \in {"events", "archive"}

\* The files, and what they hold.
FilesTyped ==
    /\ holds \in [EvFiles -> EventIds \cup {NoEvent}]
    /\ place \in [EvFiles -> Places]
    /\ \A f \in EvFiles : place[f] # "none" => holds[f] \in EventIds
    /\ sent \subseteq EventIds /\ posted \subseteq EventIds
\* Those who work on them.
ReadersTyped ==
    /\ heard \subseteq Used /\ noticed \subseteq Used /\ cycle.todo \subseteq Used
    /\ cycle.found \subseteq EventIds /\ cycle.on \in BOOLEAN
    /\ cycle = [todo |-> cycle.todo, found |-> cycle.found, on |-> cycle.on]
    /\ sleeping \in BOOLEAN /\ woken \in BOOLEAN
    /\ woken => sleeping
\* Names are used in their order.
UsedInOrder == \A f, g \in EvFiles : f < g /\ place[f] = "none" => place[g] = "none"
\* A file whose event was written again has a later one with the same event.
CopiedOn ==
    /\ handling \in [EvFiles -> Handlings]
    /\ \A f \in EvFiles : handling[f] # "no" => place[f] # "none"
    /\ \A f \in EvFiles : handling[f] = "written" /\ place[f] = "events" =>
           \E g \in EvFiles : g > f /\ holds[g] = holds[f] /\ Visible(g)

EventsInv == FilesTyped /\ ReadersTyped /\ UsedInOrder /\ CopiedOn /\ EventVisible

LEMMA EventsStart == EventsInit => EventsInv
  <1> SUFFICES ASSUME EventsInit PROVE EventsInv
    OBVIOUS
  <1>1. FilesTyped
    BY DEF EventsInit, FilesTyped, Places
  <1>2. ReadersTyped
    BY DEF EventsInit, ReadersTyped, Idle
  <1>3. UsedInOrder /\ CopiedOn /\ EventVisible
    BY DEF EventsInit, UsedInOrder, CopiedOn, EventVisible, Handlings
  <1> QED
    BY <1>1, <1>2, <1>3 DEF EventsInv

\* A new file: it is later than all that were used, and everything stays visible.
LEMMA FileWritten ==
  ASSUME EventsInv, NEW e \in EventIds, NewFile(e)
  PROVE  /\ FilesTyped /\ posted' \subseteq EventIds => FilesTyped'
         /\ UsedInOrder' /\ EventVisible'
         /\ Used \subseteq Used' /\ heard' \subseteq Used' /\ noticed' \subseteq Used'
         /\ \E g \in EvFiles :
              /\ place[g] = "none" /\ place'[g] = "events" /\ holds'[g] = e
              /\ \A f \in Used : f < g /\ place'[f] = place[f] /\ holds'[f] = holds[f]
              /\ \A f \in EvFiles : place'[f] # "none" => f \in Used \/ f = g
  <1>1. PICK g \in EvFiles :
          /\ place[g] = "none" /\ \A h \in 1 .. g - 1 : place[h] # "none"
          /\ holds' = [holds EXCEPT ![g] = e] /\ place' = [place EXCEPT ![g] = "events"]
          /\ noticed' = noticed \cup {g} /\ heard' = heard \cup {g}
          /\ sent' = sent \cup {e}
    BY DEF NewFile
  <1>2. FilesTyped /\ ReadersTyped /\ UsedInOrder /\ CopiedOn /\ EventVisible
    BY DEF EventsInv
  <1>3. /\ place' \in [EvFiles -> Places] /\ place'[g] = "events" /\ \A f \in EvFiles : f # g => place'[f] = place[f]
        /\ holds' \in [EvFiles -> EventIds \cup {NoEvent}] /\ holds'[g] = e
        /\ \A f \in EvFiles : f # g => holds'[f] = holds[f]
    BY <1>1, <1>2 DEF FilesTyped, Places
  <1>4. \A f \in Used : f < g
    <2> SUFFICES ASSUME NEW f \in EvFiles, place[f] # "none" PROVE f < g
      BY DEF Used
    <2> QED
      BY <1>1, <1>2 DEF UsedInOrder, EvFiles
  <1>5. \A f \in EvFiles : place'[f] # "none" <=> f \in Used \/ f = g
    BY <1>1, <1>3 DEF Used
  <1>6. Used \subseteq Used' /\ g \in Used'
    BY <1>1, <1>5 DEF Used
  <1>7. UsedInOrder'
    <2> SUFFICES ASSUME NEW f \in EvFiles, NEW h \in EvFiles, f < h, place'[f] = "none", place'[h] # "none" PROVE FALSE
      BY DEF UsedInOrder
    <2>1. h \in Used \/ h = g
      BY <1>5
    <2>2. f \notin Used /\ f # g
      BY <1>5
    <2>3. h # g
      BY <1>1, <2>2 DEF Used, EvFiles
    <2> QED
      BY <1>2, <2>1, <2>2, <2>3 DEF UsedInOrder, Used
  <1>8. EventVisible'
    <2> SUFFICES ASSUME NEW x \in sent', ~ \E f \in EvFiles : holds'[f] = x /\ place'[f] \in {"events", "archive"}
                 PROVE  FALSE
      BY DEF EventVisible
    <2>1. x # e
      BY <1>3
    <2>2. PICK f \in EvFiles : holds[f] = x /\ place[f] \in {"events", "archive"}
      BY <1>1, <1>2, <2>1 DEF EventVisible
    <2>3. f # g
      BY <1>1, <2>2
    <2> QED
      BY <1>3, <2>2, <2>3
  <1>9. posted' \subseteq EventIds => FilesTyped'
    BY <1>1, <1>2, <1>3 DEF FilesTyped
  <1>10. heard' \subseteq Used' /\ noticed' \subseteq Used'
    BY <1>1, <1>2, <1>6 DEF ReadersTyped
  <1>11. \A f \in Used : f # g
    BY <1>1 DEF Used
  <1>12. \A f \in Used : f < g /\ place'[f] = place[f] /\ holds'[f] = holds[f]
    BY <1>3, <1>4, <1>11 DEF Used
  <1> QED
    BY <1>1, <1>3, <1>5, <1>6, <1>7, <1>8, <1>9, <1>10, <1>12

\* So whoever has an event written keeps what was copied on.
LEMMA StillCopied ==
  ASSUME EventsInv, NEW e \in EventIds, NewFile(e),
         handling' \in [EvFiles -> Handlings],
         \A f \in EvFiles : handling'[f] = "written" => handling[f] = "written" \/ (f \in Used /\ holds[f] = e),
         \A f \in EvFiles : handling'[f] # "no" => f \in Used
  PROVE  CopiedOn'
  <1>1. PICK g \in EvFiles :
          /\ place[g] = "none" /\ place'[g] = "events" /\ holds'[g] = e
          /\ \A f \in Used : f < g /\ place'[f] = place[f] /\ holds'[f] = holds[f]
          /\ \A f \in EvFiles : place'[f] # "none" => f \in Used \/ f = g
    BY FileWritten
  <1>2. CopiedOn
    BY DEF EventsInv
  <1>3. \A f \in EvFiles : handling'[f] # "no" => place'[f] # "none"
    BY <1>1 DEF Used
  <1>4. ASSUME NEW f \in EvFiles, handling'[f] = "written", place'[f] = "events"
        PROVE  \E h \in EvFiles : h > f /\ holds'[h] = holds'[f] /\ place'[h] \in {"events", "archive"}
    <2>1. f \in Used
      BY <1>4
    <2>2. f < g /\ place[f] = "events" /\ holds'[f] = holds[f]
      BY <1>1, <1>4, <2>1
    <2>3. CASE holds[f] = e
      BY <1>1, <2>2, <2>3
    <2>4. CASE handling[f] = "written"
      <3>1. PICK h \in EvFiles : h > f /\ holds[h] = holds[f] /\ place[h] \in {"events", "archive"}
        BY <1>2, <2>2, <2>4 DEF CopiedOn, Visible
      <3>2. h \in Used
        BY <3>1 DEF Used
      <3> QED
        BY <1>1, <2>2, <3>1, <3>2
    <2> QED
      BY <1>4, <2>1, <2>3, <2>4
  <1> QED
    BY <1>3, <1>4 DEF CopiedOn, Visible

\* What moves a file to where it is still visible, or one whose event was copied
\* on, hides nothing.
LEMMA FileMoved ==
  ASSUME EventsInv, NEW f \in EvFiles, NEW to \in {"processed", "archive"}, f \in InQueue, MoveFile(f, to),
         UNCHANGED <<holds, sent, posted>>,
         to = "archive" \/ handling[f] = "written",
         handling' \in [EvFiles -> Handlings],
         \A g \in EvFiles : handling'[g] # "no" => handling'[g] = handling[g]
  PROVE  /\ FilesTyped' /\ UsedInOrder' /\ CopiedOn' /\ EventVisible'
         /\ Used' = Used /\ heard' \subseteq Used /\ noticed' \subseteq Used
  <1>1. FilesTyped /\ ReadersTyped /\ UsedInOrder /\ CopiedOn /\ EventVisible
    BY DEF EventsInv
  <1>2. /\ place' \in [EvFiles -> Places] /\ place'[f] = to /\ \A g \in EvFiles : g # f => place'[g] = place[g]
        /\ place[f] = "events" /\ holds' = holds
    BY <1>1 DEF MoveFile, FilesTyped, Places, InQueue
  <1>3. Used' = Used /\ f \in Used
    BY <1>2 DEF Used
  <1>4. heard' \subseteq Used /\ noticed' \subseteq Used
    BY <1>1, <1>3 DEF MoveFile, ReadersTyped
  <1>5. FilesTyped' /\ UsedInOrder'
    <2>1. \A g \in EvFiles : place'[g] = "none" <=> place[g] = "none"
      BY <1>2
    <2> QED
      BY <1>1, <1>2, <2>1 DEF FilesTyped, UsedInOrder
  \* Whoever had another visible file for the event of g still has one.
  <1>6. ASSUME NEW g \in EvFiles, NEW h \in EvFiles, h > g, holds[h] = holds[g], Visible(h)
        PROVE  \E k \in EvFiles : k > g /\ holds[k] = holds[g] /\ place'[k] \in {"events", "archive"}
    <2>1. CASE h # f \/ to = "archive"
      BY <1>2, <1>6, <2>1 DEF Visible
    <2>2. CASE h = f /\ handling[f] = "written"
      <3>1. PICK k \in EvFiles : k > f /\ holds[k] = holds[f] /\ Visible(k)
        BY <1>1, <1>2, <2>2 DEF CopiedOn
      <3>2. k > g /\ k # f
        BY <1>6, <2>2, <3>1 DEF EvFiles
      <3> QED
        BY <1>2, <1>6, <2>2, <3>1, <3>2 DEF Visible
    <2> QED
      BY <2>1, <2>2
  <1>7. CopiedOn'
    <2>1. \A g \in EvFiles : handling'[g] # "no" => place'[g] # "none"
      BY <1>1, <1>2 DEF CopiedOn
    <2>2. ASSUME NEW g \in EvFiles, handling'[g] = "written", place'[g] = "events"
          PROVE  \E k \in EvFiles : k > g /\ holds'[k] = holds'[g] /\ place'[k] \in {"events", "archive"}
      <3>1. g # f /\ handling[g] = "written" /\ place[g] = "events"
        BY <1>2, <2>2
      <3>2. PICK h \in EvFiles : h > g /\ holds[h] = holds[g] /\ Visible(h)
        BY <1>1, <3>1 DEF CopiedOn
      <3> QED
        BY <1>2, <1>6, <3>2
    <2> QED
      BY <2>1, <2>2 DEF CopiedOn, Visible
  <1>8. EventVisible'
    <2> SUFFICES ASSUME NEW e \in sent
                 PROVE  \E h \in EvFiles : holds[h] = e /\ place'[h] \in {"events", "archive"}
      BY <1>2 DEF EventVisible
    <2>1. PICK h \in EvFiles : holds[h] = e /\ place[h] \in {"events", "archive"}
      BY <1>1 DEF EventVisible
    <2>2. CASE h # f \/ to = "archive"
      BY <1>2, <2>1, <2>2
    <2>3. CASE h = f /\ handling[f] = "written"
      <3>1. PICK k \in EvFiles : k > f /\ holds[k] = holds[f] /\ Visible(k)
        BY <1>1, <1>2, <2>3 DEF CopiedOn
      <3>2. k # f
        BY <3>1 DEF EvFiles
      <3> QED
        BY <1>2, <2>1, <2>3, <3>1, <3>2 DEF Visible
    <2> QED
      BY <2>2, <2>3
  <1> QED
    BY <1>3, <1>4, <1>5, <1>7, <1>8

\* A step that leaves the files alone.
LEMMA FilesUntouched ==
  ASSUME EventsInv, UNCHANGED <<holds, place, sent>>, posted' \subseteq EventIds,
         heard' \subseteq heard, noticed' \subseteq noticed,
         handling' \in [EvFiles -> Handlings],
         \A f \in EvFiles : handling'[f] # "no" => handling'[f] = handling[f] \/ (handling'[f] = "read" /\ f \in InQueue)
  PROVE  /\ FilesTyped' /\ UsedInOrder' /\ CopiedOn' /\ EventVisible'
         /\ Used' = Used /\ heard' \subseteq Used /\ noticed' \subseteq Used
  <1>1. FilesTyped /\ ReadersTyped /\ UsedInOrder /\ CopiedOn /\ EventVisible
    BY DEF EventsInv
  <1>2. Used' = Used /\ heard' \subseteq Used /\ noticed' \subseteq Used
    BY <1>1 DEF Used, ReadersTyped
  <1>3. FilesTyped' /\ UsedInOrder' /\ EventVisible'
    BY <1>1 DEF FilesTyped, UsedInOrder, EventVisible
  <1>4. CopiedOn'
    BY <1>1 DEF CopiedOn, InQueue, Visible
  <1> QED
    BY <1>2, <1>3, <1>4

LEMMA CycleKept ==
  ASSUME ReadersTyped, UNCHANGED <<sleeping, woken, cycle>>, Used \subseteq Used',
         heard' \subseteq Used', noticed' \subseteq Used'
  PROVE  ReadersTyped'
  BY DEF ReadersTyped

LEMMA EventsKeep == EventsInv /\ [EventsNext]_eventVars => EventsInv'
  <1> SUFFICES ASSUME EventsInv, [EventsNext]_eventVars PROVE EventsInv'
    OBVIOUS
  <1>1. FilesTyped /\ ReadersTyped /\ UsedInOrder /\ CopiedOn /\ EventVisible
    BY DEF EventsInv
  <1>2. handling \in [EvFiles -> Handlings] /\ posted \subseteq EventIds
        /\ \A f \in EvFiles : handling[f] # "no" => f \in Used
    BY <1>1 DEF CopiedOn, FilesTyped, Used
  <1>3. ASSUME NEW e \in EventIds, NewFile(e), posted' \subseteq EventIds, UNCHANGED <<handling, sleeping, woken, cycle>>
        PROVE  EventsInv'
    <2>1. FilesTyped' /\ UsedInOrder' /\ EventVisible' /\ Used \subseteq Used' /\ heard' \subseteq Used' /\ noticed' \subseteq Used'
      BY <1>1, <1>3, FileWritten
    <2>2. CopiedOn'
      BY <1>2, <1>3, StillCopied
    <2>3. ReadersTyped'
      BY <1>1, <1>3, <2>1, CycleKept
    <2> QED
      BY <2>1, <2>2, <2>3 DEF EventsInv
  <1>4. ASSUME UNCHANGED <<holds, place, sent, noticed, heard, handling, sleeping, woken, cycle>>,
               posted' \subseteq EventIds
        PROVE  EventsInv'
    <2>1. FilesTyped' /\ UsedInOrder' /\ CopiedOn' /\ EventVisible'
          /\ Used' = Used /\ heard' \subseteq Used /\ noticed' \subseteq Used
      BY <1>2, <1>4, FilesUntouched
    <2>2. ReadersTyped'
      BY <1>1, <1>4, <2>1, CycleKept
    <2> QED
      BY <2>1, <2>2 DEF EventsInv
  <1>5. ASSUME NEW e \in EventIds, Drop(e) \/ Post(e) \/ WriteEvent(e) PROVE EventsInv'
    <2>1. CASE Drop(e)
      BY <1>2, <1>3, <2>1 DEF Drop
    <2>2. CASE Post(e)
      BY <1>2, <1>4, <2>2 DEF Post
    <2>3. CASE WriteEvent(e)
      BY <1>2, <1>3, <1>4, <2>3 DEF WriteEvent
    <2> QED
      BY <1>5, <2>1, <2>2, <2>3
  <1>6. ASSUME NEW f \in EvFiles, ReadEventFile(f) PROVE EventsInv'
    <2>1. UNCHANGED <<holds, place, sent, posted, heard, sleeping, woken, cycle>> /\ noticed' \subseteq noticed
          /\ handling' = [handling EXCEPT ![f] = IF f \in InQueue THEN "read" ELSE "no"]
      BY <1>6 DEF ReadEventFile
    <2>2. handling' \in [EvFiles -> Handlings]
          /\ \A g \in EvFiles : handling'[g] # "no" => handling'[g] = handling[g] \/ (handling'[g] = "read" /\ g \in InQueue)
      BY <1>2, <2>1 DEF Handlings
    <2>3. FilesTyped' /\ UsedInOrder' /\ CopiedOn' /\ EventVisible'
          /\ Used' = Used /\ heard' \subseteq Used /\ noticed' \subseteq Used
      BY <1>2, <2>1, <2>2, FilesUntouched
    <2>4. ReadersTyped'
      BY <1>1, <2>1, <2>3, CycleKept
    <2> QED
      BY <2>3, <2>4 DEF EventsInv
  <1>7. ASSUME NEW f \in EvFiles, Redispatch(f) PROVE EventsInv'
    <2>1. handling[f] = "read" /\ UNCHANGED <<posted, sleeping, woken, cycle>>
      BY <1>7 DEF Redispatch
    <2>2. f \in Used /\ holds[f] \in EventIds
      BY <1>1, <1>2, <2>1 DEF FilesTyped, Used
    <2>3. CASE NewFile(holds[f]) /\ handling' = [handling EXCEPT ![f] = "written"]
      <3>1. FilesTyped' /\ UsedInOrder' /\ EventVisible' /\ Used \subseteq Used' /\ heard' \subseteq Used' /\ noticed' \subseteq Used'
        BY <1>1, <1>2, <2>1, <2>2, <2>3, FileWritten
      <3>2. /\ handling' \in [EvFiles -> Handlings]
            /\ \A g \in EvFiles : handling'[g] # "no" => g \in Used
            /\ \A g \in EvFiles : handling'[g] = "written" => handling[g] = "written" \/ (g \in Used /\ holds[g] = holds[f])
        BY <1>2, <2>2, <2>3 DEF Handlings
      <3>3. CopiedOn'
        BY <2>2, <2>3, <3>2, StillCopied
      <3>4. ReadersTyped'
        BY <1>1, <2>1, <3>1, CycleKept
      <3> QED
        BY <3>1, <3>3, <3>4 DEF EventsInv
    <2>4. CASE handling' = [handling EXCEPT ![f] = "no"] /\ UNCHANGED <<holds, place, sent, noticed, heard>>
      <3>1. handling' \in [EvFiles -> Handlings]
            /\ \A g \in EvFiles : handling'[g] # "no" => handling'[g] = handling[g]
        BY <1>2, <2>4 DEF Handlings
      <3>2. FilesTyped' /\ UsedInOrder' /\ CopiedOn' /\ EventVisible'
            /\ Used' = Used /\ heard' \subseteq Used /\ noticed' \subseteq Used
        BY <1>2, <2>1, <2>4, <3>1, FilesUntouched
      <3>3. ReadersTyped'
        BY <1>1, <2>1, <3>2, CycleKept
      <3> QED
        BY <3>2, <3>3 DEF EventsInv
    <2> QED
      BY <1>7, <2>3, <2>4 DEF Redispatch
  <1>8. ASSUME NEW f \in EvFiles, MoveProcessed(f) PROVE EventsInv'
    <2>1. handling[f] = "written" /\ handling' = [handling EXCEPT ![f] = "no"]
          /\ UNCHANGED <<holds, sent, posted, sleeping, woken, cycle>>
      BY <1>8 DEF MoveProcessed, MayMove
    <2>2. handling' \in [EvFiles -> Handlings]
          /\ \A g \in EvFiles : handling'[g] # "no" => handling'[g] = handling[g]
      BY <1>2, <2>1 DEF Handlings
    <2>3. CASE f \in InQueue
      <3>1. MoveFile(f, "processed")
        BY <1>8, <2>3 DEF MoveProcessed
      <3>2. FilesTyped' /\ UsedInOrder' /\ CopiedOn' /\ EventVisible'
            /\ Used' = Used /\ heard' \subseteq Used /\ noticed' \subseteq Used
        BY <2>1, <2>2, <2>3, <3>1, FileMoved
      <3>3. ReadersTyped'
        BY <1>1, <2>1, <3>2, CycleKept
      <3> QED
        BY <3>2, <3>3 DEF EventsInv
    <2>4. CASE f \notin InQueue
      <3>1. UNCHANGED <<place, noticed, heard>>
        BY <1>8, <2>4 DEF MoveProcessed
      <3>2. FilesTyped' /\ UsedInOrder' /\ CopiedOn' /\ EventVisible'
            /\ Used' = Used /\ heard' \subseteq Used /\ noticed' \subseteq Used
        BY <1>2, <2>1, <2>2, <3>1, FilesUntouched
      <3>3. ReadersTyped'
        BY <1>1, <2>1, <3>2, CycleKept
      <3> QED
        BY <3>2, <3>3 DEF EventsInv
    <2> QED
      BY <2>3, <2>4
  <1>9. ASSUME NEW f \in EvFiles, ArchiveEvent(f) PROVE EventsInv'
    <2>1. f \in InQueue /\ MoveFile(f, "archive") /\ UNCHANGED <<holds, sent, posted, handling, sleeping, woken, cycle>>
      BY <1>9 DEF ArchiveEvent
    <2>2. FilesTyped' /\ UsedInOrder' /\ CopiedOn' /\ EventVisible'
          /\ Used' = Used /\ heard' \subseteq Used /\ noticed' \subseteq Used
      BY <1>2, <2>1, FileMoved
    <2>3. ReadersTyped'
      BY <1>1, <2>1, <2>2, CycleKept
    <2> QED
      BY <2>2, <2>3 DEF EventsInv
  \* The daemon and its watcher only look at the files.
  <1>10. ASSUME UNCHANGED <<holds, place, sent, posted, noticed, handling>>, heard' \subseteq heard, ReadersTyped'
         PROVE  EventsInv'
    <2>1. FilesTyped' /\ UsedInOrder' /\ CopiedOn' /\ EventVisible'
      BY <1>2, <1>10, FilesUntouched
    <2> QED
      BY <1>10, <2>1 DEF EventsInv
  <1>11. ASSUME UNCHANGED <<holds, place, noticed>>, heard' \subseteq heard, woken' \in BOOLEAN, sleeping' \in BOOLEAN,
                woken' => sleeping', cycle'.todo \subseteq Used, cycle'.found \subseteq EventIds, cycle'.on \in BOOLEAN,
                cycle' = [todo |-> cycle'.todo, found |-> cycle'.found, on |-> cycle'.on]
         PROVE  ReadersTyped'
    <2>1. Used' = Used
      BY <1>11 DEF Used
    <2> QED
      BY <1>1, <1>11, <2>1 DEF ReadersTyped
  <1>12. cycle.todo \subseteq Used /\ cycle.found \subseteq EventIds /\ cycle.on \in BOOLEAN /\ (woken => sleeping)
         /\ cycle = [todo |-> cycle.todo, found |-> cycle.found, on |-> cycle.on]
         /\ woken \in BOOLEAN /\ sleeping \in BOOLEAN /\ InQueue \subseteq Used
    BY <1>1 DEF ReadersTyped, InQueue, Used
  <1>13. ASSUME NEW f \in EvFiles, HandleWatchEvent(f) PROVE EventsInv'
    <2>1. UNCHANGED <<holds, place, sent, posted, noticed, handling, sleeping, cycle>> /\ heard' \subseteq heard
          /\ woken' = (woken \/ (sleeping /\ f \in InQueue))
      BY <1>13 DEF HandleWatchEvent
    <2>2. woken' \in BOOLEAN /\ (woken' => sleeping')
      BY <1>12, <2>1
    <2>3. ReadersTyped'
      BY <1>11, <1>12, <2>1, <2>2
    <2> QED
      BY <1>10, <2>1, <2>3
  <1>14. CASE StartCycle
    <2>1. UNCHANGED <<holds, place, sent, posted, noticed, handling, heard>>
          /\ cycle' = [todo |-> InQueue, found |-> {}, on |-> TRUE] /\ sleeping' = FALSE /\ woken' = FALSE
      BY <1>14 DEF StartCycle
    <2>2. cycle'.todo = InQueue /\ cycle'.found = {} /\ cycle'.on = TRUE
      BY <2>1
    <2>3. ReadersTyped'
      BY <1>11, <1>12, <2>1, <2>2
    <2> QED
      BY <1>10, <2>1, <2>3
  <1>15. ASSUME NEW f \in EvFiles, ReadEventQueue(f) PROVE EventsInv'
    <2>1. UNCHANGED <<holds, place, sent, posted, noticed, handling, heard, sleeping, woken>> /\ f \in cycle.todo
          /\ cycle' = [cycle EXCEPT !.todo = @ \ {f}, !.found = IF f \in InQueue THEN @ \cup {holds[f]} ELSE @]
      BY <1>15 DEF ReadEventQueue
    <2>2. cycle' = [todo |-> cycle.todo \ {f},
                    found |-> IF f \in InQueue THEN cycle.found \cup {holds[f]} ELSE cycle.found,
                    on |-> cycle.on]
      BY <1>12, <2>1
    <2>3. holds[f] \in EventIds
      BY <1>1, <1>12, <2>1 DEF FilesTyped, Used
    <2>4. cycle'.todo = cycle.todo \ {f} /\ cycle'.found \subseteq EventIds /\ cycle'.on = cycle.on
      BY <1>12, <2>2, <2>3
    <2>5. cycle' = [todo |-> cycle'.todo, found |-> cycle'.found, on |-> cycle'.on]
      BY <2>2
    <2>6. ReadersTyped'
      BY <1>11, <1>12, <2>1, <2>4, <2>5
    <2> QED
      BY <1>10, <2>1, <2>6
  <1>16. CASE EndCycle
    <2>1. UNCHANGED <<holds, place, sent, posted, noticed, handling, heard, woken>> /\ cycle' = Idle /\ sleeping' = TRUE
      BY <1>16 DEF EndCycle
    <2>2. cycle'.todo = {} /\ cycle'.found = {} /\ cycle'.on = FALSE
          /\ cycle' = [todo |-> cycle'.todo, found |-> cycle'.found, on |-> cycle'.on]
      BY <2>1 DEF Idle
    <2>3. ReadersTyped'
      BY <1>11, <1>12, <2>1, <2>2
    <2> QED
      BY <1>10, <2>1, <2>3
  <1>17. CASE WakeUp
    <2>1. UNCHANGED <<holds, place, sent, posted, noticed, handling, heard, sleeping, cycle>> /\ sleeping /\ woken' = TRUE
      BY <1>17 DEF WakeUp
    <2>2. ReadersTyped'
      BY <1>11, <1>12, <2>1
    <2> QED
      BY <1>10, <2>1, <2>2
  <1>18. CASE DaemonDies
    <2>1. /\ UNCHANGED <<holds, place, sent>> /\ posted' = {} /\ noticed' = {} /\ heard' = {}
          /\ handling' = [f \in EvFiles |-> "no"] /\ sleeping' = FALSE /\ woken' = FALSE /\ cycle' = Idle
      BY <1>18 DEF DaemonDies
    <2>2. handling' \in [EvFiles -> Handlings] /\ \A f \in EvFiles : handling'[f] = "no"
      BY <2>1 DEF Handlings
    <2>3. FilesTyped' /\ UsedInOrder' /\ CopiedOn' /\ EventVisible' /\ Used' = Used
      BY <2>1, <2>2, FilesUntouched
    <2>4. ReadersTyped'
      BY <2>1 DEF ReadersTyped, Idle
    <2> QED
      BY <2>3, <2>4 DEF EventsInv
  <1>19. CASE UNCHANGED eventVars
    BY <1>2, <1>4, <1>19 DEF eventVars
  <1> QED
    BY <1>5, <1>6, <1>7, <1>8, <1>9, <1>13, <1>14, <1>15, <1>16, <1>17, <1>18, <1>19 DEF EventsNext

LEMMA EventTypes == EventsInv => EventsTypeOK
  <1> SUFFICES ASSUME EventsInv PROVE EventsTypeOK
    OBVIOUS
  <1>1. heard \cup noticed \cup cycle.todo \subseteq {f \in EvFiles : place[f] # "none"} /\ (woken => sleeping)
    BY DEF EventsInv, ReadersTyped, Used
  <1> QED
    BY <1>1 DEF EventsInv, FilesTyped, CopiedOn, Places, Handlings, EventsTypeOK

HIDE EventsAssumption DEF EventsAssumption

-----------------------------------------------------------------------------
(* Agents: requests over ACP and A2A, and issues *)

USE AgentsAssumption DEF AgentsAssumption

AcpReasons == {"none", "completed", "error", "timeout"}
AcpResults == [from : Nat, reason : AcpReasons]
AcpAnswers == [id : Requests, kind : {"result", "error"}]

\* Whoever gave the session its key is not waited for any more.
AcpInv ==
    /\ child \in {"none", "alive", "exited", "killed"} /\ request \in 0 .. MaxRequests
    /\ pending \subseteq 1 .. request /\ working \subseteq Requests /\ answers \subseteq AcpAnswers
    /\ acpResult \in [Requests -> AcpResults]
    /\ sessionKey \in 0 .. request /\ sessionKey \notin pending
    /\ OwnAnswer

LEMMA AcpStart == AcpInit => AcpInv
  BY DEF AcpInit, AcpInv, OwnAnswer, AcpResults, AcpReasons

\* What is reported of some requests that were waited for.
LEMMA AcpReported ==
  ASSUME AcpInv, NEW S \in SUBSET pending, NEW from \in Nat, NEW reason \in AcpReasons, AcpReport(S, from, reason),
         reason = "completed" => S \subseteq {from}
  PROVE  /\ acpResult' \in [Requests -> AcpResults] /\ pending' \subseteq 1 .. request
         /\ \A i \in Requests : acpResult'[i].reason = "completed" => acpResult'[i].from = i
         /\ \A i \in Requests \ S : acpResult'[i] = acpResult[i]
         /\ \A i \in Requests \cap S : acpResult'[i].reason = reason
         /\ pending' = pending \ S
  <1> DEFINE r == [from |-> from, reason |-> reason]
  <1>1. r \in AcpResults /\ r.reason = reason /\ r.from = from
    BY DEF AcpResults
  <1>2. acpResult' = [i \in Requests |-> IF i \in S THEN r ELSE acpResult[i]] /\ pending' = pending \ S
    BY DEF AcpReport
  <1>3. acpResult \in [Requests -> AcpResults] /\ pending \subseteq 1 .. request
        /\ \A i \in Requests : acpResult[i].reason = "completed" => acpResult[i].from = i
    BY DEF AcpInv, OwnAnswer
  <1> HIDE DEF r
  <1> QED
    BY <1>1, <1>2, <1>3

LEMMA AcpKeeps == AcpInv /\ [AcpStep]_acpVars => AcpInv'
  <1> SUFFICES ASSUME AcpInv, [AcpStep]_acpVars PROVE AcpInv'
    OBVIOUS
  <1>1. /\ child \in {"none", "alive", "exited", "killed"} /\ request \in 0 .. MaxRequests
        /\ pending \subseteq 1 .. request /\ working \subseteq Requests /\ answers \subseteq AcpAnswers
        /\ acpResult \in [Requests -> AcpResults]
        /\ sessionKey \in 0 .. request /\ sessionKey \notin pending
    BY DEF AcpInv
  <1>2. /\ \A i \in Requests : acpResult[i].reason = "completed" => acpResult[i].from = i
        /\ sessionKey # 0 => acpResult[sessionKey].reason = "completed"
    BY DEF AcpInv, OwnAnswer
  <1>3. CASE ExecuteACP
    <2>1. request' = request + 1 /\ request' \in 0 .. MaxRequests /\ request' \in Requests
          /\ pending' = pending \cup {request'} /\ UNCHANGED <<sessionKey, acpResult>>
      BY <1>1, <1>3 DEF ExecuteACP, Requests
    <2>2. pending' \subseteq 1 .. request' /\ sessionKey' \in 0 .. request' /\ sessionKey' \notin pending'
      BY <1>1, <2>1
    <2>3. child' \in {"none", "alive", "exited", "killed"} /\ working' \subseteq Requests /\ answers' \subseteq AcpAnswers
      BY <1>1, <1>3, <2>1 DEF ExecuteACP
    <2> QED
      BY <1>1, <1>2, <2>1, <2>2, <2>3 DEF AcpInv, OwnAnswer
  <1>4. CASE AgentAnswers
    <2>1. answers' \subseteq AcpAnswers /\ working' \subseteq Requests
          /\ UNCHANGED <<child, request, pending, sessionKey, acpResult>>
      BY <1>1, <1>4 DEF AgentAnswers, AcpAnswers
    <2> QED
      BY <1>1, <1>2, <2>1 DEF AcpInv, OwnAnswer
  <1>5. CASE OnData
    <2>1. PICK a \in answers :
            /\ answers' = answers \ {a}
            /\ AcpReport(TakenBy(a), a.id, IF a.kind = "result" THEN "completed" ELSE "error")
            /\ sessionKey' = IF TakenBy(a) # {} /\ a.kind = "result" THEN a.id ELSE sessionKey
      BY <1>5 DEF OnData
    <2> DEFINE reason == IF a.kind = "result" THEN "completed" ELSE "error"
    <2>2. a.id \in Requests /\ a.id \in Nat /\ reason \in AcpReasons
      BY <1>1 DEF AcpAnswers, Requests, AcpReasons
    <2>3. TakenBy(a) \subseteq pending /\ TakenBy(a) \subseteq {a.id}
      BY DEF TakenBy
    <2>4. AcpReport(TakenBy(a), a.id, reason)
      BY <2>1
    <2>5. reason = "completed" <=> a.kind = "result"
      OBVIOUS
    <2> HIDE DEF reason
    <2>6. /\ acpResult' \in [Requests -> AcpResults] /\ pending' \subseteq 1 .. request
          /\ \A i \in Requests : acpResult'[i].reason = "completed" => acpResult'[i].from = i
          /\ \A i \in Requests \ TakenBy(a) : acpResult'[i] = acpResult[i]
          /\ \A i \in Requests \cap TakenBy(a) : acpResult'[i].reason = reason
          /\ pending' = pending \ TakenBy(a)
      BY <2>2, <2>3, <2>4, AcpReported
    <2>7. UNCHANGED <<child, request, working>> /\ answers' \subseteq AcpAnswers
      BY <1>1, <1>5, <2>1 DEF OnData
    <2>8. CASE TakenBy(a) # {} /\ a.kind = "result"
      <3>1. TakenBy(a) = {a.id} /\ a.id \in pending /\ sessionKey' = a.id
        BY <2>1, <2>3, <2>8 DEF TakenBy
      <3>2. sessionKey' \in 0 .. request /\ sessionKey' \notin pending' /\ acpResult'[sessionKey'].reason = "completed"
        BY <1>1, <2>2, <2>5, <2>6, <2>8, <3>1
      <3> QED
        BY <1>1, <2>6, <2>7, <3>2 DEF AcpInv, OwnAnswer
    <2>9. CASE ~(TakenBy(a) # {} /\ a.kind = "result")
      <3>1. sessionKey' = sessionKey /\ sessionKey' \notin pending'
        BY <1>1, <2>1, <2>6, <2>9
      <3>2. sessionKey # 0 => sessionKey \in Requests \ TakenBy(a)
        BY <1>1, <2>3 DEF Requests
      <3>3. sessionKey' # 0 => acpResult'[sessionKey'].reason = "completed"
        BY <1>2, <2>6, <3>1, <3>2
      <3> QED
        BY <1>1, <2>6, <2>7, <3>1, <3>3 DEF AcpInv, OwnAnswer
    <2> QED
      BY <2>8, <2>9
  <1>6. ASSUME NEW S \in SUBSET pending, NEW reason \in {"error", "timeout"}, AcpReport(S, 0, reason),
               UNCHANGED <<request, sessionKey>>, child' \in {"none", "alive", "exited", "killed"},
               working' \subseteq Requests, answers' \subseteq AcpAnswers
        PROVE  AcpInv'
    <2>1. reason \in AcpReasons /\ reason # "completed" /\ 0 \in Nat
      BY DEF AcpReasons
    <2>2. /\ acpResult' \in [Requests -> AcpResults] /\ pending' \subseteq 1 .. request
          /\ \A i \in Requests : acpResult'[i].reason = "completed" => acpResult'[i].from = i
          /\ \A i \in Requests \ S : acpResult'[i] = acpResult[i]
          /\ pending' = pending \ S
      BY <1>6, <2>1, AcpReported
    <2>3. sessionKey # 0 => sessionKey \in Requests \ S
      BY <1>1 DEF Requests
    <2>4. sessionKey' \notin pending' /\ (sessionKey' # 0 => acpResult'[sessionKey'].reason = "completed")
      BY <1>1, <1>2, <1>6, <2>2, <2>3
    <2> QED
      BY <1>1, <1>6, <2>2, <2>4 DEF AcpInv, OwnAnswer
  <1>7. CASE OnClose
    BY <1>6, <1>7 DEF OnClose
  <1>8. ASSUME NEW i \in Requests, OnAbort(i) PROVE AcpInv'
    BY <1>1, <1>6, <1>8 DEF OnAbort, TimesOut
  <1>9. CASE UNCHANGED acpVars
    BY <1>1, <1>2, <1>9 DEF acpVars, AcpInv, OwnAnswer
  <1> QED
    BY <1>3, <1>4, <1>5, <1>7, <1>8, <1>9 DEF AcpStep

-----------------------------------------------------------------------------
(* Agents: a task of another machine *)

\* What was seen of a task that is over is how it is.
A2AInv ==
    /\ remote \in A2AStates \cup {"none"} /\ seen \in A2AStates \cup {"none"}
    /\ polls \in 0 .. MaxWait
    /\ a2aPc \in {"idle", "send", "poll", "stream"}
    /\ aborted \in BOOLEAN
    /\ a2aResult \in AcpReasons
    /\ seen \in Terminal => remote = seen
    /\ RemoteCompleted

LEMMA A2AStart == A2AInit => A2AInv
  <1> SUFFICES ASSUME A2AInit PROVE A2AInv
    OBVIOUS
  <1>1. polls \in 0 .. MaxWait
    BY DEF A2AInit
  <1>2. remote = "none" /\ a2aPc = "idle" /\ seen = "none" /\ aborted = FALSE /\ a2aResult = "none"
    BY DEF A2AInit
  <1> QED
    BY <1>1, <1>2 DEF A2AInv, RemoteCompleted, Terminal, AcpReasons

LEMMA A2AKeeps == A2AInv /\ [A2AStep]_a2aVars => A2AInv'
  <1> SUFFICES ASSUME A2AInv, [A2AStep]_a2aVars PROVE A2AInv'
    OBVIOUS
  <1> USE DEF A2AInv, RemoteCompleted
  <1>1. \A s : ReasonOf(s) \in {"completed", "timeout", "error"} /\ (ReasonOf(s) = "completed" => s = "completed")
    BY DEF ReasonOf
  <1>2. Answered => \/ a2aResult' = ReasonOf(remote) /\ a2aPc' = "idle"
                    \/ a2aPc' = "poll" /\ UNCHANGED a2aResult
    BY DEF Answered, A2AReport
  <1>3. CASE ExecuteA2A
    <2>1. polls' \in 0 .. MaxWait /\ remote' = "submitted" /\ a2aPc' \in {"stream", "send"} /\ seen' = "none"
          /\ aborted' = FALSE /\ a2aResult' = "none"
      BY <1>3 DEF ExecuteA2A
    <2> QED
      BY <2>1 DEF A2AStates, Terminal, AcpReasons
  <1>4. CASE RemoteMoves
    BY <1>4 DEF RemoteMoves, Terminal
  <1>5. CASE TimerRunsOut
    BY <1>5 DEF TimerRunsOut
  <1>6. CASE CallFails
    BY <1>6 DEF CallFails, A2AReport, AcpReasons
  <1>7. CASE SendTask
    BY <1>1, <1>2, <1>7 DEF SendTask, AcpReasons
  <1>8. CASE WaitForCompletion
    <2>1. CASE polls = MaxWait
      <3>1. a2aResult' = "timeout" /\ a2aPc' = "idle" /\ UNCHANGED <<polls, seen, aborted>>
            /\ (remote' = remote \/ (remote \notin Terminal /\ remote' = "canceled"))
        BY <1>8, <2>1 DEF WaitForCompletion, A2AReport
      <3> QED
        BY <3>1 DEF AcpReasons, A2AStates, Terminal
    <2>2. CASE polls # MaxWait /\ aborted
      BY <1>8, <2>2 DEF WaitForCompletion, A2AReport, AcpReasons
    <2>3. CASE polls # MaxWait /\ ~aborted
      <3>1. Answered /\ polls' = polls + 1 /\ UNCHANGED <<remote, seen, aborted>>
        BY <1>8, <2>3 DEF WaitForCompletion
      <3>2. polls' \in 0 .. MaxWait
        BY <2>3, <3>1
      <3> QED
        BY <1>1, <1>2, <3>1, <3>2 DEF AcpReasons
    <2> QED
      BY <2>1, <2>2, <2>3
  <1>9. CASE StreamTask
    BY <1>9 DEF StreamTask
  <1>10. CASE StreamEnds
    <2>1. UNCHANGED <<remote, seen, polls, aborted>> /\ a2aPc' = "idle"
          /\ a2aResult' \in {"timeout", "error", ReasonOf(seen)}
      BY <1>10 DEF StreamEnds, A2AReport
    <2>2. a2aResult' = "completed" => seen = "completed"
      BY <1>1, <2>1
    <2>3. a2aResult' \in AcpReasons
      BY <1>1, <2>1 DEF AcpReasons
    <2>4. a2aResult' = "completed" => remote = "completed"
      BY <2>2 DEF Terminal
    <2> QED
      BY <2>1, <2>3, <2>4
  <1>11. CASE UNCHANGED a2aVars
    BY <1>11 DEF a2aVars
  <1> QED
    BY <1>3, <1>4, <1>5, <1>6, <1>7, <1>8, <1>9, <1>10, <1>11 DEF A2AStep

-----------------------------------------------------------------------------
(* Agents: issues *)

CreatorStates == {"idle", "create", "skipped", "completed", "error", "timeout"}

\* Whoever is to create an issue has seen none, or could not look.
IssueInv ==
    /\ issues \in 0 .. MaxIssues /\ doubled \in BOOLEAN
    /\ creator \in [Creators -> CreatorStates]
    /\ listed \in [Creators -> 0 .. MaxIssues + 1]
    /\ \A c \in Creators : creator[c] = "create" => listed[c] \in {0, MaxIssues + 1}
    /\ OneIssue

LEMMA IssueStart == IssueInit => IssueInv
  <1> SUFFICES ASSUME IssueInit PROVE IssueInv
    OBVIOUS
  <1>0. issues = 0 /\ doubled = FALSE
    BY DEF IssueInit
  <1>1. issues \in 0 .. MaxIssues /\ ~(issues > 1)
    BY <1>0
  <1>2. creator \in [Creators -> CreatorStates] /\ \A c \in Creators : creator[c] # "create"
    BY DEF IssueInit, CreatorStates
  <1>3. listed \in [Creators -> 0 .. MaxIssues + 1]
    BY DEF IssueInit
  <1> QED
    BY <1>0, <1>1, <1>2, <1>3 DEF IssueInv, OneIssue

LEMMA IssueKeeps == IssueInv /\ [IssueStep]_issueVars => IssueInv'
  <1> SUFFICES ASSUME IssueInv, [IssueStep]_issueVars PROVE IssueInv'
    OBVIOUS
  <1>1. /\ issues \in 0 .. MaxIssues /\ doubled \in BOOLEAN
        /\ creator \in [Creators -> CreatorStates]
        /\ listed \in [Creators -> 0 .. MaxIssues + 1]
        /\ \A c \in Creators : creator[c] = "create" => listed[c] \in {0, MaxIssues + 1}
        /\ issues > 1 => doubled
    BY DEF IssueInv, OneIssue
  <1>2. ASSUME NEW c \in Creators, CheckOpenIssueExists(c) PROVE IssueInv'
    <2>1. PICK shown \in BOOLEAN :
            /\ creator' = [creator EXCEPT ![c] = IF Found(c, shown) THEN "skipped" ELSE "create"]
            /\ listed' = [listed EXCEPT ![c] = IF shown THEN issues ELSE MaxIssues + 1]
      BY <1>2 DEF CheckOpenIssueExists
    <2>2. UNCHANGED <<issues, doubled>>
      BY <1>2 DEF CheckOpenIssueExists
    <2>3. creator' \in [Creators -> CreatorStates] /\ \A d \in Creators \ {c} : creator'[d] = creator[d]
      BY <1>1, <2>1 DEF CreatorStates
    <2>4. listed' \in [Creators -> 0 .. MaxIssues + 1] /\ \A d \in Creators \ {c} : listed'[d] = listed[d]
      BY <1>1, <2>1
    <2>5. creator'[c] = "create" => listed'[c] \in {0, MaxIssues + 1}
      BY <1>1, <2>1 DEF Found
    <2>6. \A d \in Creators : creator'[d] = "create" => listed'[d] \in {0, MaxIssues + 1}
      BY <1>1, <2>3, <2>4, <2>5
    <2> QED
      BY <1>1, <2>2, <2>3, <2>4, <2>6 DEF IssueInv, OneIssue
  <1>3. ASSUME NEW c \in Creators, SpawnCreate(c) PROVE IssueInv'
    <2>1. PICK created \in BOOLEAN :
            /\ issues' = IF created THEN issues + 1 ELSE issues
            /\ doubled' = (doubled \/ (created /\ listed[c] # issues))
            /\ creator' \in {[creator EXCEPT ![c] = r] :
                                r \in {"error", "timeout"} \cup IF created THEN {"completed"} ELSE {}}
      BY <1>3 DEF SpawnCreate
    <2>2. creator[c] = "create" /\ issues < MaxIssues /\ UNCHANGED listed
      BY <1>3 DEF SpawnCreate
    <2>3. PICK r \in {"error", "timeout", "completed"} : creator' = [creator EXCEPT ![c] = r]
      BY <2>1
    <2>4. creator' \in [Creators -> CreatorStates] /\ \A d \in Creators : creator'[d] = "create" => creator[d] = "create"
      BY <1>1, <2>3 DEF CreatorStates
    <2>5. issues' \in 0 .. MaxIssues /\ doubled' \in BOOLEAN
      BY <1>1, <2>1, <2>2
    <2>6. issues' > 1 => doubled'
      BY <1>1, <2>1, <2>2
    <2> QED
      BY <1>1, <2>2, <2>4, <2>5, <2>6 DEF IssueInv, OneIssue
  <1>4. ASSUME NEW c \in Creators, Again(c) PROVE IssueInv'
    <2>1. creator' = [creator EXCEPT ![c] = "idle"] /\ listed' = [listed EXCEPT ![c] = 0] /\ UNCHANGED <<issues, doubled>>
      BY <1>4 DEF Again
    <2>2. creator' \in [Creators -> CreatorStates] /\ listed' \in [Creators -> 0 .. MaxIssues + 1]
      BY <1>1, <2>1 DEF CreatorStates
    <2>3. \A d \in Creators : creator'[d] = "create" => listed'[d] \in {0, MaxIssues + 1}
      BY <1>1, <2>1
    <2> QED
      BY <1>1, <2>1, <2>2, <2>3 DEF IssueInv, OneIssue
  <1>5. CASE UNCHANGED issueVars
    BY <1>1, <1>5 DEF issueVars, IssueInv, OneIssue
  <1> QED
    BY <1>2, <1>3, <1>4, <1>5 DEF IssueStep

LEMMA AgentTypes == AcpInv /\ A2AInv /\ IssueInv => AgentsTypeOK
  <1> SUFFICES ASSUME AcpInv, A2AInv, IssueInv PROVE AgentsTypeOK
    OBVIOUS
  <1>1. \A i \in Requests : acpResult[i].reason \in {"none", "completed", "error", "timeout"}
    BY DEF AcpInv, AcpResults, AcpReasons
  <1>2. answers \subseteq [id : Requests, kind : {"result", "error"}]
    BY DEF AcpInv, AcpAnswers
  <1>3. creator \in [Creators -> {"idle", "create", "skipped", "completed", "error", "timeout"}]
    BY DEF IssueInv, CreatorStates
  <1>4. child \in {"none", "alive", "exited", "killed"} /\ request \in 0 .. MaxRequests
        /\ pending \subseteq 1 .. request /\ working \subseteq Requests /\ sessionKey \in 0 .. request
    BY DEF AcpInv
  <1>5. /\ remote \in A2AStates \cup {"none"} /\ seen \in A2AStates \cup {"none"} /\ polls \in 0 .. MaxWait
        /\ a2aPc \in {"idle", "send", "poll", "stream"} /\ aborted \in BOOLEAN
        /\ a2aResult \in {"none", "completed", "error", "timeout"}
        /\ issues \in 0 .. MaxIssues
    BY DEF A2AInv, IssueInv, AcpReasons
  <1> QED
    BY <1>1, <1>2, <1>3, <1>4, <1>5 DEF AgentsTypeOK

HIDE AgentsAssumption DEF AgentsAssumption

-----------------------------------------------------------------------------
(* Calls of language models, and the ethics gate *)

USE ModelsAssumption DEF ModelsAssumption

CallInv ==
    /\ callPc \in {"idle", "attempt"} /\ callOutcome \in {"none", "parsed", "thrown", "rejected"}
    /\ tries \in 0 .. MAX_RETRY_ATTEMPTS
    /\ reasked \in BOOLEAN /\ refused \in BOOLEAN
    /\ callPc = "attempt" => ~refused /\ tries < MAX_RETRY_ATTEMPTS
    /\ RefusedOnce

LEMMA CallStart == CallInit => CallInv
  <1> SUFFICES ASSUME CallInit PROVE CallInv
    OBVIOUS
  <1>1. callPc = "idle" /\ tries = 0 /\ reasked = FALSE /\ callOutcome = "none" /\ refused = FALSE
    BY DEF CallInit
  <1>2. tries \in 0 .. MAX_RETRY_ATTEMPTS
    BY <1>1
  <1> QED
    BY <1>1, <1>2 DEF CallInv, RefusedOnce

LEMMA CallKeeps == CallInv /\ [CallStep]_callVars => CallInv'
  <1> SUFFICES ASSUME CallInv, [CallStep]_callVars PROVE CallInv'
    OBVIOUS
  \* Under way, and not refused.
  <1>1. ASSUME callPc' \in {"idle", "attempt"}, callOutcome' \in {"none", "parsed", "thrown", "rejected"},
               tries' \in 0 .. MAX_RETRY_ATTEMPTS, tries' < MAX_RETRY_ATTEMPTS,
               reasked' \in BOOLEAN, refused' = FALSE
        PROVE  CallInv'
    BY <1>1 DEF CallInv, RefusedOnce
  <1>2. CASE SendMessage
    <2>1. tries' = 0 /\ reasked' = FALSE /\ refused' = FALSE
          /\ \/ callPc' = "attempt" /\ callOutcome' = "none"
             \/ callPc' = callPc /\ callPc = "idle" /\ callOutcome' = "rejected"
      BY <1>2 DEF SendMessage
    <2>2. tries' \in 0 .. MAX_RETRY_ATTEMPTS /\ tries' < MAX_RETRY_ATTEMPTS
      BY <2>1
    <2> QED
      BY <1>1, <2>1, <2>2
  <1>3. CASE AttemptFails
    <2>1. callPc = "attempt" /\ refused = FALSE /\ tries \in 0 .. MAX_RETRY_ATTEMPTS /\ tries < MAX_RETRY_ATTEMPTS
          /\ reasked' \in BOOLEAN /\ callOutcome \in {"none", "parsed", "thrown", "rejected"}
      BY <1>3 DEF AttemptFails, CallInv
    <2>2. PICK clientError \in BOOLEAN :
            /\ refused' = (refused \/ (clientError /\ client.provider \in {"anthropic", "ollama"}))
            /\ IF GivesUp(clientError) \/ tries + 1 = MAX_RETRY_ATTEMPTS
               THEN callPc' = "idle" /\ callOutcome' = "thrown" /\ tries' = tries + 1
               ELSE tries' = tries + 1 /\ UNCHANGED <<callPc, callOutcome>>
      BY <1>3 DEF AttemptFails
    <2>3. refused' \in BOOLEAN /\ (refused' = FALSE \/ GivesUp(clientError))
      BY <2>1, <2>2 DEF GivesUp
    <2>4. tries + 1 \in 0 .. MAX_RETRY_ATTEMPTS /\ (tries + 1 # MAX_RETRY_ATTEMPTS => tries + 1 < MAX_RETRY_ATTEMPTS)
      BY <2>1
    <2>5. CASE GivesUp(clientError) \/ tries + 1 = MAX_RETRY_ATTEMPTS
      <3>1. callPc' = "idle" /\ callOutcome' = "thrown" /\ tries' = tries + 1
        BY <2>2, <2>5
      <3> QED
        BY <2>1, <2>3, <2>4, <3>1 DEF CallInv, RefusedOnce
    <2>6. CASE ~(GivesUp(clientError) \/ tries + 1 = MAX_RETRY_ATTEMPTS)
      <3>1. tries' = tries + 1 /\ UNCHANGED <<callPc, callOutcome>> /\ refused' = FALSE
        BY <2>2, <2>3, <2>6
      <3> QED
        BY <1>1, <2>1, <2>4, <2>6, <3>1
    <2> QED
      BY <2>5, <2>6
  <1>4. CASE AttemptAnswers
    <2>1. refused' = FALSE /\ callPc = "attempt" /\ reasked \in BOOLEAN
          /\ callOutcome \in {"none", "parsed", "thrown", "rejected"}
          /\ tries \in 0 .. MAX_RETRY_ATTEMPTS /\ tries < MAX_RETRY_ATTEMPTS
      BY <1>4 DEF AttemptAnswers, CallInv
    <2>2. \/ callOutcome' \in {"rejected", "parsed", "thrown"} /\ callPc' = "idle" /\ UNCHANGED <<tries, reasked>>
          \/ reasked' = TRUE /\ tries' = 0 /\ UNCHANGED <<callPc, callOutcome>>
      BY <1>4 DEF AttemptAnswers
    <2>3. tries' \in 0 .. MAX_RETRY_ATTEMPTS /\ tries' < MAX_RETRY_ATTEMPTS
      BY <2>1, <2>2
    <2> QED
      BY <1>1, <2>1, <2>2, <2>3
  <1>5. CASE UNCHANGED callVars
    BY <1>5 DEF callVars, CallInv, RefusedOnce
  <1> QED
    BY <1>2, <1>3, <1>4, <1>5 DEF CallStep

-----------------------------------------------------------------------------
(* The ethics gate *)

CheckerStates == [at : {"idle", "read", "write", "done"}, verdict : {"none", "reject", "flag", "pass"},
                  read : SUBSET Checkers]
Truths == [rule : BOOLEAN, said : {"none", "reject", "flag", "pass", "garbled"}, confidence : Nat]
SureOf(t) == ~t.rule /\ t.said = "pass" /\ t.confidence >= CONFIDENCE_FLAG_THRESHOLD

\* As long as no two checks overlap, the log that one has read is the log.
GateInv ==
    /\ checker \in [Checkers -> CheckerStates] /\ truth \in [Checkers -> Truths]
    /\ ethicsLog \subseteq Checkers /\ overlapped \in BOOLEAN
    /\ \A c \in Checkers : checker[c].verdict = "pass" => SureOf(truth[c])
    /\ ~overlapped =>
         /\ \A c, d \in Checking : c = d
         /\ \A c \in Checkers : checker[c].at = "write" => checker[c].read = ethicsLog
         /\ \A c \in Checkers : checker[c].at = "done" /\ checker[c].verdict # "none" => c \in ethicsLog

LEMMA GateStart == GateInit => GateInv
  <1> SUFFICES ASSUME GateInit PROVE GateInv
    OBVIOUS
  <1>1. Unchecked \in CheckerStates /\ Unchecked.at = "idle" /\ Unchecked.verdict = "none"
    BY DEF Unchecked, CheckerStates
  <1>2. checker \in [Checkers -> CheckerStates] /\ \A c \in Checkers : checker[c] = Unchecked
    BY <1>1 DEF GateInit
  <1>3. truth \in [Checkers -> Truths]
    BY DEF GateInit, Truths
  <1> QED
    BY <1>1, <1>2, <1>3 DEF GateInit, GateInv, Checking

\* The check of c moves on; that of others stays.
LEMMA NowChecked ==
  ASSUME GateInv, NEW c \in Checkers, NEW at \in {"idle", "read", "write", "done"},
         NEW verdict \in {"none", "reject", "flag", "pass"}, NEW seenLog \in SUBSET Checkers, Now(c, at, verdict, seenLog)
  PROVE  /\ checker' \in [Checkers -> CheckerStates]
         /\ checker'[c].at = at /\ checker'[c].verdict = verdict /\ checker'[c].read = seenLog
         /\ \A d \in Checkers \ {c} : checker'[d] = checker[d]
         /\ Checking' \subseteq Checking \cup (IF at \in {"read", "write"} THEN {c} ELSE {})
         /\ at \notin {"read", "write"} => c \notin Checking'
  <1> DEFINE r == [at |-> at, verdict |-> verdict, read |-> seenLog]
  <1>1. r \in CheckerStates /\ r.at = at /\ r.verdict = verdict /\ r.read = seenLog
    BY DEF CheckerStates
  <1>2. checker' = [checker EXCEPT ![c] = r] /\ checker \in [Checkers -> CheckerStates]
    BY DEF Now, GateInv
  <1> HIDE DEF r
  <1>3. /\ checker' \in [Checkers -> CheckerStates] /\ checker'[c] = r
        /\ \A d \in Checkers \ {c} : checker'[d] = checker[d]
    BY <1>1, <1>2
  <1> QED
    BY <1>1, <1>3 DEF Checking

LEMMA GateStepKeeps ==
  ASSUME GateInv, NEW c \in Checkers, Check(c) \/ ReadLog(c) \/ WriteLog(c)
  PROVE  GateInv'
  <1>1. /\ checker \in [Checkers -> CheckerStates] /\ truth \in [Checkers -> Truths]
        /\ ethicsLog \subseteq Checkers /\ overlapped \in BOOLEAN
        /\ \A d \in Checkers : checker[d].verdict = "pass" => SureOf(truth[d])
    BY DEF GateInv
  <1>2. ~overlapped =>
         /\ \A d, e \in Checking : d = e
         /\ \A d \in Checkers : checker[d].at = "write" => checker[d].read = ethicsLog
         /\ \A d \in Checkers : checker[d].at = "done" /\ checker[d].verdict # "none" => d \in ethicsLog
    BY DEF GateInv
  <1>3. checker[c].verdict \in {"none", "reject", "flag", "pass"} /\ checker[c].read \in SUBSET Checkers
    BY <1>1 DEF CheckerStates
  <1>4. CASE Check(c)
    <2>1. checker[c].at = "idle" /\ UNCHANGED ethicsLog /\ c \notin Checking
          /\ overlapped' = (overlapped \/ (checker'[c].at = "read" /\ Checking # {}))
      BY <1>4 DEF Check, Checking
    <2>2. \E at \in {"read", "done"}, verdict \in {"none", "reject", "flag", "pass"} :
            /\ Now(c, at, verdict, {}) /\ (at = "done" => verdict = "none")
            /\ truth' \in [Checkers -> Truths] /\ \A d \in Checkers \ {c} : truth'[d] = truth[d]
            /\ verdict = "pass" => SureOf(truth'[c])
      <3>1. CASE Layer1Rejects(c) /\ Now(c, "read", "reject", {})
        <4>1. truth' \in [Checkers -> Truths] /\ \A d \in Checkers \ {c} : truth'[d] = truth[d]
          BY <1>1, <3>1 DEF Layer1Rejects, Truths
        <4> QED
          BY <3>1, <4>1
      <3>2. CASE Now(c, "done", "none", {}) /\ UNCHANGED truth
        BY <1>1, <3>2
      <3>3. ASSUME NEW said \in {"reject", "flag", "pass", "garbled"}, NEW n \in Confidences,
                   truth' = [truth EXCEPT ![c] = [rule |-> FALSE, said |-> said, confidence |-> n]],
                   Now(c, "read", Overridden(said, n), {})
            PROVE  \E at \in {"read", "done"}, verdict \in {"none", "reject", "flag", "pass"} :
                     /\ Now(c, at, verdict, {}) /\ (at = "done" => verdict = "none")
                     /\ truth' \in [Checkers -> Truths] /\ \A d \in Checkers \ {c} : truth'[d] = truth[d]
                     /\ verdict = "pass" => SureOf(truth'[c])
        <4> DEFINE t == [rule |-> FALSE, said |-> said, confidence |-> n]
        <4>1. t \in Truths /\ t.rule = FALSE /\ t.said = said /\ t.confidence = n /\ n \in Nat
          BY DEF Truths
        <4>2. Overridden(said, n) \in {"reject", "flag", "pass"}
              /\ (Overridden(said, n) = "pass" => said = "pass" /\ n >= CONFIDENCE_FLAG_THRESHOLD)
          BY <4>1 DEF Overridden
        <4>3. truth' = [truth EXCEPT ![c] = t]
          BY <3>3
        <4> HIDE DEF t
        <4>4. truth' \in [Checkers -> Truths] /\ truth'[c] = t /\ \A d \in Checkers \ {c} : truth'[d] = truth[d]
          BY <1>1, <4>1, <4>3
        <4>5. Overridden(said, n) = "pass" => SureOf(truth'[c])
          BY <4>1, <4>2, <4>4 DEF SureOf
        <4> QED
          BY <3>3, <4>2, <4>4, <4>5
      <3> QED
        BY <1>4, <3>1, <3>2, <3>3 DEF Check
    <2>3. PICK at \in {"read", "done"}, verdict \in {"none", "reject", "flag", "pass"} :
            /\ Now(c, at, verdict, {}) /\ (at = "done" => verdict = "none")
            /\ truth' \in [Checkers -> Truths] /\ \A d \in Checkers \ {c} : truth'[d] = truth[d]
            /\ verdict = "pass" => SureOf(truth'[c])
      BY <2>2
    <2>4. /\ checker' \in [Checkers -> CheckerStates]
          /\ checker'[c].at = at /\ checker'[c].verdict = verdict
          /\ \A d \in Checkers \ {c} : checker'[d] = checker[d]
          /\ Checking' \subseteq Checking \cup {c}
          /\ at = "done" => c \notin Checking'
      BY <2>3, NowChecked
    <2>5. \A d \in Checkers : checker'[d].verdict = "pass" => SureOf(truth'[d])
      BY <1>1, <2>3, <2>4
    <2>6. ASSUME ~overlapped'
          PROVE  /\ \A d, e \in Checking' : d = e
                 /\ \A d \in Checkers : checker'[d].at = "write" => checker'[d].read = ethicsLog'
                 /\ \A d \in Checkers : checker'[d].at = "done" /\ checker'[d].verdict # "none" => d \in ethicsLog'
      <3>1. ~overlapped /\ (at = "read" => Checking = {})
        BY <2>1, <2>4, <2>6
      <3>2. \A d, e \in Checking' : d = e
        BY <1>2, <2>4, <3>1
      <3> QED
        BY <1>2, <2>1, <2>3, <2>4, <3>1, <3>2
    <2> QED
      BY <1>1, <2>1, <2>3, <2>4, <2>5, <2>6 DEF GateInv
  <1>5. CASE ReadLog(c)
    <2>1. checker[c].at = "read" /\ Now(c, "write", checker[c].verdict, ethicsLog) /\ c \in Checking
          /\ UNCHANGED <<truth, ethicsLog, overlapped>>
      BY <1>5 DEF ReadLog, Checking
    <2>2. /\ checker' \in [Checkers -> CheckerStates]
          /\ checker'[c].at = "write" /\ checker'[c].verdict = checker[c].verdict /\ checker'[c].read = ethicsLog
          /\ \A d \in Checkers \ {c} : checker'[d] = checker[d]
          /\ Checking' \subseteq Checking \cup {c}
      BY <1>1, <1>3, <2>1, NowChecked
    <2>3. Checking' \subseteq Checking
      BY <2>1, <2>2
    <2> QED
      BY <1>1, <1>2, <2>1, <2>2, <2>3 DEF GateInv
  <1>6. CASE WriteLog(c)
    <2>1. checker[c].at = "write" /\ c \in Checking /\ UNCHANGED <<truth, overlapped>>
      BY <1>6 DEF WriteLog, Checking
    <2>2. \/ ethicsLog' = checker[c].read \cup {c} /\ Now(c, "done", checker[c].verdict, {})
          \/ Now(c, "done", "none", {}) /\ UNCHANGED ethicsLog
      BY <1>6 DEF WriteLog, WithVerdict
    <2>3. PICK verdict \in {"none", "reject", "flag", "pass"} :
            /\ Now(c, "done", verdict, {}) /\ verdict \in {"none", checker[c].verdict}
            /\ \/ ethicsLog' = checker[c].read \cup {c}
               \/ UNCHANGED ethicsLog /\ verdict = "none"
      BY <1>3, <2>2
    <2>4. /\ checker' \in [Checkers -> CheckerStates]
          /\ checker'[c].at = "done" /\ checker'[c].verdict = verdict
          /\ \A d \in Checkers \ {c} : checker'[d] = checker[d]
          /\ Checking' \subseteq Checking /\ c \notin Checking'
      BY <2>3, NowChecked
    <2>5. ethicsLog' \subseteq Checkers
      BY <1>1, <1>3, <2>3
    <2>6. \A d \in Checkers : checker'[d].verdict = "pass" => SureOf(truth'[d])
      BY <1>1, <2>1, <2>3, <2>4
    <2>7. ASSUME ~overlapped'
          PROVE  /\ \A d, e \in Checking' : d = e
                 /\ \A d \in Checkers : checker'[d].at = "write" => checker'[d].read = ethicsLog'
                 /\ \A d \in Checkers : checker'[d].at = "done" /\ checker'[d].verdict # "none" => d \in ethicsLog'
      <3>1. checker[c].read = ethicsLog
        BY <1>2, <2>1, <2>7
      <3>2. ethicsLog \subseteq ethicsLog' /\ (verdict # "none" => c \in ethicsLog')
        BY <2>3, <3>1
      <3>3. \A d \in Checkers : checker'[d].at # "write"
        <4> SUFFICES ASSUME NEW d \in Checkers, checker'[d].at = "write" PROVE FALSE
          OBVIOUS
        <4>1. d # c /\ d \in Checking
          BY <2>4 DEF Checking
        <4> QED
          BY <1>2, <2>1, <2>7, <4>1
      <3> QED
        BY <1>2, <2>1, <2>4, <2>7, <3>2, <3>3
    <2> QED
      BY <1>1, <2>1, <2>4, <2>5, <2>6, <2>7 DEF GateInv
  <1> QED
    BY <1>4, <1>5, <1>6

LEMMA GateKeepsLog == GateInv /\ [GateStep]_gateVars => GateInv'
  <1> SUFFICES ASSUME GateInv, [GateStep]_gateVars PROVE GateInv'
    OBVIOUS
  <1>1. CASE UNCHANGED gateVars
    BY <1>1 DEF gateVars, GateInv, Checking, SureOf
  <1> QED
    BY <1>1, GateStepKeeps DEF GateStep

LEMMA GateEarns == GateInv => VerdictEarned
  BY DEF GateInv, VerdictEarned, SureOf

LEMMA ModelTypes == CallInv /\ GateInv => ModelsTypeOK
  <1> SUFFICES ASSUME CallInv, GateInv PROVE ModelsTypeOK
    OBVIOUS
  <1>1. \A c \in Checkers : /\ checker[c].at \in {"idle", "read", "write", "done"}
                            /\ checker[c].verdict \in {"none", "reject", "flag", "pass"}
    BY DEF GateInv, CheckerStates
  <1> QED
    BY <1>1 DEF CallInv, GateInv, ModelsTypeOK

HIDE ModelsAssumption DEF ModelsAssumption

-----------------------------------------------------------------------------
(* The process of a call *)

USE ProcessAssumption DEF ProcessAssumption

\* A success is told when the process is closed, and nothing is told while the
\* caller waits.
ProcInv ==
    /\ call \in {"agent", "codex", "gh", "git", "api"} /\ code \in {-1, 0, 1}
    /\ process \in {"none", "unstarted", "running", "ended", "closed"}
    /\ timedOut \in BOOLEAN /\ report \in {"settled", "none", "completed", "error", "timeout"}
    /\ calls \in 0 .. MaxCalls
    /\ told \in {0, 1} /\ (Waiting => told = 0)
    /\ report = "completed" => code = 0 /\ timedOut = FALSE /\ process = "closed"
    /\ report = "timeout" => timedOut = TRUE

LEMMA ProcStart == ProcInit => ProcInv
  <1> SUFFICES ASSUME ProcInit PROVE ProcInv
    OBVIOUS
  <1>1. calls \in 0 .. MaxCalls /\ told \in {0, 1} /\ code \in {-1, 0, 1}
    BY DEF ProcInit
  <1>2. call = "agent" /\ process = "none" /\ timedOut = FALSE /\ report = "settled" /\ told = 0
    BY DEF ProcInit
  <1> QED
    BY <1>1, <1>2 DEF ProcInv, Waiting

LEMMA ProcKeeps == ProcInv /\ [ProcStep]_procVars => ProcInv'
  <1> SUFFICES ASSUME ProcInv, [ProcStep]_procVars PROVE ProcInv'
    OBVIOUS
  <1>1. /\ call \in {"agent", "codex", "gh", "git", "api"} /\ code \in {-1, 0, 1}
        /\ process \in {"none", "unstarted", "running", "ended", "closed"}
        /\ timedOut \in BOOLEAN /\ report \in {"settled", "none", "completed", "error", "timeout"}
        /\ calls \in 0 .. MaxCalls
        /\ told \in {0, 1} /\ (report = "none" => told = 0)
        /\ report = "completed" => code = 0 /\ timedOut = FALSE /\ process = "closed"
        /\ report = "timeout" => timedOut = TRUE
    BY DEF ProcInv, Waiting
  \* A process of the call, new or another.
  <1>2. ASSUME NEW c \in {"agent", "codex", "gh", "git", "api"}, Launch(c), calls' \in 0 .. MaxCalls,
               report' = "none", told' = 0
        PROVE  ProcInv'
    <2>1. call' = c /\ code' \in {-1, 0, 1} /\ timedOut' = FALSE /\ process' \in {"running", "unstarted"}
      BY <1>2 DEF Launch
    <2>2. told' \in {0, 1}
      BY <1>2
    <2> QED
      BY <1>2, <2>1, <2>2 DEF ProcInv, Waiting
  \* The caller is told, or was before.
  <1>3. ASSUME NEW r \in {"completed", "error", "timeout"}, Settle(r), UNCHANGED <<call, code, calls>>, timedOut' \in BOOLEAN,
               process' \in {"none", "unstarted", "running", "ended", "closed"},
               report = "none" /\ r = "completed" => code = 0 /\ timedOut' = FALSE /\ process' = "closed",
               report = "none" /\ r = "timeout" => timedOut' = TRUE,
               report # "none" => timedOut' = timedOut /\ process # "closed"
        PROVE  ProcInv'
    <2>1. CASE report = "none"
      <3>1. report' = r /\ told' = told + 1 /\ told = 0
        BY <1>1, <1>3, <2>1 DEF Settle, Waiting
      <3>2. told' \in {0, 1}
        BY <3>1
      <3> QED
        BY <1>1, <1>3, <2>1, <3>1, <3>2 DEF ProcInv, Waiting
    <2>2. CASE report # "none"
      <3>1. report' = report /\ told' = told
        BY <1>3, <2>2 DEF Settle, Waiting
      <3> QED
        BY <1>1, <1>3, <2>2, <3>1 DEF ProcInv, Waiting
    <2> QED
      BY <2>1, <2>2
  \* Only the process moves, or is told to.
  <1>4. ASSUME UNCHANGED <<call, report, told, calls>>, code' \in {-1, 0, 1}, timedOut' \in BOOLEAN,
               process' \in {"none", "unstarted", "running", "ended", "closed"},
               report = "completed" => UNCHANGED <<code, timedOut, process>>,
               report = "timeout" => UNCHANGED timedOut
        PROVE  ProcInv'
    BY <1>1, <1>4 DEF ProcInv, Waiting
  <1>5. CASE Begin
    <2>1. PICK c \in {"agent", "codex", "gh", "api"} : Launch(c)
      BY <1>5 DEF Begin
    <2>2. report' = "none" /\ told' = 0 /\ calls' \in 0 .. MaxCalls
      BY <1>1, <1>5 DEF Begin
    <2> QED
      BY <1>2, <2>1, <2>2
  <1>6. CASE OnProcessError
    <2>1. CASE AskGit
      BY <1>1, <1>2, <1>6, <2>1 DEF OnProcessError, AskGit, GitRemote, Waiting
    <2>2. CASE ~AskGit
      <3>1. Settle("error") /\ process' = "ended" /\ UNCHANGED <<call, code, timedOut, calls>> /\ process = "unstarted"
        BY <1>6, <2>2 DEF OnProcessError
      <3> QED
        BY <1>1, <1>3, <3>1
    <2> QED
      BY <2>1, <2>2
  <1>7. CASE Exits
    <2>1. process = "running" /\ process' = "ended" /\ code' \in {0, 1} /\ UNCHANGED <<call, timedOut, report, told, calls>>
      BY <1>7 DEF Exits
    <2>2. code' \in {-1, 0, 1}
      BY <2>1
    <2> QED
      BY <1>1, <1>4, <2>1, <2>2
  <1>8. CASE OnProcessClose
    <2>1. CASE AskGit /\ GitRemote
      BY <1>1, <1>2, <1>8, <2>1 DEF OnProcessClose, AskGit, GitRemote, Waiting
    <2>2. ASSUME NEW r \in Reasons, Settle(r), process' = "closed", UNCHANGED <<call, code, timedOut>>
          PROVE  ProcInv'
      <3>1. process = "ended" /\ UNCHANGED calls
        BY <1>8 DEF OnProcessClose
      <3>2. r \in {"completed", "error", "timeout"} /\ (r = "completed" => code = 0 /\ timedOut = FALSE)
            /\ (r = "timeout" => timedOut = TRUE)
        BY <1>1, <2>2 DEF Reasons
      <3> QED
        BY <1>1, <1>3, <2>2, <3>1, <3>2
    <2> QED
      BY <1>8, <2>1, <2>2 DEF OnProcessClose
  <1>9. CASE TimerFires
    <2>1. report = "none" /\ timedOut = FALSE /\ timedOut' = TRUE /\ UNCHANGED <<call, code, calls>>
      BY <1>1, <1>9 DEF TimerFires, Waiting
    <2>2. \/ Settle("timeout") /\ UNCHANGED process
          \/ process' \in {process, "ended"} /\ UNCHANGED <<report, told>>
      BY <1>9 DEF TimerFires
    <2>3. CASE Settle("timeout") /\ UNCHANGED process
      BY <1>1, <1>3, <2>1, <2>3
    <2>4. CASE process' \in {process, "ended"} /\ UNCHANGED <<report, told>>
      BY <1>1, <1>4, <2>1, <2>4
    <2> QED
      BY <2>2, <2>3, <2>4
  <1>10. CASE Kill
    BY <1>1, <1>4, <1>10 DEF Kill
  <1>11. CASE UNCHANGED procVars
    BY <1>1, <1>4, <1>11 DEF procVars
  <1> QED
    BY <1>5, <1>6, <1>7, <1>8, <1>9, <1>10, <1>11 DEF ProcStep

LEMMA ProcTells == ProcInv => ToldOnce
  <1> SUFFICES ASSUME ProcInv PROVE ToldOnce
    OBVIOUS
  <1>1. told <= 1
    BY DEF ProcInv
  <1> QED
    BY <1>1 DEF ProcInv, ToldOnce

LEMMA ProcTypes == ProcInv => ProcTypeOK
  BY DEF ProcInv, ProcTypeOK

HIDE ProcessAssumption DEF ProcessAssumption

-----------------------------------------------------------------------------
(* The judgement of a task *)

USE ReviewAssumption DEF ReviewAssumption

Good == {"pass", "partial"}
Rulings == {"none", "pass", "partial", "fail"}
Asking == {"ask", "wait", "backoff"}
Reviewing == Asking \cup {"close"}
ReviewPlaces == Reviewing \cup {"execute", "open", "resolve", "save", "judged", "reverting", "mark", "discarded",
                                "escalated", "thrown"}

ReviewTyped ==
    /\ reviewPc \in ReviewPlaces
    /\ layerOne \in {"skip", "assumed", "pass", "fail"}
    /\ reviewAnswer \in Answers \cup {"none"}
    /\ ruling \in Rulings
ReviewNumbers ==
    /\ review \in 0 .. 2 /\ reviewTry \in 0 .. ReviewRetries + 1 /\ reviewFaults \in 0 .. MaxReviewFaults
    /\ reviewPc \in Reviewing \cup {"resolve", "save"} => review \in Reviews /\ reviewTry \in Tries
    /\ reviewPc = "backoff" => reviewTry <= ReviewRetries
    /\ reviewPc = "execute" => review = 0
    /\ reviewPc = "open" => review \in 0 .. 1
ReviewSets ==
    /\ unanswered \subseteq Reviews \X Tries
    /\ onTime \subseteq Reviews \X Tries \X Answers
    /\ reviewed \in [Reviews -> Rulings]
    /\ openReviews \subseteq Reviews

\* Only the review under way is open.
OpenInTurn ==
    /\ reviewPc \in Reviewing => openReviews \subseteq {review}
    /\ reviewPc \notin Reviewing \cup {"thrown"} => openReviews = {}

NotEarned(r) == \A t \in Tries, a \in Good : <<r, t, a>> \notin onTime

\* A review is answered once, and goes by that answer unless something failed.
AnsweredOnce ==
    /\ \A x \in onTime : x[1] <= review
    /\ \A x, y \in onTime : x[1] = y[1] => x = y
    /\ reviewPc \in Asking => \A x \in onTime : x[1] # review
    /\ reviewPc = "close" /\ reviewAnswer \in Good => <<review, reviewTry, reviewAnswer>> \in onTime
    /\ reviewPc = "close" /\ reviewFaults = 0 /\ reviewAnswer \notin Good => NotEarned(review)
    /\ reviewPc = "resolve" => reviewed[review] # "none"
    /\ reviewPc = "resolve" /\ reviewed[review] \in Good => <<review, reviewTry, reviewed[review]>> \in onTime
    /\ reviewPc = "resolve" /\ reviewFaults = 0 /\ reviewed[review] = "fail" => NotEarned(review)

\* There is a second review only after a first that failed beside a command that
\* did not.
RepeatedOnce ==
    review = 2 \/ (reviewPc = "open" /\ review = 1) =>
        /\ layerOne \in {"pass", "assumed"} /\ reviewed[1] = "fail"
        /\ reviewFaults = 0 => NotEarned(1)

RulingKnown ==
    /\ reviewPc \in Reviewing \cup {"execute", "open", "resolve"} => ruling = "none"
    /\ ruling \in Good /\ ~ given.url => layerOne # "fail" /\ <<review, reviewTry, ruling>> \in onTime
    /\ ruling = "fail" /\ layerOne # "fail" /\ reviewFaults = 0 => \A r \in 1 .. review : NotEarned(r)

WrittenDown ==
    /\ Over => given.url \/ onDisk = ruling
    /\ reviewPc \in {"reverting", "mark", "discarded", "escalated"} => ruling = "fail"
    /\ reviewPc = "escalated" => marked
    /\ reviewPc = "discarded" => undone

ReviewInv ==
    /\ ReviewTyped /\ ReviewNumbers /\ ReviewSets
    /\ OpenInTurn /\ AnsweredOnce /\ RepeatedOnce /\ RulingKnown /\ WrittenDown

LEMMA ReviewStart == ReviewInit => ReviewInv
  <1> SUFFICES ASSUME ReviewInit PROVE ReviewInv
    OBVIOUS
  <1>1. /\ reviewPc = "execute" /\ layerOne = "skip" /\ reviewAnswer = "none" /\ ruling = "none"
        /\ openReviews = {} /\ unanswered = {} /\ onTime = {}
    BY DEF ReviewInit
  <1>2. review = 0 /\ reviewTry = 0 /\ reviewFaults = 0 /\ reviewed = [r \in Reviews |-> "none"]
    BY DEF ReviewInit
  <1>3. ReviewTyped
    BY <1>1 DEF ReviewTyped, ReviewPlaces, Rulings
  <1>4. ReviewNumbers
    BY <1>1, <1>2 DEF ReviewNumbers, Reviewing, Asking
  <1>5. ReviewSets
    BY <1>1, <1>2 DEF ReviewSets, Rulings
  <1>6. AnsweredOnce
    BY <1>1 DEF AnsweredOnce, Asking
  <1>7. RepeatedOnce
    BY <1>2 DEF RepeatedOnce
  <1>8. OpenInTurn /\ RulingKnown /\ WrittenDown
    BY <1>1 DEF OpenInTurn, Reviewing, Asking, RulingKnown, WrittenDown, Over, Good
  <1> QED
    BY <1>3, <1>4, <1>5, <1>6, <1>7, <1>8 DEF ReviewInv

\* The run goes elsewhere, and nothing of what has been answered or ruled changes.
LEMMA ReviewMovesOn ==
  ASSUME ReviewInv,
         UNCHANGED <<given, layerOne, review, reviewTry, reviewed, openReviews, ruling>>,
         unanswered' \subseteq Reviews \X Tries, UNCHANGED onTime, UNCHANGED reviewAnswer,
         reviewFaults' \in 0 .. MaxReviewFaults, reviewFaults' = 0 => reviewFaults = 0,
         reviewPc' \in {reviewPc, "thrown"}, UNCHANGED <<onDisk, undone, marked>>
  PROVE  ReviewInv'
  <1>1. ReviewTyped /\ ReviewNumbers /\ ReviewSets
        /\ OpenInTurn /\ AnsweredOnce /\ RepeatedOnce /\ RulingKnown /\ WrittenDown
    BY DEF ReviewInv
  <1>2. ReviewTyped' /\ ReviewSets'
    BY <1>1 DEF ReviewTyped, ReviewPlaces, ReviewSets
  <1>3. ReviewNumbers'
    BY <1>1 DEF ReviewNumbers, Reviewing, Asking
  <1>4. \A r : NotEarned(r)' = NotEarned(r)
    BY DEF NotEarned
  <1>5. OpenInTurn' /\ WrittenDown'
    BY <1>1 DEF OpenInTurn, Reviewing, Asking, WrittenDown, Over
  <1>6. AnsweredOnce'
    BY <1>1, <1>4 DEF AnsweredOnce, Asking
  <1>7. RepeatedOnce'
    BY <1>1, <1>4 DEF RepeatedOnce
  <1>8. RulingKnown'
    BY <1>1, <1>4 DEF RulingKnown, Reviewing, Asking
  <1> QED
    BY <1>2, <1>3, <1>5, <1>6, <1>7, <1>8 DEF ReviewInv

\* The try under way failed: there is another, or no answer.
LEMMA TryFailed ==
  ASSUME ReviewInv, reviewPc = "wait", TryFails, unanswered' \subseteq Reviews \X Tries,
         UNCHANGED <<given, layerOne, review, reviewTry, reviewed, openReviews, reviewOut, reviewFaults, onTime>>
  PROVE  ReviewInv'
  <1>1. ReviewTyped /\ ReviewNumbers /\ ReviewSets
        /\ OpenInTurn /\ AnsweredOnce /\ RepeatedOnce /\ RulingKnown
    BY DEF ReviewInv
  <1>2. \/ reviewPc' = "close" /\ reviewAnswer' = "none"
        \/ reviewPc' = "backoff" /\ UNCHANGED reviewAnswer /\ reviewTry # ReviewRetries + 1
    BY DEF TryFails, TriedOut
  <1>3. ReviewTyped' /\ ReviewSets'
    BY <1>1, <1>2 DEF ReviewTyped, ReviewPlaces, Reviewing, Asking, ReviewSets, reviewOut
  <1>4. ReviewNumbers'
    <2>1. review \in Reviews /\ reviewTry \in Tries
      BY <1>1 DEF ReviewNumbers, Reviewing, Asking
    <2>2. reviewTry # ReviewRetries + 1 => reviewTry <= ReviewRetries
      BY <2>1 DEF Tries
    <2> QED
      BY <1>1, <1>2, <2>1, <2>2 DEF ReviewNumbers
  <1>5. \A r : NotEarned(r)' = NotEarned(r)
    BY DEF NotEarned
  <1>6. NotEarned(review) /\ \A x \in onTime : x[1] # review
    <2>1. \A x \in onTime : x[1] # review
      BY <1>1 DEF AnsweredOnce, Asking
    <2> QED
      BY <2>1 DEF NotEarned
  <1>7. OpenInTurn'
    BY <1>1, <1>2 DEF OpenInTurn, Reviewing, Asking
  <1>8. AnsweredOnce'
    BY <1>1, <1>2, <1>5, <1>6 DEF AnsweredOnce, Asking, Good
  <1>9. RepeatedOnce'
    BY <1>1, <1>2, <1>5 DEF RepeatedOnce
  <1>10. RulingKnown' /\ WrittenDown'
    BY <1>1, <1>2 DEF RulingKnown, WrittenDown, Reviewing, Asking, Over, Good, reviewOut
  <1> QED
    BY <1>3, <1>4, <1>7, <1>8, <1>9, <1>10 DEF ReviewInv

LEMMA AnswerTaken ==
  ASSUME ReviewInv, NEW c \in unanswered, NEW a \in Answers, CallAnswered(c, a)
  PROVE  ReviewInv'
  <1>1. ReviewTyped /\ ReviewNumbers /\ ReviewSets
        /\ OpenInTurn /\ AnsweredOnce /\ RepeatedOnce /\ RulingKnown /\ WrittenDown
    BY DEF ReviewInv
  <1>2. UNCHANGED <<given, layerOne, review, reviewTry, reviewed, openReviews, ruling, onDisk, undone, marked, reviewFaults>>
        /\ unanswered' \subseteq Reviews \X Tries
    BY <1>1 DEF CallAnswered, reviewOut, ReviewSets
  <1>3. CASE ~Awaited(c)
    <2>1. UNCHANGED <<reviewAnswer, reviewPc, onTime>>
      BY <1>3 DEF CallAnswered, Awaited
    <2>2. reviewFaults' \in 0 .. MaxReviewFaults
      BY <1>1, <1>2 DEF ReviewNumbers
    <2> QED
      BY <1>2, <2>1, <2>2, ReviewMovesOn
  <1>4. CASE Awaited(c)
    <2> DEFINE x == <<review, reviewTry, a>>
    <2>1. reviewPc = "wait" /\ reviewPc' = "close" /\ reviewAnswer' = a /\ onTime' = onTime \cup {x}
      BY <1>4 DEF CallAnswered, Awaited
    <2>2. review \in Reviews /\ reviewTry \in Tries
      BY <1>1, <2>1 DEF ReviewNumbers, Reviewing, Asking
    <2>3. x \in Reviews \X Tries \X Answers /\ x[1] = review
      BY <2>2
    <2>4. \A y \in onTime : y[1] # review /\ y[1] <= review
      BY <1>1, <2>1 DEF AnsweredOnce, Asking
    <2>5. ReviewTyped' /\ ReviewSets'
      BY <1>1, <1>2, <2>1, <2>3 DEF ReviewTyped, ReviewPlaces, Reviewing, ReviewSets
    <2>6. ReviewNumbers'
      BY <1>1, <1>2, <2>1, <2>2 DEF ReviewNumbers
    <2>7. OpenInTurn'
      BY <1>1, <1>2, <2>1 DEF OpenInTurn, Reviewing, Asking
    <2>8. a \notin Good => NotEarned(review)'
      BY <1>2, <2>1, <2>4 DEF NotEarned
    <2>9. AnsweredOnce'
      <3>1. \A y \in onTime' : y[1] <= review
        BY <2>1, <2>2, <2>3, <2>4 DEF Reviews
      <3>2. \A y, z \in onTime' : y[1] = z[1] => y = z
        BY <1>1, <2>1, <2>3, <2>4 DEF AnsweredOnce
      <3>3. x \in onTime'
        BY <2>1
      <3> QED
        BY <1>2, <2>1, <2>8, <3>1, <3>2, <3>3 DEF AnsweredOnce, Asking
    <2>10. RepeatedOnce'
      <3>1. ASSUME review = 2 PROVE NotEarned(1)' = NotEarned(1)
        BY <2>1, <3>1 DEF NotEarned
      <3> QED
        BY <1>1, <1>2, <2>1, <3>1 DEF RepeatedOnce
    <2>11. RulingKnown' /\ WrittenDown'
      BY <1>1, <1>2, <2>1 DEF RulingKnown, WrittenDown, Reviewing, Asking, Over, Good
    <2> QED
      BY <2>5, <2>6, <2>7, <2>9, <2>10, <2>11 DEF ReviewInv
  <1> QED
    BY <1>3, <1>4

LEMMA ReviewOpens == ReviewInv /\ OpenReview => ReviewInv'
  <1> SUFFICES ASSUME ReviewInv, OpenReview PROVE ReviewInv'
    OBVIOUS
  <1>1. ReviewTyped /\ ReviewNumbers /\ ReviewSets
        /\ OpenInTurn /\ AnsweredOnce /\ RepeatedOnce /\ RulingKnown /\ WrittenDown
    BY DEF ReviewInv
  <1>2. reviewPc = "open" /\ UNCHANGED <<given, layerOne, unanswered, onTime, reviewAnswer, reviewed, ruling, onDisk, undone, marked>>
    BY DEF OpenReview, reviewCalls, reviewOut
  <1>3. CASE ReviewFault /\ reviewPc' = "thrown" /\ UNCHANGED <<review, reviewTry, openReviews>>
    <2>1. reviewFaults' \in 0 .. MaxReviewFaults /\ reviewFaults' # 0
      BY <1>1, <1>3 DEF ReviewFault, ReviewNumbers
    <2>2. unanswered' \subseteq Reviews \X Tries
      BY <1>1, <1>2 DEF ReviewSets
    <2> QED
      BY <1>2, <1>3, <2>1, <2>2, ReviewMovesOn
  <1>4. CASE /\ reviewPc' = "ask" /\ review' = review + 1 /\ reviewTry' = 1
             /\ openReviews' = openReviews \cup {review'} /\ UNCHANGED reviewFaults
    <2>1. review \in 0 .. 1 /\ review' \in Reviews /\ reviewTry' \in Tries /\ reviewTry' \in 0 .. ReviewRetries + 1 /\ review' \in 0 .. 2
      BY <1>1, <1>2, <1>4 DEF ReviewNumbers, Reviews, Tries
    <2>2. openReviews = {}
      BY <1>1, <1>2 DEF OpenInTurn, Reviewing, Asking
    <2>3. ReviewTyped' /\ ReviewSets' /\ ReviewNumbers'
      <3>1. ReviewTyped'
        BY <1>1, <1>2, <1>4 DEF ReviewTyped, ReviewPlaces, Reviewing, Asking
      <3>2. ReviewSets'
        BY <1>1, <1>2, <1>4, <2>1, <2>2 DEF ReviewSets
      <3>3. ReviewNumbers'
        BY <1>1, <1>4, <2>1 DEF ReviewNumbers
      <3> QED
        BY <3>1, <3>2, <3>3
    <2>4. OpenInTurn'
      BY <1>4, <2>2 DEF OpenInTurn, Reviewing, Asking
    <2>5. \A x \in onTime : x[1] <= review'  /\ x[1] # review'
      <3> SUFFICES ASSUME NEW x \in onTime PROVE x[1] <= review'  /\ x[1] # review'
        OBVIOUS
      <3>1. x[1] \in Nat /\ x[1] <= review
        BY <1>1 DEF ReviewSets, Reviews, AnsweredOnce
      <3> QED
        BY <1>4, <2>1, <3>1
    <2>6. AnsweredOnce'
      BY <1>1, <1>2, <1>4, <2>5 DEF AnsweredOnce, Asking
    <2>7. NotEarned(1)' = NotEarned(1)
      BY <1>2 DEF NotEarned
    <2>8. RepeatedOnce'
      BY <1>1, <1>2, <1>4, <2>1, <2>7 DEF RepeatedOnce
    <2>9. RulingKnown' /\ WrittenDown'
      BY <1>1, <1>2, <1>4 DEF RulingKnown, WrittenDown, Reviewing, Asking, Over, Good
    <2> QED
      BY <2>3, <2>4, <2>6, <2>8, <2>9 DEF ReviewInv
  <1> QED
    BY <1>3, <1>4 DEF OpenReview

\* A step within the asking of a review.
LEMMA Asked == ReviewInv /\ (AskReviewer \/ TryAgain) => ReviewInv'
  <1> SUFFICES ASSUME ReviewInv, AskReviewer \/ TryAgain PROVE ReviewInv'
    OBVIOUS
  <1>1. ReviewTyped /\ ReviewNumbers /\ ReviewSets
        /\ OpenInTurn /\ AnsweredOnce /\ RepeatedOnce /\ RulingKnown /\ WrittenDown
    BY DEF ReviewInv
  <1>2. reviewPc \in {"ask", "backoff"} /\ reviewPc' \in {"ask", "wait"}
        /\ UNCHANGED <<given, layerOne, review, onTime, reviewAnswer, reviewed, openReviews, ruling, onDisk, undone, marked, reviewFaults>>
    BY DEF AskReviewer, TryAgain, reviewCalls, reviewOut
  <1>3. reviewTry' \in Tries /\ reviewTry' \in 0 .. ReviewRetries + 1 /\ unanswered' \subseteq Reviews \X Tries /\ review \in Reviews
    <2>1. review \in Reviews /\ reviewTry \in Tries
      BY <1>1, <1>2 DEF ReviewNumbers, Reviewing, Asking
    <2>2. CASE AskReviewer
      BY <1>1, <2>1, <2>2 DEF AskReviewer, ReviewSets, ReviewNumbers
    <2>3. CASE TryAgain
      <3>1. reviewTry <= ReviewRetries /\ reviewTry' = reviewTry + 1 /\ unanswered' = unanswered
        BY <1>1, <2>3 DEF TryAgain, ReviewNumbers, reviewCalls
      <3> QED
        BY <1>1, <2>1, <3>1 DEF Tries, ReviewSets
    <2> QED
      BY <2>2, <2>3
  <1>4. ReviewTyped' /\ ReviewSets'
    BY <1>1, <1>2, <1>3 DEF ReviewTyped, ReviewPlaces, Reviewing, Asking, ReviewSets
  <1>5. ReviewNumbers'
    BY <1>1, <1>2, <1>3 DEF ReviewNumbers
  <1>6. NotEarned(1)' = NotEarned(1)
    BY <1>2 DEF NotEarned
  <1>7. OpenInTurn' /\ AnsweredOnce'
    BY <1>1, <1>2 DEF OpenInTurn, AnsweredOnce, Reviewing, Asking
  <1>8. RepeatedOnce'
    BY <1>1, <1>2, <1>6 DEF RepeatedOnce
  <1>9. RulingKnown' /\ WrittenDown'
    BY <1>1, <1>2 DEF RulingKnown, WrittenDown, Reviewing, Asking, Over, Good
  <1> QED
    BY <1>4, <1>5, <1>7, <1>8, <1>9 DEF ReviewInv

LEMMA ReviewCloses == ReviewInv /\ CloseReview => ReviewInv'
  <1> SUFFICES ASSUME ReviewInv, CloseReview PROVE ReviewInv'
    OBVIOUS
  <1>1. ReviewTyped /\ ReviewNumbers /\ ReviewSets
        /\ OpenInTurn /\ AnsweredOnce /\ RepeatedOnce /\ RulingKnown /\ WrittenDown
    BY DEF ReviewInv
  <1>2. reviewPc = "close" /\ UNCHANGED <<given, layerOne, review, reviewTry, unanswered, onTime, ruling, onDisk, undone, marked>>
    BY DEF CloseReview, reviewCalls, reviewOut
  <1>3. review \in Reviews /\ reviewTry \in Tries /\ openReviews \subseteq {review} /\ ruling = "none"
    BY <1>1, <1>2 DEF ReviewNumbers, OpenInTurn, Reviewing, Asking, RulingKnown
  <1>4. \A r : NotEarned(r)' = NotEarned(r)
    BY <1>2 DEF NotEarned
  <1>5. CASE /\ reviewPc' = "resolve" /\ EndReview(review)
             /\ reviewed' = [reviewed EXCEPT ![review] = IF reviewAnswer \in Good THEN reviewAnswer ELSE "fail"]
             /\ UNCHANGED <<reviewAnswer, reviewFaults>>
    <2>1. /\ reviewed' \in [Reviews -> Rulings] /\ reviewed'[review] = (IF reviewAnswer \in Good THEN reviewAnswer ELSE "fail")
          /\ \A r \in Reviews \ {review} : reviewed'[r] = reviewed[r]
      BY <1>1, <1>3, <1>5 DEF ReviewSets, Good, Rulings
    <2>2. openReviews' = {}
      BY <1>3, <1>5 DEF EndReview
    <2>3. ReviewTyped' /\ ReviewSets'
      BY <1>1, <1>2, <1>5, <2>1, <2>2 DEF ReviewTyped, ReviewPlaces, ReviewSets
    <2>4. ReviewNumbers'
      BY <1>1, <1>2, <1>3, <1>5 DEF ReviewNumbers
    <2>5. AnsweredOnce'
      BY <1>1, <1>2, <1>4, <1>5, <2>1 DEF AnsweredOnce, Asking, Good
    <2>6. RepeatedOnce'
      <3>1. review = 2 => reviewed'[1] = reviewed[1]
        BY <2>1 DEF Reviews
      <3> QED
        BY <1>1, <1>2, <1>4, <1>5, <3>1 DEF RepeatedOnce
    <2>7. OpenInTurn' /\ RulingKnown' /\ WrittenDown'
      BY <1>2, <1>3, <1>5, <2>2 DEF OpenInTurn, RulingKnown, WrittenDown, Reviewing, Asking, Over, Good
    <2> QED
      BY <2>3, <2>4, <2>5, <2>6, <2>7 DEF ReviewInv
  <1>6. CASE /\ ReviewFault /\ openReviews' \in {openReviews, openReviews \ {review}} /\ UNCHANGED reviewed
             /\ \/ reviewPc' = "thrown" /\ UNCHANGED reviewAnswer
                \/ reviewAnswer' = "garbled" /\ UNCHANGED reviewPc
    <2>1. reviewFaults' \in 0 .. MaxReviewFaults /\ reviewFaults' # 0
      BY <1>1, <1>6 DEF ReviewFault, ReviewNumbers
    <2>2. ReviewTyped' /\ ReviewSets'
      BY <1>1, <1>2, <1>6 DEF ReviewTyped, ReviewPlaces, ReviewSets, Answers
    <2>3. ReviewNumbers'
      BY <1>1, <1>2, <1>3, <1>6, <2>1 DEF ReviewNumbers
    <2>4. AnsweredOnce'
      BY <1>1, <1>2, <1>6, <2>1 DEF AnsweredOnce, Asking, Good
    <2>5. RepeatedOnce'
      BY <1>1, <1>2, <1>6, <2>1 DEF RepeatedOnce
    <2>6. OpenInTurn' /\ RulingKnown' /\ WrittenDown'
      BY <1>2, <1>3, <1>6 DEF OpenInTurn, RulingKnown, WrittenDown, Reviewing, Asking, Over, Good
    <2> QED
      BY <2>2, <2>3, <2>4, <2>5, <2>6 DEF ReviewInv
  <1> QED
    BY <1>5, <1>6 DEF CloseReview, Good

LEMMA ReviewResolves == ReviewInv /\ Resolve => ReviewInv'
  <1> SUFFICES ASSUME ReviewInv, Resolve PROVE ReviewInv'
    OBVIOUS
  <1>1. ReviewTyped /\ ReviewNumbers /\ ReviewSets
        /\ OpenInTurn /\ AnsweredOnce /\ RepeatedOnce /\ RulingKnown /\ WrittenDown
    BY DEF ReviewInv
  <1>2. reviewPc = "resolve" /\ UNCHANGED <<given, layerOne, review, reviewTry, unanswered, onTime, reviewAnswer, reviewed,
                                           openReviews, onDisk, undone, marked, reviewFaults>>
    BY DEF Resolve, reviewCalls
  <1>3. review \in Reviews /\ reviewTry \in Tries /\ openReviews = {} /\ ruling = "none"
        /\ reviewed[review] \in {"pass", "partial", "fail"}
        /\ (reviewed[review] \in Good => <<review, reviewTry, reviewed[review]>> \in onTime)
        /\ (reviewFaults = 0 /\ reviewed[review] = "fail" => NotEarned(review))
    BY <1>1, <1>2 DEF ReviewNumbers, OpenInTurn, Reviewing, Asking, RulingKnown, AnsweredOnce, ReviewSets, Rulings
  <1>4. \A r : NotEarned(r)' = NotEarned(r)
    BY <1>2 DEF NotEarned
  <1>5. CASE /\ layerOne \in {"pass", "assumed"} /\ reviewed[review] = "fail" /\ review = 1
             /\ reviewPc' = "open" /\ UNCHANGED ruling
    <2>1. ReviewTyped' /\ ReviewSets'
      BY <1>1, <1>2, <1>5 DEF ReviewTyped, ReviewPlaces, ReviewSets
    <2>2. ReviewNumbers'
      BY <1>1, <1>2, <1>5 DEF ReviewNumbers, Reviewing, Asking
    <2>3. AnsweredOnce'
      BY <1>1, <1>2, <1>5 DEF AnsweredOnce, Asking
    <2>4. RepeatedOnce'
      BY <1>2, <1>3, <1>4, <1>5 DEF RepeatedOnce
    <2>5. OpenInTurn' /\ RulingKnown' /\ WrittenDown'
      BY <1>2, <1>3, <1>5 DEF OpenInTurn, RulingKnown, WrittenDown, Reviewing, Asking, Over, Good
    <2> QED
      BY <2>1, <2>2, <2>3, <2>4, <2>5 DEF ReviewInv
  <1>6. CASE reviewPc' = "save" /\ ruling' = VerdictOf
    <2>1. ruling' = (IF layerOne = "fail" THEN "fail" ELSE reviewed[review])
      BY <1>6 DEF VerdictOf
    <2>2. ReviewTyped' /\ ReviewSets'
      BY <1>1, <1>2, <1>3, <1>6, <2>1 DEF ReviewTyped, ReviewPlaces, Rulings, ReviewSets
    <2>3. ReviewNumbers'
      BY <1>1, <1>2, <1>3, <1>6 DEF ReviewNumbers
    <2>4. AnsweredOnce'
      BY <1>1, <1>2, <1>6 DEF AnsweredOnce, Asking
    <2>5. RepeatedOnce'
      BY <1>1, <1>2, <1>4, <1>6 DEF RepeatedOnce
    <2>6. RulingKnown'
      <3>1. ASSUME ruling' = "fail", layerOne # "fail", reviewFaults = 0 PROVE \A r \in 1 .. review : NotEarned(r)
        <4>1. reviewed[review] = "fail" /\ NotEarned(review)
          BY <1>3, <2>1, <3>1
        <4>2. review = 2 => NotEarned(1)
          BY <1>1, <3>1 DEF RepeatedOnce
        <4>3. \A r \in 1 .. review : r = review \/ (r = 1 /\ review = 2)
          BY <1>3 DEF Reviews
        <4> QED
          BY <4>1, <4>2, <4>3
      <3>2. ruling' \in Good => layerOne # "fail" /\ <<review, reviewTry, ruling'>> \in onTime
        BY <1>3, <2>1 DEF Good
      <3> QED
        BY <1>2, <1>4, <1>6, <3>1, <3>2 DEF RulingKnown, Reviewing, Asking
    <2>7. OpenInTurn' /\ WrittenDown'
      BY <1>2, <1>3, <1>6 DEF OpenInTurn, WrittenDown, Reviewing, Asking, Over
    <2> QED
      BY <2>2, <2>3, <2>4, <2>5, <2>6, <2>7 DEF ReviewInv
  <1> QED
    BY <1>5, <1>6 DEF Resolve

\* What comes after the ruling.
LEMMA RuledOn ==
  ASSUME ReviewInv, reviewPc \in {"save", "judged", "reverting", "mark"},
         reviewPc' \in {"judged", "reverting", "mark", "discarded", "escalated", "thrown"},
         UNCHANGED <<given, layerOne, review, reviewTry, unanswered, onTime, reviewAnswer, reviewed, openReviews, ruling>>,
         reviewFaults' \in 0 .. MaxReviewFaults, reviewFaults' = 0 => reviewFaults = 0,
         WrittenDown'
  PROVE  ReviewInv'
  <1>1. ReviewTyped /\ ReviewNumbers /\ ReviewSets
        /\ OpenInTurn /\ AnsweredOnce /\ RepeatedOnce /\ RulingKnown
    BY DEF ReviewInv
  <1>2. \A r : NotEarned(r)' = NotEarned(r)
    BY DEF NotEarned
  <1>3. ReviewTyped' /\ ReviewSets'
    BY <1>1 DEF ReviewTyped, ReviewPlaces, ReviewSets
  <1>4. ReviewNumbers'
    BY <1>1 DEF ReviewNumbers, Reviewing, Asking
  <1>5. AnsweredOnce'
    BY <1>1 DEF AnsweredOnce, Asking
  <1>6. RepeatedOnce'
    BY <1>1, <1>2 DEF RepeatedOnce
  <1>7. RulingKnown'
    BY <1>1, <1>2 DEF RulingKnown, Reviewing, Asking
  <1>8. OpenInTurn'
    BY <1>1 DEF OpenInTurn, Reviewing, Asking
  <1> QED
    BY <1>3, <1>4, <1>5, <1>6, <1>7, <1>8 DEF ReviewInv

LEMMA ReviewKeeps == ReviewInv /\ [ReviewNext]_reviewVars => ReviewInv'
  <1> SUFFICES ASSUME ReviewInv, [ReviewNext]_reviewVars PROVE ReviewInv'
    OBVIOUS
  <1>1. ReviewTyped /\ ReviewNumbers /\ ReviewSets
        /\ OpenInTurn /\ AnsweredOnce /\ RepeatedOnce /\ RulingKnown /\ WrittenDown
    BY DEF ReviewInv
  <1>2. /\ UNCHANGED reviewFaults => reviewFaults' \in 0 .. MaxReviewFaults /\ (reviewFaults' = 0 => reviewFaults = 0)
        /\ ReviewFault => reviewFaults' \in 0 .. MaxReviewFaults /\ reviewFaults' # 0
        /\ unanswered \subseteq Reviews \X Tries
    BY <1>1 DEF ReviewNumbers, ReviewFault, ReviewSets
  <1>3. CASE UrlPasses
    <2>1. reviewPc = "execute" /\ reviewPc' = "judged" /\ given.url /\ ruling' = "pass"
          /\ UNCHANGED <<given, layerOne, review, reviewTry, unanswered, onTime, reviewAnswer, reviewed, openReviews, onDisk,
                         undone, marked, reviewFaults>>
      BY <1>3 DEF UrlPasses, reviewCalls
    <2>2. \A r : NotEarned(r)' = NotEarned(r)
      BY <2>1 DEF NotEarned
    <2>3. review = 0 /\ openReviews = {}
      BY <1>1, <2>1 DEF ReviewNumbers, OpenInTurn, Reviewing, Asking
    <2>4. ReviewTyped' /\ ReviewSets'
      BY <1>1, <2>1 DEF ReviewTyped, ReviewPlaces, Rulings, ReviewSets
    <2>5. ReviewNumbers'
      BY <1>1, <2>1 DEF ReviewNumbers, Reviewing, Asking
    <2>6. AnsweredOnce'
      BY <1>1, <2>1 DEF AnsweredOnce, Asking
    <2>7. RepeatedOnce'
      BY <2>1, <2>3 DEF RepeatedOnce
    <2>8. RulingKnown' /\ WrittenDown' /\ OpenInTurn'
      BY <2>1, <2>3 DEF RulingKnown, WrittenDown, OpenInTurn, Reviewing, Asking, Over
    <2> QED
      BY <2>4, <2>5, <2>6, <2>7, <2>8 DEF ReviewInv
  <1>4. CASE RunCommand
    <2>1. reviewPc = "execute" /\ reviewPc' = "open" /\ layerOne' \in {"skip", "assumed", "pass", "fail"}
          /\ UNCHANGED <<given, review, reviewTry, unanswered, onTime, reviewAnswer, reviewed, openReviews, ruling, onDisk,
                         undone, marked, reviewFaults>>
      BY <1>4 DEF RunCommand, reviewCalls, reviewOut
    <2>2. review = 0 /\ openReviews = {} /\ ruling = "none"
      BY <1>1, <2>1 DEF ReviewNumbers, OpenInTurn, Reviewing, Asking, RulingKnown
    <2>3. ReviewTyped' /\ ReviewSets'
      BY <1>1, <2>1 DEF ReviewTyped, ReviewPlaces, ReviewSets
    <2>4. ReviewNumbers'
      BY <1>1, <2>1, <2>2 DEF ReviewNumbers, Reviewing, Asking
    <2>5. AnsweredOnce'
      BY <1>1, <2>1 DEF AnsweredOnce, Asking
    <2>6. RepeatedOnce'
      BY <2>1, <2>2 DEF RepeatedOnce
    <2>7. RulingKnown' /\ WrittenDown' /\ OpenInTurn'
      BY <2>1, <2>2 DEF RulingKnown, WrittenDown, OpenInTurn, Reviewing, Asking, Over, Good
    <2> QED
      BY <2>3, <2>4, <2>5, <2>6, <2>7 DEF ReviewInv
  <1>5. CASE ReviewTimer
    BY <1>2, <1>5, TryFailed DEF ReviewTimer, reviewCalls
  <1>6. ASSUME NEW c \in unanswered, ReviewCallFails(c) PROVE ReviewInv'
    <2>1. UNCHANGED <<given, layerOne, review, reviewTry, reviewed, openReviews, reviewOut, reviewFaults, onTime>>
          /\ unanswered' \subseteq Reviews \X Tries
      BY <1>2, <1>6 DEF ReviewCallFails
    <2>2. CASE Awaited(c)
      BY <1>6, <2>1, <2>2, TryFailed DEF ReviewCallFails, Awaited
    <2>3. CASE ~Awaited(c)
      <3>1. UNCHANGED <<reviewAnswer, reviewPc>>
        BY <1>6, <2>3 DEF ReviewCallFails
      <3> QED
        BY <1>2, <2>1, <3>1, ReviewMovesOn DEF reviewOut
    <2> QED
      BY <2>2, <2>3
  <1>7. CASE SaveResult
    <2>1. reviewPc = "save" /\ reviewPc' \in {"judged", "thrown"}
          /\ UNCHANGED <<given, layerOne, review, reviewTry, unanswered, onTime, reviewAnswer, reviewed, openReviews, ruling,
                         undone, marked>>
      BY <1>7 DEF SaveResult, reviewCalls
    <2>2. reviewPc' = "judged" => onDisk' = ruling /\ UNCHANGED reviewFaults
      BY <1>7 DEF SaveResult
    <2>3. UNCHANGED reviewFaults \/ ReviewFault
      BY <1>7 DEF SaveResult
    <2>4. WrittenDown'
      BY <2>1, <2>2 DEF WrittenDown, Over
    <2> QED
      BY <1>2, <2>1, <2>3, <2>4, RuledOn
  <1>8. CASE StartRevert
    <2>1. reviewPc = "judged" /\ ruling = "fail" /\ reviewPc' \in {"reverting", "mark"} /\ (UNCHANGED reviewFaults \/ ReviewFault)
          /\ UNCHANGED <<given, layerOne, review, reviewTry, unanswered, onTime, reviewAnswer, reviewed, openReviews, ruling,
                         onDisk, undone, marked>>
      BY <1>8 DEF StartRevert, reviewCalls, reviewOut
    <2>2. WrittenDown'
      BY <1>1, <2>1 DEF WrittenDown, Over
    <2> QED
      BY <1>2, <2>1, <2>2, RuledOn
  <1>9. CASE RevertAnswered
    <2>1. reviewPc = "reverting" /\ (UNCHANGED reviewFaults \/ ReviewFault)
          /\ (reviewPc' = "mark" \/ (reviewPc' = "discarded" /\ undone'))
          /\ UNCHANGED <<given, layerOne, review, reviewTry, unanswered, onTime, reviewAnswer, reviewed, openReviews, ruling,
                         onDisk, marked>>
      BY <1>9 DEF RevertAnswered, reviewCalls
    <2>2. WrittenDown'
      BY <1>1, <2>1 DEF WrittenDown, Over
    <2> QED
      BY <1>2, <2>1, <2>2, RuledOn
  <1>10. CASE RevertThrows
    <2>1. reviewPc = "reverting" /\ reviewPc' = "mark" /\ UNCHANGED reviewFaults
          /\ UNCHANGED <<given, layerOne, review, reviewTry, unanswered, onTime, reviewAnswer, reviewed, openReviews, ruling,
                         onDisk, undone, marked>>
      BY <1>10 DEF RevertThrows, reviewCalls, reviewOut
    <2>2. WrittenDown'
      BY <1>1, <2>1 DEF WrittenDown, Over
    <2> QED
      BY <1>2, <2>1, <2>2, RuledOn
  <1>11. CASE Mark
    <2>1. reviewPc = "mark" /\ (UNCHANGED reviewFaults \/ ReviewFault)
          /\ (reviewPc' = "thrown" \/ (reviewPc' = "escalated" /\ marked' = TRUE))
          /\ UNCHANGED <<given, layerOne, review, reviewTry, unanswered, onTime, reviewAnswer, reviewed, openReviews, ruling,
                         onDisk, undone>>
      BY <1>11 DEF Mark, reviewCalls
    <2>2. WrittenDown'
      BY <1>1, <2>1 DEF WrittenDown, Over
    <2> QED
      BY <1>2, <2>1, <2>2, RuledOn
  <1>12. CASE UNCHANGED reviewVars
    BY <1>2, <1>12, ReviewMovesOn DEF reviewVars
  <1> QED
    BY <1>3, <1>4, <1>5, <1>6, <1>7, <1>8, <1>9, <1>10, <1>11, <1>12, ReviewOpens, Asked, ReviewCloses, ReviewResolves,
       AnswerTaken DEF ReviewNext, ReviewMoves

LEMMA ReviewHolds == ReviewInv => RulingEarned /\ NothingLeftOpen
  <1> SUFFICES ASSUME ReviewInv PROVE RulingEarned /\ NothingLeftOpen
    OBVIOUS
  <1>1. ReviewTyped /\ ReviewNumbers /\ ReviewSets
        /\ OpenInTurn /\ AnsweredOnce /\ RepeatedOnce /\ RulingKnown /\ WrittenDown
    BY DEF ReviewInv
  <1>2. NothingLeftOpen
    BY <1>1 DEF NothingLeftOpen, OpenInTurn, WrittenDown, Over, Reviewing, Asking
  <1>3. RulingEarned
    BY <1>1 DEF RulingEarned, AnsweredOnce, RepeatedOnce, RulingKnown, NotEarned, Good
  <1> QED
    BY <1>2, <1>3

LEMMA ReviewTypes == ReviewInv => ReviewTypeOK
  BY DEF ReviewInv, ReviewTyped, ReviewNumbers, ReviewSets, Rulings, ReviewTypeOK

HIDE ReviewAssumption DEF ReviewAssumption

-----------------------------------------------------------------------------
(* The terminal interface *)

USE TerminalAssumption DEF TerminalAssumption

Dashes == [running : BOOLEAN, status : {"idle", "running", "stopped", "ended"}, goal : GoalIds \cup {NoGoal},
           poll : BOOLEAN]
Loops == [goal : GoalIds, on : BOOLEAN, waits : Nat]
Questions == [by : Nat, answer : {"none", "yes", "no"}, keys : SUBSET {"yes", "no"}]

TuiTyped ==
    /\ dash \in Dashes /\ starting \in Seq(GoalIds)
    /\ loops \in Seq(Loops) /\ questions \in Seq(Questions)
TuiNumbers ==
    /\ asked \in 0 .. Len(questions) /\ drawn \in 0 .. Len(questions)
    /\ typed \in 0 .. MaxCommands
TuiFlags == halt \in BOOLEAN /\ hasty \in BOOLEAN /\ mounted \in BOOLEAN

\* A run waits for the question that it asked and that is not answered, and for
\* the one on the screen; what is asked is not answered.
QuestionsHeld ==
    /\ \A q \in DOMAIN questions : questions[q].answer = "none" =>
           questions[q].by \in Underway /\ loops[questions[q].by].waits = q
    /\ asked # 0 => questions[asked].answer = "none"
    /\ drawn # 0 => questions[drawn].by \in Underway /\ loops[questions[drawn].by].waits = drawn

\* Nothing, one that starts or one that is under way; and so says the dashboard.
DashSays ==
    hasty = FALSE =>
      \/ Underway = {} /\ starting = <<>> /\ dash.running = FALSE /\ dash.poll = FALSE
      \/ /\ Underway = {} /\ Len(starting) = 1
         /\ dash.running = TRUE /\ dash.poll = FALSE /\ dash.goal = starting[1]
      \/ /\ starting = <<>> /\ dash.running = TRUE /\ dash.poll = TRUE
         /\ \E r \in Underway : Underway = {r} /\ dash.goal = loops[r].goal

\* An id that a command spells out is one of the ids there are.
CommandsNamed ==
    \A c \in inFlight : c.what \in {"start", "start id", "stop"} /\ (c.what = "start id" => c.name \in GoalIds)

TuiSound == TuiTyped /\ TuiNumbers /\ TuiFlags /\ QuestionsHeld /\ ApprovedAsShown /\ NoneLost /\ DashSays
TuiInv == TuiSound /\ CommandsNamed

LEMMA SetAt ==
  ASSUME NEW S, NEW s \in Seq(S), NEW i \in DOMAIN s, NEW x \in S
  PROVE  /\ [s EXCEPT ![i] = x] \in Seq(S) /\ Len([s EXCEPT ![i] = x]) = Len(s)
         /\ DOMAIN [s EXCEPT ![i] = x] = DOMAIN s /\ [s EXCEPT ![i] = x][i] = x
         /\ \A j \in DOMAIN s : j # i => [s EXCEPT ![i] = x][j] = s[j]
  OBVIOUS

LEMMA TuiStart == TuiInit => TuiInv
  <1> SUFFICES ASSUME TuiInit PROVE TuiInv
    OBVIOUS
  <1>1. dash \in Dashes /\ dash.running = FALSE /\ dash.poll = FALSE
    BY DEF TuiInit, Dashes
  <1>2. starting = <<>> /\ loops = <<>> /\ questions = <<>> /\ asked = 0 /\ drawn = 0 /\ typed = 0
        /\ halt = FALSE /\ hasty = FALSE /\ mounted = TRUE /\ inFlight = {}
    BY DEF TuiInit
  <1>3. TuiTyped
    BY <1>1, <1>2 DEF TuiTyped
  <1>4. TuiNumbers
    BY <1>2 DEF TuiNumbers
  <1>5. DOMAIN questions = {} /\ Underway = {}
    BY <1>2 DEF Underway
  <1>6. QuestionsHeld /\ ApprovedAsShown /\ NoneLost
    BY <1>2, <1>5 DEF QuestionsHeld, ApprovedAsShown, NoneLost
  <1>7. TuiSound
    BY <1>1, <1>2, <1>3, <1>4, <1>5, <1>6 DEF TuiSound, TuiFlags, DashSays
  <1> QED
    BY <1>2, <1>7 DEF TuiInv, CommandsNamed

LEMMA RunOn == ASSUME TuiTyped, NEW r \in Underway PROVE loops[r].on = TRUE
  <1>1. loops \in Seq(Loops) /\ r \in DOMAIN loops /\ loops[r].on
    BY DEF TuiTyped, Underway
  <1>2. loops[r] \in Loops
    BY <1>1
  <1>3. loops[r].on \in BOOLEAN
    BY <1>2 DEF Loops
  <1> QED
    BY <1>1, <1>3

\* One request gets an answer or keys: what there was else stays.
LEMMA QuestionSet ==
  ASSUME TuiSound, NEW q \in DOMAIN questions, NEW x \in Questions, x.by = questions[q].by,
         questions' = [questions EXCEPT ![q] = x]
  PROVE  /\ questions' \in Seq(Questions) /\ Len(questions') = Len(questions) /\ DOMAIN questions' = DOMAIN questions
         /\ questions'[q] = x /\ \A p \in DOMAIN questions : p # q => questions'[p] = questions[p]
         /\ \A p \in DOMAIN questions : questions'[p].by = questions[p].by
  <1>1. questions \in Seq(Questions)
    BY DEF TuiSound, TuiTyped
  <1>2. /\ questions' \in Seq(Questions) /\ Len(questions') = Len(questions) /\ DOMAIN questions' = DOMAIN questions
        /\ questions'[q] = x /\ \A p \in DOMAIN questions : p # q => questions'[p] = questions[p]
    BY <1>1, SetAt
  <1> QED
    BY <1>2

\* A run waits, goes on or ends.
LEMMA LoopSet ==
  ASSUME TuiSound, NEW r \in Underway, NEW x \in Loops, x.goal = loops[r].goal, loops' = [loops EXCEPT ![r] = x]
  PROVE  /\ loops' \in Seq(Loops) /\ DOMAIN loops' = DOMAIN loops /\ loops'[r] = x
         /\ \A s \in DOMAIN loops : s # r => loops'[s] = loops[s]
         /\ Underway' = IF x.on THEN Underway ELSE Underway \ {r}
         /\ \A s \in DOMAIN loops : loops'[s].goal = loops[s].goal
  <1>1. loops \in Seq(Loops) /\ r \in DOMAIN loops
    BY DEF TuiSound, TuiTyped, Underway
  <1>2. /\ loops' \in Seq(Loops) /\ DOMAIN loops' = DOMAIN loops /\ loops'[r] = x
        /\ \A s \in DOMAIN loops : s # r => loops'[s] = loops[s]
    BY <1>1, SetAt
  <1>3. Underway' = IF x.on THEN Underway ELSE Underway \ {r}
    BY <1>1, <1>2 DEF Underway
  <1> QED
    BY <1>2, <1>3

\* Nothing happens to requests and runs.
LEMMA DashMoves ==
  ASSUME TuiSound, UNCHANGED <<loops, questions, drawn, mounted>>, asked' = asked,
         dash' \in Dashes, starting' \in Seq(GoalIds), typed' \in 0 .. MaxCommands,
         halt' \in BOOLEAN, hasty' \in BOOLEAN, DashSays'
  PROVE  TuiSound'
  <1>1. TuiTyped /\ TuiNumbers /\ TuiFlags /\ QuestionsHeld /\ ApprovedAsShown /\ NoneLost
    BY DEF TuiSound
  <1>2. TuiTyped' /\ TuiNumbers' /\ TuiFlags'
    BY <1>1 DEF TuiTyped, TuiNumbers, TuiFlags
  <1>3. Underway' = Underway
    BY DEF Underway
  <1>4. QuestionsHeld' /\ ApprovedAsShown' /\ NoneLost'
    BY <1>1, <1>3 DEF QuestionsHeld, ApprovedAsShown, NoneLost
  <1> QED
    BY <1>2, <1>4 DEF TuiSound

LEMMA TypeKeeps == TuiSound /\ Type => TuiSound'
  <1> SUFFICES ASSUME TuiSound, Type PROVE TuiSound'
    OBVIOUS
  <1>1. UNCHANGED <<dash, starting, loops, halt, questions, asked, drawn, mounted, hasty>>
        /\ typed < MaxCommands /\ typed' = typed + 1
    BY DEF Type
  <1>2. dash \in Dashes /\ starting \in Seq(GoalIds) /\ typed \in Nat /\ halt \in BOOLEAN /\ hasty \in BOOLEAN
    BY DEF TuiSound, TuiTyped, TuiNumbers, TuiFlags
  <1>3. typed' \in 0 .. MaxCommands
    BY <1>1, <1>2
  <1>4. DashSays'
    BY <1>1 DEF TuiSound, DashSays, Underway
  <1> QED
    BY <1>1, <1>2, <1>3, <1>4, DashMoves

LEMMA StartKeeps ==
  ASSUME TuiSound, NEW g \in GoalIds, Start(g), UNCHANGED <<loops, drawn, typed, mounted>>
  PROVE  TuiSound'
  <1>1. dash \in Dashes /\ starting \in Seq(GoalIds) /\ typed \in 0 .. MaxCommands /\ halt \in BOOLEAN /\ hasty \in BOOLEAN
        /\ DashSays
    BY DEF TuiSound, TuiTyped, TuiNumbers, TuiFlags
  <1>2. UNCHANGED <<halt, questions, asked, hasty>> /\ Underway' = Underway
    BY DEF Start, Underway
  <1>3. CASE MayLaunch
    <2>1. dash.running = FALSE
      BY <1>1, <1>3 DEF MayLaunch, Dashes
    <2>2. dash' = [running |-> TRUE, status |-> "running", goal |-> g, poll |-> dash.poll]
      BY <1>1, <1>3 DEF Start, Dashes
    <2>3. dash' \in Dashes /\ dash'.running = TRUE /\ dash'.goal = g /\ dash'.poll = dash.poll
      BY <1>1, <2>2 DEF Dashes
    <2>4. starting' = Append(starting, g)
      BY <1>3 DEF Start
    <2>5. starting' \in Seq(GoalIds) /\ (starting = <<>> => Len(starting') = 1 /\ starting'[1] = g)
      BY <1>1, <2>4
    <2>6. DashSays'
      BY <1>1, <1>2, <2>1, <2>3, <2>5 DEF DashSays
    <2> QED
      BY <1>1, <1>2, <2>3, <2>5, <2>6, DashMoves
  <1>4. CASE ~MayLaunch
    <2>1. UNCHANGED <<dash, starting>>
      BY <1>4 DEF Start
    <2>2. DashSays'
      BY <1>1, <1>2, <2>1 DEF DashSays
    <2> QED
      BY <1>1, <1>2, <2>1, <2>2, DashMoves
  <1> QED
    BY <1>3, <1>4

\* The loop is stopped, and what was asked is rejected or forgotten with the
\* interface.
LEMMA HaltedDash ==
  ASSUME TuiSound, Halted
  PROVE  dash' \in Dashes /\ DashSays' /\ halt' = TRUE /\ hasty' \in BOOLEAN /\ UNCHANGED <<starting, loops>> /\ Underway' = Underway
  <1>1. dash' \in Dashes /\ dash'.running = FALSE /\ dash'.poll = FALSE
    BY DEF Halted, Dashes
  <1>2. hasty' = (hasty \/ ~Quiet) /\ UNCHANGED <<starting, loops>> /\ Underway' = Underway /\ halt' = TRUE
    BY DEF Halted, Underway
  <1>3. hasty' \in BOOLEAN /\ (hasty' = FALSE => Quiet)
    BY <1>2 DEF TuiSound, TuiFlags
  <1> QED
    BY <1>1, <1>2, <1>3 DEF DashSays, Quiet

LEMMA StopKeeps == ASSUME TuiSound, Stop, UNCHANGED <<drawn, typed, mounted>> PROVE TuiSound'
  <1>1. TuiTyped /\ TuiNumbers /\ TuiFlags /\ QuestionsHeld /\ ApprovedAsShown /\ NoneLost
    BY DEF TuiSound
  <1>2. dash' \in Dashes /\ DashSays' /\ halt' = TRUE /\ hasty' \in BOOLEAN /\ UNCHANGED <<starting, loops>> /\ Underway' = Underway
    BY HaltedDash DEF Stop
  <1>3. asked' = 0 /\ questions' = Answer(asked, "no")
    BY DEF Stop
  <1>4. TuiFlags'
    BY <1>1, <1>2 DEF TuiFlags
  <1>5. CASE asked = 0
    <2>1. questions' = questions
      BY <1>3, <1>5 DEF Answer
    <2>2. TuiTyped' /\ TuiNumbers'
      BY <1>1, <1>2, <1>5, <1>3, <2>1 DEF TuiTyped, TuiNumbers
    <2>3. QuestionsHeld' /\ ApprovedAsShown' /\ NoneLost'
      BY <1>1, <1>2, <1>3, <1>5, <2>1 DEF QuestionsHeld, ApprovedAsShown, NoneLost
    <2> QED
      BY <1>2, <1>4, <2>2, <2>3 DEF TuiSound
  <1>6. CASE asked # 0
    <2>1. asked \in DOMAIN questions /\ questions[asked].answer = "none" /\ questions[asked] \in Questions
      BY <1>1, <1>6 DEF TuiTyped, TuiNumbers, QuestionsHeld
    <2> DEFINE x == [questions[asked] EXCEPT !.answer = "no"]
    <2>2. x \in Questions /\ x.by = questions[asked].by /\ x.answer = "no"
      BY <2>1 DEF Questions
    <2>3. questions' = [questions EXCEPT ![asked] = x]
      BY <1>3, <1>6, <2>1 DEF Answer
    <2> HIDE DEF x
    <2>4. /\ questions' \in Seq(Questions) /\ Len(questions') = Len(questions) /\ DOMAIN questions' = DOMAIN questions
          /\ questions'[asked] = x /\ \A p \in DOMAIN questions : p # asked => questions'[p] = questions[p]
          /\ \A p \in DOMAIN questions : questions'[p].by = questions[p].by
      BY <2>1, <2>2, <2>3, QuestionSet
    <2>5. TuiTyped' /\ TuiNumbers'
      BY <1>1, <1>2, <1>3, <2>4 DEF TuiTyped, TuiNumbers
    <2>6. \A q \in DOMAIN questions' : questions'[q].answer = "none" => q # asked /\ questions[q].answer = "none"
      BY <2>2, <2>4
    <2>7. drawn # 0 => drawn \in DOMAIN questions
      BY <1>1 DEF TuiNumbers, TuiTyped
    <2>8. QuestionsHeld'
      BY <1>1, <1>2, <1>3, <2>4, <2>6, <2>7 DEF QuestionsHeld
    <2>9. ApprovedAsShown'
      BY <1>1, <2>2, <2>4 DEF ApprovedAsShown
    <2>10. NoneLost'
      BY <1>1, <1>3, <2>4, <2>6 DEF NoneLost
    <2> QED
      BY <1>2, <1>4, <2>5, <2>8, <2>9, <2>10 DEF TuiSound
  <1> QED
    BY <1>5, <1>6

LEMMA HandleKeeps == TuiSound /\ CommandsNamed /\ Handle => TuiSound'
  <1> SUFFICES ASSUME TuiSound, CommandsNamed, Handle PROVE TuiSound'
    OBVIOUS
  <1>1. UNCHANGED <<loops, drawn, typed, mounted>>
    BY DEF Handle
  <1>2. \/ Stop
        \/ \E c \in inFlight : c.what # "stop" /\ \E x \in Chosen(c) : Start(x)
        \/ UNCHANGED <<dash, starting, halt, questions, asked, hasty>>
    BY DEF Handle
  <1>3. CASE Stop
    BY <1>1, <1>3, StopKeeps
  <1>4. ASSUME NEW c \in inFlight, NEW x \in Chosen(c), Start(x), c.what # "stop" PROVE TuiSound'
    <2>1. x \in GoalIds
      <3>1. c.what \in {"start", "start id"}
        BY <1>4 DEF CommandsNamed
      <3>2. CASE c.what = "start id"
        BY <1>4, <3>2 DEF Chosen, CommandsNamed
      <3>3. CASE c.what = "start"
        BY <1>4, <3>3 DEF Chosen
      <3> QED
        BY <3>1, <3>2, <3>3
    <2> QED
      BY <1>1, <1>4, <2>1, StartKeeps
  <1>5. CASE UNCHANGED <<dash, starting, halt, questions, asked, hasty>>
    <2>1. dash \in Dashes /\ starting \in Seq(GoalIds) /\ typed \in 0 .. MaxCommands /\ halt \in BOOLEAN /\ hasty \in BOOLEAN
      BY DEF TuiSound, TuiTyped, TuiNumbers, TuiFlags
    <2>2. DashSays'
      BY <1>1, <1>5 DEF TuiSound, DashSays, Underway
    <2> QED
      BY <1>1, <1>5, <2>1, <2>2, DashMoves
  <1> QED
    BY <1>2, <1>3, <1>4, <1>5

LEMMA RunKeeps == TuiSound /\ Run => TuiSound'
  <1> SUFFICES ASSUME TuiSound, Run PROVE TuiSound'
    OBVIOUS
  <1>1. TuiTyped /\ TuiNumbers /\ TuiFlags /\ QuestionsHeld /\ ApprovedAsShown /\ NoneLost /\ DashSays
    BY DEF TuiSound
  <1>2. UNCHANGED <<questions, asked, drawn, typed, mounted, hasty>> /\ starting # <<>> /\ starting' = Tail(starting) /\ halt' = FALSE
    BY DEF Run
  <1>3. starting \in Seq(GoalIds) /\ starting' \in Seq(GoalIds) /\ Head(starting) \in GoalIds /\ Head(starting) = starting[1]
        /\ (Len(starting) = 1 => starting' = <<>>)
    BY <1>1, <1>2 DEF TuiTyped
  <1>4. dash' \in Dashes /\ dash'.poll = TRUE /\ dash'.running = dash.running /\ dash'.goal = dash.goal
    BY <1>1 DEF Run, TuiTyped, Dashes
  <1> DEFINE x == [goal |-> Head(starting), on |-> TRUE, waits |-> 0]
             n == Len(loops) + 1
  <1>5. x \in Loops /\ x.on = TRUE /\ x.goal = starting[1]
    BY <1>3 DEF Loops
  <1>6. loops' = Append(loops, x) /\ loops \in Seq(Loops)
    BY <1>1 DEF Run, TuiTyped
  <1> HIDE DEF x
  <1>7. /\ loops' \in Seq(Loops) /\ DOMAIN loops' = DOMAIN loops \cup {n} /\ loops'[n] = x /\ n \notin DOMAIN loops
        /\ \A r \in DOMAIN loops : loops'[r] = loops[r]
    BY <1>5, <1>6
  <1>8. Underway' = Underway \cup {n} /\ \A r \in Underway : r \in DOMAIN loops
    BY <1>5, <1>7 DEF Underway
  <1>9. TuiTyped' /\ TuiNumbers' /\ TuiFlags'
    BY <1>1, <1>2, <1>3, <1>4, <1>7 DEF TuiTyped, TuiNumbers, TuiFlags
  <1>10. QuestionsHeld'
    BY <1>1, <1>2, <1>7, <1>8 DEF QuestionsHeld
  <1>11. ApprovedAsShown' /\ NoneLost'
    BY <1>1, <1>2 DEF ApprovedAsShown, NoneLost
  <1>12. DashSays'
    <2> SUFFICES ASSUME hasty' = FALSE
                 PROVE  /\ starting' = <<>> /\ dash'.running = TRUE /\ dash'.poll = TRUE
                        /\ \E r \in Underway' : Underway' = {r} /\ dash'.goal = loops'[r].goal
      BY DEF DashSays
    <2>1. Underway = {} /\ Len(starting) = 1 /\ dash.running = TRUE /\ dash.goal = starting[1]
      BY <1>1, <1>2 DEF DashSays
    <2>2. Underway' = {n}
      BY <1>8, <2>1
    <2> QED
      BY <1>3, <1>4, <1>5, <1>7, <2>1, <2>2
  <1> QED
    BY <1>9, <1>10, <1>11, <1>12 DEF TuiSound

LEMMA RefreshRejectsKeeps == TuiSound /\ RefreshRejects => TuiSound'
  <1> SUFFICES ASSUME TuiSound, RefreshRejects PROVE TuiSound'
    OBVIOUS
  <1>1. dash' = [running |-> FALSE, status |-> "idle", goal |-> NoGoal, poll |-> FALSE]
        /\ starting' = <<>> /\ loops' = <<>> /\ questions' = <<>> /\ asked' = 0 /\ drawn' = 0 /\ typed' = typed
        /\ halt' = FALSE /\ hasty' = FALSE /\ mounted' = FALSE
    BY DEF RefreshRejects
  <1>2. dash' \in Dashes /\ dash'.running = FALSE /\ dash'.poll = FALSE /\ typed' \in 0 .. MaxCommands
    BY <1>1 DEF Dashes, TuiSound, TuiNumbers
  <1>3. TuiTyped'
    BY <1>1, <1>2 DEF TuiTyped
  <1>4. DOMAIN questions' = {} /\ Underway' = {} /\ Len(questions') = 0
    BY <1>1 DEF Underway
  <1>5. TuiNumbers'
    BY <1>1, <1>2, <1>4 DEF TuiNumbers
  <1>6. QuestionsHeld' /\ ApprovedAsShown' /\ NoneLost'
    BY <1>1, <1>4 DEF QuestionsHeld, ApprovedAsShown, NoneLost
  <1> QED
    BY <1>1, <1>2, <1>3, <1>4, <1>5, <1>6 DEF TuiSound, TuiFlags, DashSays

LEMMA AskKeeps == TuiSound /\ Ask => TuiSound'
  <1> SUFFICES ASSUME TuiSound, Ask PROVE TuiSound'
    OBVIOUS
  <1>1. TuiTyped /\ TuiNumbers /\ TuiFlags /\ QuestionsHeld /\ ApprovedAsShown /\ NoneLost /\ DashSays
    BY DEF TuiSound
  <1> DEFINE n == Len(questions) + 1
  <1>2. PICK r \in Underway :
          /\ loops[r].waits = 0
          /\ questions' = Append(questions, [by |-> r, answer |-> "none", keys |-> {}])
          /\ loops' = [loops EXCEPT ![r].waits = n]
    BY DEF Ask
  <1>3. UNCHANGED <<dash, starting, halt, drawn, typed, mounted, hasty>> /\ asked' = n
    BY DEF Ask
  <1>4. /\ questions \in Seq(Questions) /\ loops \in Seq(Loops) /\ r \in DOMAIN loops /\ r \in Nat /\ n \in Nat
        /\ loops[r] \in Loops /\ loops[r].on = TRUE
    <2>1. questions \in Seq(Questions) /\ loops \in Seq(Loops) /\ r \in DOMAIN loops
      BY <1>1 DEF TuiTyped, Underway
    <2>2. r \in Nat /\ n \in Nat /\ loops[r] \in Loops
      BY <2>1
    <2> QED
      BY <1>1, <2>1, <2>2, RunOn
  <1> DEFINE x == [loops[r] EXCEPT !.waits = n]
             y == [by |-> r, answer |-> "none", keys |-> {}]
  <1>5. x \in Loops /\ x.goal = loops[r].goal /\ x.on = TRUE /\ x.waits = n
    BY <1>4 DEF Loops
  <1>6. loops' = [loops EXCEPT ![r] = x]
    BY <1>2
  <1>7. y \in Questions /\ y.by = r /\ y.answer = "none"
    BY <1>4 DEF Questions
  <1>8. questions' = Append(questions, y)
    BY <1>2
  <1> HIDE DEF x, y
  <1>9. /\ loops' \in Seq(Loops) /\ DOMAIN loops' = DOMAIN loops /\ loops'[r] = x
        /\ \A s \in DOMAIN loops : s # r => loops'[s] = loops[s]
        /\ Underway' = Underway
        /\ \A s \in DOMAIN loops : loops'[s].goal = loops[s].goal
    BY <1>5, <1>6, LoopSet
  <1>10. /\ questions' \in Seq(Questions) /\ DOMAIN questions' = DOMAIN questions \cup {n} /\ questions'[n] = y
         /\ Len(questions') = n /\ n \notin DOMAIN questions /\ n # 0 /\ Len(questions) \in Nat
         /\ \A q \in DOMAIN questions : questions'[q] = questions[q] /\ q # 0
    BY <1>4, <1>7, <1>8
  <1>11. TuiTyped' /\ TuiFlags'
    BY <1>1, <1>3, <1>9, <1>10 DEF TuiTyped, TuiFlags
  <1>12. TuiNumbers'
    BY <1>1, <1>3, <1>10 DEF TuiNumbers
  <1>13. drawn # 0 => drawn \in DOMAIN questions
    BY <1>1 DEF TuiNumbers, TuiTyped
  <1>14. \A q \in DOMAIN questions : questions[q].answer = "none" => questions[q].by \in Underway /\ questions[q].by # r
    BY <1>1, <1>2, <1>10 DEF QuestionsHeld
  <1>15. QuestionsHeld'
    <2>1. drawn # 0 => questions[drawn].by \in Underway /\ questions[drawn].by # r
      BY <1>1, <1>2 DEF QuestionsHeld
    <2>2. \A s \in Underway : s \in DOMAIN loops
      BY DEF Underway
    <2>3. \A q \in DOMAIN questions' : questions'[q].answer = "none" =>
             questions'[q].by \in Underway' /\ loops'[questions'[q].by].waits = q
      BY <1>1, <1>5, <1>7, <1>9, <1>10, <1>14, <2>2 DEF QuestionsHeld
    <2>4. drawn' # 0 => questions'[drawn'].by \in Underway' /\ loops'[questions'[drawn'].by].waits = drawn'
      BY <1>1, <1>3, <1>9, <1>10, <1>13, <2>1, <2>2 DEF QuestionsHeld
    <2> QED
      BY <1>3, <1>7, <1>10, <2>3, <2>4 DEF QuestionsHeld
  <1>16. ApprovedAsShown'
    BY <1>1, <1>7, <1>10 DEF ApprovedAsShown
  <1>17. NoneLost'
    <2> SUFFICES ASSUME NEW q \in DOMAIN questions', questions'[q].answer = "none", asked' # q
                 PROVE  \E p \in DOMAIN questions' : questions'[p].by # questions'[q].by
      BY DEF NoneLost
    <2>1. q \in DOMAIN questions /\ questions'[q].by # r
      BY <1>3, <1>10, <1>14
    <2> QED
      BY <1>7, <1>10, <2>1
  <1>18. DashSays'
    BY <1>1, <1>3, <1>9 DEF DashSays, Underway
  <1> QED
    BY <1>11, <1>12, <1>15, <1>16, <1>17, <1>18 DEF TuiSound

LEMMA DrawKeeps == TuiSound /\ Draw => TuiSound'
  <1> SUFFICES ASSUME TuiSound, Draw PROVE TuiSound'
    OBVIOUS
  <1>1. TuiTyped /\ TuiNumbers /\ TuiFlags /\ QuestionsHeld /\ ApprovedAsShown /\ NoneLost /\ DashSays
    BY DEF TuiSound
  <1>2. UNCHANGED <<dash, starting, loops, halt, questions, asked, typed, mounted, hasty>> /\ drawn' = asked /\ Underway' = Underway
    BY DEF Draw, Underway
  <1>3. TuiTyped' /\ TuiNumbers' /\ TuiFlags'
    BY <1>1, <1>2 DEF TuiTyped, TuiNumbers, TuiFlags
  <1>4. asked # 0 => asked \in DOMAIN questions
    BY <1>1 DEF TuiNumbers, TuiTyped
  <1>5. QuestionsHeld'
    BY <1>1, <1>2, <1>4 DEF QuestionsHeld
  <1> QED
    BY <1>1, <1>2, <1>3, <1>5 DEF TuiSound, ApprovedAsShown, NoneLost, DashSays

LEMMA KeyKeeps == TuiSound /\ Key => TuiSound'
  <1> SUFFICES ASSUME TuiSound, Key PROVE TuiSound'
    OBVIOUS
  <1>1. TuiTyped /\ TuiNumbers /\ TuiFlags /\ QuestionsHeld /\ ApprovedAsShown /\ NoneLost /\ DashSays
    BY DEF TuiSound
  <1>2. UNCHANGED <<dash, starting, loops, halt, drawn, typed, mounted, hasty>> /\ asked' = 0 /\ drawn # 0 /\ Underway' = Underway
    BY DEF Key, Underway
  <1>3. PICK k \in {"yes", "no"} : questions' = [Answer(drawn, k) EXCEPT ![drawn].keys = @ \cup {k}]
    BY DEF Key, Meant
  <1>4. drawn \in DOMAIN questions /\ questions[drawn] \in Questions /\ questions \in Seq(Questions)
    BY <1>1, <1>2 DEF TuiNumbers, TuiTyped
  <1> DEFINE w == questions[drawn]
             x == [by |-> w.by, answer |-> IF w.answer = "none" THEN k ELSE w.answer, keys |-> w.keys \cup {k}]
  <1>5. x \in Questions /\ x.by = questions[drawn].by /\ x.answer # "none"
        /\ (x.answer = "yes" => "yes" \in x.keys)
    BY <1>1, <1>4 DEF Questions, ApprovedAsShown
  <1>6. questions' = [questions EXCEPT ![drawn] = x]
    <2>1. w = [by |-> w.by, answer |-> w.answer, keys |-> w.keys]
      BY <1>4 DEF Questions
    <2>2. Answer(drawn, k) = [questions EXCEPT ![drawn] = [by |-> w.by, answer |-> x.answer, keys |-> w.keys]]
      <3>1. CASE w.answer = "none"
        <4>1. [w EXCEPT !.answer = k] = [by |-> w.by, answer |-> x.answer, keys |-> w.keys]
          BY <2>1, <3>1
        <4>2. Answer(drawn, k) = [questions EXCEPT ![drawn] = [w EXCEPT !.answer = k]]
          BY <1>2, <1>4, <3>1 DEF Answer
        <4> QED
          BY <4>1, <4>2
      <3>2. CASE w.answer # "none"
        <4>1. w = [by |-> w.by, answer |-> x.answer, keys |-> w.keys]
          BY <2>1, <3>2
        <4>2. Answer(drawn, k) = questions
          BY <3>2 DEF Answer
        <4>3. questions = [questions EXCEPT ![drawn] = w]
          BY <1>4
        <4> QED
          BY <4>1, <4>2, <4>3
      <3> QED
        BY <3>1, <3>2
    <2> DEFINE v == [by |-> w.by, answer |-> x.answer, keys |-> w.keys]
    <2>3. v.keys = w.keys /\ [v EXCEPT !.keys = w.keys \cup {k}] = x
      OBVIOUS
    <2>4. Answer(drawn, k) = [questions EXCEPT ![drawn] = v]
      BY <2>2
    <2> HIDE DEF v, x
    <2>5. Answer(drawn, k)[drawn] = v
      BY <1>4, <2>4
    <2>6. questions' = [Answer(drawn, k) EXCEPT ![drawn] = [v EXCEPT !.keys = w.keys \cup {k}]]
      BY <1>3, <2>3, <2>5
    <2> QED
      BY <1>4, <2>3, <2>4, <2>6
  <1> HIDE DEF x, w
  <1>7. /\ questions' \in Seq(Questions) /\ Len(questions') = Len(questions) /\ DOMAIN questions' = DOMAIN questions
        /\ questions'[drawn] = x /\ \A p \in DOMAIN questions : p # drawn => questions'[p] = questions[p]
        /\ \A p \in DOMAIN questions : questions'[p].by = questions[p].by
    BY <1>4, <1>5, <1>6, QuestionSet DEF w
  <1>8. TuiTyped' /\ TuiNumbers' /\ TuiFlags'
    BY <1>1, <1>2, <1>7 DEF TuiTyped, TuiNumbers, TuiFlags
  <1>9. \A q \in DOMAIN questions' : questions'[q].answer = "none" => q # drawn /\ questions[q].answer = "none"
    BY <1>5, <1>7
  <1>10. QuestionsHeld'
    BY <1>1, <1>2, <1>4, <1>7, <1>9 DEF QuestionsHeld
  <1>11. ApprovedAsShown'
    BY <1>1, <1>5, <1>7 DEF ApprovedAsShown
  <1>12. NoneLost'
    <2> SUFFICES ASSUME mounted', NEW q \in DOMAIN questions', questions'[q].answer = "none"
                 PROVE  \E p \in DOMAIN questions' : questions'[p].by # questions'[q].by
      BY DEF NoneLost
    <2>1. q \in DOMAIN questions /\ q # drawn /\ questions[q].answer = "none"
      BY <1>7, <1>9
    <2>2. CASE asked # q
      BY <1>1, <1>2, <1>7, <2>1, <2>2 DEF NoneLost
    \* The run of the question on the screen still waits for that one.
    <2>3. CASE asked = q
      <3>1. loops[questions[q].by].waits = q /\ loops[questions[drawn].by].waits = drawn
        BY <1>1, <1>2, <2>1 DEF QuestionsHeld
      <3>2. questions[q].by # questions[drawn].by
        BY <2>1, <3>1
      <3> QED
        BY <1>4, <1>7, <2>1, <3>2
    <2> QED
      BY <2>2, <2>3
  <1>13. DashSays'
    BY <1>1, <1>2 DEF DashSays
  <1> QED
    BY <1>8, <1>10, <1>11, <1>12, <1>13 DEF TuiSound

LEMMA ResumeKeeps == TuiSound /\ Resume => TuiSound'
  <1> SUFFICES ASSUME TuiSound, Resume PROVE TuiSound'
    OBVIOUS
  <1>1. TuiTyped /\ TuiNumbers /\ TuiFlags /\ QuestionsHeld /\ ApprovedAsShown /\ NoneLost /\ DashSays
    BY DEF TuiSound
  <1>2. PICK r \in Underway :
          /\ loops[r].waits \notin {0, drawn}
          /\ questions[loops[r].waits].answer # "none"
          /\ loops' = [loops EXCEPT ![r].waits = 0]
    BY DEF Resume
  <1>3. UNCHANGED <<dash, starting, halt, questions, asked, drawn, typed, mounted, hasty>>
    BY DEF Resume
  <1>4. loops \in Seq(Loops) /\ r \in DOMAIN loops /\ loops[r] \in Loops /\ loops[r].on = TRUE
    <2>1. loops \in Seq(Loops) /\ r \in DOMAIN loops
      BY <1>1 DEF TuiTyped, Underway
    <2>2. loops[r] \in Loops
      BY <2>1
    <2> QED
      BY <1>1, <2>1, <2>2, RunOn
  <1> DEFINE x == [loops[r] EXCEPT !.waits = 0]
  <1>5. x \in Loops /\ x.goal = loops[r].goal /\ x.on = TRUE
    BY <1>4 DEF Loops
  <1>6. loops' = [loops EXCEPT ![r] = x]
    BY <1>2
  <1> HIDE DEF x
  <1>7. /\ loops' \in Seq(Loops) /\ DOMAIN loops' = DOMAIN loops /\ loops'[r] = x
        /\ \A s \in DOMAIN loops : s # r => loops'[s] = loops[s]
        /\ Underway' = Underway
        /\ \A s \in DOMAIN loops : loops'[s].goal = loops[s].goal
    BY <1>5, <1>6, LoopSet
  <1>8. TuiTyped' /\ TuiNumbers' /\ TuiFlags'
    BY <1>1, <1>3, <1>7 DEF TuiTyped, TuiNumbers, TuiFlags
  <1>9. QuestionsHeld'
    <2>1. \A q \in DOMAIN questions : questions[q].answer = "none" => questions[q].by # r
      BY <1>1, <1>2 DEF QuestionsHeld
    <2>2. drawn # 0 => questions[drawn].by # r
      BY <1>1, <1>2 DEF QuestionsHeld
    <2>3. \A s \in Underway : s \in DOMAIN loops
      BY DEF Underway
    <2> QED
      BY <1>1, <1>3, <1>7, <2>1, <2>2, <2>3 DEF QuestionsHeld
  <1>10. ApprovedAsShown' /\ NoneLost'
    BY <1>1, <1>3 DEF ApprovedAsShown, NoneLost
  <1>11. DashSays'
    BY <1>1, <1>3, <1>7 DEF DashSays, Underway
  <1> QED
    BY <1>8, <1>9, <1>10, <1>11 DEF TuiSound

LEMMA RunEndsKeeps == TuiSound /\ RunEnds => TuiSound'
  <1> SUFFICES ASSUME TuiSound, RunEnds PROVE TuiSound'
    OBVIOUS
  <1>1. TuiTyped /\ TuiNumbers /\ TuiFlags /\ QuestionsHeld /\ ApprovedAsShown /\ NoneLost /\ DashSays
    BY DEF TuiSound
  <1>2. PICK r \in Underway :
          /\ loops[r].waits = 0
          /\ loops' = [loops EXCEPT ![r].on = FALSE]
          /\ \E s \in {"ended"} \cup IF halt THEN {"stopped"} ELSE {} :
               dash' = [dash EXCEPT !.running = FALSE, !.status = s, !.poll = FALSE]
          /\ hasty' = (hasty /\ ~(Underway = {r} /\ starting = <<>>))
    BY DEF RunEnds
  <1>3. UNCHANGED <<starting, halt, questions, asked, drawn, typed, mounted>>
    BY DEF RunEnds
  <1>4. loops \in Seq(Loops) /\ r \in DOMAIN loops /\ loops[r] \in Loops
    BY <1>1 DEF TuiTyped, Underway
  <1> DEFINE x == [loops[r] EXCEPT !.on = FALSE]
  <1>5. x \in Loops /\ x.goal = loops[r].goal /\ x.on = FALSE
    BY <1>4 DEF Loops
  <1>6. loops' = [loops EXCEPT ![r] = x]
    BY <1>2
  <1> HIDE DEF x
  <1>7. /\ loops' \in Seq(Loops) /\ DOMAIN loops' = DOMAIN loops /\ loops'[r] = x
        /\ \A s \in DOMAIN loops : s # r => loops'[s] = loops[s]
        /\ Underway' = Underway \ {r}
    BY <1>5, <1>6, LoopSet
  <1>8. dash' \in Dashes /\ dash'.running = FALSE /\ dash'.poll = FALSE
    <2>1. PICK s \in {"ended", "stopped"} : dash' = [dash EXCEPT !.running = FALSE, !.status = s, !.poll = FALSE]
      BY <1>2
    <2>2. dash \in Dashes
      BY <1>1 DEF TuiTyped
    <2> QED
      BY <2>1, <2>2 DEF Dashes
  <1>9. TuiTyped' /\ TuiNumbers' /\ TuiFlags'
    <2>1. hasty' \in BOOLEAN
      BY <1>1, <1>2 DEF TuiFlags
    <2> QED
      BY <1>1, <1>3, <1>7, <1>8, <2>1 DEF TuiTyped, TuiNumbers, TuiFlags
  <1>10. QuestionsHeld'
    <2>1. \A q \in DOMAIN questions : questions[q].answer = "none" => questions[q].by # r
      <3> SUFFICES ASSUME NEW q \in DOMAIN questions, questions[q].answer = "none", questions[q].by = r PROVE FALSE
        OBVIOUS
      <3>1. loops[r].waits = q /\ q # 0
        BY <1>1 DEF QuestionsHeld, TuiTyped
      <3> QED
        BY <1>2, <3>1
    <2>2. drawn # 0 => questions[drawn].by # r
      BY <1>1, <1>2 DEF QuestionsHeld
    <2>3. \A s \in Underway : s \in DOMAIN loops
      BY DEF Underway
    <2> QED
      BY <1>1, <1>3, <1>7, <2>1, <2>2, <2>3 DEF QuestionsHeld
  <1>11. ApprovedAsShown' /\ NoneLost'
    BY <1>1, <1>3 DEF ApprovedAsShown, NoneLost
  <1>12. DashSays'
    <2> SUFFICES ASSUME hasty' = FALSE PROVE Underway' = {} /\ starting' = <<>>
      BY <1>8 DEF DashSays
    <2>1. CASE hasty = FALSE
      BY <1>1, <1>3, <1>7, <2>1 DEF DashSays
    <2>2. CASE hasty = TRUE
      BY <1>2, <1>3, <1>7, <2>2
    <2> QED
      BY <1>1, <2>1, <2>2 DEF TuiFlags
  <1> QED
    BY <1>9, <1>10, <1>11, <1>12 DEF TuiSound

LEMMA UnmountKeeps == TuiSound /\ Unmount => TuiSound'
  <1> SUFFICES ASSUME TuiSound, Unmount PROVE TuiSound'
    OBVIOUS
  <1>1. TuiTyped /\ TuiNumbers /\ TuiFlags /\ QuestionsHeld /\ ApprovedAsShown
    BY DEF TuiSound
  <1>2. dash' \in Dashes /\ DashSays' /\ halt' = TRUE /\ hasty' \in BOOLEAN /\ UNCHANGED <<starting, loops>> /\ Underway' = Underway
    BY HaltedDash DEF Unmount
  <1>3. mounted' = FALSE /\ drawn' = 0 /\ UNCHANGED <<questions, asked, typed>>
    BY DEF Unmount
  <1>4. TuiTyped' /\ TuiFlags'
    BY <1>1, <1>2, <1>3 DEF TuiTyped, TuiFlags
  <1>6. TuiNumbers'
    <2>1. Len(questions) \in Nat
      BY <1>1 DEF TuiTyped
    <2> QED
      BY <1>1, <1>3, <2>1 DEF TuiNumbers
  <1>5. QuestionsHeld' /\ ApprovedAsShown' /\ NoneLost'
    BY <1>1, <1>2, <1>3 DEF QuestionsHeld, ApprovedAsShown, NoneLost
  <1> QED
    BY <1>2, <1>4, <1>5, <1>6 DEF TuiSound

LEMMA SoundKept == TuiInv /\ [TuiStep]_tuiVars => TuiSound'
  <1> SUFFICES ASSUME TuiSound, CommandsNamed, [TuiStep]_tuiVars PROVE TuiSound'
    BY DEF TuiInv
  <1>1. CASE UNCHANGED tuiVars
    <2>1. dash \in Dashes /\ starting \in Seq(GoalIds) /\ typed \in 0 .. MaxCommands /\ halt \in BOOLEAN /\ hasty \in BOOLEAN
          /\ DashSays
      BY DEF TuiSound, TuiTyped, TuiNumbers, TuiFlags
    <2>2. UNCHANGED <<dash, starting, loops, halt, questions, asked, drawn, inFlight, typed, mounted, hasty>>
      BY <1>1 DEF tuiVars
    <2>3. DashSays'
      BY <2>1, <2>2 DEF DashSays, Underway
    <2> QED
      BY <2>1, <2>2, <2>3, DashMoves
  <1> QED
    BY <1>1, TypeKeeps, HandleKeeps, RunKeeps, RefreshRejectsKeeps, AskKeeps, DrawKeeps, KeyKeeps, ResumeKeeps, RunEndsKeeps,
       UnmountKeeps DEF TuiStep

LEMMA CommandsKept == CommandsNamed /\ [TuiStep]_tuiVars => CommandsNamed'
  <1> SUFFICES ASSUME CommandsNamed, [TuiStep]_tuiVars, NEW c \in inFlight'
               PROVE  c.what \in {"start", "start id", "stop"} /\ (c.what = "start id" => c.name \in GoalIds)
    BY DEF CommandsNamed
  <1>1. CASE c \in inFlight
    BY <1>1 DEF CommandsNamed
  <1>2. Type \/ inFlight' \subseteq inFlight
    BY DEF TuiStep, tuiVars, Handle, Run, RefreshRejects, Ask, Draw, Key, Resume, RunEnds, Unmount
  <1>3. CASE Type
    <2>1. PICK what \in {"start", "start id", "stop"} :
             \E name \in CASE what = "start"    -> {NoGoal} \cup Runnable
                           [] what = "start id" -> GoalIds
                           [] what = "stop"     -> {NoGoal} :
               inFlight' = inFlight \cup {[n |-> typed + 1, what |-> what, name |-> name]}
      BY <1>3 DEF Type
    <2>2. PICK name : /\ what = "start id" => name \in GoalIds
                      /\ inFlight' = inFlight \cup {[n |-> typed + 1, what |-> what, name |-> name]}
      BY <2>1
    <2>3. CASE c = [n |-> typed + 1, what |-> what, name |-> name]
      BY <2>2, <2>3
    <2> QED
      BY <1>1, <2>2, <2>3
  <1> QED
    BY <1>1, <1>2, <1>3

LEMMA TuiKeeps == TuiInv /\ [TuiStep]_tuiVars => TuiInv'
  BY SoundKept, CommandsKept DEF TuiInv

LEMMA TuiHolds == TuiInv => ApprovedAsShown /\ NoneLost /\ DashTells
  <1> SUFFICES ASSUME TuiInv, ~hasty
               PROVE  /\ Cardinality(Underway) + Len(starting) <= 1
                      /\ dash.running = ~Quiet
                      /\ dash.poll = (Underway # {})
                      /\ \A r \in Underway : dash.goal = loops[r].goal
    BY DEF TuiInv, TuiSound, DashTells
  <1>1. DashSays /\ hasty = FALSE
    BY DEF TuiInv, TuiSound, TuiFlags
  <1>2. Cardinality({}) = 0 /\ \A r : Cardinality({r}) = 1
    BY FS_EmptySet, FS_Singleton
  <1>3. Len(<<>>) = 0
    OBVIOUS
  <1>4. CASE Underway = {} /\ starting = <<>> /\ dash.running = FALSE /\ dash.poll = FALSE
    <2>1. Cardinality(Underway) + Len(starting) <= 1
      BY <1>2, <1>3, <1>4
    <2> QED
      BY <1>4, <2>1, Zenon DEF Quiet
  <1>5. CASE Underway = {} /\ Len(starting) = 1 /\ dash.running = TRUE /\ dash.poll = FALSE /\ dash.goal = starting[1]
    <2>1. Cardinality(Underway) + Len(starting) <= 1 /\ starting # <<>>
      BY <1>2, <1>3, <1>5
    <2> QED
      BY <1>5, <2>1, Zenon DEF Quiet
  <1>6. CASE /\ starting = <<>> /\ dash.running = TRUE /\ dash.poll = TRUE
             /\ \E r \in Underway : Underway = {r} /\ dash.goal = loops[r].goal
    <2>1. PICK r \in Underway : Underway = {r} /\ dash.goal = loops[r].goal
      BY <1>6
    <2>2. Cardinality(Underway) + Len(starting) <= 1
      <3>1. Cardinality(Underway) = 1 /\ Len(starting) = 0
        BY <1>2, <1>3, <1>6, <2>1, Zenon
      <3> QED
        BY <3>1
    <2>3. Underway # {} /\ \A s \in Underway : dash.goal = loops[s].goal
      BY <2>1
    <2> QED
      BY <1>6, <2>2, <2>3, Zenon DEF Quiet
  <1> QED
    BY <1>1, <1>4, <1>5, <1>6 DEF DashSays

LEMMA TuiTypes == TuiInv => TuiTypeOK
  BY DEF TuiInv, TuiSound, TuiTyped, TuiNumbers, TuiFlags, Dashes, TuiTypeOK

HIDE TerminalAssumption DEF TerminalAssumption

-----------------------------------------------------------------------------
(* A group of tasks *)

\* Between groups nothing runs, and a report is of the results still there.
GroupIdle == groupPc = "idle" => running = {} /\ waiting = {}
Reported ==
    /\ groupPc = "waves" => outcome = "none"
    /\ outcome \in {"completed", "keep", "escalate"} => outcome = Action[Overall(results)]
    /\ outcome \in {"completed", "keep", "escalate"} => Finished = Tasks

\* Those of a wave are ready, or all that is left is a knot.
WaveOrdered ==
    \/ \A t \in running \cup waiting : \A p \in deps : p[2] = t => p[1] \in Finished
    \/ \E s \in SUBSET Tasks : running \cup waiting \subseteq s /\ Knot(s)

GroupInv == GroupTypeOK /\ GroupIdle /\ Reported /\ WaveOrdered /\ LimitKept

USE GroupAssumption DEF GroupAssumption

\* Subtasks are finite, and so is what runs.
LEMMA RunningFinite ==
  ASSUME GroupTypeOK
  PROVE  IsFiniteSet(running) /\ Cardinality(running) \in Nat
  <1>1. running \in SUBSET Tasks
    BY DEF GroupTypeOK
  <1> QED
    BY <1>1, FS_Subset, FS_CardinalityType

LEMMA GroupStarts == GroupInit => GroupInv
  <1> SUFFICES ASSUME GroupInit PROVE GroupInv
    OBVIOUS
  <1>1. results \in [Tasks -> {"none", "pass", "fail"}]
    BY DEF GroupInit, NoResults
  <1>2. GroupTypeOK
    BY <1>1 DEF GroupInit, GroupTypeOK
  <1>3. GroupIdle /\ Reported /\ WaveOrdered
    BY DEF GroupInit, GroupIdle, Reported, WaveOrdered
  <1>4. LimitKept
    BY FS_EmptySet DEF GroupInit, LimitKept
  <1> QED
    BY <1>2, <1>3, <1>4 DEF GroupInv

LEMMA GenerateInv == GroupInv /\ Generate => GroupInv'
  <1> SUFFICES ASSUME GroupInv, Generate PROVE GroupInv'
    OBVIOUS
  <1> USE DEF GroupInv
  <1>1. /\ running' = {} /\ waiting' = {} /\ crashes' = crashes
        /\ groups' = groups + 1
        /\ results' \in [Tasks -> {"none", "pass", "fail"}]
    BY DEF Generate, GroupIdle, NoResults
  <1>2. outcome' \in {"single", "none"} /\ groupPc' \in {"idle", "waves"}
        /\ (groupPc' = "waves" => outcome' = "none")
    BY DEF Generate
  <1>3. deps' \subseteq (Tasks \cup {Unknown}) \X Tasks
    BY DEF Generate
  <1>4. GroupTypeOK'
    BY <1>1, <1>2, <1>3 DEF GroupTypeOK
  <1>5. GroupIdle' /\ Reported' /\ WaveOrdered'
    BY <1>1, <1>2 DEF GroupIdle, Reported, WaveOrdered
  <1>6. LimitKept'
    BY <1>1, FS_EmptySet DEF LimitKept
  <1> QED
    BY <1>4, <1>5, <1>6

\* What cannot be started in any order is a knot.
LEMMA StuckIsKnot ==
  ASSUME GroupTypeOK, Ready = {}
  PROVE  Knot(Tasks \ Finished)
  <1> SUFFICES ASSUME NEW t \in Tasks \ Finished
               PROVE  \E d \in (Tasks \ Finished) \cup {Unknown} : <<d, t>> \in deps
    BY DEF Knot
  <1>1. PICK p \in deps : p[2] = t /\ p[1] \notin Finished
    BY DEF Ready
  <1>2. p \in (Tasks \cup {Unknown}) \X Tasks
    BY DEF GroupTypeOK
  <1>3. p = <<p[1], p[2]>> /\ p[1] \in Tasks \cup {Unknown}
    BY <1>2
  <1>4. p[1] \in (Tasks \ Finished) \cup {Unknown} /\ <<p[1], t>> \in deps
    BY <1>1, <1>3
  <1> QED
    BY <1>4

LEMMA StartInv == GroupInv /\ StartWave => GroupInv'
  <1> SUFFICES ASSUME GroupInv, StartWave PROVE GroupInv'
    OBVIOUS
  <1> USE DEF GroupInv
  <1>1. PICK first \in SUBSET Wave :
          /\ Cardinality(first) = Slots(Wave)
          /\ running' = first /\ waiting' = Wave \ first
    BY DEF StartWave
  <1>2. /\ groupPc = "waves" /\ UNCHANGED <<deps, groupPc, results, outcome, groups, crashes>>
    BY DEF StartWave
  <1>3. Wave \subseteq Tasks \ Finished
    BY DEF Wave, Ready
  <1>4. GroupTypeOK'
    BY <1>1, <1>2, <1>3 DEF GroupTypeOK, Finished
  <1>5. GroupIdle' /\ Reported'
    BY <1>2 DEF GroupIdle, Reported, Finished
  <1>6. WaveOrdered'
    <2>1. running' \cup waiting' = Wave
      BY <1>1
    <2>2. Finished' = Finished
      BY <1>2 DEF Finished
    <2>3. CASE Ready = {}
      <3>1. Wave = Tasks \ Finished /\ Knot(Tasks \ Finished)
        BY <2>3, StuckIsKnot DEF Wave
      <3>2. Knot(Tasks \ Finished)'
        BY <1>2, <2>2, <3>1 DEF Knot
      <3>3. (Tasks \ Finished)' = Tasks \ Finished /\ (Tasks \ Finished) \in SUBSET Tasks
        BY <2>2
      <3> QED
        BY <2>1, <3>1, <3>2, <3>3 DEF WaveOrdered
    <2>4. CASE Ready # {}
      <3>1. \A t \in running' \cup waiting' : \A p \in deps : p[2] = t => p[1] \in Finished
        BY <2>1, <2>4 DEF Wave, Ready
      <3> QED
        BY <1>2, <2>2, <3>1 DEF WaveOrdered
    <2> QED
      BY <2>3, <2>4
  <1>7. LimitKept'
    <2>1. IsFiniteSet(Wave) /\ Cardinality(Wave) \in Nat
      <3>1. Wave \in SUBSET Tasks
        BY <1>3
      <3> QED
        BY <3>1, FS_Subset, FS_CardinalityType
    <2>2. Slots(Wave) <= Limit
      BY <2>1 DEF Slots
    <2> QED
      BY <1>1, <2>2 DEF LimitKept
  <1> QED
    BY <1>4, <1>5, <1>6, <1>7

LEMMA EndInv == ASSUME GroupInv, NEW t \in Tasks, End(t) PROVE GroupInv'
  <1> USE DEF GroupInv
  <1>1. PICK v \in {"pass", "fail"} : results' = [results EXCEPT ![t] = v]
    BY DEF End
  <1>2. /\ groupPc = "waves" /\ t \in running
        /\ UNCHANGED <<deps, groupPc, outcome, groups, crashes>>
    BY DEF End
  <1>3. \/ waiting = {} /\ running' = running \ {t} /\ waiting' = waiting
        \/ \E u \in waiting : running' = (running \ {t}) \cup {u} /\ waiting' = waiting \ {u}
    BY DEF End
  <1>4. /\ results' \in [Tasks -> {"none", "pass", "fail"}]
        /\ \A u \in Tasks \ {t} : results'[u] = results[u]
        /\ Finished \subseteq Finished'
    BY <1>1 DEF GroupTypeOK, Finished
  <1>5. /\ running' \cup waiting' \subseteq (running \cup waiting) \ {t}
        /\ running' \cap waiting' = {}
    BY <1>3, <1>2 DEF GroupTypeOK
  <1>6. GroupTypeOK'
    BY <1>2, <1>4, <1>5 DEF GroupTypeOK
  <1>7. GroupIdle' /\ Reported'
    BY <1>2 DEF GroupIdle, Reported
  <1>8. WaveOrdered'
    <2>1. CASE \A x \in running \cup waiting : \A p \in deps : p[2] = x => p[1] \in Finished
      BY <1>2, <1>4, <1>5, <2>1 DEF WaveOrdered
    <2>2. ASSUME NEW s \in SUBSET Tasks, running \cup waiting \subseteq s, Knot(s)
          PROVE  WaveOrdered'
      <3>1. Knot(s)' /\ running' \cup waiting' \subseteq s
        BY <1>2, <1>5, <2>2 DEF Knot
      <3> QED
        BY <3>1 DEF WaveOrdered
    <2> QED
      BY <2>1, <2>2 DEF WaveOrdered
  <1>9. LimitKept'
    <2>1. IsFiniteSet(running) /\ Cardinality(running) \in Nat
      BY RunningFinite
    <2>2. IsFiniteSet(running \ {t}) /\ Cardinality(running \ {t}) = Cardinality(running) - 1
      BY <1>2, <2>1, FS_RemoveElement
    <2>3. CASE running' = running \ {t}
      BY <2>1, <2>2, <2>3 DEF LimitKept
    <2>4. ASSUME NEW u \in waiting, running' = (running \ {t}) \cup {u} PROVE LimitKept'
      <3>1. u \notin running \ {t}
        BY DEF GroupTypeOK
      <3>2. Cardinality((running \ {t}) \cup {u}) = Cardinality(running \ {t}) + 1
        BY <2>2, <3>1, FS_AddElement
      <3> QED
        BY <2>1, <2>2, <2>4, <3>2 DEF LimitKept
    <2> QED
      BY <1>3, <2>3, <2>4
  <1> QED
    BY <1>6, <1>7, <1>8, <1>9

LEMMA FinishInv == GroupInv /\ Finish => GroupInv'
  <1> SUFFICES ASSUME GroupInv, Finish PROVE GroupInv'
    OBVIOUS
  <1> USE DEF GroupInv
  <1>1. /\ groupPc' = "idle" /\ running = {} /\ Finished = Tasks
        /\ outcome' = Action[Overall(results)]
        /\ UNCHANGED <<deps, waiting, running, results, groups, crashes>>
    BY DEF Finish
  <1>2. waiting = {}
    BY <1>1 DEF GroupTypeOK, Finished
  <1>3. outcome' \in {"completed", "keep", "escalate"}
    BY <1>1 DEF Action, Overall
  <1>4. GroupTypeOK'
    BY <1>1, <1>3 DEF GroupTypeOK
  <1>5. GroupIdle'
    BY <1>1, <1>2 DEF GroupIdle
  <1>6. Reported'
    BY <1>1, <1>3 DEF Reported, Finished
  <1>7. WaveOrdered' /\ LimitKept'
    BY <1>1, <1>2 DEF WaveOrdered, LimitKept
  <1> QED
    BY <1>4, <1>5, <1>6, <1>7

LEMMA CrashInv == GroupInv /\ GroupCrash => GroupInv'
  <1> SUFFICES ASSUME GroupInv, GroupCrash PROVE GroupInv'
    OBVIOUS
  <1> USE DEF GroupInv
  <1>1. /\ groupPc' = "idle" /\ waiting' = {} /\ running' = {} /\ outcome' = "none"
        /\ crashes' = crashes + 1 /\ UNCHANGED <<deps, groups>>
        /\ results' \in [Tasks -> {"none", "pass", "fail"}]
    BY DEF GroupCrash, NoResults
  <1>2. GroupTypeOK'
    BY <1>1 DEF GroupTypeOK
  <1>3. GroupIdle' /\ Reported' /\ WaveOrdered'
    BY <1>1 DEF GroupIdle, Reported, WaveOrdered
  <1>4. LimitKept'
    BY <1>1, FS_EmptySet DEF LimitKept
  <1> QED
    BY <1>2, <1>3, <1>4

LEMMA GroupStutter == GroupInv /\ UNCHANGED groupVars => GroupInv'
  BY DEF GroupInv, GroupTypeOK, GroupIdle, Reported, WaveOrdered, LimitKept, Knot, Finished, groupVars

THEOREM GroupInvariant == GroupSpec => []GroupInv
  <1>1. GroupInit => GroupInv
    BY GroupStarts
  <1>2. GroupInv /\ [GroupNext]_groupVars => GroupInv'
    BY GenerateInv, StartInv, EndInv, FinishInv, CrashInv, GroupStutter DEF GroupNext, Work
  <1> QED
    BY <1>1, <1>2, PTL DEF GroupSpec

-----------------------------------------------------------------------------
(* The theorems *)

\* At every moment no more subtasks are under way than the limit, for every
\* number of subtasks and every limit.
THEOREM LimitAlwaysKept == GroupSpec => []LimitKept
  BY GroupInvariant, PTL DEF GroupInv

\* No subtask overtakes one it depends on unless no order could serve it.
THEOREM OrderAlwaysKept == GroupSpec => []OrderKept
  <1>1. GroupInv => OrderKept
    BY DEF GroupInv, WaveOrdered, OrderKept
  <1> QED
    BY <1>1, GroupInvariant, PTL

\* Both, which is what the runs check of the waves.
THEOREM DispatchAlwaysSound == GroupSpec => []DispatchSound
  BY LimitAlwaysKept, OrderAlwaysKept, PTL DEF DispatchSound

\* Completed means that all subtasks passed, escalated that none did.
THEOREM OutcomeAlwaysHonest == GroupSpec => []OutcomeHonest
  <1>1. GroupInv => OutcomeHonest
    <2> SUFFICES ASSUME GroupInv PROVE OutcomeHonest
      OBVIOUS
    <2> USE DEF GroupInv
    <2>1. results \in [Tasks -> {"none", "pass", "fail"}]
      BY DEF GroupTypeOK
    <2>2. CASE outcome \notin {"completed", "keep", "escalate"}
      BY <2>2 DEF OutcomeHonest
    <2>3. CASE outcome \in {"completed", "keep", "escalate"}
      <3>1. outcome = Action[Overall(results)] /\ \A t \in Tasks : results[t] # "none"
        BY <2>3 DEF Reported, Finished
      <3>2. outcome = "completed" => Overall(results) = "pass"
        BY <3>1 DEF Action, Overall
      <3>3. outcome = "keep" => Overall(results) = "partial"
        BY <3>1 DEF Action, Overall
      <3>4. outcome = "escalate" => Overall(results) = "fail"
        BY <3>1 DEF Action, Overall
      <3> QED
        BY <2>1, <3>1, <3>2, <3>3, <3>4 DEF Overall, OutcomeHonest
    <2> QED
      BY <2>2, <2>3
  <1> QED
    BY <1>1, GroupInvariant, PTL

HIDE GroupAssumption DEF GroupAssumption

-----------------------------------------------------------------------------
(* The files of a goal *)

\* What makes the three inductive: the temporary file is not the file; the
\* busy writer alone holds it; the log is what it loaded, or was removed; and
\* what it misses was taken from it while it was under way.
TmpApart == tmp # None => tmp # file
Alone    == \A w \in Writers :
                /\ fd[w] # None => pc[w] = "open" /\ fd[w] # file /\ (tmp # None => fd[w] = tmp)
                /\ pc[w] = "open" => fd[w] # None
                /\ pc[w] \in Busy => Stored \subseteq read[w] /\ read[w] \subseteq Stored \cup erased
                /\ pc[w] = "written" => tmp = None \/ body[tmp] = read[w] \cup {w}
Missed   == \A w \in Writers :
                /\ pc[w] = "ready" /\ ~dir => w \in late
                /\ pc[w] \in {"open", "written"} /\ tmp = None => w \in late
EndedOnly    == \A w \in Stored \cup erased : pc[w] = "done"
Unmixed  == mixed = {}

FileInv ==
    /\ TypeOK /\ TmpApart /\ Alone /\ Missed /\ EndedOnly /\ erased \subseteq Writers
    /\ Unmixed /\ Whole /\ AcknowledgedKept

USE FileAssumption DEF FileAssumption, Step, Busy

\* A partial text is no log.
LEMMA TornApart == Torn \notin SUBSET Writers
  BY DEF Torn

USE TornApart

LEMMA FileInit == Init => FileInv
  BY DEF Init, FileInv, TypeOK, TmpApart, Alone, Missed, EndedOnly, Unmixed, Whole, AcknowledgedKept, Stored

\* A step of one writer keeps the types.
LEMMA FileType ==
  ASSUME FileInv, NEW w \in Writers, WriterStep(w)
  PROVE  TypeOK'
  <1>1. TypeOK /\ Stored \in (SUBSET Writers) \cup {Torn}
    BY DEF FileInv, TypeOK, Stored
  <1>2. CASE Load(w)
    <2>1. UNCHANGED <<dir, file, tmp, body, mixed, fd, erased, late, failures>> /\ pc \in [Writers -> Step]
      BY <1>1, <1>2 DEF Load, TypeOK
    <2>2. pc' \in [Writers -> Step] /\ read' \in [Writers -> SUBSET Writers]
      BY <1>1, <1>2 DEF Load, TypeOK
    <2>3. \A v \in Writers \ {w} : pc'[v] = pc[v]
      BY <1>2, <2>1 DEF Load
    <2>4. Exclusive => \A v \in Writers : pc[v] \notin Busy
      BY <1>2 DEF Load, MayStart
    <2>5. Exclusive => \A u, v \in Writers : pc'[u] \in Busy /\ pc'[v] \in Busy => u = v
      BY <2>3, <2>4
    <2> QED
      BY <1>1, <2>1, <2>2, <2>5 DEF TypeOK
  <1>3. CASE Open(w)
    BY <1>1, <1>3 DEF Open, Opened, TypeOK
  <1>4. CASE Write(w)
    <2>1. PICK c \in (SUBSET Writers) \cup {Torn} : body' = [body EXCEPT ![fd[w]] = c]
      BY <1>1, <1>4 DEF Write, TypeOK
    <2>2. body' \in [Inodes -> (SUBSET Writers) \cup {Torn}]
      BY <1>1, <2>1 DEF TypeOK
    <2>3. pc' \in [Writers -> Step] /\ fd' \in [Writers -> Inodes \cup {None}]
      BY <1>1, <1>4 DEF Write, TypeOK
    <2>4. \A v \in Writers : pc'[v] \in Busy => pc[v] \in Busy
      BY <1>1, <1>4 DEF Write, TypeOK
    <2> QED
      BY <1>1, <1>4, <2>2, <2>3, <2>4 DEF Write, TypeOK
  <1>5. CASE Rename(w)
    BY <1>1, <1>5 DEF Rename, TypeOK
  <1>6. CASE Fail(w)
    BY <1>1, <1>6 DEF Fail, Failed, TypeOK
  <1>7. CASE Crash(w)
    BY <1>1, <1>7 DEF Crash, TypeOK
  <1>8. CASE MakeDir(w)
    BY <1>1, <1>8 DEF MakeDir, TypeOK
  <1>9. CASE Skip(w)
    BY <1>1, <1>9 DEF Skip, TypeOK
  <1> QED
    BY <1>2, <1>3, <1>4, <1>5, <1>6, <1>7, <1>8, <1>9 DEF WriterStep

\* A step of one writer, among writers that take turns, keeps the invariant;
\* it leaves the log alone or adds the writer's entry to it, with entries that
\* were removed.
LogGrows(w) ==
    /\ w \notin Stored \cup erased
    /\ \E back \in SUBSET erased : Stored' = Stored \cup back \cup {w}

LEMMA FileStep ==
  ASSUME Exclusive, FileInv, NEW w \in Writers, WriterStep(w)
  PROVE  FileInv' /\ UNCHANGED erased /\ (Stored' = Stored \/ LogGrows(w))
  <1>1. /\ TypeOK' /\ TypeOK /\ TmpApart /\ Alone /\ Missed /\ EndedOnly /\ Unmixed /\ Whole
        /\ AcknowledgedKept /\ erased \subseteq Writers
    BY FileType DEF FileInv
  <1>. UNCHANGED <<erased, late>>
    BY DEF WriterStep, Load, MakeDir, Open, Skip, Write, Rename, Fail, Crash
  <1>0. Stored \in SUBSET Writers
    BY <1>1 DEF Stored, Whole, TypeOK
  <1>2. CASE Load(w)
    <2>1. UNCHANGED <<dir, file, tmp, body, mixed, fd>> /\ Stored' = Stored
      BY <1>2 DEF Load, Stored
    <2>2. pc' = [pc EXCEPT ![w] = "loaded"] /\ read' = [read EXCEPT ![w] = Stored] /\ pc[w] = "start"
      BY <1>1, <1>2 DEF Load, Whole
    <2>3. Alone' /\ Missed'
      BY <1>1, <2>1, <2>2 DEF Alone, Missed, TypeOK
    <2>4. AcknowledgedKept' /\ TmpApart' /\ Unmixed' /\ Whole' /\ EndedOnly'
      BY <1>1, <1>0, <2>1, <2>2 DEF AcknowledgedKept, TmpApart, Unmixed, Whole, EndedOnly, TypeOK
    <2> QED
      BY <1>1, <2>1, <2>3, <2>4 DEF FileInv
  <1>3. CASE Open(w)
    <2>1. PICK i \in Opened :
            /\ tmp' = i
            /\ fd' = [fd EXCEPT ![w] = i]
            /\ body' = [body EXCEPT ![i] = Torn]
            /\ mixed' = IF \E v \in Writers \ {w} : fd[v] = i THEN mixed \cup {i} ELSE mixed \ {i}
      BY <1>3 DEF Open
    <2>2. i \in Inodes /\ i # file /\ i # None
      BY <1>1, <2>1 DEF Opened, TypeOK, TmpApart
    <2>3. Stored' = Stored
      BY <1>1, <1>3, <2>1, <2>2 DEF Open, Stored, TypeOK
    <2>4. \A v \in Writers \ {w} : fd[v] = None /\ pc[v] \notin Busy
      BY <1>1, <1>3 DEF Open, Alone, TypeOK
    <2>5. Unmixed'
      BY <1>1, <2>1, <2>2, <2>4 DEF Unmixed
    <2>6. Alone' /\ Missed'
      BY <1>1, <1>3, <2>1, <2>2, <2>3, <2>4 DEF Open, Alone, Missed, TypeOK
    <2>7. TmpApart' /\ Whole' /\ AcknowledgedKept' /\ EndedOnly'
      BY <1>1, <1>0, <1>3, <2>1, <2>2, <2>3 DEF Open, TmpApart, Whole, AcknowledgedKept, EndedOnly, TypeOK
    <2> QED
      BY <1>1, <2>3, <2>5, <2>6, <2>7 DEF FileInv
  <1>4. CASE Write(w)
    <2>1. /\ body' = [body EXCEPT ![fd[w]] = read[w] \cup {w}]
          /\ fd[w] # file /\ fd[w] # None /\ fd[w] \in Inodes /\ (tmp # None => fd[w] = tmp)
      BY <1>1, <1>4 DEF Write, Unmixed, Alone, TypeOK
    <2>2. Stored' = Stored
      BY <1>1, <1>4, <2>1 DEF Write, Stored, TypeOK
    <2>3. \A v \in Writers \ {w} : fd[v] = None /\ pc[v] \notin Busy
      BY <1>1, <1>4 DEF Write, Alone, TypeOK
    <2>4. Alone' /\ Missed'
      BY <1>1, <1>4, <2>1, <2>2, <2>3 DEF Write, Alone, Missed, TypeOK
    <2>5. TmpApart' /\ Whole' /\ AcknowledgedKept' /\ Unmixed' /\ EndedOnly'
      BY <1>1, <1>0, <1>4, <2>1, <2>2 DEF Write, TmpApart, Whole, AcknowledgedKept, EndedOnly, Unmixed, TypeOK
    <2> QED
      BY <1>1, <2>2, <2>4, <2>5 DEF FileInv
  <1>5. CASE Rename(w)
    <2>1. /\ UNCHANGED <<dir, body, mixed, fd, read>> /\ pc[w] = "written"
          /\ pc' = [pc EXCEPT ![w] = "done"] /\ fd[w] = None
      BY <1>1, <1>5 DEF Rename, Alone
    <2>2. \A v \in Writers \ {w} : fd[v] = None /\ pc[v] \notin Busy
      BY <1>1, <2>1 DEF Alone, TypeOK
    <2>3. /\ IF tmp # None THEN Stored' = read[w] \cup {w} ELSE Stored' = Stored /\ w \in late
          /\ IF tmp # None THEN file' = tmp /\ tmp' = None ELSE UNCHANGED <<file, tmp>>
      BY <1>1, <1>5 DEF Rename, Alone, Missed, Stored
    <2>4. /\ w \notin Stored \cup erased /\ w \notin read[w] /\ read[w] \in SUBSET Writers
          /\ Stored \subseteq read[w] /\ read[w] \subseteq Stored \cup erased
      BY <1>1, <2>1 DEF Alone, EndedOnly, TypeOK
    <2>5. Stored' = Stored \/ LogGrows(w)
      <3>1. Stored' = Stored \/ Stored' = Stored \cup (read[w] \cap erased) \cup {w}
        BY <2>3, <2>4
      <3> QED
        BY <2>4, <3>1 DEF LogGrows
    <2>6. Alone' /\ Missed' /\ TmpApart' /\ Unmixed'
      BY <1>1, <2>1, <2>2, <2>3 DEF Alone, Missed, TmpApart, Unmixed, TypeOK
    <2>7. Stored' \in SUBSET Writers /\ Stored \subseteq Stored' /\ Stored' \subseteq Stored \cup erased \cup {w}
      BY <1>0, <2>3, <2>4
    <2>8. Whole' /\ AcknowledgedKept' /\ EndedOnly'
      BY <1>1, <2>1, <2>3, <2>7 DEF Whole, AcknowledgedKept, EndedOnly, TypeOK
    <2> QED
      BY <1>1, <2>5, <2>6, <2>8 DEF FileInv
  <1>6. CASE Fail(w)
    <2>1. UNCHANGED <<dir, file, body, mixed>> /\ Stored' = Stored /\ tmp' = None
      BY <1>6 DEF Fail, Stored
    <2>2. \A v \in Writers \ {w} : fd[v] = None /\ pc[v] \notin Busy
      BY <1>1, <1>6 DEF Fail, Alone, TypeOK
    <2>3. Alone' /\ Missed'
      BY <1>1, <1>6, <2>1, <2>2 DEF Fail, Failed, Alone, Missed, TypeOK
    <2>4. TmpApart' /\ Whole' /\ AcknowledgedKept' /\ Unmixed' /\ EndedOnly'
      BY <1>1, <1>0, <1>6, <2>1 DEF Fail, Failed, TmpApart, Whole, AcknowledgedKept, EndedOnly, Unmixed, TypeOK
    <2> QED
      BY <1>1, <2>1, <2>3, <2>4 DEF FileInv
  <1>7. CASE Crash(w)
    <2>1. UNCHANGED <<dir, file, tmp, body, mixed>> /\ Stored' = Stored
      BY <1>7 DEF Crash, Stored
    <2>2. \A v \in Writers \ {w} : fd[v] = None /\ pc[v] \notin Busy
      BY <1>1, <1>7 DEF Crash, Alone, TypeOK
    <2>3. Alone' /\ Missed'
      BY <1>1, <1>7, <2>1, <2>2 DEF Crash, Alone, Missed, TypeOK
    <2>4. TmpApart' /\ Whole' /\ AcknowledgedKept' /\ Unmixed' /\ EndedOnly'
      BY <1>1, <1>0, <1>7, <2>1 DEF Crash, TmpApart, Whole, AcknowledgedKept, EndedOnly, Unmixed, TypeOK
    <2> QED
      BY <1>1, <2>1, <2>3, <2>4 DEF FileInv
  <1>8. CASE MakeDir(w)
    <2>1. UNCHANGED <<file, tmp, body, mixed, fd, read>> /\ Stored' = Stored
      BY <1>8 DEF MakeDir, Stored
    <2>2. Alone' /\ Missed' /\ TmpApart' /\ Unmixed'
      BY <1>1, <1>8, <2>1 DEF MakeDir, Alone, Missed, TmpApart, Unmixed, TypeOK
    <2>3. Whole' /\ AcknowledgedKept' /\ EndedOnly'
      BY <1>1, <1>0, <1>8, <2>1 DEF MakeDir, Whole, AcknowledgedKept, EndedOnly, TypeOK
    <2> QED
      BY <1>1, <2>1, <2>2, <2>3 DEF FileInv
  <1>9. CASE Skip(w)
    <2>1. UNCHANGED <<dir, file, tmp, body, mixed, fd, read>> /\ Stored' = Stored
      BY <1>9 DEF Skip, Stored
    <2>2. Alone' /\ Missed' /\ TmpApart' /\ Unmixed'
      BY <1>1, <1>9, <2>1 DEF Skip, Alone, Missed, TmpApart, Unmixed, TypeOK
    <2>3. Whole' /\ AcknowledgedKept' /\ EndedOnly'
      BY <1>1, <1>0, <1>9, <2>1 DEF Skip, Whole, AcknowledgedKept, EndedOnly, Missed, TypeOK
    <2> QED
      BY <1>1, <2>1, <2>2, <2>3 DEF FileInv
  <1> QED
    BY <1>2, <1>3, <1>4, <1>5, <1>6, <1>7, <1>8, <1>9 DEF WriterStep

\* A removal of the goal, under any writer, keeps the invariant, and is a
\* removal of the log or leaves it alone.
LEMMA RemoveStep ==
  ASSUME FileInv, RemoveGoal
  PROVE  FileInv' /\ (Log!Remove \/ UNCHANGED <<Stored, erased>>)
  <1>1. /\ TypeOK /\ TmpApart /\ Alone /\ Missed /\ EndedOnly /\ Unmixed /\ Whole
        /\ AcknowledgedKept /\ erased \subseteq Writers
    BY DEF FileInv
  <1>2. Stored \in SUBSET Writers
    BY <1>1 DEF Stored, Whole, TypeOK
  <1>3. /\ UNCHANGED <<body, mixed, pc, fd, read>> /\ file' \in {file, None} /\ tmp' \in {tmp, None}
        /\ late' = late \cup {w \in Writers : pc[w] \in Busy}
    BY DEF RemoveGoal
  <1>4. \/ file' = None /\ Stored' = {} /\ erased' = erased \cup Stored
        \/ file' = file /\ Stored' = Stored /\ erased' = erased
    BY DEF RemoveGoal, Stored
  <1>5. Log!Remove \/ UNCHANGED <<Stored, erased>>
    BY <1>4 DEF Log!Remove
  <1>6. TypeOK'
    BY <1>1, <1>2, <1>3, <1>4 DEF RemoveGoal, TypeOK
  <1>7. Alone' /\ Missed' /\ TmpApart' /\ Unmixed'
    BY <1>1, <1>2, <1>3, <1>4 DEF RemoveGoal, Alone, Missed, TmpApart, Unmixed, TypeOK
  <1>8. Whole' /\ AcknowledgedKept' /\ EndedOnly' /\ (erased \subseteq Writers)'
    BY <1>1, <1>2, <1>3, <1>4 DEF Whole, AcknowledgedKept, EndedOnly, TypeOK
  <1> QED
    BY <1>5, <1>6, <1>7, <1>8 DEF FileInv

LEMMA FileStutter == FileInv /\ UNCHANGED vars => FileInv' /\ UNCHANGED <<Stored, erased>>
  BY DEF FileInv, TypeOK, TmpApart, Alone, Missed, EndedOnly, Unmixed, Whole, AcknowledgedKept, Stored, vars

\* With writers that take turns, the file never holds a partial text, over
\* any number of failures, crashes and removals (writeJsonFileAtomic).
THEOREM FileWhole ==
  ASSUME Exclusive
  PROVE  Spec => []Whole
<1>1. FileInv => Whole
  BY DEF FileInv
<1>2. FileInv /\ [Next]_vars => FileInv'
  BY FileStep, FileStutter, RemoveStep DEF Next
<1> QED
  BY <1>1, <1>2, FileInit, PTL DEF Spec

\* With writers that take turns, an acknowledged append is in the log, unless
\* a removal of the goal took the log it was in or met it under way.
THEOREM AppendsKept ==
  ASSUME Exclusive
  PROVE  Spec => []AcknowledgedKept
<1>1. FileInv => AcknowledgedKept
  BY DEF FileInv
<1>2. FileInv /\ [Next]_vars => FileInv'
  BY FileStep, FileStutter, RemoveStep DEF Next
<1> QED
  BY <1>1, <1>2, FileInit, PTL DEF Spec

\* With writers that take turns, the system calls implement the growing log.
THEOREM ImplementsLog ==
  ASSUME Exclusive
  PROVE  Spec => LogImplemented
<1>1. Init => Log!Init
  BY DEF Init, Log!Init, Stored
<1>2. FileInv /\ [Next]_vars => FileInv' /\ [Log!Next]_<<Stored, erased>>
  <2>1. ASSUME FileInv, NEW w \in Writers, WriterStep(w)
        PROVE  FileInv' /\ [Log!Next]_<<Stored, erased>>
    <3>1. FileInv' /\ UNCHANGED erased /\ (Stored' = Stored \/ LogGrows(w))
      BY <2>1, FileStep
    <3>2. LogGrows(w) /\ UNCHANGED erased => Log!Append(w)
      BY DEF LogGrows, Log!Append
    <3> QED
      BY <3>1, <3>2 DEF Log!Next
  <2>2. ASSUME FileInv, RemoveGoal
        PROVE  FileInv' /\ [Log!Next]_<<Stored, erased>>
    BY <2>2, RemoveStep DEF Log!Next
  <2> QED
    BY <2>1, <2>2, FileStutter DEF Next
<1> QED
  BY <1>1, <1>2, FileInit, PTL DEF Spec, LogImplemented, Log!Spec

HIDE FileAssumption DEF FileAssumption, Step, Busy

-----------------------------------------------------------------------------
(* A task as a pipeline of stages, and the breaker of its adapters *)

LEMMA PipeConstants ==
  /\ NumStages \in Nat /\ NumStages >= 1 /\ MaxRetries \in Nat /\ MaxRetries >= 1
  /\ FAILURE_THRESHOLD \in Nat /\ FAILURE_THRESHOLD >= 1 /\ BreakerCooldown \in Nat
  BY PipelineAssumption DEF PipelineAssumption

USE PipeConstants

StageVerdicts == {"pass", "fail"}
PipeFiles == [status : {"none", "running", "completed", "failed"}, completed : Seq(StageVerdicts)]
RunResults == [status : {"none", "completed", "failed"}, verdict : StageVerdicts]

PipeTyped ==
    /\ options \in Options
    /\ pipePc \in {"idle", "stage", "plan", "attempt", "after_stage", "finish"}
    /\ stage \in 1 .. NumStages + 1 /\ attempt \in 0 .. MaxRetries - 1
    /\ onOther \in BOOLEAN /\ planned \subseteq Stages
Recorded ==
    /\ pipeFile \in PipeFiles /\ result \in RunResults
    /\ completed \in Seq(StageVerdicts)
    /\ executed \in [Stages -> Nat]

NoneFailed(s) == \A i \in 1 .. Len(s) : s[i] # "fail"

\* Where a run stands, it has a result for every stage before it, and with
\* fail_fast none that failed.
StagesInOrder ==
    /\ pipePc \in {"stage", "plan", "attempt"} =>
         /\ stage = Len(completed) + 1
         /\ options.fail_fast => NoneFailed(completed)
    /\ pipePc \in {"plan", "attempt"} => stage <= NumStages
    /\ pipePc = "plan" => NeedsPlan(stage) /\ attempt = 0
    /\ pipePc = "after_stage" =>
         /\ stage = Len(completed) /\ stage <= NumStages
         /\ options.fail_fast => \A i \in 1 .. Len(completed) - 1 : completed[i] # "fail"
    /\ pipePc \in {"stage", "plan", "attempt", "after_stage"} => pipeFile.status = "running"

\* A run that ends either has gone through all stages, or failed with the last
\* of them, or was denied the plan of the next.
EndsSoundly(status) ==
    /\ status \in {"running", "completed"} =>
         Len(completed) = NumStages /\ (options.fail_fast => NoneFailed(completed))
    /\ status = "failed" =>
         \/ completed # <<>> /\ completed[Len(completed)] = "fail"
         \/ Len(completed) < NumStages /\ NeedsPlan(Len(completed) + 1)

RunEndsSoundly ==
    /\ pipePc = "finish" => pipeFile.status \in {"running", "failed"} /\ EndsSoundly(pipeFile.status)
    /\ result.status # "none" =>
         /\ pipePc = "idle" /\ EndsSoundly(result.status)
         /\ result.verdict = IF completed = <<>> THEN "fail" ELSE completed[Len(completed)]

\* What was tried, it was tried in its turn and with its plan.
TriedInTurn ==
    /\ \A i \in Stages : NeedsPlan(i) /\ executed[i] > 0 => i \in planned
    /\ \A i \in Stages : executed[i] <= MaxAttempts
    /\ pipePc = "attempt" =>
         /\ NeedsPlan(stage) => stage \in planned
         /\ attempt < MaxAttempts /\ executed[stage] <= attempt
    /\ pipePc \in {"stage", "plan"} => \A i \in Stages : i >= stage => executed[i] = 0
    /\ pipePc \in {"attempt", "after_stage"} => \A i \in Stages : i > stage => executed[i] = 0

PipeInv == PipeTyped /\ Recorded /\ StagesInOrder /\ RunEndsSoundly /\ TriedInTurn /\ FileFollows

LEMMA PipeStart == PipeInit => PipeInv
  <1> SUFFICES ASSUME PipeInit PROVE PipeInv
    OBVIOUS
  <1>1. PipeTyped
    <2>1. options \in Options /\ onOther \in BOOLEAN /\ planned \subseteq Stages
      BY DEF PipeInit
    <2>2. stage \in 1 .. NumStages + 1 /\ attempt \in 0 .. MaxRetries - 1
      BY DEF PipeInit
    <2> QED
      BY <2>1, <2>2 DEF PipeInit, PipeTyped
  <1>2. Recorded
    <2>1. pipeFile \in PipeFiles /\ result \in RunResults
      BY DEF PipeInit, PipeFiles, RunResults, StageVerdicts, NoResult
    <2>2. completed \in Seq(StageVerdicts)
      BY DEF PipeInit
    <2>3. executed \in [Stages -> Nat]
      BY DEF PipeInit
    <2> QED
      BY <2>1, <2>2, <2>3 DEF Recorded
  <1>3. TriedInTurn
    BY DEF PipeInit, TriedInTurn, MaxAttempts
  <1> QED
    BY <1>1, <1>2, <1>3 DEF PipeInit, PipeInv, StagesInOrder, RunEndsSoundly, FileFollows, NoResult

LEMMA AppendedVerdict ==
  ASSUME NEW s \in Seq(StageVerdicts), NEW v \in StageVerdicts
  PROVE  /\ Append(s, v) \in Seq(StageVerdicts) /\ Len(Append(s, v)) = Len(s) + 1
         /\ Append(s, v)[Len(s) + 1] = v
         /\ \A i \in 1 .. Len(s) : Append(s, v)[i] = s[i]
         /\ Len(s) \in Nat
  OBVIOUS

LEMMA AttemptsBounded == MaxAttempts \in 1 .. MaxRetries
  BY DEF MaxAttempts

\* A stage ends with a verdict, after an attempt or instead of one.
LEMMA StageEnded ==
  ASSUME PipeInv, Attempt, NEW v \in StageVerdicts, StageEnds(v)
  PROVE  PipeTyped' /\ Recorded' /\ StagesInOrder' /\ RunEndsSoundly' /\ FileFollows'
  <1>1. /\ completed' = Append(completed, v) /\ pipePc' = "after_stage"
        /\ pipeFile' = [pipeFile EXCEPT !.completed = completed']
        /\ UNCHANGED <<attempt, options, stage, planned, result>> /\ pipePc = "attempt"
    BY DEF Attempt, StageEnds
  <1>2. PipeTyped /\ Recorded /\ StagesInOrder /\ RunEndsSoundly /\ FileFollows
    BY DEF PipeInv
  <1>3. executed' \in [Stages -> Nat]
    <2>1. \/ UNCHANGED executed
          \/ executed' = [executed EXCEPT ![stage] = @ + 1]
      BY DEF Attempt
    <2> QED
      BY <1>2, <2>1 DEF Recorded
  <1>4. completed \in Seq(StageVerdicts)
    BY <1>2 DEF Recorded
  <1>5. PipeTyped'
    <2>1. onOther' \in BOOLEAN
      BY <1>2 DEF Attempt, PipeTyped
    <2> QED
      BY <1>1, <1>2, <2>1 DEF PipeTyped
  <1>6. Recorded'
    <2>1. completed' \in Seq(StageVerdicts)
      BY <1>1, <1>4, AppendedVerdict
    <2>2. pipeFile' \in PipeFiles /\ result' \in RunResults
      BY <1>1, <1>2, <2>1 DEF Recorded, PipeFiles
    <2> QED
      BY <1>3, <2>1, <2>2 DEF Recorded
  <1>7. StagesInOrder'
    <2>1. stage = Len(completed) + 1 /\ stage <= NumStages /\ pipeFile.status = "running"
          /\ (options.fail_fast => NoneFailed(completed))
      BY <1>1, <1>2 DEF StagesInOrder
    <2>2. stage' = Len(completed')
      BY <1>1, <1>4, <2>1, AppendedVerdict
    <2>3. pipeFile'.status = "running"
      BY <1>1, <1>2, <2>1 DEF Recorded, PipeFiles
    <2>4. \A i \in 1 .. Len(completed') - 1 : completed'[i] = completed[i] /\ i \in 1 .. Len(completed)
      BY <1>1, <1>4, AppendedVerdict
    <2> QED
      BY <1>1, <2>1, <2>2, <2>3, <2>4 DEF StagesInOrder, NoneFailed
  <1>8. RunEndsSoundly' /\ FileFollows'
    <2>1. result.status = "none"
      BY <1>1, <1>2 DEF RunEndsSoundly
    <2>2. pipeFile'.completed = completed'
      BY <1>1, <1>2 DEF Recorded, PipeFiles
    <2> QED
      BY <1>1, <2>1, <2>2 DEF RunEndsSoundly, FileFollows
  <1> QED
    BY <1>5, <1>6, <1>7, <1>8

LEMMA AttemptKeeps == PipeInv /\ Attempt => PipeInv'
  <1> SUFFICES ASSUME PipeInv, Attempt PROVE PipeInv'
    OBVIOUS
  <1>1. PipeTyped /\ Recorded /\ StagesInOrder /\ RunEndsSoundly /\ TriedInTurn /\ FileFollows
    BY DEF PipeInv
  <1>2. pipePc = "attempt" /\ UNCHANGED <<options, stage, planned, result>>
    BY DEF Attempt
  <1>3. MaxAttempts' = MaxAttempts /\ MaxAttempts \in 1 .. MaxRetries
    BY <1>2, AttemptsBounded DEF MaxAttempts
  <1>4. \A i : NeedsPlan(i)' = NeedsPlan(i)
    BY <1>2 DEF NeedsPlan
  <1>5. /\ stage \in Stages /\ executed \in [Stages -> Nat] /\ attempt \in Nat
        /\ executed[stage] <= attempt /\ attempt < MaxAttempts
    <2>1. stage \in 1 .. NumStages /\ attempt \in Nat
      BY <1>1, <1>2 DEF StagesInOrder, PipeTyped
    <2> QED
      BY <1>1, <1>2, <2>1 DEF TriedInTurn, Recorded, Stages
  <1>6. \/ UNCHANGED executed
        \/ executed' = [executed EXCEPT ![stage] = @ + 1]
    BY DEF Attempt
  <1>7. /\ executed'[stage] \in Nat /\ executed'[stage] <= attempt + 1 /\ executed'[stage] <= MaxAttempts
        /\ \A i \in Stages \ {stage} : executed'[i] = executed[i]
    BY <1>3, <1>5, <1>6
  <1>8. /\ \A i \in Stages : NeedsPlan(i)' /\ executed'[i] > 0 => i \in planned'
        /\ \A i \in Stages : executed'[i] <= MaxAttempts'
        /\ \A i \in Stages : i > stage' => executed'[i] = 0
        /\ NeedsPlan(stage') => stage' \in planned'
    BY <1>1, <1>2, <1>3, <1>4, <1>5, <1>7 DEF TriedInTurn, Stages
  <1>9. CASE \E v \in StageVerdicts : StageEnds(v)
    <2>1. PipeTyped' /\ Recorded' /\ StagesInOrder' /\ RunEndsSoundly' /\ FileFollows'
      BY <1>9, StageEnded
    <2>2. pipePc' = "after_stage"
      BY <1>9 DEF StageEnds
    <2>3. TriedInTurn'
      BY <1>8, <2>2 DEF TriedInTurn
    <2> QED
      BY <2>1, <2>3 DEF PipeInv
  <1>10. CASE /\ executed' = [executed EXCEPT ![stage] = @ + 1] /\ attempt + 1 # MaxAttempts
              /\ attempt' = attempt + 1 /\ UNCHANGED <<completed, pipeFile, pipePc>>
    <2>1. attempt' \in 0 .. MaxRetries - 1 /\ attempt' < MaxAttempts
      BY <1>3, <1>5, <1>10
    <2>2. onOther' \in BOOLEAN
      BY <1>1 DEF Attempt, PipeTyped
    <2>3. PipeTyped'
      BY <1>1, <1>2, <1>10, <2>1, <2>2 DEF PipeTyped
    <2>4. Recorded'
      BY <1>1, <1>2, <1>5, <1>10 DEF Recorded
    <2>5. StagesInOrder' /\ RunEndsSoundly' /\ FileFollows'
      BY <1>1, <1>2, <1>4, <1>10 DEF StagesInOrder, RunEndsSoundly, FileFollows, NoneFailed, EndsSoundly
    <2>6. TriedInTurn'
      BY <1>2, <1>3, <1>4, <1>7, <1>8, <1>10, <2>1 DEF TriedInTurn
    <2> QED
      BY <2>3, <2>4, <2>5, <2>6 DEF PipeInv
  <1>11. \/ \E v \in StageVerdicts : StageEnds(v)
         \/ /\ executed' = [executed EXCEPT ![stage] = @ + 1] /\ attempt + 1 # MaxAttempts
            /\ attempt' = attempt + 1 /\ UNCHANGED <<completed, pipeFile, pipePc>>
    BY DEF Attempt, Verdict, StageVerdicts
  <1> QED
    BY <1>9, <1>10, <1>11

LEMMA PipelineStarts == PipeInv /\ StartPipeline => PipeInv'
  <1> SUFFICES ASSUME PipeInv, StartPipeline PROVE PipeInv'
    OBVIOUS
  <1>1. PipeTyped /\ Recorded
    BY DEF PipeInv
  <1>2. completed' = <<>>
    BY <1>1 DEF StartPipeline, Recorded, PipeFiles
  <1>3. stage' = 1 /\ completed' \in Seq(StageVerdicts) /\ Len(completed') = 0
    <2>1. Len(completed') = 0 /\ completed' \in Seq(StageVerdicts)
      BY <1>2
    <2>2. stage' = Len(completed') + 1
      BY DEF StartPipeline
    <2> QED
      BY <2>1, <2>2
  <1>4. pipeFile' \in PipeFiles /\ result' \in RunResults
    BY <1>3 DEF StartPipeline, PipeFiles, RunResults, StageVerdicts, NoResult
  <1>5. executed' = [i \in Stages |-> 0] /\ planned' = {} /\ pipePc' = "stage" /\ attempt' = 0 /\ onOther' = FALSE
        /\ UNCHANGED options /\ result'.status = "none" /\ pipeFile'.status = "running"
        /\ pipeFile'.completed = completed'
    BY DEF StartPipeline, NoResult
  <1>6. PipeTyped'
    <2>1. stage' \in 1 .. NumStages + 1 /\ attempt' \in 0 .. MaxRetries - 1
      BY <1>3, <1>5
    <2> QED
      BY <1>1, <1>5, <2>1 DEF PipeTyped
  <1>7. Recorded'
    BY <1>3, <1>4, <1>5 DEF Recorded
  <1>8. TriedInTurn'
    <2>1. MaxAttempts' \in Nat
      BY DEF MaxAttempts
    <2> QED
      BY <1>5, <2>1 DEF TriedInTurn
  <1> QED
    BY <1>3, <1>5, <1>6, <1>7, <1>8 DEF PipeInv, StagesInOrder, RunEndsSoundly, FileFollows, NoneFailed

LEMMA StageBegins == PipeInv /\ NextStage => PipeInv'
  <1> SUFFICES ASSUME PipeInv, NextStage PROVE PipeInv'
    OBVIOUS
  <1>1. PipeTyped /\ Recorded /\ StagesInOrder /\ RunEndsSoundly /\ TriedInTurn /\ FileFollows
    BY DEF PipeInv
  <1>2. UNCHANGED <<options, pipeFile, stage, completed, planned, executed, result>> /\ pipePc = "stage"
        /\ pipePc' = (IF stage > NumStages THEN "finish" ELSE IF NeedsPlan(stage) THEN "plan" ELSE "attempt")
        /\ attempt' = 0 /\ onOther' = FALSE
    BY DEF NextStage
  <1>3. MaxAttempts' = MaxAttempts /\ MaxAttempts \in 1 .. MaxRetries /\ \A i : NeedsPlan(i)' = NeedsPlan(i)
    BY <1>2, AttemptsBounded DEF MaxAttempts, NeedsPlan
  <1>4. PipeTyped' /\ Recorded'
    <2>1. attempt' \in 0 .. MaxRetries - 1
      BY <1>2
    <2> QED
      BY <1>1, <1>2, <2>1 DEF PipeTyped, Recorded
  <1>5. stage = Len(completed) + 1 /\ (options.fail_fast => NoneFailed(completed)) /\ pipeFile.status = "running"
        /\ stage \in 1 .. NumStages + 1 /\ Len(completed) \in Nat /\ result.status = "none"
    BY <1>1, <1>2 DEF StagesInOrder, PipeTyped, Recorded, RunEndsSoundly
  <1>6. StagesInOrder'
    BY <1>2, <1>3, <1>5 DEF StagesInOrder, NoneFailed
  <1>7. FileFollows' /\ RunEndsSoundly'
    BY <1>1, <1>2, <1>5 DEF FileFollows, RunEndsSoundly, EndsSoundly, NoneFailed
  <1>8. \A i \in Stages : i >= stage => executed[i] = 0
    BY <1>1, <1>2 DEF TriedInTurn
  <1>9. TriedInTurn'
    BY <1>1, <1>2, <1>3, <1>5, <1>8 DEF TriedInTurn, Stages
  <1> QED
    BY <1>4, <1>6, <1>7, <1>9 DEF PipeInv

LEMMA GateKeeps == PipeInv /\ RunPlanApprovalGate => PipeInv'
  <1> SUFFICES ASSUME PipeInv, RunPlanApprovalGate PROVE PipeInv'
    OBVIOUS
  <1>1. PipeTyped /\ Recorded /\ StagesInOrder /\ RunEndsSoundly /\ TriedInTurn /\ FileFollows
    BY DEF PipeInv
  <1>2. UNCHANGED <<options, stage, attempt, completed, onOther, executed, result>> /\ pipePc = "plan"
    BY DEF RunPlanApprovalGate
  <1>3. \/ planned' = planned \cup {stage} /\ pipePc' = "attempt" /\ UNCHANGED pipeFile
        \/ /\ pipeFile' = [pipeFile EXCEPT !.status = "failed"] /\ pipePc' = "finish"
           /\ UNCHANGED planned
    BY DEF RunPlanApprovalGate
  <1>4. MaxAttempts' = MaxAttempts /\ MaxAttempts \in 1 .. MaxRetries /\ \A i : NeedsPlan(i)' = NeedsPlan(i)
    BY <1>2, AttemptsBounded DEF MaxAttempts, NeedsPlan
  <1>5. stage \in 1 .. NumStages /\ stage = Len(completed) + 1 /\ NeedsPlan(stage) /\ result.status = "none"
        /\ executed[stage] = 0 /\ attempt \in Nat /\ Len(completed) \in Nat
        /\ (options.fail_fast => NoneFailed(completed)) /\ pipeFile.status = "running"
    <2>1. stage \in 1 .. NumStages
      BY <1>1, <1>2 DEF PipeTyped, StagesInOrder
    <2> QED
      BY <1>1, <1>2, <2>1 DEF PipeTyped, StagesInOrder, TriedInTurn, RunEndsSoundly, Recorded, Stages
  <1>6. CASE planned' = planned \cup {stage} /\ pipePc' = "attempt" /\ UNCHANGED pipeFile
    <2>1. PipeTyped' /\ Recorded'
      BY <1>1, <1>2, <1>5, <1>6 DEF PipeTyped, Recorded, Stages
    <2>2. StagesInOrder' /\ RunEndsSoundly' /\ FileFollows'
      BY <1>1, <1>2, <1>5, <1>6 DEF StagesInOrder, RunEndsSoundly, FileFollows, NoneFailed
    <2>3. attempt < MaxAttempts
      BY <1>1, <1>2, <1>4 DEF StagesInOrder
    <2>4. TriedInTurn'
      BY <1>1, <1>2, <1>4, <1>5, <1>6, <2>3 DEF TriedInTurn, Stages
    <2> QED
      BY <2>1, <2>2, <2>4 DEF PipeInv
  <1>7. CASE /\ pipeFile' = [pipeFile EXCEPT !.status = "failed"] /\ pipePc' = "finish"
             /\ UNCHANGED planned
    <2>1. pipeFile' \in PipeFiles /\ pipeFile'.status = "failed" /\ pipeFile'.completed = pipeFile.completed
      BY <1>1, <1>7 DEF Recorded, PipeFiles
    <2>2. PipeTyped' /\ Recorded'
      BY <1>1, <1>2, <1>7, <2>1 DEF PipeTyped, Recorded
    <2>3. StagesInOrder' /\ RunEndsSoundly' /\ FileFollows'
      BY <1>1, <1>2, <1>4, <1>5, <1>7, <2>1 DEF StagesInOrder, RunEndsSoundly, FileFollows, EndsSoundly
    <2>4. TriedInTurn'
      BY <1>1, <1>2, <1>4, <1>7 DEF TriedInTurn
    <2> QED
      BY <2>2, <2>3, <2>4 DEF PipeInv
  <1> QED
    BY <1>3, <1>6, <1>7

LEMMA AfterStageKeeps == PipeInv /\ AfterStage => PipeInv'
  <1> SUFFICES ASSUME PipeInv, AfterStage PROVE PipeInv'
    OBVIOUS
  <1>1. PipeTyped /\ Recorded /\ StagesInOrder /\ RunEndsSoundly /\ TriedInTurn /\ FileFollows
    BY DEF PipeInv
  <1>2. UNCHANGED <<options, attempt, completed, onOther, planned, executed, result>> /\ pipePc = "after_stage"
    BY DEF AfterStage
  <1>3. MaxAttempts' = MaxAttempts /\ MaxAttempts \in 1 .. MaxRetries /\ \A i : NeedsPlan(i)' = NeedsPlan(i)
    BY <1>2, AttemptsBounded DEF MaxAttempts, NeedsPlan
  <1>4. stage \in 1 .. NumStages /\ stage = Len(completed) /\ result.status = "none" /\ pipeFile.status = "running"
        /\ (options.fail_fast => \A i \in 1 .. Len(completed) - 1 : completed[i] # "fail")
    BY <1>1, <1>2 DEF PipeTyped, StagesInOrder, RunEndsSoundly
  <1>5. CASE Stops
    <2>1. pipeFile' = [pipeFile EXCEPT !.status = "failed"] /\ pipePc' = "finish" /\ UNCHANGED stage
          /\ completed[Len(completed)] = "fail"
      BY <1>5 DEF AfterStage, Stops, Last
    <2>2. pipeFile' \in PipeFiles /\ pipeFile'.status = "failed" /\ pipeFile'.completed = pipeFile.completed
      BY <1>1, <2>1 DEF Recorded, PipeFiles
    <2>3. PipeTyped' /\ Recorded'
      BY <1>1, <1>2, <2>1, <2>2 DEF PipeTyped, Recorded
    <2>4. completed # <<>>
      BY <1>4
    <2>5. StagesInOrder' /\ RunEndsSoundly' /\ FileFollows'
      BY <1>1, <1>2, <1>3, <1>4, <2>1, <2>2, <2>4 DEF StagesInOrder, RunEndsSoundly, FileFollows, EndsSoundly
    <2>6. TriedInTurn'
      BY <1>1, <1>2, <1>3, <2>1 DEF TriedInTurn
    <2> QED
      BY <2>3, <2>5, <2>6 DEF PipeInv
  <1>6. CASE ~Stops
    <2>1. stage' = stage + 1 /\ pipePc' = "stage" /\ UNCHANGED pipeFile
          /\ (options.fail_fast => completed[Len(completed)] # "fail")
      BY <1>6 DEF AfterStage, Stops, Last
    <2>2. PipeTyped' /\ Recorded'
      BY <1>1, <1>2, <1>4, <2>1 DEF PipeTyped, Recorded
    <2>3. options.fail_fast => NoneFailed(completed)
      BY <1>4, <2>1 DEF NoneFailed
    <2>4. StagesInOrder' /\ RunEndsSoundly' /\ FileFollows'
      BY <1>1, <1>2, <1>4, <2>1, <2>3 DEF StagesInOrder, RunEndsSoundly, FileFollows, NoneFailed
    <2>5. TriedInTurn'
      BY <1>1, <1>2, <1>3, <1>4, <2>1 DEF TriedInTurn, Stages
    <2> QED
      BY <2>2, <2>4, <2>5 DEF PipeInv
  <1> QED
    BY <1>5, <1>6

LEMMA FinishKeeps == PipeInv /\ FinishPipeline => PipeInv'
  <1> SUFFICES ASSUME PipeInv, FinishPipeline PROVE PipeInv'
    OBVIOUS
  <1>1. PipeTyped /\ Recorded /\ StagesInOrder /\ RunEndsSoundly /\ TriedInTurn /\ FileFollows
    BY DEF PipeInv
  <1>2. UNCHANGED <<options, stage, attempt, completed, onOther, planned, executed>> /\ pipePc = "finish"
        /\ pipePc' = "idle"
        /\ result' = [status |-> pipeFile'.status,
                      verdict |-> IF completed = <<>> THEN "fail" ELSE completed[Len(completed)]]
    BY DEF FinishPipeline, Last
  <1>3. MaxAttempts' = MaxAttempts /\ MaxAttempts \in 1 .. MaxRetries /\ \A i : NeedsPlan(i)' = NeedsPlan(i)
    BY <1>2, AttemptsBounded DEF MaxAttempts, NeedsPlan
  <1>4. pipeFile' \in PipeFiles /\ pipeFile'.status = IF pipeFile.status = "running" THEN "completed" ELSE pipeFile.status
    BY <1>1 DEF FinishPipeline, Recorded, PipeFiles
  <1>5. pipeFile.status \in {"running", "failed"} /\ EndsSoundly(pipeFile.status)
    BY <1>1, <1>2 DEF RunEndsSoundly
  <1>6. result' \in RunResults
    <2>1. completed # <<>> => completed[Len(completed)] \in StageVerdicts
      BY <1>1 DEF Recorded
    <2>2. pipeFile'.status \in {"none", "completed", "failed"}
      BY <1>4, <1>5
    <2> QED
      BY <1>2, <2>1, <2>2 DEF RunResults, StageVerdicts
  <1>7. PipeTyped' /\ Recorded'
    BY <1>1, <1>2, <1>4, <1>6 DEF PipeTyped, Recorded
  <1>8. StagesInOrder' /\ FileFollows'
    BY <1>2 DEF StagesInOrder, FileFollows
  <1>9. RunEndsSoundly'
    <2>1. /\ pipeFile.status = "running" =>
               Len(completed) = NumStages /\ (options.fail_fast => NoneFailed(completed))
          /\ pipeFile.status = "failed" =>
               \/ completed # <<>> /\ completed[Len(completed)] = "fail"
               \/ Len(completed) < NumStages /\ NeedsPlan(Len(completed) + 1)
      BY <1>5 DEF EndsSoundly
    <2>2. /\ result'.status = (IF pipeFile.status = "running" THEN "completed" ELSE pipeFile.status)
          /\ result'.verdict = (IF completed = <<>> THEN "fail" ELSE completed[Len(completed)])
      BY <1>2, <1>4
    <2>3. /\ result'.status = "completed" =>
               Len(completed') = NumStages /\ (options'.fail_fast => NoneFailed(completed'))
          /\ result'.status = "failed" =>
               \/ completed' # <<>> /\ completed'[Len(completed')] = "fail"
               \/ Len(completed') < NumStages /\ NeedsPlan(Len(completed) + 1)'
          /\ result'.status \in {"completed", "failed"}
      BY <1>2, <1>5, <2>1, <2>2 DEF NoneFailed, NeedsPlan
    <2>4. EndsSoundly(result.status)'
      BY <2>3 DEF EndsSoundly
    <2> QED
      BY <1>2, <2>2, <2>4 DEF RunEndsSoundly
  <1>10. TriedInTurn'
    BY <1>1, <1>2, <1>3 DEF TriedInTurn
  <1> QED
    BY <1>7, <1>8, <1>9, <1>10 DEF PipeInv

LEMMA PipeKeeps == PipeInv /\ [PipelineStep]_pipeVars => PipeInv'
  <1> SUFFICES ASSUME PipeInv, [PipelineStep]_pipeVars PROVE PipeInv'
    OBVIOUS
  <1>1. CASE PipelineCutOff
    <2>1. PipeTyped /\ Recorded /\ TriedInTurn
      BY DEF PipeInv
    <2>2. pipePc' = "idle" /\ result' = NoResult /\ UNCHANGED
             <<options, pipeFile, stage, attempt, completed, onOther, planned, executed>>
      BY <1>1 DEF PipelineCutOff
    <2>3. NoResult \in RunResults /\ NoResult.status = "none"
      BY DEF NoResult, RunResults, StageVerdicts
    <2>4. PipeTyped' /\ Recorded'
      BY <2>1, <2>2, <2>3 DEF PipeTyped, Recorded
    <2>5. MaxAttempts' = MaxAttempts /\ \A i : NeedsPlan(i)' = NeedsPlan(i)
      BY <2>2 DEF MaxAttempts, NeedsPlan
    <2>6. TriedInTurn'
      BY <2>1, <2>2, <2>5 DEF TriedInTurn
    <2> QED
      BY <2>2, <2>3, <2>4, <2>6 DEF PipeInv, StagesInOrder, RunEndsSoundly, FileFollows
  <1>2. CASE UNCHANGED pipeVars
    BY <1>2 DEF pipeVars, PipeInv, PipeTyped, Recorded, StagesInOrder, RunEndsSoundly, TriedInTurn, FileFollows,
                EndsSoundly, NoneFailed, MaxAttempts, NeedsPlan
  <1> QED
    BY <1>1, <1>2, PipelineStarts, StageBegins, GateKeeps, AttemptKeeps, AfterStageKeeps, FinishKeeps
       DEF PipelineStep

LEMMA PipeHolds == PipeInv => PlanFirst /\ VerdictSound /\ FileFollows
  <1> SUFFICES ASSUME PipeInv PROVE PlanFirst /\ VerdictSound /\ FileFollows
    OBVIOUS
  <1>1. PipeTyped /\ Recorded /\ StagesInOrder /\ RunEndsSoundly /\ TriedInTurn /\ FileFollows
    BY DEF PipeInv
  <1>2. PlanFirst
    <2>1. options.implementors \subseteq Stages
      BY <1>1 DEF PipeTyped, Options
    <2> QED
      BY <1>1, <2>1 DEF PlanFirst, TriedInTurn, NeedsPlan
  <1>3. ASSUME result.status = "completed"
        PROVE  /\ Len(completed) = NumStages
               /\ options.fail_fast => ~Contains(completed, "fail") /\ ActionOf(result.verdict) = "completed"
    <2>1. Len(completed) = NumStages /\ (options.fail_fast => NoneFailed(completed))
          /\ result.verdict = IF completed = <<>> THEN "fail" ELSE completed[Len(completed)]
      BY <1>1, <1>3 DEF RunEndsSoundly, EndsSoundly
    <2>2. result.verdict = completed[NumStages] /\ NumStages \in 1 .. Len(completed)
          /\ completed[NumStages] \in StageVerdicts
      BY <1>1, <2>1 DEF Recorded
    <2> QED
      BY <2>1, <2>2 DEF NoneFailed, Contains, ActionOf, StageVerdicts
  <1>4. ASSUME result.status = "failed"
        PROVE  \/ completed # <<>> /\ Last(completed) = "fail" /\ ActionOf(result.verdict) = "discard"
               \/ Len(completed) < NumStages /\ NeedsPlan(Len(completed) + 1)
    BY <1>1, <1>4 DEF RunEndsSoundly, EndsSoundly, Last, ActionOf
  <1> QED
    BY <1>1, <1>2, <1>3, <1>4 DEF VerdictSound

-----------------------------------------------------------------------------
(* The circuit breaker of an adapter *)

Circuits == [state : {"closed", "open", "half_open"}, failures : 0 .. FAILURE_THRESHOLD,
             since : 0 .. BreakerCooldown]
Rows == [failures : 0 .. FAILURE_THRESHOLD, since : 0 .. BreakerCooldown]

\* The circuit counts what happened; one that is not open has either not failed
\* too often or has cooled down.
BreakerInv ==
    /\ circuit \in Circuits /\ inARow \in Rows
    /\ circuit.failures = inARow.failures /\ circuit.since = inARow.since
    /\ circuit.state = "closed" <=> circuit.failures < FAILURE_THRESHOLD
    /\ circuit.state = "half_open" => circuit.since = BreakerCooldown

LEMMA BreakerStart == BreakerInit => BreakerInv
  BY DEF BreakerInit, BreakerInv, Circuits, Rows

LEMMA BreakerKeeps == BreakerInv /\ [BreakerStep]_breakerVars => BreakerInv'
  <1> SUFFICES ASSUME BreakerInv, [BreakerStep]_breakerVars PROVE BreakerInv'
    OBVIOUS
  <1>1. circuit \in Circuits /\ inARow \in Rows
    BY DEF BreakerInv
  <1>2. CASE RecordSuccess
    <2>1. circuit.since \in 0 .. BreakerCooldown /\ inARow.since = circuit.since
      BY <1>1 DEF BreakerInv, Circuits
    <2>2. circuit' = [state |-> "closed", failures |-> 0, since |-> circuit.since]
      BY <1>1, <1>2 DEF RecordSuccess, Circuits
    <2>3. inARow' = [failures |-> 0, since |-> circuit.since]
      BY <1>1, <1>2, <2>1 DEF RecordSuccess, Rows
    <2>4. 0 \in 0 .. FAILURE_THRESHOLD /\ 0 < FAILURE_THRESHOLD
      OBVIOUS
    <2>5. circuit' \in Circuits /\ inARow' \in Rows
      BY <2>1, <2>2, <2>3, <2>4 DEF Circuits, Rows
    <2>6. circuit'.failures = 0 /\ inARow'.failures = 0 /\ circuit'.since = inARow'.since /\ circuit'.state = "closed"
      BY <2>2, <2>3
    <2> QED
      BY <2>4, <2>5, <2>6 DEF BreakerInv
  <1>3. CASE RecordFailure
    <2> DEFINE n == circuit.failures + 1
               counted == IF n > FAILURE_THRESHOLD THEN FAILURE_THRESHOLD ELSE n
               state == IF Opens(n) THEN "open" ELSE circuit.state
    <2>1. circuit.failures \in 0 .. FAILURE_THRESHOLD /\ circuit.state \in {"closed", "open", "half_open"}
          /\ inARow.failures = circuit.failures
      BY <1>1 DEF BreakerInv, Circuits
    <2>2. circuit' = [state |-> state, failures |-> counted, since |-> 0]
      BY <1>3 DEF RecordFailure
    <2>3. inARow' = [failures |-> counted, since |-> 0]
      BY <1>3, <2>1 DEF RecordFailure
    <2>4. state \in {"closed", "open", "half_open"} /\ counted \in 0 .. FAILURE_THRESHOLD
      BY <2>1
    <2>5. circuit' \in Circuits /\ inARow' \in Rows
      BY <2>2, <2>3, <2>4 DEF Circuits, Rows
    <2>6. /\ state \in {"open", "closed"}
          /\ state = "closed" <=> counted < FAILURE_THRESHOLD
      <3>1. circuit.state = "closed" <=> circuit.failures < FAILURE_THRESHOLD
        BY DEF BreakerInv
      <3>2. CASE Opens(n)
        BY <2>1, <3>2 DEF Opens
      <3>3. CASE ~Opens(n)
        BY <2>1, <3>1, <3>3 DEF Opens
      <3> QED
        BY <3>2, <3>3
    <2>8. circuit'.state = state /\ circuit'.failures = counted /\ circuit'.since = 0
          /\ inARow'.failures = counted /\ inARow'.since = 0
      BY <2>2, <2>3
    <2> HIDE DEF n, counted, state
    <2> QED
      BY <2>5, <2>6, <2>8 DEF BreakerInv
  <1>4. CASE IsAvailable
    BY <1>1, <1>4 DEF IsAvailable, CooledDown, BreakerInv, Circuits, Rows
  <1>5. CASE TimePasses
    BY <1>1, <1>5 DEF TimePasses, BreakerInv, Circuits, Rows
  <1>6. CASE UNCHANGED breakerVars
    BY <1>6 DEF BreakerInv, breakerVars
  <1> QED
    BY <1>2, <1>3, <1>4, <1>5, <1>6 DEF BreakerStep

LEMMA BreakerSound == BreakerInv => BreakerHolds
  BY DEF BreakerInv, BreakerHolds, Available, CooledDown, Circuits, Rows

LEMMA PipeTypes == PipeInv /\ BreakerInv => PipeTypeOK
  BY DEF PipeInv, PipeTyped, Recorded, PipeFiles, RunResults, StageVerdicts, BreakerInv, Circuits, PipeTypeOK

-----------------------------------------------------------------------------
(* All of them together *)

ServicesInv ==
    /\ RepInv /\ EventsInv /\ SessInv /\ PipeInv /\ BreakerInv /\ AcpInv /\ A2AInv /\ IssueInv
    /\ CallInv /\ GateInv /\ ProcInv /\ TuiInv /\ LogInv /\ ReviewInv

\* A step of the whole, seen from one part, is a step of that part or none.
LEMMA PartSteps ==
  ASSUME [ServicesNext]_servicesVars
  PROVE  /\ [SummaryStep \/ NoticeStep]_repVars /\ [EventsNext]_eventVars
         /\ [SessionStep \/ CheckpointStep]_sessVars /\ [PipelineStep]_pipeVars
         /\ [BreakerStep]_breakerVars /\ [AcpStep]_acpVars
         /\ [A2AStep]_a2aVars /\ [IssueStep]_issueVars
         /\ [CallStep]_callVars /\ [GateStep]_gateVars
         /\ [ProcStep]_procVars /\ [TuiStep]_tuiVars
         /\ [LogNext]_logVars /\ [ReviewNext]_reviewVars
  <1>1. CASE UNCHANGED servicesVars
    BY <1>1 DEF servicesVars
  <1>2. CASE FileSteps
    BY <1>2 DEF FileSteps, Only
  <1>3. CASE GroupSteps
    BY <1>3 DEF GroupSteps, Only
  <1>4. CASE SummarySteps
    BY <1>4 DEF SummarySteps, Only
  <1>5. CASE NoticeSteps
    BY <1>5 DEF NoticeSteps, Only
  <1>6. CASE EventSteps
    BY <1>6 DEF EventSteps, Only
  <1>7. CASE SessionSteps
    BY <1>7 DEF SessionSteps, Only
  <1>8. CASE CheckpointSteps
    BY <1>8 DEF CheckpointSteps, Only
  <1>9. CASE PipelineSteps
    BY <1>9 DEF PipelineSteps, Only
  <1>10. CASE BreakerSteps
    BY <1>10 DEF BreakerSteps, Only
  <1>11. CASE AcpSteps
    BY <1>11 DEF AcpSteps, Only
  <1>12. CASE A2ASteps
    BY <1>12 DEF A2ASteps, Only
  <1>13. CASE IssueSteps
    BY <1>13 DEF IssueSteps, Only
  <1>14. CASE CallSteps
    BY <1>14 DEF CallSteps, Only
  <1>15. CASE GateSteps
    BY <1>15 DEF GateSteps, Only
  <1>16. CASE ProcessSteps
    BY <1>16 DEF ProcessSteps, Only
  <1>17. CASE TerminalSteps
    BY <1>17 DEF TerminalSteps, Only
  <1>18. CASE LogSteps
    BY <1>18 DEF LogSteps, Only
  <1>19. CASE ReviewSteps
    BY <1>19 DEF ReviewSteps, Only
  <1> QED
    BY <1>1, <1>2, <1>3, <1>4, <1>5, <1>6, <1>7, <1>8, <1>9, <1>10, <1>11, <1>12, <1>13, <1>14, <1>15, <1>16, <1>17, <1>18, <1>19
       DEF ServicesNext

LEMMA ServicesStart == ServicesInit => ServicesInv
  BY RepStart, EventsStart, SessStart, PipeStart, BreakerStart, AcpStart, A2AStart, IssueStart, CallStart,
     GateStart, ProcStart, TuiStart, LogStart, ReviewStart DEF ServicesInit, ServicesInv

LEMMA ServicesKeep == ServicesInv /\ [ServicesNext]_servicesVars => ServicesInv'
  <1> SUFFICES ASSUME ServicesInv, [ServicesNext]_servicesVars PROVE ServicesInv'
    OBVIOUS
  <1>1. RepInv'
    BY PartSteps, RepKeeps DEF ServicesInv
  <1>2. EventsInv'
    BY PartSteps, EventsKeep DEF ServicesInv
  <1>3. SessInv'
    BY PartSteps, SessKeeps DEF ServicesInv
  <1>4. PipeInv'
    BY PartSteps, PipeKeeps DEF ServicesInv
  <1>5. BreakerInv'
    BY PartSteps, BreakerKeeps DEF ServicesInv
  <1>6. AcpInv'
    BY PartSteps, AcpKeeps DEF ServicesInv
  <1>7. A2AInv'
    BY PartSteps, A2AKeeps DEF ServicesInv
  <1>8. IssueInv'
    BY PartSteps, IssueKeeps DEF ServicesInv
  <1>9. CallInv'
    BY PartSteps, CallKeeps DEF ServicesInv
  <1>10. GateInv'
    BY PartSteps, GateKeepsLog DEF ServicesInv
  <1>11. ProcInv'
    BY PartSteps, ProcKeeps DEF ServicesInv
  <1>12. TuiInv'
    BY PartSteps, TuiKeeps DEF ServicesInv
  <1>13. LogInv'
    BY PartSteps, LogKeeps DEF ServicesInv
  <1>14. ReviewInv'
    BY PartSteps, ReviewKeeps DEF ServicesInv
  <1> QED
    BY <1>1, <1>2, <1>3, <1>4, <1>5, <1>6, <1>7, <1>8, <1>9, <1>10, <1>11, <1>12, <1>13, <1>14
       DEF ServicesInv

\* The invariant of every part holds throughout.
THEOREM ServicesInvariant == ServicesSpec => []ServicesInv
  BY ServicesStart, ServicesKeep, PTL DEF ServicesSpec

\* The state of every service keeps its type.
THEOREM ServicesTyped == ServicesSpec => []TypesOK
  <1>1. ServicesInv => TypesOK
    <2> SUFFICES ASSUME ServicesInv PROVE TypesOK
      OBVIOUS
    <2>1. RepTypeOK /\ EventsTypeOK /\ SessTypeOK /\ PipeTypeOK
      BY RepTypes, EventTypes, SessTypes, PipeTypes DEF ServicesInv
    <2>2. AgentsTypeOK /\ ModelsTypeOK /\ ProcTypeOK
      BY AgentTypes, ModelTypes, ProcTypes DEF ServicesInv
    <2>3. TuiTypeOK /\ LogTypeOK /\ ReviewTypeOK
      BY TuiTypes, LogTypes, ReviewTypes DEF ServicesInv
    <2> QED
      BY <2>1, <2>2, <2>3 DEF TypesOK
  <1> QED
    BY <1>1, ServicesInvariant, PTL

\* Every service keeps what it promises the loop: sums that agree with what was
\* recorded, distance between notices of a type, events visible until they are
\* handled, sessions within their budget and found again, checkpoints that load,
\* verdicts that were earned, answers told once, a log in its order.
THEOREM ServicesHold == ServicesSpec => []ServicesSound
  <1>1. ServicesInv => ServicesSound
    <2> SUFFICES ASSUME ServicesInv PROVE ServicesSound
      OBVIOUS
    <2>1. /\ SumsAgree /\ SpacedOut /\ EventVisible
          /\ WithinBudget /\ SessionsFound /\ CheckpointLoads
      BY WeekCounts, RepTypes, SessHolds DEF ServicesInv, EventsInv
    <2>2. PlanFirst /\ VerdictSound /\ FileFollows /\ BreakerHolds
      BY PipeHolds, BreakerSound DEF ServicesInv
    <2>3. OwnAnswer /\ RemoteCompleted /\ OneIssue /\ RefusedOnce /\ VerdictEarned /\ ToldOnce
      <3>1. AcpInv /\ A2AInv /\ IssueInv /\ CallInv /\ GateInv /\ ProcInv
        BY DEF ServicesInv
      <3> QED
        BY <3>1, GateEarns, ProcTells DEF AcpInv, A2AInv, IssueInv, CallInv
    <2>4. /\ ApprovedAsShown /\ NoneLost /\ DashTells /\ LogOrdered
          /\ RulingEarned /\ NothingLeftOpen
      BY TuiHolds, LogHolds, ReviewHolds DEF ServicesInv
    <2> QED
      BY <2>1, <2>2, <2>3, <2>4 DEF ServicesSound
  <1> QED
    BY <1>1, ServicesInvariant, PTL
=============================================================================
