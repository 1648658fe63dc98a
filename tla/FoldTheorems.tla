---------------------------- MODULE FoldTheorems ----------------------------
(***************************************************************************)
(* Induction over the natural numbers for sets, and what it says about     *)
(* FoldLeft: that the recursive function behind it exists, takes the       *)
(* elements of a sequence in their order, and keeps to the set of values   *)
(* that the steps keep to.                                                 *)
(***************************************************************************)
EXTENDS SequencesExt, SequenceTheorems, WellFoundedInduction, TLAPS

(* A set of numbers that is not empty has a least element.                 *)
LEMMA LeastNumber ==
  ASSUME NEW S, S \subseteq Nat, S # {}
  PROVE  \E n \in S : \A m \in S : n <= m
<1> DEFINE R == OpToRel(<, Nat)
<1>1. IsWellFoundedOn(R, Nat)
  BY NatLessThanWellFounded
<1>2. \A m, n \in Nat : <<m, n>> \in R <=> m < n
  BY DEF OpToRel
<1> HIDE DEF R
<1>3. PICK n \in S : \A m \in S : <<m, n>> \notin R
  BY <1>1, WFMin
<1>4. ASSUME NEW m \in S PROVE n <= m
  <2>1. m \in Nat /\ n \in Nat /\ ~(m < n)
    BY <1>2, <1>3
  <2>2. QED
    BY <2>1
<1>5. QED
  BY <1>4

(* Induction over the natural numbers, for a set: the induction theorems   *)
(* of the library are for an operator, which none of the provers used here *)
(* can instantiate.                                                        *)
LEMMA Induction ==
  ASSUME NEW S, 0 \in S, \A n \in Nat : n \in S => n + 1 \in S
  PROVE  Nat \subseteq S
<1> DEFINE T == Nat \ S
<1>1. SUFFICES ASSUME T # {} PROVE FALSE
  OBVIOUS
<1>2. T \subseteq Nat
  OBVIOUS
<1> HIDE DEF T
<1>3. PICK n \in T : \A m \in T : n <= m
  BY <1>1, <1>2, LeastNumber
<1>4. n \in Nat /\ n # 0 /\ n \notin S
  BY <1>3 DEF T
<1>5. n - 1 \in Nat /\ ~(n <= n - 1) /\ (n - 1) + 1 = n
  BY <1>4
<1>6. n - 1 \in S
  BY <1>3, <1>5 DEF T
<1>7. QED
  BY <1>4, <1>5, <1>6

(* Max is a greatest element.                                              *)
LEMMA MaxFacts ==
  ASSUME NEW n \in Nat, NEW S, S \subseteq 1 .. n, S # {}
  PROVE  Max(S) \in S /\ \A m \in S : m <= Max(S)
<1> DEFINE T == {n - x : x \in S}
<1>1. T \subseteq Nat /\ T # {}
  <2>1. \A x \in S : n - x \in Nat
    OBVIOUS
  <2>2. QED
    BY <2>1
<1>2. PICK t \in T : \A u \in T : t <= u
  BY <1>1, LeastNumber
<1>3. PICK x \in S : t = n - x
  BY <1>2
<1>4. ASSUME NEW m \in S PROVE m <= x
  <2>1. n - m \in T /\ m \in Nat /\ x \in Nat
    BY <1>3
  <2>2. n - x <= n - m
    BY <1>2, <1>3, <2>1
  <2>3. QED
    BY <2>1, <2>2
<1>5. S \subseteq Int
  OBVIOUS
<1>6. \A m \in S : x >= m
  BY <1>4, <1>5
<1>7. Max(S) \in S /\ \A m \in S : Max(S) >= m
  BY <1>6 DEF Max
<1>8. QED
  BY <1>5, <1>7

(* f is the fold over sets of positions 1 .. n that MapThenFoldSet         *)
(* defines, from b and the steps g[i] on the values V.                     *)
IsRecursion(f, n, V, b, g) ==
  /\ f \in [SUBSET (1 .. n) -> V]
  /\ f[{}] = b
  /\ \A s \in SUBSET (1 .. n) :
       s # {} => f[s] = g[Max(s)][f[s \ {Max(s)}]]

(* There is such a function: what MapThenFoldSet chooses exists. By        *)
(* induction over the greatest position.                                   *)
LEMMA Recursion ==
  ASSUME NEW n \in Nat, NEW V, NEW b \in V, NEW g \in [1 .. n -> [V -> V]]
  PROVE  \E f : IsRecursion(f, n, V, b, g)
<1> DEFINE Defined(f, m) ==
             \A s \in SUBSET (1 .. n) :
               s \subseteq 1 .. m =>
                 f[s] = IF s = {} THEN b ELSE g[Max(s)][f[s \ {Max(s)}]]
           Reached == {m \in Nat : \E f \in [SUBSET (1 .. n) -> V] : Defined(f, m)}
<1>1. 0 \in Reached
  <2> DEFINE f == [s \in SUBSET (1 .. n) |-> b]
  <2>1. f \in [SUBSET (1 .. n) -> V]
    OBVIOUS
  <2>2. ASSUME NEW s \in SUBSET (1 .. n), s \subseteq 1 .. 0
        PROVE  s = {} /\ f[s] = b
    BY <2>2
  <2>3. Defined(f, 0)
    BY <2>2
  <2>4. QED
    BY <2>1, <2>3
<1>2. ASSUME NEW m \in Nat, m \in Reached PROVE m + 1 \in Reached
  <2>1. PICK f \in [SUBSET (1 .. n) -> V] : Defined(f, m)
    BY <1>2
  <2> DEFINE h == [s \in SUBSET (1 .. n) |->
                     IF s \subseteq 1 .. m THEN f[s]
                     ELSE g[Max(s)][f[s \ {Max(s)}]]]
  <2>2. ASSUME NEW s \in SUBSET (1 .. n), s # {}
        PROVE  Max(s) \in 1 .. n /\ Max(s) \in s /\ \A k \in s : k <= Max(s)
    BY <2>2, MaxFacts
  <2>3. h \in [SUBSET (1 .. n) -> V]
    <3>1. ASSUME NEW s \in SUBSET (1 .. n), ~(s \subseteq 1 .. m)
          PROVE  g[Max(s)][f[s \ {Max(s)}]] \in V
      <4>1. Max(s) \in 1 .. n
        BY <2>2, <3>1
      <4>2. s \ {Max(s)} \in SUBSET (1 .. n)
        OBVIOUS
      <4>3. QED
        BY <4>1, <4>2
    <3>2. QED
      BY <3>1
  <2>4. ASSUME NEW s \in SUBSET (1 .. n), s \subseteq 1 .. m + 1
        PROVE  h[s] = IF s = {} THEN b ELSE g[Max(s)][h[s \ {Max(s)}]]
    <3>0. s \ {Max(s)} \in SUBSET (1 .. n)
      OBVIOUS
    <3>1. CASE s \subseteq 1 .. m
      <4>1. h[s] = f[s]
        BY <3>1
      <4>2. s \ {Max(s)} \subseteq 1 .. m
        BY <3>1
      <4>3. h[s \ {Max(s)}] = f[s \ {Max(s)}]
        BY <3>0, <4>2
      <4>4. f[s] = IF s = {} THEN b ELSE g[Max(s)][f[s \ {Max(s)}]]
        BY <2>1, <3>1
      <4>5. QED
        BY <4>1, <4>3, <4>4
    <3>2. CASE ~(s \subseteq 1 .. m)
      <4>1. s # {}
        BY <3>2
      <4>2. m + 1 \in s
        BY <2>4, <3>2
      <4>3. Max(s) = m + 1
        <5>1. Max(s) \in s /\ m + 1 <= Max(s)
          BY <2>2, <4>1, <4>2
        <5>2. Max(s) \in 1 .. m + 1
          BY <2>4, <5>1
        <5>3. QED
          BY <5>1, <5>2
      <4>4. s \ {Max(s)} \subseteq 1 .. m
        BY <2>4, <4>3
      <4>5. h[s \ {Max(s)}] = f[s \ {Max(s)}]
        BY <3>0, <4>4
      <4>6. h[s] = g[Max(s)][f[s \ {Max(s)}]]
        BY <3>2
      <4>7. QED
        BY <4>1, <4>5, <4>6
    <3>3. QED
      BY <3>1, <3>2
  <2>5. Defined(h, m + 1)
    BY <2>4
  <2> HIDE DEF h, Defined
  <2>6. QED
    BY <2>3, <2>5
<1>3. n \in Reached
  <2> HIDE DEF Reached
  <2>1. QED
    BY <1>1, <1>2, Induction
<1>4. PICK f \in [SUBSET (1 .. n) -> V] : Defined(f, n)
  BY <1>3
<1>5. QED
  BY <1>4 DEF IsRecursion

(* FoldLeft takes the positions of a sequence one after another.           *)
LEMMA Intervals ==
  ASSUME NEW n \in Nat
  PROVE  /\ 1 .. 0 = {}
         /\ \A k \in 0 .. n : 1 .. k \in SUBSET (1 .. n)
         /\ \A k \in 1 .. n : 1 .. k # {} /\ k - 1 \in 0 .. n
         /\ \A k \in 1 .. n : Max(1 .. k) = k
         /\ \A k \in 1 .. n : (1 .. k) \ {k} = 1 .. k - 1
<1>1. ASSUME NEW k \in 1 .. n PROVE Max(1 .. k) = k
  <2>1. k \in Nat /\ k \in 1 .. k /\ 1 .. k # {}
    OBVIOUS
  <2>2. Max(1 .. k) \in 1 .. k /\ k <= Max(1 .. k)
    BY <2>1, MaxFacts
  <2>3. QED
    BY <2>1, <2>2
<1>2. /\ \A k \in 1 .. n : 1 .. k # {} /\ k - 1 \in 0 .. n
      /\ \A k \in 1 .. n : (1 .. k) \ {k} = 1 .. k - 1
  OBVIOUS
<1>3. 1 .. 0 = {} /\ \A k \in 0 .. n : 1 .. k \in SUBSET (1 .. n)
  OBVIOUS
<1>4. QED
  BY <1>1, <1>2, <1>3

(* r[k] is what the first k steps make of b.                               *)
IsRun(r, n, V, b, g) ==
  /\ r[0] = b
  /\ \A k \in 1 .. n : r[k - 1] \in V => r[k] = g[k][r[k - 1]]

(* Steps that keep to V lead to values in V.                               *)
LEMMA RunType ==
  ASSUME NEW n \in Nat, NEW V, NEW b \in V, NEW g \in [1 .. n -> [V -> V]],
         NEW r, IsRun(r, n, V, b, g)
  PROVE  \A k \in 0 .. n : r[k] \in V
<1> USE DEF IsRun
<1> DEFINE Typed == {k \in Nat : k \in 0 .. n => r[k] \in V}
<1>1. 0 \in Typed
  OBVIOUS
<1>2. ASSUME NEW k \in Nat, k \in Typed PROVE k + 1 \in Typed
  <2>1. SUFFICES ASSUME k + 1 \in 0 .. n PROVE r[k + 1] \in V
    OBVIOUS
  <2>2. k \in 0 .. n /\ k + 1 \in 1 .. n /\ (k + 1) - 1 = k
    BY <2>1
  <2>3. r[k] \in V
    BY <1>2, <2>2
  <2>4. QED
    BY <2>2, <2>3
<1>3. Nat \subseteq Typed
  <2> HIDE DEF Typed
  <2>1. QED
    BY <1>1, <1>2, Induction
<1>4. QED
  BY <1>3

(* There is one such run only.                                             *)
LEMMA SameRun ==
  ASSUME NEW n \in Nat, NEW V, NEW b \in V, NEW g \in [1 .. n -> [V -> V]],
         NEW q, NEW r, IsRun(q, n, V, b, g), IsRun(r, n, V, b, g)
  PROVE  \A k \in 0 .. n : q[k] = r[k]
<1> USE DEF IsRun
<1> DEFINE Same == {k \in Nat : k \in 0 .. n => q[k] = r[k]}
<1>0. \A k \in 0 .. n : r[k] \in V
  <2> HIDE DEF IsRun
  <2>1. QED
    BY RunType
<1>1. 0 \in Same
  OBVIOUS
<1>2. ASSUME NEW k \in Nat, k \in Same PROVE k + 1 \in Same
  <2>1. SUFFICES ASSUME k + 1 \in 0 .. n PROVE q[k + 1] = r[k + 1]
    OBVIOUS
  <2>2. k \in 0 .. n /\ k + 1 \in 1 .. n /\ (k + 1) - 1 = k
    BY <2>1
  <2>3. q[k] = r[k] /\ q[k] \in V
    BY <1>0, <1>2, <2>2
  <2>4. QED
    BY <2>2, <2>3
<1>3. Nat \subseteq Same
  <2> HIDE DEF Same
  <2>1. QED
    BY <1>1, <1>2, Induction
<1>4. QED
  BY <1>3

(* And there is one.                                                       *)
IsTypedRun(r, n, V, b, g) ==
  /\ r \in [0 .. n -> V]
  /\ r[0] = b
  /\ \A k \in 1 .. n : r[k] = g[k][r[k - 1]]

LEMMA RunExists ==
  ASSUME NEW n \in Nat, NEW V, NEW b \in V, NEW g \in [1 .. n -> [V -> V]]
  PROVE  \E r : IsTypedRun(r, n, V, b, g)
<1>1. PICK f : IsRecursion(f, n, V, b, g)
  BY Recursion
<1>2. /\ f \in [SUBSET (1 .. n) -> V]
      /\ f[{}] = b
      /\ \A s \in SUBSET (1 .. n) :
           s # {} => f[s] = g[Max(s)][f[s \ {Max(s)}]]
  BY <1>1 DEF IsRecursion
<1> DEFINE r == [k \in 0 .. n |-> f[1 .. k]]
<1>3. r \in [0 .. n -> V] /\ r[0] = b
  <2>1. /\ 1 .. 0 = {} /\ 0 \in 0 .. n
        /\ \A k \in 0 .. n : 1 .. k \in SUBSET (1 .. n)
    BY Intervals
  <2>2. \A k \in 0 .. n : f[1 .. k] \in V
    BY ONLY <1>2, <2>1
  <2>3. QED
    BY ONLY <1>2, <2>1, <2>2
<1>4. ASSUME NEW k \in 1 .. n PROVE r[k] = g[k][r[k - 1]]
  <2>1. /\ 1 .. k \in SUBSET (1 .. n) /\ 1 .. k # {} /\ k - 1 \in 0 .. n
        /\ Max(1 .. k) = k /\ (1 .. k) \ {k} = 1 .. k - 1
    BY Intervals
  <2>2. r[k] = f[1 .. k] /\ r[k - 1] = f[1 .. k - 1]
    BY <2>1
  <2> HIDE DEF r
  <2>3. f[1 .. k] = g[k][f[1 .. k - 1]]
    BY ONLY <1>2, <2>1
  <2>4. QED
    BY <2>2, <2>3
<1> HIDE DEF r
<1>5. QED
  BY <1>3, <1>4 DEF IsTypedRun
=============================================================================
