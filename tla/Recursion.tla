------------------------------ MODULE Recursion ------------------------------
(***************************************************************************)
(* Induction over the natural numbers, and what it says of the recursive   *)
(* functions of the specifications: that they exist, so that their         *)
(* equation holds.  A proof by induction on P is stated with the set of    *)
(* the numbers for which P holds, which is first-order.                    *)
(***************************************************************************)
EXTENDS FiniteSetsExt, WellFoundedInduction, TLAPS

\* A set of natural numbers has a least element.
LEMMA SmallestOf ==
    ASSUME NEW T \in SUBSET Nat, T # {}
    PROVE  \E x \in T : \A y \in T : x <= y
<1>1. PICK x \in T : \A y \in T : ~(<<y, x>> \in OpToRel(<, Nat))
  BY NatLessThanWellFounded, WFMin
<1>2. ASSUME NEW y \in T PROVE x <= y
  <2>1. x \in Nat /\ y \in Nat
    OBVIOUS
  <2>2. ~(y < x)
    BY <1>1, <2>1 DEF OpToRel
  <2> QED
    BY <2>1, <2>2
<1> QED
  BY <1>2

\* What holds at 0, and at every number whose predecessor has it, holds up to N.
LEMMA InductionUpTo ==
    ASSUME NEW S, NEW N \in Nat, 0 \in S, \A n \in 1..N : n - 1 \in S => n \in S
    PROVE  \A n \in 0..N : n \in S
<1> DEFINE T == {n \in 0..N : n \notin S}
<1>1. ASSUME T # {} PROVE FALSE
  <2>1. T \in SUBSET Nat
    OBVIOUS
  <2>2. PICK n \in T : \A m \in T : n <= m
    <3> HIDE DEF T
    <3> QED
      BY <1>1, <2>1, SmallestOf
  <2>3. n \in 1..N /\ n - 1 \notin T
    BY <2>2
  <2> QED
    BY <2>2, <2>3
<1> QED
  BY <1>1

Follows(f, base, step, n) ==
    /\ f[0] = base
    /\ \A m \in 1..n : f[m] = step[m][f[m - 1]]

\* Whatever the step from one value to the next, there is a function that
\* starts at the base and takes N of them.
LEMMA RecursionExists ==
    ASSUME NEW S, NEW base \in S, NEW N \in Nat, NEW step \in [1..N -> [S -> S]]
    PROVE  \E f \in [0..N -> S] : Follows(f, base, step, N)
<1> DEFINE Reached ==
              {n \in 0..N : \E f \in [0..N -> S] : Follows(f, base, step, n)}
<1>1. 0 \in Reached
  <2> DEFINE f == [n \in 0..N |-> base]
  <2>1. f \in [0..N -> S] /\ Follows(f, base, step, 0)
    BY DEF Follows
  <2> QED
    BY <2>1
<1>2. ASSUME NEW n \in 1..N, n - 1 \in Reached PROVE n \in Reached
  <2>1. PICK f \in [0..N -> S] : Follows(f, base, step, n - 1)
    BY <1>2
  <2>2. f[n - 1] \in S /\ step[n] \in [S -> S]
    OBVIOUS
  <2> DEFINE g == [f EXCEPT ![n] = step[n][f[n - 1]]]
  <2>3. /\ g \in [0..N -> S]
        /\ g[n] = step[n][f[n - 1]]
        /\ \A m \in 0..n-1 : g[m] = f[m]
    BY <2>2
  <2> HIDE DEF g
  <2>4. ASSUME NEW m \in 1..n PROVE g[m] = step[m][g[m - 1]]
    <3>1. m - 1 \in 0..n-1
      OBVIOUS
    <3>2. CASE m = n
      BY <2>3, <3>1, <3>2
    <3>3. CASE m \in 1..n-1
      BY <2>1, <2>3, <3>1, <3>3 DEF Follows
    <3> QED
      BY <3>2, <3>3
  <2>5. Follows(g, base, step, n)
    BY <2>1, <2>3, <2>4 DEF Follows
  <2> QED
    BY <2>3, <2>5
<1>3. \A n \in 0..N : n \in Reached
  <2> HIDE DEF Reached
  <2> QED
    BY <1>1, <1>2, InductionUpTo
<1> QED
  BY <1>3

----------------------------------------------------------------------------
(* The folds of the community modules, over a sequence of length N: they   *)
(* go from one set of indices to the next, by the largest one.             *)

LEMMA LargestOf ==
    ASSUME NEW N \in Nat, NEW T \in SUBSET (1..N), T # {}
    PROVE  Max(T) \in T /\ \A y \in T : Max(T) >= y
<1> DEFINE Left == {N - x : x \in T}
<1>1. Left \in SUBSET Nat /\ Left # {}
  <2>1. PICK x \in T : TRUE
    OBVIOUS
  <2>2. N - x \in Left
    BY <2>1
  <2>3. \A y \in T : N - y \in Nat
    OBVIOUS
  <2> QED
    BY <2>2, <2>3
<1>2. PICK n \in Left : \A m \in Left : n <= m
  <2> HIDE DEF Left
  <2> QED
    BY <1>1, SmallestOf
<1>3. PICK x \in T : n = N - x
  BY <1>2
<1>4. \A y \in T : x >= y
  <2> SUFFICES ASSUME NEW y \in T PROVE x >= y
    OBVIOUS
  <2>1. n <= N - y
    BY <1>2
  <2> QED
    BY <1>3, <2>1
<1> QED
  BY <1>3, <1>4 DEF Max

LEMMA MinOfTwo ==
    ASSUME NEW a \in Int, NEW b \in Int
    PROVE  Min({a, b}) = IF a <= b THEN a ELSE b
  BY DEF Min

LEMMA LargestUpTo ==
    ASSUME NEW n \in Nat \ {0}
    PROVE  1..n # {} /\ Max(1..n) = n /\ (1..n) \ {n} = 1..n-1
<1>1. n \in 1..n
  OBVIOUS
<1>2. Max(1..n) \in 1..n /\ Max(1..n) >= n
  BY <1>1, LargestOf
<1> QED
  BY <1>1, <1>2

IsFold(h, base, step, n) ==
    \A s \in SUBSET (1..n) :
        h[s] = IF s = {} THEN base ELSE step[Max(s)][h[s \ {Max(s)}]]

LEMMA FoldExists ==
    ASSUME NEW S, NEW base \in S, NEW N \in Nat, NEW step \in [1..N -> [S -> S]]
    PROVE  \E h \in [SUBSET (1..N) -> S] : IsFold(h, base, step, N)
<1> DEFINE Reached ==
              {n \in 0..N : \E h \in [SUBSET (1..n) -> S] : IsFold(h, base, step, n)}
<1>1. 0 \in Reached
  <2> DEFINE h == [s \in SUBSET (1..0) |-> base]
  <2>1. h \in [SUBSET (1..0) -> S] /\ IsFold(h, base, step, 0)
    <3>1. \A s \in SUBSET (1..0) : s = {}
      OBVIOUS
    <3> QED
      BY <3>1 DEF IsFold
  <2> QED
    BY <2>1
<1>2. ASSUME NEW n \in 1..N, n - 1 \in Reached PROVE n \in Reached
  <2>1. PICK h \in [SUBSET (1..n-1) -> S] : IsFold(h, base, step, n - 1)
    BY <1>2
  <2> DEFINE g == [s \in SUBSET (1..n) |->
                      IF n \in s THEN step[n][h[s \ {n}]] ELSE h[s]]
  <2>2. \A s \in SUBSET (1..n) :
           /\ s \ {n} \in SUBSET (1..n-1)
           /\ n \notin s => s \in SUBSET (1..n-1)
    OBVIOUS
  <2>3. \A s \in SUBSET (1..n) :
           g[s] = IF n \in s THEN step[n][h[s \ {n}]] ELSE h[s]
    OBVIOUS
  <2>4. g \in [SUBSET (1..n) -> S]
    <3>1. step[n] \in [S -> S]
      OBVIOUS
    <3>2. \A s \in SUBSET (1..n) :
             (IF n \in s THEN step[n][h[s \ {n}]] ELSE h[s]) \in S
      BY <2>2, <3>1
    <3> QED
      BY <3>2
  <2> HIDE DEF g
  <2>5. ASSUME NEW s \in SUBSET (1..n), s # {}
        PROVE  g[s] = step[Max(s)][g[s \ {Max(s)}]]
    <3>0. n \in Nat
      OBVIOUS
    <3>1. Max(s) \in s /\ \A y \in s : Max(s) >= y
      BY <2>5, <3>0, LargestOf, Zenon
    <3>2. s \ {Max(s)} \in SUBSET (1..n)
      OBVIOUS
    <3>3. CASE n \in s
      <4>1. Max(s) = n
        <5>1. Max(s) \in 1..n /\ Max(s) >= n
          BY <3>1, <3>3, Zenon
        <5> QED
          BY <3>0, <5>1
      <4>2. g[s \ {n}] = h[s \ {n}]
        BY <2>3, <3>2, <4>1, n \notin s \ {n}
      <4> QED
        BY <2>3, <3>3, <4>1, <4>2
    <3>4. CASE n \notin s
      <4>1. s \in SUBSET (1..n-1) /\ n \notin s \ {Max(s)}
        BY <2>2, <3>4
      <4>2. g[s] = h[s] /\ g[s \ {Max(s)}] = h[s \ {Max(s)}]
        BY <2>3, <3>2, <3>4, <4>1
      <4> QED
        BY <2>1, <2>5, <4>1, <4>2 DEF IsFold
    <3> QED
      BY <3>3, <3>4
  <2>6. g[{}] = base
    <3>1. g[{}] = h[{}]
      BY <2>3
    <3> QED
      BY <2>1, <3>1 DEF IsFold
  <2>7. IsFold(g, base, step, n)
    BY <2>5, <2>6 DEF IsFold
  <2> QED
    BY <2>4, <2>7
<1>3. \A n \in 0..N : n \in Reached
  <2> HIDE DEF Reached
  <2> QED
    BY <1>1, <1>2, InductionUpTo
<1>4. N \in Reached
  <2> HIDE DEF Reached
  <2> QED
    BY <1>3
<1> QED
  BY <1>4, Zenon
=============================================================================
