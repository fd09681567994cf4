--------------------------- MODULE LeastElements ----------------------------
(***************************************************************************)
(* Sets of natural numbers have least elements: what the choice of the     *)
(* first slot, descriptor or byte in the other modules rests on.           *)
(* The sets 0..k are finite, and strict inclusion of finite sets is        *)
(* well-founded.  And what follows from it for loops.                      *)
(***************************************************************************)
EXTENDS Integers, FiniteSetTheorems, WellFoundedInduction, TLAPS

(* A set of natural numbers that is not empty has a least element. *)
LEMMA LeastElement ==
  ASSUME NEW S \in SUBSET Nat, S # {}
  PROVE  \E m \in S : \A l \in S : m <= l
<1> DEFINE Below(k) == 0..k
           T == {Below(k) : k \in S}
           R == StrictSubsetOrdering(Nat)
<1>1. IsWellFoundedOn(R, FiniteSubsetsOf(Nat))
  BY FS_StrictSubsetOrderingWellFounded
<1>2. ASSUME NEW k \in Nat PROVE Below(k) \in FiniteSubsetsOf(Nat)
  <2>1. IsFiniteSet(Below(k))
    BY FS_Interval
  <2> QED
    BY <2>1 DEF FiniteSubsetsOf
<1>3. T \subseteq FiniteSubsetsOf(Nat) /\ T # {}
  BY <1>2
<1>4. PICK x \in T : \A y \in T : ~(<<y, x>> \in R)
  <2> HIDE DEF R, T
  <2> QED
    BY <1>1, <1>3, WFMin
<1>5. PICK k \in S : x = Below(k)
  BY <1>4
<1>6. ASSUME NEW l \in S PROVE k <= l
  <2>1. SUFFICES ASSUME l < k PROVE FALSE
    OBVIOUS
  <2>2. Below(l) \subseteq Below(k) /\ Below(l) # Below(k)
    BY <2>1
  <2>3. <<Below(l), Below(k)>> \in R
    BY <2>2 DEF StrictSubsetOrdering
  <2> QED
    BY <2>3, <1>4, <1>5
<1> QED
  BY <1>6

-----------------------------------------------------------------------------
(* Loops.  The loops of the code are recursive functions of the number of  *)
(* rounds; what holds at the beginning and is kept by a round holds at the *)
(* end because a set of numbers has a least element.                       *)

LEMMA AllRounds ==
  ASSUME NEW n \in Nat, NEW B \in SUBSET (0..n), 0 \in B,
         \A k \in 1..n : k - 1 \in B => k \in B
  PROVE  \A k \in 0..n : k \in B
<1> SUFFICES ASSUME NEW x \in 0..n, x \notin B PROVE FALSE
  OBVIOUS
<1> DEFINE Rest == (0..n) \ B
<1>1. Rest \in SUBSET Nat /\ x \in Rest
  OBVIOUS
<1>2. PICK k \in Rest : \A l \in Rest : k <= l
  <2> HIDE DEF Rest
  <2> QED
    BY <1>1, LeastElement
<1>3. k \in 0..n /\ k \notin B
  BY <1>2
<1>4. k \in 1..n /\ k - 1 \in 0..n
  BY <1>3
<1>5. k - 1 \in B
  BY <1>2, <1>4
<1> QED
  BY <1>3, <1>4, <1>5

(* f[k] is the state of a loop after k rounds; F[k] is what round k does.  *)
IsLoop(f, a, n, F) == f[0] = a /\ \A k \in 1..n : f[k] = F[k][f[k - 1]]

(* A loop has a result. *)
LEMMA LoopExists ==
  ASSUME NEW X, NEW a \in X, NEW n \in Nat, NEW F \in [1..n -> [X -> X]]
  PROVE  \E f \in [0..n -> X] : IsLoop(f, a, n, F)
<1> DEFINE B == {m \in 0..n : \E f \in [0..m -> X] : IsLoop(f, a, m, F)}
<1>1. 0 \in B
  <2> DEFINE g == [k \in 0..0 |-> a]
  <2>1. g \in [0..0 -> X] /\ g[0] = a
    OBVIOUS
  <2>2. IsLoop(g, a, 0, F)
    BY <2>1 DEF IsLoop
  <2> HIDE DEF g
  <2> QED
    BY <2>1, <2>2
<1>2. ASSUME NEW k \in 1..n, k - 1 \in B PROVE k \in B
  <2>1. PICK f \in [0..(k - 1) -> X] : IsLoop(f, a, k - 1, F)
    BY <1>2
  <2> DEFINE g == [m \in 0..k |-> IF m = k THEN F[k][f[k - 1]] ELSE f[m]]
  <2>2. f[k - 1] \in X /\ F[k] \in [X -> X]
    OBVIOUS
  <2>3. g \in [0..k -> X]
    BY <2>2
  <2>4. \A m \in 0..(k - 1) : g[m] = f[m]
    OBVIOUS
  <2>5. g[k] = F[k][f[k - 1]]
    OBVIOUS
  <2>6. IsLoop(g, a, k, F)
    <3> HIDE DEF g
    <3>1. g[0] = a
      BY <2>1, <2>4 DEF IsLoop
    <3>2. ASSUME NEW m \in 1..k PROVE g[m] = F[m][g[m - 1]]
      <4>1. CASE m = k
        BY <2>4, <2>5, <4>1
      <4>2. CASE m # k
        BY <2>1, <2>4, <4>2 DEF IsLoop
      <4> QED
        BY <4>1, <4>2
    <3> QED
      BY <3>1, <3>2 DEF IsLoop
  <2> HIDE DEF g
  <2> QED
    BY <2>3, <2>6
<1>3. n \in B
  <2>1. B \in SUBSET (0..n)
    OBVIOUS
  <2>2. \A k \in 1..n : k - 1 \in B => k \in B
    BY <1>2
  <2> HIDE DEF B
  <2>3. \A k \in 0..n : k \in B
    BY <1>1, <2>1, <2>2, AllRounds
  <2> QED
    BY <2>3
<1> QED
  BY <1>3

(* Whatever takes the same rounds as f agrees with f. *)
OnlyLoop(f, n) ==
  \A c : c[0] = f[0] /\ (\A k \in 1..n : c[k - 1] = f[k - 1] => c[k] = f[k])
          => \A k \in 0..n : c[k] = f[k]

(* What a recursive function is that is written as a loop. *)
LEMMA LoopIs ==
  ASSUME NEW X, NEW a \in X, NEW n \in Nat, NEW F \in [1..n -> [X -> X]]
  PROVE  \E f \in [0..n -> X] : IsLoop(f, a, n, F) /\ OnlyLoop(f, n)
<1>1. PICK f \in [0..n -> X] : IsLoop(f, a, n, F)
  BY LoopExists
<1>2. ASSUME NEW c, c[0] = f[0], \A k \in 1..n : c[k - 1] = f[k - 1] => c[k] = f[k]
      PROVE  \A k \in 0..n : c[k] = f[k]
  <2> DEFINE B == {k \in 0..n : c[k] = f[k]}
  <2>1. B \in SUBSET (0..n) /\ 0 \in B
    BY <1>2
  <2>2. ASSUME NEW k \in 1..n, k - 1 \in B PROVE k \in B
    <3>1. k \in 0..n /\ c[k - 1] = f[k - 1]
      BY <2>2
    <3> QED
      BY <1>2, <3>1
  <2> HIDE DEF B
  <2>3. \A k \in 0..n : k \in B
    BY <2>1, <2>2, AllRounds
  <2> QED
    BY <2>3 DEF B
<1>3. OnlyLoop(f, n)
  BY <1>2 DEF OnlyLoop
<1> QED
  BY <1>1, <1>3

(* The same for rounds that are counted from 1, with the first as the      *)
(* beginning.                                                              *)
IsLoopFrom1(f, a, n, F) == f[1] = a /\ \A k \in 2..n : f[k] = F[k][f[k - 1]]
OnlyLoopFrom1(f, n) ==
  \A c : c[1] = f[1] /\ (\A k \in 2..n : c[k - 1] = f[k - 1] => c[k] = f[k])
          => \A k \in 1..n : c[k] = f[k]

LEMMA LoopIsFrom1 ==
  ASSUME NEW X, NEW a \in X, NEW n \in Nat \ {0}, NEW F \in [2..n -> [X -> X]]
  PROVE  \E f \in [1..n -> X] : IsLoopFrom1(f, a, n, F) /\ OnlyLoopFrom1(f, n)
<1> DEFINE m == n - 1
           G == [k \in 1..m |-> F[k + 1]]
<1>1. m \in Nat /\ n = m + 1
  OBVIOUS
<1>2. G \in [1..m -> [X -> X]]
  OBVIOUS
<1>3. PICK g \in [0..m -> X] : IsLoop(g, a, m, G) /\ OnlyLoop(g, m)
  <2> HIDE DEF G, m
  <2> QED
    BY <1>1, <1>2, LoopIs
<1> DEFINE f == [k \in 1..n |-> g[k - 1]]
<1> HIDE DEF m
<1>4. f \in [1..n -> X]
  BY <1>1
<1>5. IsLoopFrom1(f, a, n, F)
  <2>1. f[1] = a
    <3>1. 1 \in 1..n /\ 1 - 1 = 0
      BY <1>1
    <3>2. f[1] = g[1 - 1]
      BY <3>1
    <3> QED
      BY <1>3, <3>1, <3>2 DEF IsLoop
  <2>2. ASSUME NEW k \in 2..n PROVE f[k] = F[k][f[k - 1]]
    <3>1. PICK l \in 1..m : l = k - 1
      BY <1>1
    <3>2. l + 1 = k /\ k \in 1..n /\ l \in 1..n
      BY <1>1, <3>1
    <3>3. f[k] = g[l] /\ f[l] = g[l - 1] /\ G[l] = F[k]
      BY <3>1, <3>2
    <3>4. g[l] = G[l][g[l - 1]]
      BY <1>3 DEF IsLoop
    <3> QED
      BY <3>1, <3>3, <3>4
  <2> HIDE DEF f
  <2> QED
    BY <2>1, <2>2 DEF IsLoopFrom1
<1>6. OnlyLoopFrom1(f, n)
  <2> SUFFICES ASSUME NEW c, c[1] = f[1],
                      \A k \in 2..n : c[k - 1] = f[k - 1] => c[k] = f[k]
               PROVE  \A k \in 1..n : c[k] = f[k]
    BY DEF OnlyLoopFrom1
  <2> DEFINE d == [k \in 0..m |-> c[k + 1]]
  <2>1. \A k \in 1..n : k - 1 \in 0..m /\ d[k - 1] = c[k] /\ f[k] = g[k - 1]
    <3> TAKE k \in 1..n
    <3>1. k - 1 \in 0..m /\ k - 1 + 1 = k
      BY <1>1
    <3> QED
      BY <3>1
  <2>2. d[0] = g[0]
    <3>1. 1 \in 1..n /\ 1 - 1 = 0
      BY <1>1
    <3> HIDE DEF d, f
    <3> QED
      BY <2>1, <3>1
  <2>3. ASSUME NEW k \in 1..m, d[k - 1] = g[k - 1] PROVE d[k] = g[k]
    <3>1. PICK l \in 2..n : l = k + 1
      BY <1>1
    <3>2. k \in 1..n /\ l \in 1..n /\ l - 1 = k
      BY <1>1, <3>1
    <3>3. c[k] = f[k]
      <4> HIDE DEF d, f
      <4> QED
        BY <2>1, <2>3, <3>2
    <3>4. c[l] = f[l]
      BY <3>2, <3>3
    <3> HIDE DEF d, f
    <3> QED
      BY <2>1, <3>2, <3>4
  <2>4. \A k \in 0..m : d[k] = g[k]
    <3> HIDE DEF d
    <3> QED
      BY <1>3, <2>2, <2>3 DEF OnlyLoop
  <2> HIDE DEF d, f
  <2> QED
    BY <2>1, <2>4
<1> HIDE DEF f
<1> QED
  BY <1>4, <1>5, <1>6
=============================================================================
