-------------------------- MODULE RunningFoldsProofs --------------------------
(***************************************************************************)
(* Induction over data.  The induction rules of the library have a          *)
(* predicate for a parameter, which the provers cannot instantiate; that   *)
(* the order of the naturals is well-founded is a fact about sets, and     *)
(* what follows rests on it.                                               *)
(***************************************************************************)
EXTENDS RunningFolds, WellFoundedInduction, TLAPS

\* A set of naturals that is not empty has a least element.
LEMMA LeastNatural ==
  ASSUME NEW S, S \subseteq Nat, S # {}
  PROVE  \E n \in S : \A m \in S : n <= m
<1> DEFINE Less == {ss \in Nat \X Nat : ss[1] < ss[2]}
<1>1. IsWellFoundedOn(Less, Nat)
  BY NatLessThanWellFounded DEF OpToRel
<1>2. \A m, n \in Nat : <<m, n>> \notin Less => n <= m
  OBVIOUS
<1> HIDE DEF Less
<1>3. PICK n \in S : \A m \in S : ~ (<<m, n>> \in Less)
  BY <1>1, WFMin
<1> QED
  BY <1>2, <1>3

\* A set of naturals with a bound has a greatest element.
LEMMA GreatestNatural ==
  ASSUME NEW bound \in Nat, NEW S, S \subseteq 0..bound, S # {}
  PROVE  \E n \in S : \A m \in S : m <= n
<1> DEFINE T == {n \in Nat : \A m \in S : m <= n}
<1>1. bound \in T
  OBVIOUS
<1>2. PICK n \in T : \A m \in T : n <= m
  BY <1>1, LeastNatural
<1>3. n \in S
  <2> SUFFICES ASSUME n \notin S PROVE FALSE
    OBVIOUS
  <2>1. \A m \in S : m \in Nat /\ m <= n /\ m # n
    BY <1>2
  <2>2. n \in Nat \ {0}
    <3>1. PICK m \in S : TRUE
      OBVIOUS
    <3> QED
      BY <3>1, <2>1, <1>2
  <2>3. \A m \in S : m <= n - 1
    BY <2>1, <2>2
  <2>4. n - 1 \in T
    BY <2>2, <2>3
  <2> QED
    BY <2>2, <2>4, <1>2
<1> QED
  BY <1>2, <1>3

\* Induction: what holds of 0, and of a number with its predecessor, holds up to n.
LEMMA UpTo ==
  ASSUME NEW n \in Nat, NEW S, 0 \in S,
         \A i \in 1..n : i - 1 \in S => i \in S
  PROVE  0..n \subseteq S
<1> DEFINE Bad == (0..n) \ S
<1> SUFFICES ASSUME Bad # {} PROVE FALSE
  OBVIOUS
<1>0. Bad \subseteq Nat
  OBVIOUS
<1>1. PICK i \in Bad : \A j \in Bad : i <= j
  <2> HIDE DEF Bad
  <2> QED BY <1>0, LeastNatural
<1>2. i \in 1..n /\ i - 1 \notin Bad
  BY <1>1
<1> QED
  BY <1>1, <1>2

\* What the step "next", a function of the place, makes of "base" in n rounds; after
\* each round the result is in the set that A has for it.
IsRounds(f, n, A, base, next) ==
  /\ f = [i \in 0..n |-> f[i]] /\ f[0] = base
  /\ \A i \in 0..n : f[i] \in A[i]
  /\ \A i \in 1..n : f[i] = next[i][f[i - 1]]

LEMMA RoundsExist ==
  ASSUME NEW n \in Nat, NEW A, NEW base \in A[0], NEW next,
         \A i \in 1..n : next[i] \in [A[i - 1] -> A[i]]
  PROVE  \E f : IsRounds(f, n, A, base, next)
<1> DEFINE Rounds(f, k) ==
             /\ f = [i \in 0..n |-> f[i]] /\ f[0] = base
             /\ \A i \in 0..k : f[i] \in A[i]
             /\ \A i \in 1..k : f[i] = next[i][f[i - 1]]
           S == {k \in 0..n : \E f : Rounds(f, k)}
<1>1. 0 \in S
  <2>1. Rounds([i \in 0..n |-> base], 0)
    OBVIOUS
  <2> HIDE DEF Rounds
  <2> QED BY <2>1
<1>2. ASSUME NEW k \in 1..n, k - 1 \in S PROVE k \in S
  <2>1. PICK f : Rounds(f, k - 1)
    BY <1>2
  <2> DEFINE g == [i \in 0..n |-> IF i = k THEN next[k][f[k - 1]] ELSE f[i]]
  <2>2. next[k][f[k - 1]] \in A[k]
    <3>1. next[k] \in [A[k - 1] -> A[k]] /\ f[k - 1] \in A[k - 1]
      BY <2>1
    <3> QED BY <3>1
  <2>3. g = [i \in 0..n |-> g[i]] /\ g[0] = base
    BY <2>1
  <2>4. ASSUME NEW i \in 0..k PROVE g[i] \in A[i]
    <3>1. CASE i = k
      BY <2>2, <3>1
    <3>2. CASE i # k
      <4>1. i \in 0..(k - 1) /\ g[i] = f[i]
        BY <3>2
      <4> QED BY <4>1, <2>1
    <3> QED BY <3>1, <3>2
  <2>5. ASSUME NEW i \in 1..k PROVE g[i] = next[i][g[i - 1]]
    <3>1. g[i - 1] = f[i - 1]
      OBVIOUS
    <3>2. CASE i = k
      BY <3>1, <3>2
    <3>3. CASE i # k
      <4>1. i \in 1..(k - 1)
        BY <3>3
      <4>2. g[i] = f[i]
        BY <3>3
      <4> QED
        BY <3>1, <4>1, <4>2, <2>1
    <3> QED
      BY <3>2, <3>3
  <2>6. Rounds(g, k)
    BY <2>3, <2>4, <2>5
  <2> HIDE DEF Rounds, g
  <2> QED
    BY <2>6
<1>3. n \in S
  <2>1. n \in 0..n
    OBVIOUS
  <2> HIDE DEF S
  <2> QED BY <2>1, <1>1, <1>2, UpTo
<1>4. PICK f : Rounds(f, n)
  BY <1>3
<1>5. IsRounds(f, n, A, base, next)
  BY <1>4 DEF IsRounds
<1> QED
  BY <1>5

\* A function that starts and goes on like rounds do is one of them.
LEMMA RoundsType ==
  ASSUME NEW n \in Nat, NEW A, NEW base \in A[0], NEW next,
         \A i \in 1..n : next[i] \in [A[i - 1] -> A[i]],
         NEW f, f = [i \in 0..n |-> f[i]], f[0] = base,
         \A i \in 1..n : f[i - 1] \in A[i - 1] => f[i] = next[i][f[i - 1]]
  PROVE  IsRounds(f, n, A, base, next)
<1> DEFINE S == {i \in 0..n : f[i] \in A[i]}
<1>1. 0 \in S
  OBVIOUS
<1>2. ASSUME NEW i \in 1..n, i - 1 \in S PROVE i \in S
  <2>1. f[i] = next[i][f[i - 1]] /\ f[i - 1] \in A[i - 1]
    BY <1>2
  <2>2. next[i] \in [A[i - 1] -> A[i]]
    OBVIOUS
  <2> QED
    BY <2>1, <2>2
<1>3. 0..n \subseteq S
  <2> HIDE DEF S
  <2> QED BY <1>1, <1>2, UpTo
<1>4. \A i \in 0..n : f[i] \in A[i]
  BY <1>3
<1>5. ASSUME NEW i \in 1..n PROVE f[i] = next[i][f[i - 1]]
  <2>1. f[i - 1] \in A[i - 1]
    BY <1>4
  <2> QED
    BY <2>1
<1> QED
  BY <1>4, <1>5 DEF IsRounds

\* The same with one set for all results.
IsLoop(f, n, A, base, next) ==
  /\ f \in [0..n -> A] /\ f[0] = base
  /\ \A i \in 1..n : f[i] = next[i][f[i - 1]]

LEMMA LoopExists ==
  ASSUME NEW n \in Nat, NEW A, NEW base \in A, NEW next \in [1..n -> [A -> A]]
  PROVE  \E f : IsLoop(f, n, A, base, next)
<1> DEFINE As == [i \in 0..n |-> A]
<1>1. \A i \in 1..n : next[i] \in [As[i - 1] -> As[i]]
  OBVIOUS
<1>2. base \in As[0]
  OBVIOUS
<1>3. \A i \in 0..n : As[i] = A
  OBVIOUS
<1> HIDE DEF As
<1>4. PICK f : IsRounds(f, n, As, base, next)
  BY <1>1, <1>2, RoundsExist
<1>5. f \in [0..n -> A]
  BY <1>3, <1>4 DEF IsRounds
<1>6. IsLoop(f, n, A, base, next)
  BY <1>4, <1>5 DEF IsRounds, IsLoop
<1> QED
  BY <1>6

\* A function that starts and goes on like a loop is one.
LEMMA LoopType ==
  ASSUME NEW n \in Nat, NEW A, NEW base \in A, NEW next \in [1..n -> [A -> A]],
         NEW f, f = [i \in 0..n |-> f[i]], f[0] = base,
         \A i \in 1..n : f[i - 1] \in A => f[i] = next[i][f[i - 1]]
  PROVE  IsLoop(f, n, A, base, next)
<1> DEFINE S == {i \in 0..n : f[i] \in A}
<1>1. 0 \in S
  OBVIOUS
<1>2. ASSUME NEW i \in 1..n, i - 1 \in S PROVE i \in S
  <2>1. f[i] = next[i][f[i - 1]] /\ f[i - 1] \in A
    BY <1>2
  <2> QED
    BY <2>1
<1>3. 0..n \subseteq S
  <2> HIDE DEF S
  <2> QED BY <1>1, <1>2, UpTo
<1>4. \A i \in 0..n : f[i] \in A
  BY <1>3
<1>5. f \in [0..n -> A]
  BY <1>4
<1>6. ASSUME NEW i \in 1..n PROVE f[i] = next[i][f[i - 1]]
  <2>1. f[i - 1] \in A
    BY <1>4
  <2> QED
    BY <2>1
<1> QED
  BY <1>5, <1>6 DEF IsLoop
=============================================================================
