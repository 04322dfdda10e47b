---------------------------- MODULE RecursionLemmas ----------------------------
(***************************************************************************)
(* Induction on the natural numbers and definition by recursion, stated of  *)
(* sets and functions rather than of operators, so that they can be cited:  *)
(* what the proofs about the searches, the rows and the numerals rest on.   *)
(***************************************************************************)
EXTENDS Integers, Sequences, SequenceTheorems, WellFoundedInduction, TLAPS

(* A set of numbers has a least one.                                        *)
LEMMA LeastNumber ==
  ASSUME NEW T, T \subseteq Nat, T # {}
  PROVE  \E n \in T : \A m \in T : n <= m
<1>1. PICK n \in T : \A m \in T : ~(<<m, n>> \in OpToRel(<, Nat))
  BY NatLessThanWellFounded, WFMin
<1>2. \A m \in T : ~(m < n) BY <1>1 DEF OpToRel
<1> QED BY <1>2

(* Induction: a set that holds 0, and the successor of each number it holds.*)
LEMMA Induction ==
  ASSUME NEW T, 0 \in T, \A n \in Nat : n \in T => n + 1 \in T
  PROVE  Nat \subseteq T
<1> SUFFICES ASSUME NEW m \in Nat, m \notin T PROVE FALSE OBVIOUS
<1> DEFINE U == Nat \ T
<1>1. PICK n \in U : \A k \in U : n <= k
  <2>1. U \subseteq Nat /\ U # {} OBVIOUS
  <2> HIDE DEF U
  <2> QED BY <2>1, LeastNumber
<1>2. n # 0 /\ n - 1 \in Nat OBVIOUS
<1>3. n - 1 \in T BY <1>1, <1>2
<1>4. (n - 1) + 1 = n BY <1>1
<1> QED BY <1>1, <1>2, <1>3, <1>4

(* Induction up to a bound.                                                 *)
LEMMA BoundedInduction ==
  ASSUME NEW N \in Nat, NEW T, 0 \in T,
         \A n \in 0 .. N : n \in T /\ n < N => n + 1 \in T
  PROVE  0 .. N \subseteq T
<1> DEFINE U == {n \in Nat : n <= N => n \in T}
<1>1. 0 \in U OBVIOUS
<1>2. \A n \in Nat : n \in U => n + 1 \in U OBVIOUS
<1>3. Nat \subseteq U
  <2> HIDE DEF U
  <2> QED BY <1>1, <1>2, Induction
<1> QED BY <1>3

(* Recursion: whatever the first value and the step, there is a function.   *)
LEMMA RecursionExists ==
  ASSUME NEW D, NEW first \in D, NEW step \in [Nat -> [D -> D]], NEW N \in Nat
  PROVE  \E f \in [0 .. N -> D] : f[0] = first /\ \A k \in 1 .. N : f[k] = step[k][f[k - 1]]
<1> DEFINE Good(n) == \E f \in [0 .. n -> D] :
                        f[0] = first /\ \A k \in 1 .. n : f[k] = step[k][f[k - 1]]
           T == {n \in Nat : Good(n)}
<1>1. 0 \in T
  <2> DEFINE f == [k \in 0 .. 0 |-> first]
  <2>1. f \in [0 .. 0 -> D] /\ f[0] = first /\ \A k \in 1 .. 0 : f[k] = step[k][f[k - 1]]
    OBVIOUS
  <2> QED BY <2>1
<1>2. ASSUME NEW n \in Nat, n \in T PROVE n + 1 \in T
  <2>1. PICK f \in [0 .. n -> D] :
          f[0] = first /\ \A k \in 1 .. n : f[k] = step[k][f[k - 1]]
    BY <1>2
  <2> DEFINE g == [k \in 0 .. n + 1 |-> IF k <= n THEN f[k] ELSE step[n + 1][f[n]]]
  <2>2. step[n + 1][f[n]] \in D
    <3>1. f[n] \in D /\ n + 1 \in Nat BY <2>1
    <3> QED BY <3>1
  <2>3. g \in [0 .. n + 1 -> D] BY <2>1, <2>2
  <2>4. g[0] = first BY <2>1
  <2>5. ASSUME NEW k \in 1 .. n + 1 PROVE g[k] = step[k][g[k - 1]]
    <3>1. k - 1 \in 0 .. n /\ g[k - 1] = f[k - 1] BY <2>1
    <3>2. CASE k <= n BY <2>1, <3>1, <3>2
    <3>3. CASE k = n + 1
      <4>1. g[k] = step[n + 1][f[n]] /\ k - 1 = n BY <3>3
      <4> QED BY <3>1, <3>3, <4>1
    <3> QED BY <3>2, <3>3
  <2> HIDE DEF g
  <2>6. Good(n + 1) BY <2>3, <2>4, <2>5
  <2> QED BY <2>6
<1>3. Nat \subseteq T
  <2> HIDE DEF T
  <2> QED BY <1>1, <1>2, Induction
<1> QED BY <1>3

(* The same, for steps too involved to be matched.                          *)
Iterable(D, first, step) == first \in D /\ step \in [Nat -> [D -> D]]
Iterates(f, first, step, N) == f[0] = first /\ \A k \in 1 .. N : f[k] = step[k][f[k - 1]]

LEMMA Iteration ==
  ASSUME NEW D, NEW first, NEW step, NEW N \in Nat, Iterable(D, first, step)
  PROVE  \E f \in [0 .. N -> D] : Iterates(f, first, step, N)
<1>1. first \in D /\ step \in [Nat -> [D -> D]] BY DEF Iterable
<1> QED BY <1>1, RecursionExists DEF Iterates

(* Recursion on any smaller number: where less[n] says, unless n is a base  *)
(* case.                                                                    *)
Descent(D, base, first, less, step) ==
  /\ base \subseteq Nat /\ first \in [Nat -> D]
  /\ less \in [Nat -> Nat] /\ step \in [Nat -> [D -> D]]
  /\ \A n \in Nat \ base : less[n] < n
Follows(f, base, first, less, step) ==
  \A n \in Nat : f[n] = IF n \in base THEN first[n] ELSE step[n][f[less[n]]]

LEMMA CourseOfValues ==
  ASSUME NEW D, NEW base, NEW first, NEW less, NEW step, Descent(D, base, first, less, step)
  PROVE  \E f \in [Nat -> D] : Follows(f, base, first, less, step)
<1>0. /\ base \subseteq Nat /\ first \in [Nat -> D]
      /\ less \in [Nat -> Nat] /\ step \in [Nat -> [D -> D]]
      /\ \A n \in Nat \ base : less[n] < n
  BY DEF Descent
<1> DEFINE Value(f, n) == IF n \in base THEN first[n] ELSE step[n][f[less[n]]]
           Good(f, N) == /\ f \in [0 .. N -> D]
                         /\ \A n \in 0 .. N : f[n] = Value(f, n)
<1>1. ASSUME NEW f, NEW g, NEW N \in Nat, NEW M \in Nat, Good(f, N), Good(g, M)
      PROVE  \A n \in Nat : n <= N /\ n <= M => f[n] = g[n]
  <2> DEFINE T == {k \in Nat : \A n \in 0 .. k : n <= N /\ n <= M => f[n] = g[n]}
             Agree(n) == n <= N /\ n <= M => f[n] = g[n]
  <2>1. ASSUME NEW n \in Nat, \A m \in Nat : m < n => Agree(m) PROVE Agree(n)
    <3> SUFFICES ASSUME n <= N, n <= M PROVE f[n] = g[n] OBVIOUS
    <3>1. f[n] = Value(f, n) /\ g[n] = Value(g, n) BY <1>1
    <3>2. CASE n \in base BY <3>1, <3>2
    <3>3. CASE n \notin base
      <4>1. less[n] \in Nat /\ less[n] < n BY <1>0, <3>3
      <4>2. f[less[n]] = g[less[n]] BY <2>1, <4>1
      <4> QED BY <3>1, <3>3, <4>2
    <3> QED BY <3>2, <3>3
  <2>2. 0 \in T
    <3>1. Agree(0) BY <2>1
    <3> QED BY <3>1
  <2>3. \A k \in Nat : k \in T => k + 1 \in T
    <3> SUFFICES ASSUME NEW k \in Nat, k \in T PROVE k + 1 \in T OBVIOUS
    <3>1. \A m \in Nat : m < k + 1 => Agree(m) OBVIOUS
    <3>2. Agree(k + 1) BY <2>1, <3>1
    <3> HIDE DEF Agree
    <3>3. \A n \in 0 .. k + 1 : Agree(n) BY <3>1, <3>2
    <3> QED BY <3>3 DEF Agree
  <2>4. Nat \subseteq T
    <3> HIDE DEF T
    <3> QED BY <2>2, <2>3, Induction
  <2> QED BY <2>4
<1> DEFINE T == {N \in Nat : \E f : Good(f, N)}
<1>2. 0 \in T
  <2> DEFINE f == [n \in 0 .. 0 |-> first[0]]
  <2>1. 0 \in base
    <3> SUFFICES ASSUME 0 \notin base PROVE FALSE OBVIOUS
    <3>1. less[0] \in Nat /\ less[0] < 0 BY <1>0
    <3> QED BY <3>1
  <2>2. Good(f, 0) BY <1>0, <2>1
  <2> QED BY <2>2
<1>3. ASSUME NEW N \in Nat, N \in T PROVE N + 1 \in T
  <2>1. PICK f : Good(f, N) BY <1>3
  <2> DEFINE v == Value(f, N + 1)
             g == [n \in 0 .. N + 1 |-> IF n <= N THEN f[n] ELSE v]
  <2>2. v \in D
    <3>1. CASE N + 1 \in base BY <1>0, <3>1
    <3>2. CASE N + 1 \notin base
      <4>1. less[N + 1] \in 0 .. N BY <1>0, <3>2
      <4>2. f[less[N + 1]] \in D BY <2>1, <4>1
      <4> QED BY <1>0, <3>2, <4>2
    <3> QED BY <3>1, <3>2
  <2>3. g \in [0 .. N + 1 -> D]
    <3> HIDE DEF v
    <3> QED BY <2>1, <2>2
  <2>4. ASSUME NEW n \in 0 .. N + 1 PROVE g[n] = Value(g, n)
    <3>1. g[n] = Value(f, n)
      <4>1. CASE n <= N
        <5>1. n \in 0 .. N /\ g[n] = f[n] BY <4>1
        <5> QED BY <2>1, <5>1
      <4>2. CASE n = N + 1
        <5> HIDE DEF Value
        <5> QED BY <4>2
      <4> QED BY <4>1, <4>2
    <3>2. n \notin base => less[n] \in 0 .. N BY <1>0
    <3>3. n \notin base => g[less[n]] = f[less[n]]
      <4> HIDE DEF v
      <4> QED BY <3>2
    <3> HIDE DEF g
    <3> QED BY <3>1, <3>3
  <2> HIDE DEF g
  <2>5. Good(g, N + 1) BY <2>3, <2>4
  <2> HIDE DEF Good
  <2> QED BY <2>5
<1>4. Nat \subseteq T
  <2> HIDE DEF T
  <2> QED BY <1>2, <1>3, Induction
<1>5. \A N \in Nat : \E f : Good(f, N) BY <1>4
<1> DEFINE upto == [N \in Nat |-> CHOOSE f : Good(f, N)]
           F == [n \in Nat |-> upto[n][n]]
<1>6. \A N \in Nat : Good(upto[N], N)
  <2> SUFFICES ASSUME NEW N \in Nat PROVE Good(upto[N], N) OBVIOUS
  <2>1. upto[N] = CHOOSE f : Good(f, N) OBVIOUS
  <2> HIDE DEF Good, upto
  <2> QED BY <1>5, <2>1
<1> HIDE DEF upto
<1>7. F \in [Nat -> D]
  <2>1. \A n \in Nat : upto[n][n] \in D BY <1>6
  <2> QED BY <2>1
<1>8. ASSUME NEW n \in Nat PROVE F[n] = IF n \in base THEN first[n] ELSE step[n][F[less[n]]]
  <2>1. F[n] = Value(upto[n], n) BY <1>6
  <2>2. CASE n \in base BY <2>1, <2>2
  <2>3. CASE n \notin base
    <3>1. less[n] \in Nat /\ less[n] < n BY <1>0, <2>3
    <3>2. F[less[n]] = upto[less[n]][less[n]] BY <3>1
    <3>3. upto[less[n]][less[n]] = upto[n][less[n]]
      <4>1. Good(upto[less[n]], less[n]) /\ Good(upto[n], n) BY <1>6, <3>1
      <4>2. less[n] <= less[n] /\ less[n] <= n BY <3>1
      <4> HIDE DEF Good
      <4> QED BY <1>1, <3>1, <4>1, <4>2
    <3> QED BY <2>1, <2>3, <3>2, <3>3
  <2> QED BY <2>2, <2>3
<1>9. Follows(F, base, first, less, step) BY <1>8 DEF Follows
<1> HIDE DEF F
<1> QED BY <1>7, <1>9

(* Induction over every smaller number.                                     *)
LEMMA StrongInduction ==
  ASSUME NEW T, \A n \in Nat : (\A m \in 0 .. n - 1 : m \in T) => n \in T
  PROVE  Nat \subseteq T
<1> DEFINE U == {k \in Nat : \A m \in 0 .. k : m \in T}
<1>1. 0 \in U
  <2>1. 0 \in T OBVIOUS
  <2> QED BY <2>1
<1>2. ASSUME NEW k \in Nat, k \in U PROVE k + 1 \in U
  <2>1. \A m \in 0 .. (k + 1) - 1 : m \in T BY <1>2
  <2>2. k + 1 \in T BY <2>1
  <2> QED BY <2>1, <2>2
<1>3. Nat \subseteq U
  <2> HIDE DEF U
  <2> QED BY <1>1, <1>2, Induction
<1> QED BY <1>3
=============================================================================
