---------------------------- MODULE FoldLemmas ------------------------------
(* Sums over finite sets and the extremes of sets of numbers. Induction is   *)
(* stated with a set of numbers, or of subsets, in place of a predicate:     *)
(* such a lemma is first-order and can be used by name.                      *)
EXTENDS FiniteSetsExt, TLAPS, FunctionTheorems, FiniteSetTheorems, WellFoundedInduction

-----------------------------------------------------------------------------
(* Induction over numbers *)

LEMMA LeastNat ==
  ASSUME NEW T, T \subseteq Nat, T # {}
  PROVE  \E m \in T : \A n \in T : m <= n
<1>1. PICK R : /\ IsWellFoundedOn(R, Nat)
               /\ \A m, n \in Nat : n < m => << n, m >> \in R
  <2>1. \A m, n \in Nat : n < m => << n, m >> \in OpToRel(<, Nat) BY DEF OpToRel
  <2> QED BY <2>1, NatLessThanWellFounded
<1>2. PICK x \in T : \A y \in T : ~ (<< y, x >> \in R) BY <1>1, WFMin
<1>3. ASSUME NEW y \in T PROVE x <= y
  <2>1. x \in Nat /\ y \in Nat OBVIOUS
  <2>2. ~ (y < x) BY <1>1, <1>2, <2>1
  <2> QED BY <2>1, <2>2
<1> QED BY <1>3

LEMMA EveryNat ==
  ASSUME NEW P \in SUBSET Nat, 0 \in P, \A n \in P : n + 1 \in P
  PROVE  P = Nat
<1> SUFFICES ASSUME Nat \ P # {} PROVE FALSE OBVIOUS
<1>1. PICK m \in Nat \ P : \A n \in Nat \ P : m <= n BY LeastNat
<1>2. m # 0 /\ m - 1 \in Nat /\ m - 1 + 1 = m BY <1>1
<1>3. m - 1 \in P BY <1>1, <1>2
<1> QED BY <1>1, <1>2, <1>3

LEMMA UpTo ==
  ASSUME NEW n \in Nat, NEW P, 0 \in P, \A k \in 0 .. (n - 1) : k \in P => k + 1 \in P
  PROVE  0 .. n \subseteq P
<1> DEFINE Q == {k \in Nat : k <= n => k \in P}
<1>1. 0 \in Q OBVIOUS
<1>2. \A k \in Q : k + 1 \in Q OBVIOUS
<1>3. Q = Nat
  <2> HIDE DEF Q
  <2>1. Q \in SUBSET Nat BY DEF Q
  <2> QED BY <1>1, <1>2, <2>1, EveryNat
<1> QED BY <1>3

LEMMA MaxIn ==
  ASSUME NEW n \in Nat, NEW s \in SUBSET (1 .. n), s # {}
  PROVE  Max(s) \in s /\ \A j \in s : j <= Max(s)
<1> DEFINE T == {m \in Nat : \E j \in s : m = n - j}
<1>1. T \subseteq Nat /\ T # {}
  <2>1. PICK j \in s : TRUE OBVIOUS
  <2>2. n - j \in T OBVIOUS
  <2> QED BY <2>2
<1> HIDE DEF T
<1>2. PICK m \in T : \A k \in T : m <= k BY <1>1, LeastNat
<1>3. PICK i \in s : m = n - i BY DEF T
<1>4. ASSUME NEW j \in s PROVE i >= j
  <2>1. n - j \in T BY DEF T
  <2>2. m <= n - j BY <1>2, <2>1
  <2> QED BY <1>3, <2>2
<1>5. \E x \in s : \A y \in s : x >= y BY <1>4
<1>6. Max(s) \in s /\ \A y \in s : Max(s) >= y BY <1>5 DEF Max
<1>7. \A j \in s : j \in Nat OBVIOUS
<1> QED BY <1>6, <1>7

LEMMA MaxUpTo == ASSUME NEW k \in Nat PROVE Max(1 .. (k + 1)) = k + 1
<1>1. PICK s \in SUBSET (1 .. (k + 1)) : s = 1 .. (k + 1) OBVIOUS
<1>2. k + 1 \in s BY <1>1
<1>3. Max(s) \in s /\ \A j \in s : j <= Max(s) BY <1>2, MaxIn
<1> QED BY <1>1, <1>2, <1>3

LEMMA MinOfTwo == ASSUME NEW a \in Nat, NEW b \in Nat
                  PROVE  Min({a, b}) = IF a <= b THEN a ELSE b
<1>1. \E x \in {a, b} : \A y \in {a, b} : x =< y
  <2>1. a <= b \/ b <= a OBVIOUS
  <2> QED BY <2>1
<1>2. Min({a, b}) \in {a, b} /\ \A y \in {a, b} : Min({a, b}) =< y BY <1>1 DEF Min
<1> QED BY <1>2

-----------------------------------------------------------------------------
(* Sums over a finite set *)

(* The element a sum takes next.                                             *)
Some(s) == CHOOSE u \in s : TRUE

LEMMA SmallerSet ==
  ASSUME NEW S, IsFiniteSet(S), NEW s \in SUBSET S, s # {}
  PROVE  /\ Some(s) \in s /\ s \ {Some(s)} \in SUBSET S
         /\ Cardinality(s) \in Nat /\ Cardinality(s \ {Some(s)}) = Cardinality(s) - 1
<1>1. IsFiniteSet(s) BY FS_Subset
<1>2. Some(s) \in s BY DEF Some
<1> QED BY <1>1, <1>2, FS_CardinalityType, FS_RemoveElement

LEMMA EverySubset ==
  ASSUME NEW S, IsFiniteSet(S), NEW P, {} \in P,
         \A s \in SUBSET S : s # {} /\ s \ {Some(s)} \in P => s \in P
  PROVE  SUBSET S \subseteq P
<1> DEFINE Q == {n \in Nat : \A s \in SUBSET S : Cardinality(s) = n => s \in P}
<1>1. 0 \in Q
  BY FS_Subset, FS_EmptySet
<1>2. ASSUME NEW n \in Q PROVE n + 1 \in Q
  <2> SUFFICES ASSUME NEW s \in SUBSET S, Cardinality(s) = n + 1 PROVE s \in P OBVIOUS
  <2>1. s # {} BY FS_EmptySet
  <2>2. Cardinality(s \ {Some(s)}) = n BY <2>1, SmallerSet
  <2> QED BY <2>1, <2>2, SmallerSet
<1>3. Q = Nat
  <2> HIDE DEF Q
  <2>1. Q \in SUBSET Nat BY DEF Q
  <2> QED BY <1>1, <1>2, <2>1, EveryNat
<1>4. ASSUME NEW s \in SUBSET S PROVE s \in P
  <2>1. Cardinality(s) \in Nat BY FS_Subset, FS_CardinalityType
  <2> QED BY <1>3, <2>1
<1> QED BY <1>4

(* The equation of the recursive function behind a sum: it has a solution.   *)
SumStep(v, g, s) == IF s = {} THEN 0 ELSE v[Some(s)] + g[s \ {Some(s)}]
Sums(v, S, g) == g = [s \in SUBSET S |-> SumStep(v, g, s)]

LEMMA SumsExist ==
  ASSUME NEW S, IsFiniteSet(S), NEW v
  PROVE  \E g : Sums(v, S, g)
<1> DEFINE Sub(n) == {s \in SUBSET S : Cardinality(s) <= n}
           Upto(g, n) == \A s \in Sub(n) : g[s] = SumStep(v, g, s)
           P == {n \in Nat : \E g : Upto(g, n)}
<1>1. 0 \in P
  <2> DEFINE g == [s \in SUBSET S |-> 0]
  <2>1. ASSUME NEW s \in Sub(0) PROVE s = {}
    BY FS_Subset, FS_CardinalityType, FS_EmptySet
  <2>2. Upto(g, 0) BY <2>1 DEF SumStep
  <2> QED BY <2>2
<1>2. ASSUME NEW n \in P PROVE n + 1 \in P
  <2>1. PICK g : Upto(g, n) OBVIOUS
  <2> DEFINE h == [s \in SUBSET S |-> SumStep(v, g, s)]
  <2>2. \A s \in Sub(n) : h[s] = g[s] BY <2>1
  <2>3. ASSUME NEW s \in Sub(n + 1), s # {} PROVE s \ {Some(s)} \in Sub(n)
    BY <2>3, SmallerSet
  <2>4. ASSUME NEW s \in Sub(n + 1) PROVE h[s] = SumStep(v, h, s)
    BY <2>2, <2>3 DEF SumStep
  <2>5. Upto(h, n + 1) BY <2>4
  <2> HIDE DEF h
  <2>6. \E f : Upto(f, n + 1) BY <2>5
  <2>7. n + 1 \in Nat OBVIOUS
  <2> QED BY <2>6, <2>7
<1>3. P = Nat
  <2> HIDE DEF P
  <2>1. P \in SUBSET Nat BY DEF P
  <2> QED BY <1>1, <1>2, <2>1, EveryNat
<1>4. PICK n \in Nat : n = Cardinality(S) BY FS_CardinalityType
<1>5. PICK g : Upto(g, n) BY <1>3
<1>6. \A s \in SUBSET S : s \in Sub(n) BY <1>4, FS_Subset
<1> DEFINE h == [s \in SUBSET S |-> g[s]]
<1>7. \A s \in SUBSET S : s # {} => s \ {Some(s)} \in SUBSET S OBVIOUS
<1>8. \A s \in SUBSET S : h[s] = SumStep(v, h, s) BY <1>5, <1>6, <1>7 DEF SumStep
<1>9. Sums(v, S, h) BY <1>8 DEF Sums
<1> QED BY <1>9

LEMMA SumSolves ==
  ASSUME NEW S, IsFiniteSet(S), NEW v
  PROVE  \E g : Sums(v, S, g) /\ SumFunctionOnSet(v, S) = g[S]
<1>1. SumFunctionOnSet(v, S) = (CHOOSE g : g = [s \in SUBSET S |-> SumStep(v, g, s)])[S]
  BY DEF SumFunctionOnSet, FoldFunctionOnSet, MapThenFoldSet, SumStep, Some
<1>2. Sums(v, S, CHOOSE g : Sums(v, S, g)) BY SumsExist
<1> QED BY <1>1, <1>2 DEF Sums

LEMMA SumsAt ==
  ASSUME NEW S, NEW v, NEW g, Sums(v, S, g), NEW s \in SUBSET S
  PROVE  g[s] = IF s = {} THEN 0 ELSE v[Some(s)] + g[s \ {Some(s)}]
BY DEF Sums, SumStep

LEMMA SumZero ==
  ASSUME NEW S, IsFiniteSet(S)
  PROVE  SumFunctionOnSet([u \in S |-> 0], S) = 0
<1> DEFINE v == [u \in S |-> 0]
<1>1. PICK g : Sums(v, S, g) /\ SumFunctionOnSet(v, S) = g[S] BY SumSolves
<1> DEFINE P == {s \in SUBSET S : g[s] = 0}
<1>2. {} \in P BY <1>1, SumsAt
<1>3. ASSUME NEW s \in SUBSET S, s # {}, s \ {Some(s)} \in P PROVE s \in P
  <2>1. g[s] = v[Some(s)] + g[s \ {Some(s)}] BY <1>1, <1>3, SumsAt
  <2>2. v[Some(s)] = 0 BY <1>3, SmallerSet
  <2> QED BY <1>3, <2>1, <2>2
<1>4. SUBSET S \subseteq P
  <2> HIDE DEF P
  <2> QED BY <1>2, <1>3, EverySubset
<1> QED BY <1>1, <1>4

(* A change of one summand changes the sum by as much.                       *)
LEMMA SumUpdated ==
  ASSUME NEW S, IsFiniteSet(S), NEW v \in [S -> Int], NEW u \in S, NEW x \in Int
  PROVE  /\ SumFunctionOnSet(v, S) \in Int
         /\ SumFunctionOnSet([v EXCEPT ![u] = v[u] + x], S) = SumFunctionOnSet(v, S) + x
<1> DEFINE w == [v EXCEPT ![u] = v[u] + x]
<1>1. PICK g : Sums(v, S, g) /\ SumFunctionOnSet(v, S) = g[S] BY SumSolves
<1>2. PICK h : Sums(w, S, h) /\ SumFunctionOnSet(w, S) = h[S] BY SumSolves
<1>3. \A y \in S : v[y] \in Int /\ w[y] = IF y = u THEN v[y] + x ELSE v[y] OBVIOUS
<1> HIDE DEF w
<1> DEFINE P == {s \in SUBSET S : /\ g[s] \in Int
                                  /\ h[s] = g[s] + (IF u \in s THEN x ELSE 0)}
<1>4. {} \in P
  <2>1. {} \in SUBSET S OBVIOUS
  <2>2. g[{}] = 0 BY <1>1, <2>1, SumsAt
  <2>3. h[{}] = 0 BY <1>2, <2>1, SumsAt
  <2> QED BY <2>2, <2>3
<1>5. ASSUME NEW s \in SUBSET S, s # {}, s \ {Some(s)} \in P PROVE s \in P
  <2>0. Some(s) \in s /\ s \ {Some(s)} \in SUBSET S BY <1>5, SmallerSet
  <2>1. PICK y \in S, r \in SUBSET S : y = Some(s) /\ r = s \ {y} /\ y \in s BY <2>0
  <2>2. g[s] = v[y] + g[r] /\ h[s] = w[y] + h[r]
    <3>1. g[s] = v[Some(s)] + g[s \ {Some(s)}] BY <1>1, <1>5, SumsAt
    <3>2. h[s] = w[Some(s)] + h[s \ {Some(s)}] BY <1>2, <1>5, SumsAt
    <3> QED BY <2>1, <3>1, <3>2
  <2>3. g[r] \in Int /\ h[r] = g[r] + (IF u \in r THEN x ELSE 0) BY <1>5, <2>1
  <2>4. v[y] \in Int /\ w[y] = IF y = u THEN v[y] + x ELSE v[y] BY <1>3
  <2>5. u \in s <=> (u = y \/ u \in r) BY <2>1
  <2>6. u = y => u \notin r BY <2>1
  <2> QED BY <2>2, <2>3, <2>4, <2>5, <2>6
<1>6. SUBSET S \subseteq P
  <2> HIDE DEF P
  <2> QED BY <1>4, <1>5, EverySubset
<1>7. S \in P BY <1>6
<1> QED BY <1>1, <1>2, <1>7 DEF w

(* Whichever element is taken first, the sum is the same.                    *)
LEMMA SumsAnyOrder ==
  ASSUME NEW S, IsFiniteSet(S), NEW v, \A u \in S : v[u] \in Int, NEW g, Sums(v, S, g),
         NEW s \in SUBSET S
  PROVE  g[s] \in Int /\ \A y \in s : g[s] = v[y] + g[s \ {y}]
<1> DEFINE Any(r) == g[r] \in Int /\ \A y \in r : g[r] = v[y] + g[r \ {y}]
           Q == {n \in Nat : \A r \in SUBSET S : Cardinality(r) <= n => Any(r)}
<1>1. 0 \in Q
  <2> SUFFICES ASSUME NEW r \in SUBSET S, Cardinality(r) <= 0 PROVE Any(r) OBVIOUS
  <2>1. r = {} BY FS_Subset, FS_CardinalityType, FS_EmptySet
  <2>2. g[r] = 0 BY <2>1, SumsAt
  <2> QED BY <2>1, <2>2
<1>2. ASSUME NEW n \in Q PROVE n + 1 \in Q
  <2> SUFFICES ASSUME NEW r \in SUBSET S, Cardinality(r) <= n + 1 PROVE Any(r) OBVIOUS
  <2>1. CASE r = {}
    <3>1. g[r] = 0 BY <2>1, SumsAt
    <3> QED BY <2>1, <3>1
  <2>2. CASE r # {}
    <3>1. Some(r) \in r BY <2>2, SmallerSet
    <3>2. PICK c \in S : c = Some(r) /\ c \in r BY <3>1
    <3>3. ASSUME NEW y \in r PROVE Any(r \ {y})
      <4>1. IsFiniteSet(r) BY FS_Subset
      <4>2. Cardinality(r \ {y}) = Cardinality(r) - 1 /\ Cardinality(r) \in Nat
        BY <4>1, FS_RemoveElement, FS_CardinalityType
      <4>3. r \ {y} \in SUBSET S /\ Cardinality(r \ {y}) <= n BY <4>2
      <4> QED BY <1>2, <4>3
    <3>4. g[r] = v[c] + g[r \ {c}] BY <2>2, <3>2, SumsAt
    <3>5. g[r] \in Int
      <4>1. g[r \ {c}] \in Int /\ v[c] \in Int BY <3>2, <3>3
      <4> QED BY <3>4, <4>1
    <3>6. ASSUME NEW y \in r, y # c PROVE g[r] = v[y] + g[r \ {y}]
      <4>1. PICK t : t = (r \ {c}) \ {y} OBVIOUS
      <4>2. t = (r \ {y}) \ {c} BY <4>1
      <4>3. g[r \ {c}] = v[y] + g[t] BY <3>2, <3>3, <3>6, <4>1
      <4>4. g[r \ {y}] = v[c] + g[t] BY <3>2, <3>3, <3>6, <4>2
      <4>5. Any(t)
        <5>1. IsFiniteSet(r) /\ IsFiniteSet(r \ {y}) BY FS_Subset
        <5>2. /\ Cardinality(r \ {y}) = Cardinality(r) - 1 /\ Cardinality(r) \in Nat
              /\ Cardinality(t) = Cardinality(r \ {y}) - 1
          BY <3>2, <3>6, <4>2, <5>1, FS_RemoveElement, FS_CardinalityType
        <5>3. t \in SUBSET S /\ Cardinality(t) <= n BY <4>1, <5>2
        <5> QED BY <1>2, <5>3
      <4>6. v[y] \in Int /\ v[c] \in Int /\ g[t] \in Int BY <4>5
      <4> QED BY <3>4, <4>3, <4>4, <4>6
    <3> QED BY <3>2, <3>4, <3>5, <3>6
  <2> QED BY <2>1, <2>2
<1>3. Q = Nat
  <2> HIDE DEF Q
  <2>1. Q \in SUBSET Nat BY DEF Q
  <2> QED BY <1>1, <1>2, <2>1, EveryNat
<1>4. Cardinality(s) \in Nat BY FS_Subset, FS_CardinalityType
<1> QED BY <1>3, <1>4

(* One more element adds its value.                                          *)
LEMMA SumAdded ==
  ASSUME NEW S, IsFiniteSet(S), NEW x, x \notin S, NEW v, \A u \in S \cup {x} : v[u] \in Int
  PROVE  /\ SumFunctionOnSet(v, S) \in Int
         /\ SumFunctionOnSet(v, S \cup {x}) = SumFunctionOnSet(v, S) + v[x]
<1>1. PICK T : T = S \cup {x} OBVIOUS
<1>2. IsFiniteSet(T) BY <1>1, FS_AddElement
<1>3. PICK g : Sums(v, T, g) /\ SumFunctionOnSet(v, T) = g[T] BY <1>2, SumSolves
<1>4. PICK h : Sums(v, S, h) /\ SumFunctionOnSet(v, S) = h[S] BY SumSolves
<1> DEFINE P == {s \in SUBSET S : g[s] = h[s]}
<1>5. {} \in P
  <2>1. {} \in SUBSET S /\ {} \in SUBSET T OBVIOUS
  <2>2. g[{}] = 0 BY <1>3, <2>1, SumsAt
  <2>3. h[{}] = 0 BY <1>4, <2>1, SumsAt
  <2> QED BY <2>1, <2>2, <2>3
<1>6. ASSUME NEW s \in SUBSET S, s # {}, s \ {Some(s)} \in P PROVE s \in P
  <2>1. s \in SUBSET T BY <1>1
  <2>2. g[s] = v[Some(s)] + g[s \ {Some(s)}]
    <3>1. g[s] = IF s = {} THEN 0 ELSE v[Some(s)] + g[s \ {Some(s)}] BY ONLY <1>3, <2>1, SumsAt
    <3> QED BY <1>6, <3>1
  <2>3. h[s] = v[Some(s)] + h[s \ {Some(s)}]
    <3>1. h[s] = IF s = {} THEN 0 ELSE v[Some(s)] + h[s \ {Some(s)}] BY <1>4, SumsAt
    <3> QED BY <1>6, <3>1
  <2> QED BY <1>6, <2>2, <2>3
<1>7. SUBSET S \subseteq P
  <2> HIDE DEF P
  <2> QED BY <1>5, <1>6, EverySubset
<1>8. g[S] = h[S] BY <1>7
<1>9. S \in SUBSET T /\ T \in SUBSET T /\ x \in T /\ T \ {x} = S BY <1>1
<1>10. \A u \in T : v[u] \in Int BY <1>1
<1>11. g[T] = v[x] + g[S] BY <1>2, <1>3, <1>9, <1>10, SumsAnyOrder
<1>12. g[S] \in Int BY <1>2, <1>3, <1>9, <1>10, SumsAnyOrder
<1>13. v[x] \in Int BY <1>1, <1>10
<1> QED BY <1>1, <1>3, <1>4, <1>8, <1>11, <1>12, <1>13

(* The sum of a sequence of numbers grows by one element at a time.          *)
SumsUpTo(x, n, X) ==
  /\ X[0] = 0 /\ \A k \in 0 .. (n - 1) : X[k + 1] = X[k] + x[k + 1]
  /\ \A k \in 0 .. n : X[k] \in Int

LEMMA SumByPrefixes ==
  ASSUME NEW n \in Nat, NEW x \in [1 .. n -> Int]
  PROVE  \E X : SumsUpTo(x, n, X) /\ SumFunctionOnSet(x, 1 .. n) = X[n]
<1> DEFINE Cut(k) == [i \in 1 .. n |-> IF i <= k THEN x[i] ELSE 0]
           X == [k \in 0 .. n |-> SumFunctionOnSet(Cut(k), 1 .. n)]
<1>1. PICK S : S = 1 .. n OBVIOUS
<1>2. IsFiniteSet(S) BY <1>1, FS_Interval
<1>3. \A k \in 0 .. n : X[k] = SumFunctionOnSet(Cut(k), S) BY <1>1
<1>4. X[0] = 0
  <2>1. Cut(0) = [u \in S |-> 0] BY <1>1
  <2> HIDE DEF Cut, X
  <2> QED BY <1>2, <1>3, <2>1, SumZero
<1>5. ASSUME NEW k \in 0 .. (n - 1)
      PROVE  X[k + 1] = X[k] + x[k + 1] /\ X[k] \in Int /\ X[k + 1] \in Int
  <2>0. Cut(k) \in [S -> Int]
    <3>1. \A i \in 1 .. n : x[i] \in Int OBVIOUS
    <3> QED BY <1>1, <3>1
  <2>1. PICK v \in [S -> Int] : v = Cut(k) BY <2>0
  <2>2. PICK u \in S : u = k + 1 BY <1>1
  <2>3. v[u] = 0 /\ x[u] \in Int BY <1>1, <2>1, <2>2
  <2>4. Cut(k + 1) = [v EXCEPT ![u] = v[u] + x[u]]
    <3>1. \A i \in S : Cut(k + 1)[i] = IF i = u THEN x[u] ELSE v[i] BY <1>1, <2>1, <2>2
    <3>2. v[u] + x[u] = x[u] BY <2>3
    <3>3. [v EXCEPT ![u] = v[u] + x[u]] = [i \in S |-> IF i = u THEN x[u] ELSE v[i]]
      BY <3>2
    <3>4. Cut(k + 1) = [i \in S |-> IF i = u THEN x[u] ELSE v[i]] BY <1>1, <3>1
    <3> QED BY <3>3, <3>4
  <2>5. k \in 0 .. n /\ k + 1 \in 0 .. n OBVIOUS
  <2> HIDE DEF Cut, X
  <2>6. PICK w : w = [v EXCEPT ![u] = v[u] + x[u]] OBVIOUS
  <2>7. /\ SumFunctionOnSet(v, S) \in Int
        /\ SumFunctionOnSet(w, S) = SumFunctionOnSet(v, S) + x[u]
    BY <1>2, <2>3, <2>6, SumUpdated
  <2>8. X[k] = SumFunctionOnSet(v, S) /\ X[k + 1] = SumFunctionOnSet(w, S)
    BY <1>3, <2>1, <2>4, <2>5, <2>6
  <2> QED BY <2>2, <2>3, <2>7, <2>8
<1>6. X[n] = SumFunctionOnSet(x, 1 .. n)
  <2>1. Cut(n) = x OBVIOUS
  <2> HIDE DEF Cut, X
  <2> QED BY <1>1, <1>3, <2>1
<1>7. ASSUME NEW k \in 0 .. n PROVE X[k] \in Int
  <2>1. CASE k = n /\ n # 0
    <3>1. n - 1 \in 0 .. (n - 1) /\ n - 1 + 1 = n BY <2>1
    <3> HIDE DEF X
    <3> QED BY <1>5, <2>1, <3>1
  <2>2. CASE k = 0 BY <1>4, <2>2
  <2>3. CASE k # n
    <3>1. k \in 0 .. (n - 1) BY <2>3
    <3> HIDE DEF X
    <3> QED BY <1>5, <3>1
  <2> QED BY <2>1, <2>2, <2>3
<1> HIDE DEF X
<1>8. SumsUpTo(x, n, X) BY <1>4, <1>5, <1>7 DEF SumsUpTo
<1> QED BY <1>6, <1>8

=============================================================================
