--------------------------- MODULE AnalysisProofs ---------------------------
(* A book that the reconstruction of a frozen package vouches for is the     *)
(* book of the live reducer, and its sweep the best fill there is, for any   *)
(* prices, sizes, channels and frames.  A capture that verifies quotes the   *)
(* pool, or tells the place in the queue of troves, of the block it names,   *)
(* for any pools, lists of troves and reorganisations.                       *)
EXTENDS Analysis, FoldLemmas

-----------------------------------------------------------------------------
(* Folding a sequence goes from one prefix to the next *)

(* One delta, on the reducer's map or on the recorded levels, or one level   *)
(* of a sweep.                                                               *)
Put(x, l) == [x EXCEPT ![l[1]] = l[2]]
One(side, x, l) == IF side = "live" THEN Put(x, l)
                   ELSE IF side = "sweep" THEN Take(x, l) ELSE ApplyDelta(x, l)

FoldStep(side, base, d, g, s) ==
  IF s = {} THEN base ELSE One(side, g[s \ {Max(s)}], d[Max(s)])
Solution(side, base, n, d, g) ==
  g = [s \in SUBSET (1 .. n) |-> FoldStep(side, base, d, g, s)]

LEMMA FoldExists ==
  ASSUME NEW side, NEW base, NEW n \in Nat, NEW d
  PROVE  \E g : Solution(side, base, n, d, g)
<1> DEFINE Solves(g, k) == \A s \in SUBSET (1 .. k) : g[s] = FoldStep(side, base, d, g, s)
           P == {k \in 0 .. n : \E g : Solves(g, k)}
<1>1. 0 \in P
  <2> DEFINE g == [s \in SUBSET (1 .. n) |-> base]
  <2>1. \A s \in SUBSET (1 .. 0) : s = {} /\ s \in SUBSET (1 .. n) OBVIOUS
  <2>2. Solves(g, 0) BY <2>1 DEF FoldStep
  <2> HIDE DEF g
  <2>3. \E f : Solves(f, 0) BY <2>2
  <2> QED BY <2>3
<1>2. ASSUME NEW k \in 0 .. (n - 1), k \in P PROVE k + 1 \in P
  <2>1. PICK g : Solves(g, k) BY <1>2
  <2> DEFINE h == [s \in SUBSET (1 .. n) |-> FoldStep(side, base, d, g, s)]
  <2>2. \A s \in SUBSET (1 .. k) : s \in SUBSET (1 .. n) /\ h[s] = g[s] BY <2>1
  <2>3. ASSUME NEW s \in SUBSET (1 .. (k + 1)), s # {}
        PROVE  s \ {Max(s)} \in SUBSET (1 .. k)
    <3>1. k + 1 \in Nat OBVIOUS
    <3>2. Max(s) \in s /\ \A j \in s : j <= Max(s) BY <2>3, <3>1, MaxIn
    <3>3. PICK m \in s : m = Max(s) BY <3>2
    <3>4. \A j \in s \ {m} : j \in 1 .. k BY <3>2, <3>3
    <3>5. s \ {m} \in SUBSET (1 .. k) BY <3>4
    <3> QED BY <3>3, <3>5
  <2>4. ASSUME NEW s \in SUBSET (1 .. (k + 1)) PROVE h[s] = FoldStep(side, base, d, h, s)
    <3>1. s \in SUBSET (1 .. n) OBVIOUS
    <3>2. h[s] = FoldStep(side, base, d, g, s) BY <3>1
    <3>3. s # {} => h[s \ {Max(s)}] = g[s \ {Max(s)}] BY <2>2, <2>3
    <3> QED BY <3>2, <3>3 DEF FoldStep
  <2>5. Solves(h, k + 1) BY <2>4
  <2> HIDE DEF h
  <2>6. \E f : Solves(f, k + 1) BY <2>5
  <2> QED BY <2>6
<1>3. 0 .. n \subseteq P
  <2> HIDE DEF P
  <2> QED BY <1>1, <1>2, UpTo
<1>4. PICK g : Solves(g, n) BY <1>3
<1> DEFINE h == [s \in SUBSET (1 .. n) |-> g[s]]
<1>5. ASSUME NEW s \in SUBSET (1 .. n) PROVE h[s] = FoldStep(side, base, d, h, s)
  <2>1. s \ {Max(s)} \in SUBSET (1 .. n) OBVIOUS
  <2>2. h[s \ {Max(s)}] = g[s \ {Max(s)}] BY <2>1
  <2> QED BY <1>4, <2>2 DEF FoldStep
<1>6. Solution(side, base, n, d, h) BY <1>5 DEF Solution
<1> QED BY <1>6

(* h[k] is the result of the first k deltas.                                 *)
Follows(side, base, d, h) ==
  h[0] = base /\ \A k \in 0 .. (Len(d) - 1) : h[k + 1] = One(side, h[k], d[k + 1])

LEMMA FoldFollows ==
  ASSUME NEW side, NEW base, NEW D, NEW d \in Seq(D), NEW g,
         Solution(side, base, Len(d), d, g)
  PROVE  \E h : Follows(side, base, d, h) /\ h[Len(d)] = g[1 .. Len(d)]
<1> DEFINE h == [k \in 0 .. Len(d) |-> g[1 .. k]]
<1>1. Len(d) \in Nat OBVIOUS
<1>2. g[{}] = base BY DEF Solution, FoldStep
<1>3. h[0] = base
  <2>1. 1 .. 0 = {} OBVIOUS
  <2> QED BY <1>1, <1>2, <2>1
<1>4. ASSUME NEW k \in 0 .. (Len(d) - 1) PROVE h[k + 1] = One(side, h[k], d[k + 1])
  <2>1. PICK s \in SUBSET (1 .. Len(d)) : s = 1 .. (k + 1) BY <1>1
  <2>2. s # {} /\ Max(s) = k + 1 /\ s \ {k + 1} = 1 .. k
    <3>1. k \in Nat OBVIOUS
    <3>2. Max(s) = k + 1 BY <2>1, <3>1, MaxUpTo
    <3>3. k + 1 \in s BY <2>1, <3>1
    <3>4. \A j : j \in s \ {k + 1} <=> j \in 1 .. k BY <2>1, <3>1
    <3> QED BY <3>2, <3>3, <3>4
  <2>3. g[s] = One(side, g[1 .. k], d[k + 1]) BY <2>2 DEF Solution, FoldStep
  <2> QED BY <1>1, <2>1, <2>3
<1>5. h[Len(d)] = g[1 .. Len(d)] BY <1>1
<1>6. Follows(side, base, d, h) BY <1>3, <1>4 DEF Follows
<1> QED BY <1>5, <1>6

(* The equations behind the folds of the model                               *)
LiveSol(base, d, g) ==
  g = [s \in SUBSET DOMAIN d |->
         IF s = {} THEN base ELSE Put(g[s \ {Max(s)}], d[Max(s)])]
SideSol(base, d, g) ==
  g = [s \in SUBSET DOMAIN d |->
         IF s = {} THEN base ELSE ApplyDelta(g[s \ {Max(s)}], d[Max(s)])]
SweepSol(base, d, g) ==
  g = [s \in SUBSET DOMAIN d |->
         IF s = {} THEN base ELSE Take(g[s \ {Max(s)}], d[Max(s)])]

LEMMA LiveFold ==
  ASSUME NEW base, NEW D, NEW d \in Seq(D)
  PROVE  \E h : Follows("live", base, d, h) /\ _apply_levels(base, d) = h[Len(d)]
<1>1. PICK n \in Nat : n = Len(d) /\ DOMAIN d = 1 .. n OBVIOUS
<1>2. PICK f : Solution("live", base, n, d, f)
  BY <1>1, FoldExists
<1>3. LiveSol(base, d, f) BY <1>1, <1>2 DEF LiveSol, Solution, FoldStep, One
<1>4. _apply_levels(base, d) = (CHOOSE g : LiveSol(base, d, g))[DOMAIN d]
  BY DEF _apply_levels, FoldLeft, MapThenFoldSet, LiveSol, Put
<1>5. PICK g : LiveSol(base, d, g) /\ _apply_levels(base, d) = g[DOMAIN d] BY <1>3, <1>4
<1>6. Solution("live", base, Len(d), d, g)
  BY <1>1, <1>5 DEF LiveSol, Solution, FoldStep, One
<1>7. PICK h : Follows("live", base, d, h) /\ h[Len(d)] = g[1 .. Len(d)]
  BY <1>6, FoldFollows
<1>8. _apply_levels(base, d) = h[Len(d)] BY <1>1, <1>5, <1>7
<1> QED BY <1>7, <1>8

LEMMA SideFold ==
  ASSUME NEW base, NEW D, NEW d \in Seq(D)
  PROVE  \E h : Follows("recorded", base, d, h) /\ _apply_side(base, d) = h[Len(d)]
<1>1. PICK n \in Nat : n = Len(d) /\ DOMAIN d = 1 .. n OBVIOUS
<1>2. PICK f : Solution("recorded", base, n, d, f)
  BY <1>1, FoldExists
<1>3. SideSol(base, d, f) BY <1>1, <1>2 DEF SideSol, Solution, FoldStep, One
<1>4. _apply_side(base, d) = (CHOOSE g : SideSol(base, d, g))[DOMAIN d]
  BY DEF _apply_side, FoldLeft, MapThenFoldSet, SideSol
<1>5. PICK g : SideSol(base, d, g) /\ _apply_side(base, d) = g[DOMAIN d] BY <1>3, <1>4
<1>6. Solution("recorded", base, Len(d), d, g)
  BY <1>1, <1>5 DEF SideSol, Solution, FoldStep, One
<1>7. PICK h : Follows("recorded", base, d, h) /\ h[Len(d)] = g[1 .. Len(d)]
  BY <1>6, FoldFollows
<1>8. _apply_side(base, d) = h[Len(d)] BY <1>1, <1>5, <1>7
<1> QED BY <1>7, <1>8

LEMMA SweepFold ==
  ASSUME NEW base, NEW D, NEW d \in Seq(D)
  PROVE  \E h : Follows("sweep", base, d, h) /\ FoldLeft(Take, base, d) = h[Len(d)]
<1>1. PICK n \in Nat : n = Len(d) /\ DOMAIN d = 1 .. n OBVIOUS
<1>2. PICK f : Solution("sweep", base, n, d, f)
  BY <1>1, FoldExists
<1>3. SweepSol(base, d, f) BY <1>1, <1>2 DEF SweepSol, Solution, FoldStep, One
<1>4. FoldLeft(Take, base, d) = (CHOOSE g : SweepSol(base, d, g))[DOMAIN d]
  BY DEF FoldLeft, MapThenFoldSet, SweepSol
<1>5. PICK g : SweepSol(base, d, g) /\ FoldLeft(Take, base, d) = g[DOMAIN d] BY <1>3, <1>4
<1>6. Solution("sweep", base, Len(d), d, g)
  BY <1>1, <1>5 DEF SweepSol, Solution, FoldStep, One
<1>7. PICK h : Follows("sweep", base, d, h) /\ h[Len(d)] = g[1 .. Len(d)]
  BY <1>6, FoldFollows
<1>8. FoldLeft(Take, base, d) = h[Len(d)] BY <1>1, <1>5, <1>7
<1> QED BY <1>7, <1>8

-----------------------------------------------------------------------------
(* The k-th smallest element *)

LEMMA Counted ==
  ASSUME NEW n \in Nat, NEW T, NEW z \in [1 .. n -> T],
         \A i, j \in 1 .. n : z[i] = z[j] => i = j,
         \A x \in T : \E i \in 1 .. n : z[i] = x
  PROVE  IsFiniteSet(T) /\ Cardinality(T) = n
<1>1. z \in Bijection(1 .. n, T) BY Fun_IsBij
<1>2. ExistsBijection(1 .. n, T) BY <1>1, Fun_ExistsBij
<1>3. IsFiniteSet(1 .. n) /\ Cardinality(1 .. n) = n BY FS_Interval
<1> QED BY <1>2, <1>3, FS_Bijection

Rising(z, n, S) ==
  /\ z \in [1 .. n -> S]
  /\ \A i, j \in 1 .. n : i < j => z[i] < z[j]
  /\ \A x \in S : \E i \in 1 .. n : z[i] = x

LEMMA NthIs ==
  ASSUME NEW n \in Nat, NEW S, S \subseteq Nat, NEW z, Rising(z, n, S)
  PROVE  Cardinality(S) = n /\ \A k \in 1 .. n : Nth(S, k) = z[k]
<1>1. ASSUME NEW i \in 1 .. n, NEW j \in 1 .. n
      PROVE  z[i] \in Nat /\ z[j] \in Nat /\ (z[i] < z[j] <=> i < j)
  <2>1. z[i] \in Nat /\ z[j] \in Nat BY DEF Rising
  <2>2. (i < j => z[i] < z[j]) /\ (j < i => z[j] < z[i]) BY DEF Rising
  <2>3. i = j \/ i < j \/ j < i OBVIOUS
  <2> QED BY <2>1, <2>2, <2>3
<1>2. \A i, j \in 1 .. n : z[i] = z[j] => i = j BY <1>1
<1>3. Cardinality(S) = n BY <1>2, Counted DEF Rising
<1>4. ASSUME NEW m \in 1 .. n PROVE Cardinality({j \in S : j < z[m]}) = m - 1
  <2> DEFINE T == {j \in S : j < z[m]}
             y == [i \in 1 .. (m - 1) |-> z[i]]
  <2>1. y \in [1 .. (m - 1) -> T] BY <1>1 DEF Rising
  <2>2. \A i, j \in 1 .. (m - 1) : y[i] = y[j] => i = j BY <1>2
  <2>3. \A x \in T : \E i \in 1 .. (m - 1) : y[i] = x
    <3> SUFFICES ASSUME NEW x \in T PROVE \E i \in 1 .. (m - 1) : y[i] = x OBVIOUS
    <3>1. PICK i \in 1 .. n : z[i] = x BY DEF Rising
    <3>2. i < m BY <1>1, <3>1
    <3> QED BY <3>1, <3>2
  <2>4. m - 1 \in Nat OBVIOUS
  <2> HIDE DEF T, y
  <2>5. Cardinality(T) = m - 1 BY <2>1, <2>2, <2>3, <2>4, Counted
  <2> QED BY <2>5 DEF T
<1>5. ASSUME NEW k \in 1 .. n PROVE Nth(S, k) = z[k]
  <2> DEFINE Is(i) == Cardinality({j \in S : j < i}) = k - 1
  <2>1. z[k] \in S /\ Is(z[k]) BY <1>4 DEF Rising
  <2>2. ASSUME NEW i \in S, Is(i) PROVE i = z[k]
    <3>1. PICK m \in 1 .. n : z[m] = i BY DEF Rising
    <3>2. Cardinality({j \in S : j < z[m]}) = m - 1 BY <1>4
    <3>3. m - 1 = k - 1 BY <2>2, <3>1, <3>2
    <3> QED BY <3>1, <3>3
  <2>3. Nth(S, k) = CHOOSE i \in S : Is(i) BY DEF Nth
  <2> HIDE DEF Is
  <2> QED BY <2>1, <2>2, <2>3
<1> QED BY <1>3, <1>5

(* Neighbours in order put the whole sequence in order.                      *)
LEMMA AllPairs ==
  ASSUME NEW n \in Nat, NEW z \in [1 .. n -> Nat], \A i \in 1 .. (n - 1) : z[i] < z[i + 1]
  PROVE  \A i, j \in 1 .. n : i < j => z[i] < z[j]
<1> DEFINE P == {k \in Nat : \A i \in 1 .. n : i + k + 1 <= n => z[i] < z[i + k + 1]}
<1>1. 0 \in P OBVIOUS
<1>2. ASSUME NEW k \in P PROVE k + 1 \in P
  <2> SUFFICES ASSUME NEW i \in 1 .. n, i + (k + 1) + 1 <= n
               PROVE  z[i] < z[i + (k + 1) + 1]
    OBVIOUS
  <2>1. z[i] < z[i + k + 1] OBVIOUS
  <2>2. PICK m \in 1 .. (n - 1) : m = i + k + 1 OBVIOUS
  <2>3. z[m] < z[m + 1] /\ z[i] \in Nat /\ z[m] \in Nat /\ z[m + 1] \in Nat OBVIOUS
  <2>4. m + 1 = i + (k + 1) + 1 BY <2>2
  <2> QED BY <2>1, <2>2, <2>3, <2>4
<1>3. P = Nat
  <2> HIDE DEF P
  <2>1. P \in SUBSET Nat BY DEF P
  <2> QED BY <1>1, <1>2, <2>1, EveryNat
<1> SUFFICES ASSUME NEW i \in 1 .. n, NEW j \in 1 .. n, i < j PROVE z[i] < z[j] OBVIOUS
<1>4. PICK k \in Nat : j = i + k + 1
  <2>1. j - i - 1 \in Nat /\ j = i + (j - i - 1) + 1 OBVIOUS
  <2> QED BY <2>1
<1>5. k \in P BY <1>3
<1> QED BY <1>4, <1>5

-----------------------------------------------------------------------------
(* The recorded levels s stand for the reducer's map f *)

Levels == Seq(Prices \X Sizes)

Distinct(s) == \A i, j \in 1 .. Len(s) : s[i][1] = s[j][1] => i = j

Rep(f, s) ==
  /\ f \in [Prices -> Sizes] /\ s \in Levels /\ Distinct(s)
  /\ \A i \in 1 .. Len(s) : f[s[i][1]] = s[i][2] /\ s[i][2] > 0
  /\ \A p \in Prices : f[p] > 0 => \E i \in 1 .. Len(s) : s[i][1] = p

LEMMA LevelAt ==
  ASSUME NEW s \in Levels, NEW i \in 1 .. Len(s)
  PROVE  /\ s[i] \in Prices \X Sizes /\ s[i] = << s[i][1], s[i][2] >>
         /\ s[i][1] \in Prices /\ s[i][1] \in Nat /\ s[i][2] \in Sizes /\ s[i][2] \in Nat
<1>1. s[i] \in Prices \X Sizes BY DEF Levels
<1>2. PICK p \in Prices, q \in Sizes : s[i] = << p, q >> BY <1>1
<1>3. p \in Nat /\ q \in Nat BY LevelAssumption
<1> QED BY <1>1, <1>2, <1>3

(* What Without keeps, in its order                                          *)
LEMMA WithoutIs ==
  ASSUME NEW s \in Levels, Distinct(s), NEW p \in Prices
  PROVE  \E n \in Nat : \E z :
           /\ Rising(z, n, {i \in 1 .. Len(s) : s[i][1] # p})
           /\ Without(s, p) = [k \in 1 .. n |-> s[z[k]]]
<1> DEFINE kept == {i \in 1 .. Len(s) : s[i][1] # p}
<1>1. Len(s) \in Nat /\ DOMAIN s = 1 .. Len(s) BY DEF Levels
<1>2. \E n \in Nat : \E z : Rising(z, n, kept)
  <2>1. CASE \E i \in 1 .. Len(s) : s[i][1] = p
    <3>1. PICK o \in 1 .. Len(s) : s[o][1] = p BY <2>1
    <3>2. kept = (1 .. Len(s)) \ {o} BY <3>1 DEF Distinct
    <3> DEFINE z == [k \in 1 .. (Len(s) - 1) |-> IF k < o THEN k ELSE k + 1]
    <3>3. z \in [1 .. (Len(s) - 1) -> kept] BY <1>1, <3>2
    <3>4. \A i, j \in 1 .. (Len(s) - 1) : i < j => z[i] < z[j] BY <1>1
    <3>5. ASSUME NEW x \in kept PROVE \E i \in 1 .. (Len(s) - 1) : z[i] = x
      <4>1. CASE x < o
        <5>1. x \in 1 .. (Len(s) - 1) /\ z[x] = x BY <1>1, <4>1, <3>2
        <5> QED BY <5>1
      <4>2. CASE x > o
        <5>1. x - 1 \in 1 .. (Len(s) - 1) /\ z[x - 1] = x BY <1>1, <4>2, <3>2
        <5> QED BY <5>1
      <4> QED BY <1>1, <3>2, <4>1, <4>2
    <3>6. Len(s) - 1 \in Nat BY <1>1
    <3>7. Rising(z, Len(s) - 1, kept) BY <3>3, <3>4, <3>5 DEF Rising
    <3> QED BY <3>6, <3>7
  <2>2. CASE ~ \E i \in 1 .. Len(s) : s[i][1] = p
    <3> DEFINE z == [k \in 1 .. Len(s) |-> k]
    <3>1. kept = 1 .. Len(s) BY <2>2
    <3>2. Rising(z, Len(s), kept) BY <1>1, <3>1 DEF Rising
    <3> QED BY <1>1, <3>2
  <2> QED BY <2>1, <2>2
<1>3. PICK n \in Nat : \E w : Rising(w, n, kept) BY <1>2
<1>0. PICK z : Rising(z, n, kept) BY <1>3
<1>4. Without(s, p) = [k \in 1 .. Cardinality(kept) |-> s[Nth(kept, k)]]
  BY <1>1 DEF Without
<1>5. kept \subseteq Nat OBVIOUS
<1> HIDE DEF kept
<1>6. Cardinality(kept) = n /\ \A k \in 1 .. n : Nth(kept, k) = z[k] BY <1>0, <1>5, NthIs
<1>7. Without(s, p) = [k \in 1 .. n |-> s[z[k]]] BY <1>4, <1>6
<1> QED BY <1>0, <1>7 DEF kept

LEMMA RepDelta ==
  ASSUME NEW f, NEW s, Rep(f, s), NEW l \in Prices \X Sizes
  PROVE  Rep(Put(f, l), ApplyDelta(s, l))
<1>1. f \in [Prices -> Sizes] /\ s \in Levels /\ Distinct(s) BY DEF Rep
<1>2. PICK p \in Prices, q \in Sizes : l = << p, q >> OBVIOUS
<1>3. PICK g : g = Put(f, l) OBVIOUS
<1>4. /\ g \in [Prices -> Sizes] /\ g[p] = q
      /\ \A x \in Prices : x # p => g[x] = f[x]
  BY <1>1, <1>2, <1>3 DEF Put
<1>5. Len(s) \in Nat /\ DOMAIN s = 1 .. Len(s) BY <1>1 DEF Levels
<1>6. \A i \in 1 .. Len(s) : /\ s[i] \in Prices \X Sizes /\ s[i][1] \in Prices
                             /\ f[s[i][1]] = s[i][2] /\ s[i][2] > 0
  BY <1>1, LevelAt DEF Rep
<1>7. q \in Nat BY LevelAssumption
<1>8. CASE q = 0
  <2>0. PICK n \in Nat : \E w : /\ Rising(w, n, {i \in 1 .. Len(s) : s[i][1] # p})
                                /\ Without(s, p) = [k \in 1 .. n |-> s[w[k]]]
    BY <1>1, WithoutIs
  <2>1. PICK z : /\ Rising(z, n, {i \in 1 .. Len(s) : s[i][1] # p})
                 /\ Without(s, p) = [k \in 1 .. n |-> s[z[k]]]
    BY <2>0
  <2>2. PICK t : t = [k \in 1 .. n |-> s[z[k]]] OBVIOUS
  <2>3. ApplyDelta(s, l) = t BY <1>2, <1>8, <2>1, <2>2 DEF ApplyDelta
  <2>4. \A k \in 1 .. n : z[k] \in 1 .. Len(s) /\ s[z[k]][1] # p BY <2>1 DEF Rising
  <2>5. t \in Levels /\ Len(t) = n
    <3>1. \A k \in 1 .. n : s[z[k]] \in Prices \X Sizes BY <1>6, <2>4
    <3> QED BY <2>2, <3>1 DEF Levels
  <2>6. \A k \in 1 .. n : t[k] = s[z[k]] BY <2>2
  <2>7. Distinct(t)
    <3> SUFFICES ASSUME NEW i \in 1 .. n, NEW j \in 1 .. n, t[i][1] = t[j][1] PROVE i = j
      BY <2>5 DEF Distinct
    <3>1. z[i] = z[j] BY <1>1, <2>4, <2>6 DEF Distinct
    <3>2. z[i] \in Nat /\ z[j] \in Nat BY <2>4
    <3>3. (i < j => z[i] < z[j]) /\ (j < i => z[j] < z[i]) BY <2>1 DEF Rising
    <3> QED BY <3>1, <3>2, <3>3
  <2>8. \A i \in 1 .. n : g[t[i][1]] = t[i][2] /\ t[i][2] > 0 BY <1>4, <1>6, <2>4, <2>6
  <2>9. ASSUME NEW x \in Prices, g[x] > 0 PROVE \E i \in 1 .. n : t[i][1] = x
    <3>1. x # p BY <1>4, <1>8, <2>9
    <3>2. PICK i \in 1 .. Len(s) : s[i][1] = x BY <1>4, <2>9, <3>1 DEF Rep
    <3>3. PICK k \in 1 .. n : z[k] = i BY <2>1, <3>1, <3>2 DEF Rising
    <3> QED BY <2>6, <3>2, <3>3
  <2>10. Rep(g, t) BY <1>4, <2>5, <2>7, <2>8, <2>9 DEF Rep
  <2> QED BY <1>3, <2>3, <2>10
<1>9. CASE q # 0 /\ \E i \in 1 .. Len(s) : s[i][1] = p
  <2>1. PICK t : t = [i \in 1 .. Len(s) |-> IF s[i][1] = p THEN l ELSE s[i]] OBVIOUS
  <2>2. ApplyDelta(s, l) = t BY <1>2, <1>5, <1>9, <2>1 DEF ApplyDelta
  <2>3. t \in Levels /\ Len(t) = Len(s)
    <3>1. \A i \in 1 .. Len(s) : t[i] \in Prices \X Sizes BY <1>6, <2>1
    <3> QED BY <1>5, <2>1, <3>1 DEF Levels
  <2>4. \A i \in 1 .. Len(s) : t[i][1] = s[i][1] /\ t[i][2] = IF s[i][1] = p THEN q ELSE s[i][2]
    BY <1>2, <2>1
  <2>5. Distinct(t) BY <1>1, <2>3, <2>4 DEF Distinct
  <2>6. \A i \in 1 .. Len(s) : g[t[i][1]] = t[i][2] /\ t[i][2] > 0
    BY <1>4, <1>6, <1>7, <1>9, <2>4
  <2>7. \A x \in Prices : g[x] > 0 => \E i \in 1 .. Len(s) : t[i][1] = x
    BY <1>4, <1>9, <2>4 DEF Rep
  <2>8. Rep(g, t) BY <1>4, <2>3, <2>5, <2>6, <2>7 DEF Rep
  <2> QED BY <1>3, <2>2, <2>8
<1>10. CASE q # 0 /\ ~ \E i \in 1 .. Len(s) : s[i][1] = p
  <2>1. PICK t : t = Append(s, l) OBVIOUS
  <2>2. ApplyDelta(s, l) = t BY <1>2, <1>5, <1>10, <2>1 DEF ApplyDelta
  <2>3. t \in Levels /\ Len(t) = Len(s) + 1 BY <1>1, <2>1 DEF Levels
  <2>4. (\A i \in 1 .. Len(s) : t[i] = s[i]) /\ t[Len(s) + 1] = l BY <1>1, <2>1 DEF Levels
  <2>5. \A i \in 1 .. (Len(s) + 1) : i \in 1 .. Len(s) \/ i = Len(s) + 1 BY <1>5
  <2>6. Distinct(t) BY <1>1, <1>2, <1>10, <2>3, <2>4, <2>5 DEF Distinct
  <2>7. \A i \in 1 .. (Len(s) + 1) : g[t[i][1]] = t[i][2] /\ t[i][2] > 0
    BY <1>2, <1>4, <1>6, <1>7, <1>10, <2>4, <2>5
  <2>8. ASSUME NEW x \in Prices, g[x] > 0 PROVE \E i \in 1 .. (Len(s) + 1) : t[i][1] = x
    <3>1. CASE x = p
      <4>1. Len(s) + 1 \in 1 .. (Len(s) + 1) BY <1>5
      <4> QED BY <1>2, <2>4, <3>1, <4>1
    <3>2. CASE x # p
      <4>1. PICK i \in 1 .. Len(s) : s[i][1] = x BY <1>4, <2>8, <3>2 DEF Rep
      <4>2. i \in 1 .. (Len(s) + 1) BY <1>5
      <4> QED BY <2>4, <4>1, <4>2
    <3> QED BY <3>1, <3>2
  <2>9. Rep(g, t) BY <1>4, <2>3, <2>6, <2>7, <2>8 DEF Rep
  <2> QED BY <1>3, <2>2, <2>9
<1> QED BY <1>8, <1>9, <1>10

LEMMA RepFold ==
  ASSUME NEW f, NEW s, Rep(f, s), NEW d \in Levels
  PROVE  Rep(_apply_levels(f, d), _apply_side(s, d))
<1>1. PICK h : Follows("live", f, d, h) /\ _apply_levels(f, d) = h[Len(d)]
  BY LiveFold DEF Levels
<1>2. PICK g : Follows("recorded", s, d, g) /\ _apply_side(s, d) = g[Len(d)]
  BY SideFold DEF Levels
<1>3. Len(d) \in Nat BY DEF Levels
<1> DEFINE P == {k \in 0 .. Len(d) : Rep(h[k], g[k])}
<1>4. 0 \in P BY <1>1, <1>2, <1>3 DEF Follows
<1>5. ASSUME NEW k \in 0 .. (Len(d) - 1), k \in P PROVE k + 1 \in P
  <2>1. k + 1 \in 1 .. Len(d) BY <1>3
  <2>2. d[k + 1] \in Prices \X Sizes BY <2>1, LevelAt
  <2>3. h[k + 1] = Put(h[k], d[k + 1]) /\ g[k + 1] = ApplyDelta(g[k], d[k + 1])
    BY <1>1, <1>2 DEF Follows, One
  <2>4. Rep(h[k], g[k]) BY <1>5
  <2>5. Rep(h[k + 1], g[k + 1]) BY <2>2, <2>3, <2>4, RepDelta
  <2> QED BY <2>1, <2>5
<1>6. 0 .. Len(d) \subseteq P
  <2> HIDE DEF P
  <2> QED BY <1>3, <1>4, <1>5, UpTo
<1>7. Len(d) \in P BY <1>3, <1>6
<1> QED BY <1>1, <1>2, <1>7

(* The map a reducer builds from the levels of a snapshot                    *)
LEMMA RepSnapshot ==
  ASSUME NEW s \in Levels, Distinct(s), \A i \in 1 .. Len(s) : s[i][2] > 0
  PROVE  Rep(_apply_levels(NoLevels, s), s)
<1>1. PICK h : Follows("live", NoLevels, s, h) /\ _apply_levels(NoLevels, s) = h[Len(s)]
  BY LiveFold DEF Levels
<1>2. Len(s) \in Nat BY DEF Levels
<1> DEFINE Built(k, f) ==
             /\ f \in [Prices -> Sizes]
             /\ \A i \in 1 .. k : f[s[i][1]] = s[i][2]
             /\ \A p \in Prices : f[p] > 0 => \E i \in 1 .. k : s[i][1] = p
           P == {k \in 0 .. Len(s) : Built(k, h[k])}
<1>3. 0 \in P
  <2>1. h[0] = NoLevels BY <1>1 DEF Follows
  <2>2. Built(0, NoLevels) BY LevelAssumption DEF NoLevels
  <2> QED BY <1>2, <2>1, <2>2
<1>4. ASSUME NEW k \in 0 .. (Len(s) - 1), k \in P PROVE k + 1 \in P
  <2>1. k + 1 \in 1 .. Len(s) BY <1>2
  <2>2. s[k + 1][1] \in Prices /\ s[k + 1][2] \in Sizes BY <2>1, LevelAt
  <2>3. PICK f : f = h[k] /\ Built(k, f) BY <1>4
  <2>4. PICK g : g = h[k + 1] OBVIOUS
  <2>5. g = [f EXCEPT ![s[k + 1][1]] = s[k + 1][2]]
    BY <1>1, <2>3, <2>4 DEF Follows, One, Put
  <2>6. g \in [Prices -> Sizes] BY <2>2, <2>3, <2>5
  <2>7. g[s[k + 1][1]] = s[k + 1][2] BY <2>2, <2>3, <2>5
  <2>8. \A i \in 1 .. k : g[s[i][1]] = s[i][2]
    <3> SUFFICES ASSUME NEW i \in 1 .. k PROVE g[s[i][1]] = s[i][2] OBVIOUS
    <3>1. i \in 1 .. Len(s) /\ i # k + 1 BY <1>2
    <3>2. s[i][1] \in Prices /\ s[i][1] # s[k + 1][1] BY <2>1, <3>1, LevelAt DEF Distinct
    <3> QED BY <2>2, <2>3, <2>5, <3>2
  <2>9. \A i \in 1 .. (k + 1) : i \in 1 .. k \/ i = k + 1 OBVIOUS
  <2>10. ASSUME NEW p \in Prices, g[p] > 0 PROVE \E i \in 1 .. (k + 1) : s[i][1] = p
    <3>1. CASE p = s[k + 1][1]
      <4>1. k + 1 \in 1 .. (k + 1) OBVIOUS
      <4> QED BY <3>1, <4>1
    <3>2. CASE p # s[k + 1][1]
      <4>1. f[p] > 0 BY <2>2, <2>3, <2>5, <2>10, <3>2
      <4>2. PICK i \in 1 .. k : s[i][1] = p BY <2>3, <4>1
      <4>3. i \in 1 .. (k + 1) OBVIOUS
      <4> QED BY <4>2, <4>3
    <3> QED BY <3>1, <3>2
  <2>11. Built(k + 1, g) BY <2>6, <2>7, <2>8, <2>9, <2>10
  <2> QED BY <2>1, <2>4, <2>11
<1>5. 0 .. Len(s) \subseteq P
  <2> HIDE DEF P
  <2> QED BY <1>2, <1>3, <1>4, UpTo
<1>6. Built(Len(s), h[Len(s)]) BY <1>2, <1>5
<1> QED BY <1>1, <1>6 DEF Rep

(* Recorded levels in order are the reducer's levels, sorted.                *)
LEMMA DisplayedIs ==
  ASSUME NEW f, NEW s, Rep(f, s)
  PROVE  /\ Displayed(f) \subseteq Nat
         /\ \A i \in 1 .. Len(s) : s[i][1] \in Displayed(f)
         /\ \A x \in Displayed(f) : \E i \in 1 .. Len(s) : s[i][1] = x
<1>1. \A i \in 1 .. Len(s) : s[i][1] \in Prices BY LevelAt DEF Rep
<1> QED BY <1>1, LevelAssumption DEF Rep, Displayed

LEMMA AscendingPairs ==
  ASSUME NEW s \in Levels, Ascending(s)
  PROVE  \A i, j \in 1 .. Len(s) : i < j => s[i][1] < s[j][1]
<1>1. PICK n \in Nat : n = Len(s) BY DEF Levels
<1> DEFINE z == [i \in 1 .. n |-> s[i][1]]
<1>2. z \in [1 .. n -> Nat] BY <1>1, LevelAt
<1>3. \A i \in 1 .. (n - 1) : z[i] < z[i + 1] BY <1>1 DEF Ascending
<1>4. \A i, j \in 1 .. n : i < j => z[i] < z[j]
  <2> HIDE DEF z
  <2> QED BY <1>1, <1>2, <1>3, AllPairs
<1> QED BY <1>1, <1>4

LEMMA DescendingPairs ==
  ASSUME NEW s \in Levels, Descending(s)
  PROVE  \A i, j \in 1 .. Len(s) : i < j => s[i][1] > s[j][1]
<1>1. PICK n \in Nat : n = Len(s) BY DEF Levels
<1>2. \A i \in 1 .. n : s[i][1] \in Nat BY <1>1, LevelAt
<1> DEFINE z == [i \in 1 .. n |-> s[n + 1 - i][1]]
<1>3. \A i, j \in 1 .. n : i = n + 1 - j => z[j] = s[i][1] /\ j = n + 1 - i BY <1>1
<1>4. \A i \in 1 .. n : n + 1 - i \in 1 .. n /\ i = n + 1 - (n + 1 - i) BY <1>1
<1>5. z \in [1 .. n -> Nat] BY <1>2, <1>4
<1> HIDE DEF z
<1>6. ASSUME NEW i \in 1 .. (n - 1) PROVE z[i] < z[i + 1]
  <2>0. n - i \in 1 .. (n - 1) BY <1>1
  <2>1. PICK j \in 1 .. (n - 1) : j = n - i BY <2>0
  <2>2. s[j][1] > s[j + 1][1] BY <1>1 DEF Descending
  <2>3. /\ i \in 1 .. n /\ i + 1 \in 1 .. n /\ j \in 1 .. n /\ j + 1 \in 1 .. n
        /\ j = n + 1 - (i + 1) /\ j + 1 = n + 1 - i
    BY <1>1, <2>1
  <2>4. z[i + 1] = s[j][1] /\ z[i] = s[j + 1][1] BY <1>3, <2>3
  <2>5. s[j][1] \in Nat /\ s[j + 1][1] \in Nat BY <1>2, <2>3
  <2> QED BY <2>2, <2>4, <2>5
<1>7. \A i, j \in 1 .. n : i < j => z[i] < z[j] BY <1>5, <1>6, AllPairs
<1> SUFFICES ASSUME NEW i \in 1 .. n, NEW j \in 1 .. n, i < j PROVE s[i][1] > s[j][1]
  BY <1>1
<1>8. PICK k \in 1 .. n, l \in 1 .. n : i = n + 1 - k /\ j = n + 1 - l BY <1>4
<1>9. z[k] = s[i][1] /\ z[l] = s[j][1] /\ l < k BY <1>3, <1>8
<1>10. z[l] < z[k] BY <1>7, <1>9
<1> QED BY <1>2, <1>9, <1>10

LEMMA AscendingDistinct == ASSUME NEW s \in Levels, Ascending(s) PROVE Distinct(s)
<1> SUFFICES ASSUME NEW i \in 1 .. Len(s), NEW j \in 1 .. Len(s), s[i][1] = s[j][1], i # j
             PROVE  FALSE
  BY DEF Distinct
<1>1. s[i][1] \in Nat BY LevelAt
<1> QED BY <1>1, AscendingPairs

LEMMA DescendingDistinct == ASSUME NEW s \in Levels, Descending(s) PROVE Distinct(s)
<1> SUFFICES ASSUME NEW i \in 1 .. Len(s), NEW j \in 1 .. Len(s), s[i][1] = s[j][1], i # j
             PROVE  FALSE
  BY DEF Distinct
<1>1. s[i][1] \in Nat BY LevelAt
<1> QED BY <1>1, DescendingPairs

LEMMA AsksSorted ==
  ASSUME NEW f, NEW s, Rep(f, s), Ascending(s)
  PROVE  SortedAsks(f) = s
<1>1. PICK n \in Nat : n = Len(s) /\ DOMAIN s = 1 .. n /\ s \in Levels BY DEF Rep, Levels
<1> DEFINE z == [i \in 1 .. n |-> s[i][1]]
<1>2. Rising(z, n, Displayed(f)) BY <1>1, AscendingPairs, DisplayedIs DEF Rising
<1> HIDE DEF z
<1>3. Depth(f) = n /\ \A k \in 1 .. n : Nth(Displayed(f), k) = z[k]
  <2>1. PICK S : S = Displayed(f) OBVIOUS
  <2>2. S \subseteq Nat /\ Rising(z, n, S) BY <1>2, <2>1, DisplayedIs
  <2>3. Cardinality(S) = n /\ \A k \in 1 .. n : Nth(S, k) = z[k] BY <2>2, NthIs
  <2> QED BY <2>1, <2>3 DEF Depth
<1>4. ASSUME NEW k \in 1 .. n PROVE Level(f, k) = s[k]
  <2>1. Level(f, k) = << z[k], f[z[k]] >> BY <1>3 DEF Level
  <2>2. s[k] = << s[k][1], s[k][2] >> /\ f[s[k][1]] = s[k][2] BY <1>1, LevelAt DEF Rep
  <2> QED BY <2>1, <2>2 DEF z
<1>5. SortedAsks(f) = [k \in 1 .. n |-> s[k]] BY <1>3, <1>4 DEF SortedAsks
<1>6. s = [k \in 1 .. n |-> s[k]] BY <1>1 DEF Levels
<1> QED BY <1>5, <1>6

LEMMA BidsSorted ==
  ASSUME NEW f, NEW s, Rep(f, s), Descending(s)
  PROVE  SortedBids(f) = s
<1>1. PICK n \in Nat : n = Len(s) /\ DOMAIN s = 1 .. n /\ s \in Levels BY DEF Rep, Levels
<1> DEFINE z == [i \in 1 .. n |-> s[n + 1 - i][1]]
<1>2. \A i \in 1 .. n : n + 1 - i \in 1 .. n /\ n + 1 - (n + 1 - i) = i BY <1>1
<1>3. \A i \in 1 .. n : z[i] = s[n + 1 - i][1] OBVIOUS
<1>4. z \in [1 .. n -> Displayed(f)] BY <1>1, <1>2, DisplayedIs
<1> HIDE DEF z
<1>5. ASSUME NEW i \in 1 .. n, NEW j \in 1 .. n, i < j PROVE z[i] < z[j]
  <2>1. PICK k \in 1 .. n, l \in 1 .. n : k = n + 1 - i /\ l = n + 1 - j BY <1>2
  <2>2. l < k BY <1>1, <1>5, <2>1
  <2>3. s[l][1] > s[k][1] BY <1>1, <2>2, DescendingPairs
  <2>4. s[l][1] \in Nat /\ s[k][1] \in Nat BY <1>1, LevelAt
  <2>5. z[i] = s[k][1] /\ z[j] = s[l][1] BY <1>3, <2>1
  <2> QED BY <2>3, <2>4, <2>5
<1>6. ASSUME NEW x \in Displayed(f) PROVE \E i \in 1 .. n : z[i] = x
  <2>1. PICK k \in 1 .. n : s[k][1] = x BY <1>1, DisplayedIs
  <2>2. PICK i \in 1 .. n : i = n + 1 - k /\ n + 1 - i = k BY <1>2
  <2> QED BY <1>3, <2>1, <2>2
<1>7. Rising(z, n, Displayed(f)) BY <1>4, <1>5, <1>6 DEF Rising
<1>8. Depth(f) = n /\ \A k \in 1 .. n : Nth(Displayed(f), k) = z[k]
  <2>1. PICK S : S = Displayed(f) OBVIOUS
  <2>2. S \subseteq Nat /\ Rising(z, n, S) BY <1>7, <2>1, DisplayedIs
  <2>3. Cardinality(S) = n /\ \A k \in 1 .. n : Nth(S, k) = z[k] BY <2>2, NthIs
  <2> QED BY <2>1, <2>3 DEF Depth
<1>9. ASSUME NEW k \in 1 .. n PROVE Level(f, n + 1 - k) = s[k]
  <2>1. PICK j \in 1 .. n : j = n + 1 - k /\ n + 1 - j = k BY <1>2
  <2>2. Level(f, j) = << z[j], f[z[j]] >> BY <1>8 DEF Level
  <2>3. z[j] = s[k][1] BY <1>3, <2>1
  <2>4. s[k] = << s[k][1], s[k][2] >> /\ f[s[k][1]] = s[k][2] BY <1>1, LevelAt DEF Rep
  <2> QED BY <2>1, <2>2, <2>3, <2>4
<1>10. SortedBids(f) = [k \in 1 .. n |-> s[k]] BY <1>8, <1>9 DEF SortedBids
<1>11. s = [k \in 1 .. n |-> s[k]] BY <1>1 DEF Levels
<1> QED BY <1>10, <1>11

-----------------------------------------------------------------------------
(* The reducer and the reconstruction, frame by frame *)

Agree(r, b) ==
  /\ ~r.unavailable /\ r.nonce = b.nonce
  /\ Rep(r.bids, b.bids) /\ Rep(r.asks, b.asks)
  /\ Admitted(b.bids, b.asks)

BooksInv ==
  /\ DOMAIN live = Channels /\ DOMAIN epochs = Channels
  /\ ~aborted => \A c \in Channels : epochs[c] # NoBook => Agree(live[c], epochs[c])

(* Admitted levels that stand for the reducer's maps leave the reducer's     *)
(* snapshot admitted.                                                        *)
LEMMA AdmittedToo ==
  ASSUME NEW f, NEW g, NEW s, NEW t, Rep(f, s), Rep(g, t), Admitted(s, t)
  PROVE  SortedBids(f) = s /\ SortedAsks(g) = t
BY BidsSorted, AsksSorted DEF Admitted

LEMMA FrameIs ==
  ASSUME NEW m \in Frames
  PROVE  /\ m.channel \in Channels /\ m.begin_nonce \in Nat /\ m.nonce \in Nat
         /\ m.bids \in Levels /\ m.asks \in Levels
BY FrameAssumption DEF Levels

LEMMA SnapshotAgrees ==
  ASSUME NEW m \in Frames, NEW r, m.type = "subscribed/order_book",
         Positive(m.bids \o m.asks), Admitted(m.bids, m.asks)
  PROVE  Agree(apply(r, m), [bids |-> m.bids, asks |-> m.asks, nonce |-> m.nonce])
<1>1. PICK s \in Levels, t \in Levels : s = m.bids /\ t = m.asks BY FrameIs
<1>2. Distinct(s) /\ Distinct(t)
  BY <1>1, DescendingDistinct, AscendingDistinct DEF Admitted
<1>3. (\A i \in 1 .. Len(s) : s[i][2] > 0) /\ (\A i \in 1 .. Len(t) : t[i][2] > 0)
  <2>1. Len(s) \in Nat /\ Len(t) \in Nat BY DEF Levels
  <2>2. /\ DOMAIN (s \o t) = 1 .. (Len(s) + Len(t))
        /\ \A i \in 1 .. Len(s) : (s \o t)[i] = s[i]
        /\ \A i \in 1 .. Len(t) : (s \o t)[Len(s) + i] = t[i]
    BY <2>1 DEF Levels
  <2>3. ASSUME NEW i \in 1 .. Len(s) PROVE s[i][2] > 0
    <3>1. i \in 1 .. (Len(s) + Len(t)) BY <2>1
    <3> QED BY <1>1, <2>2, <3>1 DEF Positive
  <2>4. ASSUME NEW i \in 1 .. Len(t) PROVE t[i][2] > 0
    <3>1. Len(s) + i \in 1 .. (Len(s) + Len(t)) BY <2>1
    <3> QED BY <1>1, <2>2, <3>1 DEF Positive
  <2> QED BY <2>3, <2>4
<1>4. PICK f, g : f = _apply_levels(NoLevels, s) /\ g = _apply_levels(NoLevels, t) OBVIOUS
<1>5. Rep(f, s) /\ Rep(g, t) BY <1>2, <1>3, <1>4, RepSnapshot
<1>6. SortedBids(f) = s /\ SortedAsks(g) = t BY <1>1, <1>5, AdmittedToo
<1>7. apply(r, m) = [bids |-> f, asks |-> g, nonce |-> m.nonce, unavailable |-> FALSE]
  BY <1>1, <1>4, <1>6 DEF apply
<1> QED BY <1>1, <1>5, <1>7 DEF Agree

LEMMA UpdateAgrees ==
  ASSUME NEW m \in Frames, NEW r, NEW b, m.type # "subscribed/order_book",
         Agree(r, b), Contiguous(b, m), NEW next, next = apply_lighter_update(b, m),
         Admitted(next.bids, next.asks)
  PROVE  Agree(apply(r, m), next)
<1>1. PICK s, t : s = next.bids /\ t = next.asks OBVIOUS
<1>2. s = _apply_side(b.bids, m.bids) /\ t = _apply_side(b.asks, m.asks) /\ next.nonce = m.nonce
  BY <1>1 DEF apply_lighter_update
<1>3. PICK f, g : f = _apply_levels(r.bids, m.bids) /\ g = _apply_levels(r.asks, m.asks) OBVIOUS
<1>4. Rep(f, s) BY <1>2, <1>3, FrameIs, RepFold DEF Agree
<1>5. Rep(g, t) BY <1>2, <1>3, FrameIs, RepFold DEF Agree
<1>6. SortedBids(f) = s /\ SortedAsks(g) = t BY <1>1, <1>4, <1>5, AdmittedToo
<1>7. ~r.unavailable /\ m.begin_nonce = r.nonce /\ ~ (m.nonce <= m.begin_nonce)
  BY FrameIs DEF Agree, Contiguous
<1>8. apply(r, m) = [bids |-> f, asks |-> g, nonce |-> m.nonce, unavailable |-> FALSE]
  BY <1>1, <1>3, <1>6, <1>7 DEF apply
<1> QED BY <1>1, <1>2, <1>4, <1>5, <1>8 DEF Agree

LEMMA BooksNext == ASSUME BooksInv, [Frame]_bookVars PROVE BooksInv'
<1>1. CASE UNCHANGED bookVars BY <1>1 DEF bookVars, BooksInv
<1>2. CASE Frame
  <2>1. PICK m \in Frames :
          /\ live' = [live EXCEPT ![m.channel] = apply(@, m)]
          /\ IF m.type = "subscribed/order_book" THEN Snapshot(m) ELSE Update(m)
    BY <1>2 DEF Frame
  <2>2. PICK c \in Channels : c = m.channel BY FrameIs
  <2>3. ~aborted BY <1>2 DEF Frame
  <2>4. DOMAIN live' = Channels /\ DOMAIN epochs' = Channels
    BY <2>1 DEF BooksInv, Snapshot, Update
  <2>5. live'[c] = apply(live[c], m) /\ \A o \in Channels : o # c => live'[o] = live[o]
    BY <2>1, <2>2 DEF BooksInv
  <2>6. ASSUME ~aborted' PROVE \A o \in Channels : o # c => epochs'[o] = epochs[o]
    BY <2>1, <2>2, <2>6 DEF BooksInv, Snapshot, Update
  <2>7. ASSUME ~aborted', epochs'[c] # NoBook PROVE Agree(live'[c], epochs'[c])
    <3>1. CASE m.type = "subscribed/order_book"
      <4>1. Positive(m.bids \o m.asks) /\ Admitted(m.bids, m.asks)
        BY <2>1, <2>7, <3>1 DEF Snapshot
      <4>2. epochs'[c] = [bids |-> m.bids, asks |-> m.asks, nonce |-> m.nonce]
        BY <2>1, <2>2, <3>1, <4>1 DEF Snapshot, BooksInv
      <4>3. PICK r, b : r = live[c] /\ b = epochs'[c] OBVIOUS
      <4>4. Agree(apply(r, m), b) BY <3>1, <4>1, <4>2, <4>3, SnapshotAgrees
      <4> QED BY <2>5, <4>3, <4>4
    <3>2. CASE m.type # "subscribed/order_book"
      <4>1. PICK r, b, next : r = live[c] /\ b = epochs[c] /\ next = apply_lighter_update(b, m)
        OBVIOUS
      <4>2. /\ b # NoBook /\ Contiguous(b, m) /\ Admitted(next.bids, next.asks)
            /\ epochs'[c] = next
        BY <2>1, <2>2, <2>7, <3>2, <4>1 DEF Update, BooksInv
      <4>3. Agree(r, b) BY <2>3, <4>1, <4>2 DEF BooksInv
      <4>4. Agree(apply(r, m), next) BY <3>2, <4>1, <4>2, <4>3, UpdateAgrees
      <4> QED BY <2>5, <4>1, <4>2, <4>4
    <3> QED BY <3>1, <3>2
  <2>8. ASSUME ~aborted', NEW o \in Channels, epochs'[o] # NoBook
        PROVE  Agree(live'[o], epochs'[o])
    <3>1. CASE o = c BY <2>7, <2>8, <3>1
    <3>2. CASE o # c
      <4>1. live'[o] = live[o] /\ epochs'[o] = epochs[o] BY <2>5, <2>6, <2>8, <3>2
      <4>2. Agree(live[o], epochs[o]) BY <2>3, <2>8, <4>1 DEF BooksInv
      <4> QED BY <4>1, <4>2
    <3> QED BY <3>1, <3>2
  <2> QED BY <2>4, <2>8 DEF BooksInv
<1> QED BY <1>1, <1>2

LEMMA BooksInvariant == Spec => []BooksInv
<1>1. Init => BooksInv BY DEF Init, BooksInit, BooksInv
<1>2. [Next]_vars => [Frame]_bookVars BY DEF Next, vars, Books, Mezo, bookVars
<1>3. BooksInv /\ [Next]_vars => BooksInv' BY <1>2, BooksNext
<1> QED BY <1>1, <1>3, PTL DEF Spec

(* A book the reconstruction of a frozen package still vouches for is the    *)
(* book of the live reducer: available, with the same nonce and the same     *)
(* levels in order, for any prices, sizes, channels and frames, lost,        *)
(* repeated or reordered as they may be.                                     *)
THEOREM RecordedIsLive == Spec => []RecordedBookIsLiveBook
<1>1. Spec => []BooksInv BY BooksInvariant
<1>2. BooksInv => RecordedBookIsLiveBook
  <2> SUFFICES ASSUME BooksInv, ~aborted, NEW c \in Channels, epochs[c] # NoBook
               PROVE  /\ ~live[c].unavailable /\ live[c].nonce = epochs[c].nonce
                      /\ SortedBids(live[c].bids) = epochs[c].bids
                      /\ SortedAsks(live[c].asks) = epochs[c].asks
    BY DEF RecordedBookIsLiveBook
  <2>1. PICK r, b : r = live[c] /\ b = epochs[c] OBVIOUS
  <2>2. Agree(r, b) BY <2>1 DEF BooksInv
  <2>3. SortedBids(r.bids) = b.bids /\ SortedAsks(r.asks) = b.asks
    BY <2>2, AdmittedToo DEF Agree
  <2> QED BY <2>1, <2>2, <2>3 DEF Agree
<1> QED BY <1>1, <1>2, PTL

-----------------------------------------------------------------------------
(* sweep_depth: R[k] is what remains and N[k] what was paid after k levels   *)

Less(a, b) == IF a <= b THEN a ELSE b
Taken(s, k, r) == Less(r, s[k][2])

Sweeps(s, Q, R, N) ==
  /\ R[0] = Q /\ N[0] = 0
  /\ \A k \in 0 .. Len(s) : R[k] \in Nat /\ N[k] \in Nat
  /\ \A k \in 0 .. (Len(s) - 1) :
       /\ R[k + 1] = R[k] - Taken(s, k + 1, R[k])
       /\ N[k + 1] = N[k] + s[k + 1][1] * Taken(s, k + 1, R[k])

LEMMA TakeIs ==
  ASSUME NEW s \in Levels, NEW k \in 1 .. Len(s),
         NEW acc \in [remaining : Nat, notional : Nat, worst : Nat]
  PROVE  LET t == Taken(s, k, acc.remaining)
         IN /\ t \in Nat /\ t <= acc.remaining /\ t <= s[k][2]
            /\ Take(acc, s[k]) \in [remaining : Nat, notional : Nat, worst : Nat]
            /\ Take(acc, s[k]).remaining = acc.remaining - t
            /\ Take(acc, s[k]).notional = acc.notional + s[k][1] * t
<1> DEFINE t == Taken(s, k, acc.remaining)
<1>1. PICK p \in Nat, q \in Nat : p = s[k][1] /\ q = s[k][2] BY LevelAt
<1>2. PICK r \in Nat, m \in Nat : r = acc.remaining /\ m = acc.notional OBVIOUS
<1>3. t = IF r <= q THEN r ELSE q BY <1>1, <1>2 DEF Taken, Less
<1>4. t \in Nat /\ t <= r /\ t <= q BY <1>3
<1>5. Min({r, q}) = t BY <1>3, MinOfTwo
<1> HIDE DEF t
<1>6. p * t \in Nat /\ (t = 0 => p * t = 0) BY <1>1, <1>4
<1>7. Take(acc, s[k]) = IF t = 0 THEN acc
                        ELSE [remaining |-> r - t, notional |-> m + p * t, worst |-> p]
  BY <1>1, <1>2, <1>5 DEF Take
<1>8. r - t \in Nat /\ m + p * t \in Nat BY <1>2, <1>4, <1>6
<1>9. CASE t = 0 BY <1>1, <1>2, <1>4, <1>6, <1>7, <1>9 DEF t
<1>10. CASE t # 0 BY <1>1, <1>2, <1>4, <1>7, <1>8, <1>10 DEF t
<1> QED BY <1>9, <1>10

LEMMA Swept ==
  ASSUME NEW s \in Levels, NEW Q \in Nat, NEW fill,
         fill = FoldLeft(Take, [remaining |-> Q, notional |-> 0, worst |-> 0], s)
  PROVE  \E R, N : /\ Sweeps(s, Q, R, N)
                   /\ fill.remaining = R[Len(s)] /\ fill.notional = N[Len(s)]
<1>1. PICK base : base = [remaining |-> Q, notional |-> 0, worst |-> 0] OBVIOUS
<1>2. PICK h : Follows("sweep", base, s, h) /\ fill = h[Len(s)]
  BY <1>1, SweepFold DEF Levels
<1>3. Len(s) \in Nat BY DEF Levels
<1> DEFINE Acc == [remaining : Nat, notional : Nat, worst : Nat]
           P == {k \in 0 .. Len(s) : h[k] \in Acc}
<1>4. \A k \in 0 .. (Len(s) - 1) : k + 1 \in 1 .. Len(s) /\ h[k + 1] = Take(h[k], s[k + 1])
  BY <1>2, <1>3 DEF Follows, One
<1>5. 0 \in P BY <1>1, <1>2, <1>3 DEF Follows
<1>6. ASSUME NEW k \in 0 .. (Len(s) - 1), k \in P PROVE k + 1 \in P
  <2>1. PICK acc \in Acc : acc = h[k] BY <1>6
  <2>2. Take(acc, s[k + 1]) \in Acc BY <1>4, TakeIs
  <2> QED BY <1>3, <1>4, <2>1, <2>2
<1>7. 0 .. Len(s) \subseteq P
  <2> HIDE DEF P
  <2> QED BY <1>3, <1>5, <1>6, UpTo
<1> DEFINE R == [k \in 0 .. Len(s) |-> h[k].remaining]
           N == [k \in 0 .. Len(s) |-> h[k].notional]
<1>8. R[0] = Q /\ N[0] = 0 BY <1>1, <1>2, <1>3 DEF Follows
<1>9. \A k \in 0 .. Len(s) : /\ R[k] = h[k].remaining /\ N[k] = h[k].notional
                             /\ R[k] \in Nat /\ N[k] \in Nat
  BY <1>7
<1>10. fill.remaining = R[Len(s)] /\ fill.notional = N[Len(s)] BY <1>2, <1>3
<1> HIDE DEF R, N
<1>11. ASSUME NEW k \in 0 .. (Len(s) - 1)
       PROVE  /\ R[k + 1] = R[k] - Taken(s, k + 1, R[k])
              /\ N[k + 1] = N[k] + s[k + 1][1] * Taken(s, k + 1, R[k])
  <2>1. k \in 0 .. Len(s) /\ k + 1 \in 0 .. Len(s) BY <1>3
  <2>2. PICK acc \in Acc : acc = h[k] BY <1>7, <2>1
  <2>3. /\ Take(acc, s[k + 1]).remaining = acc.remaining - Taken(s, k + 1, acc.remaining)
        /\ Take(acc, s[k + 1]).notional
             = acc.notional + s[k + 1][1] * Taken(s, k + 1, acc.remaining)
    BY <1>4, TakeIs
  <2> QED BY <1>4, <1>9, <2>1, <2>2, <2>3
<1>12. Sweeps(s, Q, R, N) BY <1>8, <1>9, <1>11 DEF Sweeps
<1> QED BY <1>10, <1>12

(* Products, and then the exchange argument: a sweep of levels with rising   *)
(* values v pays no more than any other way of filling the quantity, and     *)
(* leaves nothing if there is one.                                           *)
LEMMA Distribute ==
  ASSUME NEW u \in Int, NEW a \in Int, NEW b \in Int, NEW c \in Int
  PROVE  u * (a + b - c) = u * a + u * b - u * c
OBVIOUS

LEMMA ProductIsInt ==
  ASSUME NEW a \in Int, NEW b \in Int
  PROVE  a * b \in Int /\ a * b = b * a
OBVIOUS

LEMMA TimesMonotone ==
  ASSUME NEW a \in Int, NEW b \in Int, NEW e \in Nat, a <= b
  PROVE  a * e <= b * e /\ a * e \in Int /\ b * e \in Int
<1>1. PICK d \in Nat : b = a + d
  <2>1. b - a \in Nat /\ b = a + (b - a) OBVIOUS
  <2> QED BY <2>1
<1>2. b * e = a * e + d * e BY <1>1
<1>3. d * e \in Nat /\ a * e \in Int BY <1>1
<1> QED BY <1>2, <1>3

(* The sweep R, N beside another fill x, which took X and paid C by then     *)
Beside(n, v, q, x, Q, R, N, X, C) ==
  /\ R[0] = Q /\ N[0] = 0 /\ X[0] = 0 /\ C[0] = 0 /\ X[n] = Q
  /\ \A i \in 1 .. (n - 1) : v[i] <= v[i + 1]
  /\ \A i \in 1 .. n : x[i] <= q[i]
  /\ \A k \in 0 .. n : R[k] \in Nat /\ N[k] \in Int /\ X[k] \in Int /\ C[k] \in Int
  /\ \A k \in 0 .. (n - 1) :
       /\ R[k + 1] = R[k] - Less(R[k], q[k + 1])
       /\ N[k + 1] = N[k] + v[k + 1] * Less(R[k], q[k + 1])
       /\ X[k + 1] = X[k] + x[k + 1] /\ C[k + 1] = C[k] + v[k + 1] * x[k + 1]

LEMMA GreedyLeast ==
  ASSUME NEW n \in Nat, NEW v \in [1 .. n -> Int], NEW q \in [1 .. n -> Nat],
         NEW x \in [1 .. n -> Nat], NEW Q \in Nat, NEW R, NEW N, NEW X, NEW C,
         Beside(n, v, q, x, Q, R, N, X, C)
  PROVE  R[n] = 0 /\ N[n] <= C[n]
<1>0. /\ R[0] = Q /\ N[0] = 0 /\ X[0] = 0 /\ C[0] = 0 /\ X[n] = Q
      /\ \A k \in 0 .. n : R[k] \in Nat /\ N[k] \in Int /\ X[k] \in Int /\ C[k] \in Int
  BY DEF Beside
<1>1. \A k \in 0 .. (n - 1) : /\ k \in 0 .. n /\ k + 1 \in 0 .. n /\ k + 1 \in 1 .. n
                              /\ x[k + 1] \in Nat /\ q[k + 1] \in Nat /\ x[k + 1] <= q[k + 1]
                              /\ v[k + 1] \in Int
  <2> SUFFICES ASSUME NEW k \in 0 .. (n - 1)
               PROVE  /\ k \in 0 .. n /\ k + 1 \in 0 .. n /\ k + 1 \in 1 .. n
                      /\ x[k + 1] \in Nat /\ q[k + 1] \in Nat /\ x[k + 1] <= q[k + 1]
                      /\ v[k + 1] \in Int
    OBVIOUS
  <2>1. k \in 0 .. n /\ k + 1 \in 0 .. n /\ k + 1 \in 1 .. n OBVIOUS
  <2> QED BY <2>1 DEF Beside
<1>2. \A k \in 0 .. n : X[k] <= Q
  <2> DEFINE P == {j \in 0 .. n : \A i \in 0 .. j : X[i] <= X[j]}
  <2>1. 0 \in P
    <3>1. \A i \in 0 .. 0 : i = 0 OBVIOUS
    <3> QED BY <1>0, <3>1
  <2>2. ASSUME NEW j \in 0 .. (n - 1), j \in P PROVE j + 1 \in P
    <3>1. X[j + 1] = X[j] + x[j + 1] /\ X[j] \in Int /\ X[j + 1] \in Int BY <1>0, <1>1 DEF Beside
    <3>2. X[j] <= X[j + 1] BY <1>1, <3>1
    <3>3. ASSUME NEW i \in 0 .. (j + 1) PROVE X[i] <= X[j + 1]
      <4>1. CASE i = j + 1 BY <3>1, <4>1
      <4>2. CASE i # j + 1
        <5>1. i \in 0 .. j /\ i \in 0 .. n BY <4>2
        <5>2. X[i] <= X[j] /\ X[i] \in Int BY <1>0, <2>2, <5>1
        <5> QED BY <3>1, <3>2, <5>2
      <4> QED BY <4>1, <4>2
    <3> QED BY <1>1, <3>3
  <2>3. 0 .. n \subseteq P
    <3> HIDE DEF P
    <3> QED BY <2>1, <2>2, UpTo
  <2>4. n \in P BY <2>3
  <2> QED BY <1>0, <2>4
<1>3. ASSUME NEW k \in 0 .. (n - 1)
      PROVE  \E z \in Nat :
               /\ z = R[k] \/ z = q[k + 1]
               /\ R[k + 1] = R[k] - z /\ N[k + 1] = N[k] + v[k + 1] * z
               /\ X[k + 1] = X[k] + x[k + 1] /\ C[k + 1] = C[k] + v[k + 1] * x[k + 1]
  <2>1. PICK r \in Nat, m \in Nat : r = R[k] /\ m = q[k + 1] BY <1>0, <1>1
  <2>2. PICK z : z = Less(R[k], q[k + 1]) OBVIOUS
  <2>3. z \in Nat /\ (z = r \/ z = m) BY <2>1, <2>2 DEF Less
  <2> QED BY <2>1, <2>2, <2>3 DEF Beside
<1>4. 0 .. n \subseteq {k \in 0 .. n : X[k] <= Q - R[k]}
  <2> DEFINE P == {k \in 0 .. n : X[k] <= Q - R[k]}
  <2>1. 0 \in P BY <1>0
  <2>2. ASSUME NEW k \in 0 .. (n - 1), k \in P PROVE k + 1 \in P
    <3>1. /\ R[k] \in Nat /\ X[k] \in Int /\ R[k + 1] \in Nat /\ X[k + 1] \in Int
          /\ X[k] <= Q - R[k] /\ X[k + 1] <= Q
      BY <1>0, <1>1, <1>2, <2>2
    <3>2. PICK w \in Nat : /\ w = R[k] \/ w = q[k + 1]
                           /\ R[k + 1] = R[k] - w /\ X[k + 1] = X[k] + x[k + 1]
      BY <1>3
    <3>3. PICK y \in Nat, z \in Nat : y = x[k + 1] /\ z = q[k + 1] /\ y <= z BY <1>1
    <3>4. PICK r0 \in Nat, r1 \in Nat, x0 \in Int, x1 \in Int :
                 r0 = R[k] /\ r1 = R[k + 1] /\ x0 = X[k] /\ x1 = X[k + 1]
      BY <3>1
    <3>5. /\ x0 <= Q - r0 /\ x1 <= Q /\ (w = r0 \/ w = z)
          /\ r1 = r0 - w /\ x1 = x0 + y
      BY <3>1, <3>2, <3>3, <3>4
    <3>6. w \in Nat /\ z \in Nat /\ y \in Nat /\ r0 \in Int /\ x0 \in Int /\ y <= z
      BY <3>2, <3>3, <3>4
    <3>7. ASSUME w = r0 PROVE x1 <= Q - r1 BY <3>5, <3>6, <3>7
    <3>8. ASSUME w = z PROVE x1 <= Q - r1 BY <3>5, <3>6, <3>8
    <3>9. x1 <= Q - r1 BY <3>5, <3>7, <3>8
    <3>10. X[k + 1] <= Q - R[k + 1] BY <3>4, <3>9
    <3> QED BY <1>1, <3>10
  <2>3. 0 .. n \subseteq P
    <3> HIDE DEF P
    <3> QED BY <2>1, <2>2, UpTo
  <2> QED BY <2>3
<1>5. R[n] = 0
  <2>1. n \in 0 .. n OBVIOUS
  <2>2. X[n] <= Q - R[n] /\ R[n] \in Nat BY <1>0, <1>4, <2>1
  <2> QED BY <1>0, <2>2
<1> DEFINE Ahead(k) == Q - R[k] - X[k]
           Below(k) == \A w \in Int : (k >= 1 => v[k] <= w) => N[k] - C[k] <= w * Ahead(k)
           P == {k \in 0 .. n : Below(k)}
<1>6. \A k \in 0 .. n : Ahead(k) \in Nat BY <1>0, <1>4
<1>7. 0 \in P
  <2>1. Ahead(0) = 0 /\ N[0] - C[0] = 0 BY <1>0
  <2>2. \A w \in Int : w * 0 = 0 OBVIOUS
  <2> HIDE DEF Ahead
  <2>3. Below(0) BY <2>1, <2>2
  <2>4. 0 \in 0 .. n OBVIOUS
  <2> QED BY <2>3, <2>4
<1>8. ASSUME NEW k \in 0 .. (n - 1), k \in P PROVE k + 1 \in P
  <2>1. PICK u \in Int, y \in Nat : u = v[k + 1] /\ y = x[k + 1] BY <1>1
  <2>2. PICK z \in Nat : /\ R[k + 1] = R[k] - z /\ N[k + 1] = N[k] + u * z
                         /\ X[k + 1] = X[k] + y /\ C[k + 1] = C[k] + u * y
    BY <1>3, <2>1
  <2>3. PICK e \in Nat, f \in Nat : e = Ahead(k) /\ f = Ahead(k + 1) BY <1>1, <1>6
  <2>4. f = e + z - y
    <3>1. PICK r0 \in Nat, r1 \in Nat, x0 \in Int, x1 \in Int :
                 r0 = R[k] /\ r1 = R[k + 1] /\ x0 = X[k] /\ x1 = X[k + 1]
      BY <1>0, <1>1
    <3>2. r1 = r0 - z /\ x1 = x0 + y BY <2>2, <3>1
    <3>3. e = Q - r0 - x0 /\ f = Q - r1 - x1 BY <2>3, <3>1
    <3> QED BY <3>2, <3>3
  <2>5. k >= 1 => v[k] <= u
    <3> SUFFICES ASSUME k >= 1 PROVE v[k] <= v[k + 1] BY <2>1
    <3>1. k \in 1 .. (n - 1) OBVIOUS
    <3> QED BY <3>1 DEF Beside
  <2>6. N[k] - C[k] <= u * e BY <1>8, <2>3, <2>5
  <2>7. PICK n0 \in Int, c0 \in Int, n1 \in Int, c1 \in Int :
               n0 = N[k] /\ c0 = C[k] /\ n1 = N[k + 1] /\ c1 = C[k + 1]
    BY <1>0, <1>1
  <2>8. PICK ue \in Int, uy \in Int, uz \in Int, uf \in Int :
               ue = u * e /\ uy = u * y /\ uz = u * z /\ uf = u * f
    <3>1. u \in Int /\ e \in Int /\ y \in Int /\ z \in Int /\ f \in Int
      BY <2>1, <2>2, <2>3
    <3>2. u * e \in Int /\ u * y \in Int /\ u * z \in Int /\ u * f \in Int
      BY <3>1, ProductIsInt
    <3> QED BY <3>2
  <2>9. n0 - c0 <= ue /\ n1 = n0 + uz /\ c1 = c0 + uy BY <2>2, <2>6, <2>7, <2>8
  <2>10. uf = ue + uz - uy
    <3>1. u * (e + z - y) = u * e + u * z - u * y BY <2>1, <2>2, <2>3, Distribute
    <3> QED BY <2>4, <2>8, <3>1
  <2>11. n1 - c1 <= uf
    <3>1. ue \in Int /\ uy \in Int /\ uz \in Int /\ uf \in Int BY <2>8
    <3>2. n0 \in Int /\ c0 \in Int /\ n1 \in Int /\ c1 \in Int BY <2>7
    <3> QED BY <2>9, <2>10, <3>1, <3>2
  <2>12. ASSUME NEW w \in Int, v[k + 1] <= w PROVE N[k + 1] - C[k + 1] <= w * Ahead(k + 1)
    <3>1. u <= w BY <2>1, <2>12
    <3>2. u * f <= w * f /\ w * f \in Int BY <2>3, <3>1, TimesMonotone
    <3>3. PICK wf \in Int : wf = w * f BY <3>2
    <3>4. uf <= wf BY <2>8, <3>2, <3>3
    <3>5. wf \in Int /\ uf \in Int /\ n1 \in Int /\ c1 \in Int BY <2>7, <2>8, <3>3
    <3>6. n1 - c1 <= wf BY <2>11, <3>4, <3>5
    <3> QED BY <2>3, <2>7, <3>3, <3>6
  <2>13. k + 1 \in 0 .. n /\ k + 1 >= 1 BY <1>1
  <2> HIDE DEF Ahead
  <2>14. Below(k + 1) BY <2>12, <2>13
  <2> QED BY <2>13, <2>14
<1>9. 0 .. n \subseteq P
  <2> HIDE DEF P
  <2> QED BY <1>7, <1>8, UpTo
<1>10. N[n] <= C[n]
  <2>1. n \in 0 .. n OBVIOUS
  <2>2. Below(n) BY <1>9, <2>1
  <2>3. Ahead(n) = 0 BY <1>0, <1>5
  <2>4. PICK w \in Int : n >= 1 => v[n] <= w
    <3>1. CASE n >= 1
      <4>1. v[n] \in Int /\ v[n] <= v[n] BY <3>1
      <4> QED BY <4>1
    <3>2. CASE ~ (n >= 1) BY <3>2
    <3> QED BY <3>1, <3>2
  <2>5. N[n] - C[n] <= w * 0 BY <2>2, <2>3, <2>4
  <2>6. w * 0 = 0 /\ N[n] \in Int /\ C[n] \in Int BY <1>0, <2>1
  <2> QED BY <2>5, <2>6
<1> QED BY <1>5, <1>10

(* What a fill takes and costs, level by level *)
Paid(s, x) == [i \in 1 .. Len(s) |-> s[i][1] * x[i]]

LEMMA SumOf ==
  ASSUME NEW n \in Nat, NEW y \in [1 .. n -> Int]
  PROVE  \E Y : SumsUpTo(y, n, Y) /\ FoldFunction(+, 0, y) = Y[n]
<1>1. DOMAIN y = 1 .. n OBVIOUS
<1>2. FoldFunction(+, 0, y) = SumFunctionOnSet(y, 1 .. n)
  BY <1>1 DEF FoldFunction, SumFunctionOnSet
<1> QED BY <1>2, SumByPrefixes

LEMMA OneSum ==
  ASSUME NEW n \in Nat, NEW y, NEW Y, NEW Z, SumsUpTo(y, n, Y), SumsUpTo(y, n, Z)
  PROVE  Y[n] = Z[n]
<1> DEFINE P == {k \in 0 .. n : Y[k] = Z[k]}
<1>1. 0 \in P BY DEF SumsUpTo
<1>2. ASSUME NEW k \in 0 .. (n - 1), k \in P PROVE k + 1 \in P
  <2>1. Y[k + 1] = Y[k] + y[k + 1] /\ Z[k + 1] = Z[k] + y[k + 1] BY DEF SumsUpTo
  <2>2. k + 1 \in 0 .. n OBVIOUS
  <2> QED BY <1>2, <2>1, <2>2
<1>3. 0 .. n \subseteq P
  <2> HIDE DEF P
  <2> QED BY <1>1, <1>2, UpTo
<1> QED BY <1>3

LEMMA PaidIs ==
  ASSUME NEW s \in Levels, NEW x \in [1 .. Len(s) -> Nat]
  PROVE  Paid(s, x) \in [1 .. Len(s) -> Int] /\ Cost(s, x) = FoldFunction(+, 0, Paid(s, x))
<1>1. DOMAIN s = 1 .. Len(s) BY DEF Levels
<1>2. ASSUME NEW i \in 1 .. Len(s) PROVE s[i][1] * x[i] \in Int
  <2>1. s[i][1] \in Int /\ x[i] \in Int
    <3>1. s[i][1] \in Nat /\ x[i] \in Nat BY LevelAt
    <3> QED BY <3>1
  <2> QED BY <2>1, ProductIsInt
<1>3. Paid(s, x) \in [1 .. Len(s) -> Int] BY <1>2 DEF Paid
<1> QED BY <1>1, <1>3 DEF Paid, Cost

LEMMA FillSums ==
  ASSUME NEW s \in Levels, NEW Q \in Nat, NEW x \in Fills(s, Q)
  PROVE  /\ x \in [1 .. Len(s) -> Nat] /\ \A i \in 1 .. Len(s) : x[i] <= s[i][2]
         /\ \E X, C : /\ SumsUpTo(x, Len(s), X) /\ X[Len(s)] = Q
                      /\ SumsUpTo(Paid(s, x), Len(s), C) /\ C[Len(s)] = Cost(s, x)
<1>1. PICK n \in Nat : n = Len(s) /\ DOMAIN s = 1 .. n BY DEF Levels
<1>2. /\ x \in [1 .. n -> 0 .. Q] /\ \A i \in 1 .. n : x[i] <= s[i][2]
      /\ FoldFunction(+, 0, x) = Q
  BY <1>1 DEF Fills
<1>3. x \in [1 .. n -> 0 .. Q] BY <1>2
<1>4. x \in [1 .. n -> Nat] /\ x \in [1 .. n -> Int]
  <2>1. \A i \in 1 .. n : x[i] \in Nat /\ x[i] \in Int BY <1>3
  <2> QED BY <1>3, <2>1
<1>5. PICK X : SumsUpTo(x, n, X) /\ X[n] = Q BY <1>2, <1>4, SumOf
<1>6. PICK y : y = Paid(s, x) OBVIOUS
<1>7. y \in [1 .. n -> Int] /\ Cost(s, x) = FoldFunction(+, 0, y) BY <1>1, <1>4, <1>6, PaidIs
<1>8. PICK C : SumsUpTo(y, n, C) /\ C[n] = Cost(s, x) BY <1>7, SumOf
<1> QED BY <1>1, <1>2, <1>4, <1>5, <1>6, <1>8

(* A sweep that leaves nothing is itself a fill.                             *)
LEMMA SweepFills ==
  ASSUME NEW s \in Levels, NEW Q \in Nat, NEW R, NEW N, Sweeps(s, Q, R, N), R[Len(s)] = 0
  PROVE  \E x \in Fills(s, Q) : Cost(s, x) = N[Len(s)]
<1>1. PICK n \in Nat : n = Len(s) /\ DOMAIN s = 1 .. n BY DEF Levels
<1> DEFINE x == [i \in 1 .. n |-> Taken(s, i, R[i - 1])]
           Z == [k \in 0 .. n |-> Q - R[k]]
<1>2. /\ R[0] = Q /\ N[0] = 0 /\ R[n] = 0
      /\ \A k \in 0 .. n : R[k] \in Nat /\ N[k] \in Nat
  BY <1>1 DEF Sweeps
<1>3. ASSUME NEW k \in 0 .. (n - 1)
      PROVE  /\ k \in 0 .. n /\ k + 1 \in 0 .. n /\ k + 1 \in 1 .. n
             /\ x[k + 1] \in Nat /\ x[k + 1] <= R[k] /\ x[k + 1] <= s[k + 1][2]
             /\ R[k + 1] = R[k] - x[k + 1] /\ N[k + 1] = N[k] + s[k + 1][1] * x[k + 1]
  <2>1. k \in 0 .. n /\ k + 1 \in 0 .. n /\ k + 1 \in 1 .. n /\ (k + 1) - 1 = k OBVIOUS
  <2>2. x[k + 1] = Taken(s, k + 1, R[k]) BY <2>1
  <2>3. PICK r \in Nat, m \in Nat : r = R[k] /\ m = s[k + 1][2] BY <1>1, <1>2, <2>1, LevelAt
  <2> HIDE DEF x
  <2>4. PICK w : w = x[k + 1] OBVIOUS
  <2>5. w \in Nat /\ w <= r /\ w <= m BY <2>2, <2>3, <2>4 DEF Taken, Less
  <2> QED BY <1>1, <2>1, <2>2, <2>3, <2>4, <2>5 DEF Sweeps
<1>4. 0 .. n \subseteq {k \in 0 .. n : R[k] <= Q}
  <2> DEFINE P == {k \in 0 .. n : R[k] <= Q}
  <2>1. 0 \in P BY <1>2
  <2>2. ASSUME NEW k \in 0 .. (n - 1), k \in P PROVE k + 1 \in P
    <3> HIDE DEF x
    <3>1. PICK r0 \in Nat, r1 \in Nat, w \in Nat : r0 = R[k] /\ r1 = R[k + 1] /\ w = x[k + 1]
      BY <1>2, <1>3
    <3>2. r1 = r0 - w /\ r0 <= Q BY <1>3, <2>2, <3>1
    <3>3. r1 <= Q BY <3>1, <3>2
    <3> QED BY <1>3, <3>1, <3>3
  <2>3. 0 .. n \subseteq P
    <3> HIDE DEF P
    <3> QED BY <2>1, <2>2, UpTo
  <2> QED BY <2>3
<1>5. ASSUME NEW i \in 1 .. n PROVE x[i] \in 0 .. Q /\ x[i] \in Nat /\ x[i] <= s[i][2]
  <2>1. PICK k \in 0 .. (n - 1) : k + 1 = i
    <3>1. i - 1 \in 0 .. (n - 1) /\ (i - 1) + 1 = i OBVIOUS
    <3> QED BY <3>1
  <2> HIDE DEF x
  <2>2. PICK r \in Nat, w \in Nat : r = R[k] /\ w = x[i] BY <1>2, <1>3, <2>1
  <2>3. w <= r /\ r <= Q BY <1>3, <1>4, <2>1, <2>2
  <2>4. w \in 0 .. Q BY <2>2, <2>3
  <2> QED BY <1>3, <2>1, <2>2, <2>4
<1>6. x \in [1 .. n -> 0 .. Q] /\ x \in [1 .. n -> Nat] /\ x \in [1 .. n -> Int]
  <2>1. \A i \in 1 .. n : x[i] \in 0 .. Q /\ x[i] \in Nat /\ x[i] \in Int BY <1>5
  <2> QED BY <2>1
<1> HIDE DEF x
<1>7. SumsUpTo(x, n, Z)
  <2>1. \A k \in 0 .. n : Z[k] \in Int BY <1>2
  <2>2. Z[0] = 0 BY <1>2
  <2>3. ASSUME NEW k \in 0 .. (n - 1) PROVE Z[k + 1] = Z[k] + x[k + 1]
    <3>1. PICK r0 \in Nat, r1 \in Nat, w \in Nat : r0 = R[k] /\ r1 = R[k + 1] /\ w = x[k + 1]
      BY <1>2, <1>3
    <3>2. r1 = r0 - w BY <1>3, <3>1
    <3>3. Z[k] = Q - r0 /\ Z[k + 1] = Q - r1 BY <1>3, <3>1
    <3> QED BY <3>1, <3>2, <3>3
  <2> QED BY <2>1, <2>2, <2>3 DEF SumsUpTo
<1>8. Z[n] = Q BY <1>2
<1> HIDE DEF Z
<1>9. FoldFunction(+, 0, x) = Q
  <2>1. PICK X : SumsUpTo(x, n, X) /\ FoldFunction(+, 0, x) = X[n] BY <1>6, SumOf
  <2> QED BY <1>7, <1>8, <2>1, OneSum
<1>10. x \in Fills(s, Q) BY <1>1, <1>5, <1>6, <1>9 DEF Fills
<1>11. PICK y : y = Paid(s, x) OBVIOUS
<1>12. y \in [1 .. n -> Int] /\ Cost(s, x) = FoldFunction(+, 0, y) BY <1>1, <1>6, <1>11, PaidIs
<1>13. PICK C : SumsUpTo(y, n, C) /\ Cost(s, x) = C[n] BY <1>12, SumOf
<1>14. SumsUpTo(y, n, N)
  <2>1. \A k \in 0 .. n : N[k] \in Int BY <1>2
  <2>2. ASSUME NEW k \in 0 .. (n - 1) PROVE N[k + 1] = N[k] + y[k + 1]
    <3>1. y[k + 1] = s[k + 1][1] * x[k + 1] BY <1>1, <1>3, <1>11 DEF Paid
    <3> QED BY <1>3, <3>1
  <2> QED BY <1>2, <2>1, <2>2 DEF SumsUpTo
<1>15. Cost(s, x) = N[n] BY <1>13, <1>14, OneSum
<1> QED BY <1>1, <1>10, <1>15

(* From the lowest price up, the sweep costs no more than any fill; from the *)
(* highest down, it brings no less.                                          *)
LEMMA BuyIsLeast ==
  ASSUME NEW s \in Levels, Ascending(s), NEW Q \in Nat, NEW R, NEW N, Sweeps(s, Q, R, N),
         NEW x \in Fills(s, Q)
  PROVE  R[Len(s)] = 0 /\ Cost(s, x) \in Int /\ N[Len(s)] <= Cost(s, x)
<1>1. PICK n \in Nat : n = Len(s) BY DEF Levels
<1>2. PICK X, C : /\ SumsUpTo(x, n, X) /\ X[n] = Q
                  /\ SumsUpTo(Paid(s, x), n, C) /\ C[n] = Cost(s, x)
  BY <1>1, FillSums
<1>3. x \in [1 .. n -> Nat] /\ \A i \in 1 .. n : x[i] <= s[i][2] BY <1>1, FillSums
<1> DEFINE v == [i \in 1 .. n |-> s[i][1]]
           q == [i \in 1 .. n |-> s[i][2]]
<1>4. \A i \in 1 .. n : s[i][1] \in Nat /\ s[i][2] \in Nat BY <1>1, LevelAt
<1>5. v \in [1 .. n -> Int] /\ q \in [1 .. n -> Nat] BY <1>4
<1>6. \A i \in 1 .. n : v[i] = s[i][1] /\ q[i] = s[i][2] OBVIOUS
<1> HIDE DEF v, q
<1>7. ASSUME NEW i \in 1 .. (n - 1) PROVE v[i] <= v[i + 1]
  <2>1. i \in 1 .. n /\ i + 1 \in 1 .. n OBVIOUS
  <2>2. s[i][1] < s[i + 1][1] BY <1>1 DEF Ascending
  <2> QED BY <1>4, <1>6, <2>1, <2>2
<1>8. \A k \in 0 .. n : R[k] \in Nat /\ N[k] \in Int /\ X[k] \in Int /\ C[k] \in Int
  <2>1. \A k \in 0 .. n : R[k] \in Nat /\ N[k] \in Nat BY <1>1 DEF Sweeps
  <2>2. \A k \in 0 .. n : X[k] \in Int /\ C[k] \in Int BY <1>2 DEF SumsUpTo
  <2> QED BY <2>1, <2>2
<1>9. ASSUME NEW k \in 0 .. (n - 1)
      PROVE  /\ R[k + 1] = R[k] - Less(R[k], q[k + 1])
             /\ N[k + 1] = N[k] + v[k + 1] * Less(R[k], q[k + 1])
             /\ X[k + 1] = X[k] + x[k + 1] /\ C[k + 1] = C[k] + v[k + 1] * x[k + 1]
  <2>1. k + 1 \in 1 .. n OBVIOUS
  <2>2. v[k + 1] = s[k + 1][1] /\ q[k + 1] = s[k + 1][2] BY <1>6, <2>1
  <2>3. Paid(s, x)[k + 1] = s[k + 1][1] * x[k + 1] BY <1>1, <2>1 DEF Paid
  <2>4. X[k + 1] = X[k] + x[k + 1] /\ C[k + 1] = C[k] + Paid(s, x)[k + 1]
    BY <1>2 DEF SumsUpTo
  <2>5. /\ R[k + 1] = R[k] - Taken(s, k + 1, R[k])
        /\ N[k + 1] = N[k] + s[k + 1][1] * Taken(s, k + 1, R[k])
    BY <1>1 DEF Sweeps
  <2> QED BY <2>2, <2>3, <2>4, <2>5 DEF Taken
<1>10. R[0] = Q /\ N[0] = 0 /\ X[0] = 0 /\ C[0] = 0 BY <1>2 DEF Sweeps, SumsUpTo
<1>11. \A i \in 1 .. n : x[i] <= q[i] BY <1>3, <1>6
<1>12. Beside(n, v, q, x, Q, R, N, X, C)
  BY <1>2, <1>7, <1>8, <1>9, <1>10, <1>11 DEF Beside
<1>13. R[n] = 0 /\ N[n] <= C[n] BY <1>3, <1>5, <1>12, GreedyLeast
<1>14. n \in 0 .. n OBVIOUS
<1> QED BY <1>1, <1>2, <1>8, <1>13, <1>14

LEMMA NegatedStep ==
  ASSUME NEW a \in Int, NEW b \in Int, NEW p \in Int, NEW t \in Int, b = a + p * t
  PROVE  0 - b = (0 - a) + (0 - p) * t
<1>1. (0 - p) * t = 0 - p * t OBVIOUS
<1>2. PICK m \in Int : m = p * t BY ProductIsInt
<1>3. 0 - b = (0 - a) + (0 - m) BY <1>2
<1> QED BY <1>1, <1>2, <1>3

LEMMA SellIsMost ==
  ASSUME NEW s \in Levels, Descending(s), NEW Q \in Nat, NEW R, NEW N, Sweeps(s, Q, R, N),
         NEW x \in Fills(s, Q)
  PROVE  R[Len(s)] = 0 /\ Cost(s, x) \in Int /\ Cost(s, x) <= N[Len(s)]
<1>1. PICK n \in Nat : n = Len(s) BY DEF Levels
<1>2. PICK X, D : /\ SumsUpTo(x, n, X) /\ X[n] = Q
                  /\ SumsUpTo(Paid(s, x), n, D) /\ D[n] = Cost(s, x)
  BY <1>1, FillSums
<1>3. x \in [1 .. n -> Nat] /\ \A i \in 1 .. n : x[i] <= s[i][2] BY <1>1, FillSums
<1> DEFINE v == [i \in 1 .. n |-> 0 - s[i][1]]
           q == [i \in 1 .. n |-> s[i][2]]
           M == [k \in 0 .. n |-> 0 - N[k]]
           C == [k \in 0 .. n |-> 0 - D[k]]
<1>4. \A i \in 1 .. n : s[i][1] \in Nat /\ s[i][2] \in Nat BY <1>1, LevelAt
<1>5. v \in [1 .. n -> Int] /\ q \in [1 .. n -> Nat] BY <1>4
<1>6. \A i \in 1 .. n : v[i] = 0 - s[i][1] /\ q[i] = s[i][2] OBVIOUS
<1>7. \A k \in 0 .. n : M[k] = 0 - N[k] /\ C[k] = 0 - D[k] OBVIOUS
<1> HIDE DEF v, q, M, C
<1>8. ASSUME NEW i \in 1 .. (n - 1) PROVE v[i] <= v[i + 1]
  <2>1. i \in 1 .. n /\ i + 1 \in 1 .. n OBVIOUS
  <2>2. s[i][1] > s[i + 1][1] BY <1>1 DEF Descending
  <2> QED BY <1>4, <1>6, <2>1, <2>2
<1>9. \A k \in 0 .. n : R[k] \in Nat /\ N[k] \in Nat BY <1>1 DEF Sweeps
<1>10. \A k \in 0 .. n : X[k] \in Int /\ D[k] \in Int BY <1>2 DEF SumsUpTo
<1>11. \A k \in 0 .. n : R[k] \in Nat /\ M[k] \in Int /\ X[k] \in Int /\ C[k] \in Int
  BY <1>7, <1>9, <1>10
<1>12. ASSUME NEW k \in 0 .. (n - 1)
       PROVE  /\ R[k + 1] = R[k] - Less(R[k], q[k + 1])
              /\ M[k + 1] = M[k] + v[k + 1] * Less(R[k], q[k + 1])
              /\ X[k + 1] = X[k] + x[k + 1] /\ C[k + 1] = C[k] + v[k + 1] * x[k + 1]
  <2>1. k \in 0 .. n /\ k + 1 \in 0 .. n /\ k + 1 \in 1 .. n OBVIOUS
  <2>2. PICK p \in Int, m \in Nat, r \in Nat, y \in Int :
               p = s[k + 1][1] /\ m = s[k + 1][2] /\ r = R[k] /\ y = x[k + 1]
    <3>1. /\ s[k + 1][1] \in Nat /\ s[k + 1][2] \in Nat /\ R[k] \in Nat /\ x[k + 1] \in Nat
      BY <1>3, <1>4, <1>9, <2>1
    <3> QED BY <3>1
  <2>3. v[k + 1] = 0 - p /\ q[k + 1] = m BY <1>6, <2>1, <2>2
  <2>4. Paid(s, x)[k + 1] = p * y BY <1>1, <2>1, <2>2 DEF Paid
  <2>5. X[k + 1] = X[k] + x[k + 1] /\ D[k + 1] = D[k] + p * y
    BY <1>2, <2>4 DEF SumsUpTo
  <2>6. PICK t : t = Less(r, m) OBVIOUS
  <2>7. t \in Int BY <2>2, <2>6 DEF Less
  <2>8. R[k + 1] = R[k] - t /\ N[k + 1] = N[k] + p * t
    BY <1>1, <2>2, <2>6 DEF Sweeps, Taken
  <2>9. PICK n0 \in Int, n1 \in Int, d0 \in Int, d1 \in Int :
               n0 = N[k] /\ n1 = N[k + 1] /\ d0 = D[k] /\ d1 = D[k + 1]
    <3>1. N[k] \in Nat /\ N[k + 1] \in Nat /\ D[k] \in Int /\ D[k + 1] \in Int
      BY <1>9, <1>10, <2>1
    <3> QED BY <3>1
  <2>10. n1 = n0 + p * t /\ d1 = d0 + p * y BY <2>5, <2>8, <2>9
  <2>11. 0 - n1 = (0 - n0) + (0 - p) * t BY <2>2, <2>7, <2>9, <2>10, NegatedStep
  <2>12. 0 - d1 = (0 - d0) + (0 - p) * y
    <3>1. p \in Int /\ y \in Int /\ d0 \in Int /\ d1 \in Int /\ d1 = d0 + p * y
      BY <2>2, <2>9, <2>10
    <3> QED BY <3>1, NegatedStep
  <2>13. /\ M[k] = 0 - n0 /\ M[k + 1] = 0 - n1 /\ C[k] = 0 - d0 /\ C[k + 1] = 0 - d1
    BY <1>7, <2>1, <2>9
  <2>14. M[k + 1] = M[k] + v[k + 1] * t /\ C[k + 1] = C[k] + v[k + 1] * y
    BY <2>3, <2>11, <2>12, <2>13
  <2> QED BY <2>2, <2>3, <2>5, <2>6, <2>8, <2>14
<1>13. R[0] = Q /\ M[0] = 0 /\ X[0] = 0 /\ C[0] = 0
  <2>1. R[0] = Q /\ N[0] = 0 /\ X[0] = 0 /\ D[0] = 0 BY <1>2 DEF Sweeps, SumsUpTo
  <2> QED BY <1>7, <2>1
<1>14. \A i \in 1 .. n : x[i] <= q[i] BY <1>3, <1>6
<1>15. Beside(n, v, q, x, Q, R, M, X, C)
  BY <1>2, <1>8, <1>11, <1>12, <1>13, <1>14 DEF Beside
<1>16. R[n] = 0 /\ M[n] <= C[n] BY <1>3, <1>5, <1>15, GreedyLeast
<1>17. n \in 0 .. n OBVIOUS
<1>18. D[n] <= N[n] /\ D[n] \in Int BY <1>7, <1>9, <1>10, <1>16, <1>17
<1> QED BY <1>1, <1>2, <1>16, <1>18

LEMMA MinIs == ASSUME NEW S, S \subseteq Int, NEW m \in S, \A y \in S : m <= y
               PROVE  Min(S) = m
<1>1. Min(S) \in S /\ \A y \in S : Min(S) =< y BY DEF Min
<1>2. PICK z \in Int : z = Min(S) /\ z <= m /\ m <= z BY <1>1
<1> QED BY <1>2

LEMMA MaxIs == ASSUME NEW S, S \subseteq Int, NEW m \in S, \A y \in S : y <= m
               PROVE  Max(S) = m
<1>1. \A y \in S : m >= y OBVIOUS
<1>2. Max(S) \in S /\ \A y \in S : Max(S) >= y BY <1>1 DEF Max
<1>3. PICK z \in Int : z = Max(S) /\ z >= m /\ z <= m BY <1>2
<1> QED BY <1>3

LEMMA BestFill ==
  ASSUME NEW s \in Levels, NEW Q \in Nat, NEW side \in {"BUY", "SELL"},
         side = "BUY" => Ascending(s), side = "SELL" => Descending(s), NEW fill,
         fill = FoldLeft(Take, [remaining |-> Q, notional |-> 0, worst |-> 0], s),
         NEW costs, costs = {Cost(s, x) : x \in Fills(s, Q)}
  PROVE  /\ (fill.remaining # 0) <=> (costs = {})
         /\ costs # {} => fill.notional = IF side = "BUY" THEN Min(costs) ELSE Max(costs)
<1>1. PICK R, N : /\ Sweeps(s, Q, R, N)
                  /\ fill.remaining = R[Len(s)] /\ fill.notional = N[Len(s)]
  BY Swept
<1>2. fill.remaining = 0 => fill.notional \in costs BY <1>1, SweepFills
<1>3. ASSUME NEW c \in costs
      PROVE  /\ fill.remaining = 0 /\ c \in Int
             /\ IF side = "BUY" THEN fill.notional <= c ELSE c <= fill.notional
  <2>1. PICK x \in Fills(s, Q) : c = Cost(s, x) OBVIOUS
  <2>2. CASE side = "BUY" BY <1>1, <2>1, <2>2, BuyIsLeast
  <2>3. CASE side = "SELL" BY <1>1, <2>1, <2>3, SellIsMost
  <2> QED BY <2>2, <2>3
<1>4. (fill.remaining # 0) <=> (costs = {}) BY <1>2, <1>3
<1>5. ASSUME costs # {}
      PROVE  fill.notional = IF side = "BUY" THEN Min(costs) ELSE Max(costs)
  <2>1. PICK m \in costs : m = fill.notional BY <1>2, <1>4, <1>5
  <2>2. costs \subseteq Int BY <1>3
  <2>3. CASE side = "BUY"
    <3>1. \A c \in costs : m <= c BY <1>3, <2>1, <2>3
    <3>2. Min(costs) = m BY <2>2, <3>1, MinIs
    <3> QED BY <2>1, <2>3, <3>2
  <2>4. CASE side = "SELL"
    <3>1. \A c \in costs : c <= m BY <1>3, <2>1, <2>4
    <3>2. Max(costs) = m BY <2>2, <3>1, MaxIs
    <3> QED BY <2>1, <2>4, <3>2
  <2> QED BY <2>3, <2>4
<1> QED BY <1>4, <1>5

(* sweep_depth of a reconstructed book finds the cheapest purchase or the    *)
(* dearest sale of the quantity, and refuses only when no fill exists, for   *)
(* any prices, sizes, depth and quantity: the levels the reconstruction      *)
(* appended are in the order the sweep relies on.                            *)
THEOREM SweepIsBestFill == Spec => []SweepIsBest
<1>1. Spec => []BooksInv BY BooksInvariant
<1>2. BooksInv => SweepIsBest
  <2> SUFFICES ASSUME BooksInv, NEW c \in Channels, NEW side \in {"BUY", "SELL"},
                      NEW quantity \in 1 .. MaxQty, epochs[c] # NoBook, ~aborted
               PROVE  LET fill == sweep_depth(epochs[c], side, quantity)
                          levels == IF side = "BUY" THEN epochs[c].asks ELSE epochs[c].bids
                          costs == {Cost(levels, x) : x \in Fills(levels, quantity)}
                      IN /\ (fill.remaining # 0) <=> (costs = {})
                         /\ costs # {} =>
                              fill.notional = IF side = "BUY" THEN Min(costs) ELSE Max(costs)
    BY DEF SweepIsBest
  <2>1. PICK r, b : r = live[c] /\ b = epochs[c] OBVIOUS
  <2>2. Agree(r, b) BY <2>1 DEF BooksInv
  <2>3. /\ b.asks \in Levels /\ b.bids \in Levels /\ Ascending(b.asks) /\ Descending(b.bids)
    BY <2>2 DEF Agree, Rep, Admitted
  <2>4. PICK Q \in Nat : Q = quantity BY LevelAssumption
  <2>5. PICK s : s = IF side = "BUY" THEN b.asks ELSE b.bids OBVIOUS
  <2>6. s \in Levels /\ (side = "BUY" => Ascending(s)) /\ (side = "SELL" => Descending(s))
    BY <2>3, <2>5
  <2>7. PICK fill : fill = FoldLeft(Take, [remaining |-> Q, notional |-> 0, worst |-> 0], s)
    OBVIOUS
  <2>8. PICK costs : costs = {Cost(s, x) : x \in Fills(s, Q)} OBVIOUS
  <2>9. /\ (fill.remaining # 0) <=> (costs = {})
        /\ costs # {} => fill.notional = IF side = "BUY" THEN Min(costs) ELSE Max(costs)
    BY <2>6, <2>7, <2>8, BestFill
  <2>10. fill = sweep_depth(b, side, Q) BY <2>5, <2>7 DEF sweep_depth, SideLevels
  <2> QED BY <2>1, <2>4, <2>5, <2>8, <2>9, <2>10
<1> QED BY <1>1, <1>2, PTL

-----------------------------------------------------------------------------
(* The pool: the least input that buys a quantity *)

LEMMA DivIs ==
  ASSUME NEW a \in Int, NEW b \in Nat, b > 0
  PROVE  \E d \in Int, r \in Nat : a \div b = d /\ a = b * d + r /\ r < b
<1>1. a \div b \in Int /\ a % b \in Nat /\ a % b < b OBVIOUS
<1>2. a = b * (a \div b) + (a % b) OBVIOUS
<1> QED BY <1>1, <1>2

LEMMA Spread ==
  ASSUME NEW a \in Int, NEW b \in Int, NEW c \in Int
  PROVE  a * (b + c) = a * b + a * c /\ a * (b - c) = a * b - a * c
OBVIOUS

(* A product stays below when a factor is no larger.                         *)
LEMMA Grows ==
  ASSUME NEW a \in Int, NEW b \in Int, NEW e \in Nat, a <= b
  PROVE  e * a <= e * b
BY TimesMonotone, ProductIsInt

LEMMA Cancels ==
  ASSUME NEW a \in Int, NEW b \in Int, NEW e \in Nat, e > 0, e * a < e * b
  PROVE  a < b
<1>1. ASSUME b <= a PROVE FALSE
  <2>1. e * b <= e * a BY <1>1, Grows
  <2>2. PICK u \in Int, w \in Int : u = e * a /\ w = e * b BY ProductIsInt
  <2> QED BY <2>1, <2>2
<1> QED BY <1>1

LEMMA LeastIsInt ==
  ASSUME NEW q \in Nat, NEW in \in Nat, NEW out \in Nat, q < out, NEW fee \in Nat, fee < Basis
  PROVE  LeastInput(q, in, out, fee) \in Int
<1>1. PICK B \in Nat, D \in Nat, E \in Nat :
        B = Basis /\ D = out - q /\ E = B - fee /\ D > 0 /\ E > 0
  <2>1. Basis \in Nat BY MezoAssumption
  <2>2. out - q \in Nat /\ out - q > 0 /\ Basis - fee \in Nat /\ Basis - fee > 0 BY <2>1
  <2> QED BY <2>1, <2>2
<1>2. PICK x \in Int : x = q * in BY ProductIsInt
<1>3. PICK d \in Int : (x + D - 1) \div D = d
  <2>1. x + D - 1 \in Int OBVIOUS
  <2> QED BY <1>1, <2>1, DivIs
<1>4. PICK z \in Int : z = (d - 1) * B
  <2>1. d - 1 \in Int OBVIOUS
  <2> QED BY <2>1, ProductIsInt
<1>5. PICK e \in Int : z \div E = e BY <1>1, DivIs
<1>6. LeastInput(q, in, out, fee) = e + 1 BY <1>1, <1>2, <1>3, <1>4, <1>5 DEF LeastInput
<1> QED BY <1>6

(* What remains of an amount after the fee: more than the fee leaves of it   *)
(* by less than one unit.                                                    *)
LEMMA NetIs ==
  ASSUME NEW a \in Nat, NEW fee \in Nat, fee < Basis
  PROVE  /\ Net(a, fee) \in Nat
         /\ Basis * Net(a, fee) < (Basis - fee) * a + Basis
<1>1. PICK B \in Nat : B = Basis /\ B > 0 BY MezoAssumption
<1>2. a * fee \in Int OBVIOUS
<1>3. PICK u \in Int, w \in Nat : (a * fee) \div B = u /\ a * fee = B * u + w /\ w < B
  BY <1>1, <1>2, DivIs
<1>4. Net(a, fee) = a - u BY <1>1, <1>3 DEF Net
<1>5. PICK x \in Int, y \in Int, z \in Int : x = a * fee /\ y = B * u /\ z = B * a
  BY ProductIsInt
<1>6. x <= z
  <2>1. a * fee <= a * B BY <1>1, Grows
  <2> QED BY <1>5, <2>1
<1>7. u <= a
  <2>1. ASSUME a < u PROVE FALSE
    <3>1. B * (a + 1) <= B * u
      <4>1. a + 1 \in Int /\ a + 1 <= u BY <2>1
      <4> QED BY <4>1, Grows
    <3>2. B * (a + 1) = B * a + B * 1 BY Spread
    <3>3. z + B <= y BY <3>1, <3>2, <1>5
    <3>4. x = y + w BY <1>3, <1>5
    <3> QED BY <3>3, <3>4, <1>6, <1>1
  <2> QED BY <2>1
<1>8. Basis * Net(a, fee) < (Basis - fee) * a + Basis
  <2>1. B * (a - u) = B * a - B * u BY Spread
  <2>2. B - fee \in Int BY <1>1
  <2>3. (B - fee) * a = a * B - a * fee BY <2>2, ProductIsInt, Spread
  <2>4. a * B = B * a BY ProductIsInt
  <2>5. B * (a - u) = z - y /\ (B - fee) * a = z - x BY <2>1, <2>3, <2>4, <1>5
  <2>6. x = y + w BY <1>3, <1>5
  <2>7. z - y < z - x + B BY <2>6, <1>3
  <2>8. B * (a - u) < (B - fee) * a + B BY <2>5, <2>7
  <2> QED BY <2>8, <1>1, <1>4
<1> QED BY <1>4, <1>7, <1>8

(* An input below the least one leaves, after the fee, less than the net     *)
(* amount the pool must be paid for the quantity.                            *)
LEMMA LessIsTooLittle ==
  ASSUME NEW q \in Nat, q > 0, NEW in \in Nat, in > 0, NEW out \in Nat, q < out,
         NEW fee \in Nat, fee < Basis,
         NEW a \in Nat, a < LeastInput(q, in, out, fee)
  PROVE  amm_amount_out(a, in, out, fee) < q
<1>1. PICK B \in Nat : B = Basis /\ B > 0 BY MezoAssumption
<1>2. PICK D \in Nat : D = out - q /\ D > 0
  <2>1. out - q \in Nat /\ out - q > 0 OBVIOUS
  <2> QED BY <2>1
<1>3. PICK x \in Int : x = q * in BY ProductIsInt
<1>4. PICK d \in Int, r \in Nat : (x + D - 1) \div D = d /\ x + D - 1 = D * d + r /\ r < D
  <2>1. x + D - 1 \in Int OBVIOUS
  <2> QED BY <1>2, <2>1, DivIs
<1>5. PICK m \in Int : m = d - 1 OBVIOUS
<1>6. D * m < x
  <2>1. D * (d - 1) = D * d - D * 1 BY Spread
  <2>2. PICK y \in Int : y = D * d BY ProductIsInt
  <2>3. D * (d - 1) = y - D BY <2>1, <2>2
  <2>4. x + D - 1 = y + r BY <1>4, <2>2
  <2>5. y - D < x BY <2>4
  <2> QED BY <1>5, <2>3, <2>5
<1>7. PICK E \in Nat : E = B - fee /\ E > 0
  <2>1. B - fee \in Nat /\ B - fee > 0 BY <1>1
  <2> QED BY <2>1
<1>8. PICK z \in Int : z = m * B BY ProductIsInt
<1>9. PICK e \in Int, s \in Nat : z \div E = e /\ z = E * e + s /\ s < E BY <1>7, DivIs
<1>10. LeastInput(q, in, out, fee) = e + 1
  BY <1>1, <1>2, <1>3, <1>4, <1>5, <1>7, <1>8, <1>9 DEF LeastInput
<1>11. a <= e BY <1>10
<1>12. E * a <= z
  <2>1. E * a <= E * e BY <1>11, Grows
  <2>2. PICK t \in Int, o \in Int : t = E * a /\ o = E * e BY ProductIsInt
  <2>3. z = o + s BY <1>9, <2>2
  <2> QED BY <2>1, <2>2, <2>3
<1>13. PICK N \in Nat : N = Net(a, fee) /\ B * N < E * a + B BY <1>1, <1>7, NetIs
<1>14. N <= m
  <2>1. B * (m + 1) = B * m + B * 1 /\ B * m = m * B BY Spread, ProductIsInt
  <2>2. PICK t \in Int, o \in Int : t = E * a /\ o = B * N BY ProductIsInt
  <2>3. B * (m + 1) = z + B BY <2>1, <1>8
  <2>4. o < z + B BY <2>2, <1>12, <1>13
  <2>5. B * N < B * (m + 1) BY <2>2, <2>3, <2>4
  <2>6. m + 1 \in Int OBVIOUS
  <2>7. N < m + 1 BY <2>5, <2>6, <1>1, Cancels
  <2> QED BY <2>7
<1>15. D * N < x
  <2>1. D * N <= D * m BY <1>14, Grows
  <2>2. PICK t \in Int, o \in Int : t = D * N /\ o = D * m BY ProductIsInt
  <2> QED BY <1>6, <2>1, <2>2
<1>16. PICK S \in Nat : S = in + N /\ S > 0
  <2>1. in + N \in Nat /\ in + N > 0 OBVIOUS
  <2> QED BY <2>1
<1>17. PICK p \in Int : p = N * out BY ProductIsInt
<1>18. p < S * q
  <2>1. PICK h \in Int, k \in Int : h = N * q /\ k = D * N BY ProductIsInt
  <2>2. D * N = N * (out - q) BY <1>2, ProductIsInt
  <2>3. N * (out - q) = N * out - N * q BY Spread
  <2>4. k = p - h BY <2>1, <2>2, <2>3, <1>17
  <2>5. S * q = q * (in + N) BY <1>16, ProductIsInt
  <2>6. q * (in + N) = q * in + q * N /\ q * N = N * q BY Spread, ProductIsInt
  <2>7. S * q = x + h BY <2>1, <2>5, <2>6, <1>3
  <2>8. k < x BY <2>1, <1>15
  <2> QED BY <2>4, <2>7, <2>8
<1>19. PICK g \in Int, h \in Nat : p \div S = g /\ p = S * g + h /\ h < S BY <1>16, DivIs
<1>20. S * g < S * q
  <2>1. PICK t \in Int, o \in Int : t = S * g /\ o = S * q BY ProductIsInt
  <2>2. p = t + h /\ p < o BY <2>1, <1>18, <1>19
  <2>3. t < o BY <2>2
  <2> QED BY <2>1, <2>3
<1>21. g < q BY <1>16, <1>20, Cancels
<1>22. amm_amount_out(a, in, out, fee) = g
  BY <1>13, <1>16, <1>17, <1>19 DEF amm_amount_out
<1> QED BY <1>21, <1>22

-----------------------------------------------------------------------------
(* The captures: as long as the node has not left the block of the header,   *)
(* every answer is of that block and every call due by now is answered or in *)
(* flight.                                                                   *)

SystemCalls == {<<"price">>, <<"count">>, <<"totals">>, <<"size">>, <<"last">>, <<"first">>}
Held(t) == IF Len(t.list) <= QUEUE_LIMIT THEN Len(t.list) ELSE 0
About(o, price) == {<<"trove", o>>, <<"active", o>>, <<"icr", o, price>>}
OwnerCalls(t, b) ==
  {<<"owner", i>> : i \in 1..Held(t)} \cup {<<"tcr", t.price>>} \cup About(b, t.price)
LinkCalls(t) ==
  UNION {{<<"prev", t.array[i]>>, <<"next", t.array[i]>>} \cup About(t.array[i], t.price) :
           i \in 1..Held(t)}

Due(phase, t, for) ==
  CASE phase = "system" -> SystemCalls
    [] phase = "owners" -> SystemCalls \cup OwnerCalls(t, for.borrower)
    [] phase = "nodes" -> SystemCalls \cup OwnerCalls(t, for.borrower) \cup LinkCalls(t)
    [] phase = "reserves" -> {<<"reserves">>}
    [] phase \in {"fee", "pool", "router"} -> {<<"reserves">>, <<"fee">>}
    [] OTHER -> {}

Formed ==
  /\ DOMAIN capture = {"phase", "for", "hash", "flight", "answers"}
  /\ capture = [x \in DOMAIN capture |-> capture[x]]
  /\ capture.for.product \in {"trove", "dex"}
  /\ capture.for.product = "dex" => capture.for.quantity \in Quantities
  /\ capture.hash \in Forks

Honest == \A q \in DOMAIN capture.answers : capture.answers[q] = Answer(capture.hash, q)
Pursued ==
  \A q \in Due(capture.phase, Troves[capture.hash], capture.for) :
    q \in DOMAIN capture.answers \/ \E r \in capture.flight : q \in r

CaptureInv ==
  /\ pool \in Pools /\ fork \in Forks
  /\ capture.phase = "none" => verdict = "pending"
  /\ capture.phase # "none" =>
       /\ Formed
       /\ fork = capture.hash \/ capture.hash \in gone
       /\ capture.hash \notin gone => Honest /\ Pursued
  /\ verdict = "verified" =>
       /\ Collected /\ fork = capture.hash
       /\ IF IsTrove THEN _verify ELSE verify_capture

(* The pool of a block never changes, so what the node answers does not.     *)
LEMMA HonestNext ==
  ASSUME pool' = pool, NEW a, NEW h, capture'.answers = a, capture'.hash = h,
         \A q \in DOMAIN a : a[q] = Answer(h, q)
  PROVE  Honest'
BY DEF Honest, Answer, amm_amount_out, Net

LEMMA HonestNow ==
  ASSUME Honest, NEW a, NEW h, capture.answers = a, capture.hash = h
  PROVE  \A q \in DOMAIN a : a[q] = Answer(h, q)
BY DEF Honest, Answer, amm_amount_out, Net

LEMMA PursuedNext ==
  ASSUME NEW c, capture' = c,
         \A q \in Due(c.phase, Troves[c.hash], c.for) :
           q \in DOMAIN c.answers \/ \E r \in c.flight : q \in r
  PROVE  Pursued'
BY DEF Pursued

LEMMA WalkStays == ASSUME capture' = capture PROVE Walk' = Walk
BY DEF Walk, Size, Walked, A, Start, Visit, Bare, Owners, OwnerAt, Icr, Debt, TroveValid, Fits, _icr

LEMMA VerifiedStays ==
  ASSUME capture' = capture, IF IsTrove THEN _verify ELSE verify_capture
  PROVE  (IF IsTrove THEN _verify ELSE verify_capture)'
<1>1. _verify => _verify'
  BY WalkStays
     DEF _verify, ListValid, SystemValid, Size, Walked, A, Owners, OwnerAt, Icr, Debt,
         TroveValid, Fits, _icr
<1>2. verify_capture => verify_capture'
  <2>1. /\ Reserve("musd")' = Reserve("musd") /\ Reserve("btc")' = Reserve("btc")
        /\ Reserve(In)' = Reserve(In) /\ Reserve(Out)' = Reserve(Out)
        /\ In' = In /\ Out' = Out /\ A(<<"fee">>)' = A(<<"fee">>)
        /\ capture.for' = capture.for
    BY DEF Reserve, In, Out, A
  <2>2. Amount' = Amount BY <2>1 DEF Amount, _buy_input, LeastInput
  <2>3. /\ A(Quote("pool_quote"))' = A(Quote("pool_quote"))
        /\ A(Quote("router_quote"))' = A(Quote("router_quote"))
    BY <2>1, <2>2 DEF A, Quote
  <2>4. Buyable' = Buyable BY <2>1 DEF Buyable
  <2>5. /\ Overflows(Amount, Reserve(In), Reserve(Out), A(<<"fee">>))'
            = Overflows(Amount, Reserve(In), Reserve(Out), A(<<"fee">>))
        /\ amm_amount_out(Amount, Reserve(In), Reserve(Out), A(<<"fee">>))'
            = amm_amount_out(Amount, Reserve(In), Reserve(Out), A(<<"fee">>))
    BY <2>1, <2>2 DEF Overflows, amm_amount_out, Net
  <2> QED BY <2>1, <2>3, <2>4, <2>5 DEF verify_capture
<1> QED BY <1>1, <1>2 DEF IsTrove

Among(q, calls) == \E n \in Nat : DOMAIN calls = 1 .. n /\ \E i \in 1 .. n : calls[i] = q

(* Every call that is asked for is answered already or in some request.      *)
LEMMA Covers ==
  ASSUME NEW n \in Nat, NEW calls, DOMAIN calls = 1 .. n, NEW i \in 1 .. n
  PROVE  calls[i] \in DOMAIN capture.answers \/ \E r \in Requested(calls) : calls[i] \in r
<1> DEFINE same == {j \in 1 .. n : calls[j] = calls[i]}
<1>1. PICK m \in same : \A j \in same : m <= j
  <2>1. i \in same /\ same \subseteq Nat OBVIOUS
  <2> HIDE DEF same
  <2> QED BY <2>1, LeastNat
<1>2. m \in 1 .. n /\ calls[m] = calls[i] BY <1>1
<1>3. ASSUME NEW j \in 1 .. (m - 1) PROVE calls[j] # calls[m]
  <2>1. j \in 1 .. n /\ j < m BY <1>2
  <2> QED BY <1>1, <1>2, <2>1
<1> DEFINE missing == {k \in DOMAIN calls : /\ calls[k] \notin DOMAIN capture.answers
                                           /\ \A j \in 1..(k - 1) : calls[j] # calls[k]}
           batch(k) == Cardinality({j \in missing : j < k}) \div Batch
           request(k) == {calls[j] : j \in {l \in missing : batch(l) = batch(k)}}
<1>4. Requested(calls) = {request(k) : k \in missing} BY DEF Requested
<1>5. calls[m] \notin DOMAIN capture.answers => m \in missing BY <1>2, <1>3
<1>6. m \in missing => calls[m] \in request(m) OBVIOUS
<1> HIDE DEF missing, request
<1> QED BY <1>2, <1>4, <1>5, <1>6

LEMMA CaptureInit == Init => CaptureInv
BY DEF Init, MezoInit, CaptureInv

(* The node's side of the invariant, for a capture that goes on unverified.  *)
LEMMA GoesOn ==
  ASSUME CaptureInv, pool' = pool, fork' = fork, gone' = gone, verdict' # "verified",
         capture'.phase # "none", Formed',
         fork = capture'.hash \/ capture'.hash \in gone,
         capture'.hash \notin gone => Honest' /\ Pursued'
  PROVE  CaptureInv'
BY DEF CaptureInv

LEMMA Kept ==
  ASSUME CaptureInv, pool' = pool, fork' = fork, gone' = gone, capture' = capture,
         verdict' = verdict \/ (verdict' = "invalid" /\ capture.phase # "none")
  PROVE  CaptureInv'
<1>1. capture.phase # "none" => Formed' BY DEF CaptureInv, Formed
<1>2. Honest => Honest'
  <2> SUFFICES ASSUME Honest PROVE Honest' OBVIOUS
  <2>1. PICK a, h : a = capture.answers /\ h = capture.hash OBVIOUS
  <2>2. \A q \in DOMAIN a : a[q] = Answer(h, q) BY <2>1, HonestNow
  <2> QED BY <2>1, <2>2, HonestNext
<1>3. Pursued => Pursued' BY DEF Pursued
<1>4. verdict' = "verified" => Collected' /\ fork' = capture'.hash
  BY DEF CaptureInv, Collected, IsTrove
<1>5. verdict' = "verified" => (IF IsTrove THEN _verify ELSE verify_capture)'
  BY VerifiedStays DEF CaptureInv
<1> QED BY <1>1, <1>2, <1>3, <1>4, <1>5 DEF CaptureInv

LEMMA BeginKeeps ==
  ASSUME CaptureInv, NEW for, Begin(for), for.product \in {"trove", "dex"},
         for.product = "dex" => for.quantity \in Quantities
  PROVE  CaptureInv'
<1>1. /\ capture' = [phase |-> "header", for |-> for, hash |-> fork, flight |-> {},
                     answers |-> << >>]
      /\ pool' = pool /\ fork' = fork /\ gone' = gone /\ verdict' = verdict
      /\ verdict = "pending" /\ fork \in Forks
  BY DEF Begin, CaptureInv
<1>2. Formed' BY <1>1 DEF Formed
<1>3. Honest'
  <2>1. PICK a, h : a = << >> /\ h = fork OBVIOUS
  <2> QED BY <1>1, <2>1, HonestNext
<1>4. Pursued'
  <2>1. PICK c : c = capture' OBVIOUS
  <2>2. Due(c.phase, Troves[c.hash], c.for) = {} BY <1>1, <2>1 DEF Due
  <2> QED BY <2>1, <2>2, PursuedNext
<1> QED BY <1>1, <1>2, <1>3, <1>4, GoesOn

LEMMA EnterKeeps ==
  ASSUME CaptureInv, capture.phase # "none", verdict = "pending", capture.flight = {},
         NEW phase, phase # "none", NEW calls, Enter(phase, calls),
         capture.hash \notin gone =>
           \A q \in Due(phase, Troves[capture.hash], capture.for) :
             \/ q \in Due(capture.phase, Troves[capture.hash], capture.for)
             \/ Among(q, calls)
  PROVE  CaptureInv'
<1>1. /\ capture' = [capture EXCEPT !.phase = phase, !.flight = Requested(calls)]
      /\ pool' = pool /\ fork' = fork /\ gone' = gone /\ verdict' = verdict
  BY DEF Enter
<1>2. Formed BY DEF CaptureInv
<1>3. /\ capture'.phase = phase /\ capture'.flight = Requested(calls)
      /\ capture'.answers = capture.answers /\ capture'.hash = capture.hash
      /\ capture'.for = capture.for
  BY <1>1, <1>2 DEF Formed
<1>4. Formed' BY <1>1, <1>2 DEF Formed
<1>5. ASSUME capture.hash \notin gone PROVE Honest' /\ Pursued'
  <2>1. Honest /\ Pursued BY <1>5 DEF CaptureInv
  <2>2. PICK a, h : a = capture.answers /\ h = capture.hash OBVIOUS
  <2>3. \A q \in DOMAIN a : a[q] = Answer(h, q) BY <2>1, <2>2, HonestNow
  <2>4. Honest' BY <1>1, <1>3, <2>2, <2>3, HonestNext
  <2>5. PICK c : c = capture' OBVIOUS
  <2>6. ASSUME NEW q \in Due(c.phase, Troves[c.hash], c.for)
        PROVE  q \in DOMAIN c.answers \/ \E r \in c.flight : q \in r
    <3>1. \/ q \in Due(capture.phase, Troves[capture.hash], capture.for)
          \/ Among(q, calls)
      BY <1>3, <1>5, <2>5
    <3>2. CASE q \in Due(capture.phase, Troves[capture.hash], capture.for)
      <4>1. q \in DOMAIN capture.answers BY <2>1, <3>2 DEF Pursued
      <4> QED BY <1>3, <2>5, <4>1
    <3>3. CASE Among(q, calls)
      <4>1. PICK n \in Nat : DOMAIN calls = 1 .. n /\ \E i \in 1 .. n : calls[i] = q
        BY <3>3 DEF Among
      <4>2. PICK i \in 1 .. n : calls[i] = q BY <4>1
      <4>3. calls[i] \in DOMAIN capture.answers \/ \E r \in Requested(calls) : calls[i] \in r
        BY <4>1, Covers
      <4> QED BY <1>3, <2>5, <4>2, <4>3
    <3> QED BY <3>1, <3>2, <3>3
  <2>7. Pursued' BY <2>5, <2>6, PursuedNext
  <2> QED BY <2>4, <2>7
<1>6. fork = capture.hash \/ capture.hash \in gone BY DEF CaptureInv
<1> QED BY <1>1, <1>3, <1>4, <1>5, <1>6, GoesOn

LEMMA RespondKeeps == ASSUME CaptureInv, Respond PROVE CaptureInv'
<1>1. /\ pool' = pool /\ fork' = fork /\ gone' = gone /\ verdict = "pending"
      /\ capture.phase # "none"
  BY DEF Respond
<1>2. CASE verdict' = "invalid" /\ UNCHANGED capture BY <1>1, <1>2, Kept
<1>3. ASSUME NEW r \in capture.flight, UNCHANGED verdict,
             capture' = [capture EXCEPT !.flight = @ \ {r},
                           !.answers = [q \in r \cup DOMAIN @ |->
                                          IF q \in r THEN Answer(fork, q) ELSE @[q]]]
      PROVE  CaptureInv'
  <2>1. Formed BY <1>1 DEF CaptureInv
  <2>2. /\ capture'.phase = capture.phase /\ capture'.flight = capture.flight \ {r}
        /\ capture'.answers = [q \in r \cup DOMAIN capture.answers |->
                                 IF q \in r THEN Answer(fork, q) ELSE capture.answers[q]]
        /\ capture'.hash = capture.hash /\ capture'.for = capture.for
    BY <1>3, <2>1 DEF Formed
  <2>3. Formed' BY <1>3, <2>1 DEF Formed
  <2>4. ASSUME capture.hash \notin gone PROVE Honest' /\ Pursued'
    <3>1. Honest /\ Pursued /\ fork = capture.hash BY <1>1, <2>4 DEF CaptureInv
    <3>2. PICK a, h : a = capture.answers /\ h = capture.hash OBVIOUS
    <3>3. \A q \in DOMAIN a : a[q] = Answer(h, q) BY <3>1, <3>2, HonestNow
    <3>4. PICK z : z = [q \in r \cup DOMAIN a |-> IF q \in r THEN Answer(h, q) ELSE a[q]]
      OBVIOUS
    <3>5. /\ DOMAIN z = r \cup DOMAIN a
          /\ \A q \in DOMAIN z : z[q] = IF q \in r THEN Answer(h, q) ELSE a[q]
      BY <3>4
    <3>6. \A q \in DOMAIN z : z[q] = Answer(h, q) BY <3>3, <3>5
    <3>7. capture'.answers = z BY <2>2, <3>1, <3>2, <3>4
    <3>8. Honest' BY <1>1, <2>2, <3>2, <3>6, <3>7, HonestNext
    <3>9. PICK c : c = capture' OBVIOUS
    <3>10. ASSUME NEW q \in Due(c.phase, Troves[c.hash], c.for)
           PROVE  q \in DOMAIN c.answers \/ \E s \in c.flight : q \in s
      <4>1. q \in DOMAIN capture.answers \/ \E s \in capture.flight : q \in s
        BY <2>2, <3>1, <3>9 DEF Pursued
      <4> QED BY <2>2, <3>2, <3>5, <3>7, <3>9, <4>1
    <3>11. Pursued' BY <3>9, <3>10, PursuedNext
    <3> QED BY <3>8, <3>11
  <2>5. fork = capture.hash \/ capture.hash \in gone BY <1>1 DEF CaptureInv
  <2> QED BY <1>1, <1>3, <2>2, <2>3, <2>4, <2>5, GoesOn
<1> QED BY <1>2, <1>3 DEF Respond

LEMMA ReorgKeeps == ASSUME CaptureInv, Reorg PROVE CaptureInv'
<1>1. /\ capture' = capture /\ pool' = pool /\ verdict' = verdict /\ verdict = "pending"
      /\ capture.phase # "none" /\ gone' = gone \cup {fork} /\ fork' \in Forks
  BY DEF Reorg
<1>2. Formed' BY <1>1 DEF CaptureInv, Formed
<1>3. capture'.hash \in gone' BY <1>1 DEF CaptureInv
<1> QED BY <1>1, <1>2, <1>3 DEF CaptureInv

LEMMA RefuseKeeps == ASSUME CaptureInv, Refuse PROVE CaptureInv'
BY Kept DEF Refuse

LEMMA VerifyKeeps == ASSUME CaptureInv, Verify PROVE CaptureInv'
<1>1. /\ capture' = capture /\ pool' = pool /\ fork' = fork /\ gone' = gone
      /\ capture.phase # "none" /\ Collected
  BY DEF Verify
<1>2. CASE SameBlock /\ (IF IsTrove THEN _verify ELSE verify_capture)
  <2>1. verdict' = "verified" BY <1>2 DEF Verify
  <2>2. (IF IsTrove THEN _verify ELSE verify_capture)' BY <1>1, <1>2, VerifiedStays
  <2>3. Collected' /\ fork' = capture'.hash BY <1>1, <1>2 DEF Collected, IsTrove, SameBlock
  <2>4. Formed' BY <1>1 DEF CaptureInv, Formed
  <2>5. Honest => Honest'
    <3> SUFFICES ASSUME Honest PROVE Honest' OBVIOUS
    <3>1. PICK a, h : a = capture.answers /\ h = capture.hash OBVIOUS
    <3>2. \A q \in DOMAIN a : a[q] = Answer(h, q) BY <3>1, HonestNow
    <3> QED BY <1>1, <3>1, <3>2, HonestNext
  <2>6. Pursued => Pursued' BY <1>1 DEF Pursued
  <2> QED BY <1>1, <2>1, <2>2, <2>3, <2>4, <2>5, <2>6 DEF CaptureInv
<1>3. CASE ~(SameBlock /\ (IF IsTrove THEN _verify ELSE verify_capture))
  <2>1. verdict' = "invalid" BY <1>3 DEF Verify
  <2> QED BY <1>1, <2>1, Kept
<1> QED BY <1>2, <1>3

(* What is asked for in a phase, when the answers so far are of the block.   *)
LEMMA Known ==
  ASSUME Honest, NEW q \in DOMAIN capture.answers
  PROVE  A(q) = Answer(capture.hash, q)
BY DEF Honest, A

Holds(s, q) == \E i \in 1 .. Len(s) : s[i] = q

LEMMA Joined ==
  ASSUME NEW D, NEW s \in Seq(D), NEW u \in Seq(D), NEW q, Holds(s, q) \/ Holds(u, q)
  PROVE  Holds(s \o u, q)
<1>1. Len(s \o u) = Len(s) + Len(u) OBVIOUS
<1>2. CASE Holds(s, q)
  <2>1. PICK i \in 1 .. Len(s) : s[i] = q BY <1>2 DEF Holds
  <2>2. i \in 1 .. Len(s \o u) /\ (s \o u)[i] = q BY <1>1, <2>1
  <2> QED BY <2>2 DEF Holds
<1>3. CASE Holds(u, q)
  <2>1. PICK i \in 1 .. Len(u) : u[i] = q BY <1>3 DEF Holds
  <2>2. Len(s) + i \in 1 .. Len(s \o u) /\ (s \o u)[Len(s) + i] = q BY <1>1, <2>1
  <2> QED BY <2>2 DEF Holds
<1> QED BY <1>2, <1>3

LEMMA SystemKnown ==
  ASSUME CaptureInv, capture.phase \in {"system", "owners", "nodes"}, capture.flight = {},
         capture.hash \notin gone, NEW t, t = Troves[capture.hash]
  PROVE  /\ A(<<"price">>) = t.price /\ A(<<"size">>) = Len(t.list)
         /\ Size = Held(t) /\ Size \in Nat
         /\ A(<<"last">>) = At(t, Len(t.list))
<1>1. Honest /\ Pursued /\ capture.hash \in Forks BY DEF CaptureInv, Formed
<1>2. SystemCalls \subseteq DOMAIN capture.answers BY <1>1 DEF Pursued, Due
<1>3. /\ A(<<"price">>) = t.price /\ A(<<"size">>) = Len(t.list)
      /\ A(<<"last">>) = At(t, Len(t.list))
  <2>1. <<"price">> \in SystemCalls /\ <<"size">> \in SystemCalls /\ <<"last">> \in SystemCalls
    BY DEF SystemCalls
  <2>2. /\ A(<<"price">>) = Answer(capture.hash, <<"price">>)
        /\ A(<<"size">>) = Answer(capture.hash, <<"size">>)
        /\ A(<<"last">>) = Answer(capture.hash, <<"last">>)
    BY <1>1, <1>2, <2>1, Known
  <2> QED BY <2>2 DEF Answer
<1>4. Len(t.list) \in Nat
  <2>1. t.list \in Seq(DOMAIN t.debt) BY <1>1, TroveAssumption
  <2> QED BY <2>1
<1> QED BY <1>3, <1>4 DEF Size, Walked, Held

LEMMA OwnersKeeps ==
  ASSUME CaptureInv, verdict = "pending", capture.flight = {}, capture.phase = "system",
         Enter("owners", [i \in 1..Size |-> <<"owner", i>>]
                         \o << <<"tcr", A(<<"price">>)>> >> \o TroveCalls(capture.for.borrower))
  PROVE  CaptureInv'
<1>1. PICK calls : calls = [i \in 1..Size |-> <<"owner", i>>]
                           \o << <<"tcr", A(<<"price">>)>> >> \o TroveCalls(capture.for.borrower)
  OBVIOUS
<1>2. Enter("owners", calls) BY <1>1
<1>3. ASSUME capture.hash \notin gone,
             NEW q \in OwnerCalls(Troves[capture.hash], capture.for.borrower)
      PROVE  Among(q, calls)
  <2>1. PICK t, b : t = Troves[capture.hash] /\ b = capture.for.borrower OBVIOUS
  <2>2. /\ A(<<"price">>) = t.price /\ Size = Held(t) /\ Size \in Nat
    BY <1>3, <2>1, SystemKnown
  <2>3. PICK m \in Nat : m = Size BY <2>2
  <2>4. PICK x, y, z, w : /\ x = [i \in 1 .. m |-> <<"owner", i>>]
                          /\ y = << <<"tcr", t.price>> >>
                          /\ z = << <<"trove", b>>, <<"active", b>>, <<"icr", b, t.price>> >>
                          /\ w = x \o y
    OBVIOUS
  <2>5. calls = w \o z BY <1>1, <2>1, <2>2, <2>3, <2>4 DEF TroveCalls
  <2>6. PICK D : D = {<<"owner", i>> : i \in 1 .. m} \cup {<<"tcr", t.price>>}
                     \cup About(b, t.price)
    OBVIOUS
  <2>7. /\ x \in Seq(D) /\ Len(x) = m /\ y \in Seq(D) /\ Len(y) = 1
        /\ z \in Seq(D) /\ Len(z) = 3
    BY <2>4, <2>6 DEF About
  <2>8. w \in Seq(D) BY <2>4, <2>7
  <2>9. /\ \A i \in 1 .. m : x[i] = <<"owner", i>>
        /\ y[1] = <<"tcr", t.price>>
        /\ z[1] = <<"trove", b>> /\ z[2] = <<"active", b>> /\ z[3] = <<"icr", b, t.price>>
    BY <2>4
  <2>10. /\ \A i \in 1 .. m : i \in 1 .. Len(x)
         /\ 1 \in 1 .. Len(y) /\ 1 \in 1 .. Len(z) /\ 2 \in 1 .. Len(z) /\ 3 \in 1 .. Len(z)
    BY <2>7
  <2>11. \/ \E i \in 1 .. m : q = <<"owner", i>>
         \/ q \in {<<"tcr", t.price>>, <<"trove", b>>, <<"active", b>>, <<"icr", b, t.price>>}
    BY <2>1, <2>2, <2>3 DEF OwnerCalls, About
  <2>12. Holds(x, q) \/ Holds(y, q) \/ Holds(z, q) BY Zenon, <2>9, <2>10, <2>11 DEF Holds
  <2>13. Holds(calls, q)
    <3>1. Holds(x, q) \/ Holds(y, q) => Holds(w, q) BY <2>4, <2>7, Joined
    <3>2. Holds(w, q) \/ Holds(z, q) BY <2>12, <3>1
    <3> QED BY <2>5, <2>7, <2>8, <3>2, Joined
  <2>14. calls \in Seq(D) BY <2>5, <2>7, <2>8
  <2>15. Len(calls) \in Nat /\ DOMAIN calls = 1 .. Len(calls) BY <2>14
  <2> QED BY <2>13, <2>15 DEF Among, Holds
<1>4. ASSUME capture.hash \notin gone,
             NEW q \in Due("owners", Troves[capture.hash], capture.for)
      PROVE  q \in Due(capture.phase, Troves[capture.hash], capture.for) \/ Among(q, calls)
  BY <1>3, <1>4 DEF Due
<1> QED BY <1>2, <1>4, EnterKeeps

(* Node calls are laid out five to an owner.                                 *)
LEMMA NodeCallsAre ==
  ASSUME NEW o, NEW price, price = A(<<"price">>)
  PROVE  /\ NodeCalls(o)[1] = <<"prev", o>> /\ NodeCalls(o)[2] = <<"next", o>>
         /\ NodeCalls(o)[3] = <<"trove", o>> /\ NodeCalls(o)[4] = <<"active", o>>
         /\ NodeCalls(o)[5] = <<"icr", o, price>>
BY DEF NodeCalls, TroveCalls

LEMMA FiveEach ==
  ASSUME NEW m \in Nat, NEW i \in 1 .. m, NEW j \in 1 .. 5, NEW k, k = 5 * (i - 1) + j
  PROVE  k \in 1 .. (5 * m) /\ ((k - 1) \div 5) + 1 = i /\ ((k - 1) % 5) + 1 = j
<1>1. k \in 1 .. (5 * m) OBVIOUS
<1>2. (k - 1) \div 5 = i - 1 /\ (k - 1) % 5 = j - 1 OBVIOUS
<1> QED BY <1>1, <1>2

LEMMA NodesKeeps ==
  ASSUME CaptureInv, verdict = "pending", capture.flight = {}, capture.phase = "owners",
         Enter("nodes", [k \in 1..(5 * Size) |->
                           NodeCalls(OwnerAt(((k - 1) \div 5) + 1))[((k - 1) % 5) + 1]])
  PROVE  CaptureInv'
<1>1. PICK calls : calls = [k \in 1..(5 * Size) |->
                              NodeCalls(OwnerAt(((k - 1) \div 5) + 1))[((k - 1) % 5) + 1]]
  OBVIOUS
<1>2. Enter("nodes", calls) BY <1>1
<1>3. ASSUME capture.hash \notin gone, NEW q \in LinkCalls(Troves[capture.hash])
      PROVE  Among(q, calls)
  <2>1. PICK t : t = Troves[capture.hash] OBVIOUS
  <2>2. A(<<"price">>) = t.price /\ Size = Held(t) /\ Size \in Nat BY <1>3, <2>1, SystemKnown
  <2>3. PICK m \in Nat : m = Size /\ m = Held(t) BY <2>2
  <2>4. PICK i \in 1 .. m : q \in {<<"prev", t.array[i]>>, <<"next", t.array[i]>>}
                                 \cup About(t.array[i], t.price)
    BY <2>1, <2>3 DEF LinkCalls
  <2>5. PICK o : o = t.array[i] OBVIOUS
  <2>6. OwnerAt(i) = o
    <3>1. Honest /\ Pursued BY <1>3 DEF CaptureInv
    <3>2. <<"owner", i>> \in DOMAIN capture.answers
      BY <2>1, <2>3, <3>1 DEF Pursued, Due, OwnerCalls
    <3>3. A(<<"owner", i>>) = Answer(capture.hash, <<"owner", i>>) BY <3>1, <3>2, Known
    <3> QED BY <2>1, <2>5, <3>3 DEF OwnerAt, Answer
  <2>7. PICK j \in 1 .. 5 : NodeCalls(o)[j] = q
    <3>1. /\ NodeCalls(o)[1] = <<"prev", o>> /\ NodeCalls(o)[2] = <<"next", o>>
          /\ NodeCalls(o)[3] = <<"trove", o>> /\ NodeCalls(o)[4] = <<"active", o>>
          /\ NodeCalls(o)[5] = <<"icr", o, t.price>>
      BY <2>2, NodeCallsAre
    <3>2. q \in {<<"prev", o>>, <<"next", o>>, <<"trove", o>>, <<"active", o>>,
                 <<"icr", o, t.price>>}
      BY <2>4, <2>5 DEF About
    <3>3. 1 \in 1 .. 5 /\ 2 \in 1 .. 5 /\ 3 \in 1 .. 5 /\ 4 \in 1 .. 5 /\ 5 \in 1 .. 5 OBVIOUS
    <3> QED BY Zenon, <3>1, <3>2, <3>3
  <2>8. PICK k : k = 5 * (i - 1) + j OBVIOUS
  <2>9. k \in 1 .. (5 * m) /\ ((k - 1) \div 5) + 1 = i /\ ((k - 1) % 5) + 1 = j
    <3>1. m \in Nat /\ i \in 1 .. m /\ j \in 1 .. 5 BY <2>3, <2>4, <2>7
    <3> QED BY ONLY <2>8, <3>1, FiveEach
  <2>10. calls[k] = q BY <1>1, <2>3, <2>6, <2>7, <2>9
  <2>11. 5 * m \in Nat /\ DOMAIN calls = 1 .. (5 * m) BY <1>1, <2>3
  <2> QED BY <2>9, <2>10, <2>11 DEF Among
<1>4. ASSUME capture.hash \notin gone,
             NEW q \in Due("nodes", Troves[capture.hash], capture.for)
      PROVE  q \in Due(capture.phase, Troves[capture.hash], capture.for) \/ Among(q, calls)
  BY <1>3, <1>4 DEF Due
<1> QED BY <1>2, <1>4, EnterKeeps

LEMMA TrovePhaseKeeps ==
  ASSUME CaptureInv, verdict = "pending", capture.flight = {}, TrovePhase
  PROVE  CaptureInv'
<1>1. CASE /\ capture.phase = "header"
           /\ Enter("system", << <<"price">>, <<"count">>, <<"totals">>, <<"size">>,
                                <<"last">>, <<"first">> >>)
  <2>1. PICK calls : calls = << <<"price">>, <<"count">>, <<"totals">>, <<"size">>,
                                <<"last">>, <<"first">> >>
    OBVIOUS
  <2>2. Enter("system", calls) BY <1>1, <2>1
  <2>3. /\ 6 \in Nat /\ DOMAIN calls = 1 .. 6
        /\ 1 \in 1 .. 6 /\ 2 \in 1 .. 6 /\ 3 \in 1 .. 6
        /\ 4 \in 1 .. 6 /\ 5 \in 1 .. 6 /\ 6 \in 1 .. 6
        /\ calls[1] = <<"price">> /\ calls[2] = <<"count">> /\ calls[3] = <<"totals">>
        /\ calls[4] = <<"size">> /\ calls[5] = <<"last">> /\ calls[6] = <<"first">>
    BY <2>1
  <2>4. ASSUME NEW q \in SystemCalls PROVE Among(q, calls)
    BY Zenon, <2>3 DEF SystemCalls, Among
  <2>5. \A q \in Due("system", Troves[capture.hash], capture.for) : Among(q, calls)
    BY <2>4 DEF Due
  <2> QED BY <1>1, <2>2, <2>5, EnterKeeps
<1> QED BY <1>1, OwnersKeeps, NodesKeeps DEF TrovePhase

LEMMA OneCall ==
  ASSUME NEW q PROVE Among(q, <<q>>)
<1>1. DOMAIN <<q>> = 1 .. 1 /\ <<q>>[1] = q OBVIOUS
<1> QED BY <1>1 DEF Among

LEMMA DexPhaseKeeps ==
  ASSUME CaptureInv, verdict = "pending", capture.flight = {}, DexPhase
  PROVE  CaptureInv'
<1>1. CASE capture.phase = "header" /\ Enter("reserves", << <<"reserves">> >>)
  <2>1. PICK q : q = <<"reserves">> OBVIOUS
  <2>2. Enter("reserves", <<q>>) BY <1>1, <2>1
  <2>3. \A x \in Due("reserves", Troves[capture.hash], capture.for) : Among(x, <<q>>)
    BY <2>1, OneCall DEF Due
  <2> QED BY <1>1, <2>2, <2>3, EnterKeeps
<1>2. CASE capture.phase = "reserves" /\ Enter("fee", << <<"fee">> >>)
  <2>1. PICK q : q = <<"fee">> OBVIOUS
  <2>2. Enter("fee", <<q>>) BY <1>2, <2>1
  <2>3. \A x \in Due("fee", Troves[capture.hash], capture.for) :
          x \in Due(capture.phase, Troves[capture.hash], capture.for) \/ Among(x, <<q>>)
    BY <1>2, <2>1, OneCall DEF Due
  <2> QED BY <1>2, <2>2, <2>3, EnterKeeps
<1>3. ASSUME NEW phase \in {"pool", "router"}, NEW calls, Enter(phase, calls),
             capture.phase \in {"fee", "pool"}
      PROVE  CaptureInv'
  <2>1. \A x \in Due(phase, Troves[capture.hash], capture.for) :
          x \in Due(capture.phase, Troves[capture.hash], capture.for)
    BY <1>3 DEF Due
  <2> QED BY <1>3, <2>1, EnterKeeps
<1>4. CASE capture.phase = "fee" /\ Enter("pool", << Quote("pool_quote") >>)
  <2>1. PICK calls : calls = << Quote("pool_quote") >> OBVIOUS
  <2>2. Enter("pool", calls) BY <1>4, <2>1
  <2> QED BY <1>3, <1>4, <2>2
<1>5. CASE capture.phase = "pool" /\ Enter("router", << Quote("router_quote") >>)
  <2>1. PICK calls : calls = << Quote("router_quote") >> OBVIOUS
  <2>2. Enter("router", calls) BY <1>5, <2>1
  <2> QED BY <1>3, <1>5, <2>2
<1> QED BY <1>1, <1>2, <1>4, <1>5 DEF DexPhase

LEMMA CaptureNext == ASSUME CaptureInv, [Next]_vars PROVE CaptureInv'
<1>1. CASE BeginTrove
  <2>1. PICK b \in Borrowers : Begin([product |-> "trove", borrower |-> b])
    BY <1>1 DEF BeginTrove
  <2>2. PICK for : for = [product |-> "trove", borrower |-> b] OBVIOUS
  <2>3. for.product = "trove" BY <2>2
  <2> QED BY <2>1, <2>2, <2>3, BeginKeeps
<1>2. CASE BeginDex
  <2>1. PICK s \in {"BUY", "SELL"}, q \in Quantities :
          Begin([product |-> "dex", side |-> s, quantity |-> q])
    BY <1>2 DEF BeginDex
  <2>2. PICK for : for = [product |-> "dex", side |-> s, quantity |-> q] OBVIOUS
  <2>3. for.product = "dex" /\ for.quantity \in Quantities BY <2>2
  <2> QED BY <2>1, <2>2, <2>3, BeginKeeps
<1>3. CASE Collect
  <2>1. verdict = "pending" /\ capture.flight = {} /\ (TrovePhase \/ DexPhase)
    BY <1>3 DEF Collect
  <2> QED BY <2>1, TrovePhaseKeeps, DexPhaseKeeps
<1>4. CASE Books \/ UNCHANGED vars BY <1>4, Kept DEF Books, vars, mezoVars
<1>5. CASE Mezo
  BY <1>1, <1>2, <1>3, <1>5, RespondKeeps, RefuseKeeps, VerifyKeeps, ReorgKeeps DEF Mezo
<1> QED BY <1>4, <1>5 DEF Next

LEMMA CaptureInvariant == Spec => []CaptureInv
<1>1. CaptureInv /\ [Next]_vars => CaptureInv' BY CaptureNext
<1> QED BY <1>1, CaptureInit, PTL DEF Spec

(* A verified capture whose block the node did not leave.                    *)
LEMMA VerifiedIsHonest ==
  ASSUME CaptureInv, capture.phase # "none", verdict = "verified", ~Returned
  PROVE  /\ Honest /\ Formed /\ capture.hash \in Forks /\ capture.hash \notin gone
         /\ Due(capture.phase, Troves[capture.hash], capture.for) \subseteq DOMAIN capture.answers
         /\ Collected /\ (IF IsTrove THEN _verify ELSE verify_capture)
<1>1. capture.hash \notin gone /\ Collected BY DEF CaptureInv, Returned
<1>2. Honest /\ Pursued /\ Formed BY <1>1 DEF CaptureInv
<1>3. capture.flight = {} BY <1>1 DEF Collected
<1>4. Due(capture.phase, Troves[capture.hash], capture.for) \subseteq DOMAIN capture.answers
  BY <1>2, <1>3 DEF Pursued
<1> QED BY <1>1, <1>2, <1>4 DEF CaptureInv, Formed

(* A DEX capture that verifies quotes the pool of its block, and a purchase  *)
(* is for the least input that buys the quantity: for every pool, fee,       *)
(* quantity and course of reorganisations.                                   *)
THEOREM QuoteIsLeast == Spec => []DexQuoteIsLeast
<1>1. CaptureInv => DexQuoteIsLeast
  <2> SUFFICES ASSUME CaptureInv, capture.phase # "none", verdict = "verified", ~Returned,
                      ~IsTrove
               PROVE  LET p == pool[capture.hash]
                          out(a) == amm_amount_out(a, p[In], p[Out], p.fee)
                      IN /\ A(Quote("router_quote")) = out(Amount)
                         /\ capture.for.side = "BUY" =>
                              /\ out(Amount) >= capture.for.quantity
                              /\ \A a \in 0..(Amount - 1) : out(a) < capture.for.quantity
    BY DEF DexQuoteIsLeast
  <2>1. /\ Honest /\ Formed /\ capture.hash \in Forks /\ verify_capture
        /\ {<<"reserves">>, <<"fee">>} \subseteq DOMAIN capture.answers
    BY VerifiedIsHonest DEF Collected, Due
  <2>2. PICK p : p = pool[capture.hash] OBVIOUS
  <2>3. p.musd \in Nat /\ p.btc \in Nat /\ p.fee \in Nat
    <3>1. pool \in [Forks -> [musd : Nat, btc : Nat, fee : Nat]] BY MezoAssumption DEF CaptureInv
    <3>2. p \in [musd : Nat, btc : Nat, fee : Nat] BY <2>1, <2>2, <3>1
    <3> QED BY <3>2
  <2>4. A(<<"reserves">>) = << p.musd, p.btc >> /\ A(<<"fee">>) = p.fee
    <3>1. /\ A(<<"reserves">>) = Answer(capture.hash, <<"reserves">>)
          /\ A(<<"fee">>) = Answer(capture.hash, <<"fee">>)
      BY <2>1, Known
    <3> QED BY <2>2, <3>1 DEF Answer
  <2>5. Reserve("musd") = p.musd /\ Reserve("btc") = p.btc BY <2>4 DEF Reserve
  <2>6. Reserve(In) = p[In] /\ Reserve(Out) = p[Out] BY <2>5 DEF Reserve, In, Out
  <2>7. PICK n, i, o, f, q, side :
          /\ n = Amount /\ i = p[In] /\ o = p[Out] /\ f = p.fee
          /\ q = capture.for.quantity /\ side = capture.for.side
    OBVIOUS
  <2>8. /\ A(Quote("router_quote")) = amm_amount_out(n, i, o, f)
        /\ side = "BUY" => amm_amount_out(n, i, o, f) >= q
        /\ p.musd > 0 /\ p.fee < Basis
    BY <2>1, <2>4, <2>5, <2>6, <2>7 DEF verify_capture
  <2>9. q \in Nat /\ q > 0
    BY <2>1, <2>7, MezoAssumption DEF Formed, IsTrove
  <2>10. ASSUME side = "BUY"
         PROVE  /\ i = p.musd /\ o = p.btc /\ q < o
                /\ n = LeastInput(q, i, o, f)
    <3>1. i = p.musd /\ o = p.btc BY <2>7, <2>10 DEF In, Out
    <3>2. q < o BY <2>1, <2>5, <2>7, <2>10, <3>1 DEF verify_capture, Buyable
    <3>3. n = _buy_input(q, i, o, f) BY <2>4, <2>5, <2>7, <2>10, <3>1 DEF Amount
    <3> QED BY <3>1, <3>2, <3>3 DEF _buy_input
  <2>11. ASSUME side = "BUY", NEW a \in 0 .. (n - 1) PROVE amm_amount_out(a, i, o, f) < q
    <3>1. n \in Int BY <2>3, <2>7, <2>8, <2>9, <2>10, <2>11, LeastIsInt
    <3>2. a \in Nat /\ a < n BY <2>11, <3>1
    <3> QED BY <2>3, <2>7, <2>8, <2>9, <2>10, <2>11, <3>2, LessIsTooLittle
  <2> QED BY <2>2, <2>7, <2>8, <2>11
<1> QED BY <1>1, CaptureInvariant, PTL

-----------------------------------------------------------------------------
(* The walk.  Turn by turn it goes down the list of its block from the last  *)
(* trove, and holds the rank and the debt of the redeemable troves behind.   *)

Eligible(t) ==
  {i \in DOMAIN t.list : _icr(t.coll[t.list[i]], t.debt[t.list[i]], t.price) >= MCR}
Behind(t, k) == {i \in Eligible(t) : i > k}
Along(t, v) == [i \in DOMAIN t.list |-> v[t.list[i]]]
NetDebt(t) == [o \in DOMAIN t.debt |-> t.debt[o] - Gas]
SumBehind(t, v, k) == SumFunctionOnSet(Along(t, v), Behind(t, k))
Proven(t, k) ==
  [status |-> "PROVEN", position |-> Cardinality(Behind(t, k)) + 1,
   ahead |-> SumBehind(t, t.debt, k), net |-> SumBehind(t, NetDebt(t), k)]

(* The walk stands before place k of the list.                               *)
Stands(t, b, first, w, k) ==
  /\ w.current = At(t, k)
  /\ w.rank = Cardinality(Behind(t, k))
  /\ w.debt = SumBehind(t, t.debt, k) /\ w.net = SumBehind(t, NetDebt(t), k)
  /\ w.found = IF \E i \in Behind(t, k) : t.list[i] = b THEN Proven(t, Place(t, b)) ELSE first

LEMMA BlockIs ==
  ASSUME NEW f \in Forks, NEW t, t = Troves[f]
  PROVE  /\ Len(t.list) \in Nat /\ DOMAIN t.list = 1 .. Len(t.list)
         /\ \A i \in DOMAIN t.list :
              /\ t.list[i] \in DOMAIN t.debt /\ t.list[i] # Zero
              /\ t.debt[t.list[i]] \in Nat /\ t.coll[t.list[i]] \in Nat
              /\ Place(t, t.list[i]) = i /\ Listed(t, t.list[i])
<1>1. /\ t.debt \in [DOMAIN t.debt -> Nat] /\ t.coll \in [DOMAIN t.debt -> Nat]
      /\ t.list \in Seq(DOMAIN t.debt)
      /\ \A i, j \in DOMAIN t.list : t.list[i] = t.list[j] => i = j
      /\ \A i \in DOMAIN t.list : t.list[i] # Zero
  BY TroveAssumption
<1>2. Len(t.list) \in Nat /\ DOMAIN t.list = 1 .. Len(t.list) BY <1>1
<1>3. ASSUME NEW i \in DOMAIN t.list
      PROVE  /\ t.list[i] \in DOMAIN t.debt /\ t.list[i] # Zero
             /\ t.debt[t.list[i]] \in Nat /\ t.coll[t.list[i]] \in Nat
  <2>1. t.list[i] \in DOMAIN t.debt BY <1>1, <1>2
  <2> QED BY <1>1, <2>1
<1>4. ASSUME NEW i \in DOMAIN t.list PROVE Place(t, t.list[i]) = i /\ Listed(t, t.list[i])
  BY <1>1 DEF Place, Listed
<1> QED BY <1>2, <1>3, <1>4

(* The sets behind two neighbouring places differ by the place between.      *)
LEMMA BehindStep ==
  ASSUME NEW f \in Forks, NEW t, t = Troves[f], NEW k \in 1 .. Len(t.list),
         NEW v, \A o \in DOMAIN t.debt : v[o] \in Int
  PROVE  /\ k \notin Behind(t, k) /\ IsFiniteSet(Behind(t, k))
         /\ Cardinality(Behind(t, k)) \in Nat /\ SumBehind(t, v, k) \in Int
         /\ k \notin Eligible(t) => Behind(t, k - 1) = Behind(t, k)
         /\ k \in Eligible(t) =>
              /\ Behind(t, k - 1) = Behind(t, k) \cup {k}
              /\ Cardinality(Behind(t, k - 1)) = Cardinality(Behind(t, k)) + 1
              /\ SumBehind(t, v, k - 1) = SumBehind(t, v, k) + v[t.list[k]]
<1>1. PICK n \in Nat : n = Len(t.list) /\ DOMAIN t.list = 1 .. n BY BlockIs
<1>2. Eligible(t) \subseteq 1 .. n BY <1>1 DEF Eligible
<1>3. k \in Int /\ k \in 1 .. n BY <1>1
<1>4. PICK S : S = Behind(t, k) OBVIOUS
<1>5. S \subseteq 1 .. n /\ k \notin S BY <1>2, <1>3, <1>4 DEF Behind
<1>6. IsFiniteSet(S)
  <2>1. IsFiniteSet(1 .. n) BY FS_Interval
  <2> QED BY <1>5, <2>1, FS_Subset
<1>7. k \notin Eligible(t) => Behind(t, k - 1) = S
  <2>1. \A i \in 1 .. n : i > k - 1 <=> (i > k \/ i = k) BY <1>3
  <2> QED BY <1>2, <1>4, <2>1 DEF Behind
<1>8. k \in Eligible(t) => Behind(t, k - 1) = S \cup {k}
  <2>1. \A i \in 1 .. n : i > k - 1 <=> (i > k \/ i = k) BY <1>3
  <2> QED BY <1>2, <1>4, <2>1 DEF Behind
<1>9. PICK y : y = Along(t, v) OBVIOUS
<1>10. \A i \in 1 .. n : y[i] = v[t.list[i]] /\ y[i] \in Int BY <1>1, <1>9, BlockIs DEF Along
<1>11. \A u \in S \cup {k} : y[u] \in Int BY <1>3, <1>5, <1>10
<1>12. /\ SumFunctionOnSet(y, S) \in Int
       /\ SumFunctionOnSet(y, S \cup {k}) = SumFunctionOnSet(y, S) + y[k]
  BY <1>5, <1>6, <1>11, SumAdded
<1>13. Cardinality(S) \in Nat /\ Cardinality(S \cup {k}) = Cardinality(S) + 1
  BY <1>5, <1>6, FS_CardinalityType, FS_AddElement
<1> QED BY <1>3, <1>4, <1>5, <1>6, <1>7, <1>8, <1>9, <1>10, <1>12, <1>13 DEF SumBehind

(* What the answers say of an owner: its trove and its neighbours at the     *)
(* block of the capture.                                                     *)
LEMMA OwnerKnown ==
  ASSUME CaptureInv, capture.phase = "nodes", capture.flight = {}, capture.hash \notin gone,
         NEW t, t = Troves[capture.hash], NEW o \in Owners
  PROVE  /\ A(<<"prev", o>>) = IF Listed(t, o) THEN At(t, Place(t, o) - 1) ELSE Zero
         /\ Debt(o) = t.debt[o] /\ Icr(o) = _icr(t.coll[o], t.debt[o], t.price)
<1>1. Honest /\ Pursued BY DEF CaptureInv
<1>2. A(<<"price">>) = t.price /\ Size = Held(t) BY SystemKnown
<1>3. Due("nodes", t, capture.for) \subseteq DOMAIN capture.answers BY <1>1 DEF Pursued
<1>4. PICK i \in 1 .. Held(t) : o = OwnerAt(i) BY <1>2 DEF Owners
<1>5. o = t.array[i]
  <2>1. <<"owner", i>> \in DOMAIN capture.answers BY <1>3 DEF Due, OwnerCalls
  <2>2. A(<<"owner", i>>) = Answer(capture.hash, <<"owner", i>>) BY <1>1, <2>1, Known
  <2> QED BY <1>4, <2>2 DEF OwnerAt, Answer
<1>6. {<<"prev", o>>, <<"trove", o>>, <<"icr", o, t.price>>} \subseteq DOMAIN capture.answers
  <2>1. {<<"prev", o>>, <<"trove", o>>, <<"icr", o, t.price>>} \subseteq LinkCalls(t)
    BY <1>4, <1>5 DEF LinkCalls, About
  <2> QED BY <1>3, <2>1 DEF Due
<1>7. /\ A(<<"prev", o>>) = Answer(capture.hash, <<"prev", o>>)
      /\ A(<<"trove", o>>) = Answer(capture.hash, <<"trove", o>>)
      /\ A(<<"icr", o, t.price>>) = Answer(capture.hash, <<"icr", o, t.price>>)
  BY <1>1, <1>6, Known
<1>8. A(<<"prev", o>>) = IF Listed(t, o) THEN At(t, Place(t, o) - 1) ELSE Zero
  BY <1>7 DEF Answer
<1>9. Debt(o) = t.debt[o]
  <2>1. A(<<"trove", o>>) = << t.coll[o], t.debt[o] >> BY <1>7 DEF Answer
  <2> QED BY <2>1 DEF Debt
<1>10. Icr(o) = _icr(t.coll[o], t.debt[o], t.price)
  <2>1. A(<<"icr", o, t.price>>) = _icr(t.coll[o], t.debt[o], t.price) BY <1>7 DEF Answer
  <2> QED BY <1>2, <2>1 DEF Icr
<1> QED BY <1>8, <1>9, <1>10

LEMMA VisitStep ==
  ASSUME CaptureInv, capture.phase = "nodes", capture.flight = {}, capture.hash \notin gone,
         NEW t, t = Troves[capture.hash], NEW b, b = capture.for.borrower,
         NEW first, NEW k \in 1 .. Len(t.list),
         NEW w, w.ok => Stands(t, b, first, w, k), Visit(w).ok
  PROVE  Stands(t, b, first, Visit(w), k - 1)
<1>1. capture.hash \in Forks BY DEF CaptureInv, Formed
<1>2. /\ k \in DOMAIN t.list /\ t.list[k] \in DOMAIN t.debt /\ t.list[k] # Zero
      /\ Place(t, t.list[k]) = k /\ Listed(t, t.list[k])
  BY <1>1, BlockIs
<1>3. w.ok BY DEF Visit
<1>4. Stands(t, b, first, w, k) BY <1>3
<1>5. PICK o : o = t.list[k] OBVIOUS
<1>6. w.current = o /\ o # Zero BY <1>2, <1>4, <1>5 DEF Stands, At
<1>7. o \in Owners BY <1>3, <1>6 DEF Visit
<1>8. /\ A(<<"prev", o>>) = At(t, k - 1) /\ Debt(o) = t.debt[o]
      /\ Icr(o) = _icr(t.coll[o], t.debt[o], t.price)
  <2>1. Place(t, o) = k /\ Listed(t, o) BY <1>2, <1>5
  <2> QED BY <1>7, <2>1, OwnerKnown
<1>9. Icr(o) >= MCR <=> k \in Eligible(t) BY <1>2, <1>5, <1>8 DEF Eligible
<1>10. PICK z : z = Visit(w) OBVIOUS
<1>11. /\ z.current = At(t, k - 1)
       /\ z.rank = IF k \in Eligible(t) THEN w.rank + 1 ELSE w.rank
       /\ z.debt = IF k \in Eligible(t) THEN w.debt + t.debt[o] ELSE w.debt
       /\ z.net = IF k \in Eligible(t) THEN w.net + (t.debt[o] - Gas) ELSE w.net
       /\ z.found = IF k \in Eligible(t) /\ o = b
                    THEN [status |-> "PROVEN", position |-> w.rank + 1,
                          ahead |-> w.debt, net |-> w.net]
                    ELSE w.found
  BY <1>3, <1>6, <1>8, <1>9, <1>10 DEF Visit
<1>12. PICK d, e : d = t.debt /\ e = NetDebt(t) OBVIOUS
<1>13. \A x \in DOMAIN t.debt : d[x] \in Int /\ e[x] \in Int /\ e[x] = t.debt[x] - Gas
  BY <1>1, <1>12, TroveAssumption, MezoAssumption DEF NetDebt
<1>14. /\ k \notin Behind(t, k) /\ Cardinality(Behind(t, k)) \in Nat
       /\ k \notin Eligible(t) => Behind(t, k - 1) = Behind(t, k)
       /\ k \in Eligible(t) =>
            /\ Behind(t, k - 1) = Behind(t, k) \cup {k}
            /\ Cardinality(Behind(t, k - 1)) = Cardinality(Behind(t, k)) + 1
            /\ SumBehind(t, d, k - 1) = SumBehind(t, d, k) + d[o]
  BY <1>1, <1>5, <1>13, BehindStep
<1>15. k \in Eligible(t) => SumBehind(t, e, k - 1) = SumBehind(t, e, k) + e[o]
  BY <1>1, <1>5, <1>13, BehindStep
<1>16. CASE k \notin Eligible(t)
  <2>1. Behind(t, k - 1) = Behind(t, k) BY <1>14, <1>16
  <2> QED BY <1>4, <1>10, <1>11, <1>16, <2>1 DEF Stands, SumBehind
<1>17. CASE k \in Eligible(t)
  <2>1. /\ z.rank = Cardinality(Behind(t, k - 1))
        /\ z.debt = SumBehind(t, t.debt, k - 1) /\ z.net = SumBehind(t, NetDebt(t), k - 1)
    BY <1>2, <1>4, <1>5, <1>11, <1>12, <1>13, <1>14, <1>15, <1>17 DEF Stands
  <2>2. CASE o = b
    <3>1. Place(t, b) = k /\ \E i \in Behind(t, k - 1) : t.list[i] = b
      BY <1>2, <1>5, <1>14, <1>17, <2>2
    <3>2. z.found = Proven(t, k) BY <1>4, <1>11, <1>17, <2>2 DEF Proven, Stands
    <3> QED BY <1>10, <1>11, <2>1, <3>1, <3>2 DEF Stands
  <2>3. CASE o # b
    <3>1. (\E i \in Behind(t, k - 1) : t.list[i] = b) <=> (\E i \in Behind(t, k) : t.list[i] = b)
      BY <1>5, <1>14, <1>17, <2>3
    <3>2. z.found = w.found BY <1>11, <2>3
    <3> QED BY <1>4, <1>10, <1>11, <2>1, <3>1, <3>2 DEF Stands
  <2> QED BY <2>2, <2>3
<1> QED BY <1>16, <1>17

(* The equation of the turns has a solution.                                 *)
Turns(m, g) == g = [k \in 0 .. m |-> IF k = 0 THEN Start ELSE Visit(g[k - 1])]

LEMMA TurnsExist == ASSUME NEW m \in Nat PROVE \E g : Turns(m, g)
<1> DEFINE Upto(g, n) == \A k \in 0 .. n : g[k] = IF k = 0 THEN Start ELSE Visit(g[k - 1])
           P == {n \in Nat : \E g : Upto(g, n)}
<1>1. 0 \in P
  <2>1. PICK g : g = [k \in {0} |-> Start] OBVIOUS
  <2>2. Upto(g, 0) BY <2>1
  <2> QED BY <2>2
<1>2. ASSUME NEW n \in P PROVE n + 1 \in P
  <2>1. PICK g : Upto(g, n) OBVIOUS
  <2>2. PICK h : h = [k \in 0 .. (n + 1) |-> IF k = 0 THEN Start ELSE Visit(g[k - 1])] OBVIOUS
  <2>3. \A k \in 0 .. n : h[k] = g[k] BY <2>1, <2>2
  <2>4. ASSUME NEW k \in 0 .. (n + 1) PROVE h[k] = IF k = 0 THEN Start ELSE Visit(h[k - 1])
    <3>1. CASE k = 0 BY <2>2, <3>1
    <3>2. CASE k # 0
      <4>1. k - 1 \in 0 .. n BY <3>2
      <4>2. h[k - 1] = g[k - 1] BY <2>3, <4>1
      <4>3. h[k] = Visit(g[k - 1]) BY <2>2, <3>2
      <4> QED BY <3>2, <4>2, <4>3
    <3> QED BY <3>1, <3>2
  <2>5. Upto(h, n + 1) BY <2>4
  <2>6. n + 1 \in Nat OBVIOUS
  <2> HIDE DEF Upto
  <2> QED BY <2>5, <2>6
<1>3. P = Nat
  <2> HIDE DEF P
  <2>1. P \in SUBSET Nat BY DEF P
  <2> QED BY <1>1, <1>2, <2>1, EveryNat
<1>4. PICK g : Upto(g, m) BY <1>3
<1>5. PICK h : h = [k \in 0 .. m |-> g[k]] OBVIOUS
<1>6. \A k \in 0 .. m : k # 0 => k - 1 \in 0 .. m OBVIOUS
<1>7. \A k \in 0 .. m : h[k] = IF k = 0 THEN Start ELSE Visit(h[k - 1])
  <2> SUFFICES ASSUME NEW k \in 0 .. m PROVE h[k] = IF k = 0 THEN Start ELSE Visit(h[k - 1])
    OBVIOUS
  <2>1. h[k] = g[k] /\ (k # 0 => h[k - 1] = g[k - 1]) BY <1>5, <1>6
  <2> QED BY <1>4, <2>1
<1>8. Turns(m, h) BY <1>5, <1>7 DEF Turns
<1> QED BY <1>8

LEMMA NothingBehind ==
  ASSUME NEW f \in Forks, NEW t, t = Troves[f], NEW v
  PROVE  /\ Behind(t, Len(t.list)) = {} /\ Cardinality(Behind(t, Len(t.list))) = 0
         /\ SumBehind(t, v, Len(t.list)) = 0
<1>1. Behind(t, Len(t.list)) = {} BY BlockIs DEF Behind, Eligible
<1>2. PICK S, y : S = {} /\ y = Along(t, v) OBVIOUS
<1>3. IsFiniteSet(S) /\ Cardinality(S) = 0 BY <1>2, FS_EmptySet
<1>4. PICK g : Sums(y, S, g) /\ SumFunctionOnSet(y, S) = g[S] BY <1>3, SumSolves
<1>5. g[S] = 0 BY <1>2, <1>4, SumsAt
<1> QED BY <1>1, <1>2, <1>3, <1>4, <1>5 DEF SumBehind

(* A walk that succeeds has gone down the whole list.                        *)
LEMMA WalkEnds ==
  ASSUME CaptureInv, capture.phase = "nodes", capture.flight = {}, capture.hash \notin gone,
         NEW t, t = Troves[capture.hash], NEW b, b = capture.for.borrower,
         NEW first, first = Start.found, Walked, Walk.ok
  PROVE  Walk.found = IF \E i \in Behind(t, 0) : t.list[i] = b THEN Proven(t, Place(t, b))
                      ELSE first
<1>1. capture.hash \in Forks BY DEF CaptureInv, Formed
<1>2. PICK n \in Nat : n = Len(t.list) /\ DOMAIN t.list = 1 .. n BY <1>1, BlockIs
<1>3. A(<<"size">>) = n /\ A(<<"last">>) = At(t, n) BY <1>2, SystemKnown
<1>4. Size = n BY <1>3 DEF Size
<1>5. PICK W : Turns(n + 1, W) /\ Walk = W[n + 1]
  <2>1. \E g : Turns(n + 1, g)
    <3>1. n + 1 \in Nat OBVIOUS
    <3> QED BY <3>1, TurnsExist
  <2>2. Walk = (CHOOSE g : Turns(n + 1, g))[n + 1] BY <1>4 DEF Walk, Turns
  <2> QED BY <2>1, <2>2
<1>6. W[0] = Start BY <1>5 DEF Turns
<1>7. ASSUME NEW k \in 0 .. n PROVE W[k + 1] = Visit(W[k])
  <2>1. k + 1 \in 0 .. (n + 1) /\ k + 1 # 0 /\ k + 1 - 1 = k OBVIOUS
  <2> QED BY <1>5, <2>1 DEF Turns
<1> DEFINE P == {k \in 0 .. n : W[k].ok => Stands(t, b, first, W[k], n - k)}
<1>8. 0 \in P
  <2>1. PICK d, e : d = t.debt /\ e = NetDebt(t) OBVIOUS
  <2>2. /\ Behind(t, n) = {} /\ Cardinality(Behind(t, n)) = 0
        /\ SumBehind(t, d, n) = 0 /\ SumBehind(t, e, n) = 0
    BY <1>1, <1>2, NothingBehind
  <2>3. PICK w : w = Start OBVIOUS
  <2>4. w.current = At(t, n) /\ w.rank = 0 /\ w.debt = 0 /\ w.net = 0 /\ w.found = first
    BY <1>3, <2>3 DEF Start
  <2>5. Stands(t, b, first, w, n) BY <2>1, <2>2, <2>4 DEF Stands
  <2>6. n - 0 = n /\ 0 \in 0 .. n OBVIOUS
  <2> QED BY <1>6, <2>3, <2>5, <2>6
<1>9. ASSUME NEW k \in 0 .. (n - 1), k \in P PROVE k + 1 \in P
  <2>1. PICK w : w = W[k] OBVIOUS
  <2>2. PICK j \in 1 .. n : j = n - k OBVIOUS
  <2>3. w.ok => Stands(t, b, first, w, j) BY <1>9, <2>1, <2>2
  <2>4. W[k + 1] = Visit(w) BY <1>7, <2>1
  <2>5. Visit(w).ok => Stands(t, b, first, Visit(w), j - 1) BY <1>2, <2>2, <2>3, VisitStep
  <2>6. k + 1 \in 0 .. n /\ n - (k + 1) = j - 1 BY <2>2
  <2>7. W[k + 1].ok => Stands(t, b, first, W[k + 1], n - (k + 1)) BY <2>4, <2>5, <2>6
  <2> QED BY <2>6, <2>7
<1>10. 0 .. n \subseteq P
  <2> HIDE DEF P
  <2> QED BY <1>8, <1>9, UpTo
<1>11. PICK w : w = W[n] OBVIOUS
<1>12. w.ok => Stands(t, b, first, w, 0)
  <2>1. n \in P BY <1>10
  <2>2. n - n = 0 OBVIOUS
  <2> QED BY <1>11, <2>1, <2>2
<1>13. Walk = Visit(w) BY <1>5, <1>7, <1>11
<1>14. w.ok BY <1>13 DEF Visit
<1>15. w.current = Zero
  <2>1. At(t, 0) = Zero BY <1>2 DEF At
  <2> QED BY <1>12, <1>14, <2>1 DEF Stands
<1>16. Walk = w BY <1>13, <1>15 DEF Visit
<1> QED BY <1>12, <1>14, <1>16 DEF Stands

LEMMA RatioIsInt ==
  ASSUME NEW coll \in Nat, NEW debt \in Nat, NEW price \in Nat
  PROVE  _icr(coll, debt, price) \in Int
<1>1. CASE debt = 0 BY <1>1, MezoAssumption DEF _icr
<1>2. CASE debt # 0
  <2>1. PICK x \in Int : x = coll * price BY ProductIsInt
  <2>2. x \div debt \in Int BY <1>2
  <2> QED BY <1>2, <2>1, <2>2 DEF _icr
<1> QED BY <1>1, <1>2

(* The borrower's own answers.                                               *)
LEMMA BorrowerKnown ==
  ASSUME CaptureInv, capture.phase = "nodes", capture.flight = {}, capture.hash \notin gone,
         NEW t, t = Troves[capture.hash], NEW b, b = capture.for.borrower
  PROVE  /\ A(<<"active", b>>) = Listed(t, b)
         /\ Icr(b) = _icr(t.coll[b], t.debt[b], t.price)
         /\ A(<<"tcr", A(<<"price">>)>>) = _icr(Total(t, t.coll), Total(t, t.debt), t.price)
<1>1. Honest /\ Pursued BY DEF CaptureInv
<1>2. A(<<"price">>) = t.price BY SystemKnown
<1>3. {<<"active", b>>, <<"icr", b, t.price>>, <<"tcr", t.price>>} \subseteq DOMAIN capture.answers
  <2>1. {<<"active", b>>, <<"icr", b, t.price>>, <<"tcr", t.price>>} \subseteq OwnerCalls(t, b)
    BY DEF OwnerCalls, About
  <2>2. OwnerCalls(t, b) \subseteq DOMAIN capture.answers BY <1>1 DEF Pursued, Due
  <2> QED BY <2>1, <2>2
<1>4. /\ A(<<"active", b>>) = Answer(capture.hash, <<"active", b>>)
      /\ A(<<"icr", b, t.price>>) = Answer(capture.hash, <<"icr", b, t.price>>)
      /\ A(<<"tcr", t.price>>) = Answer(capture.hash, <<"tcr", t.price>>)
  BY <1>1, <1>3, Known
<1>5. A(<<"active", b>>) = Listed(t, b) BY <1>4 DEF Answer
<1>6. A(<<"icr", b, t.price>>) = _icr(t.coll[b], t.debt[b], t.price) BY <1>4 DEF Answer
<1>7. A(<<"tcr", t.price>>) = _icr(Total(t, t.coll), Total(t, t.debt), t.price)
  BY <1>4 DEF Answer
<1> QED BY <1>2, <1>5, <1>6, <1>7 DEF Icr

LEMMA TruthIs ==
  ASSUME NEW f \in Forks, NEW t, t = Troves[f], NEW b
  PROVE  Truth(f, b) =
           IF Len(t.list) > QUEUE_LIMIT
           THEN Bare(IF Listed(t, b) THEN "TRAVERSAL_LIMIT" ELSE "NOT_ACTIVE")
           ELSE IF _icr(Total(t, t.coll), Total(t, t.debt), t.price) < MCR
           THEN Bare("SYSTEM_PAUSED")
           ELSE IF ~Listed(t, b) THEN Bare("NOT_ACTIVE")
           ELSE IF Place(t, b) \notin Eligible(t) THEN Bare("BELOW_MCR")
           ELSE Proven(t, Place(t, b))
BY DEF Truth, Eligible, Proven, SumBehind, Along, NetDebt, Behind

(* A trove capture that verifies tells the place of the borrower and the     *)
(* debt ahead of it as they are at the block it names: for every list of     *)
(* troves, split of the calls into requests and course of reorganisations.   *)
THEOREM PositionOfOneBlock == Spec => []PositionIsOfOneBlock
<1>1. CaptureInv => PositionIsOfOneBlock
  <2> SUFFICES ASSUME CaptureInv, capture.phase # "none", verdict = "verified", ~Returned, IsTrove
               PROVE  Result = Truth(capture.hash, capture.for.borrower)
    BY DEF PositionIsOfOneBlock
  <2>1. /\ capture.hash \in Forks /\ capture.hash \notin gone /\ _verify
        /\ capture.phase = "nodes" /\ capture.flight = {}
    BY VerifiedIsHonest DEF Collected
  <2>2. PICK f, t, b : f = capture.hash /\ t = Troves[f] /\ b = capture.for.borrower OBVIOUS
  <2>3. /\ A(<<"active", b>>) = Listed(t, b)
        /\ Icr(b) = _icr(t.coll[b], t.debt[b], t.price)
        /\ A(<<"tcr", A(<<"price">>)>>) = _icr(Total(t, t.coll), Total(t, t.debt), t.price)
    BY <2>1, <2>2, BorrowerKnown
  <2>4. PICK n \in Nat : n = Len(t.list) /\ n = A(<<"size">>) /\ DOMAIN t.list = 1 .. n
    BY <2>1, <2>2, SystemKnown, BlockIs
  <2>5. PICK first : first = Start.found OBVIOUS
  <2>6. first = Bare(IF Listed(t, b) THEN "TRAVERSAL_LIMIT" ELSE "NOT_ACTIVE")
    BY <2>2, <2>3, <2>5 DEF Start
  <2>7. Walked <=> ~(n > QUEUE_LIMIT) BY <2>4, MezoAssumption DEF Walked
  <2>8. CASE ~Walked
    <3>1. Result = first BY <2>5, <2>8 DEF Result
    <3> QED BY <2>1, <2>2, <2>4, <2>6, <2>7, <2>8, <3>1, TruthIs
  <2>9. CASE Walked
    <3>1. Walk.ok BY <2>1, <2>9 DEF _verify, ListValid
    <3>2. Walk.found = IF \E i \in Behind(t, 0) : t.list[i] = b THEN Proven(t, Place(t, b))
                       ELSE first
      BY <2>1, <2>2, <2>5, <2>9, <3>1, WalkEnds
    <3>3. Result = IF _icr(Total(t, t.coll), Total(t, t.debt), t.price) < MCR
                   THEN Bare("SYSTEM_PAUSED")
                   ELSE IF Listed(t, b) /\ Icr(b) < MCR THEN Bare("BELOW_MCR")
                   ELSE Walk.found
      BY <2>2, <2>3, <2>9 DEF Result
    <3>4. CASE ~Listed(t, b)
      <4>1. ~ \E i \in Behind(t, 0) : t.list[i] = b BY <3>4 DEF Listed, Behind, Eligible
      <4>2. Walk.found = Bare("NOT_ACTIVE") BY <2>6, <3>2, <3>4, <4>1
      <4> QED BY <2>1, <2>2, <2>4, <2>7, <2>9, <3>3, <3>4, <4>2, TruthIs
    <3>5. CASE Listed(t, b)
      <4>1. PICK i \in DOMAIN t.list : t.list[i] = b BY <3>5 DEF Listed
      <4>2. /\ Place(t, b) = i /\ t.debt[b] \in Nat /\ t.coll[b] \in Nat
        BY <2>1, <2>2, <4>1, BlockIs
      <4>3. t.price \in Nat BY <2>1, <2>2, TroveAssumption
      <4>4. PICK r \in Int : r = Icr(b) /\ r = _icr(t.coll[b], t.debt[b], t.price)
        BY <2>3, <4>2, <4>3, RatioIsInt
      <4>5. i \in Eligible(t) <=> ~(r < MCR)
        <5>1. r >= MCR <=> ~(r < MCR) BY MezoAssumption
        <5> QED BY <4>1, <4>4, <5>1 DEF Eligible
      <4>6. i \in Eligible(t) => i \in Behind(t, 0)
        <5>1. i \in Int /\ i > 0 BY <2>4, <4>1
        <5> QED BY <5>1 DEF Behind
      <4>7. i \in Eligible(t) => Walk.found = Proven(t, Place(t, b)) BY <3>2, <4>1, <4>6
      <4> QED BY <2>1, <2>2, <2>4, <2>7, <2>9, <3>3, <3>5, <4>2, <4>4, <4>5, <4>7, TruthIs
    <3> QED BY <3>4, <3>5
  <2> QED BY <2>8, <2>9
<1> QED BY <1>1, CaptureInvariant, PTL
=============================================================================
