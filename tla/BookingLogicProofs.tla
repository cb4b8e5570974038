------------------------- MODULE BookingLogicProofs -------------------------
(***************************************************************************)
(* The arithmetic of the pax ledger, for every ledger: what the folds of   *)
(* booking.logic.ts add up to.  Then the sums of every finite set: what    *)
(* they are of its parts, which the reports' figures rest on.              *)
(*                                                                         *)
(* The library's induction theorems take an operator as a parameter; here  *)
(* an induction is about a set, the set of all that a statement holds of.  *)
(***************************************************************************)
EXTENDS BookingLogic, FiniteSetTheorems, WellFoundedInduction, TLAPS

-----------------------------------------------------------------------------
(* Induction. *)

LEMMA NumbersByInduction ==
  ASSUME NEW N, 0 \in N, \A n \in N \cap Nat : n + 1 \in N
  PROVE  Nat \subseteq N
  <1>. SUFFICES ASSUME Nat \ N # {}
                PROVE  FALSE
    OBVIOUS
  <1>. DEFINE D == Nat \ N
  <1>1. PICK d \in D : \A e \in D : ~(<<e, d>> \in OpToRel(<, Nat))
    BY WFMin, NatLessThanWellFounded, Zenon
  <1>2. \A e \in D : ~(e < d)
    BY <1>1 DEF OpToRel
  <1>3. d \in Nat /\ d # 0
    OBVIOUS
  <1>4. d - 1 \in Nat /\ d - 1 < d /\ (d - 1) + 1 = d
    BY <1>3
  <1>5. d - 1 \in N
    BY <1>2, <1>4
  <1>. QED
    BY <1>3, <1>4, <1>5

LEMMA SubsetsByInduction ==
  ASSUME NEW S, IsFiniteSet(S), NEW F,
         \A T \in SUBSET S : (\A x \in T : T \ {x} \in F) => T \in F
  PROVE  SUBSET S \subseteq F
  <1>. DEFINE N == {n \in Nat : \A T \in SUBSET S : Cardinality(T) = n => T \in F}
  <1>1. \A T \in SUBSET S : IsFiniteSet(T) /\ Cardinality(T) \in Nat
    BY FS_Subset, FS_CardinalityType
  <1>2. 0 \in N
    BY <1>1, FS_EmptySet
  <1>3. ASSUME NEW n \in N \cap Nat
        PROVE  n + 1 \in N
    <2>1. ASSUME NEW T \in SUBSET S, Cardinality(T) = n + 1
          PROVE  T \in F
      <3>1. ASSUME NEW x \in T
            PROVE  T \ {x} \in F
        <4>1. Cardinality(T \ {x}) = n
          BY <1>1, <2>1, FS_RemoveElement
        <4>. QED
          BY <4>1
      <3>. QED
        BY <3>1
    <2>. QED
      BY <2>1
  <1>. HIDE DEF N
  <1>4. Nat \subseteq N
    BY <1>2, <1>3, NumbersByInduction
  <1>. QED
    BY <1>1, <1>4 DEF N

-----------------------------------------------------------------------------
(* Folds.  g[T] is base plus the sum of f over T, in whatever order. *)

Adds(g, f, base, S) ==
  /\ g \in [SUBSET S -> Int]
  /\ g[{}] = base
  /\ \A T \in SUBSET S : \A x \in T : g[T] = f[x] + g[T \ {x}]

(* The equation of a fold that picks c[s] from s first, and adds it to     *)
(* whatever number the others make.                                        *)
Folds(g, f, c, base, S) ==
  /\ g = [s \in SUBSET S |-> g[s]]
  /\ g[{}] = base
  /\ \A s \in SUBSET S : s # {} /\ g[s \ {c[s]}] \in Int =>
       g[s] = f[c[s]] + g[s \ {c[s]}]

LEMMA FoldExists ==
  ASSUME NEW S, IsFiniteSet(S), NEW f \in [S -> Int], NEW base \in Int,
         NEW c, \A s \in SUBSET S : s # {} => c[s] \in s
  PROVE  \E g \in [SUBSET S -> Int] :
           g = [s \in SUBSET S |-> IF s = {} THEN base ELSE f[c[s]] + g[s \ {c[s]}]]
  <1>. DEFINE Step(g) == [s \in SUBSET S |-> IF s = {} THEN base ELSE f[c[s]] + g[s \ {c[s]}]]
              Upto(g, n) == \A s \in SUBSET S : Cardinality(s) <= n => g[s] = Step(g)[s]
              N == {n \in Nat : \E g \in [SUBSET S -> Int] : Upto(g, n)}
  <1>1. \A s \in SUBSET S : IsFiniteSet(s) /\ Cardinality(s) \in Nat
    BY FS_Subset, FS_CardinalityType
  <1>2. \A g \in [SUBSET S -> Int] : Step(g) \in [SUBSET S -> Int]
    OBVIOUS
  <1>3. 0 \in N
    <2>1. PICK g \in [SUBSET S -> Int] : g = [s \in SUBSET S |-> base]
      OBVIOUS
    <2>2. \A s \in SUBSET S : Cardinality(s) <= 0 => s = {}
      BY <1>1, FS_EmptySet
    <2>3. Upto(g, 0)
      BY <2>1, <2>2
    <2>. QED
      BY <2>3
  <1>4. ASSUME NEW n \in N \cap Nat
        PROVE  n + 1 \in N
    <2>1. PICK g \in [SUBSET S -> Int] : Upto(g, n)
      OBVIOUS
    <2>2. ASSUME NEW s \in SUBSET S, Cardinality(s) <= n + 1, s # {}
          PROVE  Step(g)[s] = Step(Step(g))[s]
      <3>1. s \ {c[s]} \in SUBSET S /\ Cardinality(s \ {c[s]}) <= n
        BY <1>1, <2>2, FS_RemoveElement
      <3>2. g[s \ {c[s]}] = Step(g)[s \ {c[s]}]
        BY <2>1, <3>1
      <3>. QED
        BY <2>2, <3>2
    <2>3. Upto(Step(g), n + 1)
      BY <2>2
    <2>4. Step(g) \in [SUBSET S -> Int]
      BY <1>2
    <2>. HIDE DEF Step, Upto
    <2>. QED
      BY <2>3, <2>4
  <1>. HIDE DEF Upto
  <1>5. Cardinality(S) \in N
    <2>. HIDE DEF N
    <2>. QED
      BY <1>3, <1>4, NumbersByInduction, FS_CardinalityType
  <1>6. PICK g \in [SUBSET S -> Int] : Upto(g, Cardinality(S))
    BY <1>5
  <1>7. \A s \in SUBSET S : g[s] = Step(g)[s]
    BY <1>6, FS_Subset DEF Upto
  <1>8. g = Step(g)
    BY <1>7
  <1>. QED
    BY <1>8

LEMMA FoldAdds ==
  ASSUME NEW S, IsFiniteSet(S), NEW f \in [S -> Int], NEW base \in Int,
         NEW c, \A s \in SUBSET S : s # {} => c[s] \in s,
         NEW g, Folds(g, f, c, base, S)
  PROVE  Adds(g, f, base, S)
  <1>. DEFINE I == {T \in SUBSET S : g[T] \in Int}
              F == {T \in SUBSET S : \A x \in T : g[T] = f[x] + g[T \ {x}]}
  <1>1. /\ DOMAIN g = SUBSET S
        /\ g[{}] = base
        /\ \A s \in SUBSET S : s # {} /\ g[s \ {c[s]}] \in Int =>
             g[s] = f[c[s]] + g[s \ {c[s]}]
        /\ g = [s \in SUBSET S |-> g[s]]
    BY DEF Folds
  <1>2. \A G : (\A T \in SUBSET S : (\A x \in T : T \ {x} \in G) => T \in G)
                 => SUBSET S \subseteq G
    BY SubsetsByInduction, Zenon
  <1>3. SUBSET S \subseteq I
    <2>1. ASSUME NEW T \in SUBSET S, \A x \in T : T \ {x} \in I
          PROVE  T \in I
      <3>1. CASE T = {}
        BY <1>1, <3>1
      <3>2. CASE T # {}
        <4>1. PICK y \in T : y = c[T]
          BY <3>2
        <4>2. f[y] \in Int /\ g[T \ {y}] \in Int
          BY <2>1
        <4>3. g[T] = f[y] + g[T \ {y}]
          BY <1>1, <3>2, <4>1, <4>2
        <4>. QED
          BY <4>2, <4>3
      <3>. QED
        BY <3>1, <3>2
    <2>. HIDE DEF I
    <2>. QED
      BY <1>2, <2>1
  <1>4. g \in [SUBSET S -> Int]
    BY <1>1, <1>3
  <1>5. ASSUME NEW T \in SUBSET S, \A x \in T : T \ {x} \in F
        PROVE  T \in F
    <2>1. ASSUME NEW x \in T
          PROVE  g[T] = f[x] + g[T \ {x}]
      <3>1. PICK y \in T : y = c[T]
        OBVIOUS
      <3>2. g[T] = f[y] + g[T \ {y}]
        <4>1. g[T \ {y}] \in Int
          BY <1>4
        <4>. QED
          BY <1>1, <3>1, <4>1
      <3>3. CASE x # y
        <4>. DEFINE R == (T \ {x}) \ {y}
        <4>1. R = (T \ {y}) \ {x} /\ R \in SUBSET S
          OBVIOUS
        <4>2. g[T \ {y}] = f[x] + g[R] /\ g[T \ {x}] = f[y] + g[R]
          BY <1>5, <3>3, <4>1
        <4>3. f[x] \in Int /\ f[y] \in Int /\ g[R] \in Int
          BY <1>4
        <4>. HIDE DEF R
        <4>. QED
          BY <3>2, <4>2, <4>3
      <3>. QED
        BY <3>2, <3>3
    <2>. QED
      BY <2>1
  <1>6. SUBSET S \subseteq F
    <2>. HIDE DEF F
    <2>. QED
      BY <1>2, <1>5
  <1>. QED
    BY <1>1, <1>4, <1>6 DEF Adds

LEMMA AddsUnique ==
  ASSUME NEW S, NEW T, NEW f, NEW e, NEW base, NEW g, NEW h,
         Adds(g, f, base, S), Adds(h, e, base, T),
         NEW R, IsFiniteSet(R), R \subseteq S, R \subseteq T, \A x \in R : f[x] = e[x]
  PROVE  g[R] = h[R]
  <1>. DEFINE F == {P \in SUBSET R : g[P] = h[P]}
  <1>1. ASSUME NEW P \in SUBSET R, \A x \in P : P \ {x} \in F
        PROVE  P \in F
    <2>1. CASE P = {}
      BY <2>1 DEF Adds
    <2>2. ASSUME NEW x \in P
          PROVE  g[P] = h[P]
      <3>1. g[P] = f[x] + g[P \ {x}] /\ h[P] = e[x] + h[P \ {x}]
        BY DEF Adds
      <3>. QED
        BY <1>1, <3>1
    <2>. QED
      BY <2>1, <2>2
  <1>. HIDE DEF F
  <1>2. SUBSET R \subseteq F
    BY <1>1, SubsetsByInduction
  <1>. QED
    BY <1>2 DEF F
-----------------------------------------------------------------------------
(* The sum of a finite function. *)

LEMMA SumOfFunction ==
  ASSUME NEW S, IsFiniteSet(S), NEW f \in [S -> Int]
  PROVE  \E g : Adds(g, f, 0, S) /\ SumFunction(f) = g[S]
  <1>. DEFINE c == [s \in SUBSET S |-> CHOOSE x \in s : TRUE]
              Step(g) == [s \in SUBSET S |->
                            IF s = {} THEN 0
                            ELSE f[CHOOSE x \in s : TRUE] + g[s \ {CHOOSE x \in s : TRUE}]]
              h == CHOOSE g : g = Step(g)
  <1>1. \A s \in SUBSET S : s # {} => c[s] \in s
    OBVIOUS
  <1>2. PICK g \in [SUBSET S -> Int] :
          g = [s \in SUBSET S |-> IF s = {} THEN 0 ELSE f[c[s]] + g[s \ {c[s]}]]
    <2>1. \A base \in Int : \A k :
            (\A s \in SUBSET S : s # {} => k[s] \in s) =>
              \E g \in [SUBSET S -> Int] :
                g = [s \in SUBSET S |-> IF s = {} THEN base ELSE f[k[s]] + g[s \ {k[s]}]]
      BY FoldExists, Zenon
    <2>. HIDE DEF c
    <2>2. \A base \in Int : \E g \in [SUBSET S -> Int] :
            g = [s \in SUBSET S |-> IF s = {} THEN base ELSE f[c[s]] + g[s \ {c[s]}]]
      BY <1>1, <2>1, Zenon
    <2>3. 0 \in Int
      OBVIOUS
    <2>. QED
      BY <2>2, <2>3, Zenon
  <1>3. g = Step(g)
    BY <1>2
  <1>4. h = Step(h)
    BY <1>3
  <1>5. SumFunction(f) = h[S]
    BY DEF SumFunction, SumFunctionOnSet, FoldFunctionOnSet, MapThenFoldSet
  <1>6. Folds(h, f, c, 0, S)
    BY <1>4 DEF Folds
  <1>7. Adds(h, f, 0, S)
    <2>1. \A base \in Int : \A k, e :
            (\A s \in SUBSET S : s # {} => k[s] \in s) /\ Folds(e, f, k, base, S)
              => Adds(e, f, base, S)
      BY FoldAdds, Zenon
    <2>. HIDE DEF c, h
    <2>2. \A base \in Int : Folds(h, f, c, base, S) => Adds(h, f, base, S)
      BY <1>1, <2>1, Zenon
    <2>3. 0 \in Int
      OBVIOUS
    <2>. QED
      BY <1>6, <2>2, <2>3, Zenon
  <1>. QED
    BY <1>5, <1>7

LEMMA LastOfSome ==
  ASSUME NEW n \in Nat, NEW T \in SUBSET (1 .. n), T # {}
  PROVE  Max(T) \in T
  <1>. DEFINE D == {n - m : m \in T}
  <1>1. D \subseteq Nat /\ D # {}
    <2>1. \A m \in T : n - m \in Nat
      OBVIOUS
    <2>. QED
      BY <2>1
  <1>2. PICK d \in D : \A c \in D : ~(<<c, d>> \in OpToRel(<, Nat))
    BY <1>1, WFMin, NatLessThanWellFounded, Zenon
  <1>3. \A c \in D : ~(c < d)
    BY <1>1, <1>2 DEF OpToRel
  <1>4. PICK x \in T : d = n - x
    OBVIOUS
  <1>5. ASSUME NEW y \in T
        PROVE  x >= y
    <2>1. n - y \in D
      OBVIOUS
    <2>2. ~(n - y < n - x)
      BY <1>3, <1>4, <2>1
    <2>. QED
      BY <2>2
  <1>. QED
    BY <1>4, <1>5 DEF Max

-----------------------------------------------------------------------------
(* The folds over a ledger, which pick the last entry first. *)

MaxFolds(g, f, base, n) ==
  /\ g = [s \in SUBSET (1 .. n) |-> g[s]]
  /\ g[{}] = base
  /\ \A s \in SUBSET (1 .. n) : s # {} /\ g[s \ {Max(s)}] \in Int =>
       g[s] = g[s \ {Max(s)}] + f[Max(s)]

LEMMA MaxFoldExists ==
  ASSUME NEW n \in Nat, NEW f \in [1 .. n -> Int], NEW base \in Int
  PROVE  \E g \in [SUBSET (1 .. n) -> Int] : MaxFolds(g, f, base, n)
  <1>. DEFINE c == [s \in SUBSET (1 .. n) |-> Max(s)]
  <1>1. PICK S : S = 1 .. n
    OBVIOUS
  <1>2. IsFiniteSet(S) /\ f \in [S -> Int]
    BY <1>1, FS_Interval
  <1>3. \A s \in SUBSET S : s # {} => c[s] \in s /\ c[s] = Max(s)
    BY <1>1, LastOfSome
  <1>. HIDE DEF c
  <1>4. \A e \in [S -> Int], x \in Int : \A k :
          (\A s \in SUBSET S : s # {} => k[s] \in s) =>
            \E g \in [SUBSET S -> Int] :
              g = [s \in SUBSET S |-> IF s = {} THEN x ELSE e[k[s]] + g[s \ {k[s]}]]
    BY <1>2, FoldExists, Zenon
  <1>5. \A k : (\A s \in SUBSET S : s # {} => k[s] \in s) =>
          \E g \in [SUBSET S -> Int] :
            g = [s \in SUBSET S |-> IF s = {} THEN base ELSE f[k[s]] + g[s \ {k[s]}]]
    BY <1>2, <1>4, Zenon
  <1>6. \A s \in SUBSET S : s # {} => c[s] \in s
    BY <1>3
  <1>7. PICK g \in [SUBSET S -> Int] :
          g = [s \in SUBSET S |-> IF s = {} THEN base ELSE f[c[s]] + g[s \ {c[s]}]]
    BY <1>5, <1>6, Zenon
  <1>8. ASSUME NEW s \in SUBSET S, s # {}
        PROVE  g[s] = g[s \ {Max(s)}] + f[Max(s)]
    <2>1. PICK x \in s : x = c[s] /\ x = Max(s)
      BY <1>3, <1>8
    <2>2. g[s] = f[x] + g[s \ {x}]
      BY <1>7, <1>8, <2>1
    <2>3. f[x] \in Int /\ g[s \ {x}] \in Int
      BY <1>2
    <2>4. g[s] = g[s \ {x}] + f[x]
      BY <2>2, <2>3
    <2>. QED
      BY <2>1, <2>4
  <1>9. g[{}] = base /\ g = [s \in SUBSET S |-> g[s]]
    BY <1>7
  <1>. QED
    BY <1>1, <1>8, <1>9 DEF MaxFolds

LEMMA MaxFoldAdds ==
  ASSUME NEW n \in Nat, NEW f \in [1 .. n -> Int], NEW base \in Int,
         NEW h, MaxFolds(h, f, base, n)
  PROVE  Adds(h, f, base, 1 .. n)
  <1>. DEFINE c == [s \in SUBSET (1 .. n) |-> Max(s)]
  <1>1. PICK S : S = 1 .. n
    OBVIOUS
  <1>2. IsFiniteSet(S) /\ f \in [S -> Int]
    BY <1>1, FS_Interval
  <1>3. \A s \in SUBSET S : s # {} => c[s] \in s /\ c[s] = Max(s)
    BY <1>1, LastOfSome
  <1>. HIDE DEF c
  <1>4. Folds(h, f, c, base, S)
    <2>1. ASSUME NEW s \in SUBSET S, s # {}, h[s \ {c[s]}] \in Int
          PROVE  h[s] = f[c[s]] + h[s \ {c[s]}]
      <3>1. PICK x \in s : x = c[s] /\ x = Max(s)
        BY <1>3, <2>1
      <3>2. h[s \ {x}] \in Int /\ f[x] \in Int
        BY <1>2, <2>1, <3>1
      <3>3. h[s] = h[s \ {x}] + f[x]
        BY <1>1, <2>1, <3>1, <3>2 DEF MaxFolds
      <3>4. h[s] = f[x] + h[s \ {x}]
        BY <3>2, <3>3
      <3>. QED
        BY <3>1, <3>4
    <2>. QED
      BY <1>1, <2>1 DEF MaxFolds, Folds
  <1>5. \A e \in [S -> Int], x \in Int : \A k, g :
          (\A s \in SUBSET S : s # {} => k[s] \in s) /\ Folds(g, e, k, x, S)
            => Adds(g, e, x, S)
    BY <1>2, FoldAdds, Zenon
  <1>6. \A s \in SUBSET S : s # {} => c[s] \in s
    BY <1>3
  <1>7. \A k, g : (\A s \in SUBSET S : s # {} => k[s] \in s) /\ Folds(g, f, k, base, S)
                    => Adds(g, f, base, S)
    BY <1>2, <1>5, Zenon
  <1>. QED
    BY <1>1, <1>4, <1>6, <1>7, Zenon

(* What the folds of booking.logic.ts compute. *)

LEMMA ExpectedPaxAdds ==
  ASSUME NEW E, \A e \in E : e.delta \in Int, NEW seq \in Seq(E), NEW base \in Int
  PROVE  \E g : /\ Adds(g, [i \in 1 .. Len(seq) |-> seq[i].delta], base, 1 .. Len(seq))
                /\ computeExpectedPax(base, seq) = g[1 .. Len(seq)]
  <1>. DEFINE n == Len(seq)
              f == [i \in 1 .. n |-> seq[i].delta]
              Step(h) == [s \in SUBSET (1 .. n) |->
                            IF s = {} THEN base ELSE h[s \ {Max(s)}] + seq[Max(s)].delta]
              h == CHOOSE g : g = Step(g)
  <1>1. n \in Nat /\ DOMAIN seq = 1 .. n /\ f \in [1 .. n -> Int]
    OBVIOUS
  <1>2. computeExpectedPax(base, seq) = h[1 .. n]
    BY <1>1 DEF computeExpectedPax, FoldLeft, MapThenFoldSet
  <1>3. \A s \in SUBSET (1 .. n) : s # {} => f[Max(s)] = seq[Max(s)].delta
    BY <1>1, LastOfSome
  <1>4. \A g \in [SUBSET (1 .. n) -> Int] : MaxFolds(g, f, base, n) => g = Step(g)
    <2>. HIDE DEF f, n
    <2>. QED
      BY <1>3 DEF MaxFolds
  <1>5. h = Step(h)
    <2>. HIDE DEF f, n
    <2>1. \E g : g = Step(g)
      BY <1>1, <1>4, MaxFoldExists
    <2>. QED
      BY <2>1
  <1>6. MaxFolds(h, f, base, n)
    <2>. HIDE DEF f, n, h
    <2>. QED
      BY <1>3, <1>5 DEF MaxFolds
  <1>7. Adds(h, f, base, 1 .. n)
    <2>. HIDE DEF f, n, h
    <2>. QED
      BY <1>1, <1>6, MaxFoldAdds
  <1>. QED
    BY <1>2, <1>7

(* What increases and decreases add to the totals of a summary. *)
Up(d) == IF d > 0 THEN d ELSE 0
Down(d) == IF d < 0 THEN -d ELSE 0

LEMMA TotalIncreaseAdds ==
  ASSUME NEW E, \A e \in E : e.delta \in Int, NEW seq \in Seq(E)
  PROVE  \E g : /\ Adds(g, [i \in 1 .. Len(seq) |-> Up(seq[i].delta)], 0, 1 .. Len(seq))
                /\ FoldLeft(LAMBDA sum, adj : IF adj.delta > 0 THEN sum + adj.delta ELSE sum,
                            0, seq) = g[1 .. Len(seq)]
  <1>. DEFINE n == Len(seq)
              f == [i \in 1 .. n |-> Up(seq[i].delta)]
              Step(h) == [s \in SUBSET (1 .. n) |->
                            IF s = {} THEN 0
                            ELSE IF seq[Max(s)].delta > 0
                                 THEN h[s \ {Max(s)}] + seq[Max(s)].delta
                                 ELSE h[s \ {Max(s)}]]
              h == CHOOSE g : g = Step(g)
  <1>1. n \in Nat /\ DOMAIN seq = 1 .. n
    OBVIOUS
  <1>2. FoldLeft(LAMBDA sum, adj : IF adj.delta > 0 THEN sum + adj.delta ELSE sum, 0, seq)
          = h[1 .. n]
    BY <1>1 DEF FoldLeft, MapThenFoldSet
  <1>3. \A i \in 1 .. n : seq[i].delta \in Int
    OBVIOUS
  <1>4. f \in [1 .. n -> Int]
    BY <1>3 DEF Up
  <1>5. \A s \in SUBSET (1 .. n) : s # {} =>
          /\ seq[Max(s)].delta \in Int
          /\ seq[Max(s)].delta > 0 => f[Max(s)] = seq[Max(s)].delta
          /\ ~(seq[Max(s)].delta > 0) => f[Max(s)] = 0
    BY <1>1, <1>3, LastOfSome DEF Up
  <1>6. \A g \in [SUBSET (1 .. n) -> Int] : MaxFolds(g, f, 0, n) => g = Step(g)
    <2>. HIDE DEF f, n
    <2>1. ASSUME NEW g \in [SUBSET (1 .. n) -> Int], MaxFolds(g, f, 0, n),
                 NEW s \in SUBSET (1 .. n)
          PROVE  g[s] = Step(g)[s]
      <3>1. CASE s = {}
        BY <2>1, <3>1 DEF MaxFolds
      <3>2. CASE s # {}
        <4>1. PICK x, y : x = g[s \ {Max(s)}] /\ y = seq[Max(s)].delta
          OBVIOUS
        <4>2. x \in Int /\ y \in Int
          BY <1>5, <3>2, <4>1
        <4>3. g[s] = x + f[Max(s)]
          BY <2>1, <3>2, <4>1, <4>2 DEF MaxFolds
        <4>4. g[s] = IF y > 0 THEN x + y ELSE x
          BY <1>5, <3>2, <4>1, <4>2, <4>3
        <4>. QED
          BY <3>2, <4>1, <4>4
      <3>. QED
        BY <3>1, <3>2
    <2>. HIDE DEF Step
    <2>2. \A g : Step(g) = [s \in SUBSET (1 .. n) |-> Step(g)[s]]
      BY DEF Step
    <2>. QED
      BY <2>1, <2>2
  <1>7. h = Step(h)
    <2>. HIDE DEF f, n
    <2>1. \E g : g = Step(g)
      <3>. HIDE DEF Step
      <3>1. PICK g \in [SUBSET (1 .. n) -> Int] : MaxFolds(g, f, 0, n)
        <4>1. \A e \in [1 .. n -> Int], b \in Int :
                \E g \in [SUBSET (1 .. n) -> Int] : MaxFolds(g, e, b, n)
          BY <1>1, MaxFoldExists, Zenon
        <4>. QED
          BY <1>4, <4>1, 0 \in Int, Zenon
      <3>. QED
        BY <1>6, <3>1
    <2>. QED
      BY <2>1
  <1>8. MaxFolds(h, f, 0, n)
    <2>. HIDE DEF f, n, h
    <2>1. ASSUME NEW s \in SUBSET (1 .. n), s # {}, h[s \ {Max(s)}] \in Int
          PROVE  h[s] = h[s \ {Max(s)}] + f[Max(s)]
      <3>1. PICK x, y : x = h[s \ {Max(s)}] /\ y = seq[Max(s)].delta
        OBVIOUS
      <3>2. x \in Int /\ y \in Int
        BY <1>5, <2>1, <3>1
      <3>3. h[s] = IF y > 0 THEN x + y ELSE x
        BY <1>7, <2>1, <3>1
      <3>4. h[s] = x + f[Max(s)]
        BY <1>5, <2>1, <3>1, <3>2, <3>3
      <3>. QED
        BY <3>1, <3>4
    <2>. QED
      BY <1>7, <2>1 DEF MaxFolds
  <1>9. Adds(h, f, 0, 1 .. n)
    <2>. HIDE DEF f, n, h
    <2>. QED
      BY <1>1, <1>4, <1>8, MaxFoldAdds
  <1>. QED
    BY <1>2, <1>9

LEMMA TotalDecreaseAdds ==
  ASSUME NEW E, \A e \in E : e.delta \in Int, NEW seq \in Seq(E)
  PROVE  \E g : /\ Adds(g, [i \in 1 .. Len(seq) |-> Down(seq[i].delta)], 0, 1 .. Len(seq))
                /\ FoldLeft(LAMBDA sum, adj : IF adj.delta < 0 THEN sum - adj.delta ELSE sum,
                            0, seq) = g[1 .. Len(seq)]
  <1>. DEFINE n == Len(seq)
              f == [i \in 1 .. n |-> Down(seq[i].delta)]
              Step(h) == [s \in SUBSET (1 .. n) |->
                            IF s = {} THEN 0
                            ELSE IF seq[Max(s)].delta < 0
                                 THEN h[s \ {Max(s)}] - seq[Max(s)].delta
                                 ELSE h[s \ {Max(s)}]]
              h == CHOOSE g : g = Step(g)
  <1>1. n \in Nat /\ DOMAIN seq = 1 .. n
    OBVIOUS
  <1>2. FoldLeft(LAMBDA sum, adj : IF adj.delta < 0 THEN sum - adj.delta ELSE sum, 0, seq)
          = h[1 .. n]
    BY <1>1 DEF FoldLeft, MapThenFoldSet
  <1>3. \A i \in 1 .. n : seq[i].delta \in Int
    OBVIOUS
  <1>4. f \in [1 .. n -> Int]
    BY <1>3 DEF Down
  <1>5. \A s \in SUBSET (1 .. n) : s # {} =>
          /\ seq[Max(s)].delta \in Int
          /\ seq[Max(s)].delta < 0 => f[Max(s)] = -seq[Max(s)].delta
          /\ ~(seq[Max(s)].delta < 0) => f[Max(s)] = 0
    BY <1>1, <1>3, LastOfSome DEF Down
  <1>6. \A g \in [SUBSET (1 .. n) -> Int] : MaxFolds(g, f, 0, n) => g = Step(g)
    <2>. HIDE DEF f, n
    <2>1. ASSUME NEW g \in [SUBSET (1 .. n) -> Int], MaxFolds(g, f, 0, n),
                 NEW s \in SUBSET (1 .. n)
          PROVE  g[s] = Step(g)[s]
      <3>1. CASE s = {}
        BY <2>1, <3>1 DEF MaxFolds
      <3>2. CASE s # {}
        <4>1. PICK x, y : x = g[s \ {Max(s)}] /\ y = seq[Max(s)].delta
          OBVIOUS
        <4>2. x \in Int /\ y \in Int
          BY <1>5, <3>2, <4>1
        <4>3. g[s] = x + f[Max(s)]
          BY <2>1, <3>2, <4>1, <4>2 DEF MaxFolds
        <4>4. g[s] = IF y < 0 THEN x - y ELSE x
          BY <1>5, <3>2, <4>1, <4>2, <4>3
        <4>. QED
          BY <3>2, <4>1, <4>4
      <3>. QED
        BY <3>1, <3>2
    <2>. HIDE DEF Step
    <2>2. \A g : Step(g) = [s \in SUBSET (1 .. n) |-> Step(g)[s]]
      BY DEF Step
    <2>. QED
      BY <2>1, <2>2
  <1>7. h = Step(h)
    <2>. HIDE DEF f, n
    <2>1. \E g : g = Step(g)
      <3>. HIDE DEF Step
      <3>1. PICK g \in [SUBSET (1 .. n) -> Int] : MaxFolds(g, f, 0, n)
        <4>1. \A e \in [1 .. n -> Int], b \in Int :
                \E g \in [SUBSET (1 .. n) -> Int] : MaxFolds(g, e, b, n)
          BY <1>1, MaxFoldExists, Zenon
        <4>. QED
          BY <1>4, <4>1, 0 \in Int, Zenon
      <3>. QED
        BY <1>6, <3>1
    <2>. QED
      BY <2>1
  <1>8. MaxFolds(h, f, 0, n)
    <2>. HIDE DEF f, n, h
    <2>1. ASSUME NEW s \in SUBSET (1 .. n), s # {}, h[s \ {Max(s)}] \in Int
          PROVE  h[s] = h[s \ {Max(s)}] + f[Max(s)]
      <3>1. PICK x, y : x = h[s \ {Max(s)}] /\ y = seq[Max(s)].delta
        OBVIOUS
      <3>2. x \in Int /\ y \in Int
        BY <1>5, <2>1, <3>1
      <3>3. h[s] = IF y < 0 THEN x - y ELSE x
        BY <1>7, <2>1, <3>1
      <3>4. h[s] = x + f[Max(s)]
        BY <1>5, <2>1, <3>1, <3>2, <3>3
      <3>. QED
        BY <3>1, <3>4
    <2>. QED
      BY <1>7, <2>1 DEF MaxFolds
  <1>9. Adds(h, f, 0, 1 .. n)
    <2>. HIDE DEF f, n, h
    <2>. QED
      BY <1>1, <1>4, <1>8, MaxFoldAdds
  <1>. QED
    BY <1>2, <1>9

(* A sum of differences is the difference of the sums. *)
Differs(u, v, w, S) ==
  \A x \in S : u[x] \in Int /\ v[x] \in Int /\ w[x] = u[x] - v[x]

IsDifference(g, p, q, base, S) == g[S] = base + p[S] - q[S]

LEMMA DifferenceAdds ==
  ASSUME NEW S, IsFiniteSet(S), NEW base \in Int,
         NEW u, NEW v, NEW w, Differs(u, v, w, S),
         NEW p, NEW q, NEW g, Adds(p, u, 0, S), Adds(q, v, 0, S), Adds(g, w, base, S)
  PROVE  IsDifference(g, p, q, base, S)
  <1>. DEFINE F == {T \in SUBSET S : g[T] = base + p[T] - q[T]}
  <1>1. ASSUME NEW T \in SUBSET S, \A x \in T : T \ {x} \in F
        PROVE  T \in F
    <2>1. CASE T = {}
      BY <2>1 DEF Adds
    <2>2. ASSUME NEW x \in T
          PROVE  g[T] = base + p[T] - q[T]
      <3>. DEFINE R == T \ {x}
      <3>1. R \in SUBSET S /\ g[R] = base + p[R] - q[R]
        BY <1>1
      <3>2. g[T] = w[x] + g[R] /\ p[T] = u[x] + p[R] /\ q[T] = v[x] + q[R]
        BY DEF Adds
      <3>3. u[x] \in Int /\ v[x] \in Int /\ w[x] = u[x] - v[x]
           /\ p[R] \in Int /\ q[R] \in Int /\ g[R] \in Int
        BY <3>1 DEF Adds, Differs
      <3>. HIDE DEF R
      <3>. QED
        BY <3>1, <3>2, <3>3
    <2>. QED
      BY <2>1, <2>2
  <1>. HIDE DEF F
  <1>2. SUBSET S \subseteq F
    BY <1>1, SubsetsByInduction
  <1>. QED
    BY <1>2 DEF F, IsDifference

-----------------------------------------------------------------------------
(* The rules other modules use. *)

LEMMA SumNone == SumFunction([x \in {} |-> 0]) = 0
  <1>. DEFINE f == [x \in {} |-> 0]
  <1>1. f \in [{} -> Int] /\ IsFiniteSet({})
    BY FS_EmptySet
  <1>2. PICK g : Adds(g, f, 0, {}) /\ SumFunction(f) = g[{}]
    BY <1>1, SumOfFunction
  <1>. QED
    BY <1>2 DEF Adds

LEMMA SumStep ==
  ASSUME NEW S, IsFiniteSet(S), NEW f \in [S -> Int]
  PROVE  /\ SumFunction(f) \in Int
         /\ \A x \in S : SumFunction(f) = f[x] + SumFunction([y \in S \ {x} |-> f[y]])
  <1>1. PICK g : Adds(g, f, 0, S) /\ SumFunction(f) = g[S]
    BY SumOfFunction
  <1>2. SumFunction(f) \in Int
    BY <1>1 DEF Adds
  <1>3. ASSUME NEW x \in S
        PROVE  SumFunction(f) = f[x] + SumFunction([y \in S \ {x} |-> f[y]])
    <2>. DEFINE R == S \ {x}
                e == [y \in R |-> f[y]]
    <2>1. IsFiniteSet(R)
      BY FS_Subset
    <2>2. e \in [R -> Int]
      OBVIOUS
    <2>3. PICK h : Adds(h, e, 0, R) /\ SumFunction(e) = h[R]
      <3>. HIDE DEF e, R
      <3>. QED
        BY <2>1, <2>2, SumOfFunction
    <2>4. g[R] = h[R]
      <3>1. R \subseteq S /\ R \subseteq R /\ \A y \in R : f[y] = e[y]
        OBVIOUS
      <3>. HIDE DEF e, R
      <3>. QED
        BY <1>1, <2>1, <2>3, <3>1, AddsUnique
    <2>5. g[S] = f[x] + g[R]
      BY <1>1 DEF Adds
    <2>. QED
      BY <1>1, <2>3, <2>4, <2>5
  <1>. QED
    BY <1>2, <1>3

LEMMA ExpectedPaxType ==
  ASSUME NEW E, \A e \in E : e.delta \in Int, NEW seq \in Seq(E), NEW base \in Int
  PROVE  computeExpectedPax(base, seq) \in Int
  <1>1. PICK g : /\ Adds(g, [i \in 1 .. Len(seq) |-> seq[i].delta], base, 1 .. Len(seq))
                 /\ computeExpectedPax(base, seq) = g[1 .. Len(seq)]
    BY ExpectedPaxAdds
  <1>. QED
    BY <1>1 DEF Adds

LEMMA ExpectedPaxEmpty ==
  ASSUME NEW base \in Int
  PROVE  computeExpectedPax(base, << >>) = base
  <1>. DEFINE E == {[delta |-> 0]}
  <1>1. << >> \in Seq(E) /\ Len(<< >>) = 0 /\ 1 .. 0 = {} /\ \A e \in E : e.delta \in Int
    OBVIOUS
  <1>2. PICK g : /\ Adds(g, [i \in 1 .. Len(<< >>) |-> << >>[i].delta], base, 1 .. Len(<< >>))
                 /\ computeExpectedPax(base, << >>) = g[1 .. Len(<< >>)]
    <2>. HIDE DEF E
    <2>. QED
      BY <1>1, ExpectedPaxAdds
  <1>. QED
    BY <1>1, <1>2 DEF Adds

LEMMA ExpectedPaxAppend ==
  ASSUME NEW E, \A e \in E : e.delta \in Int, NEW seq \in Seq(E), NEW base \in Int,
         NEW entry \in E
  PROVE  computeExpectedPax(base, Append(seq, entry))
           = computeExpectedPax(base, seq) + entry.delta
  <1>. DEFINE n == Len(seq)
              longer == Append(seq, entry)
              f == [i \in 1 .. n |-> seq[i].delta]
              e == [i \in 1 .. Len(longer) |-> longer[i].delta]
  <1>1. /\ longer \in Seq(E) /\ n \in Nat /\ Len(longer) = n + 1
        /\ longer[n + 1] = entry /\ \A i \in 1 .. n : longer[i] = seq[i]
    OBVIOUS
  <1>2. PICK g : Adds(g, f, base, 1 .. n) /\ computeExpectedPax(base, seq) = g[1 .. n]
    BY ExpectedPaxAdds
  <1>3. PICK h : /\ Adds(h, e, base, 1 .. Len(longer))
                 /\ computeExpectedPax(base, longer) = h[1 .. Len(longer)]
    <2>. HIDE DEF longer
    <2>. QED
      BY <1>1, ExpectedPaxAdds
  <1>4. /\ 1 .. n \subseteq 1 .. n + 1 /\ n + 1 \in 1 .. n + 1
        /\ (1 .. n + 1) \ {n + 1} = 1 .. n
    BY <1>1
  <1>5. e[n + 1] = entry.delta /\ \A i \in 1 .. n : f[i] = e[i]
    BY <1>1, <1>4
  <1>. HIDE DEF f, e, longer
  <1>6. PICK S, T, z : S = 1 .. n /\ T = 1 .. n + 1 /\ z = n + 1
    OBVIOUS
  <1>7. /\ Adds(g, f, base, S) /\ Adds(h, e, base, T) /\ IsFiniteSet(S)
        /\ S \subseteq S /\ S \subseteq T /\ z \in T /\ T \ {z} = S
    <2>1. Adds(g, f, base, S)
      BY <1>2, <1>6
    <2>2. Adds(h, e, base, T)
      BY <1>1, <1>3, <1>6
    <2>3. IsFiniteSet(S)
      BY <1>1, <1>6, FS_Interval
    <2>. HIDE DEF n
    <2>. QED
      BY <1>4, <1>6, <2>1, <2>2, <2>3
  <1>8. g[S] = h[S]
    <2>1. \A x \in S : f[x] = e[x]
      BY <1>5, <1>6
    <2>. QED
      BY <1>7, <2>1, AddsUnique
  <1>9. h[T] = e[z] + h[S] /\ h[S] \in Int
    BY <1>7 DEF Adds
  <1>10. entry.delta \in Int
    OBVIOUS
  <1>11. computeExpectedPax(base, longer) = computeExpectedPax(base, seq) + entry.delta
    BY <1>1, <1>2, <1>3, <1>5, <1>6, <1>8, <1>9, <1>10
  <1>. QED
    BY <1>11 DEF longer

(* The summary of a booking's pax (computePaxSummary, the details page)    *)
(* and the expected pax its row stores (computeExpectedPax) are computed   *)
(* by different sums; for every ledger they are one number.                *)
THEOREM SummaryIsExpectedPax ==
  ASSUME NEW E, \A e \in E : e.delta \in Int, NEW seq \in Seq(E),
         NEW base \in Int, NEW actual, NEW none
  PROVE  computePaxSummary(base, seq, actual, none).expectedPax
           = computeExpectedPax(base, seq)
  <1>. DEFINE n == Len(seq)
              u == [i \in 1 .. n |-> Up(seq[i].delta)]
              v == [i \in 1 .. n |-> Down(seq[i].delta)]
              w == [i \in 1 .. n |-> seq[i].delta]
              up == FoldLeft(LAMBDA sum, adj : IF adj.delta > 0 THEN sum + adj.delta ELSE sum,
                             0, seq)
              down == FoldLeft(LAMBDA sum, adj : IF adj.delta < 0 THEN sum - adj.delta ELSE sum,
                               0, seq)
  <1>1. PICK p : Adds(p, u, 0, 1 .. n) /\ up = p[1 .. n]
    BY TotalIncreaseAdds
  <1>2. PICK q : Adds(q, v, 0, 1 .. n) /\ down = q[1 .. n]
    BY TotalDecreaseAdds
  <1>3. PICK g : Adds(g, w, base, 1 .. n) /\ computeExpectedPax(base, seq) = g[1 .. n]
    BY ExpectedPaxAdds
  <1>4. n \in Nat /\ \A i \in 1 .. n : seq[i].delta \in Int
    OBVIOUS
  <1>5. u \in [1 .. n -> Int] /\ v \in [1 .. n -> Int] /\ \A i \in 1 .. n : w[i] = u[i] - v[i]
    BY <1>4 DEF Up, Down
  <1>6. computePaxSummary(base, seq, actual, none).expectedPax = base + up - down
    BY DEF computePaxSummary
  <1>. HIDE DEF u, v, w, up, down, n
  <1>7. IsFiniteSet(1 .. n)
    BY <1>4, FS_Interval
  <1>8. g[1 .. n] = base + p[1 .. n] - q[1 .. n]
    <2>1. PICK S : S = 1 .. n
      OBVIOUS
    <2>2. IsFiniteSet(S)
      BY <1>7, <2>1
    <2>3. /\ Differs(u, v, w, S)
          /\ Adds(p, u, 0, S) /\ Adds(q, v, 0, S) /\ Adds(g, w, base, S)
      BY <1>1, <1>2, <1>3, <1>5, <2>1 DEF Differs
    <2>4. IsDifference(g, p, q, base, S)
      BY <2>2, <2>3, DifferenceAdds
    <2>5. g[S] = base + p[S] - q[S]
      BY <2>4 DEF IsDifference
    <2>. QED
      BY <2>1, <2>5
  <1>. QED
    BY <1>1, <1>2, <1>3, <1>6, <1>8

-----------------------------------------------------------------------------
(* Sums over parts of a set. *)

SubsetSums(g, u, S) ==
  /\ Adds(g, u, 0, S)
  /\ SumFunction(u) = g[S]
  /\ \A T \in SUBSET S : SumFunction([x \in T |-> u[x]]) = g[T]

LEMMA SumsOfSubsets ==
  ASSUME NEW S, IsFiniteSet(S), NEW u \in [S -> Int]
  PROVE  \E g : SubsetSums(g, u, S)
  <1>1. PICK g : Adds(g, u, 0, S) /\ SumFunction(u) = g[S]
    BY SumOfFunction
  <1>2. ASSUME NEW T \in SUBSET S
        PROVE  SumFunction([x \in T |-> u[x]]) = g[T]
    <2>. DEFINE e == [x \in T |-> u[x]]
    <2>1. IsFiniteSet(T) /\ e \in [T -> Int] /\ \A x \in T : u[x] = e[x]
      BY FS_Subset
    <2>. HIDE DEF e
    <2>2. PICK h : Adds(h, e, 0, T) /\ SumFunction(e) = h[T]
      BY <2>1, SumOfFunction
    <2>3. g[T] = h[T]
      BY <1>1, <2>1, <2>2, AddsUnique
    <2>. QED
      BY <2>2, <2>3 DEF e
  <1>. QED
    BY <1>1, <1>2 DEF SubsetSums

IsTotal(n, i, j) == n = i + j

LEMMA AddsUnion ==
  ASSUME NEW S, IsFiniteSet(S), NEW u \in [S -> Int], NEW g, SubsetSums(g, u, S),
         NEW A \in SUBSET S, NEW B \in SUBSET S, A \cap B = {}
  PROVE  IsTotal(g[A \cup B], g[A], g[B])
  <1>. DEFINE F == {T \in SUBSET A : g[T \cup B] = g[T] + g[B]}
  <1>1. ASSUME NEW T \in SUBSET A, \A x \in T : T \ {x} \in F
        PROVE  T \in F
    <2>1. CASE T = {}
      BY <2>1 DEF SubsetSums, Adds
    <2>2. ASSUME NEW x \in T
          PROVE  T \in F
      <3>1. g[T] = u[x] + g[T \ {x}]
        BY DEF SubsetSums, Adds
      <3>2. (T \cup B) \ {x} = (T \ {x}) \cup B /\ T \cup B \in SUBSET S /\ x \in T \cup B
        OBVIOUS
      <3>3. g[T \cup B] = u[x] + g[(T \ {x}) \cup B]
        BY <3>2 DEF SubsetSums, Adds
      <3>4. g[(T \ {x}) \cup B] = g[T \ {x}] + g[B]
        BY <1>1
      <3>5. u[x] \in Int /\ g[T \ {x}] \in Int /\ g[B] \in Int
        BY DEF SubsetSums, Adds
      <3>6. g[T \cup B] = g[T] + g[B]
        BY <3>1, <3>3, <3>4, <3>5
      <3>. QED
        BY <3>6
    <2>. QED
      BY <2>1, <2>2
  <1>2. IsFiniteSet(A)
    BY FS_Subset
  <1>. HIDE DEF F
  <1>3. SUBSET A \subseteq F
    BY <1>1, <1>2, SubsetsByInduction
  <1>. QED
    BY <1>3 DEF F, IsTotal

(* P[k], for k in K, are the parts S falls into. *)

Parts(P, K, S) ==
  /\ \A k \in K : P[k] \in SUBSET S
  /\ \A x \in S : \E k \in K : x \in P[k]
  /\ \A j, k \in K : j # k => P[j] \cap P[k] = {}

LEMMA SumOfParts ==
  ASSUME NEW S, IsFiniteSet(S), NEW K, IsFiniteSet(K), NEW P, Parts(P, K, S),
         NEW u \in [S -> Int], NEW n \in [K -> Int],
         \A k \in K : n[k] = SumFunction([x \in P[k] |-> u[x]])
  PROVE  SumFunction(n) = SumFunction(u)
  <1>0. PICK g : SubsetSums(g, u, S)
    BY SumsOfSubsets
  <1>1. /\ Adds(g, u, 0, S)
        /\ SumFunction(u) = g[S]
        /\ \A T \in SUBSET S : SumFunction([x \in T |-> u[x]]) = g[T]
    BY <1>0 DEF SubsetSums
  <1>2. PICK h : Adds(h, n, 0, K) /\ SumFunction(n) = h[K]
    BY SumOfFunction
  <1>. DEFINE All(J) == UNION {P[k] : k \in J}
              F == {J \in SUBSET K : h[J] = g[All(J)]}
  <1>3. ASSUME NEW J \in SUBSET K, \A k \in J : J \ {k} \in F
        PROVE  J \in F
    <2>1. CASE J = {}
      <3>1. All(J) = {}
        BY <2>1
      <3>. QED
        BY <1>1, <1>2, <2>1, <3>1 DEF Adds
    <2>2. ASSUME NEW k \in J
          PROVE  J \in F
      <3>1. h[J] = n[k] + h[J \ {k}]
        BY <1>2 DEF Adds
      <3>2. n[k] = g[P[k]]
        BY <1>1 DEF Parts
      <3>3. h[J \ {k}] = g[All(J \ {k})]
        BY <1>3
      <3>4. All(J) = P[k] \cup All(J \ {k}) /\ All(J \ {k}) \in SUBSET S /\ P[k] \in SUBSET S
        BY DEF Parts
      <3>5. P[k] \cap All(J \ {k}) = {}
        BY DEF Parts
      <3>6. g[All(J)] = g[P[k]] + g[All(J \ {k})]
        <4>1. \A A, B \in SUBSET S : A \cap B = {} => IsTotal(g[A \cup B], g[A], g[B])
          BY <1>0, AddsUnion, Zenon
        <4>. HIDE DEF All
        <4>. QED
          BY <3>4, <3>5, <4>1 DEF IsTotal
      <3>. QED
        BY <3>1, <3>2, <3>3, <3>6
    <2>. QED
      BY <2>1, <2>2
  <1>4. All(K) = S
    BY DEF Parts
  <1>. HIDE DEF F
  <1>5. SUBSET K \subseteq F
    BY <1>3, SubsetsByInduction
  <1>6. K \in F
    BY <1>5
  <1>. QED
    BY <1>1, <1>2, <1>4, <1>6 DEF F

LEMMA CountIsSum ==
  ASSUME NEW S, IsFiniteSet(S)
  PROVE  Cardinality(S) = SumFunction([x \in S |-> 1])
  <1>. DEFINE u == [x \in S |-> 1]
  <1>1. u \in [S -> Int] /\ \A x \in S : u[x] = 1
    OBVIOUS
  <1>. HIDE DEF u
  <1>2. PICK g : Adds(g, u, 0, S) /\ SumFunction(u) = g[S]
    BY <1>1, SumOfFunction
  <1>. DEFINE F == {T \in SUBSET S : g[T] = Cardinality(T)}
  <1>3. ASSUME NEW T \in SUBSET S, \A x \in T : T \ {x} \in F
        PROVE  T \in F
    <2>1. CASE T = {}
      BY <1>2, <2>1, FS_EmptySet DEF Adds
    <2>2. ASSUME NEW x \in T
          PROVE  T \in F
      <3>1. g[T] = 1 + g[T \ {x}]
        BY <1>1, <1>2 DEF Adds
      <3>2. IsFiniteSet(T) /\ Cardinality(T) \in Nat
        BY FS_Subset, FS_CardinalityType
      <3>3. Cardinality(T \ {x}) = Cardinality(T) - 1
        BY <3>2, FS_RemoveElement
      <3>4. g[T \ {x}] = Cardinality(T \ {x})
        BY <1>3
      <3>. QED
        BY <3>1, <3>2, <3>3, <3>4
    <2>. QED
      BY <2>1, <2>2
  <1>. HIDE DEF F
  <1>4. SUBSET S \subseteq F
    BY <1>3, SubsetsByInduction
  <1>5. S \in F
    BY <1>4
  <1>. QED
    BY <1>2, <1>5 DEF F, u

LEMMA CountOfParts ==
  ASSUME NEW S, IsFiniteSet(S), NEW K, IsFiniteSet(K), NEW P, Parts(P, K, S),
         NEW n, DOMAIN n = K, n = [k \in K |-> n[k]],
         \A k \in K : n[k] = Cardinality(P[k])
  PROVE  SumFunction(n) = Cardinality(S)
  <1>. DEFINE u == [x \in S |-> 1]
  <1>1. u \in [S -> Int] /\ \A x \in S : u[x] = 1
    OBVIOUS
  <1>2. Cardinality(S) = SumFunction(u)
    BY CountIsSum
  <1>. HIDE DEF u
  <1>3. \A k \in K : IsFiniteSet(P[k]) /\ Cardinality(P[k]) \in Nat
    BY FS_Subset, FS_CardinalityType DEF Parts
  <1>4. n \in [K -> Int]
    BY <1>3
  <1>5. ASSUME NEW k \in K
        PROVE  n[k] = SumFunction([x \in P[k] |-> u[x]])
    <2>1. [x \in P[k] |-> u[x]] = [x \in P[k] |-> 1]
      BY <1>1 DEF Parts
    <2>. QED
      BY <1>3, <2>1, CountIsSum
  <1>6. SumFunction(n) = SumFunction(u)
    BY <1>1, <1>4, <1>5, SumOfParts
  <1>. QED
    BY <1>2, <1>6

LEMMA SumWithoutZeros ==
  ASSUME NEW S, IsFiniteSet(S), NEW T \in SUBSET S, NEW u \in [S -> Int],
         \A x \in S \ T : u[x] = 0
  PROVE  SumFunction(u) = SumFunction([x \in T |-> u[x]])
  <1>0. PICK g : SubsetSums(g, u, S)
    BY SumsOfSubsets
  <1>1. /\ Adds(g, u, 0, S)
        /\ SumFunction(u) = g[S]
        /\ \A R \in SUBSET S : SumFunction([x \in R |-> u[x]]) = g[R]
    BY <1>0 DEF SubsetSums
  <1>. DEFINE F == {R \in SUBSET (S \ T) : g[R] = 0}
  <1>2. ASSUME NEW R \in SUBSET (S \ T), \A x \in R : R \ {x} \in F
        PROVE  R \in F
    <2>1. CASE R = {}
      BY <1>1, <2>1 DEF Adds
    <2>2. ASSUME NEW x \in R
          PROVE  R \in F
      <3>1. g[R] = u[x] + g[R \ {x}] /\ u[x] = 0 /\ g[R \ {x}] = 0
        BY <1>1, <1>2 DEF Adds
      <3>. QED
        BY <3>1
    <2>. QED
      BY <2>1, <2>2
  <1>3. IsFiniteSet(S \ T)
    BY FS_Subset
  <1>. HIDE DEF F
  <1>4. SUBSET (S \ T) \subseteq F
    <2>1. PICK R : R = S \ T
      OBVIOUS
    <2>2. IsFiniteSet(R) /\ \A Q \in SUBSET R : (\A x \in Q : Q \ {x} \in F) => Q \in F
      BY <1>2, <1>3, <2>1
    <2>. QED
      BY <2>1, <2>2, SubsetsByInduction
  <1>5. g[S \ T] = 0
    BY <1>4 DEF F
  <1>6. T \cup (S \ T) = S /\ T \cap (S \ T) = {} /\ S \ T \in SUBSET S
    OBVIOUS
  <1>7. g[T \cup (S \ T)] = g[T] + g[S \ T]
    <2>1. \A A, B \in SUBSET S : A \cap B = {} => IsTotal(g[A \cup B], g[A], g[B])
      BY <1>0, AddsUnion, Zenon
    <2>. QED
      BY <1>6, <2>1 DEF IsTotal
  <1>8. g[T] \in Int
    BY <1>1 DEF Adds
  <1>9. SumFunction(u) = g[T] + 0
    BY <1>1, <1>5, <1>6, <1>7
  <1>10. SumFunction([x \in T |-> u[x]]) = g[T]
    BY <1>1
  <1>. QED
    BY <1>8, <1>9, <1>10

LEMMA SumOfNaturals ==
  ASSUME NEW S, IsFiniteSet(S), NEW u \in [S -> Nat]
  PROVE  SumFunction(u) \in Nat /\ \A x \in S : u[x] <= SumFunction(u)
  <1>0. u \in [S -> Int]
    OBVIOUS
  <1>1. PICK g : Adds(g, u, 0, S) /\ SumFunction(u) = g[S]
    BY <1>0, SumOfFunction
  <1>. DEFINE F == {R \in SUBSET S : g[R] \in Nat}
  <1>2. ASSUME NEW R \in SUBSET S, \A x \in R : R \ {x} \in F
        PROVE  R \in F
    <2>1. CASE R = {}
      BY <1>1, <2>1 DEF Adds
    <2>2. ASSUME NEW x \in R
          PROVE  R \in F
      <3>1. g[R] = u[x] + g[R \ {x}] /\ u[x] \in Nat /\ g[R \ {x}] \in Nat
        BY <1>1, <1>2 DEF Adds
      <3>. QED
        BY <3>1
    <2>. QED
      BY <2>1, <2>2
  <1>. HIDE DEF F
  <1>3. SUBSET S \subseteq F
    BY <1>2, SubsetsByInduction
  <1>4. ASSUME NEW x \in S
        PROVE  u[x] <= SumFunction(u)
    <2>1. g[S] = u[x] + g[S \ {x}] /\ g[S \ {x}] \in Nat /\ u[x] \in Nat
      BY <1>1, <1>3 DEF Adds, F
    <2>. QED
      BY <1>1, <2>1
  <1>. QED
    BY <1>1, <1>3, <1>4 DEF F

=============================================================================
