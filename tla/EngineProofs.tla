---------------------------- MODULE EngineProofs ----------------------------
(***************************************************************************)
(* Proofs about Engine, for any documents, words, lists and neural         *)
(* detector: what is detected is masked, what was masked can be restored,  *)
(* what leaves was scanned.  The folds of the code (the greedy choice of   *)
(* matches, the masking from the end, the sums of lengths) are unfolded by *)
(* a function over the subsets and by a smallest counterexample.           *)
(***************************************************************************)
EXTENDS Engine, FiniteSetTheorems, NaturalsInduction, WellFoundedInduction,
        SequenceTheorems, TLAPS

-----------------------------------------------------------------------------
(***************************************************************************)
(* Folds: the function behind each, and a smallest counterexample          *)
(***************************************************************************)

\* g is what the fold of the community modules computes of the subsets of S.
Recursion(g, S, base, pick, step) ==
    g = [s \in SUBSET S |-> IF s = {} THEN base ELSE step[<<pick[s], g[s \ {pick[s]}]>>]]

\* A set of naturals that is not empty has a least element.
LEMMA LeastNat == ASSUME NEW A, A \subseteq Nat, A # {} PROVE \E n \in A : \A m \in A : n <= m
<1>1. PICK n \in A : \A m \in A : ~(<<m, n>> \in OpToRel(<, Nat))
  BY NatLessThanWellFounded, WFMin
<1>2. ASSUME NEW m \in A, m < n PROVE FALSE
  <2>1. <<m, n>> \in OpToRel(<, Nat)
    BY <1>2 DEF OpToRel
  <2>. QED
    BY <1>1, <2>1
<1>. QED
  BY <1>2

\* Whatever element a fold picks of each subset, there is a function that computes it.
LEMMA FoldExists ==
    ASSUME NEW S, IsFiniteSet(S), NEW B, NEW base \in B,
           NEW pick \in [SUBSET S -> S], \A s \in SUBSET S : s # {} => pick[s] \in s,
           NEW step \in [S \X B -> B]
    PROVE  \E g \in [SUBSET S -> B] : Recursion(g, S, base, pick, step)
<1> DEFINE Up(n) == {s \in SUBSET S : Cardinality(s) <= n}
           Good(n, g) == /\ g \in [Up(n) -> B]
                         /\ \A s \in Up(n) : g[s] = IF s = {} THEN base ELSE step[<<pick[s], g[s \ {pick[s]}]>>]
           Bad == {n \in Nat : ~\E g : Good(n, g)}
<1>0. \A s \in SUBSET S : IsFiniteSet(s) /\ Cardinality(s) \in Nat
  BY FS_Subset, FS_CardinalityType
<1>1. \A s \in SUBSET S : s # {} => s \ {pick[s]} \in SUBSET S /\ Cardinality(s \ {pick[s]}) = Cardinality(s) - 1
  BY <1>0, FS_RemoveElement
<1>2. 0 \notin Bad
  <2>1. Up(0) = {{}}
    BY <1>0, FS_EmptySet
  <2>2. Good(0, [s \in Up(0) |-> base])
    BY <2>1
  <2>. QED
    BY <2>2
<1>3. ASSUME NEW n \in Nat, NEW g, Good(n, g) PROVE \E h : Good(n + 1, h)
  <2> DEFINE h == [s \in Up(n + 1) |-> IF s \in Up(n) THEN g[s] ELSE step[<<pick[s], g[s \ {pick[s]}]>>]]
  <2>1. ASSUME NEW s \in Up(n + 1), s # {} PROVE s \ {pick[s]} \in Up(n)
    BY <1>0, <1>1, <2>1
  <2>2. {} \in Up(n)
    BY FS_EmptySet
  <2>3. h \in [Up(n + 1) -> B]
    <3>1. ASSUME NEW s \in Up(n + 1) PROVE h[s] \in B
      BY <1>3, <2>1, <2>2
    <3>. QED
      BY <3>1
  <2>4. ASSUME NEW s \in Up(n + 1)
        PROVE  h[s] = IF s = {} THEN base ELSE step[<<pick[s], h[s \ {pick[s]}]>>]
    <3>1. CASE s = {}
      BY <1>3, <2>2, <3>1
    <3>2. CASE s # {}
      <4>1. s \ {pick[s]} \in Up(n) /\ s \ {pick[s]} \in Up(n + 1)
        BY <1>0, <2>1, <3>2
      <4>2. h[s \ {pick[s]}] = g[s \ {pick[s]}]
        BY <4>1
      <4>3. h[s] = IF s \in Up(n) THEN g[s] ELSE step[<<pick[s], g[s \ {pick[s]}]>>]
        OBVIOUS
      <4>4. s \in Up(n) => g[s] = step[<<pick[s], g[s \ {pick[s]}]>>]
        BY <1>3, <3>2
      <4> HIDE DEF h, Up, Good
      <4>. QED
        BY <3>2, <4>2, <4>3, <4>4
    <3>. QED
      BY <3>1, <3>2
  <2>. QED
    BY <2>3, <2>4
<1>4. Bad = {}
  <2> SUFFICES ASSUME Bad # {} PROVE FALSE
    OBVIOUS
  <2>1. PICK n \in Bad : \A m \in Bad : n <= m
    <3>1. Bad \subseteq Nat
      OBVIOUS
    <3> HIDE DEF Bad
    <3>. QED
      BY <3>1, LeastNat
  <2>2. n \in Nat /\ n # 0
    BY <1>2, <2>1
  <2>3. n - 1 \in Nat /\ n - 1 \notin Bad
    <3>1. n - 1 \in Nat /\ ~(n <= n - 1)
      BY <2>2
    <3> HIDE DEF Bad
    <3>. QED
      BY <2>1, <3>1
  <2>4. PICK g : Good(n - 1, g)
    BY <2>3
  <2> HIDE DEF Good
  <2>5. (n - 1) + 1 = n
    BY <2>2
  <2>. QED
    BY <1>3, <2>1, <2>2, <2>3, <2>4, <2>5
<1>. QED
  <2>0. Cardinality(S) \in Nat
    BY FS_CardinalityType
  <2>1. PICK g : Good(Cardinality(S), g)
    BY <2>0, <1>4
  <2>2. Up(Cardinality(S)) = SUBSET S
    BY <1>0, FS_Subset
  <2>3. g \in [SUBSET S -> B]
    BY <2>1, <2>2
  <2>4. \A s \in SUBSET S : g[s] = IF s = {} THEN base ELSE step[<<pick[s], g[s \ {pick[s]}]>>]
    BY <2>1, <2>2
  <2>5. g = [s \in SUBSET S |-> g[s]]
    BY <2>3
  <2>6. Recursion(g, S, base, pick, step)
    BY <2>4, <2>5, Zenon DEF Recursion
  <2>. QED
    BY <2>3, <2>6

-----------------------------------------------------------------------------
(***************************************************************************)
(* Overlaps: the greedy choice (resolve_overlaps)                          *)
(***************************************************************************)

\* Of the subsets of a finite set that have something in common, one is smallest.
LEMMA LeastSubset ==
    ASSUME NEW S, IsFiniteSet(S), NEW A, A \subseteq SUBSET S, A # {}
    PROVE  \E t \in A : \A u \in A : Cardinality(t) <= Cardinality(u)
<1> DEFINE Sizes == {Cardinality(t) : t \in A}
<1>1. Sizes \subseteq Nat
  BY FS_Subset, FS_CardinalityType
<1>2. PICK n \in Sizes : \A m \in Sizes : n <= m
  <2> HIDE DEF Sizes
  <2>1. Sizes # {}
    BY DEF Sizes
  <2>. QED
    BY <1>1, <2>1, LeastNat
<1>. QED
  BY <1>2

\* A smaller subset.
LEMMA Without ==
    ASSUME NEW S, IsFiniteSet(S), NEW t, t \subseteq S, NEW x \in t
    PROVE  /\ t \ {x} \subseteq S /\ IsFiniteSet(t)
           /\ ~(Cardinality(t) <= Cardinality(t \ {x}))
BY FS_Subset, FS_CardinalityType, FS_RemoveElement

\* What the order of the matches is made of are numbers.
Ranked(T, m) == Chars(T, m.s, m.e) \in Int /\ m.score \in Int /\ m.pri \in Int /\ m.s \in Int

\* Resolve always has a worst match to leave for last.
LEMMA WorstExists ==
    ASSUME NEW T, NEW raw, IsFiniteSet(raw), \A m \in raw : Ranked(T, m),
           NEW ms, ms \subseteq raw, ms # {}
    PROVE  \E m \in ms : \A x \in ms : ~Before(T, m, x)
<1> DEFINE Worst(s, m) == m \in s /\ \A x \in s : ~Before(T, m, x)
           Bad == {s \in SUBSET raw : s # {} /\ ~\E m \in s : Worst(s, m)}
<1>0. \A a, b, c \in raw : /\ ~Before(T, a, a)
                           /\ Before(T, a, b) /\ Before(T, b, c) => Before(T, a, c)
  BY DEF Before, Ranked
<1>1. Bad = {}
  <2> SUFFICES ASSUME Bad # {} PROVE FALSE
    OBVIOUS
  <2>1. PICK s \in Bad : \A u \in Bad : Cardinality(s) <= Cardinality(u)
    <3>1. Bad \subseteq SUBSET raw
      OBVIOUS
    <3> HIDE DEF Bad
    <3>. QED
      BY <3>1, LeastSubset
  <2>2. PICK x \in s : TRUE
    BY <2>1
  <2>3. s \ {x} \notin Bad /\ s \ {x} \subseteq raw
    <3>1. s \subseteq raw
      BY <2>1
    <3> HIDE DEF Bad
    <3>. QED
      BY <2>1, <3>1, Without
  <2>4. s \ {x} # {}
    <3>1. ASSUME s \ {x} = {} PROVE Worst(s, x)
      BY <1>0, <2>1, <2>2, <3>1
    <3>. QED
      BY <2>1, <2>2, <3>1
  <2>5. PICK y \in s \ {x} : Worst(s \ {x}, y)
    BY <2>3, <2>4
  <2>6. Worst(s, y) \/ Worst(s, x)
    BY <1>0, <2>1, <2>2, <2>5
  <2>. QED
    BY <2>1, <2>2, <2>5, <2>6
<1>. QED
  BY <1>1

\* A match is taken unless it overlaps one that was (resolve_overlaps).
Add(m, kept) == IF \E k \in kept : Overlap(k, m) THEN kept ELSE kept \cup {m}

\* g[s] is what is kept of the matches s.
Keeps(T, raw, g) ==
    /\ g \in [SUBSET raw -> SUBSET raw]
    /\ g[{}] = {} /\ Resolve(T, raw) = g[raw]
    /\ \A s \in SUBSET raw : s # {} =>
          \E w \in s : (\A x \in s : ~Before(T, w, x)) /\ g[s] = Add(w, g[s \ {w}])

\* Resolve is the last value of such a function.
LEMMA ResolveFold ==
    ASSUME NEW T, NEW raw, IsFiniteSet(raw), \A m \in raw : Ranked(T, m)
    PROVE  \E g : Keeps(T, raw, g)
<1> DEFINE Worst(ms) == CHOOSE m \in ms : \A x \in ms : ~Before(T, m, x)
           Eq(g) == g = [s \in SUBSET raw |-> IF s = {} THEN {} ELSE Add(Worst(s), g[s \ {Worst(s)}])]
           iter == CHOOSE g : Eq(g)
<1>1. Resolve(T, raw) = iter[raw]
  BY DEF Resolve, MapThenFoldSet, Add
<1>2. \A s \in SUBSET raw : s # {} => Worst(s) \in s /\ \A x \in s : ~Before(T, Worst(s), x)
  <2> SUFFICES ASSUME NEW s \in SUBSET raw, s # {}
               PROVE  Worst(s) \in s /\ \A x \in s : ~Before(T, Worst(s), x)
    OBVIOUS
  <2>1. \E m \in s : \A x \in s : ~Before(T, m, x)
    BY WorstExists
  <2>. QED
    BY <2>1
<1>3. Eq(iter)
  <2>1. CASE raw = {}
    <3>1. Eq([s \in SUBSET raw |-> {}])
      BY <2>1
    <3>. QED
      BY <3>1
  <2>2. CASE raw # {}
    <3> DEFINE pick == [s \in SUBSET raw |-> IF s = {} THEN CHOOSE m \in raw : TRUE ELSE Worst(s)]
               step == [x \in raw \X SUBSET raw |-> Add(x[1], x[2])]
    <3>1. pick \in [SUBSET raw -> raw] /\ \A s \in SUBSET raw : s # {} => pick[s] \in s
      BY <1>2, <2>2
    <3>2. step \in [raw \X SUBSET raw -> SUBSET raw]
      BY DEF Add
    <3>3. PICK g \in [SUBSET raw -> SUBSET raw] : Recursion(g, raw, {}, pick, step)
      <4> HIDE DEF pick, step
      <4>. QED
        BY <3>1, <3>2, FoldExists
    <3>4. \A s \in SUBSET raw : g[s] = IF s = {} THEN {} ELSE Add(Worst(s), g[s \ {Worst(s)}])
      <4> SUFFICES ASSUME NEW s \in SUBSET raw
                   PROVE  g[s] = IF s = {} THEN {} ELSE Add(Worst(s), g[s \ {Worst(s)}])
        OBVIOUS
      <4>1. g[s] = IF s = {} THEN {} ELSE step[<<pick[s], g[s \ {pick[s]}]>>]
        BY <3>3, Zenon DEF Recursion
      <4>2. ASSUME s # {} PROVE step[<<Worst(s), g[s \ {Worst(s)}]>>] = Add(Worst(s), g[s \ {Worst(s)}])
        <5>1. Worst(s) \in raw /\ g[s \ {Worst(s)}] \in SUBSET raw
          BY <1>2, <3>3, <4>2
        <5> HIDE DEF Worst
        <5>. QED
          BY <5>1
      <4>3. ASSUME s # {} PROVE pick[s] = Worst(s)
        BY <4>3
      <4>4. CASE s = {}
        <5> HIDE DEF Worst, pick, step
        <5>. QED
          BY <4>1, <4>4
      <4>5. CASE s # {}
        <5> HIDE DEF Worst, pick, step
        <5>1. g[s] = step[<<Worst(s), g[s \ {Worst(s)}]>>]
          BY <4>1, <4>3, <4>5
        <5>. QED
          BY <4>2, <4>5, <5>1
      <4> HIDE DEF Worst, pick, step
      <4>. QED
        BY <4>4, <4>5
    <3>5. g = [s \in SUBSET raw |-> g[s]]
      BY <3>3
    <3>6. Eq(g)
      <4> HIDE DEF Worst
      <4>. QED
        BY <3>4, <3>5
    <3> HIDE DEF Eq
    <3>. QED
      BY <3>6
  <2>. QED
    BY <2>1, <2>2
<1> HIDE DEF iter
<1>4. \A s \in SUBSET raw : iter[s] = IF s = {} THEN {} ELSE Add(Worst(s), iter[s \ {Worst(s)}])
  <2> HIDE DEF Worst
  <2>. QED
    BY <1>3
<1>5. iter \in [SUBSET raw -> SUBSET raw]
  <2> DEFINE Bad == {s \in SUBSET raw : ~(iter[s] \in SUBSET raw)}
  <2> HIDE DEF Worst
  <2>1. Bad = {}
    <3> SUFFICES ASSUME Bad # {} PROVE FALSE
      OBVIOUS
    <3>1. PICK s \in Bad : \A u \in Bad : Cardinality(s) <= Cardinality(u)
      <4>1. Bad \subseteq SUBSET raw
        OBVIOUS
      <4> HIDE DEF Bad
      <4>. QED
        BY <4>1, LeastSubset
    <3>2. s # {}
      BY <1>4, <3>1
    <3>3. s \subseteq raw /\ Worst(s) \in s
      BY <1>2, <3>1, <3>2
    <3>4. s \ {Worst(s)} \notin Bad /\ s \ {Worst(s)} \subseteq raw
      <4> HIDE DEF Bad
      <4>. QED
        BY <3>1, <3>3, Without
    <3>5. iter[s \ {Worst(s)}] \in SUBSET raw
      BY <3>4
    <3>6. iter[s] = Add(Worst(s), iter[s \ {Worst(s)}])
      BY <1>4, <3>2, <3>3
    <3>. QED
      BY <3>1, <3>3, <3>5, <3>6 DEF Add
  <2>2. \E D : DOMAIN iter = SUBSET raw /\ iter = [s \in SUBSET raw |-> iter[s]]
    BY <1>3
  <2>. QED
    BY <2>1, <2>2
<1>6. \A s \in SUBSET raw : s # {} =>
         \E w \in s : (\A x \in s : ~Before(T, w, x)) /\ iter[s] = Add(w, iter[s \ {w}])
  <2> HIDE DEF Worst
  <2>. QED
    BY <1>2, <1>4
<1>7. iter[{}] = {}
  <2> HIDE DEF Worst
  <2>. QED
    BY <1>4
<1>. QED
  BY <1>1, <1>5, <1>6, <1>7, Zenon DEF Keeps

\* K settles the overlaps of s: no two of K overlap, and what is not in K gave way
\* to a match of K that is no worse.
Settled(T, s, K) ==
    /\ K \subseteq s
    /\ \A a, b \in K : a # b => ~Overlap(a, b)
    /\ \A m \in s : m \in K \/ \E k \in K : Overlap(k, m) /\ ~Before(T, m, k)

\* resolve_overlaps settles the overlaps of whatever it is given.
LEMMA ResolveSettles ==
    ASSUME NEW T, NEW raw, IsFiniteSet(raw), \A m \in raw : Ranked(T, m)
    PROVE  Settled(T, raw, Resolve(T, raw))
<1>1. PICK g : Keeps(T, raw, g)
  BY ResolveFold
<1> DEFINE Bad == {s \in SUBSET raw : ~Settled(T, s, g[s])}
<1>2. Bad = {}
  <2> SUFFICES ASSUME Bad # {} PROVE FALSE
    OBVIOUS
  <2>1. PICK s \in Bad : \A u \in Bad : Cardinality(s) <= Cardinality(u)
    <3>1. Bad \subseteq SUBSET raw
      OBVIOUS
    <3> HIDE DEF Bad
    <3>. QED
      BY <3>1, LeastSubset
  <2>2. s # {}
    BY <1>1, <2>1 DEF Settled, Keeps
  <2>3. PICK w \in s : (\A x \in s : ~Before(T, w, x)) /\ g[s] = Add(w, g[s \ {w}])
    BY <1>1, <2>1, <2>2 DEF Keeps
  <2>4. s \ {w} \notin Bad /\ s \ {w} \subseteq raw
    <3>1. s \subseteq raw
      BY <2>1
    <3> HIDE DEF Bad
    <3>. QED
      BY <2>1, <3>1, Without
  <2>5. Settled(T, s \ {w}, g[s \ {w}])
    BY <2>4
  <2> DEFINE K == g[s \ {w}]
  <2>6. g[s] \subseteq s /\ K \subseteq g[s] /\ g[s] \subseteq K \cup {w}
    BY <2>3, <2>5 DEF Settled, Add
  <2>7. ASSUME NEW a \in g[s], NEW b \in g[s], a # b PROVE ~Overlap(a, b)
    <3>1. CASE \E k \in K : Overlap(k, w)
      BY <2>3, <2>5, <2>7, <3>1 DEF Settled, Add
    <3>2. CASE ~\E k \in K : Overlap(k, w)
      BY <2>5, <2>6, <2>7, <3>2 DEF Settled, Overlap
    <3>. QED
      BY <3>1, <3>2
  <2>8. ASSUME NEW m \in s
        PROVE  m \in g[s] \/ \E k \in g[s] : Overlap(k, m) /\ ~Before(T, m, k)
    <3>1. CASE m = w
      <4>1. w \in g[s] \/ \E k \in K : Overlap(k, w)
        BY <2>3 DEF Add
      <4>. QED
        BY <2>3, <2>6, <3>1, <4>1
    <3>2. CASE m # w
      BY <2>5, <2>6, <2>8, <3>2 DEF Settled
    <3>. QED
      BY <3>1, <3>2
  <2>9. Settled(T, s, g[s])
    BY <2>6, <2>7, <2>8 DEF Settled
  <2>. QED
    BY <2>1, <2>9
<1>. QED
  BY <1>1, <1>2 DEF Keeps

\* Sums over the cells of a span.
Blank(T, i) == IF NotEol(T[i].w) THEN T[i].n + 1 ELSE 0

\* g[s] is the sum of f over s.
Sums(D, f, g) ==
    /\ g \in [SUBSET D -> Nat] /\ g[{}] = 0 /\ FoldFunction(+, 0, f) = g[D]
    /\ \A s \in SUBSET D : s # {} => \E i \in s : g[s] = f[i] + g[s \ {i}]

\* The fold that adds up lengths is a sum.
LEMMA PlusFold ==
    ASSUME NEW D, IsFiniteSet(D), NEW f \in [D -> Nat]
    PROVE  \E g : Sums(D, f, g)
<1> DEFINE Some(s) == CHOOSE i \in s : TRUE
           Eq(g) == g = [s \in SUBSET D |-> IF s = {} THEN 0 ELSE f[Some(s)] + g[s \ {Some(s)}]]
           iter == CHOOSE g : Eq(g)
<1>0. DOMAIN f = D
  OBVIOUS
<1>1. FoldFunction(+, 0, f) = iter[D]
  BY <1>0 DEF FoldFunction, FoldFunctionOnSet, MapThenFoldSet
<1>2. \A s \in SUBSET D : s # {} => Some(s) \in s
  OBVIOUS
<1>3. Eq(iter)
  <2>1. CASE D = {}
    <3>1. Eq([s \in SUBSET D |-> 0])
      BY <2>1
    <3>. QED
      BY <3>1
  <2>2. CASE D # {}
    <3> DEFINE pick == [s \in SUBSET D |-> IF s = {} THEN CHOOSE i \in D : TRUE ELSE Some(s)]
               step == [x \in D \X Nat |-> f[x[1]] + x[2]]
    <3>1. pick \in [SUBSET D -> D] /\ \A s \in SUBSET D : s # {} => pick[s] \in s
      BY <1>2, <2>2
    <3>2. step \in [D \X Nat -> Nat]
      OBVIOUS
    <3>3. PICK g \in [SUBSET D -> Nat] : Recursion(g, D, 0, pick, step)
      <4> HIDE DEF pick, step
      <4>. QED
        BY <3>1, <3>2, FoldExists
    <3>4. ASSUME NEW s \in SUBSET D
          PROVE  g[s] = IF s = {} THEN 0 ELSE f[Some(s)] + g[s \ {Some(s)}]
      <4>1. g[s] = IF s = {} THEN 0 ELSE step[<<pick[s], g[s \ {pick[s]}]>>]
        BY <3>3, Zenon DEF Recursion
      <4>2. CASE s = {}
        <5> HIDE DEF Some, pick, step
        <5>. QED
          BY <4>1, <4>2
      <4>3. CASE s # {}
        <5>1. pick[s] = Some(s) /\ Some(s) \in D
          BY <4>3
        <5>2. g[s \ {Some(s)}] \in Nat
          BY <3>3
        <5>3. \A b \in Nat, a \in D : step[<<a, b>>] = f[a] + b
          OBVIOUS
        <5> HIDE DEF Some, pick, step
        <5>. QED
          BY <4>1, <4>3, <5>1, <5>2, <5>3
      <4> HIDE DEF Some
      <4>. QED
        BY <4>2, <4>3
    <3>5. g = [s \in SUBSET D |-> g[s]]
      BY <3>3
    <3>6. Eq(g)
      <4> HIDE DEF Some
      <4>. QED
        BY <3>4, <3>5
    <3> HIDE DEF Eq
    <3>. QED
      BY <3>6
  <2>. QED
    BY <2>1, <2>2
<1> HIDE DEF iter
<1>4. iter[{}] = 0
  <2> HIDE DEF Some
  <2>. QED
    BY <1>3
<1>7. \A s \in SUBSET D : s # {} => iter[s] = f[Some(s)] + iter[s \ {Some(s)}]
  <2>1. \A s \in SUBSET D : iter[s] = IF s = {} THEN 0 ELSE f[Some(s)] + iter[s \ {Some(s)}]
    <3> HIDE DEF Some
    <3>. QED
      BY <1>3
  <2> HIDE DEF Some
  <2>. QED
    BY <2>1
<1>5. iter \in [SUBSET D -> Nat]
  <2> DEFINE Bad == {s \in SUBSET D : ~(iter[s] \in Nat)}
  <2> HIDE DEF Some
  <2>1. Bad = {}
    <3> SUFFICES ASSUME Bad # {} PROVE FALSE
      OBVIOUS
    <3>1. PICK s \in Bad : \A u \in Bad : Cardinality(s) <= Cardinality(u)
      <4>1. Bad \subseteq SUBSET D
        OBVIOUS
      <4> HIDE DEF Bad
      <4>. QED
        BY <4>1, LeastSubset
    <3>2. s # {}
      BY <1>4, <3>1
    <3>3. s \subseteq D /\ Some(s) \in s
      BY <1>2, <3>1, <3>2
    <3>4. s \ {Some(s)} \notin Bad /\ s \ {Some(s)} \subseteq D
      <4> HIDE DEF Bad
      <4>. QED
        BY <3>1, <3>3, Without
    <3>5. iter[s \ {Some(s)}] \in Nat /\ f[Some(s)] \in Nat
      BY <3>3, <3>4
    <3>6. iter[s] = f[Some(s)] + iter[s \ {Some(s)}]
      BY <1>7, <3>2, <3>3
    <3>7. iter[s] \in Nat
      BY <3>5, <3>6
    <3>. QED
      BY <3>1, <3>7
  <2>2. iter = [s \in SUBSET D |-> iter[s]]
    BY <1>3
  <2>. QED
    BY <2>1, <2>2
<1>6. \A s \in SUBSET D : s # {} => \E i \in s : iter[s] = f[i] + iter[s \ {i}]
  <2> HIDE DEF Some
  <2>. QED
    BY <1>2, <1>7
<1>. QED
  BY <1>1, <1>4, <1>5, <1>6, Zenon DEF Sums

\* A sum may be taken apart at any of its terms.
LEMMA SumsAny ==
    ASSUME NEW D, IsFiniteSet(D), NEW f \in [D -> Nat], NEW g, Sums(D, f, g),
           NEW t, t \subseteq D, NEW a \in t
    PROVE  g[t] = f[a] + g[t \ {a}]
<1> DEFINE Bad == {s \in SUBSET D : ~\A i \in s : g[s] = f[i] + g[s \ {i}]}
<1>1. Bad = {}
  <2> SUFFICES ASSUME Bad # {} PROVE FALSE
    OBVIOUS
  <2>1. PICK s \in Bad : \A u \in Bad : Cardinality(s) <= Cardinality(u)
    <3>1. Bad \subseteq SUBSET D
      OBVIOUS
    <3> HIDE DEF Bad
    <3>. QED
      BY <3>1, LeastSubset
  <2>2. PICK i \in s : g[s] # f[i] + g[s \ {i}]
    BY <2>1
  <2>3. PICK j \in s : g[s] = f[j] + g[s \ {j}]
    BY <2>1, <2>2 DEF Sums
  <2>4. i # j /\ s \subseteq D
    BY <2>1, <2>2, <2>3
  <2>5. s \ {i} \notin Bad /\ s \ {j} \notin Bad
    <3> HIDE DEF Bad
    <3>. QED
      BY <2>1, <2>2, <2>3, <2>4, Without
  <2>6. g[s \ {i}] = f[j] + g[(s \ {i}) \ {j}]
    BY <2>3, <2>4, <2>5
  <2>7. g[s \ {j}] = f[i] + g[(s \ {j}) \ {i}]
    BY <2>2, <2>4, <2>5
  <2>8. (s \ {i}) \ {j} = (s \ {j}) \ {i}
    OBVIOUS
  <2>9. f[i] \in Nat /\ f[j] \in Nat /\ g[(s \ {i}) \ {j}] \in Nat
    <3>1. (s \ {i}) \ {j} \in SUBSET D
      BY <2>4
    <3>. QED
      BY <2>4, <3>1 DEF Sums
  <2> DEFINE z == g[(s \ {i}) \ {j}]
  <2>10. g[s] = f[j] + (f[i] + z) /\ g[s \ {i}] = f[j] + z
    BY <2>3, <2>6, <2>7, <2>8
  <2> HIDE DEF z
  <2>11. f[j] + (f[i] + z) = f[i] + (f[j] + z)
    BY <2>9 DEF z
  <2>. QED
    BY <2>2, <2>10, <2>11
<1>. QED
  BY <1>1

\* A part has no greater sum than the whole, and the same one only if the rest
\* adds nothing.
LEMMA SumsBelow ==
    ASSUME NEW D, NEW f \in [D -> Nat], NEW g, Sums(D, f, g),
           NEW E, IsFiniteSet(E), NEW h \in [E -> Nat], NEW k, Sums(E, h, k),
           D \subseteq E, \A i \in D : f[i] = h[i]
    PROVE  /\ g[D] <= k[E] /\ g[D] \in Nat /\ k[E] \in Nat
           /\ g[D] = k[E] => \A i \in E \ D : h[i] = 0
<1> DEFINE Below(s, t) == g[s] <= k[t] /\ (g[s] = k[t] => \A i \in t \ s : h[i] = 0)
           Bad == {t \in SUBSET E : ~\A s \in SUBSET (D \cap t) : Below(s, t)}
<1>0. IsFiniteSet(D)
  BY FS_Subset
<1>1. Bad = {}
  <2> SUFFICES ASSUME Bad # {} PROVE FALSE
    OBVIOUS
  <2>1. PICK t \in Bad : \A u \in Bad : Cardinality(t) <= Cardinality(u)
    <3>1. Bad \subseteq SUBSET E
      OBVIOUS
    <3> HIDE DEF Bad
    <3>. QED
      BY <3>1, LeastSubset
  <2>2. PICK s \in SUBSET (D \cap t) : ~Below(s, t)
    BY <2>1
  <2>3. t # {}
    <3>1. ASSUME t = {} PROVE Below(s, t)
      <4>1. s = {} /\ g[s] = 0 /\ k[t] = 0
        BY <3>1 DEF Sums
      <4>. QED
        BY <3>1, <4>1
    <3>. QED
      BY <2>2, <3>1
  <2>4. PICK i \in t : k[t] = h[i] + k[t \ {i}]
    BY <2>1, <2>3 DEF Sums
  <2>5. t \subseteq E /\ t \ {i} \notin Bad
    <3>1. t \subseteq E
      BY <2>1
    <3> HIDE DEF Bad
    <3>. QED
      BY <2>1, <3>1, Without
  <2>6. \A u \in SUBSET (D \cap (t \ {i})) : Below(u, t \ {i})
    <3> HIDE DEF Below
    <3>. QED
      BY <2>5
  <2>7. h[i] \in Nat /\ k[t \ {i}] \in Nat
    <3>1. t \ {i} \in SUBSET E
      BY <2>5
    <3>. QED
      BY <2>5, <3>1 DEF Sums
  <2>8. \A u \in SUBSET D : g[u] \in Nat
    BY DEF Sums
  <2>9. CASE i \notin s
    <3>1. Below(s, t \ {i})
      <4> HIDE DEF Below
      <4>. QED
        BY <2>6, <2>9
    <3>2. g[s] <= k[t]
      BY <2>4, <2>7, <2>8, <3>1
    <3>3. ASSUME g[s] = k[t], NEW q \in t \ s PROVE h[q] = 0
      <4>1. h[i] = 0 /\ g[s] = k[t \ {i}]
        BY <2>4, <2>7, <2>8, <3>1, <3>3
      <4>. QED
        BY <3>1, <3>3, <4>1
    <3>. QED
      BY <2>2, <3>2, <3>3
  <2>10. CASE i \in s
    <3>1. g[s] = f[i] + g[s \ {i}] /\ f[i] = h[i]
      BY <1>0, <2>10, SumsAny
    <3>2. Below(s \ {i}, t \ {i})
      <4> HIDE DEF Below
      <4>. QED
        BY <2>6, <2>10
    <3>3. g[s \ {i}] \in Nat
      BY <2>8
    <3>4. g[s] <= k[t]
      BY <2>4, <2>7, <3>1, <3>2, <3>3
    <3>5. ASSUME g[s] = k[t], NEW q \in t \ s PROVE h[q] = 0
      <4>1. g[s \ {i}] = k[t \ {i}]
        BY <2>4, <2>7, <3>1, <3>3, <3>5
      <4>2. q \in (t \ {i}) \ (s \ {i})
        BY <2>10, <3>5
      <4>. QED
        BY <3>2, <4>1, <4>2
    <3>. QED
      BY <2>2, <3>4, <3>5
  <2>. QED
    BY <2>9, <2>10
<1>2. Below(D, E)
  <2> HIDE DEF Below
  <2>. QED
    BY <1>1
<1>3. g[D] \in Nat /\ k[E] \in Nat
  BY DEF Sums
<1>. QED
  BY <1>2, <1>3

\* A text is a sequence of cells that have lengths.
IsText(T) == Len(T) \in Nat /\ \A i \in 1..Len(T) : T[i].n \in Nat

\* The cells s to e - 1 are cells of the text T.
Span(T, s, e) == s \in 1..Len(T) /\ e \in 2..(Len(T) + 1) /\ s < e

\* The characters of a span are such a sum.
LEMMA CharsSum ==
    ASSUME NEW T, IsText(T), NEW s \in 1..(Len(T) + 1), NEW e \in 1..(Len(T) + 1)
    PROVE  \E g : /\ Sums(s..(e - 1), [i \in s..(e - 1) |-> Blank(T, i)], g)
                  /\ Chars(T, s, e) = g[s..(e - 1)]
<1> DEFINE D == s..(e - 1)
           f == [i \in D |-> Blank(T, i)]
<1>1. IsFiniteSet(D)
  BY FS_Interval DEF IsText
<1>2. f \in [D -> Nat]
  BY DEF IsText, Blank
<1>3. PICK g : Sums(D, f, g)
  <2> HIDE DEF D, f
  <2>. QED
    BY <1>1, <1>2, PlusFold
<1>4. Chars(T, s, e) = FoldFunction(+, 0, f)
  BY DEF Chars, Blank
<1>. QED
  BY <1>3, <1>4 DEF Sums

\* A longer span has no fewer characters, and as many only if it goes on over
\* ends of lines.
LEMMA CharsBelow ==
    ASSUME NEW T, IsText(T), NEW s, NEW e, Span(T, s, e), NEW u, NEW v, Span(T, u, v),
           u <= s, e <= v
    PROVE  /\ Chars(T, s, e) \in Nat /\ Chars(T, u, v) \in Nat
           /\ Chars(T, s, e) <= Chars(T, u, v)
           /\ Chars(T, s, e) = Chars(T, u, v) =>
                 \A i \in u..(v - 1) : NotEol(T[i].w) => i \in s..(e - 1)
<1> DEFINE D == s..(e - 1)
           f == [i \in D |-> Blank(T, i)]
           E == u..(v - 1)
           h == [i \in E |-> Blank(T, i)]
<1>0. /\ s \in 1..(Len(T) + 1) /\ e \in 1..(Len(T) + 1)
      /\ u \in 1..(Len(T) + 1) /\ v \in 1..(Len(T) + 1)
  BY DEF Span, IsText
<1>1. PICK g : Sums(D, f, g) /\ Chars(T, s, e) = g[D]
  BY <1>0, CharsSum, Zenon
<1>2. PICK k : Sums(E, h, k) /\ Chars(T, u, v) = k[E]
  BY <1>0, CharsSum, Zenon
<1>3. D \subseteq E /\ \A i \in D : f[i] = h[i]
  BY DEF Span, IsText
<1>4. f \in [D -> Nat] /\ h \in [E -> Nat]
  BY DEF Span, IsText, Blank
<1>5. IsFiniteSet(E)
  BY FS_Interval DEF Span, IsText
<1>6. /\ g[D] <= k[E] /\ g[D] \in Nat /\ k[E] \in Nat
      /\ g[D] = k[E] => \A i \in E \ D : h[i] = 0
  <2> HIDE DEF D, E, f, h
  <2>. QED
    BY <1>1, <1>2, <1>3, <1>4, <1>5, SumsBelow
<1>7. ASSUME NEW i \in E, h[i] = 0 PROVE ~NotEol(T[i].w)
  BY <1>7 DEF Blank, IsText, Span
<1>. QED
  BY <1>1, <1>2, <1>6, <1>7

-----------------------------------------------------------------------------
(***************************************************************************)
(* What the helpers of the recognizers return                              *)
(***************************************************************************)

\* The least of a set of naturals.
LEMMA MinIs ==
    ASSUME NEW S, S \subseteq Nat, S # {}
    PROVE  Min(S) \in S /\ \A x \in S : Min(S) <= x
<1>1. \E n \in S : \A m \in S : n <= m
  BY LeastNat
<1>. QED
  BY <1>1 DEF Min

\* The greatest of a set of naturals that has a bound.
LEMMA MaxIs ==
    ASSUME NEW S, S \subseteq Nat, S # {}, NEW b \in Nat, \A x \in S : x <= b
    PROVE  Max(S) \in S /\ \A x \in S : x <= Max(S)
<1> DEFINE R == {b - x : x \in S}
<1>1. R \subseteq Nat /\ R # {}
  <2>1. \A x \in S : b - x \in Nat
    OBVIOUS
  <2>2. R # {}
    OBVIOUS
  <2>. QED
    BY <2>1, <2>2
<1>2. PICK r \in R : \A q \in R : r <= q
  <2> HIDE DEF R
  <2>. QED
    BY <1>1, LeastNat
<1>3. PICK x \in S : r = b - x
  BY <1>2
<1>4. ASSUME NEW y \in S PROVE y <= x
  <2>1. b - x <= b - y
    BY <1>2, <1>3
  <2>. QED
    BY <2>1
<1>5. \E n \in S : \A m \in S : n >= m
  BY <1>4
<1>6. Max(S) \in S /\ \A m \in S : Max(S) >= m
  BY <1>5 DEF Max
<1>. QED
  BY <1>6

\* A run of words ends within the text.
LEMMA RunEndIs ==
    ASSUME NEW T, Len(T) \in Nat, NEW i \in Nat, NEW W, NEW n \in Nat, i <= Len(T) + 1
    PROVE  LET e == RunEnd(T, i, W, n) IN
           /\ e \in i..(i + n) /\ e <= Len(T) + 1
           /\ \A k \in i..(e - 1) : T[k].w \in W
<1> DEFINE S == {e \in i..(i + n) : e <= Len(T) + 1 /\ \A k \in i..(e - 1) : T[k].w \in W} \cup {i}
<1>1. S \subseteq Nat /\ S # {} /\ i + n \in Nat /\ \A x \in S : x <= i + n
  OBVIOUS
<1>2. RunEnd(T, i, W, n) = Max(S)
  BY DEF RunEnd
<1>3. Max(S) \in S
  <2> HIDE DEF S
  <2>. QED
    BY <1>1, MaxIs
<1>4. i \in i..(i + n) /\ \A k \in i..(i - 1) : T[k].w \in W
  OBVIOUS
<1>. QED
  BY <1>2, <1>3, <1>4

\* The next word is a word of the text or the end of it.
LEMMA NextWordIs ==
    ASSUME NEW T, Len(T) \in Nat, NEW i \in 1..Len(T)
    PROVE  /\ NextWord(T, i) \in (i + 1)..(Len(T) + 1)
           /\ NextWord(T, i) <= Len(T) => NotEol(T[NextWord(T, i)].w)
<1> DEFINE S == {j \in (i + 1)..Len(T) : NotEol(T[j].w)} \cup {Len(T) + 1}
<1>1. S \subseteq Nat /\ S # {}
  OBVIOUS
<1>2. Min(S) \in S
  <2> HIDE DEF S
  <2>. QED
    BY <1>1, MinIs
<1>. QED
  BY <1>2 DEF NextWord

\* The end of a line.
LEMMA EolIs ==
    ASSUME NEW T, Len(T) \in Nat, NEW i \in 1..(Len(T) + 1)
    PROVE  /\ Eol(T, i) \in i..(Len(T) + 1)
           /\ \A k \in i..(Eol(T, i) - 1) : NotEol(T[k].w)
<1> DEFINE S == {j \in i..Len(T) : T[j].w = "nl"} \cup {Len(T) + 1}
<1>1. S \subseteq Nat /\ S # {}
  OBVIOUS
<1>2. Min(S) \in S /\ \A x \in S : Min(S) <= x
  <2> HIDE DEF S
  <2>. QED
    BY <1>1, MinIs
<1>3. Eol(T, i) \in S /\ \A x \in S : Eol(T, i) <= x
  BY <1>2 DEF Eol
<1>4. ASSUME NEW k \in i..(Eol(T, i) - 1) PROVE NotEol(T[k].w)
  <2>1. k \in i..Len(T) /\ k \notin S
    BY <1>3
  <2>. QED
    BY <2>1 DEF NotEol
<1>. QED
  BY <1>3, <1>4

\* A pattern is found only where it has an end.
LEMMA FindIterIs ==
    ASSUME NEW n \in Nat, NEW end \in [1..n -> Int]
    PROVE  FindIter(end) \subseteq {i \in 1..n : end[i] > i}
<1> DEFINE D == 1..n
           Step(f, i) == IF f.next <= i /\ end[i] > i
                         THEN [next |-> end[i], at |-> f.at \cup {i}] ELSE f
           Found1 == {i \in D : end[i] > i}
           B == [next : Int, at : SUBSET Found1]
           base == [next |-> 1, at |-> {}]
           Eq(g) == g = [s \in SUBSET D |-> IF s = {} THEN base ELSE Step(g[s \ {Max(s)}], [j \in D |-> j][Max(s)])]
           iter == CHOOSE g : Eq(g)
<1>1. FindIter(end) = iter[D].at
  <2>1. Len(end) = n /\ DOMAIN [i \in 1..n |-> i] = D
    OBVIOUS
  <2>. QED
    BY <2>1 DEF FindIter, FoldLeft, MapThenFoldSet
<1> DEFINE Top(s) == IF s = {} THEN 0 ELSE Max(s)
<1>2. \A s \in SUBSET D : s # {} => Max(s) \in s
  <2> SUFFICES ASSUME NEW s \in SUBSET D, s # {} PROVE Max(s) \in s
    OBVIOUS
  <2>1. s \subseteq Nat /\ \A x \in s : x <= n
    OBVIOUS
  <2>. QED
    BY <2>1, MaxIs
<1>3. IsFiniteSet(D)
  BY FS_Interval
<1>4. base \in B /\ \A f \in B, i \in D : Step(f, i) \in B
  <2>1. base \in B
    OBVIOUS
  <2>2. ASSUME NEW f \in B, NEW i \in D, end[i] > i PROVE [next |-> end[i], at |-> f.at \cup {i}] \in B
    BY <2>2
  <2>. QED
    BY <2>1, <2>2
<1>5. Eq(iter)
  <2>1. CASE D = {}
    <3>1. Eq([s \in SUBSET D |-> base])
      BY <2>1
    <3>. QED
      BY <3>1
  <2>2. CASE D # {}
    <3> DEFINE pick == [s \in SUBSET D |-> IF s = {} THEN CHOOSE i \in D : TRUE ELSE Max(s)]
               step == [x \in D \X B |-> Step(x[2], x[1])]
    <3>1. pick \in [SUBSET D -> D] /\ \A s \in SUBSET D : s # {} => pick[s] \in s
      BY <1>2, <2>2
    <3>2. step \in [D \X B -> B]
      <4> HIDE DEF B, Step
      <4>. QED
        BY <1>4
    <3>3. PICK g \in [SUBSET D -> B] : Recursion(g, D, base, pick, step)
      <4> HIDE DEF pick, step, B, base
      <4>. QED
        BY <1>3, <1>4, <3>1, <3>2, FoldExists
    <3>4. ASSUME NEW s \in SUBSET D
          PROVE  g[s] = IF s = {} THEN base ELSE Step(g[s \ {Max(s)}], [j \in D |-> j][Max(s)])
      <4>1. g[s] = IF s = {} THEN base ELSE step[<<pick[s], g[s \ {pick[s]}]>>]
        BY <3>3, Zenon DEF Recursion
      <4>2. CASE s = {}
        <5> HIDE DEF pick, step, base
        <5>. QED
          BY <4>1, <4>2
      <4>3. CASE s # {}
        <5>1. pick[s] = Max(s) /\ Max(s) \in D
          BY <1>2, <4>3
        <5>2. g[s \ {Max(s)}] \in B
          <6> HIDE DEF B
          <6>. QED
            BY <3>3
        <5>3. \A b \in B, a \in D : step[<<a, b>>] = Step(b, a)
          <6> HIDE DEF B, Step
          <6>. QED
            OBVIOUS
        <5>4. [j \in D |-> j][Max(s)] = Max(s)
          BY <5>1
        <5> HIDE DEF pick, step, Step, B, base
        <5>. QED
          BY <4>1, <4>3, <5>1, <5>2, <5>3, <5>4
      <4> HIDE DEF Step, base
      <4>. QED
        BY <4>2, <4>3
    <3>5. g = [s \in SUBSET D |-> g[s]]
      BY <3>3
    <3>6. Eq(g)
      <4> HIDE DEF Step, base
      <4>. QED
        BY <3>4, <3>5
    <3> HIDE DEF Eq
    <3>. QED
      BY <3>6
  <2>. QED
    BY <2>1, <2>2
<1> HIDE DEF iter
<1>6. iter[{}] = base
  <2> HIDE DEF Step, base
  <2>. QED
    BY <1>5
<1>7. ASSUME NEW s \in SUBSET D, s # {} PROVE iter[s] = Step(iter[s \ {Max(s)}], Max(s))
  <2>1. iter[s] = IF s = {} THEN base ELSE Step(iter[s \ {Max(s)}], [j \in D |-> j][Max(s)])
    <3> HIDE DEF Step, base
    <3>. QED
      BY <1>5
  <2>2. [j \in D |-> j][Max(s)] = Max(s)
    BY <1>2, <1>7
  <2> HIDE DEF Step, base
  <2>. QED
    BY <1>7, <2>1, <2>2
<1>8. \A s \in SUBSET D : iter[s] \in B
  <2> DEFINE Bad == {s \in SUBSET D : ~(iter[s] \in B)}
  <2> HIDE DEF B, Step, base
  <2>1. Bad = {}
    <3> SUFFICES ASSUME Bad # {} PROVE FALSE
      OBVIOUS
    <3>1. PICK s \in Bad : \A u \in Bad : Cardinality(s) <= Cardinality(u)
      <4>1. Bad \subseteq SUBSET D
        OBVIOUS
      <4> HIDE DEF Bad
      <4>. QED
        BY <1>3, <4>1, LeastSubset
    <3>2. s # {}
      BY <1>4, <1>6, <3>1
    <3>3. s \subseteq D /\ Max(s) \in s
      BY <1>2, <3>1, <3>2
    <3>4. s \ {Max(s)} \notin Bad /\ s \ {Max(s)} \subseteq D
      <4> HIDE DEF Bad
      <4>. QED
        BY <1>3, <3>1, <3>3, Without
    <3>5. iter[s] = Step(iter[s \ {Max(s)}], Max(s))
      BY <1>7, <3>2, <3>3
    <3>. QED
      BY <1>4, <3>1, <3>3, <3>4, <3>5
  <2>. QED
    BY <2>1
<1>. QED
  BY <1>1, <1>8

-----------------------------------------------------------------------------
(***************************************************************************)
(* The shape of a match, recognizer by recognizer                          *)
(***************************************************************************)

\* The types, the scores and the priorities of matches.
Types == {"NOM", "SIREN", "IBAN", "NUM_FISCAL", "MONTANT", "DATE_NAISSANCE", "LIEU_NAISSANCE",
          "PIECE_IDENTITE", "ADRESSE", "RAISON_SOCIALE"}
Scores == {40, 50, 82, 85, 87, 88, 90, 100, Score}
Pris == 3..95

\* What every detector's match looks like: a span of the text, with a value that is
\* the words of the end of the span.
Shaped(T, m) ==
    \E s \in 1..Len(T), a \in 1..Len(T), e \in 2..(Len(T) + 1),
       type \in Types, score \in Scores, pri \in Pris :
          /\ s <= a /\ a < e
          /\ m = Match(T, s, e, type, Words(T, a, e), score, pri)

\* The match whose value is its span is of this shape.
LEMMA HereShaped ==
    ASSUME NEW T, Len(T) \in Nat, NEW s, NEW e, Span(T, s, e),
           NEW type \in Types, NEW score \in Scores, NEW pri \in Pris
    PROVE  Shaped(T, Here(T, s, e, type, score, pri))
BY DEF Shaped, Here, Span

\* The words of a span, one by one.
LEMMA WordsAre ==
    ASSUME NEW T, Len(T) \in Nat, NEW s \in 1..(Len(T) + 1), NEW e \in 1..(Len(T) + 1), s <= e
    PROVE  /\ Len(Words(T, s, e)) = e - s
           /\ \A k \in 1..(e - s) : Words(T, s, e)[k] = T[s + k - 1].w
BY DEF Words

\* The end of the words of a span is the words of the end of the span.
LEMMA WordsSuffix ==
    ASSUME NEW T, Len(T) \in Nat, NEW s \in 1..Len(T), NEW e \in 1..(Len(T) + 1), s < e,
           NEW k \in 1..(e - s)
    PROVE  SubSeq(Words(T, s, e), k, Len(Words(T, s, e))) = Words(T, s + k - 1, e)
<1> DEFINE v == Words(T, s, e)
<1>1. Len(v) = e - s /\ v = [j \in 1..(e - s) |-> v[j]]
  BY DEF Words
<1>2. SubSeq(v, k, Len(v)) = [i \in 1..(1 + Len(v) - k) |-> v[i + k - 1]]
  OBVIOUS
<1>. QED
  BY <1>1, <1>2 DEF Words

\* A first word and the name words after it are a span.
LEMMA NamedEndIs ==
    ASSUME NEW T, Len(T) \in Nat, NEW i \in 1..Len(T), NEW W, NEW n \in Nat
    PROVE  /\ NamedEnd(T, i, W, n) \in 0..(Len(T) + 1)
           /\ NamedEnd(T, i, W, n) > i =>
                 /\ NamedEnd(T, i, W, n) > i + 1 /\ T[i].w \in W
                 /\ NamedEnd(T, i, W, n) = RunEnd(T, i + 1, NameWord, n)
<1>1. RunEnd(T, i + 1, NameWord, n) \in (i + 1)..(i + 1 + n) /\ RunEnd(T, i + 1, NameWord, n) <= Len(T) + 1
  BY RunEndIs
<1>. QED
  BY <1>1 DEF NamedEnd

\* Matches of names behind a title or a forename are of the shape.
LEMMA NamedShaped ==
    ASSUME NEW T, Len(T) \in Nat, NEW W, NEW n \in Nat, NEW pri \in Pris,
           NEW m \in Named(T, W, n, pri)
    PROVE  Shaped(T, m)
<1> DEFINE end == [j \in 1..Len(T) |-> NamedEnd(T, j, W, n)]
<1>1. end \in [1..Len(T) -> Int]
  BY NamedEndIs
<1>2. PICK i \in FindIter(end) : m = Here(T, i, NamedEnd(T, i, W, n), "NOM", 100, pri)
  BY DEF Named
<1>3. i \in 1..Len(T) /\ end[i] > i
  <2> HIDE DEF end
  <2>. QED
    BY <1>1, FindIterIs
<1>4. Span(T, i, NamedEnd(T, i, W, n))
  BY <1>3, NamedEndIs DEF Span
<1>5. "NOM" \in Types /\ 100 \in Scores
  BY DEF Types, Scores
<1>. QED
  BY <1>2, <1>4, <1>5, HereShaped

\* So are all those of the core detectors.
LEMMA CoreShaped ==
    ASSUME NEW T, Len(T) \in Nat, NEW m \in Core(T)
    PROVE  Shaped(T, m)
<1>0. \A i \in 1..Len(T) : Span(T, i, i + 1)
  BY DEF Span
<1>1. CASE m \in Named(T, Title, 4, 50) \cup Named(T, Forename, 3, 45) \cup Named(T, Homograph, 3, 45)
  <2>1. 50 \in Pris /\ 45 \in Pris
    BY DEF Pris
  <2>. QED
    BY <1>1, <2>1, NamedShaped
<1>2. CASE m \in Numbers(T)
  <2>1. PICK i \in 1..Len(T), type \in {"SIREN", "IBAN", "NUM_FISCAL", "MONTANT"},
             score \in {100, 40, 50}, pri \in {80, 95, 87, 60} :
           m = Here(T, i, i + 1, type, score, pri)
    <3>1. CASE m \in {Here(T, i, i + 1, "SIREN", IF LuhnOk(Siren[T[i].w]) THEN 100 ELSE 40, 80) :
                          i \in {j \in 1..Len(T) : T[j].w \in DOMAIN Siren}}
      BY <3>1
    <3>2. CASE m \in {Here(T, i, i + 1, "IBAN", IF IbanOk(Iban[T[i].w]) THEN 100 ELSE 50, 95) :
                          i \in {j \in 1..Len(T) : T[j].w \in DOMAIN Iban}}
      BY <3>2
    <3>3. CASE m \in {Here(T, i, i + 1, "NUM_FISCAL", 100, 87) :
                          i \in {j \in 1..Len(T) : T[j].w \in {w \in DOMAIN Fiscal : FiscalOk(Fiscal[w])}}}
      BY <3>3
    <3>4. CASE m \in {Here(T, i, i + 1, "MONTANT", 100, 60) : i \in {j \in 1..Len(T) : T[j].w \in Amount}}
      BY <3>4
    <3>. QED
      BY <1>2, <3>1, <3>2, <3>3, <3>4 DEF Numbers
  <2>2. type \in Types /\ score \in Scores /\ pri \in Pris
    BY DEF Types, Scores, Pris
  <2>. QED
    BY <1>0, <2>1, <2>2, HereShaped
<1>3. CASE m \in {Here(T, i, i + 1, "DATE_NAISSANCE", 100, 72) :
             i \in {j \in 2..Len(T) : T[j].w \in Date /\ T[j - 1].w = "ne le"}}
  <2>0. PICK i \in 2..Len(T) : m = Here(T, i, i + 1, "DATE_NAISSANCE", 100, 72)
    BY <1>3, Zenon
  <2>1. i \in 1..Len(T)
    BY <2>0
  <2>2. "DATE_NAISSANCE" \in Types /\ 100 \in Scores /\ 72 \in Pris
    BY DEF Types, Scores, Pris
  <2>. QED
    BY <1>0, <2>0, <2>1, <2>2, HereShaped
<1>. QED
  BY <1>1, <1>2, <1>3 DEF Core

\* So are birthplaces behind a date of birth.
LEMMA BirthplacesShaped ==
    ASSUME NEW T, Len(T) \in Nat, NEW m \in Birthplaces(T)
    PROVE  Shaped(T, m)
<1> DEFINE Ends(i) == {e \in (NextWord(T, i) + 1)..(Len(T) + 1) :
                          /\ \A k \in NextWord(T, i)..(e - 1) : T[k].w \in Caps \cup {"nl"}
                          /\ T[e - 1].w \in Caps
                          /\ Cardinality({k \in NextWord(T, i)..(e - 1) : T[k].w \in Caps}) <= 4}
           End(i) == Max(Ends(i) \cup {0})
<1>1. PICK i \in 1..Len(T) : m = Here(T, NextWord(T, i), End(i), "LIEU_NAISSANCE", 85, 58) /\ End(i) > 0
  BY Zenon DEF Birthplaces
<1>2. NextWord(T, i) \in (i + 1)..(Len(T) + 1)
  BY NextWordIs
<1> DEFINE E == Ends(i) \cup {0}
<1>3. E \subseteq Nat /\ E # {} /\ Len(T) + 1 \in Nat /\ \A x \in E : x <= Len(T) + 1
  <2>1. Ends(i) \subseteq (NextWord(T, i) + 1)..(Len(T) + 1)
    BY Zenon
  <2> HIDE DEF Ends
  <2>. QED
    BY <1>2, <2>1
<1>4. Max(E) \in E
  <2> HIDE DEF E
  <2>. QED
    BY <1>3, MaxIs
<1>5. End(i) \in (NextWord(T, i) + 1)..(Len(T) + 1)
  <2>1. End(i) \in Ends(i)
    <3> HIDE DEF Ends
    <3>. QED
      BY <1>1, <1>4
  <2>. QED
    BY <2>1, Zenon
<1> HIDE DEF End
<1>6. Span(T, NextWord(T, i), End(i))
  BY <1>2, <1>5 DEF Span
<1>7. "LIEU_NAISSANCE" \in Types /\ 85 \in Scores /\ 58 \in Pris
  BY DEF Types, Scores, Pris
<1>. QED
  BY <1>1, <1>6, <1>7, HereShaped

\* So are names behind a civility.
LEMMA CivilityNamesShaped ==
    ASSUME NEW T, Len(T) \in Nat, NEW m \in CivilityNames(T)
    PROVE  Shaped(T, m)
<1> DEFINE end == [j \in 1..Len(T) |-> NamedEnd(T, j, Title, 3)]
           Next2(i) == RunEnd(T, i + 2, NameWord, 3)
           Alone(i) == T[i].w \in Title /\ LineStart(T, i) /\ i < Len(T) /\ T[i + 1].w = "nl"
<1>0. "NOM" \in Types /\ 90 \in Scores /\ 56 \in Pris
  BY DEF Types, Scores, Pris
<1>1. CASE m \in {Here(T, i + 1, NamedEnd(T, i, Title, 3), "NOM", 90, 56) : i \in FindIter(end)}
  <2>1. PICK i \in FindIter(end) : m = Here(T, i + 1, NamedEnd(T, i, Title, 3), "NOM", 90, 56)
    BY <1>1
  <2>2. end \in [1..Len(T) -> Int]
    BY NamedEndIs
  <2>3. i \in 1..Len(T) /\ end[i] > i
    <3> HIDE DEF end
    <3>. QED
      BY <2>1, <2>2, FindIterIs
  <2>4. Span(T, i + 1, NamedEnd(T, i, Title, 3))
    BY <2>3, NamedEndIs DEF Span
  <2>. QED
    BY <1>0, <2>1, <2>4, HereShaped
<1>2. CASE m \in {Here(T, i + 2, Next2(i), "NOM", 90, 56) :
                     i \in {j \in 1..Len(T) : Alone(j) /\ Next2(j) > j + 2}}
  <2>1. PICK i \in 1..Len(T) : m = Here(T, i + 2, Next2(i), "NOM", 90, 56) /\ Alone(i) /\ Next2(i) > i + 2
    BY <1>2, Zenon
  <2>2. i < Len(T)
    BY <2>1
  <2>3. Next2(i) <= Len(T) + 1 /\ Next2(i) \in (i + 2)..(i + 2 + 3)
    <3>1. i + 2 \in Nat /\ i + 2 <= Len(T) + 1
      BY <2>2
    <3>. QED
      BY <3>1, RunEndIs
  <2> HIDE DEF Next2
  <2>4. Span(T, i + 2, Next2(i))
    BY <2>1, <2>2, <2>3 DEF Span
  <2>. QED
    BY <1>0, <2>1, <2>4, HereShaped
<1>. QED
  BY <1>1, <1>2, Zenon DEF CivilityNames

\* A value behind a label ends behind its beginning.
LEMMA LabelledIs ==
    ASSUME NEW T, Len(T) \in Nat, NEW label, NEW i \in Labelled(T, label)
    PROVE  Span(T, i, Eol(T, i)) /\ NotEol(T[i].w) /\ T[i - 2].w = label
<1>1. i \in 3..Len(T) /\ NotEol(T[i].w) /\ T[i - 2].w = label
  BY Zenon DEF Labelled
<1>2. Eol(T, i) \in i..(Len(T) + 1)
  BY <1>1, EolIs
<1>3. Eol(T, i) # i
  <2> DEFINE S == {j \in i..Len(T) : T[j].w = "nl"} \cup {Len(T) + 1}
  <2>1. S \subseteq Nat /\ S # {}
    BY <1>1
  <2>2. Min(S) \in S
    <3> HIDE DEF S
    <3>. QED
      BY <2>1, MinIs
  <2>3. i \notin S
    BY <1>1 DEF NotEol
  <2>. QED
    BY <2>2, <2>3 DEF Eol
<1>. QED
  BY <1>1, <1>2, <1>3 DEF Span

\* What stands behind a label at the start of a line.
LEMMA LabelLinesIs ==
    ASSUME NEW T, NEW label, NEW i \in LabelLines(T, label)
    PROVE  i \in Labelled(T, label) /\ LineStart(T, i - 2)
BY Zenon DEF LabelLines

\* Matches behind labels are of the shape.
LEMMA FormsOfLabelsShaped ==
    ASSUME NEW T, Len(T) \in Nat, NEW m \in FormNames(T) \cup FormPlaces(T)
    PROVE  Shaped(T, m)
<1>0. {"NOM", "LIEU_NAISSANCE"} \subseteq Types /\ 88 \in Scores /\ 57 \in Pris
  BY DEF Types, Scores, Pris
<1>1. CASE m \in FormNames(T)
  <2>1. PICK i \in LabelLines(T, "Nom") : m = Here(T, i, Eol(T, i), "NOM", 88, 57)
    BY <1>1 DEF FormNames
  <2>2. Span(T, i, Eol(T, i))
    BY LabelLinesIs, LabelledIs
  <2>. QED
    BY <1>0, <2>1, <2>2, HereShaped
<1>2. CASE m \in FormPlaces(T)
  <2>1. PICK i \in Labelled(T, "lieu de naissance") : m = Here(T, i, Eol(T, i), "LIEU_NAISSANCE", 88, 57)
    BY <1>2 DEF FormPlaces
  <2>2. Span(T, i, Eol(T, i))
    BY LabelledIs
  <2>. QED
    BY <1>0, <2>1, <2>2, HereShaped
<1>. QED
  BY <1>1, <1>2

\* So are the numbers of identity papers.
LEMMA PiecesShaped ==
    ASSUME NEW T, Len(T) \in Nat, NEW m \in Pieces(T)
    PROVE  Shaped(T, m)
<1> DEFINE first(i) == IF i < Len(T) /\ T[i + 1].w = "no" THEN i + 2 ELSE i + 1
           End(i) == RunEnd(T, first(i), IdNumber, 1)
<1>1. PICK i \in 1..Len(T) : m = Here(T, first(i), End(i), "PIECE_IDENTITE", 90, 59) /\ End(i) > first(i)
  BY Zenon DEF Pieces
<1>2. first(i) \in Nat /\ first(i) >= 1 /\ first(i) <= Len(T) + 1
  OBVIOUS
<1> HIDE DEF first
<1>3. End(i) \in first(i)..(first(i) + 1) /\ End(i) <= Len(T) + 1
  BY <1>2, RunEndIs
<1> HIDE DEF End
<1>4. Span(T, first(i), End(i))
  BY <1>1, <1>2, <1>3 DEF Span
<1>5. "PIECE_IDENTITE" \in Types /\ 90 \in Scores /\ 59 \in Pris
  BY DEF Types, Scores, Pris
<1>. QED
  BY <1>1, <1>4, <1>5, HereShaped

\* So are communes with their postcodes.
LEMMA CommunePostcodesShaped ==
    ASSUME NEW T, Len(T) \in Nat, NEW m \in CommunePostcodes(T)
    PROVE  Shaped(T, m)
<1> DEFINE End(i) == LET e == RunEnd(T, i, NameWord, 6)
                     IN IF e > i /\ e <= Len(T) /\ T[e].w \in Postcode THEN e + 1 ELSE 0
           end == [j \in 1..Len(T) |-> End(j)]
<1>1. ASSUME NEW i \in 1..Len(T) PROVE End(i) \in Int /\ (End(i) > i => Span(T, i, End(i)))
  <2>1. RunEnd(T, i, NameWord, 6) \in i..(i + 6) /\ RunEnd(T, i, NameWord, 6) <= Len(T) + 1
    BY RunEndIs
  <2>. QED
    BY <2>1 DEF Span
<1> HIDE DEF End
<1>2. PICK i \in FindIter(end) : m = Here(T, i, End(i), "ADRESSE", 85, 56)
  BY Zenon DEF CommunePostcodes, End
<1>3. end \in [1..Len(T) -> Int]
  BY <1>1
<1>4. i \in 1..Len(T) /\ end[i] > i
  <2> HIDE DEF end
  <2>. QED
    BY <1>3, FindIterIs
<1>5. Span(T, i, End(i))
  BY <1>1, <1>4
<1>6. "ADRESSE" \in Types /\ 85 \in Scores /\ 56 \in Pris
  BY DEF Types, Scores, Pris
<1>. QED
  BY <1>2, <1>5, <1>6, HereShaped

\* What is kept of the words of a span is an end of it.
LEMMA CanonicalIs ==
    ASSUME NEW T, Len(T) \in Nat, NEW s, NEW e, Span(T, s, e)
    PROVE  \E a \in 1..Len(T) : s <= a /\ a < e /\ Canonical(Words(T, s, e)) = Words(T, a, e)
<1> DEFINE v == Words(T, s, e)
           S == {j \in 2..Len(v) : NotEol(v[j])} \cup {Len(v)}
           k == Min(S)
<1>0. s \in 1..Len(T) /\ e \in 1..(Len(T) + 1) /\ s < e
  BY DEF Span
<1>1. Len(v) = e - s /\ e - s \in Nat \ {0}
  BY <1>0, WordsAre
<1>2. k \in 1..(e - s)
  <2>1. S \subseteq 1..(e - s) /\ S # {}
    <3> HIDE DEF v
    <3>. QED
      BY <1>1
  <2> HIDE DEF S
  <2>2. S \subseteq Nat
    BY <1>0, <2>1
  <2>3. Min(S) \in S
    BY <2>1, <2>2, MinIs
  <2>. QED
    BY <2>1, <2>3
<1>3. SubSeq(v, k, Len(v)) = Words(T, s + k - 1, e)
  <2> HIDE DEF k
  <2>. QED
    BY <1>0, <1>2, WordsSuffix
<1>4. Canonical(v) = v \/ Canonical(v) = SubSeq(v, k, Len(v))
  BY Zenon DEF Canonical
<1>5. s + k - 1 \in 1..Len(T) /\ s <= s + k - 1 /\ s + k - 1 < e
  <2> HIDE DEF k
  <2>. QED
    BY <1>0, <1>2
<1> HIDE DEF k
<1>. QED
  BY <1>0, <1>3, <1>4, <1>5

\* So is a match with the canonical value of its span.
LEMMA SpanShaped ==
    ASSUME NEW T, Len(T) \in Nat, NEW s, NEW e, Span(T, s, e), NEW a \in 1..Len(T), s <= a, a < e,
           NEW type \in Types, NEW score \in Scores, NEW pri \in Pris
    PROVE  Shaped(T, Match(T, s, e, type, Words(T, a, e), score, pri))
BY DEF Shaped, Span

\* So are the companies that a form names.
LEMMA FormCompaniesShaped ==
    ASSUME NEW T, Len(T) \in Nat, NEW m \in FormCompanies(T)
    PROVE  Shaped(T, m)
<1>1. PICK i \in LabelLines(T, "Denomination") :
          m = Match(T, i, Eol(T, i), "RAISON_SOCIALE", Canonical(Words(T, i, Eol(T, i))), 90, 59)
  BY DEF FormCompanies
<1>2. Span(T, i, Eol(T, i))
  BY LabelLinesIs, LabelledIs
<1>3. PICK a \in 1..Len(T) : i <= a /\ a < Eol(T, i) /\ Canonical(Words(T, i, Eol(T, i))) = Words(T, a, Eol(T, i))
  BY <1>2, CanonicalIs
<1>4. "RAISON_SOCIALE" \in Types /\ 90 \in Scores /\ 59 \in Pris
  BY DEF Types, Scores, Pris
<1>. QED
  BY <1>1, <1>2, <1>3, <1>4, SpanShaped

\* So are the companies with their legal form at the head of a letter.
LEMMA CompanyHeadsShaped ==
    ASSUME NEW T, Len(T) \in Nat, NEW m \in CompanyHeads(T)
    PROVE  Shaped(T, m)
<1> DEFINE Ends(i) == {e \in (i + 2)..(Len(T) + 1) :
                               /\ \A k \in (i + 1)..(e - 1) : T[k].w \in Caps \cup {"nl"}
                               /\ T[e - 1].w \in Caps}
           End(i) == IF T[i].w \in Forme THEN Max(Ends(i) \cup {0}) ELSE 0
           end == [j \in 1..Len(T) |-> End(j)]
<1>1. ASSUME NEW i \in 1..Len(T) PROVE End(i) \in Int /\ (End(i) > i => Span(T, i, End(i)))
  <2> DEFINE E == Ends(i) \cup {0}
  <2>1. Ends(i) \subseteq (i + 2)..(Len(T) + 1)
    BY Zenon
  <2>2. E \subseteq Nat /\ E # {} /\ Len(T) + 1 \in Nat /\ \A x \in E : x <= Len(T) + 1
    <3> HIDE DEF Ends
    <3>. QED
      BY <2>1
  <2>3. Max(E) \in E
    <3> HIDE DEF E
    <3>. QED
      BY <2>2, MaxIs
  <2>4. Max(E) \in 0..(Len(T) + 1)
    <3> HIDE DEF Ends
    <3>. QED
      BY <2>1, <2>3
  <2>5. End(i) \in 0..(Len(T) + 1)
    <3> HIDE DEF Ends
    <3>. QED
      BY <2>4
  <2> HIDE DEF End
  <2>. QED
    BY <2>5 DEF Span
<1> HIDE DEF End
<1>2. PICK i \in FindIter(end) :
          m = Match(T, i, End(i), "RAISON_SOCIALE", Canonical(Words(T, i, End(i))), 82, 57)
  BY Zenon DEF CompanyHeads, End
<1>3. end \in [1..Len(T) -> Int]
  BY <1>1
<1>4. i \in 1..Len(T) /\ end[i] > i
  <2> HIDE DEF end
  <2>. QED
    BY <1>3, FindIterIs
<1>5. Span(T, i, End(i))
  BY <1>1, <1>4
<1>6. "RAISON_SOCIALE" \in Types /\ 82 \in Scores /\ 57 \in Pris
  BY DEF Types, Scores, Pris
<1>7. PICK a \in 1..Len(T) : i <= a /\ a < End(i) /\ Canonical(Words(T, i, End(i))) = Words(T, a, End(i))
  BY <1>5, CanonicalIs
<1>. QED
  BY <1>2, <1>5, <1>6, <1>7, SpanShaped

\* The value of a match has at least a word, and no more than the text.
LEMMA ValueLength ==
    ASSUME NEW T, Len(T) \in Nat, NEW m, Shaped(T, m)
    PROVE  Len(m.value) \in Nat \ {0}
<1>1. PICK s \in 1..Len(T), a \in 1..Len(T), e \in 2..(Len(T) + 1),
       type \in Types, score \in Scores, pri \in Pris :
          /\ s <= a /\ a < e
          /\ m = Match(T, s, e, type, Words(T, a, e), score, pri)
  BY DEF Shaped
<1>2. m.value = Words(T, a, e)
  BY <1>1 DEF Match
<1>3. Len(Words(T, a, e)) = e - a
  <2>1. a \in 1..(Len(T) + 1) /\ e \in 1..(Len(T) + 1) /\ a <= e
    BY <1>1
  <2>. QED
    BY <2>1, WordsAre
<1>. QED
  BY <1>1, <1>2, <1>3

\* The places where a value stands again.
LEMMA RepeatsIs ==
    ASSUME NEW T, Len(T) \in Nat, NEW v, Len(v) \in Nat \ {0}, NEW ms, NEW i \in Repeats(T, v, ms)
    PROVE  Span(T, i, i + Len(v)) /\ Words(T, i, i + Len(v)) = v
<1>1. i \in 1..(Len(T) + 1 - Len(v)) /\ Words(T, i, i + Len(v)) = v
  BY DEF Repeats
<1>. QED
  BY <1>1 DEF Span

\* Repetitions of a company are of the shape.
LEMMA CompanyRepetitionsShaped ==
    ASSUME NEW T, Len(T) \in Nat, NEW ms, \A x \in ms : Shaped(T, x), NEW m \in CompanyRepetitions(T, ms)
    PROVE  Shaped(T, m)
<1>1. PICK x \in ms : \E i \in Repeats(T, x.value, ms) :
          m = Match(T, i, i + Len(x.value), "RAISON_SOCIALE", x.value, 88, 59)
  BY Zenon DEF CompanyRepetitions
<1>2. PICK i \in Repeats(T, x.value, ms) :
          m = Match(T, i, i + Len(x.value), "RAISON_SOCIALE", x.value, 88, 59)
  BY <1>1
<1>3. Span(T, i, i + Len(x.value)) /\ Words(T, i, i + Len(x.value)) = x.value
  BY ValueLength, RepeatsIs
<1>4. "RAISON_SOCIALE" \in Types /\ 88 \in Scores /\ 59 \in Pris
  BY DEF Types, Scores, Pris
<1>. QED
  BY <1>2, <1>3, <1>4, SpanShaped DEF Span

\* So are signatories.
LEMMA SignatoriesShaped ==
    ASSUME NEW T, Len(T) \in Nat, NEW m \in Signatories(T)
    PROVE  Shaped(T, m)
<1> DEFINE Bare(v) == IF Len(v) > 1 /\ v[1] \in Role THEN Tail(v) ELSE v
<1>1. PICK i \in LabelLines(T, "Signataire") :
          m = Match(T, i, Eol(T, i), "NOM", Bare(Words(T, i, Eol(T, i))), 90, 58)
  BY DEF Signatories
<1>2. Span(T, i, Eol(T, i))
  BY LabelLinesIs, LabelledIs
<1> DEFINE v == Words(T, i, Eol(T, i))
<1>3. i \in 1..Len(T) /\ Eol(T, i) \in 1..(Len(T) + 1) /\ i < Eol(T, i)
  BY <1>2 DEF Span
<1>4. Len(v) = Eol(T, i) - i
  <2>1. i \in 1..(Len(T) + 1) /\ i <= Eol(T, i)
    BY <1>3
  <2>. QED
    BY <1>3, <2>1, WordsAre
<1>5. PICK a \in 1..Len(T) : i <= a /\ a < Eol(T, i) /\ Bare(v) = Words(T, a, Eol(T, i))
  <2>1. CASE Bare(v) = v
    BY <1>3, <2>1
  <2>2. CASE Len(v) > 1 /\ Bare(v) = Tail(v)
    <3>1. Tail(v) = SubSeq(v, 2, Len(v))
      <4>1. v = [k \in 1..(Eol(T, i) - i) |-> v[k]] /\ Eol(T, i) - i \in Nat
        BY <1>3 DEF Words
      <4> HIDE DEF v
      <4> DEFINE S == {v[k] : k \in 1..Len(v)}
      <4>2. v \in Seq(S)
        BY <1>4, <4>1
      <4>3. v # <<>>
        BY <2>2
      <4> HIDE DEF S
      <4>. QED
        BY <4>2, <4>3, TailIsSubSeq
    <3>2. 2 \in 1..(Eol(T, i) - i)
      BY <1>3, <1>4, <2>2
    <3>3. SubSeq(v, 2, Len(v)) = Words(T, i + 2 - 1, Eol(T, i))
      BY <1>3, <3>2, WordsSuffix
    <3>4. i + 1 \in 1..Len(T) /\ i + 1 < Eol(T, i) /\ i + 2 - 1 = i + 1
      BY <1>3, <3>2
    <3>5. i <= i + 1
      BY <1>3
    <3> HIDE DEF v, Bare
    <3>6. Bare(v) = Words(T, i + 1, Eol(T, i))
      BY <2>2, <3>1, <3>3, <3>4
    <3>. QED
      BY <3>4, <3>5, <3>6
  <2>. QED
    BY <2>1, <2>2
<1>6. "NOM" \in Types /\ 90 \in Scores /\ 58 \in Pris
  BY DEF Types, Scores, Pris
<1> HIDE DEF Bare
<1>. QED
  BY <1>1, <1>2, <1>5, <1>6, SpanShaped

\* So are footers that quote the name of the file.
LEMMA FootersShaped ==
    ASSUME NEW T, Len(T) \in Nat, NEW words, NEW m \in Footers(T, words)
    PROVE  Shaped(T, m)
<1>1. PICK i \in 1..Len(T) :
          /\ NextWord(T, i) <= Len(T)
          /\ \E k \in NextWord(T, i)..(Eol(T, NextWord(T, i)) - 1) : m = Here(T, k, k + 1, "NOM", 87, 58)
  BY Zenon DEF Footers
<1>2. PICK k \in NextWord(T, i)..(Eol(T, NextWord(T, i)) - 1) : m = Here(T, k, k + 1, "NOM", 87, 58)
  BY <1>1
<1>3. NextWord(T, i) \in (i + 1)..(Len(T) + 1)
  BY NextWordIs
<1>4. Eol(T, NextWord(T, i)) \in NextWord(T, i)..(Len(T) + 1)
  BY <1>3, EolIs
<1>5. Span(T, k, k + 1)
  BY <1>2, <1>3, <1>4 DEF Span
<1>6. "NOM" \in Types /\ 87 \in Scores /\ 58 \in Pris
  BY DEF Types, Scores, Pris
<1>. QED
  BY <1>2, <1>5, <1>6, HereShaped

\* So are repetitions of a person.
LEMMA PersonRepetitionsShaped ==
    ASSUME NEW T, Len(T) \in Nat, NEW ms, NEW footers, NEW words,
           NEW m \in PersonRepetitions(T, ms, footers, words)
    PROVE  Shaped(T, m)
<1> DEFINE Sought(n, seeds, known) ==
             UNION {{Here(T, i, i + n, "NOM", 88, 58) : i \in Repeats(T, v, known)} :
                      v \in {x \in seeds : Len(x) = n}}
<1>1. ASSUME NEW n \in {1, 2}, NEW seeds, NEW known, m \in Sought(n, seeds, known) PROVE Shaped(T, m)
  <2>1. PICK v \in seeds : Len(v) = n /\ \E i \in Repeats(T, v, known) : m = Here(T, i, i + n, "NOM", 88, 58)
    BY <1>1, Zenon
  <2>2. PICK i \in Repeats(T, v, known) : m = Here(T, i, i + n, "NOM", 88, 58)
    BY <2>1
  <2>3. Span(T, i, i + Len(v))
    <3>1. Len(v) \in Nat \ {0}
      BY <2>1
    <3>. QED
      BY <3>1, RepeatsIs
  <2>4. "NOM" \in Types /\ 88 \in Scores /\ 58 \in Pris
    BY DEF Types, Scores, Pris
  <2>. QED
    BY <2>1, <2>2, <2>3, <2>4, HereShaped
<1>2. \E seeds, known : m \in Sought(2, seeds, known) \/ m \in Sought(1, seeds, known)
  BY Zenon DEF PersonRepetitions
<1> HIDE DEF Sought
<1>. QED
  BY <1>1, <1>2

\* So is all that the forms give.
LEMMA FormsShaped ==
    ASSUME NEW T, Len(T) \in Nat, NEW m \in Forms(T)
    PROVE  Shaped(T, m)
<1> DEFINE forms == Birthplaces(T) \cup CivilityNames(T) \cup FormNames(T) \cup FormPlaces(T)
                    \cup Pieces(T) \cup CommunePostcodes(T) \cup FormCompanies(T) \cup CompanyHeads(T)
<1>1. ASSUME NEW x \in forms PROVE Shaped(T, x)
  BY BirthplacesShaped, CivilityNamesShaped, FormsOfLabelsShaped, PiecesShaped,
     CommunePostcodesShaped, FormCompaniesShaped, CompanyHeadsShaped
<1>2. m \in forms \cup CompanyRepetitions(T, forms) \cup Signatories(T)
  BY Zenon DEF Forms
<1> HIDE DEF forms
<1>. QED
  BY <1>1, <1>2, CompanyRepetitionsShaped, SignatoriesShaped

\* So is all that the detector of structured forms gives.
LEMMA StructuredShaped ==
    ASSUME NEW T, Len(T) \in Nat, NEW words, NEW m \in Structured(T, words)
    PROVE  Shaped(T, m)
<1>1. \/ m \in Forms(T) \cup Footers(T, words)
      \/ m \in PersonRepetitions(T, Forms(T) \cup Footers(T, words), Footers(T, words), words)
  BY Zenon DEF Structured
<1>. QED
  BY <1>1, FormsShaped, FootersShaped, PersonRepetitionsShaped

\* The matches of a single word.
LEMMA HearingsShaped ==
    ASSUME NEW T, Len(T) \in Nat, NEW N \in Hearings(T), NEW m \in N
    PROVE  \E i \in 1..Len(T) : m = Here(T, i, i + 1, "NOM", Score, 5) /\ T[i].w \in Heard
BY Zenon DEF Hearings

\* What is swept is one word, at the score and the priority of the sweep.
LEMMA SweepIs ==
    ASSUME NEW T, Len(T) \in Nat, NEW kept, NEW m \in Sweep(T, kept)
    PROVE  \E i \in 1..Len(T) : m = Here(T, i, i + 1, "NOM", 90, 40)
BY Zenon DEF Sweep

\* Every match of every detector is of the shape.
LEMMA RawShaped ==
    ASSUME NEW T, Len(T) \in Nat, NEW N \in Hearings(T), NEW m \in Raw(T, N)
    PROVE  Shaped(T, m)
<1>0. \A i \in 1..Len(T) : Span(T, i, i + 1)
  BY DEF Span
<1>1. "NOM" \in Types /\ 100 \in Scores /\ 3 \in Pris /\ Score \in Scores /\ 5 \in Pris
  BY DEF Types, Scores, Pris
<1>2. CASE m \in KnownNames(T)
  <2>1. PICK i \in 1..Len(T) : m = Here(T, i, i + 1, "NOM", 100, 3)
    BY <1>2, Zenon DEF KnownNames
  <2>. QED
    BY <1>0, <1>1, <2>1, HereShaped
<1>3. CASE m \in N
  <2>1. PICK i \in 1..Len(T) : m = Here(T, i, i + 1, "NOM", Score, 5)
    BY <1>3, HearingsShaped
  <2>. QED
    BY <1>0, <1>1, <2>1, HereShaped
<1>. QED
  BY <1>2, <1>3, CoreShaped, StructuredShaped DEF Raw

\* So is every match of the sweep.
LEMMA SweepShaped ==
    ASSUME NEW T, Len(T) \in Nat, NEW kept, NEW m \in Sweep(T, kept)
    PROVE  Shaped(T, m)
<1>1. PICK i \in 1..Len(T) : m = Here(T, i, i + 1, "NOM", 90, 40)
  BY SweepIs
<1>2. Span(T, i, i + 1) /\ "NOM" \in Types /\ 90 \in Scores /\ 40 \in Pris
  BY DEF Span, Types, Scores, Pris
<1>. QED
  BY <1>1, <1>2, HereShaped

\* What is true of a match that the detectors shape.
LEMMA ShapedIs ==
    ASSUME NEW T, Len(T) \in Nat, NEW m, Shaped(T, m)
    PROVE  /\ Span(T, m.s, m.e)
           /\ m.type \in Types /\ m.score \in Scores /\ m.pri \in Pris
           /\ m = Match(T, m.s, m.e, m.type, m.value, m.score, m.pri)
           /\ \E a \in 1..Len(T) : m.s <= a /\ a < m.e /\ m.value = Words(T, a, m.e)
<1>1. PICK s \in 1..Len(T), a \in 1..Len(T), e \in 2..(Len(T) + 1),
       type \in Types, score \in Scores, pri \in Pris :
          /\ s <= a /\ a < e
          /\ m = Match(T, s, e, type, Words(T, a, e), score, pri)
  BY DEF Shaped
<1>2. m.s = s /\ m.e = e /\ m.type = type /\ m.score = score /\ m.pri = pri /\ m.value = Words(T, a, e)
  BY <1>1 DEF Match
<1>. QED
  BY <1>1, <1>2 DEF Span

\* A match of the shape can be compared with others.
LEMMA ShapedRanked ==
    ASSUME NEW T, IsText(T), Score \in Int, NEW m, Shaped(T, m)
    PROVE  Ranked(T, m)
<1>1. Len(T) \in Nat
  BY DEF IsText
<1>2. Span(T, m.s, m.e) /\ m.score \in Scores /\ m.pri \in Pris
  BY <1>1, ShapedIs
<1>3. Chars(T, m.s, m.e) \in Nat
  BY <1>2, CharsBelow DEF Span
<1>. QED
  <2>1. m.score \in Int
    BY <1>2 DEF Scores
  <2>2. m.pri \in Int
    BY <1>2 DEF Pris
  <2>. QED
    BY <1>2, <1>3, <2>1, <2>2 DEF Ranked, Span

\* A product of five finite sets is finite.
LEMMA FiveFinite ==
    ASSUME NEW a, NEW b, NEW c, NEW d, NEW e
    PROVE  IsFiniteSet({a, b, c, d, e})
<1>1. IsFiniteSet({a})
  BY FS_Singleton
<1>2. IsFiniteSet({a} \cup {b}) /\ {a} \cup {b} = {a, b}
  BY <1>1, FS_AddElement
<1>3. IsFiniteSet({a, b} \cup {c}) /\ {a, b} \cup {c} = {a, b, c}
  BY <1>2, FS_AddElement
<1>4. IsFiniteSet({a, b, c} \cup {d}) /\ {a, b, c} \cup {d} = {a, b, c, d}
  BY <1>3, FS_AddElement
<1>5. IsFiniteSet({a, b, c, d} \cup {e}) /\ {a, b, c, d} \cup {e} = {a, b, c, d, e}
  BY <1>4, FS_AddElement
<1>. QED
  BY <1>5

\* There are finitely many of them.
LEMMA ShapedFinite ==
    ASSUME NEW T, Len(T) \in Nat, NEW ms, \A m \in ms : Shaped(T, m)
    PROVE  IsFiniteSet(ms)
<1> DEFINE D == (1..Len(T)) \X ((1..Len(T)) \X ((2..(Len(T) + 1)) \X (Types \X (Scores \X Pris))))
           F(x) == Match(T, x[1], x[2][2][1], x[2][2][2][1], Words(T, x[2][1], x[2][2][1]),
                         x[2][2][2][2][1], x[2][2][2][2][2])
           f == [x \in D |-> F(x)]
<1>1. IsFiniteSet(D)
  <2>1. IsFiniteSet(Types) /\ IsFiniteSet(Scores)
    <3> DEFINE A == {"NOM", "SIREN", "IBAN", "NUM_FISCAL", "MONTANT"}
               B == {"DATE_NAISSANCE", "LIEU_NAISSANCE", "PIECE_IDENTITE", "ADRESSE", "RAISON_SOCIALE"}
               C == {40, 50, 82, 85, 87}
               E == {88, 90, 100, Score, Score}
    <3>1. Types = A \cup B /\ Scores = C \cup E
      BY DEF Types, Scores
    <3>2. IsFiniteSet(A) /\ IsFiniteSet(B) /\ IsFiniteSet(C) /\ IsFiniteSet(E)
      BY FiveFinite, Zenon
    <3> HIDE DEF A, B, C, E
    <3>. QED
      BY <3>1, <3>2, FS_Union
  <2>2. IsFiniteSet(1..Len(T)) /\ IsFiniteSet(2..(Len(T) + 1)) /\ IsFiniteSet(Pris)
    <3>1. IsFiniteSet(1..Len(T)) /\ IsFiniteSet(2..(Len(T) + 1))
      BY FS_Interval
    <3>2. IsFiniteSet(3..95)
      <4>1. 3 \in Int /\ 95 \in Int
        OBVIOUS
      <4>. QED
        BY <4>1, FS_Interval, Zenon
    <3>. QED
      BY <3>1, <3>2 DEF Pris
  <2>3. IsFiniteSet(Scores \X Pris)
    BY <2>1, <2>2, FS_Product
  <2>4. IsFiniteSet(Types \X (Scores \X Pris))
    BY <2>1, <2>3, FS_Product
  <2>5. IsFiniteSet((2..(Len(T) + 1)) \X (Types \X (Scores \X Pris)))
    BY <2>2, <2>4, FS_Product
  <2>6. IsFiniteSet((1..Len(T)) \X ((2..(Len(T) + 1)) \X (Types \X (Scores \X Pris))))
    BY <2>2, <2>5, FS_Product
  <2>. QED
    BY <2>2, <2>6, FS_Product
<1>2. \A m \in ms : \E x \in D : f[x] = m
  <2> SUFFICES ASSUME NEW m \in ms PROVE \E x \in D : f[x] = m
    OBVIOUS
  <2>1. PICK s \in 1..Len(T), a \in 1..Len(T), e \in 2..(Len(T) + 1),
             type \in Types, score \in Scores, pri \in Pris :
               m = Match(T, s, e, type, Words(T, a, e), score, pri)
    BY DEF Shaped
  <2> DEFINE x == <<s, <<a, <<e, <<type, <<score, pri>>>>>>>>>>
  <2>2. x \in D
    OBVIOUS
  <2>3. F(x) = Match(T, s, e, type, Words(T, a, e), score, pri)
    OBVIOUS
  <2> HIDE DEF x, F
  <2>. QED
    BY <2>1, <2>2, <2>3
<1> DEFINE I == {f[x] : x \in D}
<1>3. IsFiniteSet(I)
  <2>1. f \in Surjection(D, I)
    <3> HIDE DEF D, F
    <3>. QED
      BY DEF Surjection
  <2> HIDE DEF D, f, I
  <2>. QED
    BY <1>1, <2>1, FS_Surjection
<1>4. ms \subseteq I
  <2> HIDE DEF D, f
  <2>. QED
    BY <1>2
<1>. QED
  BY <1>3, <1>4, FS_Subset

-----------------------------------------------------------------------------
(***************************************************************************)
(* Masking: one match, then all of them (Apply)                            *)
(***************************************************************************)

\* The vault's entry for a match, and the cell of its token.
Entry(m) == [type |-> m.type, value |-> m.value]
TokenCell(i, m) == Cell(Token[i], Len(m.type) + 7, 0)

\* A state of the masking: its text of cells C, its vault of entries V.
States(C, V) == [text : Seq(C), vault : Seq(V)]

\* The token of a value is one of the vault, of this value, or the next one.
LEMMA TokenForIs ==
    ASSUME NEW V, NEW v \in Seq(V), NEW m
    PROVE  /\ TokenFor(v, m) \in 1..(Len(v) + 1)
           /\ TokenFor(v, m) <= Len(v) => v[TokenFor(v, m)] = Entry(m)
<1> DEFINE S == {i \in 1..Len(v) : v[i] = Entry(m)} \cup {Len(v) + 1}
<1>0. Len(v) \in Nat
  OBVIOUS
<1>1. S \subseteq 1..(Len(v) + 1) /\ S # {}
  BY <1>0
<1>2. Min(S) \in S
  <2> HIDE DEF S
  <2>1. S \subseteq Nat
    BY <1>0, <1>1
  <2>. QED
    BY <1>1, <2>1, MinIs
<1>3. TokenFor(v, m) = Min(S)
  BY Zenon DEF TokenFor, Entry
<1>4. \A i \in S : i <= Len(v) => v[i] = Entry(m)
  BY <1>0
<1> HIDE DEF S
<1>. QED
  BY <1>1, <1>2, <1>3, <1>4

\* What q is when r was and the token of m, the n-th, was put for m.
Puts(r, m, n, q) ==
    /\ Len(q.text) = Len(r.text) + 1 - (m.e - m.s)
    /\ \A k \in 1..(m.s - 1) : q.text[k] = r.text[k]
    /\ q.text[m.s] = TokenCell(n, m)
    /\ \A k \in (m.s + 1)..Len(q.text) : q.text[k] = r.text[k + (m.e - m.s) - 1]
    /\ Len(q.vault) \in {Len(r.vault), Len(r.vault) + 1}
    /\ \A k \in 1..Len(r.vault) : q.vault[k] = r.vault[k]
    /\ n \in 1..Len(q.vault) /\ q.vault[n] = Entry(m)

\* Put does what Puts says.
LEMMA PutIs ==
    ASSUME NEW C, NEW V, NEW r \in States(C, V), NEW m,
           m.s \in Nat \ {0}, m.e \in Nat, m.s < m.e, m.e <= Len(r.text) + 1,
           \A i \in Nat : TokenCell(i, m) \in C, Entry(m) \in V
    PROVE  Put(m, r) \in States(C, V) /\ Puts(r, m, TokenFor(r.vault, m), Put(m, r))
<1> DEFINE s == m.s
           e == m.e
           i == TokenFor(r.vault, m)
           t == r.text
           v == r.vault
           q == Put(m, r)
           A == SubSeq(t, 1, s - 1)
           Z == SubSeq(t, e, Len(t))
           c == TokenCell(i, m)
           w == IF i > Len(v) THEN Append(v, Entry(m)) ELSE v
<1>1. t \in Seq(C) /\ v \in Seq(V) /\ Len(t) \in Nat /\ Len(v) \in Nat
  BY DEF States
<1>2. i \in 1..(Len(v) + 1) /\ (i <= Len(v) => v[i] = Entry(m))
  BY <1>1, TokenForIs
<1>3. q = [text |-> A \o <<c>> \o Z, vault |-> w]
  BY Zenon DEF Put, TokenCell, Entry
<1> HIDE DEF i, q
<1>0. s \in Nat \ {0} /\ e \in Nat /\ s < e /\ e <= Len(t) + 1
  OBVIOUS
<1> HIDE DEF s, e
<1>4. c \in C /\ Entry(m) \in V
  BY <1>0, <1>1, <1>2
<1> HIDE DEF c
<1>5. /\ A \in Seq(C) /\ Len(A) = s - 1 /\ \A k \in 1..(s - 1) : A[k] = t[k]
      /\ Z \in Seq(C) /\ Len(Z) = Len(t) + 1 - e /\ \A k \in 1..(Len(t) + 1 - e) : Z[k] = t[k + e - 1]
  <2> HIDE DEF t
  <2>1. 1 \in 1..(Len(t) + 1) /\ s - 1 \in 0..Len(t) /\ e \in 1..(Len(t) + 1)
    BY <1>0, <1>1 DEF t
  <2>2. A = [k \in 1..(s - 1) |-> t[k]]
    BY <1>0, <1>1, <2>1
  <2>3. Z = [k \in 1..(Len(t) + 1 - e) |-> t[k + e - 1]]
    BY <1>0, <1>1, <2>1
  <2>4. \A k \in 1..(s - 1) : t[k] \in C
    BY <1>0, <1>1, <2>1
  <2>5. \A k \in 1..(Len(t) + 1 - e) : t[k + e - 1] \in C
    BY <1>0, <1>1, <2>1
  <2>. QED
    BY <1>0, <1>1, <2>1, <2>2, <2>3, <2>4, <2>5
<1> HIDE DEF A, Z, t, v
<1> DEFINE x == A \o <<c>> \o Z
<1>6. /\ x \in Seq(C) /\ Len(x) = Len(t) + 1 - (e - s)
      /\ \A k \in 1..(s - 1) : x[k] = t[k]
      /\ x[s] = c
      /\ \A k \in (s + 1)..Len(x) : x[k] = t[k + (e - s) - 1]
  <2>1. x \in Seq(C) /\ Len(x) = Len(A) + 1 + Len(Z)
    <3>1. A \in Seq(C) /\ Z \in Seq(C) /\ <<c>> \in Seq(C) /\ Len(<<c>>) = 1
      BY <1>0, <1>4, <1>5
    <3>2. A \o <<c>> \in Seq(C) /\ Len(A \o <<c>>) = Len(A) + 1
      BY <3>1
    <3>. QED
      BY <3>1, <3>2
  <2>2. Len(x) = Len(t) + 1 - (e - s)
    BY <1>0, <1>1, <1>5, <2>1
  <2>3. \A k \in 1..Len(x) : x[k] = IF k <= s - 1 THEN A[k] ELSE IF k = s THEN c ELSE Z[k - s]
    BY <1>0, <1>4, <1>5
  <2> HIDE DEF x
  <2>4. e <= Len(t) + 1
    BY <1>0
  <2>5. \A k \in (s + 1)..Len(x) : k - s \in 1..(Len(t) + 1 - e) /\ (k - s) + e - 1 = k + (e - s) - 1
    BY <1>0, <1>1, <2>2, <2>4
  <2>6. s \in 1..Len(x) /\ \A k \in 1..(s - 1) : k \in 1..Len(x)
    BY <1>0, <1>1, <2>2, <2>4
  <2>7. \A k \in (s + 1)..Len(x) : x[k] = Z[k - s]
    BY <1>0, <2>3
  <2>8. \A k \in (s + 1)..Len(x) : x[k] = t[k + (e - s) - 1]
    BY <1>0, <1>5, <2>5, <2>7
  <2>9. \A k \in 1..(s - 1) : x[k] = t[k]
    BY <1>0, <1>5, <2>3, <2>6
  <2>10. x[s] = c
    BY <1>0, <2>3, <2>6
  <2>. QED
    BY <2>1, <2>2, <2>8, <2>9, <2>10
<1>7. /\ w \in Seq(V) /\ Len(w) \in {Len(v), Len(v) + 1}
      /\ \A k \in 1..Len(v) : w[k] = v[k]
      /\ i \in 1..Len(w) /\ w[i] = Entry(m)
  <2>1. CASE i > Len(v)
    BY <1>0, <1>1, <1>2, <1>4, <2>1
  <2>2. CASE ~(i > Len(v))
    BY <1>0, <1>1, <1>2, <2>2
  <2>. QED
    BY <2>1, <2>2
<1>8. q.text = x /\ q.vault = w /\ q \in [text : {x}, vault : {w}]
  BY <1>3
<1> HIDE DEF x, w
<1>9. q \in States(C, V)
  BY <1>6, <1>7, <1>8 DEF States
<1>. QED
  BY <1>6, <1>7, <1>8, <1>9 DEF Puts, i, t, v, q, c, s, e

\* No two matches of ms overlap; every one is a span of the text.
Apart(ms) == \A a, b \in ms : a # b => ~Overlap(a, b)
Fit(T, ms) == \A m \in ms : Span(T, m.s, m.e)

\* The cells that the text can have when the matches ms are masked, and the entries
\* that the vault can have.
CellsOf(T, ms) == {T[i] : i \in 1..Len(T)} \cup {TokenCell(p[1], p[2]) : p \in Nat \X ms}
EntriesOf(v, ms) == {v[i] : i \in 1..Len(v)} \cup {Entry(m) : m \in ms}

\* c is a token of the vault.
MintedCell(r, c, ms) == \E k \in 1..Len(r.vault), m \in ms : c = TokenCell(k, m)

\* What stands before the matches s is as it was, and behind that is nothing
\* but tokens and the cells that no match of s covers.
Masking(T, v, ms, s, r) ==
    /\ r \in States(CellsOf(T, ms), EntriesOf(v, ms))
    /\ Len(v) <= Len(r.vault) /\ \A k \in 1..Len(v) : r.vault[k] = v[k]
    /\ \A b \in 1..(Len(T) + 1) : (\A m \in s : b <= m.s) =>
          /\ b - 1 <= Len(r.text) /\ \A i \in 1..(b - 1) : r.text[i] = T[i]
          /\ \A i \in b..Len(r.text) :
                \/ MintedCell(r, r.text[i], ms)
                \/ \E j \in b..Len(T) : r.text[i] = T[j] /\ \A m \in s : ~Covers(m, j)

\* Whatever else is masked stands behind the leftmost match.
LEMMA LeftmostLast ==
    ASSUME NEW T, Len(T) \in Nat, NEW ms, Apart(ms), Fit(T, ms), NEW s \in SUBSET ms,
           NEW x \in s, \A y \in s : x.s <= y.s
    PROVE  \A y \in s \ {x} : x.e <= y.s
BY DEF Apart, Fit, Span, Overlap

\* The leftmost match can be put after all others, at the place it was found.
LEMMA PutOne ==
    ASSUME NEW T, Len(T) \in Nat, NEW v, NEW ms, Apart(ms), Fit(T, ms), NEW s \in SUBSET ms,
           NEW x \in s, \A y \in s : x.s <= y.s,
           NEW r, Masking(T, v, ms, s \ {x}, r)
    PROVE  /\ x.s \in 1..Len(T) /\ x.e \in 2..(Len(T) + 1) /\ x.s < x.e /\ x.e <= Len(r.text) + 1
           /\ r \in States(CellsOf(T, ms), EntriesOf(v, ms)) /\ Len(r.text) \in Nat /\ Len(r.vault) \in Nat
           /\ \A i \in 1..(x.e - 1) : r.text[i] = T[i]
           /\ Put(x, r) \in States(CellsOf(T, ms), EntriesOf(v, ms))
           /\ Puts(r, x, TokenFor(r.vault, x), Put(x, r))
<1> DEFINE C == CellsOf(T, ms)
           V == EntriesOf(v, ms)
           q == Put(x, r)
           n == TokenFor(r.vault, x)
<1>1. x.s \in Nat \ {0} /\ x.e \in Nat /\ x.s < x.e /\ x.s \in 1..Len(T) /\ x.e \in 2..(Len(T) + 1)
  BY DEF Fit, Span
<1>2. r \in States(C, V) /\ Len(v) <= Len(r.vault) /\ \A k \in 1..Len(v) : r.vault[k] = v[k]
  BY DEF Masking
<1>3. \A y \in s \ {x} : x.e <= y.s
  BY LeftmostLast
<1>4. /\ x.e - 1 <= Len(r.text) /\ \A i \in 1..(x.e - 1) : r.text[i] = T[i]
  <2>1. x.e \in 1..(Len(T) + 1)
    BY <1>1
  <2>. QED
    BY <1>3, <2>1 DEF Masking
<1>5. r.text \in Seq(C) /\ r.vault \in Seq(V) /\ Len(r.text) \in Nat /\ Len(r.vault) \in Nat
  BY <1>2 DEF States
<1>6. (\A i \in Nat : TokenCell(i, x) \in C) /\ Entry(x) \in V
  <2>1. \A i \in Nat : <<i, x>> \in Nat \X ms /\ TokenCell(<<i, x>>[1], <<i, x>>[2]) = TokenCell(i, x)
    OBVIOUS
  <2>2. \A i \in Nat : TokenCell(i, x) \in {TokenCell(p[1], p[2]) : p \in Nat \X ms}
    BY <2>1
  <2>. QED
    BY <2>2 DEF CellsOf, EntriesOf
<1>7. x.e <= Len(r.text) + 1
  BY <1>1, <1>4, <1>5
<1> HIDE DEF C, V, q, n
<1>8. q \in States(C, V) /\ Puts(r, x, n, q)
  BY <1>1, <1>2, <1>6, <1>7, PutIs DEF q, n
<1>. QED
  BY <1>1, <1>2, <1>4, <1>5, <1>7, <1>8 DEF C, V, q, n

\* A cell behind the token stood behind the match before.
LEMMA Behind ==
    ASSUME NEW b \in Nat, NEW e \in Nat, b < e, NEW n, NEW l \in Nat, n = l + 1 - (e - b),
           NEW i \in (b + 1)..n
    PROVE  i + (e - b) - 1 \in e..l
OBVIOUS

\* Putting it masks it too.
LEMMA PutMasks ==
    ASSUME NEW T, Len(T) \in Nat, NEW v, NEW ms, Apart(ms), Fit(T, ms), NEW s \in SUBSET ms,
           NEW x \in s, \A y \in s : x.s <= y.s,
           NEW r, Masking(T, v, ms, s \ {x}, r)
    PROVE  Masking(T, v, ms, s, Put(x, r))
<1> DEFINE C == CellsOf(T, ms)
           V == EntriesOf(v, ms)
           q == Put(x, r)
           n == TokenFor(r.vault, x)
<1>1. x.s \in Nat \ {0} /\ x.e \in Nat /\ x.s < x.e /\ x.s \in 1..(Len(T) + 1) /\ x.e \in 1..(Len(T) + 1)
  BY DEF Fit, Span
<1>2. r \in States(C, V) /\ Len(v) <= Len(r.vault) /\ \A k \in 1..Len(v) : r.vault[k] = v[k]
  BY DEF Masking
<1>3. \A y \in s \ {x} : x.e <= y.s
  BY LeftmostLast
<1>4. /\ x.e - 1 <= Len(r.text) /\ \A i \in 1..(x.e - 1) : r.text[i] = T[i]
      /\ \A i \in x.e..Len(r.text) :
                \/ MintedCell(r, r.text[i], ms)
                \/ \E j \in x.e..Len(T) : r.text[i] = T[j] /\ \A m \in s \ {x} : ~Covers(m, j)
  BY <1>1, <1>3 DEF Masking
<1>5. Len(r.text) \in Nat /\ Len(r.vault) \in Nat /\ x.e <= Len(r.text) + 1
  BY PutOne
<1> HIDE DEF C, V, q, n
<1>8. q \in States(C, V) /\ Puts(r, x, n, q)
  BY PutOne DEF C, V, q, n
<1>81. /\ Len(q.text) = Len(r.text) + 1 - (x.e - x.s)
       /\ Len(q.vault) \in {Len(r.vault), Len(r.vault) + 1}
  BY <1>8 DEF Puts
<1>9. Len(v) <= Len(q.vault) /\ \A k \in 1..Len(v) : q.vault[k] = v[k]
  <2>1. Len(r.vault) <= Len(q.vault)
    BY <1>5, <1>81
  <2>. QED
    BY <1>2, <1>5, <1>8, <1>81, <2>1 DEF Puts
<1>10. \A c : MintedCell(r, c, ms) => MintedCell(q, c, ms)
  <2>1. 1..Len(r.vault) \subseteq 1..Len(q.vault)
    BY <1>5, <1>81
  <2>. QED
    BY <2>1 DEF MintedCell
<1>11. ASSUME NEW b \in 1..(Len(T) + 1), \A m \in s : b <= m.s
       PROVE  /\ b - 1 <= Len(q.text) /\ \A i \in 1..(b - 1) : q.text[i] = T[i]
              /\ \A i \in b..Len(q.text) :
                \/ MintedCell(q, q.text[i], ms)
                \/ \E j \in b..Len(T) : q.text[i] = T[j] /\ \A m \in s : ~Covers(m, j)
  <2>1. b <= x.s
    BY <1>11
  <2>2. b - 1 <= Len(q.text) /\ x.s <= Len(q.text)
    BY <1>1, <1>5, <1>81, <2>1
  <2>3. ASSUME NEW i \in 1..(x.s - 1) PROVE q.text[i] = T[i]
    <3>1. i \in 1..(x.e - 1)
      BY <1>1
    <3>. QED
      BY <1>4, <1>8, <3>1 DEF Puts
  <2>4. ASSUME NEW i \in 1..(b - 1) PROVE q.text[i] = T[i]
    <3>1. i \in 1..(x.s - 1)
      BY <1>1, <2>1
    <3>. QED
      BY <2>3, <3>1
  <2>5. ASSUME NEW i \in b..Len(q.text)
        PROVE  \/ MintedCell(q, q.text[i], ms)
               \/ \E j \in b..Len(T) : q.text[i] = T[j] /\ \A m \in s : ~Covers(m, j)
    <3>1. CASE i < x.s
      <4>1. i \in 1..(x.s - 1) /\ i \in b..Len(T)
        BY <1>1, <3>1
      <4>2. \A m \in s : ~Covers(m, i)
        BY <1>1, <3>1, <4>1 DEF Covers, Fit, Span
      <4>. QED
        BY <2>3, <4>1, <4>2
    <3>2. CASE i = x.s
      BY <1>8, <3>2 DEF MintedCell, Puts
    <3>3. CASE i > x.s
      <4> DEFINE h == i + (x.e - x.s) - 1
      <4>1. i \in (x.s + 1)..Len(q.text)
        BY <1>1, <3>3
      <4>2. h \in x.e..Len(r.text)
        <5>1. Len(q.text) = Len(r.text) + 1 - (x.e - x.s)
          BY <1>81
        <5>2. x.s \in Nat /\ x.e \in Nat /\ x.s < x.e
          BY <1>1
        <5>3. i + (x.e - x.s) - 1 \in x.e..Len(r.text)
          BY <1>5, <4>1, <5>1, <5>2, Behind
        <5>. QED
          BY <5>3
      <4>3. q.text[i] = r.text[h]
        BY <1>8, <4>1 DEF Puts
      <4> HIDE DEF h
      <4>4. CASE MintedCell(r, r.text[h], ms)
        BY <1>10, <4>3, <4>4
      <4>5. ASSUME NEW j \in x.e..Len(T), r.text[h] = T[j], \A m \in s \ {x} : ~Covers(m, j)
            PROVE  \E k \in b..Len(T) : q.text[i] = T[k] /\ \A m \in s : ~Covers(m, k)
        <5>1. j \in b..Len(T)
          BY <1>1, <2>1
        <5>2. ~Covers(x, j)
          BY <1>1 DEF Covers
        <5>. QED
          BY <4>3, <4>5, <5>1, <5>2
      <4>. QED
        BY <1>4, <4>2, <4>4, <4>5
    <3>. QED
      BY <1>1, <3>1, <3>2, <3>3
  <2>. QED
    BY <2>2, <2>4, <2>5
<1>. QED
  BY <1>8, <1>9, <1>11 DEF Masking, q, C, V

\* t is a sequence.
IsSeq(t) == Len(t) \in Nat /\ t = [i \in 1..Len(t) |-> t[i]]

\* g[s] is what has become of the text T and the vault v when the matches s are masked.
Putting(T, v, ms, g) ==
    /\ g[{}] = [text |-> T, vault |-> v]
    /\ \A s \in SUBSET ms : s # {} =>
          \E x \in s : (\A y \in s : x.s <= y.s) /\ g[s] = Put(x, g[s \ {x}])
    /\ \A s \in SUBSET ms : Masking(T, v, ms, s, g[s])

\* One of the matches is the leftmost.
LEMMA LeftmostExists ==
    ASSUME NEW T, Len(T) \in Nat, NEW ms, Fit(T, ms), NEW s \in SUBSET ms, s # {}
    PROVE  \E x \in s : \A y \in s : x.s <= y.s
<1> DEFINE S == {m.s : m \in s}
<1>1. S \subseteq Nat /\ S # {}
  BY DEF Fit, Span
<1>2. PICK n \in S : \A m \in S : n <= m
  <2> HIDE DEF S
  <2>. QED
    BY <1>1, LeastNat
<1>. QED
  BY <1>2

\* Before the first match the text is the text.
LEMMA NothingMasked ==
    ASSUME NEW T, IsSeq(T), NEW v, IsSeq(v), NEW ms
    PROVE  /\ [text |-> T, vault |-> v] \in States(CellsOf(T, ms), EntriesOf(v, ms))
           /\ Masking(T, v, ms, {}, [text |-> T, vault |-> v])
<1> DEFINE r == [text |-> T, vault |-> v]
<1>1. T \in Seq(CellsOf(T, ms))
  <2>1. T = [i \in 1..Len(T) |-> T[i]] /\ Len(T) \in Nat
    BY DEF IsSeq
  <2>2. \A i \in 1..Len(T) : T[i] \in CellsOf(T, ms)
    BY DEF CellsOf
  <2>. QED
    BY <2>1, <2>2
<1>2. v \in Seq(EntriesOf(v, ms))
  <2>1. v = [i \in 1..Len(v) |-> v[i]] /\ Len(v) \in Nat
    BY DEF IsSeq
  <2>2. \A i \in 1..Len(v) : v[i] \in EntriesOf(v, ms)
    BY DEF EntriesOf
  <2>. QED
    BY <2>1, <2>2
<1>3. r \in States(CellsOf(T, ms), EntriesOf(v, ms))
  BY <1>1, <1>2 DEF States
<1>4. r.text = T /\ r.vault = v
  OBVIOUS
<1> HIDE DEF r
<1>5. Len(T) \in Nat /\ Len(v) \in Nat
  BY DEF IsSeq
<1>6. Len(v) <= Len(r.vault) /\ \A k \in 1..Len(v) : r.vault[k] = v[k]
  BY <1>4, <1>5
<1>7. ASSUME NEW b \in 1..(Len(T) + 1)
      PROVE  /\ b - 1 <= Len(r.text) /\ \A i \in 1..(b - 1) : r.text[i] = T[i]
             /\ \A i \in b..Len(r.text) : \E j \in b..Len(T) : r.text[i] = T[j] /\ \A m \in {} : ~Covers(m, j)
  BY <1>4, <1>5
<1>. QED
  BY <1>3, <1>6, <1>7 DEF Masking, r

\* Apply masks the matches one by one, from the end of the text.
LEMMA ApplyFold ==
    ASSUME NEW ms, IsFiniteSet(ms), Apart(ms), Fit(text, ms), IsSeq(text), IsSeq(vault), Apply(ms)
    PROVE  \E g : Putting(text, vault, ms, g) /\ text' = g[ms].text /\ vault' = g[ms].vault
<1> DEFINE Leftmost(x) == CHOOSE m \in x : \A y \in x : m.s <= y.s
           base == [text |-> text, vault |-> vault]
           B == States(CellsOf(text, ms), EntriesOf(vault, ms))
           Eq(g) == g = [s \in SUBSET ms |-> IF s = {} THEN base ELSE Put(Leftmost(s), g[s \ {Leftmost(s)}])]
           iter == CHOOSE g : Eq(g)
           Good(s, r) == Masking(text, vault, ms, s, r)
<1>1. text' = iter[ms].text /\ vault' = iter[ms].vault
  BY DEF Apply, MapThenFoldSet
<1>0. Len(text) \in Nat
  BY DEF IsSeq
<1>2. \A s \in SUBSET ms : s # {} => Leftmost(s) \in s /\ \A y \in s : Leftmost(s).s <= y.s
  <2> SUFFICES ASSUME NEW s \in SUBSET ms, s # {}
               PROVE  Leftmost(s) \in s /\ \A y \in s : Leftmost(s).s <= y.s
    OBVIOUS
  <2>1. \E m \in s : \A y \in s : m.s <= y.s
    BY <1>0, LeftmostExists
  <2>. QED
    BY <2>1
<1> HIDE DEF Leftmost
<1>3. base \in B /\ Good({}, base)
  BY NothingMasked
<1>4. \A r : \A s \in SUBSET ms : s # {} /\ Good(s \ {Leftmost(s)}, r) => Good(s, Put(Leftmost(s), r))
  BY <1>0, <1>2, PutMasks
<1>5. \A r : \A s \in SUBSET ms : Good(s, r) => r \in B
  BY DEF Masking
<1>6. \E g : Eq(g) /\ \A s \in SUBSET ms : Good(s, g[s])
  <2>1. CASE ms = {}
    <3> DEFINE g == [s \in SUBSET ms |-> base]
    <3>1. Eq(g)
      BY <2>1
    <3>2. \A s \in SUBSET ms : Good(s, g[s])
      BY <1>3, <2>1
    <3>. QED
      BY <3>1, <3>2
  <2>2. CASE ms # {}
    <3> DEFINE pick == [s \in SUBSET ms |-> IF s = {} THEN CHOOSE m \in ms : TRUE ELSE Leftmost(s)]
               step == [x \in ms \X B |-> IF Put(x[1], x[2]) \in B THEN Put(x[1], x[2]) ELSE base]
    <3>1. pick \in [SUBSET ms -> ms] /\ \A s \in SUBSET ms : s # {} => pick[s] \in s
      BY <1>2, <2>2
    <3>2. step \in [ms \X B -> B]
      <4> HIDE DEF B, base
      <4>. QED
        BY <1>3
    <3>3. PICK g \in [SUBSET ms -> B] : Recursion(g, ms, base, pick, step)
      <4> HIDE DEF pick, step, B, base
      <4>. QED
        BY <1>3, <3>1, <3>2, FoldExists
    <3>4. \A s \in SUBSET ms : g[s] = IF s = {} THEN base ELSE step[<<pick[s], g[s \ {pick[s]}]>>]
      BY <3>3, Zenon DEF Recursion
    <3>5. \A s \in SUBSET ms : s # {} => pick[s] = Leftmost(s)
      OBVIOUS
    <3>6. \A m \in ms, r \in B : step[<<m, r>>] = IF Put(m, r) \in B THEN Put(m, r) ELSE base
      <4> HIDE DEF B, base
      <4>. QED
        OBVIOUS
    <3> HIDE DEF pick, step, B, base, Good
    <3>7. \A s \in SUBSET ms : s # {} =>
             g[s] = IF Put(Leftmost(s), g[s \ {Leftmost(s)}]) \in B
                    THEN Put(Leftmost(s), g[s \ {Leftmost(s)}]) ELSE base
      <4> SUFFICES ASSUME NEW s \in SUBSET ms, s # {}
                   PROVE  g[s] = IF Put(Leftmost(s), g[s \ {Leftmost(s)}]) \in B
                                 THEN Put(Leftmost(s), g[s \ {Leftmost(s)}]) ELSE base
        OBVIOUS
      <4>1. Leftmost(s) \in ms /\ g[s \ {Leftmost(s)}] \in B
        BY <1>2, <3>3
      <4>2. g[s] = step[<<Leftmost(s), g[s \ {Leftmost(s)}]>>]
        BY <3>4, <3>5
      <4>. QED
        BY <3>6, <4>1, <4>2
    <3> DEFINE Bad == {s \in SUBSET ms : ~Good(s, g[s])}
    <3>8. Bad = {}
      <4> SUFFICES ASSUME Bad # {} PROVE FALSE
        OBVIOUS
      <4>1. PICK s \in Bad : \A u \in Bad : Cardinality(s) <= Cardinality(u)
        <5>1. Bad \subseteq SUBSET ms
          OBVIOUS
        <5> HIDE DEF Bad
        <5>. QED
          BY <5>1, LeastSubset
      <4>2. s # {}
        BY <1>3, <3>4, <4>1
      <4>3. s \subseteq ms /\ Leftmost(s) \in s
        BY <1>2, <4>1, <4>2
      <4>4. s \ {Leftmost(s)} \notin Bad /\ s \ {Leftmost(s)} \subseteq ms
        <5> HIDE DEF Bad
        <5>. QED
          BY <4>1, <4>3, Without
      <4>5. Good(s \ {Leftmost(s)}, g[s \ {Leftmost(s)}])
        BY <4>4
      <4>6. Good(s, Put(Leftmost(s), g[s \ {Leftmost(s)}]))
        BY <1>4, <4>2, <4>3, <4>5
      <4>7. g[s] = Put(Leftmost(s), g[s \ {Leftmost(s)}])
        BY <1>5, <3>7, <4>2, <4>3, <4>6
      <4>. QED
        BY <4>1, <4>6, <4>7
    <3>9. \A s \in SUBSET ms : Good(s, g[s])
      BY <3>8
    <3>10. \A s \in SUBSET ms : g[s] = IF s = {} THEN base ELSE Put(Leftmost(s), g[s \ {Leftmost(s)}])
      <4> SUFFICES ASSUME NEW s \in SUBSET ms, s # {} PROVE g[s] = Put(Leftmost(s), g[s \ {Leftmost(s)}])
        BY <3>4
      <4>1. Good(s \ {Leftmost(s)}, g[s \ {Leftmost(s)}])
        BY <3>9
      <4>2. Put(Leftmost(s), g[s \ {Leftmost(s)}]) \in B
        BY <1>4, <1>5, <4>1
      <4>. QED
        BY <3>7, <4>2
    <3>11. g = [s \in SUBSET ms |-> g[s]]
      BY <3>3
    <3>12. Eq(g)
      BY <3>10, <3>11
    <3>. QED
      BY <3>9, <3>12
  <2>. QED
    BY <2>1, <2>2
<1>7. Eq(iter)
  <2> HIDE DEF Eq
  <2>. QED
    BY <1>6
<1> HIDE DEF iter, base, Good
<1>9. \A s \in SUBSET ms : iter[s] = IF s = {} THEN base ELSE Put(Leftmost(s), iter[s \ {Leftmost(s)}])
  BY <1>7
<1> DEFINE Bad == {s \in SUBSET ms : ~Good(s, iter[s])}
<1>10. Bad = {}
  <2> SUFFICES ASSUME Bad # {} PROVE FALSE
    OBVIOUS
  <2>1. PICK s \in Bad : \A u \in Bad : Cardinality(s) <= Cardinality(u)
    <3>1. Bad \subseteq SUBSET ms
      OBVIOUS
    <3> HIDE DEF Bad
    <3>. QED
      BY <3>1, LeastSubset
  <2>2. s # {}
    BY <1>3, <1>9, <2>1
  <2>3. s \subseteq ms /\ Leftmost(s) \in s
    BY <1>2, <2>1, <2>2
  <2>4. s \ {Leftmost(s)} \notin Bad /\ s \ {Leftmost(s)} \subseteq ms
    <3> HIDE DEF Bad
    <3>. QED
      BY <2>1, <2>3, Without
  <2>5. Good(s \ {Leftmost(s)}, iter[s \ {Leftmost(s)}])
    BY <2>4
  <2>6. Good(s, Put(Leftmost(s), iter[s \ {Leftmost(s)}]))
    BY <1>4, <2>2, <2>3, <2>5
  <2>7. iter[s] = Put(Leftmost(s), iter[s \ {Leftmost(s)}])
    BY <1>9, <2>2, <2>3
  <2>. QED
    BY <2>1, <2>6, <2>7
<1>11. \A s \in SUBSET ms : Good(s, iter[s])
  BY <1>10
<1>12. \A s \in SUBSET ms : s # {} =>
          \E x \in s : (\A y \in s : x.s <= y.s) /\ iter[s] = Put(x, iter[s \ {x}])
  BY <1>2, <1>9
<1>13. iter[{}] = base
  BY <1>9
<1>14. Putting(text, vault, ms, iter)
  BY <1>11, <1>12, <1>13, Zenon DEF Putting, Good, base
<1>. QED
  BY <1>1, <1>14

-----------------------------------------------------------------------------
(***************************************************************************)
(* Detection, boost and lists                                              *)
(***************************************************************************)

\* What is in Seq is a sequence.
LEMMA SeqIs == ASSUME NEW S, NEW t \in Seq(S) PROVE IsSeq(t)
BY DEF IsSeq

\* The cells of a document.
LEMMA CellsAre ==
    ASSUME NEW d \in Documents
    PROVE  /\ IsText(Cells(d)) /\ IsSeq(Cells(d)) /\ Len(Cells(d)) = Len(d) /\ Len(d) \in Nat
           /\ \A i \in 1..Len(d) : Cells(d)[i] = Cell(d[i], Len(d[i]), i)
           /\ \A i \in 1..Len(d) : Cells(d)[i].w = d[i] /\ Cells(d)[i].at = i
<1>1. Len(d) \in Nat /\ \A i \in 1..Len(d) : Len(d[i]) \in Nat
  BY EngineAssumption
<1>2. /\ Cells(d) = [i \in 1..Len(d) |-> Cells(d)[i]]
      /\ \A i \in 1..Len(d) : Cells(d)[i] = Cell(d[i], Len(d[i]), i)
  BY DEF Cells
<1>3. Len(Cells(d)) = Len(d)
  BY <1>1, <1>2
<1>4. \A i \in 1..Len(d) : Cells(d)[i].w = d[i] /\ Cells(d)[i].at = i /\ Cells(d)[i].n = Len(d[i])
  BY <1>2 DEF Cell
<1>. QED
  BY <1>1, <1>2, <1>3, <1>4 DEF IsText, IsSeq

\* What the detectors find is settled, then settled again with what is swept.
LEMMA DetectIs ==
    ASSUME NEW T, IsText(T), NEW N \in Hearings(T)
    PROVE  LET kept == Resolve(T, Raw(T, N)) IN
           /\ \A m \in Raw(T, N) \cup Sweep(T, kept) : Shaped(T, m)
           /\ Settled(T, Raw(T, N), kept)
           /\ Settled(T, kept \cup Sweep(T, kept), Detect(T, N))
           /\ \A m \in Detect(T, N) : Shaped(T, m)
           /\ IsFiniteSet(Detect(T, N)) /\ Apart(Detect(T, N)) /\ Fit(T, Detect(T, N))
<1> DEFINE raw == Raw(T, N)
           kept == Resolve(T, raw)
           all == kept \cup Sweep(T, kept)
<1>0. Len(T) \in Nat /\ Score \in Int
  BY EngineAssumption DEF IsText
<1>1. Detect(T, N) = Resolve(T, all)
  BY Zenon DEF Detect
<1>2. \A m \in raw : Shaped(T, m)
  BY <1>0, RawShaped
<1>3. \A m \in Sweep(T, kept) : Shaped(T, m)
  BY <1>0, SweepShaped
<1> HIDE DEF raw
<1>4. Settled(T, raw, kept)
  <2>1. IsFiniteSet(raw) /\ \A m \in raw : Ranked(T, m)
    BY <1>0, <1>2, ShapedFinite, ShapedRanked
  <2>. QED
    BY <2>1, ResolveSettles
<1> HIDE DEF kept
<1>5. kept \subseteq raw
  BY <1>4 DEF Settled
<1>6. \A m \in all : Shaped(T, m)
  BY <1>2, <1>3, <1>5
<1> HIDE DEF all
<1>7. Settled(T, all, Detect(T, N))
  <2>1. IsFiniteSet(all) /\ \A m \in all : Ranked(T, m)
    BY <1>0, <1>6, ShapedFinite, ShapedRanked
  <2>. QED
    BY <1>1, <2>1, ResolveSettles
<1>8. Detect(T, N) \subseteq all
  BY <1>7 DEF Settled
<1>9. \A m \in Detect(T, N) : Shaped(T, m)
  BY <1>6, <1>8
<1>10. IsFiniteSet(Detect(T, N)) /\ Fit(T, Detect(T, N))
  BY <1>0, <1>9, ShapedFinite, ShapedIs DEF Fit
<1>11. Apart(Detect(T, N))
  BY <1>7 DEF Settled, Apart
<1>. QED
  BY <1>2, <1>3, <1>4, <1>7, <1>9, <1>10, <1>11 DEF raw, kept, all

\* The same match but for its score.
SameMatch(a, b) == a.s = b.s /\ a.e = b.e /\ a.type = b.type /\ a.value = b.value /\ a.pri = b.pri

\* The boost changes nothing but scores.
LEMMA BoostIs ==
    ASSUME NEW T, Len(T) \in Nat, NEW ms, \A m \in ms : Shaped(T, m), IsFiniteSet(ms), Apart(ms)
    PROVE  LET bs == Boost(T, ms) IN
           /\ \A b \in bs : \E m \in ms : SameMatch(b, m)
           /\ \A m \in ms : \E b \in bs : SameMatch(b, m)
           /\ IsFiniteSet(bs) /\ Apart(bs)
<1> DEFINE Near(m, k) == /\ T[k].w \in Cue
                         /\ Chars(T, 1, k) >= Chars(T, 1, m.s) - 40
                         /\ Chars(T, 1, k + 1) <= Chars(T, 1, m.e) + 40
           Sure(m) == IF m.type \notin {"SIREN", "IBAN"} /\ \E k \in 1..Len(T) : Near(m, k)
                      THEN [m EXCEPT !.score = Min({100, @ + 25})] ELSE m
           bs == Boost(T, ms)
           f == [m \in ms |-> Sure(m)]
<1>1. bs = {Sure(m) : m \in ms}
  BY Zenon DEF Boost
<1>2. ASSUME NEW m \in ms PROVE SameMatch(Sure(m), m)
  <2>1. m = Match(T, m.s, m.e, m.type, m.value, m.score, m.pri)
    BY ShapedIs
  <2>2. \A z : SameMatch([m EXCEPT !.score = z], m)
    <3> SUFFICES ASSUME NEW z PROVE SameMatch([m EXCEPT !.score = z], m)
      OBVIOUS
    <3>1. m = [s |-> m.s, e |-> m.e, type |-> m.type, value |-> m.value, score |-> m.score, pri |-> m.pri]
      BY <2>1, Zenon DEF Match
    <3>. QED
      BY <3>1 DEF SameMatch
  <2>3. SameMatch(m, m)
    BY DEF SameMatch
  <2>4. Sure(m) = m \/ Sure(m) = [m EXCEPT !.score = Min({100, m.score + 25})]
    OBVIOUS
  <2> HIDE DEF Sure
  <2>. QED
    BY <2>2, <2>3, <2>4
<1> HIDE DEF Sure, bs
<1>3. IsFiniteSet(bs)
  <2>1. f \in Surjection(ms, bs)
    BY <1>1 DEF Surjection
  <2> HIDE DEF f
  <2>. QED
    BY <2>1, FS_Surjection
<1>4. Apart(bs)
  <2> SUFFICES ASSUME NEW a \in ms, NEW b \in ms, Sure(a) # Sure(b) PROVE ~Overlap(Sure(a), Sure(b))
    BY <1>1 DEF Apart
  <2>1. ~Overlap(a, b)
    BY DEF Apart
  <2>. QED
    BY <1>2, <2>1 DEF Overlap, SameMatch
<1>5. /\ \A b \in bs : \E m \in ms : SameMatch(b, m)
      /\ \A m \in ms : \E b \in bs : SameMatch(b, m)
  BY <1>1, <1>2
<1>. QED
  BY <1>3, <1>4, <1>5 DEF bs

\* Whether a match is masked hangs on its type and its value.
LEMMA MaskedSame ==
    ASSUME NEW a, NEW b, a.type = b.type, a.value = b.value
    PROVE  Masked(a) <=> Masked(b)
BY Zenon DEF Masked

\* Every cell of the text is then a token or a cell of before that no match covers.
LEMMA Applied ==
    ASSUME NEW ms, IsFiniteSet(ms), Apart(ms), Fit(text, ms), IsText(text), IsSeq(text), IsSeq(vault),
           \A m \in ms : m.type \in Types, Apply(ms)
    PROVE  /\ IsText(text') /\ IsSeq(text') /\ IsSeq(vault')
           /\ \A i \in 1..Len(text') :
                 \/ text'[i].at = 0
                 \/ \E j \in 1..Len(text) : text'[i] = text[j] /\ \A m \in ms : ~Covers(m, j)
<1>1. PICK g : Putting(text, vault, ms, g) /\ text' = g[ms].text /\ vault' = g[ms].vault
  BY ApplyFold
<1> DEFINE r == g[ms]
<1>2. Masking(text, vault, ms, ms, r)
  BY <1>1 DEF Putting
<1> HIDE DEF r
<1>3. text' = r.text /\ vault' = r.vault
  BY <1>1 DEF r
<1>4. r.text \in Seq(CellsOf(text, ms)) /\ r.vault \in Seq(EntriesOf(vault, ms))
  BY <1>2 DEF Masking, States
<1>5. IsSeq(text') /\ IsSeq(vault')
  BY <1>3, <1>4, SeqIs
<1>6. Len(text) \in Nat
  BY DEF IsSeq
<1>7. \A i \in 1..Len(text') :
         \/ MintedCell(r, text'[i], ms)
         \/ \E j \in 1..Len(text) : text'[i] = text[j] /\ \A m \in ms : ~Covers(m, j)
  <2>1. 1 \in 1..(Len(text) + 1) /\ \A m \in ms : 1 <= m.s
    BY <1>6 DEF Fit, Span
  <2>. QED
    BY <1>2, <1>3, <2>1 DEF Masking
<1>8. \A c : MintedCell(r, c, ms) => c.at = 0 /\ c.n \in Nat
  <2> SUFFICES ASSUME NEW c, NEW k \in 1..Len(r.vault), NEW m \in ms, c = TokenCell(k, m)
               PROVE  c.at = 0 /\ c.n \in Nat
    BY DEF MintedCell
  <2>1. Len(m.type) \in Nat
    BY EngineAssumption DEF Types
  <2>2. c.at = 0 /\ c.n = Len(m.type) + 7
    BY DEF TokenCell, Cell
  <2>. QED
    BY <2>1, <2>2
<1>9. IsText(text')
  <2>1. \A j \in 1..Len(text) : text[j].n \in Nat
    BY DEF IsText
  <2>2. Len(text') \in Nat
    BY <1>5 DEF IsSeq
  <2>. QED
    BY <1>7, <1>8, <2>1, <2>2 DEF IsText
<1>. QED
  BY <1>5, <1>7, <1>8, <1>9

-----------------------------------------------------------------------------
(***************************************************************************)
(* Detected and heard names (HeardEverywhere, DetectedIsMasked)            *)
(***************************************************************************)

\* What the detectors heard in the document, and what was to be masked there.
DetectedThere == Detect(Cells(doc), heard)
MaskedOut == \A k \in DetectedThere : Masked(k) => \A p \in k.s..(k.e - 1) : ~InClear(p)

\* The inductive invariant: what the detectors found in the document and the lists
\* did not drop is in clear nowhere any more once it was masked.
IInv ==
    /\ doc \in Documents
    /\ IsText(text) /\ IsSeq(text) /\ IsSeq(vault)
    /\ at = "mask" => text = Cells(doc)
    /\ at # "mask" => heard \in Hearings(Cells(doc)) /\ MaskedOut

\* Init establishes the invariant.
LEMMA InitIInv == Init => IInv
<1> SUFFICES ASSUME Init PROVE IInv
  OBVIOUS
<1>1. doc \in Documents /\ text = Cells(doc) /\ at = "mask" /\ vault = <<>>
  BY DEF Init
<1>2. IsSeq(vault)
  BY <1>1 DEF IsSeq
<1>. QED
  BY <1>1, <1>2, CellsAre DEF IInv

\* What is not in clear stays so.
LEMMA NeverBack ==
    ASSUME \A i \in 1..Len(text') : text'[i].at = 0 \/ \E j \in 1..Len(text) : text'[i] = text[j],
           NEW p \in Nat \ {0}, ~InClear(p)
    PROVE  ~InClear(p)'
<1> SUFFICES ASSUME NEW i \in 1..Len(text'), text'[i].at = p PROVE FALSE
  BY DEF InClear
<1>1. PICK j \in 1..Len(text) : text'[i] = text[j]
  OBVIOUS
<1>. QED
  BY <1>1 DEF InClear

\* Masking the document establishes the part about what was detected.
LEMMA MaskIInv == ASSUME IInv, Mask PROVE IInv'
<1>1. doc \in Documents /\ text = Cells(doc) /\ IsText(text) /\ IsSeq(text) /\ IsSeq(vault) /\ Len(text) \in Nat
  BY DEF IInv, Mask, IsSeq
<1>2. PICK N \in Hearings(text) :
         /\ heard' = N
         /\ Apply({m \in Boost(text, Detect(text, N)) : Masked(m)})
  BY DEF Mask
<1>3. UNCHANGED <<doc, file>> /\ at' = "scan"
  BY DEF Mask
<1> DEFINE det == Detect(text, N)
           bs == Boost(text, det)
           ms == {m \in bs : Masked(m)}
<1>4. /\ \A m \in det : Shaped(text, m)
      /\ IsFiniteSet(det) /\ Apart(det) /\ Fit(text, det)
  BY <1>1, DetectIs
<1> HIDE DEF det
<1>5. /\ \A b \in bs : \E m \in det : SameMatch(b, m)
      /\ \A m \in det : \E b \in bs : SameMatch(b, m)
      /\ IsFiniteSet(bs) /\ Apart(bs)
  BY <1>1, <1>4, BoostIs
<1> HIDE DEF bs
<1>6. IsFiniteSet(ms) /\ Apart(ms)
  BY <1>5, FS_Subset DEF Apart
<1>7. Fit(text, ms) /\ \A m \in ms : m.type \in Types
  BY <1>1, <1>4, <1>5, ShapedIs DEF Fit, SameMatch
<1>8. Apply(ms)
  BY <1>2 DEF bs, det
<1> HIDE DEF ms
<1>9. /\ IsText(text') /\ IsSeq(text') /\ IsSeq(vault')
      /\ \A i \in 1..Len(text') :
            \/ text'[i].at = 0
            \/ \E j \in 1..Len(text) : text'[i] = text[j] /\ \A m \in ms : ~Covers(m, j)
  BY <1>1, <1>6, <1>7, <1>8, Applied
<1>10. MaskedOut'
  <2>1. DetectedThere' = det
    BY <1>1, <1>2, <1>3 DEF DetectedThere, det, Detect, Raw
  <2>2. ASSUME NEW k \in det, Masked(k), NEW p \in k.s..(k.e - 1) PROVE ~InClear(p)'
    <3>1. PICK b \in bs : SameMatch(b, k)
      BY <1>5
    <3>2. b \in ms /\ Covers(b, p)
      BY <2>2, <3>1, MaskedSame DEF ms, Covers, SameMatch
    <3>3. Span(text, k.s, k.e)
      BY <1>4 DEF Fit
    <3>4. p \in 1..Len(text)
      BY <1>1, <3>3 DEF Span
    <3>5. \A j \in 1..Len(text) : text[j].at = j
      BY <1>1, CellsAre
    <3>6. SUFFICES ASSUME NEW i \in 1..Len(text'), text'[i].at = p PROVE FALSE
      BY DEF InClear
    <3>7. PICK j \in 1..Len(text) : text'[i] = text[j] /\ \A m \in ms : ~Covers(m, j)
      BY <1>9, <3>4, <3>6
    <3>8. j = p
      BY <3>5, <3>6, <3>7
    <3>. QED
      BY <3>2, <3>7, <3>8
  <2>3. \A k : Masked(k)' <=> Masked(k)
    BY DEF Masked
  <2>. QED
    BY <2>1, <2>2, <2>3 DEF MaskedOut
<1>. QED
  BY <1>1, <1>2, <1>3, <1>9, <1>10 DEF IInv

\* A scan that masks more keeps it.
LEMMA RescanIInv == ASSUME IInv, Rescan PROVE IInv'
<1>1. doc \in Documents /\ IsText(text) /\ IsSeq(text) /\ IsSeq(vault) /\ Len(text) \in Nat
  BY DEF IInv, IsSeq
<1>2. PICK N \in Hearings(text) :
         /\ at' = IF Residual(text, N) = {} THEN "done" ELSE "scan"
         /\ Apply(Residual(text, N))
  BY DEF Rescan
<1>3. UNCHANGED <<doc, file, heard>> /\ at = "scan"
  BY DEF Rescan
<1> DEFINE det == Detect(text, N)
           ms == Residual(text, N)
<1>4. /\ \A m \in det : Shaped(text, m)
      /\ IsFiniteSet(det) /\ Apart(det) /\ Fit(text, det)
  BY <1>1, DetectIs
<1>5. ms \subseteq det
  BY DEF Residual
<1> HIDE DEF det
<1>6. IsFiniteSet(ms) /\ Apart(ms) /\ Fit(text, ms) /\ \A m \in ms : m.type \in Types
  <2> HIDE DEF ms
  <2>. QED
    BY <1>1, <1>4, <1>5, FS_Subset, ShapedIs DEF Apart, Fit
<1>7. /\ IsText(text') /\ IsSeq(text') /\ IsSeq(vault')
      /\ \A i \in 1..Len(text') :
            \/ text'[i].at = 0
            \/ \E j \in 1..Len(text) : text'[i] = text[j] /\ \A m \in ms : ~Covers(m, j)
  <2>1. Apply(ms)
    BY <1>2
  <2> HIDE DEF ms
  <2>. QED
    BY <1>1, <1>6, <2>1, Applied
<1> HIDE DEF ms
<1>8. heard' \in Hearings(Cells(doc'))
  BY <1>3 DEF IInv
<1>9. MaskedOut'
  <2>1. DetectedThere' = DetectedThere
    BY <1>3 DEF DetectedThere, Detect, Raw
  <2>2. ASSUME NEW k \in DetectedThere, Masked(k), NEW p \in k.s..(k.e - 1) PROVE ~InClear(p)'
    <3>1. ~InClear(p)
      BY <1>3, <2>2 DEF IInv, MaskedOut
    <3>2. Fit(Cells(doc), DetectedThere) /\ Len(Cells(doc)) \in Nat
      BY <1>3, CellsAre, DetectIs DEF IInv, DetectedThere
    <3>3. p \in Nat \ {0}
      BY <3>2 DEF Fit, Span
    <3>. QED
      BY <1>7, <3>1, <3>3, NeverBack
  <2>3. \A k : Masked(k)' <=> Masked(k)
    BY DEF Masked
  <2>. QED
    BY <2>1, <2>2, <2>3 DEF MaskedOut
<1>10. at' # "mask"
  BY <1>2
<1>. QED
  BY <1>1, <1>3, <1>7, <1>8, <1>9, <1>10 DEF IInv

\* A step that leaves the text alone keeps it.
LEMMA StillIInv ==
    ASSUME IInv, UNCHANGED <<doc, file, text, vault, heard>>, at' = "mask" <=> at = "mask"
    PROVE  IInv'
<1>1. MaskedOut' <=> MaskedOut
  BY DEF MaskedOut, DetectedThere, Detect, Raw, InClear, Masked
<1>. QED
  BY <1>1 DEF IInv

\* Every step keeps it.
LEMMA StepIInv == IInv /\ [Next]_vars => IInv'
<1> SUFFICES ASSUME IInv, [Next]_vars PROVE IInv'
  OBVIOUS
<1>1. CASE Mask
  BY <1>1, MaskIInv
<1>2. CASE Rescan
  BY <1>2, RescanIInv
<1>3. CASE LastScan
  BY <1>3, StillIInv DEF LastScan
<1>4. CASE UNCHANGED vars
  BY <1>4, StillIInv DEF vars
<1>. QED
  BY <1>1, <1>2, <1>3, <1>4 DEF Next

\* What the detection of the document is made of.
LEMMA FoundIs ==
    ASSUME IInv, at # "mask"
    PROVE  LET T == Cells(doc)
               kept == Resolve(T, Found)
           IN /\ IsText(T) /\ Len(T) = Len(doc) /\ Len(T) \in Nat
              /\ \A i \in 1..Len(doc) : T[i].w = doc[i]
              /\ \A m \in Found \cup Sweep(T, kept) : Shaped(T, m)
              /\ Settled(T, Found, kept)
              /\ Settled(T, kept \cup Sweep(T, kept), DetectedThere)
BY CellsAre, DetectIs DEF IInv, Found, DetectedThere

\* The invariant has every heard name masked: another place of the name is swept,
\* and what the sweep lost to covers it.
LEMMA HeardIInv == ASSUME IInv PROVE HeardEverywhere
<1> DEFINE T == Cells(doc)
           kept == Resolve(T, Found)
<1> SUFFICES ASSUME at = "done", NEW m \in kept \cap heard, NEW p \in 1..Len(doc),
                    InClear(p), <<doc[p]>> = m.value, Masked(m)
             PROVE  \E k \in Found : Covers(k, p) /\ ~Masked(k)
  BY Zenon DEF HeardEverywhere
<1>1. /\ Len(T) = Len(doc) /\ Len(T) \in Nat
      /\ \A i \in 1..Len(doc) : T[i].w = doc[i]
      /\ \A x \in Sweep(T, kept) : Shaped(T, x)
      /\ Settled(T, Found, kept)
      /\ Settled(T, kept \cup Sweep(T, kept), DetectedThere)
  BY FoundIs, Zenon
<1>2. heard \in Hearings(T) /\ MaskedOut
  BY DEF IInv
<1>3. PICK i \in 1..Len(T) : m = Here(T, i, i + 1, "NOM", Score, 5)
  BY <1>1, <1>2, HearingsShaped
<1>4. m.type = "NOM" /\ m.pri = 5
  BY <1>3 DEF Here, Match
<1> DEFINE x == Here(T, p, p + 1, "NOM", 90, 40)
<1>5. x \in Sweep(T, kept)
  <2> DEFINE names == UNION {ToSet(y.value) : y \in {z \in kept : z.type = "NOM" /\ z.pri <= 5}}
  <2>1. doc[p] \in ToSet(m.value)
    <3>1. m.value = <<doc[p]>>
      OBVIOUS
    <3>2. doc[p] \in ToSet(<<doc[p]>>)
      BY DEF ToSet
    <3>. QED
      BY <3>1, <3>2
  <2>2. m \in {z \in kept : z.type = "NOM" /\ z.pri <= 5}
    BY <1>4
  <2>3. T[p].w \in names
    BY <1>1, <2>1, <2>2
  <2>4. Sweep(T, kept) = {Here(T, j, j + 1, "NOM", 90, 40) : j \in {h \in 1..Len(T) : T[h].w \in names}}
    BY Zenon DEF Sweep
  <2> HIDE DEF names
  <2>5. p \in {h \in 1..Len(T) : T[h].w \in names}
    BY <1>1, <2>3
  <2>. QED
    BY <2>4, <2>5
<1> HIDE DEF T, kept
<1>6. x.s = p /\ x.e = p + 1
  BY DEF Here, Match
<1>7. PICK k \in DetectedThere : k = x \/ Overlap(k, x)
  BY <1>1, <1>5 DEF Settled
<1>8. k \in kept \cup Sweep(T, kept) /\ kept \subseteq Found
  BY <1>1 DEF Settled
<1>9. Covers(k, p)
  <2>1. CASE k = x
    BY <1>6, <2>1 DEF Covers
  <2>2. CASE Overlap(k, x)
    <3>1. k.s < x.e /\ x.s < k.e
      BY <2>2 DEF Overlap
    <3>2. Span(T, k.s, k.e)
      <4>1. \A y \in kept : Shaped(T, y)
        BY <1>8, FoundIs DEF T, kept
      <4>. QED
        BY <1>1, <1>8, <4>1, ShapedIs
    <3>. QED
      BY <1>1, <1>6, <3>1, <3>2 DEF Covers, Span
  <2>. QED
    BY <1>7, <2>1, <2>2
<1>10. ~Masked(k)
  BY <1>2, <1>9 DEF MaskedOut, Covers
<1>11. CASE k \in kept
  BY <1>8, <1>9, <1>10, <1>11
<1>12. CASE k \in Sweep(T, kept)
  <2>1. PICK j \in 1..Len(T) : k = Here(T, j, j + 1, "NOM", 90, 40)
    BY <1>1, <1>12, SweepIs
  <2>2. k.s = j /\ k.e = j + 1 /\ k.type = "NOM" /\ k.value = Words(T, j, j + 1)
    BY <2>1 DEF Here, Match
  <2>3. j = p
    BY <1>9, <2>2 DEF Covers
  <2>4. Words(T, p, p + 1) = <<T[p].w>>
    BY DEF Words
  <2>5. k.value = m.value /\ k.type = m.type
    BY <1>1, <1>4, <2>2, <2>3, <2>4
  <2>. QED
    BY <1>10, <2>5, MaskedSame
<1>. QED
  BY <1>8, <1>11, <1>12

\* A name that the neural detector reports once is masked wherever the document
\* has it, but where the lists drop a detection that covers it (profile_sweep).
THEOREM HeardNamesMasked == Spec => []HeardEverywhere
BY InitIInv, StepIInv, HeardIInv, PTL DEF Spec

\* Of two matches, one within the other, that overlap and of which the longer is
\* no better, the better one covers every word of the other.
LEMMA NotBetterCovers ==
    ASSUME NEW T, IsText(T), NEW m, NEW k, Span(T, m.s, m.e), Span(T, k.s, k.e), Overlap(k, m),
           Ranked(T, m), Ranked(T, k), ~Before(T, m, k),
           (m.s <= k.s /\ k.e <= m.e) \/ (k.s <= m.s /\ m.e <= k.e),
           NEW p \in m.s..(m.e - 1), NotEol(T[p].w)
    PROVE  Covers(k, p)
<1>1. CASE k.s <= m.s /\ m.e <= k.e
  BY <1>1 DEF Covers, Span, IsText
<1>2. CASE m.s <= k.s /\ k.e <= m.e
  <2>1. /\ Chars(T, k.s, k.e) <= Chars(T, m.s, m.e)
        /\ Chars(T, k.s, k.e) = Chars(T, m.s, m.e) =>
              \A i \in m.s..(m.e - 1) : NotEol(T[i].w) => i \in k.s..(k.e - 1)
    BY <1>2, CharsBelow
  <2>2. ~(Chars(T, m.s, m.e) > Chars(T, k.s, k.e))
    BY DEF Before
  <2>3. Chars(T, k.s, k.e) = Chars(T, m.s, m.e)
    BY <2>1, <2>2 DEF Ranked
  <2>. QED
    BY <2>1, <2>3 DEF Covers
<1>. QED
  BY <1>1, <1>2

\* The invariant has every detection masked: what a match gave way to is no worse,
\* hence no shorter, hence covers it unless the two cross.
LEMMA DetectedIInv == ASSUME IInv PROVE DetectedIsMasked
<1> DEFINE T == Cells(doc)
           kept == Resolve(T, Found)
           swept == Sweep(T, kept)
<1> SUFFICES ASSUME at = "done", NEW m \in Found, NEW p \in m.s..(m.e - 1),
                    InClear(p), NotEol(doc[p]), \A k \in Found : ~Cross(k, m)
             PROVE  \E k \in Found \cup swept : Covers(k, p) /\ ~Masked(k)
  BY Zenon DEF DetectedIsMasked
<1>1. /\ IsText(T) /\ Len(T) = Len(doc) /\ Len(T) \in Nat
      /\ \A i \in 1..Len(doc) : T[i].w = doc[i]
      /\ \A x \in Found \cup swept : Shaped(T, x)
      /\ Settled(T, Found, kept)
      /\ Settled(T, kept \cup swept, DetectedThere)
  BY FoundIs, Zenon
<1>2. MaskedOut
  BY DEF IInv
<1> HIDE DEF T, kept, swept
<1>3. kept \subseteq Found
  BY <1>1 DEF Settled
<1>4. \A x \in Found \cup swept : Span(T, x.s, x.e) /\ Ranked(T, x)
  <2>1. Score \in Int
    BY EngineAssumption
  <2>. QED
    BY <1>1, <2>1, ShapedIs, ShapedRanked
<1>5. p \in 1..Len(T) /\ NotEol(T[p].w)
  <2>1. p \in 1..Len(T)
    BY <1>1, <1>4 DEF Span
  <2>. QED
    BY <1>1, <2>1
\* One that is kept among what was found covers the word.
<1>6. \E k \in kept : Covers(k, p)
  <2>1. CASE m \in kept
    BY <2>1 DEF Covers
  <2>2. ASSUME NEW k \in kept, Overlap(k, m), ~Before(T, m, k) PROVE Covers(k, p)
    <3>1. ~Cross(k, m) /\ k \in Found
      BY <1>3
    <3>2. (m.s <= k.s /\ k.e <= m.e) \/ (k.s <= m.s /\ m.e <= k.e)
      BY <2>2, <3>1 DEF Cross, Inside
    <3>. QED
      BY <1>1, <1>4, <1>5, <2>2, <3>1, <3>2, NotBetterCovers
  <2>. QED
    BY <1>1, <2>1, <2>2 DEF Settled
<1>7. PICK k \in kept : Covers(k, p)
  BY <1>6
\* One of what is kept in the end does.
<1>8. \E d \in DetectedThere : Covers(d, p)
  <2>1. CASE k \in DetectedThere
    BY <1>7, <2>1
  <2>2. ASSUME NEW d \in DetectedThere, d # k, Overlap(d, k), ~Before(T, k, d) PROVE Covers(d, p)
    <3>1. d \in kept \cup swept
      BY <1>1 DEF Settled
    <3>2. d \in swept
      <4>1. Overlap(d, k) /\ d # k
        BY <2>2
      <4>. QED
        BY <1>1, <3>1, <4>1 DEF Settled
    <3>3. PICK j \in 1..Len(T) : d = Here(T, j, j + 1, "NOM", 90, 40)
      BY <1>1, <3>2, SweepIs DEF swept
    <3>4. d.s = j /\ d.e = j + 1
      BY <3>3 DEF Here, Match
    <3>5. Span(T, k.s, k.e) /\ Span(T, d.s, d.e) /\ Ranked(T, k) /\ Ranked(T, d)
      BY <1>3, <1>4, <3>2
    <3>6. k.s <= d.s /\ d.e <= k.e
      BY <2>2, <3>4, <3>5 DEF Overlap, Span
    <3>7. p \in k.s..(k.e - 1)
      BY <1>7 DEF Covers
    <3>. QED
      BY <1>1, <1>5, <2>2, <3>5, <3>6, <3>7, NotBetterCovers
  <2>3. k \in DetectedThere \/ \E d \in DetectedThere : Overlap(d, k) /\ ~Before(T, k, d)
    BY <1>1 DEF Settled
  <2>. QED
    BY <2>1, <2>2, <2>3
<1>9. PICK d \in DetectedThere : Covers(d, p)
  BY <1>8
<1>10. d \in Found \cup swept
  BY <1>1, <1>3 DEF Settled
<1>11. ~Masked(d)
  BY <1>2, <1>9 DEF MaskedOut, Covers
<1>. QED
  BY <1>9, <1>10, <1>11

\* No part of what any detector found stays in clear, but where two of them cross
\* or where the lists drop the one that covers it (resolve_overlaps).
THEOREM DetectionsMasked == Spec => []DetectedIsMasked
BY InitIInv, StepIInv, DetectedIInv, PTL DEF Spec

-----------------------------------------------------------------------------
(***************************************************************************)
(* The way back (RestoresText)                                             *)
(***************************************************************************)

\* What deanonymize makes of a word.
Piece(v, w) ==
    IF w \in ToSet(Token) THEN v[CHOOSE k \in DOMAIN Token : Token[k] = w].value ELSE <<w>>

\* The pieces of the text T, put one behind the other, spell d: that of the
\* i-th cell begins at pos[i].
Spells(T, v, d, pos) ==
    /\ pos \in [1..(Len(T) + 1) -> Nat] /\ pos[1] = 1 /\ pos[Len(T) + 1] = Len(d) + 1
    /\ \A i \in 1..Len(T) :
          /\ T[i].w \in ToSet(Token) => \E k \in 1..Len(v) : k \in 1..Len(Token) /\ T[i].w = Token[k]
          /\ IsSeq(Piece(v, T[i].w))
          /\ pos[i + 1] = pos[i] + Len(Piece(v, T[i].w))
          /\ \A k \in 1..Len(Piece(v, T[i].w)) : d[pos[i] + k - 1] = Piece(v, T[i].w)[k]

\* A token has one number.
LEMMA TokenIs ==
    ASSUME NEW k \in 1..Len(Token)
    PROVE  /\ Token[k] \in ToSet(Token) /\ DOMAIN Token = 1..Len(Token)
           /\ (CHOOSE j \in DOMAIN Token : Token[j] = Token[k]) = k
<1>1. DOMAIN Token = 1..Len(Token) /\ \A i, j \in 1..Len(Token) : Token[i] = Token[j] => i = j
  BY EngineAssumption
<1>. QED
  BY <1>1 DEF ToSet

\* The piece of a token is the value of its entry.
LEMMA PieceOfToken ==
    ASSUME NEW k \in 1..Len(Token), NEW v
    PROVE  Piece(v, Token[k]) = v[k].value
BY TokenIs, Zenon DEF Piece

\* A new entry in the vault changes no piece.
LEMMA PieceKept ==
    ASSUME NEW v, NEW u, \A k \in 1..Len(v) : u[k] = v[k],
           NEW w, w \in ToSet(Token) => \E k \in 1..Len(v) : k \in 1..Len(Token) /\ w = Token[k]
    PROVE  Piece(u, w) = Piece(v, w)
<1>1. CASE w \in ToSet(Token)
  <2>1. PICK k \in 1..Len(v) : k \in 1..Len(Token) /\ w = Token[k]
    BY <1>1
  <2>. QED
    BY <2>1, PieceOfToken
<1>2. CASE w \notin ToSet(Token)
  BY <1>2 DEF Piece
<1>. QED
  BY <1>1, <1>2

\* Two sequences, one behind the other.
LEMMA Concat ==
    ASSUME NEW a, NEW b, IsSeq(a), IsSeq(b)
    PROVE  a \o b = [k \in 1..(Len(a) + Len(b)) |-> IF k <= Len(a) THEN a[k] ELSE b[k - Len(a)]]
<1> DEFINE S == {a[k] : k \in 1..Len(a)}
           Z == {b[k] : k \in 1..Len(b)}
<1>1. a \in Seq(S) /\ b \in Seq(Z)
  <2>1. a = [k \in 1..Len(a) |-> a[k]] /\ Len(a) \in Nat
    BY DEF IsSeq
  <2>2. b = [k \in 1..Len(b) |-> b[k]] /\ Len(b) \in Nat
    BY DEF IsSeq
  <2>3. a \in Seq(S)
    BY <2>1
  <2>4. b \in Seq(Z)
    BY <2>2
  <2>. QED
    BY <2>3, <2>4
<1>2. Len(a) \in Nat /\ Len(b) \in Nat
  BY DEF IsSeq
<1> DEFINE U == S \cup Z
<1>3. a \in Seq(U) /\ b \in Seq(U)
  <2> HIDE DEF S, Z
  <2>. QED
    BY <1>1, SeqMonotonic
<1> HIDE DEF U
<1> DEFINE c == a \o b
<1>4. c \in Seq(U)
  BY <1>3
<1>5. Len(c) = Len(a) + Len(b)
  BY <1>3
<1>6. \A k \in 1..(Len(a) + Len(b)) : c[k] = IF k <= Len(a) THEN a[k] ELSE b[k - Len(a)]
  BY <1>2, <1>3
<1> HIDE DEF c
<1>7. c = [k \in 1..Len(c) |-> c[k]]
  BY <1>4
<1>8. c = [k \in 1..(Len(a) + Len(b)) |-> IF k <= Len(a) THEN a[k] ELSE b[k - Len(a)]]
  BY <1>5, <1>6, <1>7
<1>. QED
  BY <1>8 DEF c

\* What is spelt is what deanonymize gives back.
LEMMA SpellsRestores ==
    ASSUME IsSeq(text), IsSeq(doc), NEW pos, Spells(text, vault, doc, pos)
    PROVE  Restore(text) = doc
<1> DEFINE n == Len(text)
           seqs == [i \in 1..n |-> Piece(vault, text[i].w)]
           F == [i \in 1..n |-> SubSeq(doc, 1, pos[i + 1] - 1)]
           Eq(g) == g = [i \in 1..n |-> IF i = 1 THEN seqs[i] ELSE g[i - 1] \o seqs[i]]
           iter == CHOOSE g : Eq(g)
<1>0. n \in Nat /\ Len(doc) \in Nat
  BY DEF IsSeq
<1>1. Restore(text) = FlattenSeq(seqs)
  BY Zenon DEF Restore, Piece
<1>2. Len(seqs) = n
  BY <1>0
<1> HIDE DEF seqs
<1>3. \A i \in 1..n : seqs[i] = Piece(vault, text[i].w)
  BY DEF seqs
<1>4. /\ pos \in [1..(n + 1) -> Nat] /\ pos[1] = 1 /\ pos[n + 1] = Len(doc) + 1
      /\ \A i \in 1..n :
            /\ IsSeq(seqs[i]) /\ pos[i + 1] = pos[i] + Len(seqs[i])
            /\ \A k \in 1..Len(seqs[i]) : doc[pos[i] + k - 1] = seqs[i][k]
  BY <1>3 DEF Spells
<1> HIDE DEF n
<1> DEFINE X == {doc[k] : k \in 1..Len(doc)}
<1>5. doc \in Seq(X)
  <2>1. doc = [k \in 1..Len(doc) |-> doc[k]]
    BY DEF IsSeq
  <2>. QED
    BY <1>0, <2>1
<1> HIDE DEF X
\* The positions do not go beyond the end.
<1>6. \A i \in 1..(n + 1) : pos[i] \in 1..(Len(doc) + 1)
  <2> DEFINE Low == {i \in 1..(n + 1) : pos[i] < 1}
             High == {j \in Nat : j <= n /\ pos[n + 1 - j] > Len(doc) + 1}
  <2>1. ASSUME Low # {} PROVE FALSE
    <3>1. Low \subseteq Nat
      OBVIOUS
    <3>2. PICK i \in Low : \A j \in Low : i <= j
      <4> HIDE DEF Low
      <4>. QED
        BY <2>1, <3>1, LeastNat
    <3>3. i # 1 /\ i - 1 \in 1..n /\ i - 1 \in 1..(n + 1) /\ (i - 1) + 1 = i
      BY <1>0, <1>4, <3>2
    <3>4. pos[i] = pos[i - 1] + Len(seqs[i - 1]) /\ Len(seqs[i - 1]) \in Nat
      BY <1>4, <3>3 DEF IsSeq
    <3>5. i - 1 \notin Low
      BY <3>2, <3>3
    <3>6. pos[i - 1] >= 1 /\ pos[i - 1] \in Nat
      BY <1>4, <3>3, <3>5
    <3>. QED
      BY <3>2, <3>4, <3>6
  <2>2. ASSUME High # {} PROVE FALSE
    <3>1. High \subseteq Nat
      OBVIOUS
    <3>2. PICK j \in High : \A h \in High : j <= h
      <4> HIDE DEF High
      <4>. QED
        BY <2>2, <3>1, LeastNat
    <3>3. j # 0 /\ j \in Nat /\ j <= n /\ pos[n + 1 - j] > Len(doc) + 1
      BY <1>0, <1>4, <3>2
    <3>4. n + 1 - j \in 1..n /\ (n + 1 - j) + 1 = n + 1 - (j - 1) /\ n + 1 - (j - 1) \in 1..(n + 1)
      BY <1>0, <3>3
    <3>5. pos[n + 1 - (j - 1)] = pos[n + 1 - j] + Len(seqs[n + 1 - j]) /\ Len(seqs[n + 1 - j]) \in Nat
      BY <1>4, <3>4 DEF IsSeq
    <3>6. j - 1 \notin High
      BY <3>2, <3>3
    <3>7. pos[n + 1 - (j - 1)] <= Len(doc) + 1
      BY <1>0, <1>4, <3>3, <3>4, <3>6
    <3>8. pos[n + 1 - j] \in Nat
      BY <1>0, <1>4, <3>4
    <3>. QED
      BY <1>0, <3>3, <3>5, <3>7, <3>8
  <2>3. ASSUME NEW i \in 1..(n + 1) PROVE pos[i] <= Len(doc) + 1
    <3>1. n + 1 - i \in Nat /\ n + 1 - i <= n /\ n + 1 - (n + 1 - i) = i
      BY <1>0
    <3>2. n + 1 - i \notin High
      BY <2>2
    <3>3. ~(pos[n + 1 - (n + 1 - i)] > Len(doc) + 1) /\ pos[i] \in Nat
      BY <1>4, <3>1, <3>2
    <3>. QED
      BY <1>0, <3>1, <3>3
  <2>4. ASSUME NEW i \in 1..(n + 1) PROVE pos[i] \in 1..(Len(doc) + 1)
    <3>1. pos[i] \in Nat
      BY <1>4
    <3>2. i \notin Low
      BY <2>1
    <3>3. pos[i] >= 1
      BY <3>1, <3>2
    <3>. QED
      BY <1>0, <2>3, <3>1, <3>3
  <2>. QED
    BY <2>4
<1>7. ASSUME NEW i \in 1..n, i # 1
      PROVE  SubSeq(doc, 1, pos[i] - 1) \o seqs[i] = SubSeq(doc, 1, pos[i + 1] - 1)
  <2> DEFINE A == SubSeq(doc, 1, pos[i] - 1)
             Z == SubSeq(doc, 1, pos[i + 1] - 1)
  <2>1. i \in 1..(n + 1) /\ i + 1 \in 1..(n + 1)
    BY <1>0
  <2>2. pos[i] \in 1..(Len(doc) + 1) /\ pos[i + 1] \in 1..(Len(doc) + 1)
    BY <1>6, <2>1
  <2>3. /\ seqs[i] = [k \in 1..Len(seqs[i]) |-> seqs[i][k]] /\ Len(seqs[i]) \in Nat
        /\ pos[i + 1] = pos[i] + Len(seqs[i])
        /\ \A k \in 1..Len(seqs[i]) : doc[pos[i] + k - 1] = seqs[i][k]
    BY <1>4 DEF IsSeq
  <2>4. A = [k \in 1..(pos[i] - 1) |-> doc[k]] /\ Len(A) = pos[i] - 1
    BY <1>0, <1>5, <2>2
  <2>5. Z = [k \in 1..(pos[i + 1] - 1) |-> doc[k]] /\ Len(Z) = pos[i + 1] - 1
    BY <1>0, <1>5, <2>2
  <2> DEFINE b == seqs[i]
             p == pos[i]
  <2> HIDE DEF A, Z, b, p
  <2>6. A \o b = [k \in 1..(Len(A) + Len(b)) |-> IF k <= Len(A) THEN A[k] ELSE b[k - Len(A)]]
    <3>1. IsSeq(A)
      <4>1. Len(A) \in Nat
        BY <2>2, <2>4
      <4>2. A = [k \in 1..Len(A) |-> A[k]]
        BY <2>2, <2>4
      <4>. QED
        BY <4>1, <4>2 DEF IsSeq
    <3>2. IsSeq(b)
      BY <1>4 DEF b
    <3>. QED
      BY <3>1, <3>2, Concat
  <2>61. Len(b) \in Nat /\ p \in Nat \ {0} /\ Len(A) = p - 1
    <3>1. Len(b) \in Nat
      BY <2>3 DEF b
    <3>2. p \in Nat \ {0} /\ Len(A) = p - 1
      BY <2>2, <2>4 DEF p
    <3>. QED
      BY <3>1, <3>2
  <2>7. ASSUME NEW k \in 1..(Len(A) + Len(b)), k <= Len(A)
        PROVE  A[k] = doc[k]
    BY <2>2, <2>4, <2>7
  <2>8. ASSUME NEW k \in 1..(Len(A) + Len(b)), ~(k <= Len(A))
        PROVE  b[k - Len(A)] = doc[k]
    <3>1. k - Len(A) \in 1..Len(b) /\ p + (k - Len(A)) - 1 = k
      BY <2>61, <2>8
    <3>2. doc[p + (k - Len(A)) - 1] = b[k - Len(A)]
      BY <2>3, <3>1 DEF b, p
    <3>. QED
      BY <3>1, <3>2
  <2>9. Len(A) + Len(b) = pos[i + 1] - 1
    <3>1. pos[i + 1] = p + Len(b)
      BY <2>3 DEF b, p
    <3>. QED
      BY <2>61, <3>1
  <2>10. A \o b = [k \in 1..(Len(A) + Len(b)) |-> doc[k]]
    BY <2>6, <2>7, <2>8
  <2>11. A \o b = Z
    BY <2>5, <2>9, <2>10
  <2>. QED
    BY <2>11 DEF A, Z, b
<1>8. n # 0 => seqs[1] = SubSeq(doc, 1, pos[2] - 1)
  <2> SUFFICES ASSUME n # 0 PROVE seqs[1] = SubSeq(doc, 1, pos[2] - 1)
    OBVIOUS
  <2>1. 1 \in 1..n /\ 2 \in 1..(n + 1) /\ 1 + 1 = 2
    BY <1>0
  <2>2. pos[2] \in 1..(Len(doc) + 1)
    BY <1>6, <2>1
  <2>3. /\ seqs[1] = [k \in 1..Len(seqs[1]) |-> seqs[1][k]] /\ Len(seqs[1]) \in Nat
        /\ pos[2] = 1 + Len(seqs[1])
        /\ \A k \in 1..Len(seqs[1]) : doc[1 + k - 1] = seqs[1][k]
    <3>1. IsSeq(seqs[1])
      BY <1>4, <2>1
    <3>2. pos[1 + 1] = pos[1] + Len(seqs[1]) /\ \A k \in 1..Len(seqs[1]) : doc[pos[1] + k - 1] = seqs[1][k]
      BY <1>4, <2>1
    <3>. QED
      BY <1>4, <2>1, <3>1, <3>2 DEF IsSeq
  <2>4. SubSeq(doc, 1, pos[2] - 1) = [k \in 1..(pos[2] - 1) |-> doc[k]]
    BY <1>0, <1>5, <2>2
  <2>5. pos[2] - 1 = Len(seqs[1])
    BY <2>3
  <2>6. \A k \in 1..Len(seqs[1]) : doc[k] = seqs[1][k]
    BY <2>3
  <2>. QED
    BY <2>3, <2>4, <2>5, <2>6
<1>9. Eq(F)
  <2>1. \A i \in 1..n : F[i] = SubSeq(doc, 1, pos[i + 1] - 1)
    OBVIOUS
  <2>2. ASSUME NEW i \in 1..n PROVE F[i] = IF i = 1 THEN seqs[i] ELSE F[i - 1] \o seqs[i]
    <3>1. CASE i = 1
      <4>1. n # 0 /\ 1 + 1 = 2
        BY <1>0
      <4>. QED
        BY <1>8, <2>1, <3>1, <4>1
    <3>2. CASE i # 1
      <4>1. i - 1 \in 1..n /\ (i - 1) + 1 = i
        BY <1>0, <3>2
      <4>2. F[i - 1] = SubSeq(doc, 1, pos[i] - 1)
        BY <2>1, <4>1
      <4>. QED
        BY <1>7, <2>1, <3>2, <4>2
    <3>. QED
      BY <3>1, <3>2
  <2>3. F = [i \in 1..n |-> F[i]]
    OBVIOUS
  <2> HIDE DEF F
  <2>. QED
    BY <2>2, <2>3
<1>10. Eq(iter)
  <2> HIDE DEF Eq, F
  <2>. QED
    BY <1>9
<1>11. n # 0 => FlattenSeq(seqs) = iter[n]
  BY <1>2 DEF FlattenSeq
<1> HIDE DEF iter
<1>12. \A i \in 1..n : iter[i] = SubSeq(doc, 1, pos[i + 1] - 1)
  <2> DEFINE Bad == {i \in 1..n : iter[i] # SubSeq(doc, 1, pos[i + 1] - 1)}
  <2> SUFFICES ASSUME Bad # {} PROVE FALSE
    OBVIOUS
  <2>1. Bad \subseteq Nat
    OBVIOUS
  <2>2. PICK i \in Bad : \A j \in Bad : i <= j
    <3> HIDE DEF Bad
    <3>. QED
      BY <2>1, LeastNat
  <2>3. i \in 1..n /\ iter[i] # SubSeq(doc, 1, pos[i + 1] - 1)
    BY <2>2
  <2>4. iter[i] = IF i = 1 THEN seqs[i] ELSE iter[i - 1] \o seqs[i]
    BY <1>10, <2>3
  <2>5. CASE i = 1
    <3>1. n # 0 /\ 1 + 1 = 2
      BY <1>0, <2>3
    <3>. QED
      BY <1>8, <2>3, <2>4, <2>5, <3>1
  <2>6. CASE i # 1
    <3>1. i - 1 \in 1..n /\ (i - 1) + 1 = i /\ i - 1 \notin Bad
      BY <1>0, <2>2, <2>3, <2>6
    <3>2. iter[i - 1] = SubSeq(doc, 1, pos[i] - 1)
      BY <3>1
    <3>. QED
      BY <1>7, <2>3, <2>4, <2>6, <3>2
  <2>. QED
    BY <2>5, <2>6
<1>13. CASE n = 0
  <2>1. seqs = <<>> /\ doc = <<>>
    <3>1. seqs = [i \in 1..0 |-> Piece(vault, text[i].w)]
      BY <1>13 DEF seqs
    <3>2. Len(doc) = 0
      BY <1>0, <1>4, <1>13
    <3>. QED
      BY <1>5, <3>1, <3>2
  <2>2. FlattenSeq(seqs) = seqs
    BY <2>1 DEF FlattenSeq
  <2>. QED
    BY <1>1, <2>1, <2>2
<1>14. CASE n # 0
  <2>1. n \in 1..n
    BY <1>0, <1>14
  <2>2. FlattenSeq(seqs) = SubSeq(doc, 1, (Len(doc) + 1) - 1)
    BY <1>4, <1>11, <1>12, <1>14, <2>1
  <2>3. SubSeq(doc, 1, (Len(doc) + 1) - 1) = doc
    BY <1>0, <1>5
  <2>. QED
    BY <1>1, <2>2, <2>3
<1>. QED
  BY <1>13, <1>14

\* The value of a match is the words of its span, none of them a token.
Plain(T, m) ==
    /\ m.value = Words(T, m.s, m.e)
    /\ \A k \in m.s..(m.e - 1) : T[k].w \notin ToSet(Token)

\* Putting one more match keeps the document spelt, while the tokens last.
LEMMA PutSpells ==
    ASSUME NEW T, Len(T) \in Nat, NEW v, NEW ms, Apart(ms), Fit(T, ms), NEW s \in SUBSET ms,
           NEW x \in s, \A y \in s : x.s <= y.s, Plain(T, x),
           NEW r, Masking(T, v, ms, s \ {x}, r),
           NEW d, NEW pos, Spells(r.text, r.vault, d, pos),
           Len(Put(x, r).vault) <= Len(Token), Len(Token) \in Nat
    PROVE  \E new : Spells(Put(x, r).text, Put(x, r).vault, d, new)
<1> DEFINE q == Put(x, r)
           n == TokenFor(r.vault, x)
           b == x.s
           e == x.e
           w == e - b
           old == r.text
           l == Len(old)
           new == [i \in 1..(Len(q.text) + 1) |-> IF i <= b THEN pos[i] ELSE pos[i + w - 1]]
<1>1. /\ b \in 1..Len(T) /\ e \in 2..(Len(T) + 1) /\ b < e /\ e <= l + 1
      /\ l \in Nat /\ Len(r.vault) \in Nat
      /\ \A i \in 1..(e - 1) : old[i] = T[i]
      /\ Puts(r, x, n, q)
  <2>1. /\ x.s \in 1..Len(T) /\ x.e \in 2..(Len(T) + 1) /\ x.s < x.e /\ x.e <= Len(r.text) + 1
        /\ r \in States(CellsOf(T, ms), EntriesOf(v, ms)) /\ Len(r.text) \in Nat /\ Len(r.vault) \in Nat
        /\ \A i \in 1..(x.e - 1) : r.text[i] = T[i]
        /\ Put(x, r) \in States(CellsOf(T, ms), EntriesOf(v, ms))
        /\ Puts(r, x, TokenFor(r.vault, x), Put(x, r))
    BY PutOne, Zenon
  <2>. QED
    BY <2>1
<1> HIDE DEF q, n, b, e, old, l
<1>2. Len(q.text) = l + 1 - w /\ Len(q.text) \in Nat
  <2>1. Len(q.text) = l + 1 - w
    BY <1>1 DEF Puts, b, e, old, l
  <2>. QED
    BY <1>1, <2>1
<1>3. /\ \A k \in 1..(b - 1) : q.text[k] = old[k]
      /\ q.text[b] = TokenCell(n, x)
      /\ \A k \in (b + 1)..Len(q.text) : q.text[k] = old[k + w - 1]
  BY <1>1 DEF Puts, b, e, old
<1>4. /\ Len(q.vault) \in {Len(r.vault), Len(r.vault) + 1}
      /\ \A k \in 1..Len(r.vault) : q.vault[k] = r.vault[k]
      /\ n \in 1..Len(q.vault) /\ q.vault[n] = Entry(x)
  BY <1>1 DEF Puts
<1>5. n \in 1..Len(Token)
  <2>1. Len(q.vault) <= Len(Token)
    BY DEF q
  <2>. QED
    BY <1>1, <1>4, <2>1
<1> DEFINE P(i) == Piece(r.vault, old[i].w)
           Q(i) == Piece(q.vault, q.text[i].w)
           Known1(c) == c.w \in ToSet(Token) => \E k \in 1..Len(r.vault) : k \in 1..Len(Token) /\ c.w = Token[k]
           Known2(c) == c.w \in ToSet(Token) => \E k \in 1..Len(q.vault) : k \in 1..Len(Token) /\ c.w = Token[k]
<1>6. /\ pos \in [1..(l + 1) -> Nat] /\ pos[1] = 1 /\ pos[l + 1] = Len(d) + 1
      /\ \A i \in 1..l :
            /\ Known1(old[i]) /\ IsSeq(P(i)) /\ pos[i + 1] = pos[i] + Len(P(i))
            /\ \A k \in 1..Len(P(i)) : d[pos[i] + k - 1] = P(i)[k]
  BY DEF Spells, old, l
<1>7. \A c : Known1(c) => Known2(c) /\ Piece(q.vault, c.w) = Piece(r.vault, c.w)
  <2> SUFFICES ASSUME NEW c, Known1(c) PROVE Known2(c) /\ Piece(q.vault, c.w) = Piece(r.vault, c.w)
    OBVIOUS
  <2>0. \A k \in 1..Len(r.vault) : q.vault[k] = r.vault[k]
    BY <1>4
  <2>1. Piece(q.vault, c.w) = Piece(r.vault, c.w)
    <3> DEFINE u == q.vault
               vt == r.vault
               word == c.w
    <3>1. \A k \in 1..Len(vt) : u[k] = vt[k]
      BY <2>0
    <3>2. word \in ToSet(Token) => \E k \in 1..Len(vt) : k \in 1..Len(Token) /\ word = Token[k]
      OBVIOUS
    <3> HIDE DEF u, vt, word
    <3>3. Piece(u, word) = Piece(vt, word)
      BY <3>1, <3>2, PieceKept
    <3>. QED
      BY <3>3 DEF u, vt, word
  <2>2. 1..Len(r.vault) \subseteq 1..Len(q.vault)
    BY <1>1, <1>4
  <2>. QED
    BY <2>1, <2>2
\* The cells of the span are their own pieces, one word each.
<1>8. \A i \in b..(e - 1) : i \in 1..l /\ P(i) = <<T[i].w>> /\ pos[i + 1] = pos[i] + 1 /\ d[pos[i]] = T[i].w
  <2> SUFFICES ASSUME NEW i \in b..(e - 1)
               PROVE  i \in 1..l /\ P(i) = <<T[i].w>> /\ pos[i + 1] = pos[i] + 1 /\ d[pos[i]] = T[i].w
    OBVIOUS
  <2>1. i \in 1..l /\ i \in 1..(e - 1) /\ i \in 1..(l + 1)
    BY <1>1
  <2>2. old[i] = T[i]
    BY <1>1, <2>1
  <2>3. P(i) = <<T[i].w>>
    BY <2>2 DEF Plain, Piece, b, e
  <2>4. pos[i] \in Nat
    BY <1>6, <2>1
  <2> HIDE DEF P
  <2>5. pos[i + 1] = pos[i] + Len(P(i)) /\ \A k \in 1..Len(P(i)) : d[pos[i] + k - 1] = P(i)[k]
    BY <1>6, <2>1
  <2>6. Len(P(i)) = 1 /\ P(i)[1] = T[i].w
    BY <2>3
  <2>7. 1 \in 1..Len(P(i)) /\ pos[i] + 1 - 1 = pos[i]
    BY <2>4, <2>6
  <2>. QED
    BY <2>1, <2>3, <2>5, <2>6, <2>7
<1>9. \A i \in b..e : pos[i] = pos[b] + (i - b)
  <2> DEFINE Bad == {i \in b..e : pos[i] # pos[b] + (i - b)}
  <2> SUFFICES ASSUME Bad # {} PROVE FALSE
    OBVIOUS
  <2>0. b \in Nat /\ e \in Nat /\ pos[b] \in Nat
    <3>1. b \in 1..(l + 1) /\ b \in Nat /\ e \in Nat
      BY <1>1
    <3>2. pos \in [1..(l + 1) -> Nat]
      BY <1>6
    <3>. QED
      BY <3>1, <3>2
  <2>1. Bad \subseteq Nat
    BY <2>0
  <2>2. PICK i \in Bad : \A j \in Bad : i <= j
    <3> HIDE DEF Bad
    <3>. QED
      BY <2>1, LeastNat
  <2>3. i \in b..e /\ pos[i] # pos[b] + (i - b)
    BY <2>2
  <2>4. i # b
    BY <2>0, <2>3
  <2>5. i - 1 \in b..(e - 1) /\ (i - 1) + 1 = i /\ i - 1 \in b..e /\ i - 1 \notin Bad
    BY <2>0, <2>2, <2>3, <2>4
  <2>8. i \in Int /\ b \in Int /\ pos[b] \in Int
    BY <2>0, <2>3
  <2>6. pos[i - 1] = pos[b] + ((i - 1) - b)
    BY <2>5
  <2>7. pos[i] = pos[i - 1] + 1
    BY <1>8, <2>5
  <2>9. pos[i] = pos[b] + ((i - 1) - b) + 1
    BY <2>6, <2>7
  <2> HIDE DEF Bad
  <2>. QED
    BY <2>3, <2>8, <2>9
<1>10. x.value = [k \in 1..w |-> T[b + k - 1].w] /\ w \in Nat /\ Len(x.value) = w
  <2>1. x.value = [k \in 1..w |-> T[b + k - 1].w]
    BY DEF Plain, Words, b, e
  <2>2. w \in Nat
    BY <1>1
  <2>. QED
    BY <2>1, <2>2
<1>11. Q(b) = x.value /\ Known2(q.text[b])
  <2>1. q.text[b].w = Token[n]
    BY <1>3 DEF TokenCell, Cell
  <2>2. Piece(q.vault, Token[n]) = q.vault[n].value
    BY <1>5, PieceOfToken
  <2>3. q.vault[n].value = x.value
    BY <1>4 DEF Entry
  <2>. QED
    BY <1>4, <1>5, <2>1, <2>2, <2>3
<1> DEFINE Good(i) ==
              /\ Known2(q.text[i])
              /\ IsSeq(Q(i))
              /\ new[i + 1] = new[i] + Len(Q(i))
              /\ \A k \in 1..Len(Q(i)) : d[new[i] + k - 1] = Q(i)[k]
<1> HIDE DEF w
<1>12. ASSUME NEW i \in 1..Len(q.text), NEW j \in 1..l, q.text[i] = old[j],
              new[i] = pos[j], new[i + 1] = pos[j + 1]
       PROVE  Good(i)
  <2> HIDE DEF new, Known1, Known2
  <2>1. Known1(old[j]) /\ IsSeq(P(j)) /\ pos[j + 1] = pos[j] + Len(P(j))
        /\ \A k \in 1..Len(P(j)) : d[pos[j] + k - 1] = P(j)[k]
    BY <1>6
  <2>2. Known2(q.text[i]) /\ Q(i) = P(j)
    BY <1>7, <1>12, <2>1
  <2> HIDE DEF P, Q
  <2>. QED
    BY <1>12, <2>1, <2>2
<1>13. ASSUME NEW i \in 1..Len(q.text) PROVE Good(i)
  <2>1. CASE i < b
    <3>1. i \in 1..l /\ i \in 1..(b - 1)
      BY <1>1, <2>1
    <3>2. q.text[i] = old[i]
      BY <1>3, <3>1
    <3>3. new[i] = pos[i] /\ new[i + 1] = pos[i + 1]
      BY <1>1, <1>2, <2>1
    <3> HIDE DEF Good, new
    <3>. QED
      BY <1>12, <3>1, <3>2, <3>3
  <2>2. CASE i > b
    <3> DEFINE j == i + w - 1
    <3>0. w \in Nat \ {0}
      BY <1>1 DEF w
    <3>1. j \in 1..l /\ i \in (b + 1)..Len(q.text) /\ (i + 1) + w - 1 = j + 1
      BY <1>1, <1>2, <2>2, <3>0
    <3>2. q.text[i] = old[j]
      BY <1>3, <3>1
    <3>3. new[i] = pos[j] /\ new[i + 1] = pos[j + 1]
      <4>1. i \in 1..(Len(q.text) + 1) /\ i + 1 \in 1..(Len(q.text) + 1) /\ ~(i <= b) /\ ~(i + 1 <= b)
        BY <1>1, <1>2, <2>2
      <4>. QED
        BY <3>1, <4>1
    <3> HIDE DEF Good, new, j
    <3>. QED
      BY <1>12, <3>1, <3>2, <3>3
  <2>3. CASE i = b
    <3>1. Known2(q.text[i]) /\ Q(i) = x.value
      BY <1>11, <2>3
    <3>2. IsSeq(x.value)
      BY <1>10 DEF IsSeq
    <3>3. new[b] = pos[b] /\ new[b + 1] = pos[e]
      <4>1. b \in 1..(Len(q.text) + 1) /\ b + 1 \in 1..(Len(q.text) + 1) /\ b <= b /\ ~(b + 1 <= b)
            /\ (b + 1) + w - 1 = e
        BY <1>1, <1>2 DEF w
      <4>. QED
        BY <4>1
    <3>4. pos[e] = pos[b] + w
      <4>1. e \in b..e
        BY <1>1
      <4>. QED
        BY <1>9, <4>1 DEF w
    <3>5. ASSUME NEW k \in 1..w PROVE d[pos[b] + k - 1] = x.value[k]
      <4>1. b + k - 1 \in b..(e - 1) /\ b + k - 1 \in b..e /\ pos[b] + ((b + k - 1) - b) = pos[b] + k - 1
        <5>1. pos[b] \in Nat
          BY <1>1, <1>6
        <5>. QED
          BY <1>1, <5>1 DEF w
      <4>2. pos[b + k - 1] = pos[b] + k - 1
        BY <1>9, <4>1
      <4>3. d[pos[b + k - 1]] = T[b + k - 1].w
        BY <1>8, <4>1
      <4>. QED
        BY <1>10, <4>2, <4>3
    <3> HIDE DEF new, Known2, Q
    <3>. QED
      BY <1>10, <2>3, <3>1, <3>2, <3>3, <3>4, <3>5
  <2>4. i \in Int /\ b \in Int
    BY <1>1
  <2> HIDE DEF Good
  <2>. QED
    BY <2>1, <2>2, <2>3, <2>4
<1>14. new \in [1..(Len(q.text) + 1) -> Nat] /\ new[1] = 1 /\ new[Len(q.text) + 1] = Len(d) + 1
  <2>1. ASSUME NEW i \in 1..(Len(q.text) + 1) PROVE (IF i <= b THEN pos[i] ELSE pos[i + w - 1]) \in Nat
    <3>1. i <= b => i \in 1..(l + 1)
      BY <1>1
    <3>2. ~(i <= b) => i + w - 1 \in 1..(l + 1)
      BY <1>1, <1>2 DEF w
    <3>. QED
      BY <1>6, <3>1, <3>2
  <2>2. 1 \in 1..(Len(q.text) + 1) /\ 1 <= b
    BY <1>1, <1>2
  <2>3. Len(q.text) + 1 \in 1..(Len(q.text) + 1) /\ ~(Len(q.text) + 1 <= b) /\ (Len(q.text) + 1) + w - 1 = l + 1
    BY <1>1, <1>2 DEF w
  <2>. QED
    BY <1>6, <2>1, <2>2, <2>3
<1>15. Spells(q.text, q.vault, d, new)
  <2> HIDE DEF new, q
  <2>. QED
    BY <1>13, <1>14 DEF Spells
<1>. QED
  BY <1>15 DEF q

\* A detection whose value has as many words as its span is the words of its span.
LEMMA WholePlain ==
    ASSUME NEW T, IsText(T), NEW k, Shaped(T, k), NEW m, SameMatch(m, k),
           Len(m.value) = m.e - m.s, ToSet(m.value) \cap ToSet(Token) = {}
    PROVE  Plain(T, m)
<1>0. Len(T) \in Nat
  BY DEF IsText
<1>1. /\ Span(T, k.s, k.e)
      /\ \E a \in 1..Len(T) : k.s <= a /\ a < k.e /\ k.value = Words(T, a, k.e)
  BY <1>0, ShapedIs
<1>2. PICK a \in 1..Len(T) : k.s <= a /\ a < k.e /\ k.value = Words(T, a, k.e)
  BY <1>1
<1>3. m.s = k.s /\ m.e = k.e /\ m.value = Words(T, a, k.e)
  BY <1>2 DEF SameMatch
<1>4. k.s \in 1..Len(T) /\ k.e \in 2..(Len(T) + 1)
  BY <1>1 DEF Span
<1>5. a \in 1..(Len(T) + 1) /\ k.e \in 1..(Len(T) + 1) /\ a <= k.e
  BY <1>0, <1>2, <1>4
<1>6. Len(Words(T, a, k.e)) = k.e - a
  BY <1>0, <1>5, WordsAre
<1>7. a = m.s
  BY <1>0, <1>2, <1>3, <1>4, <1>6
<1>8. m.value = Words(T, m.s, m.e)
  BY <1>3, <1>7
<1>9. ASSUME NEW i \in m.s..(m.e - 1) PROVE T[i].w \notin ToSet(Token)
  <2>1. i - m.s + 1 \in 1..(m.e - m.s) /\ m.s + (i - m.s + 1) - 1 = i
    BY <1>3, <1>4
  <2>2. m.value = [j \in 1..(m.e - m.s) |-> T[m.s + j - 1].w]
    BY <1>8 DEF Words
  <2>3. m.value[i - m.s + 1] = T[i].w
    BY <2>1, <2>2
  <2>4. DOMAIN m.value = 1..(m.e - m.s)
    BY <2>2
  <2>5. T[i].w \in ToSet(m.value)
    BY <2>1, <2>3, <2>4 DEF ToSet
  <2>. QED
    BY <2>5
<1>. QED
  BY <1>8, <1>9 DEF Plain

\* The vault only grows.
LEMMA VaultGrows ==
    ASSUME NEW ms, IsFiniteSet(ms), Apart(ms), Fit(text, ms), IsSeq(text), IsSeq(vault), Apply(ms)
    PROVE  Len(vault) <= Len(vault') /\ Len(vault') \in Nat
<1>1. PICK g : Putting(text, vault, ms, g) /\ vault' = g[ms].vault
  BY ApplyFold
<1>2. Masking(text, vault, ms, ms, g[ms])
  BY <1>1 DEF Putting
<1>. QED
  BY <1>1, <1>2 DEF Masking, States

\* Masking keeps the document spelt, while the tokens last.
LEMMA AppliedSpells ==
    ASSUME NEW ms, IsFiniteSet(ms), Apart(ms), Fit(text, ms), IsSeq(text), IsSeq(vault), Apply(ms),
           \A m \in ms : Plain(text, m), Len(vault') <= Len(Token),
           NEW pos, Spells(text, vault, doc, pos)
    PROVE  \E new : Spells(text', vault', doc, new)
<1> DEFINE T == text
           v == vault
           d == doc
           N == Len(Token)
<1>0. Len(T) \in Nat /\ Len(v) \in Nat /\ Len(Token) \in Nat
  BY EngineAssumption DEF IsSeq
<1>1. PICK g : Putting(T, v, ms, g) /\ text' = g[ms].text /\ vault' = g[ms].vault
  BY ApplyFold
<1>2. /\ g[{}] = [text |-> T, vault |-> v]
      /\ \A s \in SUBSET ms : s # {} =>
            \E x \in s : (\A y \in s : x.s <= y.s) /\ g[s] = Put(x, g[s \ {x}])
      /\ \A s \in SUBSET ms : Masking(T, v, ms, s, g[s])
  BY <1>1 DEF Putting
<1>3. \A s \in SUBSET ms : Len(v) <= Len(g[s].vault) /\ Len(g[s].vault) \in Nat
  <2> SUFFICES ASSUME NEW s \in SUBSET ms PROVE Len(v) <= Len(g[s].vault) /\ Len(g[s].vault) \in Nat
    OBVIOUS
  <2>1. Masking(T, v, ms, s, g[s])
    BY <1>2
  <2>. QED
    BY <2>1 DEF Masking, States
<1> DEFINE Good(s) == Len(g[s].vault) <= Len(Token) => \E new : Spells(g[s].text, g[s].vault, d, new)
           Bad == {s \in SUBSET ms : ~Good(s)}
<1>5. Good({})
  BY <1>2
<1> HIDE DEF T, v, d
<1>6. Bad = {}
  <2> SUFFICES ASSUME Bad # {} PROVE FALSE
    OBVIOUS
  <2>1. PICK s \in Bad : \A u \in Bad : Cardinality(s) <= Cardinality(u)
    <3>1. Bad \subseteq SUBSET ms
      OBVIOUS
    <3> HIDE DEF Bad
    <3>. QED
      BY <3>1, LeastSubset
  <2>2. s \in SUBSET ms /\ ~Good(s)
    BY <2>1
  <2>3. s # {}
    BY <1>5, <2>2
  <2>4. PICK x \in s : (\A y \in s : x.s <= y.s) /\ g[s] = Put(x, g[s \ {x}])
    BY <1>2, <2>2, <2>3
  <2>5. s \ {x} \notin Bad /\ s \ {x} \subseteq ms
    <3>1. s \subseteq ms
      BY <2>2
    <3> HIDE DEF Bad
    <3>. QED
      BY <2>1, <3>1, Without
  <2>6. Good(s \ {x})
    BY <2>5
  <2> DEFINE r == g[s \ {x}]
  <2>7. Masking(T, v, ms, s \ {x}, r)
    BY <1>2, <2>5
  <2>8. Plain(T, x)
    BY <2>2 DEF T
  <2>9. Apart(ms) /\ Fit(T, ms)
    BY DEF T
  <2> HIDE DEF r, Good
  <2>10. Len(g[s].vault) <= Len(Token)
    BY <2>2 DEF Good
  <2>11. Len(r.vault) <= Len(g[s].vault)
    <3>1. Puts(r, x, TokenFor(r.vault, x), Put(x, r)) /\ Len(r.vault) \in Nat
      BY <1>0, <2>2, <2>4, <2>7, <2>9, PutOne, Zenon
    <3>2. g[s] = Put(x, r)
      BY <2>4 DEF r
    <3>. QED
      BY <3>1, <3>2 DEF Puts
  <2>12. Len(r.vault) <= Len(Token)
    BY <1>0, <1>3, <2>2, <2>5, <2>10, <2>11 DEF r
  <2>13. PICK p : Spells(r.text, r.vault, d, p)
    BY <2>6, <2>12 DEF Good, r
  <2>14. Len(Put(x, r).vault) <= Len(Token)
    BY <2>4, <2>10 DEF r
  <2>15. \E new : Spells(Put(x, r).text, Put(x, r).vault, d, new)
    BY <1>0, <2>2, <2>4, <2>7, <2>8, <2>9, <2>13, <2>14, PutSpells, Zenon
  <2>. QED
    BY <2>2, <2>4, <2>15 DEF Good, r
<1>7. Good(ms)
  BY <1>6
<1>. QED
  BY <1>1, <1>7 DEF v, d

\* When RestoresText promises that the document comes back.
Whole ==
    /\ Len(vault) <= Len(Token) /\ ToSet(doc) \cap ToSet(Token) = {}
    /\ \A m \in entities : Len(m.value) = m.e - m.s /\ ToSet(m.value) \cap ToSet(Token) = {}

\* The inductive invariant of the way back: the text spells the document.
RInv == Whole => \E pos : Spells(text, vault, doc, pos)

\* The document spells itself.
LEMMA InitRInv == Init => RInv
<1> SUFFICES ASSUME Init, Whole PROVE \E pos : Spells(text, vault, doc, pos)
  BY DEF RInv
<1> DEFINE n == Len(doc)
           pos == [i \in 1..(n + 1) |-> i]
<1>1. doc \in Documents /\ text = Cells(doc) /\ vault = <<>>
  BY DEF Init
<1>2. Len(text) = n /\ n \in Nat /\ \A i \in 1..n : text[i].w = doc[i]
  BY <1>1, CellsAre
<1>3. \A i \in 1..n : doc[i] \in ToSet(doc)
  BY <1>1, EngineAssumption DEF ToSet
<1>4. ASSUME NEW i \in 1..n PROVE text[i].w \notin ToSet(Token) /\ Piece(vault, text[i].w) = <<doc[i]>>
  <2>1. text[i].w = doc[i] /\ doc[i] \notin ToSet(Token)
    BY <1>2, <1>3 DEF Whole
  <2>. QED
    BY <2>1 DEF Piece
<1>5. pos \in [1..(n + 1) -> Nat] /\ pos[1] = 1 /\ pos[n + 1] = n + 1
      /\ \A i \in 1..n : pos[i] = i /\ pos[i + 1] = i + 1
  BY <1>2
<1> HIDE DEF n, pos
<1>6. ASSUME NEW i \in 1..n
      PROVE  /\ text[i].w \in ToSet(Token) => \E k \in 1..Len(vault) : k \in 1..Len(Token) /\ text[i].w = Token[k]
             /\ IsSeq(Piece(vault, text[i].w))
             /\ pos[i + 1] = pos[i] + Len(Piece(vault, text[i].w))
             /\ \A k \in 1..Len(Piece(vault, text[i].w)) : doc[pos[i] + k - 1] = Piece(vault, text[i].w)[k]
  <2> DEFINE c == Piece(vault, text[i].w)
  <2>1. c = <<doc[i]>>
    BY <1>4
  <2> HIDE DEF c
  <2>2. Len(c) = 1 /\ c[1] = doc[i] /\ IsSeq(c)
    BY <2>1 DEF IsSeq
  <2>3. \A k \in 1..Len(c) : doc[pos[i] + k - 1] = c[k]
    BY <1>2, <1>5, <2>2
  <2>. QED
    BY <1>4, <1>5, <2>2, <2>3 DEF c
<1>7. pos \in [1..(Len(text) + 1) -> Nat] /\ pos[1] = 1 /\ pos[Len(text) + 1] = Len(doc) + 1
  BY <1>2, <1>5 DEF n
<1>8. Spells(text, vault, doc, pos)
  BY <1>2, <1>6, <1>7 DEF Spells
<1>. QED
  BY <1>8

\* Masking more keeps the document spelt.
LEMMA MoreRInv ==
    ASSUME IInv, RInv, NEW det, \A k \in det : Shaped(text, k),
           NEW ms, IsFiniteSet(ms), Apart(ms), Fit(text, ms), \A m \in ms : \E k \in det : SameMatch(m, k),
           Apply(ms), doc' = doc
    PROVE  RInv'
<1> SUFFICES ASSUME Whole' PROVE (\E pos : Spells(text, vault, doc, pos))'
  BY DEF RInv
<1>1. IsText(text) /\ IsSeq(text) /\ IsSeq(vault)
  BY DEF IInv
<1>2. entities' = entities \cup ms
  BY DEF Apply
<1>3. /\ Len(vault') <= Len(Token) /\ ToSet(doc) \cap ToSet(Token) = {}
      /\ \A m \in entities \cup ms : Len(m.value) = m.e - m.s /\ ToSet(m.value) \cap ToSet(Token) = {}
  BY <1>2 DEF Whole
<1>4. \A m \in ms : Plain(text, m)
  BY <1>1, <1>3, WholePlain
<1>5. Len(vault) <= Len(Token)
  <2>1. Len(vault) \in Nat /\ Len(vault') \in Nat /\ Len(Token) \in Nat
    BY <1>1, EngineAssumption, VaultGrows DEF IsSeq
  <2>. QED
    BY <1>1, <1>3, <2>1, VaultGrows
<1>6. PICK pos : Spells(text, vault, doc, pos)
  BY <1>3, <1>5 DEF RInv, Whole
<1>7. \E new : Spells(text', vault', doc, new)
  BY <1>1, <1>3, <1>4, <1>6, AppliedSpells
<1>. QED
  BY <1>7

\* Masking the document keeps it spelt.
LEMMA MaskRInv == ASSUME IInv, RInv, Mask PROVE RInv'
<1>1. doc \in Documents /\ text = Cells(doc) /\ IsText(text) /\ Len(text) \in Nat /\ doc' = doc
  BY DEF IInv, Mask, IsSeq
<1>2. PICK N \in Hearings(text) : Apply({m \in Boost(text, Detect(text, N)) : Masked(m)})
  BY DEF Mask
<1> DEFINE det == Detect(text, N)
           bs == Boost(text, det)
           ms == {m \in bs : Masked(m)}
<1>3. /\ \A m \in det : Shaped(text, m)
      /\ IsFiniteSet(det) /\ Apart(det) /\ Fit(text, det)
  BY <1>1, DetectIs
<1> HIDE DEF det
<1>4. /\ \A b \in bs : \E m \in det : SameMatch(b, m)
      /\ IsFiniteSet(bs) /\ Apart(bs)
  BY <1>1, <1>3, BoostIs
<1> HIDE DEF bs
<1>5. IsFiniteSet(ms) /\ Apart(ms)
  BY <1>4, FS_Subset DEF Apart
<1>6. Fit(text, ms) /\ \A m \in ms : \E k \in det : SameMatch(m, k)
  BY <1>1, <1>3, <1>4, ShapedIs DEF Fit, SameMatch
<1>7. Apply(ms)
  BY <1>2 DEF bs, det
<1> HIDE DEF ms
<1>. QED
  BY <1>1, <1>3, <1>5, <1>6, <1>7, MoreRInv

\* So does a scan that masks more.
LEMMA RescanRInv == ASSUME IInv, RInv, Rescan PROVE RInv'
<1>1. IsText(text) /\ Len(text) \in Nat /\ doc' = doc
  BY DEF IInv, Rescan, IsSeq
<1>2. PICK N \in Hearings(text) : Apply(Residual(text, N))
  BY DEF Rescan
<1> DEFINE det == Detect(text, N)
           ms == Residual(text, N)
<1>3. /\ \A m \in det : Shaped(text, m)
      /\ IsFiniteSet(det) /\ Apart(det) /\ Fit(text, det)
  BY <1>1, DetectIs
<1>4. ms \subseteq det
  BY DEF Residual
<1> HIDE DEF det, ms
<1>5. IsFiniteSet(ms) /\ Apart(ms) /\ Fit(text, ms)
  BY <1>3, <1>4, FS_Subset DEF Apart, Fit
<1>6. \A m \in ms : \E k \in det : SameMatch(m, k)
  BY <1>4 DEF SameMatch
<1>7. Apply(ms)
  BY <1>2 DEF ms
<1>. QED
  BY <1>1, <1>3, <1>5, <1>6, <1>7, MoreRInv

\* So does every step.
LEMMA StepRInv == IInv /\ RInv /\ [Next]_vars => RInv'
<1> SUFFICES ASSUME IInv, RInv, [Next]_vars PROVE RInv'
  OBVIOUS
<1>1. CASE Mask
  BY <1>1, MaskRInv
<1>2. CASE Rescan
  BY <1>2, RescanRInv
<1>3. CASE LastScan
  BY <1>3 DEF LastScan, RInv, Whole
<1>4. CASE UNCHANGED vars
  BY <1>4 DEF vars, RInv, Whole
<1>. QED
  BY <1>1, <1>2, <1>3, <1>4 DEF Next

\* What spells the document is given back as the document.
LEMMA RInvRestores == ASSUME IInv, RInv PROVE RestoresText
<1>1. IsSeq(text) /\ IsSeq(doc)
  BY EngineAssumption, SeqIs DEF IInv
<1>2. ASSUME Whole PROVE Restore(text) = doc
  <2>1. PICK pos : Spells(text, vault, doc, pos)
    BY <1>2 DEF RInv
  <2>. QED
    BY <1>1, <2>1, SpellsRestores
<1>. QED
  BY <1>2 DEF Whole, RestoresText

\* A text without tokens, whose masked values are what stood there, is given back
\* by deanonymize word for word while the tokens last (AnonymizationEngine.deanonymize).
THEOREM DocumentRestored == Spec => []RestoresText
BY InitIInv, StepIInv, InitRInv, StepRInv, RInvRestores, PTL DEF Spec

-----------------------------------------------------------------------------
(***************************************************************************)
(* The last scan (ScannedClean)                                            *)
(***************************************************************************)

\* A call that ended with a clean scan ended with the text of that scan.
CInv ==
    at = "done" /\ residual = {} => \E N \in Hearings(text) : Residual(text, N) = {}

\* Masking nothing leaves the text as it is.
LEMMA NothingApplied ==
    ASSUME IInv, Apply({})
    PROVE  text' = text
<1>1. IsSeq(text) /\ IsSeq(vault)
  BY DEF IInv
<1>2. IsFiniteSet({}) /\ Apart({}) /\ Fit(text, {})
  BY FS_EmptySet DEF Apart, Fit
<1>3. PICK g : Putting(text, vault, {}, g) /\ text' = g[{}].text
  BY <1>1, <1>2, ApplyFold
<1>4. g[{}] = [text |-> text, vault |-> vault]
  BY <1>3 DEF Putting
<1>. QED
  BY <1>3, <1>4

\* A text that stays has the scan that it had.
LEMMA StillCInv ==
    ASSUME text' = text, file' = file, \E N \in Hearings(text) : Residual(text, N) = {}
    PROVE  CInv'
<1>1. Hearings(text)' = Hearings(text)
  BY DEF Hearings
<1>2. \A N : Residual(text, N)' = Residual(text, N)
  BY DEF Residual, Detect, Raw, Masked
<1>. QED
  BY <1>1, <1>2 DEF CInv

\* Every step keeps it.
LEMMA StepCInv == IInv /\ CInv /\ [Next]_vars => CInv'
<1> SUFFICES ASSUME IInv, CInv, [Next]_vars PROVE CInv'
  OBVIOUS
<1>1. CASE Mask
  BY <1>1 DEF Mask, CInv
<1>2. CASE Rescan
  <2>1. PICK N \in Hearings(text) :
           /\ at' = IF Residual(text, N) = {} THEN "done" ELSE "scan"
           /\ Apply(Residual(text, N)) /\ file' = file
    BY <1>2 DEF Rescan
  <2>2. CASE Residual(text, N) = {}
    <3>1. text' = text
      BY <2>1, <2>2, NothingApplied
    <3>. QED
      BY <2>1, <2>2, <3>1, StillCInv
  <2>3. CASE Residual(text, N) # {}
    BY <2>1, <2>3 DEF CInv
  <2>. QED
    BY <2>2, <2>3
<1>3. CASE LastScan
  <2>1. text' = text /\ file' = file /\ \E N \in Hearings(text) : residual' = Residual(text, N)
    BY <1>3 DEF LastScan
  <2>2. CASE residual' = {}
    BY <2>1, <2>2, StillCInv
  <2>3. CASE residual' # {}
    BY <2>3 DEF CInv
  <2>. QED
    BY <2>2, <2>3
<1>4. CASE UNCHANGED vars
  <2>1. CASE at = "done" /\ residual = {}
    BY <1>4, <2>1, StillCInv DEF vars, CInv
  <2>2. CASE ~(at = "done" /\ residual = {})
    BY <1>4, <2>2 DEF vars, CInv
  <2>. QED
    BY <2>1, <2>2
<1>. QED
  BY <1>1, <1>2, <1>3, <1>4 DEF Next

\* What may be sent is what was scanned: nothing is masked any more after the scan
\* that found nothing (AnonymizationEngine.anonymize, its residual scans).
THEOREM WhatLeavesWasScanned == Spec => []ScannedClean
<1>1. Init => CInv
  BY DEF Init, CInv
<1>2. CInv => ScannedClean
  BY DEF CInv, ScannedClean, SafeToSend
<1>. QED
  BY <1>1, <1>2, InitIInv, StepIInv, StepCInv, PTL DEF Spec
=============================================================================
