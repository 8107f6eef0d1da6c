--------------------------- MODULE GroupingProofs ---------------------------
(***************************************************************************)
(* Theorems about Grouping for any album, configuration and constants: the *)
(* algorithms of the grouper make what GroupingReference promises.  The    *)
(* walk, the clustering and the sliding window are folds; each is followed *)
(* by induction over the sets it has taken in, and what the folds build is *)
(* then shared out from the buckets up to the library.                     *)
(***************************************************************************)
EXTENDS GroupingReference, FiniteSetTheorems, WellFoundedInduction, TLAPS

-----------------------------------------------------------------------------
(* Folds over finite sets                                                  *)

\* A family of subsets of a finite set has a smallest one, none of whose parts is in it.
LEMMA SmallestSet ==
  ASSUME NEW S, IsFiniteSet(S), NEW Family \in SUBSET SUBSET S, Family # {}
  PROVE  \E s \in Family : \A t \in SUBSET s : t # s => t \notin Family
<1>1. Family \subseteq FiniteSubsetsOf(S)
  BY FS_FiniteSubsetsOfFinite
<1>2. PICK s \in Family : \A t \in Family : ~ (<<t, s>> \in StrictSubsetOrdering(S))
  BY <1>1, WFMin, FS_StrictSubsetOrderingWellFounded
<1>3. ASSUME NEW t \in SUBSET s, t # s, t \in Family
      PROVE  FALSE
  BY <1>2, <1>3 DEF StrictSubsetOrdering
<1>. QED
  BY <1>3

\* What holds of the empty set, and of a set when it holds of the set without
\* one of its elements, holds of all subsets.
LEMMA SetInduction ==
  ASSUME NEW S, IsFiniteSet(S), NEW Good, {} \in Good,
         \A s \in SUBSET S : s # {} => \E x \in s : s \ {x} \in Good => s \in Good
  PROVE  SUBSET S \subseteq Good
<1>. DEFINE Bad == (SUBSET S) \ Good
<1>. SUFFICES ASSUME Bad # {} PROVE FALSE
  OBVIOUS
<1>0. Bad \in SUBSET SUBSET S
  OBVIOUS
<1>1. PICK s \in Bad : \A t \in SUBSET s : t # s => t \notin Bad
  <2>. HIDE DEF Bad
  <2>. QED
    BY <1>0, SmallestSet
<1>2. PICK x \in s : s \ {x} \in Good => s \in Good
  BY <1>1
<1>3. s \ {x} \in Good
  BY <1>1, <1>2
<1>. QED
  BY <1>1, <1>2, <1>3

\* The step of a fold: S is used up one element at a time.
Folds(f, s, pick, step, base) ==
  \A t \in SUBSET s : f[t] = IF t = {} THEN base ELSE step[<<pick[t], f[t \ {pick[t]}]>>]

\* Two folds over parts of S agree on what both define.
LEMMA FoldsAgree ==
  ASSUME NEW S, IsFiniteSet(S), NEW pick, NEW step, NEW base,
         \A s \in SUBSET S : s # {} => pick[s] \in s,
         NEW s \in SUBSET S, NEW t \in SUBSET S, NEW f, NEW g,
         Folds(f, s, pick, step, base), Folds(g, t, pick, step, base)
  PROVE  \A u \in SUBSET (s \cap t) : f[u] = g[u]
<1>. DEFINE Good == {u \in SUBSET (s \cap t) : f[u] = g[u]}
<1>1. IsFiniteSet(s \cap t)
  BY FS_Subset
<1>2. {} \in Good
  BY DEF Folds
<1>3. ASSUME NEW u \in SUBSET (s \cap t), u # {}
      PROVE  \E x \in u : u \ {x} \in Good => u \in Good
  <2>1. pick[u] \in u /\ u \in SUBSET s /\ u \in SUBSET t
    BY <1>3
  <2>2. /\ f[u] = step[<<pick[u], f[u \ {pick[u]}]>>]
        /\ g[u] = step[<<pick[u], g[u \ {pick[u]}]>>]
    BY <1>3, <2>1 DEF Folds
  <2>. QED
    BY <2>1, <2>2
<1>4. \A u \in SUBSET (s \cap t) : u # {} => \E x \in u : u \ {x} \in Good => u \in Good
  <2>. HIDE DEF Good
  <2>. QED
    BY <1>3
<1>5. SUBSET (s \cap t) \subseteq Good
  <2>. HIDE DEF Good
  <2>. DEFINE I == s \cap t
  <2>. SUFFICES SUBSET I \subseteq Good
    OBVIOUS
  <2>. HIDE DEF I
  <2>1. IsFiniteSet(I) /\ \A u \in SUBSET I : u # {} => \E x \in u : u \ {x} \in Good => u \in Good
    BY <1>1, <1>4 DEF I
  <2>. QED
    BY <1>2, <2>1, SetInduction
<1>. QED
  BY <1>5

\* The fold over a finite set exists: its recursive definition has a solution.
LEMMA FoldExists ==
  ASSUME NEW S, IsFiniteSet(S), NEW pick, NEW step, NEW base, NEW T, base \in T,
         \A s \in SUBSET S : s # {} => pick[s] \in s,
         \A x \in S, y \in T : step[<<x, y>>] \in T
  PROVE  \E f \in [SUBSET S -> T] : Folds(f, S, pick, step, base)
<1>. DEFINE Sol(s) == {f \in [SUBSET s -> T] : Folds(f, s, pick, step, base)}
            Good == {s \in SUBSET S : Sol(s) # {}}
            G(s) == CHOOSE f \in Sol(s) : TRUE
<1>. SUFFICES Good = SUBSET S
  <2>1. ASSUME S \in Good
        PROVE  \E f : f \in [SUBSET S -> T] /\ Folds(f, S, pick, step, base)
    BY <2>1
  <2>. QED
    BY <2>1
<1>. SUFFICES ASSUME Good # SUBSET S PROVE FALSE
  OBVIOUS
<1>1. PICK s \in SUBSET S : s \notin Good /\ \A t \in SUBSET s : t # s => t \in Good
  <2>. DEFINE Bad == (SUBSET S) \ Good
  <2>1. Bad # {} /\ Bad \in SUBSET SUBSET S
    OBVIOUS
  <2>2. PICK s \in Bad : \A t \in SUBSET s : t # s => t \notin Bad
    <3>. HIDE DEF Bad
    <3>. QED
      BY <2>1, SmallestSet
  <2>3. \A t \in SUBSET s : t # s => t \in Good
    BY <2>2
  <2>. QED
    BY <2>2, <2>3
<1>2. ASSUME NEW t \in SUBSET s, t # s
      PROVE  G(t) \in Sol(t)
  BY <1>1, <1>2
<1>. DEFINE h == [t \in SUBSET s |-> IF t = {} THEN base
                    ELSE step[<<pick[t], G(t \ {pick[t]})[t \ {pick[t]}]>>]]
<1>3. ASSUME NEW t \in SUBSET s, t # {}
      PROVE  /\ pick[t] \in t /\ t \ {pick[t]} \in SUBSET s /\ t \ {pick[t]} # s
             /\ t \in SUBSET S /\ t \ {pick[t]} \in SUBSET S
  BY <1>3
<1>4. ASSUME NEW t \in SUBSET s, t # s
      PROVE  /\ Folds(G(t), t, pick, step, base)
             /\ G(t)[t] \in T /\ t \in SUBSET S
  <2>. HIDE DEF G
  <2>1. G(t) \in [SUBSET t -> T] /\ Folds(G(t), t, pick, step, base)
    BY <1>2, <1>4
  <2>. QED
    BY <2>1
<1>. HIDE DEF G, Good, Sol
<1>5. ASSUME NEW t \in SUBSET s, t # s
      PROVE  h[t] = G(t)[t]
  <2>1. CASE t = {}
    BY <1>4, <1>5, <2>1 DEF Folds
  <2>2. CASE t # {}
    <3>. DEFINE v == t \ {pick[t]}
    <3>1. v \in SUBSET s /\ v # s /\ v \in SUBSET S /\ v \in SUBSET t /\ t \in SUBSET S
      BY <1>3, <2>2
    <3>2. Folds(G(t), t, pick, step, base) /\ Folds(G(v), v, pick, step, base)
      BY <1>4, <1>5, <3>1
    <3>3. v \in SUBSET (t \cap v)
      BY <3>1
    <3>4. G(t)[v] = G(v)[v]
      <4>. HIDE DEF v
      <4>1. \A u \in SUBSET (t \cap v) : G(t)[u] = G(v)[u]
        BY <3>1, <3>2, FoldsAgree
      <4>. QED
        BY <3>3, <4>1
    <3>5. G(t)[t] = step[<<pick[t], G(t)[v]>>]
      BY <2>2, <3>2 DEF Folds
    <3>6. h[t] = step[<<pick[t], G(v)[v]>>]
      BY <2>2
    <3>. QED
      BY <3>4, <3>5, <3>6
  <2>. QED
    BY <2>1, <2>2
<1>6. \A t \in SUBSET s : h[t] \in T
  <2>1. ASSUME NEW t \in SUBSET s, t # {}
        PROVE  step[<<pick[t], G(t \ {pick[t]})[t \ {pick[t]}]>>] \in T
    <3>1. pick[t] \in S /\ G(t \ {pick[t]})[t \ {pick[t]}] \in T
      BY <1>3, <1>4, <2>1
    <3>. QED
      BY <3>1
  <2>. QED
    BY <2>1
<1>7. Folds(h, s, pick, step, base)
  <2>1. ASSUME NEW t \in SUBSET s, t # {}
        PROVE  h[t] = step[<<pick[t], h[t \ {pick[t]}]>>]
    <3>1. h[t \ {pick[t]}] = G(t \ {pick[t]})[t \ {pick[t]}]
      BY <1>3, <1>5, <2>1
    <3>2. h[t] = step[<<pick[t], G(t \ {pick[t]})[t \ {pick[t]}]>>]
      BY <2>1
    <3>. QED
      BY <3>1, <3>2
  <2>2. h[{}] = base
    OBVIOUS
  <2>. QED
    BY <2>1, <2>2 DEF Folds
<1>8. h \in Sol(s)
  <2>1. h \in [SUBSET s -> T]
    BY <1>6
  <2>. HIDE DEF h
  <2>. QED
    BY <1>7, <2>1 DEF Sol
<1>. QED
  BY <1>1, <1>8 DEF Good

-----------------------------------------------------------------------------
(* Extremes and sorted lists                                               *)

\* A finite set of numbers has a greatest one, and Max finds it.
LEMMA MaxOf ==
  ASSUME NEW S \in SUBSET Int, IsFiniteSet(S), S # {}
  PROVE  Max(S) \in S /\ \A x \in S : x <= Max(S)
<1>. DEFINE Upto(m) == {x \in S : x >= m}
            Family == {Upto(m) : m \in S}
<1>1. Family \in SUBSET SUBSET S /\ Family # {}
  OBVIOUS
<1>2. PICK U \in Family : \A V \in SUBSET U : V # U => V \notin Family
  <2>. HIDE DEF Family
  <2>. QED
    BY <1>1, SmallestSet
<1>3. PICK m \in S : U = Upto(m)
  BY <1>2
<1>4. \A x \in S : m >= x
  <2>1. SUFFICES ASSUME NEW x \in S, x > m PROVE FALSE
    OBVIOUS
  <2>. x \in Int /\ m \in Int /\ \A y \in S : y \in Int
    OBVIOUS
  <2>2. Upto(x) \in Family
    OBVIOUS
  <2>3. m \in U /\ m \notin Upto(x)
    BY <1>3, <2>1
  <2>4. Upto(x) \in SUBSET U
    <3>. SUFFICES ASSUME NEW z \in Upto(x) PROVE z \in Upto(m)
      BY <1>3
    <3>. QED
      BY <2>1
  <2>. HIDE DEF Upto, Family
  <2>. QED
    BY <1>2, <2>2, <2>3, <2>4
<1>. QED
  BY <1>4 DEF Max

\* A finite set of numbers has a least one, and Min finds it.
LEMMA MinOf ==
  ASSUME NEW S \in SUBSET Int, IsFiniteSet(S), S # {}
  PROVE  Min(S) \in S /\ \A x \in S : Min(S) <= x
<1>. DEFINE Upto(m) == {x \in S : x <= m}
            Family == {Upto(m) : m \in S}
<1>1. Family \in SUBSET SUBSET S /\ Family # {}
  OBVIOUS
<1>2. PICK U \in Family : \A V \in SUBSET U : V # U => V \notin Family
  <2>. HIDE DEF Family
  <2>. QED
    BY <1>1, SmallestSet
<1>3. PICK m \in S : U = Upto(m)
  BY <1>2
<1>4. \A x \in S : m <= x
  <2>1. SUFFICES ASSUME NEW x \in S, x < m PROVE FALSE
    OBVIOUS
  <2>. x \in Int /\ m \in Int /\ \A y \in S : y \in Int
    OBVIOUS
  <2>2. Upto(x) \in Family
    OBVIOUS
  <2>3. m \in U /\ m \notin Upto(x)
    BY <1>3, <2>1
  <2>4. Upto(x) \in SUBSET U
    <3>. SUFFICES ASSUME NEW z \in Upto(x) PROVE z \in Upto(m)
      BY <1>3
    <3>. QED
      BY <2>1
  <2>. HIDE DEF Upto, Family
  <2>. QED
    BY <1>2, <2>2, <2>3, <2>4
<1>. QED
  BY <1>4 DEF Min

\* R puts the elements of S in a row.
Ordered(S, R) ==
  /\ \A x \in S : <<x, x>> \notin R
  /\ \A x, y \in S : x # y => <<x, y>> \in R \/ <<y, x>> \in R
  /\ \A x, y, z \in S : <<x, y>> \in R /\ <<y, z>> \in R => <<x, z>> \in R

\* Sorted lists each element once, in the order.
LEMMA SortedIsSorted ==
  ASSUME NEW S, IsFiniteSet(S), NEW R, Ordered(S, R)
  PROVE  /\ Sorted(S, R) \in Seq(S) /\ Len(Sorted(S, R)) = Cardinality(S)
         /\ \A x \in S : \E i \in 1 .. Cardinality(S) : Sorted(S, R)[i] = x
         /\ \A i, j \in 1 .. Cardinality(S) : i < j <=> <<Sorted(S, R)[i], Sorted(S, R)[j]>> \in R
<1>. DEFINE n == Cardinality(S)
            Below(x) == {y \in S : <<y, x>> \in R}
            rank == [x \in S |-> Cardinality(Below(x))]
            q == Sorted(S, R)
<1>1. n \in Nat
  BY FS_CardinalityType
<1>2. ASSUME NEW x \in S
      PROVE  IsFiniteSet(Below(x)) /\ Cardinality(Below(x)) \in 0 .. n - 1
  <2>1. IsFiniteSet(S \ {x}) /\ Cardinality(S \ {x}) = n - 1
    BY <1>2, FS_RemoveElement
  <2>2. Below(x) \in SUBSET (S \ {x})
    BY <1>2 DEF Ordered
  <2>3. IsFiniteSet(Below(x)) /\ Cardinality(Below(x)) <= n - 1
    <3>. HIDE DEF Below
    <3>. QED
      BY <2>1, <2>2, FS_Subset
  <2>4. Cardinality(Below(x)) \in Nat
    <3>. HIDE DEF Below
    <3>. QED
      BY <2>3, FS_CardinalityType
  <2>. QED
    BY <1>1, <2>3, <2>4
<1>3. ASSUME NEW x \in S, NEW y \in S, <<x, y>> \in R
      PROVE  rank[x] < rank[y]
  <2>1. Below(x) \in SUBSET Below(y) /\ x \in Below(y) /\ x \notin Below(x)
    BY <1>3 DEF Ordered
  <2>2. IsFiniteSet(Below(y)) /\ Cardinality(Below(x)) \in Nat /\ Cardinality(Below(y)) \in Nat
    <3>. HIDE DEF Below, n
    <3>. QED
      BY <1>1, <1>2
  <2>3. Cardinality(Below(x)) <= Cardinality(Below(y)) /\ Cardinality(Below(x)) # Cardinality(Below(y))
    <3>. HIDE DEF Below
    <3>. QED
      BY <2>1, <2>2, FS_Subset
  <2>. QED
    BY <2>2, <2>3
<1>4. rank \in [S -> 0 .. n - 1]
  BY <1>2
<1>5. \A x, y \in S : rank[x] = rank[y] => x = y
  <2>. SUFFICES ASSUME NEW x \in S, NEW y \in S, rank[x] = rank[y], x # y PROVE FALSE
    OBVIOUS
  <2>1. rank[x] < rank[y] \/ rank[y] < rank[x]
    BY <1>3 DEF Ordered
  <2>2. rank[x] \in Int /\ rank[y] \in Int
    BY <1>1, <1>4
  <2>. QED
    BY <2>1, <2>2
<1>6. \A i \in 0 .. n - 1 : \E x \in S : rank[x] = i
  <2>1. IsFiniteSet(0 .. n - 1) /\ Cardinality(0 .. n - 1) = n
    BY <1>1, FS_Interval
  <2>2. rank \in Injection(S, 0 .. n - 1)
    <3>. HIDE DEF rank
    <3>. QED
      BY <1>4, <1>5 DEF Injection, IsInjective
  <2>3. rank \in Surjection(S, 0 .. n - 1)
    <3>. HIDE DEF rank
    <3>. QED
      BY <2>1, <2>2, FS_Injection
  <2>. HIDE DEF rank
  <2>. QED
    BY <2>3 DEF Surjection
<1>7. ASSUME NEW i \in 1 .. n
      PROVE  q[i] \in S /\ rank[q[i]] = i - 1
  <2>1. i - 1 \in 0 .. n - 1
    BY <1>1
  <2>2. PICK x \in S : Cardinality(Below(x)) = i - 1
    BY <1>6, <2>1
  <2>3. q[i] = CHOOSE z \in S : Cardinality(Below(z)) = i - 1
    BY DEF Sorted
  <2>4. q[i] \in S /\ Cardinality(Below(q[i])) = i - 1
    <3>. HIDE DEF Below, q
    <3>. QED
      BY <2>2, <2>3
  <2>. HIDE DEF q
  <2>. QED
    BY <2>4
<1>8. q \in [1 .. n -> S]
  <2>. DEFINE body(i) == CHOOSE x \in S : Cardinality({y \in S : <<y, x>> \in R}) = i - 1
  <2>1. q = [i \in 1 .. n |-> body(i)]
    BY DEF Sorted
  <2>. HIDE DEF q, body
  <2>2. \A i \in 1 .. n : body(i) \in S
    BY <1>7, <2>1
  <2>. QED
    BY <2>1, <2>2
<1>9. \A x \in S : \E i \in 1 .. n : q[i] = x
  <2>. SUFFICES ASSUME NEW x \in S PROVE \E i \in 1 .. n : q[i] = x
    OBVIOUS
  <2>. HIDE DEF q, rank
  <2>1. rank[x] \in 0 .. n - 1
    BY <1>4
  <2>2. rank[x] + 1 \in 1 .. n
    BY <1>1, <2>1
  <2>3. q[rank[x] + 1] \in S /\ rank[q[rank[x] + 1]] = rank[x]
    BY <1>7, <2>1, <2>2
  <2>. QED
    BY <1>5, <2>2, <2>3
<1>10. \A i, j \in 1 .. n : i < j <=> <<q[i], q[j]>> \in R
  <2>. SUFFICES ASSUME NEW i \in 1 .. n, NEW j \in 1 .. n
                PROVE  i < j <=> <<q[i], q[j]>> \in R
    OBVIOUS
  <2>. HIDE DEF q, rank
  <2>1. q[i] \in S /\ q[j] \in S /\ rank[q[i]] = i - 1 /\ rank[q[j]] = j - 1
    BY <1>7
  <2>2. <<q[i], q[j]>> \in R => i < j
    BY <1>1, <1>3, <2>1
  <2>3. i < j => q[i] # q[j] /\ ~ (<<q[j], q[i]>> \in R)
    BY <1>1, <1>3, <2>1
  <2>. QED
    BY <2>1, <2>2, <2>3 DEF Ordered
<1>. HIDE DEF q
<1>11. q \in Seq(S) /\ Len(q) = n
  BY <1>1, <1>8
<1>. QED
  BY <1>9, <1>10, <1>11 DEF q

-----------------------------------------------------------------------------
(* Lists of values, and their concatenation                                *)

\* q is a list of val[x] for the elements x of S, each once.
Enumerates(q, S, val) ==
  \E at \in [1 .. Len(q) -> S] :
    /\ \A k \in 1 .. Len(q) : q[k] = val[at[k]]
    /\ \A k, l \in 1 .. Len(q) : at[k] = at[l] => k = l
    /\ \A x \in S : \E k \in 1 .. Len(q) : at[k] = x

\* Two lists of disjoint sets, one after the other, list their union.
LEMMA EnumeratesMore ==
  ASSUME NEW V, NEW q \in Seq(V), NEW r \in Seq(V), NEW S, NEW T, S \cap T = {}, NEW val,
         Enumerates(q, S, val), Enumerates(r, T, val)
  PROVE  Enumerates(q \o r, S \cup T, val)
<1>. DEFINE n == Len(q)
            m == Len(r)
            w == q \o r
<1>1. /\ n \in Nat /\ m \in Nat /\ Len(w) = n + m
      /\ \A k \in 1 .. Len(w) : w[k] = IF k <= n THEN q[k] ELSE r[k - n]
  OBVIOUS
<1>. HIDE DEF w
<1>2. PICK at \in [1 .. n -> S] :
        /\ \A k \in 1 .. n : q[k] = val[at[k]]
        /\ \A k, l \in 1 .. n : at[k] = at[l] => k = l
        /\ \A x \in S : \E k \in 1 .. n : at[k] = x
  BY DEF Enumerates
<1>3. PICK to \in [1 .. m -> T] :
        /\ \A k \in 1 .. m : r[k] = val[to[k]]
        /\ \A k, l \in 1 .. m : to[k] = to[l] => k = l
        /\ \A x \in T : \E k \in 1 .. m : to[k] = x
  BY DEF Enumerates
<1>. HIDE DEF n, m
<1>. DEFINE on == [k \in 1 .. Len(w) |-> IF k <= n THEN at[k] ELSE to[k - n]]
<1>4. ASSUME NEW k \in 1 .. Len(w)
      PROVE  \/ k \in 1 .. n /\ on[k] = at[k] /\ on[k] \in S /\ w[k] = q[k]
             \/ k - n \in 1 .. m /\ on[k] = to[k - n] /\ on[k] \in T /\ w[k] = r[k - n]
  <2>1. CASE k <= n
    BY <1>1, <2>1
  <2>2. CASE ~ (k <= n)
    BY <1>1, <2>2
  <2>. QED
    BY <2>1, <2>2
<1>5. on \in [1 .. Len(w) -> S \cup T]
  BY <1>4
<1>. HIDE DEF on
<1>6. \A k \in 1 .. Len(w) : w[k] = val[on[k]]
  BY <1>2, <1>3, <1>4
<1>7. ASSUME NEW k \in 1 .. Len(w), NEW l \in 1 .. Len(w), on[k] = on[l]
      PROVE  k = l
  <2>1. CASE on[k] \in S
    <3>1. k \in 1 .. n /\ l \in 1 .. n /\ at[k] = at[l]
      BY <1>4, <1>7, <2>1
    <3>. QED
      BY <1>2, <3>1
  <2>2. CASE on[k] \notin S
    <3>1. k - n \in 1 .. m /\ l - n \in 1 .. m /\ to[k - n] = to[l - n]
      BY <1>4, <1>7, <2>2
    <3>2. k - n = l - n
      BY <1>3, <3>1
    <3>. QED
      BY <1>1, <3>2
  <2>. QED
    BY <2>1, <2>2
<1>8. ASSUME NEW x \in S \cup T
      PROVE  \E k \in 1 .. Len(w) : on[k] = x
  <2>1. CASE x \in S
    <3>1. PICK k \in 1 .. n : at[k] = x
      BY <1>2, <2>1
    <3>2. k \in 1 .. Len(w) /\ k <= n
      BY <1>1, <3>1
    <3>. QED
      BY <3>1, <3>2 DEF on
  <2>2. CASE x \in T
    <3>1. PICK k \in 1 .. m : to[k] = x
      BY <1>3, <2>2
    <3>2. n + k \in 1 .. Len(w) /\ ~ (n + k <= n) /\ (n + k) - n = k
      BY <1>1, <3>1
    <3>3. on[n + k] = x
      BY <3>1, <3>2 DEF on
    <3>. QED
      BY <3>2, <3>3
  <2>. QED
    BY <2>1, <2>2
<1>. QED
  BY <1>5, <1>6, <1>7, <1>8 DEF Enumerates, w

\* The same list, of what b makes of the elements of S.
LEMMA EnumeratesAs ==
  ASSUME NEW q, NEW S, NEW val, Enumerates(q, S, val), NEW T, NEW w, NEW b \in [S -> T],
         \A x \in S : w[b[x]] = val[x],
         \A x, y \in S : b[x] = b[y] => x = y,
         \A z \in T : \E x \in S : b[x] = z
  PROVE  Enumerates(q, T, w)
<1>1. PICK at \in [1 .. Len(q) -> S] :
        /\ \A k \in 1 .. Len(q) : q[k] = val[at[k]]
        /\ \A k, l \in 1 .. Len(q) : at[k] = at[l] => k = l
        /\ \A x \in S : \E k \in 1 .. Len(q) : at[k] = x
  BY DEF Enumerates
<1>. DEFINE to == [k \in 1 .. Len(q) |-> b[at[k]]]
<1>2. to \in [1 .. Len(q) -> T] /\ \A k \in 1 .. Len(q) : to[k] = b[at[k]] /\ at[k] \in S
  OBVIOUS
<1>. HIDE DEF to
<1>3. \A k \in 1 .. Len(q) : q[k] = w[to[k]]
  BY <1>1, <1>2
<1>4. \A k, l \in 1 .. Len(q) : to[k] = to[l] => k = l
  BY <1>1, <1>2
<1>5. \A z \in T : \E k \in 1 .. Len(q) : to[k] = z
  BY <1>1, <1>2
<1>. QED
  BY <1>2, <1>3, <1>4, <1>5 DEF Enumerates

\* A list without repetition enumerates its elements.
LEMMA EnumeratesSet ==
  ASSUME NEW S, NEW q \in Seq(S), \A x \in S : \E i \in 1 .. Len(q) : q[i] = x,
         \A i, j \in 1 .. Len(q) : q[i] = q[j] => i = j
  PROVE  Enumerates(q, S, [x \in S |-> x])
<1>1. q \in [1 .. Len(q) -> S]
  OBVIOUS
<1>. QED
  BY <1>1 DEF Enumerates

\* F is a numbered list of sequences.
Lists(F, V) ==
  /\ IsFiniteSet(DOMAIN F) /\ DOMAIN F \subseteq Int
  /\ \A x \in DOMAIN F : F[x] \in Seq(V)

\* Where the elements of the sequences F[x], x in s, are.
Slots(F, s) == {p \in s \X Nat : p[2] \in 1 .. Len(F[p[1]])}

\* What stands in each place of the sequences F[x].
At(F) == [p \in Slots(F, DOMAIN F) |-> F[p[1]][p[2]]]

\* q holds what the sequences F[x] of x in s hold, each place once.
Placed(q, F, s) == Enumerates(q, Slots(F, s), At(F))

\* One more sequence is appended.
LEMMA PlacedMore ==
  ASSUME NEW V, NEW F, Lists(F, V),
         NEW s \in SUBSET DOMAIN F, NEW m \in s, NEW q \in Seq(V), Placed(q, F, s \ {m})
  PROVE  q \o F[m] \in Seq(V) /\ Placed(q \o F[m], F, s)
<1>. DEFINE new == {p \in {m} \X Nat : p[2] \in 1 .. Len(F[m])}
            old == Slots(F, s \ {m})
            to == [k \in 1 .. Len(F[m]) |-> <<m, k>>]
<1>1. F[m] \in Seq(V) /\ Len(F[m]) \in Nat
  BY DEF Lists
<1>2. Slots(F, s) = old \cup new
  BY DEF Slots
<1>3. old \cap new = {}
  BY DEF Slots
<1>4. Enumerates(F[m], new, At(F))
  <2>1. to \in [1 .. Len(F[m]) -> new]
    BY <1>1
  <2>2. \A k \in 1 .. Len(F[m]) : F[m][k] = At(F)[to[k]]
    <3>. TAKE k \in 1 .. Len(F[m])
    <3>1. <<m, k>> \in Slots(F, DOMAIN F) /\ to[k] = <<m, k>>
      BY <1>1 DEF Slots
    <3>. HIDE DEF to
    <3>. QED
      BY <3>1 DEF At
  <2>3. \A k, l \in 1 .. Len(F[m]) : to[k] = to[l] => k = l
    OBVIOUS
  <2>4. \A p \in new : \E k \in 1 .. Len(F[m]) : to[k] = p
    OBVIOUS
  <2>. HIDE DEF to, new
  <2>. QED
    BY <2>1, <2>2, <2>3, <2>4 DEF Enumerates
<1>5. Enumerates(q, old, At(F))
  BY DEF Placed
<1>. HIDE DEF old, new
<1>6. Enumerates(q \o F[m], old \cup new, At(F))
  BY <1>1, <1>3, <1>4, <1>5, EnumeratesMore
<1>. QED
  BY <1>1, <1>2, <1>6 DEF Placed

\* A fold from left to right over the numbers of D.
Steps(step, D, T) == \A x \in D : \A y \in T : step[<<x, y>>] \in T

\* f folds the parts of D from the left, the greatest element last.
FoldsLeft(f, D, step, base) ==
  \A s \in SUBSET D : f[s] = IF s = {} THEN base ELSE step[<<Max(s), f[s \ {Max(s)}]>>]

\* A fold from the left exists.
LEMMA LeftFold ==
  ASSUME NEW D \in SUBSET Int, IsFiniteSet(D), NEW T, NEW base \in T, NEW step, Steps(step, D, T)
  PROVE  \E f \in [SUBSET D -> T] : FoldsLeft(f, D, step, base)
<1>. DEFINE pick == [s \in SUBSET D |-> Max(s)]
<1>1. ASSUME NEW s \in SUBSET D, s # {}
      PROVE  pick[s] = Max(s) /\ pick[s] \in s
  <2>1. s \in SUBSET Int /\ IsFiniteSet(s)
    BY FS_Subset
  <2>. QED
    BY <1>1, <2>1, MaxOf
<1>. HIDE DEF pick
<1>2. PICK f \in [SUBSET D -> T] : Folds(f, D, pick, step, base)
  BY <1>1, FoldExists DEF Steps
<1>3. ASSUME NEW s \in SUBSET D
      PROVE  f[s] = IF s = {} THEN base ELSE step[<<Max(s), f[s \ {Max(s)}]>>]
  BY <1>1, <1>2 DEF Folds
<1>. QED
  BY <1>3 DEF FoldsLeft

\* Concat appends the sequences in the order of their numbers.
LEMMA ConcatFold ==
  ASSUME NEW V, NEW F, Lists(F, V)
  PROVE  \E iter : /\ Concat(F) = iter[DOMAIN F]
                   /\ \A s \in SUBSET DOMAIN F :
                        iter[s] = IF s = {} THEN <<>> ELSE iter[s \ {Max(s)}] \o F[Max(s)]
<1>. DEFINE D == DOMAIN F
            step == [z \in D \X Seq(V) |-> z[2] \o F[z[1]]]
            Fix(iter) == iter = [s \in SUBSET D |-> IF s = {} THEN <<>>
                                   ELSE iter[s \ {Max(s)}] \o F[Max(s)]]
            iter == CHOOSE iter : Fix(iter)
<1>1. D \in SUBSET Int /\ IsFiniteSet(D) /\ <<>> \in Seq(V)
  BY DEF Lists
<1>2. ASSUME NEW x \in D, NEW y \in Seq(V)
      PROVE  step[<<x, y>>] = y \o F[x] /\ step[<<x, y>>] \in Seq(V)
  <2>1. step[<<x, y>>] = y \o F[x]
    OBVIOUS
  <2>2. y \in Seq(V) /\ F[x] \in Seq(V)
    BY DEF Lists
  <2>. HIDE DEF step
  <2>. QED
    BY <2>1, <2>2
<1>3. PICK f \in [SUBSET D -> Seq(V)] : FoldsLeft(f, D, step, <<>>)
  <2>1. Steps(step, D, Seq(V))
    BY <1>2 DEF Steps
  <2>. HIDE DEF step, D
  <2>. QED
    BY <1>1, <2>1, LeftFold
<1>4. ASSUME NEW s \in SUBSET D
      PROVE  f[s] = IF s = {} THEN <<>> ELSE f[s \ {Max(s)}] \o F[Max(s)]
  <2>1. CASE s = {}
    BY <1>3, <2>1 DEF FoldsLeft
  <2>2. CASE s # {}
    <3>1. s \in SUBSET Int /\ IsFiniteSet(s)
      BY <1>1, FS_Subset
    <3>2. Max(s) \in D /\ s \ {Max(s)} \in SUBSET D
      BY <2>2, <3>1, MaxOf
    <3>3. f[s \ {Max(s)}] \in Seq(V)
      BY <3>2
    <3>. HIDE DEF step
    <3>. QED
      BY <1>2, <1>3, <2>2, <3>2, <3>3 DEF FoldsLeft
  <2>. QED
    BY <2>1, <2>2
<1>5. Fix(f)
  <2>. HIDE DEF D
  <2>. QED
    BY <1>4
<1>6. Fix(iter)
  <2>. HIDE DEF Fix
  <2>. QED
    BY <1>5
<1>7. Concat(F) = iter[D]
  BY DEF Concat, FoldLeft, MapThenFoldSet
<1>. HIDE DEF iter
<1>8. \A s \in SUBSET D :
        iter[s] = IF s = {} THEN <<>> ELSE iter[s \ {Max(s)}] \o F[Max(s)]
  BY <1>6
<1>. QED
  BY <1>7, <1>8

\* No sequence leaves nothing.
LEMMA NonePlaced ==
  ASSUME NEW F
  PROVE  Placed(<<>>, F, {})
<1>1. Slots(F, {}) = {} /\ 1 .. Len(<<>>) = {}
  BY DEF Slots
<1>2. [k \in {} |-> k] \in [{} -> {}]
  OBVIOUS
<1>. QED
  BY <1>1, <1>2 DEF Placed, Enumerates

\* Concat holds what its sequences hold, each place once.
LEMMA ConcatPlaced ==
  ASSUME NEW V, NEW F, Lists(F, V)
  PROVE  Concat(F) \in Seq(V) /\ Placed(Concat(F), F, DOMAIN F)
<1>. DEFINE D == DOMAIN F
<1>1. PICK iter : /\ Concat(F) = iter[D]
                  /\ \A s \in SUBSET D :
                       iter[s] = IF s = {} THEN <<>> ELSE iter[s \ {Max(s)}] \o F[Max(s)]
  BY ConcatFold
<1>2. D \in SUBSET Int /\ IsFiniteSet(D) /\ \A x \in D : F[x] \in Seq(V)
  BY DEF Lists
<1>. DEFINE Good == {s \in SUBSET D : iter[s] \in Seq(V) /\ Placed(iter[s], F, s)}
<1>. HIDE DEF D
<1>3. {} \in Good
  <2>1. {} \in SUBSET D /\ <<>> \in Seq(V)
    OBVIOUS
  <2>2. iter[{}] = <<>>
    BY <1>1, <2>1
  <2>. QED
    BY <2>1, <2>2, NonePlaced
<1>4. ASSUME NEW s \in SUBSET D, s # {}
      PROVE  \E x \in s : s \ {x} \in Good => s \in Good
  <2>1. s \in SUBSET Int /\ IsFiniteSet(s)
    BY <1>2, FS_Subset
  <2>2. Max(s) \in s
    BY <1>4, <2>1, MaxOf
  <2>3. ASSUME s \ {Max(s)} \in Good
        PROVE  s \in Good
    <3>1. iter[s] = iter[s \ {Max(s)}] \o F[Max(s)]
      BY <1>1, <1>4
    <3>2. iter[s \ {Max(s)}] \in Seq(V) /\ Placed(iter[s \ {Max(s)}], F, s \ {Max(s)})
      BY <2>3
    <3>3. /\ iter[s \ {Max(s)}] \o F[Max(s)] \in Seq(V)
          /\ Placed(iter[s \ {Max(s)}] \o F[Max(s)], F, s)
      BY <2>2, <3>2, PlacedMore DEF D
    <3>. QED
      BY <3>1, <3>3
  <2>. QED
    BY <2>2, <2>3
<1>5. SUBSET D \subseteq Good
  <2>. HIDE DEF Good
  <2>1. \A s \in SUBSET D : s # {} => \E x \in s : s \ {x} \in Good => s \in Good
    BY <1>4
  <2>. QED
    BY <1>2, <1>3, <2>1, SetInduction
<1>6. D \in Good
  BY <1>5
<1>. QED
  BY <1>1, <1>6 DEF D

-----------------------------------------------------------------------------
(* The gap walk cuts the sorted list                                       *)

\* Induction up to a number, as a set of good numbers.
LEMMA CountingUp ==
  ASSUME NEW n \in Nat, NEW Good, 0 \in Good, \A k \in 1 .. n : k - 1 \in Good => k \in Good
  PROVE  0 .. n \subseteq Good
<1>. DEFINE Bad == (0 .. n) \ Good
<1>. SUFFICES ASSUME Bad # {} PROVE FALSE
  OBVIOUS
<1>1. Bad \in SUBSET Int /\ IsFiniteSet(Bad)
  <2>1. IsFiniteSet(0 .. n)
    BY FS_Interval
  <2>2. Bad \in SUBSET (0 .. n) /\ Bad \in SUBSET Int
    OBVIOUS
  <2>. HIDE DEF Bad
  <2>. QED
    BY <2>1, <2>2, FS_Subset
<1>2. Min(Bad) \in Bad /\ \A k \in Bad : Min(Bad) <= k
  <2>. HIDE DEF Bad
  <2>. QED
    BY <1>1, MinOf
<1>. DEFINE m == Min(Bad)
<1>3. m \in 1 .. n /\ m \notin Good /\ m - 1 \in 0 .. n
  <2>1. m \in 0 .. n /\ m \notin Good
    BY <1>2
  <2>. HIDE DEF m
  <2>. QED
    BY <2>1
<1>4. m - 1 \notin Bad
  BY <1>2, <1>3
<1>. QED
  BY <1>3, <1>4

\* The first k numbers are the first k - 1 and k.
LEMMA LastOfFirst ==
  ASSUME NEW n \in Nat, NEW k \in 1 .. n
  PROVE  /\ 1 .. k \in SUBSET (1 .. n) /\ 1 .. k # {} /\ Max(1 .. k) = k
         /\ (1 .. k) \ {k} = 1 .. (k - 1)
<1>1. 1 .. k \subseteq 1 .. n /\ k \in 1 .. k /\ \A x \in 1 .. k : k >= x
  OBVIOUS
<1>2. 1 .. k \in SUBSET Int /\ IsFiniteSet(1 .. k)
  BY FS_Interval
<1>3. Max(1 .. k) \in 1 .. k /\ \A x \in 1 .. k : x <= Max(1 .. k)
  BY <1>1, <1>2, MaxOf
<1>4. Max(1 .. k) = k
  BY <1>1, <1>3
<1>5. (1 .. k) \ {k} = 1 .. (k - 1)
  OBVIOUS
<1>. QED
  BY <1>1, <1>4, <1>5

\* A bucket ends behind the j-th photo in the order of time.
Ends(q, time, bucketSec, j) ==
  time[q[j + 1]] = None \/ time[q[j]] = None \/ time[q[j + 1]] - time[q[j]] > bucketSec

\* The buckets are the first k photos, cut behind the c[i]-th ones.
Cuts(buckets, q, k, c, time, bucketSec) ==
  LET m == Len(buckets)
  IN  /\ c \in [0 .. m -> 0 .. k] /\ c[0] = 0 /\ c[m] = k
      /\ \A i \in 1 .. m :
           /\ c[i - 1] < c[i] /\ Len(buckets[i]) = c[i] - c[i - 1]
           /\ \A j \in 1 .. Len(buckets[i]) : buckets[i][j] = q[c[i - 1] + j]
           /\ i < m => Ends(q, time, bucketSec, c[i])
           /\ \A j \in c[i - 1] + 1 .. c[i] - 1 : ~ Ends(q, time, bucketSec, j)

\* What the walk does with the next photo.
Walked(buckets, f, time, bucketSec) ==
  IF buckets = <<>> \/ time[f] = None \/ time[Last(Last(buckets))] = None
     \/ time[f] - time[Last(Last(buckets))] > bucketSec
  THEN Append(buckets, <<f>>)
  ELSE [buckets EXCEPT ![Len(buckets)] = Append(@, f)]

\* A step of the walk makes sequences of sequences of the same photos.
LEMMA WalkedType ==
  ASSUME NEW S, NEW f \in S, NEW buckets \in Seq(Seq(S)), NEW time, NEW bucketSec
  PROVE  Walked(buckets, f, time, bucketSec) \in Seq(Seq(S))
<1>1. Append(buckets, <<f>>) \in Seq(Seq(S))
  OBVIOUS
<1>2. CASE buckets # <<>>
  <2>1. Len(buckets) \in 1 .. Len(buckets) /\ buckets[Len(buckets)] \in Seq(S)
    BY <1>2
  <2>2. Append(buckets[Len(buckets)], f) \in Seq(S)
    BY <2>1
  <2>3. [buckets EXCEPT ![Len(buckets)] = Append(@, f)] \in Seq(Seq(S))
    BY <2>1, <2>2
  <2>. QED
    BY <1>1, <2>3 DEF Walked
<1>3. CASE buckets = <<>>
  BY <1>1, <1>3 DEF Walked
<1>. QED
  BY <1>2, <1>3

\* A step of the walk keeps the buckets cut where a bucket ends.
LEMMA WalkedCuts ==
  ASSUME NEW S, NEW q \in Seq(S), NEW k \in 0 .. Len(q) - 1, NEW buckets \in Seq(Seq(S)), NEW c,
         NEW time, NEW bucketSec, Cuts(buckets, q, k, c, time, bucketSec)
  PROVE  \E d : Cuts(Walked(buckets, q[k + 1], time, bucketSec), q, k + 1, d, time, bucketSec)
<1>. DEFINE m == Len(buckets)
            f == q[k + 1]
            new == Walked(buckets, f, time, bucketSec)
<1>1. /\ c \in [0 .. m -> 0 .. k] /\ c[0] = 0 /\ c[m] = k
      /\ \A i \in 1 .. m :
           /\ c[i - 1] < c[i] /\ Len(buckets[i]) = c[i] - c[i - 1]
           /\ \A j \in 1 .. Len(buckets[i]) : buckets[i][j] = q[c[i - 1] + j]
           /\ i < m => Ends(q, time, bucketSec, c[i])
           /\ \A j \in c[i - 1] + 1 .. c[i] - 1 : ~ Ends(q, time, bucketSec, j)
  BY DEF Cuts
<1>2. m \in Nat /\ (buckets = <<>> <=> m = 0) /\ k \in Nat /\ f \in S
  OBVIOUS
<1>3. ASSUME m # 0
      PROVE  Last(Last(buckets)) = q[k]
  <2>1. m \in 1 .. m /\ m - 1 \in 0 .. m
    BY <1>2, <1>3
  <2>2. Len(buckets[m]) = k - c[m - 1] /\ c[m - 1] \in 0 .. k /\ c[m - 1] < k
    BY <1>1, <2>1
  <2>3. Len(buckets[m]) \in 1 .. Len(buckets[m])
    BY <1>2, <2>2
  <2>4. buckets[m][Len(buckets[m])] = q[c[m - 1] + Len(buckets[m])]
    BY <1>1, <2>1, <2>3
  <2>5. c[m - 1] + Len(buckets[m]) = k
    BY <1>2, <2>2
  <2>. QED
    BY <2>4, <2>5 DEF Last
<1>4. CASE m = 0 \/ Ends(q, time, bucketSec, k)
  <2>1. new = Append(buckets, <<f>>)
    BY <1>2, <1>3, <1>4 DEF Walked, Ends
  <2>. DEFINE d == [i \in 0 .. m + 1 |-> IF i <= m THEN c[i] ELSE k + 1]
  <2>2. Len(new) = m + 1 /\ new[m + 1] = <<f>> /\ \A i \in 1 .. m : new[i] = buckets[i]
    BY <2>1
  <2>. HIDE DEF new, m
  <2>3. d \in [0 .. m + 1 -> 0 .. k + 1] /\ d[0] = 0 /\ d[m + 1] = k + 1
    BY <1>1, <1>2
  <2>4. ASSUME NEW i \in 1 .. m
        PROVE  /\ d[i - 1] < d[i] /\ Len(new[i]) = d[i] - d[i - 1]
               /\ \A j \in 1 .. Len(new[i]) : new[i][j] = q[d[i - 1] + j]
               /\ Ends(q, time, bucketSec, d[i])
               /\ \A j \in d[i - 1] + 1 .. d[i] - 1 : ~ Ends(q, time, bucketSec, j)
    <3>1. d[i - 1] = c[i - 1] /\ d[i] = c[i] /\ new[i] = buckets[i]
      BY <1>2, <2>2
    <3>2. i < m \/ (i = m /\ m # 0)
      BY <1>2
    <3>. QED
      BY <1>1, <1>4, <3>1, <3>2
  <2>5. /\ d[m + 1 - 1] < d[m + 1] /\ Len(new[m + 1]) = d[m + 1] - d[m + 1 - 1]
        /\ \A j \in 1 .. Len(new[m + 1]) : new[m + 1][j] = q[d[m + 1 - 1] + j]
        /\ \A j \in d[m + 1 - 1] + 1 .. d[m + 1] - 1 : ~ Ends(q, time, bucketSec, j)
    <3>1. d[m + 1 - 1] = k /\ d[m + 1] = k + 1
      BY <1>1, <1>2
    <3>. QED
      BY <1>2, <2>2, <3>1
  <2>. HIDE DEF d
  <2>6. Cuts(new, q, k + 1, d, time, bucketSec)
    <3>1. ASSUME NEW i \in 1 .. m + 1
          PROVE  /\ d[i - 1] < d[i] /\ Len(new[i]) = d[i] - d[i - 1]
                 /\ \A j \in 1 .. Len(new[i]) : new[i][j] = q[d[i - 1] + j]
                 /\ i < m + 1 => Ends(q, time, bucketSec, d[i])
                 /\ \A j \in d[i - 1] + 1 .. d[i] - 1 : ~ Ends(q, time, bucketSec, j)
      <4>1. CASE i \in 1 .. m
        BY <2>4, <4>1
      <4>2. CASE i = m + 1
        BY <1>2, <2>5, <4>2
      <4>. QED
        BY <1>2, <4>1, <4>2
    <3>. QED
      BY <2>2, <2>3, <3>1 DEF Cuts
  <2>. QED
    BY <2>6 DEF new
<1>5. CASE m # 0 /\ ~ Ends(q, time, bucketSec, k)
  <2>1. new = [buckets EXCEPT ![m] = Append(@, f)]
    BY <1>2, <1>3, <1>5 DEF Walked, Ends
  <2>. DEFINE d == [c EXCEPT ![m] = k + 1]
  <2>2. m \in 1 .. m /\ buckets[m] \in Seq(S)
    BY <1>2, <1>5
  <2>3. Len(new) = m /\ new[m] = Append(buckets[m], f) /\ \A i \in 1 .. m - 1 : new[i] = buckets[i]
    BY <2>1, <2>2
  <2>. HIDE DEF new, m
  <2>4. d \in [0 .. m -> 0 .. k + 1] /\ d[0] = 0 /\ d[m] = k + 1 /\ \A i \in 0 .. m - 1 : d[i] = c[i]
    BY <1>1, <1>2, <1>5
  <2>5. ASSUME NEW i \in 1 .. m - 1
        PROVE  /\ d[i - 1] < d[i] /\ Len(new[i]) = d[i] - d[i - 1]
               /\ \A j \in 1 .. Len(new[i]) : new[i][j] = q[d[i - 1] + j]
               /\ Ends(q, time, bucketSec, d[i])
               /\ \A j \in d[i - 1] + 1 .. d[i] - 1 : ~ Ends(q, time, bucketSec, j)
    <3>1. d[i - 1] = c[i - 1] /\ d[i] = c[i] /\ new[i] = buckets[i] /\ i < m /\ i \in 1 .. m
      BY <1>2, <2>3, <2>4
    <3>. QED
      BY <1>1, <3>1
  <2>6. /\ d[m - 1] < d[m] /\ Len(new[m]) = d[m] - d[m - 1]
        /\ \A j \in 1 .. Len(new[m]) : new[m][j] = q[d[m - 1] + j]
        /\ \A j \in d[m - 1] + 1 .. d[m] - 1 : ~ Ends(q, time, bucketSec, j)
    <3>1. m - 1 \in 0 .. m /\ d[m - 1] = c[m - 1] /\ c[m - 1] \in 0 .. k /\ c[m - 1] < k
      BY <1>1, <1>2, <2>2, <2>4
    <3>2. Len(buckets[m]) = k - c[m - 1] /\ Len(new[m]) = Len(buckets[m]) + 1
      BY <1>1, <2>2, <2>3
    <3>3. ASSUME NEW j \in 1 .. Len(new[m])
          PROVE  new[m][j] = q[d[m - 1] + j]
      <4>1. CASE j \in 1 .. Len(buckets[m])
        <5>1. new[m][j] = buckets[m][j]
          BY <2>2, <2>3, <4>1
        <5>2. buckets[m][j] = q[c[m - 1] + j]
          BY <1>1, <2>2, <4>1
        <5>. QED
          BY <3>1, <5>1, <5>2
      <4>2. CASE j = Len(buckets[m]) + 1
        <5>1. new[m][j] = f
          BY <2>2, <2>3, <4>2
        <5>2. d[m - 1] + j = k + 1
          BY <1>2, <3>1, <3>2, <4>2
        <5>. QED
          BY <5>1, <5>2
      <4>. QED
        BY <1>2, <3>1, <3>2, <4>1, <4>2
    <3>4. ASSUME NEW j \in d[m - 1] + 1 .. d[m] - 1
          PROVE  ~ Ends(q, time, bucketSec, j)
      <4>1. j \in c[m - 1] + 1 .. c[m] - 1 \/ j = k
        BY <1>1, <1>2, <2>4, <3>1
      <4>. QED
        BY <1>1, <1>5, <2>2, <4>1
    <3>. QED
      BY <1>2, <2>4, <3>1, <3>2, <3>3, <3>4
  <2>. HIDE DEF d
  <2>7. Cuts(new, q, k + 1, d, time, bucketSec)
    <3>1. ASSUME NEW i \in 1 .. m
          PROVE  /\ d[i - 1] < d[i] /\ Len(new[i]) = d[i] - d[i - 1]
                 /\ \A j \in 1 .. Len(new[i]) : new[i][j] = q[d[i - 1] + j]
                 /\ i < m => Ends(q, time, bucketSec, d[i])
                 /\ \A j \in d[i - 1] + 1 .. d[i] - 1 : ~ Ends(q, time, bucketSec, j)
      <4>1. CASE i \in 1 .. m - 1
        BY <2>5, <4>1
      <4>2. CASE i = m
        BY <1>2, <2>6, <4>2
      <4>3. i \in 1 .. m - 1 \/ i = m
        BY <1>2
      <4>. QED
        BY ONLY <4>1, <4>2, <4>3
    <3>. QED
      BY <2>3, <2>4, <3>1 DEF Cuts
  <2>. QED
    BY <2>7 DEF new
<1>. QED
  BY <1>4, <1>5

\* Numbers stand for photos, and a photo has a time or none.
Timed(S, time) == S \subseteq Int /\ IsFiniteSet(S) /\ \A x \in S : time[x] \in Int \cup {None}

\* Photos are ordered by time, those without one last, and by id among equals.
LEMMA EarlierOrders ==
  ASSUME NEW S, NEW time, Timed(S, time)
  PROVE  Ordered(S, earlier(S, time))
<1>1. /\ S \subseteq Int /\ None \notin Int /\ \A x \in S : time[x] \in Int \cup {None}
  BY GroupingAssumption DEF Timed
<1>2. \A x, y \in S : <<x, y>> \in earlier(S, time) <=>
        \/ time[x] # None /\ time[y] = None
        \/ time[x] # None /\ time[y] # None /\ (time[x] < time[y] \/ (time[x] = time[y] /\ x < y))
        \/ time[x] = None /\ time[y] = None /\ x < y
  BY DEF earlier
<1>3. ASSUME NEW x \in S, NEW y \in S, x # y
      PROVE  <<x, y>> \in earlier(S, time) \/ <<y, x>> \in earlier(S, time)
  BY <1>1, <1>2, <1>3
<1>4. ASSUME NEW x \in S
      PROVE  <<x, x>> \notin earlier(S, time)
  BY <1>1, <1>2
<1>5. ASSUME NEW x \in S, NEW y \in S, NEW z \in S,
             <<x, y>> \in earlier(S, time), <<y, z>> \in earlier(S, time)
      PROVE  <<x, z>> \in earlier(S, time)
  BY <1>1, <1>2, <1>5
<1>. QED
  BY <1>3, <1>4, <1>5 DEF Ordered

\* sortRunFiles lists each photo once.
LEMMA sortRunFilesLists ==
  ASSUME NEW S, NEW time, Timed(S, time)
  PROVE  LET q == sortRunFiles(S, time)
         IN  /\ q \in Seq(S) /\ \A x \in S : \E i \in 1 .. Len(q) : q[i] = x
             /\ \A i, j \in 1 .. Len(q) : i < j <=> <<q[i], q[j]>> \in earlier(S, time)
             /\ \A i, j \in 1 .. Len(q) : q[i] = q[j] => i = j
<1>. DEFINE q == sortRunFiles(S, time)
<1>1. Ordered(S, earlier(S, time)) /\ IsFiniteSet(S)
  BY EarlierOrders DEF Timed
<1>2. /\ q \in Seq(S) /\ \A x \in S : \E i \in 1 .. Len(q) : q[i] = x
      /\ \A i, j \in 1 .. Len(q) : i < j <=> <<q[i], q[j]>> \in earlier(S, time)
  BY <1>1, SortedIsSorted DEF sortRunFiles
<1>. HIDE DEF q
<1>3. ASSUME NEW i \in 1 .. Len(q), NEW j \in 1 .. Len(q), q[i] = q[j]
      PROVE  i = j
  <2>1. q[i] \in S /\ <<q[i], q[i]>> \notin earlier(S, time)
    BY <1>1, <1>2 DEF Ordered
  <2>2. ~ (i < j) /\ ~ (j < i)
    BY <1>2, <1>3, <2>1
  <2>. QED
    BY <2>2
<1>. QED
  BY <1>2, <1>3 DEF q

\* iter[1 .. k] is what the walk has made of the first k photos.
Walk(iter, q, time, bucketSec) ==
  \A s \in SUBSET (1 .. Len(q)) :
    iter[s] = IF s = {} THEN <<>> ELSE Walked(iter[s \ {Max(s)}], q[Max(s)], time, bucketSec)

\* The walk takes the sorted photos one by one.
LEMMA gapWalkFold ==
  ASSUME NEW S, NEW time, Timed(S, time), NEW bucketSec, NEW q, q = sortRunFiles(S, time)
  PROVE  \E iter : gapWalk(S, time, bucketSec) = iter[1 .. Len(q)] /\ Walk(iter, q, time, bucketSec)
<1>. DEFINE D == 1 .. Len(q)
            T == Seq(Seq(S))
            step == [z \in D \X T |-> Walked(z[2], q[z[1]], time, bucketSec)]
            Fix(iter) == iter = [s \in SUBSET D |-> IF s = {} THEN <<>>
                            ELSE Walked(iter[s \ {Max(s)}], q[Max(s)], time, bucketSec)]
            iter == CHOOSE iter : Fix(iter)
<1>0. q \in Seq(S)
  BY sortRunFilesLists
<1>1. D \in SUBSET Int /\ IsFiniteSet(D) /\ <<>> \in T
  BY <1>0, FS_Interval
<1>2. ASSUME NEW x \in D, NEW y \in T
      PROVE  step[<<x, y>>] = Walked(y, q[x], time, bucketSec) /\ step[<<x, y>>] \in T
  <2>1. step[<<x, y>>] = Walked(y, q[x], time, bucketSec)
    OBVIOUS
  <2>2. Walked(y, q[x], time, bucketSec) \in Seq(Seq(S))
    BY <1>0, WalkedType
  <2>. HIDE DEF step
  <2>. QED
    BY <2>1, <2>2
<1>3. PICK f \in [SUBSET D -> T] : FoldsLeft(f, D, step, <<>>)
  <2>1. Steps(step, D, T)
    BY <1>2 DEF Steps
  <2>. HIDE DEF step, D, T
  <2>. QED
    BY <1>1, <2>1, LeftFold
<1>4. ASSUME NEW s \in SUBSET D
      PROVE  f[s] = IF s = {} THEN <<>> ELSE Walked(f[s \ {Max(s)}], q[Max(s)], time, bucketSec)
  <2>1. CASE s = {}
    BY <1>3, <2>1 DEF FoldsLeft
  <2>2. CASE s # {}
    <3>1. s \in SUBSET Int /\ IsFiniteSet(s)
      BY <1>1, FS_Subset
    <3>2. Max(s) \in D /\ s \ {Max(s)} \in SUBSET D
      BY <2>2, <3>1, MaxOf
    <3>3. f[s \ {Max(s)}] \in T
      BY <3>2
    <3>. HIDE DEF step, D, T
    <3>. QED
      BY <1>2, <1>3, <2>2, <3>2, <3>3 DEF FoldsLeft
  <2>. QED
    BY <2>1, <2>2
<1>5. Fix(f)
  <2>. HIDE DEF D
  <2>. QED
    BY <1>4
<1>6. Fix(iter)
  <2>. HIDE DEF Fix
  <2>. QED
    BY <1>5
<1>7. DOMAIN q = D
  BY <1>0
<1>8. gapWalk(S, time, bucketSec) = iter[D]
  BY <1>7 DEF gapWalk, FoldLeft, MapThenFoldSet, Walked
<1>. HIDE DEF iter
<1>9. Walk(iter, q, time, bucketSec)
  BY <1>6 DEF Walk
<1>. QED
  BY <1>8, <1>9

\* The walk cuts the photos in the order of time, exactly behind those that end a
\* bucket.
LEMMA gapWalkCuts ==
  ASSUME NEW S, NEW time, Timed(S, time), NEW bucketSec
  PROVE  LET q == sortRunFiles(S, time)
         IN  /\ gapWalk(S, time, bucketSec) \in Seq(Seq(S))
             /\ \E c : Cuts(gapWalk(S, time, bucketSec), q, Len(q), c, time, bucketSec)
<1>. DEFINE q == sortRunFiles(S, time)
<1>0. q = sortRunFiles(S, time)
  OBVIOUS
<1>. HIDE DEF q
<1>1. PICK iter : gapWalk(S, time, bucketSec) = iter[1 .. Len(q)] /\ Walk(iter, q, time, bucketSec)
  BY <1>0, gapWalkFold
<1>2. q \in Seq(S) /\ Len(q) \in Nat
  BY <1>0, sortRunFilesLists
<1>. DEFINE n == Len(q)
<1>. DEFINE Good == {k \in 0 .. n : /\ iter[1 .. k] \in Seq(Seq(S))
                                    /\ \E c : Cuts(iter[1 .. k], q, k, c, time, bucketSec)}
<1>3. 0 \in Good
  <2>1. 1 .. 0 = {}
    OBVIOUS
  <2>2. iter[1 .. 0] = <<>>
    BY <1>1, <2>1 DEF Walk
  <2>3. Cuts(<<>>, q, 0, [i \in {0} |-> 0], time, bucketSec)
    BY DEF Cuts
  <2>4. 0 \in 0 .. n /\ <<>> \in Seq(Seq(S))
    BY <1>2
  <2>. HIDE DEF n
  <2>. QED
    BY <2>2, <2>3, <2>4
<1>4. ASSUME NEW k \in 1 .. n, k - 1 \in Good
      PROVE  k \in Good
  <2>4. iter[1 .. k] = Walked(iter[1 .. (k - 1)], q[k], time, bucketSec)
    <3>1. 1 .. k \in SUBSET (1 .. n) /\ 1 .. k # {} /\ Max(1 .. k) = k /\ (1 .. k) \ {k} = 1 .. (k - 1)
      BY <1>2, LastOfFirst
    <3>. QED
      BY <1>1, <3>1 DEF Walk
  <2>5. PICK c : Cuts(iter[1 .. (k - 1)], q, k - 1, c, time, bucketSec)
    BY <1>4
  <2>6. iter[1 .. (k - 1)] \in Seq(Seq(S)) /\ q[k] \in S
    <3>1. q[k] \in S
      BY <1>2
    <3>. QED
      BY <1>4, <3>1
  <2>7. iter[1 .. k] \in Seq(Seq(S))
    BY <2>4, <2>6, WalkedType
  <2>8. k - 1 \in 0 .. Len(q) - 1 /\ (k - 1) + 1 = k
    BY <1>2 DEF n
  <2>9. \E d : Cuts(Walked(iter[1 .. (k - 1)], q[(k - 1) + 1], time, bucketSec), q, (k - 1) + 1, d,
                    time, bucketSec)
    BY <1>2, <2>5, <2>6, <2>8, WalkedCuts
  <2>. QED
    BY <2>4, <2>7, <2>8, <2>9
<1>5. 0 .. n \subseteq Good
  <2>. HIDE DEF Good
  <2>. QED
    BY <1>2, <1>3, <1>4, CountingUp
<1>6. n \in Good
  BY <1>2, <1>5
<1>. QED
  BY <1>1, <1>6 DEF q

-----------------------------------------------------------------------------
(* Single-link clustering                                                  *)

\* The ways to divide ids into groups; none is empty, and each photo has one.
Partitions(ids) ==
  {P \in SUBSET SUBSET ids : /\ \A f \in ids : \E G \in P : f \in G
                             /\ {} \notin P
                             /\ \A G, H \in P : G # H => G \cap H = {}}

\* No link leads out of T.
Closed(T, L) == \A p \in L : p[1] \in T <=> p[2] \in T

\* The groups once the pairs of s have been looked at: the links among them are
\* joined, and nothing is that no chain of links asks for.
Joined(P, ids, L, s) ==
  /\ P \in Partitions(ids)
  /\ \A p \in s : p \in L => \E G \in P : p[1] \in G /\ p[2] \in G
  /\ \A T \in SUBSET ids : Closed(T, L) => \A G \in P : G \cap T = {} \/ G \subseteq T

\* union joins the groups of f and g and keeps the others.
LEMMA unionPartition ==
  ASSUME NEW ids, NEW P \in Partitions(ids), NEW f \in ids, NEW g \in ids
  PROVE  /\ union(P, f, g) \in Partitions(ids)
         /\ \E G \in union(P, f, g) : f \in G /\ g \in G
         /\ \A H \in P : \E G \in union(P, f, g) : H \subseteq G
         /\ \A G \in union(P, f, g) :
              G \in P \/ \A x \in G : \E H \in P : H \subseteq G /\ x \in H /\ (f \in H \/ g \in H)
<1>. DEFINE hit == {G \in P : f \in G \/ g \in G}
            whole == UNION hit
            Q == union(P, f, g)
<1>1. Q = (P \ hit) \cup {whole}
  BY DEF union
<1>2. /\ P \subseteq SUBSET ids /\ {} \notin P /\ \A x \in ids : \E G \in P : x \in G
      /\ \A G, H \in P : G # H => G \cap H = {}
  BY DEF Partitions
<1>3. f \in whole /\ g \in whole /\ whole \subseteq ids
  BY <1>2
<1>4. \A x \in whole : \E H \in hit : x \in H
  OBVIOUS
<1>5. \A H \in hit : H \subseteq whole /\ H \in P /\ (f \in H \/ g \in H)
  OBVIOUS
<1>6. ASSUME NEW G \in P \ hit
      PROVE  G \cap whole = {}
  <2>. SUFFICES ASSUME NEW x \in G, x \in whole PROVE FALSE
    OBVIOUS
  <2>1. PICK H \in hit : x \in H
    BY <1>4
  <2>2. H # G /\ H \in P
    BY <1>6, <2>1
  <2>. QED
    BY <1>2, <2>1, <2>2
<1>. HIDE DEF hit, whole, Q
<1>7. Q \in Partitions(ids)
  <2>1. Q \subseteq SUBSET ids /\ {} \notin Q
    BY <1>1, <1>2, <1>3
  <2>2. ASSUME NEW x \in ids
        PROVE  \E G \in Q : x \in G
    BY <1>1, <1>2, <1>5
  <2>3. ASSUME NEW G \in Q, NEW H \in Q, G # H
        PROVE  G \cap H = {}
    <3>1. CASE G = whole
      BY <1>1, <1>6, <2>3, <3>1
    <3>2. CASE H = whole
      BY <1>1, <1>6, <2>3, <3>2
    <3>3. CASE G # whole /\ H # whole
      BY <1>1, <1>2, <2>3, <3>3
    <3>. QED
      BY <3>1, <3>2, <3>3
  <2>. QED
    BY <2>1, <2>2, <2>3 DEF Partitions
<1>8. \A H \in P : \E G \in Q : H \subseteq G
  BY <1>1, <1>5
<1>9. ASSUME NEW G \in Q
      PROVE  G \in P \/ \A x \in G : \E H \in P : H \subseteq G /\ x \in H /\ (f \in H \/ g \in H)
  <2>1. CASE G = whole
    BY <1>4, <1>5, <2>1
  <2>2. CASE G # whole
    BY <1>1, <2>2
  <2>. QED
    BY <2>1, <2>2
<1>. QED
  BY <1>1, <1>3, <1>7, <1>8, <1>9 DEF Q

\* union of a linked pair keeps groups that no link leaves.
LEMMA unionJoins ==
  ASSUME NEW ids, NEW L \in SUBSET (ids \X ids), NEW s, NEW P, Joined(P, ids, L, s), NEW p \in L
  PROVE  Joined(union(P, p[1], p[2]), ids, L, s \cup {p})
<1>. DEFINE Q == union(P, p[1], p[2])
<1>1. p[1] \in ids /\ p[2] \in ids /\ P \in Partitions(ids)
  BY DEF Joined
<1>2. /\ Q \in Partitions(ids) /\ \E G \in Q : p[1] \in G /\ p[2] \in G
      /\ \A H \in P : \E G \in Q : H \subseteq G
      /\ \A G \in Q : \/ G \in P
                      \/ \A x \in G : \E H \in P : H \subseteq G /\ x \in H /\ (p[1] \in H \/ p[2] \in H)
  BY <1>1, unionPartition
<1>. HIDE DEF Q
<1>3. ASSUME NEW r \in s \cup {p}, r \in L
      PROVE  \E G \in Q : r[1] \in G /\ r[2] \in G
  <2>1. CASE r = p
    BY <1>2, <2>1
  <2>2. CASE r # p
    <3>1. PICK H \in P : r[1] \in H /\ r[2] \in H
      BY <1>3, <2>2 DEF Joined
    <3>. QED
      BY <1>2, <3>1
  <2>. QED
    BY <2>1, <2>2
<1>4. ASSUME NEW T \in SUBSET ids, Closed(T, L), NEW G \in Q
      PROVE  G \cap T = {} \/ G \subseteq T
  <2>1. CASE G \in P
    BY <1>4, <2>1 DEF Joined
  <2>2. CASE G \notin P
    <3>1. \A x \in G : \E H \in P : H \subseteq G /\ x \in H /\ (p[1] \in H \/ p[2] \in H)
      BY <1>2, <2>2
    <3>2. \A H \in P : H \cap T = {} \/ H \subseteq T
      BY <1>4 DEF Joined
    <3>3. p[1] \in T <=> p[2] \in T
      BY <1>4 DEF Closed
    <3>4. CASE p[1] \in T
      BY <3>1, <3>2, <3>3, <3>4
    <3>5. CASE p[1] \notin T
      BY <3>1, <3>2, <3>3, <3>5
    <3>. QED
      BY <3>4, <3>5
  <2>. QED
    BY <2>1, <2>2
<1>. QED
  BY <1>2, <1>3, <1>4 DEF Joined, Q

\* The pairs that union is called with.
Links(a, ids, threshold) ==
  {p \in ids \X ids : p[1] < p[2] /\ cosine(a, p[1], p[2]) > threshold}

\* One pair of the double loop of Cluster.
Looked(groups, p, a, threshold) ==
  IF p[1] < p[2] /\ cosine(a, p[1], p[2]) > threshold THEN union(groups, p[1], p[2]) ELSE groups

\* A pair that is looked at is joined when it is linked.
LEMMA LookedJoins ==
  ASSUME NEW a, NEW ids, NEW threshold, NEW s, NEW P, NEW p \in ids \X ids,
         Joined(P, ids, Links(a, ids, threshold), s)
  PROVE  Joined(Looked(P, p, a, threshold), ids, Links(a, ids, threshold), s \cup {p})
<1>. DEFINE L == Links(a, ids, threshold)
<1>1. L \in SUBSET (ids \X ids) /\ (p \in L <=> p[1] < p[2] /\ cosine(a, p[1], p[2]) > threshold)
  BY DEF Links
<1>. HIDE DEF L
<1>2. Joined(P, ids, L, s)
  BY DEF L
<1>3. CASE p \in L
  <2>1. Joined(union(P, p[1], p[2]), ids, L, s \cup {p})
    BY <1>1, <1>2, <1>3, unionJoins
  <2>. QED
    BY <1>1, <1>3, <2>1 DEF Looked, L
<1>4. CASE p \notin L
  <2>1. Joined(P, ids, L, s \cup {p})
    BY <1>2, <1>4 DEF Joined
  <2>. QED
    BY <1>1, <1>4, <2>1 DEF Looked, L
<1>. QED
  BY <1>3, <1>4

\* Pairs are taken in any order.
Unions(iter, a, ids, threshold) ==
  \A s \in SUBSET (ids \X ids) :
    iter[s] = IF s = {} THEN {{f} : f \in ids}
              ELSE LET p == CHOOSE p \in s : TRUE
                   IN  Looked(iter[s \ {p}], p, a, threshold)

\* A pair that is looked at leaves a partition.
LEMMA LookedType ==
  ASSUME NEW a, NEW ids, NEW threshold, NEW P \in Partitions(ids), NEW p \in ids \X ids
  PROVE  Looked(P, p, a, threshold) \in Partitions(ids)
<1>1. p[1] \in ids /\ p[2] \in ids
  OBVIOUS
<1>2. union(P, p[1], p[2]) \in Partitions(ids)
  BY <1>1, unionPartition
<1>. QED
  BY <1>2 DEF Looked

\* Cluster looks at the pairs one by one.
LEMMA ClusterFold ==
  ASSUME NEW a, NEW ids, IsFiniteSet(ids), NEW threshold
  PROVE  \E iter : Cluster(a, ids, threshold) = iter[ids \X ids] /\ Unions(iter, a, ids, threshold)
<1>. DEFINE D == ids \X ids
            T == Partitions(ids)
            base == {{f} : f \in ids}
            pick == [s \in SUBSET D |-> CHOOSE p \in s : TRUE]
            step == [z \in D \X T |-> Looked(z[2], z[1], a, threshold)]
            Fix(iter) == iter = [s \in SUBSET D |-> IF s = {} THEN base
                            ELSE Looked(iter[s \ {CHOOSE p \in s : TRUE}], CHOOSE p \in s : TRUE,
                                        a, threshold)]
            iter == CHOOSE iter : Fix(iter)
<1>1. IsFiniteSet(D)
  BY FS_Product
<1>2. base \in T
  BY DEF Partitions
<1>3. \A s \in SUBSET D : s # {} => pick[s] \in s /\ pick[s] = CHOOSE p \in s : TRUE
  OBVIOUS
<1>4. ASSUME NEW x \in D, NEW y \in T
      PROVE  step[<<x, y>>] = Looked(y, x, a, threshold) /\ step[<<x, y>>] \in T
  <2>1. step[<<x, y>>] = Looked(y, x, a, threshold)
    OBVIOUS
  <2>2. Looked(y, x, a, threshold) \in T
    BY LookedType
  <2>. HIDE DEF step
  <2>. QED
    BY <2>1, <2>2
<1>5. PICK f \in [SUBSET D -> T] : Folds(f, D, pick, step, base)
  <2>. HIDE DEF D, T, base, pick, step
  <2>. QED
    BY <1>1, <1>2, <1>3, <1>4, FoldExists
<1>6. ASSUME NEW s \in SUBSET D
      PROVE  f[s] = IF s = {} THEN base
                    ELSE Looked(f[s \ {CHOOSE p \in s : TRUE}], CHOOSE p \in s : TRUE, a, threshold)
  <2>. HIDE DEF D, T, base, pick, step
  <2>1. CASE s = {}
    BY <1>5, <2>1 DEF Folds
  <2>2. CASE s # {}
    <3>1. pick[s] \in D /\ f[s \ {pick[s]}] \in T /\ pick[s] = CHOOSE p \in s : TRUE
      BY <1>3, <2>2
    <3>2. f[s] = step[<<pick[s], f[s \ {pick[s]}]>>]
      BY <1>5, <2>2 DEF Folds
    <3>. QED
      BY <1>4, <2>2, <3>1, <3>2
  <2>. QED
    BY <2>1, <2>2
<1>7. Fix(f)
  <2>. HIDE DEF D, base
  <2>. QED
    BY <1>6
<1>8. Fix(iter)
  <2>. HIDE DEF Fix
  <2>. QED
    BY <1>7
<1>9. Cluster(a, ids, threshold) = iter[D]
  BY DEF Cluster, FoldSet, MapThenFoldSet, Looked
<1>. HIDE DEF iter
<1>10. Unions(iter, a, ids, threshold)
  BY <1>8 DEF Unions
<1>. QED
  BY <1>9, <1>10

\* Single-link clustering: the groups are what chains of links join.
LEMMA ClusterJoins ==
  ASSUME NEW a, NEW ids, IsFiniteSet(ids), NEW threshold
  PROVE  Joined(Cluster(a, ids, threshold), ids, Links(a, ids, threshold), ids \X ids)
<1>. DEFINE D == ids \X ids
            L == Links(a, ids, threshold)
<1>1. PICK iter : Cluster(a, ids, threshold) = iter[D] /\ Unions(iter, a, ids, threshold)
  BY ClusterFold
<1>2. IsFiniteSet(D)
  BY FS_Product
<1>. DEFINE Good == {s \in SUBSET D : Joined(iter[s], ids, L, s)}
<1>3. {} \in Good
  <2>1. iter[{}] = {{f} : f \in ids}
    BY <1>1 DEF Unions
  <2>2. Joined({{f} : f \in ids}, ids, L, {})
    <3>. HIDE DEF L
    <3>1. {{f} : f \in ids} \in Partitions(ids)
      BY DEF Partitions
    <3>2. \A T \in SUBSET ids : \A G \in {{f} : f \in ids} : G \cap T = {} \/ G \subseteq T
      OBVIOUS
    <3>. QED
      BY <3>1, <3>2 DEF Joined
  <2>. QED
    BY <2>1, <2>2
<1>4. ASSUME NEW s \in SUBSET D, s # {}
      PROVE  \E p \in s : s \ {p} \in Good => s \in Good
  <2>. DEFINE p == CHOOSE p \in s : TRUE
  <2>1. p \in s /\ p \in D /\ iter[s] = Looked(iter[s \ {p}], p, a, threshold)
    BY <1>1, <1>4 DEF Unions
  <2>. HIDE DEF p
  <2>2. ASSUME s \ {p} \in Good
        PROVE  s \in Good
    <3>1. Joined(iter[s \ {p}], ids, L, s \ {p})
      BY <2>2
    <3>2. Joined(iter[s], ids, L, (s \ {p}) \cup {p})
      BY <2>1, <3>1, LookedJoins
    <3>3. (s \ {p}) \cup {p} = s
      BY <2>1
    <3>. HIDE DEF L
    <3>. QED
      BY <3>2, <3>3
  <2>. QED
    BY <2>1, <2>2
<1>5. SUBSET D \subseteq Good
  <2>1. \A s \in SUBSET D : s # {} => \E p \in s : s \ {p} \in Good => s \in Good
    BY <1>4
  <2>. HIDE DEF Good, D
  <2>. QED
    BY <1>2, <1>3, <2>1, SetInduction
<1>6. D \in Good
  BY <1>5
<1>. QED
  BY <1>1, <1>6

\* The groups of a bucket: the clusters, and the photos without an embedding.
Parts(a, ids, embeds, threshold) ==
  Cluster(a, ids \cap embeds, threshold) \cup ({ids \ embeds} \ {{}})

\* The groups of a bucket divide it.
LEMMA PartsPartition ==
  ASSUME NEW a, NEW ids, IsFiniteSet(ids), NEW embeds, NEW threshold
  PROVE  Parts(a, ids, embeds, threshold) \in Partitions(ids)
<1>. DEFINE P == Cluster(a, ids \cap embeds, threshold)
            rest == ids \ embeds
<1>1. IsFiniteSet(ids \cap embeds)
  BY FS_Subset
<1>2. P \in Partitions(ids \cap embeds)
  BY <1>1, ClusterJoins DEF Joined
<1>. HIDE DEF P
<1>3. /\ P \subseteq SUBSET (ids \cap embeds) /\ {} \notin P
      /\ \A x \in ids \cap embeds : \E G \in P : x \in G
      /\ \A G, H \in P : G # H => G \cap H = {}
  BY <1>2 DEF Partitions
<1>4. Parts(a, ids, embeds, threshold) = P \cup ({rest} \ {{}})
  BY DEF Parts, P
<1>5. \A G \in P : G \cap rest = {} /\ G \subseteq ids
  BY <1>3
<1>6. \A x \in ids : x \in rest \/ x \in ids \cap embeds
  OBVIOUS
<1>7. rest \subseteq ids
  OBVIOUS
<1>. HIDE DEF rest
<1>8. \A x \in ids : \E G \in P \cup ({rest} \ {{}}) : x \in G
  BY <1>3, <1>6
<1>9. ASSUME NEW G \in P \cup ({rest} \ {{}}), NEW H \in P \cup ({rest} \ {{}}), G # H
      PROVE  G \cap H = {}
  <2>1. CASE G \in P /\ H \in P
    BY <1>3, <1>9, <2>1
  <2>2. CASE G = rest
    BY <1>5, <1>9, <2>2
  <2>3. CASE H = rest
    BY <1>5, <1>9, <2>3
  <2>. QED
    BY <1>9, <2>1, <2>2, <2>3
<1>10. P \cup ({rest} \ {{}}) \in Partitions(ids)
  BY <1>3, <1>5, <1>7, <1>8, <1>9 DEF Partitions
<1>. QED
  BY <1>4, <1>10

\* clusterIDs lists each group of a bucket once.
LEMMA clusterIDsLists ==
  ASSUME NEW a, NEW ids \in SUBSET Int, IsFiniteSet(ids), NEW embeds, NEW threshold, NEW q,
         q = clusterIDs(a, ids, embeds, threshold)
  PROVE  /\ q \in Seq(Parts(a, ids, embeds, threshold))
         /\ \A G \in Parts(a, ids, embeds, threshold) : \E i \in 1 .. Len(q) : q[i] = G
         /\ \A i, j \in 1 .. Len(q) : q[i] = q[j] => i = j
<1>. DEFINE P == Parts(a, ids, embeds, threshold)
            R == {p \in P \X P : Min(p[1]) < Min(p[2])}
<1>1. q = Sorted(P, R)
  BY DEF clusterIDs, Parts
<1>2. P \in Partitions(ids)
  BY PartsPartition
<1>. HIDE DEF P
<1>3. P \in SUBSET SUBSET ids /\ {} \notin P /\ \A G, H \in P : G # H => G \cap H = {}
  BY <1>2 DEF Partitions
<1>4. IsFiniteSet(P)
  <2>1. IsFiniteSet(SUBSET ids)
    BY FS_SUBSET
  <2>. QED
    BY <1>3, <2>1, FS_Subset
<1>5. ASSUME NEW G \in P
      PROVE  Min(G) \in G /\ Min(G) \in Int
  <2>1. G \in SUBSET Int /\ G # {} /\ G \in SUBSET ids
    BY <1>3
  <2>2. IsFiniteSet(G)
    BY <2>1, FS_Subset
  <2>. QED
    BY <2>1, <2>2, MinOf
<1>6. \A G, H \in P : G # H => Min(G) # Min(H)
  BY <1>3, <1>5
<1>7. Ordered(P, R)
  <2>1. \A G, H \in P : <<G, H>> \in R <=> Min(G) < Min(H)
    OBVIOUS
  <2>. HIDE DEF R
  <2>2. \A G \in P : <<G, G>> \notin R
    BY <1>5, <2>1
  <2>3. ASSUME NEW G \in P, NEW H \in P, G # H
        PROVE  <<G, H>> \in R \/ <<H, G>> \in R
    BY <1>5, <1>6, <2>1, <2>3
  <2>4. ASSUME NEW G \in P, NEW H \in P, NEW K \in P, <<G, H>> \in R, <<H, K>> \in R
        PROVE  <<G, K>> \in R
    BY <1>5, <2>1, <2>4
  <2>. QED
    BY <2>2, <2>3, <2>4 DEF Ordered
<1>8. /\ q \in Seq(P) /\ \A x \in P : \E i \in 1 .. Len(q) : q[i] = x
      /\ \A i, j \in 1 .. Len(q) : i < j <=> <<q[i], q[j]>> \in R
  <2>. HIDE DEF R
  <2>. QED
    BY <1>1, <1>4, <1>7, SortedIsSorted
<1>9. ASSUME NEW i \in 1 .. Len(q), NEW j \in 1 .. Len(q), q[i] = q[j]
      PROVE  i = j
  <2>. HIDE DEF R
  <2>1. q[i] \in P /\ <<q[i], q[i]>> \notin R
    BY <1>7, <1>8 DEF Ordered
  <2>2. ~ (i < j) /\ ~ (j < i)
    BY <1>8, <1>9, <2>1
  <2>. QED
    BY <2>2
<1>. QED
  BY <1>8, <1>9 DEF P

-----------------------------------------------------------------------------
(* The sliding window of the anchors: one photo of the reference device    *)

\* Photos whose times are known.
Clocked(a, F) == \A f \in F : a.taken[f] \in Int

\* Photos in the order of time.
Ascending(a, q) == \A i, j \in 1 .. Len(q) : i < j => a.taken[q[i]] <= a.taken[q[j]]

\* The pair is an anchor.
Anchored(a, r, o) ==
  cosine(a, r, o) >= AnchorSimilarity /\ a.taken[o] - a.taken[r] \in -MaxSkewSec .. MaxSkewSec

\* The pairs of the first k photos of ref and those of other that are anchors, and
\* the offsets of pairs.
Met(a, ref, other, k) ==
  {p \in (1 .. k) \X (1 .. Len(other)) : Anchored(a, ref[p[1]], other[p[2]])}

\* The offsets of the pairs of two lists.
Gaps(a, ref, other) ==
  [p \in (1 .. Len(ref)) \X (1 .. Len(other)) |-> a.taken[other[p[2]]] - a.taken[ref[p[1]]]]

\* Where the window begins for the next photo of the reference device.
Lower(a, other, lo, r) ==
  Min({j \in lo .. Len(other) + 1 :
         j = Len(other) + 1 \/ a.taken[other[j]] >= a.taken[r] - MaxSkewSec})

\* What the pair adds to the deltas.
Delta(a, r, o) ==
  IF a.taken[o] <= a.taken[r] + MaxSkewSec /\ cosine(a, r, o) >= AnchorSimilarity
  THEN <<a.taken[o] - a.taken[r]>> ELSE <<>>

\* One photo of the reference device.
Window(a, other, acc, r) ==
  [lo |-> Lower(a, other, acc.lo, r),
   deltas |-> acc.deltas \o
     Concat([j \in Lower(a, other, acc.lo, r) .. Len(other) |-> Delta(a, r, other[j])])]

\* Every photo before the window is too early, and none in it is.
LEMMA LowerIs ==
  ASSUME NEW F, NEW a, Clocked(a, F), NEW other \in Seq(F), NEW lo \in 1 .. Len(other) + 1, NEW r \in F,
         Ascending(a, other)
  PROVE  /\ Lower(a, other, lo, r) \in lo .. Len(other) + 1
         /\ \A j \in lo .. Lower(a, other, lo, r) - 1 : a.taken[other[j]] < a.taken[r] - MaxSkewSec
         /\ \A j \in Lower(a, other, lo, r) .. Len(other) : a.taken[other[j]] >= a.taken[r] - MaxSkewSec
<1>. DEFINE n == Len(other)
            S == {j \in lo .. n + 1 : j = n + 1 \/ a.taken[other[j]] >= a.taken[r] - MaxSkewSec}
            m == Lower(a, other, lo, r)
<1>1. n \in Nat /\ MaxSkewSec \in Int /\ a.taken[r] \in Int /\ \A j \in 1 .. n : a.taken[other[j]] \in Int
  BY GroupingAssumption DEF Clocked
<1>2. m = Min(S)
  BY DEF Lower
<1>3. S \in SUBSET Int /\ IsFiniteSet(S) /\ S # {}
  <2>1. IsFiniteSet(lo .. n + 1) /\ S \in SUBSET (lo .. n + 1)
    BY <1>1, FS_Interval
  <2>2. n + 1 \in S
    BY <1>1
  <2>3. S \in SUBSET Int
    BY <1>1
  <2>. HIDE DEF S
  <2>. QED
    BY <2>1, <2>2, <2>3, FS_Subset
<1>4. m \in S /\ \A x \in S : m <= x
  <2>. HIDE DEF S, m
  <2>. QED
    BY <1>2, <1>3, MinOf
<1>. HIDE DEF m
<1>5. m \in lo .. n + 1 /\ (m = n + 1 \/ a.taken[other[m]] >= a.taken[r] - MaxSkewSec)
  BY <1>4
<1>6. ASSUME NEW j \in lo .. m - 1
      PROVE  a.taken[other[j]] < a.taken[r] - MaxSkewSec
  <2>1. j \notin S /\ j \in 1 .. n
    BY <1>1, <1>4, <1>5
  <2>. QED
    BY <1>1, <2>1
<1>7. ASSUME NEW j \in m .. n
      PROVE  a.taken[other[j]] >= a.taken[r] - MaxSkewSec
  <2>1. j \in 1 .. n /\ m \in 1 .. n /\ (j = m \/ m < j)
    BY <1>1, <1>5
  <2>2. a.taken[other[m]] <= a.taken[other[j]]
    BY <1>1, <2>1 DEF Ascending
  <2>. QED
    BY <1>1, <1>5, <2>1, <2>2
<1>. QED
  BY <1>5, <1>6, <1>7 DEF m

\* The window of r begins at lo.
Begins(a, other, lo, r) ==
  /\ lo \in 1 .. Len(other) + 1
  /\ \A j \in 1 .. lo - 1 : a.taken[other[j]] < a.taken[r] - MaxSkewSec
  /\ \A j \in lo .. Len(other) : a.taken[other[j]] >= a.taken[r] - MaxSkewSec

\* One photo of the reference device finds all its anchors, and nothing else.
LEMMA DeltasOfOne ==
  ASSUME NEW F, NEW a, Clocked(a, F), NEW other \in Seq(F), NEW ref \in Seq(F), NEW i \in 1 .. Len(ref),
         NEW lo, Begins(a, other, lo, ref[i]),
         NEW row, row = Concat([j \in lo .. Len(other) |-> Delta(a, ref[i], other[j])])
  PROVE  /\ row \in Seq(Int)
         /\ Enumerates(row, {p \in {i} \X (1 .. Len(other)) : Anchored(a, ref[p[1]], other[p[2]])},
                       Gaps(a, ref, other))
<1>. DEFINE n == Len(other)
            r == ref[i]
            L == [j \in lo .. n |-> Delta(a, r, other[j])]
            T == {p \in {i} \X (1 .. n) : Anchored(a, ref[p[1]], other[p[2]])}
            S == Slots(L, lo .. n)
            b == [x \in S |-> <<i, x[1]>>]
<1>0. /\ lo \in 1 .. n + 1
      /\ \A j \in 1 .. lo - 1 : a.taken[other[j]] < a.taken[r] - MaxSkewSec
      /\ \A j \in lo .. n : a.taken[other[j]] >= a.taken[r] - MaxSkewSec
  BY DEF Begins
<1>1. /\ n \in Nat /\ MaxSkewSec \in Int /\ a.taken[r] \in Int /\ r \in F
      /\ \A j \in 1 .. n : a.taken[other[j]] \in Int
  BY GroupingAssumption DEF Clocked
<1>2. \A j \in lo .. n : j \in 1 .. n /\ L[j] = Delta(a, r, other[j])
  BY <1>0, <1>1
<1>3. ASSUME NEW j \in lo .. n
      PROVE  /\ L[j] \in Seq(Int) /\ (Anchored(a, r, other[j]) => Len(L[j]) = 1 /\ L[j][1] = a.taken[other[j]] - a.taken[r])
             /\ (~ Anchored(a, r, other[j]) => Len(L[j]) = 0)
  <2>1. a.taken[other[j]] \in Int /\ a.taken[other[j]] >= a.taken[r] - MaxSkewSec
    BY <1>0, <1>1, <1>2
  <2>2. a.taken[other[j]] - a.taken[r] \in -MaxSkewSec .. MaxSkewSec
          <=> a.taken[other[j]] <= a.taken[r] + MaxSkewSec
    <3>1. \A u, v, m \in Int : u >= v - m => (u - v \in -m .. m <=> u <= v + m)
      OBVIOUS
    <3>. QED
      BY <1>1, <2>1, <3>1
  <2>3. CASE Anchored(a, r, other[j])
    <3>1. L[j] = <<a.taken[other[j]] - a.taken[r]>>
      BY <1>2, <2>2, <2>3 DEF Anchored, Delta
    <3>2. a.taken[other[j]] - a.taken[r] \in Int
      BY <1>1, <2>1
    <3>. HIDE DEF L
    <3>. QED
      BY <2>3, <3>1, <3>2
  <2>4. CASE ~ Anchored(a, r, other[j])
    <3>1. L[j] = <<>>
      BY <1>2, <2>2, <2>4 DEF Anchored, Delta
    <3>. HIDE DEF L
    <3>. QED
      BY <2>4, <3>1
  <2>. QED
    BY <2>3, <2>4
<1>4. DOMAIN L = lo .. n /\ Lists(L, Int)
  <2>1. IsFiniteSet(lo .. n)
    BY <1>0, <1>1, FS_Interval
  <2>2. DOMAIN L = lo .. n /\ lo .. n \subseteq Int
    BY <1>0, <1>1
  <2>. HIDE DEF L
  <2>. QED
    BY <1>3, <2>1, <2>2 DEF Lists
<1>5. row \in Seq(Int) /\ Enumerates(row, S, At(L))
  <2>1. row = Concat(L)
    OBVIOUS
  <2>. HIDE DEF L
  <2>. QED
    BY <1>4, <2>1, ConcatPlaced DEF Placed
<1>. HIDE DEF L
<1>6. \A x : x \in S <=> \E j \in lo .. n : x = <<j, 1>> /\ Anchored(a, r, other[j])
  <2>1. ASSUME NEW x \in S
        PROVE  x[1] \in lo .. n /\ x = <<x[1], 1>> /\ Anchored(a, r, other[x[1]])
    <3>1. x = <<x[1], x[2]>> /\ x[1] \in lo .. n /\ x[2] \in 1 .. Len(L[x[1]])
      BY <2>1 DEF Slots
    <3>. HIDE DEF S
    <3>2. Anchored(a, r, other[x[1]]) /\ Len(L[x[1]]) = 1
      BY <1>3, <3>1
    <3>. QED
      BY <3>1, <3>2
  <2>2. ASSUME NEW j \in lo .. n, Anchored(a, r, other[j])
        PROVE  <<j, 1>> \in S
    BY <1>3, <2>2 DEF Slots
  <2>. HIDE DEF S
  <2>. QED
    BY <2>1, <2>2
<1>7. \A j \in 1 .. n : Anchored(a, r, other[j]) => j \in lo .. n
  <2>. SUFFICES ASSUME NEW j \in 1 .. n, Anchored(a, r, other[j]), ~ (j \in lo .. n) PROVE FALSE
    OBVIOUS
  <2>1. j \in 1 .. lo - 1
    BY <1>0, <1>1
  <2>2. a.taken[other[j]] < a.taken[r] - MaxSkewSec
    BY <1>0, <2>1
  <2>3. a.taken[other[j]] - a.taken[r] \in -MaxSkewSec .. MaxSkewSec /\ a.taken[other[j]] \in Int
    BY <1>1 DEF Anchored
  <2>4. \A u, v, m \in Int : u < v - m => u - v \notin -m .. m
    OBVIOUS
  <2>. QED
    BY <1>1, <2>2, <2>3, <2>4
<1>8. Enumerates(row, T, Gaps(a, ref, other))
  <2>1. \A x \in S : x[1] \in 1 .. n /\ x = <<x[1], 1>> /\ Anchored(a, r, other[x[1]]) /\ x[1] \in lo .. n
    BY <1>2, <1>6
  <2>2. b \in [S -> T]
    <3>. HIDE DEF S
    <3>1. \A x \in S : <<i, x[1]>> \in T
      BY <2>1
    <3>. HIDE DEF T
    <3>. QED
      BY <3>1
  <2>3. \A x \in S : b[x] = <<i, x[1]>>
    OBVIOUS
  <2>4. \A x, y \in S : b[x] = b[y] => x = y
    <3>. HIDE DEF S, b
    <3>. QED
      BY <2>1, <2>3
  <2>5. ASSUME NEW z \in T
        PROVE  \E x \in S : b[x] = z
    <3>1. z = <<i, z[2]>> /\ z[2] \in 1 .. n /\ Anchored(a, r, other[z[2]])
      OBVIOUS
    <3>2. <<z[2], 1>> \in S
      BY <1>6, <1>7, <3>1
    <3>. HIDE DEF S, b
    <3>. QED
      BY <2>3, <3>1, <3>2
  <2>6. ASSUME NEW x \in S
        PROVE  Gaps(a, ref, other)[b[x]] = At(L)[x]
    <3>1. x[1] \in 1 .. n /\ x = <<x[1], 1>> /\ Anchored(a, r, other[x[1]]) /\ x[1] \in lo .. n
      BY <2>1
    <3>2. At(L)[x] = L[x[1]][1]
      <4>1. x \in Slots(L, DOMAIN L)
        BY <1>4
      <4>. HIDE DEF S
      <4>. QED
        BY <3>1, <4>1 DEF At
    <3>3. At(L)[x] = a.taken[other[x[1]]] - a.taken[r]
      BY <1>3, <3>1, <3>2
    <3>4. <<i, x[1]>> \in (1 .. Len(ref)) \X (1 .. Len(other))
      BY <3>1
    <3>5. Gaps(a, ref, other)[<<i, x[1]>>] = a.taken[other[x[1]]] - a.taken[r]
      BY <3>4 DEF Gaps
    <3>. HIDE DEF S, b
    <3>. QED
      BY <2>3, <3>3, <3>5
  <2>. HIDE DEF S, b, T
  <2>. QED
    BY <1>5, <2>2, <2>4, <2>5, <2>6, EnumeratesAs
<1>. QED
  BY <1>5, <1>8

-----------------------------------------------------------------------------
(* The sliding window: all photos of the reference device                  *)

\* The window before the first photo.
Window0 == [lo |-> 1, deltas |-> <<>>]

\* iter[1 .. k] is what the first k photos of ref have found.
Windows(iter, a, ref, other) ==
  \A s \in SUBSET (1 .. Len(ref)) :
    iter[s] = IF s = {} THEN Window0
              ELSE Window(a, other, iter[s \ {Max(s)}], ref[Max(s)])

\* The window stays in the list of the other device.
LEMMA WindowType ==
  ASSUME NEW F, NEW a, Clocked(a, F), NEW other \in Seq(F), Ascending(a, other), NEW r \in F,
         NEW acc \in [lo : 1 .. Len(other) + 1, deltas : Seq(Int)]
  PROVE  Window(a, other, acc, r) \in [lo : 1 .. Len(other) + 1, deltas : Seq(Int)]
<1>. DEFINE lo == Lower(a, other, acc.lo, r)
            L == [j \in lo .. Len(other) |-> Delta(a, r, other[j])]
<1>1. acc.lo \in 1 .. Len(other) + 1 /\ acc.deltas \in Seq(Int) /\ Len(other) \in Nat
  OBVIOUS
<1>2. lo \in 1 .. Len(other) + 1
  <2>1. lo \in acc.lo .. Len(other) + 1
    BY <1>1, LowerIs
  <2>. HIDE DEF lo
  <2>. QED
    BY <1>1, <2>1
<1>. HIDE DEF lo
<1>3. Lists(L, Int)
  <2>1. \A j \in lo .. Len(other) : j \in 1 .. Len(other)
    BY <1>1, <1>2
  <2>2. \A j \in lo .. Len(other) : Delta(a, r, other[j]) \in Seq(Int)
    BY <2>1 DEF Delta, Clocked
  <2>3. IsFiniteSet(lo .. Len(other)) /\ lo .. Len(other) \subseteq Int
    BY <1>1, <1>2, FS_Interval
  <2>. QED
    BY <2>2, <2>3 DEF Lists
<1>4. Concat(L) \in Seq(Int)
  <2>. HIDE DEF L
  <2>. QED
    BY <1>3, ConcatPlaced
<1>5. Window(a, other, acc, r) = [lo |-> lo, deltas |-> acc.deltas \o Concat(L)]
  BY DEF Window, lo
<1>. HIDE DEF L
<1>6. acc.deltas \o Concat(L) \in Seq(Int)
  BY <1>1, <1>4
<1>. QED
  BY <1>2, <1>5, <1>6

\* pairDeltas takes the photos of the reference device one by one.
LEMMA pairDeltasFold ==
  ASSUME NEW F, NEW a, Clocked(a, F), NEW ref \in Seq(F), NEW other \in Seq(F), Ascending(a, other)
  PROVE  \E iter : pairDeltas(a, ref, other) = iter[1 .. Len(ref)].deltas /\ Windows(iter, a, ref, other)
<1>. DEFINE D == 1 .. Len(ref)
            T == [lo : 1 .. Len(other) + 1, deltas : Seq(Int)]
            step == [z \in D \X T |-> Window(a, other, z[2], ref[z[1]])]
            Fix(iter) == iter = [s \in SUBSET D |-> IF s = {} THEN Window0
                            ELSE Window(a, other, iter[s \ {Max(s)}], ref[Max(s)])]
            iter == CHOOSE iter : Fix(iter)
<1>1. D \in SUBSET Int /\ IsFiniteSet(D) /\ Window0 \in T
  <2>1. Window0 \in T
    BY DEF Window0
  <2>. QED
    BY <2>1, FS_Interval
<1>2. ASSUME NEW x \in D, NEW y \in T
      PROVE  step[<<x, y>>] = Window(a, other, y, ref[x]) /\ step[<<x, y>>] \in T
  <2>1. step[<<x, y>>] = Window(a, other, y, ref[x])
    OBVIOUS
  <2>2. Window(a, other, y, ref[x]) \in T
    <3>1. ref[x] \in F
      OBVIOUS
    <3>. QED
      BY <3>1, WindowType
  <2>. HIDE DEF step
  <2>. QED
    BY <2>1, <2>2
<1>3. PICK f \in [SUBSET D -> T] : FoldsLeft(f, D, step, Window0)
  <2>1. Steps(step, D, T)
    BY <1>2 DEF Steps
  <2>. HIDE DEF step, D, T
  <2>. QED
    BY <1>1, <2>1, LeftFold
<1>4. ASSUME NEW s \in SUBSET D
      PROVE  f[s] = IF s = {} THEN Window0 ELSE Window(a, other, f[s \ {Max(s)}], ref[Max(s)])
  <2>. HIDE DEF step, T
  <2>1. CASE s = {}
    BY <1>3, <2>1 DEF FoldsLeft
  <2>2. CASE s # {}
    <3>1. s \in SUBSET Int /\ IsFiniteSet(s)
      BY <1>1, FS_Subset
    <3>2. Max(s) \in D /\ s \ {Max(s)} \in SUBSET D
      BY <2>2, <3>1, MaxOf
    <3>3. f[s \ {Max(s)}] \in T
      BY <3>2
    <3>. HIDE DEF D
    <3>. QED
      BY <1>2, <1>3, <2>2, <3>2, <3>3 DEF FoldsLeft
  <2>. QED
    BY <2>1, <2>2
<1>5. Fix(f)
  <2>. HIDE DEF D
  <2>. QED
    BY <1>4
<1>6. Fix(iter)
  <2>. HIDE DEF Fix
  <2>. QED
    BY <1>5
<1>7. DOMAIN ref = D
  OBVIOUS
<1>8. pairDeltas(a, ref, other) = iter[D].deltas
  BY <1>7 DEF pairDeltas, FoldLeft, MapThenFoldSet, Window, Window0, Lower, Delta
<1>. HIDE DEF iter
<1>9. Windows(iter, a, ref, other)
  BY <1>6 DEF Windows
<1>. QED
  BY <1>8, <1>9

\* What is known when k photos of the reference device have had their turn.
Found(acc, a, ref, other, k) ==
  /\ acc \in [lo : 1 .. Len(other) + 1, deltas : Seq(Int)]
  /\ Enumerates(acc.deltas, Met(a, ref, other, k), Gaps(a, ref, other))
  /\ \A j \in 1 .. acc.lo - 1 : k > 0 /\ a.taken[other[j]] < a.taken[ref[k]] - MaxSkewSec

\* One more photo adds the anchors it is part of: those before the window are too early for it.
LEMMA FoundMore ==
  ASSUME NEW F, NEW a, Clocked(a, F), NEW ref \in Seq(F), NEW other \in Seq(F),
         Ascending(a, ref), Ascending(a, other), NEW k \in 1 .. Len(ref), NEW acc,
         Found(acc, a, ref, other, k - 1)
  PROVE  Found(Window(a, other, acc, ref[k]), a, ref, other, k)
<1>. DEFINE n == Len(other)
            r == ref[k]
            lo == Lower(a, other, acc.lo, r)
            new == Window(a, other, acc, r)
            row == Concat([j \in lo .. n |-> Delta(a, r, other[j])])
            T == {p \in {k} \X (1 .. n) : Anchored(a, ref[p[1]], other[p[2]])}
            old == Met(a, ref, other, k - 1)
            gaps == Gaps(a, ref, other)
<1>1. /\ n \in Nat /\ MaxSkewSec \in Int /\ r \in F /\ \A j \in 1 .. n : a.taken[other[j]] \in Int
      /\ \A j \in 1 .. Len(ref) : a.taken[ref[j]] \in Int
  BY GroupingAssumption DEF Clocked
<1>2. /\ acc \in [lo : 1 .. n + 1, deltas : Seq(Int)] /\ acc.lo \in 1 .. n + 1 /\ acc.deltas \in Seq(Int)
      /\ Enumerates(acc.deltas, old, gaps)
      /\ \A j \in 1 .. acc.lo - 1 : k - 1 > 0 /\ a.taken[other[j]] < a.taken[ref[k - 1]] - MaxSkewSec
  BY DEF Found
<1>3. new \in [lo : 1 .. n + 1, deltas : Seq(Int)]
  BY <1>1, <1>2, WindowType
<1>4. new.lo = lo /\ new.deltas = acc.deltas \o row
  BY DEF Window
<1>5. /\ lo \in acc.lo .. n + 1
      /\ \A j \in acc.lo .. lo - 1 : a.taken[other[j]] < a.taken[r] - MaxSkewSec
      /\ \A j \in lo .. n : a.taken[other[j]] >= a.taken[r] - MaxSkewSec
  BY <1>1, <1>2, LowerIs
<1>. HIDE DEF lo, new
<1>6. ASSUME NEW j \in 1 .. lo - 1
      PROVE  a.taken[other[j]] < a.taken[r] - MaxSkewSec
  <2>1. CASE j \in acc.lo .. lo - 1
    BY <1>5, <2>1
  <2>2. CASE ~ (j \in acc.lo .. lo - 1)
    <3>1. j \in 1 .. acc.lo - 1 /\ j \in 1 .. n
      BY <1>1, <1>2, <1>5, <2>2
    <3>2. k - 1 \in 1 .. Len(ref) /\ a.taken[other[j]] < a.taken[ref[k - 1]] - MaxSkewSec
      BY <1>2, <3>1
    <3>3. a.taken[ref[k - 1]] <= a.taken[ref[k]]
      BY <3>2 DEF Ascending
    <3>4. \A u, v, w, m \in Int : u < v - m /\ v <= w => u < w - m
      OBVIOUS
    <3>. QED
      BY <1>1, <3>1, <3>2, <3>3, <3>4
  <2>. QED
    BY <2>1, <2>2
<1>7. lo \in 1 .. n + 1
  BY <1>1, <1>2, <1>5
<1>8. row \in Seq(Int) /\ Enumerates(row, T, gaps)
  <2>. HIDE DEF T, gaps, row
  <2>1. row = Concat([j \in lo .. Len(other) |-> Delta(a, ref[k], other[j])])
    BY DEF row
  <2>2. row \in Seq(Int) /\ Enumerates(row, {p \in {k} \X (1 .. Len(other)) : Anchored(a, ref[p[1]], other[p[2]])},
                       Gaps(a, ref, other))
    <3>1. Begins(a, other, lo, ref[k])
      BY <1>5, <1>6, <1>7 DEF Begins
    <3>. QED
      BY <2>1, <3>1, DeltasOfOne
  <2>. QED
    BY <2>2 DEF T, gaps
<1>9. old \cap T = {} /\ Met(a, ref, other, k) = old \cup T
  <2>1. \A p \in old : p[1] # k
    BY DEF Met
  <2>2. \A p \in T : p[1] = k
    OBVIOUS
  <2>3. old \cap T = {}
    BY <2>1, <2>2
  <2>4. ASSUME NEW p
        PROVE  p \in Met(a, ref, other, k) <=> p \in old \/ p \in T
    <3>1. 1 .. k = (1 .. (k - 1)) \cup {k}
      OBVIOUS
    <3>. QED
      BY <3>1 DEF Met
  <2>. HIDE DEF old, T
  <2>. QED
    BY <2>3, <2>4
<1>10. Enumerates(acc.deltas \o row, old \cup T, gaps)
  <2>. HIDE DEF old, T, gaps, row
  <2>. QED
    BY <1>2, <1>8, <1>9, EnumeratesMore
<1>11. \A j \in 1 .. new.lo - 1 : k > 0 /\ a.taken[other[j]] < a.taken[ref[k]] - MaxSkewSec
  BY <1>4, <1>6
<1>12. Found(new, a, ref, other, k)
  <2>. HIDE DEF old, T, row
  <2>. QED
    BY <1>3, <1>4, <1>9, <1>10, <1>11 DEF Found
<1>. QED
  BY <1>12 DEF new

\* The window never passes an anchor: the deltas are the offsets of all anchors
\* between the two devices, each once.
LEMMA pairDeltasFinds ==
  ASSUME NEW F, NEW a, Clocked(a, F), NEW ref \in Seq(F), NEW other \in Seq(F),
         Ascending(a, ref), Ascending(a, other), NEW deltas, deltas = pairDeltas(a, ref, other)
  PROVE  /\ deltas \in Seq(Int)
         /\ Enumerates(deltas, Met(a, ref, other, Len(ref)), Gaps(a, ref, other))
<1>. DEFINE n == Len(ref)
<1>1. PICK iter : pairDeltas(a, ref, other) = iter[1 .. n].deltas /\ Windows(iter, a, ref, other)
  BY pairDeltasFold
<1>. DEFINE Good == {k \in 0 .. n : Found(iter[1 .. k], a, ref, other, k)}
<1>2. n \in Nat
  OBVIOUS
<1>3. 0 \in Good
  <2>1. 1 .. 0 = {}
    OBVIOUS
  <2>2. iter[1 .. 0] = Window0
    BY <2>1, <1>1 DEF Windows
  <2>3. Met(a, ref, other, 0) = {}
    BY <2>1 DEF Met
  <2>4. Enumerates(<<>>, {}, Gaps(a, ref, other))
    <3>1. [k \in {} |-> k] \in [{} -> {}] /\ 1 .. Len(<<>>) = {}
      OBVIOUS
    <3>. QED
      BY <3>1 DEF Enumerates
  <2>5. Window0.deltas = <<>> /\ 1 .. Window0.lo - 1 = {} /\ Window0 \in [lo : 1 .. Len(other) + 1, deltas : Seq(Int)]
    BY DEF Window0
  <2>6. Found(Window0, a, ref, other, 0)
    BY <2>3, <2>4, <2>5 DEF Found
  <2>7. 0 \in 0 .. n
    BY <1>2
  <2>. HIDE DEF n
  <2>. QED
    BY <2>2, <2>6, <2>7
<1>4. ASSUME NEW k \in 1 .. n, k - 1 \in Good
      PROVE  k \in Good
  <2>1. 1 .. k \in SUBSET (1 .. n) /\ 1 .. k # {} /\ Max(1 .. k) = k /\ (1 .. k) \ {k} = 1 .. (k - 1)
    BY <1>2, LastOfFirst
  <2>2. iter[1 .. k] = Window(a, other, iter[1 .. (k - 1)], ref[k])
    BY <1>1, <2>1 DEF Windows
  <2>3. Found(iter[1 .. (k - 1)], a, ref, other, k - 1)
    BY <1>4
  <2>4. Found(iter[1 .. k], a, ref, other, k)
    BY <2>2, <2>3, FoundMore
  <2>5. k \in 0 .. n
    BY <1>2
  <2>. QED
    BY <2>4, <2>5
<1>5. 0 .. n \subseteq Good
  <2>. HIDE DEF Good, n
  <2>. QED
    BY <1>2, <1>3, <1>4, CountingUp
<1>6. Found(iter[1 .. n], a, ref, other, n)
  <2>1. n \in 0 .. n
    BY <1>2
  <2>. HIDE DEF n
  <2>. QED
    BY <1>5, <2>1
<1>. QED
  BY <1>1, <1>6 DEF Found

-----------------------------------------------------------------------------
(* The median                                                              *)

\* Sets that correspond one to one have the same size.
LEMMA SameSize ==
  ASSUME NEW S, IsFiniteSet(S), NEW T, NEW f \in [S -> T],
         \A x, y \in S : f[x] = f[y] => x = y, \A z \in T : \E x \in S : f[x] = z
  PROVE  IsFiniteSet(T) /\ Cardinality(T) = Cardinality(S)
<1>1. f \in Bijection(S, T)
  BY DEF Bijection, Injection, Surjection, IsInjective
<1>. QED
  BY <1>1, FS_Bijection DEF ExistsBijection

\* How many elements of S have the value x, and how often x is listed.
Votes(S, val, x) == Cardinality({s \in S : val[s] = x})

\* How often q says x.
Times(q, x) == Cardinality({k \in 1 .. Len(q) : q[k] = x})

\* An enumeration counts what it lists.
LEMMA EnumeratesCounts ==
  ASSUME NEW V, NEW q \in Seq(V), NEW S, NEW val, Enumerates(q, S, val)
  PROVE  /\ IsFiniteSet(S) /\ Cardinality(S) = Len(q)
         /\ \A x : Votes(S, val, x) = Times(q, x)
<1>1. PICK at \in [1 .. Len(q) -> S] :
        /\ \A k \in 1 .. Len(q) : q[k] = val[at[k]]
        /\ \A k, l \in 1 .. Len(q) : at[k] = at[l] => k = l
        /\ \A x \in S : \E k \in 1 .. Len(q) : at[k] = x
  BY DEF Enumerates
<1>2. IsFiniteSet(1 .. Len(q)) /\ Cardinality(1 .. Len(q)) = Len(q)
  BY FS_Interval
<1>3. IsFiniteSet(S) /\ Cardinality(S) = Len(q)
  BY <1>1, <1>2, SameSize
<1>4. ASSUME NEW x
      PROVE  Votes(S, val, x) = Times(q, x)
  <2>. DEFINE K == {k \in 1 .. Len(q) : q[k] = x}
              T == {s \in S : val[s] = x}
              f == [k \in K |-> at[k]]
  <2>1. IsFiniteSet(K)
    <3>1. K \in SUBSET (1 .. Len(q))
      OBVIOUS
    <3>. HIDE DEF K
    <3>. QED
      BY <1>2, <3>1, FS_Subset
  <2>2. f \in [K -> T]
    BY <1>1
  <2>3. \A k, l \in K : f[k] = f[l] => k = l
    BY <1>1
  <2>4. \A z \in T : \E k \in K : f[k] = z
    BY <1>1
  <2>. HIDE DEF K, T, f
  <2>5. Cardinality(T) = Cardinality(K)
    BY <2>1, <2>2, <2>3, <2>4, SameSize
  <2>. QED
    BY <2>5 DEF K, T, Votes, Times
<1>. QED
  BY <1>3, <1>4

(* The median                                                              *)

\* ys is ascending, and fewer than half of it is x on either side of its middle.
LEMMA MiddleIsMajority ==
  ASSUME NEW n \in Nat, n > 0, NEW ys \in [1 .. n -> Int],
         \A i, j \in 1 .. n : i < j => ys[i] <= ys[j],
         NEW x, 2 * Cardinality({i \in 1 .. n : ys[i] = x}) > n
  PROVE  ys[n \div 2 + 1] = x /\ (n % 2 = 0 => ys[n \div 2] = x)
<1>. DEFINE P == {i \in 1 .. n : ys[i] = x}
            h == n \div 2
<1>1. h \in Nat /\ h + 1 \in 1 .. n /\ (n = 2 * h \/ n = 2 * h + 1) /\ (n % 2 = 0 => n = 2 * h)
      /\ (n % 2 = 0 => h \in 1 .. n)
  OBVIOUS
<1>. HIDE DEF h
<1>2. P # {}
  <2>. SUFFICES ASSUME P = {} PROVE FALSE
    OBVIOUS
  <2>1. Cardinality(P) = 0
    <3>. HIDE DEF P
    <3>. QED
      BY FS_EmptySet
  <2>. QED
    BY <2>1
<1>3. x \in Int
  BY <1>2
<1>4. ASSUME NEW l \in 1 .. n + 1, NEW m \in 0 .. n, P \subseteq l .. m
      PROVE  2 * (m - l + 1) > n
  <2>1. IsFiniteSet(l .. m) /\ Cardinality(l .. m) = IF l > m THEN 0 ELSE m - l + 1
    BY FS_Interval
  <2>2. Cardinality(P) <= Cardinality(l .. m) /\ Cardinality(P) \in Nat
    <3>1. P \in SUBSET (l .. m)
      BY <1>4
    <3>. HIDE DEF P
    <3>2. IsFiniteSet(P) /\ Cardinality(P) <= Cardinality(l .. m)
      BY <2>1, <3>1, FS_Subset
    <3>. QED
      BY <3>2, FS_CardinalityType
  <2>3. 2 * Cardinality(P) > n
    OBVIOUS
  <2>. HIDE DEF P
  <2>. QED
    BY <2>1, <2>2, <2>3
<1>5. ASSUME NEW i \in 1 .. n, ys[i] # x
      PROVE  P \subseteq 1 .. i - 1 \/ P \subseteq i + 1 .. n
  <2>1. CASE ys[i] > x
    <3>1. \A j \in P : ~ (i < j) /\ i # j
      BY <1>3, <2>1
    <3>. QED
      BY <3>1
  <2>2. CASE ys[i] < x
    <3>1. \A j \in P : ~ (j < i) /\ i # j
      BY <1>3, <2>2
    <3>. QED
      BY <3>1
  <2>. QED
    BY <1>3, <1>5, <2>1, <2>2
<1>6. ys[h + 1] = x
  <2>. SUFFICES ASSUME ys[h + 1] # x PROVE FALSE
    OBVIOUS
  <2>1. CASE P \subseteq 1 .. (h + 1) - 1
    <3>1. 1 \in 1 .. n + 1 /\ (h + 1) - 1 \in 0 .. n
      BY <1>1
    <3>2. 2 * (((h + 1) - 1) - 1 + 1) > n
      BY <1>4, <2>1, <3>1
    <3>. QED
      BY <1>1, <3>2
  <2>2. CASE P \subseteq (h + 1) + 1 .. n
    <3>1. (h + 1) + 1 \in 1 .. n + 1 /\ n \in 0 .. n
      BY <1>1
    <3>2. 2 * (n - ((h + 1) + 1) + 1) > n
      BY <1>4, <2>2, <3>1
    <3>. QED
      BY <1>1, <3>2
  <2>. QED
    BY <1>1, <1>5, <2>1, <2>2
<1>7. ASSUME n % 2 = 0
      PROVE  ys[h] = x
  <2>. SUFFICES ASSUME ys[h] # x PROVE FALSE
    OBVIOUS
  <2>1. CASE P \subseteq 1 .. h - 1
    <3>1. 1 \in 1 .. n + 1 /\ h - 1 \in 0 .. n
      BY <1>1, <1>7
    <3>2. 2 * ((h - 1) - 1 + 1) > n
      BY <1>4, <2>1, <3>1
    <3>. QED
      BY <1>1, <3>2
  <2>2. CASE P \subseteq h + 1 .. n
    <3>1. h + 1 \in 1 .. n + 1 /\ n \in 0 .. n
      BY <1>1
    <3>2. 2 * (n - (h + 1) + 1) > n
      BY <1>4, <2>2, <3>1
    <3>. QED
      BY <1>1, <1>7, <3>2
  <2>. QED
    BY <1>1, <1>5, <1>7, <2>1, <2>2
<1>. QED
  BY <1>6, <1>7 DEF h

\* The median is what most of the list says, whatever the rest says, and lies in its range.
LEMMA medianInt64Is ==
  ASSUME NEW xs \in Seq(Int), xs # <<>>
  PROVE  /\ medianInt64(xs) \in Int
         /\ \A x : 2 * Times(xs, x) > Len(xs) => medianInt64(xs) = x
         /\ \A l, u \in Int : (\A k \in 1 .. Len(xs) : xs[k] \in l .. u) => medianInt64(xs) \in l .. u
<1>. DEFINE n == Len(xs)
            S == 1 .. n
            order == Sorted(S, earlier(S, xs))
            ys == [i \in 1 .. n |-> xs[order[i]]]
            h == n \div 2
            sum == ys[h] + ys[h + 1]
<1>1. n \in Nat /\ n > 0 /\ IsFiniteSet(S) /\ Cardinality(S) = n
  BY FS_Interval
<1>2. Timed(S, xs)
  BY <1>1 DEF Timed
<1>3. order = sortRunFiles(S, xs)
  BY DEF sortRunFiles
<1>. HIDE DEF order
<1>4. /\ order \in Seq(S) /\ \A x \in S : \E i \in 1 .. Len(order) : order[i] = x
      /\ \A i, j \in 1 .. Len(order) : i < j <=> <<order[i], order[j]>> \in earlier(S, xs)
      /\ \A i, j \in 1 .. Len(order) : order[i] = order[j] => i = j
  <2>. HIDE DEF S
  <2>. QED
    BY <1>2, <1>3, sortRunFilesLists
<1>5. Len(order) = n
  <2>. HIDE DEF S, n
  <2>1. Enumerates(order, S, [x \in S |-> x])
    BY <1>4, EnumeratesSet
  <2>. QED
    BY <1>1, <1>4, <2>1, EnumeratesCounts
<1>6. \A i \in 1 .. n : order[i] \in 1 .. n /\ ys[i] = xs[order[i]] /\ ys[i] \in Int
  <2>. SUFFICES ASSUME NEW i \in 1 .. n
                PROVE  order[i] \in 1 .. n /\ ys[i] = xs[order[i]] /\ ys[i] \in Int
    OBVIOUS
  <2>1. order[i] \in S
    <3>1. order \in Seq(S) /\ i \in 1 .. Len(order)
      BY <1>4, <1>5
    <3>. HIDE DEF S, n
    <3>. QED
      BY <3>1
  <2>2. ys[i] = xs[order[i]]
    OBVIOUS
  <2>. HIDE DEF ys
  <2>. QED
    BY <2>1, <2>2
<1>7. ys \in [1 .. n -> Int]
  BY <1>6
<1>. HIDE DEF ys
<1>8. \A i, j \in 1 .. n : i < j => ys[i] <= ys[j]
  <2>. SUFFICES ASSUME NEW i \in 1 .. n, NEW j \in 1 .. n, i < j PROVE ys[i] <= ys[j]
    OBVIOUS
  <2>1. <<order[i], order[j]>> \in earlier(S, xs)
    BY <1>4, <1>5
  <2>2. xs[order[i]] <= xs[order[j]]
    <3>1. xs[order[i]] \in Int /\ xs[order[j]] \in Int /\ xs[order[i]] # None /\ xs[order[j]] # None
      BY <1>6, GroupingAssumption
    <3>. QED
      BY <2>1, <3>1 DEF earlier
  <2>. QED
    BY <1>6, <2>2
<1>9. h \in Nat /\ h + 1 \in 1 .. n /\ (n % 2 # 1 => n % 2 = 0 /\ h \in 1 .. n)
  BY <1>1
<1>10. medianInt64(xs) = IF n % 2 = 1 THEN ys[h + 1]
                         ELSE IF sum >= 0 THEN sum \div 2 ELSE -((-sum) \div 2)
  <2>1. medianInt64(xs) = IF n % 2 = 1 THEN xs[order[h + 1]]
                          ELSE IF xs[order[h]] + xs[order[h + 1]] >= 0
                               THEN (xs[order[h]] + xs[order[h + 1]]) \div 2
                               ELSE -((-(xs[order[h]] + xs[order[h + 1]])) \div 2)
    BY DEF medianInt64, order
  <2>. HIDE DEF h
  <2>. QED
    BY <1>6, <1>9, <2>1
<1>. HIDE DEF h, n
<1>11. medianInt64(xs) \in Int
  BY <1>6, <1>9, <1>10
<1>12. ASSUME NEW x, 2 * Times(xs, x) > n
       PROVE  medianInt64(xs) = x
  <2>. DEFINE K == {k \in 1 .. n : xs[k] = x}
              P == {i \in 1 .. n : ys[i] = x}
              f == [i \in P |-> order[i]]
  <2>1. IsFiniteSet(P) /\ IsFiniteSet(1 .. n)
    <3>1. P \in SUBSET (1 .. n)
      OBVIOUS
    <3>. HIDE DEF P
    <3>. QED
      BY <1>1, <3>1, FS_Subset
  <2>2. f \in [P -> K]
    BY <1>6
  <2>3. \A i, j \in P : f[i] = f[j] => i = j
    BY <1>4, <1>5
  <2>4. ASSUME NEW z \in K
        PROVE  \E i \in P : f[i] = z
    <3>1. PICK i \in 1 .. n : order[i] = z
      BY <1>4, <1>5
    <3>2. i \in P
      BY <1>6, <3>1
    <3>. QED
      BY <3>1, <3>2
  <2>5. Cardinality(P) = Cardinality(K)
    <3>. HIDE DEF P, K, f
    <3>. QED
      BY <2>1, <2>2, <2>3, <2>4, SameSize
  <2>6. 2 * Cardinality({i \in 1 .. n : ys[i] = x}) > n
    BY <1>12, <2>5 DEF Times, n
  <2>7. ys[n \div 2 + 1] = x /\ (n % 2 = 0 => ys[n \div 2] = x)
    BY <1>1, <1>7, <1>8, <2>6, MiddleIsMajority
  <2>8. ys[h + 1] = x /\ (n % 2 = 0 => ys[h] = x) /\ x \in Int
    BY <1>6, <1>9, <2>7 DEF h
  <2>9. \A z \in Int : (z + z >= 0 => (z + z) \div 2 = z) /\ (~ (z + z >= 0) => -((-(z + z)) \div 2) = z)
    OBVIOUS
  <2>. QED
    BY <1>9, <1>10, <2>8, <2>9
<1>13. ASSUME NEW l \in Int, NEW u \in Int, \A k \in 1 .. n : xs[k] \in l .. u
       PROVE  medianInt64(xs) \in l .. u
  <2>1. \A i \in 1 .. n : ys[i] \in l .. u
    BY <1>6, <1>13
  <2>2. \A y, z \in l .. u : /\ y + z >= 0 => (y + z) \div 2 \in l .. u
                             /\ ~ (y + z >= 0) => -((-(y + z)) \div 2) \in l .. u
    <3>. SUFFICES ASSUME NEW y \in l .. u, NEW z \in l .. u
                  PROVE  /\ y + z >= 0 => (y + z) \div 2 \in l .. u
                         /\ ~ (y + z >= 0) => -((-(y + z)) \div 2) \in l .. u
      OBVIOUS
    <3>. QED
      BY Z3
  <2>. QED
    BY <1>9, <1>10, <2>1, <2>2
<1>. QED
  BY <1>11, <1>12, <1>13 DEF n

-----------------------------------------------------------------------------
(* The skew of every device                                                *)

\* Photos with a capture time.
Dated(a) == {f \in Photo : a.taken[f] # None}

\* Photos are finitely many numbers.
LEMMA PhotosFinite ==
  ASSUME NEW S \in SUBSET Photo
  PROVE  IsFiniteSet(S) /\ S \subseteq Int
<1>1. IsFiniteSet(Photo) /\ Photo \subseteq Int
  BY GroupingAssumption, FS_Interval DEF Photo
<1>. QED
  BY <1>1, FS_Subset

\* In an album a time is a number or NULL.
LEMMA DatedClocked ==
  ASSUME NEW a \in Albums
  PROVE  Clocked(a, Dated(a)) /\ \A f \in Photo : a.taken[f] \in Int \cup {None}
BY DEF Albums, Clocked, Dated

\* q lists the photos of S, all with a time, in the order of time.
InOrder(a, S, q) ==
  /\ q \in Seq(S) /\ q \in Seq(Dated(a)) /\ Ascending(a, q)
  /\ \A x \in S : \E i \in 1 .. Len(q) : q[i] = x
  /\ \A i, j \in 1 .. Len(q) : q[i] = q[j] => i = j

\* The usable photos of a device stand in the order of time.
LEMMA UsableLists ==
  ASSUME NEW a \in Albums, NEW files \in SUBSET Photo, NEW embeds, NEW d,
         NEW q, q = sortRunFiles(Usable(a, files, embeds, d), a.taken)
  PROVE  InOrder(a, Usable(a, files, embeds, d), q)
<1>. DEFINE U == Usable(a, files, embeds, d)
<1>1. U \in SUBSET Photo /\ U \in SUBSET Dated(a)
  BY DEF Usable, Dated
<1>. HIDE DEF U
<1>2. Timed(U, a.taken)
  BY <1>1, PhotosFinite, DatedClocked DEF Timed
<1>3. q = sortRunFiles(U, a.taken)
  BY DEF U
<1>4. /\ q \in Seq(U) /\ \A x \in U : \E i \in 1 .. Len(q) : q[i] = x
      /\ \A i, j \in 1 .. Len(q) : i < j <=> <<q[i], q[j]>> \in earlier(U, a.taken)
      /\ \A i, j \in 1 .. Len(q) : q[i] = q[j] => i = j
  BY <1>2, <1>3, sortRunFilesLists
<1>5. q \in Seq(Dated(a))
  <2>1. Len(q) \in Nat /\ \A i \in 1 .. Len(q) : q[i] \in Dated(a)
    BY <1>1, <1>4
  <2>2. q = [i \in 1 .. Len(q) |-> q[i]]
    BY <1>4
  <2>. QED
    BY <2>1, <2>2
<1>6. Ascending(a, q)
  <2>. SUFFICES ASSUME NEW i \in 1 .. Len(q), NEW j \in 1 .. Len(q), i < j
                PROVE  a.taken[q[i]] <= a.taken[q[j]]
    BY DEF Ascending
  <2>1. <<q[i], q[j]>> \in earlier(U, a.taken)
    BY <1>4
  <2>2. a.taken[q[i]] \in Int /\ a.taken[q[j]] \in Int /\ a.taken[q[i]] # None /\ a.taken[q[j]] # None
    BY <1>5, DatedClocked DEF Clocked, Dated
  <2>. QED
    BY <2>1, <2>2 DEF earlier
<1>. QED
  BY <1>4, <1>5, <1>6 DEF U, InOrder

\* The offsets of all pairs.
Offsets(a) == [p \in Photo \X Photo |-> Offset(a, p)]

\* The list the median is taken of holds the offsets of the anchors, each once.
LEMMA DeltasAreAnchors ==
  ASSUME NEW a \in Albums, NEW files \in SUBSET Photo, NEW embeds, NEW d, NEW ref, NEW other, NEW deltas,
         ref = sortRunFiles(Usable(a, files, embeds, Reference(a, files, embeds)), a.taken),
         other = sortRunFiles(Usable(a, files, embeds, d), a.taken),
         deltas = pairDeltas(a, ref, other)
  PROVE  deltas \in Seq(Int) /\ Enumerates(deltas, Anchors(a, files, embeds, d), Offsets(a))
<1>. DEFINE R == Usable(a, files, embeds, Reference(a, files, embeds))
            U == Usable(a, files, embeds, d)
            S == Met(a, ref, other, Len(ref))
            T == Anchors(a, files, embeds, d)
            b == [x \in S |-> <<ref[x[1]], other[x[2]]>>]
<1>0. ref = sortRunFiles(R, a.taken) /\ other = sortRunFiles(U, a.taken)
  OBVIOUS
<1>1. /\ R \subseteq Photo /\ U \subseteq Photo
      /\ InOrder(a, R, ref) /\ InOrder(a, U, other)
  <2>1. R \subseteq Photo /\ U \subseteq Photo
    BY DEF Usable
  <2>2. InOrder(a, Usable(a, files, embeds, Reference(a, files, embeds)), ref)
    BY UsableLists
  <2>3. InOrder(a, Usable(a, files, embeds, d), other)
    BY UsableLists
  <2>. QED
    BY <2>1, <2>2, <2>3
<1>2. /\ ref \in Seq(R) /\ ref \in Seq(Dated(a)) /\ Ascending(a, ref)
      /\ \A x \in R : \E i \in 1 .. Len(ref) : ref[i] = x
      /\ \A i, j \in 1 .. Len(ref) : ref[i] = ref[j] => i = j
  BY <1>1 DEF InOrder
<1>3. /\ other \in Seq(U) /\ other \in Seq(Dated(a)) /\ Ascending(a, other)
      /\ \A x \in U : \E i \in 1 .. Len(other) : other[i] = x
      /\ \A i, j \in 1 .. Len(other) : other[i] = other[j] => i = j
  BY <1>1 DEF InOrder
<1>4. deltas \in Seq(Int) /\ Enumerates(deltas, S, Gaps(a, ref, other))
  BY <1>2, <1>3, DatedClocked, pairDeltasFinds
<1>5. \A p : p \in T <=> p \in R \X U /\ Anchored(a, p[1], p[2])
  BY DEF Anchors, Anchored, Offset
<1>. HIDE DEF R, U, T
<1>6. \A x : x \in S <=> /\ x = <<x[1], x[2]>> /\ x[1] \in 1 .. Len(ref) /\ x[2] \in 1 .. Len(other)
                         /\ Anchored(a, ref[x[1]], other[x[2]])
  BY DEF Met
<1>. HIDE DEF S
<1>7. ASSUME NEW x \in S
      PROVE  /\ b[x] = <<ref[x[1]], other[x[2]]>> /\ ref[x[1]] \in R /\ other[x[2]] \in U
             /\ b[x] \in T /\ Offsets(a)[b[x]] = Gaps(a, ref, other)[x]
  <2>1. b[x] = <<ref[x[1]], other[x[2]]>>
    OBVIOUS
  <2>. HIDE DEF b
  <2>2. ref[x[1]] \in R /\ other[x[2]] \in U /\ Anchored(a, ref[x[1]], other[x[2]])
    BY <1>2, <1>3, <1>6
  <2>3. b[x] \in T
    BY <1>5, <2>1, <2>2
  <2>4. Offsets(a)[b[x]] = a.taken[other[x[2]]] - a.taken[ref[x[1]]]
    BY <1>1, <2>1, <2>2 DEF Offsets, Offset
  <2>5. Gaps(a, ref, other)[x] = a.taken[other[x[2]]] - a.taken[ref[x[1]]]
    <3>1. x \in (1 .. Len(ref)) \X (1 .. Len(other))
      BY <1>6
    <3>. QED
      BY <3>1 DEF Gaps
  <2>. QED
    BY <2>1, <2>2, <2>3, <2>4, <2>5
<1>8. b \in [S -> T]
  BY <1>7
<1>. HIDE DEF b
<1>9. ASSUME NEW x \in S, NEW y \in S, b[x] = b[y]
      PROVE  x = y
  <2>1. ref[x[1]] = ref[y[1]] /\ other[x[2]] = other[y[2]]
    BY <1>7, <1>9
  <2>2. x[1] = y[1] /\ x[2] = y[2]
    BY <1>2, <1>3, <1>6, <2>1
  <2>. QED
    BY <1>6, <2>2
<1>10. ASSUME NEW z \in T
       PROVE  \E x \in S : b[x] = z
  <2>1. z = <<z[1], z[2]>> /\ z[1] \in R /\ z[2] \in U /\ Anchored(a, z[1], z[2])
    BY <1>5
  <2>2. PICK i \in 1 .. Len(ref), j \in 1 .. Len(other) : ref[i] = z[1] /\ other[j] = z[2]
    BY <1>2, <1>3, <2>1
  <2>3. <<i, j>> \in S
    BY <1>6, <2>1, <2>2
  <2>4. b[<<i, j>>] = z
    BY <1>7, <2>1, <2>2, <2>3
  <2>. QED
    BY <2>3, <2>4
<1>11. Enumerates(deltas, T, Offsets(a))
  BY <1>4, <1>7, <1>8, <1>9, <1>10, EnumeratesAs
<1>. QED
  BY <1>4, <1>11 DEF T

\* There is a reference device: the first one among those with the most usable photos.
LEMMA ReferenceIs ==
  ASSUME NEW a, NEW files \in SUBSET Photo, NEW embeds
  PROVE  Reference(a, files, embeds) \in Devices
<1>. DEFINE n(d) == Cardinality(Usable(a, files, embeds, d))
            Ahead(d) == {e \in Devices : n(e) > n(d) \/ (n(e) = n(d) /\ e <= d)}
            Family == {Ahead(d) : d \in Devices}
<1>1. IsFiniteSet(Devices) /\ Devices # {} /\ Devices \subseteq Int
  BY GroupingAssumption
<1>2. \A d \in Devices : n(d) \in Nat
  <2>. TAKE d \in Devices
  <2>1. Usable(a, files, embeds, d) \in SUBSET Photo
    BY DEF Usable
  <2>. QED
    BY <2>1, PhotosFinite, FS_CardinalityType
<1>. HIDE DEF n
<1>3. Family \in SUBSET SUBSET Devices /\ Family # {}
  BY <1>1
<1>4. PICK A \in Family : \A B \in SUBSET A : B # A => B \notin Family
  <2>. HIDE DEF Family
  <2>. QED
    BY <1>1, <1>3, SmallestSet
<1>5. PICK d \in Devices : A = Ahead(d)
  BY <1>4
<1>6. ASSUME NEW e \in Devices
      PROVE  n(d) > n(e) \/ (n(d) = n(e) /\ d <= e)
  <2>. SUFFICES ASSUME ~ (n(d) > n(e) \/ (n(d) = n(e) /\ d <= e)) PROVE FALSE
    OBVIOUS
  <2>1. d \in Int /\ e \in Int /\ n(d) \in Nat /\ n(e) \in Nat
    BY <1>1, <1>2
  <2>2. n(e) > n(d) \/ (n(e) = n(d) /\ e < d)
    BY <2>1
  <2>3. d \in Ahead(d) /\ d \notin Ahead(e)
    BY <2>1, <2>2
  <2>4. ASSUME NEW x \in Ahead(e)
        PROVE  x \in Ahead(d)
    <3>1. x \in Devices /\ x \in Int /\ n(x) \in Nat
      BY <1>1, <1>2
    <3>. QED
      BY <2>1, <2>2, <3>1
  <2>5. Ahead(e) \in Family
    OBVIOUS
  <2>. HIDE DEF Ahead, Family
  <2>. QED
    BY <1>4, <1>5, <2>3, <2>4, <2>5
<1>7. \E c \in Devices : \A e \in Devices : n(c) > n(e) \/ (n(c) = n(e) /\ c <= e)
  BY <1>6
<1>. QED
  BY <1>7 DEF Reference, n

\* The clock of a camera is moved by what most anchors say, and never beyond them.
THEOREM EstimateSkewIs ==
  ASSUME NEW a \in Albums, NEW files \in SUBSET Photo, NEW embeds
  PROVE  /\ EstimateSkew(a, files, embeds) \in [Devices \cup {Unknown} -> Int]
         /\ SkewIsFair(a, files, embeds)
<1>. DEFINE R == Reference(a, files, embeds)
            U(d) == Usable(a, files, embeds, d)
            devs == {d \in Devices : U(d) # {}}
            order(d) == sortRunFiles(U(d), a.taken)
            deltas(d) == pairDeltas(a, order(R), order(d))
            skew == EstimateSkew(a, files, embeds)
            A(d) == Anchors(a, files, embeds, d)
<1>1. R \in Devices /\ MinAnchors \in Nat /\ MinAnchors > 0
  BY ReferenceIs, GroupingAssumption
<1>2. skew = [d \in Devices \cup {Unknown} |->
                IF d \notin devs \/ d = R THEN 0
                ELSE IF Len(deltas(d)) < MinAnchors THEN 0 ELSE medianInt64(deltas(d))]
  BY DEF EstimateSkew
<1>3. ASSUME NEW d
      PROVE  /\ deltas(d) \in Seq(Int) /\ IsFiniteSet(A(d)) /\ Cardinality(A(d)) = Len(deltas(d))
             /\ Enumerates(deltas(d), A(d), Offsets(a))
             /\ \A x : Votes(A(d), Offsets(a), x) = Times(deltas(d), x)
  <2>1. deltas(d) \in Seq(Int) /\ Enumerates(deltas(d), A(d), Offsets(a))
    <3>. HIDE DEF A
    <3>1. deltas(d) \in Seq(Int) /\ Enumerates(deltas(d), Anchors(a, files, embeds, d), Offsets(a))
      BY DeltasAreAnchors
    <3>. QED
      BY <3>1 DEF A
  <2>. HIDE DEF deltas, A
  <2>. QED
    BY <2>1, EnumeratesCounts
<1>4. \A d : A(d) \subseteq Photo \X Photo
  BY DEF Anchors, Usable
<1>5. \A d : U(d) = {} => A(d) = {}
  BY DEF Anchors
<1>. HIDE DEF skew, deltas, A, U, R
<1>6. ASSUME NEW d, Len(deltas(d)) >= MinAnchors
      PROVE  /\ medianInt64(deltas(d)) \in Int
             /\ \A x : 2 * Times(deltas(d), x) > Len(deltas(d))
                         => medianInt64(deltas(d)) = x
             /\ \A l, u \in Int : (\A k \in 1 .. Len(deltas(d)) : deltas(d)[k] \in l .. u)
                                    => medianInt64(deltas(d)) \in l .. u
  <2>1. deltas(d) # <<>>
    BY <1>1, <1>6
  <2>2. deltas(d) \in Seq(Int)
    BY <1>3
  <2>. QED
    BY <2>1, <2>2, medianInt64Is
<1>7. skew \in [Devices \cup {Unknown} -> Int]
  <2>1. \A d : Len(deltas(d)) \in Nat
    BY <1>3
  <2>2. \A d : ~ (Len(deltas(d)) < MinAnchors) => medianInt64(deltas(d)) \in Int
    BY <1>1, <1>6, <2>1
  <2>. QED
    BY <1>2, <2>2
<1>8. skew[R] = 0
  BY <1>1, <1>2
<1>9. ASSUME NEW d \in Devices \ {R}, Cardinality(A(d)) < MinAnchors
      PROVE  skew[d] = 0
  BY <1>2, <1>3, <1>9
<1>10. ASSUME NEW d \in Devices \ {R}, ~ (Cardinality(A(d)) < MinAnchors)
       PROVE  LET offsets == {Offset(a, p) : p \in A(d)}
                  votes(x) == Cardinality({p \in A(d) : Offset(a, p) = x})
              IN  /\ \A x \in offsets : 2 * votes(x) > Cardinality(A(d)) => skew[d] = x
                  /\ skew[d] \in Min(offsets) .. Max(offsets)
  <2>. DEFINE offsets == {Offset(a, p) : p \in A(d)}
              q == deltas(d)
  <2>1. Len(q) \in Nat /\ Len(q) >= MinAnchors /\ Cardinality(A(d)) = Len(q) /\ q \in Seq(Int)
    BY <1>1, <1>3, <1>10
  <2>2. A(d) # {}
    <3>. SUFFICES ASSUME A(d) = {} PROVE FALSE
      OBVIOUS
    <3>1. Cardinality(A(d)) = 0
      BY FS_EmptySet
    <3>. HIDE DEF q
    <3>. QED
      BY <1>1, <2>1, <3>1
  <2>3. d \in devs
    BY <1>5, <2>2
  <2>4. skew[d] = medianInt64(q)
    BY <1>1, <1>2, <2>1, <2>3
  <2>5. \A p \in A(d) : Offsets(a)[p] = Offset(a, p)
    BY <1>4 DEF Offsets
  <2>6. ASSUME NEW x, 2 * Cardinality({p \in A(d) : Offset(a, p) = x}) > Cardinality(A(d))
        PROVE  skew[d] = x
    <3>1. {p \in A(d) : Offset(a, p) = x} = {p \in A(d) : Offsets(a)[p] = x}
      BY <2>5
    <3>2. 2 * Votes(A(d), Offsets(a), x) > Len(q)
      BY <2>1, <2>6, <3>1 DEF Votes
    <3>3. 2 * Times(q, x) > Len(q)
      BY <1>3, <3>2
    <3>. QED
      BY <1>6, <2>1, <2>4, <3>3
  <2>7. PICK at \in [1 .. Len(q) -> A(d)] :
          /\ \A k \in 1 .. Len(q) : q[k] = Offsets(a)[at[k]]
          /\ \A p \in A(d) : \E k \in 1 .. Len(q) : at[k] = p
    <3>1. Enumerates(q, A(d), Offsets(a))
      BY <1>3
    <3>. HIDE DEF q
    <3>. QED
      BY <3>1 DEF Enumerates
  <2>8. offsets \in SUBSET Int /\ offsets # {} /\ IsFiniteSet(offsets) /\ \A k \in 1 .. Len(q) : q[k] \in offsets
    <3>1. \A k \in 1 .. Len(q) : at[k] \in A(d) /\ q[k] = Offset(a, at[k])
      BY <2>5, <2>7
    <3>2. \A k \in 1 .. Len(q) : q[k] \in offsets
      BY <3>1
    <3>3. \A x \in offsets : \E k \in 1 .. Len(q) : q[k] = x
      BY <2>5, <2>7
    <3>4. offsets \in SUBSET Int
      BY <2>1, <3>3
    <3>5. offsets # {}
      BY <2>2
    <3>6. IsFiniteSet(offsets)
      <4>. HIDE DEF offsets
      <4>1. q \in [1 .. Len(q) -> offsets]
        BY <2>1, <3>2
      <4>2. q \in Surjection(1 .. Len(q), offsets)
        BY <3>3, <4>1 DEF Surjection
      <4>3. IsFiniteSet(1 .. Len(q))
        BY <2>1, FS_Interval
      <4>. QED
        BY <4>2, <4>3, FS_Surjection
    <3>. HIDE DEF offsets
    <3>. QED
      BY <3>2, <3>4, <3>5, <3>6
  <2>9. skew[d] \in Min(offsets) .. Max(offsets)
    <3>. HIDE DEF offsets, q
    <3>1. /\ Min(offsets) \in Int /\ Max(offsets) \in Int
          /\ \A x \in offsets : Min(offsets) <= x /\ x <= Max(offsets)
      BY <2>8, MinOf, MaxOf
    <3>2. \A k \in 1 .. Len(q) : q[k] \in Min(offsets) .. Max(offsets)
      <4>. TAKE k \in 1 .. Len(q)
      <4>1. q[k] \in offsets /\ q[k] \in Int
        BY <2>8
      <4>. QED
        BY <3>1, <4>1
    <3>3. \A l, u \in Int : (\A k \in 1 .. Len(q) : q[k] \in l .. u) => medianInt64(q) \in l .. u
      BY <1>6, <2>1 DEF q
    <3>. QED
      BY <2>4, <3>1, <3>2, <3>3
  <2>. QED
    BY <2>6, <2>9
<1>11. SkewIsFair(a, files, embeds)
  <2>1. \A d \in Devices \ {R} :
          LET offsets == {Offset(a, p) : p \in A(d)}
              votes(x) == Cardinality({p \in A(d) : Offset(a, p) = x})
          IN  IF Cardinality(A(d)) < MinAnchors THEN skew[d] = 0
              ELSE /\ \A x \in offsets : 2 * votes(x) > Cardinality(A(d)) => skew[d] = x
                   /\ skew[d] \in Min(offsets) .. Max(offsets)
    BY <1>9, <1>10
  <2>. QED
    BY <1>8, <2>1 DEF SkewIsFair, R, A, skew
<1>. QED
  BY <1>7, <1>11 DEF skew

-----------------------------------------------------------------------------
(* The buckets of the gap walk                                             *)

\* The buckets stand one after the other.
LEMMA CutsGrow ==
  ASSUME NEW buckets, Len(buckets) \in Nat, NEW q, NEW k \in Nat, NEW c, NEW time, NEW bucketSec,
         Cuts(buckets, q, k, c, time, bucketSec)
  PROVE  \A i, j \in 0 .. Len(buckets) : i <= j => c[i] <= c[j]
<1>. DEFINE m == Len(buckets)
            Good == {j \in 0 .. m : \A i \in 0 .. j : c[i] <= c[j]}
<1>1. c \in [0 .. m -> 0 .. k] /\ \A i \in 1 .. m : c[i - 1] < c[i]
  BY DEF Cuts
<1>. HIDE DEF m
<1>2. m \in Nat
  BY DEF m
<1>3. 0 \in Good
  BY <1>1, <1>2
<1>4. ASSUME NEW j \in 1 .. m, j - 1 \in Good
      PROVE  j \in Good
  <2>1. /\ j \in 0 .. m /\ c[j - 1] < c[j] /\ c[j - 1] \in Int /\ c[j] \in Int
        /\ \A i \in 0 .. j - 1 : c[i] <= c[j - 1] /\ c[i] \in Int
    BY <1>1, <1>2, <1>4
  <2>2. ASSUME NEW i \in 0 .. j
        PROVE  c[i] <= c[j]
    <3>1. i = j \/ i \in 0 .. j - 1
      BY <1>2
    <3>. QED
      BY <2>1, <3>1
  <2>. QED
    BY <2>1, <2>2
<1>5. 0 .. m \subseteq Good
  <2>. HIDE DEF Good
  <2>. QED
    BY <1>2, <1>3, <1>4, CountingUp
<1>6. ASSUME NEW i \in 0 .. m, NEW j \in 0 .. m, i <= j
      PROVE  c[i] <= c[j]
  <2>1. j \in Good /\ i \in 0 .. j
    BY <1>2, <1>5, <1>6
  <2>. QED
    BY <2>1
<1>. QED
  BY <1>6 DEF m

\* A bucket: the photos from the l-th to the h-th, with no end between them and ends
\* on either side.
Piece(b, q, l, h, time, bucketSec) ==
  /\ l \in 1 .. Len(q) /\ h \in l .. Len(q)
  /\ Len(b) = h - l + 1 /\ \A j \in 1 .. Len(b) : b[j] = q[l + j - 1]
  /\ \A j \in l .. h - 1 : ~ Ends(q, time, bucketSec, j)
  /\ l > 1 => Ends(q, time, bucketSec, l - 1)
  /\ h < Len(q) => Ends(q, time, bucketSec, h)

\* Each bucket is a piece of the list between two ends.
LEMMA CutsPieces ==
  ASSUME NEW S, NEW q \in Seq(S), NEW buckets \in Seq(Seq(S)), NEW c, NEW time, NEW bucketSec,
         Cuts(buckets, q, Len(q), c, time, bucketSec), NEW i \in 1 .. Len(buckets)
  PROVE  Piece(buckets[i], q, c[i - 1] + 1, c[i], time, bucketSec)
<1>. DEFINE m == Len(buckets)
            n == Len(q)
<1>0. Len(buckets) \in Nat /\ Len(q) \in Nat
  OBVIOUS
<1>1. /\ c \in [0 .. m -> 0 .. n] /\ c[0] = 0 /\ c[m] = n
      /\ \A k \in 1 .. m :
           /\ c[k - 1] < c[k] /\ Len(buckets[k]) = c[k] - c[k - 1]
           /\ \A j \in 1 .. Len(buckets[k]) : buckets[k][j] = q[c[k - 1] + j]
           /\ k < m => Ends(q, time, bucketSec, c[k])
           /\ \A j \in c[k - 1] + 1 .. c[k] - 1 : ~ Ends(q, time, bucketSec, j)
  BY DEF Cuts
<1>2. n \in Nat /\ m \in Nat /\ i \in 1 .. m
  BY <1>0
<1>. HIDE DEF m, n
<1>3. i \in 1 .. m /\ i - 1 \in 0 .. m /\ c[i - 1] \in 0 .. n /\ c[i] \in 0 .. n /\ c[i - 1] < c[i]
  <2>1. i - 1 \in 0 .. m /\ i \in 0 .. m
    BY <1>2
  <2>. QED
    BY <1>1, <1>2, <2>1
<1>. DEFINE l == c[i - 1] + 1
            h == c[i]
<1>4. l \in 1 .. n /\ h \in l .. n /\ Len(buckets[i]) = h - l + 1
  <2>1. Len(buckets[i]) = c[i] - c[i - 1]
    BY <1>1, <1>3
  <2>. QED
    BY <1>2, <1>3, <2>1
<1>5. ASSUME NEW j \in 1 .. Len(buckets[i])
      PROVE  buckets[i][j] = q[l + j - 1]
  <2>1. buckets[i][j] = q[c[i - 1] + j]
    BY <1>1, <1>3
  <2>2. Len(buckets[i]) \in Nat
    BY <1>2, <1>4
  <2>3. l + j - 1 = c[i - 1] + j
    BY <1>2, <1>3, <2>2
  <2>. QED
    BY <2>1, <2>3
<1>6. \A j \in l .. h - 1 : ~ Ends(q, time, bucketSec, j)
  BY <1>1, <1>3
<1>7. ASSUME l > 1
      PROVE  Ends(q, time, bucketSec, l - 1)
  <2>1. i # 1
    BY <1>1, <1>7
  <2>2. i - 1 \in 1 .. m /\ i - 1 < m
    BY <1>2, <1>3, <2>1
  <2>3. Ends(q, time, bucketSec, c[i - 1])
    BY <1>1, <2>2
  <2>4. l - 1 = c[i - 1]
    BY <1>2, <1>3
  <2>. QED
    BY <2>3, <2>4
<1>8. ASSUME h < n
      PROVE  Ends(q, time, bucketSec, h)
  <2>1. i < m
    BY <1>1, <1>2, <1>3, <1>8
  <2>. QED
    BY <1>1, <1>3, <2>1
<1>. QED
  BY <1>4, <1>5, <1>6, <1>7, <1>8 DEF Piece, n

\* The photos at the places l to h.
Stretch(q, l, h) == {q[j] : j \in l .. h}

\* The photos of a bucket by their places.
LEMMA PieceSet ==
  ASSUME NEW S, NEW q \in Seq(S), NEW b, NEW l, NEW h, NEW time, NEW bucketSec,
         Piece(b, q, l, h, time, bucketSec), NEW buckets \in Seq(Seq(S)), NEW i \in 1 .. Len(buckets),
         b = buckets[i]
  PROVE  /\ ToSet(b) = Stretch(q, l, h) /\ Head(b) = q[l] /\ ToSet(b) \subseteq S
<1>1. /\ l \in 1 .. Len(q) /\ h \in l .. Len(q) /\ Len(q) \in Nat
      /\ Len(b) = h - l + 1 /\ \A j \in 1 .. Len(b) : b[j] = q[l + j - 1]
  BY DEF Piece
<1>2. b \in Seq(S) /\ DOMAIN b = 1 .. Len(b) /\ Len(b) \in Nat
  OBVIOUS
<1>3. ToSet(b) = {b[j] : j \in 1 .. Len(b)}
  BY <1>2 DEF ToSet
<1>4. ASSUME NEW j \in 1 .. Len(b)
      PROVE  b[j] \in {q[k] : k \in l .. h}
  <2>1. l + j - 1 \in l .. h
    BY <1>1, <1>2
  <2>. QED
    BY <1>1, <2>1
<1>5. ASSUME NEW k \in l .. h
      PROVE  q[k] \in {b[j] : j \in 1 .. Len(b)}
  <2>1. k - l + 1 \in 1 .. Len(b) /\ l + (k - l + 1) - 1 = k
    BY <1>1, <1>2
  <2>2. b[k - l + 1] = q[k]
    BY <1>1, <2>1
  <2>. QED
    BY <2>1, <2>2
<1>6. ToSet(b) = {q[j] : j \in l .. h}
  BY <1>3, <1>4, <1>5
<1>7. Head(b) = q[l]
  <2>1. 1 \in 1 .. Len(b) /\ l + 1 - 1 = l
    BY <1>1, <1>2
  <2>2. b[1] = q[l]
    BY <1>1, <2>1
  <2>3. Head(b) = b[1]
    BY <1>2, <2>1
  <2>. QED
    BY <2>2, <2>3
<1>8. ToSet(b) \subseteq S
  BY <1>2, <1>3
<1>. QED
  BY <1>6, <1>7, <1>8 DEF Stretch

\* Every photo is in one bucket.
Parted(buckets, S) ==
  /\ buckets \in Seq(Seq(S))
  /\ \A i \in 1 .. Len(buckets) : ToSet(buckets[i]) \subseteq S /\ Head(buckets[i]) \in ToSet(buckets[i])
  /\ \A f \in S : \E i \in 1 .. Len(buckets) : f \in ToSet(buckets[i])
  /\ \A i, j \in 1 .. Len(buckets) : i # j => ToSet(buckets[i]) \cap ToSet(buckets[j]) = {}

\* The buckets come in the order of their first photos.
InOrderOf(buckets, q) ==
  \A i, j \in 1 .. Len(buckets) : i < j =>
    \E k, l \in 1 .. Len(q) : k < l /\ Head(buckets[i]) = q[k] /\ Head(buckets[j]) = q[l]

\* The buckets share out the photos, keep their order, and are pieces of the sorted list.
LEMMA gapWalkParts ==
  ASSUME NEW S, NEW time, Timed(S, time), NEW bucketSec, NEW q, q = sortRunFiles(S, time),
         NEW buckets, buckets = gapWalk(S, time, bucketSec)
  PROVE  /\ Parted(buckets, S) /\ InOrderOf(buckets, q)
         /\ \A i \in 1 .. Len(buckets) :
              \E l, h : Piece(buckets[i], q, l, h, time, bucketSec)
<1>. DEFINE m == Len(buckets)
            n == Len(q)
<1>1. buckets \in Seq(Seq(S)) /\ \E c : Cuts(buckets, q, n, c, time, bucketSec)
  BY gapWalkCuts
<1>2. PICK c : Cuts(buckets, q, n, c, time, bucketSec)
  BY <1>1
<1>3. /\ q \in Seq(S) /\ \A x \in S : \E i \in 1 .. n : q[i] = x
      /\ \A i, j \in 1 .. n : q[i] = q[j] => i = j
  BY sortRunFilesLists
<1>4. n \in Nat /\ m \in Nat
  BY <1>1, <1>3
<1>5. c \in [0 .. m -> 0 .. n] /\ c[0] = 0 /\ c[m] = n
  BY <1>2 DEF Cuts
<1>6. ASSUME NEW i \in 1 .. m
      PROVE  Piece(buckets[i], q, c[i - 1] + 1, c[i], time, bucketSec)
  <2>1. q \in Seq(S) /\ buckets \in Seq(Seq(S)) /\ i \in 1 .. Len(buckets)
    BY <1>1, <1>3
  <2>2. Cuts(buckets, q, Len(q), c, time, bucketSec)
    BY <1>2
  <2>. HIDE DEF m, n
  <2>. QED
    BY <2>1, <2>2, CutsPieces
<1>7. ASSUME NEW i \in 1 .. m
      PROVE  /\ ToSet(buckets[i]) = {q[j] : j \in c[i - 1] + 1 .. c[i]}
             /\ Head(buckets[i]) = q[c[i - 1] + 1] /\ ToSet(buckets[i]) \subseteq S
  <2>1. q \in Seq(S) /\ buckets \in Seq(Seq(S)) /\ i \in 1 .. Len(buckets)
    BY <1>1, <1>3
  <2>2. Piece(buckets[i], q, c[i - 1] + 1, c[i], time, bucketSec)
    BY <1>6
  <2>. DEFINE l == c[i - 1] + 1
  <2>. HIDE DEF m, n, l
  <2>3. Piece(buckets[i], q, l, c[i], time, bucketSec)
    BY <2>2 DEF l
  <2>4. /\ ToSet(buckets[i]) = Stretch(q, l, c[i])
        /\ Head(buckets[i]) = q[l] /\ ToSet(buckets[i]) \subseteq S
    BY <2>1, <2>3, PieceSet
  <2>. QED
    BY <2>4 DEF l, Stretch
<1>8. \A i, j \in 0 .. m : i <= j => c[i] <= c[j]
  <2>1. Len(buckets) \in Nat /\ Len(q) \in Nat
    BY <1>4
  <2>. QED
    BY <1>2, <2>1, CutsGrow
<1>9. ASSUME NEW i \in 1 .. m
      PROVE  c[i - 1] + 1 \in 1 .. n /\ c[i] \in c[i - 1] + 1 .. n /\ i - 1 \in 0 .. m
  <2>1. Piece(buckets[i], q, c[i - 1] + 1, c[i], time, bucketSec)
    BY <1>6
  <2>2. i - 1 \in 0 .. m
    BY <1>4
  <2>. QED
    BY <2>1, <2>2 DEF Piece
<1>10. ASSUME NEW i \in 1 .. m
       PROVE  Head(buckets[i]) \in ToSet(buckets[i])
  <2>1. c[i - 1] + 1 \in c[i - 1] + 1 .. c[i]
    BY <1>4, <1>9
  <2>. QED
    BY <1>7, <2>1
<1>. HIDE DEF m, n
<1>11. ASSUME NEW f \in S
       PROVE  \E i \in 1 .. m : f \in ToSet(buckets[i])
  <2>1. PICK k \in 1 .. n : q[k] = f
    BY <1>3
  <2>. DEFINE I == {i \in 0 .. m : c[i] >= k}
  <2>2. I \in SUBSET Int /\ IsFiniteSet(I) /\ I # {}
    <3>1. I \in SUBSET (0 .. m) /\ IsFiniteSet(0 .. m)
      BY <1>4, FS_Interval
    <3>2. m \in I
      BY <1>4, <1>5
    <3>3. I \in SUBSET Int
      OBVIOUS
    <3>. HIDE DEF I
    <3>. QED
      BY <3>1, <3>2, <3>3, FS_Subset
  <2>. DEFINE i == Min(I)
  <2>3. i \in I /\ \A j \in I : i <= j
    <3>. HIDE DEF I
    <3>. QED
      BY <2>2, MinOf
  <2>. HIDE DEF i
  <2>4. i \in 0 .. m /\ c[i] >= k /\ i # 0
    BY <1>5, <2>3
  <2>5. i \in 1 .. m /\ i - 1 \in 0 .. m
    BY <1>4, <2>4
  <2>6. ~ (c[i - 1] >= k)
    BY <2>3, <2>5
  <2>7. c[i - 1] \in Int /\ c[i] \in Int
    BY <1>5, <2>5
  <2>8. k \in c[i - 1] + 1 .. c[i]
    BY <2>4, <2>6, <2>7
  <2>. QED
    BY <1>7, <2>1, <2>5, <2>8
<1>12. ASSUME NEW i \in 1 .. m, NEW j \in 1 .. m, i < j
       PROVE  ToSet(buckets[i]) \cap ToSet(buckets[j]) = {}
  <2>. SUFFICES ASSUME NEW f \in ToSet(buckets[i]), f \in ToSet(buckets[j]) PROVE FALSE
    OBVIOUS
  <2>1. PICK k \in c[i - 1] + 1 .. c[i] : f = q[k]
    BY <1>7
  <2>2. PICK l \in c[j - 1] + 1 .. c[j] : f = q[l]
    BY <1>7
  <2>3. c[i] <= c[j - 1]
    <3>1. i \in 0 .. m /\ j - 1 \in 0 .. m /\ i <= j - 1
      BY <1>4, <1>12
    <3>. QED
      BY <1>8, <3>1
  <2>4. k \in 1 .. n /\ l \in 1 .. n
    <3>1. c[i - 1] + 1 \in 1 .. n /\ c[i] \in c[i - 1] + 1 .. n /\ c[j - 1] + 1 \in 1 .. n /\ c[j] \in c[j - 1] + 1 .. n
      BY <1>9
    <3>. QED
      BY <1>4, <3>1
  <2>5. k # l
    <3>1. c[i] \in Int /\ c[j - 1] \in Int
      BY <1>5, <1>9
    <3>. QED
      BY <2>3, <3>1
  <2>. QED
    BY <1>3, <2>1, <2>2, <2>4, <2>5
<1>13. \A i, j \in 1 .. m : i # j => ToSet(buckets[i]) \cap ToSet(buckets[j]) = {}
  <2>. SUFFICES ASSUME NEW i \in 1 .. m, NEW j \in 1 .. m, i # j
                PROVE  ToSet(buckets[i]) \cap ToSet(buckets[j]) = {}
    OBVIOUS
  <2>1. i < j \/ j < i
    BY <1>4
  <2>. QED
    BY <1>12, <2>1
<1>14. Parted(buckets, S)
  BY <1>1, <1>7, <1>10, <1>11, <1>13 DEF Parted, m
<1>15. ASSUME NEW i \in 1 .. m, NEW j \in 1 .. m, i < j
       PROVE  \E k, l \in 1 .. n : k < l /\ Head(buckets[i]) = q[k] /\ Head(buckets[j]) = q[l]
  <2>1. c[i - 1] + 1 \in 1 .. n /\ c[i] \in c[i - 1] + 1 .. n /\ c[j - 1] + 1 \in 1 .. n
    BY <1>9
  <2>2. c[i] <= c[j - 1]
    <3>1. i \in 0 .. m /\ j - 1 \in 0 .. m /\ i <= j - 1
      BY <1>4, <1>15
    <3>. QED
      BY <1>8, <3>1
  <2>3. c[j - 1] \in Int /\ c[i - 1] \in Int
    BY <1>5, <1>9
  <2>4. c[i - 1] + 1 < c[j - 1] + 1
    BY <1>4, <2>1, <2>2, <2>3
  <2>. QED
    BY <1>7, <2>1, <2>4
<1>16. InOrderOf(buckets, q)
  BY <1>15 DEF InOrderOf, m, n
<1>. QED
  BY <1>6, <1>14, <1>16 DEF m

-----------------------------------------------------------------------------
(* Bursts and scenes as chains                                             *)

\* Every way to divide S between x and y cuts a pair of L.
Chain(S, L, x, y) ==
  \A T \in SUBSET S : x \in T /\ y \notin T => \E u \in T, v \in S \ T : <<u, v>> \in L

\* The photos of S are compared with those of S that have a time, and no others.
Lane(a, files, embeds, cfg, S, time) ==
  /\ S \subseteq files /\ Timed(S, time)
  /\ \A f \in S : time[f] = Clock(a, files, embeds, cfg, f)
  /\ \A f \in S, g \in files :
       Comparable(a, embeds, cfg, f, g) <=> g \in S /\ time[f] # None /\ time[g] # None

\* Pairs of photos that are at most the bucket size apart.
Near(S, time, bucketSec) ==
  {p \in S \X S : time[p[1]] - time[p[2]] \in -bucketSec .. bucketSec}

\* A burst within a lane is what a chain of short gaps reaches.
LEMMA BurstIs ==
  ASSUME NEW a, NEW files, NEW embeds, NEW cfg, NEW S, NEW time,
         Lane(a, files, embeds, cfg, S, time), NEW f \in S, NEW lane,
         lane = {g \in S : time[f] # None /\ time[g] # None}
  PROVE  \A g : g \in Burst(a, files, embeds, cfg, f) <=>
                  g = f \/ (g \in lane /\ Chain(lane, Near(lane, time, cfg.bucket), f, g))
<1>. DEFINE clock == [g \in files |-> Clock(a, files, embeds, cfg, g)]
            lane1 == {g \in files : Comparable(a, embeds, cfg, f, g)}
            Linked(g) == \A T \in SUBSET lane1 : f \in T /\ g \notin T =>
                           \E u \in T, v \in lane1 \ T : clock[u] - clock[v] \in -cfg.bucket .. cfg.bucket
<1>1. Burst(a, files, embeds, cfg, f) = {f} \cup {g \in lane1 : Linked(g)}
  BY DEF Burst, Connected
<1>2. lane1 = lane
  <2>1. /\ S \subseteq files
        /\ \A g \in files : Comparable(a, embeds, cfg, f, g) <=> g \in S /\ time[f] # None /\ time[g] # None
    BY DEF Lane
  <2>. QED
    BY <2>1
<1>3. \A g \in lane : clock[g] = time[g]
  BY DEF Lane
<1>. HIDE DEF clock, lane1
<1>4. ASSUME NEW g
      PROVE  Linked(g) <=> Chain(lane, Near(lane, time, cfg.bucket), f, g)
  <2>1. ASSUME NEW T \in SUBSET lane, NEW u \in T, NEW v \in lane \ T
        PROVE  <<u, v>> \in Near(lane, time, cfg.bucket) <=> clock[u] - clock[v] \in -cfg.bucket .. cfg.bucket
    BY <1>3 DEF Near
  <2>. DEFINE CutA(T) == \E u \in T, v \in lane \ T : clock[u] - clock[v] \in -cfg.bucket .. cfg.bucket
              CutB(T) == \E u \in T, v \in lane \ T : <<u, v>> \in Near(lane, time, cfg.bucket)
  <2>2. ASSUME NEW T \in SUBSET lane
        PROVE  CutA(T) <=> CutB(T)
    BY <2>1
  <2>3. Linked(g) <=> \A T \in SUBSET lane : f \in T /\ g \notin T => CutA(T)
    BY <1>2
  <2>4. Chain(lane, Near(lane, time, cfg.bucket), f, g) <=>
          \A T \in SUBSET lane : f \in T /\ g \notin T => CutB(T)
    BY DEF Chain
  <2>. HIDE DEF CutA, CutB, Linked
  <2>. QED
    BY <2>2, <2>3, <2>4
<1>. HIDE DEF Linked
<1>. QED
  BY <1>1, <1>2, <1>4

\* Pairs that a scene keeps together: alike, or both without an embedding.
Alike(a, S, embeds, threshold) ==
  {p \in S \X S : IF p[1] \in embeds /\ p[2] \in embeds
                  THEN p[1] # p[2] /\ cosine(a, p[1], p[2]) > threshold
                  ELSE p[1] \notin embeds /\ p[2] \notin embeds}

\* A scene is what a chain of likenesses reaches in its burst.
LEMMA SceneIs ==
  ASSUME NEW a, NEW files, NEW embeds, NEW cfg, NEW f, NEW burst,
         burst = Burst(a, files, embeds, cfg, f)
  PROVE  \A g : g \in SceneOf(a, files, embeds, cfg, f) <=>
                  g = f \/ (g \in burst /\ Chain(burst, Alike(a, burst, embeds, cfg.threshold), f, g))
<1>. DEFINE alike(g, h) == IF g \in embeds /\ h \in embeds
                           THEN g # h /\ cosine(a, g, h) > cfg.threshold
                           ELSE g \notin embeds /\ h \notin embeds
            Linked(g) == \A T \in SUBSET burst : f \in T /\ g \notin T =>
                           \E u \in T, v \in burst \ T : alike(u, v)
<1>1. SceneOf(a, files, embeds, cfg, f) = {f} \cup {g \in burst : Linked(g)}
  BY DEF SceneOf, Connected
<1>4. ASSUME NEW g
      PROVE  Linked(g) <=> Chain(burst, Alike(a, burst, embeds, cfg.threshold), f, g)
  <2>1. ASSUME NEW T \in SUBSET burst, NEW u \in T, NEW v \in burst \ T
        PROVE  <<u, v>> \in Alike(a, burst, embeds, cfg.threshold) <=> alike(u, v)
    BY DEF Alike
  <2>. DEFINE CutA(T) == \E u \in T, v \in burst \ T : alike(u, v)
              CutB(T) == \E u \in T, v \in burst \ T :
                           <<u, v>> \in Alike(a, burst, embeds, cfg.threshold)
  <2>2. ASSUME NEW T \in SUBSET burst
        PROVE  CutA(T) <=> CutB(T)
    <3>. HIDE DEF alike
    <3>. QED
      BY <2>1
  <2>3. Linked(g) <=> \A T \in SUBSET burst : f \in T /\ g \notin T => CutA(T)
    OBVIOUS
  <2>4. Chain(burst, Alike(a, burst, embeds, cfg.threshold), f, g) <=>
          \A T \in SUBSET burst : f \in T /\ g \notin T => CutB(T)
    BY DEF Chain
  <2>. HIDE DEF CutA, CutB, Linked
  <2>. QED
    BY <2>2, <2>3, <2>4
<1>. HIDE DEF Linked
<1>. QED
  BY <1>1, <1>4

\* Between a place in P and one outside there are neighbours of which one is in P.
LEMMA Crossing ==
  ASSUME NEW l \in Int, NEW h \in Int, NEW P, NEW x \in l .. h, NEW y \in l .. h, x \in P, y \notin P
  PROVE  \E j \in l .. h - 1 : (j \in P /\ j + 1 \notin P) \/ (j \notin P /\ j + 1 \in P)
<1>1. CASE x < y
  <2>. DEFINE K == {k \in x .. y : k \notin P}
              k == Min(K)
  <2>1. K \in SUBSET Int /\ IsFiniteSet(K) /\ K # {}
    <3>1. K \in SUBSET (x .. y) /\ IsFiniteSet(x .. y) /\ K \in SUBSET Int
      BY FS_Interval
    <3>2. y \in K
      BY <1>1
    <3>. HIDE DEF K
    <3>. QED
      BY <3>1, <3>2, FS_Subset
  <2>2. k \in K /\ \A j \in K : k <= j
    <3>. HIDE DEF K
    <3>. QED
      BY <2>1, MinOf
  <2>. HIDE DEF k
  <2>3. k \in x .. y /\ k \notin P
    BY <2>2
  <2>4. k - 1 \in x .. y /\ k - 1 \in l .. h - 1 /\ (k - 1) + 1 = k /\ ~ (k <= k - 1)
    BY <1>1, <2>3
  <2>5. k - 1 \in P
    BY <2>2, <2>4
  <2>. QED
    BY <2>3, <2>4, <2>5
<1>2. CASE y < x
  <2>. DEFINE K == {k \in y .. x : k \in P}
              k == Min(K)
  <2>1. K \in SUBSET Int /\ IsFiniteSet(K) /\ K # {}
    <3>1. K \in SUBSET (y .. x) /\ IsFiniteSet(y .. x) /\ K \in SUBSET Int
      BY FS_Interval
    <3>2. x \in K
      BY <1>2
    <3>. HIDE DEF K
    <3>. QED
      BY <3>1, <3>2, FS_Subset
  <2>2. k \in K /\ \A j \in K : k <= j
    <3>. HIDE DEF K
    <3>. QED
      BY <2>1, MinOf
  <2>. HIDE DEF k
  <2>3. k \in y .. x /\ k \in P
    BY <2>2
  <2>4. k - 1 \in y .. x /\ k - 1 \in l .. h - 1 /\ (k - 1) + 1 = k /\ ~ (k <= k - 1)
    BY <1>2, <2>3
  <2>5. k - 1 \notin P
    BY <2>2, <2>4
  <2>. QED
    BY <2>3, <2>4, <2>5
<1>. QED
  <2>1. x < y \/ y < x
    OBVIOUS
  <2>. QED
    BY <1>1, <1>2, <2>1

-----------------------------------------------------------------------------
(* A bucket is a burst                                                     *)

\* q lists S, the earliest first and those without a time last.
InTime(S, time, q) ==
  /\ q \in Seq(S)
  /\ \A x \in S : \E i \in 1 .. Len(q) : q[i] = x
  /\ \A i \in 1 .. Len(q) : time[q[i]] \in Int \cup {None}
  /\ \A i, j \in 1 .. Len(q) :
       i <= j /\ time[q[j]] # None => time[q[i]] # None /\ time[q[i]] <= time[q[j]]

\* The sorted list has the earliest first and NULL times last.
LEMMA TimesAscend ==
  ASSUME NEW S, NEW time, Timed(S, time), NEW q, q = sortRunFiles(S, time)
  PROVE  InTime(S, time, q)
<1>1. /\ q \in Seq(S) /\ \A x \in S : \E i \in 1 .. Len(q) : q[i] = x
      /\ \A i, j \in 1 .. Len(q) : i < j <=> <<q[i], q[j]>> \in earlier(S, time)
  BY sortRunFilesLists
<1>2. ASSUME NEW i \in 1 .. Len(q)
      PROVE  time[q[i]] \in Int \cup {None}
  <2>1. q[i] \in S
    BY <1>1
  <2>. QED
    BY <2>1 DEF Timed
<1>3. ASSUME NEW i \in 1 .. Len(q), NEW j \in 1 .. Len(q), i <= j, time[q[j]] # None
      PROVE  time[q[i]] # None /\ time[q[i]] <= time[q[j]]
  <2>1. CASE i = j
    BY <1>2, <1>3, <2>1
  <2>2. CASE i # j
    <3>1. i < j
      BY <1>3, <2>2
    <3>2. <<q[i], q[j]>> \in earlier(S, time)
      BY <1>1, <3>1
    <3>3. time[q[i]] # None /\ (time[q[i]] < time[q[j]] \/ time[q[i]] = time[q[j]])
      BY <1>3, <3>2 DEF earlier
    <3>. QED
      BY <1>2, <1>3, <3>3
  <2>. QED
    BY <2>1, <2>2
<1>. QED
  BY <1>1, <1>2, <1>3 DEF InTime

\* Inside a bucket the gaps are small; those at its ends are not.
LEMMA PieceGaps ==
  ASSUME NEW S, NEW time, NEW q, InTime(S, time, q), NEW b, NEW l, NEW h, NEW bucketSec \in Int,
         Piece(b, q, l, h, time, bucketSec)
  PROVE  /\ l < h => \A j \in l .. h : time[q[j]] \in Int
         /\ \A j \in l .. h - 1 : /\ time[q[j]] \in Int /\ time[q[j + 1]] \in Int
                                  /\ 0 <= time[q[j + 1]] - time[q[j]]
                                  /\ time[q[j + 1]] - time[q[j]] <= bucketSec
         /\ \A j \in l .. h, k \in 1 .. Len(q) :
              /\ time[q[j]] \in Int /\ time[q[k]] \in Int /\ k < l => time[q[j]] - time[q[k]] > bucketSec
              /\ time[q[j]] \in Int /\ time[q[k]] \in Int /\ k > h => time[q[k]] - time[q[j]] > bucketSec
<1>. DEFINE t(j) == time[q[j]]
            n == Len(q)
<1>1. /\ l \in 1 .. n /\ h \in l .. n /\ n \in Nat
      /\ \A j \in l .. h - 1 : t(j + 1) # None /\ t(j) # None /\ ~ (t(j + 1) - t(j) > bucketSec)
      /\ l > 1 => t(l - 1 + 1) = None \/ t(l - 1) = None \/ t(l - 1 + 1) - t(l - 1) > bucketSec
      /\ h < n => t(h + 1) = None \/ t(h) = None \/ t(h + 1) - t(h) > bucketSec
  <2>1. n \in Nat
    BY DEF InTime
  <2>. QED
    BY <2>1 DEF Piece, Ends
<1>2. /\ \A i \in 1 .. n : t(i) \in Int \cup {None}
      /\ \A i, j \in 1 .. n : i <= j /\ t(j) # None => t(i) # None /\ t(i) <= t(j)
      /\ None \notin Int
  BY GroupingAssumption DEF InTime
<1>. HIDE DEF t, n
<1>3. \A j \in l .. h - 1 : j \in 1 .. n /\ j + 1 \in 1 .. n /\ j <= j + 1
  BY <1>1
<1>4. ASSUME NEW j \in l .. h - 1
      PROVE  t(j) \in Int /\ t(j + 1) \in Int /\ 0 <= t(j + 1) - t(j) /\ t(j + 1) - t(j) <= bucketSec
  <2>1. t(j) \in Int /\ t(j + 1) \in Int /\ t(j) <= t(j + 1) /\ ~ (t(j + 1) - t(j) > bucketSec)
    BY <1>1, <1>2, <1>3
  <2>. QED
    BY <2>1
<1>5. ASSUME l < h, NEW j \in l .. h
      PROVE  t(j) \in Int
  <2>1. CASE j = h
    <3>1. h - 1 \in l .. h - 1 /\ (h - 1) + 1 = h
      BY <1>1, <1>5
    <3>2. t((h - 1) + 1) \in Int
      BY <1>4, <3>1
    <3>. QED
      BY <2>1, <3>1, <3>2
  <2>2. CASE j # h
    <3>1. j \in l .. h - 1
      BY <1>1, <2>2
    <3>. QED
      BY <1>4, <3>1
  <2>. QED
    BY <2>1, <2>2
<1>6. ASSUME NEW j \in l .. h, NEW k \in 1 .. n, t(j) \in Int, t(k) \in Int, k < l
      PROVE  t(j) - t(k) > bucketSec
  <2>1. l > 1 /\ l - 1 \in 1 .. n /\ l - 1 + 1 = l /\ k <= l - 1 /\ l <= j /\ j \in 1 .. n /\ l - 1 <= l
    BY <1>1, <1>6
  <2>2. t(l) \in Int /\ t(l) <= t(j)
    BY <1>1, <1>2, <1>6, <2>1
  <2>3. t(l - 1) \in Int /\ t(k) <= t(l - 1)
    BY <1>1, <1>2, <2>1, <2>2
  <2>4. t(l) - t(l - 1) > bucketSec
    BY <1>1, <1>2, <2>1, <2>2, <2>3
  <2>. QED
    BY <1>6, <2>2, <2>3, <2>4
<1>7. ASSUME NEW j \in l .. h, NEW k \in 1 .. n, t(j) \in Int, t(k) \in Int, k > h
      PROVE  t(k) - t(j) > bucketSec
  <2>1. h < n /\ h + 1 \in 1 .. n /\ h + 1 <= k /\ j <= h /\ j \in 1 .. n /\ h \in 1 .. n /\ h <= h + 1
    BY <1>1, <1>7
  <2>2. t(h + 1) \in Int /\ t(h + 1) <= t(k)
    BY <1>1, <1>2, <1>7, <2>1
  <2>3. t(h) \in Int /\ t(j) <= t(h)
    BY <1>1, <1>2, <2>1, <2>2
  <2>4. t(h + 1) - t(h) > bucketSec
    BY <1>1, <1>2, <2>1, <2>2, <2>3
  <2>. QED
    BY <1>7, <2>2, <2>3, <2>4
<1>. QED
  BY <1>4, <1>5, <1>6, <1>7 DEF t, n

\* T is the burst of each of its photos.
OneBurst(T, a, files, embeds, cfg) == \A f \in T : Burst(a, files, embeds, cfg, f) = T

\* A bucket is the burst of each of its photos.
LEMMA PieceIsBurst ==
  ASSUME NEW a, NEW files, NEW embeds, NEW cfg, cfg.bucket \in Int, NEW S, NEW time,
         Lane(a, files, embeds, cfg, S, time), NEW q, InTime(S, time, q),
         NEW b, NEW l, NEW h, Piece(b, q, l, h, time, cfg.bucket),
         NEW T, T = Stretch(q, l, h)
  PROVE  OneBurst(T, a, files, embeds, cfg)
<1>. SUFFICES ASSUME NEW f \in T
              PROVE  Burst(a, files, embeds, cfg, f) = T
  BY DEF OneBurst
<1>. DEFINE lane == {g \in S : time[f] # None /\ time[g] # None}
            near == Near(lane, time, cfg.bucket)
            n == Len(q)
<1>0. T = {q[j] : j \in l .. h}
  BY DEF Stretch
<1>1. /\ q \in Seq(S) /\ n \in Nat /\ \A i \in 1 .. n : q[i] \in S
      /\ \A x \in S : \E i \in 1 .. n : q[i] = x
      /\ \A i \in 1 .. n : time[q[i]] \in Int \cup {None}
      /\ l \in 1 .. n /\ h \in l .. n /\ None \notin Int
  <2>1. q \in Seq(S) /\ n \in Nat
    BY DEF InTime
  <2>2. \A i \in 1 .. n : q[i] \in S
    BY <2>1
  <2>3. /\ \A x \in S : \E i \in 1 .. n : q[i] = x
        /\ \A i \in 1 .. n : time[q[i]] \in Int \cup {None}
    BY DEF InTime
  <2>4. l \in 1 .. n /\ h \in l .. n
    BY DEF Piece
  <2>. QED
    BY <2>1, <2>2, <2>3, <2>4, GroupingAssumption
<1>2. /\ l < h => \A j \in l .. h : time[q[j]] \in Int
      /\ \A j \in l .. h - 1 : /\ time[q[j]] \in Int /\ time[q[j + 1]] \in Int
                               /\ 0 <= time[q[j + 1]] - time[q[j]]
                               /\ time[q[j + 1]] - time[q[j]] <= cfg.bucket
      /\ \A j \in l .. h, k \in 1 .. n :
           /\ time[q[j]] \in Int /\ time[q[k]] \in Int /\ k < l => time[q[j]] - time[q[k]] > cfg.bucket
           /\ time[q[j]] \in Int /\ time[q[k]] \in Int /\ k > h => time[q[k]] - time[q[j]] > cfg.bucket
  BY PieceGaps
<1>. HIDE DEF n
<1>3. PICK kf \in l .. h : f = q[kf]
  BY <1>0
<1>4. \A j \in l .. h : j \in 1 .. n /\ q[j] \in S
  BY <1>1
<1>5. f \in S
  BY <1>3, <1>4
<1>6. \A g : g \in Burst(a, files, embeds, cfg, f) <=> g = f \/ (g \in lane /\ Chain(lane, near, f, g))
  BY <1>5, BurstIs
<1>7. ASSUME NEW g \in lane, Chain(lane, near, f, g), g \notin T
      PROVE  FALSE
  <2>1. T \subseteq lane
    <3>1. ASSUME NEW j \in l .. h
          PROVE  q[j] \in lane
      <4>1. CASE l < h
        BY <1>1, <1>2, <1>4, <1>7, <4>1
      <4>2. CASE ~ (l < h)
        <5>1. j = kf
          BY <1>1, <1>3, <4>2
        <5>. QED
          BY <1>3, <1>5, <1>7, <5>1
      <4>. QED
        BY <4>1, <4>2
    <3>. QED
      BY <1>0, <3>1
  <2>2. PICK u \in T, v \in lane \ T : <<u, v>> \in near
    BY <1>7, <2>1 DEF Chain
  <2>3. PICK ku \in l .. h : u = q[ku]
    BY <1>0
  <2>4. PICK kv \in 1 .. n : v = q[kv]
    BY <1>1
  <2>5. time[u] \in Int /\ time[v] \in Int
    <3>1. time[u] # None /\ time[v] # None
      BY <2>1, <2>2
    <3>. QED
      BY <1>1, <1>4, <2>3, <2>4, <3>1
  <2>6. time[u] - time[v] <= cfg.bucket /\ time[v] - time[u] <= cfg.bucket
    <3>1. time[u] - time[v] \in -cfg.bucket .. cfg.bucket
      BY <2>2 DEF Near
    <3>. QED
      BY <2>5, <3>1
  <2>7. kv < l \/ kv > h
    <3>1. kv \notin l .. h
      BY <1>0, <2>2, <2>4
    <3>. QED
      BY <1>1, <2>4, <3>1
  <2>8. /\ kv < l => time[u] - time[v] > cfg.bucket
        /\ kv > h => time[v] - time[u] > cfg.bucket
    BY <1>2, <2>3, <2>4, <2>5
  <2>. QED
    BY <2>5, <2>6, <2>7, <2>8
<1>8. ASSUME NEW g \in T, g # f
      PROVE  g \in lane /\ Chain(lane, near, f, g)
  <2>1. PICK kg \in l .. h : g = q[kg]
    BY <1>0
  <2>2. l < h
    <3>1. kg # kf
      BY <1>3, <1>8, <2>1
    <3>. QED
      BY <1>1, <2>1, <3>1
  <2>3. \A j \in l .. h : q[j] \in lane
    BY <1>1, <1>2, <1>3, <1>4, <2>2
  <2>4. ASSUME NEW U \in SUBSET lane, f \in U, g \notin U
        PROVE  \E u \in U, v \in lane \ U : <<u, v>> \in near
    <3>. DEFINE P == {j \in l .. h : q[j] \in U}
    <3>1. kf \in P /\ kg \notin P
      BY <1>3, <2>1, <2>4
    <3>9. l \in Int /\ h \in Int
      BY <1>1
    <3>2. PICK j \in l .. h - 1 : (j \in P /\ j + 1 \notin P) \/ (j \notin P /\ j + 1 \in P)
      <4>. HIDE DEF P
      <4>. QED
        BY <3>1, <3>9, Crossing
    <3>3. j \in l .. h /\ j + 1 \in l .. h
      BY <1>1, <3>2
    <3>4. q[j] \in lane /\ q[j + 1] \in lane
      BY <2>3, <3>3
    <3>5. /\ time[q[j]] \in Int /\ time[q[j + 1]] \in Int
          /\ 0 <= time[q[j + 1]] - time[q[j]] /\ time[q[j + 1]] - time[q[j]] <= cfg.bucket
      BY <1>2, <3>2
    <3>6. /\ time[q[j]] - time[q[j + 1]] \in -cfg.bucket .. cfg.bucket
          /\ time[q[j + 1]] - time[q[j]] \in -cfg.bucket .. cfg.bucket
      <4>1. \A s, t, k \in Int : 0 <= t - s /\ t - s <= k => s - t \in -k .. k /\ t - s \in -k .. k
        OBVIOUS
      <4>. QED
        BY <3>5, <4>1
    <3>7. <<q[j], q[j + 1]>> \in near /\ <<q[j + 1], q[j]>> \in near
      BY <3>4, <3>6 DEF Near
    <3>. QED
      BY <3>2, <3>3, <3>4, <3>7
  <2>. QED
    BY <2>1, <2>3, <2>4 DEF Chain
<1>. HIDE DEF lane, near
<1>9. \A g : g \in Burst(a, files, embeds, cfg, f) <=> g \in T
  BY <1>6, <1>7, <1>8
<1>. QED
  BY <1>9 DEF Burst

-----------------------------------------------------------------------------
(* A group of a burst is a scene                                           *)

\* The likeness of a pair does not depend on its order.
LEMMA cosineOfPair ==
  ASSUME NEW a, NEW f \in Int, NEW g \in Int, f # g
  PROVE  cosine(a, f, g) = cosine(a, g, f)
<1>1. f < g \/ g < f
  OBVIOUS
<1>. QED
  BY <1>1 DEF cosine

\* The groups of a bucket that is a burst are the scenes of its photos.
LEMMA PartsAreScenes ==
  ASSUME NEW a, NEW files, NEW embeds, NEW cfg, NEW T \in SUBSET Int, IsFiniteSet(T),
         OneBurst(T, a, files, embeds, cfg),
         NEW G \in Parts(a, T, embeds, cfg.threshold), NEW f \in G
  PROVE  f \in T /\ SceneOf(a, files, embeds, cfg, f) = G
<1>. DEFINE E == T \cap embeds
            L == Links(a, E, cfg.threshold)
            P == Cluster(a, E, cfg.threshold)
            alike == Alike(a, T, embeds, cfg.threshold)
<1>1. Joined(P, E, L, E \X E)
  <2>1. IsFiniteSet(E)
    BY FS_Subset
  <2>. QED
    BY <2>1, ClusterJoins
<1>2. /\ P \in Partitions(E)
      /\ \A p \in E \X E : p \in L => \E H \in P : p[1] \in H /\ p[2] \in H
      /\ \A U \in SUBSET E : Closed(U, L) => \A H \in P : H \cap U = {} \/ H \subseteq U
  BY <1>1 DEF Joined
<1>3. G \subseteq T
  <2>1. Parts(a, T, embeds, cfg.threshold) \in Partitions(T)
    BY PartsPartition
  <2>. QED
    BY <2>1 DEF Partitions
<1>4. Burst(a, files, embeds, cfg, f) = T
  BY <1>3 DEF OneBurst
<1>5. \A g : g \in SceneOf(a, files, embeds, cfg, f) <=> g = f \/ (g \in T /\ Chain(T, alike, f, g))
  BY <1>4, SceneIs
<1>. HIDE DEF P
<1>6. CASE G = T \ embeds
  <2>1. ASSUME NEW g \in G
        PROVE  Chain(T, alike, f, g)
    <3>1. <<f, g>> \in alike
      BY <1>3, <1>6 DEF Alike
    <3>. QED
      BY <1>3, <3>1 DEF Chain
  <2>2. ASSUME NEW g \in T, Chain(T, alike, f, g), g \notin G
        PROVE  FALSE
    <3>1. PICK u \in G, v \in T \ G : <<u, v>> \in alike
      BY <1>3, <2>2 DEF Chain
    <3>. QED
      BY <1>6, <3>1 DEF Alike
  <2>3. \A g : g \in SceneOf(a, files, embeds, cfg, f) <=> g \in G
    BY <1>3, <1>5, <2>1, <2>2
  <2>. QED
    BY <1>3, <1>5, <2>3 DEF SceneOf
<1>7. CASE G \in P
  <2>1. G \subseteq E /\ \A H \in P : H # G => H \cap G = {}
    BY <1>2, <1>7 DEF Partitions
  <2>2. ASSUME NEW g \in T, Chain(T, alike, f, g), g \notin G
        PROVE  FALSE
    <3>1. PICK u \in G, v \in T \ G : <<u, v>> \in alike
      BY <1>3, <2>2 DEF Chain
    <3>2. u \in E /\ v \in E /\ u # v /\ cosine(a, u, v) > cfg.threshold
      BY <2>1, <3>1 DEF Alike
    <3>3. \E H \in P : u \in H /\ v \in H
      <4>1. CASE u < v
        <5>1. <<u, v>> \in L /\ <<u, v>> \in E \X E
          BY <3>2, <4>1 DEF Links
        <5>. QED
          BY <1>2, <5>1
      <4>2. CASE v < u
        <5>1. cosine(a, v, u) = cosine(a, u, v)
          BY <3>2, cosineOfPair
        <5>2. <<v, u>> \in L /\ <<v, u>> \in E \X E
          BY <3>2, <4>2, <5>1 DEF Links
        <5>. QED
          BY <1>2, <5>2
      <4>3. u < v \/ v < u
        BY <3>2
      <4>. QED
        BY <4>1, <4>2, <4>3
    <3>. QED
      BY <2>1, <3>1, <3>3
  <2>3. ASSUME NEW g \in G, NEW U \in SUBSET T, f \in U, g \notin U
        PROVE  \E u \in U, v \in T \ U : <<u, v>> \in alike
    <3>. SUFFICES ASSUME \A u \in U, v \in T \ U : <<u, v>> \notin alike
                  PROVE  FALSE
      OBVIOUS
    <3>1. Closed(U \cap E, L)
      <4>. SUFFICES ASSUME NEW p \in L
                    PROVE  p[1] \in U \cap E <=> p[2] \in U \cap E
        BY DEF Closed
      <4>1. p[1] \in E /\ p[2] \in E /\ p[1] # p[2] /\ cosine(a, p[1], p[2]) > cfg.threshold
        <5>1. p \in Links(a, E, cfg.threshold)
          OBVIOUS
        <5>2. p[1] \in E /\ p[2] \in E /\ p[1] < p[2] /\ cosine(a, p[1], p[2]) > cfg.threshold
          BY <5>1 DEF Links
        <5>3. \A x, y \in Int : x < y => x # y
          OBVIOUS
        <5>. QED
          BY <5>2, <5>3
      <4>2. cosine(a, p[2], p[1]) > cfg.threshold
        BY <4>1, cosineOfPair
      <4>3. <<p[1], p[2]>> \in alike /\ <<p[2], p[1]>> \in alike
        BY <4>1, <4>2 DEF Alike
      <4>. QED
        BY <4>1, <4>3
    <3>2. G \cap (U \cap E) = {} \/ G \subseteq U \cap E
      BY <1>2, <1>7, <3>1
    <3>. QED
      BY <2>1, <2>3, <3>2
  <2>4. \A g \in G : Chain(T, alike, f, g)
    BY <2>3 DEF Chain
  <2>5. \A g : g \in SceneOf(a, files, embeds, cfg, f) <=> g \in G
    BY <1>3, <1>5, <2>2, <2>4
  <2>. QED
    BY <1>3, <1>5, <2>5 DEF SceneOf
<1>8. G = T \ embeds \/ G \in P
  BY DEF Parts, P
<1>. QED
  BY <1>3, <1>6, <1>7, <1>8

\* The times of the photos of T.
ClocksOf(T, time) == {time[f] : f \in T}

\* A bucket begins with its first photo.
LEMMA PieceStarts ==
  ASSUME NEW S, NEW time, NEW q, InTime(S, time, q), NEW b, NEW l, NEW h, NEW bucketSec \in Int,
         Piece(b, q, l, h, time, bucketSec),
         NEW starts, starts = ClocksOf(Stretch(q, l, h), time)
  PROVE  time[q[l]] = IF starts = {None} THEN None ELSE Min(starts)
<1>1. /\ l \in 1 .. Len(q) /\ h \in l .. Len(q) /\ Len(q) \in Nat /\ None \notin Int
      /\ \A i \in 1 .. Len(q) : time[q[i]] \in Int \cup {None}
      /\ \A i, j \in 1 .. Len(q) :
           i <= j /\ time[q[j]] # None => time[q[i]] # None /\ time[q[i]] <= time[q[j]]
  BY GroupingAssumption DEF InTime, Piece
<1>0. starts = {time[q[j]] : j \in l .. h}
  BY DEF ClocksOf, Stretch
<1>2. l \in l .. h
  BY <1>1
<1>3. CASE time[q[l]] = None
  <2>1. ~ (l < h)
    BY <1>1, <1>2, <1>3, PieceGaps
  <2>2. l .. h = {l}
    BY <1>1, <2>1
  <2>. QED
    BY <1>0, <1>3, <2>2
<1>4. CASE time[q[l]] # None
  <2>1. ASSUME NEW j \in l .. h
        PROVE  time[q[j]] \in Int /\ time[q[l]] <= time[q[j]]
    <3>1. CASE l = h
      <4>1. j = l /\ time[q[l]] \in Int
        BY <1>1, <1>4, <3>1
      <4>. QED
        BY <4>1
    <3>2. CASE l < h
      <4>1. time[q[j]] \in Int
        BY <1>1, <3>2, PieceGaps
      <4>2. l \in 1 .. Len(q) /\ j \in 1 .. Len(q) /\ l <= j
        BY <1>1
      <4>. QED
        BY <1>1, <4>1, <4>2
    <3>. QED
      BY <1>1, <3>1, <3>2
  <2>2. time[q[l]] \in starts /\ \A x \in starts : x \in Int /\ time[q[l]] <= x
    BY <1>0, <1>2, <2>1
  <2>3. starts # {None}
    BY <1>1, <2>2
  <2>4. ASSUME NEW x \in starts, \A y \in starts : x <= y
        PROVE  x = time[q[l]]
    <3>1. x \in Int /\ time[q[l]] \in Int /\ time[q[l]] <= x
      BY <2>2
    <3>2. x <= time[q[l]]
      BY <2>2, <2>4
    <3>. QED
      BY <3>1, <3>2
  <2>5. Min(starts) = time[q[l]]
    BY <2>2, <2>4 DEF Min
  <2>. QED
    BY <2>3, <2>5
<1>. QED
  BY <1>3, <1>4

-----------------------------------------------------------------------------
(* Clusters that share out the photos                                      *)

\* The clusters of V in defs share out the photos of S.
Divides(defs, S, V) ==
  /\ defs \in Seq(V)
  /\ \A i \in 1 .. Len(defs) : defs[i].members \subseteq S
  /\ \A f \in S : \E i \in 1 .. Len(defs) : f \in defs[i].members
  /\ \A i, j \in 1 .. Len(defs) : i # j => defs[i].members \cap defs[j].members = {}

\* Two lists of clusters of disjoint sets, one after the other, share out the union.
LEMMA DividesMore ==
  ASSUME NEW V, NEW p, NEW q, NEW S, NEW T, S \cap T = {}, Divides(p, S, V), Divides(q, T, V)
  PROVE  Divides(p \o q, S \cup T, V)
<1>. DEFINE n == Len(p)
            m == Len(q)
            w == p \o q
<1>1. /\ p \in Seq(V) /\ q \in Seq(V)
      /\ \A i \in 1 .. n : p[i].members \subseteq S
      /\ \A f \in S : \E i \in 1 .. n : f \in p[i].members
      /\ \A i, j \in 1 .. n : i # j => p[i].members \cap p[j].members = {}
      /\ \A i \in 1 .. m : q[i].members \subseteq T
      /\ \A f \in T : \E i \in 1 .. m : f \in q[i].members
      /\ \A i, j \in 1 .. m : i # j => q[i].members \cap q[j].members = {}
  BY DEF Divides
<1>2. /\ n \in Nat /\ m \in Nat /\ Len(w) = n + m /\ w \in Seq(V)
      /\ \A k \in 1 .. Len(w) : w[k] = IF k <= n THEN p[k] ELSE q[k - n]
  BY <1>1
<1>. HIDE DEF n, m, w
<1>3. ASSUME NEW k \in 1 .. Len(w)
      PROVE  \/ k \in 1 .. n /\ w[k] = p[k] /\ w[k].members \subseteq S
             \/ k > n /\ k - n \in 1 .. m /\ w[k] = q[k - n] /\ w[k].members \subseteq T
  <2>1. CASE k <= n
    <3>1. k \in 1 .. n /\ w[k] = p[k]
      BY <1>2, <2>1
    <3>. QED
      BY <1>1, <3>1
  <2>2. CASE ~ (k <= n)
    <3>1. k > n /\ k - n \in 1 .. m /\ w[k] = q[k - n]
      BY <1>2, <2>2
    <3>. QED
      BY <1>1, <3>1
  <2>. QED
    BY <2>1, <2>2
<1>4. ASSUME NEW f \in S \cup T
      PROVE  \E k \in 1 .. Len(w) : f \in w[k].members
  <2>1. CASE f \in S
    <3>1. PICK i \in 1 .. n : f \in p[i].members
      BY <1>1, <2>1
    <3>2. i \in 1 .. Len(w) /\ i <= n
      BY <1>2
    <3>. QED
      BY <1>2, <3>1, <3>2
  <2>2. CASE f \in T
    <3>1. PICK i \in 1 .. m : f \in q[i].members
      BY <1>1, <2>2
    <3>2. n + i \in 1 .. Len(w) /\ ~ (n + i <= n) /\ (n + i) - n = i
      BY <1>2
    <3>3. w[n + i] = q[i]
      BY <1>2, <3>2
    <3>. QED
      BY <3>1, <3>2, <3>3
  <2>. QED
    BY <2>1, <2>2
<1>5. ASSUME NEW k \in 1 .. Len(w), NEW l \in 1 .. Len(w), k # l
      PROVE  w[k].members \cap w[l].members = {}
  <2>1. k > n /\ l > n => k - n # l - n
    BY <1>2, <1>5
  <2>2. \/ k \in 1 .. n /\ w[k] = p[k] /\ w[k].members \subseteq S
        \/ k > n /\ k - n \in 1 .. m /\ w[k] = q[k - n] /\ w[k].members \subseteq T
    BY <1>3
  <2>3. \/ l \in 1 .. n /\ w[l] = p[l] /\ w[l].members \subseteq S
        \/ l > n /\ l - n \in 1 .. m /\ w[l] = q[l - n] /\ w[l].members \subseteq T
    BY <1>3
  <2>4. CASE k \in 1 .. n /\ l \in 1 .. n /\ w[k] = p[k] /\ w[l] = p[l]
    BY <1>1, <1>5, <2>4
  <2>5. CASE /\ k > n /\ k - n \in 1 .. m /\ w[k] = q[k - n]
             /\ l > n /\ l - n \in 1 .. m /\ w[l] = q[l - n]
    BY <1>1, <2>1, <2>5
  <2>. QED
    BY <2>2, <2>3, <2>4, <2>5
<1>6. \A k \in 1 .. Len(w) : w[k].members \subseteq S \cup T
  BY <1>3
<1>. QED
  BY <1>2, <1>4, <1>5, <1>6 DEF Divides, w

\* The pieces are shared out one by one.
Shares(F, P, V) ==
  /\ \A x \in DOMAIN F : Divides(F[x], P[x], V)
  /\ \A x, y \in DOMAIN F : x # y => P[x] \cap P[y] = {}

\* Lists of clusters of disjoint sets, in any number, share out the union.
LEMMA DividesConcat ==
  ASSUME NEW V, NEW F, Lists(F, V), NEW P, Shares(F, P, V),
         NEW S, \A f : f \in S <=> \E x \in DOMAIN F : f \in P[x]
  PROVE  Divides(Concat(F), S, V)
<1>. DEFINE q == Concat(F)
            slots == Slots(F, DOMAIN F)
<1>1. q \in Seq(V) /\ Placed(q, F, DOMAIN F)
  BY ConcatPlaced
<1>. HIDE DEF q
<1>2. PICK at \in [1 .. Len(q) -> slots] :
        /\ \A k \in 1 .. Len(q) : q[k] = At(F)[at[k]]
        /\ \A k, l \in 1 .. Len(q) : at[k] = at[l] => k = l
        /\ \A x \in slots : \E k \in 1 .. Len(q) : at[k] = x
  BY <1>1 DEF Placed, Enumerates
<1>3. ASSUME NEW k \in 1 .. Len(q)
      PROVE  \E x \in DOMAIN F : \E i \in 1 .. Len(F[x]) : at[k] = <<x, i>> /\ q[k] = F[x][i]
  <2>1. at[k] \in Slots(F, DOMAIN F) /\ q[k] = At(F)[at[k]]
    BY <1>2
  <2>2. PICK x \in DOMAIN F, i \in Nat : at[k] = <<x, i>> /\ i \in 1 .. Len(F[x])
    BY <2>1 DEF Slots
  <2>3. At(F)[<<x, i>>] = F[x][i]
    BY <2>1, <2>2 DEF At
  <2>. QED
    BY <2>1, <2>2, <2>3
<1>4. ASSUME NEW x \in DOMAIN F, NEW i \in 1 .. Len(F[x])
      PROVE  \E k \in 1 .. Len(q) : q[k] = F[x][i]
  <2>0. Len(F[x]) \in Nat
    BY DEF Lists
  <2>1. <<x, i>> \in slots /\ At(F)[<<x, i>>] = F[x][i]
    BY <2>0 DEF Slots, At
  <2>. QED
    BY <1>2, <2>1
<1>5. \A x \in DOMAIN F :
        /\ \A i \in 1 .. Len(F[x]) : F[x][i].members \subseteq P[x]
        /\ \A f \in P[x] : \E i \in 1 .. Len(F[x]) : f \in F[x][i].members
        /\ \A i, j \in 1 .. Len(F[x]) : i # j => F[x][i].members \cap F[x][j].members = {}
  BY DEF Shares, Divides
<1>6. ASSUME NEW k \in 1 .. Len(q)
      PROVE  q[k].members \subseteq S
  <2>1. PICK x \in DOMAIN F : \E i \in 1 .. Len(F[x]) : at[k] = <<x, i>> /\ q[k] = F[x][i]
    BY <1>3
  <2>2. q[k].members \subseteq P[x]
    BY <1>5, <2>1
  <2>. QED
    BY <2>2
<1>7. ASSUME NEW f \in S
      PROVE  \E k \in 1 .. Len(q) : f \in q[k].members
  <2>1. PICK x \in DOMAIN F : f \in P[x]
    OBVIOUS
  <2>2. PICK i \in 1 .. Len(F[x]) : f \in F[x][i].members
    BY <1>5, <2>1
  <2>. QED
    BY <1>4, <2>2
<1>8. ASSUME NEW k \in 1 .. Len(q), NEW l \in 1 .. Len(q), k # l
      PROVE  q[k].members \cap q[l].members = {}
  <2>1. PICK x \in DOMAIN F : \E i \in 1 .. Len(F[x]) : at[k] = <<x, i>> /\ q[k] = F[x][i]
    BY <1>3
  <2>2. PICK i \in 1 .. Len(F[x]) : at[k] = <<x, i>> /\ q[k] = F[x][i]
    BY <2>1
  <2>3. PICK y \in DOMAIN F : \E j \in 1 .. Len(F[y]) : at[l] = <<y, j>> /\ q[l] = F[y][j]
    BY <1>3
  <2>4. PICK j \in 1 .. Len(F[y]) : at[l] = <<y, j>> /\ q[l] = F[y][j]
    BY <2>3
  <2>5. CASE x = y
    <3>1. i # j
      BY <1>2, <1>8, <2>2, <2>4, <2>5
    <3>. QED
      BY <1>5, <2>2, <2>4, <2>5, <3>1
  <2>6. CASE x # y
    <3>1. q[k].members \subseteq P[x] /\ q[l].members \subseteq P[y]
      BY <1>5, <2>2, <2>4
    <3>. QED
      BY <2>6, <3>1 DEF Shares
  <2>. QED
    BY <2>5, <2>6
<1>. QED
  BY <1>1, <1>6, <1>7, <1>8 DEF Divides, q

\* Among the clusters of a device those without a time come last.
NullsLast(defs) ==
  \A i, j \in DOMAIN defs :
    i < j /\ defs[i].device = defs[j].device /\ defs[i].bucket = None => defs[j].bucket = None

\* No bucket of a device without a time in p is followed by one with a time in q.
NullsAfter(p, q) ==
  \A i \in DOMAIN p, j \in DOMAIN q :
    p[i].device = q[j].device /\ p[i].bucket = None => q[j].bucket = None

\* Every bucket has a time.
NoNull(defs) == \A i \in DOMAIN defs : defs[i].bucket # None

\* No bucket has a time.
AllNull(defs) == \A i \in DOMAIN defs : defs[i].bucket = None

\* A list after a list keeps the buckets without a time last.
LEMMA NullsLastMore ==
  ASSUME NEW V, NEW p \in Seq(V), NEW q \in Seq(V), NullsLast(p), NullsLast(q), NullsAfter(p, q)
  PROVE  NullsLast(p \o q)
<1>. DEFINE n == Len(p)
            m == Len(q)
            w == p \o q
<1>1. /\ n \in Nat /\ m \in Nat /\ DOMAIN w = 1 .. n + m /\ DOMAIN p = 1 .. n /\ DOMAIN q = 1 .. m
      /\ \A k \in 1 .. n + m : w[k] = IF k <= n THEN p[k] ELSE q[k - n]
  OBVIOUS
<1>. HIDE DEF n, m, w
<1>2. ASSUME NEW k \in 1 .. n + m
      PROVE  \/ k <= n /\ k \in 1 .. n /\ w[k] = p[k]
             \/ k > n /\ k - n \in 1 .. m /\ w[k] = q[k - n]
  BY <1>1
<1>3. ASSUME NEW i \in 1 .. n + m, NEW j \in 1 .. n + m, i < j,
             w[i].device = w[j].device, w[i].bucket = None
      PROVE  w[j].bucket = None
  <2>1. CASE i <= n /\ i \in 1 .. n /\ w[i] = p[i]
    <3>1. CASE j <= n /\ j \in 1 .. n /\ w[j] = p[j]
      BY <1>1, <1>3, <2>1, <3>1 DEF NullsLast
    <3>2. CASE j > n /\ j - n \in 1 .. m /\ w[j] = q[j - n]
      BY <1>1, <1>3, <2>1, <3>2 DEF NullsAfter
    <3>. QED
      BY <1>2, <3>1, <3>2
  <2>2. CASE i > n /\ i - n \in 1 .. m /\ w[i] = q[i - n]
    <3>1. j > n /\ j - n \in 1 .. m /\ w[j] = q[j - n] /\ i - n < j - n
      BY <1>1, <1>2, <1>3, <2>2
    <3>. QED
      BY <1>1, <1>3, <2>2, <3>1 DEF NullsLast
  <2>. QED
    BY <1>2, <2>1, <2>2
<1>. QED
  BY <1>1, <1>3 DEF NullsLast, w

\* What Concat lists is listed by one of its parts.
LEMMA ConcatFrom ==
  ASSUME NEW V, NEW F, Lists(F, V), NEW k \in DOMAIN Concat(F)
  PROVE  \E x \in DOMAIN F : \E i \in DOMAIN F[x] : Concat(F)[k] = F[x][i]
<1>. DEFINE q == Concat(F)
<1>1. q \in Seq(V) /\ Placed(q, F, DOMAIN F)
  BY ConcatPlaced
<1>. HIDE DEF q
<1>2. PICK at \in [1 .. Len(q) -> Slots(F, DOMAIN F)] : \A i \in 1 .. Len(q) : q[i] = At(F)[at[i]]
  BY <1>1 DEF Placed, Enumerates
<1>3. k \in 1 .. Len(q)
  BY <1>1 DEF q
<1>4. at[k] \in Slots(F, DOMAIN F) /\ q[k] = At(F)[at[k]]
  BY <1>2, <1>3
<1>5. PICK x \in DOMAIN F, i \in Nat : at[k] = <<x, i>> /\ i \in 1 .. Len(F[x])
  BY <1>4 DEF Slots
<1>6. At(F)[<<x, i>>] = F[x][i]
  BY <1>4, <1>5 DEF At
<1>7. i \in DOMAIN F[x]
  BY <1>5 DEF Lists
<1>. QED
  BY <1>4, <1>5, <1>6, <1>7 DEF q

\* The parts of s have their nulls last, and so has what is made of them.
LEMMA NullsLastConcat ==
  ASSUME NEW V, NEW F, Lists(F, V), \A x \in DOMAIN F : NullsLast(F[x]),
         \A x, y \in DOMAIN F : x < y => NullsAfter(F[x], F[y])
  PROVE  NullsLast(Concat(F))
<1>. DEFINE D == DOMAIN F
            From(p, s) == \A k \in DOMAIN p : \E x \in s : \E i \in DOMAIN F[x] : p[k] = F[x][i]
<1>1. PICK iter : /\ Concat(F) = iter[D]
                  /\ \A s \in SUBSET D :
                       iter[s] = IF s = {} THEN <<>> ELSE iter[s \ {Max(s)}] \o F[Max(s)]
  BY ConcatFold
<1>2. D \in SUBSET Int /\ IsFiniteSet(D) /\ \A x \in D : F[x] \in Seq(V)
  BY DEF Lists
<1>. DEFINE Good == {s \in SUBSET D : iter[s] \in Seq(V) /\ NullsLast(iter[s]) /\ From(iter[s], s)}
<1>3. {} \in Good
  <2>0. {} \in SUBSET D /\ <<>> \in Seq(V)
    OBVIOUS
  <2>1. iter[{}] = <<>>
    BY <1>1, <2>0
  <2>2. DOMAIN <<>> = {}
    OBVIOUS
  <2>. QED
    BY <2>0, <2>1, <2>2 DEF NullsLast
<1>4. ASSUME NEW s \in SUBSET D, s # {}
      PROVE  \E x \in s : s \ {x} \in Good => s \in Good
  <2>. DEFINE m == Max(s)
              p == iter[s \ {m}]
  <2>1. s \in SUBSET Int /\ IsFiniteSet(s)
    BY <1>2, FS_Subset
  <2>2. m \in s /\ \A x \in s \ {m} : x < m
    <3>1. m \in s /\ \A x \in s : x <= m
      BY <1>4, <2>1, MaxOf
    <3>. HIDE DEF m
    <3>. QED
      BY <2>1, <3>1
  <2>3. iter[s] = p \o F[m]
    BY <1>1, <1>4
  <2>4. ASSUME s \ {m} \in Good
        PROVE  s \in Good
    <3>1. p \in Seq(V) /\ NullsLast(p) /\ From(p, s \ {m}) /\ F[m] \in Seq(V) /\ NullsLast(F[m])
      BY <1>2, <2>2, <2>4
    <3>. HIDE DEF m, p, D
    <3>2. NullsAfter(p, F[m])
      <4>1. \A x \in s \ {m} : NullsAfter(F[x], F[m])
        BY <2>2 DEF D
      <4>. SUFFICES ASSUME NEW i \in DOMAIN p, NEW j \in DOMAIN F[m],
                           p[i].device = F[m][j].device, p[i].bucket = None
                    PROVE  F[m][j].bucket = None
        BY DEF NullsAfter
      <4>2. PICK x \in s \ {m} : \E k \in DOMAIN F[x] : p[i] = F[x][k]
        BY <3>1
      <4>. QED
        BY <4>1, <4>2 DEF NullsAfter
    <3>3. NullsLast(p \o F[m]) /\ p \o F[m] \in Seq(V)
      BY <3>1, <3>2, NullsLastMore
    <3>4. From(p \o F[m], s)
      <4>. SUFFICES ASSUME NEW k \in DOMAIN (p \o F[m])
                    PROVE  \E x \in s : \E i \in DOMAIN F[x] : (p \o F[m])[k] = F[x][i]
        OBVIOUS
      <4>1. \/ k \in DOMAIN p /\ (p \o F[m])[k] = p[k]
            \/ k - Len(p) \in DOMAIN F[m] /\ (p \o F[m])[k] = F[m][k - Len(p)]
        BY <3>1
      <4>. QED
        BY <2>2, <3>1, <4>1
    <3>. HIDE DEF From
    <3>. QED
      BY <2>3, <3>3, <3>4
  <2>. QED
    BY <2>2, <2>4
<1>5. SUBSET D \subseteq Good
  <2>. HIDE DEF Good, D
  <2>1. \A s \in SUBSET D : s # {} => \E x \in s : s \ {x} \in Good => s \in Good
    BY <1>4
  <2>. QED
    BY <1>2, <1>3, <2>1, SetInduction
<1>6. D \in Good
  BY <1>5
<1>. QED
  BY <1>1, <1>6

\* The device that a cluster is put under.
Key(a, G) ==
  LET keys == {DeviceOf(a, f) : f \in G}
  IN  IF Cardinality(keys) = 1 THEN CHOOSE d \in keys : TRUE ELSE Merged

\* A cluster of one device is filed under that device.
LEMMA KeyOfOne ==
  ASSUME NEW a, NEW G, G # {}, NEW d, \A f \in G : DeviceOf(a, f) = d
  PROVE  Key(a, G) = d
<1>1. {DeviceOf(a, f) : f \in G} = {d}
  OBVIOUS
<1>2. Cardinality({d}) = 1
  BY FS_Singleton
<1>. QED
  BY <1>1, <1>2 DEF Key

\* A cluster is filed under a device key.
LEMMA KeyType ==
  ASSUME NEW a \in Albums, NEW G \in SUBSET Photo
  PROVE  Key(a, G) \in Int
<1>1. \A f \in G : DeviceOf(a, f) \in Int
  BY GroupingAssumption DEF Albums, DeviceOf
<1>. DEFINE keys == {DeviceOf(a, f) : f \in G}
<1>2. CASE Cardinality(keys) = 1
  <2>2. keys # {}
    BY <1>2, FS_EmptySet
  <2>. QED
    BY <1>1, <1>2, <2>2 DEF Key
<1>3. CASE Cardinality(keys) # 1
  BY <1>3, GroupingAssumption DEF Key
<1>. QED
  BY <1>2, <1>3

-----------------------------------------------------------------------------
(* What a timeline hands to WriteClusters                                  *)

\* The rows that WriteClusters may be given.
ClusterDefs == [device : Int, bucket : Int \cup {None}, members : SUBSET Photo]

\* What a cluster has to be.
IsScene(d, a, files, embeds, cfg) ==
  LET G == d.members
      burst == Burst(a, files, embeds, cfg, CHOOSE f \in G : TRUE)
      starts == {Clock(a, files, embeds, cfg, f) : f \in burst}
  IN  /\ G # {} /\ \A f \in G : SceneOf(a, files, embeds, cfg, f) = G
      /\ d.bucket = IF starts = {None} THEN None ELSE Min(starts)
      /\ d.device = Key(a, G)

\* The clusters that are scenes.
Scenes(a, files, embeds, cfg) == {d \in ClusterDefs : IsScene(d, a, files, embeds, cfg)}

\* T is a burst, and start is when it begins.
Begun(T, start, a, files, embeds, cfg) ==
  LET starts == {Clock(a, files, embeds, cfg, f) : f \in T}
  IN  /\ T \in SUBSET Photo /\ OneBurst(T, a, files, embeds, cfg)
      /\ start \in Int \cup {None} /\ start = IF starts = {None} THEN None ELSE Min(starts)

\* A group of a burst is a scene.
LEMMA BurstIsScene ==
  ASSUME NEW a \in Albums, NEW files, NEW embeds, NEW cfg, NEW T, NEW start,
         Begun(T, start, a, files, embeds, cfg), NEW G \in Parts(a, T, embeds, cfg.threshold)
  PROVE  G \subseteq T /\ G # {} /\ ClusterDef(Key(a, G), start, G) \in Scenes(a, files, embeds, cfg)
<1>. DEFINE d == ClusterDef(Key(a, G), start, G)
            f0 == CHOOSE f \in G : TRUE
            starts == {Clock(a, files, embeds, cfg, f) : f \in T}
<1>1. /\ T \in SUBSET Photo /\ OneBurst(T, a, files, embeds, cfg)
      /\ start \in Int \cup {None} /\ start = IF starts = {None} THEN None ELSE Min(starts)
  BY DEF Begun
<1>2. IsFiniteSet(T) /\ T \in SUBSET Int
  BY <1>1, PhotosFinite
<1>3. G \subseteq T /\ G # {}
  <2>1. Parts(a, T, embeds, cfg.threshold) \in Partitions(T)
    BY <1>2, PartsPartition
  <2>. QED
    BY <2>1 DEF Partitions
<1>4. ASSUME NEW f \in G
      PROVE  SceneOf(a, files, embeds, cfg, f) = G
  BY <1>1, <1>2, PartsAreScenes
<1>5. Burst(a, files, embeds, cfg, f0) = T
  <2>1. f0 \in T
    BY <1>3
  <2>. HIDE DEF f0
  <2>. QED
    BY <1>1, <2>1 DEF OneBurst
<1>6. d.members = G /\ d.bucket = start /\ d.device = Key(a, G)
  BY DEF ClusterDef
<1>7. IsScene(d, a, files, embeds, cfg)
  <2>. HIDE DEF d
  <2>. QED
    BY <1>1, <1>3, <1>4, <1>5, <1>6 DEF IsScene
<1>8. d \in ClusterDefs
  <2>1. Key(a, G) \in Int
    BY <1>1, <1>3, KeyType
  <2>. QED
    BY <1>1, <1>3, <2>1 DEF ClusterDef, ClusterDefs
<1>. QED
  BY <1>3, <1>7, <1>8 DEF Scenes

\* The list of clusters made of a bucket with the photos T.
Emitted(e, a, T, embeds, threshold, start) ==
  LET groups == clusterIDs(a, T, embeds, threshold)
  IN  e = [i \in DOMAIN groups |-> ClusterDef(Key(a, groups[i]), start, groups[i])]

\* The clusters of one bucket share out its photos.
LEMMA EmittedDivides ==
  ASSUME NEW a \in Albums, NEW files, NEW embeds, NEW cfg, NEW T, NEW start,
         Begun(T, start, a, files, embeds, cfg),
         NEW e, Emitted(e, a, T, embeds, cfg.threshold, start)
  PROVE  Divides(e, T, Scenes(a, files, embeds, cfg))
<1>. DEFINE groups == clusterIDs(a, T, embeds, cfg.threshold)
            P == Parts(a, T, embeds, cfg.threshold)
            V == Scenes(a, files, embeds, cfg)
<1>1. IsFiniteSet(T) /\ T \in SUBSET Int
  <2>1. T \in SUBSET Photo
    BY DEF Begun
  <2>. QED
    BY <2>1, PhotosFinite
<1>2. /\ groups \in Seq(P)
      /\ \A G \in P : \E i \in 1 .. Len(groups) : groups[i] = G
      /\ \A i, j \in 1 .. Len(groups) : groups[i] = groups[j] => i = j
  BY <1>1, clusterIDsLists
<1>3. P \in Partitions(T)
  BY <1>1, PartsPartition
<1>4. ASSUME NEW G \in P
      PROVE  G \subseteq T /\ ClusterDef(Key(a, G), start, G) \in V
  BY BurstIsScene
<1>5. e = [i \in DOMAIN groups |-> ClusterDef(Key(a, groups[i]), start, groups[i])]
  BY DEF Emitted
<1>. HIDE DEF groups, P, V
<1>6. DOMAIN groups = 1 .. Len(groups) /\ Len(groups) \in Nat /\ \A i \in 1 .. Len(groups) : groups[i] \in P
  BY <1>2
<1>7. \A i \in 1 .. Len(groups) : e[i] = ClusterDef(Key(a, groups[i]), start, groups[i])
  BY <1>5, <1>6
<1>8. ASSUME NEW i \in 1 .. Len(groups)
      PROVE  e[i] \in V /\ e[i].members = groups[i]
  <2>1. groups[i] \in P /\ e[i] = ClusterDef(Key(a, groups[i]), start, groups[i])
    BY <1>6, <1>7
  <2>2. e[i].members = groups[i]
    BY <2>1 DEF ClusterDef
  <2>. QED
    BY <1>4, <2>1, <2>2
<1>9. e \in Seq(V) /\ Len(e) = Len(groups)
  <2>1. e \in [1 .. Len(groups) -> V]
    <3>1. e = [i \in 1 .. Len(groups) |-> e[i]]
      BY <1>5, <1>6
    <3>. QED
      BY <1>8, <3>1
  <2>. QED
    BY <1>6, <2>1
<1>10. \A i \in 1 .. Len(e) : e[i].members \subseteq T
  BY <1>4, <1>6, <1>8, <1>9
<1>11. ASSUME NEW f \in T
       PROVE  \E i \in 1 .. Len(e) : f \in e[i].members
  <2>1. PICK G \in P : f \in G
    BY <1>3 DEF Partitions
  <2>2. PICK i \in 1 .. Len(groups) : groups[i] = G
    BY <1>2
  <2>. QED
    BY <1>8, <1>9, <2>1, <2>2
<1>12. ASSUME NEW i \in 1 .. Len(e), NEW j \in 1 .. Len(e), i # j
       PROVE  e[i].members \cap e[j].members = {}
  <2>1. groups[i] \in P /\ groups[j] \in P /\ groups[i] # groups[j]
    BY <1>2, <1>6, <1>9, <1>12
  <2>2. groups[i] \cap groups[j] = {}
    BY <1>3, <2>1 DEF Partitions
  <2>. QED
    BY <1>8, <1>9, <2>2
<1>. QED
  BY <1>9, <1>10, <1>11, <1>12 DEF Divides, V

\* Every bucket is a burst that begins with its first photo.
Bursts(buckets, S, time, a, files, embeds, cfg) ==
  \A i \in 1 .. Len(buckets) :
    /\ Begun(ToSet(buckets[i]), time[Head(buckets[i])], a, files, embeds, cfg)
    /\ ToSet(buckets[i]) \subseteq S /\ Head(buckets[i]) \in ToSet(buckets[i])

\* The buckets of a lane are its bursts.
LEMMA BucketsAreBursts ==
  ASSUME NEW a \in Albums, NEW files \in SUBSET Photo, NEW embeds, NEW cfg, cfg.bucket \in Int,
         NEW S, NEW time, Lane(a, files, embeds, cfg, S, time),
         NEW buckets, buckets = gapWalk(S, time, cfg.bucket)
  PROVE  Bursts(buckets, S, time, a, files, embeds, cfg)
<1>. SUFFICES ASSUME NEW i \in 1 .. Len(buckets)
              PROVE  /\ Begun(ToSet(buckets[i]), time[Head(buckets[i])], a, files, embeds, cfg)
                     /\ ToSet(buckets[i]) \subseteq S /\ Head(buckets[i]) \in ToSet(buckets[i])
  BY DEF Bursts
<1>. DEFINE q == sortRunFiles(S, time)
            b == buckets[i]
            T == ToSet(buckets[i])
            starts == {Clock(a, files, embeds, cfg, f) : f \in T}
<1>1. /\ S \subseteq files /\ Timed(S, time)
      /\ \A f \in S : time[f] = Clock(a, files, embeds, cfg, f)
  BY DEF Lane
<1>2. InTime(S, time, q)
  BY <1>1, TimesAscend
<1>3. q \in Seq(S)
  BY <1>2 DEF InTime
<1>4. Parted(buckets, S) /\ \A k \in 1 .. Len(buckets) : \E l, h : Piece(buckets[k], q, l, h, time, cfg.bucket)
  BY <1>1, gapWalkParts
<1>. HIDE DEF q
<1>5. PICK l, h : Piece(b, q, l, h, time, cfg.bucket)
  BY <1>4
<1>6. buckets \in Seq(Seq(S)) /\ Head(b) \in T
  BY <1>4 DEF Parted
<1>7. T = Stretch(q, l, h) /\ Head(b) = q[l] /\ T \subseteq S
  BY <1>3, <1>5, <1>6, PieceSet
<1>. HIDE DEF b, T
<1>8. OneBurst(T, a, files, embeds, cfg)
  BY <1>2, <1>5, <1>7, PieceIsBurst
<1>9. starts = ClocksOf(Stretch(q, l, h), time)
  <2>1. starts = {time[f] : f \in T}
    BY <1>1, <1>7
  <2>. QED
    BY <1>7, <2>1 DEF ClocksOf
<1>. HIDE DEF starts
<1>10. time[q[l]] = IF starts = {None} THEN None ELSE Min(starts)
  BY <1>2, <1>5, <1>9, PieceStarts
<1>11. time[q[l]] \in Int \cup {None}
  <2>1. q[l] \in S
    BY <1>6, <1>7
  <2>. QED
    BY <1>1, <2>1 DEF Timed
<1>12. T \in SUBSET Photo
  BY <1>1, <1>7
<1>13. Begun(T, time[q[l]], a, files, embeds, cfg)
  BY <1>8, <1>10, <1>11, <1>12 DEF Begun, starts
<1>. QED
  BY <1>6, <1>7, <1>13 DEF b, T

\* The list of clusters made of each bucket of a lane.
Emits(F, buckets, time, a, embeds, threshold) ==
  /\ DOMAIN F = DOMAIN buckets
  /\ \A i \in DOMAIN buckets :
       Emitted(F[i], a, ToSet(buckets[i]), embeds, threshold, time[Head(buckets[i])])

\* All clusters of a bucket have its time.
LEMMA EmittedTime ==
  ASSUME NEW a, NEW T, NEW embeds, NEW threshold, NEW start, NEW e,
         Emitted(e, a, T, embeds, threshold, start), NEW i \in DOMAIN e
  PROVE  e[i].bucket = start
BY DEF Emitted, ClusterDef

\* In the clusters of a lane those without a time come last, and there are none when every
\* photo has a time.
LEMMA LaneNulls ==
  ASSUME NEW S, NEW time, Timed(S, time), NEW bucketSec,
         NEW buckets, buckets = gapWalk(S, time, bucketSec),
         NEW a, NEW embeds, NEW threshold, NEW F, Emits(F, buckets, time, a, embeds, threshold),
         NEW V, Lists(F, V)
  PROVE  NullsLast(Concat(F)) /\ ((\A f \in S : time[f] # None) => NoNull(Concat(F)))
<1>. DEFINE q == sortRunFiles(S, time)
<1>1. InTime(S, time, q)
  BY TimesAscend
<1>2. Parted(buckets, S) /\ InOrderOf(buckets, q)
  BY gapWalkParts
<1>. HIDE DEF q
<1>3. DOMAIN F = 1 .. Len(buckets) /\ DOMAIN buckets = 1 .. Len(buckets)
  <2>1. buckets \in Seq(Seq(S))
    BY <1>2 DEF Parted
  <2>. QED
    BY <2>1 DEF Emits
<1>4. ASSUME NEW x \in DOMAIN F, NEW i \in DOMAIN F[x]
      PROVE  F[x][i].bucket = time[Head(buckets[x])]
  <2>1. Emitted(F[x], a, ToSet(buckets[x]), embeds, threshold, time[Head(buckets[x])])
    BY DEF Emits
  <2>. QED
    BY <2>1, EmittedTime
<1>5. \A x \in DOMAIN F : NullsLast(F[x])
  BY <1>4 DEF NullsLast
<1>6. ASSUME NEW x \in DOMAIN F, NEW y \in DOMAIN F, x < y
      PROVE  NullsAfter(F[x], F[y])
  <2>1. PICK k \in 1 .. Len(q), l \in 1 .. Len(q) :
          k < l /\ Head(buckets[x]) = q[k] /\ Head(buckets[y]) = q[l]
    <3>1. x \in 1 .. Len(buckets) /\ y \in 1 .. Len(buckets)
      BY <1>3
    <3>. QED
      BY <1>2, <1>6, <3>1 DEF InOrderOf
  <2>2. k <= l
    BY <2>1
  <2>3. time[Head(buckets[x])] = None => time[Head(buckets[y])] = None
    BY <1>1, <2>1, <2>2 DEF InTime
  <2>. QED
    BY <1>4, <2>3 DEF NullsAfter
<1>7. NullsLast(Concat(F))
  BY <1>5, <1>6, NullsLastConcat
<1>8. ASSUME \A f \in S : time[f] # None, NEW k \in DOMAIN Concat(F)
      PROVE  Concat(F)[k].bucket # None
  <2>1. PICK x \in DOMAIN F : \E i \in DOMAIN F[x] : Concat(F)[k] = F[x][i]
    BY ConcatFrom
  <2>2. Head(buckets[x]) \in S
    BY <1>2, <1>3 DEF Parted
  <2>. QED
    BY <1>4, <1>8, <2>1, <2>2
<1>. QED
  BY <1>7, <1>8 DEF NoNull

\* The clusters of a lane share out its photos.
LEMMA LaneDivides ==
  ASSUME NEW a \in Albums, NEW files \in SUBSET Photo, NEW embeds, NEW cfg, cfg.bucket \in Int,
         NEW S, NEW time, Lane(a, files, embeds, cfg, S, time),
         NEW buckets, buckets = gapWalk(S, time, cfg.bucket),
         NEW F, Emits(F, buckets, time, a, embeds, cfg.threshold)
  PROVE  /\ Divides(Concat(F), S, Scenes(a, files, embeds, cfg))
         /\ NullsLast(Concat(F)) /\ ((\A f \in S : time[f] # None) => NoNull(Concat(F)))
<1>. DEFINE V == Scenes(a, files, embeds, cfg)
            P == [i \in 1 .. Len(buckets) |-> ToSet(buckets[i])]
<1>1. Timed(S, time)
  BY DEF Lane
<1>2. Parted(buckets, S)
  BY <1>1, gapWalkParts
<1>0. buckets \in Seq(Seq(S))
  BY <1>2 DEF Parted
<1>3. /\ Len(buckets) \in Nat /\ DOMAIN buckets = 1 .. Len(buckets)
      /\ \A i \in 1 .. Len(buckets) : ToSet(buckets[i]) \subseteq S
      /\ \A f \in S : \E i \in 1 .. Len(buckets) : f \in ToSet(buckets[i])
      /\ \A i, j \in 1 .. Len(buckets) : i # j => ToSet(buckets[i]) \cap ToSet(buckets[j]) = {}
  <2>1. Len(buckets) \in Nat /\ DOMAIN buckets = 1 .. Len(buckets)
    BY <1>0
  <2>. QED
    BY <1>2, <2>1 DEF Parted
<1>4. /\ DOMAIN F = 1 .. Len(buckets)
      /\ \A i \in 1 .. Len(buckets) :
           Emitted(F[i], a, ToSet(buckets[i]), embeds, cfg.threshold, time[Head(buckets[i])])
  BY <1>3 DEF Emits
<1>5. ASSUME NEW i \in 1 .. Len(buckets)
      PROVE  Divides(F[i], ToSet(buckets[i]), V)
  <2>1. Begun(ToSet(buckets[i]), time[Head(buckets[i])], a, files, embeds, cfg)
    BY BucketsAreBursts DEF Bursts
  <2>2. Emitted(F[i], a, ToSet(buckets[i]), embeds, cfg.threshold, time[Head(buckets[i])])
    BY <1>4
  <2>. QED
    BY <2>1, <2>2, EmittedDivides
<1>6. Lists(F, V)
  <2>1. IsFiniteSet(1 .. Len(buckets)) /\ 1 .. Len(buckets) \subseteq Int
    BY <1>3, FS_Interval
  <2>2. \A i \in 1 .. Len(buckets) : F[i] \in Seq(V)
    BY <1>5 DEF Divides
  <2>. QED
    BY <1>4, <2>1, <2>2 DEF Lists
<1>7. Shares(F, P, V)
  BY <1>3, <1>4, <1>5 DEF Shares
<1>8. \A f : f \in S <=> \E x \in DOMAIN F : f \in P[x]
  BY <1>3, <1>4
<1>. HIDE DEF V, P
<1>9. Divides(Concat(F), S, V)
  BY <1>6, <1>7, <1>8, DividesConcat
<1>10. NullsLast(Concat(F)) /\ ((\A f \in S : time[f] # None) => NoNull(Concat(F)))
  BY <1>1, <1>6, LaneNulls
<1>. QED
  BY <1>9, <1>10 DEF V

-----------------------------------------------------------------------------
(* Which photos are compared by time                                       *)

\* A photo has a device key.
LEMMA DeviceOfType ==
  ASSUME NEW a \in Albums, NEW f \in Photo
  PROVE  DeviceOf(a, f) \in Devices \cup {Unknown} /\ DeviceOf(a, f) \in Int
BY GroupingAssumption DEF Albums, DeviceOf

\* The devices are finitely many numbers.
LEMMA devicesFinite ==
  ASSUME NEW a \in Albums, NEW files \in SUBSET Photo
  PROVE  IsFiniteSet(devices(a, files)) /\ devices(a, files) \subseteq Int
<1>1. devices(a, files) \subseteq Devices \cup {Unknown}
  BY DeviceOfType DEF devices
<1>2. IsFiniteSet(Devices \cup {Unknown})
  BY GroupingAssumption, FS_Singleton, FS_Union
<1>3. Devices \cup {Unknown} \subseteq Int
  BY GroupingAssumption
<1>. QED
  BY <1>1, <1>2, <1>3, FS_Subset

\* The capture times divide any photos that have one or belong to one device alike.
LEMMA TakenTimed ==
  ASSUME NEW a \in Albums, NEW S \in SUBSET Photo
  PROVE  Timed(S, a.taken)
<1>1. IsFiniteSet(S) /\ S \subseteq Int
  BY PhotosFinite
<1>2. \A f \in S : a.taken[f] \in Int \cup {None}
  BY DEF Albums
<1>. QED
  BY <1>1, <1>2 DEF Timed

\* Without merging the photos of a device are compared by time.
LEMMA DeviceLane ==
  ASSUME NEW a \in Albums, NEW files \in SUBSET Photo, NEW embeds, NEW cfg, ~ Merging(embeds, cfg),
         NEW d, NEW S, S = {f \in files : DeviceOf(a, f) = d}
  PROVE  Lane(a, files, embeds, cfg, S, a.taken)
<1>1. S \subseteq files /\ Timed(S, a.taken)
  BY TakenTimed
<1>2. \A f \in S : a.taken[f] = Clock(a, files, embeds, cfg, f)
  BY DEF Clock
<1>3. ASSUME NEW f \in S, NEW g \in files
      PROVE  Comparable(a, embeds, cfg, f, g) <=> g \in S /\ a.taken[f] # None /\ a.taken[g] # None
  BY DEF Comparable
<1>. QED
  BY <1>1, <1>2, <1>3 DEF Lane

\* With merging the photos with an embedding and a time are compared by the aligned clock.
LEMMA MergedLane ==
  ASSUME NEW a \in Albums, NEW files \in SUBSET Photo, NEW embeds, NEW cfg, Merging(embeds, cfg),
         NEW S, S = {f \in files \cap embeds : a.taken[f] # None}
  PROVE  /\ Lane(a, files, embeds, cfg, S, canonical(a, files, embeds))
         /\ \A f \in S : canonical(a, files, embeds)[f] # None
<1>. DEFINE clock == canonical(a, files, embeds)
            skew == EstimateSkew(a, files, embeds)
<1>1. skew \in [Devices \cup {Unknown} -> Int]
  BY EstimateSkewIs
<1>2. ASSUME NEW f \in S
      PROVE  /\ clock[f] = Clock(a, files, embeds, cfg, f) /\ clock[f] \in Int /\ clock[f] # None
             /\ a.taken[f] # None
  <2>1. f \in Photo /\ f \in files \cap embeds /\ a.taken[f] # None
    OBVIOUS
  <2>2. clock[f] = a.taken[f] - skew[DeviceOf(a, f)]
    BY <2>1 DEF canonical
  <2>3. a.taken[f] \in Int /\ skew[DeviceOf(a, f)] \in Int
    BY <1>1, <2>1, DeviceOfType DEF Albums
  <2>4. clock[f] \in Int
    BY <2>2, <2>3
  <2>5. Clock(a, files, embeds, cfg, f) = a.taken[f] - skew[DeviceOf(a, f)]
    BY <2>1 DEF Clock
  <2>. QED
    BY <2>1, <2>2, <2>4, <2>5, GroupingAssumption
<1>. HIDE DEF clock, skew
<1>3. Timed(S, clock)
  <2>1. IsFiniteSet(S) /\ S \subseteq Int
    <3>1. S \in SUBSET Photo
      OBVIOUS
    <3>. QED
      BY <3>1, PhotosFinite
  <2>. QED
    BY <1>2, <2>1 DEF Timed
<1>4. ASSUME NEW f \in S, NEW g \in files
      PROVE  Comparable(a, embeds, cfg, f, g) <=> g \in S /\ clock[f] # None /\ clock[g] # None
  <2>1. f \in embeds /\ a.taken[f] # None /\ clock[f] # None
    BY <1>2
  <2>2. Comparable(a, embeds, cfg, f, g) <=> a.taken[g] # None /\ g \in embeds
    BY <2>1 DEF Comparable
  <2>. QED
    BY <1>2, <2>1, <2>2
<1>. QED
  BY <1>2, <1>3, <1>4 DEF Lane, clock

\* With merging the photos of a device without an embedding are compared by their own clock.
LEMMA NoEmbLane ==
  ASSUME NEW a \in Albums, NEW files \in SUBSET Photo, NEW embeds, NEW cfg, Merging(embeds, cfg),
         NEW d, NEW S, S = {f \in files \ embeds : DeviceOf(a, f) = d /\ a.taken[f] # None}
  PROVE  Lane(a, files, embeds, cfg, S, a.taken)
<1>1. S \subseteq files /\ Timed(S, a.taken)
  BY TakenTimed
<1>2. \A f \in S : a.taken[f] = Clock(a, files, embeds, cfg, f)
  BY DEF Clock
<1>3. ASSUME NEW f \in S, NEW g \in files
      PROVE  Comparable(a, embeds, cfg, f, g) <=> g \in S /\ a.taken[f] # None /\ a.taken[g] # None
  BY DEF Comparable
<1>. QED
  BY <1>1, <1>2, <1>3 DEF Lane

\* Photos without a time are compared with none.
LEMMA NoTimeLane ==
  ASSUME NEW a \in Albums, NEW files \in SUBSET Photo, NEW embeds, NEW cfg,
         NEW d, NEW S, S = {f \in files : DeviceOf(a, f) = d /\ a.taken[f] = None}
  PROVE  Lane(a, files, embeds, cfg, S, a.taken)
<1>1. S \subseteq files /\ Timed(S, a.taken)
  BY TakenTimed
<1>2. \A f \in S : a.taken[f] = Clock(a, files, embeds, cfg, f)
  BY DEF Clock
<1>3. ASSUME NEW f \in S, NEW g \in files
      PROVE  Comparable(a, embeds, cfg, f, g) <=> g \in S /\ a.taken[f] # None /\ a.taken[g] # None
  BY DEF Comparable
<1>. QED
  BY <1>1, <1>2, <1>3 DEF Lane

\* The groups of a bucket are in it.
LEMMA clusterIDsInside ==
  ASSUME NEW a, NEW T \in SUBSET Photo, NEW embeds, NEW threshold, NEW groups,
         groups = clusterIDs(a, T, embeds, threshold), NEW i \in DOMAIN groups
  PROVE  groups[i] \subseteq T /\ groups[i] # {}
<1>1. IsFiniteSet(T) /\ T \in SUBSET Int
  BY PhotosFinite
<1>2. groups \in Seq(Parts(a, T, embeds, threshold))
  BY <1>1, clusterIDsLists
<1>3. Parts(a, T, embeds, threshold) \in Partitions(T)
  BY <1>1, PartsPartition
<1>4. groups[i] \in Parts(a, T, embeds, threshold)
  <2>. HIDE DEF Parts
  <2>. QED
    BY <1>2
<1>. QED
  BY <1>3, <1>4 DEF Partitions

-----------------------------------------------------------------------------
(* The timelines with scenes                                               *)

\* rebuildAllPerDevice: the photos of one device.
Timeline(a, S, embeds, cfg, d) ==
  LET buckets == gapWalk(S, a.taken, cfg.bucket)
      emit(bucket) ==
        LET groups == clusterIDs(a, ToSet(bucket), embeds, cfg.threshold)
        IN  [i \in DOMAIN groups |-> ClusterDef(d, a.taken[Head(bucket)], groups[i])]
  IN  Concat([i \in DOMAIN buckets |-> emit(buckets[i])])

\* The clusters of a device share out its photos.
LEMMA TimelineDivides ==
  ASSUME NEW a \in Albums, NEW files \in SUBSET Photo, NEW embeds, NEW cfg, cfg.bucket \in Int,
         ~ Merging(embeds, cfg), NEW d, NEW S, S = {f \in files : DeviceOf(a, f) = d}
  PROVE  /\ Divides(Timeline(a, S, embeds, cfg, d), S, Scenes(a, files, embeds, cfg))
         /\ NullsLast(Timeline(a, S, embeds, cfg, d))
<1>. DEFINE time == a.taken
            buckets == gapWalk(S, time, cfg.bucket)
            groups(i) == clusterIDs(a, ToSet(buckets[i]), embeds, cfg.threshold)
            emit(i) == [j \in DOMAIN groups(i) |-> ClusterDef(d, time[Head(buckets[i])], groups(i)[j])]
            F == [i \in DOMAIN buckets |-> emit(i)]
<1>1. Timeline(a, S, embeds, cfg, d) = Concat(F)
  BY DEF Timeline
<1>2. Lane(a, files, embeds, cfg, S, time)
  BY DeviceLane
<1>. HIDE DEF time
<1>3. DOMAIN buckets = 1 .. Len(buckets)
  <2>1. Timed(S, time)
    BY <1>2 DEF Lane
  <2>2. Parted(buckets, S)
    BY <2>1, gapWalkParts
  <2>3. buckets \in Seq(Seq(S))
    BY <2>2 DEF Parted
  <2>. QED
    BY <2>3
<1>. HIDE DEF buckets
<1>4. ASSUME NEW i \in DOMAIN buckets
      PROVE  Emitted(F[i], a, ToSet(buckets[i]), embeds, cfg.threshold, time[Head(buckets[i])])
  <2>1. ToSet(buckets[i]) \subseteq S
    <3>1. Bursts(buckets, S, time, a, files, embeds, cfg)
      BY <1>2, BucketsAreBursts DEF buckets
    <3>. QED
      BY <1>3, <3>1 DEF Bursts
  <2>2. ToSet(buckets[i]) \in SUBSET Photo /\ \A f \in ToSet(buckets[i]) : DeviceOf(a, f) = d
    BY <2>1
  <2>3. F[i] = [j \in DOMAIN groups(i) |-> ClusterDef(d, time[Head(buckets[i])], groups(i)[j])]
    OBVIOUS
  <2>. HIDE DEF F, groups
  <2>4. groups(i) = clusterIDs(a, ToSet(buckets[i]), embeds, cfg.threshold)
    BY DEF groups
  <2>5. ASSUME NEW j \in DOMAIN groups(i)
        PROVE  Key(a, groups(i)[j]) = d
    <3>1. groups(i)[j] \subseteq ToSet(buckets[i]) /\ groups(i)[j] # {}
      BY <2>2, <2>4, clusterIDsInside
    <3>2. \A f \in groups(i)[j] : DeviceOf(a, f) = d
      BY <2>2, <3>1
    <3>. QED
      BY <3>1, <3>2, KeyOfOne
  <2>6. F[i] = [j \in DOMAIN groups(i) |->
                  ClusterDef(Key(a, groups(i)[j]), time[Head(buckets[i])], groups(i)[j])]
    BY <2>3, <2>5
  <2>. QED
    BY <2>4, <2>6 DEF Emitted
<1>5. DOMAIN F = DOMAIN buckets
  OBVIOUS
<1>. HIDE DEF F
<1>6. Emits(F, buckets, time, a, embeds, cfg.threshold)
  BY <1>4, <1>5 DEF Emits
<1>7. Divides(Concat(F), S, Scenes(a, files, embeds, cfg)) /\ NullsLast(Concat(F))
  BY <1>2, <1>6, LaneDivides DEF buckets
<1>. QED
  BY <1>1, <1>7

\* The photos with an embedding and a time, on the aligned clocks.
MergedTimeline(a, S, files, embeds, cfg) ==
  LET clock == canonical(a, files, embeds)
      buckets == gapWalk(S, clock, cfg.bucket)
      key(G) == IF Cardinality({DeviceOf(a, f) : f \in G}) = 1
                THEN DeviceOf(a, CHOOSE f \in G : TRUE) ELSE Merged
      emit(bucket) ==
        LET groups == clusterIDs(a, ToSet(bucket), embeds, cfg.threshold)
        IN  [i \in DOMAIN groups |-> ClusterDef(key(groups[i]), clock[Head(bucket)], groups[i])]
  IN  Concat([i \in DOMAIN buckets |-> emit(buckets[i])])

\* The code looks at the first member and at whether the others have its device.
LEMMA KeyIs ==
  ASSUME NEW a \in Albums, NEW G \in SUBSET Photo, G # {}
  PROVE  Key(a, G) = IF Cardinality({DeviceOf(a, f) : f \in G}) = 1
                     THEN DeviceOf(a, CHOOSE f \in G : TRUE) ELSE Merged
<1>. DEFINE keys == {DeviceOf(a, f) : f \in G}
            g == CHOOSE f \in G : TRUE
<1>1. IsFiniteSet(keys)
  <2>1. keys \subseteq Devices \cup {Unknown}
    BY DeviceOfType
  <2>2. IsFiniteSet(Devices \cup {Unknown})
    BY GroupingAssumption, FS_Singleton, FS_Union
  <2>. QED
    BY <2>1, <2>2, FS_Subset
<1>2. DeviceOf(a, g) \in keys
  OBVIOUS
<1>3. Key(a, G) = IF Cardinality(keys) = 1 THEN CHOOSE d \in keys : TRUE ELSE Merged
  BY DEF Key
<1>. HIDE DEF keys, g
<1>4. ASSUME Cardinality(keys) = 1
      PROVE  (CHOOSE d \in keys : TRUE) = DeviceOf(a, g)
  <2>1. PICK x : keys = {x}
    BY <1>1, <1>4, FS_Singleton
  <2>. QED
    BY <1>2, <2>1
<1>5. Key(a, G) = IF Cardinality(keys) = 1 THEN DeviceOf(a, g) ELSE Merged
  BY <1>3, <1>4
<1>. QED
  BY <1>5 DEF keys, g

\* The clusters of the merged timeline share out its photos.
LEMMA MergedTimelineDivides ==
  ASSUME NEW a \in Albums, NEW files \in SUBSET Photo, NEW embeds, NEW cfg, cfg.bucket \in Int,
         Merging(embeds, cfg), NEW S, S = {f \in files \cap embeds : a.taken[f] # None}
  PROVE  /\ Divides(MergedTimeline(a, S, files, embeds, cfg), S, Scenes(a, files, embeds, cfg))
         /\ NoNull(MergedTimeline(a, S, files, embeds, cfg))
<1>. DEFINE clock == canonical(a, files, embeds)
            buckets == gapWalk(S, clock, cfg.bucket)
            groups(i) == clusterIDs(a, ToSet(buckets[i]), embeds, cfg.threshold)
            key(G) == IF Cardinality({DeviceOf(a, f) : f \in G}) = 1
                      THEN DeviceOf(a, CHOOSE f \in G : TRUE) ELSE Merged
            emit(i) == [j \in DOMAIN groups(i) |->
                          ClusterDef(key(groups(i)[j]), clock[Head(buckets[i])], groups(i)[j])]
            F == [i \in DOMAIN buckets |-> emit(i)]
<1>1. MergedTimeline(a, S, files, embeds, cfg) = Concat(F)
  BY DEF MergedTimeline
<1>2. Lane(a, files, embeds, cfg, S, clock) /\ \A f \in S : clock[f] # None
  BY MergedLane
<1>. HIDE DEF clock
<1>3. DOMAIN buckets = 1 .. Len(buckets)
  <2>1. Timed(S, clock)
    BY <1>2 DEF Lane
  <2>2. Parted(buckets, S)
    BY <2>1, gapWalkParts
  <2>3. buckets \in Seq(Seq(S))
    BY <2>2 DEF Parted
  <2>. QED
    BY <2>3
<1>. HIDE DEF buckets
<1>4. ASSUME NEW i \in DOMAIN buckets
      PROVE  Emitted(F[i], a, ToSet(buckets[i]), embeds, cfg.threshold, clock[Head(buckets[i])])
  <2>1. ToSet(buckets[i]) \subseteq S
    <3>1. Bursts(buckets, S, clock, a, files, embeds, cfg)
      BY <1>2, BucketsAreBursts DEF buckets
    <3>. QED
      BY <1>3, <3>1 DEF Bursts
  <2>2. ToSet(buckets[i]) \in SUBSET Photo
    BY <2>1
  <2>3. F[i] = [j \in DOMAIN groups(i) |->
                  ClusterDef(key(groups(i)[j]), clock[Head(buckets[i])], groups(i)[j])]
    OBVIOUS
  <2>. HIDE DEF F, groups, key
  <2>4. groups(i) = clusterIDs(a, ToSet(buckets[i]), embeds, cfg.threshold)
    BY DEF groups
  <2>5. ASSUME NEW j \in DOMAIN groups(i)
        PROVE  key(groups(i)[j]) = Key(a, groups(i)[j])
    <3>1. groups(i)[j] \subseteq ToSet(buckets[i]) /\ groups(i)[j] # {}
      BY <2>2, <2>4, clusterIDsInside
    <3>2. groups(i)[j] \in SUBSET Photo
      BY <2>2, <3>1
    <3>. QED
      BY <3>1, <3>2, KeyIs DEF key
  <2>6. F[i] = [j \in DOMAIN groups(i) |->
                  ClusterDef(Key(a, groups(i)[j]), clock[Head(buckets[i])], groups(i)[j])]
    BY <2>3, <2>5
  <2>. QED
    BY <2>4, <2>6 DEF Emitted
<1>5. DOMAIN F = DOMAIN buckets
  OBVIOUS
<1>. HIDE DEF F
<1>6. Emits(F, buckets, clock, a, embeds, cfg.threshold)
  BY <1>4, <1>5 DEF Emits
<1>7. Divides(Concat(F), S, Scenes(a, files, embeds, cfg)) /\ NoNull(Concat(F))
  BY <1>2, <1>6, LaneDivides DEF buckets
<1>. QED
  BY <1>1, <1>7

-----------------------------------------------------------------------------
(* The photos of a merged library that stand apart, and RebuildAll         *)

\* The photos of a device with a time and without an embedding.
NoEmb(a, S, cfg, d) ==
  LET buckets == gapWalk(S, a.taken, cfg.bucket)
  IN  [i \in DOMAIN buckets |-> ClusterDef(d, a.taken[Head(buckets[i])], ToSet(buckets[i]))]

\* The buckets of the photos of a device without an embedding share them out.
LEMMA NoEmbDivides ==
  ASSUME NEW a \in Albums, NEW files \in SUBSET Photo, NEW embeds, NEW cfg, cfg.bucket \in Int,
         Merging(embeds, cfg), NEW d, NEW S,
         S = {f \in files \ embeds : DeviceOf(a, f) = d /\ a.taken[f] # None}
  PROVE  Divides(NoEmb(a, S, cfg, d), S, Scenes(a, files, embeds, cfg)) /\ NoNull(NoEmb(a, S, cfg, d))
<1>. DEFINE time == a.taken
            buckets == gapWalk(S, time, cfg.bucket)
            e == NoEmb(a, S, cfg, d)
            V == Scenes(a, files, embeds, cfg)
<1>1. Lane(a, files, embeds, cfg, S, time)
  BY NoEmbLane
<1>2. e = [i \in DOMAIN buckets |-> ClusterDef(d, time[Head(buckets[i])], ToSet(buckets[i]))]
  BY DEF NoEmb
<1>. HIDE DEF time, e, V
<1>3. Parted(buckets, S)
  <2>1. Timed(S, time)
    BY <1>1 DEF Lane
  <2>. QED
    BY <2>1, gapWalkParts
<1>4. DOMAIN buckets = 1 .. Len(buckets) /\ Len(buckets) \in Nat
  <2>1. buckets \in Seq(Seq(S))
    BY <1>3 DEF Parted
  <2>. QED
    BY <2>1
<1>0. Bursts(buckets, S, time, a, files, embeds, cfg)
  BY <1>1, BucketsAreBursts
<1>5. ASSUME NEW i \in 1 .. Len(buckets)
      PROVE  e[i] \in V /\ e[i].members = ToSet(buckets[i]) /\ e[i].bucket # None
  <2>. DEFINE T == ToSet(buckets[i])
              start == time[Head(buckets[i])]
  <2>1. Begun(T, start, a, files, embeds, cfg) /\ T \subseteq S /\ Head(buckets[i]) \in T
    BY <1>0 DEF Bursts
  <2>2. e[i] = ClusterDef(d, start, T)
    BY <1>2, <1>4
  <2>7. start # None
    BY <2>1 DEF time
  <2>. HIDE DEF T, start, buckets
  <2>3. T \in Parts(a, T, embeds, cfg.threshold)
    <3>1. T \ embeds = T /\ T # {}
      BY <2>1
    <3>. QED
      BY <3>1 DEF Parts
  <2>4. ClusterDef(Key(a, T), start, T) \in V
    BY <2>1, <2>3, BurstIsScene DEF V
  <2>5. Key(a, T) = d
    <3>1. T # {} /\ \A f \in T : DeviceOf(a, f) = d
      BY <2>1
    <3>. QED
      BY <3>1, KeyOfOne
  <2>6. e[i].members = T /\ e[i].bucket = start
    BY <2>2 DEF ClusterDef
  <2>. QED
    BY <2>2, <2>4, <2>5, <2>6, <2>7 DEF T
<1>6. e \in Seq(V) /\ Len(e) = Len(buckets)
  <2>. HIDE DEF buckets
  <2>1. e = [i \in 1 .. Len(buckets) |-> e[i]]
    BY <1>2, <1>4
  <2>2. e \in [1 .. Len(buckets) -> V]
    BY <1>5, <2>1
  <2>. QED
    BY <1>4, <2>2
<1>. HIDE DEF buckets
<1>7. /\ \A i \in 1 .. Len(buckets) : ToSet(buckets[i]) \subseteq S
      /\ \A f \in S : \E i \in 1 .. Len(buckets) : f \in ToSet(buckets[i])
      /\ \A i, j \in 1 .. Len(buckets) : i # j => ToSet(buckets[i]) \cap ToSet(buckets[j]) = {}
  BY <1>3 DEF Parted
<1>8. Divides(e, S, V)
  <2>1. \A i \in 1 .. Len(buckets) : e[i].members = ToSet(buckets[i])
    BY <1>5
  <2>2. \A i \in 1 .. Len(e) : e[i].members \subseteq S
    BY <1>6, <1>7, <2>1
  <2>3. \A f \in S : \E i \in 1 .. Len(e) : f \in e[i].members
    BY <1>6, <1>7, <2>1
  <2>4. \A i, j \in 1 .. Len(e) : i # j => e[i].members \cap e[j].members = {}
    <3>. SUFFICES ASSUME NEW i \in 1 .. Len(e), NEW j \in 1 .. Len(e), i # j
                  PROVE  e[i].members \cap e[j].members = {}
      OBVIOUS
    <3>1. e[i].members = ToSet(buckets[i]) /\ e[j].members = ToSet(buckets[j])
      BY <1>6, <2>1
    <3>. QED
      BY <1>6, <1>7, <3>1
  <2>. QED
    BY <1>6, <2>2, <2>3, <2>4 DEF Divides
<1>9. NoNull(e)
  <2>1. DOMAIN e = 1 .. Len(buckets)
    BY <1>2, <1>4
  <2>. QED
    BY <1>5, <2>1 DEF NoNull
<1>. QED
  BY <1>8, <1>9 DEF e, V

\* The photos of a device without a time, each on its own.
NoTime(a, S, d) == Concat([f \in S |-> <<ClusterDef(d, None, {f})>>])

\* Photos without a time are clusters of their own.
LEMMA NoTimeDivides ==
  ASSUME NEW a \in Albums, NEW files \in SUBSET Photo, NEW embeds, NEW cfg,
         NEW d, NEW S, S = {f \in files : DeviceOf(a, f) = d /\ a.taken[f] = None}
  PROVE  Divides(NoTime(a, S, d), S, Scenes(a, files, embeds, cfg)) /\ AllNull(NoTime(a, S, d))
<1>. DEFINE time == a.taken
            V == Scenes(a, files, embeds, cfg)
            F == [f \in S |-> <<ClusterDef(d, None, {f})>>]
            P == [f \in S |-> {f}]
<1>1. Lane(a, files, embeds, cfg, S, time) /\ \A f \in S : time[f] = None
  BY NoTimeLane
<1>. HIDE DEF time, V
<1>2. ASSUME NEW f \in S
      PROVE  ClusterDef(d, None, {f}) \in V
  <2>1. Burst(a, files, embeds, cfg, f) = {f}
    <3>. DEFINE lane == {g \in S : time[f] # None /\ time[g] # None}
    <3>1. lane = {} /\ lane = {g \in S : time[f] # None /\ time[g] # None}
      BY <1>1
    <3>. HIDE DEF lane
    <3>2. \A g : g \in Burst(a, files, embeds, cfg, f) <=>
                   g = f \/ (g \in lane /\ Chain(lane, Near(lane, time, cfg.bucket), f, g))
      BY <1>1, <3>1, BurstIs
    <3>3. \A g : g \in Burst(a, files, embeds, cfg, f) <=> g = f
      BY <3>1, <3>2
    <3>. QED
      BY <3>3 DEF Burst
  <2>2. Clock(a, files, embeds, cfg, f) = None
    BY <1>1 DEF Lane
  <2>3. Begun({f}, None, a, files, embeds, cfg)
    BY <2>1, <2>2 DEF Begun, OneBurst
  <2>4. {f} \in Parts(a, {f}, embeds, cfg.threshold)
    <3>1. Parts(a, {f}, embeds, cfg.threshold) \in Partitions({f})
      BY FS_Singleton, PartsPartition
    <3>2. PICK G \in Parts(a, {f}, embeds, cfg.threshold) : f \in G /\ G \subseteq {f}
      BY <3>1 DEF Partitions
    <3>3. G = {f}
      BY <3>2
    <3>. QED
      BY <3>2, <3>3
  <2>5. ClusterDef(Key(a, {f}), None, {f}) \in V
    BY <2>3, <2>4, BurstIsScene DEF V
  <2>6. Key(a, {f}) = d
    <3>1. {f} # {} /\ \A g \in {f} : DeviceOf(a, g) = d
      OBVIOUS
    <3>. QED
      BY <3>1, KeyOfOne
  <2>. QED
    BY <2>5, <2>6
<1>3. ASSUME NEW f \in S
      PROVE  F[f] \in Seq(V) /\ Divides(F[f], {f}, V)
  <2>. DEFINE c == ClusterDef(d, None, {f})
  <2>1. c.members = {f}
    BY DEF ClusterDef
  <2>2. F[f] = <<c>> /\ c \in V
    BY <1>2
  <2>. HIDE DEF c, F
  <2>3. <<c>> \in Seq(V) /\ Len(<<c>>) = 1 /\ <<c>>[1] = c
    BY <2>2
  <2>4. Divides(<<c>>, {f}, V)
    BY <2>1, <2>3 DEF Divides
  <2>. QED
    BY <2>2, <2>3, <2>4
<1>4. Lists(F, V)
  <2>1. IsFiniteSet(S) /\ S \subseteq Int
    <3>1. S \in SUBSET Photo
      OBVIOUS
    <3>. QED
      BY <3>1, PhotosFinite
  <2>2. DOMAIN F = S
    OBVIOUS
  <2>. HIDE DEF F
  <2>. QED
    BY <1>3, <2>1, <2>2 DEF Lists
<1>5. Shares(F, P, V)
  <2>1. DOMAIN F = S /\ \A f \in S : P[f] = {f}
    OBVIOUS
  <2>2. \A x, y \in S : x # y => P[x] \cap P[y] = {}
    OBVIOUS
  <2>. HIDE DEF F, P
  <2>3. \A f \in S : Divides(F[f], P[f], V)
    BY <1>3, <2>1
  <2>. QED
    BY <2>1, <2>2, <2>3 DEF Shares
<1>6. \A f : f \in S <=> \E x \in DOMAIN F : f \in P[x]
  OBVIOUS
<1>7. NoTime(a, S, d) = Concat(F)
  BY DEF NoTime
<1>. HIDE DEF F, P
<1>8. Divides(Concat(F), S, V)
  BY <1>4, <1>5, <1>6, DividesConcat
<1>9. ASSUME NEW k \in DOMAIN Concat(F)
      PROVE  Concat(F)[k].bucket = None
  <2>1. PICK f \in DOMAIN F : \E i \in DOMAIN F[f] : Concat(F)[k] = F[f][i]
    BY <1>4, ConcatFrom
  <2>2. F[f] = <<ClusterDef(d, None, {f})>>
    BY DEF F
  <2>3. DOMAIN <<ClusterDef(d, None, {f})>> = {1}
    OBVIOUS
  <2>4. Concat(F)[k] = ClusterDef(d, None, {f})
    BY <2>1, <2>2, <2>3
  <2>. QED
    BY <2>4 DEF ClusterDef
<1>. QED
  BY <1>7, <1>8, <1>9 DEF V, AllNull

\* Device by device, the clusters share out the library.
LEMMA rebuildAllPerDeviceDivides ==
  ASSUME NEW a \in Albums, NEW files \in SUBSET Photo, NEW embeds, NEW cfg, cfg.bucket \in Int,
         ~ Merging(embeds, cfg)
  PROVE  /\ Divides(rebuildAllPerDevice(a, files, embeds, cfg), files, Scenes(a, files, embeds, cfg))
         /\ NullsLast(rebuildAllPerDevice(a, files, embeds, cfg))
<1>. DEFINE D == devices(a, files)
            V == Scenes(a, files, embeds, cfg)
            P == [d \in D |-> {f \in files : DeviceOf(a, f) = d}]
            F == [d \in D |-> Timeline(a, P[d], embeds, cfg, d)]
<1>1. rebuildAllPerDevice(a, files, embeds, cfg) = Concat(F)
  BY DEF rebuildAllPerDevice, Timeline
<1>2. IsFiniteSet(D) /\ D \subseteq Int
  BY devicesFinite
<1>3. ASSUME NEW d \in D
      PROVE  Divides(F[d], P[d], V) /\ NullsLast(F[d])
  <2>1. P[d] = {f \in files : DeviceOf(a, f) = d} /\ F[d] = Timeline(a, P[d], embeds, cfg, d)
    OBVIOUS
  <2>. HIDE DEF F, P
  <2>. QED
    BY <2>1, TimelineDivides
<1>4. DOMAIN F = D /\ \A d \in D : \A f : f \in P[d] <=> f \in files /\ DeviceOf(a, f) = d
  OBVIOUS
<1>5. \A f \in files : DeviceOf(a, f) \in D
  BY DEF devices
<1>. HIDE DEF D, F, P, V
<1>6. Lists(F, V)
  BY <1>2, <1>3, <1>4 DEF Lists, Divides
<1>7. Shares(F, P, V)
  <2>1. \A x, y \in D : x # y => P[x] \cap P[y] = {}
    BY <1>4
  <2>. QED
    BY <1>3, <1>4, <2>1 DEF Shares
<1>8. \A f : f \in files <=> \E x \in DOMAIN F : f \in P[x]
  BY <1>4, <1>5
<1>9. Divides(Concat(F), files, V)
  BY <1>6, <1>7, <1>8, DividesConcat
<1>10. ASSUME NEW d \in D, NEW i \in DOMAIN F[d]
       PROVE  F[d][i].device = d
  <2>. DEFINE e == F[d][i]
  <2>1. e \in V /\ e.members \subseteq P[d]
    BY <1>3 DEF Divides
  <2>2. e.members # {} /\ e.device = Key(a, e.members)
    BY <2>1 DEF V, Scenes, IsScene
  <2>3. \A f \in e.members : DeviceOf(a, f) = d
    BY <1>4, <2>1
  <2>. HIDE DEF e
  <2>4. Key(a, e.members) = d
    BY <2>2, <2>3, KeyOfOne
  <2>. QED
    BY <2>2, <2>4 DEF e
<1>11. \A d, c \in D : d < c => NullsAfter(F[d], F[c])
  <2>1. \A d, c \in D : d < c => d # c
    BY <1>2
  <2>. QED
    BY <1>10, <2>1 DEF NullsAfter
<1>12. NullsLast(Concat(F))
  BY <1>3, <1>4, <1>6, <1>11, NullsLastConcat
<1>. QED
  BY <1>1, <1>9, <1>12 DEF V

\* With merging, the clusters share out the library.
LEMMA rebuildAllCrossDeviceDivides ==
  ASSUME NEW a \in Albums, NEW files \in SUBSET Photo, NEW embeds, NEW cfg, cfg.bucket \in Int,
         Merging(embeds, cfg)
  PROVE  /\ Divides(rebuildAllCrossDevice(a, files, embeds, cfg), files, Scenes(a, files, embeds, cfg))
         /\ NullsLast(rebuildAllCrossDevice(a, files, embeds, cfg))
<1>. DEFINE D == devices(a, files)
            V == Scenes(a, files, embeds, cfg)
            S == {f \in files \cap embeds : a.taken[f] # None}
            P == [d \in D |-> {f \in files \ embeds : DeviceOf(a, f) = d /\ a.taken[f] # None}]
            F == [d \in D |-> NoEmb(a, P[d], cfg, d)]
            Q == [d \in D |-> {f \in files : DeviceOf(a, f) = d /\ a.taken[f] = None}]
            H == [d \in D |-> NoTime(a, Q[d], d)]
            U == {f \in files \ embeds : a.taken[f] # None}
            W == {f \in files : a.taken[f] = None}
            m == MergedTimeline(a, S, files, embeds, cfg)
<1>1. rebuildAllCrossDevice(a, files, embeds, cfg) = m \o Concat(F) \o Concat(H)
  BY DEF rebuildAllCrossDevice, MergedTimeline, NoEmb, NoTime
<1>2. IsFiniteSet(D) /\ D \subseteq Int
  BY devicesFinite
<1>3. ASSUME NEW d \in D
      PROVE  Divides(F[d], P[d], V) /\ NoNull(F[d])
  <2>1. /\ P[d] = {f \in files \ embeds : DeviceOf(a, f) = d /\ a.taken[f] # None}
        /\ F[d] = NoEmb(a, P[d], cfg, d)
    OBVIOUS
  <2>. HIDE DEF F, P
  <2>. QED
    BY <2>1, NoEmbDivides
<1>4. ASSUME NEW d \in D
      PROVE  Divides(H[d], Q[d], V) /\ AllNull(H[d])
  <2>1. /\ Q[d] = {f \in files : DeviceOf(a, f) = d /\ a.taken[f] = None}
        /\ H[d] = NoTime(a, Q[d], d)
    OBVIOUS
  <2>. HIDE DEF H, Q
  <2>. QED
    BY <2>1, NoTimeDivides
<1>5. Divides(m, S, V) /\ NoNull(m)
  BY MergedTimelineDivides
<1>6. /\ DOMAIN F = D /\ DOMAIN H = D
      /\ \A d \in D : \A f : f \in P[d] <=> f \in U /\ DeviceOf(a, f) = d
      /\ \A d \in D : \A f : f \in Q[d] <=> f \in W /\ DeviceOf(a, f) = d
  OBVIOUS
<1>7. \A f \in files : DeviceOf(a, f) \in D
  BY DEF devices
<1>8. S \cap U = {} /\ (S \cup U) \cap W = {} /\ (S \cup U) \cup W = files
  OBVIOUS
<1>. HIDE DEF D, F, P, H, Q, S, U, W, V, m
<1>9. Divides(Concat(F), U, V) /\ NoNull(Concat(F))
  <2>1. Lists(F, V)
    BY <1>2, <1>3, <1>6 DEF Lists, Divides
  <2>2. Shares(F, P, V)
    <3>1. \A x, y \in D : x # y => P[x] \cap P[y] = {}
      BY <1>6
    <3>. QED
      BY <1>3, <1>6, <3>1 DEF Shares
  <2>3. \A f : f \in U <=> \E x \in DOMAIN F : f \in P[x]
    BY <1>6, <1>7, <1>8
  <2>4. \A k \in DOMAIN Concat(F) : \E d \in D : \E i \in DOMAIN F[d] : Concat(F)[k] = F[d][i]
    BY <1>6, <2>1, ConcatFrom
  <2>5. NoNull(Concat(F))
    BY <1>3, <2>4 DEF NoNull
  <2>. QED
    BY <2>1, <2>2, <2>3, <2>5, DividesConcat
<1>10. Divides(Concat(H), W, V) /\ AllNull(Concat(H))
  <2>1. Lists(H, V)
    BY <1>2, <1>4, <1>6 DEF Lists, Divides
  <2>2. Shares(H, Q, V)
    <3>1. \A x, y \in D : x # y => Q[x] \cap Q[y] = {}
      BY <1>6
    <3>. QED
      BY <1>4, <1>6, <3>1 DEF Shares
  <2>3. \A f : f \in W <=> \E x \in DOMAIN H : f \in Q[x]
    BY <1>6, <1>7, <1>8
  <2>4. \A k \in DOMAIN Concat(H) : \E d \in D : \E i \in DOMAIN H[d] : Concat(H)[k] = H[d][i]
    BY <1>6, <2>1, ConcatFrom
  <2>5. AllNull(Concat(H))
    BY <1>4, <2>4 DEF AllNull
  <2>. QED
    BY <2>1, <2>2, <2>3, <2>5, DividesConcat
<1>11. Divides(m \o Concat(F), S \cup U, V)
  BY <1>5, <1>8, <1>9, DividesMore
<1>12. Divides(m \o Concat(F) \o Concat(H), (S \cup U) \cup W, V)
  BY <1>8, <1>10, <1>11, DividesMore
<1>13. NullsLast(m \o Concat(F) \o Concat(H))
  <2>1. m \in Seq(V) /\ Concat(F) \in Seq(V) /\ Concat(H) \in Seq(V) /\ m \o Concat(F) \in Seq(V)
    BY <1>5, <1>9, <1>10, <1>11 DEF Divides
  <2>2. NullsLast(m) /\ NullsLast(Concat(F)) /\ NullsLast(Concat(H)) /\ NullsAfter(m, Concat(F))
    BY <1>5, <1>9, <1>10 DEF NoNull, AllNull, NullsLast, NullsAfter
  <2>3. NullsLast(m \o Concat(F))
    BY <2>1, <2>2, NullsLastMore
  <2>4. NullsAfter(m \o Concat(F), Concat(H))
    BY <1>10 DEF AllNull, NullsAfter
  <2>. QED
    BY <2>1, <2>2, <2>3, <2>4, NullsLastMore
<1>. QED
  BY <1>1, <1>8, <1>12, <1>13 DEF V

\* Each photo that was read is in exactly one cluster, each cluster is a scene with its time
\* and device, and the clusters of a device without a time come last, so that they get the
\* greater ids (group.go:119-163).
THEOREM RebuildAllDivides ==
  ASSUME NEW a \in Albums, NEW files \in SUBSET Photo, NEW embeds, NEW cfg, cfg.bucket \in Int
  PROVE  /\ Divides(RebuildAll(a, files, embeds, cfg), files, Scenes(a, files, embeds, cfg))
         /\ NullsLast(RebuildAll(a, files, embeds, cfg))
<1>1. CASE Merging(embeds, cfg)
  BY <1>1, rebuildAllCrossDeviceDivides DEF RebuildAll, Merging
<1>2. CASE ~ Merging(embeds, cfg)
  BY <1>2, rebuildAllPerDeviceDivides DEF RebuildAll, Merging
<1>. QED
  BY <1>1, <1>2

\* For every album, every set of analyzed photos and embeddings and every configuration the
\* clusters of a rebuild are the scenes, each once, with the time the burst begins and the
\* device it is filed under (group.go:93-113).
THEOREM RebuildAllIsScenes ==
  ASSUME NEW a \in Albums, NEW files \in SUBSET Photo, NEW embeds, NEW cfg, cfg.bucket \in Int
  PROVE  GroupsAreScenes(RebuildAll(a, files, embeds, cfg), a, files, embeds, cfg)
<1>. DEFINE groups == RebuildAll(a, files, embeds, cfg)
            V == Scenes(a, files, embeds, cfg)
<1>1. Divides(groups, files, V)
  BY RebuildAllDivides
<1>. HIDE DEF groups
<1>2. /\ groups \in Seq(V)
      /\ \A i \in 1 .. Len(groups) : groups[i].members \subseteq files
      /\ \A f \in files : \E i \in 1 .. Len(groups) : f \in groups[i].members
      /\ \A i, j \in 1 .. Len(groups) : i # j => groups[i].members \cap groups[j].members = {}
  BY <1>1 DEF Divides
<1>. HIDE DEF V
<1>3. DOMAIN groups = 1 .. Len(groups) /\ \A i \in 1 .. Len(groups) : groups[i] \in V
  BY <1>2
<1>4. \A i \in DOMAIN groups : IsScene(groups[i], a, files, embeds, cfg)
  BY <1>3 DEF V, Scenes
<1>5. \A i \in DOMAIN groups :
        /\ groups[i].members # {}
        /\ \A f \in groups[i].members : SceneOf(a, files, embeds, cfg, f) = groups[i].members
  BY <1>4 DEF IsScene
<1>6. {groups[i].members : i \in DOMAIN groups} = {SceneOf(a, files, embeds, cfg, f) : f \in files}
  <2>1. ASSUME NEW i \in DOMAIN groups
        PROVE  \E f \in files : groups[i].members = SceneOf(a, files, embeds, cfg, f)
    BY <1>2, <1>3, <1>5
  <2>2. ASSUME NEW f \in files
        PROVE  \E i \in DOMAIN groups : groups[i].members = SceneOf(a, files, embeds, cfg, f)
    BY <1>2, <1>3, <1>5
  <2>. QED
    BY <2>1, <2>2
<1>7. ASSUME NEW i \in DOMAIN groups, NEW j \in DOMAIN groups, groups[j].members = groups[i].members
      PROVE  i = j
  BY <1>2, <1>3, <1>5, <1>7
<1>. DEFINE Right(i) ==
              LET G == groups[i].members
                  burst == Burst(a, files, embeds, cfg, CHOOSE f \in G : TRUE)
                  starts == {Clock(a, files, embeds, cfg, f) : f \in burst}
                  keys == {DeviceOf(a, f) : f \in G}
              IN  /\ groups[i].bucket = IF starts = {None} THEN None ELSE Min(starts)
                  /\ groups[i].device =
                       IF Cardinality(keys) = 1 THEN CHOOSE d \in keys : TRUE ELSE Merged
<1>8. \A i \in DOMAIN groups : Right(i)
  BY <1>4 DEF IsScene, Key
<1>9. GroupsAreScenes(groups, a, files, embeds, cfg) <=>
        /\ {groups[i].members : i \in DOMAIN groups} = {SceneOf(a, files, embeds, cfg, f) : f \in files}
        /\ \A i \in DOMAIN groups :
             (\A j \in DOMAIN groups : groups[j].members = groups[i].members => i = j) /\ Right(i)
  BY DEF GroupsAreScenes
<1>. HIDE DEF Right
<1>10. GroupsAreScenes(groups, a, files, embeds, cfg)
  BY <1>6, <1>7, <1>8, <1>9
<1>. QED
  BY <1>10 DEF groups
=============================================================================
