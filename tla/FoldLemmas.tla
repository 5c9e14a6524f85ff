------------------------------ MODULE FoldLemmas ------------------------------
(***************************************************************************)
(* Lemmas about the folds of the community modules: what a left fold over  *)
(* a sequence and a sum over a finite set are, and the algebra of sums.    *)
(*                                                                         *)
(* A property of every number, or of every finite set, is not an operator  *)
(* here but a set G of numbers, or of sets: G has them all, for otherwise  *)
(* there would be a least one it lacks.                                    *)
(***************************************************************************)
EXTENDS Integers, Sequences, FiniteSetsExt, SequencesExt, FiniteSetTheorems, WellFoundedInduction, TLAPS

-----------------------------------------------------------------------------
(* Induction, as the absence of a least exception.                         *)

\* A set of numbers has a least one.
LEMMA LeastOf ==
  ASSUME NEW T, T \subseteq Nat, T # {}
  PROVE  \E n \in T : \A m \in T : n <= m
<1>1. PICK n \in T : \A m \in T : <<m, n>> \notin OpToRel(<, Nat)
  BY NatLessThanWellFounded, WFMin, Zenon
<1>2. \A m \in T : m \in Nat
  OBVIOUS
<1>3. \A m \in T : ~(m < n)
  BY <1>1, <1>2, Zenon DEF OpToRel
<1> QED BY <1>2, <1>3

\* A set that has 0, and each number up to n whose predecessor it has, has them all.
LEMMA UpTo ==
  ASSUME NEW n \in Nat, NEW G, 0 \in G, \A k \in 1..n : k - 1 \in G => k \in G
  PROVE  0..n \subseteq G
<1> DEFINE T == {k \in 0..n : k \notin G}
<1> SUFFICES ASSUME T # {} PROVE FALSE
  OBVIOUS
<1>1. PICK k \in T : \A m \in T : k <= m
  <2>1. T \subseteq Nat
    OBVIOUS
  <2> HIDE DEF T
  <2> QED BY <2>1, LeastOf
<1>2. k \in 1..n /\ k - 1 \in 0..n
  BY <1>1
<1>3. k - 1 \in G
  BY <1>1, <1>2
<1> QED BY <1>1, <1>2, <1>3

\* A set that has the empty set, and each part of D all of whose parts smaller by one it
\* has, has every part of D.
LEMMA OverSubsets ==
  ASSUME NEW D, IsFiniteSet(D), NEW G, {} \in G,
         \A S \in SUBSET D : S # {} /\ (\A x \in S : S \ {x} \in G) => S \in G
  PROVE  SUBSET D \subseteq G
<1> DEFINE Bad(n) == \E S \in SUBSET D : Cardinality(S) = n /\ S \notin G
           T == {n \in Nat : Bad(n)}
<1>1. \A S \in SUBSET D : IsFiniteSet(S) /\ Cardinality(S) \in Nat
  BY FS_Subset, FS_CardinalityType
<1> SUFFICES ASSUME NEW S \in SUBSET D, S \notin G PROVE FALSE
  OBVIOUS
<1>2. T # {} /\ T \subseteq Nat
  BY <1>1
<1>3. PICK n \in T : \A m \in T : n <= m
  <2> HIDE DEF T
  <2> QED BY <1>2, LeastOf
<1>4. PICK U \in SUBSET D : Cardinality(U) = n /\ U \notin G
  BY <1>3
<1>5. PICK x \in U : U \ {x} \notin G
  BY <1>4
<1>6. Cardinality(U \ {x}) = n - 1 /\ n \in Nat /\ n - 1 \in Nat /\ U \ {x} \in SUBSET D
  BY <1>1, <1>3, <1>4, <1>5, FS_RemoveElement
<1>7. n - 1 \in T
  BY <1>5, <1>6
<1>8. n <= n - 1
  <2> HIDE DEF T
  <2> QED BY <1>3, <1>7
<1> QED BY <1>6, <1>8

-----------------------------------------------------------------------------
(* Folds.                                                                  *)

\* g folds each part of D: c chooses an element of it, step joins it to the fold of the
\* others.
IsFold(g, A, D, base, step, c) ==
  /\ g \in [SUBSET D -> A]
  /\ \A s \in SUBSET D : g[s] = IF s = {} THEN base ELSE step[<<g[s \ {c[s]}], c[s]>>]

\* There is such a function: it is built up along the sizes of the parts.
LEMMA FoldExists ==
  ASSUME NEW A, NEW D, IsFiniteSet(D), NEW base \in A, NEW c, NEW step,
         \A s \in SUBSET D : s # {} => c[s] \in s,
         \A a \in A, x \in D : step[<<a, x>>] \in A
  PROVE  \E g : IsFold(g, A, D, base, step, c)
<1> DEFINE Sub(k) == {s \in SUBSET D : Cardinality(s) <= k}
           Part(g, k) == /\ g \in [Sub(k) -> A]
                         /\ \A s \in Sub(k) :
                              g[s] = IF s = {} THEN base ELSE step[<<g[s \ {c[s]}], c[s]>>]
           G == {k \in Nat : \E g : Part(g, k)}
           n == Cardinality(D)
<1>1. \A s \in SUBSET D : IsFiniteSet(s) /\ Cardinality(s) \in Nat /\ Cardinality(s) <= n
  BY FS_Subset, FS_CardinalityType
<1>2. \A s \in SUBSET D : s # {} =>
        s \ {c[s]} \in SUBSET D /\ Cardinality(s \ {c[s]}) = Cardinality(s) - 1
  BY <1>1, FS_RemoveElement
<1>3. 0 \in G
  <2>1. \A s \in SUBSET D : Cardinality(s) <= 0 <=> s = {}
    BY <1>1, FS_EmptySet
  <2>2. Sub(0) = {{}}
    BY <2>1
  <2>3. Part([s \in Sub(0) |-> base], 0)
    BY <2>2
  <2> QED BY <2>3
<1>4. ASSUME NEW k \in 1..n, k - 1 \in G
      PROVE  k \in G
  <2>1. PICK g : Part(g, k - 1)
    BY <1>4
  <2> DEFINE h == [s \in Sub(k) |-> IF s = {} THEN base ELSE step[<<g[s \ {c[s]}], c[s]>>]]
  <2>2. k \in Nat /\ k - 1 \in Nat
    BY <1>4
  <2>3. ASSUME NEW s \in Sub(k), s # {}
        PROVE  s \in SUBSET D /\ c[s] \in D /\ s \ {c[s]} \in Sub(k - 1) /\ s \ {c[s]} \in Sub(k)
    <3>1. s \in SUBSET D /\ Cardinality(s) <= k /\ Cardinality(s) \in Nat
      BY <1>1, <2>3
    <3>2. s \ {c[s]} \in SUBSET D /\ Cardinality(s \ {c[s]}) = Cardinality(s) - 1 /\ c[s] \in s
      BY <1>2, <2>3, <3>1
    <3>3. Cardinality(s) - 1 <= k - 1 /\ Cardinality(s) - 1 <= k
      BY <2>2, <3>1
    <3> QED BY <3>1, <3>2, <3>3
  <2>4. \A s \in Sub(k - 1) : h[s] = g[s]
    <3>1. \A s \in Sub(k - 1) : s \in Sub(k)
      BY <1>1, <2>2
    <3> QED BY <2>1, <3>1
  <2>5. \A s \in Sub(k) : s # {} => g[s \ {c[s]}] \in A /\ h[s \ {c[s]}] = g[s \ {c[s]}]
    BY <2>1, <2>3, <2>4
  <2>6. h \in [Sub(k) -> A]
    <3> SUFFICES ASSUME NEW s \in Sub(k)
                 PROVE  (IF s = {} THEN base ELSE step[<<g[s \ {c[s]}], c[s]>>]) \in A
      OBVIOUS
    <3> QED BY <2>3, <2>5
  <2>7. \A s \in Sub(k) : h[s] = IF s = {} THEN base ELSE step[<<h[s \ {c[s]}], c[s]>>]
    BY <2>5
  <2>8. Part(h, k)
    BY <2>6, <2>7
  <2> HIDE DEF Part
  <2> QED BY <2>2, <2>8
<1>5. n \in G
  <2> HIDE DEF G
  <2>1. n \in Nat
    BY FS_CardinalityType
  <2>2. 0..n \subseteq G
    BY <1>3, <1>4, <2>1, UpTo
  <2> QED BY <2>1, <2>2
<1>6. PICK g : Part(g, n)
  BY <1>5
<1>7. Sub(n) = SUBSET D
  BY <1>1
<1> QED BY <1>6, <1>7 DEF IsFold

-----------------------------------------------------------------------------
(* Sums.                                                                   *)

\* The sum of f over S.
Sum(f, S) == MapThenSumSet(LAMBDA x : f[x], S)

\* The function MapThenFoldSet chooses, on the parts of S.
SumFcn(g, f, S) ==
  g = [s \in SUBSET S |-> IF s = {} THEN 0
                          ELSE f[CHOOSE x \in s : TRUE] + g[s \ {CHOOSE x \in s : TRUE}]]

\* It exists, so that what is chosen is one.
LEMMA SumFcnExists ==
  ASSUME NEW S, IsFiniteSet(S), NEW f, \A x \in S : f[x] \in Int
  PROVE  \E g \in [SUBSET S -> Int] : SumFcn(g, f, S)
<1> DEFINE c == [s \in SUBSET S |-> CHOOSE x \in s : TRUE]
           step == [p \in Int \X S |-> f[p[2]] + p[1]]
<1>1. \A s \in SUBSET S : s # {} => c[s] \in s
  OBVIOUS
<1>2. \A a \in Int, x \in S : step[<<a, x>>] = f[x] + a /\ step[<<a, x>>] \in Int
  OBVIOUS
<1>3. PICK g : IsFold(g, Int, S, 0, step, c)
  <2>1. 0 \in Int
    OBVIOUS
  <2> HIDE DEF c, step
  <2> QED BY <1>1, <1>2, <2>1, FoldExists
<1>4. g \in [SUBSET S -> Int] /\ \A s \in SUBSET S : g[s] = IF s = {} THEN 0 ELSE step[<<g[s \ {c[s]}], c[s]>>]
  BY <1>3 DEF IsFold
<1>5. \A s \in SUBSET S : s # {} => step[<<g[s \ {c[s]}], c[s]>>] = f[c[s]] + g[s \ {c[s]}]
  <2> HIDE DEF c, step
  <2>1. \A s \in SUBSET S : s # {} => c[s] \in S /\ s \ {c[s]} \in SUBSET S
    BY <1>1
  <2> QED BY <1>2, <1>4, <2>1
<1>6. \A s \in SUBSET S : g[s] = IF s = {} THEN 0 ELSE f[CHOOSE x \in s : TRUE] + g[s \ {CHOOSE x \in s : TRUE}]
  <2>1. \A s \in SUBSET S : c[s] = CHOOSE x \in s : TRUE
    OBVIOUS
  <2> HIDE DEF c, step
  <2> QED BY <1>4, <1>5, <2>1
<1> QED BY <1>4, <1>6 DEF SumFcn

\* What it is of one part.
LEMMA SumFcnIs ==
  ASSUME NEW S, NEW f, NEW g, SumFcn(g, f, S), NEW s \in SUBSET S
  PROVE  /\ g[{}] = 0
         /\ s # {} => \E x \in s : x = (CHOOSE y \in s : TRUE) /\ g[s] = f[x] + g[s \ {x}]
<1>1. g[s] = IF s = {} THEN 0 ELSE f[CHOOSE x \in s : TRUE] + g[s \ {CHOOSE x \in s : TRUE}]
  BY DEF SumFcn
<1>2. g[{}] = 0
  BY DEF SumFcn
<1> QED BY <1>1, <1>2

\* Two such functions, of functions that agree on S, agree on S.
LEMMA SumFcnUnique ==
  ASSUME NEW S, NEW T, IsFiniteSet(S), NEW f, NEW e, \A x \in S : f[x] = e[x] /\ f[x] \in Int,
         NEW g, NEW h, SumFcn(g, f, S), SumFcn(h, e, T), S \subseteq T
  PROVE  g[S] = h[S] /\ g[S] \in Int
<1> DEFINE G == {s \in SUBSET S : g[s] = h[s] /\ g[s] \in Int}
<1>1. {} \in G
  BY SumFcnIs
<1>2. ASSUME NEW s \in SUBSET S, s # {}, \A x \in s : s \ {x} \in G
      PROVE  s \in G
  <2>1. PICK x \in s : x = (CHOOSE y \in s : TRUE) /\ g[s] = f[x] + g[s \ {x}]
    BY <1>2, SumFcnIs
  <2>2. s \in SUBSET T
    OBVIOUS
  <2>3. h[s] = e[x] + h[s \ {x}]
    <3>1. PICK y \in s : y = (CHOOSE z \in s : TRUE) /\ h[s] = e[y] + h[s \ {y}]
      BY <1>2, <2>2, SumFcnIs
    <3> QED BY <2>1, <3>1
  <2>4. g[s \ {x}] = h[s \ {x}] /\ g[s \ {x}] \in Int
    BY <1>2, <2>1
  <2> QED BY <2>1, <2>3, <2>4
<1>3. SUBSET S \subseteq G
  <2> HIDE DEF G
  <2> QED BY <1>1, <1>2, OverSubsets
<1> QED BY <1>3

\* A sum is what any of them says.
LEMMA SumIs ==
  ASSUME NEW S, NEW f, NEW T, S \subseteq T, IsFiniteSet(T), \A x \in T : f[x] \in Int,
         NEW g, SumFcn(g, f, T)
  PROVE  Sum(f, S) = g[S] /\ Sum(f, S) \in Int
<1>1. IsFiniteSet(S)
  BY FS_Subset
<1>2. \E h : SumFcn(h, f, S)
  BY <1>1, SumFcnExists
<1> DEFINE h == CHOOSE k : SumFcn(k, f, S)
<1>3. SumFcn(h, f, S)
  BY <1>2
<1>4. Sum(f, S) = h[S]
  BY DEF Sum, MapThenSumSet, MapThenFoldSet, SumFcn
<1> HIDE DEF h
<1> QED BY <1>1, <1>3, <1>4, SumFcnUnique

\* The sum over nothing.
LEMMA SumEmpty ==
  ASSUME NEW f
  PROVE  Sum(f, {}) = 0
<1>1. IsFiniteSet({})
  BY FS_EmptySet
<1>2. PICK g : SumFcn(g, f, {})
  BY <1>1, SumFcnExists
<1>3. Sum(f, {}) = g[{}]
  BY <1>1, <1>2, SumIs
<1> QED BY <1>2, <1>3, SumFcnIs

\* A sum of integers is one.
LEMMA SumInt ==
  ASSUME NEW S, IsFiniteSet(S), NEW f, \A x \in S : f[x] \in Int
  PROVE  Sum(f, S) \in Int
<1>1. PICK g : SumFcn(g, f, S)
  BY SumFcnExists
<1> QED BY <1>1, SumIs

\* Functions that agree on a set have one sum over it.
LEMMA SumEqual ==
  ASSUME NEW S, IsFiniteSet(S), NEW f, NEW e, \A x \in S : f[x] = e[x] /\ f[x] \in Int
  PROVE  Sum(f, S) = Sum(e, S)
<1>1. PICK g : SumFcn(g, f, S)
  BY SumFcnExists
<1>2. PICK h : SumFcn(h, e, S)
  <2>1. \A x \in S : e[x] \in Int
    OBVIOUS
  <2> QED BY <2>1, SumFcnExists
<1>3. Sum(f, S) = g[S]
  BY <1>1, SumIs
<1>4. Sum(e, S) = h[S]
  <2>1. \A x \in S : e[x] \in Int
    OBVIOUS
  <2> QED BY <1>2, <2>1, SumIs
<1>5. g[S] = h[S]
  BY <1>1, <1>2, SumFcnUnique
<1> QED BY <1>3, <1>4, <1>5

\* A sum is any one of its terms and the sum of the others: the order of choice is no
\* matter.
LEMMA SumWithout ==
  ASSUME NEW S, IsFiniteSet(S), NEW f, \A x \in S : f[x] \in Int, NEW a \in S
  PROVE  Sum(f, S) = f[a] + Sum(f, S \ {a})
<1>1. PICK g \in [SUBSET S -> Int] : SumFcn(g, f, S)
  BY SumFcnExists
<1> DEFINE G == {s \in SUBSET S : \A x \in s : g[s] = f[x] + g[s \ {x}]}
<1>2. {} \in G
  OBVIOUS
<1>3. ASSUME NEW s \in SUBSET S, s # {}, \A x \in s : s \ {x} \in G
      PROVE  s \in G
  <2>1. PICK c \in s : g[s] = f[c] + g[s \ {c}]
    <3>1. SumFcn(g, f, S)
      BY <1>1
    <3>2. g[s] = IF s = {} THEN 0 ELSE f[CHOOSE y \in s : TRUE] + g[s \ {CHOOSE y \in s : TRUE}]
      BY <3>1 DEF SumFcn
    <3> QED BY <1>3, <3>2
  <2>2. SUFFICES ASSUME NEW x \in s, x # c
                 PROVE  g[s] = f[x] + g[s \ {x}]
    BY <2>1
  <2>3. g[s \ {c}] = f[x] + g[(s \ {c}) \ {x}]
    BY <1>3, <2>2
  <2>4. g[s \ {x}] = f[c] + g[(s \ {x}) \ {c}]
    BY <1>3, <2>1, <2>2
  <2>5. (s \ {c}) \ {x} = (s \ {x}) \ {c}
    OBVIOUS
  <2>6. f[x] \in Int /\ f[c] \in Int /\ g[(s \ {c}) \ {x}] \in Int
    <3>1. (s \ {c}) \ {x} \in SUBSET S
      OBVIOUS
    <3> QED BY <1>1, <2>1, <2>2, <3>1
  <2> DEFINE r == g[(s \ {c}) \ {x}]
  <2>7. g[s] = f[c] + (f[x] + r) /\ g[s \ {x}] = f[c] + r
    BY <2>1, <2>3, <2>4, <2>5
  <2>8. r \in Int
    BY <2>6
  <2> HIDE DEF r
  <2>9. f[c] + (f[x] + r) = f[x] + (f[c] + r)
    BY <2>6, <2>8
  <2> QED BY <2>7, <2>9
<1>4. SUBSET S \subseteq G
  <2> HIDE DEF G
  <2> QED BY <1>2, <1>3, OverSubsets
<1>5. g[S] = f[a] + g[S \ {a}]
  BY <1>4
<1>6. Sum(f, S) = g[S] /\ Sum(f, S \ {a}) = g[S \ {a}]
  BY <1>1, SumIs
<1> QED BY <1>5, <1>6

\* The sum with one more term.
LEMMA SumWith ==
  ASSUME NEW S, IsFiniteSet(S), NEW a, a \notin S, NEW f, \A x \in S \cup {a} : f[x] \in Int
  PROVE  Sum(f, S \cup {a}) = f[a] + Sum(f, S)
<1>1. IsFiniteSet(S \cup {a}) /\ (S \cup {a}) \ {a} = S /\ a \in S \cup {a}
  BY FS_AddElement
<1> QED BY <1>1, SumWithout

\* A sum does not fall with more terms that are not negative.
LEMMA SumGrows ==
  ASSUME NEW T, IsFiniteSet(T), NEW f, \A x \in T : f[x] \in Int,
         NEW S, S \subseteq T, \A x \in T \ S : f[x] >= 0
  PROVE  Sum(f, S) <= Sum(f, T) /\ Sum(f, S) \in Int /\ Sum(f, T) \in Int
<1> DEFINE G == {U \in SUBSET (T \ S) : Sum(f, S) <= Sum(f, S \cup U)}
<1>1. IsFiniteSet(S) /\ IsFiniteSet(T \ S)
  BY FS_Subset
<1>2. \A U \in SUBSET T : IsFiniteSet(U) /\ Sum(f, U) \in Int
  <2> TAKE U \in SUBSET T
  <2>1. IsFiniteSet(U)
    BY FS_Subset
  <2> QED BY <2>1, SumInt
<1>3. {} \in G
  BY <1>2
<1>4. ASSUME NEW U \in SUBSET (T \ S), U # {}, \A x \in U : U \ {x} \in G
      PROVE  U \in G
  <2>1. PICK x \in U : TRUE
    BY <1>4
  <2>2. Sum(f, S) <= Sum(f, S \cup (U \ {x}))
    BY <1>4
  <2>3. Sum(f, S \cup U) = f[x] + Sum(f, (S \cup U) \ {x})
    <3>1. S \cup U \in SUBSET T /\ x \in S \cup U
      OBVIOUS
    <3>2. \A y \in S \cup U : f[y] \in Int
      BY <3>1
    <3> QED BY <1>2, <3>1, <3>2, SumWithout
  <2>4. (S \cup U) \ {x} = S \cup (U \ {x}) /\ S \cup (U \ {x}) \in SUBSET T /\ S \cup U \in SUBSET T
    OBVIOUS
  <2>5. f[x] >= 0 /\ f[x] \in Int
    OBVIOUS
  <2>6. Sum(f, S \cup (U \ {x})) \in Int /\ Sum(f, S) \in Int
    BY <1>2, <2>4
  <2>7. Sum(f, S \cup U) = f[x] + Sum(f, S \cup (U \ {x}))
    BY <2>3, <2>4
  <2>8. Sum(f, S) <= Sum(f, S \cup U)
    <3> DEFINE r == Sum(f, S \cup (U \ {x}))
               q == Sum(f, S)
    <3>1. q <= r /\ q \in Int /\ r \in Int /\ Sum(f, S \cup U) = f[x] + r
      BY <2>2, <2>6, <2>7
    <3> HIDE DEF r
    <3>2. q <= f[x] + r
      <4> HIDE DEF q
      <4> QED BY <2>5, <3>1
    <3> QED BY <3>1, <3>2
  <2> QED BY <2>8
<1>5. SUBSET (T \ S) \subseteq G
  <2> HIDE DEF G
  <2> QED BY <1>1, <1>3, <1>4, OverSubsets
<1>6. S \cup (T \ S) = T
  OBVIOUS
<1>7. T \ S \in G
  BY <1>5
<1> QED BY <1>2, <1>6, <1>7

\* A sum of naturals is one.
LEMMA SumNat ==
  ASSUME NEW S, IsFiniteSet(S), NEW f, \A x \in S : f[x] \in Nat
  PROVE  Sum(f, S) \in Nat
<1>1. \A x \in S : f[x] \in Int /\ f[x] >= 0
  OBVIOUS
<1>2. Sum(f, {}) <= Sum(f, S) /\ Sum(f, S) \in Int
  BY <1>1, SumGrows
<1> QED BY <1>2, SumEmpty

\* Terms that are zero may be left out.
LEMMA SumZeros ==
  ASSUME NEW T, IsFiniteSet(T), NEW f, \A x \in T : f[x] \in Int,
         NEW S, S \subseteq T, \A x \in T \ S : f[x] = 0
  PROVE  Sum(f, S) = Sum(f, T)
<1> DEFINE G == {U \in SUBSET (T \ S) : Sum(f, S) = Sum(f, S \cup U)}
<1>1. IsFiniteSet(S) /\ IsFiniteSet(T \ S)
  BY FS_Subset
<1>2. \A U \in SUBSET T : IsFiniteSet(U) /\ Sum(f, U) \in Int
  <2> TAKE U \in SUBSET T
  <2>1. IsFiniteSet(U)
    BY FS_Subset
  <2> QED BY <2>1, SumInt
<1>3. {} \in G
  OBVIOUS
<1>4. ASSUME NEW U \in SUBSET (T \ S), U # {}, \A x \in U : U \ {x} \in G
      PROVE  U \in G
  <2>1. PICK x \in U : TRUE
    BY <1>4
  <2>2. Sum(f, S) = Sum(f, S \cup (U \ {x}))
    BY <1>4
  <2>3. Sum(f, S \cup U) = f[x] + Sum(f, (S \cup U) \ {x})
    <3>1. S \cup U \in SUBSET T /\ x \in S \cup U
      OBVIOUS
    <3>2. \A y \in S \cup U : f[y] \in Int
      BY <3>1
    <3> QED BY <1>2, <3>1, <3>2, SumWithout
  <2>4. (S \cup U) \ {x} = S \cup (U \ {x}) /\ S \cup (U \ {x}) \in SUBSET T /\ S \cup U \in SUBSET T
    OBVIOUS
  <2>5. f[x] = 0
    OBVIOUS
  <2>6. Sum(f, S \cup (U \ {x})) \in Int
    BY <1>2, <2>4
  <2>7. Sum(f, S \cup U) = f[x] + Sum(f, S \cup (U \ {x}))
    BY <2>3, <2>4
  <2> DEFINE r == Sum(f, S \cup (U \ {x}))
  <2>8. f[x] + r = r
    <3>1. r \in Int
      BY <2>6
    <3> HIDE DEF r
    <3> QED BY <2>5, <3>1
  <2> QED BY <2>2, <2>7, <2>8
<1>5. SUBSET (T \ S) \subseteq G
  <2> HIDE DEF G
  <2> QED BY <1>1, <1>3, <1>4, OverSubsets
<1>6. S \cup (T \ S) = T
  OBVIOUS
<1>7. T \ S \in G
  BY <1>5
<1> QED BY <1>6, <1>7

-----------------------------------------------------------------------------
(* Extremes.                                                               *)

\* A function has a least value on a finite set.
LEMMA FiniteLeast ==
  ASSUME NEW S, IsFiniteSet(S), S # {}, NEW f, \A x \in S : f[x] \in Int
  PROVE  \E x \in S : \A y \in S : f[x] <= f[y]
<1> DEFINE Least(U) == \E x \in U : \A y \in U : f[x] <= f[y]
           G == {U \in SUBSET S : U # {} => Least(U)}
<1>1. {} \in G
  OBVIOUS
<1>2. ASSUME NEW U \in SUBSET S, U # {}, \A x \in U : U \ {x} \in G
      PROVE  U \in G
  <2>1. PICK a \in U : TRUE
    BY <1>2
  <2>2. CASE U \ {a} = {}
    <3>1. U = {a}
      BY <2>2
    <3>2. f[a] <= f[a]
      BY <2>1
    <3> QED BY <3>1, <3>2
  <2>3. CASE U \ {a} # {}
    <3>1. PICK b \in U \ {a} : \A y \in U \ {a} : f[b] <= f[y]
      BY <1>2, <2>3
    <3>2. \A y \in U : f[y] \in Int
      OBVIOUS
    <3>3. CASE f[a] <= f[b]
      <4>1. \A y \in U : f[a] <= f[y]
        BY <3>1, <3>2, <3>3
      <4> QED BY <4>1
    <3>4. CASE f[b] < f[a]
      <4>1. \A y \in U : f[b] <= f[y]
        BY <3>1, <3>2, <3>4
      <4> QED BY <3>1, <4>1
    <3> QED BY <3>2, <3>3, <3>4
  <2> QED BY <2>2, <2>3
<1>3. SUBSET S \subseteq G
  <2> HIDE DEF G
  <2> QED BY <1>1, <1>2, OverSubsets
<1> QED BY <1>3

\* A set of positions has a greatest one.
LEMMA MaxIs ==
  ASSUME NEW n \in Nat, NEW s \in SUBSET (1..n), s # {}
  PROVE  Max(s) \in s
<1> DEFINE f == [x \in s |-> 0 - x]
<1>1. IsFiniteSet(s)
  <2>1. IsFiniteSet(1..n)
    BY FS_Interval
  <2> QED BY <2>1, FS_Subset
<1>2. \A x \in s : x \in Nat /\ f[x] = 0 - x /\ f[x] \in Int
  OBVIOUS
<1>3. PICK x \in s : \A y \in s : f[x] <= f[y]
  <2> HIDE DEF f
  <2> QED BY <1>1, <1>2, FiniteLeast
<1>4. \A y \in s : x >= y
  <2> HIDE DEF f
  <2> QED BY <1>2, <1>3
<1> QED BY <1>4 DEF Max

\* The greatest of the first k positions, which a left fold takes off first.
LEMMA MaxOfFirst ==
  ASSUME NEW k \in Nat, k # 0
  PROVE  Max(1..k) = k /\ (1..k) \ {k} = 1..(k - 1) /\ 1..k # {}
<1>1. k \in 1..k /\ \A y \in 1..k : k >= y
  OBVIOUS
<1>2. \A x \in 1..k : (\A y \in 1..k : x >= y) => x = k
  OBVIOUS
<1>3. (CHOOSE x \in 1..k : \A y \in 1..k : x >= y) = k
  BY <1>1, <1>2
<1> QED BY <1>1, <1>3 DEF Max

-----------------------------------------------------------------------------
(* More of sums.                                                           *)

\* The sum of one term.
LEMMA SumOne ==
  ASSUME NEW f, NEW a, f[a] \in Int
  PROVE  Sum(f, {a}) = f[a]
<1>1. IsFiniteSet({}) /\ a \notin {} /\ {} \cup {a} = {a}
  BY FS_EmptySet
<1>2. Sum(f, {a}) = f[a] + Sum(f, {})
  <2>1. \A x \in {} \cup {a} : f[x] \in Int
    OBVIOUS
  <2>2. Sum(f, {} \cup {a}) = f[a] + Sum(f, {})
    BY <1>1, <2>1, SumWith
  <2> QED BY <1>1, <2>2
<1> QED BY <1>2, SumEmpty

\* A sum is that of a part and that of the rest.
LEMMA SumUnion ==
  ASSUME NEW T, IsFiniteSet(T), NEW f, \A x \in T : f[x] \in Int, NEW S, S \subseteq T
  PROVE  /\ Sum(f, T) = Sum(f, S) + Sum(f, T \ S)
         /\ Sum(f, T) \in Int /\ Sum(f, S) \in Int /\ Sum(f, T \ S) \in Int
<1> DEFINE G == {U \in SUBSET (T \ S) : Sum(f, S \cup U) = Sum(f, S) + Sum(f, U)}
<1>1. IsFiniteSet(S) /\ IsFiniteSet(T \ S)
  BY FS_Subset
<1>2. \A U \in SUBSET T : IsFiniteSet(U) /\ Sum(f, U) \in Int
  <2> TAKE U \in SUBSET T
  <2>1. IsFiniteSet(U)
    BY FS_Subset
  <2> QED BY <2>1, SumInt
<1>3. {} \in G
  <2>1. Sum(f, S) \in Int /\ S \cup {} = S
    BY <1>2
  <2> QED BY <2>1, SumEmpty
<1>4. ASSUME NEW U \in SUBSET (T \ S), U # {}, \A x \in U : U \ {x} \in G
      PROVE  U \in G
  <2>1. PICK x \in U : TRUE
    BY <1>4
  <2>2. Sum(f, S \cup (U \ {x})) = Sum(f, S) + Sum(f, U \ {x})
    BY <1>4
  <2>3. Sum(f, S \cup U) = f[x] + Sum(f, (S \cup U) \ {x})
    <3>1. S \cup U \in SUBSET T /\ x \in S \cup U
      OBVIOUS
    <3>2. \A y \in S \cup U : f[y] \in Int
      BY <3>1
    <3> QED BY <1>2, <3>1, <3>2, SumWithout
  <2>4. Sum(f, U) = f[x] + Sum(f, U \ {x})
    <3>1. U \in SUBSET T
      OBVIOUS
    <3>2. \A y \in U : f[y] \in Int
      BY <3>1
    <3> QED BY <1>2, <3>1, <3>2, SumWithout
  <2>5. (S \cup U) \ {x} = S \cup (U \ {x}) /\ U \ {x} \in SUBSET T /\ S \in SUBSET T
    OBVIOUS
  <2>6. f[x] \in Int /\ Sum(f, S) \in Int /\ Sum(f, U \ {x}) \in Int
    BY <1>2, <2>5
  <2>7. Sum(f, S \cup U) = f[x] + (Sum(f, S) + Sum(f, U \ {x}))
    BY <2>2, <2>3, <2>5
  <2> DEFINE q == Sum(f, S)
             r == Sum(f, U \ {x})
             y == f[x]
  <2>8. y + (q + r) = q + (y + r)
    <3>1. y \in Int /\ q \in Int /\ r \in Int
      BY <2>6
    <3> HIDE DEF q, r, y
    <3> QED BY <3>1
  <2> QED BY <2>4, <2>7, <2>8
<1>5. SUBSET (T \ S) \subseteq G
  <2> HIDE DEF G
  <2> QED BY <1>1, <1>3, <1>4, OverSubsets
<1>6. S \cup (T \ S) = T /\ S \in SUBSET T /\ T \ S \in SUBSET T /\ T \in SUBSET T
  OBVIOUS
<1>7. T \ S \in G
  BY <1>5
<1> QED BY <1>2, <1>6, <1>7

\* A sum is not above that of terms that are not below its own.
LEMMA SumBelow ==
  ASSUME NEW S, IsFiniteSet(S), NEW f, NEW e, \A x \in S : f[x] \in Int /\ e[x] \in Int /\ f[x] <= e[x]
  PROVE  Sum(f, S) <= Sum(e, S) /\ Sum(f, S) \in Int /\ Sum(e, S) \in Int
<1> DEFINE G == {U \in SUBSET S : Sum(f, U) <= Sum(e, U)}
<1>1. \A U \in SUBSET S : IsFiniteSet(U) /\ Sum(f, U) \in Int /\ Sum(e, U) \in Int
  <2> TAKE U \in SUBSET S
  <2>1. IsFiniteSet(U)
    BY FS_Subset
  <2> QED BY <2>1, SumInt
<1>2. {} \in G
  BY SumEmpty
<1>3. ASSUME NEW U \in SUBSET S, U # {}, \A x \in U : U \ {x} \in G
      PROVE  U \in G
  <2>1. PICK x \in U : TRUE
    BY <1>3
  <2>2. Sum(f, U) = f[x] + Sum(f, U \ {x}) /\ Sum(e, U) = e[x] + Sum(e, U \ {x})
    <3>1. \A y \in U : f[y] \in Int /\ e[y] \in Int
      OBVIOUS
    <3> QED BY <1>1, <3>1, SumWithout
  <2>3. f[x] \in Int /\ e[x] \in Int /\ f[x] <= e[x]
        /\ Sum(f, U \ {x}) \in Int /\ Sum(e, U \ {x}) \in Int /\ Sum(f, U \ {x}) <= Sum(e, U \ {x})
    BY <1>1, <1>3
  <2> QED BY <2>2, <2>3
<1>4. SUBSET S \subseteq G
  <2> HIDE DEF G
  <2> QED BY <1>2, <1>3, OverSubsets
<1> QED BY <1>1, <1>4

=============================================================================
