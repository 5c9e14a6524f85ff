---------------------------- MODULE DispatchProofs ----------------------------
(***************************************************************************)
(* Theorems about Dispatch, for any queue, market, pools and budget, and   *)
(* any run: a locked job keeps its mesh, the jobs of Fallback cost no more *)
(* than the bar, a round admits no more than the bar and the pools hold,   *)
(* and defers nothing that would have fitted, no job goes back to a pair   *)
(* it was moved off while another is better, and a pass takes no more than *)
(* is free.                                                                *)
(*                                                                         *)
(* IInv is inductive: the types, which jobs have a placement, and that     *)
(* the mesh remembered for a locked job is the one its power names.        *)
(* Within, that what runs and waits costs no more than the bar, is         *)
(* inductive beside it.  The rest is about one step from a state where     *)
(* they hold: a step that admits is a round, and what a round decides is   *)
(* read off the walks of its folds along the order.                        *)
(*                                                                         *)
(* Hypotheses on the instance stand in the theorems that need them.        *)
(***************************************************************************)
EXTENDS Dispatch, FoldLemmas

-----------------------------------------------------------------------------
(* The choice of a placement.                                              *)

\* The cells of the market.
Cells == DOMAIN Metro

\* The placements of a job that has one.
Placed == [cell : Cells, arch : Archs, chips : Nat \ {0}]

\* And of one that has none.
Placements == {NoPlacement} \cup Placed

\* What moves have left of each pair.
PairMemories == [Pairs -> [left : Nat, strikes : Nat]]

\* What evictions have left of each pair.
Evictions == [Pairs -> [strikes : Nat, recent : BOOLEAN]]

\* What is read of a market has its types.
MarketOK(m) ==
  m.free \in [Pairs -> Int] /\ m.price \in [Pairs -> Price] /\ m.archPrice \in [Archs -> Price]

\* What is read of a job's memory has its types.
MemoryOK(mem) == mem.pairs \in PairMemories /\ mem.evictions \in Evictions

\* The generations, one by one.
LEMMA ArchsAre == Archs = {"v7", "v6p", "v6e", "v5p", "v4", "v5e", "b200", "h100"}
BY DEF Archs, ARCH_PREF

\* A shape has a generation and at least one chip.
LEMMA ShapesAre ==
  ASSUME NEW s \in Shapes
  PROVE  /\ s.arch \in Archs /\ s.chips \in Nat \ {0}
         /\ s = [arch |-> s.arch, chips |-> s.chips]
<1>1. PICK a \in Archs : s \in [arch : {a}, chips : LEGAL_SIZES[a]]
  BY DEF Shapes
<1>2. LEGAL_SIZES[a] \subseteq Nat \ {0}
  BY DEF LEGAL_SIZES
<1> QED BY <1>1, <1>2

\* Shapes are compared by a number.
LEMMA ShapeKeyNat ==
  ASSUME NEW a, NEW m, m.archPrice \in [Archs -> Price], NEW s \in Shapes
  PROVE  ShapeKey(a, m, s) \in Nat
<1>1. s.arch \in Archs /\ s.chips \in Nat
  BY ShapesAre
<1>2. ARCH_PREF[s.arch] \in Nat
  BY <1>1 DEF Archs, ARCH_PREF
<1>3. \A n : PoolWeight(n) \in Nat \ {0}
  BY DEF PoolWeight
<1>4. \A n : Quoted(m.archPrice[s.arch]) => EffectivePrice(m.archPrice[s.arch], n) \in Nat
  <2> TAKE n
  <2> HAVE Quoted(m.archPrice[s.arch])
  <2>1. m.archPrice[s.arch] \in Nat
    BY <1>1 DEF Quoted, Price
  <2> DEFINE p == m.archPrice[s.arch]
             w == PoolWeight(n)
  <2>2. w \in Nat \ {0} /\ p \in Nat
    BY <1>3, <2>1
  <2> HIDE DEF p, w
  <2>3. (1000 * p) \div w \in Nat
    BY <2>2
  <2> QED BY <2>3 DEF EffectivePrice, p, w
<1>5. Dearest \div 100 \in Nat
  BY DEF Dearest
<1> DEFINE price == IF a.power.arch \in Gpus \/ \A b \in Archs : ~Quoted(m.archPrice[b]) THEN 0
               ELSE IF Quoted(m.archPrice[s.arch])
                    THEN EffectivePrice(m.archPrice[s.arch], IF s.arch \in Hosted THEN m.pool[s.arch] ELSE 0)
               ELSE Dearest \div 100
<1>6. price \in Nat
  BY <1>4, <1>5
<1>7. ShapeKey(a, m, s) = 10000 * price + 100 * ARCH_PREF[s.arch] + s.chips
  BY DEF ShapeKey
<1> HIDE DEF price
<1> QED BY <1>1, <1>2, <1>6, <1>7

\* So that the best of some shapes is one of them.
LEMMA BestShapeIs ==
  ASSUME NEW a, NEW m, m.archPrice \in [Archs -> Price], NEW S, S \subseteq Shapes, S # {}
  PROVE  BestShape(a, m, S) \in S
<1> DEFINE T == {ShapeKey(a, m, s) : s \in S}
<1>1. T \subseteq Nat /\ T # {}
  BY ShapeKeyNat
<1>2. PICK n \in T : \A k \in T : n <= k
  <2> HIDE DEF T
  <2> QED BY <1>1, LeastOf
<1>3. \E s \in S : \A t \in S : ShapeKey(a, m, s) <= ShapeKey(a, m, t)
  BY <1>2
<1> QED BY <1>3 DEF BestShape

\* Where one slice fits, its chips are free.
LEMMA SlicesForIs ==
  ASSUME NEW free \in Int, NEW chips \in Nat \ {0}
  PROVE  /\ SlicesFor(free, chips) \in Int
         /\ SlicesFor(free, chips) >= 1 => free >= chips
BY DEF SlicesFor

\* The best of the cells that can take a shape is one of them: there are finitely many,
\* compared by an integer.
LEMMA BestCellIs ==
  ASSUME NEW a, NEW mem, MemoryOK(mem), NEW m, MarketOK(m), NEW s \in Shapes, Placeable(a, s, m) # {}
  PROVE  /\ BestCell(a, mem, s, m) \in Placeable(a, s, m)
         /\ \A q \in Placeable(a, s, m) :
              CellKey(mem, q, s, m) \in Int /\ CellKey(mem, BestCell(a, mem, s, m), s, m) <= CellKey(mem, q, s, m)
<1> DEFINE S == Placeable(a, s, m)
           N(p) == SlicesFor(m.free[p], s.chips)
           Key(p) == CellKey(mem, p, s, m)
           f == [p \in S |-> Key(p)]
<1>1. S \subseteq Pairs /\ IsFiniteSet(S)
  <2>1. S \subseteq Pairs
    BY DEF Placeable
  <2> QED BY <2>1, PlacementConstantsOK, FS_Subset
<1>2. \A p \in S : N(p) \in Int /\ N(p) >= 1
  <2> TAKE p \in S
  <2>1. m.free[p] \in Int /\ s.chips \in Nat \ {0}
    BY <1>1, ShapesAre DEF MarketOK
  <2>2. N(p) >= 1
    BY DEF Placeable
  <2> QED BY <2>1, <2>2, SlicesForIs
<1>3. \A p \in S : CellScore(mem, p, N(p), m) \in Int
  <2> TAKE p \in S
  <2> DEFINE n == N(p)
  <2>1. n \in Int /\ n >= 1
    BY <1>2
  <2> HIDE DEF n
  <2>2. SliceWeight(n) \in Nat \ {0}
    BY <2>1 DEF SliceWeight
  <2>3. EvictPenalty(mem.evictions[p]) \in Int /\ CooldownPenalty(mem.pairs[p]) \in Int
    BY <1>1 DEF MemoryOK, PairMemories, Evictions, EvictPenalty, CooldownPenalty, StrikesCap
  <2>4. m.price[p] \in Int
    BY <1>1 DEF MarketOK, Price, NoPrice
  <2> DEFINE u == SliceWeight(n)
             v == m.price[p]
             x == EvictPenalty(mem.evictions[p])
             y == CooldownPenalty(mem.pairs[p])
  <2>5. u \in Nat \ {0} /\ v \in Int /\ x \in Int /\ y \in Int
    BY <2>2, <2>3, <2>4
  <2>6. CellScore(mem, p, n, m) = IF ~Quoted(v) THEN Dearest ELSE ((1000 * v) \div u) * x * y
    BY DEF CellScore
  <2> HIDE DEF u, v, x, y
  <2>7. (1000 * v) \div u \in Int
    BY <2>5
  <2>8. ((1000 * v) \div u) * x * y \in Int
    <3> DEFINE d == (1000 * v) \div u
    <3>1. d \in Int
      BY <2>7
    <3> HIDE DEF d
    <3> QED BY <2>5, <3>1
  <2>9. CellScore(mem, p, n, m) \in Int
    BY <2>6, <2>8 DEF Dearest
  <2> QED BY <2>9 DEF n
<1>4. \A p \in S : f[p] = Key(p) /\ f[p] \in Int
  <2> TAKE p \in S
  <2> DEFINE c == CellScore(mem, p, N(p), m)
             n == N(p)
  <2>1. c \in Int /\ n \in Int
    BY <1>2, <1>3
  <2>2. f[p] = Key(p) /\ Key(p) = 100 * c - n
    BY Zenon DEF CellKey
  <2> HIDE DEF c, n, f, Key
  <2>3. 100 * c - n \in Int
    BY <2>1
  <2> QED BY <2>2, <2>3
<1>5. \E p \in S : \A q \in S : f[p] <= f[q]
  <2> HIDE DEF f, S
  <2> QED BY <1>1, <1>4, FiniteLeast DEF S
<1>6. \E p \in S : \A q \in S : Key(p) <= Key(q)
  <2> HIDE DEF S, Key
  <2> QED BY <1>4, <1>5
<1>7. BestCell(a, mem, s, m) = CHOOSE p \in S : \A q \in S : Key(p) <= Key(q)
  BY DEF BestCell
<1> QED
  <2> DEFINE b == BestCell(a, mem, s, m)
  <2> HIDE DEF Key
  <2>1. b \in S /\ \A q \in S : Key(b) <= Key(q)
    <3> HIDE DEF S
    <3> QED BY <1>6, <1>7
  <2>2. \A q \in S : Key(q) \in Int
    BY <1>4
  <2> QED BY <2>1, <2>2 DEF Key

\* No shape the job accepts has a warm cell that is better than all the cooling ones.
Elsewhere(a, mem, m) ==
  \A s \in CandidateShapes(a, mem.mesh) :
    LET S == Placeable(a, s, m)
        Better(q, p) == CellKey(mem, q, s, m) < CellKey(mem, p, s, m)
    IN ~\E q \in S : /\ ~Cooling(mem, q)
                     /\ \A p \in S : Cooling(mem, p) => Better(q, p)

\* The shapes a job accepts are shapes.
LEMMA CandidatesAre ==
  ASSUME NEW a, NEW mesh
  PROVE  CandidateShapes(a, mesh) \subseteq Shapes
BY DEF CandidateShapes

\* A plan is a shape the job accepts in a cell that can take it; if that is cooling, so is
\* the best cell of every such shape.
LEMMA PlanOneIs ==
  ASSUME NEW a, NEW mem, MemoryOK(mem), NEW m, MarketOK(m), PlanOne(a, mem, m) # NoPlacement
  PROVE  \E s \in CandidateShapes(a, mem.mesh) : \E p \in Placeable(a, s, m) :
           /\ PlanOne(a, mem, m) = [cell |-> p.cell, arch |-> s.arch, chips |-> s.chips]
           /\ PairOf(PlanOne(a, mem, m)) = p
           /\ PlanOne(a, mem, m) \in Placed
           /\ Cooling(mem, p) => Elsewhere(a, mem, m)
<1> DEFINE able == {t \in CandidateShapes(a, mem.mesh) : Placeable(a, t, m) # {}}
           warm == {t \in able : ~Cooling(mem, BestCell(a, mem, t, m))}
           s == BestShape(a, m, IF warm # {} THEN warm ELSE able)
           p == BestCell(a, mem, s, m)
<1>1. able # {} /\ PlanOne(a, mem, m) = [cell |-> p.cell, arch |-> s.arch, chips |-> s.chips]
  BY DEF PlanOne
<1>2. able \subseteq Shapes
  BY CandidatesAre
<1>3. s \in able /\ (warm # {} => s \in warm)
  <2>1. m.archPrice \in [Archs -> Price] /\ warm \subseteq able
    BY DEF MarketOK
  <2> HIDE DEF able, warm
  <2>2. (IF warm # {} THEN warm ELSE able) \subseteq Shapes /\ (IF warm # {} THEN warm ELSE able) # {}
    BY <1>1, <1>2, <2>1
  <2>3. s \in IF warm # {} THEN warm ELSE able
    BY <2>1, <2>2, BestShapeIs
  <2> QED BY <2>1, <2>3
<1>4. \A t \in able : BestCell(a, mem, t, m) \in Placeable(a, t, m)
  BY <1>2, BestCellIs
<1>5. p \in Placeable(a, s, m) /\ s \in CandidateShapes(a, mem.mesh) /\ s \in Shapes
  BY <1>2, <1>3, <1>4
<1>6. p \in Pairs /\ p.arch = s.arch
  BY <1>5 DEF Placeable
<1>7. p \in [cell : Cells, arch : Archs]
  BY <1>6, PlacementConstantsOK DEF Cells
<1>8. PairOf(PlanOne(a, mem, m)) = p
  <2> HIDE DEF p, s
  <2> QED BY <1>1, <1>6, <1>7 DEF PairOf
<1>9. PlanOne(a, mem, m) \in Placed
  <2>1. s.chips \in Nat \ {0} /\ s.arch \in Archs
    BY <1>5, ShapesAre
  <2> HIDE DEF p, s
  <2> QED BY <1>1, <1>7, <2>1 DEF Placed
<1>10. ASSUME Cooling(mem, p)
       PROVE  Elsewhere(a, mem, m)
  <2>1. s \notin warm
    BY <1>10
  <2>2. warm = {}
    BY <1>3, <2>1
  <2>3. \A t \in able : Cooling(mem, BestCell(a, mem, t, m))
    BY <2>2
  <2> SUFFICES ASSUME NEW t \in CandidateShapes(a, mem.mesh), NEW q \in Placeable(a, t, m),
                      ~Cooling(mem, q),
                      \A r \in Placeable(a, t, m) :
                        Cooling(mem, r) => CellKey(mem, q, t, m) < CellKey(mem, r, t, m)
               PROVE  FALSE
    BY Zenon DEF Elsewhere
  <2> DEFINE b == BestCell(a, mem, t, m)
  <2>4. t \in able
    OBVIOUS
  <2>5. Cooling(mem, b) /\ b \in Placeable(a, t, m)
    BY <1>4, <2>3, <2>4, Zenon
  <2>6. CellKey(mem, b, t, m) \in Int /\ CellKey(mem, q, t, m) \in Int
        /\ CellKey(mem, b, t, m) <= CellKey(mem, q, t, m)
    <3>1. t \in Shapes /\ Placeable(a, t, m) # {}
      BY <1>2, <2>4
    <3> QED BY <2>5, <3>1, BestCellIs
  <2>7. CellKey(mem, q, t, m) < CellKey(mem, b, t, m)
    BY <2>5, Zenon
  <2> DEFINE x == CellKey(mem, q, t, m)
             y == CellKey(mem, b, t, m)
  <2>8. x \in Int /\ y \in Int /\ y <= x /\ x < y
    BY <2>6, <2>7
  <2> HIDE DEF x, y
  <2> QED BY <2>8
<1> HIDE DEF s, p
<1> QED BY <1>1, <1>5, <1>8, <1>9, <1>10

\* Nothing is planned by a fetch that shows nothing free.
LEMMA NothingInTheDark ==
  ASSUME NEW a, NEW mem, NEW m, \A p \in Pairs : m.free[p] = 0
  PROVE  PlanOne(a, mem, m) = NoPlacement
<1>1. ASSUME NEW s \in Shapes
      PROVE  Placeable(a, s, m) = {}
  <2>1. s.chips \in Nat \ {0}
    BY ShapesAre
  <2>2. ~(0 \div s.chips >= 1)
    <3> DEFINE c == s.chips
    <3>1. c \in Nat \ {0}
      BY <2>1
    <3> HIDE DEF c
    <3>2. ~(0 \div c >= 1)
      BY <3>1
    <3> QED BY <3>2 DEF c
  <2> QED BY <2>2 DEF Placeable, SlicesFor
<1>2. {s \in CandidateShapes(a, mem.mesh) : Placeable(a, s, m) # {}} = {}
  BY <1>1, CandidatesAre
<1> QED BY <1>2 DEF PlanOne

\* A cell that can take a shape passes the gates, and has its chips free.
LEMMA PlacedFits ==
  ASSUME NEW a, NEW s \in Shapes, NEW m, MarketOK(m), NEW p \in Placeable(a, s, m)
  PROVE  p \in Pairs /\ Gates(a, p, m) /\ m.free[p] >= s.chips /\ s.chips \in Nat \ {0} /\ m.free[p] \in Int
<1>1. p \in Pairs /\ Gates(a, p, m) /\ SlicesFor(m.free[p], s.chips) >= 1
  BY DEF Placeable
<1>2. m.free[p] \in Int /\ s.chips \in Nat \ {0}
  BY <1>1, ShapesAre DEF MarketOK
<1> QED BY <1>1, <1>2, SlicesForIs

-----------------------------------------------------------------------------
(* Folds along an order.                                                   *)

\* The step of Ordered.
KeepStep(S, seq, j) == IF j \in S THEN Append(seq, j) ELSE seq

\* The step of SelectAndPlan.
PlanStep(acc, j) ==
  LET placement == PlanOne(ask[j], memory[j], acc.m)
  IN [m |-> Taken(acc.m, placement), plan |-> [acc.plan EXCEPT ![j] = placement]]

\* The step of Picks.
PickStep(plan, m, silent, acc, j) ==
  LET g == PickGroup(j, plan[j], m.price[PairOf(plan[j])], acc.pending, silent)
  IN [pool |-> [acc.pool EXCEPT ![j] = g], pending |-> DebitGroup(acc.pending, g, plan[j])]

\* The step of PlanDispatch.
DecideStep(exempt, charge, acc, j) ==
  IF exempt[j] \/ charge[j] <= acc.left
  THEN [left |-> Debited(acc.left, charge[j]), admitted |-> acc.admitted \cup {j}]
  ELSE acc

\* They are told apart by a record, since a lemma takes no operator.
FoldStep(e, acc, j) ==
  CASE e.of = "keep"   -> KeepStep(e.set, acc, j)
    [] e.of = "plan"   -> PlanStep(acc, j)
    [] e.of = "pick"   -> PickStep(e.plan, e.m, e.silent, acc, j)
    [] e.of = "decide" -> DecideStep(e.exempt, e.charge, acc, j)

\* The fold of one of them along an order.
Walked(e, base, order) == FoldLeft(LAMBDA acc, j : FoldStep(e, acc, j), base, order)

\* w tells the fold as it goes: what is accumulated after the first k jobs.
IsWalk(w, e, A, base, order) ==
  /\ w \in [0..Len(order) -> A]
  /\ w[0] = base
  /\ \A k \in 1..Len(order) : w[k] = FoldStep(e, w[k - 1], order[k])
  /\ Walked(e, base, order) = w[Len(order)]

\* There is such a walk, within any set that the step does not leave.
LEMMA Walk ==
  ASSUME NEW e, NEW A, NEW base \in A, NEW D, NEW order \in Seq(D),
         \A acc \in A, j \in D : FoldStep(e, acc, j) \in A
  PROVE  \E w : IsWalk(w, e, A, base, order)
<1> DEFINE n == Len(order)
           I == 1..n
           c == [s \in SUBSET I |-> Max(s)]
           step == [p \in A \X I |-> FoldStep(e, p[1], order[p[2]])]
           P(g) == g = [s \in SUBSET DOMAIN order |->
                          IF s = {} THEN base ELSE FoldStep(e, g[s \ {Max(s)}], order[Max(s)])]
           h == CHOOSE g : P(g)
<1>1. n \in Nat /\ DOMAIN order = I /\ IsFiniteSet(I) /\ \A i \in I : order[i] \in D
  BY FS_Interval
<1>2. \A s \in SUBSET I : s # {} => c[s] \in s /\ c[s] = Max(s)
  BY <1>1, MaxIs
<1>3. \A acc \in A, i \in I : step[<<acc, i>>] = FoldStep(e, acc, order[i]) /\ step[<<acc, i>>] \in A
  BY <1>1
<1>4. PICK g : IsFold(g, A, I, base, step, c)
  <2> HIDE DEF c, step, I
  <2> QED BY <1>1, <1>2, <1>3, FoldExists
<1>5. P(g)
  <2>1. \A s \in SUBSET I : s # {} =>
          g[s \ {Max(s)}] \in A /\ Max(s) \in I
          /\ g[s] = FoldStep(e, g[s \ {Max(s)}], order[Max(s)])
    <3> TAKE s \in SUBSET I
    <3> HAVE s # {}
    <3>1. c[s] \in I /\ s \ {c[s]} \in SUBSET I /\ c[s] = Max(s)
      BY <1>2
    <3>2. g[s \ {c[s]}] \in A /\ g[s] = step[<<g[s \ {c[s]}], c[s]>>]
      BY <1>4, <3>1 DEF IsFold
    <3> HIDE DEF c, step, I
    <3> QED BY <1>3, <3>1, <3>2
  <2>2. g[{}] = base
    BY <1>4 DEF IsFold
  <2>3. g = [s \in SUBSET I |-> g[s]]
    BY <1>4 DEF IsFold
  <2> HIDE DEF I
  <2> QED BY <1>1, <2>1, <2>2, <2>3
<1>6. P(h)
  <2> HIDE DEF P
  <2> QED BY <1>5
<1>7. Walked(e, base, order) = h[DOMAIN order]
  BY DEF Walked, FoldLeft, MapThenFoldSet
<1>8. \A s \in SUBSET I : h[s] = IF s = {} THEN base ELSE FoldStep(e, h[s \ {Max(s)}], order[Max(s)])
  <2> HIDE DEF h, I
  <2> QED BY <1>1, <1>6
<1> HIDE DEF h
<1> DEFINE w == [k \in 0..n |-> h[1..k]]
<1>9. w[0] = base
  <2>1. 1..0 = {} /\ 0 \in 0..n
    BY <1>1
  <2> QED BY <1>8, <2>1
<1>10. ASSUME NEW k \in 1..n
       PROVE  w[k] = FoldStep(e, w[k - 1], order[k])
  <2>1. k \in Nat /\ k # 0 /\ k \in 0..n /\ k - 1 \in 0..n /\ 1..k \in SUBSET I
    BY <1>1
  <2>2. Max(1..k) = k /\ (1..k) \ {k} = 1..(k - 1) /\ 1..k # {}
    BY <2>1, MaxOfFirst
  <2>3. h[1..k] = FoldStep(e, h[1..(k - 1)], order[k])
    <3> HIDE DEF I
    <3> QED BY <1>8, <2>1, <2>2
  <2> QED BY <2>1, <2>3
<1>11. w \in [0..n -> A]
  <2> DEFINE G == {k \in 0..n : w[k] \in A}
  <2>1. 0 \in G
    BY <1>1, <1>9
  <2>2. ASSUME NEW k \in 1..n, k - 1 \in G
        PROVE  k \in G
    <3>1. order[k] \in D /\ k \in 0..n
      BY <1>1
    <3> HIDE DEF w
    <3> QED BY <1>10, <2>2, <3>1
  <2>3. 0..n \subseteq G
    <3> HIDE DEF G
    <3> QED BY <1>1, <2>1, <2>2, UpTo
  <2> QED BY <2>3
<1>12. Walked(e, base, order) = w[n]
  BY <1>1, <1>7
<1> HIDE DEF w
<1> QED BY <1>9, <1>10, <1>11, <1>12 DEF IsWalk

\* Ordered is such a fold.
LEMMA OrderedIs ==
  ASSUME NEW S
  PROVE  Ordered(S) = Walked([of |-> "keep", set |-> S], <<>>, Queue)
<1> DEFINE e == [of |-> "keep", set |-> S]
           P(g) == g = [s \in SUBSET DOMAIN Queue |-> IF s = {} THEN <<>>
                          ELSE IF Queue[Max(s)] \in S THEN Append(g[s \ {Max(s)}], Queue[Max(s)])
                               ELSE g[s \ {Max(s)}]]
           Q(g) == g = [s \in SUBSET DOMAIN Queue |-> IF s = {} THEN <<>>
                          ELSE FoldStep(e, g[s \ {Max(s)}], Queue[Max(s)])]
<1>1. Ordered(S) = (CHOOSE g : P(g))[DOMAIN Queue]
  BY DEF Ordered, FoldLeft, MapThenFoldSet
<1>2. Walked(e, <<>>, Queue) = (CHOOSE g : Q(g))[DOMAIN Queue]
  BY DEF Walked, FoldLeft, MapThenFoldSet
<1>3. \A acc, j : FoldStep(e, acc, j) = IF j \in S THEN Append(acc, j) ELSE acc
  BY DEF FoldStep, KeepStep
<1>4. \A g : P(g) <=> Q(g)
  <2> HIDE DEF e
  <2> QED BY <1>3
<1>5. (CHOOSE g : P(g)) = (CHOOSE g : Q(g))
  <2> HIDE DEF P, Q
  <2> QED BY <1>4, Zenon
<1> QED BY <1>1, <1>2, <1>5

\* So is SelectAndPlan.
LEMMA SelectAndPlanIs ==
  ASSUME NEW order, NEW m
  PROVE  SelectAndPlan(order, m) =
           Walked([of |-> "plan"], [m |-> m, plan |-> [j \in Jobs |-> NoPlacement]], order).plan
<1> DEFINE e == [of |-> "plan"]
           base == [m |-> m, plan |-> [j \in Jobs |-> NoPlacement]]
           P(g) == g = [s \in SUBSET DOMAIN order |-> IF s = {} THEN base
                          ELSE PlanStep(g[s \ {Max(s)}], order[Max(s)])]
           Q(g) == g = [s \in SUBSET DOMAIN order |-> IF s = {} THEN base
                          ELSE FoldStep(e, g[s \ {Max(s)}], order[Max(s)])]
<1>1. SelectAndPlan(order, m) = (CHOOSE g : P(g))[DOMAIN order].plan
  BY DEF SelectAndPlan, PlanStep, FoldLeft, MapThenFoldSet
<1>2. Walked(e, base, order) = (CHOOSE g : Q(g))[DOMAIN order]
  BY DEF Walked, FoldLeft, MapThenFoldSet
<1>3. \A acc, j : FoldStep(e, acc, j) = PlanStep(acc, j)
  BY DEF FoldStep
<1>4. \A g : P(g) <=> Q(g)
  <2> HIDE DEF e, base
  <2> QED BY <1>3
<1>5. (CHOOSE g : P(g)) = (CHOOSE g : Q(g))
  <2> HIDE DEF P, Q
  <2> QED BY <1>4, Zenon
<1> QED BY <1>1, <1>2, <1>5

\* So is Picks.
LEMMA PicksIs ==
  ASSUME NEW order, NEW plan, NEW m, NEW silent
  PROVE  Picks(order, plan, m, silent) =
           Walked([of |-> "pick", plan |-> plan, m |-> m, silent |-> silent],
                  [pool |-> [j \in Jobs |-> NoPool], pending |-> PendingByGroup], order).pool
<1> DEFINE e == [of |-> "pick", plan |-> plan, m |-> m, silent |-> silent]
           base == [pool |-> [j \in Jobs |-> NoPool], pending |-> PendingByGroup]
           P(g) == g = [s \in SUBSET DOMAIN order |-> IF s = {} THEN base
                          ELSE PickStep(plan, m, silent, g[s \ {Max(s)}], order[Max(s)])]
           Q(g) == g = [s \in SUBSET DOMAIN order |-> IF s = {} THEN base
                          ELSE FoldStep(e, g[s \ {Max(s)}], order[Max(s)])]
<1>1. Picks(order, plan, m, silent) = (CHOOSE g : P(g))[DOMAIN order].pool
  BY DEF Picks, PickStep, FoldLeft, MapThenFoldSet
<1>2. Walked(e, base, order) = (CHOOSE g : Q(g))[DOMAIN order]
  BY DEF Walked, FoldLeft, MapThenFoldSet
<1>3. \A acc, j : FoldStep(e, acc, j) = PickStep(plan, m, silent, acc, j)
  BY DEF FoldStep
<1>4. \A g : P(g) <=> Q(g)
  <2> HIDE DEF e, base
  <2> QED BY <1>3
<1>5. (CHOOSE g : P(g)) = (CHOOSE g : Q(g))
  <2> HIDE DEF P, Q
  <2> QED BY <1>4, Zenon
<1> QED BY <1>1, <1>2, <1>5

\* So is PlanDispatch.
LEMMA PlanDispatchIs ==
  ASSUME NEW order, NEW exempt, NEW charge
  PROVE  PlanDispatch(order, exempt, charge) =
           Walked([of |-> "decide", exempt |-> exempt, charge |-> charge],
                  [left |-> Headroom, admitted |-> {}], order).admitted
<1> DEFINE e == [of |-> "decide", exempt |-> exempt, charge |-> charge]
           base == [left |-> Headroom, admitted |-> {}]
           P(g) == g = [s \in SUBSET DOMAIN order |-> IF s = {} THEN base
                          ELSE DecideStep(exempt, charge, g[s \ {Max(s)}], order[Max(s)])]
           Q(g) == g = [s \in SUBSET DOMAIN order |-> IF s = {} THEN base
                          ELSE FoldStep(e, g[s \ {Max(s)}], order[Max(s)])]
<1>1. PlanDispatch(order, exempt, charge) = (CHOOSE g : P(g))[DOMAIN order].admitted
  BY DEF PlanDispatch, DecideStep, FoldLeft, MapThenFoldSet
<1>2. Walked(e, base, order) = (CHOOSE g : Q(g))[DOMAIN order]
  BY DEF Walked, FoldLeft, MapThenFoldSet
<1>3. \A acc, j : FoldStep(e, acc, j) = DecideStep(exempt, charge, acc, j)
  BY DEF FoldStep
<1>4. \A g : P(g) <=> Q(g)
  <2> HIDE DEF e, base
  <2> QED BY <1>3
<1>5. (CHOOSE g : P(g)) = (CHOOSE g : Q(g))
  <2> HIDE DEF P, Q
  <2> QED BY <1>4, Zenon
<1> QED BY <1>1, <1>2, <1>5

-----------------------------------------------------------------------------
(* The invariant.                                                          *)

\* The pools a row may name: a pin may name one the router does not know.
Groups == Pools \cup {NoPool} \cup {a.pin : a \in UNION {Asks[j] : j \in Jobs}}

\* The states of a row.
States == {"QUEUED", "BUILD_REQUESTED", "BUDGET_DEFERRED", "SUBMITTED", "RUNNING", "DONE"}

\* The rows.
Rows == [st : States, placement : Placements, pool : Groups]

\* The meshes, and none.
Meshes == {NoMesh} \cup [family : {"torus", "pod"}, chips : Nat]

\* The memories of a job.
Memories == [mesh : Meshes, pairs : PairMemories, evictions : Evictions, pools : [Pools -> Nat]]

\* The quota tables as cached.
Quotas == [fresh : BOOLEAN, used : [Hosted -> Int]]

\* The types of the variables.
TypeOK ==
  /\ mode \in Modes
  /\ DOMAIN ask = Jobs /\ \A j \in Jobs : ask[j] \in Asks[j]
  /\ row \in [Jobs -> Rows]
  /\ memory \in [Jobs -> Memories]
  /\ mood \in [Pairs -> Moods]
  /\ missing \subseteq Hosted
  /\ quota \in [PreferredPools -> Quotas]

\* A job has a placement, in a pair of the market, exactly while it is submitted or
\* runs; one that is to be built has a pool.
Seated ==
  \A j \in Jobs :
    /\ row[j].placement # NoPlacement <=> row[j].st \in {"SUBMITTED", "RUNNING"}
    /\ row[j].placement # NoPlacement => PairOf(row[j].placement) \in Pairs
    /\ row[j].st = "BUILD_REQUESTED" => row[j].pool # NoPool

\* The mesh that is remembered for a locked job is the one its power names. From there
\* CandidateShapes takes it up, so that MeshKept is not inductive without it.
LockKept ==
  \A j \in Jobs : ask[j].locked => memory[j].mesh \in {NoMesh, Mesh(ask[j].power)}

\* The invariant.
IInv == TypeOK /\ Seated /\ LockKept /\ MeshKept

-----------------------------------------------------------------------------
(* Jobs, market and memory.                                                *)

\* The jobs are those of the queue, finitely many.
LEMMA JobsAre ==
  /\ Queue \in Seq(Jobs) /\ Len(Queue) \in Nat /\ IsFiniteSet(Jobs)
  /\ \A j \in Jobs : \E i \in 1..Len(Queue) : Queue[i] = j
<1>1. Queue \in Seq(Jobs) /\ Len(Queue) \in Nat
  BY DispatchConstantsOK
<1>2. IsFiniteSet(1..Len(Queue))
  BY <1>1, FS_Interval
<1>3. IsFiniteSet({Queue[i] : i \in 1..Len(Queue)})
  <2> DEFINE f == [i \in 1..Len(Queue) |-> Queue[i]]
  <2>1. {f[i] : i \in 1..Len(Queue)} = {Queue[i] : i \in 1..Len(Queue)}
    OBVIOUS
  <2>2. f \in Surjection(1..Len(Queue), {Queue[i] : i \in 1..Len(Queue)})
    BY DEF Surjection
  <2> QED BY <1>2, <2>2, FS_Surjection
<1> QED BY <1>1, <1>3 DEF Jobs

\* SumChips is a sum.
LEMMA SumChipsIs ==
  ASSUME NEW f, NEW S, \A j \in S : f[j] = row[j].placement.chips
  PROVE  SumChips(S) = Sum(f, S)
<1> DEFINE P(g) == g = [s \in SUBSET S |-> IF s = {} THEN 0
                        ELSE row[CHOOSE x \in s : TRUE].placement.chips + g[s \ {CHOOSE x \in s : TRUE}]]
           Q(g) == g = [s \in SUBSET S |-> IF s = {} THEN 0
                        ELSE f[CHOOSE x \in s : TRUE] + g[s \ {CHOOSE x \in s : TRUE}]]
<1>1. SumChips(S) = (CHOOSE g : P(g))[S] /\ Sum(f, S) = (CHOOSE g : Q(g))[S]
  BY DEF SumChips, Sum, MapThenSumSet, MapThenFoldSet
<1>2. \A g : P(g) <=> Q(g)
  <2>1. \A s \in SUBSET S : s # {} =>
          f[CHOOSE x \in s : TRUE] = row[CHOOSE x \in s : TRUE].placement.chips
    OBVIOUS
  <2> TAKE g
  <2>2. [s \in SUBSET S |-> IF s = {} THEN 0
           ELSE row[CHOOSE x \in s : TRUE].placement.chips + g[s \ {CHOOSE x \in s : TRUE}]]
      = [s \in SUBSET S |-> IF s = {} THEN 0
           ELSE f[CHOOSE x \in s : TRUE] + g[s \ {CHOOSE x \in s : TRUE}]]
    BY <2>1
  <2> QED BY <2>2
<1>3. (CHOOSE g : P(g)) = (CHOOSE g : Q(g))
  <2> HIDE DEF P, Q
  <2> QED BY <1>2, Zenon
<1> QED BY <1>1, <1>3

\* The chips of each job.
ChipsOf == [j \in Jobs |-> row[j].placement.chips]

\* They are naturals: a job without a placement has none.
LEMMA ChipsOfNat ==
  ASSUME row \in [Jobs -> Rows], NEW j \in Jobs
  PROVE  ChipsOf[j] = row[j].placement.chips /\ ChipsOf[j] \in Nat
BY DEF ChipsOf, Rows, Placements, Placed, NoPlacement

\* And so is their sum.
LEMMA SumChipsNat ==
  ASSUME row \in [Jobs -> Rows], NEW S, S \subseteq Jobs
  PROVE  SumChips(S) = Sum(ChipsOf, S) /\ SumChips(S) \in Nat
<1>1. IsFiniteSet(S) /\ \A j \in S : ChipsOf[j] = row[j].placement.chips /\ ChipsOf[j] \in Nat
  BY JobsAre, FS_Subset, ChipsOfNat
<1>2. SumChips(S) = Sum(ChipsOf, S)
  BY <1>1, SumChipsIs
<1>3. Sum(ChipsOf, S) \in Nat
  BY <1>1, SumNat
<1> QED BY <1>2, <1>3

\* What the market shows.
LEMMA MarketIs ==
  ASSUME TypeOK
  PROVE  /\ MarketOK(Market) /\ Market.archPrice = ArchPrice
         /\ \A p \in Pairs : Market.free[p] = ShownAt(p)
         /\ \A p \in Pairs : Market.price[p] \in {CellPrice[p], DearPrice[p]}
         /\ Market = [free |-> Market.free, oversold |-> Market.oversold, price |-> Market.price,
                      pool |-> Market.pool, archPrice |-> Market.archPrice]
<1>1. \A p \in Pairs : ShownAt(p) \in Int
  <2> TAKE p \in Pairs
  <2>1. In("RUNNING") \cap At(p) \subseteq Jobs
    BY DEF In
  <2>2. SumChips(In("RUNNING") \cap At(p)) \in Int
    BY <2>1, SumChipsNat DEF TypeOK
  <2>3. Chips[p] \in Int
    BY DispatchConstantsOK
  <2> QED BY <2>2, <2>3 DEF FreeAt, ShownAt
<1>2. Market.free = [p \in Pairs |-> ShownAt(p)] /\ Market.archPrice = ArchPrice
      /\ Market.price = [p \in Pairs |-> IF mood[p] = "dear" THEN DearPrice[p] ELSE CellPrice[p]]
  BY DEF Market
<1>3. Market = [free |-> Market.free, oversold |-> Market.oversold, price |-> Market.price,
                pool |-> Market.pool, archPrice |-> Market.archPrice]
  BY DEF Market
<1>4. MarketOK(Market)
  BY <1>1, <1>2, DispatchConstantsOK DEF MarketOK
<1> QED BY <1>2, <1>3, <1>4

\* What a failed fetch shows.
LEMMA DarkIs ==
  ASSUME TypeOK
  PROVE  \A p \in Pairs : Dark.free[p] = 0
<1>1. Dark = [Market EXCEPT !.free = [p \in Pairs |-> 0]]
  BY DEF Dark
<1>2. Dark.free = [p \in Pairs |-> 0]
  BY <1>1, MarketIs
<1> QED BY <1>2

\* A fetch that plans anything is one that did not fail.
LEMMA PlanFetched ==
  ASSUME TypeOK, NEW m \in Fetches, NEW j \in Jobs, PlanOne(ask[j], memory[j], m) # NoPlacement
  PROVE  m = Market
<1>1. m = Market \/ m = Dark
  BY DEF Fetches
<1>2. m # Dark
  BY DarkIs, NothingInTheDark
<1> QED BY <1>1, <1>2

\* Every memory has its types.
LEMMA MemoryOKIs ==
  ASSUME TypeOK, NEW j \in Jobs
  PROVE  MemoryOK(memory[j])
BY DEF TypeOK, Memories, MemoryOK

\* A job's place in the queue.
Place == [j \in Jobs |-> CHOOSE i \in 1..Len(Queue) : Queue[i] = j]

\* Each job has one place.
LEMMA PlaceIs ==
  /\ \A j \in Jobs : Place[j] \in 1..Len(Queue) /\ Queue[Place[j]] = j
  /\ \A i \in 1..Len(Queue) : Queue[i] \in Jobs /\ Place[Queue[i]] = i
<1>1. \A j \in Jobs : Place[j] \in 1..Len(Queue) /\ Queue[Place[j]] = j
  BY JobsAre DEF Place
<1>2. \A i, k \in 1..Len(Queue) : Queue[i] = Queue[k] => i = k
  <2>1. DOMAIN Queue = 1..Len(Queue)
    BY JobsAre
  <2> QED BY <2>1, DispatchConstantsOK DEF IsInjective
<1>3. \A i \in 1..Len(Queue) : Queue[i] \in Jobs
  BY JobsAre
<1> QED BY <1>1, <1>2, <1>3

\* Ordered(S) has the jobs of S, each in its place.
LEMMA OrderedFacts ==
  ASSUME NEW S, S \subseteq Jobs
  PROVE  /\ Ordered(S) \in Seq(S)
         /\ \A j \in S : \E x \in 1..Len(Ordered(S)) : Ordered(S)[x] = j
         /\ \A x, y \in 1..Len(Ordered(S)) : x < y => Place[Ordered(S)[x]] < Place[Ordered(S)[y]]
<1> DEFINE e == [of |-> "keep", set |-> S]
           n == Len(Queue)
<1>1. n \in Nat /\ Queue \in Seq(Jobs) /\ \A i \in 1..n : Queue[i] \in Jobs /\ Place[Queue[i]] = i
  BY JobsAre, PlaceIs
<1>2. \A acc, j : FoldStep(e, acc, j) = IF j \in S THEN Append(acc, j) ELSE acc
  BY DEF FoldStep, KeepStep
<1>3. PICK w : IsWalk(w, e, Seq(S), <<>>, Queue)
  <2>1. <<>> \in Seq(S) /\ Queue \in Seq(Jobs)
    BY <1>1
  <2>2. \A acc \in Seq(S), j \in Jobs : FoldStep(e, acc, j) \in Seq(S)
    BY <1>2
  <2> HIDE DEF e
  <2> QED BY <2>1, <2>2, Walk, Zenon
<1> HIDE DEF e
<1>4. /\ w \in [0..n -> Seq(S)] /\ w[0] = <<>>
      /\ \A k \in 1..n : w[k] = FoldStep(e, w[k - 1], Queue[k])
      /\ Walked(e, <<>>, Queue) = w[n]
  BY <1>3 DEF IsWalk
<1> DEFINE Holds(k, s) ==
             /\ \A i \in 1..k : Queue[i] \in S => \E x \in 1..Len(s) : s[x] = Queue[i]
             /\ \A x, y \in 1..Len(s) : x < y => Place[s[x]] < Place[s[y]]
             /\ \A x \in 1..Len(s) : Place[s[x]] <= k
           G == {k \in 0..n : Holds(k, w[k])}
<1>5. 0 \in G
  BY <1>1, <1>4
<1>6. ASSUME NEW k \in 1..n, k - 1 \in G
      PROVE  k \in G
  <2> DEFINE s == w[k - 1]
             q == Queue[k]
  <2>1. s \in Seq(S) /\ k - 1 \in 0..n /\ k \in 0..n /\ k \in Nat
    BY <1>1, <1>4
  <2>2. w[k] = IF q \in S THEN Append(s, q) ELSE s
    BY <1>2, <1>4
  <2>3. Holds(k - 1, s)
    BY <1>6
  <2>4. \A x \in 1..Len(s) : s[x] \in Jobs /\ Place[s[x]] \in Nat
    BY <2>1, PlaceIs, <1>1
  <2>5. Place[q] = k
    BY <1>1
  <2>6. \A i \in 1..k : i = k \/ i \in 1..(k - 1)
    BY <2>1
  <2> HIDE DEF s
  <2>7. CASE q \notin S
    <3>1. w[k] = s
      BY <2>2, <2>7
    <3>2. Holds(k, s)
      <4> HIDE DEF q
      <4>1. \A i \in 1..k : Queue[i] \in S => \E x \in 1..Len(s) : s[x] = Queue[i]
        BY <2>3, <2>6, <2>7 DEF q
      <4>2. \A x \in 1..Len(s) : Place[s[x]] <= k
        BY <2>1, <2>3, <2>4
      <4> QED BY <2>3, <4>1, <4>2
    <3> QED BY <2>1, <3>1, <3>2
  <2>8. CASE q \in S
    <3> DEFINE t == Append(s, q)
    <3>1. w[k] = t
      BY <2>2, <2>8
    <3>2. Len(t) = Len(s) + 1 /\ t[Len(t)] = q /\ Len(s) \in Nat
          /\ \A x \in 1..Len(s) : t[x] = s[x] /\ x \in 1..Len(t)
      BY <2>1, <2>8
    <3>3. \A x \in 1..Len(t) : x = Len(t) \/ x \in 1..Len(s)
      BY <3>2
    <3> HIDE DEF t, q
    <3>4. \A i \in 1..k : Queue[i] \in S => \E x \in 1..Len(t) : t[x] = Queue[i]
      <4> TAKE i \in 1..k
      <4> HAVE Queue[i] \in S
      <4>1. CASE i = k
        <5>1. t[Len(t)] = Queue[i] /\ Len(t) \in 1..Len(t)
          BY <3>2, <4>1 DEF q
        <5> QED BY <5>1
      <4>2. CASE i \in 1..(k - 1)
        <5>1. PICK x \in 1..Len(s) : s[x] = Queue[i]
          BY <2>3, <4>2
        <5> QED BY <3>2, <5>1
      <4> QED BY <2>6, <4>1, <4>2
    <3>5. \A x \in 1..Len(t) : Place[t[x]] <= k
      <4> TAKE x \in 1..Len(t)
      <4>1. CASE x = Len(t)
        BY <2>1, <2>5, <3>2, <4>1
      <4>2. CASE x \in 1..Len(s)
        <5>1. t[x] = s[x] /\ Place[s[x]] <= k - 1 /\ Place[s[x]] \in Nat
          BY <2>3, <2>4, <3>2, <4>2
        <5> QED BY <2>1, <5>1
      <4> QED BY <3>3, <4>1, <4>2
    <3>6. \A x, y \in 1..Len(t) : x < y => Place[t[x]] < Place[t[y]]
      <4> TAKE x, y \in 1..Len(t)
      <4> HAVE x < y
      <4>1. x \in 1..Len(s) /\ t[x] = s[x]
        BY <3>2, <3>3
      <4>2. CASE y = Len(t)
        <5>1. Place[s[x]] <= k - 1 /\ Place[s[x]] \in Nat /\ Place[t[y]] = k
          BY <2>3, <2>4, <2>5, <3>2, <4>1, <4>2
        <5> QED BY <2>1, <4>1, <5>1
      <4>3. CASE y \in 1..Len(s)
        BY <2>3, <3>2, <4>1, <4>3
      <4> QED BY <3>3, <4>2, <4>3
    <3> QED BY <2>1, <3>1, <3>4, <3>5, <3>6
  <2> QED BY <2>7, <2>8
<1>7. n \in G
  <2>1. 0..n \subseteq G
    <3> HIDE DEF G
    <3> QED BY <1>1, <1>5, <1>6, UpTo
  <2> QED BY <1>1, <2>1
<1>8. Ordered(S) = w[n]
  BY <1>4, OrderedIs DEF e
<1>9. \A j \in S : \E i \in 1..n : Queue[i] = j
  BY JobsAre
<1>10. w[n] \in Seq(S)
  BY <1>1, <1>4
<1> QED BY <1>7, <1>8, <1>9, <1>10

-----------------------------------------------------------------------------
(* The choice of pools.                                                    *)

\* The least of some numbers is one of them.
LEMMA MinIs ==
  ASSUME NEW S, S \subseteq Nat, S # {}
  PROVE  Min(S) \in S /\ \A x \in S : Min(S) <= x
<1>1. \E x \in S : \A y \in S : x <= y
  BY LeastOf
<1> QED BY <1>1 DEF Min

\* The pool picked is a pin, or one of the pools; a preferred one can hold the job.
LEMMA PickGroupIs ==
  ASSUME TypeOK, NEW j \in Jobs, NEW placement, NEW price, NEW pending, NEW silent
  PROVE  LET g == PickGroup(j, placement, price, pending, silent)
         IN /\ g \in Groups /\ g # NoPool
            /\ ask[j].pin = NoPool => g \in Pools
            /\ (ask[j].pin = NoPool /\ g # Fallback) => GroupCanHold(g, placement, price, pending[g])
<1> DEFINE Able(g) == /\ ~GroupCooling(j, g)
                      /\ GroupCanHold(g, placement, price, pending[g])
                      /\ g \notin silent
           able == {i \in 1..Len(Preferred) : Able(Preferred[i])}
           g == PickGroup(j, placement, price, pending, silent)
<1>1. g = IF ask[j].pin # NoPool THEN ask[j].pin
          ELSE IF able = {} THEN Fallback ELSE Preferred[Min(able)]
  BY DEF PickGroup
<1>2. ask[j].pin \in Groups
  BY DEF TypeOK, Groups
<1>3. NoPool \notin Pools /\ Fallback \in Pools /\ Pools \subseteq Groups
  BY DispatchConstantsOK DEF Pools, Groups
<1>4. able # {} => Min(able) \in able
  <2>1. able \subseteq Nat
    OBVIOUS
  <2> HIDE DEF able
  <2> QED BY <2>1, MinIs
<1>5. able # {} => Min(able) \in 1..Len(Preferred) /\ Able(Preferred[Min(able)])
  BY <1>4
<1>6. able # {} => Preferred[Min(able)] \in Pools
  BY <1>5 DEF Pools, PreferredPools
<1> HIDE DEF able
<1> QED BY <1>1, <1>2, <1>3, <1>5, <1>6

\* Debits of each preferred pool, by generation.
Pending == [PreferredPools -> [Hosted -> Int]]

\* What waits is such.
LEMMA PendingIs ==
  ASSUME TypeOK
  PROVE  PendingByGroup \in Pending
<1>1. \A g \in PreferredPools, a \in Hosted :
        SumChips({j \in In("SUBMITTED") : row[j].pool = g /\ row[j].placement.arch = a}) \in Int
  <2> TAKE g \in PreferredPools, a \in Hosted
  <2>1. {j \in In("SUBMITTED") : row[j].pool = g /\ row[j].placement.arch = a} \subseteq Jobs
    BY DEF In
  <2>2. row \in [Jobs -> Rows]
    BY DEF TypeOK
  <2>3. SumChips({j \in In("SUBMITTED") : row[j].pool = g /\ row[j].placement.arch = a}) \in Nat
    BY <2>1, <2>2, SumChipsNat
  <2> QED BY <2>3
<1> QED BY <1>1 DEF PendingByGroup, Pending

\* And remains such.
LEMMA DebitGroupIs ==
  ASSUME NEW pending \in Pending, NEW g, NEW placement \in Placed
  PROVE  DebitGroup(pending, g, placement) \in Pending
<1> DEFINE a == placement.arch
           c == placement.chips
<1>1. c \in Int
  BY DEF Placed
<1> DEFINE new == [pending[g] EXCEPT ![a] = pending[g][a] + c]
<1>2. DebitGroup(pending, g, placement) = IF g = Fallback THEN pending ELSE [pending EXCEPT ![g] = new]
  BY Zenon DEF DebitGroup
<1> HIDE DEF a, c
<1>3. ASSUME g \in PreferredPools
      PROVE  new \in [Hosted -> Int]
  <2>1. pending[g] \in [Hosted -> Int]
    BY <1>3 DEF Pending
  <2> DEFINE f == pending[g]
  <2>2. f \in [Hosted -> Int] /\ new = [f EXCEPT ![a] = f[a] + c]
    BY <2>1
  <2> HIDE DEF f, new
  <2>3. a \in Hosted => f[a] + c \in Int
    BY <1>1, <2>2
  <2> QED BY <2>2, <2>3
<1> HIDE DEF new
<1>4. [pending EXCEPT ![g] = new] \in Pending
  BY <1>3 DEF Pending
<1> QED BY <1>2, <1>4

\* What Picks accumulates.
Picked == [pool : [Jobs -> Groups], pending : Pending]

\* The pool it picks next.
Pool(acc, j, plan, m, silent) == PickGroup(j, plan[j], m.price[PairOf(plan[j])], acc.pending, silent)

\* The walk of Picks, field by field.
IsPickWalk(w, order, plan, m, silent) ==
  /\ w \in [0..Len(order) -> Picked]
  /\ w[0] = [pool |-> [j \in Jobs |-> NoPool], pending |-> PendingByGroup]
  /\ \A k \in 1..Len(order) :
       LET j == order[k]
           g == Pool(w[k - 1], j, plan, m, silent)
       IN /\ w[k].pool = [w[k - 1].pool EXCEPT ![j] = g]
          /\ w[k].pending = DebitGroup(w[k - 1].pending, g, plan[j])
  /\ Picks(order, plan, m, silent) = w[Len(order)].pool

\* There is one.
LEMMA PickWalk ==
  ASSUME TypeOK, NEW D, D \subseteq Jobs, NEW order \in Seq(D), NEW plan, NEW m, NEW silent,
         \A j \in D : plan[j] \in Placed
  PROVE  \E w : IsPickWalk(w, order, plan, m, silent)
<1> DEFINE e == [of |-> "pick", plan |-> plan, m |-> m, silent |-> silent]
           base == [pool |-> [j \in Jobs |-> NoPool], pending |-> PendingByGroup]
           n == Len(order)
           G(acc, j) == Pool(acc, j, plan, m, silent)
<1>1. n \in Nat /\ \A i \in 1..n : order[i] \in D
  OBVIOUS
<1>2. \A acc, j : FoldStep(e, acc, j) = [pool |-> [acc.pool EXCEPT ![j] = G(acc, j)],
                                         pending |-> DebitGroup(acc.pending, G(acc, j), plan[j])]
  BY DEF FoldStep, PickStep, Pool
<1>3. \A acc, j : j \in Jobs => G(acc, j) \in Groups
  BY PickGroupIs DEF Pool
<1> HIDE DEF e, G
<1>4. base \in Picked
  BY PendingIs DEF Groups, Picked
<1>5. \A acc \in Picked, j \in D : FoldStep(e, acc, j) \in Picked
  <2> TAKE acc \in Picked, j \in D
  <2> DEFINE x == [acc.pool EXCEPT ![j] = G(acc, j)]
             y == DebitGroup(acc.pending, G(acc, j), plan[j])
  <2>1. x \in [Jobs -> Groups]
    BY <1>3 DEF Picked
  <2>2. y \in Pending
    BY DebitGroupIs DEF Picked
  <2>3. FoldStep(e, acc, j) = [pool |-> x, pending |-> y]
    BY <1>2, Zenon
  <2> HIDE DEF x, y
  <2> QED BY <2>1, <2>2, <2>3 DEF Picked
<1>6. PICK w : IsWalk(w, e, Picked, base, order)
  <2> HIDE DEF base
  <2> QED BY <1>4, <1>5, Walk, Zenon
<1>7. /\ w \in [0..n -> Picked] /\ w[0] = base
      /\ \A k \in 1..n : w[k] = FoldStep(e, w[k - 1], order[k])
      /\ Walked(e, base, order) = w[n]
  BY <1>6 DEF IsWalk
<1>8. ASSUME NEW k \in 1..n
      PROVE  /\ w[k].pool = [w[k - 1].pool EXCEPT ![order[k]] = G(w[k - 1], order[k])]
             /\ w[k].pending = DebitGroup(w[k - 1].pending, G(w[k - 1], order[k]), plan[order[k]])
  <2> DEFINE x == [w[k - 1].pool EXCEPT ![order[k]] = G(w[k - 1], order[k])]
             y == DebitGroup(w[k - 1].pending, G(w[k - 1], order[k]), plan[order[k]])
  <2>1. w[k] = [pool |-> x, pending |-> y]
    BY <1>2, <1>7, Zenon
  <2> HIDE DEF x, y
  <2>2. w[k].pool = x /\ w[k].pending = y
    BY <2>1
  <2> QED BY <2>2 DEF x, y
<1>9. Picks(order, plan, m, silent) = w[n].pool
  BY <1>7, PicksIs DEF e
<1>10. IsPickWalk(w, order, plan, m, silent)
  BY <1>7, <1>8, <1>9 DEF IsPickWalk, G
<1> QED BY <1>10

\* Every job of the order has a pool.
LEMMA PicksFacts ==
  ASSUME TypeOK, NEW D, D \subseteq Jobs, NEW order \in Seq(D), NEW plan, NEW m, NEW silent,
         \A j \in D : plan[j] \in Placed
  PROVE  LET pools == Picks(order, plan, m, silent)
         IN /\ pools \in [Jobs -> Groups]
            /\ \A i \in 1..Len(order) : pools[order[i]] # NoPool
<1> DEFINE n == Len(order)
           G(acc, j) == Pool(acc, j, plan, m, silent)
<1>1. n \in Nat /\ \A i \in 1..n : order[i] \in Jobs
  OBVIOUS
<1>2. PICK w : IsPickWalk(w, order, plan, m, silent)
  BY PickWalk
<1>3. /\ w \in [0..n -> Picked] /\ Picks(order, plan, m, silent) = w[n].pool
      /\ \A k \in 1..n : w[k].pool = [w[k - 1].pool EXCEPT ![order[k]] = G(w[k - 1], order[k])]
  BY <1>2 DEF IsPickWalk
<1>4. \A acc, j : j \in Jobs => G(acc, j) # NoPool
  BY PickGroupIs DEF Pool
<1> HIDE DEF G
<1> DEFINE Right == {k \in 0..n : \A i \in 1..k : w[k].pool[order[i]] # NoPool}
<1>5. 0 \in Right
  BY <1>1
<1>6. ASSUME NEW k \in 1..n, k - 1 \in Right
      PROVE  k \in Right
  <2>1. k - 1 \in 0..n /\ k \in 0..n /\ order[k] \in Jobs
    BY <1>1
  <2>2. w[k - 1].pool \in [Jobs -> Groups]
    BY <1>3, <2>1 DEF Picked
  <2>3. G(w[k - 1], order[k]) # NoPool
    BY <1>4, <2>1
  <2>4. \A i \in 1..k : i = k \/ i \in 1..(k - 1)
    BY <2>1
  <2>5. \A i \in 1..k : order[i] \in Jobs
    BY <1>1
  <2>6. \A i \in 1..(k - 1) : w[k - 1].pool[order[i]] # NoPool
    BY <1>6
  <2> QED BY <1>3, <2>1, <2>2, <2>3, <2>4, <2>5, <2>6
<1>7. n \in Right
  <2>1. 0..n \subseteq Right
    <3> HIDE DEF Right
    <3> QED BY <1>1, <1>5, <1>6, UpTo
  <2> QED BY <1>1, <2>1
<1>8. w[n] \in Picked
  BY <1>1, <1>3
<1> QED BY <1>3, <1>7, <1>8 DEF Picked

-----------------------------------------------------------------------------
(* The budget of a round.                                                  *)

\* Only jobs of the order are admitted.
LEMMA AdmittedOnly ==
  ASSUME NEW D, D \subseteq Jobs, NEW order \in Seq(D), NEW exempt, NEW charge,
         \A j \in D : charge[j] \in Int, Headroom \in Int
  PROVE  PlanDispatch(order, exempt, charge) \subseteq {order[i] : i \in 1..Len(order)}
<1> DEFINE e == [of |-> "decide", exempt |-> exempt, charge |-> charge]
           base == [left |-> Headroom, admitted |-> {}]
           R == {order[i] : i \in 1..Len(order)}
           A == [left : Int, admitted : SUBSET R]
           n == Len(order)
<1>1. \A acc, j : FoldStep(e, acc, j) =
        IF exempt[j] \/ charge[j] <= acc.left
        THEN [left |-> acc.left - charge[j], admitted |-> acc.admitted \cup {j}] ELSE acc
  BY DEF FoldStep, DecideStep, Debited
<1> HIDE DEF e
<1>2. PICK w : IsWalk(w, e, A, base, order)
  <2>1. base \in A
    OBVIOUS
  <2>2. \A acc \in A, j \in R : FoldStep(e, acc, j) \in A
    BY <1>1
  <2>3. order \in Seq(R)
    OBVIOUS
  <2> HIDE DEF A, base, R
  <2> QED BY <2>1, <2>2, <2>3, Walk, Zenon
<1>3. w[n] \in A /\ Walked(e, base, order) = w[n]
  BY <1>2 DEF IsWalk
<1>4. PlanDispatch(order, exempt, charge) = w[n].admitted
  BY <1>3, PlanDispatchIs DEF e
<1> QED BY <1>3, <1>4

\* What each job costs.
CostOf == [j \in Jobs |-> Cost(row[j].placement)]

\* The jobs that count against the bar.
Paying == {j \in In("SUBMITTED") \cup In("RUNNING") : row[j].pool = Fallback}

\* Spend is a sum.
LEMMA SpendIs == Spend = Sum(CostOf, Paying)
<1> DEFINE S == Paying
           P(g) == g = [s \in SUBSET S |-> IF s = {} THEN 0
                        ELSE Cost(row[CHOOSE x \in s : TRUE].placement) + g[s \ {CHOOSE x \in s : TRUE}]]
           Q(g) == g = [s \in SUBSET S |-> IF s = {} THEN 0
                        ELSE CostOf[CHOOSE x \in s : TRUE] + g[s \ {CHOOSE x \in s : TRUE}]]
<1>1. Spend = (CHOOSE g : P(g))[S] /\ Sum(CostOf, S) = (CHOOSE g : Q(g))[S]
  BY DEF Spend, Paying, Sum, MapThenSumSet, MapThenFoldSet
<1>2. \A g : P(g) <=> Q(g)
  <2>1. \A j \in S : CostOf[j] = Cost(row[j].placement)
    BY DEF Paying, In, CostOf
  <2>2. \A s \in SUBSET S : s # {} =>
          CostOf[CHOOSE x \in s : TRUE] = Cost(row[CHOOSE x \in s : TRUE].placement)
    BY <2>1
  <2> TAKE g
  <2> HIDE DEF S
  <2>3. [s \in SUBSET S |-> IF s = {} THEN 0
           ELSE Cost(row[CHOOSE x \in s : TRUE].placement) + g[s \ {CHOOSE x \in s : TRUE}]]
      = [s \in SUBSET S |-> IF s = {} THEN 0
           ELSE CostOf[CHOOSE x \in s : TRUE] + g[s \ {CHOOSE x \in s : TRUE}]]
    BY <2>2
  <2> QED BY <2>3
<1>3. (CHOOSE g : P(g)) = (CHOOSE g : Q(g))
  <2> HIDE DEF P, Q
  <2> QED BY <1>2, Zenon
<1> QED BY <1>1, <1>3

\* A cost is an integer, and not negative where the price is quoted.
LEMMA CostInt ==
  ASSUME NEW placement \in Placed
  PROVE  /\ Cost(placement) \in Int
         /\ Quoted(ArchPrice[placement.arch]) => Cost(placement) \in Nat
<1>1. placement.chips \in Nat /\ ArchPrice[placement.arch] \in Price
  BY DispatchConstantsOK DEF Placed
<1> DEFINE c == placement.chips
           p == ArchPrice[placement.arch]
<1>2. c \in Nat /\ p \in Price /\ Cost(placement) = c * p
  BY <1>1 DEF Cost
<1> HIDE DEF c, p
<1>3. c * p \in Int
  BY <1>2 DEF Price, NoPrice
<1>4. Quoted(p) => c * p \in Nat
  BY <1>2 DEF Price, Quoted
<1> QED BY <1>2, <1>3, <1>4 DEF p

\* A job that pays has a placement.
LEMMA PayingIs ==
  ASSUME TypeOK, Seated, NEW j \in Paying
  PROVE  j \in Jobs /\ row[j].placement \in Placed /\ PairOf(row[j].placement) \in Pairs
         /\ CostOf[j] = Cost(row[j].placement)
<1>1. j \in Jobs /\ row[j].st \in {"SUBMITTED", "RUNNING"}
  BY DEF Paying, In
<1>2. row[j].placement # NoPlacement /\ PairOf(row[j].placement) \in Pairs
  BY <1>1 DEF Seated
<1> QED BY <1>1, <1>2 DEF TypeOK, Rows, Placements, CostOf

\* So the headroom is an integer.
LEMMA HeadroomInt ==
  ASSUME TypeOK, Seated
  PROVE  Spend \in Int /\ Headroom \in Int
<1>1. Paying \subseteq Jobs
  BY DEF Paying, In
<1>2. IsFiniteSet(Paying)
  BY <1>1, JobsAre, FS_Subset
<1>3. \A j \in Paying : CostOf[j] \in Int
  BY PayingIs, CostInt
<1>4. Spend \in Int
  BY <1>2, <1>3, SumInt, SpendIs
<1> QED BY <1>4, DispatchConstantsOK DEF Headroom

-----------------------------------------------------------------------------
(* A round.                                                                *)

\* A round's parts: the jobs it takes up, their order, the pools, and what is held
\* against the headroom.
IsRound(m, silent, S, order, pools, exempt, charge) ==
  /\ silent \in (IF "probe" \in Faults THEN SUBSET Pools ELSE {{}})
  /\ S = {j \in Waiting : Plans(m)[j] # NoPlacement} /\ S \subseteq Jobs
  /\ order = Ordered(S) /\ order \in Seq(S)
  /\ pools = Picks(order, Plans(m), m, silent) /\ pools \in [Jobs -> Groups]
  /\ \A i \in 1..Len(order) : pools[order[i]] # NoPool
  /\ exempt = [j \in Jobs |-> Exempt(pools[j], silent)]
  /\ charge = [j \in Jobs |-> Charge(pools[j], Plans(m)[j], silent)]
  /\ \A j \in S : Plans(m)[j] = PlanOne(ask[j], memory[j], m) /\ Plans(m)[j] \in Placed
                  /\ m = Market /\ charge[j] \in Int
  /\ PlanDispatch(order, exempt, charge) \subseteq {order[i] : i \in 1..Len(order)}
  /\ row' = IF Backpressure THEN Decided(<<>>, pools, {})
            ELSE Decided(order, pools, PlanDispatch(order, exempt, charge))

\* Every round has them.
LEMMA RoundIs ==
  ASSUME TypeOK, Seated, NEW m \in Fetches, Dispatch(m)
  PROVE  \E silent, S, order, pools, exempt, charge :
           IsRound(m, silent, S, order, pools, exempt, charge)
<1> DEFINE plan == Plans(m)
           S == {j \in Waiting : plan[j] # NoPlacement}
           order == Ordered(S)
<1>1. PICK silent \in (IF "probe" \in Faults THEN SUBSET Pools ELSE {{}}) :
        LET pools == Picks(order, plan, m, silent)
            exempt == [j \in Jobs |-> Exempt(pools[j], silent)]
            charge == [j \in Jobs |-> Charge(pools[j], plan[j], silent)]
        IN row' = IF Backpressure THEN Decided(<<>>, pools, {})
                  ELSE Decided(order, pools, PlanDispatch(order, exempt, charge))
  BY Zenon DEF Dispatch
<1> DEFINE pools == Picks(order, plan, m, silent)
           exempt == [j \in Jobs |-> Exempt(pools[j], silent)]
           charge == [j \in Jobs |-> Charge(pools[j], plan[j], silent)]
<1>2. S \subseteq Jobs /\ S \in SUBSET Waiting
  BY DEF Waiting, In
<1>3. \A j \in S : plan[j] = PlanOne(ask[j], memory[j], m) /\ plan[j] \in Placed /\ m = Market
  <2> TAKE j \in S
  <2>1. plan[j] = PlanOne(ask[j], memory[j], m) /\ plan[j] # NoPlacement /\ j \in Jobs
    BY <1>2 DEF Plans
  <2>2. m = Market
    BY <2>1, PlanFetched
  <2>3. MarketOK(m) /\ MemoryOK(memory[j])
    BY <2>1, <2>2, MarketIs, MemoryOKIs
  <2> QED BY <2>1, <2>2, <2>3, PlanOneIs
<1>4. order \in Seq(S)
  <2> HIDE DEF S
  <2> QED BY <1>2, OrderedFacts
<1>5. pools \in [Jobs -> Groups] /\ \A i \in 1..Len(order) : pools[order[i]] # NoPool
  <2> HIDE DEF S, order, plan
  <2> QED BY <1>2, <1>3, <1>4, PicksFacts
<1>6. \A j \in S : charge[j] \in Int
  <2> TAKE j \in S
  <2>1. charge[j] = Charge(pools[j], plan[j], silent)
    BY <1>2
  <2>2. Cost(plan[j]) \in Int
    BY <1>3, CostInt
  <2> QED BY <2>1, <2>2 DEF Charge
<1>7. PlanDispatch(order, exempt, charge) \subseteq {order[i] : i \in 1..Len(order)}
  <2> HIDE DEF S, order, exempt, charge
  <2> QED BY <1>2, <1>4, <1>6, HeadroomInt, AdmittedOnly
<1> HIDE DEF S, order, pools, exempt, charge, plan
<1>8. row' = IF Backpressure THEN Decided(<<>>, pools, {})
             ELSE Decided(order, pools, PlanDispatch(order, exempt, charge))
  BY <1>1 DEF S, order, pools, exempt, charge, plan
<1>9. /\ S = {j \in Waiting : Plans(m)[j] # NoPlacement} /\ order = Ordered(S)
      /\ pools = Picks(order, Plans(m), m, silent)
      /\ exempt = [j \in Jobs |-> Exempt(pools[j], silent)]
      /\ charge = [j \in Jobs |-> Charge(pools[j], Plans(m)[j], silent)]
  BY DEF S, order, pools, exempt, charge, plan
<1>10. \A j \in S : Plans(m)[j] = PlanOne(ask[j], memory[j], m) /\ Plans(m)[j] \in Placed
                    /\ m = Market /\ charge[j] \in Int
  BY <1>3, <1>6 DEF plan
<1>11. IsRound(m, silent, S, order, pools, exempt, charge)
  BY <1>1, <1>2, <1>4, <1>5, <1>7, <1>8, <1>9, <1>10, Zenon DEF IsRound
<1> QED BY <1>11

\* What a round decides keeps the placements, and gives a pool to each job it sends.
LEMMA DecidedIs ==
  ASSUME TypeOK, Seated, NEW S, S \subseteq Waiting, NEW order \in Seq(S), NEW pools \in [Jobs -> Groups],
         \A i \in 1..Len(order) : pools[order[i]] # NoPool,
         NEW admitted, admitted \subseteq {order[i] : i \in 1..Len(order)}
  PROVE  LET to == Decided(order, pools, admitted)
         IN /\ to \in [Jobs -> Rows]
            /\ \A j \in Jobs :
                 /\ to[j].placement = row[j].placement
                 /\ to[j].st \in {"SUBMITTED", "RUNNING"} <=> row[j].st \in {"SUBMITTED", "RUNNING"}
                 /\ to[j].st = "BUILD_REQUESTED" => to[j].pool # NoPool
<1> DEFINE R == {order[i] : i \in 1..Len(order)}
           to == Decided(order, pools, admitted)
           New(j) == IF j \in admitted THEN [row[j] EXCEPT !.st = "BUILD_REQUESTED", !.pool = pools[j]]
                     ELSE IF j \in R THEN [row[j] EXCEPT !.st = "BUDGET_DEFERRED"]
                     ELSE IF j \in Waiting THEN [row[j] EXCEPT !.st = "QUEUED"]
                     ELSE row[j]
<1>1. to = [j \in Jobs |-> New(j)]
  BY DEF Decided
<1>2. admitted \subseteq R /\ R \subseteq Waiting
  OBVIOUS
<1>3. \A j \in Waiting : j \in Jobs /\ row[j].st \in {"QUEUED", "BUDGET_DEFERRED"}
  BY DEF Waiting, In
<1>4. \A j \in R : pools[j] # NoPool
  OBVIOUS
<1> SUFFICES ASSUME NEW j \in Jobs
             PROVE  /\ to[j] \in Rows /\ to[j].placement = row[j].placement
                    /\ to[j].st \in {"SUBMITTED", "RUNNING"} <=> row[j].st \in {"SUBMITTED", "RUNNING"}
                    /\ to[j].st = "BUILD_REQUESTED" => to[j].pool # NoPool
  <2> HIDE DEF New
  <2> QED BY <1>1
<1>5. to[j] = New(j)
  <2> HIDE DEF New
  <2> QED BY <1>1
<1>6. row[j] \in Rows /\ pools[j] \in Groups
  BY DEF TypeOK
<1> HIDE DEF to, R
<1>7. CASE j \in admitted
  <2>1. row[j].st \in {"QUEUED", "BUDGET_DEFERRED"} /\ pools[j] # NoPool
    BY <1>2, <1>3, <1>4, <1>7
  <2> QED BY <1>5, <1>6, <1>7, <2>1 DEF Rows, States
<1>8. CASE j \in R /\ j \notin admitted
  <2>1. row[j].st \in {"QUEUED", "BUDGET_DEFERRED"}
    BY <1>2, <1>3, <1>8
  <2> QED BY <1>5, <1>6, <1>8, <2>1 DEF Rows, States
<1>9. CASE j \in Waiting /\ j \notin R
  <2>1. row[j].st \in {"QUEUED", "BUDGET_DEFERRED"}
    BY <1>3, <1>9
  <2> QED BY <1>2, <1>5, <1>6, <1>9, <2>1 DEF Rows, States
<1>10. CASE j \notin Waiting
  <2>1. to[j] = row[j]
    BY <1>2, <1>5, <1>10
  <2> QED BY <1>6, <2>1 DEF Seated
<1> QED BY <1>2, <1>7, <1>8, <1>9, <1>10

\* What a placement has to be.
Rightly(j, placement) ==
  /\ placement \in Placed /\ PairOf(placement) \in Pairs
  /\ Remember(ask[j], memory[j], placement) \in Memories
  /\ ask[j].locked =>
       /\ Mesh([arch |-> placement.arch, chips |-> placement.chips]) = Mesh(ask[j].power)
       /\ Remember(ask[j], memory[j], placement).mesh \in {NoMesh, Mesh(ask[j].power)}

\* A plan is such.
LEMMA PlannedRightly ==
  ASSUME TypeOK, LockKept, NEW j \in Jobs, NEW m, MarketOK(m), PlanOne(ask[j], memory[j], m) # NoPlacement
  PROVE  Rightly(j, PlanOne(ask[j], memory[j], m))
<1> DEFINE placement == PlanOne(ask[j], memory[j], m)
           mem == memory[j]
           a == ask[j]
<1>1. PICK s \in CandidateShapes(a, mem.mesh) : \E p \in Placeable(a, s, m) :
           /\ placement = [cell |-> p.cell, arch |-> s.arch, chips |-> s.chips]
           /\ PairOf(placement) = p /\ placement \in Placed
  BY MemoryOKIs, PlanOneIs
<1>2. placement.arch = s.arch /\ placement.chips = s.chips /\ s \in Shapes /\ placement \in Placed
      /\ PairOf(placement) \in Pairs
  BY <1>1, CandidatesAre DEF Placeable
<1>3. s = [arch |-> placement.arch, chips |-> placement.chips] /\ s.chips \in Nat
  BY <1>2, ShapesAre
<1>4. Mesh(s) \in Meshes
  BY <1>3 DEF Mesh, Meshes
<1>5. mem \in Memories
  BY DEF TypeOK
<1> HIDE DEF placement, mem, a
<1>6. Remember(a, mem, placement) \in Memories
  BY <1>3, <1>4, <1>5 DEF Remember, Memories
<1>7. ASSUME a.locked
      PROVE  Mesh(s) = Mesh(a.power) /\ Remember(a, mem, placement).mesh \in {NoMesh, Mesh(a.power)}
  <2>1. mem.mesh \in {NoMesh, Mesh(a.power)}
    BY <1>7 DEF LockKept, mem, a
  <2>2. Mesh(s) = LockedMesh(a, mem.mesh)
    BY <1>1, <1>7 DEF CandidateShapes
  <2>3. Mesh(s) = Mesh(a.power)
    BY <2>1, <2>2 DEF LockedMesh
  <2>4. Remember(a, mem, placement).mesh \in {mem.mesh, Mesh(s)}
    BY <1>3, <1>5 DEF Remember, Memories
  <2> QED BY <2>1, <2>3, <2>4
<1>8. Rightly(j, placement)
  BY <1>2, <1>3, <1>6, <1>7 DEF Rightly, mem, a
<1> QED BY <1>8 DEF placement

-----------------------------------------------------------------------------
(* The invariant is inductive.                                             *)

\* The invariant holds at first.
LEMMA Starts == Init => IInv
<1> SUFFICES ASSUME Init PROVE IInv
  OBVIOUS
<1>1. \A j \in Jobs : row[j] = [st |-> "QUEUED", placement |-> NoPlacement, pool |-> NoPool]
  BY DEF Init
<1>2. \A j \in Jobs : memory[j] = [mesh |-> NoMesh, pairs |-> Fresh.pairs, evictions |-> Fresh.evictions,
                                   pools |-> [g \in Pools |-> 0]]
  BY DEF Init
<1>3. Fresh.pairs \in PairMemories /\ Fresh.evictions \in Evictions
  BY DEF Fresh, PairMemories, Evictions
<1>4. row \in [Jobs -> Rows]
  BY <1>1 DEF Init, Rows, States, Placements, Groups
<1>5. memory \in [Jobs -> Memories]
  BY <1>2, <1>3 DEF Init, Memories, Meshes
<1>6. mood \in [Pairs -> Moods] /\ missing \subseteq Hosted /\ quota \in [PreferredPools -> Quotas]
  BY DEF Init, Moods, Quotas
<1>7. TypeOK
  BY <1>4, <1>5, <1>6 DEF Init, TypeOK
<1>8. Seated /\ MeshKept
  BY <1>1 DEF Seated, MeshKept
<1>9. LockKept
  BY <1>2 DEF LockKept
<1> QED BY <1>7, <1>8, <1>9 DEF IInv

\* A step that only changes rows, and no placement, keeps it.
LEMMA SamePlacements ==
  ASSUME IInv, UNCHANGED <<mode, ask, memory, mood, missing, quota>>, row' \in [Jobs -> Rows],
         \A j \in Jobs :
           /\ row'[j].placement = row[j].placement
           /\ row'[j].st \in {"SUBMITTED", "RUNNING"} <=> row[j].st \in {"SUBMITTED", "RUNNING"}
           /\ row'[j].st = "BUILD_REQUESTED" => row'[j].pool # NoPool
  PROVE  IInv'
<1>1. TypeOK'
  BY DEF IInv, TypeOK
<1>2. Seated'
  BY DEF IInv, Seated
<1>3. LockKept' /\ MeshKept'
  BY DEF IInv, LockKept, MeshKept
<1> QED BY <1>1, <1>2, <1>3 DEF IInv

\* So does a round.
LEMMA DispatchStep ==
  ASSUME IInv, NEW m \in Fetches, Dispatch(m)
  PROVE  IInv'
<1>1. TypeOK /\ Seated
  BY DEF IInv
<1>2. PICK silent, S, order, pools, exempt, charge : IsRound(m, silent, S, order, pools, exempt, charge)
  BY <1>1, RoundIs
<1>3. /\ S \subseteq Waiting /\ order \in Seq(S) /\ pools \in [Jobs -> Groups]
      /\ \A i \in 1..Len(order) : pools[order[i]] # NoPool
      /\ PlanDispatch(order, exempt, charge) \subseteq {order[i] : i \in 1..Len(order)}
      /\ row' = IF Backpressure THEN Decided(<<>>, pools, {})
                ELSE Decided(order, pools, PlanDispatch(order, exempt, charge))
  BY <1>2 DEF IsRound
<1>4. row' \in [Jobs -> Rows]
      /\ \A j \in Jobs :
           /\ row'[j].placement = row[j].placement
           /\ row'[j].st \in {"SUBMITTED", "RUNNING"} <=> row[j].st \in {"SUBMITTED", "RUNNING"}
           /\ row'[j].st = "BUILD_REQUESTED" => row'[j].pool # NoPool
  <2>1. CASE Backpressure
    <3> DEFINE o == <<>>
               none == {}
    <3>1. o \in Seq(S) /\ \A i \in 1..Len(o) : pools[o[i]] # NoPool
      OBVIOUS
    <3>2. none \subseteq {o[i] : i \in 1..Len(o)}
      OBVIOUS
    <3>3. row' = Decided(o, pools, none)
      BY <1>3, <2>1
    <3> HIDE DEF o, none
    <3> QED BY <1>1, <1>3, <3>1, <3>2, <3>3, DecidedIs
  <2>2. CASE ~Backpressure
    <3> DEFINE admitted == PlanDispatch(order, exempt, charge)
    <3>1. row' = Decided(order, pools, admitted) /\ admitted \subseteq {order[i] : i \in 1..Len(order)}
      BY <1>3, <2>2
    <3> HIDE DEF admitted
    <3> QED BY <1>1, <1>3, <3>1, DecidedIs
  <2> QED BY <2>1, <2>2
<1>5. UNCHANGED <<mode, ask, memory, mood, missing, quota>>
  BY DEF Dispatch
<1> QED BY <1>4, <1>5, SamePlacements

\* What one job's placement does.
LEMMA PlacedStep ==
  ASSUME IInv, NEW j \in Jobs, NEW placement, Rightly(j, placement),
         row'[j].placement = placement, row'[j].st = "SUBMITTED", row'[j] \in Rows,
         memory'[j] = Remember(ask[j], memory[j], placement), ask' = ask
  PROVE  /\ memory'[j] \in Memories
         /\ row'[j].placement # NoPlacement /\ PairOf(row'[j].placement) \in Pairs
         /\ ask'[j].locked => /\ memory'[j].mesh \in {NoMesh, Mesh(ask'[j].power)}
                              /\ Mesh([arch |-> row'[j].placement.arch, chips |-> row'[j].placement.chips])
                                   = Mesh(ask'[j].power)
<1>1. placement # NoPlacement
  BY ArchsAre DEF Rightly, Placed, NoPlacement
<1> QED BY <1>1 DEF Rightly

\* The step places the jobs of P, and leaves the others.
PlacesOnly(P, to) ==
  /\ P \subseteq Jobs
  /\ row' = [j \in Jobs |-> row'[j]] /\ memory' = [j \in Jobs |-> memory'[j]]
  /\ \A j \in P : /\ Rightly(j, to[j])
                  /\ row'[j] \in Rows /\ row'[j].placement = to[j] /\ row'[j].st = "SUBMITTED"
                  /\ memory'[j] = Remember(ask[j], memory[j], to[j])
  /\ \A j \in Jobs \ P : row'[j] = row[j] /\ memory'[j] = memory[j]

\* Such a step keeps the invariant.
LEMMA Placing ==
  ASSUME IInv, UNCHANGED <<mode, ask, mood, missing, quota>>, NEW P, NEW to, PlacesOnly(P, to)
  PROVE  IInv'
<1>1. /\ P \subseteq Jobs
      /\ row' = [j \in Jobs |-> row'[j]] /\ memory' = [j \in Jobs |-> memory'[j]]
      /\ \A j \in P : /\ Rightly(j, to[j])
                      /\ row'[j] \in Rows /\ row'[j].placement = to[j] /\ row'[j].st = "SUBMITTED"
                      /\ memory'[j] = Remember(ask[j], memory[j], to[j])
      /\ \A j \in Jobs \ P : row'[j] = row[j] /\ memory'[j] = memory[j]
  BY DEF PlacesOnly
<1>2. ASSUME NEW j \in P
      PROVE  /\ memory'[j] \in Memories
             /\ row'[j].placement # NoPlacement /\ PairOf(row'[j].placement) \in Pairs
             /\ ask'[j].locked =>
                  /\ memory'[j].mesh \in {NoMesh, Mesh(ask'[j].power)}
                  /\ Mesh([arch |-> row'[j].placement.arch, chips |-> row'[j].placement.chips])
                       = Mesh(ask'[j].power)
  <2>1. j \in Jobs /\ Rightly(j, to[j])
    BY <1>1
  <2> QED BY <1>1, <2>1, PlacedStep
<1>3. \A j \in Jobs : row'[j] \in Rows /\ memory'[j] \in Memories
  BY <1>1, <1>2 DEF IInv, TypeOK
<1>4. TypeOK'
  BY <1>1, <1>3 DEF IInv, TypeOK
<1>5. Seated'
  BY <1>1, <1>2 DEF IInv, Seated
<1>6. LockKept' /\ MeshKept'
  BY <1>1, <1>2 DEF IInv, LockKept, MeshKept
<1> QED BY <1>4, <1>5, <1>6 DEF IInv

\* The first of some jobs is one of them.
LEMMA FirstOf ==
  ASSUME NEW S, S \subseteq Jobs, S # {}
  PROVE  Ordered(S)[1] \in S
<1>1. Ordered(S) \in Seq(S) /\ \E x \in 1..Len(Ordered(S)) : TRUE
  BY OrderedFacts
<1> DEFINE o == Ordered(S)
<1>2. o \in Seq(S) /\ Len(o) >= 1
  BY <1>1
<1> HIDE DEF o
<1>3. o[1] \in S
  BY <1>2
<1> QED BY <1>3 DEF o

\* So does a build.
LEMMA BuildStep ==
  ASSUME IInv, NEW m \in Fetches, Build(m)
  PROVE  IInv'
<1>1. TypeOK /\ Seated /\ LockKept /\ UNCHANGED <<mode, ask, mood, missing, quota>>
  BY DEF IInv, Build
<1> DEFINE j == Ordered(In("BUILD_REQUESTED"))[1]
           placement == PlanOne(ask[j], memory[j], m)
<1>2. j \in Jobs /\ row[j].st = "BUILD_REQUESTED" /\ row \in [Jobs -> Rows] /\ memory \in [Jobs -> Memories]
  <2>1. In("BUILD_REQUESTED") \subseteq Jobs /\ In("BUILD_REQUESTED") # {}
    BY DEF In, Build
  <2>2. j \in In("BUILD_REQUESTED")
    BY <2>1, FirstOf
  <2> QED BY <1>1, <2>2 DEF In, TypeOK
<1>3. \/ row' = [row EXCEPT ![j].st = "QUEUED"] /\ memory' = memory
      \/ row' = [row EXCEPT ![j].st = "BUDGET_DEFERRED"] /\ memory' = memory
      \/ /\ placement # NoPlacement
         /\ row' = [row EXCEPT ![j] = Submitted(j, placement)]
         /\ memory' = [memory EXCEPT ![j] = Remember(ask[j], @, placement)]
  BY Zenon DEF Build
<1>4. m = Market => MarketOK(m)
  BY <1>1, MarketIs
<1>5. placement # NoPlacement => Rightly(j, placement)
  <2> HIDE DEF j
  <2> QED BY <1>1, <1>2, <1>4, PlanFetched, PlannedRightly
<1> HIDE DEF j, placement
<1>6. ASSUME NEW st \in {"QUEUED", "BUDGET_DEFERRED"}, row' = [row EXCEPT ![j].st = st], memory' = memory
      PROVE  IInv'
  <2>1. row' \in [Jobs -> Rows]
    BY <1>2, <1>6 DEF Rows, States
  <2>2. \A i \in Jobs :
           /\ row'[i].placement = row[i].placement
           /\ row'[i].st \in {"SUBMITTED", "RUNNING"} <=> row[i].st \in {"SUBMITTED", "RUNNING"}
           /\ row'[i].st = "BUILD_REQUESTED" => row'[i].pool # NoPool
    BY <1>1, <1>2, <1>6 DEF Rows, Seated
  <2> QED BY <1>1, <1>6, <2>1, <2>2, SamePlacements
<1>7. ASSUME placement # NoPlacement,
             row' = [row EXCEPT ![j] = Submitted(j, placement)],
             memory' = [memory EXCEPT ![j] = Remember(ask[j], memory[j], placement)]
      PROVE  IInv'
  <2> DEFINE P == {j}
             to == [i \in P |-> placement]
  <2>1. \A i \in P : Rightly(i, to[i])
    BY <1>5, <1>7
  <2>2. row'[j] = Submitted(j, placement) /\ memory'[j] = Remember(ask[j], memory[j], placement)
    BY <1>2, <1>7
  <2>3. Submitted(j, placement) \in Rows /\ Submitted(j, placement).placement = placement
        /\ Submitted(j, placement).st = "SUBMITTED"
    <3>1. placement \in Placements
      BY <1>5, <1>7 DEF Rightly, Placements
    <3>2. row[j] \in Rows
      BY <1>2
    <3> QED BY <3>1, <3>2 DEF Submitted, Rows, States
  <2>4. \A i \in P : /\ row'[i] \in Rows /\ row'[i].placement = to[i] /\ row'[i].st = "SUBMITTED"
                     /\ memory'[i] = Remember(ask[i], memory[i], to[i])
    BY <2>2, <2>3
  <2>5. \A i \in Jobs \ P : row'[i] = row[i] /\ memory'[i] = memory[i]
    BY <1>2, <1>7
  <2>6. row' = [i \in Jobs |-> row'[i]] /\ memory' = [i \in Jobs |-> memory'[i]] /\ P \subseteq Jobs
    BY <1>2, <1>7
  <2> HIDE DEF P, to
  <2>7. PlacesOnly(P, to)
    BY <2>1, <2>4, <2>5, <2>6 DEF PlacesOnly
  <2> QED BY <1>1, <2>7, Placing
<1> QED BY <1>3, <1>6, <1>7

\* The markets with other free chips.
MarketsLike(m) == [free : [Pairs -> Int], oversold : {m.oversold}, price : {m.price},
                   pool : {m.pool}, archPrice : {m.archPrice}]

\* They have the types of markets.
LEMMA MarketsLikeOK ==
  ASSUME NEW m, MarketOK(m), NEW o \in MarketsLike(m)
  PROVE  MarketOK(o)
BY DEF MarketsLike, MarketOK

\* What a placement takes is taken off its pair.
LEMMA TakenIs ==
  ASSUME NEW m, NEW o \in MarketsLike(m), NEW placement \in Placements
  PROVE  /\ Taken(o, placement) \in MarketsLike(m)
         /\ Taken(o, placement).free = IF placement = NoPlacement THEN o.free
              ELSE [o.free EXCEPT ![PairOf(placement)] = Positive(o.free[PairOf(placement)] - placement.chips)]
<1>1. CASE placement = NoPlacement
  BY <1>1 DEF Taken
<1>2. CASE placement # NoPlacement
  <2> DEFINE p == PairOf(placement)
             c == placement.chips
             f == [o.free EXCEPT ![p] = Positive(o.free[p] - c)]
  <2>1. Taken(o, placement) = [o EXCEPT !.free = f]
    BY <1>2, Zenon DEF Taken
  <2>2. c \in Int
    BY <1>2 DEF Placements, Placed
  <2> HIDE DEF p, c
  <2>3. o.free \in [Pairs -> Int]
    BY DEF MarketsLike
  <2>4. f \in [Pairs -> Int]
    <3> DEFINE x == Positive(o.free[p] - c)
    <3>1. p \in Pairs => x \in Int
      BY <2>2, <2>3 DEF Positive
    <3>2. f = [o.free EXCEPT ![p] = x]
      OBVIOUS
    <3> HIDE DEF x, f
    <3> QED BY <2>3, <3>1, <3>2
  <2> HIDE DEF f
  <2>5. [o EXCEPT !.free = f] \in MarketsLike(m) /\ [o EXCEPT !.free = f].free = f
    BY <2>4 DEF MarketsLike
  <2> QED BY <1>2, <2>1, <2>5 DEF f, p, c
<1> QED BY <1>1, <1>2

\* An order of a pass has each job once.
LEMMA OrdersAre ==
  ASSUME NEW order \in Orders
  PROVE  order \in Seq(In("QUEUED")) /\ Len(order) \in Nat
         /\ \A i, k \in 1..Len(order) : order[i] = order[k] => i = k
<1>1. In("QUEUED") \subseteq Jobs
  BY DEF In
<1>2. IsFiniteSet(In("QUEUED"))
  BY <1>1, JobsAre, FS_Subset
<1> DEFINE n == Cardinality(In("QUEUED"))
<1>3. n \in Nat
  BY <1>2, FS_CardinalityType
<1>4. order \in [1..n -> In("QUEUED")] /\ \A i, k \in 1..n : i # k => order[i] # order[k]
  BY DEF Orders, SetToSeqs
<1> HIDE DEF n
<1> QED BY <1>3, <1>4

\* What SelectAndPlan accumulates.
Planned == [m : MarketsLike(Market), plan : [Jobs -> Placements]]

\* The plan it makes next.
One(acc, j) == PlanOne(ask[j], memory[j], acc.m)

\* The walk of SelectAndPlan, field by field.
IsPlanWalk(w, order) ==
  /\ w \in [0..Len(order) -> Planned]
  /\ w[0] = [m |-> Market, plan |-> [j \in Jobs |-> NoPlacement]]
  /\ \A k \in 1..Len(order) :
       /\ w[k].m = Taken(w[k - 1].m, One(w[k - 1], order[k]))
       /\ w[k].plan = [w[k - 1].plan EXCEPT ![order[k]] = One(w[k - 1], order[k])]
  /\ SelectAndPlan(order, Market) = w[Len(order)].plan

\* Each plan it makes is right.
LEMMA OneIs ==
  ASSUME TypeOK, LockKept, NEW acc \in Planned, NEW j \in Jobs
  PROVE  /\ MarketOK(acc.m) /\ One(acc, j) \in Placements
         /\ One(acc, j) # NoPlacement => Rightly(j, One(acc, j))
<1>1. MarketOK(acc.m)
  BY MarketIs, MarketsLikeOK DEF Planned
<1>2. One(acc, j) # NoPlacement => Rightly(j, One(acc, j))
  BY <1>1, PlannedRightly DEF One
<1> QED BY <1>1, <1>2 DEF Rightly, Placements

\* There is such a walk.
LEMMA PlanWalk ==
  ASSUME TypeOK, LockKept, NEW order \in Seq(Jobs)
  PROVE  \E w : IsPlanWalk(w, order)
<1> DEFINE e == [of |-> "plan"]
           base == [m |-> Market, plan |-> [j \in Jobs |-> NoPlacement]]
           n == Len(order)
<1>1. n \in Nat /\ \A i \in 1..n : order[i] \in Jobs
  OBVIOUS
<1>2. \A acc, j : FoldStep(e, acc, j) = [m |-> Taken(acc.m, One(acc, j)), plan |-> [acc.plan EXCEPT ![j] = One(acc, j)]]
  BY DEF FoldStep, PlanStep, One
<1> HIDE DEF e
<1>3. \A acc \in Planned, j \in Jobs : FoldStep(e, acc, j) \in Planned
  <2> TAKE acc \in Planned, j \in Jobs
  <2> DEFINE x == Taken(acc.m, One(acc, j))
             y == [acc.plan EXCEPT ![j] = One(acc, j)]
  <2>1. x \in MarketsLike(Market)
    BY OneIs, TakenIs DEF Planned
  <2>2. y \in [Jobs -> Placements]
    BY OneIs DEF Planned
  <2>3. FoldStep(e, acc, j) = [m |-> x, plan |-> y]
    BY <1>2, Zenon
  <2> HIDE DEF x, y
  <2> QED BY <2>1, <2>2, <2>3 DEF Planned
<1>4. base \in Planned
  <2>1. Market \in MarketsLike(Market)
    BY MarketIs DEF MarketsLike, MarketOK
  <2> QED BY <2>1 DEF Placements, Planned
<1>5. PICK w : IsWalk(w, e, Planned, base, order)
  <2> HIDE DEF base
  <2> QED BY <1>3, <1>4, Walk, Zenon
<1>6. /\ w \in [0..n -> Planned] /\ w[0] = base
      /\ \A k \in 1..n : w[k] = FoldStep(e, w[k - 1], order[k])
      /\ Walked(e, base, order) = w[n]
  BY <1>5 DEF IsWalk
<1>7. ASSUME NEW k \in 1..n
      PROVE  /\ w[k].m = Taken(w[k - 1].m, One(w[k - 1], order[k]))
             /\ w[k].plan = [w[k - 1].plan EXCEPT ![order[k]] = One(w[k - 1], order[k])]
  <2> DEFINE x == Taken(w[k - 1].m, One(w[k - 1], order[k]))
             y == [w[k - 1].plan EXCEPT ![order[k]] = One(w[k - 1], order[k])]
  <2>1. w[k] = [m |-> x, plan |-> y]
    BY <1>2, <1>6, Zenon
  <2> HIDE DEF x, y
  <2>2. w[k].m = x /\ w[k].plan = y
    BY <2>1
  <2> QED BY <2>2 DEF x, y
<1>8. SelectAndPlan(order, Market) = w[n].plan
  BY <1>6, SelectAndPlanIs DEF e
<1>9. IsPlanWalk(w, order)
  BY <1>6, <1>7, <1>8 DEF IsPlanWalk
<1> QED BY <1>9

\* So the plans of a pass are right.
LEMMA PassPlan ==
  ASSUME TypeOK, LockKept, NEW order \in Seq(Jobs)
  PROVE  LET plan == SelectAndPlan(order, Market)
         IN /\ plan \in [Jobs -> Placements]
            /\ \A j \in Jobs : plan[j] # NoPlacement => Rightly(j, plan[j])
<1> DEFINE n == Len(order)
<1>1. PICK w : IsPlanWalk(w, order)
  BY PlanWalk
<1>2. n \in Nat /\ \A i \in 1..n : order[i] \in Jobs
  OBVIOUS
<1>3. \A k \in 0..n : w[k] \in Planned
  BY <1>1 DEF IsPlanWalk
<1> DEFINE G == {k \in 0..n : \A j \in Jobs : w[k].plan[j] # NoPlacement => Rightly(j, w[k].plan[j])}
<1>4. 0 \in G
  BY <1>1, <1>2 DEF IsPlanWalk
<1>5. ASSUME NEW k \in 1..n, k - 1 \in G
      PROVE  k \in G
  <2> DEFINE v == w[k - 1]
             i == order[k]
             o == One(v, i)
  <2>1. k - 1 \in 0..n /\ k \in 0..n /\ v \in Planned /\ i \in Jobs
    BY <1>2, <1>3
  <2>2. o # NoPlacement => Rightly(i, o)
    BY <2>1, OneIs
  <2>3. \A j \in Jobs : v.plan[j] # NoPlacement => Rightly(j, v.plan[j])
    BY <1>5
  <2>4. w[k].plan = [v.plan EXCEPT ![i] = o]
    BY <1>1 DEF IsPlanWalk
  <2>5. v.plan \in [Jobs -> Placements]
    BY <2>1 DEF Planned
  <2> HIDE DEF v, i, o
  <2> QED BY <2>1, <2>2, <2>3, <2>4, <2>5
<1>6. n \in G
  <2>1. 0..n \subseteq G
    <3> HIDE DEF G
    <3> QED BY <1>2, <1>4, <1>5, UpTo
  <2> QED BY <1>2, <2>1
<1>7. SelectAndPlan(order, Market) = w[n].plan /\ w[n].plan \in [Jobs -> Placements]
  BY <1>1, <1>2, <1>3 DEF IsPlanWalk, Planned
<1> QED BY <1>6, <1>7

\* A pass's parts.
IsPass(order, plan, charge, placed) ==
  /\ order \in Orders /\ order \in Seq(In("QUEUED")) /\ plan = SelectAndPlan(order, Market)
  /\ plan \in [Jobs -> Placements]
  /\ \A j \in Jobs : plan[j] # NoPlacement => Rightly(j, plan[j])
  /\ charge = [j \in Jobs |-> IF plan[j] = NoPlacement THEN 0 ELSE Cost(plan[j])]
  /\ \A j \in Jobs : charge[j] \in Int
  /\ placed = {j \in PlanDispatch(order, [j \in Jobs |-> FALSE], charge) : plan[j] # NoPlacement}
  /\ placed \subseteq {order[i] : i \in 1..Len(order)} /\ placed # {}
  /\ row' = [j \in Jobs |-> IF j \in placed
                            THEN [Submitted(j, plan[j]) EXCEPT !.pool = Fallback] ELSE row[j]]
  /\ memory' = [j \in Jobs |-> IF j \in placed THEN Remember(ask[j], memory[j], plan[j]) ELSE memory[j]]

\* Every pass has them.
LEMMA PassIs ==
  ASSUME TypeOK, Seated, LockKept, Pass
  PROVE  \E order, plan, charge, placed : IsPass(order, plan, charge, placed)
<1>1. PICK order \in Orders : \E plan \in {SelectAndPlan(order, Market)} :
       LET charge == [j \in Jobs |-> IF plan[j] = NoPlacement THEN 0 ELSE Cost(plan[j])]
           placed == {j \in PlanDispatch(order, [i \in Jobs |-> FALSE], charge) : plan[j] # NoPlacement}
       IN /\ placed # {}
          /\ row' = [j \in Jobs |-> IF j \in placed
                                    THEN [Submitted(j, plan[j]) EXCEPT !.pool = Fallback] ELSE row[j]]
          /\ memory' = [j \in Jobs |-> IF j \in placed THEN Remember(ask[j], memory[j], plan[j])
                                       ELSE memory[j]]
  BY Zenon DEF Pass
<1>2. PICK plan \in {SelectAndPlan(order, Market)} :
      LET charge == [j \in Jobs |-> IF plan[j] = NoPlacement THEN 0 ELSE Cost(plan[j])]
          placed == {j \in PlanDispatch(order, [i \in Jobs |-> FALSE], charge) : plan[j] # NoPlacement}
      IN /\ placed # {}
         /\ row' = [j \in Jobs |-> IF j \in placed
                                   THEN [Submitted(j, plan[j]) EXCEPT !.pool = Fallback] ELSE row[j]]
         /\ memory' = [j \in Jobs |-> IF j \in placed THEN Remember(ask[j], memory[j], plan[j])
                                      ELSE memory[j]]
  BY <1>1, Zenon
<1> DEFINE charge == [j \in Jobs |-> IF plan[j] = NoPlacement THEN 0 ELSE Cost(plan[j])]
           never == [j \in Jobs |-> FALSE]
           placed == {j \in PlanDispatch(order, never, charge) : plan[j] # NoPlacement}
<1>3. order \in Seq(In("QUEUED")) /\ In("QUEUED") \subseteq Jobs
  BY OrdersAre DEF In
<1>4. order \in Seq(Jobs)
  BY <1>3
<1>5. plan \in [Jobs -> Placements] /\ \A j \in Jobs : plan[j] # NoPlacement => Rightly(j, plan[j])
  BY <1>4, <1>2, PassPlan
<1>6. \A j \in Jobs : charge[j] \in Int
  <2> TAKE j \in Jobs
  <2>1. plan[j] # NoPlacement => Cost(plan[j]) \in Int
    BY <1>5, CostInt DEF Rightly
  <2> QED BY <2>1
<1>7. PlanDispatch(order, never, charge) \subseteq {order[i] : i \in 1..Len(order)}
  <2> HIDE DEF charge, never
  <2> QED BY <1>4, <1>6, HeadroomInt, AdmittedOnly
<1>8. placed \subseteq {order[i] : i \in 1..Len(order)}
  BY <1>7
<1>9. /\ placed # {}
      /\ row' = [j \in Jobs |-> IF j \in placed
                                THEN [Submitted(j, plan[j]) EXCEPT !.pool = Fallback] ELSE row[j]]
      /\ memory' = [j \in Jobs |-> IF j \in placed THEN Remember(ask[j], memory[j], plan[j]) ELSE memory[j]]
  BY <1>2, Zenon
<1>10. IsPass(order, plan, charge, placed)
  BY <1>1, <1>3, <1>5, <1>6, <1>8, <1>9, <1>2, Zenon DEF IsPass
<1> QED BY <1>10, Zenon

\* A pass keeps the invariant.
LEMMA PassStep ==
  ASSUME IInv, Pass
  PROVE  IInv'
<1>1. TypeOK /\ Seated /\ LockKept
  BY DEF IInv
<1>2. PICK order, plan, charge, placed : IsPass(order, plan, charge, placed)
  BY <1>1, PassIs
<1>3. placed \subseteq Jobs
  <2>1. order \in Seq(In("QUEUED")) /\ placed \subseteq {order[i] : i \in 1..Len(order)}
    BY <1>2 DEF IsPass
  <2>2. \A i \in 1..Len(order) : order[i] \in In("QUEUED")
    BY <2>1
  <2> QED BY <2>1, <2>2 DEF In
<1>4. \A j \in placed : Rightly(j, plan[j])
  BY <1>2, <1>3 DEF IsPass
<1>5. row' = [j \in Jobs |-> IF j \in placed
                             THEN [Submitted(j, plan[j]) EXCEPT !.pool = Fallback] ELSE row[j]]
      /\ memory' = [j \in Jobs |-> IF j \in placed THEN Remember(ask[j], memory[j], plan[j]) ELSE memory[j]]
  BY <1>2 DEF IsPass
<1>6. row' = [j \in Jobs |-> row'[j]] /\ memory' = [j \in Jobs |-> memory'[j]]
  BY <1>5
<1>7. ASSUME NEW j \in placed
      PROVE  /\ row'[j] \in Rows /\ row'[j].placement = plan[j] /\ row'[j].st = "SUBMITTED"
             /\ memory'[j] = Remember(ask[j], memory[j], plan[j])
  <2>1. row[j] \in Rows /\ plan[j] \in Placements /\ Fallback \in Groups
    BY <1>1, <1>3, <1>4 DEF TypeOK, Rightly, Placements, Groups, Pools
  <2>2. row'[j] = [Submitted(j, plan[j]) EXCEPT !.pool = Fallback]
        /\ memory'[j] = Remember(ask[j], memory[j], plan[j])
    BY <1>3, <1>5
  <2> QED BY <2>1, <2>2 DEF Submitted, Rows, States
<1>8. \A j \in Jobs \ placed : row'[j] = row[j] /\ memory'[j] = memory[j]
  BY <1>5
<1>9. UNCHANGED <<mode, ask, mood, missing, quota>>
  BY DEF Pass
<1>10. PlacesOnly(placed, plan)
  BY <1>3, <1>4, <1>6, <1>7, <1>8 DEF PlacesOnly
<1> QED BY <1>9, <1>10, Placing

\* So does the slice that seats a job.
LEMMA SeatStep ==
  ASSUME IInv, NEW j \in Jobs, Seat(j)
  PROVE  IInv'
<1>1. row \in [Jobs -> Rows] /\ Seated
  BY DEF IInv, TypeOK
<1>2. row' = [row EXCEPT ![j].st = "RUNNING"] /\ row[j].st = "SUBMITTED"
      /\ UNCHANGED <<mode, ask, memory, mood, missing, quota>>
  BY DEF Seat
<1>3. row' \in [Jobs -> Rows]
  BY <1>1, <1>2 DEF Rows, States
<1>4. \A i \in Jobs :
         /\ row'[i].placement = row[i].placement
         /\ row'[i].st \in {"SUBMITTED", "RUNNING"} <=> row[i].st \in {"SUBMITTED", "RUNNING"}
         /\ row'[i].st = "BUILD_REQUESTED" => row'[i].pool # NoPool
  BY <1>1, <1>2 DEF Rows, Seated
<1> QED BY <1>2, <1>3, <1>4, SamePlacements

\* A step that takes a job off its slice keeps it.
LEMMA Leaving ==
  ASSUME IInv, UNCHANGED <<mode, ask, mood, missing, quota>>, NEW j \in Jobs,
         row' \in [Jobs -> Rows], row'[j].placement = NoPlacement,
         row'[j].st \in {"QUEUED", "DONE"}, \A i \in Jobs \ {j} : row'[i] = row[i],
         memory' \in [Jobs -> Memories], \A i \in Jobs : memory'[i].mesh = memory[i].mesh
  PROVE  IInv'
<1>1. TypeOK'
  BY DEF IInv, TypeOK
<1>2. Seated'
  BY DEF IInv, Seated
<1>3. LockKept' /\ MeshKept'
  BY DEF IInv, LockKept, MeshKept
<1> QED BY <1>1, <1>2, <1>3 DEF IInv

\* So does the end of a job.
LEMMA EndStep ==
  ASSUME IInv, NEW j \in Jobs, End(j)
  PROVE  IInv'
<1>1. row \in [Jobs -> Rows] /\ memory \in [Jobs -> Memories]
  BY DEF IInv, TypeOK
<1>2. row' = [row EXCEPT ![j] = [st |-> "DONE", placement |-> NoPlacement, pool |-> NoPool]]
      /\ UNCHANGED <<mode, ask, memory, mood, missing, quota>>
  BY DEF End
<1>3. row' \in [Jobs -> Rows] /\ row'[j].placement = NoPlacement /\ row'[j].st = "DONE"
      /\ \A i \in Jobs \ {j} : row'[i] = row[i]
  BY <1>1, <1>2 DEF Rows, States, Placements, Groups
<1> QED BY <1>1, <1>2, <1>3, Leaving

\* So does a move.
LEMMA MoveStep ==
  ASSUME IInv, NEW j \in Jobs, Move(j)
  PROVE  IInv'
<1>1. row \in [Jobs -> Rows] /\ memory \in [Jobs -> Memories]
  BY DEF IInv, TypeOK
<1> DEFINE p == PairOf(row[j].placement)
           cooled == StampPair(memory[j], p, Window)
           struck == IF row[j].st = "RUNNING" THEN RecordEviction(cooled, p) ELSE cooled
           g == row[j].pool
           new == [struck EXCEPT !.pools[g] = Window]
<1>2. memory' = [memory EXCEPT ![j] = new]
  BY DEF Move
<1>3. row' = [row EXCEPT ![j].st = "QUEUED", ![j].placement = NoPlacement]
      /\ UNCHANGED <<mode, ask, mood, missing, quota>>
  BY DEF Move
<1>4. Window \in Nat
  BY DispatchConstantsOK
<1>5. cooled \in Memories /\ cooled.mesh = memory[j].mesh
  <2> DEFINE mem == memory[j]
             c == [left |-> Window, strikes |-> IF mem.pairs[p].left > 0 THEN mem.pairs[p].strikes + 1 ELSE 1]
             f == [mem.pairs EXCEPT ![p] = c]
  <2>1. cooled = [mem EXCEPT !.pairs = f]
    BY Zenon DEF StampPair
  <2>2. mem \in Memories
    BY <1>1
  <2> HIDE DEF p, mem
  <2>3. p \in Pairs => c \in [left : Nat, strikes : Nat]
    BY <1>4, <2>2 DEF Memories, PairMemories
  <2> HIDE DEF c
  <2>4. f \in PairMemories
    BY <2>2, <2>3 DEF Memories, PairMemories
  <2> HIDE DEF f, cooled
  <2>5. cooled \in Memories /\ cooled.mesh = mem.mesh
    BY <2>1, <2>2, <2>4 DEF Memories
  <2> QED BY <2>5 DEF mem
<1>6. struck \in Memories /\ struck.mesh = memory[j].mesh
  <2> HIDE DEF cooled, p
  <2> DEFINE c == [strikes |-> cooled.evictions[p].strikes + 1, recent |-> TRUE]
             f == [cooled.evictions EXCEPT ![p] = c]
  <2>1. RecordEviction(cooled, p) = [cooled EXCEPT !.evictions = f]
    BY Zenon DEF RecordEviction
  <2>2. p \in Pairs => c \in [strikes : Nat, recent : BOOLEAN]
    BY <1>5 DEF Memories, Evictions
  <2> HIDE DEF c
  <2>3. f \in Evictions
    BY <1>5, <2>2 DEF Memories, Evictions
  <2> HIDE DEF f
  <2>4. [cooled EXCEPT !.evictions = f] \in Memories /\ [cooled EXCEPT !.evictions = f].mesh = cooled.mesh
    BY <1>5, <2>3 DEF Memories
  <2> QED BY <1>5, <2>1, <2>4
<1> HIDE DEF struck, g
<1>7. new \in Memories /\ new.mesh = memory[j].mesh
  <2> DEFINE f == [struck.pools EXCEPT ![g] = Window]
  <2>1. new = [struck EXCEPT !.pools = f]
    BY Zenon
  <2>2. f \in [Pools -> Nat]
    BY <1>4, <1>6 DEF Memories
  <2> HIDE DEF f, new
  <2> QED BY <1>6, <2>1, <2>2 DEF Memories
<1> HIDE DEF new
<1>8. memory' \in [Jobs -> Memories] /\ \A i \in Jobs : memory'[i].mesh = memory[i].mesh
  BY <1>1, <1>2, <1>7
<1>9. row' \in [Jobs -> Rows] /\ row'[j].placement = NoPlacement /\ row'[j].st = "QUEUED"
      /\ \A i \in Jobs \ {j} : row'[i] = row[i]
  <2> DEFINE r == [row[j] EXCEPT !.st = "QUEUED", !.placement = NoPlacement]
  <2>1. row' = [row EXCEPT ![j] = r]
    BY <1>3, Zenon
  <2>2. r \in Rows /\ r.placement = NoPlacement /\ r.st = "QUEUED"
    <3>1. row[j] \in Rows
      BY <1>1
    <3> QED BY <3>1 DEF Rows, States, Placements
  <2> HIDE DEF r
  <2> QED BY <1>1, <2>1, <2>2
<1> QED BY <1>3, <1>8, <1>9, Leaving

\* So does the clock.
LEMMA TickStep ==
  ASSUME IInv, Tick
  PROVE  IInv'
<1>1. memory \in [Jobs -> Memories] /\ LockKept
  BY DEF IInv, TypeOK
<1>2. memory' = [j \in Jobs |-> Rested(memory[j])]
  BY DEF Tick
<1>3. UNCHANGED <<mode, ask, row, mood, missing, quota>>
  <2>1. UNCHANGED <<mode, ask, row, mood, missing, quota, turns, moves>>
    BY Zenon DEF Tick
  <2> QED BY <2>1
<1>4. ASSUME NEW j \in Jobs
      PROVE  Rested(memory[j]) \in Memories /\ Rested(memory[j]).mesh = memory[j].mesh
  <2> DEFINE m == memory[j]
             ps == [p \in Pairs |-> [left |-> Positive(m.pairs[p].left - 1), strikes |-> m.pairs[p].strikes]]
             es == [p \in Pairs |-> [strikes |-> m.evictions[p].strikes, recent |-> FALSE]]
             gs == [g \in Pools |-> Positive(m.pools[g] - 1)]
  <2>1. \A n \in Nat : Positive(n - 1) \in Nat
    BY DEF Positive
  <2>2. m \in Memories
    BY <1>1
  <2>3. Rested(m) = [m EXCEPT !.pairs = ps, !.evictions = es, !.pools = gs]
    BY DEF Rested
  <2> HIDE DEF m
  <2>4. ps \in PairMemories
    BY <2>1, <2>2 DEF Memories, PairMemories
  <2>5. es \in Evictions
    BY <2>2 DEF Memories, Evictions
  <2>6. gs \in [Pools -> Nat]
    BY <2>1, <2>2 DEF Memories
  <2> HIDE DEF ps, es, gs
  <2>7. Rested(m) \in Memories /\ Rested(m).mesh = m.mesh
    BY <2>2, <2>3, <2>4, <2>5, <2>6 DEF Memories
  <2> QED BY <2>7 DEF m
<1>5. memory' \in [Jobs -> Memories] /\ \A j \in Jobs : memory'[j].mesh = memory[j].mesh
  BY <1>2, <1>4
<1>6. TypeOK'
  BY <1>3, <1>5 DEF IInv, TypeOK
<1>7. Seated' /\ MeshKept'
  BY <1>3 DEF IInv, Seated, MeshKept
<1>8. LockKept'
  BY <1>1, <1>3, <1>5 DEF LockKept
<1> QED BY <1>6, <1>7, <1>8 DEF IInv

\* A step that changes only the market or the quota tables keeps it.
LEMMA OutsideStep ==
  ASSUME IInv, UNCHANGED <<mode, ask, row, memory>>,
         mood' \in [Pairs -> Moods], missing' \subseteq Hosted, quota' \in [PreferredPools -> Quotas]
  PROVE  IInv'
<1>1. TypeOK'
  BY DEF IInv, TypeOK
<1>2. Seated' /\ LockKept' /\ MeshKept'
  BY DEF IInv, Seated, LockKept, MeshKept
<1> QED BY <1>1, <1>2 DEF IInv

\* So do the turns of the market.
LEMMA MarketStep ==
  ASSUME IInv, NEW p \in Pairs, Worsen(p) \/ Reopen(p)
  PROVE  IInv'
<1>1. mood \in [Pairs -> Moods] /\ missing \subseteq Hosted /\ quota \in [PreferredPools -> Quotas]
  BY DEF IInv, TypeOK
<1>2. mood' \in [Pairs -> Moods]
  BY <1>1 DEF Worsen, Reopen, Moods
<1>3. UNCHANGED <<mode, ask, row, memory, missing, quota>>
  BY DEF Worsen, Reopen
<1> QED BY <1>1, <1>2, <1>3, OutsideStep

\* So do those of the fetches.
LEMMA FetchStep ==
  ASSUME IInv, NEW a \in Hosted, Fail(a) \/ Answer(a)
  PROVE  IInv'
<1>1. mood \in [Pairs -> Moods] /\ missing \subseteq Hosted /\ quota \in [PreferredPools -> Quotas]
  BY DEF IInv, TypeOK
<1>2. missing' \subseteq Hosted
  BY <1>1 DEF Fail, Answer
<1>3. UNCHANGED <<mode, ask, row, memory, mood, quota>>
  BY DEF Fail, Answer
<1> QED BY <1>1, <1>2, <1>3, OutsideStep

\* So do those of the quota tables.
LEMMA TableStep ==
  ASSUME IInv, NEW g \in PreferredPools, Recount(g) \/ Lapse(g)
  PROVE  IInv'
<1>1. /\ mood \in [Pairs -> Moods] /\ missing \subseteq Hosted
      /\ quota \in [PreferredPools -> Quotas] /\ row \in [Jobs -> Rows]
  BY DEF IInv, TypeOK
<1> DEFINE Used(a) == SumChips({j \in In("RUNNING") : row[j].pool = g /\ row[j].placement.arch = a})
           counted == [fresh |-> TRUE, used |-> [a \in Hosted |-> Used(a)]]
<1>2. \A a \in Hosted : Used(a) \in Int
  <2> TAKE a \in Hosted
  <2>1. {j \in In("RUNNING") : row[j].pool = g /\ row[j].placement.arch = a} \subseteq Jobs
    BY DEF In
  <2>2. Used(a) \in Nat
    BY <1>1, <2>1, SumChipsNat
  <2> QED BY <2>2
<1>3. quota' = [quota EXCEPT ![g] = counted] \/ quota' = [quota EXCEPT ![g].fresh = FALSE]
  BY DEF Recount, Lapse
<1>4. counted \in Quotas
  <2> HIDE DEF Used
  <2> QED BY <1>2 DEF Quotas
<1> HIDE DEF counted
<1>5. quota' \in [PreferredPools -> Quotas]
  BY <1>1, <1>3, <1>4 DEF Quotas
<1>6. UNCHANGED <<mode, ask, row, memory, mood, missing>>
  BY DEF Recount, Lapse
<1> QED BY <1>1, <1>5, <1>6, OutsideStep

\* So does every step.
LEMMA Steps == IInv /\ [Next]_vars => IInv'
<1> SUFFICES ASSUME IInv, [Next]_vars
             PROVE  IInv'
  OBVIOUS
<1>1. CASE Worker
  BY <1>1, DispatchStep, BuildStep DEF Worker
<1>2. CASE Pass
  BY <1>2, PassStep
<1>3. CASE World
  <2>1. ASSUME NEW j \in Jobs, Seat(j) \/ End(j) \/ Move(j)
        PROVE  IInv'
    BY <2>1, SeatStep, EndStep, MoveStep
  <2>2. CASE Tick
    BY <2>2, TickStep
  <2>3. ASSUME NEW p \in Pairs, Worsen(p) \/ Reopen(p)
        PROVE  IInv'
    BY <2>3, MarketStep
  <2>4. ASSUME NEW g \in PreferredPools, Recount(g) \/ Lapse(g)
        PROVE  IInv'
    BY <2>4, TableStep
  <2>5. ASSUME NEW a \in Hosted, Fail(a) \/ Answer(a)
        PROVE  IInv'
    BY <2>5, FetchStep
  <2> QED BY <1>3, <2>1, <2>2, <2>3, <2>4, <2>5 DEF World
<1>4. CASE UNCHANGED vars
  <2>1. UNCHANGED <<mode, ask, row, memory, mood, missing, quota>>
    BY <1>4 DEF vars
  <2>2. mood' \in [Pairs -> Moods] /\ missing' \subseteq Hosted /\ quota' \in [PreferredPools -> Quotas]
    BY <2>1 DEF IInv, TypeOK
  <2> QED BY <2>1, <2>2, OutsideStep
<1> QED BY <1>1, <1>2, <1>3, <1>4 DEF Next

\* IInv holds in every state the dispatcher reaches.
THEOREM Invariance == Spec => []IInv
<1> QED BY Starts, Steps, PTL DEF Spec

\* A job that cannot change its mesh is on the one its power names whenever it is
\* placed, however often it has been moved. (candidate_shapes, apply_placement)
THEOREM MeshesAreKept == Spec => []MeshKept
<1>1. IInv => MeshKept
  BY DEF IInv
<1> QED BY <1>1, Invariance, PTL

\* What a job's row becomes when its slice seats it, loses it or ends it.
LEMMA LeavingRow ==
  ASSUME row \in [Jobs -> Rows], NEW i \in Jobs, Seat(i) \/ End(i) \/ Move(i)
  PROVE  /\ row'[i].st \in {"RUNNING", "DONE", "QUEUED"}
         /\ \A k \in Jobs \ {i} : row'[k] = row[k]
<1>1. row[i] \in Rows
  OBVIOUS
<1>2. CASE Seat(i)
  BY <1>1, <1>2 DEF Seat, Rows
<1>3. CASE End(i)
  BY <1>3 DEF End
<1>4. CASE Move(i)
  <2> DEFINE r == [row[i] EXCEPT !.st = "QUEUED", !.placement = NoPlacement]
  <2>1. row' = [row EXCEPT ![i].st = "QUEUED", ![i].placement = NoPlacement]
    BY <1>4 DEF Move
  <2>2. row' = [row EXCEPT ![i] = r]
    BY <2>1, Zenon
  <2>3. r.st = "QUEUED"
    BY <1>1 DEF Rows
  <2> HIDE DEF r
  <2> QED BY <2>2, <2>3
<1> QED BY <1>2, <1>3, <1>4

-----------------------------------------------------------------------------
(* The greedy fill.                                                        *)

\* The greedy fill: what is admitted costs no more than the headroom, and no job that is
\* left would have fitted beside it.
LEMMA FilledGreedily ==
  ASSUME NEW D, D \subseteq Jobs, NEW order \in Seq(D),
         \A i, k \in 1..Len(order) : order[i] = order[k] => i = k,
         NEW exempt, NEW charge, \A j \in D : charge[j] \in Nat /\ (exempt[j] => charge[j] = 0),
         Headroom \in Nat
  PROVE  LET admitted == PlanDispatch(order, exempt, charge)
         IN /\ admitted \subseteq {order[i] : i \in 1..Len(order)}
            /\ Sum(charge, admitted) \in Int /\ Sum(charge, admitted) <= Headroom
            /\ \A i \in 1..Len(order) : order[i] \notin admitted =>
                 ~exempt[order[i]] /\ Sum(charge, admitted) + charge[order[i]] > Headroom
<1> DEFINE e == [of |-> "decide", exempt |-> exempt, charge |-> charge]
           base == [left |-> Headroom, admitted |-> {}]
           R == {order[i] : i \in 1..Len(order)}
           A == [left : Int, admitted : SUBSET R]
           n == Len(order)
<1>1. \A acc, j : FoldStep(e, acc, j) =
        IF exempt[j] \/ charge[j] <= acc.left
        THEN [left |-> acc.left - charge[j], admitted |-> acc.admitted \cup {j}] ELSE acc
  BY DEF FoldStep, DecideStep, Debited
<1> HIDE DEF e
<1>2. PICK w : IsWalk(w, e, A, base, order)
  <2>1. base \in A
    OBVIOUS
  <2>2. \A acc \in A, j \in R : FoldStep(e, acc, j) \in A
    BY <1>1
  <2>3. order \in Seq(R)
    OBVIOUS
  <2> HIDE DEF A, base, R
  <2> QED BY <2>1, <2>2, <2>3, Walk, Zenon
<1>3. /\ w \in [0..n -> A] /\ w[0] = base
      /\ \A k \in 1..n : w[k] = FoldStep(e, w[k - 1], order[k])
      /\ Walked(e, base, order) = w[n]
  BY <1>2 DEF IsWalk
<1>4. n \in Nat /\ R \subseteq D /\ \A i \in 1..n : order[i] \in D
  OBVIOUS
<1>5. \A s \in SUBSET R : IsFiniteSet(s) /\ \A j \in s : charge[j] \in Nat
  BY <1>4, JobsAre, FS_Subset
<1> DEFINE Holds(k, left, admitted) ==
             /\ left \in Nat /\ admitted \in SUBSET {order[i] : i \in 1..k}
             /\ Sum(charge, admitted) \in Int /\ left + Sum(charge, admitted) = Headroom
             /\ \A i \in 1..k : order[i] \notin admitted => ~exempt[order[i]] /\ charge[order[i]] > left
           G == {k \in 0..n : Holds(k, w[k].left, w[k].admitted)}
<1>6. 0 \in G
  <2>1. w[0].left = Headroom /\ w[0].admitted = {}
    BY <1>3
  <2>2. Holds(0, Headroom, {})
    BY SumEmpty
  <2> HIDE DEF Holds
  <2>3. Holds(0, w[0].left, w[0].admitted)
    BY <2>1, <2>2, Zenon
  <2> QED BY <1>4, <2>3
<1>7. ASSUME NEW k \in 1..n, k - 1 \in G
      PROVE  k \in G
  <2> DEFINE left == w[k - 1].left
             s == w[k - 1].admitted
             j == order[k]
             c == charge[j]
  <2>1. Holds(k - 1, left, s)
    BY <1>7
  <2>2. k \in 0..n /\ k - 1 \in 0..n /\ k \in Nat /\ j \in D /\ c \in Nat /\ (exempt[j] => c = 0)
    BY <1>4
  <2>3. w[k] = IF exempt[j] \/ c <= left THEN [left |-> left - c, admitted |-> s \cup {j}] ELSE w[k - 1]
    <3>1. w[k] = FoldStep(e, w[k - 1], j)
      BY <1>3
    <3> QED BY <1>1, <3>1, Zenon
  <2>4. \A i \in 1..k : i = k \/ i \in 1..(k - 1)
    BY <2>2
  <2>5. \A i \in 1..(k - 1) : i \in 1..k /\ order[i] # j
    BY <2>2
  <2>6. j \notin s
    <3> HIDE DEF j, s
    <3> QED BY <2>1, <2>5
  <2>7. s \cup {j} \in SUBSET R /\ s \in SUBSET R
        /\ s \in SUBSET {order[i] : i \in 1..k} /\ s \cup {j} \in SUBSET {order[i] : i \in 1..k}
    <3>1. {order[i] : i \in 1..(k - 1)} \subseteq {order[i] : i \in 1..k}
      BY <2>5
    <3>2. {order[i] : i \in 1..k} \subseteq R /\ j \in {order[i] : i \in 1..k}
      BY <1>4, <2>2
    <3> HIDE DEF R, j, s
    <3> QED BY <2>1, <3>1, <3>2
  <2>8. Sum(charge, s \cup {j}) = c + Sum(charge, s)
    <3>1. IsFiniteSet(s) /\ \A i \in s \cup {j} : charge[i] \in Int
      BY <1>5, <2>7
    <3> HIDE DEF s, j
    <3> QED BY <2>6, <3>1, SumWith DEF j
  <2> HIDE DEF left, s, c
  <2>9. CASE exempt[j] \/ c <= left
    <3>1. w[k].left = left - c /\ w[k].admitted = s \cup {j}
      BY <2>3, <2>9
    <3>2. left - c \in Nat
      BY <2>1, <2>2, <2>9
    <3>3. Sum(charge, s \cup {j}) \in Int /\ (left - c) + Sum(charge, s \cup {j}) = Headroom
      BY <2>1, <2>2, <2>8
    <3>4. ASSUME NEW i \in 1..k, order[i] \notin s \cup {j}
          PROVE  ~exempt[order[i]] /\ charge[order[i]] > left - c
      <4>1. i \in 1..(k - 1) /\ order[i] \notin s
        BY <2>4, <3>4
      <4>2. ~exempt[order[i]] /\ charge[order[i]] > left
        BY <2>1, <4>1
      <4>3. charge[order[i]] \in Nat /\ left \in Nat
        BY <1>4, <2>1
      <4> QED BY <2>2, <4>2, <4>3
    <3>5. Holds(k, left - c, s \cup {j})
      BY <2>7, <3>2, <3>3, <3>4
    <3> HIDE DEF Holds
    <3> QED BY <2>2, <3>1, <3>5
  <2>10. CASE ~(exempt[j] \/ c <= left)
    <3>1. w[k].left = left /\ w[k].admitted = s
      BY <2>3, <2>10 DEF left, s
    <3>2. c > left /\ ~exempt[j]
      BY <2>1, <2>2, <2>10
    <3>3. \A i \in 1..k : order[i] \notin s => ~exempt[order[i]] /\ charge[order[i]] > left
      BY <2>1, <2>4, <3>2 DEF c
    <3>4. Holds(k, left, s)
      BY <2>1, <2>7, <3>3
    <3> HIDE DEF Holds
    <3> QED BY <2>2, <3>1, <3>4
  <2> QED BY <2>9, <2>10
<1>8. n \in G
  <2>1. 0..n \subseteq G
    <3> HIDE DEF G
    <3> QED BY <1>4, <1>6, <1>7, UpTo
  <2> QED BY <1>4, <2>1
<1> DEFINE left == w[n].left
           admitted == w[n].admitted
<1>9. PlanDispatch(order, exempt, charge) = admitted
  BY <1>3, PlanDispatchIs DEF e
<1>10. Holds(n, left, admitted)
  BY <1>8
<1> HIDE DEF left, admitted
<1>11. \A i \in 1..n : charge[order[i]] \in Nat
  BY <1>4
<1>12. Sum(charge, admitted) <= Headroom
  BY <1>10
<1>13. \A i \in 1..n : order[i] \notin admitted =>
         ~exempt[order[i]] /\ Sum(charge, admitted) + charge[order[i]] > Headroom
  BY <1>10, <1>11
<1> QED BY <1>9, <1>10, <1>12, <1>13

-----------------------------------------------------------------------------
(* Every generation in the market has a price: without one there is no cost to hold against the bar.*)

\* Every generation in the market has a price: without one there is no cost to hold
\* against the bar.
Priced == \A p \in Pairs : Quoted(ArchPrice[p.arch])

\* What the jobs of Fallback cost is within the bar.
Within == Spend <= Bar

\* Then no cost is negative.
LEMMA CostNat ==
  ASSUME Priced, NEW placement \in Placed, PairOf(placement) \in Pairs
  PROVE  Cost(placement) \in Nat
<1>1. Quoted(ArchPrice[placement.arch])
  BY DEF Priced, PairOf
<1> QED BY <1>1, CostInt

\* Nor that of a job that pays.
LEMMA PayingNat ==
  ASSUME TypeOK, Seated, Priced
  PROVE  Paying \subseteq Jobs /\ IsFiniteSet(Paying) /\ \A j \in Paying : CostOf[j] \in Nat
<1>1. Paying \subseteq Jobs
  BY DEF Paying, In
<1>2. IsFiniteSet(Paying)
  BY <1>1, JobsAre, FS_Subset
<1>3. \A j \in Paying : CostOf[j] \in Nat
  BY PayingIs, CostNat
<1> QED BY <1>1, <1>2, <1>3

\* The job counts against the bar after the step.
PaysAfter(j) == row'[j].st \in {"SUBMITTED", "RUNNING"} /\ row'[j].pool = Fallback

\* The spend after the step is a sum over those jobs.
LEMMA SpendAfterIs ==
  ASSUME NEW f, NEW S, S = {j \in Jobs : PaysAfter(j)}, \A j \in S : f[j] = Cost(row'[j].placement)
  PROVE  Spend' = Sum(f, S)
<1> DEFINE P(g) == g = [s \in SUBSET S |-> IF s = {} THEN 0
                        ELSE Cost(row'[CHOOSE x \in s : TRUE].placement) + g[s \ {CHOOSE x \in s : TRUE}]]
           Q(g) == g = [s \in SUBSET S |-> IF s = {} THEN 0
                        ELSE f[CHOOSE x \in s : TRUE] + g[s \ {CHOOSE x \in s : TRUE}]]
<1>1. S = {j \in {j \in Jobs : row'[j].st = "SUBMITTED"} \cup {j \in Jobs : row'[j].st = "RUNNING"} :
             row'[j].pool = Fallback}
  BY DEF PaysAfter
<1>2. Spend' = (CHOOSE g : P(g))[S]
  BY <1>1 DEF Spend, In, MapThenSumSet, MapThenFoldSet
<1>3. Sum(f, S) = (CHOOSE g : Q(g))[S]
  BY DEF Sum, MapThenSumSet, MapThenFoldSet
<1>4. \A g : P(g) <=> Q(g)
  <2>1. \A s \in SUBSET S : s # {} =>
          f[CHOOSE x \in s : TRUE] = Cost(row'[CHOOSE x \in s : TRUE].placement)
    OBVIOUS
  <2> TAKE g
  <2>2. [s \in SUBSET S |-> IF s = {} THEN 0
           ELSE Cost(row'[CHOOSE x \in s : TRUE].placement) + g[s \ {CHOOSE x \in s : TRUE}]]
      = [s \in SUBSET S |-> IF s = {} THEN 0
           ELSE f[CHOOSE x \in s : TRUE] + g[s \ {CHOOSE x \in s : TRUE}]]
    BY <2>1
  <2> QED BY <2>2
<1>5. (CHOOSE g : P(g)) = (CHOOSE g : Q(g))
  <2> HIDE DEF P, Q
  <2> QED BY <1>4, Zenon
<1> QED BY <1>2, <1>3, <1>5

\* A step keeps within the bar if the jobs that start to pay cost no more than the
\* headroom.
LEMMA Spending ==
  ASSUME TypeOK, Seated, Priced,
         NEW P, P \subseteq Jobs, P \cap Paying = {}, NEW price, \A j \in P : price[j] \in Nat,
         Sum(price, P) <= Headroom,
         \A j \in Jobs : PaysAfter(j) =>
           \/ j \in P /\ Cost(row'[j].placement) = price[j]
           \/ j \in Paying /\ row'[j].placement = row[j].placement
  PROVE  Within'
<1> DEFINE S == {j \in Jobs : PaysAfter(j)}
           T == Paying \cup P
           f == [j \in Jobs |-> Cost(row'[j].placement)]
           g == [j \in Jobs |-> IF j \in P THEN price[j] ELSE CostOf[j]]
<1>1. Paying \subseteq Jobs /\ IsFiniteSet(Paying) /\ \A j \in Paying : CostOf[j] \in Nat
  BY PayingNat
<1>2. IsFiniteSet(P) /\ IsFiniteSet(T) /\ P = T \ Paying
  BY <1>1, JobsAre, FS_Subset, FS_Union
<1>3. \A j \in S : f[j] = g[j] /\ j \in T
  <2>1. \A j \in Paying : CostOf[j] = Cost(row[j].placement)
    BY PayingIs
  <2> QED BY <2>1
<1>4. \A j \in T : g[j] \in Nat
  BY <1>1
<1>5. \A j \in P : g[j] = price[j]
  OBVIOUS
<1>6. \A j \in Paying : g[j] = CostOf[j]
  BY <1>1
<1>7. Spend' = Sum(f, S)
  <2>1. \A j \in S : f[j] = Cost(row'[j].placement)
    OBVIOUS
  <2> HIDE DEF f
  <2> QED BY <2>1, SpendAfterIs
<1> HIDE DEF f, g, S, T
<1>8. IsFiniteSet(S) /\ S \subseteq T
  BY <1>2, <1>3, FS_Subset
<1>9. Sum(f, S) = Sum(g, S)
  <2>1. \A j \in S : f[j] = g[j] /\ f[j] \in Int
    BY <1>3, <1>4
  <2> QED BY <1>8, <2>1, SumEqual
<1>10. Sum(g, S) <= Sum(g, T) /\ Sum(g, S) \in Int /\ Sum(g, T) \in Int
  <2>1. \A j \in T : g[j] \in Int /\ g[j] >= 0
    BY <1>4
  <2> QED BY <1>2, <1>8, <2>1, SumGrows
<1>11. Sum(g, T) = Sum(g, Paying) + Sum(g, P)
  <2>1. \A j \in T : g[j] \in Int
    BY <1>4
  <2>2. Paying \subseteq T
    BY DEF T
  <2> QED BY <1>2, <2>1, <2>2, SumUnion
<1>12. Sum(g, P) = Sum(price, P) /\ Sum(price, P) \in Int
  <2>1. \A j \in P : g[j] = price[j] /\ g[j] \in Int
    BY <1>5
  <2>2. Sum(g, P) \in Int
    BY <1>2, <2>1, SumInt
  <2> QED BY <1>2, <2>1, <2>2, SumEqual
<1>13. Sum(g, Paying) = Spend /\ Spend \in Int
  <2>1. \A j \in Paying : g[j] = CostOf[j] /\ g[j] \in Int
    BY <1>1, <1>6
  <2>2. Sum(g, Paying) = Sum(CostOf, Paying)
    BY <1>1, <2>1, SumEqual
  <2> QED BY <2>2, SpendIs, HeadroomInt
<1>14. Sum(price, P) <= Bar - Spend /\ Bar \in Nat
  BY DispatchConstantsOK DEF Headroom
<1>15. Spend' <= Bar
  BY <1>7, <1>9, <1>10, <1>11, <1>12, <1>13, <1>14
<1> QED BY <1>15 DEF Within

\* What a round does to one row.
Becomes(j, order, pools, admitted) ==
  LET R == {order[i] : i \in 1..Len(order)}
  IN \/ j \in admitted /\ row'[j].st = "BUILD_REQUESTED" /\ row'[j].pool = pools[j]
     \/ j \notin admitted /\ j \in R /\ row'[j].st = "BUDGET_DEFERRED"
     \/ j \notin admitted /\ j \notin R /\ j \in Waiting /\ row'[j].st = "QUEUED"
     \/ j \notin admitted /\ j \notin R /\ j \notin Waiting /\ row'[j] = row[j]

\* It does this to every one.
LEMMA DecidedAt ==
  ASSUME row \in [Jobs -> Rows], NEW order, NEW pools, NEW admitted, NEW j \in Jobs,
         row' = Decided(order, pools, admitted)
  PROVE  Becomes(j, order, pools, admitted)
<1> DEFINE R == {order[i] : i \in 1..Len(order)}
           to == Decided(order, pools, admitted)
           New(k) == IF k \in admitted THEN [row[k] EXCEPT !.st = "BUILD_REQUESTED", !.pool = pools[k]]
                     ELSE IF k \in R THEN [row[k] EXCEPT !.st = "BUDGET_DEFERRED"]
                     ELSE IF k \in Waiting THEN [row[k] EXCEPT !.st = "QUEUED"]
                     ELSE row[k]
<1>1. to = [k \in Jobs |-> New(k)]
  BY Zenon DEF Decided
<1>2. row'[j] = New(j)
  <2>1. row' = to
    OBVIOUS
  <2> HIDE DEF New, to
  <2> QED BY <1>1, <2>1
<1>3. row[j] \in Rows
  OBVIOUS
<1> HIDE DEF R, to
<1>4. \/ j \in admitted /\ row'[j].st = "BUILD_REQUESTED" /\ row'[j].pool = pools[j]
      \/ j \notin admitted /\ j \in R /\ row'[j].st = "BUDGET_DEFERRED"
      \/ j \notin admitted /\ j \notin R /\ j \in Waiting /\ row'[j].st = "QUEUED"
      \/ j \notin admitted /\ j \notin R /\ j \notin Waiting /\ row'[j] = row[j]
  <2>1. CASE j \in admitted
    BY <1>2, <1>3, <2>1 DEF Rows
  <2>2. CASE j \notin admitted /\ j \in R
    BY <1>2, <1>3, <2>2 DEF Rows
  <2>3. CASE j \notin admitted /\ j \notin R /\ j \in Waiting
    BY <1>2, <1>3, <2>3 DEF Rows
  <2>4. CASE j \notin admitted /\ j \notin R /\ j \notin Waiting
    BY <1>2, <2>4
  <2> QED BY <2>1, <2>2, <2>3, <2>4
<1> QED BY <1>4 DEF Becomes, R

\* Committed is a sum.
LEMMA CommittedIs ==
  ASSUME NEW f, NEW S,
         S = {j \in Jobs : row'[j].st = "BUILD_REQUESTED" /\ row'[j].pool = Fallback},
         \A j \in S : f[j] = Cost(Plans(Market)[j])
  PROVE  Committed = Spend + Sum(f, S)
<1> DEFINE plan == Plans(Market)
           P(g) == g = [s \in SUBSET S |-> IF s = {} THEN 0
                        ELSE Cost(plan[CHOOSE x \in s : TRUE]) + g[s \ {CHOOSE x \in s : TRUE}]]
           Q(g) == g = [s \in SUBSET S |-> IF s = {} THEN 0
                        ELSE f[CHOOSE x \in s : TRUE] + g[s \ {CHOOSE x \in s : TRUE}]]
<1>1. Committed = Spend + (CHOOSE g : P(g))[S]
  BY DEF Committed, MapThenSumSet, MapThenFoldSet
<1>2. Sum(f, S) = (CHOOSE g : Q(g))[S]
  BY DEF Sum, MapThenSumSet, MapThenFoldSet
<1> HIDE DEF plan
<1>3. \A g : P(g) <=> Q(g)
  <2>1. \A s \in SUBSET S : s # {} =>
          f[CHOOSE x \in s : TRUE] = Cost(plan[CHOOSE x \in s : TRUE])
    BY DEF plan
  <2> TAKE g
  <2>2. [s \in SUBSET S |-> IF s = {} THEN 0
           ELSE Cost(plan[CHOOSE x \in s : TRUE]) + g[s \ {CHOOSE x \in s : TRUE}]]
      = [s \in SUBSET S |-> IF s = {} THEN 0
           ELSE f[CHOOSE x \in s : TRUE] + g[s \ {CHOOSE x \in s : TRUE}]]
    BY <2>1
  <2> QED BY <2>2
<1>4. (CHOOSE g : P(g)) = (CHOOSE g : Q(g))
  <2> HIDE DEF P, Q
  <2> QED BY <1>3, Zenon
<1> QED BY <1>1, <1>2, <1>4

\* A step after which no other job pays keeps within the bar.
LEMMA NoNewPayer ==
  ASSUME IInv, Within, Priced,
         \A j \in Jobs : PaysAfter(j) => j \in Paying /\ row'[j].placement = row[j].placement
  PROVE  Within'
<1> DEFINE P == {}
           price == [j \in P |-> 0]
<1>1. TypeOK /\ Seated
  BY DEF IInv
<1>2. P \subseteq Jobs /\ P \cap Paying = {} /\ \A j \in P : price[j] \in Nat
  OBVIOUS
<1>3. Sum(price, P) <= Headroom
  <2>1. Sum(price, P) = 0
    BY SumEmpty
  <2>2. Spend \in Int /\ Bar \in Nat
    BY <1>1, HeadroomInt, DispatchConstantsOK
  <2> QED BY <2>1, <2>2 DEF Within, Headroom
<1> HIDE DEF P, price
<1> QED BY <1>1, <1>2, <1>3, Spending

\* Which jobs pay.
LEMMA PayingAre ==
  ASSUME NEW j \in Jobs
  PROVE  j \in Paying <=> row[j].st \in {"SUBMITTED", "RUNNING"} /\ row[j].pool = Fallback
BY DEF Paying, In

\* A build keeps within the bar: it asks the budget again.
LEMMA BuildWithin ==
  ASSUME IInv, Within, Priced, NEW m \in Fetches, Build(m)
  PROVE  Within'
<1>1. TypeOK /\ Seated /\ LockKept /\ row \in [Jobs -> Rows]
  BY DEF IInv, TypeOK
<1> DEFINE i == Ordered(In("BUILD_REQUESTED"))[1]
           placement == PlanOne(ask[i], memory[i], m)
<1>2. i \in Jobs /\ row[i].st = "BUILD_REQUESTED"
  <2>1. In("BUILD_REQUESTED") \subseteq Jobs /\ In("BUILD_REQUESTED") # {}
    BY DEF In, Build
  <2>2. i \in In("BUILD_REQUESTED")
    BY <2>1, FirstOf
  <2> QED BY <2>2 DEF In
<1>3. \/ row' = [row EXCEPT ![i].st = "QUEUED"]
      \/ row' = [row EXCEPT ![i].st = "BUDGET_DEFERRED"]
      \/ /\ placement # NoPlacement /\ ~(row[i].pool = Fallback /\ Cost(placement) > Headroom)
         /\ row' = [row EXCEPT ![i] = Submitted(i, placement)]
  BY Zenon DEF Build
<1>4. m = Market => MarketOK(m)
  BY <1>1, MarketIs
<1>5. placement # NoPlacement => Rightly(i, placement)
  <2> HIDE DEF i
  <2> QED BY <1>1, <1>2, <1>4, PlanFetched, PlannedRightly
<1> HIDE DEF i, placement
<1>6. ASSUME NEW st \in {"QUEUED", "BUDGET_DEFERRED"}, row' = [row EXCEPT ![i].st = st]
      PROVE  Within'
  <2>1. row'[i].st = st /\ \A j \in Jobs \ {i} : row'[j] = row[j]
    BY <1>1, <1>2, <1>6 DEF Rows
  <2>2. \A j \in Jobs : PaysAfter(j) => j \in Paying /\ row'[j].placement = row[j].placement
    BY <2>1, PayingAre DEF PaysAfter
  <2> QED BY <2>2, NoNewPayer
<1>7. ASSUME placement # NoPlacement, ~(row[i].pool = Fallback /\ Cost(placement) > Headroom),
             row' = [row EXCEPT ![i] = Submitted(i, placement)]
      PROVE  Within'
  <2>1. row'[i] = [row[i] EXCEPT !.st = "SUBMITTED", !.placement = placement]
        /\ \A j \in Jobs \ {i} : row'[j] = row[j]
    BY <1>1, <1>2, <1>7 DEF Submitted
  <2>2. row'[i].placement = placement /\ row'[i].pool = row[i].pool
    <3>1. row[i] \in Rows
      BY <1>1, <1>2
    <3> QED BY <2>1, <3>1 DEF Rows
  <2>3. CASE row[i].pool # Fallback
    <3>1. \A j \in Jobs : PaysAfter(j) => j \in Paying /\ row'[j].placement = row[j].placement
      BY <2>1, <2>2, <2>3, PayingAre DEF PaysAfter
    <3> QED BY <3>1, NoNewPayer
  <2>4. CASE row[i].pool = Fallback
    <3> DEFINE P == {i}
               price == [j \in P |-> Cost(placement)]
    <3>1. Cost(placement) \in Nat
      BY <1>5, <1>7, CostNat DEF Rightly
    <3>2. Sum(price, P) <= Headroom
      <4>1. price[i] = Cost(placement)
        OBVIOUS
      <4>2. Sum(price, P) = Cost(placement)
        <5> HIDE DEF price
        <5> QED BY <3>1, <4>1, SumOne
      <4>3. Headroom \in Int
        BY <1>1, HeadroomInt
      <4> QED BY <1>7, <2>4, <3>1, <4>2, <4>3
    <3>3. P \cap Paying = {} /\ P \subseteq Jobs
      BY <1>2, PayingAre
    <3>4. \A j \in P : price[j] \in Nat
      BY <3>1
    <3>5. \A j \in Jobs : PaysAfter(j) =>
            \/ j \in P /\ Cost(row'[j].placement) = price[j]
            \/ j \in Paying /\ row'[j].placement = row[j].placement
      BY <2>1, <2>2, PayingAre DEF PaysAfter
    <3> HIDE DEF P, price
    <3> QED BY <1>1, <3>2, <3>3, <3>4, <3>5, Spending
  <2> QED BY <2>3, <2>4
<1> QED BY <1>3, <1>6, <1>7

\* So does a pass: it has admitted what it submits.
LEMMA PassWithin ==
  ASSUME IInv, Within, Priced, Pass
  PROVE  Within'
<1>1. TypeOK /\ Seated /\ LockKept /\ row \in [Jobs -> Rows]
  BY DEF IInv, TypeOK
<1>2. PICK order, plan, charge, placed : IsPass(order, plan, charge, placed)
  BY <1>1, PassIs
<1> DEFINE D == In("QUEUED")
           never == [j \in Jobs |-> FALSE]
           admitted == PlanDispatch(order, never, charge)
<1>3. order \in Seq(D) /\ D \subseteq Jobs
      /\ \A i, k \in 1..Len(order) : order[i] = order[k] => i = k
  BY <1>2, OrdersAre DEF IsPass, In
<1>4. placed = {j \in admitted : plan[j] # NoPlacement}
  BY <1>2, Zenon DEF IsPass
<1>5. charge = [j \in Jobs |-> IF plan[j] = NoPlacement THEN 0 ELSE Cost(plan[j])]
      /\ \A j \in Jobs : plan[j] # NoPlacement => Rightly(j, plan[j])
  BY <1>2 DEF IsPass
<1>6. \A j \in Jobs : charge[j] \in Nat
  <2> TAKE j \in Jobs
  <2>1. plan[j] # NoPlacement => Cost(plan[j]) \in Nat
    BY <1>5, CostNat DEF Rightly
  <2> QED BY <1>5, <2>1
<1>7. Headroom \in Nat
  BY <1>1, HeadroomInt, DispatchConstantsOK DEF Headroom, Within
<1>8. admitted \subseteq {order[i] : i \in 1..Len(order)} /\ Sum(charge, admitted) <= Headroom
  <2>1. \A j \in D : charge[j] \in Nat /\ (never[j] => charge[j] = 0)
    BY <1>3, <1>6
  <2> HIDE DEF never, D
  <2> QED BY <1>3, <1>7, <2>1, FilledGreedily
<1>9. admitted \subseteq D
  <2> HIDE DEF admitted
  <2> QED BY <1>3, <1>8
<1> HIDE DEF admitted, D
<1>10. Sum(charge, placed) <= Headroom
  <2>1. IsFiniteSet(admitted) /\ placed \subseteq admitted
    BY <1>3, <1>4, <1>9, JobsAre, FS_Subset
  <2>2. \A j \in admitted : charge[j] \in Int
    BY <1>3, <1>6, <1>9
  <2>3. \A j \in admitted \ placed : charge[j] = 0
    BY <1>3, <1>4, <1>5, <1>9
  <2> QED BY <1>8, <2>1, <2>2, <2>3, SumZeros
<1>11. placed \subseteq Jobs /\ placed \cap Paying = {}
  BY <1>3, <1>4, <1>9, PayingAre DEF D, In
<1>12. ASSUME NEW j \in Jobs, PaysAfter(j)
       PROVE  \/ j \in placed /\ Cost(row'[j].placement) = charge[j]
              \/ j \in Paying /\ row'[j].placement = row[j].placement
  <2>1. row' = [i \in Jobs |-> IF i \in placed
                               THEN [Submitted(i, plan[i]) EXCEPT !.pool = Fallback] ELSE row[i]]
    BY <1>2 DEF IsPass
  <2>2. CASE j \in placed
    <3>1. row'[j] = [Submitted(j, plan[j]) EXCEPT !.pool = Fallback]
      BY <2>1, <2>2
    <3>2. row[j] \in Rows
      BY <1>1
    <3>3. row'[j].placement = plan[j]
      BY <3>1, <3>2 DEF Submitted, Rows
    <3>4. charge[j] = Cost(plan[j])
      BY <1>4, <1>5, <2>2
    <3> QED BY <2>2, <3>3, <3>4
  <2>3. CASE j \notin placed
    <3>1. row'[j] = row[j]
      BY <2>1, <2>3
    <3> QED BY <1>12, <3>1, PayingAre DEF PaysAfter
  <2> QED BY <2>2, <2>3
<1> QED BY <1>1, <1>6, <1>10, <1>11, <1>12, Spending

\* So does every step.
LEMMA WithinStep ==
  ASSUME IInv, Within, Priced, [Next]_vars
  PROVE  Within'
<1>1. TypeOK /\ Seated /\ row \in [Jobs -> Rows]
  BY DEF IInv, TypeOK
<1>2. ASSUME NEW m \in Fetches, Dispatch(m)
      PROVE  Within'
  <2>1. PICK silent, S, order, pools, exempt, charge : IsRound(m, silent, S, order, pools, exempt, charge)
    BY <1>1, <1>2, RoundIs
  <2>2. \E o, admitted : row' = Decided(o, pools, admitted)
    BY <2>1, Zenon DEF IsRound
  <2>3. PICK o, admitted : row' = Decided(o, pools, admitted)
    BY <2>2
  <2>4. \A j \in Jobs : row'[j].st \in {"BUILD_REQUESTED", "BUDGET_DEFERRED", "QUEUED"} \/ row'[j] = row[j]
    <3> TAKE j \in Jobs
    <3>1. Becomes(j, o, pools, admitted)
      BY <1>1, <2>3, DecidedAt
    <3> QED BY <3>1 DEF Becomes
  <2>5. \A j \in Jobs : PaysAfter(j) => j \in Paying /\ row'[j].placement = row[j].placement
    BY <2>4, PayingAre DEF PaysAfter
  <2> QED BY <2>5, NoNewPayer
<1>3. ASSUME NEW j \in Jobs, Seat(j)
      PROVE  Within'
  <2>1. row' = [row EXCEPT ![j].st = "RUNNING"] /\ row[j].st = "SUBMITTED" /\ row[j] \in Rows
    BY <1>1, <1>3 DEF Seat
  <2>2. row'[j].pool = row[j].pool /\ row'[j].placement = row[j].placement
        /\ \A i \in Jobs \ {j} : row'[i] = row[i]
    BY <1>1, <2>1 DEF Rows
  <2>3. \A i \in Jobs : PaysAfter(i) => i \in Paying /\ row'[i].placement = row[i].placement
    BY <2>1, <2>2, PayingAre DEF PaysAfter
  <2> QED BY <2>3, NoNewPayer
<1>4. ASSUME NEW j \in Jobs, End(j) \/ Move(j)
      PROVE  Within'
  <2>1. row'[j].st \in {"DONE", "QUEUED"} /\ \A i \in Jobs \ {j} : row'[i] = row[i]
    <3>1. CASE End(j)
      BY <1>1, <3>1 DEF End
    <3>2. CASE Move(j)
      <4> DEFINE r == [row[j] EXCEPT !.st = "QUEUED", !.placement = NoPlacement]
      <4>1. row' = [row EXCEPT ![j].st = "QUEUED", ![j].placement = NoPlacement]
        BY <3>2 DEF Move
      <4>2. row' = [row EXCEPT ![j] = r]
        BY <4>1, Zenon
      <4>3. r.st = "QUEUED"
        <5>1. row[j] \in Rows
          BY <1>1
        <5> QED BY <5>1 DEF Rows
      <4> HIDE DEF r
      <4> QED BY <1>1, <4>2, <4>3
    <3> QED BY <1>4, <3>1, <3>2
  <2>2. \A i \in Jobs : PaysAfter(i) => i \in Paying /\ row'[i].placement = row[i].placement
    BY <2>1, PayingAre DEF PaysAfter
  <2> QED BY <2>2, NoNewPayer
<1>5. ASSUME row' = row
      PROVE  Within'
  <2>1. \A i \in Jobs : PaysAfter(i) => i \in Paying /\ row'[i].placement = row[i].placement
    BY <1>5, PayingAre DEF PaysAfter
  <2> QED BY <2>1, NoNewPayer
<1>6. CASE Worker
  BY <1>2, <1>6, BuildWithin DEF Worker
<1>7. CASE Pass
  BY <1>7, PassWithin
<1>8. CASE World
  <2>1. CASE Tick
    <3>1. row' = row
      BY <2>1, Zenon DEF Tick
    <3> QED BY <1>5, <3>1
  <2>2. ASSUME NEW p \in Pairs, Worsen(p) \/ Reopen(p)
        PROVE  Within'
    BY <1>5, <2>2 DEF Worsen, Reopen
  <2>3. ASSUME NEW g \in PreferredPools, Recount(g) \/ Lapse(g)
        PROVE  Within'
    BY <1>5, <2>3 DEF Recount, Lapse
  <2>4. ASSUME NEW a \in Hosted, Fail(a) \/ Answer(a)
        PROVE  Within'
    BY <1>5, <2>4 DEF Fail, Answer
  <2> QED BY <1>3, <1>4, <1>8, <2>1, <2>2, <2>3, <2>4 DEF World
<1>9. CASE UNCHANGED vars
  BY <1>5, <1>9 DEF vars
<1> QED BY <1>6, <1>7, <1>8, <1>9 DEF Next

\* And there is nothing to pay for at first.
LEMMA StartsWithin == Init => Within
<1> SUFFICES ASSUME Init
             PROVE  Within
  OBVIOUS
<1>1. Paying = {}
  BY DEF Init, Paying, In
<1>2. Spend = 0
  BY <1>1, SpendIs, SumEmpty
<1> QED BY <1>2, DispatchConstantsOK DEF Within

\* The jobs of the Fallback pool never cost more than the bar, even where the probes of
\* the budget fail: a build asks again before it submits. (budget_check,
\* run_worker_once)
THEOREM BarKept ==
  ASSUME Priced
  PROVE  Spec => []Within
<1>1. Init => Within
  BY StartsWithin
<1>2. IInv /\ Within /\ [Next]_vars => Within'
  BY WithinStep
<1> QED BY <1>1, <1>2, Invariance, PTL DEF Spec

-----------------------------------------------------------------------------
(* What a round sends.                                                     *)

\* A round that sends something: the jobs it takes up, in their order, each with its
\* pool.
IsSending(silent, S, order, pools, exempt, charge, admitted) ==
  /\ IsRound(Market, silent, S, order, pools, exempt, charge)
  /\ admitted = PlanDispatch(order, exempt, charge)
  /\ {order[i] : i \in 1..Len(order)} = S
  /\ \A i, k \in 1..Len(order) : i < k <=> Place[order[i]] < Place[order[k]]
  /\ \A i, k \in 1..Len(order) : order[i] = order[k] => i = k
  /\ \A j \in Jobs :
       /\ row[j].st # "BUILD_REQUESTED"
       /\ row'[j].st = "BUILD_REQUESTED" <=> j \in admitted
       /\ j \in admitted => row'[j].pool = pools[j]
       /\ row'[j].st = "BUDGET_DEFERRED" => j \in S \ admitted

\* A round that admits is one: its fetch did not fail, and nothing was to be built yet.
LEMMA RoundSends ==
  ASSUME IInv, NEW m \in Fetches, Dispatch(m), Admitted # {}
  PROVE  \E silent, S, order, pools, exempt, charge, admitted :
           IsSending(silent, S, order, pools, exempt, charge, admitted)
<1>1. TypeOK /\ Seated /\ LockKept /\ row \in [Jobs -> Rows]
  BY DEF IInv, TypeOK
<1>2. PICK silent, S, order, pools, exempt, charge : IsRound(m, silent, S, order, pools, exempt, charge)
  BY <1>1, RoundIs
<1> DEFINE admitted == PlanDispatch(order, exempt, charge)
           R == {order[i] : i \in 1..Len(order)}
<1>3. /\ S \subseteq Jobs /\ order = Ordered(S) /\ order \in Seq(S)
      /\ \A j \in S : m = Market
      /\ row' = IF Backpressure THEN Decided(<<>>, pools, {}) ELSE Decided(order, pools, admitted)
      /\ admitted \subseteq R
  BY <1>2 DEF IsRound
<1>4. \A j \in S : \E i \in 1..Len(order) : order[i] = j
  BY <1>3, OrderedFacts
<1>5. R = S
  <2>1. \A i \in 1..Len(order) : order[i] \in S
    BY <1>3
  <2> QED BY <1>4, <2>1
<1>6. \A i \in 1..Len(order) : Place[order[i]] \in Nat
  <2>1. \A i \in 1..Len(order) : order[i] \in Jobs
    BY <1>3
  <2>2. Len(Queue) \in Nat
    BY JobsAre
  <2> QED BY <2>1, <2>2, PlaceIs
<1>7. \A i, k \in 1..Len(order) : i < k => Place[order[i]] < Place[order[k]]
  BY <1>3, OrderedFacts
<1>8. \A i, k \in 1..Len(order) :
        (i < k <=> Place[order[i]] < Place[order[k]]) /\ (order[i] = order[k] => i = k)
  <2> TAKE i, k \in 1..Len(order)
  <2>1. i < k \/ i = k \/ k < i
    OBVIOUS
  <2> QED BY <1>6, <1>7, <2>1
<1>9. PICK j0 \in Jobs : row[j0].st # "BUILD_REQUESTED" /\ row'[j0].st = "BUILD_REQUESTED"
  BY DEF Admitted
<1> HIDE DEF admitted
<1>10. ~Backpressure
  <2> SUFFICES ASSUME Backpressure PROVE FALSE
    OBVIOUS
  <2> DEFINE none == {}
             o == <<>>
  <2>1. row' = Decided(o, pools, none)
    BY <1>3
  <2>2. j0 \notin none
    OBVIOUS
  <2> HIDE DEF none, o
  <2>3. row'[j0].st \in {"BUDGET_DEFERRED", "QUEUED", row[j0].st}
    <3>1. Becomes(j0, o, pools, none)
      BY <1>1, <2>1, DecidedAt
    <3> QED BY <2>2, <3>1 DEF Becomes
  <2> QED BY <1>9, <2>3
<1>11. row' = Decided(order, pools, admitted) /\ \A j \in Jobs : row[j].st # "BUILD_REQUESTED"
  BY <1>3, <1>10 DEF Backpressure, In
<1>12. \A j \in Jobs :
         \/ j \in admitted /\ row'[j].st = "BUILD_REQUESTED" /\ row'[j].pool = pools[j]
         \/ j \notin admitted /\ j \in R /\ row'[j].st = "BUDGET_DEFERRED"
         \/ j \notin admitted /\ j \notin R /\ j \in Waiting /\ row'[j].st = "QUEUED"
         \/ j \notin admitted /\ j \notin R /\ j \notin Waiting /\ row'[j] = row[j]
  <2> TAKE j \in Jobs
  <2> HIDE DEF R
  <2>1. Becomes(j, order, pools, admitted)
    BY <1>1, <1>11, DecidedAt
  <2> QED BY <2>1 DEF Becomes, R
<1>13. m = Market
  BY <1>3, <1>5, <1>9, <1>11, <1>12
<1>14. \A j \in Jobs :
         /\ row'[j].st = "BUILD_REQUESTED" <=> j \in admitted
         /\ j \in admitted => row'[j].pool = pools[j]
         /\ row'[j].st = "BUDGET_DEFERRED" => j \in S \ admitted
  <2> TAKE j \in Jobs
  <2>1. j \notin Waiting => row[j].st # "BUDGET_DEFERRED"
    BY DEF Waiting, In
  <2> QED BY <1>5, <1>11, <1>12, <2>1
<1>15. IsSending(silent, S, order, pools, exempt, charge, admitted)
  <2>1. IsRound(Market, silent, S, order, pools, exempt, charge)
    BY <1>2, <1>13
  <2>2. admitted = PlanDispatch(order, exempt, charge)
    BY DEF admitted
  <2> QED BY <1>5, <1>8, <1>11, <1>14, <2>1, <2>2 DEF IsSending
<1> QED BY <1>15

\* The probes of the budget answer. Where one does not, the round takes the job for
\* exempt, and sends it unbudgeted; the build asks again.
Answered == "probe" \notin Faults

\* A pin names a pool of the router, or none. A job pinned to another is held against
\* the headroom, and does not count in what the bar pays for.
PinsKnown == \A j \in Jobs : \A a \in Asks[j] : a.pin \in Pools \cup {NoPool}

\* The jobs a round takes up, sends and defers.
IsFilled(S, pools, plan, charge, admitted) ==
  /\ S \subseteq Jobs /\ admitted \subseteq S /\ pools \in [Jobs -> Groups]
  /\ \A j \in S : charge[j] \in Nat /\ pools[j] # NoPool
  /\ \A j \in S : charge[j] = IF pools[j] \in PreferredPools THEN 0 ELSE Cost(plan[j])
  /\ Sum(charge, admitted) <= Headroom
  /\ \A j \in S \ admitted : pools[j] \notin PreferredPools /\ Sum(charge, admitted) + charge[j] > Headroom
  /\ \A j \in Jobs :
       /\ row'[j].st = "BUILD_REQUESTED" <=> j \in admitted
       /\ j \in admitted => row'[j].pool = pools[j]
       /\ row'[j].st = "BUDGET_DEFERRED" => j \in S \ admitted

\* A round fills its headroom greedily.
LEMMA RoundIsFilled ==
  ASSUME IInv, Within, Priced, Answered, NEW m \in Fetches, Dispatch(m), Admitted # {}
  PROVE  \E S, pools, charge, admitted : IsFilled(S, pools, Plans(Market), charge, admitted)
<1>1. TypeOK /\ Seated /\ LockKept
  BY DEF IInv
<1>2. PICK silent, S, order, pools, exempt, charge, admitted :
        IsSending(silent, S, order, pools, exempt, charge, admitted)
  BY RoundSends
<1> DEFINE plan == Plans(Market)
<1>3. /\ silent = {} /\ S \subseteq Jobs /\ order \in Seq(S) /\ pools \in [Jobs -> Groups]
      /\ \A i \in 1..Len(order) : pools[order[i]] # NoPool
      /\ exempt = [j \in Jobs |-> Exempt(pools[j], silent)]
      /\ charge = [j \in Jobs |-> Charge(pools[j], plan[j], silent)]
      /\ S = {j \in Waiting : plan[j] # NoPlacement}
      /\ \A j \in S : plan[j] = PlanOne(ask[j], memory[j], Market)
  BY <1>2 DEF IsSending, IsRound, Answered
<1>4. /\ {order[i] : i \in 1..Len(order)} = S /\ admitted = PlanDispatch(order, exempt, charge)
      /\ \A i, k \in 1..Len(order) : order[i] = order[k] => i = k
      /\ \A j \in Jobs : /\ row'[j].st = "BUILD_REQUESTED" <=> j \in admitted
                         /\ j \in admitted => row'[j].pool = pools[j]
                         /\ row'[j].st = "BUDGET_DEFERRED" => j \in S \ admitted
  BY <1>2 DEF IsSending
<1>5. \A j \in S : charge[j] = IF pools[j] \in PreferredPools THEN 0 ELSE Cost(plan[j])
  BY <1>3 DEF Charge
<1>6. \A j \in S : exempt[j] <=> pools[j] \in PreferredPools
  BY <1>3 DEF Exempt
<1>7. \A j \in S : Cost(plan[j]) \in Nat
  <2> TAKE j \in S
  <2>1. MarketOK(Market)
    BY <1>1, MarketIs
  <2>2. PlanOne(ask[j], memory[j], Market) # NoPlacement /\ plan[j] = PlanOne(ask[j], memory[j], Market)
        /\ j \in Jobs
    BY <1>3
  <2>3. Rightly(j, plan[j])
    BY <1>1, <2>1, <2>2, PlannedRightly
  <2> QED BY <2>3, CostNat DEF Rightly
<1> HIDE DEF plan
<1>8. \A j \in S : charge[j] \in Nat /\ (exempt[j] => charge[j] = 0)
  BY <1>5, <1>6, <1>7
<1>9. Headroom \in Nat
  BY <1>1, HeadroomInt, DispatchConstantsOK DEF Headroom, Within
<1>10. /\ admitted \subseteq S /\ Sum(charge, admitted) <= Headroom
       /\ \A i \in 1..Len(order) : order[i] \notin admitted =>
            ~exempt[order[i]] /\ Sum(charge, admitted) + charge[order[i]] > Headroom
  <2>1. S \subseteq Jobs /\ order \in Seq(S)
    BY <1>3
  <2> QED BY <1>4, <1>8, <1>9, <2>1, FilledGreedily
<1>11. \A j \in S \ admitted : ~exempt[j] /\ Sum(charge, admitted) + charge[j] > Headroom
  BY <1>4, <1>10
<1>12. \A j \in S : pools[j] # NoPool
  BY <1>3, <1>4
<1>13. IsFilled(S, pools, plan, charge, admitted)
  BY <1>3, <1>4, <1>5, <1>6, <1>8, <1>10, <1>11, <1>12 DEF IsFilled
<1> QED BY <1>13 DEF plan

\* So it commits no more than the bar, and defers nothing that would have fitted.
LEMMA RoundFacts ==
  ASSUME IInv, Within, Priced, Answered, NEW m \in Fetches, Dispatch(m), Admitted # {}
  PROVE  /\ Committed <= Bar
         /\ PinsKnown => \A j \in Jobs : row'[j].st = "BUDGET_DEFERRED" =>
                           Committed + Cost(Plans(Market)[j]) > Bar
<1> DEFINE plan == Plans(Market)
<1>1. PICK S, pools, charge, admitted : IsFilled(S, pools, plan, charge, admitted)
  BY RoundIsFilled
<1>2. TypeOK /\ Seated
  BY DEF IInv
<1> DEFINE X == {j \in Jobs : row'[j].st = "BUILD_REQUESTED" /\ row'[j].pool = Fallback}
<1>3. /\ S \subseteq Jobs /\ admitted \subseteq S /\ pools \in [Jobs -> Groups]
      /\ \A j \in S : charge[j] \in Nat /\ pools[j] # NoPool
      /\ \A j \in S : charge[j] = IF pools[j] \in PreferredPools THEN 0 ELSE Cost(plan[j])
      /\ \A j \in Jobs : row'[j].st = "BUILD_REQUESTED" <=> j \in admitted
      /\ \A j \in admitted : row'[j].pool = pools[j]
  BY <1>1 DEF IsFilled
<1>4. X \subseteq admitted /\ \A j \in X : charge[j] = Cost(plan[j])
  <2>1. Fallback \notin PreferredPools
    BY DispatchConstantsOK
  <2> HIDE DEF plan
  <2> QED BY <1>3, <2>1
<1>5. Committed = Spend + Sum(charge, X)
  BY <1>4, CommittedIs
<1> HIDE DEF plan, X
<1>6. IsFiniteSet(admitted) /\ \A j \in admitted : charge[j] \in Int /\ charge[j] >= 0
  <2>1. IsFiniteSet(admitted)
    BY <1>3, JobsAre, FS_Subset
  <2> QED BY <1>3, <2>1
<1>7. Sum(charge, X) <= Sum(charge, admitted) /\ Sum(charge, X) \in Int /\ Sum(charge, admitted) \in Int
  BY <1>4, <1>6, SumGrows
<1>8. Spend \in Int /\ Bar \in Nat /\ Headroom = Bar - Spend
  BY <1>2, HeadroomInt, DispatchConstantsOK DEF Headroom
<1>9. Sum(charge, admitted) <= Headroom
      /\ \A j \in S \ admitted : pools[j] \notin PreferredPools /\ Sum(charge, admitted) + charge[j] > Headroom
  BY <1>1 DEF IsFilled
<1>10. Committed <= Bar
  BY <1>5, <1>7, <1>8, <1>9
<1>11. ASSUME PinsKnown, NEW j \in Jobs, row'[j].st = "BUDGET_DEFERRED"
       PROVE  Committed + Cost(plan[j]) > Bar
  <2>1. j \in S \ admitted
    BY <1>1, <1>11 DEF IsFilled
  <2>2. Groups = Pools \cup {NoPool}
    BY <1>11 DEF PinsKnown, Groups
  <2>3. \A i \in admitted \ X : charge[i] = 0
    <3> TAKE i \in admitted \ X
    <3>1. pools[i] # Fallback
      BY <1>3 DEF X
    <3>2. pools[i] \in PreferredPools
      BY <1>3, <2>2, <3>1 DEF Pools
    <3> QED BY <1>3, <3>2
  <2>4. Sum(charge, X) = Sum(charge, admitted)
    BY <1>4, <1>6, <2>3, SumZeros
  <2>5. charge[j] = Cost(plan[j]) /\ charge[j] \in Nat
    BY <1>3, <1>9, <2>1
  <2> QED BY <1>5, <1>7, <1>8, <1>9, <2>1, <2>4, <2>5
<1> QED BY <1>10, <1>11 DEF plan

\* A step that admits anything is a round.
LEMMA OnlyRoundsAdmit ==
  ASSUME IInv, [Next]_vars, Admitted # {}
  PROVE  \E m \in Fetches : Dispatch(m)
<1>1. row \in [Jobs -> Rows] /\ TypeOK /\ Seated /\ LockKept
  BY DEF IInv, TypeOK
<1>2. PICK j \in Jobs : row[j].st # "BUILD_REQUESTED" /\ row'[j].st = "BUILD_REQUESTED"
  BY DEF Admitted
<1>3. row[j] \in Rows /\ row' # row
  BY <1>1, <1>2
<1>4. ASSUME NEW m \in Fetches, Build(m)
      PROVE  FALSE
  <2> DEFINE i == Ordered(In("BUILD_REQUESTED"))[1]
             placement == PlanOne(ask[i], memory[i], m)
  <2>1. \/ row' = [row EXCEPT ![i].st = "QUEUED"]
        \/ row' = [row EXCEPT ![i].st = "BUDGET_DEFERRED"]
        \/ row' = [row EXCEPT ![i] = Submitted(i, placement)]
    BY <1>4, Zenon DEF Build
  <2> HIDE DEF i, placement
  <2>2. CASE i # j
    <3>1. row'[j] = row[j]
      BY <1>1, <2>1, <2>2
    <3> QED BY <1>2, <3>1
  <2>3. CASE i = j
    <3>1. \/ row'[j] = [row[j] EXCEPT !.st = "QUEUED"]
          \/ row'[j] = [row[j] EXCEPT !.st = "BUDGET_DEFERRED"]
          \/ row'[j] = [row[j] EXCEPT !.st = "SUBMITTED", !.placement = placement]
      BY <1>1, <2>1, <2>3 DEF Submitted
    <3>2. row'[j].st # "BUILD_REQUESTED"
      BY <1>3, <3>1 DEF Rows
    <3> QED BY <1>2, <3>2
  <2> QED BY <2>2, <2>3
<1>5. ~Pass
  <2> SUFFICES ASSUME Pass PROVE FALSE
    OBVIOUS
  <2>1. PICK order, plan, charge, placed : IsPass(order, plan, charge, placed)
    BY <1>1, PassIs
  <2>2. row' = [i \in Jobs |-> IF i \in placed
                               THEN [Submitted(i, plan[i]) EXCEPT !.pool = Fallback] ELSE row[i]]
    BY <2>1 DEF IsPass
  <2>3. row'[j] = [Submitted(j, plan[j]) EXCEPT !.pool = Fallback]
    BY <1>2, <2>2
  <2>4. row'[j].st = "SUBMITTED"
    BY <1>3, <2>3 DEF Submitted, Rows
  <2> QED BY <1>2, <2>4
<1>6. ASSUME NEW i \in Jobs, Seat(i) \/ End(i) \/ Move(i)
      PROVE  FALSE
  <2>1. row'[i].st # "BUILD_REQUESTED" /\ \A k \in Jobs \ {i} : row'[k] = row[k]
    <3>1. row[i] \in Rows
      BY <1>1
    <3>2. CASE Seat(i)
      BY <1>1, <3>1, <3>2 DEF Seat, Rows
    <3>3. CASE End(i)
      BY <1>1, <3>3 DEF End
    <3>4. CASE Move(i)
      <4> DEFINE r == [row[i] EXCEPT !.st = "QUEUED", !.placement = NoPlacement]
      <4>1. row' = [row EXCEPT ![i].st = "QUEUED", ![i].placement = NoPlacement]
        BY <3>4 DEF Move
      <4>2. row' = [row EXCEPT ![i] = r]
        BY <4>1, Zenon
      <4>3. r.st = "QUEUED"
        BY <3>1 DEF Rows
      <4> HIDE DEF r
      <4> QED BY <1>1, <4>2, <4>3
    <3> QED BY <1>6, <3>2, <3>3, <3>4
  <2> QED BY <1>2, <2>1
<1>7. \A p \in Pairs : ~(Worsen(p) \/ Reopen(p))
  BY <1>3 DEF Worsen, Reopen
<1>8. \A g \in PreferredPools : ~(Recount(g) \/ Lapse(g))
  BY <1>3 DEF Recount, Lapse
<1>9. ~Tick
  BY <1>3, Zenon DEF Tick
<1>10. ~UNCHANGED vars
  BY <1>3 DEF vars
<1>11. \A a \in Hosted : ~(Fail(a) \/ Answer(a))
  BY <1>3 DEF Fail, Answer
<1>12. ~World
  BY <1>6, <1>7, <1>8, <1>9, <1>11 DEF World
<1> QED BY <1>4, <1>5, <1>10, <1>12 DEF Next, Worker

\* Whatever a round admits costs, with all that is admitted or runs already, no more
\* than the bar. (plan_dispatch)
THEOREM RoundsAreWithinBar ==
  ASSUME Priced, Answered
  PROVE  Spec => RoundWithinBar
<1>1. IInv /\ Within /\ [Next]_vars => [Admitted # {} => Committed <= Bar]_vars
  BY OnlyRoundsAdmit, RoundFacts
<1> QED BY <1>1, Invariance, BarKept, PTL DEF RoundWithinBar, Spec

\* And a job it defers would not have fitted beside them. (plan_dispatch)
THEOREM RoundsFillBar ==
  ASSUME Priced, Answered, PinsKnown
  PROVE  Spec => RoundFillsBar
<1> DEFINE Filled ==
      \A j \in Jobs : (mode = "worker" /\ row'[j].st = "BUDGET_DEFERRED") =>
        Committed + Cost(Plans(Market)[j]) > Bar
<1>1. IInv /\ Within /\ [Next]_vars => [Admitted # {} => Filled]_vars
  BY OnlyRoundsAdmit, RoundFacts
<1> QED BY <1>1, Invariance, BarKept, PTL DEF RoundFillsBar, Spec

-----------------------------------------------------------------------------
(* No way back.                                                            *)

\* BackOnlyIfNowhereElse, of one step.
BackStep ==
  \A j \in Jobs :
    (mode = "worker" /\ row[j].st = "BUILD_REQUESTED" /\ row'[j].st = "SUBMITTED"
       /\ Cooling(memory[j], PairOf(row'[j].placement))) =>
      \A s \in CandidateShapes(ask[j], memory[j].mesh) :
        LET S == Placeable(ask[j], s, Market)
            Better(q, p) == CellKey(memory[j], q, s, Market) < CellKey(memory[j], p, s, Market)
        IN ~\E q \in S : /\ ~Cooling(memory[j], q)
                         /\ \A p \in S : Cooling(memory[j], p) => Better(q, p)

\* Only a build submits a job that a round has asked for.
LEMMA OnlyBuildSends ==
  ASSUME IInv, [Next]_vars, mode = "worker", NEW j \in Jobs,
         row[j].st = "BUILD_REQUESTED", row'[j].st = "SUBMITTED"
  PROVE  \E m \in Fetches : Build(m)
<1>1. row \in [Jobs -> Rows] /\ TypeOK /\ Seated
  BY DEF IInv, TypeOK
<1>2. ASSUME NEW m \in Fetches, Dispatch(m)
      PROVE  FALSE
  <2>1. PICK silent, S, order, pools, exempt, charge : IsRound(m, silent, S, order, pools, exempt, charge)
    BY <1>1, <1>2, RoundIs
  <2>2. \E o, admitted : row' = Decided(o, pools, admitted)
    BY <2>1, Zenon DEF IsRound
  <2>3. PICK o, admitted : row' = Decided(o, pools, admitted)
    BY <2>2
  <2>4. row'[j].st \in {"BUILD_REQUESTED", "BUDGET_DEFERRED", "QUEUED", row[j].st}
    <3>1. Becomes(j, o, pools, admitted)
      BY <1>1, <2>3, DecidedAt
    <3> QED BY <3>1 DEF Becomes
  <2> QED BY <2>4
<1>3. ~Pass
  BY DEF Pass
<1>4. ASSUME NEW i \in Jobs, Seat(i) \/ End(i) \/ Move(i)
      PROVE  FALSE
  <2>1. \/ row'[j].st \in {"RUNNING", "DONE", "QUEUED"}
        \/ row'[j] = row[j]
    BY <1>1, <1>4, LeavingRow
  <2> QED BY <2>1
<1>5. row' # row
  OBVIOUS
<1>6. \A p \in Pairs : ~(Worsen(p) \/ Reopen(p))
  BY <1>5 DEF Worsen, Reopen
<1>7. \A g \in PreferredPools : ~(Recount(g) \/ Lapse(g))
  BY <1>5 DEF Recount, Lapse
<1>8. ~Tick
  BY <1>5, Zenon DEF Tick
<1>9. ~UNCHANGED vars
  BY <1>5 DEF vars
<1>10. \A a \in Hosted : ~(Fail(a) \/ Answer(a))
  BY <1>5 DEF Fail, Answer
<1>11. ~World
  BY <1>4, <1>6, <1>7, <1>8, <1>10 DEF World
<1> QED BY <1>2, <1>3, <1>9, <1>11 DEF Next, Worker

\* And a build plans by plan_one.
LEMMA BackStepHolds == IInv /\ [Next]_vars => BackStep
<1> SUFFICES ASSUME IInv, [Next]_vars, NEW j \in Jobs,
                    mode = "worker", row[j].st = "BUILD_REQUESTED", row'[j].st = "SUBMITTED",
                    Cooling(memory[j], PairOf(row'[j].placement))
             PROVE  Elsewhere(ask[j], memory[j], Market)
  BY DEF BackStep, Elsewhere
<1>1. TypeOK /\ row \in [Jobs -> Rows]
  BY DEF IInv, TypeOK
<1>2. PICK m \in Fetches : Build(m)
  BY OnlyBuildSends
<1> DEFINE i == Ordered(In("BUILD_REQUESTED"))[1]
           placement == PlanOne(ask[i], memory[i], m)
<1>3. i \in Jobs
  <2>1. In("BUILD_REQUESTED") \subseteq Jobs /\ In("BUILD_REQUESTED") # {}
    BY DEF In
  <2> QED BY <2>1, FirstOf
<1>4. \/ row' = [row EXCEPT ![i].st = "QUEUED"]
      \/ row' = [row EXCEPT ![i].st = "BUDGET_DEFERRED"]
      \/ placement # NoPlacement /\ row' = [row EXCEPT ![i] = Submitted(i, placement)]
  BY <1>2, Zenon DEF Build
<1> HIDE DEF i
<1>5. i = j /\ placement # NoPlacement /\ row' = [row EXCEPT ![i] = Submitted(i, placement)]
  <2> HIDE DEF placement
  <2>1. row[j] \in Rows /\ row[i] \in Rows /\ DOMAIN row = Jobs
    BY <1>1, <1>3
  <2>2. ASSUME NEW st, row' = [row EXCEPT ![i].st = st]
        PROVE  row'[j].st \in {st, row[j].st}
    BY <2>1, <2>2 DEF Rows
  <2>3. placement # NoPlacement /\ row' = [row EXCEPT ![i] = Submitted(i, placement)]
    BY <1>4, <2>2
  <2>4. i = j
    BY <2>1, <2>3
  <2> QED BY <2>3, <2>4
<1>6. row'[j].placement = placement
  <2> HIDE DEF placement
  <2>1. row'[j] = [row[j] EXCEPT !.st = "SUBMITTED", !.placement = placement]
    BY <1>1, <1>5 DEF Submitted
  <2>2. row[j] \in Rows
    BY <1>1
  <2> QED BY <2>1, <2>2 DEF Rows
<1>7. placement = PlanOne(ask[j], memory[j], Market)
  BY <1>1, <1>3, <1>5, PlanFetched
<1>8. MarketOK(Market) /\ MemoryOK(memory[j])
  BY <1>1, MarketIs, MemoryOKIs
<1>9. PICK p : PairOf(placement) = p /\ (Cooling(memory[j], p) => Elsewhere(ask[j], memory[j], Market))
  BY <1>5, <1>7, <1>8, PlanOneIs
<1> QED BY <1>6, <1>9

\* A job goes back to a pair it was moved off only if, in every shape it accepts, no warm
\* cell of the generations that were fetched is better than all the cooling ones, their
\* penalties counted. (plan_one)
THEOREM NoWayBack == Spec => BackOnlyIfNowhereElse
<1>1. IInv /\ [Next]_vars => [BackStep]_vars
  BY BackStepHolds
<1> QED BY <1>1, Invariance, PTL DEF BackOnlyIfNowhereElse, Spec, BackStep

-----------------------------------------------------------------------------
(* No herd.                                                                *)

\* The chips of a plan.
TakenBy(plan) == [j \in Jobs |-> plan[j].chips]

\* The jobs it sends to a pair.
Takers(plan, p) == {j \in Jobs : plan[j] # NoPlacement /\ PairOf(plan[j]) = p}

\* The plans of a pass take no more of a pair than was free there: what is free and what
\* is taken remain one sum along the walk, and what is free does not fall below zero.
LEMMA PassFits ==
  ASSUME TypeOK, LockKept, NEW order \in Seq(Jobs),
         \A i, k \in 1..Len(order) : order[i] = order[k] => i = k, NEW p \in Pairs
  PROVE  LET plan == SelectAndPlan(order, Market)
         IN Takers(plan, p) # {} => Sum(TakenBy(plan), Takers(plan, p)) <= ShownAt(p)
<1> DEFINE n == Len(order)
<1>1. PICK w : IsPlanWalk(w, order)
  BY PlanWalk
<1>2. n \in Nat /\ \A i \in 1..n : order[i] \in Jobs
  OBVIOUS
<1>3. \A k \in 0..n : w[k] \in Planned
  BY <1>1 DEF IsPlanWalk
<1>4. \A plan \in [Jobs -> Placements] : IsFiniteSet(Takers(plan, p))
        /\ \A j \in Jobs : TakenBy(plan)[j] = plan[j].chips /\ TakenBy(plan)[j] \in Nat
  <2> TAKE plan \in [Jobs -> Placements]
  <2>1. Takers(plan, p) \subseteq Jobs
    BY DEF Takers
  <2>2. IsFiniteSet(Takers(plan, p))
    BY <2>1, JobsAre, FS_Subset
  <2>3. \A j \in Jobs : TakenBy(plan)[j] = plan[j].chips /\ TakenBy(plan)[j] \in Nat
    <3> TAKE j \in Jobs
    <3>1. plan[j] \in Placements
      OBVIOUS
    <3>2. plan[j].chips \in Nat
      BY <3>1 DEF Placements, Placed, NoPlacement
    <3> QED BY <3>2 DEF TakenBy
  <2> QED BY <2>2, <2>3
<1>5. ShownAt(p) = Market.free[p] /\ ShownAt(p) \in Int
  BY MarketIs DEF MarketOK
<1> DEFINE Holds(k, free, plan) ==
             /\ free[p] \in Int /\ Sum(TakenBy(plan), Takers(plan, p)) \in Int
             /\ free[p] + Sum(TakenBy(plan), Takers(plan, p)) = ShownAt(p)
             /\ Takers(plan, p) # {} => free[p] >= 0
             /\ \A j \in Jobs : plan[j] # NoPlacement => \E i \in 1..k : order[i] = j
           G == {k \in 0..n : Holds(k, w[k].m.free, w[k].plan)}
<1>6. 0 \in G
  <2>1. w[0].m = Market /\ w[0].plan = [j \in Jobs |-> NoPlacement]
    BY <1>1 DEF IsPlanWalk
  <2>2. Takers(w[0].plan, p) = {} /\ \A j \in Jobs : w[0].plan[j] = NoPlacement
    BY <2>1 DEF Takers
  <2>3. Sum(TakenBy(w[0].plan), Takers(w[0].plan, p)) = 0
    BY <2>2, SumEmpty
  <2>4. Holds(0, w[0].m.free, w[0].plan)
    BY <1>5, <2>1, <2>2, <2>3
  <2> HIDE DEF Holds
  <2> QED BY <1>2, <2>4
<1>7. ASSUME NEW k \in 1..n, k - 1 \in G
      PROVE  k \in G
  <2> DEFINE v == w[k - 1]
             i == order[k]
             o == One(v, i)
             free == v.m.free
             plan == v.plan
             more == [plan EXCEPT ![i] = o]
  <2>1. k - 1 \in 0..n /\ k \in 0..n /\ k \in Nat /\ v \in Planned /\ i \in Jobs
    BY <1>2, <1>3
  <2>2. w[k].m = Taken(v.m, o) /\ w[k].plan = more
    BY <1>1 DEF IsPlanWalk
  <2>3. Holds(k - 1, free, plan)
    BY <1>7
  <2>4. \A l \in 1..(k - 1) : l \in 1..k /\ order[l] # i
    BY <2>1
  <2>5. plan[i] = NoPlacement
    <3> HIDE DEF i, v
    <3> QED BY <2>1, <2>3, <2>4
  <2>6. \A j \in Jobs : more[j] # NoPlacement => \E l \in 1..k : order[l] = j
    <3>1. plan \in [Jobs -> Placements]
      BY <2>1 DEF Planned
    <3>2. \E l \in 1..k : order[l] = i
      BY <2>1
    <3> HIDE DEF i, plan, o
    <3> QED BY <2>1, <2>3, <2>4, <3>1, <3>2
  <2>7. plan \in [Jobs -> Placements] /\ o \in Placements /\ MarketOK(v.m) /\ v.m \in MarketsLike(Market)
    BY <2>1, OneIs DEF Planned
  <2>8. w[k].m.free = IF o = NoPlacement THEN free
                      ELSE [free EXCEPT ![PairOf(o)] = Positive(free[PairOf(o)] - o.chips)]
    <3>1. Taken(v.m, o).free = IF o = NoPlacement THEN v.m.free
            ELSE [v.m.free EXCEPT ![PairOf(o)] = Positive(v.m.free[PairOf(o)] - o.chips)]
      <4> HIDE DEF v, o
      <4> QED BY <2>7, TakenIs
    <3> QED BY <2>2, <3>1, Zenon
  <2>9. free \in [Pairs -> Int]
    BY <2>7 DEF MarketOK
  <2> SUFFICES Holds(k, w[k].m.free, more)
    BY <2>1, <2>2
  <2>10. CASE o = NoPlacement
    <3>1. more = plan
      BY <2>5, <2>7, <2>10
    <3>2. Holds(k, free, plan)
      BY <2>3, <2>6, <3>1
    <3> HIDE DEF Holds
    <3> QED BY <2>8, <2>10, <3>1, <3>2
  <2>11. CASE o # NoPlacement
    <3> DEFINE q == PairOf(o)
    <3>1. q \in Pairs /\ free[q] >= o.chips /\ o.chips \in Nat
      <4>1. MemoryOK(memory[i])
        BY <2>1, MemoryOKIs
      <4>2. PICK s \in CandidateShapes(ask[i], memory[i].mesh) : \E r \in Placeable(ask[i], s, v.m) :
               o = [cell |-> r.cell, arch |-> s.arch, chips |-> s.chips] /\ PairOf(o) = r
        BY <2>7, <2>11, <4>1, PlanOneIs DEF One
      <4>3. PICK r \in Placeable(ask[i], s, v.m) :
               o = [cell |-> r.cell, arch |-> s.arch, chips |-> s.chips] /\ PairOf(o) = r
        BY <4>2
      <4>4. s \in Shapes /\ o.chips = s.chips /\ q = r
        BY <4>3, CandidatesAre
      <4>5. r \in Pairs /\ v.m.free[r] >= s.chips /\ s.chips \in Nat \ {0}
        BY <2>7, <4>4, PlacedFits
      <4> QED BY <4>4, <4>5
    <3>2. w[k].m.free = [free EXCEPT ![q] = free[q] - o.chips] /\ free[q] - o.chips >= 0
          /\ free[q] - o.chips \in Int
      <4>1. free[q] \in Int
        BY <2>9, <3>1
      <4>2. Positive(free[q] - o.chips) = free[q] - o.chips /\ free[q] - o.chips >= 0
        BY <3>1, <4>1 DEF Positive
      <4>3. w[k].m.free = [free EXCEPT ![q] = Positive(free[q] - o.chips)]
        BY <2>8, <2>11, Zenon
      <4>4. w[k].m.free = [free EXCEPT ![q] = free[q] - o.chips]
        BY <4>2, <4>3, Zenon
      <4>5. free[q] - o.chips \in Int
        <5> HIDE DEF free, o, q
        <5> QED BY <3>1, <4>1
      <4> QED BY <4>2, <4>4, <4>5
    <3>3. more \in [Jobs -> Placements]
      BY <2>7
    <3>4. more[i] = o /\ \A j \in Jobs \ {i} : more[j] = plan[j]
      BY <2>1, <2>7
    <3>5. i \notin Takers(plan, p)
      BY <2>5 DEF Takers
    <3> HIDE DEF more, free, o, i, v, plan
    <3>6. \A j \in Takers(plan, p) : TakenBy(plan)[j] = TakenBy(more)[j] /\ TakenBy(plan)[j] \in Int
      <4>1. Takers(plan, p) \subseteq Jobs
        BY DEF Takers
      <4>2. \A j \in Jobs : TakenBy(plan)[j] = plan[j].chips /\ TakenBy(plan)[j] \in Nat
        BY <1>4, <2>7
      <4>3. \A j \in Jobs : TakenBy(more)[j] = more[j].chips
        BY <1>4, <3>3
      <4> QED BY <3>4, <3>5, <4>1, <4>2, <4>3
    <3>7. Sum(TakenBy(plan), Takers(plan, p)) = Sum(TakenBy(more), Takers(plan, p))
      BY <1>4, <2>7, <3>6, SumEqual
    <3>8. CASE q = p
      <4>1. Takers(more, p) = Takers(plan, p) \cup {i}
        BY <2>1, <2>11, <3>4, <3>8 DEF Takers
      <4>2. \A j \in Takers(plan, p) \cup {i} : TakenBy(more)[j] \in Int
        <5>1. \A j \in Takers(plan, p) \cup {i} : j \in Jobs
          BY <2>1 DEF Takers
        <5> QED BY <1>4, <3>3, <5>1
      <4>3. Sum(TakenBy(more), Takers(more, p)) = o.chips + Sum(TakenBy(more), Takers(plan, p))
        <5>1. TakenBy(more)[i] = o.chips
          BY <1>4, <2>1, <3>3, <3>4
        <5>2. Sum(TakenBy(more), Takers(plan, p) \cup {i}) = TakenBy(more)[i] + Sum(TakenBy(more), Takers(plan, p))
          BY <1>4, <2>7, <3>5, <4>2, SumWith
        <5> QED BY <4>1, <5>1, <5>2
      <4>4. w[k].m.free[p] = free[p] - o.chips
        BY <2>9, <3>1, <3>2, <3>8
      <4> DEFINE c == o.chips
                 x == Sum(TakenBy(plan), Takers(plan, p))
                 y == Sum(TakenBy(more), Takers(more, p))
      <4>5. y = c + x /\ x \in Int /\ c \in Nat /\ free[p] + x = ShownAt(p) /\ free[p] \in Int
        BY <2>3, <3>1, <3>7, <4>3
      <4>6. y \in Int /\ (free[p] - c) + y = ShownAt(p) /\ free[p] - c >= 0 /\ free[p] - c \in Int
        <5> HIDE DEF x, y
        <5> QED BY <3>2, <3>8, <4>5
      <4> QED BY <2>6, <4>4, <4>6
    <3>9. CASE q # p
      <4>1. Takers(more, p) = Takers(plan, p)
        BY <2>1, <2>5, <2>11, <3>4, <3>9 DEF Takers
      <4>2. w[k].m.free[p] = free[p]
        BY <2>9, <3>1, <3>2, <3>9
      <4> QED BY <2>3, <2>6, <3>7, <4>1, <4>2
    <3> QED BY <3>8, <3>9
  <2> QED BY <2>10, <2>11
<1>8. n \in G
  <2>1. 0..n \subseteq G
    <3> HIDE DEF G
    <3> QED BY <1>2, <1>6, <1>7, UpTo
  <2> HIDE DEF G
  <2> QED BY <1>2, <2>1
<1> DEFINE plan == SelectAndPlan(order, Market)
<1>9. plan = w[n].plan
  BY <1>1 DEF IsPlanWalk
<1>10. Holds(n, w[n].m.free, w[n].plan)
  BY <1>8
<1> QED BY <1>5, <1>9, <1>10

\* What NoHerd sums is a sum.
LEMMA SentChipsAre ==
  ASSUME NEW f, NEW S, \A j \in S : f[j] = row'[j].placement.chips
  PROVE  MapThenSumSet(LAMBDA j : row'[j].placement.chips, S) = Sum(f, S)
<1> DEFINE P(g) == g = [s \in SUBSET S |-> IF s = {} THEN 0
                        ELSE row'[CHOOSE x \in s : TRUE].placement.chips + g[s \ {CHOOSE x \in s : TRUE}]]
           Q(g) == g = [s \in SUBSET S |-> IF s = {} THEN 0
                        ELSE f[CHOOSE x \in s : TRUE] + g[s \ {CHOOSE x \in s : TRUE}]]
<1>1. MapThenSumSet(LAMBDA j : row'[j].placement.chips, S) = (CHOOSE g : P(g))[S]
  BY DEF MapThenSumSet, MapThenFoldSet
<1>2. Sum(f, S) = (CHOOSE g : Q(g))[S]
  BY DEF Sum, MapThenSumSet, MapThenFoldSet
<1>3. \A g : P(g) <=> Q(g)
  <2>1. \A s \in SUBSET S : s # {} =>
          f[CHOOSE x \in s : TRUE] = row'[CHOOSE x \in s : TRUE].placement.chips
    OBVIOUS
  <2> TAKE g
  <2>2. [s \in SUBSET S |-> IF s = {} THEN 0
           ELSE row'[CHOOSE x \in s : TRUE].placement.chips + g[s \ {CHOOSE x \in s : TRUE}]]
      = [s \in SUBSET S |-> IF s = {} THEN 0
           ELSE f[CHOOSE x \in s : TRUE] + g[s \ {CHOOSE x \in s : TRUE}]]
    BY <2>1
  <2> QED BY <2>2
<1>4. (CHOOSE g : P(g)) = (CHOOSE g : Q(g))
  <2> HIDE DEF P, Q
  <2> QED BY <1>3, Zenon
<1> QED BY <1>1, <1>2, <1>4

\* Under the pass, only it submits.
LEMMA OnlyPassesSubmit ==
  ASSUME IInv, [Next]_vars, mode = "pass", NEW j \in Jobs,
         row[j].st = "QUEUED", row'[j].st = "SUBMITTED"
  PROVE  Pass
<1>1. row \in [Jobs -> Rows] /\ row' # row
  BY DEF IInv, TypeOK
<1>2. ~Worker
  BY DEF Worker, Dispatch, Build
<1>3. ASSUME NEW i \in Jobs, Seat(i) \/ End(i) \/ Move(i)
      PROVE  FALSE
  <2>1. row'[i].st # "SUBMITTED" /\ \A k \in Jobs \ {i} : row'[k] = row[k]
    BY <1>1, <1>3, LeavingRow
  <2> QED BY <2>1
<1>4. \A p \in Pairs : ~(Worsen(p) \/ Reopen(p))
  BY <1>1 DEF Worsen, Reopen
<1>5. \A g \in PreferredPools : ~(Recount(g) \/ Lapse(g))
  BY <1>1 DEF Recount, Lapse
<1>6. ~Tick
  BY <1>1, Zenon DEF Tick
<1>7. ~UNCHANGED vars
  BY <1>1 DEF vars
<1>8. \A a \in Hosted : ~(Fail(a) \/ Answer(a))
  BY <1>1 DEF Fail, Answer
<1>9. ~World
  BY <1>3, <1>4, <1>5, <1>6, <1>8 DEF World
<1> QED BY <1>2, <1>7, <1>9 DEF Next

\* NoHerd, of one step and one pair.
Herded(p) ==
  LET S == {j \in In("QUEUED") : row'[j].st = "SUBMITTED" /\ PairOf(row'[j].placement) = p}
  IN S # {} => MapThenSumSet(LAMBDA j : row'[j].placement.chips, S) <= ShownAt(p)

\* A pass submits what it has planned.
LEMMA PassDoesNotHerd ==
  ASSUME IInv, [Next]_vars, mode = "pass", NEW p \in Pairs
  PROVE  Herded(p)
<1> DEFINE S == {j \in In("QUEUED") : row'[j].st = "SUBMITTED" /\ PairOf(row'[j].placement) = p}
           f == [j \in S |-> row'[j].placement.chips]
<1> SUFFICES ASSUME S # {}
             PROVE  Sum(f, S) <= ShownAt(p)
  <2>1. \A j \in S : f[j] = row'[j].placement.chips
    OBVIOUS
  <2>2. MapThenSumSet(LAMBDA j : row'[j].placement.chips, S) = Sum(f, S)
    <3> HIDE DEF S, f
    <3> QED BY <2>1, SentChipsAre
  <2> QED BY <2>2, Zenon DEF Herded
<1>1. TypeOK /\ Seated /\ LockKept /\ row \in [Jobs -> Rows]
  BY DEF IInv, TypeOK
<1>2. Pass
  <2>1. PICK j \in Jobs : row[j].st = "QUEUED" /\ row'[j].st = "SUBMITTED"
    BY DEF In
  <2> QED BY <2>1, OnlyPassesSubmit
<1>3. PICK order, plan, charge, placed : IsPass(order, plan, charge, placed)
  BY <1>1, <1>2, PassIs
<1>4. order \in Seq(Jobs) /\ \A i, k \in 1..Len(order) : order[i] = order[k] => i = k
  <2>1. In("QUEUED") \subseteq Jobs
    BY DEF In
  <2> QED BY <1>3, <2>1, OrdersAre DEF IsPass
<1>5. /\ plan = SelectAndPlan(order, Market) /\ plan \in [Jobs -> Placements]
      /\ \A j \in placed : plan[j] # NoPlacement
      /\ row' = [j \in Jobs |-> IF j \in placed
                                THEN [Submitted(j, plan[j]) EXCEPT !.pool = Fallback] ELSE row[j]]
  BY <1>3 DEF IsPass
<1>6. ASSUME NEW j \in S
      PROVE  j \in Takers(plan, p) /\ row'[j].placement = plan[j]
  <2>1. j \in Jobs /\ row[j].st = "QUEUED" /\ row'[j].st = "SUBMITTED" /\ PairOf(row'[j].placement) = p
    BY DEF In
  <2>2. j \in placed
    BY <1>5, <2>1
  <2>3. row'[j] = [Submitted(j, plan[j]) EXCEPT !.pool = Fallback] /\ row[j] \in Rows
    BY <1>1, <1>5, <2>1, <2>2
  <2>4. row'[j].placement = plan[j]
    BY <2>3 DEF Submitted, Rows
  <2> QED BY <1>5, <2>1, <2>2, <2>4 DEF Takers
<1>7. \A j \in Jobs : TakenBy(plan)[j] = plan[j].chips /\ TakenBy(plan)[j] \in Nat
  <2> TAKE j \in Jobs
  <2>1. plan[j].chips \in Nat
    BY <1>5 DEF Placements, Placed, NoPlacement
  <2> QED BY <2>1 DEF TakenBy
<1>8. Takers(plan, p) \subseteq Jobs /\ IsFiniteSet(Takers(plan, p)) /\ S \subseteq Takers(plan, p)
  <2>1. Takers(plan, p) \subseteq Jobs
    BY DEF Takers
  <2> QED BY <1>6, <2>1, JobsAre, FS_Subset
<1>9. \A j \in S : f[j] = TakenBy(plan)[j] /\ f[j] \in Int
  <2>1. \A j \in S : j \in Jobs /\ row'[j].placement = plan[j] /\ f[j] = row'[j].placement.chips
    BY <1>6 DEF In
  <2> HIDE DEF f, S
  <2> QED BY <1>7, <2>1
<1> HIDE DEF f, S
<1>10. Sum(f, S) = Sum(TakenBy(plan), S)
  <2>1. IsFiniteSet(S)
    BY <1>8, FS_Subset
  <2> QED BY <1>9, <2>1, SumEqual
<1>11. Sum(TakenBy(plan), S) <= Sum(TakenBy(plan), Takers(plan, p))
       /\ Sum(TakenBy(plan), S) \in Int /\ Sum(TakenBy(plan), Takers(plan, p)) \in Int
  <2>1. \A j \in Takers(plan, p) : TakenBy(plan)[j] \in Int /\ TakenBy(plan)[j] >= 0
    BY <1>7, <1>8
  <2> QED BY <1>8, <2>1, SumGrows
<1>12. Sum(TakenBy(plan), Takers(plan, p)) <= ShownAt(p)
  <2>1. Takers(plan, p) # {}
    BY <1>8
  <2> QED BY <1>1, <1>4, <1>5, <2>1, PassFits
<1>13. ShownAt(p) \in Int
  BY <1>1, MarketIs DEF MarketOK
<1> QED BY <1>10, <1>11, <1>12, <1>13

\* One pass never sends to a pair more than was free there. (select_and_plan)
THEOREM PassesDoNotHerd == Spec => NoHerd
<1>1. IInv /\ [Next]_vars => [mode = "pass" => \A p \in Pairs : Herded(p)]_vars
  BY PassDoesNotHerd
<1> QED BY <1>1, Invariance, PTL DEF NoHerd, Spec, Herded

-----------------------------------------------------------------------------
(* What the pools are sent.                                                *)

\* A debit adds to its own pool and generation.
LEMMA DebitGroupAt ==
  ASSUME NEW pending \in Pending, NEW to \in Groups, NEW placement \in Placed,
         NEW g \in PreferredPools, NEW f \in Hosted
  PROVE  DebitGroup(pending, to, placement)[g][f] =
           IF to = g /\ placement.arch = f THEN pending[g][f] + placement.chips ELSE pending[g][f]
<1> DEFINE a == placement.arch
           c == placement.chips
           new == [pending[to] EXCEPT ![a] = pending[to][a] + c]
<1>1. DebitGroup(pending, to, placement) = IF to = Fallback THEN pending ELSE [pending EXCEPT ![to] = new]
  BY Zenon DEF DebitGroup
<1>2. g # Fallback
  BY DispatchConstantsOK
<1> HIDE DEF a, c
<1>3. CASE to = g
  <2>1. DebitGroup(pending, to, placement)[g] = new
    <3> HIDE DEF new
    <3> QED BY <1>1, <1>2, <1>3 DEF Pending
  <2>2. new[f] = IF a = f THEN pending[g][f] + c ELSE pending[g][f]
    <3> DEFINE q == pending[to]
    <3>1. q \in [Hosted -> Int] /\ q = pending[g]
      BY <1>3 DEF Pending
    <3>2. new = [q EXCEPT ![a] = q[a] + c]
      OBVIOUS
    <3> HIDE DEF q, new
    <3> QED BY <3>1, <3>2
  <2> HIDE DEF new
  <2> QED BY <1>3, <2>1, <2>2 DEF a, c
<1>4. CASE to # g
  <2> HIDE DEF new
  <2> QED BY <1>1, <1>4 DEF Pending
<1> QED BY <1>3, <1>4

\* The jobs of generation f among the first k of the order that are sent to g.
Sent(order, pool, plan, k, g, f) ==
  {i \in Jobs : (\E y \in 1..k : order[y] = i) /\ pool[i] = g /\ plan[i].arch = f}

\* What the pool was found able to hold when a job was sent to it: what waits there and
\* what was sent before.
Held(order, pool, plan, m, chips, x) ==
  (ask[order[x]].pin = NoPool /\ pool[order[x]] \in PreferredPools) =>
    \E pending \in [Hosted -> Int] :
      /\ GroupCanHold(pool[order[x]], plan[order[x]], m.price[PairOf(plan[order[x]])], pending)
      /\ \A f \in Hosted : pending[f] = PendingByGroup[pool[order[x]]][f]
                             + Sum(chips, Sent(order, pool, plan, x - 1, pool[order[x]], f))

\* Pools picked later do not change what was sent before.
LEMMA SentSame ==
  ASSUME NEW order, NEW pool, NEW more, NEW plan, NEW k, NEW g, NEW f,
         \A y \in 1..k : more[order[y]] = pool[order[y]]
  PROVE  Sent(order, more, plan, k, g, f) = Sent(order, pool, plan, k, g, f)
BY DEF Sent

\* Nor what was found then.
LEMMA HeldSame ==
  ASSUME NEW order, NEW pool, NEW more, NEW plan, NEW m, NEW chips, NEW k \in Nat, NEW x \in 1..k,
         \A y \in 1..k : more[order[y]] = pool[order[y]], Held(order, pool, plan, m, chips, x)
  PROVE  Held(order, more, plan, m, chips, x)
<1>1. \A y \in 1..(x - 1) : more[order[y]] = pool[order[y]]
  OBVIOUS
<1>2. \A g, f : Sent(order, more, plan, x - 1, g, f) = Sent(order, pool, plan, x - 1, g, f)
  BY <1>1, SentSame
<1>3. more[order[x]] = pool[order[x]]
  OBVIOUS
<1> DEFINE j == order[x]
           g == pool[j]
<1> SUFFICES ASSUME ask[j].pin = NoPool, g \in PreferredPools
             PROVE  \E pending \in [Hosted -> Int] :
                      /\ GroupCanHold(g, plan[j], m.price[PairOf(plan[j])], pending)
                      /\ \A f \in Hosted : pending[f] = PendingByGroup[g][f]
                                             + Sum(chips, Sent(order, more, plan, x - 1, g, f))
  BY <1>3 DEF Held
<1>4. PICK pending \in [Hosted -> Int] :
        /\ GroupCanHold(g, plan[j], m.price[PairOf(plan[j])], pending)
        /\ \A f \in Hosted : pending[f] = PendingByGroup[g][f]
                               + Sum(chips, Sent(order, pool, plan, x - 1, g, f))
  BY DEF Held
<1>5. \A f \in Hosted : pending[f] = PendingByGroup[g][f]
                          + Sum(chips, Sent(order, more, plan, x - 1, g, f))
  BY <1>2, <1>4
<1> QED BY <1>4, <1>5

\* Every job sent to a preferred pool it was not pinned to was found held there.
LEMMA PicksHold ==
  ASSUME TypeOK, NEW D, D \subseteq Jobs, NEW order \in Seq(D),
         \A i, k \in 1..Len(order) : order[i] = order[k] => i = k,
         NEW plan, NEW m, NEW silent, \A j \in D : plan[j] \in Placed,
         NEW chips, \A j \in D : chips[j] = plan[j].chips
  PROVE  \A x \in 1..Len(order) : Held(order, Picks(order, plan, m, silent), plan, m, chips, x)
<1> DEFINE n == Len(order)
           G(acc, j) == Pool(acc, j, plan, m, silent)
           S(pool, k, g, f) == Sent(order, pool, plan, k, g, f)
<1>1. n \in Nat /\ \A i \in 1..n : order[i] \in D /\ order[i] \in Jobs
  OBVIOUS
<1>2. PICK w : IsPickWalk(w, order, plan, m, silent)
  BY PickWalk
<1>3. /\ w \in [0..n -> Picked]
      /\ w[0] = [pool |-> [j \in Jobs |-> NoPool], pending |-> PendingByGroup]
      /\ Picks(order, plan, m, silent) = w[n].pool
      /\ \A k \in 1..n :
           /\ w[k].pool = [w[k - 1].pool EXCEPT ![order[k]] = G(w[k - 1], order[k])]
           /\ w[k].pending = DebitGroup(w[k - 1].pending, G(w[k - 1], order[k]), plan[order[k]])
  BY <1>2 DEF IsPickWalk
<1>4. \A k \in 0..n : w[k].pool \in [Jobs -> Groups] /\ w[k].pending \in Pending
  BY <1>3 DEF Picked
<1>5. \A k \in 0..n : \A pool, g, f : IsFiniteSet(S(pool, k, g, f))
         /\ \A i \in S(pool, k, g, f) : i \in D /\ chips[i] \in Nat
  <2> TAKE k \in 0..n
  <2> TAKE pool, g, f
  <2>1. S(pool, k, g, f) \subseteq Jobs
    BY DEF Sent
  <2>2. IsFiniteSet(S(pool, k, g, f))
    BY <2>1, JobsAre, FS_Subset
  <2>3. \A i \in S(pool, k, g, f) : i \in D
    <3>1. \A y \in 1..k : order[y] \in D
      BY <1>1
    <3> QED BY <3>1 DEF Sent
  <2>4. \A i \in D : chips[i] \in Nat
    BY DEF Placed
  <2> HIDE DEF S
  <2> QED BY <2>2, <2>3, <2>4
<1> DEFINE Counts(k, pool, pending) ==
             \A g \in PreferredPools, f \in Hosted :
               pending[g][f] = PendingByGroup[g][f] + Sum(chips, S(pool, k, g, f))
           Holds(k, pool, pending) ==
             Counts(k, pool, pending) /\ \A x \in 1..k : Held(order, pool, plan, m, chips, x)
           T == {k \in 0..n : Holds(k, w[k].pool, w[k].pending)}
<1>6. 0 \in T
  <2>1. w[0].pending = PendingByGroup
    BY <1>3
  <2>2. \A pool, g, f : S(pool, 0, g, f) = {}
    BY DEF Sent
  <2>3. PendingByGroup \in Pending
    BY PendingIs
  <2>4. \A pool, g, f : Sum(chips, S(pool, 0, g, f)) = 0
    <3> HIDE DEF S
    <3> QED BY <2>2, SumEmpty
  <2>5. Counts(0, w[0].pool, w[0].pending)
    <3> HIDE DEF S
    <3> QED BY <2>1, <2>3, <2>4 DEF Pending
  <2>6. \A x \in 1..0 : Held(order, w[0].pool, plan, m, chips, x)
    OBVIOUS
  <2> HIDE DEF Counts
  <2> QED BY <1>1, <2>5, <2>6
<1>7. ASSUME NEW k \in 1..n, k - 1 \in T
      PROVE  k \in T
  <2> DEFINE pool == w[k - 1].pool
             pending == w[k - 1].pending
             j == order[k]
             to == G(w[k - 1], j)
             more == w[k].pool
             debited == w[k].pending
  <2>1. k - 1 \in 0..n /\ k \in 0..n /\ k \in Nat /\ k - 1 \in Nat /\ j \in D /\ j \in Jobs /\ plan[j] \in Placed
    BY <1>1
  <2>2. Counts(k - 1, pool, pending) /\ \A x \in 1..(k - 1) : Held(order, pool, plan, m, chips, x)
    BY <1>7
  <2>3. pool \in [Jobs -> Groups] /\ pending \in Pending
    BY <1>4, <2>1
  <2>4. more = [pool EXCEPT ![j] = to] /\ debited = DebitGroup(pending, to, plan[j])
    BY <1>3
  <2>5. /\ to \in Groups
        /\ (ask[j].pin = NoPool /\ to # Fallback) =>
             GroupCanHold(to, plan[j], m.price[PairOf(plan[j])], pending[to])
    BY <2>1, PickGroupIs DEF Pool
  <2>6. \A y \in 1..(k - 1) : order[y] \in Jobs /\ order[y] # j /\ y \in 1..k
    BY <1>1, <2>1
  <2>7. \A y \in 1..k : y = k \/ y \in 1..(k - 1)
    BY <2>1
  <2> HIDE DEF pool, pending, to, more, debited, G, Counts
  <2>8. more[j] = to /\ \A y \in 1..(k - 1) : more[order[y]] = pool[order[y]]
    <3> HIDE DEF j
    <3> QED BY <2>1, <2>3, <2>4, <2>6
  <2>9. \A g, f : S(more, k - 1, g, f) = S(pool, k - 1, g, f)
    BY <2>8, SentSame
  <2>10. \A g, f : S(more, k, g, f) = S(pool, k - 1, g, f) \cup (IF to = g /\ plan[j].arch = f THEN {j} ELSE {})
    <3> TAKE g, f
    <3>1. S(more, k, g, f) = S(more, k - 1, g, f) \cup (IF to = g /\ plan[j].arch = f THEN {j} ELSE {})
      <4> DEFINE now(i) == \E y \in 1..k : order[y] = i
                 past(i) == \E y \in 1..(k - 1) : order[y] = i
      <4>1. \A i : now(i) <=> past(i) \/ i = j
        BY <2>1, <2>6, <2>7
      <4>2. \A i : i \in S(more, k, g, f) <=>
                    i \in Jobs /\ now(i) /\ more[i] = g /\ plan[i].arch = f
        BY DEF Sent
      <4>3. \A i : i \in S(more, k - 1, g, f) <=>
                    i \in Jobs /\ past(i) /\ more[i] = g /\ plan[i].arch = f
        BY DEF Sent
      <4>4. more[j] = to /\ j \in Jobs
        BY <2>1, <2>8
      <4> HIDE DEF j, S, now, past
      <4>5. \A i : i \in S(more, k, g, f) <=>
                    i \in S(more, k - 1, g, f) \/ (i = j /\ to = g /\ plan[j].arch = f)
        BY <4>1, <4>2, <4>3, <4>4, Zenon
      <4> QED BY <4>5
    <3> QED BY <2>9, <3>1
  <2>11. \A g, f : j \notin S(pool, k - 1, g, f)
    <3> HIDE DEF j
    <3> QED BY <2>6 DEF Sent
  <2>12. Counts(k, more, debited)
    <3> SUFFICES ASSUME NEW g \in PreferredPools, NEW f \in Hosted
                 PROVE  debited[g][f] = PendingByGroup[g][f] + Sum(chips, S(more, k, g, f))
      BY DEF Counts
    <3> DEFINE s == S(pool, k - 1, g, f)
    <3>1. pending[g][f] = PendingByGroup[g][f] + Sum(chips, s)
      BY <2>2 DEF Counts
    <3>2. IsFiniteSet(s) /\ \A i \in s : chips[i] \in Int
      BY <1>5, <2>1
    <3>3. PendingByGroup[g][f] \in Int
      BY PendingIs DEF Pending
    <3>4. chips[j] = plan[j].chips /\ chips[j] \in Int
      BY <2>1 DEF Placed
    <3>5. debited[g][f] = IF to = g /\ plan[j].arch = f THEN pending[g][f] + plan[j].chips ELSE pending[g][f]
      BY <2>1, <2>3, <2>4, <2>5, DebitGroupAt
    <3>6. S(more, k, g, f) = s \cup (IF to = g /\ plan[j].arch = f THEN {j} ELSE {}) /\ j \notin s
      BY <2>10, <2>11
    <3> HIDE DEF s, j, S
    <3>7. CASE to = g /\ plan[j].arch = f
      <4>1. Sum(chips, s \cup {j}) = chips[j] + Sum(chips, s)
        BY <3>2, <3>4, <3>6, SumWith
      <4>2. Sum(chips, s) \in Int
        BY <3>2, SumInt
      <4>3. S(more, k, g, f) = s \cup {j} /\ debited[g][f] = pending[g][f] + chips[j]
        BY <3>4, <3>5, <3>6, <3>7
      <4>4. Sum(chips, S(more, k, g, f)) = chips[j] + Sum(chips, s)
        BY <4>1, <4>3
      <4> DEFINE y == Sum(chips, s)
                 z == chips[j]
                 q == PendingByGroup[g][f]
      <4>5. (q + y) + z = q + (z + y)
        <5>1. y \in Int /\ z \in Int /\ q \in Int
          BY <3>3, <3>4, <4>2
        <5> HIDE DEF y, z, q
        <5> QED BY <5>1
      <4> QED BY <3>1, <4>3, <4>4, <4>5
    <3>8. CASE ~(to = g /\ plan[j].arch = f)
      <4>1. S(more, k, g, f) = s
        BY <3>6, <3>8
      <4>2. debited[g][f] = pending[g][f]
        BY <3>5, <3>8
      <4> QED BY <3>1, <4>1, <4>2
    <3> QED BY <3>7, <3>8
  <2>13. Held(order, more, plan, m, chips, k)
    <3> SUFFICES ASSUME ask[j].pin = NoPool, to \in PreferredPools
                 PROVE  \E pend \in [Hosted -> Int] :
                          /\ GroupCanHold(to, plan[j], m.price[PairOf(plan[j])], pend)
                          /\ \A f \in Hosted : pend[f] = PendingByGroup[to][f]
                                                 + Sum(chips, Sent(order, more, plan, k - 1, to, f))
      BY <2>8 DEF Held
    <3>1. to # Fallback
      BY DispatchConstantsOK
    <3>2. GroupCanHold(to, plan[j], m.price[PairOf(plan[j])], pending[to])
      BY <2>5, <3>1
    <3>3. pending[to] \in [Hosted -> Int]
      BY <2>3 DEF Pending
    <3>4. \A f \in Hosted : pending[to][f] = PendingByGroup[to][f]
                              + Sum(chips, Sent(order, more, plan, k - 1, to, f))
      BY <2>2, <2>9 DEF Counts
    <3> HIDE DEF j
    <3> QED BY <3>2, <3>3, <3>4
  <2>14. \A x \in 1..(k - 1) : Held(order, more, plan, m, chips, x)
    <3> TAKE x \in 1..(k - 1)
    <3>1. Held(order, pool, plan, m, chips, x)
      BY <2>2
    <3> QED BY <2>1, <2>8, <3>1, HeldSame
  <2>15. \A x \in 1..k : Held(order, more, plan, m, chips, x)
    BY <2>7, <2>13, <2>14
  <2> QED BY <2>1, <2>12, <2>15 DEF more, debited
<1>8. n \in T
  <2>1. 0..n \subseteq T
    <3> HIDE DEF T
    <3> QED BY <1>1, <1>6, <1>7, UpTo
  <2> HIDE DEF T
  <2> QED BY <1>1, <2>1
<1>9. \A x \in 1..n : Held(order, w[n].pool, plan, m, chips, x)
  BY <1>8
<1> QED BY <1>3, <1>9

-----------------------------------------------------------------------------
(* What the pools hold.                                                    *)

\* Where a job may go, no cell with a price is cheaper than its generation. group_can_hold
\* costs a job at its cell, and what is there already at the price of the generation: a
\* cheaper cell would let in a job that the next one finds too dear.
CellsNotCheaper ==
  \A p \in Pairs : HasStorage(Metro[p.cell]) =>
    \A price \in {CellPrice[p], DearPrice[p]} : Quoted(price) => price >= ArchPrice[p.arch]

\* The generations in the market, finitely many.
LEMMA HostedAre == IsFiniteSet(Hosted) /\ Hosted \subseteq Archs /\ \A p \in Pairs : p.arch \in Hosted
<1>1. IsFiniteSet(Pairs) /\ Pairs \subseteq [cell : DOMAIN Metro, arch : Archs]
  BY PlacementConstantsOK
<1> DEFINE f == [p \in Pairs |-> p.arch]
<1>2. f \in Surjection(Pairs, Hosted)
  BY DEF Surjection, Hosted
<1>3. IsFiniteSet(Hosted)
  <2> HIDE DEF f
  <2> QED BY <1>1, <1>2, FS_Surjection
<1>4. Hosted \subseteq Archs /\ \A p \in Pairs : p.arch \in Hosted
  BY <1>1 DEF Hosted
<1> QED BY <1>3, <1>4

\* More of them cost no less.
LEMMA TimesMonotone ==
  ASSUME NEW x \in Int, NEW y \in Int, x <= y, NEW z \in Nat
  PROVE  x * z <= y * z /\ x * z \in Int /\ y * z \in Int
<1>1. (y - x) * z >= 0
  BY SMT
<1>2. (y - x) * z = y * z - x * z
  BY SMT
<1>3. x * z \in Int /\ y * z \in Int
  OBVIOUS
<1> DEFINE s == x * z
           t == y * z
           d == (y - x) * z
<1> HIDE DEF s, t, d
<1> QED BY <1>1, <1>2, <1>3 DEF s, t, d

\* What a job adds above the floor is paid for at its own price.
LEMMA JobIsPaid ==
  ASSUME NEW used \in Int, NEW pending \in Int, NEW floor \in Int, NEW chips \in Nat,
         NEW total \in Int, total <= used + pending + chips,
         floor - used - pending < chips,
         NEW archPrice \in Nat, NEW price \in Nat, archPrice <= price
  PROVE  /\ Positive(total - floor) * archPrice
              <= Positive(used + pending - floor) * archPrice
                   + (chips - Positive(floor - used - pending)) * price
         /\ Positive(total - floor) * archPrice \in Int
         /\ Positive(used + pending - floor) * archPrice \in Int
         /\ (chips - Positive(floor - used - pending)) * price \in Int
<1> DEFINE room == floor - used - pending
           more == chips - Positive(room)
           over == Positive(used + pending - floor)
           above == Positive(total - floor)
<1>1. more \in Nat /\ over \in Nat /\ above \in Nat /\ above <= over + more
  BY DEF Positive
<1> HIDE DEF more, over, above
<1>2. above * archPrice <= (over + more) * archPrice /\ above * archPrice \in Int
  BY <1>1, TimesMonotone
<1>3. (over + more) * archPrice = over * archPrice + more * archPrice
  BY <1>1, SMT
<1>4. more * archPrice <= more * price /\ over * archPrice \in Int /\ more * archPrice \in Int /\ more * price \in Int
  <2>1. archPrice * more <= price * more /\ archPrice * more \in Int /\ price * more \in Int
    BY <1>1, TimesMonotone
  <2>2. archPrice * more = more * archPrice /\ price * more = more * price
    BY <1>1, SMT
  <2>3. over * archPrice \in Int
    BY <1>1
  <2> QED BY <2>1, <2>2, <2>3
<1> DEFINE t == above * archPrice
           u == over * archPrice
           v == more * archPrice
           w == more * price
<1>5. t <= u + w /\ t \in Int /\ u \in Int /\ w \in Int
  <2>1. t <= u + v
    BY <1>2, <1>3
  <2> HIDE DEF t, u, v, w
  <2> QED BY <1>2, <1>4, <2>1 DEF t, u, v, w
<1> HIDE DEF t, u, v, w
<1> QED BY <1>5 DEF t, u, w, more, over, above, room

\* What group_can_hold adds up is a sum.
LEMMA CanHoldIs ==
  ASSUME NEW g, NEW placement, NEW price, NEW pending,
         NEW above, above = [f \in Hosted |-> Positive(quota[g].used[f] + pending[f] - Floor[g][f]) * ArchPrice[f]],
         GroupCanHold(g, placement, price, pending)
  PROVE  LET a == placement.arch
             room == Floor[g][a] - quota[g].used[a] - pending[a]
         IN \/ room >= placement.chips
            \/ Balance[g] >= Sum(above, Hosted) + (placement.chips - Positive(room)) * CostPrice(price, placement.arch)
<1> DEFINE P(h) == h = [s \in SUBSET Hosted |-> IF s = {} THEN 0
                        ELSE Positive(quota[g].used[CHOOSE x \in s : TRUE] + pending[CHOOSE x \in s : TRUE]
                                        - Floor[g][CHOOSE x \in s : TRUE]) * ArchPrice[CHOOSE x \in s : TRUE]
                               + h[s \ {CHOOSE x \in s : TRUE}]]
           Q(h) == h = [s \in SUBSET Hosted |-> IF s = {} THEN 0
                        ELSE above[CHOOSE x \in s : TRUE] + h[s \ {CHOOSE x \in s : TRUE}]]
           a == placement.arch
           room == Floor[g][a] - quota[g].used[a] - pending[a]
<1>1. room >= placement.chips
      \/ Balance[g] >= (CHOOSE h : P(h))[Hosted] + (placement.chips - Positive(room)) * CostPrice(price, placement.arch)
  BY DEF GroupCanHold, MapThenSumSet, MapThenFoldSet
<1>2. Sum(above, Hosted) = (CHOOSE h : Q(h))[Hosted]
  BY DEF Sum, MapThenSumSet, MapThenFoldSet
<1>3. \A h : P(h) <=> Q(h)
  <2>1. \A s \in SUBSET Hosted : s # {} =>
          above[CHOOSE x \in s : TRUE] =
            Positive(quota[g].used[CHOOSE x \in s : TRUE] + pending[CHOOSE x \in s : TRUE]
                       - Floor[g][CHOOSE x \in s : TRUE]) * ArchPrice[CHOOSE x \in s : TRUE]
    <3> TAKE s \in SUBSET Hosted
    <3> DEFINE x0 == CHOOSE x \in s : TRUE
    <3>1. s # {} => x0 \in Hosted
      OBVIOUS
    <3> HIDE DEF x0
    <3>2. s # {} => above[x0] = Positive(quota[g].used[x0] + pending[x0] - Floor[g][x0]) * ArchPrice[x0]
      BY <3>1, Zenon
    <3> QED BY <3>2 DEF x0
  <2> QED BY <2>1
<1>4. (CHOOSE h : P(h)) = (CHOOSE h : Q(h))
  <2> HIDE DEF P, Q
  <2> QED BY <1>3
<1> HIDE DEF P, Q
<1> QED BY <1>1, <1>2, <1>4

\* All of the pool that is above its floors, at the price of each generation.
AboveFloors(g, total) == [f \in Hosted |-> Positive(total[f] - Floor[g][f]) * ArchPrice[f]]

\* A pool that can hold a job holds it with the others: inside the floor, or paid for
\* with all there is above the floors.
LEMMA PoolStillHolds ==
  ASSUME TypeOK, Priced, NEW g \in PreferredPools, NEW pending \in [Hosted -> Int],
         NEW total \in [Hosted -> Int], NEW placement \in Placed, placement.arch \in Hosted,
         NEW price, CostPrice(price, placement.arch) \in Nat,
         ArchPrice[placement.arch] <= CostPrice(price, placement.arch),
         GroupCanHold(g, placement, price, pending),
         \A f \in Hosted : total[f] <= quota[g].used[f] + pending[f]
                             + (IF f = placement.arch THEN placement.chips ELSE 0)
  PROVE  \/ total[placement.arch] <= Floor[g][placement.arch]
         \/ Sum(AboveFloors(g, total), Hosted) <= Balance[g]
<1> DEFINE a == placement.arch
           used == quota[g].used
           before == [f \in Hosted |-> used[f] + pending[f]]
           was == [f \in Hosted |-> Positive(used[f] + pending[f] - Floor[g][f]) * ArchPrice[f]]
           above == AboveFloors(g, total)
           room == Floor[g][a] - used[a] - pending[a]
           cost == CostPrice(price, placement.arch)
           paid == (placement.chips - Positive(room)) * cost
<1>1. /\ used \in [Hosted -> Int] /\ a \in Hosted /\ placement.chips \in Nat
      /\ \A f \in Hosted : Floor[g][f] \in Nat /\ Balance[g] \in Int
  BY DispatchConstantsOK DEF TypeOK, Quotas, Placed
<1>2. \A f \in Hosted : ArchPrice[f] \in Nat
  <2> TAKE f \in Hosted
  <2>1. PICK p \in Pairs : p.arch = f
    BY DEF Hosted
  <2>2. ArchPrice[f] \in Price /\ ArchPrice[f] # NoPrice
    BY <2>1, HostedAre, DispatchConstantsOK DEF Priced, Quoted
  <2> QED BY <2>2 DEF Price
<1>3. room >= placement.chips \/ Balance[g] >= Sum(was, Hosted) + paid
  BY CanHoldIs, Zenon
<1>4. CASE room >= placement.chips
  <2>1. total[a] <= used[a] + pending[a] + placement.chips
    BY <1>1
  <2>2. total[a] \in Int /\ used[a] \in Int /\ pending[a] \in Int /\ Floor[g][a] \in Int
    BY <1>1
  <2> HIDE DEF a, used
  <2> QED BY <1>1, <1>4, <2>1, <2>2 DEF a
<1>5. CASE room < placement.chips /\ Balance[g] >= Sum(was, Hosted) + paid
  <2>1. /\ above[a] <= was[a] + paid
        /\ above[a] \in Int /\ was[a] \in Int /\ paid \in Int
    <3> DEFINE u == used[a]
               q == pending[a]
               l == Floor[g][a]
               c == placement.chips
               t == total[a]
               b == ArchPrice[a]
    <3>1. u \in Int /\ q \in Int /\ l \in Int /\ c \in Nat /\ t \in Int /\ b \in Nat /\ b <= cost /\ cost \in Nat
      BY <1>1, <1>2
    <3>2. t <= u + q + c /\ l - u - q < c
      BY <1>1, <1>5
    <3>3. /\ above[a] = Positive(t - l) * b
          /\ was[a] = Positive(u + q - l) * b
          /\ paid = (c - Positive(l - u - q)) * cost
      BY <1>1 DEF AboveFloors
    <3> HIDE DEF u, q, l, c, t, b, above, was, paid, cost
    <3>4. /\ Positive(t - l) * b <= Positive(u + q - l) * b + (c - Positive(l - u - q)) * cost
          /\ Positive(t - l) * b \in Int /\ Positive(u + q - l) * b \in Int
          /\ (c - Positive(l - u - q)) * cost \in Int
      BY <3>1, <3>2, JobIsPaid
    <3> QED BY <3>3, <3>4
  <2>2. \A f \in Hosted : was[f] \in Int /\ above[f] \in Int
    <3> TAKE f \in Hosted
    <3>1. Positive(used[f] + pending[f] - Floor[g][f]) \in Nat /\ Positive(total[f] - Floor[g][f]) \in Nat
      BY <1>1 DEF Positive
    <3> QED BY <1>2, <3>1 DEF AboveFloors
  <2>3. \A f \in Hosted \ {a} : above[f] <= was[f]
    <3> TAKE f \in Hosted \ {a}
    <3> DEFINE x == Positive(total[f] - Floor[g][f])
               y == Positive(used[f] + pending[f] - Floor[g][f])
    <3>1. total[f] <= used[f] + pending[f] /\ total[f] \in Int /\ used[f] \in Int /\ pending[f] \in Int
          /\ Floor[g][f] \in Int
      BY <1>1
    <3>2. x <= y /\ x \in Int /\ y \in Int
      <4> HIDE DEF used
      <4> QED BY <3>1 DEF Positive
    <3>3. above[f] = x * ArchPrice[f] /\ was[f] = y * ArchPrice[f]
      BY DEF AboveFloors
    <3> HIDE DEF x, y, above, was
    <3>4. x * ArchPrice[f] <= y * ArchPrice[f]
      BY <1>2, <3>2, TimesMonotone
    <3> QED BY <3>3, <3>4
  <2> DEFINE Rest == Hosted \ {a}
  <2>4. IsFiniteSet(Hosted) /\ IsFiniteSet(Rest) /\ a \in Hosted
    BY <1>1, HostedAre, FS_Subset
  <2> HIDE DEF above, was, paid, a
  <2>5. Sum(above, Hosted) = above[a] + Sum(above, Rest) /\ Sum(was, Hosted) = was[a] + Sum(was, Rest)
    BY <2>2, <2>4, SumWithout
  <2>6. Sum(above, Rest) <= Sum(was, Rest) /\ Sum(above, Rest) \in Int /\ Sum(was, Rest) \in Int
    BY <2>2, <2>3, <2>4, SumBelow
  <2>7. Balance[g] \in Int
    BY DispatchConstantsOK
  <2>8. Sum(above, Hosted) <= Balance[g]
    BY <1>5, <2>1, <2>5, <2>6, <2>7
  <2> QED BY <2>8 DEF above
<1>6. room < placement.chips \/ room >= placement.chips
  BY <1>1
<1> QED BY <1>3, <1>4, <1>5, <1>6

\* A job admitted to a preferred pool it was not pinned to is held there:
\* PoolHoldsWhatItIsSent, of one job.
HeldThere(j) ==
  (row'[j].pool \in PreferredPools /\ ask[j].pin = NoPool) =>
    LET g == row'[j].pool
        plan == Plans(Market)
        sent == {i \in Admitted \cap Before(j) : row'[i].pool = g}
        Total(f) == quota[g].used[f] + PendingByGroup[g][f]
                      + MapThenSumSet(LAMBDA i : plan[i].chips, {i \in sent : plan[i].arch = f})
        Above(f) == Positive(Total(f) - Floor[g][f]) * ArchPrice[f]
    IN \/ Total(plan[j].arch) <= Floor[g][plan[j].arch]
       \/ MapThenSumSet(Above, Hosted) <= Balance[g]

\* What the round sends there up to the job, by generation.
Fellows(j, f) ==
  {i \in Admitted \cap Before(j) : row'[i].pool = row'[j].pool /\ Plans(Market)[i].arch = f}

\* What is there with them.
TotalAt(j, chips) ==
  [f \in Hosted |-> quota[row'[j].pool].used[f] + PendingByGroup[row'[j].pool][f] + Sum(chips, Fellows(j, f))]

\* What the property sums is a sum.
LEMMA PlannedChipsAre ==
  ASSUME NEW chips, NEW S, \A i \in S : chips[i] = Plans(Market)[i].chips
  PROVE  MapThenSumSet(LAMBDA i : Plans(Market)[i].chips, S) = Sum(chips, S)
<1> DEFINE plan == Plans(Market)
           P(g) == g = [s \in SUBSET S |-> IF s = {} THEN 0
                        ELSE plan[CHOOSE x \in s : TRUE].chips + g[s \ {CHOOSE x \in s : TRUE}]]
           Q(g) == g = [s \in SUBSET S |-> IF s = {} THEN 0
                        ELSE chips[CHOOSE x \in s : TRUE] + g[s \ {CHOOSE x \in s : TRUE}]]
<1>1. MapThenSumSet(LAMBDA i : Plans(Market)[i].chips, S) = (CHOOSE g : P(g))[S]
  BY DEF MapThenSumSet, MapThenFoldSet
<1>2. Sum(chips, S) = (CHOOSE g : Q(g))[S]
  BY DEF Sum, MapThenSumSet, MapThenFoldSet
<1>3. \A g : P(g) <=> Q(g)
  <2>1. \A s \in SUBSET S : s # {} => chips[CHOOSE x \in s : TRUE] = plan[CHOOSE x \in s : TRUE].chips
    <3> HIDE DEF plan
    <3> QED BY DEF plan
  <2> HIDE DEF plan
  <2> QED BY <2>1
<1>4. (CHOOSE g : P(g)) = (CHOOSE g : Q(g))
  <2> HIDE DEF P, Q
  <2> QED BY <1>3
<1> HIDE DEF P, Q
<1> QED BY <1>1, <1>2, <1>4

\* The property, in terms of sums.
LEMMA HeldThereIs ==
  ASSUME NEW j, NEW chips, \A i \in Admitted : chips[i] = Plans(Market)[i].chips,
         Plans(Market)[j].arch \in Hosted,
         (row'[j].pool \in PreferredPools /\ ask[j].pin = NoPool) =>
           \/ TotalAt(j, chips)[Plans(Market)[j].arch] <= Floor[row'[j].pool][Plans(Market)[j].arch]
           \/ Sum(AboveFloors(row'[j].pool, TotalAt(j, chips)), Hosted) <= Balance[row'[j].pool]
  PROVE  HeldThere(j)
<1> DEFINE g == row'[j].pool
           plan == Plans(Market)
           sent == {i \in Admitted \cap Before(j) : row'[i].pool = g}
           Total(f) == quota[g].used[f] + PendingByGroup[g][f]
                         + MapThenSumSet(LAMBDA i : plan[i].chips, {i \in sent : plan[i].arch = f})
           Above(f) == Positive(Total(f) - Floor[g][f]) * ArchPrice[f]
           total == TotalAt(j, chips)
           above == AboveFloors(g, total)
<1>1. \A f \in Hosted : Total(f) = total[f]
  <2> TAKE f \in Hosted
  <2>1. {i \in sent : plan[i].arch = f} = Fellows(j, f)
    BY DEF Fellows
  <2>2. \A i \in Fellows(j, f) : chips[i] = Plans(Market)[i].chips
    BY DEF Fellows
  <2>3. MapThenSumSet(LAMBDA i : Plans(Market)[i].chips, Fellows(j, f)) = Sum(chips, Fellows(j, f))
    BY <2>2, PlannedChipsAre
  <2>4. Total(f) = quota[g].used[f] + PendingByGroup[g][f]
                     + MapThenSumSet(LAMBDA i : Plans(Market)[i].chips, Fellows(j, f))
    BY <2>1
  <2>5. total[f] = quota[g].used[f] + PendingByGroup[g][f] + Sum(chips, Fellows(j, f))
    BY DEF TotalAt
  <2> QED BY <2>3, <2>4, <2>5
<1> HIDE DEF Total, total
<1>2. \A f \in Hosted : above[f] = Above(f)
  BY <1>1 DEF AboveFloors
<1>3. MapThenSumSet(Above, Hosted) = Sum(above, Hosted)
  <2> HIDE DEF Above, above
  <2> DEFINE P(h) == h = [s \in SUBSET Hosted |-> IF s = {} THEN 0
                          ELSE Above(CHOOSE x \in s : TRUE) + h[s \ {CHOOSE x \in s : TRUE}]]
             Q(h) == h = [s \in SUBSET Hosted |-> IF s = {} THEN 0
                          ELSE above[CHOOSE x \in s : TRUE] + h[s \ {CHOOSE x \in s : TRUE}]]
  <2>1. MapThenSumSet(Above, Hosted) = (CHOOSE h : P(h))[Hosted]
    BY DEF MapThenSumSet, MapThenFoldSet
  <2>2. Sum(above, Hosted) = (CHOOSE h : Q(h))[Hosted]
    BY DEF Sum, MapThenSumSet, MapThenFoldSet
  <2>3. \A h : P(h) <=> Q(h)
    <3>1. \A s \in SUBSET Hosted : s # {} => above[CHOOSE x \in s : TRUE] = Above(CHOOSE x \in s : TRUE)
      BY <1>2
    <3> QED BY <3>1
  <2>4. (CHOOSE h : P(h)) = (CHOOSE h : Q(h))
    <3> HIDE DEF P, Q
    <3> QED BY <2>3
  <2> HIDE DEF P, Q
  <2> QED BY <2>1, <2>2, <2>4
<1>4. (g \in PreferredPools /\ ask[j].pin = NoPool) =>
        Total(plan[j].arch) <= Floor[g][plan[j].arch] \/ MapThenSumSet(Above, Hosted) <= Balance[g]
  <2>1. (g \in PreferredPools /\ ask[j].pin = NoPool) =>
          total[plan[j].arch] <= Floor[g][plan[j].arch] \/ Sum(above, Hosted) <= Balance[g]
    BY DEF total
  <2>2. plan[j].arch \in Hosted
    OBVIOUS
  <2> HIDE DEF g, plan, above, Above
  <2>3. Total(plan[j].arch) = total[plan[j].arch]
    BY <1>1, <2>2
  <2> QED BY <1>3, <2>1, <2>3
<1> QED BY <1>4, Zenon DEF HeldThere, Total

\* A planned cell is not cheaper than its generation: a job goes only where there is
\* storage.
LEMMA PlannedPrice ==
  ASSUME TypeOK, Priced, CellsNotCheaper, NEW j \in Jobs, PlanOne(ask[j], memory[j], Market) # NoPlacement
  PROVE  LET placement == PlanOne(ask[j], memory[j], Market)
             cost == CostPrice(Market.price[PairOf(placement)], placement.arch)
         IN placement.arch \in Hosted /\ cost \in Nat /\ ArchPrice[placement.arch] <= cost
<1> DEFINE placement == PlanOne(ask[j], memory[j], Market)
           mem == memory[j]
           a == ask[j]
<1>1. MarketOK(Market) /\ \A p \in Pairs : Market.price[p] \in {CellPrice[p], DearPrice[p]}
  BY MarketIs
<1>2. PICK s \in CandidateShapes(a, mem.mesh) : \E p \in Placeable(a, s, Market) :
        placement = [cell |-> p.cell, arch |-> s.arch, chips |-> s.chips] /\ PairOf(placement) = p
  BY <1>1, MemoryOKIs, PlanOneIs
<1>3. PICK p \in Placeable(a, s, Market) :
        placement = [cell |-> p.cell, arch |-> s.arch, chips |-> s.chips] /\ PairOf(placement) = p
  BY <1>2
<1>4. p \in Pairs /\ p.arch = s.arch /\ HasStorage(Metro[p.cell])
  BY DEF Placeable, Gates
<1>5. placement.arch = p.arch /\ PairOf(placement) = p
  BY <1>3, <1>4
<1>6. ArchPrice[p.arch] \in Nat
  <2>1. ArchPrice[p.arch] \in Price /\ ArchPrice[p.arch] # NoPrice
    BY <1>4, HostedAre, DispatchConstantsOK DEF Priced, Quoted
  <2> QED BY <2>1 DEF Price
<1>7. Market.price[p] \in Price /\ (Quoted(Market.price[p]) => ArchPrice[p.arch] <= Market.price[p])
  <2>1. Market.price[p] \in {CellPrice[p], DearPrice[p]}
    BY <1>1, <1>4
  <2>2. Quoted(Market.price[p]) => Market.price[p] >= ArchPrice[p.arch]
    BY <1>4, <2>1 DEF CellsNotCheaper
  <2>3. Market.price[p] \in Price
    BY <1>1, <1>4 DEF MarketOK
  <2> QED BY <1>6, <2>2, <2>3 DEF Price, Quoted, NoPrice
<1>8. LET cost == CostPrice(Market.price[p], p.arch)
      IN cost \in Nat /\ ArchPrice[p.arch] <= cost
  BY <1>6, <1>7 DEF CostPrice, Price, Quoted, NoPrice
<1>9. p.arch \in Hosted
  BY <1>4, HostedAre
<1> HIDE DEF placement
<1> QED BY <1>5, <1>8, <1>9 DEF placement

\* The jobs a round takes up, in their order, and the pools of the ones it sends.
IsSent(S, order, pools, silent) ==
  /\ S \subseteq Jobs /\ order \in Seq(S) /\ Admitted \subseteq S
  /\ pools = Picks(order, Plans(Market), Market, silent) /\ pools \in [Jobs -> Groups]
  /\ \A i \in S : Plans(Market)[i] = PlanOne(ask[i], memory[i], Market)
                    /\ Plans(Market)[i] \in Placed /\ Plans(Market)[i] # NoPlacement
  /\ \A i \in Admitted : row'[i].pool = pools[i]
  /\ {order[i] : i \in 1..Len(order)} = S
  /\ \A i, k \in 1..Len(order) : i < k <=> Place[order[i]] < Place[order[k]]
  /\ \A i, k \in 1..Len(order) : order[i] = order[k] => i = k

\* A round that admits has them.
LEMMA SentFacts ==
  ASSUME NEW m \in Fetches, IInv, Dispatch(m), Admitted # {}
  PROVE  \E S, order, pools, silent : IsSent(S, order, pools, silent)
<1>1. PICK silent, S, order, pools, exempt, charge, admitted :
        IsSending(silent, S, order, pools, exempt, charge, admitted)
  BY RoundSends
<1>2. IsRound(Market, silent, S, order, pools, exempt, charge)
  BY <1>1 DEF IsSending
<1>3. /\ S \subseteq Jobs /\ order \in Seq(S)
      /\ pools = Picks(order, Plans(Market), Market, silent) /\ pools \in [Jobs -> Groups]
      /\ \A i \in S : Plans(Market)[i] = PlanOne(ask[i], memory[i], Market) /\ Plans(Market)[i] \in Placed
      /\ S = {i \in Waiting : Plans(Market)[i] # NoPlacement}
      /\ PlanDispatch(order, exempt, charge) \subseteq {order[i] : i \in 1..Len(order)}
  BY <1>2 DEF IsRound
<1>4. /\ admitted = PlanDispatch(order, exempt, charge)
      /\ {order[i] : i \in 1..Len(order)} = S
      /\ \A i, k \in 1..Len(order) : i < k <=> Place[order[i]] < Place[order[k]]
      /\ \A i, k \in 1..Len(order) : order[i] = order[k] => i = k
      /\ \A i \in Jobs : /\ row'[i].st = "BUILD_REQUESTED" <=> i \in admitted
                         /\ i \in admitted => row'[i].pool = pools[i]
  BY <1>1 DEF IsSending
<1>5. \A i \in Admitted : i \in admitted /\ row'[i].pool = pools[i] /\ i \in S
  BY <1>3, <1>4 DEF Admitted
<1>6. \A i \in S : Plans(Market)[i] # NoPlacement
  BY <1>3
<1>7. IsSent(S, order, pools, silent)
  BY <1>3, <1>4, <1>5, <1>6 DEF IsSent
<1> QED BY <1>7

\* The jobs before a job in the queue were sent before it in the order.
LEMMA FellowsAreSent ==
  ASSUME NEW S, NEW order, NEW pools, NEW silent, IsSent(S, order, pools, silent),
         NEW j \in Admitted, NEW x \in 1..Len(order), order[x] = j, NEW f
  PROVE  \A i \in Fellows(j, f) :
           i \in Sent(order, pools, Plans(Market), x - 1, row'[j].pool, f) \/ (i = j /\ Plans(Market)[j].arch = f)
<1>1. /\ order \in Seq(S) /\ S \subseteq Jobs /\ Admitted \subseteq S
      /\ {order[k] : k \in 1..Len(order)} = S
      /\ \A k, l \in 1..Len(order) : k < l <=> Place[order[k]] < Place[order[l]]
      /\ \A k \in Admitted : row'[k].pool = pools[k]
  BY DEF IsSent
<1> TAKE i \in Fellows(j, f)
<1>2. /\ i \in Admitted /\ i \in Before(j) /\ row'[i].pool = row'[j].pool
      /\ Plans(Market)[i].arch = f
  BY DEF Fellows
<1>3. PICK y \in 1..Len(order) : order[y] = i
  BY <1>1, <1>2
<1>4. PICK k, l \in 1..Len(Queue) : Queue[k] = i /\ Queue[l] = j /\ k <= l
  BY <1>2 DEF Before
<1>5. Place[i] = k /\ Place[j] = l /\ Len(Queue) \in Nat
  BY <1>4, PlaceIs, JobsAre
<1>6. ~(x < y)
  <2>1. x < y => Place[order[x]] < Place[order[y]]
    BY <1>1
  <2>2. ~(Place[j] < Place[i])
    BY <1>4, <1>5
  <2> QED BY <1>3, <2>1, <2>2
<1>7. y = x \/ y \in 1..(x - 1)
  BY <1>3, <1>6
<1>8. pools[i] = row'[j].pool /\ i \in Jobs
  BY <1>1, <1>2
<1>9. CASE y = x
  BY <1>2, <1>3, <1>9
<1>10. CASE y \in 1..(x - 1)
  <2>1. \E z \in 1..(x - 1) : order[z] = i
    BY <1>3, <1>10
  <2>2. i \in Sent(order, pools, Plans(Market), x - 1, row'[j].pool, f)
    BY <1>2, <1>8, <2>1, Zenon DEF Sent
  <2> QED BY <2>2
<1> QED BY <1>7, <1>9, <1>10

\* A round sends no pool more than it holds.
LEMMA AdmittedAreHeld ==
  ASSUME IInv, Priced, CellsNotCheaper, NEW m \in Fetches, Dispatch(m), NEW j \in Admitted
  PROVE  HeldThere(j)
<1> DEFINE plan == Plans(Market)
<1>1. TypeOK /\ row \in [Jobs -> Rows]
  BY DEF IInv, TypeOK
<1>2. PICK S, order, pools, silent : IsSent(S, order, pools, silent)
  BY SentFacts
<1>3. /\ S \subseteq Jobs /\ order \in Seq(S) /\ Admitted \subseteq S
      /\ pools = Picks(order, plan, Market, silent) /\ pools \in [Jobs -> Groups]
      /\ \A i \in S : plan[i] = PlanOne(ask[i], memory[i], Market)
                        /\ plan[i] \in Placed /\ plan[i] # NoPlacement
      /\ \A i \in Admitted : row'[i].pool = pools[i]
      /\ {order[i] : i \in 1..Len(order)} = S
      /\ \A i, k \in 1..Len(order) : i < k <=> Place[order[i]] < Place[order[k]]
      /\ \A i, k \in 1..Len(order) : order[i] = order[k] => i = k
  BY <1>2 DEF IsSent
<1> DEFINE chips == [i \in S |-> plan[i].chips]
           g == row'[j].pool
           price == Market.price[PairOf(plan[j])]
<1>4. \A i \in S : chips[i] = plan[i].chips /\ chips[i] \in Nat
  BY <1>3 DEF Placed
<1>5. j \in S /\ j \in Jobs /\ plan[j] \in Placed /\ pools[j] = g
  BY <1>3
<1>6. PICK x \in 1..Len(order) : order[x] = j
  BY <1>3, <1>5
<1>7. /\ plan[j].arch \in Hosted
      /\ CostPrice(price, plan[j].arch) \in Nat
      /\ ArchPrice[plan[j].arch] <= CostPrice(price, plan[j].arch)
  <2>1. plan[j] = PlanOne(ask[j], memory[j], Market) /\ plan[j] # NoPlacement
    BY <1>3, <1>5
  <2> HIDE DEF plan
  <2> QED BY <1>1, <1>5, <2>1, PlannedPrice
<1> HIDE DEF chips, plan, price
<1>8. Held(order, pools, plan, Market, chips, x)
  <2>1. \A i \in S : plan[i] \in Placed
    BY <1>3
  <2> QED BY <1>1, <1>3, <1>4, <2>1, PicksHold
<1>9. \A f \in Hosted : \A i \in Fellows(j, f) :
         i \in Sent(order, pools, plan, x - 1, g, f) \/ (i = j /\ plan[j].arch = f)
  <2> TAKE f \in Hosted
  <2>1. \A i \in Fellows(j, f) :
          i \in Sent(order, pools, Plans(Market), x - 1, row'[j].pool, f) \/ (i = j /\ Plans(Market)[j].arch = f)
    BY <1>2, <1>6, FellowsAreSent
  <2> QED BY <2>1 DEF plan
<1>10. \A y \in 1..(x - 1) : order[y] \in S /\ order[y] # j
  <2> TAKE y \in 1..(x - 1)
  <2>1. y \in 1..Len(order) /\ y # x
    BY <1>3, <1>6
  <2>2. order[y] # order[x]
    BY <1>3, <1>6, <2>1
  <2> QED BY <1>3, <1>6, <2>1, <2>2
<1>11. ASSUME g \in PreferredPools, ask[j].pin = NoPool
       PROVE  \/ TotalAt(j, chips)[plan[j].arch] <= Floor[g][plan[j].arch]
              \/ Sum(AboveFloors(g, TotalAt(j, chips)), Hosted) <= Balance[g]
  <2>1. PICK pending \in [Hosted -> Int] :
          /\ GroupCanHold(g, plan[j], price, pending)
          /\ \A f \in Hosted : pending[f] = PendingByGroup[g][f] + Sum(chips, Sent(order, pools, plan, x - 1, g, f))
    BY <1>5, <1>6, <1>8, <1>11 DEF Held, price
  <2> DEFINE total == TotalAt(j, chips)
  <2>2. \A f \in Hosted :
          /\ Sum(chips, Fellows(j, f)) \in Int
          /\ Sum(chips, Fellows(j, f)) <= Sum(chips, Sent(order, pools, plan, x - 1, g, f))
                                            + (IF f = plan[j].arch THEN plan[j].chips ELSE 0)
    <3> TAKE f \in Hosted
    <3> DEFINE F == Fellows(j, f)
               s == Sent(order, pools, plan, x - 1, g, f)
    <3>1. \A i \in F : i \in s \/ (i = j /\ plan[j].arch = f)
      BY <1>9
    <3>2. s \subseteq S /\ j \notin s
      BY <1>10 DEF Sent
    <3>3. IsFiniteSet(S)
      BY <1>3, JobsAre, FS_Subset
    <3> HIDE DEF F, s
    <3>4. IsFiniteSet(s) /\ \A i \in s \cup {j} : chips[i] \in Int /\ chips[i] >= 0
      <4>1. IsFiniteSet(s)
        BY <3>2, <3>3, FS_Subset
      <4> QED BY <1>4, <1>5, <3>2, <4>1
    <3>5. CASE f = plan[j].arch
      <4>1. IsFiniteSet(s \cup {j}) /\ F \subseteq s \cup {j}
        BY <3>1, <3>4, FS_AddElement
      <4>2. Sum(chips, F) <= Sum(chips, s \cup {j}) /\ Sum(chips, F) \in Int
        BY <3>4, <4>1, SumGrows
      <4>3. Sum(chips, s \cup {j}) = chips[j] + Sum(chips, s) /\ Sum(chips, s) \in Int
        BY <3>2, <3>4, SumWith, SumInt
      <4>4. chips[j] = plan[j].chips /\ chips[j] \in Int
        BY <1>4, <1>5
      <4>5. Sum(chips, F) <= Sum(chips, s) + plan[j].chips
        BY <4>2, <4>3, <4>4
      <4> QED BY <3>5, <4>2, <4>5 DEF F, s
    <3>6. CASE f # plan[j].arch
      <4>1. F \subseteq s
        BY <3>1, <3>6
      <4>2. Sum(chips, F) <= Sum(chips, s) /\ Sum(chips, F) \in Int /\ Sum(chips, s) \in Int
        BY <3>4, <4>1, SumGrows
      <4>3. Sum(chips, F) <= Sum(chips, s) + 0
        BY <4>2
      <4> QED BY <3>6, <4>2, <4>3 DEF F, s
    <3> QED BY <3>5, <3>6
  <2>3. \A f \in Hosted : total[f] = quota[g].used[f] + PendingByGroup[g][f] + Sum(chips, Fellows(j, f))
    BY DEF TotalAt
  <2>4. \A f \in Hosted : quota[g].used[f] \in Int /\ PendingByGroup[g][f] \in Int
    <3>1. quota[g].used \in [Hosted -> Int]
      BY <1>1, <1>11 DEF TypeOK, Quotas
    <3>2. PendingByGroup[g] \in [Hosted -> Int]
      BY <1>1, <1>11, PendingIs DEF Pending
    <3> QED BY <3>1, <3>2
  <2>5. total \in [Hosted -> Int]
    <3>1. \A f \in Hosted : quota[g].used[f] + PendingByGroup[g][f] + Sum(chips, Fellows(j, f)) \in Int
      BY <2>2, <2>4
    <3> QED BY <3>1 DEF TotalAt
  <2>6. \A f \in Hosted : total[f] <= quota[g].used[f] + pending[f]
                            + (IF f = plan[j].arch THEN plan[j].chips ELSE 0)
    <3> TAKE f \in Hosted
    <3> DEFINE u == quota[g].used[f]
               q == PendingByGroup[g][f]
               r == Sum(chips, Fellows(j, f))
               w == Sum(chips, Sent(order, pools, plan, x - 1, g, f))
               c == IF f = plan[j].arch THEN plan[j].chips ELSE 0
    <3>1. u \in Int /\ q \in Int /\ r \in Int /\ r <= w + c /\ total[f] = u + q + r /\ pending[f] = q + w
          /\ pending[f] \in Int
      BY <2>1, <2>2, <2>3, <2>4
    <3>2. c \in Int
      BY <1>5 DEF Placed
    <3> HIDE DEF u, q, r, w, c, total
    <3>3. w = pending[f] - q \/ w \notin Int
      BY <3>1
    <3>4. w \in Int
      <4>1. IsFiniteSet(Sent(order, pools, plan, x - 1, g, f)) /\ Sent(order, pools, plan, x - 1, g, f) \subseteq S
        <5>1. \A y \in 1..(x - 1) : order[y] \in S
          BY <1>3
        <5>2. Sent(order, pools, plan, x - 1, g, f) \subseteq S
          BY <5>1 DEF Sent
        <5> QED BY <1>3, <5>2, JobsAre, FS_Subset
      <4>2. \A i \in Sent(order, pools, plan, x - 1, g, f) : chips[i] \in Int
        BY <1>4, <4>1
      <4> QED BY <4>1, <4>2, SumInt DEF w
    <3>5. total[f] <= u + pending[f] + c
      BY <3>1, <3>2, <3>4
    <3> QED BY <3>5 DEF u, c
  <2> HIDE DEF total
  <2>7. total[plan[j].arch] <= Floor[g][plan[j].arch] \/ Sum(AboveFloors(g, total), Hosted) <= Balance[g]
    BY <1>1, <1>5, <1>7, <1>11, <2>1, <2>5, <2>6, PoolStillHolds
  <2> QED BY <2>7 DEF total
<1>12. \A i \in Admitted : chips[i] = Plans(Market)[i].chips
  BY <1>3, <1>4 DEF plan
<1> QED BY <1>7, <1>11, <1>12, HeldThereIs DEF plan

\* And no other step sends anything.
LEMMA RoundsAreHeld ==
  ASSUME Priced, CellsNotCheaper, IInv, [Next]_vars
  PROVE  \A j \in Admitted : HeldThere(j)
<1> SUFFICES ASSUME NEW j \in Admitted PROVE HeldThere(j)
  OBVIOUS
<1>1. PICK m \in Fetches : Dispatch(m)
  BY OnlyRoundsAdmit
<1> QED BY <1>1, AdmittedAreHeld

\* A pool is not sent more than it can seat: with what its table counts as used, what
\* waits there and what the round sends before it, a job is inside its floor, or the
\* balance pays for all there is above the floors. (group_can_hold)
THEOREM PoolsHoldWhatTheyAreSent ==
  ASSUME Priced, CellsNotCheaper
  PROVE  Spec => PoolHoldsWhatItIsSent
<1>1. IInv /\ [Next]_vars => [\A j \in Admitted : HeldThere(j)]_vars
  BY RoundsAreHeld
<1> QED BY <1>1, Invariance, PTL DEF PoolHoldsWhatItIsSent, Spec, HeldThere

=============================================================================
