------------------------------- MODULE Placement -------------------------------
(***************************************************************************)
(* google3_tpu_utils/route_lib.py: where the router puts one job.  Pure    *)
(* operators: the shapes a job accepts and their order, the gates a cell   *)
(* must pass, the score of a cell, and the choice of plan_one.             *)
(*                                                                         *)
(* Prices are whole credits, multipliers are hundredths, and slices of up  *)
(* to 64 chips are kept.  A tick is half an hour: penalties fade within    *)
(* their last half hour, so a tick sees them whole or gone.                *)
(***************************************************************************)
EXTENDS Integers, FiniteSets

CONSTANTS Pairs,       \* the cells of the market under each generation they host
          Metro,       \* of each cell
          Registered,  \* metros where a group has storage
          Surveyed     \* metros the locality snapshot knows

V5P_MULTIPLIER == [v5e |-> 43, v4 |-> 60, v5p |-> 100, v6e |-> 200, v6p |-> 434, v7 |-> 434,
                   h100 |-> 215, b200 |-> 490]
ARCH_PREF == [v7 |-> 0, v6p |-> 1, v6e |-> 2, v5p |-> 3, v4 |-> 4, v5e |-> 5, b200 |-> 13, h100 |-> 15]
Archs == DOMAIN ARCH_PREF
Hosted == {p.arch : p \in Pairs}
Gpus == {"h100", "b200"}
Torus == {"v4", "v5p", "v6p", "v7"}

LEGAL_SIZES == [a \in Archs |-> CASE a \in Gpus -> {1, 2, 4, 8}
                                  [] a = "v7" -> {4, 8, 16, 32}
                                  [] OTHER -> {8, 16, 32, 64}]
Shapes == UNION {[arch : {a}, chips : LEGAL_SIZES[a]] : a \in Archs}

\* GEOMETRY: the meshes of a family are those of its sizes.
NoMesh == [family |-> "none", chips |-> 0]
Mesh(s) == IF s \notin Shapes \/ s.arch \in Gpus THEN NoMesh
           ELSE [family |-> IF s.arch \in Torus THEN "torus" ELSE "pod", chips |-> s.chips]

ASSUME PlacementConstantsOK ==
  /\ Pairs \subseteq [cell : DOMAIN Metro, arch : Archs] /\ IsFiniteSet(Pairs)
  /\ Registered \subseteq Surveyed

\* What a job asks for: a power, which names a shape, and what it may take instead.
\* Metros of {}: any.  A market: the free chips, whether oversold, and the price of each
\* cell; the price of each generation, and NoPrice where none is quoted.
NoPrice == -1
Price == Nat \cup {NoPrice}
Quoted(price) == price # NoPrice
-----------------------------------------------------------------------------
(* Shapes.                                                                 *)

ToPower(s) == V5P_MULTIPLIER[s.arch] * s.chips

\* Within the tolerance, in hundredths, of the power asked for.
InWindow(ask, s) ==
  /\ 200 * ToPower(s) >= (200 - ask.tolerance) * ToPower(ask.power)
  /\ 200 * ToPower(s) <= (200 + ask.tolerance) * ToPower(ask.power)

\* A locked job keeps the mesh it was first placed on, and is first placed on the one its
\* power names.
LockedMesh(ask, mesh) == IF mesh # NoMesh THEN mesh ELSE Mesh(ask.power)

\* A faulty variant: a locked job is taken for any other.
CandidateShapesAnyMesh(ask, mesh) ==
  IF ask.power.arch \in Gpus
  THEN {s \in Shapes : s.arch \in ask.archs \cap Gpus /\ s.chips = ask.power.chips}
  ELSE {s \in Shapes : s.arch \in ask.archs /\ InWindow(ask, s)}

\* A GPU job keeps its width and changes card.
CandidateShapes(ask, mesh) ==
  IF ask.power.arch \in Gpus /\ ~ask.locked
  THEN {s \in Shapes : s.arch \in ask.archs \cap Gpus /\ s.chips = ask.power.chips}
  ELSE {s \in Shapes :
          /\ s.arch \in ask.archs
          /\ InWindow(ask, s)
          /\ ask.locked => /\ LockedMesh(ask, mesh) # NoMesh
                           /\ Mesh(s) = LockedMesh(ask, mesh)}

\* The logarithm of the pool's size, at powers of eight.
PoolWeight(chips) ==
  IF chips >= 4096 THEN 150 ELSE IF chips >= 512 THEN 137
  ELSE IF chips >= 64 THEN 125 ELSE IF chips >= 8 THEN 113 ELSE 100
EffectivePrice(price, chips) == (1000 * price) \div PoolWeight(chips)

Dearest == 1000000
\* Cheapest first; of a GPU the preferred card, and so too without any price.
ShapeKey(ask, m, s) ==
  LET price == IF ask.power.arch \in Gpus \/ \A a \in Archs : ~Quoted(m.archPrice[a]) THEN 0
               ELSE IF Quoted(m.archPrice[s.arch])
                    THEN EffectivePrice(m.archPrice[s.arch], IF s.arch \in Hosted THEN m.pool[s.arch] ELSE 0)
               ELSE Dearest \div 100
  IN 10000 * price + 100 * ARCH_PREF[s.arch] + s.chips
BestShape(ask, m, S) == CHOOSE s \in S : \A t \in S : ShapeKey(ask, m, s) <= ShapeKey(ask, m, t)
-----------------------------------------------------------------------------
(* Cells.                                                                  *)

\* A metro the snapshot has never heard of is not refused.
HasStorage(metro) == metro \in Registered \/ metro \notin Surveyed

CAP_POLICY == [v7 |-> 20, v6p |-> 20, v6e |-> 10, v5p |-> 5, v4 |-> 5, v5e |-> NoPrice,
               h100 |-> 10, b200 |-> 20]
Over(price, cap) == Quoted(price) /\ Quoted(cap) /\ price > cap

SlicesFor(free, chips) == free \div chips
Gates(ask, p, m) ==
  /\ ask.metros = {} \/ Metro[p.cell] \in ask.metros
  /\ HasStorage(Metro[p.cell])
  /\ ~Over(m.price[p], CAP_POLICY[p.arch])
  /\ ~Over(m.price[p], ask.max)
  /\ ~m.oversold[p]
Placeable(ask, s, m) ==
  {p \in Pairs : p.arch = s.arch /\ Gates(ask, p, m) /\ SlicesFor(m.free[p], s.chips) >= 1}

SliceWeight(n) == IF n >= 8 THEN 150 ELSE <<100, 117, 126, 133, 139, 143, 147>>[n]

\* A job's memory: the mesh it is locked to, and of each pair when it is cool again and the
\* strikes of its moves and of its evictions there.
StrikesCap == 4
EvictPenalty(e) == IF e.recent THEN 1 + e.strikes ELSE 1
CooldownPenalty(c) == IF c.left = 0 THEN 1
                      ELSE 1 + IF c.strikes > StrikesCap THEN StrikesCap ELSE c.strikes
Cooling(memory, p) == memory.pairs[p].left > 0

CellScore(memory, p, n, m) ==
  IF ~Quoted(m.price[p]) THEN Dearest
  ELSE ((1000 * m.price[p]) \div SliceWeight(n))
         * EvictPenalty(memory.evictions[p]) * CooldownPenalty(memory.pairs[p])

\* The lowest score, then the roomiest.
CellKey(memory, p, s, m) ==
  LET n == SlicesFor(m.free[p], s.chips) IN 100 * CellScore(memory, p, n, m) - n
BestCell(ask, memory, s, m) ==
  LET S == Placeable(ask, s, m)
  IN CHOOSE p \in S : \A q \in S : CellKey(memory, p, s, m) <= CellKey(memory, q, s, m)
-----------------------------------------------------------------------------
NoPlacement == [cell |-> "none", arch |-> "none", chips |-> 0]

\* A faulty variant: the best shape with a cell, cooling or not.
PlanOneStraight(ask, memory, m) ==
  LET able == {s \in CandidateShapes(ask, memory.mesh) : Placeable(ask, s, m) # {}}
      s == BestShape(ask, m, able)
  IN IF able = {} THEN NoPlacement
     ELSE [cell |-> BestCell(ask, memory, s, m).cell, arch |-> s.arch, chips |-> s.chips]

\* The best shape whose best cell is not cooling, or else the best with any cell.
PlanOne(ask, memory, m) ==
  LET able == {s \in CandidateShapes(ask, memory.mesh) : Placeable(ask, s, m) # {}}
      warm == {s \in able : ~Cooling(memory, BestCell(ask, memory, s, m))}
      s == BestShape(ask, m, IF warm # {} THEN warm ELSE able)
  IN IF able = {} THEN NoPlacement
     ELSE [cell |-> BestCell(ask, memory, s, m).cell, arch |-> s.arch, chips |-> s.chips]

PairOf(placement) == [cell |-> placement.cell, arch |-> placement.arch]
-----------------------------------------------------------------------------
(* Memory.                                                                 *)

Fresh == [mesh |-> NoMesh,
          pairs |-> [p \in Pairs |-> [left |-> 0, strikes |-> 0]],
          evictions |-> [p \in Pairs |-> [strikes |-> 0, recent |-> FALSE]]]

\* stamp_pair_cooldown: strikes stack while the window is open.
StampPair(memory, p, window) ==
  [memory EXCEPT !.pairs[p] = [left |-> window, strikes |-> IF @.left > 0 THEN @.strikes + 1 ELSE 1]]
RecordEviction(memory, p) ==
  [memory EXCEPT !.evictions[p] = [strikes |-> @.strikes + 1, recent |-> TRUE]]
\* apply_placement: the first mesh is the one a locked job stays on.
Remember(ask, memory, placement) ==
  IF ask.locked /\ memory.mesh = NoMesh
  THEN [memory EXCEPT !.mesh = Mesh([arch |-> placement.arch, chips |-> placement.chips])]
  ELSE memory
=============================================================================
