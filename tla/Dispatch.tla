------------------------------- MODULE Dispatch -------------------------------
(***************************************************************************)
(* google3_tpu_utils/route_check.py: the dispatch worker, which decides    *)
(* each round which jobs of the queue are built, in which pool and within  *)
(* which budget, and the one-shot placement pass it replaced.              *)
(*                                                                         *)
(* A round is one step: what other processes do to a row meanwhile is in   *)
(* JobQueue, and so are a build's crashes and failures.                    *)
(***************************************************************************)
EXTENDS Placement, Sequences, FiniteSetsExt, SequencesExt

CONSTANTS Queue,       \* the jobs, highest priority first
          Asks,        \* what each job may ask for
          Chips,       \* of each pair
          CellPrice, DearPrice, ArchPrice,
          Preferred,   \* the pools tried before Fallback, in order; their jobs are exempt
          Fallback,
          Floor, LimitOrder, Balance,   \* of each preferred pool
          Bar,         \* credits an hour the jobs of Fallback may cost
          Window,      \* ticks of a cooldown
          Modes,       \* which drainer runs
          Faults,      \* what may go wrong
          MaxTurns,    \* bound: changes for the worse, of the market and of what is known
          MaxMoves     \* bound: moves of a job

Jobs == {Queue[i] : i \in 1..Len(Queue)}
PreferredPools == {Preferred[i] : i \in 1..Len(Preferred)}
Pools == PreferredPools \cup {Fallback}
NoPool == "none"

ASSUME DispatchConstantsOK ==
  /\ Window \in Nat \ {0} /\ MaxTurns \in Nat /\ MaxMoves \in Nat /\ Bar \in Nat
  /\ Queue \in Seq(Jobs) /\ IsInjective(Queue)
  /\ Preferred \in Seq(PreferredPools)
  /\ Fallback \notin PreferredPools /\ NoPool \notin Pools
  /\ Chips \in [Pairs -> Nat]
  /\ CellPrice \in [Pairs -> Price] /\ DearPrice \in [Pairs -> Price] /\ ArchPrice \in [Archs -> Price]
  /\ \A g \in PreferredPools :
       /\ Balance[g] \in Int
       /\ \A a \in Hosted : Floor[g][a] \in Nat /\ LimitOrder[g][a] \in Price
  /\ Modes \subseteq {"worker", "pass"} /\ Modes # {}
  /\ Faults \subseteq {"fetch", "probe"}
  /\ \A j \in Jobs : Asks[j] # {}

VARIABLES
  mode,     \* which drainer runs
  ask,      \* what each job asks for
  row,      \* each job: its state (QUEUED, BUILD_REQUESTED, BUDGET_DEFERRED, SUBMITTED, RUNNING,
            \* DONE), placement and pool
  memory,   \* each job: what its moves have left it
  mood,     \* of each pair
  missing,  \* the generations whose availability cannot be fetched
  quota,    \* of each preferred pool: its quota table as cached, by generation
  turns,
  moves

vars == <<mode, ask, row, memory, mood, missing, quota, turns, moves>>

Moods == {"open", "full", "oversold", "dear"}

Init ==
  /\ mode \in Modes
  /\ ask \in [Jobs -> UNION {Asks[j] : j \in Jobs}]
  /\ \A j \in Jobs : ask[j] \in Asks[j]
  /\ row = [j \in Jobs |-> [st |-> "QUEUED", placement |-> NoPlacement, pool |-> NoPool]]
  /\ memory = [j \in Jobs |-> [mesh |-> NoMesh, pairs |-> Fresh.pairs, evictions |-> Fresh.evictions,
                               pools |-> [g \in Pools |-> 0]]]
  /\ mood = [p \in Pairs |-> "open"]
  /\ missing = {}
  /\ quota = [g \in PreferredPools |-> [fresh |-> FALSE, used |-> [a \in Hosted |-> 0]]]
  /\ turns = 0
  /\ moves = 0
-----------------------------------------------------------------------------
(* The market and the budget.                                              *)

In(st) == {j \in Jobs : row[j].st = st}
SumChips(S) == MapThenSumSet(LAMBDA j : row[j].placement.chips, S)
At(p) == {j \in Jobs : row[j].placement # NoPlacement /\ PairOf(row[j].placement) = p}

\* A job that waits for its slice does not take it from what is shown as free.
FreeAt(p) == IF mood[p] = "full" THEN 0 ELSE Chips[p] - SumChips(In("RUNNING") \cap At(p))

\* What one fetch shows.  Each generation is asked for on its own, and one that fails is left
\* out; the prices come from a file.
ShownAt(p) == IF p.arch \in missing THEN 0 ELSE FreeAt(p)
Market ==
  LET free == [p \in Pairs |-> ShownAt(p)]
  IN [free |-> free,
      oversold |-> [p \in Pairs |-> mood[p] = "oversold"],
      price |-> [p \in Pairs |-> IF mood[p] = "dear" THEN DearPrice[p] ELSE CellPrice[p]],
      pool |-> [a \in Hosted |-> MapThenSumSet(LAMBDA p : free[p], {p \in Pairs : p.arch = a})],
      archPrice |-> ArchPrice]
Dark == [Market EXCEPT !.free = [p \in Pairs |-> 0]]

\* The fetch may fail as a whole.
Fetches == {Market} \cup (IF "fetch" \in Faults THEN {Dark} ELSE {})

\* budget_check.py, which knows of a job once it is submitted.
Cost(placement) == placement.chips * ArchPrice[placement.arch]
Spend == MapThenSumSet(LAMBDA j : Cost(row[j].placement),
                       {j \in In("SUBMITTED") \cup In("RUNNING") : row[j].pool = Fallback})
Headroom == Bar - Spend
-----------------------------------------------------------------------------
(* The choice of a pool.                                                   *)

Positive(n) == IF n > 0 THEN n ELSE 0

\* A job is costed at its cell's price or, where the cell has none, its generation's.
CostPrice(price, a) == IF Quoted(price) THEN price ELSE ArchPrice[a]

\* group_can_hold: room inside the floor, or else a balance for an hour of all there is
\* above it, with the jobs already sent there.  What is not known refuses.
GroupCanHold(g, placement, price, pending) ==
  LET a == placement.arch
      room == Floor[g][a] - quota[g].used[a] - pending[a]
      above == MapThenSumSet(LAMBDA f : Positive(quota[g].used[f] + pending[f] - Floor[g][f])
                                          * ArchPrice[f], Hosted)
      cost == CostPrice(price, a)
  IN /\ quota[g].fresh
     /\ ~Over(cost, LimitOrder[g][a])
     /\ \/ room >= placement.chips
        \/ Balance[g] >= above + (placement.chips - Positive(room)) * cost

GroupCooling(j, g) == memory[j].pools[g] > 0

\* The first preferred pool that may take the job and whose probe answers; a pin overrides
\* them all.
PickGroup(j, placement, price, pending, silent) ==
  LET able == {i \in 1..Len(Preferred) :
                 LET g == Preferred[i] IN /\ ~GroupCooling(j, g)
                                          /\ GroupCanHold(g, placement, price, pending[g])
                                          /\ g \notin silent}
  IN IF ask[j].pin # NoPool THEN ask[j].pin
     ELSE IF able = {} THEN Fallback ELSE Preferred[Min(able)]

\* A faulty variant: the jobs admitted earlier in the round are not counted.
DebitGroupNothing(pending, g, placement) == pending

DebitGroup(pending, g, placement) ==
  IF g = Fallback THEN pending
  ELSE [pending EXCEPT ![g][placement.arch] = @ + placement.chips]

\* Sent there and not running yet.
PendingByGroup ==
  [g \in PreferredPools |-> [a \in Hosted |->
     SumChips({j \in In("SUBMITTED") : row[j].pool = g /\ row[j].placement.arch = a})]]

\* Each job of the order has its pool, the debits of the ones before it made.
Picks(order, plan, m, silent) ==
  LET Pick(acc, j) ==
        LET g == PickGroup(j, plan[j], m.price[PairOf(plan[j])], acc.pending, silent)
        IN [pool |-> [acc.pool EXCEPT ![j] = g], pending |-> DebitGroup(acc.pending, g, plan[j])]
  IN FoldLeft(Pick, [pool |-> [j \in Jobs |-> NoPool], pending |-> PendingByGroup], order).pool
-----------------------------------------------------------------------------
(* The budget of a round.                                                  *)

\* What a probe of the pool says of the job there.  It costs nothing if none answers.
Exempt(g, silent) == g \in PreferredPools \ silent
Charge(g, placement, silent) == IF g \in PreferredPools \cup silent THEN 0 ELSE Cost(placement)

\* A faulty variant: every job is held against the same headroom.
Undebited(left, charge) == left
Debited(left, charge) == left - charge

\* A faulty variant: a job that does not fit holds up those behind it.
PlanDispatchInLine(order, exempt, charge) ==
  LET Decide(acc, j) ==
        IF exempt[j] \/ (charge[j] <= acc.left /\ ~acc.stop)
        THEN [acc EXCEPT !.left = Debited(@, charge[j]), !.admitted = @ \cup {j}]
        ELSE [acc EXCEPT !.stop = TRUE]
  IN FoldLeft(Decide, [left |-> Headroom, admitted |-> {}, stop |-> FALSE], order).admitted

\* Greedy, in order, each job admitted debited at once.
PlanDispatch(order, exempt, charge) ==
  LET Decide(acc, j) ==
        IF exempt[j] \/ charge[j] <= acc.left
        THEN [left |-> Debited(acc.left, charge[j]), admitted |-> acc.admitted \cup {j}]
        ELSE acc
  IN FoldLeft(Decide, [left |-> Headroom, admitted |-> {}], order).admitted
-----------------------------------------------------------------------------
(* The worker.                                                             *)

Backpressure == In("BUILD_REQUESTED") # {}

\* Deferred jobs are taken up again.
Waiting == In("QUEUED") \cup In("BUDGET_DEFERRED")

Plans(m) == [j \in Jobs |-> PlanOne(ask[j], memory[j], m)]

Decided(order, pools, admitted) ==
  [j \in Jobs |->
     IF j \in admitted THEN [row[j] EXCEPT !.st = "BUILD_REQUESTED", !.pool = pools[j]]
     ELSE IF j \in {order[i] : i \in 1..Len(order)} THEN [row[j] EXCEPT !.st = "BUDGET_DEFERRED"]
     ELSE IF j \in Waiting THEN [row[j] EXCEPT !.st = "QUEUED"]
     ELSE row[j]]

\* Highest priority first.
Ordered(S) == FoldLeft(LAMBDA seq, j : IF j \in S THEN Append(seq, j) ELSE seq, <<>>, Queue)

\* run_dispatch_once.  A job nothing can place stays QUEUED.  Probes of the budget may fail.
Dispatch(m) ==
  /\ mode = "worker"
  /\ \E silent \in IF "probe" \in Faults THEN SUBSET Pools ELSE {{}}, plan \in {Plans(m)} :
       LET order == Ordered({j \in Waiting : plan[j] # NoPlacement})
           pools == Picks(order, plan, m, silent)
           exempt == [j \in Jobs |-> Exempt(pools[j], silent)]
           charge == [j \in Jobs |-> Charge(pools[j], plan[j], silent)]
       IN row' = IF Backpressure THEN Decided(<<>>, pools, {})
                 ELSE Decided(order, pools, PlanDispatch(order, exempt, charge))
  /\ row' # row
  /\ UNCHANGED <<mode, ask, memory, mood, missing, quota, turns, moves>>

Submitted(j, placement) == [row[j] EXCEPT !.st = "SUBMITTED", !.placement = placement]

\* run_worker_once, for the first job to be built: it is planned again, and `tpu queue` asks
\* the budget again.
Build(m) ==
  /\ mode = "worker" /\ In("BUILD_REQUESTED") # {}
  /\ \E j \in {Ordered(In("BUILD_REQUESTED"))[1]} :
     \E placement \in {PlanOne(ask[j], memory[j], m)} :
        CASE placement = NoPlacement ->
               /\ row' = [row EXCEPT ![j].st = "QUEUED"]
               /\ UNCHANGED memory
          [] placement # NoPlacement /\ row[j].pool = Fallback /\ Cost(placement) > Headroom ->
               /\ row' = [row EXCEPT ![j].st = "BUDGET_DEFERRED"]
               /\ UNCHANGED memory
          [] OTHER ->
               /\ row' = [row EXCEPT ![j] = Submitted(j, placement)]
               /\ memory' = [memory EXCEPT ![j] = Remember(ask[j], @, placement)]
  /\ UNCHANGED <<mode, ask, mood, missing, quota, turns, moves>>
-----------------------------------------------------------------------------
(* The one-shot pass, under the Fallback pool.                             *)

\* Any order within a priority.
Orders ==
  {order \in SetToSeqs(In("QUEUED")) :
     \A i, k \in 1..Len(order) : i < k => ask[order[i]].priority >= ask[order[k]].priority}

\* A faulty variant: what a placement takes is not taken off.
TakenNothing(m, placement) == m
Taken(m, placement) ==
  IF placement = NoPlacement THEN m
  ELSE [m EXCEPT !.free[PairOf(placement)] = Positive(@ - placement.chips)]

SelectAndPlan(order, m) ==
  LET Plan(acc, j) ==
        LET placement == PlanOne(ask[j], memory[j], acc.m)
        IN [m |-> Taken(acc.m, placement), plan |-> [acc.plan EXCEPT ![j] = placement]]
  IN FoldLeft(Plan, [m |-> m, plan |-> [j \in Jobs |-> NoPlacement]], order).plan

\* run_tick: each planned job is submitted, if `tpu queue` finds the budget for it.
Pass ==
  /\ mode = "pass"
  /\ \E order \in Orders : \E plan \in {SelectAndPlan(order, Market)} :
       LET charge == [j \in Jobs |-> IF plan[j] = NoPlacement THEN 0 ELSE Cost(plan[j])]
           placed == {j \in PlanDispatch(order, [j \in Jobs |-> FALSE], charge) : plan[j] # NoPlacement}
       IN /\ placed # {}
          /\ row' = [j \in Jobs |-> IF j \in placed
                                    THEN [Submitted(j, plan[j]) EXCEPT !.pool = Fallback] ELSE row[j]]
          /\ memory' = [j \in Jobs |-> IF j \in placed THEN Remember(ask[j], memory[j], plan[j])
                                       ELSE memory[j]]
  /\ UNCHANGED <<mode, ask, mood, missing, quota, turns, moves>>
-----------------------------------------------------------------------------
(* The jobs, the market and the clock.                                     *)

Seat(j) ==
  /\ row[j].st = "SUBMITTED" /\ FreeAt(PairOf(row[j].placement)) >= row[j].placement.chips
  /\ row' = [row EXCEPT ![j].st = "RUNNING"]
  /\ UNCHANGED <<mode, ask, memory, mood, missing, quota, turns, moves>>
End(j) ==
  /\ row[j].st = "RUNNING"
  /\ row' = [row EXCEPT ![j] = [st |-> "DONE", placement |-> NoPlacement, pool |-> NoPool]]
  /\ UNCHANGED <<mode, ask, memory, mood, missing, quota, turns, moves>>

\* mark_reroute, of a job that waits too long, or that is thrown out again and again: its
\* pair and its pool cool, and an eviction is recorded too.
Move(j) ==
  /\ row[j].st \in {"SUBMITTED", "RUNNING"} /\ moves < MaxMoves
  /\ moves' = moves + 1
  /\ LET p == PairOf(row[j].placement)
         cooled == StampPair(memory[j], p, Window)
         struck == IF row[j].st = "RUNNING" THEN RecordEviction(cooled, p) ELSE cooled
     IN memory' = [memory EXCEPT ![j] = [struck EXCEPT !.pools[row[j].pool] = Window]]
  /\ row' = [row EXCEPT ![j].st = "QUEUED", ![j].placement = NoPlacement]
  /\ UNCHANGED <<mode, ask, mood, missing, quota, turns>>

Rested(m) ==
  [m EXCEPT !.pairs = [p \in Pairs |-> [left |-> Positive(m.pairs[p].left - 1),
                                        strikes |-> m.pairs[p].strikes]],
            !.evictions = [p \in Pairs |-> [strikes |-> m.evictions[p].strikes, recent |-> FALSE]],
            !.pools = [g \in Pools |-> Positive(m.pools[g] - 1)]]
Tick ==
  /\ memory' = [j \in Jobs |-> Rested(memory[j])]
  /\ memory' # memory
  /\ UNCHANGED <<mode, ask, row, mood, missing, quota, turns, moves>>

\* Bound: not where no job may go.
Worsen(p) ==
  /\ HasStorage(Metro[p.cell])
  /\ mood[p] = "open" /\ turns < MaxTurns
  /\ \E worse \in Moods \ {"open"} : mood' = [mood EXCEPT ![p] = worse]
  /\ turns' = turns + 1
  /\ UNCHANGED <<mode, ask, row, memory, missing, quota, moves>>
Reopen(p) ==
  /\ mood[p] # "open"
  /\ mood' = [mood EXCEPT ![p] = "open"]
  /\ UNCHANGED <<mode, ask, row, memory, missing, quota, turns, moves>>

\* The call for a generation fails, and answers again.
Fail(a) ==
  /\ "fetch" \in Faults
  /\ a \notin missing /\ turns < MaxTurns
  /\ missing' = missing \cup {a}
  /\ turns' = turns + 1
  /\ UNCHANGED <<mode, ask, row, memory, mood, quota, moves>>
Answer(a) ==
  /\ a \in missing
  /\ missing' = missing \ {a}
  /\ UNCHANGED <<mode, ask, row, memory, mood, quota, turns, moves>>

\* The status daemon writes the pool's quota table, or has not for a quarter of an hour.
Recount(g) ==
  /\ quota' = [quota EXCEPT ![g] =
       [fresh |-> TRUE, used |-> [a \in Hosted |->
          SumChips({j \in In("RUNNING") : row[j].pool = g /\ row[j].placement.arch = a})]]]
  /\ UNCHANGED <<mode, ask, row, memory, mood, missing, turns, moves>>
Lapse(g) ==
  /\ quota[g].fresh /\ turns < MaxTurns
  /\ quota' = [quota EXCEPT ![g].fresh = FALSE]
  /\ turns' = turns + 1
  /\ UNCHANGED <<mode, ask, row, memory, mood, missing, moves>>

Worker == \E m \in Fetches : Dispatch(m) \/ Build(m)
World == \/ \E j \in Jobs : Seat(j) \/ End(j) \/ Move(j)
         \/ Tick
         \/ \E p \in Pairs : Worsen(p) \/ Reopen(p)
         \/ \E a \in Hosted : Fail(a) \/ Answer(a)
         \/ \E g \in PreferredPools : Recount(g) \/ Lapse(g)
Next == Worker \/ Pass \/ World
Spec == Init /\ [][Next]_vars
-----------------------------------------------------------------------------
(* Properties.                                                             *)

Admitted == {j \in Jobs : row[j].st # "BUILD_REQUESTED" /\ row'[j].st = "BUILD_REQUESTED"}
Before(j) == {i \in Jobs : \E k, l \in 1..Len(Queue) : Queue[k] = i /\ Queue[l] = j /\ k <= l}

\* What the bar would hold once a round has sent what it admits.
Committed ==
  LET plan == Plans(Market)
  IN Spend + MapThenSumSet(LAMBDA j : Cost(plan[j]),
                           {j \in Jobs : row'[j].st = "BUILD_REQUESTED" /\ row'[j].pool = Fallback})

\* Whatever a round admits costs, with all that is admitted or runs already, no more than
\* the bar.  (plan_dispatch: "greedy-fill this round's headroom with in-memory pre-debit")
RoundWithinBar == [][Admitted # {} => Committed <= Bar]_vars

\* And a job it defers would not have fitted beside them: no dearer one holds it up.
\* (plan_dispatch, "a big job does NOT block smaller jobs behind it")
RoundFillsBar ==
  [][Admitted # {} =>
       \A j \in Jobs : (mode = "worker" /\ row'[j].st = "BUDGET_DEFERRED") =>
         Committed + Cost(Plans(Market)[j]) > Bar
     ]_vars

\* A pool is not sent more than it can seat: with what its table counts as used, what waits
\* there and what the round sends before it, a job is inside its floor, or the balance pays
\* for all there is above the floors.  Of a pinned job the caller answers.  (group_can_hold)
PoolHoldsWhatItIsSent ==
  [][\A j \in Admitted :
       (row'[j].pool \in PreferredPools /\ ask[j].pin = NoPool) =>
         LET g == row'[j].pool
             plan == Plans(Market)
             sent == {i \in Admitted \cap Before(j) : row'[i].pool = g}
             Total(f) == quota[g].used[f] + PendingByGroup[g][f]
                           + MapThenSumSet(LAMBDA i : plan[i].chips, {i \in sent : plan[i].arch = f})
             Above(f) == Positive(Total(f) - Floor[g][f]) * ArchPrice[f]
         IN \/ Total(plan[j].arch) <= Floor[g][plan[j].arch]
            \/ MapThenSumSet(Above, Hosted) <= Balance[g]
     ]_vars

\* A job that cannot change its mesh never does, from its first placement on, however often
\* it is moved and whatever generation takes it.  (candidate_shapes, "TOPOLOGY LOCK")
MeshKept ==
  \A j \in Jobs : (ask[j].locked /\ row[j].placement # NoPlacement) =>
    Mesh([arch |-> row[j].placement.arch, chips |-> row[j].placement.chips]) = Mesh(ask[j].power)

\* A job goes back to a pair it was moved off only if, in every shape it accepts, no warm cell
\* is better than all the cooling ones, their penalties counted: in a shape whose best cell is
\* warm it would have gone there, were it dearer.  Only the generations that were fetched
\* count.  (plan_one, "CROSS-ARCH COOLDOWN FALLTHROUGH")
BackOnlyIfNowhereElse ==
  [][\A j \in Jobs :
       (mode = "worker" /\ row[j].st = "BUILD_REQUESTED" /\ row'[j].st = "SUBMITTED"
          /\ Cooling(memory[j], PairOf(row'[j].placement))) =>
         \A s \in CandidateShapes(ask[j], memory[j].mesh) :
           LET S == Placeable(ask[j], s, Market)
               Better(q, p) == CellKey(memory[j], q, s, Market) < CellKey(memory[j], p, s, Market)
           IN ~\E q \in S : /\ ~Cooling(memory[j], q)
                            /\ \A p \in S : Cooling(memory[j], p) => Better(q, p)
     ]_vars

\* One pass never sends to a pair more than the fetch showed free there.  (select_and_plan,
\* "so two jobs in one tick do not both get routed to the same cell")
NoHerd ==
  [][mode = "pass" => \A p \in Pairs :
       LET S == {j \in In("QUEUED") : row'[j].st = "SUBMITTED" /\ PairOf(row'[j].placement) = p}
       IN S # {} => MapThenSumSet(LAMBDA j : row'[j].placement.chips, S) <= ShownAt(p)
     ]_vars

=============================================================================
