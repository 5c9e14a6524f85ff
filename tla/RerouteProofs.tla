----------------------------- MODULE RerouteProofs -----------------------------
(***************************************************************************)
(* Theorems about Reroute, for any number of jobs, any limits and any      *)
(* number of crashes.                                                      *)
(***************************************************************************)
EXTENDS Reroute, TLAPS

-----------------------------------------------------------------------------
(* What the helpers return.                                                *)

\* Between two rows, and after a row was left, the pass is well formed.
LEMMA RestTyped ==
  ASSUME TypeOK, NEW j \in Jobs
  PROVE  Rest(j) \in Pass /\ Rest(j).pc = "look" /\ Rest(j).todo = sweep.todo \ {j}
  BY SMT DEF TypeOK, Pass, Between, Rest

\* A row taken a step further is in hand and no longer on the list.
LEMMA StepTyped ==
  ASSUME TypeOK, NEW j \in Jobs, NEW pc \in {"gap", "run", "read"},
         NEW why \in {"none", "stuck", "thrash", "nominal"}, Step(j, pc, why)
  PROVE  /\ sweep' \in Pass
         /\ sweep'.pc = pc /\ sweep'.why = why /\ sweep'.job = j
         /\ sweep'.todo = sweep.todo \ {j}
  BY SMT DEF TypeOK, Pass, Step

\* What was true of it is kept.
LEMMA StepKeeps ==
  ASSUME NEW j, NEW pc, NEW why, Step(j, pc, why)
  PROVE  /\ sweep'.seated <=> (why # "thrash" /\ Seated(exp[j]))
         /\ sweep'.earned <=> (why = "thrash" /\ Earned(exp[j]))
  BY Zenon DEF Step

\* What a row becomes when its cell is read from the experiment.
LEMMA RecoveredTyped ==
  ASSUME TypeOK, NEW j \in Jobs, Live(j), NEW blind, Recovered(j, blind)
  PROVE  /\ row' \in [Jobs -> Row]
         /\ \A k \in Jobs : row'[k].st = row[k].st /\ row'[k].due = row[k].due
         /\ \A k \in Jobs : row'[k].st = "QUEUED" => ~row'[k].cell /\ ~row'[k].due
  <1>1. CASE "placement" \in blind
    BY <1>1, Zenon DEF Recovered, TypeOK
  <1>2. CASE "placement" \notin blind
    <2>1. row' = [row EXCEPT ![j] = [row[j] EXCEPT !.cell = TRUE]]
      BY <1>2, Zenon DEF Recovered
    <2>2. row[j] \in Row
      BY DEF TypeOK
    <2>3. /\ [row[j] EXCEPT !.cell = TRUE] \in Row
          /\ [row[j] EXCEPT !.cell = TRUE].st = row[j].st
          /\ [row[j] EXCEPT !.cell = TRUE].due = row[j].due
      BY <2>2, Zenon DEF Row
    <2>4. QED
      BY <2>1, <2>3, Zenon DEF TypeOK, Live
  <1>3. QED
    BY <1>1, <1>2

\* Replacing one row by a well-formed one.
LEMMA RowTyped ==
  ASSUME TypeOK, NEW j \in Jobs, NEW r \in Row, r.st = "QUEUED" => ~r.cell /\ ~r.due,
         row' = [row EXCEPT ![j] = r]
  PROVE  /\ row' \in [Jobs -> Row]
         /\ \A k \in Jobs : row'[k].st = "QUEUED" => ~row'[k].cell /\ ~row'[k].due
  BY SMT DEF TypeOK, Row

\* Counting one more start, which stops at the bound, keeps the order of two counts.
LEMMA OneMoreTyped ==
  ASSUME NEW m \in Starts, NEW n \in Starts
  PROVE  /\ OneMore(m) \in Starts /\ 0 \in Starts /\ 1 \in Starts
         /\ m <= n => OneMore(m) <= OneMore(n)
         /\ m <= n + 1 => OneMore(m) <= OneMore(n) + 1
  BY RerouteConstantsOK, SMT DEF Starts, OneMore

\* A move is noted in an hour, and an hour passes.
LEMMA HourTyped ==
  ASSUME NEW h \in Hour
  PROVE  /\ Noted(h) \in Hour /\ Noted(h) = [now |-> h.now + 1, before |-> h.before]
         /\ Past(h) \in Hour /\ None \in Hour
  BY SMT DEF Hour, Noted, Past, None

-----------------------------------------------------------------------------
(* Types.                                                                  *)

\* The first state is typed, and nothing is in hand.
LEMMA InitTyped == Init => TypeOK /\ InHand
  BY RerouteConstantsOK, SMT
     DEF Init, TypeOK, InHand, Row, Exp, NoExp, Pass, Idle, Between, None, Hour, Places, Live, Starts

\* A step of the sweep on one row keeps the types.
LEMMA SweepTyped ==
  ASSUME TypeOK, InHand, NEW j \in Jobs, NEW blind \in SUBSET Failing, Sweep(j, blind)
  PROVE  TypeOK' /\ InHand'
<1> USE DEF Live
<1>1. CASE Look(j, blind)
  <2>1. UNCHANGED <<exp, hist, file, made, lost>> /\ Live(j) /\ sweep.pc = "look"
    BY <1>1 DEF Look, InHand
  <2>2. CASE Step(j, "gap", "none") /\ UNCHANGED row
    BY <2>1, <2>2, StepTyped, SMT DEF TypeOK, InHand
  <2>3. CASE Left(j)
    BY <2>1, <2>3, RestTyped, SMT DEF TypeOK, InHand, Left
  <2>4. CASE Step(j, "run", "none") /\ Recovered(j, blind)
    BY <2>1, <2>4, StepTyped, RecoveredTyped, SMT DEF TypeOK, InHand
  <2>5. QED
    BY <1>1, <2>2, <2>3, <2>4 DEF Look
<1>2. CASE Gap(j, blind)
  <2>1. UNCHANGED <<exp, hist, file, made, lost>> /\ Live(j) /\ sweep.pc = "gap"
    BY <1>2 DEF Gap, At, InHand
  <2>2. CASE Step(j, "read", "stuck") /\ UNCHANGED row
    BY <2>1, <2>2, StepTyped, SMT DEF TypeOK, InHand
  <2>3. CASE Left(j)
    BY <2>1, <2>3, RestTyped, SMT DEF TypeOK, InHand, Left
  <2>4. QED
    BY <1>2, <2>2, <2>3 DEF Gap
<1>3. CASE Judge(j, blind)
  <2>1. UNCHANGED <<exp, hist, file, made, lost>> /\ Live(j) /\ sweep.pc = "run"
    BY <1>3 DEF Judge, At, InHand
  <2>2. CASE Step(j, "read", "thrash") /\ UNCHANGED row
    BY <2>1, <2>2, StepTyped, SMT DEF TypeOK, InHand
  <2>3. CASE Step(j, "read", "nominal") /\ UNCHANGED row
    BY <2>1, <2>3, StepTyped, SMT DEF TypeOK, InHand
  <2>4. ASSUME NEW st \in {row[j].st, "RUNNING"},
               sweep' = Rest(j), row' = [row EXCEPT ![j].st = st]
        PROVE  TypeOK' /\ InHand'
    <3>1. /\ row' \in [Jobs -> Row]
          /\ \A k \in Jobs : row'[k].st = "QUEUED" => ~row'[k].cell /\ ~row'[k].due
          /\ \A k \in Jobs : Live(k) => row'[k].st # "QUEUED"
      BY <2>1, <2>4, SMT DEF TypeOK, Row
    <3>2. QED
      BY <2>1, <2>4, <3>1, RestTyped, SMT DEF TypeOK, InHand
  <2>5. QED
    BY <1>3, <2>2, <2>3, <2>4, Zenon DEF Judge
<1>4. CASE Read(j, blind)
  <2>1. UNCHANGED <<row, exp, hist, file, made, lost>> /\ sweep.pc = "read" /\ sweep.job = j
    BY <1>4 DEF Read, At
  <2>2. CASE sweep' = Rest(j)
    BY <2>1, <2>2, RestTyped, SMT DEF TypeOK, InHand
  <2>3. CASE sweep' = [sweep EXCEPT !.pc = "cancel"]
    <3>1. sweep' \in Pass /\ sweep'.why = sweep.why /\ sweep'.todo = sweep.todo
          /\ sweep'.job = sweep.job
      BY <2>3, Zenon DEF TypeOK, Pass
    <3>2. QED
      BY <2>1, <2>3, <3>1, SMT DEF TypeOK, InHand
  <2>4. QED
    BY <1>4, <2>2, <2>3 DEF Read
<1>5. CASE Cancel(j, blind)
  <2>1. UNCHANGED <<row, hist, file, lost>> /\ sweep.pc = "cancel" /\ sweep.job = j
    BY <1>5 DEF Cancel, At
  <2>2. CASE sweep' = Rest(j) /\ UNCHANGED <<exp, made>>
    BY <2>1, <2>2, RestTyped, SMT DEF TypeOK, InHand
  <2>3. CASE /\ sweep' = [sweep EXCEPT !.pc = "record"]
             /\ exp' = [exp EXCEPT ![j].at = "dead"]
             /\ made' = Noted(made)
    <3>1. exp' \in [Jobs -> Exp]
      BY <2>3, SMT DEF TypeOK, Exp, Places
    <3>2. sweep' \in Pass
      BY <2>3, SMT DEF TypeOK, Pass
    <3>3. QED
      BY <2>1, <2>3, <3>1, <3>2, HourTyped, SMT DEF TypeOK, InHand
  <2>4. QED
    BY <1>5, <2>2, <2>3 DEF Cancel
<1>6. QED
  BY <1>1, <1>2, <1>3, <1>4, <1>5 DEF Sweep

\* So does the writing down of a move.
LEMMA RecordTyped ==
  ASSUME TypeOK, InHand, NEW j \in Jobs, Record(j)
  PROVE  TypeOK' /\ InHand'
<1>1. /\ row' = [row EXCEPT ![j] = Requeued(row[j])] /\ sweep' = Rest(j)
      /\ UNCHANGED <<exp, made>> /\ sweep.pc = "record" /\ sweep.job = j
  BY DEF Record, At
<1>2. /\ row' \in [Jobs -> Row]
      /\ \A k \in Jobs : row'[k].st = "QUEUED" => ~row'[k].cell /\ ~row'[k].due
  <2>1. Requeued(row[j]) \in Row /\ ~Requeued(row[j]).cell /\ ~Requeued(row[j]).due
    BY SMT DEF Requeued, Row
  <2>2. QED
    BY <1>1, <2>1, RowTyped
<1>3. hist' \in Hour /\ file' \in Hour /\ lost' \in 0..MaxLost
  BY HourTyped, RerouteConstantsOK, SMT DEF Record, TypeOK
<1>4. InHand'
  BY <1>1, RestTyped, SMT DEF TypeOK, InHand, Live
<1>5. QED
  BY <1>1, <1>2, <1>3, <1>4, RestTyped, SMT DEF TypeOK

\* So does what the jobs, Borg and XManager do.
LEMMA WorldTyped ==
  ASSUME TypeOK, InHand, NEW j \in Jobs, World(j)
  PROVE  TypeOK' /\ InHand'
<1>1. CASE Submit(j)
  <2>1. PICK c \in BOOLEAN :
          row' = [row EXCEPT ![j] = [st |-> "SUBMITTED", cell |-> c, due |-> FALSE]]
    BY <1>1, RerouteConstantsOK DEF Submit
  <2>2. /\ [st |-> "SUBMITTED", cell |-> c, due |-> FALSE] \in Row
        /\ [st |-> "SUBMITTED", cell |-> c, due |-> FALSE].st # "QUEUED"
    BY SMT DEF Row
  <2>3. /\ row' \in [Jobs -> Row]
        /\ \A k \in Jobs : row'[k].st = "QUEUED" => ~row'[k].cell /\ ~row'[k].due
    BY <2>1, <2>2, RowTyped, Zenon
  <2>4. exp' \in [Jobs -> Exp]
    <3>1. NoExp \in Exp
      BY OneMoreTyped, RerouteConstantsOK, SMT DEF NoExp, Exp, Places, Starts
    <3>2. [NoExp EXCEPT !.at = "queued"] \in Exp
      BY <3>1, Zenon DEF Exp, Places
    <3>3. QED
      BY <1>1, <3>2 DEF Submit, TypeOK
  <2>5. InHand'
    BY <1>1, <2>1, SMT DEF Submit, InHand, Live, TypeOK
  <2>6. QED
    BY <1>1, <2>3, <2>4, <2>5 DEF Submit, TypeOK
<1>2. CASE Age(j)
  <2>1. row' = [row EXCEPT ![j] = [row[j] EXCEPT !.due = TRUE]]
    BY <1>2, Zenon DEF Age
  <2>2. row[j] \in Row
    BY DEF TypeOK
  <2>3. /\ [row[j] EXCEPT !.due = TRUE] \in Row
        /\ [row[j] EXCEPT !.due = TRUE].st = row[j].st
    BY <2>2, Zenon DEF Row
  <2>4. \A k \in Jobs : row'[k].st = row[k].st
    BY <2>1, <2>3, Zenon DEF TypeOK
  <2>5. TypeOK'
    BY <1>2, <2>1, <2>3, RowTyped, Zenon DEF Age, Live, TypeOK
  <2>6. QED
    BY <1>2, <2>4, <2>5, Zenon DEF Age, InHand, Live, TypeOK
<1>3. CASE Reconcile(j)
  <2>1. CASE row' = [row EXCEPT ![j].st = "RUNNING"]
    BY <1>3, <2>1, SMT DEF Reconcile, TypeOK, InHand, Live, Row
  <2>2. CASE row' = [row EXCEPT ![j] = Requeued(row[j])]
    <3>1. Requeued(row[j]) \in Row /\ ~Requeued(row[j]).cell /\ ~Requeued(row[j]).due
      BY SMT DEF Requeued, Row
    <3>2. TypeOK'
      BY <1>3, <2>2, <3>1, RowTyped, Zenon DEF Reconcile, TypeOK
    <3>3. sweep.pc = "idle" /\ sweep.todo = {} /\ UNCHANGED sweep
      BY <1>3 DEF Reconcile, InHand
    <3>4. QED
      BY <3>2, <3>3 DEF InHand
  <2>3. QED
    BY <1>3, <2>1, <2>2 DEF Reconcile
<1>4. ASSUME NEW e \in Exp, Moved(j, e)
      PROVE  TypeOK' /\ InHand'
  BY <1>4, SMT DEF Moved, TypeOK, InHand, Live
<1>5. exp[j] \in Exp
  BY DEF TypeOK
<1>6. CASE Seat(j) \/ Restart(j)
  <2>1. [exp[j] EXCEPT !.at = "boot", !.odd = FALSE] \in Exp
    BY <1>5, Zenon DEF Exp, Places
  <2>2. QED
    BY <1>4, <1>6, <2>1 DEF Seat, Restart
<1>7. CASE Preempt(j)
  <2>1. [exp[j] EXCEPT !.at = "queued", !.odd = FALSE] \in Exp
    BY <1>5, Zenon DEF Exp, Places
  <2>2. QED
    BY <1>4, <1>7, <2>1 DEF Preempt
<1>8. CASE Train(j)
  <2>1. OneMore(exp[j].newer) \in Starts /\ OneMore(exp[j].since) \in Starts
    BY <1>5, OneMoreTyped, Zenon DEF Exp
  <2>2. [exp[j] EXCEPT !.at = "train", !.wrote = "fresh", !.loud = FALSE,
                       !.newer = OneMore(@), !.since = OneMore(@)] \in Exp
    BY <1>5, <2>1, Zenon DEF Exp, Places
  <2>3. QED
    BY <1>4, <1>8, <2>2 DEF Train
<1>9. CASE Save(j)
  <2>1. /\ [exp[j] EXCEPT !.since = 0] \in Exp
        /\ [exp[j] EXCEPT !.since = 0, !.saved = TRUE, !.newer = 0] \in Exp
    BY <1>5, OneMoreTyped, Zenon DEF Exp
  <2>2. QED
    BY <1>4, <1>9, <2>1 DEF Save
<1>10. CASE Log(j)
  <2>1. [exp[j] EXCEPT !.loud = TRUE, !.newer = IF @ = 0 THEN 1 ELSE @] \in Exp
    BY <1>5, OneMoreTyped, Zenon DEF Exp
  <2>2. QED
    BY <1>4, <1>10, <2>1 DEF Log
<1>11. CASE Stale(j) \/ Quiet(j)
  <2>1. [exp[j] EXCEPT !.wrote = "stale"] \in Exp /\ [exp[j] EXCEPT !.loud = FALSE] \in Exp
    BY <1>5, Zenon DEF Exp
  <2>2. QED
    BY <1>4, <1>11, <2>1 DEF Stale, Quiet
<1>12. CASE Lie(j) \/ Shadow(j)
  <2>1. /\ [exp[j] EXCEPT !.odd = TRUE] \in Exp
        /\ [exp[j] EXCEPT !.odd = ~exp[j].odd] \in Exp
    BY <1>5, Zenon DEF Exp
  <2>2. QED
    BY <1>4, <1>12, <2>1 DEF Lie, Shadow
<1>13. QED
  BY <1>1, <1>2, <1>3, <1>6, <1>7, <1>8, <1>9, <1>10, <1>11, <1>12 DEF World

\* Every step keeps the types.
LEMMA NextTyped == TypeOK /\ InHand /\ [Next]_vars => TypeOK' /\ InHand'
<1> SUFFICES ASSUME TypeOK, InHand, [Next]_vars PROVE TypeOK' /\ InHand'
  OBVIOUS
<1>1. CASE Begin
  BY <1>1, RerouteConstantsOK, SMT DEF Begin, Candidates, Between, TypeOK, InHand, Pass, Places, Live
<1>2. CASE Close
  BY <1>2, RerouteConstantsOK, HourTyped, SMT DEF Close, Idle, Between, TypeOK, InHand, Pass, Places, Live
<1>3. CASE Crash
  BY <1>3, RerouteConstantsOK, HourTyped, SMT DEF Crash, Idle, Between, TypeOK, InHand, Pass, Places, Live
<1>4. CASE Tick
  BY <1>4, HourTyped, SMT DEF Tick, TypeOK, InHand, Live
<1>5. CASE UNCHANGED vars
  BY <1>5, SMT DEF vars, TypeOK, InHand, Live
<1>6. QED
  BY <1>1, <1>2, <1>3, <1>4, <1>5, SweepTyped, RecordTyped, WorldTyped DEF Next

\* Every variable keeps its type, and a row is in hand only while it is live.
THEOREM Typed == Spec => [](TypeOK /\ InHand)
  BY InitTyped, NextTyped, PTL DEF Spec

\* Every variable keeps its type, whatever fails and whenever the sweep dies.
THEOREM TypeCorrect == Spec => []TypeOK
  BY Typed, PTL

-----------------------------------------------------------------------------
(* The brake.                                                              *)

\* A step of the sweep that cancels nothing is in the middle of a pass that may go on.
LEMMA QuietSweep ==
  ASSUME TypeOK, NEW j \in Jobs, NEW blind \in SUBSET Failing, Sweep(j, blind), ~Cancel(j, blind)
  PROVE  /\ UNCHANGED <<exp, hist, file, made, lost>>
         /\ sweep.pc \in {"look", "gap", "run", "read"}
         /\ sweep'.pc \in {"look", "gap", "run", "read", "cancel"}
         /\ sweep.pc = "look" => ~Brake(hist)
<1>1. CASE Look(j, blind)
  BY <1>1, StepTyped, RestTyped, Zenon DEF Look, Left, BrakeInPass
<1>2. CASE Gap(j, blind)
  BY <1>2, StepTyped, RestTyped, Zenon DEF Gap, At, Left
<1>3. CASE Judge(j, blind)
  BY <1>3, StepTyped, RestTyped, Zenon DEF Judge, At
<1>4. CASE Read(j, blind)
  BY <1>4, RestTyped, SMT DEF Read, At, TypeOK, Pass
<1>5. QED
  BY <1>1, <1>2, <1>3, <1>4 DEF Sweep

\* A cancel either fails or makes one move, which is still to be written down.
LEMMA CancelCases ==
  ASSUME TypeOK, NEW j \in Jobs, NEW blind \in SUBSET Failing, Cancel(j, blind)
  PROVE  /\ UNCHANGED <<row, hist, file, lost>> /\ sweep.pc = "cancel" /\ sweep.job = j
         /\ \/ sweep' = Rest(j) /\ sweep'.pc = "look" /\ UNCHANGED <<exp, made>>
            \/ /\ sweep'.pc = "record" /\ sweep'.why = sweep.why /\ sweep'.job = sweep.job
               /\ sweep'.seated = sweep.seated /\ sweep'.earned = sweep.earned
               /\ exp' = [exp EXCEPT ![j].at = "dead"]
               /\ made' = [now |-> made.now + 1, before |-> made.before]
<1>1. UNCHANGED <<row, hist, file, lost>> /\ sweep.pc = "cancel" /\ sweep.job = j
  BY DEF Cancel, At
<1>2. CASE sweep' = Rest(j) /\ UNCHANGED <<exp, made>>
  BY <1>1, <1>2, RestTyped
<1>3. CASE /\ sweep' = [sweep EXCEPT !.pc = "record"]
           /\ exp' = [exp EXCEPT ![j].at = "dead"]
           /\ made' = Noted(made)
  BY <1>1, <1>3, HourTyped, SMT DEF TypeOK, Pass
<1>4. QED
  BY <1>2, <1>3, Zenon DEF Cancel

\* The history on disk and the one of the pass count every move that was not lost, and no
\* pass goes past the limit.
LEMMA BrakeInductive ==
  TypeOK /\ InHand /\ Counted /\ BrakeHolds /\ [Next]_vars => Counted' /\ BrakeHolds'
<1> SUFFICES ASSUME TypeOK, InHand, Counted, BrakeHolds, [Next]_vars
             PROVE  Counted' /\ BrakeHolds'
  OBVIOUS
<1>0. hist \in Hour /\ file \in Hour /\ made \in Hour /\ lost \in Nat /\ Limit \in Nat
  BY RerouteConstantsOK, SMT DEF TypeOK
<1> USE DEF Counted, Counts, Unsaved, BrakeHolds, Moves, Hour
<1>1. CASE Begin
  BY <1>0, <1>1, SMT DEF Begin, Between
<1>2. CASE Close
  BY <1>0, <1>2, SMT DEF Close, Idle, Between
<1>3. CASE Crash
  BY <1>0, <1>3, SMT DEF Crash, Idle, Between
<1>4. CASE Tick
  BY <1>0, <1>4, SMT DEF Tick, Past
<1>5. ASSUME NEW j \in Jobs, World(j) PROVE Counted' /\ BrakeHolds'
  <2>1. UNCHANGED <<sweep, hist, file, made, lost>>
    BY <1>5 DEF World, Submit, Age, Reconcile, Moved, Seat, Preempt, Restart, Train, Save,
                Log, Quiet, Stale, Lie, Shadow
  <2>2. QED
    BY <1>0, <2>1, SMT
<1>6. ASSUME NEW j \in Jobs, Record(j) PROVE Counted' /\ BrakeHolds'
  <2>1. /\ sweep.pc = "record" /\ sweep'.pc = "look" /\ UNCHANGED made
        /\ hist' = [now |-> hist.now + 1, before |-> hist.before]
    BY <1>0, <1>6, RestTyped, HourTyped DEF Record, At
  <2>2. \/ file' = hist' /\ UNCHANGED lost
        \/ UNCHANGED file /\ lost' = lost + 1
    BY <1>6 DEF Record
  <2>3. QED
    BY <1>0, <2>1, <2>2, SMT
<1>7. ASSUME NEW j \in Jobs, NEW blind \in SUBSET Failing, Sweep(j, blind)
      PROVE  Counted' /\ BrakeHolds'
  <2>1. CASE Cancel(j, blind)
    BY <1>0, <2>1, CancelCases, SMT
  <2>2. CASE ~Cancel(j, blind)
    BY <1>0, <1>7, <2>2, QuietSweep, SMT DEF Brake
  <2>3. QED
    BY <2>1, <2>2
<1>8. CASE UNCHANGED vars
  BY <1>0, <1>8, SMT DEF vars
<1>9. QED
  BY <1>1, <1>2, <1>3, <1>4, <1>5, <1>6, <1>7, <1>8 DEF Next

\* In no hour are more jobs moved than the limit, but for the moves that were lost.
THEOREM BrakeIsKept == Spec => []BrakeHolds
<1>1. Init => Counted /\ BrakeHolds
  BY RerouteConstantsOK, SMT
     DEF Init, Counted, Counts, Unsaved, BrakeHolds, Moves, None, Idle, Between
<1>2. QED
  BY <1>1, Typed, BrakeInductive, PTL DEF Spec

-----------------------------------------------------------------------------
(* What is cancelled.                                                      *)

\* What may become of the experiment of j: it is not ended, what is seated shows, and what
\* the probe sees is counted right.
Follows(j, e) ==
  /\ e.at = "dead" => exp[j].at = "dead"
  /\ Shows(exp[j]) => Shows(e)
  /\ Seen(exp[j]) /\ j \notin Unseen => Seen(e)

\* Nothing the counts rest on is changed.
LEMMA FollowsAlike ==
  ASSUME NEW j \in Jobs, exp[j] \in Exp, NEW e \in Exp,
         e.at = "dead" => exp[j].at = "dead", Shows(exp[j]) => Shows(e),
         e.newer = exp[j].newer, e.since = exp[j].since, e.saved = exp[j].saved,
         e.at = "train" => exp[j].at = "train"
  PROVE  Follows(j, e)
  BY SMT DEF Follows, Seen

\* The world, too, makes such changes only.
LEMMA WorldMoves ==
  ASSUME TypeOK, NEW j \in Jobs, World(j)
  PROVE  UNCHANGED exp \/ \E e \in Exp : exp' = [exp EXCEPT ![j] = e] /\ Follows(j, e)
<1> DEFINE Fine(e) == /\ e \in Exp
                      /\ e.at = "dead" => exp[j].at = "dead"
                      /\ Shows(exp[j]) => Shows(e)
           Alike(e) == /\ e.newer = exp[j].newer /\ e.since = exp[j].since
                       /\ e.saved = exp[j].saved
                       /\ e.at = "train" => exp[j].at = "train"
<1>0. exp[j] \in Exp
  BY DEF TypeOK
<1>a. ASSUME NEW e, Fine(e), Alike(e) PROVE e \in Exp /\ Follows(j, e)
  BY <1>0, <1>a, FollowsAlike
<1>1. CASE Submit(j)
  <2>1. NoExp \in Exp /\ NoExp.newer = 0 /\ NoExp.since = 0 /\ NoExp.saved = FALSE
    BY RerouteConstantsOK, SMT DEF NoExp, Exp, Places, Starts
  <2> DEFINE e == [NoExp EXCEPT !.at = "queued"]
  <2>2. Fine(e) /\ e.newer = 0 /\ e.since = 0 /\ e.saved = FALSE /\ e.at = "queued"
    BY <2>1, Zenon DEF Exp, Places, Shows
  <2>3. exp' = [exp EXCEPT ![j] = e]
    BY <1>1 DEF Submit
  <2> HIDE DEF e
  <2>4. Follows(j, e)
    BY <2>2, SMT DEF Seen, Follows
  <2>5. QED
    BY <2>2, <2>3, <2>4
<1>2. CASE Age(j) \/ Reconcile(j)
  BY <1>2 DEF Age, Reconcile
<1>3. CASE Seat(j) \/ Restart(j)
  <2> DEFINE e == [exp[j] EXCEPT !.at = "boot", !.odd = FALSE]
  <2>1. Fine(e) /\ Alike(e)
    BY <1>0, Zenon DEF Exp, Places, Shows
  <2>2. exp' = [exp EXCEPT ![j] = e]
    BY <1>3 DEF Seat, Restart, Moved
  <2>3. QED
    BY <1>a, <2>1, <2>2
<1>4. CASE Preempt(j)
  <2> DEFINE e == [exp[j] EXCEPT !.at = "queued", !.odd = FALSE]
  <2>1. Fine(e) /\ Alike(e)
    BY <1>0, Zenon DEF Exp, Places, Shows
  <2>2. exp' = [exp EXCEPT ![j] = e]
    BY <1>4 DEF Preempt, Moved
  <2>3. QED
    BY <1>a, <2>1, <2>2
<1>5. CASE Train(j)
  <2> DEFINE e == [exp[j] EXCEPT !.at = "train", !.wrote = "fresh", !.loud = FALSE,
                                 !.newer = OneMore(@), !.since = OneMore(@)]
  <2>1. exp[j].newer \in Starts /\ exp[j].since \in Starts
    BY <1>0, Zenon DEF Exp
  <2>2. /\ Fine(e) /\ e.newer = OneMore(exp[j].newer) /\ e.since = OneMore(exp[j].since)
        /\ e.saved = exp[j].saved
    BY <1>0, <2>1, OneMoreTyped, Zenon DEF Exp, Places, Shows
  <2>3. exp' = [exp EXCEPT ![j] = e]
    BY <1>5 DEF Train, Moved
  <2> HIDE DEF e
  <2>4. OneMore(exp[j].newer) > 0
    BY <2>1, RerouteConstantsOK, SMT DEF OneMore, Starts
  <2>5. Follows(j, e)
    BY <2>1, <2>2, <2>4, OneMoreTyped, Zenon DEF Seen, Follows
  <2>6. QED
    BY <2>2, <2>3, <2>5
<1>6. CASE Save(j)
  <2>1. CASE j \in Unseen
    <3> DEFINE e == [exp[j] EXCEPT !.since = 0]
    <3>1. Fine(e)
      BY <1>0, <1>6, OneMoreTyped, Zenon DEF Save, Exp, Places, Shows
    <3>2. exp' = [exp EXCEPT ![j] = e]
      BY <1>6, <2>1 DEF Save, Moved
    <3>3. QED
      BY <2>1, <3>1, <3>2 DEF Follows
  <2>2. CASE j \notin Unseen
    <3> DEFINE e == [exp[j] EXCEPT !.since = 0, !.saved = TRUE, !.newer = 0]
    <3>1. Fine(e) /\ e.newer = 0 /\ e.since = 0 /\ e.saved = TRUE
      BY <1>0, <1>6, OneMoreTyped, Zenon DEF Save, Exp, Places, Shows
    <3>2. exp' = [exp EXCEPT ![j] = e]
      BY <1>6, <2>2 DEF Save, Moved
    <3> HIDE DEF e
    <3>3. Follows(j, e)
      BY <3>1, SMT DEF Seen, Follows
    <3>4. QED
      BY <3>1, <3>2, <3>3
  <2>3. QED
    BY <2>1, <2>2
<1>7. CASE Log(j)
  <2> DEFINE e == [exp[j] EXCEPT !.loud = TRUE, !.newer = IF @ = 0 THEN 1 ELSE @]
  <2>1. exp[j].newer \in Starts /\ exp[j].since \in Starts /\ exp[j].at = "train"
    BY <1>0, <1>7, Zenon DEF Log, Exp
  <2>2. /\ Fine(e) /\ e.newer = IF exp[j].newer = 0 THEN 1 ELSE exp[j].newer
        /\ e.since = exp[j].since /\ e.saved = exp[j].saved
    BY <1>0, <2>1, OneMoreTyped, Zenon DEF Exp, Places, Shows
  <2>3. exp' = [exp EXCEPT ![j] = e]
    BY <1>7 DEF Log, Moved
  <2> HIDE DEF e
  <2>4. Follows(j, e)
    BY <2>1, <2>2, RerouteConstantsOK, SMT DEF Seen, Starts, Follows
  <2>5. QED
    BY <2>2, <2>3, <2>4
<1>8. CASE Quiet(j)
  <2> DEFINE e == [exp[j] EXCEPT !.loud = FALSE]
  <2>1. Fine(e) /\ Alike(e)
    BY <1>0, Zenon DEF Exp, Places, Shows
  <2>2. exp' = [exp EXCEPT ![j] = e]
    BY <1>8 DEF Quiet, Moved
  <2>3. QED
    BY <1>a, <2>1, <2>2
<1>9. CASE Stale(j)
  <2> DEFINE e == [exp[j] EXCEPT !.wrote = "stale"]
  <2>1. Fine(e) /\ Alike(e)
    BY <1>0, <1>9, Zenon DEF Stale, Exp, Places, Shows
  <2>2. exp' = [exp EXCEPT ![j] = e]
    BY <1>9 DEF Stale, Moved
  <2>3. QED
    BY <1>a, <2>1, <2>2
<1>10. CASE Lie(j)
  <2> DEFINE e == [exp[j] EXCEPT !.odd = TRUE]
  <2>1. Fine(e) /\ Alike(e)
    BY <1>0, <1>10, Zenon DEF Lie, Exp, Places, Shows
  <2>2. exp' = [exp EXCEPT ![j] = e]
    BY <1>10 DEF Lie, Moved
  <2>3. QED
    BY <1>a, <2>1, <2>2
<1>11. CASE Shadow(j)
  <2> DEFINE e == [exp[j] EXCEPT !.odd = ~exp[j].odd]
  <2>1. Fine(e) /\ Alike(e)
    BY <1>0, <1>11, Zenon DEF Shadow, Exp, Places, Shows
  <2>2. exp' = [exp EXCEPT ![j] = e]
    BY <1>11 DEF Shadow, Moved
  <2>3. QED
    BY <1>a, <2>1, <2>2
<1>12. QED
  BY <1>1, <1>2, <1>3, <1>4, <1>5, <1>6, <1>7, <1>8, <1>9, <1>10, <1>11 DEF World

\* Only the cancel of the job in hand ends an experiment.
LEMMA OnlyCancelKills ==
  ASSUME TypeOK, [Next]_vars, NEW j \in Jobs, Kills(j)
  PROVE  sweep.pc = "cancel" /\ sweep.job = j
<1> USE DEF Kills
<1>1. CASE UNCHANGED exp
  BY <1>1
<1>2. ASSUME NEW k \in Jobs, World(k) PROVE  FALSE
  BY <1>2, WorldMoves, SMT DEF TypeOK, Follows
<1>3. ASSUME NEW k \in Jobs, NEW blind \in SUBSET Failing, Cancel(k, blind)
      PROVE  sweep.pc = "cancel" /\ sweep.job = j
  BY <1>3, CancelCases, SMT DEF TypeOK
<1>4. ASSUME NEW k \in Jobs, NEW blind \in SUBSET Failing, Sweep(k, blind), ~Cancel(k, blind)
      PROVE  UNCHANGED exp
  BY <1>4, QuietSweep
<1>5. QED
  BY <1>1, <1>2, <1>3, <1>4 DEF Next, Begin, Close, Crash, Tick, Record, vars

\* The count of a job whose checkpoints are seen stays right.
LEMMA CountInductive == ASSUME TypeOK, CountIsRight, [Next]_vars PROVE CountIsRight'
<1> USE DEF CountIsRight
<1>1. CASE UNCHANGED exp
  BY <1>1, Zenon DEF Seen
<1>2. ASSUME NEW k \in Jobs, World(k) PROVE CountIsRight'
  BY <1>1, <1>2, WorldMoves, Zenon DEF TypeOK, Follows
<1>3. ASSUME NEW k \in Jobs, NEW blind \in SUBSET Failing, Cancel(k, blind) PROVE CountIsRight'
  <2>1. CASE exp' = [exp EXCEPT ![k].at = "dead"]
    BY <2>1, SMT DEF TypeOK, Exp, Seen
  <2>2. QED
    BY <1>1, <1>3, <2>1, CancelCases
<1>4. ASSUME NEW k \in Jobs, NEW blind \in SUBSET Failing, Sweep(k, blind), ~Cancel(k, blind)
      PROVE  UNCHANGED exp
  BY <1>4, QuietSweep
<1>5. QED
  BY <1>1, <1>2, <1>3, <1>4 DEF Next, Begin, Close, Crash, Tick, Record, vars

\* A job that is judged thrashing, and whose checkpoints are seen, has earned it.
LEMMA ThrashingInductive ==
  ASSUME TypeOK, CountIsRight, Thrashing, [Next]_vars
  PROVE  Thrashing'
<1> USE DEF Thrashing, Deciding
<1>1. CASE Begin \/ Close \/ Crash
  BY <1>1, SMT DEF Begin, Close, Crash, Idle, Between
<1>2. CASE Tick \/ UNCHANGED vars
  BY <1>2 DEF Tick, vars
<1>3. ASSUME NEW j \in Jobs, World(j) PROVE Thrashing'
  <2>1. UNCHANGED sweep
    BY <1>3 DEF World, Submit, Age, Reconcile, Moved, Seat, Preempt, Restart, Train, Save,
                Log, Quiet, Stale, Lie, Shadow
  <2>2. QED
    BY <2>1
<1>4. ASSUME NEW j \in Jobs, Record(j) PROVE Thrashing'
  BY <1>4, RestTyped DEF Record
<1>5. ASSUME NEW j \in Jobs, NEW blind \in SUBSET Failing, Sweep(j, blind) PROVE Thrashing'
  <2>1. CASE Look(j, blind)
    BY <2>1, StepTyped, RestTyped, Zenon DEF Look, Left
  <2>2. CASE Gap(j, blind)
    BY <2>2, StepTyped, RestTyped, Zenon DEF Gap, Left
  <2>3. CASE Judge(j, blind)
    <3>1. CASE Thrashes(j, blind) /\ Step(j, "read", "thrash")
      <4>1. exp[j].newer \in Starts /\ exp[j].since \in Starts /\ exp[j].saved \in BOOLEAN
        BY DEF TypeOK, Exp
      <4>2. CASE j \notin Unseen
        <5>1. Seen(exp[j])
          BY <4>2 DEF CountIsRight
        <5>2. Earned(exp[j])
          BY <3>1, <4>1, <5>1, RerouteConstantsOK, SMT DEF Thrashes, Restarts, Seen, Earned, Starts
        <5>3. QED
          BY <3>1, <5>2, StepKeeps
      <4>3. QED
        BY <3>1, <4>2, StepTyped
    <3>2. CASE Step(j, "read", "nominal") \/ sweep' = Rest(j)
      BY <3>2, StepTyped, RestTyped, Zenon
    <3>3. QED
      BY <2>3, <3>1, <3>2, Zenon DEF Judge
  <2>4. CASE Read(j, blind)
    BY <2>4, RestTyped, SMT DEF Read, At, TypeOK, Pass
  <2>5. CASE Cancel(j, blind)
    BY <2>5, CancelCases, Zenon
  <2>6. QED
    BY <1>5, <2>1, <2>2, <2>3, <2>4, <2>5 DEF Sweep
<1>6. QED
  BY <1>1, <1>2, <1>3, <1>4, <1>5 DEF Next

\* Whatever the threshold, no job whose checkpoints the probe sees is cancelled as thrashing
\* unless it had earned it when it was judged: by starts since it saved, or by restarts that
\* saved nothing.
THEOREM ProgressSpared == Spec => ThrashSparesProgress
<1>1. Init => CountIsRight /\ Thrashing
  BY RerouteConstantsOK, SMT
     DEF Init, CountIsRight, Seen, NoExp, Thrashing, Deciding, Idle, Between
<1>2. TypeOK /\ (CountIsRight /\ Thrashing) /\ [Next]_vars => (CountIsRight /\ Thrashing)'
  BY CountInductive, ThrashingInductive
<1>3. TypeOK /\ Thrashing /\ [Next]_vars
      => (\A j \in Jobs \ Unseen : (Kills(j) /\ sweep.why = "thrash") => sweep.earned)
  BY OnlyCancelKills, Zenon DEF Thrashing, Deciding
<1>4. QED
  BY <1>1, <1>2, <1>3, TypeCorrect, PTL DEF Spec, ThrashSparesProgress

\* What is seated shows it, after every step.
LEMMA ShowsInductive == ASSUME TypeOK, SeatedShows, [Next]_vars PROVE SeatedShows'
<1> USE DEF SeatedShows
<1>1. CASE UNCHANGED exp
  BY <1>1, Zenon DEF Shows
<1>2. ASSUME NEW k \in Jobs, World(k) PROVE SeatedShows'
  BY <1>1, <1>2, WorldMoves, Zenon DEF TypeOK, Follows
<1>3. ASSUME NEW k \in Jobs, NEW blind \in SUBSET Failing, Cancel(k, blind) PROVE SeatedShows'
  <2>1. CASE exp' = [exp EXCEPT ![k].at = "dead"]
    BY <2>1, SMT DEF TypeOK, Exp, Shows
  <2>2. QED
    BY <1>1, <1>3, <2>1, CancelCases
<1>4. ASSUME NEW k \in Jobs, NEW blind \in SUBSET Failing, Sweep(k, blind), ~Cancel(k, blind)
      PROVE  UNCHANGED exp
  BY <1>4, QuietSweep
<1>5. QED
  BY <1>1, <1>2, <1>3, <1>4 DEF Next, Begin, Close, Crash, Tick, Record, vars

\* A row judged as running has its cell, if the experiment can be asked for it.
LEMMA CellInductive ==
  ASSUME "placement" \notin Failing, TypeOK, InHand, CellKnown, [Next]_vars
  PROVE  CellKnown'
<1> USE DEF CellKnown
<1>1. CASE Begin \/ Close \/ Crash
  BY <1>1, SMT DEF Begin, Close, Crash, Idle, Between
<1>2. CASE Tick \/ UNCHANGED vars
  BY <1>2 DEF Tick, vars
<1>3. ASSUME NEW j \in Jobs, World(j) PROVE CellKnown'
  <2>1. UNCHANGED sweep
    BY <1>3 DEF World, Submit, Age, Reconcile, Moved, Seat, Preempt, Restart, Train, Save,
                Log, Quiet, Stale, Lie, Shadow
  <2>2. SUFFICES ASSUME sweep.pc = "run" PROVE row'[sweep.job].cell
    BY <2>1
  <2>3. sweep.job \in Jobs /\ Live(sweep.job)
    BY <2>2, SMT DEF InHand
  <2>4. CASE UNCHANGED row
    BY <2>2, <2>4
  <2>5. CASE Submit(j)
    BY <2>2, <2>3, <2>5, SMT DEF Submit, Live, TypeOK
  <2>6. CASE Age(j)
    BY <2>2, <2>3, <2>6, Zenon DEF Age, TypeOK, Row
  <2>7. CASE Reconcile(j)
    BY <2>2, <2>7 DEF Reconcile
  <2>8. QED
    BY <1>3, <2>4, <2>5, <2>6, <2>7
       DEF World, Moved, Seat, Preempt, Restart, Train, Save, Log, Quiet, Stale, Lie, Shadow
<1>4. ASSUME NEW j \in Jobs, Record(j) PROVE CellKnown'
  BY <1>4, RestTyped DEF Record
<1>5. ASSUME NEW j \in Jobs, NEW blind \in SUBSET Failing, Sweep(j, blind) PROVE CellKnown'
  <2>1. CASE Look(j, blind)
    <3>1. CASE Step(j, "run", "none") /\ Recovered(j, blind)
      <4>1. row' = [row EXCEPT ![j].cell = TRUE]
        BY <3>1 DEF Recovered
      <4>2. row'[j].cell
        BY <4>1, ZenonT(40) DEF TypeOK, Row
      <4>3. QED
        BY <3>1, <4>2, StepTyped
    <3>2. CASE Step(j, "gap", "none") \/ Left(j)
      BY <3>2, StepTyped, RestTyped, Zenon DEF Left
    <3>3. QED
      BY <2>1, <3>1, <3>2 DEF Look
  <2>2. CASE Gap(j, blind)
    BY <2>2, StepTyped, RestTyped, Zenon DEF Gap, Left
  <2>3. CASE Judge(j, blind)
    BY <2>3, StepTyped, RestTyped, Zenon DEF Judge
  <2>4. CASE Read(j, blind)
    BY <2>4, RestTyped, SMT DEF Read, At, TypeOK, Pass
  <2>5. CASE Cancel(j, blind)
    BY <2>5, CancelCases, Zenon
  <2>6. QED
    BY <1>5, <2>1, <2>2, <2>3, <2>4, <2>5 DEF Sweep
<1>6. QED
  BY <1>1, <1>2, <1>3, <1>4, <1>5 DEF Next

\* A job without any sign of life, which XManager calls pending, has no slice.
LEMMA NoSignStranded ==
  ASSUME TypeOK, SeatedShows, NEW j \in Jobs, NEW blind, Stuck(j, blind)
  PROVE  exp[j].at \notin {"boot", "train"}
<1>1. exp[j] \in Exp /\ Shows(exp[j])
  BY DEF TypeOK, SeatedShows
<1>2. CASE VmGroup(j, blind) = "none"
  BY <1>2, SMT DEF VmGroup, Seated
<1>3. CASE Output(j, blind) \in {"never", "stale"}
  <2>1. exp[j].wrote # "fresh"
    BY <1>3, SMT DEF Output
  <2>2. exp[j].at # "train"
    BY <1>1, <2>1 DEF Shows
  <2>3. exp[j].at # "boot"
    BY <1>1, SMT DEF Stuck, Status, Shows
  <2>4. QED
    BY <2>2, <2>3
<1>4. QED
  BY <1>2, <1>3 DEF Stuck, NoSign

\* A job judged stuck, or running in name only, had no slice when it was judged.
LEMMA StrandedInductive ==
  ASSUME TypeOK, SeatedShows, CellKnown, Stranded, [Next]_vars
  PROVE  Stranded'
<1> USE DEF Stranded, Deciding
<1>1. CASE Begin \/ Close \/ Crash
  BY <1>1, SMT DEF Begin, Close, Crash, Idle, Between
<1>2. CASE Tick \/ UNCHANGED vars
  BY <1>2 DEF Tick, vars
<1>3. ASSUME NEW j \in Jobs, World(j) PROVE Stranded'
  <2>1. UNCHANGED sweep
    BY <1>3 DEF World, Submit, Age, Reconcile, Moved, Seat, Preempt, Restart, Train, Save,
                Log, Quiet, Stale, Lie, Shadow
  <2>2. QED
    BY <2>1
<1>4. ASSUME NEW j \in Jobs, Record(j) PROVE Stranded'
  BY <1>4, RestTyped DEF Record
<1>5. ASSUME NEW j \in Jobs, NEW blind \in SUBSET Failing, Sweep(j, blind) PROVE Stranded'
  <2>1. CASE Look(j, blind)
    BY <2>1, StepTyped, RestTyped, Zenon DEF Look, Left
  <2>2. CASE Gap(j, blind)
    <3>1. CASE Stuck(j, blind) /\ Step(j, "read", "stuck")
      BY <3>1, NoSignStranded, StepKeeps DEF Seated
    <3>2. CASE Left(j)
      BY <3>2, RestTyped DEF Left
    <3>3. QED
      BY <2>2, <3>1, <3>2 DEF Gap
  <2>3. CASE Judge(j, blind)
    <3>1. CASE Nominal(j, blind) /\ Step(j, "read", "nominal")
      <4>1. row[j].cell
        BY <2>3 DEF Judge, At, CellKnown
      <4>2. exp[j].at \notin {"boot", "train"}
        BY <3>1, <4>1, SMT DEF Nominal, VmGroup, Seated
      <4>3. QED
        BY <3>1, <4>2, StepKeeps DEF Seated
    <3>2. CASE Step(j, "read", "thrash") \/ sweep' = Rest(j)
      BY <3>2, StepTyped, RestTyped, Zenon
    <3>3. QED
      BY <2>3, <3>1, <3>2, Zenon DEF Judge
  <2>4. CASE Read(j, blind)
    BY <2>4, RestTyped, SMT DEF Read, At, TypeOK, Pass
  <2>5. CASE Cancel(j, blind)
    BY <2>5, CancelCases, Zenon
  <2>6. QED
    BY <1>5, <2>1, <2>2, <2>3, <2>4, <2>5 DEF Sweep
<1>6. QED
  BY <1>1, <1>2, <1>3, <1>4, <1>5 DEF Next

\* When the placement of an experiment can be read, no job that has its slice, and had it when
\* the sweep last looked, is cancelled as stuck or as running in name only.
THEOREM LivingSpared == ASSUME "placement" \notin Failing PROVE Spec => NeverCancelsTheLiving
<1>1. Init => SeatedShows /\ CellKnown /\ Stranded
  BY SMT DEF Init, SeatedShows, Shows, NoExp, CellKnown, Stranded, Deciding, Idle, Between
<1>2. (TypeOK /\ InHand) /\ (SeatedShows /\ CellKnown /\ Stranded) /\ [Next]_vars
      => (SeatedShows /\ CellKnown /\ Stranded)'
  BY ShowsInductive, CellInductive, StrandedInductive
<1>3. TypeOK /\ Stranded /\ [Next]_vars
      => (\A j \in Jobs : (Kills(j) /\ sweep.why # "thrash") =>
            ~(Seated(exp[j]) /\ sweep.seated))
  BY OnlyCancelKills, Zenon DEF Stranded, Deciding
<1>4. QED
  BY <1>1, <1>2, <1>3, Typed, PTL DEF Spec, NeverCancelsTheLiving
=============================================================================
