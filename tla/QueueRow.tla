------------------------------- MODULE QueueRow -------------------------------
(***************************************************************************)
(* google3_tpu_utils/route_lib.py: one row of the job queue                *)
(* (.tpu_local_queue.json) and the pure operations on it.                  *)
(*                                                                         *)
(* A row owns the ordered list of the XManager experiments created for it  *)
(* (`submissions`, oldest first).  Its last submission is the one in play; *)
(* the row's `xid` is read off it.  Names, shapes, cells, prices, reasons  *)
(* and clocks are left out; `stamped` says whether submitted_at is set.    *)
(***************************************************************************)
EXTENDS Naturals, Sequences

CONSTANTS Ids,             \* job ids
          MaxXid,          \* bound: experiments created in a behaviour
          MaxAutoResumes,  \* auto_resume_max
          CnsReadMax       \* CNS_READ_MAX_FAILURES

ASSUME RowConstantsOK ==
  /\ MaxXid \in Nat
  /\ MaxAutoResumes \in Nat
  /\ CnsReadMax \in Nat \ {0}

Xids == 1..MaxXid
NoXid == 0

JobState == {"QUEUED", "BUILD_REQUESTED", "BUILDING", "HELD", "BUDGET_DEFERRED",
             "SUBMITTED", "RUNNING", "DONE", "FAILED"}
Reconcilable == {"RUNNING", "SUBMITTED", "BUILDING"}
Finished == {"DONE", "FAILED"}
Unfinished == JobState \ Finished

SubLive == {"CREATING", "SUBMITTED", "RUNNING"}
SubEnded == {"DONE", "FAILED", "CANCELLED", "SUPERSEDED"}
Submission == [xid : Xids, state : SubLive \cup SubEnded]

Row ==
  [run         : Ids,               \* the run it executes (its out_dir), by first job id
   state       : JobState,
   submissions : Seq(Submission),
   attempts    : Nat,
   resumes     : 0..MaxAutoResumes, \* auto_resumes; more than the limit reads as the limit
   unread      : 0..CnsReadMax,     \* cns_read_failures; likewise
   stamped     : BOOLEAN]

NewRow(r) == [run |-> r, state |-> "QUEUED", submissions |-> <<>>, attempts |-> 0,
              resumes |-> 0, unread |-> 0, stamped |-> FALSE]

\* A faulty variant: the counter runs past its limit.
Uncapped(n, limit) == n

Capped(n, limit) == IF n > limit THEN limit ELSE n
-----------------------------------------------------------------------------
Newest(row) == row.submissions[Len(row.submissions)]
HasLive(row) == row.submissions # <<>> /\ Newest(row).state \in SubLive
AllXids(row) == {row.submissions[i].xid : i \in 1..Len(row.submissions)}

\* QueueEntry.xid: the newest submission's id, ended or not, unless superseded.
XidOf(row) == IF row.submissions = <<>> \/ Newest(row).state = "SUPERSEDED"
              THEN NoXid ELSE Newest(row).xid

\* The newest submission takes state s, if it is live: an ended one is history.
Resolve(row, s) ==
  IF HasLive(row) THEN [row EXCEPT !.submissions[Len(row.submissions)].state = s] ELSE row
Supersede(row) == Resolve(row, "SUPERSEDED")
Opened(row, x, s) ==
  [Supersede(row) EXCEPT !.submissions = Append(@, [xid |-> x, state |-> s])]

OpenCreating(row, x) == Opened(row, x, "CREATING")

ApplyPlacement(row, x) ==
  LET placed == IF HasLive(row) /\ Newest(row).xid = x
                THEN Resolve(row, "SUBMITTED") ELSE Opened(row, x, "SUBMITTED")
  IN [placed EXCEPT !.state = "SUBMITTED", !.stamped = TRUE]

AdoptRecovered(row, x) ==
  [OpenCreating(row, x) EXCEPT !.state = "SUBMITTED", !.stamped = TRUE]
-----------------------------------------------------------------------------
ClaimForBuild(row) == [row EXCEPT !.state = "BUILDING"]
Hold(row) == [row EXCEPT !.state = "HELD"]
Requeue(row) == [row EXCEPT !.state = "QUEUED"]
RequeueHeld(row) == [row EXCEPT !.state = "QUEUED", !.attempts = 0]

\* Faulty variants: any stale claim is requeued; only an unbound one is; an
\* unbound one is without a trace of the attempt.
ReclaimRequeues(row) ==
  IF row.state = "BUILDING" THEN [row EXCEPT !.state = "QUEUED", !.attempts = @ + 1] ELSE row
ReclaimUnbound(row) ==
  IF row.state = "BUILDING" /\ ~HasLive(row) THEN [row EXCEPT !.state = "QUEUED", !.attempts = @ + 1] ELSE row
ReclaimUncounted(row) ==
  IF row.state # "BUILDING" THEN row
  ELSE IF HasLive(row) THEN [row EXCEPT !.state = "SUBMITTED", !.stamped = TRUE]
  ELSE [row EXCEPT !.state = "QUEUED"]

\* A stale claim: with an experiment bound the build escaped, else it never was.
Reclaim(row) ==
  IF row.state # "BUILDING" THEN row
  ELSE IF HasLive(row) THEN [row EXCEPT !.state = "SUBMITTED", !.stamped = TRUE]
  ELSE [row EXCEPT !.state = "QUEUED", !.attempts = @ + 1]

MarkReroute(row) == [Supersede(row) EXCEPT !.state = "QUEUED", !.stamped = FALSE, !.unread = 0]
WarmInPlace(row) == [row EXCEPT !.resumes = Capped(@ + 1, MaxAutoResumes)]
Unreadable(row) == [row EXCEPT !.unread = Capped(@ + 1, CnsReadMax)]

\* reconcile_entry: the row's verdict, mirrored on its live submission.
Become(row, s) == [Resolve(row, s) EXCEPT !.state = s]
MarkCancelled(row) == [Resolve(row, "CANCELLED") EXCEPT !.state = "FAILED"]

\* build_warm_restart_entry / build_cold_restart_entry: the same run, a new row.
Restarted(row) ==
  [NewRow(row.run) EXCEPT
     !.submissions = [i \in 1..Len(row.submissions) |->
                        [xid |-> row.submissions[i].xid, state |-> "SUPERSEDED"]],
     !.resumes = row.resumes + 1]

\* decide_reconcile: the state XM's status calls for, or "leave".
DecideReconcile(row, status) ==
  CASE status = "COMPLETED" -> "DONE"
    [] status = "TERMINAL" -> "FAILED"
    [] status = "RUNNING" /\ row.state = "SUBMITTED" -> "RUNNING"
    [] status = "GONE" /\ row.stamped -> "FAILED"
    [] OTHER -> "leave"
=============================================================================
