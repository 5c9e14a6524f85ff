---------------------------- MODULE RegistryEntry ----------------------------
(***************************************************************************)
(* One entry of the XID registry (~/.tpu_jobs.json) and of its archive     *)
(* (~/.tpu_jobs_legacy.json), and what each writer's edit does to it.      *)
(* These are the functions `fn` that google3_tpu_utils/registry_store.py   *)
(* runs under the registry lock; RegistryStore and Board share them.       *)
(*                                                                         *)
(* An entry is a JSON object. The fields kept here are the ones a reader   *)
(* or another writer decides on: status and error (written by the status   *)
(* pass and by `tpu cancel`) and which metadata it holds: "launcher" for   *)
(* what xm_launcher fills in (bucket_cp_path, wandb, ...), "tier" for what *)
(* the wrapper sets (tier, alloc, launch_log). "absent" is a field the     *)
(* object has not got.                                                     *)
(***************************************************************************)
CONSTANTS NoEntry     \* the value of an xid the file has no key for

Status == {"absent", "SUBMITTED", "RUNNING", "FAILED", "COMPLETED", "CANCELLED"}
ErrorText == {"absent", "", "text"}

Metadata == {"launcher", "tier"}

Entry == [status : Status, error : ErrorText, meta : SUBSET Metadata]
MaybeEntry == Entry \cup {NoEntry}

\* An archive record also carries the local-queue row `tpu clear` folds in.
Record == [entry : MaybeEntry, row : BOOLEAN]
MaybeRecord == Record \cup {NoEntry}

EmptyEntry == [status |-> "absent", error |-> "absent", meta |-> {}]

\* `entry = data.get(xid)`; an xid without an entry starts from {}.
OrEmpty(e) == IF e = NoEntry THEN EmptyEntry ELSE e

\* xm_launcher registers with fill only: it adds its metadata and nothing else.
LauncherEdit(e) == [OrEmpty(e) EXCEPT !.meta = @ \cup {"launcher"}]

\* The wrapper overwrites its own fields and fills status and error when they
\* are empty, so it never erases what an earlier writer recorded.
WrapperEdit(e) ==
  [OrEmpty(e) EXCEPT !.meta   = @ \cup {"tier"},
                     !.status = IF @ = "absent" THEN "SUBMITTED" ELSE @,
                     !.error  = IF @ = "absent" THEN "" ELSE @]

\* `tpu cancel` marks only an xid that has an entry.
CancelEdit(e) ==
  IF e = NoEntry THEN e ELSE [e EXCEPT !.status = "CANCELLED", !.error = ""]

\* The registration of a launcher that died: no tier, no alloc, no status.
IsCorpse(e) == e # NoEntry /\ e.status = "absent" /\ "tier" \notin e.meta
CorpseEdit(e) == IF IsCorpse(e) THEN NoEntry ELSE e

\* A faulty variant: the snapshot's verdict overwrites whatever is there.
CasFieldBlind(live, old, new) == IF old # new THEN new ELSE live

\* patch_fields, one compare-and-set PER FIELD: `old` is the entry the status
\* pass read, `new` its private copy, `e` the live entry.
CasField(live, old, new) == IF old # new /\ live = old THEN new ELSE live
\* A faulty variant: an entry that disappeared is written back.
PatchEditResurrect(e, old, new) ==
  IF old = NoEntry THEN e
  ELSE IF e = NoEntry THEN new
  ELSE [e EXCEPT !.status = CasField(@, old.status, new.status),
                 !.error  = CasField(@, old.error, new.error)]
PatchEdit(e, old, new) ==
  IF e = NoEntry \/ old = NoEntry THEN e
  ELSE [e EXCEPT !.status = CasField(@, old.status, new.status),
                 !.error  = CasField(@, old.error, new.error)]

\* What the status pass may conclude about an entry: first from the launch log,
\* then from the status board, whose word on an ended job beats the log's.
LogVerdicts(e) ==
  IF e.status \in {"FAILED", "COMPLETED", "CANCELLED"} THEN {e}
  ELSE {e, [e EXCEPT !.status = "FAILED", !.error = "text"],
           [e EXCEPT !.status = "RUNNING"]}
BoardVerdicts(e) ==
  IF e.status = "CANCELLED" THEN {e}
  ELSE {e, [e EXCEPT !.status = "FAILED"]}
       \cup IF e.status = "COMPLETED" THEN {}
            ELSE {[e EXCEPT !.status = "COMPLETED", !.error = ""]}
Verdicts(e) ==
  IF e = NoEntry THEN {e}
  ELSE UNION {BoardVerdicts(l) : l \in LogVerdicts(e)}

\* rec = dict(leg.get(x) or {}); rec.update(data[x]): the fields the entry has
\* win, the others keep what an earlier archive recorded.
Update(old, new) ==
  IF old = NoEntry THEN new
  ELSE [status |-> IF new.status = "absent" THEN old.status ELSE new.status,
        error  |-> IF new.error = "absent" THEN old.error ELSE new.error,
        meta   |-> old.meta \cup new.meta]

\* The archive record of an xid whose live entry is e (or that has none), with
\* extra = TRUE when `tpu clear` passes the queue row along.
Archived(rec, e, extra) ==
  LET old == IF rec = NoEntry THEN [entry |-> NoEntry, row |-> FALSE] ELSE rec
  IN [entry |-> IF e = NoEntry THEN old.entry ELSE Update(old.entry, e),
      row   |-> old.row \/ extra]

\* An archive record that holds everything the live entry does.
Covers(rec, e) == rec # NoEntry /\ rec.entry # NoEntry /\ Update(rec.entry, e) = rec.entry
=============================================================================
