---------------------------- MODULE BatchStatus ----------------------------
(***************************************************************************)
(* The status an execution batch derives from the statuses of its tasks:   *)
(* BroadcastRepository.recompute_execution_batch_counts.  The code counts  *)
(* the tasks of each status; every test it makes on the counts ("> 0",     *)
(* "== total") is a test on the set of statuses that occur, so the model   *)
(* takes that set.                                                         *)
(***************************************************************************)

\* Statuses of the rows of broadcast_execution_tasks.
ActiveTask   == {"pending", "running", "cancelling"}
SettledTask  == {"succeeded", "succeeded_with_warning", "failed", "cancelled", "interrupted"}
TaskStatus   == ActiveTask \cup SettledTask

\* Statuses of the rows of broadcast_execution_batches.  The settled ones are
\* the statuses clear_terminal_execution_batches may delete.
ActiveBatch  == {"created", "queued", "running", "paused", "cancelling"}
SettledBatch == {"completed", "partially_failed", "failed", "cancelled", "interrupted"}
BatchStatuses == ActiveBatch \cup SettledBatch

Succeeded == {"succeeded", "succeeded_with_warning"}

\* Every task is in `bad` or succeeded, and at least one is in `bad`.
OnlyFailedAs(S, bad) == bad \in S /\ S \subseteq Succeeded \cup {bad}

\* Mutant: the branch for a batch that still has pending tasks is missing.
CountedWithoutPending(S, current) ==
  CASE S \cap {"running", "cancelling"} # {} -> "running"
    [] S \subseteq {"pending"}              -> IF current \in {"queued", "paused"} THEN current ELSE "created"
    [] OTHER -> "partially_failed"

\* The if/elif chain on the counts, before the "cancelling" override.
CountedStatus(S, current) ==
  CASE S = {}                                   -> "created"
    [] S \cap {"running", "cancelling"} # {}    -> "running"
    [] S = {"pending"}                          -> IF current \in {"queued", "paused"} THEN current ELSE "created"
    [] "pending" \in S /\ S # {"pending"} /\ S \cap {"running", "cancelling"} = {}
         -> IF current = "paused" THEN "paused" ELSE "queued"
    [] S # {} /\ S \subseteq Succeeded          -> "completed"
    [] S = {"cancelled"}                        -> "cancelled"
    [] OnlyFailedAs(S, "failed")
                                                -> IF S = {"failed"} THEN "failed" ELSE "partially_failed"
    [] OnlyFailedAs(S, "interrupted")
                                                -> IF S = {"interrupted"} THEN "interrupted" ELSE "partially_failed"
    [] OTHER                                    -> "partially_failed"

\* Mutant: a batch that is being cancelled stays so for ever.
DerivedSticky(S, current) ==
  IF current = "cancelling" THEN "cancelling" ELSE CountedStatus(S, current)

\* A batch that is being cancelled stays so while it has an active task.
DerivedStatus(S, current) ==
  IF S \cap ActiveTask # {} /\ current = "cancelling"
  THEN "cancelling"
  ELSE CountedStatus(S, current)
=============================================================================
