------------------------- MODULE PendingActionStore -------------------------
(***************************************************************************)
(* The rows of the pending_actions table and the operations on one row     *)
(* (agent/orchestration/pending_actions.py over                            *)
(* agent/persistence/repositories/actions.py).                             *)
(*                                                                         *)
(* Every transition of the store is three operations: a read of the row in *)
(* a transaction of its own, a check of the status read, and a conditional *)
(* UPDATE in a second transaction.  The UPDATE tests only the status the   *)
(* row has by then, and writes EVERY column of the record the first        *)
(* transaction read.  The operators below keep the three apart, so that a  *)
(* module using them can let other threads run in between.                 *)
(*                                                                         *)
(* Of a row's columns the properties tell apart the status and whether the *)
(* approval and the refusal are on record (confirmed_at / confirmed_by and *)
(* canceled_at / canceled_by, which the code sets together).               *)
(***************************************************************************)

\* The statuses the code assigns; "expired" is declared and never assigned.
Status == {"pending", "confirmed", "canceled", "executed", "failed"}

Terminal == {"canceled", "executed", "failed"}

Row == [status : Status \cup {"absent"},
        confirmed_at : BOOLEAN,
        canceled_at : BOOLEAN]

\* The value of a row that does not exist.
Absent == [status |-> "absent", confirmed_at |-> FALSE, canceled_at |-> FALSE]

\* create_tool_call: one INSERT of a fresh id.
NewAction == [status |-> "pending", confirmed_at |-> FALSE, canceled_at |-> FALSE]

-----------------------------------------------------------------------------
(* The statuses from which each transition is allowed: the check on the    *)
(* record read, and again the WHERE clause of the conditional UPDATE.      *)

ConfirmExpects == {"pending"}

CancelExpects == {"pending", "confirmed"}

FinishExpects == {"confirmed"}

(* The record each transition writes, computed from the record it read.    *)

ApplyConfirm(record) ==
    [record EXCEPT !.status = "confirmed", !.confirmed_at = TRUE]

ApplyCancel(record) ==
    [record EXCEPT !.status = "canceled", !.canceled_at = TRUE]

ApplyFinish_AlwaysExecuted(record, success) ==
    [record EXCEPT !.status = "executed"]

ApplyFinish(record, success) ==
    [record EXCEPT !.status = IF success THEN "executed" ELSE "failed"]

(* transition_action: the conditional UPDATE changes the row, or finds     *)
(* that another writer moved it and changes nothing.                       *)

Swaps_Blindly(row, expected) == row.status # "absent"

Swaps(row, expected) == row.status \in expected

-----------------------------------------------------------------------------
(* recover_interrupted: one UPDATE over every confirmed row, run when the  *)
(* server process starts.                                                  *)

RecoverInterrupted_Requeues(row) ==
    IF row.status = "confirmed" THEN [row EXCEPT !.status = "pending"] ELSE row

RecoverInterrupted(row) ==
    IF row.status = "confirmed" THEN [row EXCEPT !.status = "failed"] ELSE row

=============================================================================
