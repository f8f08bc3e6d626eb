------------------------ MODULE ApprovalCoordinator ------------------------
(***************************************************************************)
(* The waiters an agent run shares with the approval API inside one        *)
(* process (agent/orchestration/approval_coordinator.py).                  *)
(*                                                                         *)
(* The coordinator's dictionary is a function from actions to the state of *)
(* their waiter; each of its methods runs under the coordinator's lock and *)
(* is one operator here.  The dictionary is process memory: it is empty    *)
(* after a restart and invisible to other processes.                       *)
(***************************************************************************)

\* "none" is an action without a waiter, "undecided" a waiter whose event is
\* not set; a decided waiter carries the last decision written to it.
WaiterState == {"none", "undecided", "approved", "rejected"}

NoWaiters(actions) == [a \in actions |-> "none"]

Register(waiters, action) == [waiters EXCEPT ![action] = "undecided"]

HasWaiter(waiters, action) == waiters[action] # "none"

\* resolve, when a waiter exists: a later decision overwrites an earlier one.
Resolve(waiters, action, approve) ==
    [waiters EXCEPT ![action] = IF approve THEN "approved" ELSE "rejected"]

Clear(waiters, action) == [waiters EXCEPT ![action] = "none"]

=============================================================================
