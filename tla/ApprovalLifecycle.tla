------------------------- MODULE ApprovalLifecycle -------------------------
(***************************************************************************)
(* What the approval subsystem promises about one action, whoever acts and *)
(* whatever is interleaved: the status moves along the lifecycle           *)
(*                                                                         *)
(*     absent -> pending -> confirmed -> executed | failed                 *)
(*                  |           |                                          *)
(*                  +-----------+------> canceled                          *)
(*                                                                         *)
(* the command starts at most once and only after an approval, and a row   *)
(* says "executed" only when the command has been started.                 *)
(***************************************************************************)
EXTENDS Naturals

CONSTANT Actions

VARIABLES
    status,     \* [Actions -> status of the row, "absent" before creation]
    approved,   \* [Actions -> BOOLEAN]: an approver's transition succeeded
    starts      \* [Actions -> Nat]: how often the command has been started

lifecycle == <<status, approved, starts>>

Init ==
    /\ status = [a \in Actions |-> "absent"]
    /\ approved = [a \in Actions |-> FALSE]
    /\ starts = [a \in Actions |-> 0]

Move(a, from, to) ==
    /\ status[a] \in from
    /\ status' = [status EXCEPT ![a] = to]
    /\ UNCHANGED starts

Create(a) == Move(a, {"absent"}, "pending") /\ UNCHANGED approved

Confirm(a) ==
    /\ Move(a, {"pending"}, "confirmed")
    /\ approved' = [approved EXCEPT ![a] = TRUE]

Cancel(a) == Move(a, {"pending", "confirmed"}, "canceled") /\ UNCHANGED approved

\* The command starts once.  A cancellation may land between the approval
\* and the start, so the status is not part of the promise.
Start(a) ==
    /\ approved[a]
    /\ starts[a] = 0
    /\ starts' = [starts EXCEPT ![a] = 1]
    /\ UNCHANGED <<status, approved>>

Succeed(a) ==
    /\ starts[a] = 1
    /\ Move(a, {"confirmed"}, "executed")
    /\ UNCHANGED approved

Fail(a) == Move(a, {"confirmed"}, "failed") /\ UNCHANGED approved

\* Startup recovery fails every confirmed action in one UPDATE.
Recover ==
    /\ status' = [a \in Actions |->
                    IF status[a] = "confirmed" THEN "failed" ELSE status[a]]
    /\ UNCHANGED <<approved, starts>>

Next ==
    \/ Recover
    \/ \E a \in Actions :
          Create(a) \/ Confirm(a) \/ Cancel(a) \/ Start(a) \/ Succeed(a) \/ Fail(a)

Spec == Init /\ [][Next]_lifecycle

=============================================================================
