--------------------------- MODULE MCApprovalFlow ---------------------------
(***************************************************************************)
(* Instances of ApprovalFlow for TLC.  Threads are named for the process   *)
(* they run in: the server "api", a second server "api2", or, for a trial  *)
(* of the evaluation script, "eval" and "eval2".                           *)
(***************************************************************************)
EXTENDS ApprovalFlow

CONSTANTS c1, c2, h1, h2, h3, api, api2, eval, eval2

\* One server process with every thread in it.
AllInOne == [r \in Runners |-> api]

\* Two servers; the run and one endpoint in the first.
TwoServers == [r \in Runners |-> IF r = h2 THEN api2 ELSE api]

\* Evaluation trials.  A trial has an agent and a cancel_event of its own: a
\* process of its own in the model.
Trials == [r \in Runners |-> IF r = c1 THEN eval ELSE eval2]

=============================================================================
