---------------------------- MODULE ApprovalFlow ----------------------------
(***************************************************************************)
(* Human approval of a tool call, end to end: agent runs that ask for an   *)
(* approval and wait, the confirm and cancel endpoints, the in-process     *)
(* coordinator between them, the table they share, the evaluation runner   *)
(* that decides on its own, and crash and restart of a server process.     *)
(*                                                                         *)
(* Threads and what serialises them:                                       *)
(*  - a chat request is a thread that iterates the agent's event stream    *)
(*    while it holds the session's run_lock;                               *)
(*  - a confirm or cancel request runs on the event loop of its process.   *)
(*    The handlers are coroutines without an await between their database  *)
(*    calls, so no second handler of the process runs in between           *)
(*    (variable loop), while chat threads do.  Executing an approved       *)
(*    command and continuing the session are awaited in the threadpool and *)
(*    leave the loop free;                                                 *)
(*  - a process is modelled with one session; sessions share neither lock  *)
(*    nor actions.                                                         *)
(*                                                                         *)
(* Every read of a row and every conditional UPDATE is a transaction of    *)
(* its own, hence a step of its own.                                       *)
(***************************************************************************)
EXTENDS Naturals, PendingActionStore, ApprovalCoordinator

CONSTANTS
    Procs,       \* operating system processes that share the database
    Chats,       \* chat requests, each one agent run
    Unattended,  \* the chats driven by the evaluation runner
    Handlers,    \* requests to the confirm or the cancel endpoint
    Actions,     \* ids of pending actions (bounds how many are created)
    ProcOf,      \* [Chats \cup Handlers -> Procs]
    MaxTurns,    \* max_turns of a run
    None         \* no action, no thread

\* A confirm request may continue the session, that is, run the agent.
Runners == Chats \cup Handlers

ASSUME ConstantsAssumption ==
    /\ Unattended \subseteq Chats
    /\ Chats \cap Handlers = {}
    /\ ProcOf \in [Runners -> Procs]
    /\ MaxTurns \in Nat
    /\ None \notin Actions \cup Runners

\* A run of the evaluation script has a database of its own (run_eval.py,
\* 102-109), and its store refuses one that is not named for evaluation
\* (runner.py, 179-187): no endpoint and no other run sees a trial's rows.
ASSUME EvaluationAssumption ==
    Unattended = {} \/ (Unattended = Chats /\ Handlers = {})

\* Only the server recovers at startup; the evaluation script does not.
Servers == {ProcOf[h] : h \in Handlers}

VARIABLES
    rows,      \* the pending_actions table
    waiters,   \* the coordinator of each process
    run,       \* the agent run of each runner
    req,       \* the endpoint request of each handler
    loop,      \* the handler that occupies the event loop of a process
    lock,      \* the runner that holds the session's run_lock
    cancel,    \* the session's cancel_event
    up,        \* is the process running?
    approved,  \* history: an approver moved the action to confirmed
    starts,    \* history: how often the command was started
    outcome,   \* history: how the last execution ended
    denied     \* history: a run was told "The command was not executed."

history == <<approved, starts, outcome, denied>>
vars == <<rows, waiters, run, req, loop, lock, cancel, up, history>>

RunPc == {"idle", "model", "tool", "created", "registered", "waiting",
          "deny_get", "deny_read", "deny_cas", "return_denied",
          "approve_get", "approve_read", "approve_cas",
          "execute", "executing", "finish_read", "finish_cas",
          "return_result", "raise", "ended"}

ReqPc == {"new", "confirm_cas", "confirm_resolve", "cancel_cas",
          "cancel_resolve", "execute", "executing", "continue", "continuing",
          "finish_read", "finish_cas", "done"}

\* "snap" is the record read before a transition, "ok" the success of the
\* command's execution.
Run == [pc : RunPc, turn : 0..MaxTurns, action : Actions \cup {None},
        snap : Row, ok : BOOLEAN]
Req == [pc : ReqPc, action : Actions \cup {None}, snap : Row, ok : BOOLEAN]

TypeOK ==
    /\ rows \in [Actions -> Row]
    /\ waiters \in [Procs -> [Actions -> WaiterState]]
    /\ run \in [Runners -> Run]
    /\ req \in [Handlers -> Req]
    /\ loop \in [Procs -> Handlers \cup {None}]
    /\ lock \in [Procs -> Runners \cup {None}]
    /\ cancel \in [Procs -> BOOLEAN]
    /\ up \in [Procs -> BOOLEAN]
    /\ approved \in [Actions -> BOOLEAN]
    /\ starts \in [Actions -> Nat]
    /\ outcome \in [Actions -> {"none", "ok", "error"}]
    /\ denied \in [Actions -> BOOLEAN]

IdleRun == [pc |-> "idle", turn |-> 0, action |-> None, snap |-> Absent,
            ok |-> FALSE]
NewReq == [pc |-> "new", action |-> None, snap |-> Absent, ok |-> FALSE]

Init ==
    /\ rows = [a \in Actions |-> Absent]
    /\ waiters = [p \in Procs |-> NoWaiters(Actions)]
    /\ run = [r \in Runners |-> IdleRun]
    /\ req = [h \in Handlers |-> NewReq]
    /\ loop = [p \in Procs |-> None]
    /\ lock = [p \in Procs |-> None]
    /\ cancel = [p \in Procs |-> FALSE]
    /\ up = [p \in Procs |-> TRUE]
    /\ approved = [a \in Actions |-> FALSE]
    /\ starts = [a \in Actions |-> 0]
    /\ outcome = [a \in Actions |-> "none"]
    /\ denied = [a \in Actions |-> FALSE]

-----------------------------------------------------------------------------
(* Agent runs.                                                             *)

Goto(r, pc) == run' = [run EXCEPT ![r].pc = pc]

\* The same, keeping the record a transaction has read.
GotoWith(r, pc, record) == run' = [run EXCEPT ![r].pc = pc, ![r].snap = record]

\* The same, keeping whether the command succeeded.
GotoEnded(r, pc, ok) == run' = [run EXCEPT ![r].pc = pc, ![r].ok = ok]

\* Acquire run_lock, clear cancel_event, start the run: a chat request, or
\* the continuation of the session after an approval.
StartRun_Unlocked(r) ==
    LET p == ProcOf[r] IN
    /\ up[p]
    /\ run[r].pc = "idle"
    /\ lock' = [lock EXCEPT ![p] = r]
    /\ cancel' = [cancel EXCEPT ![p] = FALSE]
    /\ Goto(r, "model")

StartRun(r) ==
    LET p == ProcOf[r] IN
    /\ up[p]
    /\ lock[p] = None
    /\ run[r].pc = "idle"
    /\ lock' = [lock EXCEPT ![p] = r]
    /\ cancel' = [cancel EXCEPT ![p] = FALSE]
    /\ Goto(r, "model")

\* The run is over, whether it completed, was canceled, failed or its stream
\* was closed: the lock is released and no waiter is left behind.
LeaveRun(r) ==
    /\ Goto(r, "ended")
    /\ lock' = [lock EXCEPT ![ProcOf[r]] = None]

ChatArrives(r) ==
    /\ r \in Chats
    /\ StartRun(r)
    /\ UNCHANGED <<rows, waiters, req, loop, up, history>>

\* The model asks for a tool; cancel_event is tested before each tool.
RunToolCall_Unbounded(r) ==
    /\ run[r].pc = "model"
    /\ ~cancel[ProcOf[r]]
    /\ run' = [run EXCEPT ![r].pc = "tool", ![r].turn = @ + 1]
    /\ UNCHANGED <<rows, waiters, req, loop, lock, cancel, up, history>>

RunToolCall(r) ==
    /\ run[r].pc = "model"
    /\ run[r].turn < MaxTurns
    /\ ~cancel[ProcOf[r]]
    /\ run' = [run EXCEPT ![r].pc = "tool", ![r].turn = @ + 1]
    /\ UNCHANGED <<rows, waiters, req, loop, lock, cancel, up, history>>

\* A final answer, a cancellation, a failed model call or max_turns.
RunEnds(r) ==
    /\ run[r].pc = "model"
    /\ LeaveRun(r)
    /\ UNCHANGED <<rows, waiters, req, loop, cancel, up, history>>

\* The policy wants no approval, denies the tool or redirects it: the tool
\* loop goes on without touching the approval subsystem.
RunPlainTool(r) ==
    /\ run[r].pc = "tool"
    /\ Goto(r, "model")
    /\ UNCHANGED <<rows, waiters, req, loop, lock, cancel, up, history>>

\* _create_tool_approval: the row is visible from here on.
RunCreatesAction_ReusesIds(r) ==
    /\ run[r].pc = "tool"
    /\ \E a \in Actions :
          /\ rows' = [rows EXCEPT ![a] = NewAction]
          /\ run' = [run EXCEPT ![r].pc = "created", ![r].action = a]
    /\ UNCHANGED <<waiters, req, loop, lock, cancel, up, history>>

RunCreatesAction(r) ==
    /\ run[r].pc = "tool"
    /\ \E a \in Actions :
          /\ rows[a] = Absent
          /\ rows' = [rows EXCEPT ![a] = NewAction]
          /\ run' = [run EXCEPT ![r].pc = "created", ![r].action = a]
    /\ UNCHANGED <<waiters, req, loop, lock, cancel, up, history>>

RunRegisters(r) ==
    LET p == ProcOf[r] IN
    /\ run[r].pc = "created"
    /\ waiters' = [waiters EXCEPT ![p] = Register(@, run[r].action)]
    /\ Goto(r, "registered")
    /\ UNCHANGED <<rows, req, loop, lock, cancel, up, history>>

\* The consumer of the stream pulls past the pending_action event.
RunStartsWaiting(r) ==
    /\ run[r].pc = "registered"
    /\ r \notin Unattended
    /\ Goto(r, "waiting")
    /\ UNCHANGED <<rows, waiters, req, loop, lock, cancel, up, history>>

\* The evaluation runner consumes the stream itself: it decides on the
\* pending_action event and pulls on, all in the thread of the run.
EvalDecides(r) ==
    LET p == ProcOf[r] IN
    /\ run[r].pc = "registered"
    /\ r \in Unattended
    /\ \E approve \in BOOLEAN :
          waiters' = [waiters EXCEPT ![p] = Resolve(@, run[r].action, approve)]
    /\ Goto(r, "waiting")
    /\ UNCHANGED <<rows, req, loop, lock, cancel, up, history>>

\* The SSE client is gone: the generator is closed at the event it yielded.
\* Its finally clears the waiter; the row stays as it is.
StreamClosed_KeepsWaiter(r) ==
    /\ r \in Chats \ Unattended
    /\ run[r].pc \in {"tool", "registered"}
    /\ LeaveRun(r)
    /\ UNCHANGED <<rows, waiters, req, loop, cancel, up, history>>

StreamClosed(r) ==
    LET p == ProcOf[r] IN
    /\ r \in Chats \ Unattended
    /\ run[r].pc \in {"tool", "registered"}
    /\ waiters' = IF run[r].pc = "registered"
                  THEN [waiters EXCEPT ![p] = Clear(@, run[r].action)]
                  ELSE waiters
    /\ LeaveRun(r)
    /\ UNCHANGED <<rows, req, loop, cancel, up, history>>

\* wait() returns the decision the waiter holds when the thread reads it.
RunReadsDecision_AsApproval(r) ==
    /\ run[r].pc = "waiting"
    /\ waiters[ProcOf[r]][run[r].action] \in {"approved", "rejected"}
    /\ Goto(r, "approve_get")
    /\ UNCHANGED <<rows, waiters, req, loop, lock, cancel, up, history>>

RunReadsDecision(r) ==
    LET w == waiters[ProcOf[r]][run[r].action] IN
    /\ run[r].pc = "waiting"
    /\ \/ w = "approved" /\ Goto(r, "approve_get")
       \/ w = "rejected" /\ Goto(r, "deny_get")
    /\ UNCHANGED <<rows, waiters, req, loop, lock, cancel, up, history>>

\* The loop of wait() tests cancel_event before the decision.
RunWaitCancelled(r) ==
    /\ run[r].pc = "waiting"
    /\ cancel[ProcOf[r]]
    /\ Goto(r, "deny_get")
    /\ UNCHANGED <<rows, waiters, req, loop, lock, cancel, up, history>>

\* The deadline may pass at any moment, also just after a decision was set.
RunWaitTimesOut_Never(r) ==
    /\ run[r].pc = "waiting"
    /\ FALSE
    /\ Goto(r, "deny_get")
    /\ UNCHANGED <<rows, waiters, req, loop, lock, cancel, up, history>>

RunWaitTimesOut(r) ==
    /\ run[r].pc = "waiting"
    /\ Goto(r, "deny_get")
    /\ UNCHANGED <<rows, waiters, req, loop, lock, cancel, up, history>>

-----------------------------------------------------------------------------
(* _await_tool_approval after the wait: not approved.                      *)

\* Reads the row; a row somebody already moved is left alone.
RunDenyGet(r) ==
    /\ run[r].pc = "deny_get"
    /\ IF rows[run[r].action].status = "pending"
         THEN Goto(r, "deny_read")
         ELSE Goto(r, "return_denied")
    /\ UNCHANGED <<rows, waiters, req, loop, lock, cancel, up, history>>

\* store.cancel reads the row again; its check raises on a terminal status.
RunDenyRead(r) ==
    LET row == rows[run[r].action] IN
    /\ run[r].pc = "deny_read"
    /\ IF row.status \in CancelExpects
         THEN GotoWith(r, "deny_cas", row)
         ELSE Goto(r, "raise")
    /\ UNCHANGED <<rows, waiters, req, loop, lock, cancel, up, history>>

RunDenyCas(r) ==
    LET a == run[r].action IN
    /\ run[r].pc = "deny_cas"
    /\ IF Swaps(rows[a], CancelExpects)
         THEN /\ rows' = [rows EXCEPT ![a] = ApplyCancel(run[r].snap)]
              /\ Goto(r, "return_denied")
         ELSE /\ Goto(r, "raise")
              /\ UNCHANGED rows
    /\ UNCHANGED <<waiters, req, loop, lock, cancel, up, history>>

\* The model is told that the command was not executed.
RunReturnsDenied(r) ==
    LET a == run[r].action IN
    /\ run[r].pc = "return_denied"
    /\ waiters' = [waiters EXCEPT ![ProcOf[r]] = Clear(@, a)]
    /\ denied' = [denied EXCEPT ![a] = TRUE]
    /\ Goto(r, "model")
    /\ UNCHANGED <<rows, req, loop, lock, cancel, up, approved, starts, outcome>>

(* _await_tool_approval after the wait: approved.                          *)

\* A pending row is confirmed by the run itself (programmatic approval);
\* any other status, a canceled one included, goes on to the execution.
RunApproveGet_Unconfirmed(r) ==
    /\ run[r].pc = "approve_get"
    /\ Goto(r, "execute")
    /\ UNCHANGED <<rows, waiters, req, loop, lock, cancel, up, history>>

RunApproveGet(r) ==
    /\ run[r].pc = "approve_get"
    /\ IF rows[run[r].action].status = "pending"
         THEN Goto(r, "approve_read")
         ELSE Goto(r, "execute")
    /\ UNCHANGED <<rows, waiters, req, loop, lock, cancel, up, history>>

RunApproveRead(r) ==
    LET row == rows[run[r].action] IN
    /\ run[r].pc = "approve_read"
    /\ IF row.status \in ConfirmExpects
         THEN GotoWith(r, "approve_cas", row)
         ELSE Goto(r, "raise")
    /\ UNCHANGED <<rows, waiters, req, loop, lock, cancel, up, history>>

RunApproveCas(r) ==
    LET a == run[r].action IN
    /\ run[r].pc = "approve_cas"
    /\ IF Swaps(rows[a], ConfirmExpects)
         THEN /\ rows' = [rows EXCEPT ![a] = ApplyConfirm(run[r].snap)]
              /\ approved' = [approved EXCEPT ![a] = TRUE]
              /\ Goto(r, "execute")
         ELSE /\ Goto(r, "raise")
              /\ UNCHANGED <<rows, approved>>
    /\ UNCHANGED <<waiters, req, loop, lock, cancel, up, starts, outcome, denied>>

\* execute_pending_action starts the command.
RunExecutes(r) ==
    LET a == run[r].action IN
    /\ run[r].pc = "execute"
    /\ starts' = [starts EXCEPT ![a] = @ + 1]
    /\ Goto(r, "executing")
    /\ UNCHANGED <<rows, waiters, req, loop, lock, cancel, up, approved, outcome, denied>>

\* It returns success or an output that begins with "Error:".
RunExecuted(r) ==
    LET a == run[r].action IN
    /\ run[r].pc = "executing"
    /\ \E ok \in BOOLEAN :
          /\ outcome' = [outcome EXCEPT ![a] = IF ok THEN "ok" ELSE "error"]
          /\ GotoEnded(r, "finish_read", ok)
    /\ UNCHANGED <<rows, waiters, req, loop, lock, cancel, up, approved, starts, denied>>

\* It raises: the exception leaves the generator, nothing finishes the row.
RunExecuteRaises(r) ==
    LET a == run[r].action IN
    /\ run[r].pc = "executing"
    /\ outcome' = [outcome EXCEPT ![a] = "error"]
    /\ Goto(r, "raise")
    /\ UNCHANGED <<rows, waiters, req, loop, lock, cancel, up, approved, starts, denied>>

RunFinishRead(r) ==
    LET row == rows[run[r].action] IN
    /\ run[r].pc = "finish_read"
    /\ IF row.status \in FinishExpects
         THEN GotoWith(r, "finish_cas", row)
         ELSE Goto(r, "raise")
    /\ UNCHANGED <<rows, waiters, req, loop, lock, cancel, up, history>>

RunFinishCas(r) ==
    LET a == run[r].action IN
    /\ run[r].pc = "finish_cas"
    /\ IF Swaps(rows[a], FinishExpects)
         THEN /\ rows' = [rows EXCEPT ![a] = ApplyFinish(run[r].snap, run[r].ok)]
              /\ Goto(r, "return_result")
         ELSE /\ Goto(r, "raise")
              /\ UNCHANGED rows
    /\ UNCHANGED <<waiters, req, loop, lock, cancel, up, history>>

RunReturnsResult(r) ==
    /\ run[r].pc = "return_result"
    /\ waiters' = [waiters EXCEPT ![ProcOf[r]] = Clear(@, run[r].action)]
    /\ Goto(r, "model")
    /\ UNCHANGED <<rows, req, loop, lock, cancel, up, history>>

\* A ValueError of the store, or of the execution, ends the run: the handler
\* of the pipeline does not cover an exception raised in its own branch.
RunRaises(r) ==
    /\ run[r].pc = "raise"
    /\ waiters' = [waiters EXCEPT ![ProcOf[r]] = Clear(@, run[r].action)]
    /\ LeaveRun(r)
    /\ UNCHANGED <<rows, req, loop, cancel, up, history>>

-----------------------------------------------------------------------------
(* The confirm and cancel endpoints.                                       *)

\* The handler has the event loop of its process to itself, from here on.
TakesLoop(h) ==
    /\ up[ProcOf[h]]
    /\ loop[ProcOf[h]] = None
    /\ loop' = [loop EXCEPT ![ProcOf[h]] = h]

ReleasesLoop(h) == loop' = [loop EXCEPT ![ProcOf[h]] = None]

ReqGoto(h, pc) == req' = [req EXCEPT ![h].pc = pc]

ReqGotoWith(h, pc, a, record) ==
    req' = [req EXCEPT ![h] = [@ EXCEPT !.pc = pc, !.action = a, !.snap = record]]

ReqGotoEnded(h, pc, ok) == req' = [req EXCEPT ![h].pc = pc, ![h].ok = ok]

\* The request reads the row; a status that refuses the transition is
\* answered with 409 without a second transaction.
ReadRow(h, a, expected, cas) ==
    /\ req[h].pc = "new"
    /\ rows[a] # Absent
    /\ IF rows[a].status \in expected
         THEN /\ TakesLoop(h)
              /\ ReqGotoWith(h, cas, a, rows[a])
         ELSE /\ up[ProcOf[h]]
              /\ loop[ProcOf[h]] = None
              /\ ReqGoto(h, "done")
              /\ UNCHANGED loop
    /\ UNCHANGED <<rows, waiters, run, lock, cancel, up, history>>

ConfirmRead(h, a) == ReadRow(h, a, ConfirmExpects, "confirm_cas")

CancelRead(h, a) == ReadRow(h, a, CancelExpects, "cancel_cas")

ConfirmCas(h) ==
    LET a == req[h].action IN
    /\ req[h].pc = "confirm_cas"
    /\ IF Swaps(rows[a], ConfirmExpects)
         THEN /\ rows' = [rows EXCEPT ![a] = ApplyConfirm(req[h].snap)]
              /\ approved' = [approved EXCEPT ![a] = TRUE]
              /\ ReqGoto(h, "confirm_resolve")
              /\ UNCHANGED loop
         ELSE /\ ReqGoto(h, "done")
              /\ ReleasesLoop(h)
              /\ UNCHANGED <<rows, approved>>
    /\ UNCHANGED <<waiters, run, lock, cancel, up, starts, outcome, denied>>

\* With a waiter in this process the run executes the action; without one
\* the endpoint does, in the threadpool.
ConfirmResolve_AlsoExecutes(h) ==
    LET p == ProcOf[h]
        a == req[h].action
    IN
    /\ req[h].pc = "confirm_resolve"
    /\ IF HasWaiter(waiters[p], a)
         THEN waiters' = [waiters EXCEPT ![p] = Resolve(@, a, TRUE)]
         ELSE UNCHANGED waiters
    /\ ReqGoto(h, "execute")
    /\ ReleasesLoop(h)
    /\ UNCHANGED <<rows, run, lock, cancel, up, history>>

ConfirmResolve(h) ==
    LET p == ProcOf[h]
        a == req[h].action
    IN
    /\ req[h].pc = "confirm_resolve"
    /\ IF HasWaiter(waiters[p], a)
         THEN /\ waiters' = [waiters EXCEPT ![p] = Resolve(@, a, TRUE)]
              /\ ReqGoto(h, "done")
         ELSE /\ ReqGoto(h, "execute")
              /\ UNCHANGED waiters
    /\ ReleasesLoop(h)
    /\ UNCHANGED <<rows, run, lock, cancel, up, history>>

CancelCas(h) ==
    LET a == req[h].action IN
    /\ req[h].pc = "cancel_cas"
    /\ IF Swaps(rows[a], CancelExpects)
         THEN /\ rows' = [rows EXCEPT ![a] = ApplyCancel(req[h].snap)]
              /\ ReqGoto(h, "cancel_resolve")
              /\ UNCHANGED loop
         ELSE /\ ReqGoto(h, "done")
              /\ ReleasesLoop(h)
              /\ UNCHANGED rows
    /\ UNCHANGED <<waiters, run, lock, cancel, up, history>>

CancelResolve(h) ==
    LET p == ProcOf[h]
        a == req[h].action
    IN
    /\ req[h].pc = "cancel_resolve"
    /\ waiters' = IF HasWaiter(waiters[p], a)
                  THEN [waiters EXCEPT ![p] = Resolve(@, a, FALSE)]
                  ELSE waiters
    /\ ReqGoto(h, "done")
    /\ ReleasesLoop(h)
    /\ UNCHANGED <<rows, run, lock, cancel, up, history>>

HandlerExecutes(h) ==
    LET a == req[h].action IN
    /\ req[h].pc = "execute"
    /\ starts' = [starts EXCEPT ![a] = @ + 1]
    /\ ReqGoto(h, "executing")
    /\ UNCHANGED <<rows, waiters, run, loop, lock, cancel, up, approved, outcome, denied>>

HandlerExecuted(h) ==
    LET a == req[h].action IN
    /\ req[h].pc = "executing"
    /\ \E ok \in BOOLEAN :
          /\ outcome' = [outcome EXCEPT ![a] = IF ok THEN "ok" ELSE "error"]
          /\ ReqGotoEnded(h, "continue", ok)
    /\ UNCHANGED <<rows, waiters, run, loop, lock, cancel, up, approved, starts, denied>>

\* An exception skips the continuation and finishes the action as failed.
HandlerExecuteRaises(h) ==
    LET a == req[h].action IN
    /\ req[h].pc = "executing"
    /\ outcome' = [outcome EXCEPT ![a] = "error"]
    /\ ReqGotoEnded(h, "finish_read", FALSE)
    /\ UNCHANGED <<rows, waiters, run, loop, lock, cancel, up, approved, starts, denied>>

\* The endpoint continues the session: it runs the agent once more, after
\* waiting for the run_lock that a chat of the session may hold.
HandlerContinues(h) ==
    /\ req[h].pc = "continue"
    /\ StartRun(h)
    /\ ReqGoto(h, "continuing")
    /\ UNCHANGED <<rows, waiters, loop, up, history>>

\* No session to continue, or it cannot be restored.
HandlerSkipsContinuation(h) ==
    /\ req[h].pc = "continue"
    /\ ReqGoto(h, "finish_read")
    /\ UNCHANGED <<rows, waiters, run, loop, lock, cancel, up, history>>

\* The continuation returned or raised; its error is only noted.
HandlerContinued(h) ==
    /\ req[h].pc = "continuing"
    /\ run[h].pc = "ended"
    /\ ReqGoto(h, "finish_read")
    /\ UNCHANGED <<rows, waiters, run, loop, lock, cancel, up, history>>

\* store.finish back on the event loop.  When it raises, the endpoint tries
\* to finish the action as failed, which raises again: no row leaves a
\* terminal status.  The answer is 409 then.
HandlerFinishRead(h) ==
    LET a == req[h].action IN
    /\ req[h].pc = "finish_read"
    /\ IF rows[a].status \in FinishExpects
         THEN /\ TakesLoop(h)
              /\ ReqGotoWith(h, "finish_cas", a, rows[a])
         ELSE /\ loop[ProcOf[h]] = None
              /\ ReqGoto(h, "done")
              /\ UNCHANGED loop
    /\ UNCHANGED <<rows, waiters, run, lock, cancel, up, history>>

HandlerFinishCas(h) ==
    LET a == req[h].action IN
    /\ req[h].pc = "finish_cas"
    /\ rows' = IF Swaps(rows[a], FinishExpects)
               THEN [rows EXCEPT ![a] = ApplyFinish(req[h].snap, req[h].ok)]
               ELSE rows
    /\ ReqGoto(h, "done")
    /\ ReleasesLoop(h)
    /\ UNCHANGED <<waiters, run, lock, cancel, up, history>>

\* POST /api/chat/cancel, or the time limit of an evaluation trial.
CancelChat(p) ==
    /\ up[p]
    /\ loop[p] = None
    /\ ~cancel[p]
    /\ cancel' = [cancel EXCEPT ![p] = TRUE]
    /\ UNCHANGED <<rows, waiters, run, req, loop, lock, up, history>>

-----------------------------------------------------------------------------
(* Crash and restart of a process.                                         *)

Crash(p) ==
    /\ up[p]
    /\ up' = [up EXCEPT ![p] = FALSE]
    /\ run' = [r \in Runners |->
                IF ProcOf[r] = p /\ run[r].pc # "idle"
                THEN [run[r] EXCEPT !.pc = "ended"] ELSE run[r]]
    /\ req' = [h \in Handlers |->
                IF ProcOf[h] = p /\ req[h].pc # "new"
                THEN [req[h] EXCEPT !.pc = "done"] ELSE req[h]]
    /\ waiters' = [waiters EXCEPT ![p] = NoWaiters(Actions)]
    /\ loop' = [loop EXCEPT ![p] = None]
    /\ lock' = [lock EXCEPT ![p] = None]
    /\ cancel' = [cancel EXCEPT ![p] = FALSE]
    /\ UNCHANGED <<rows, history>>

\* Startup recovery runs before the server answers its first request.
Restart(p) ==
    /\ p \in Servers
    /\ ~up[p]
    /\ up' = [up EXCEPT ![p] = TRUE]
    /\ rows' = [a \in Actions |-> RecoverInterrupted(rows[a])]
    /\ UNCHANGED <<waiters, run, req, loop, lock, cancel, history>>

-----------------------------------------------------------------------------
\* What the thread of a run does by itself.
RunStep(r) ==
    \/ RunToolCall(r) \/ RunEnds(r) \/ RunPlainTool(r) \/ RunCreatesAction(r)
    \/ RunRegisters(r) \/ RunStartsWaiting(r) \/ EvalDecides(r)
    \/ RunReadsDecision(r) \/ RunWaitCancelled(r) \/ RunWaitTimesOut(r)
    \/ RunDenyGet(r) \/ RunDenyRead(r) \/ RunDenyCas(r) \/ RunReturnsDenied(r)
    \/ RunApproveGet(r) \/ RunApproveRead(r) \/ RunApproveCas(r)
    \/ RunExecutes(r) \/ RunExecuted(r) \/ RunExecuteRaises(r)
    \/ RunFinishRead(r) \/ RunFinishCas(r) \/ RunReturnsResult(r)
    \/ RunRaises(r)

\* What an accepted request does by itself.
HandlerStep(h) ==
    \/ ConfirmCas(h) \/ ConfirmResolve(h) \/ CancelCas(h) \/ CancelResolve(h)
    \/ HandlerExecutes(h) \/ HandlerExecuted(h) \/ HandlerExecuteRaises(h)
    \/ HandlerContinues(h) \/ HandlerSkipsContinuation(h) \/ HandlerContinued(h)
    \/ HandlerFinishRead(h) \/ HandlerFinishCas(h)

Next ==
    \/ \E r \in Runners : ChatArrives(r) \/ StreamClosed(r) \/ RunStep(r)
    \/ \E h \in Handlers : HandlerStep(h)
    \/ \E h \in Handlers, a \in Actions : ConfirmRead(h, a) \/ CancelRead(h, a)
    \/ \E p \in Procs : CancelChat(p) \/ Crash(p) \/ Restart(p)

Spec == Init /\ [][Next]_vars

\* Threads run when they can.  Arrivals, disconnects, crashes and restarts
\* are the environment's and are not fair.
Fairness ==
    /\ \A r \in Runners : WF_vars(RunStep(r))
    /\ \A h \in Handlers : WF_vars(HandlerStep(h))

FairSpec == Spec /\ Fairness

\* A supervisor that restarts a server whenever it went down.
SupervisedSpec == FairSpec /\ \A p \in Procs : WF_vars(Restart(p))

-----------------------------------------------------------------------------
(* Properties.                                                             *)

\* A command starts at most once per action, however many approvers confirm
\* it, whichever of the run and the endpoint takes the execution over, and
\* across crashes.
AtMostOneExecution == \A a \in Actions : starts[a] <= 1

\* A command starts only after some approver's transition to confirmed has
\* succeeded: a timeout, a refusal or a lost race never lets it through.
OnlyApprovedExecute == \A a \in Actions : starts[a] > 0 => approved[a]

\* A row says "executed" only when its command was started, succeeded, and is
\* not being executed by the run or by an endpoint any more.
ExecutedMeansSuccess ==
    \A a \in Actions : rows[a].status = "executed" =>
        /\ starts[a] = 1 /\ outcome[a] = "ok"
        /\ \A r \in Runners : ~(run[r].pc = "executing" /\ run[r].action = a)
        /\ \A h \in Handlers : ~(req[h].pc = "executing" /\ req[h].action = a)

\* The run_lock keeps two runs of one session apart, the continuation that an
\* endpoint starts included.
Running(r) == run[r].pc \notin {"idle", "ended"}

OneRunPerSession ==
    \A r1, r2 \in Runners :
        ProcOf[r1] = ProcOf[r2] /\ Running(r1) /\ Running(r2) => r1 = r2

\* A waiter exists only while a run of its process is between registering it
\* and returning from the approval: otherwise an endpoint would hand the
\* execution to a run that is not there.
AwaitingPc == {"registered", "waiting", "deny_get", "deny_read", "deny_cas",
               "return_denied", "approve_get", "approve_read", "approve_cas",
               "execute", "executing", "finish_read", "finish_cas",
               "return_result", "raise"}

WaitersAreServed ==
    \A p \in Procs, a \in Actions : HasWaiter(waiters[p], a) =>
        \E r \in Runners :
            ProcOf[r] = p /\ run[r].action = a /\ run[r].pc \in AwaitingPc

\* Executed, failed and canceled rows never change again: no late approver,
\* no stale snapshot and no recovery overwrites them.
TerminalIsFinal ==
    [][\A a \in Actions : rows[a].status \in Terminal => rows'[a] = rows[a]]_vars

\* The subsystem implements the lifecycle of a single action.
Lifecycle == INSTANCE ApprovalLifecycle
                 WITH status <- [a \in Actions |-> rows[a].status]

ImplementsLifecycle == Lifecycle!Spec

\* Every accepted request is answered, although a confirm request may wait
\* for a run_lock whose holder waits for the very next decision.
RequestsReturn ==
    \A h \in Handlers :
        req[h].pc \notin {"new", "done"} ~> req[h].pc = "done"

\* Every agent run comes to an end, also one nobody decides about.
RunsEnd == \A r \in Runners : Running(r) ~> run[r].pc = "ended"

-----------------------------------------------------------------------------
(* Why a server executes an action once: the right to execute it is a      *)
(* token.  The winner of the transition to confirmed gets it, an endpoint  *)
(* that finds a waiter passes it on with the decision, and starting the    *)
(* command, a timeout or a crash gives it up.                              *)

HandlerMayExecute(h, a) ==
    req[h].action = a /\ req[h].pc \in {"confirm_resolve", "execute"}

RunMayExecute(r, a) ==
    /\ run[r].action = a
    /\ \/ run[r].pc \in {"approve_get", "execute"}
       \/ /\ run[r].pc \in {"registered", "waiting"}
          /\ waiters[ProcOf[r]][a] = "approved"

\* A thread that works on an action has one.
ActionsAreKnown ==
    /\ \A r \in Runners :
          run[r].pc \in AwaitingPc \cup {"created"} => run[r].action \in Actions
    /\ \A h \in Handlers :
          req[h].pc \notin {"new", "done"} => req[h].action \in Actions

\* An action belongs to the one run that created it.
ActionsAreOwned ==
    /\ \A r \in Runners, a \in Actions :
          run[r].action = a => rows[a].status # "absent"
    /\ \A r1, r2 \in Runners, a \in Actions :
          run[r1].action = a /\ run[r2].action = a => r1 = r2

\* Without trials every decision to approve follows a confirmed row.
NeverConfirmsItself ==
    \A r \in Runners : run[r].pc \notin {"approve_read", "approve_cas"}

TokenIsFresh ==
    \A a \in Actions :
        /\ rows[a].status \in {"absent", "pending"} => starts[a] = 0
        /\ \A h \in Handlers : HandlerMayExecute(h, a) =>
              /\ rows[a].status \notin {"absent", "pending"}
              /\ approved[a] /\ starts[a] = 0
        /\ \A r \in Runners : RunMayExecute(r, a) =>
              /\ rows[a].status \notin {"absent", "pending"}
              /\ approved[a] /\ starts[a] = 0

TokenIsUnique ==
    \A a \in Actions :
        /\ \A h1, h2 \in Handlers :
              HandlerMayExecute(h1, a) /\ HandlerMayExecute(h2, a) => h1 = h2
        /\ \A h \in Handlers, r \in Runners :
              ~(HandlerMayExecute(h, a) /\ RunMayExecute(r, a))

\* The inductive invariant of a server: the token and what it rests on.
ServerInv ==
    /\ TypeOK /\ ActionsAreKnown /\ ActionsAreOwned /\ NeverConfirmsItself
    /\ TokenIsFresh /\ TokenIsUnique
    /\ AtMostOneExecution /\ OnlyApprovedExecute

-----------------------------------------------------------------------------
(* Statements of the repository that the code does not keep.               *)

\* tool_loop.py tells the model "The command was not executed."
DeniedIsNotExecuted == \A a \in Actions : denied[a] => starts[a] = 0

\* repositories/actions.py: two approvals arriving at the same time "cannot
\* silently overwrite each other": a confirmation stays on the record.
ConfirmationIsKept ==
    \A a \in Actions : approved[a] => rows[a].confirmed_at

\* docs/frontend-test-cases.md, A-03: after "approve and execute" the action
\* is executed (or at least reaches some terminal status).
ApprovedIsSettled ==
    \A a \in Actions : approved[a] ~> rows[a].status \in Terminal

=============================================================================
