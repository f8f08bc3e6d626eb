# A verification development for ai-devops-agent

TLA+ models of the concurrent core of ai-devops-agent, TLC configurations that
check them on small instances, and TLAPS proofs for every instance. Paths such
as `agent/core/tool_loop.py` are relative to the repository (`src/` here).

Contents: 1 the system, 2 the modules and how they correspond to the code,
3 the runs, 4 fairness, 5 the proofs, 6 where the code and its documents
disagree, 7 what is left out, 8 the plan.

## 1. The system

An API process (FastAPI, one uvicorn process, `Dockerfile`) serves chat
sessions. A chat request runs an LLM agent in a thread; the agent calls tools,
some of which need a human approval. Everything durable is in one SQL database;
everything else is memory of the process. Scripts are processes of their own; an
evaluation run has a database of its own as well (`scripts/run_eval.py:102-109`).

| Component | State | Operations | What is hard |
|---|---|---|---|
| Pending action store (`agent/orchestration/pending_actions.py`, `agent/persistence/repositories/actions.py`) | rows with a status | create, confirm, cancel, finish, recover at startup | read, check and conditional UPDATE are separate transactions; the UPDATE writes all columns of an older read |
| Approval coordinator (`approval_coordinator.py`) | dictionary of waiters, process memory | register, resolve, wait, clear | the decision races the timeout and the cancellation |
| Confirm / cancel endpoints (`api/routes/action_route.py`) | the request | confirm: hand over to the waiting run, or execute, continue the session, finish; cancel | who executes; continuing needs the session's run_lock |
| Agent run loop (`agent/core/pipeline.py`, `tool_loop.py`) | messages, position in the generator | model call, tools, approval, safe points | generator closed at a yield, exceptions inside the approval branch |
| Run recovery (`agent/sessions/state_store.py`, `recovery_route.py`) | run rows, snapshots | create, save safe / unsafe, interrupt, resume | crash between tool and safe point; check-then-act on resume |
| Session manager (`agent/sessions/manager.py`) | sessions in memory and rows | get_or_create, evict, reset, rename, switch target, cancel | eviction and reset of a session whose run is in progress |
| Context management (`context_compact.py`, `error_recovery.py`) | the message list | snip, trim, compact, repair, retry | a tool call separated from its result |
| Memory (`agent/memory/`) | records, one copy of all of them per instance | add, merge, update, approve, archive, restore, delete | contradicting active records; stale copies written back |
| Tools and targets (`agent/tools/`, `agent/targets/`) | policies, selected project, its files and backups | verdict, approval, execution, edit, deploy, restart | what was approved and what runs are read at different times |
| Cron scheduler (`agent/orchestration/cron.py`) | jobs in memory, rows, queue | schedule, cancel, fire, execute, save | stale snapshots written back; firing while executing |
| Background tasks (`background.py`) | threads, rows | start, finish, collect, recover | lost or repeated notifications |
| Task graph (`tasks.py`, `api/routes/task.py`) | rows with dependencies | create, claim, complete, delete | claims race; deletion blocks tasks |
| MCP clients (`agent/mcp/`) | clients, sessions, response queues | connect, call, disconnect, reload | client and session change in separate steps; late answers, silent servers |
| Evaluation (`agent/evaluation/`) | trials | run a trial, decide its approvals, score | the policy of a case answers for the user |
| Sandboxes, persistence base, audit, platform, frontend | | | see 7 |

Interactions: an agent run *creates* an action, *registers* a waiter, yields an
event to its stream and *waits*. The endpoint *confirms* the row and *resolves*
the waiter; if there is none in this process it *executes* the command itself
and *runs the agent again* under the session's `run_lock`. A chat cancellation
sets the session's `cancel_event`, which the wait polls. At startup every
confirmed row becomes failed, every running run interrupted, every running
background task failed. A cron job and a resume request run an agent of the
session manager; a run collects background results when it begins and assembles
its tools from the MCP clients connected at that moment.

The properties each component owes are the hazards of `PROJECT.json` with the
properties that cover them, each at its line.

## 2. The modules

| Module | What it is |
|---|---|
| `PendingActionStore` | constant level: rows, the statuses each transition expects, the record it writes, the conditional UPDATE, the recovery UPDATE |
| `ApprovalCoordinator` | constant level: the dictionary of waiters and its locked methods |
| `ApprovalLifecycle` | abstract specification: one status per action, one start, only after approval |
| `ApprovalFlow` | the approval protocol: runs, endpoints, coordinator, table, the trials of an evaluation, crash and restart; its properties and the inductive invariant |
| `RunRecovery` | the row of a run, its safe points, crash, interruption at startup, resume, reset |
| `SessionManager` | live session and row: eviction, restoring, run_lock, cancel, reset, rename, saves |
| `ContextHistory` | the message list: appending, the four ways of cutting it, repair, reset, restore, retries |
| `MemorySystem` | instances with copies over one table, merges, conflicts, supersession |
| `ToolCalls` | policies, verdict, approval (user or evaluation case), execution on the selected project |
| `CronScheduler` | jobs in several processes, claims, queue, worker, snapshots, crash |
| `CronFields` | which cron fields are accepted and which days they match |
| `BackgroundTasks` | starts, worker threads, results and their collection, crash |
| `TaskGraph` | claims, completion and deletion under one lock, dependencies |
| `McpClients` | clients and sessions under one name, each step of a request apart, calls over stdio and SSE, notifications, timeouts, silence |
| `Base` | the value `None` |
| `MCApprovalFlow`, `MCSessions`, `MCAutomation` | instances for TLC |
| `ApprovalFlow_proofs`, `RunRecovery_proofs`, `SessionManager_proofs`, `ContextHistory_proofs`, `MemorySystem_proofs`, `ToolCalls_proofs` | theorems about the module of that name, and their proofs |
| `Automation_proofs` | the same for `CronScheduler`, `CronFields`, `McpClients`, `TaskGraph`, `BackgroundTasks` and their composition `MCAutomation` |
| `Sessions_proofs` | the same for `MCSessions`, which composes the other five |

Every module is parameterised by CONSTANTS, has one action per operation or
step, and uses no RECURSIVE operator, so each of them can be proved about.
Operators named `X_Suffix`, each just before `X`, are variations of `X` with a
bug in it; the runs use only `X`. Variables commented "history" are read by no
action.

**ApprovalFlow.** `rows` is the table. `waiters[p]`, `lock[p]`, `cancel[p]`,
`loop[p]`, `up[p]` are memory of process `p`: the coordinator, the `run_lock`
and `cancel_event` of its session, the handler that has the event loop, and
whether the process runs. `run[r]` is the generator of an agent run: its pc, its
tool calls so far, its action, the record its last transaction read and the
success of its command. A confirm handler that continues the session runs the
agent too, so handlers have a run as well. `req[h]` is the same for an endpoint
request. A database transaction is a step; a locked method of the coordinator is
a step; a method of the store is its read (with the status check) and its
UPDATE. Handlers of one process are coroutines without an await between their
calls, so `loop` keeps a second handler out while agent threads (and other
processes) run in between; executing and continuing are awaited in the thread
pool and leave the loop free. `RunRaises` is an exception of the store or of the
command, which leaves the generator because the pipeline's `except Exception`
does not cover its own sibling branch; `StreamClosed` closes the generator at a
yield. One session per process, because sessions share neither lock nor actions.
Evaluation trials (`Unattended`) are chats that decide their own approvals; they
never meet endpoints (`EvaluationAssumption`), because a server and an evaluation
run have different databases (`evaluation/runner.py:179-187` refuses any other).

**RunRecovery.** A conversation is the set of tool calls whose results it holds.
`call[c]` says whether a call was started and for which run. `BeginSave` (which
run to save) and `Saves` (the row takes the messages the agent has by then) are
`_persist_run_state`; `MarksUnsafe` is the save before a tool, `ToolsDone` the
safe point after its results, with the compaction that a tool asked for in
between (`CompactionFails` when that raises), `CompactsHistory` the compactions
before a model call and after an overflow; `forgotten` remembers whose results a
compaction took. `SavesWaiting` is the save while an approval
is shown, `LateApproval` the execution by the endpoint after the run
has gone. `ServerRestarts` applies `interrupt_stale_runs`; `ResumeArrives` is
the status check, `ResumeMarks` is `mark_resumed`, `ResumeStarts` the stream
under `run_lock`.

**SessionManager.** `live` is `_sessions[id]`, `agents` every agent object ever
created (an evicted one lives on with its run), `sessionRow` the row. `Save` and
`Writes` are the read and the write of a save of the conversation.
`disturbed` records that an agent was evicted, a session reset, or a save
overlapped another change under a chat in progress: the properties say what
holds otherwise, and 6 says what happens then.

**ContextHistory.** A message is its role, the tool round it calls and the
rounds it answers. Whether a history is too long in bytes is free, which
covers every content. `Snip`, `Trim`, `Reactive` and compaction
(`ReplacesHistory`, `SummaryFails`) are the four cuts, `Repair` is
`_repair_message_sequence`; `stored` and `saved` are the copies in the session and
run rows, which `Restarts` and `ResumesHistory` load. `ResetsHistory` is the reset
endpoint, at any step of a run, between a tool call and its results included: it
empties the messages and takes the id of the run away (`named`), so that nothing
is stored afterwards.

**MemorySystem.** `copies[a]` and `seen[a]` are an instance's records and the
generation they were read at. An operation reloads if the generation has moved,
edits the copy and writes all of it (`Persists`), or the save raises
(`SaveRaises`) and leaves the edit in the copy. A record has a content, may be an
entity, and may have a key and a value: a merge fills in whichever of the two is
empty (`TakesOver`), and conflicts are sought only for an entity with both. The constructor reads without the
lock (`Fetches`, `Marks`).

**ToolCalls.** One call goes through `HandleToolCall` (verdict: allowed, refused,
or to be asked), `RecordsTarget` (the action with project and command shown),
`UserAnswers` or `CaseAnswers`, `Executes`, and for edits of a project
`BacksUp` and `WritesFile`. Meanwhile the session selects another project
(`SelectsTarget`), a project is edited or deleted, another session writes the
same file, or an MCP server comes or goes. One call suffices, because two calls
share only the file and its backups, and the other writer of these is
`OtherWrites`.

**CronScheduler.** Each process has its own dictionary, scheduler thread, queue
and worker; `cronRows` is shared. `ScansJobs`, `ClaimsJobs`, the firing of each
won job and `SchedulerWrites` are the steps of one pass; `FetchesRows` and
`EntersRows` load the table at the first chat of a process; a database error ends
the thread while it claims (`SchedulerDies`) or deletes a one-shot job
(`LosesOneShot`); `TakesSnapshot` and
`WritesSnapshot` are `save_durable_jobs`, with cancellations and firings in
between. `CronFields` has the pure part: validation and matching, checked against
the sets of values that crontab(5) gives an item (`ItemValues`, counted by steps
from the start of the item, not by the code's remainders) and its rule for
restricted fields (`Starred`).

**BackgroundTasks, TaskGraph, McpClients.** The steps of a start (`CountsUp`,
`EntersTask`, `CopiesTask`, `StartsWorker`) and of a collection (`Lists`, `Tells`,
`EndsTelling`) are separate. An operation on tasks holds the lock from its first
read to its last write. In `McpClients` the client that is offered and the
session behind it are two variables, as they are in the code, and a request
changes them one after the other, with agents and reloads in between: `loop` is
the request that has the event loop and the step it has reached. A server may
answer late, answer after the timeout, never answer, notify, or end.

Composition. `ApprovalFlow` composes store, coordinator, endpoints and runs. The
components of `MCSessions`, and those of `MCAutomation`, share no modelled state:
a behaviour chooses one part and exercises it, which is the sum and not the
product of their states. What one part owes another is a step there: the answer
to an approval in `ToolCalls`, a late execution in `RunRecovery`, notes of
background tasks in `ContextHistory`.

## 3. The runs

| Run | Instance | Shows |
|---|---|---|
| `approval_core` | 1 server, 1 chat, 3 endpoint requests, 2 actions, 1 tool call per run, crash and restart at any time; 950,767 states | `TypeOK`, `ServerInv` and the properties below; `ImplementsLifecycle` |
| `approval_servers` | 2 servers, 1 chat and 1 request in the first, 1 request in the second; 1,124,441 states | the endpoint/run race when the endpoint cannot see the waiter |
| `approval_eval` | 2 trials of an evaluation run, with its own database | trials execute once, what they decided, and say so truthfully |
| `approval_progress` | 1 server, 1 chat, 2 requests, fair threads | `RequestsReturn`, `RunsEnd` |
| `sessions` | five parts, below; 504,592 states | what an agent keeps and does |
| `automation` | five parts, below; 511,208 states | what runs beside the chats |
| `approval_denied`, `approval_overwritten`, `approval_unsettled`, `cron_reborn`, `cron_days`, `compaction_orphans` | as small as shows it | statements the code does not keep, see 6 |

Requests are finite sets, so every system comes to rest, and deadlock is not
checked.

Properties of `approval_core`:

- `AtMostOneExecution`: a command starts at most once per action.
- `OnlyApprovedExecute`: only after an approver's transition succeeded.
- `ExecutedMeansSuccess`: a row says "executed" only when the command was
  started once, succeeded, and nobody is executing it any more.
- `OneRunPerSession`: the run_lock separates runs, continuations included.
- `WaitersAreServed`: every waiter belongs to a run that will still return from
  the approval and clear it; otherwise an endpoint hands over to nobody.
- `TerminalIsFinal`: no stale snapshot, late approver or recovery changes a
  terminal row.
- `ImplementsLifecycle`: the refinement of `ApprovalLifecycle` (`status` is the
  rows' status, `approved` and `starts` are the histories of the same name).

*Bounds.* Three requests are the least with which two requests race each other
while a third, or a crash, hits the result; two actions let a continuation of
the session ask for an approval of its own; one tool call per run suffices
because an approval leaves nothing behind in its run (`WaitersAreServed`). A
run of 2 servers needs no third: processes share only the rows.

Properties of `sessions`, by part:

- recovery (1 chat, 2 resume requests, 2 tool calls, 1 crash, 1 reset).
  `SafePointIsComplete`: a row that may be resumed, and a resumption under way,
  hold the result of every call that was started, but for results that a
  compaction took out of the conversation they had joined. `OneStreamPerRun`: no two
  streams execute one run. `CompletedIsFinal`. `RunsEnd` (in `StreamsEnd`).
- sessions (2 chats, 2 agent objects, 2 cancels, resets or renames).
  `SessionRunsAlone`: two runs of a session only after an eviction.
  `RowFollowsAgent`: at rest the row holds the agent's messages and the last
  title given. `StaleCancelStopsNobody`. `ChatsEnd` (in `StreamsEnd`).
- context (2 tool rounds, 3 chats, resets, restarts and the like, 3 turns, 1
  recovery from an overflow). `SentPairsHold`: every call sent to the model has
  its result right behind it, whatever was cut, cancelled, closed, reset or
  restored before; and no result lacks its call unless one of the two cuts that
  do not look at pairs was made, or a reset between the call and its results.
- memory (2 instances, 2 records, 3 contents of which one pair is similar and
  counts as the same, 1 key and 2 values, new records that are facts or entities
  with and without key and value, 3 operations, 1 failed save).
  `ActiveMemoriesAgree`: no two active records say the same or contradict each
  other, unless a merge filled in the key or the value of one, or a copy fetched
  across another's write was written back. `SupersessionEnds`:
  `superseded_by` leads to existing records, never in a circle. `OthersKept`: writing back a whole copy loses no other
  instance's update, except for copies fetched by a constructor across a write
  and copies that hold the edit of a failed save.
- tools (2 projects, 1 call of any of 11 tools of every policy, 2 changes of the
  surroundings). `NothingRunsUnasked`: what changes the world had the yes of the
  user or of an evaluation case that admits it (under `auto_readonly` a shell
  command that only looks, or a program such as docker that may do more, see 6),
  ran the command shown on the project selected when the question was asked,
  stayed in the sandbox when a subagent did it, and left what it replaced in a
  backup - unless somebody changed the project, its file or the connection
  meanwhile.

Properties of `automation`, by part:

- cron (2 processes, 1 job, 2 requests, 2 minutes, 1 crash). `MinuteWonOnce`: a
  minute of a job is won once, over all processes and restarts, unless its row
  was deleted and inserted anew (`cron_reborn`). `OneExecutionPerJob`: a process
  has a job queued or running at most once, and reserved exactly that long.
- fields (lists of up to 2 items over small ranges). `FiresOnTheDaysMeant`: an
  accepted expression fires on the days of crontab(5), for fields without `*/s`,
  and with it as the last item of the weekday beside `*` as the day of the month.
  Elsewhere `*/s` fires on other days, see `cron_days` and 6.
- background (2 starts, 2 collecting runs, 1 crash). `RunningRowHasThread`,
  `ToldOnce`, `BackgroundEnds`.
- tasks (2 tasks, 5 operations). `ClaimsAreExclusive`, `TaskOpsEnd`.
- mcp (2 calls, 2 connections, 2 other requests; only the first server sends
  notifications or ends by itself). `OfferedToolsAreBacked`: a
  client offered to agents has its session or its entry in the file, except while
  a request that connects or disconnects one of its kind is between its steps.
  `McpCallsEnd` (in `AutomationEnds`): a call ends and the event loop comes free,
  unless one stdio server stays silent for ever.

Two requests, processes or calls that could be swapped come in a fixed order
(`Foremost` in `MCAutomation`).

*Bounds.* The instances are the smallest in which two of everything that can race
do so while one more event (a crash, a reset, a failed save, an edit) hits them.
Two tool rounds let a cut keep one and drop the other. Five operations create two
tasks, one on the other, and claim, complete or delete both ends. Two minutes let
a claim of the first be decided in the second. Histories shrink from six messages
(`SnipAt`) instead of fifty: what is cut depends on the message at the cut and
not on the length, and the code's limits are constants of the module. `MaxChats`
bounds everything that interrupts the history, resets and restarts included;
`compaction_orphans` sets it to 1, so that trimming alone tears the pair. In the
memory and tools parts `MaxMemoryOps` and `MaxToolCalls` also end the run: nothing
is loaded after the last operation and nothing edited after the last call
(`MemorySteps`, `ToolSteps` of `MCSessions`), since no property could notice.

*What the properties set aside.* Several say "unless": a session reset or
evicted under its run, a result that a compaction took, two starts that read one
counter, two collections at once, a key or value that a merge filled in, a
project edited or a server reconnected while the call waits. In each of these
cases the code gives no guarantee (section 6), and no property catches them; what
the properties say is that nothing else breaks them. `PROJECT.json` marks the
hazards that are left uncovered in this way.

## 4. Fairness

Threads of agent runs, requests and workers are operating system threads and
event loop tasks whose steps stay enabled, so each gets weak fairness: `FairSpec`
of `ApprovalFlow` for every run and accepted request, `RecoveryFairness`,
`SessionFairness`, `BgFairness`, `TaskFairness` and `McpFairness` for the threads
and operations of those modules. They contain two assumptions about the
outside, neither of which the code enforces: the model and the tools answer
(`RecoveryFairness`), and commands end (`BgFairness`). Of MCP servers nothing is
assumed (`McpFairness`): they may stay silent for ever, which ends a wait over SSE
by its timeout and over stdio never, as the property says. `run_lock` needs no strong fairness in the instances checked: a lock
holder that ends never comes back. The timeout of `wait` is a step of the run's
thread, because the thread polls the deadline. Arrivals, disconnects,
cancellations, crashes, restarts and edits are not fair; `SupervisedSpec` adds a
supervisor that restarts servers, used only to make the counterexample of
`approval_unsettled` independent of one. No liveness is claimed of the cron
scheduler: a database error ends its thread (`SchedulerDies`).

## 5. The proofs

TLC looks at small instances; the theorems hold for every value of the constants:
any number of processes, chats, requests, actions, jobs, instances, records, tool
calls, crashes and edits. They assume what the modules assume of their constants
(`ConstantsAssumption` and the like: what must differ differs, bounds are natural
numbers, starts of background tasks are finitely many); five of `ApprovalFlow`
also assume `Unattended = {}`: they are about servers. Trials have a database of
their own (`EvaluationAssumption`) and are checked by `approval_eval` only. Each rests on an inductive invariant, which holds
initially and is kept by every action.

| Theorem | Property | From |
|---|---|---|
| `TypeCorrect` | `TypeOK` | `TypeInv` |
| `ServerCorrect`, `ExecutedAtMostOnce`, `ExecutedOnlyApproved` | `ServerInv`, `AtMostOneExecution`, `OnlyApprovedExecute` | `ServerInv`; no trials |
| `SessionsRunAlone`, `WaitersHaveRuns` | `OneRunPerSession`, `WaitersAreServed` | `FlowInv` |
| `TerminalRowsStay` | `TerminalIsFinal` | `RowSteps` |
| `ExecutedIsTrue` | `ExecutedMeansSuccess` | `ExecutionInv`; no trials |
| `LifecycleImplemented` | `ImplementsLifecycle` | `RowSteps`, `ExecutionInv`; no trials |
| `RunsHaveOneStream`, `SafePointsAreComplete`, `CompletedStaysCompleted` | `OneStreamPerRun`, `SafePointIsComplete`, `CompletedIsFinal` | `RecoveryInv` |
| `ChatsRunAlone`, `StopsWereAskedFor`, `RowsFollow` | `SessionRunsAlone`, `StaleCancelStopsNobody`, `RowFollowsAgent` | `SessionInv` |
| `SentPairsAreHeld` | `SentPairsHold` | `HistoryInv` |
| `MemoriesAgree`, `SupersessionsEnd`, `OthersAreKept` | `ActiveMemoriesAgree`, `SupersessionEnds`, `OthersKept` | `MemoryInv` |
| `CallsAreCovered` | `NothingRunsUnasked` | `CallInv` |
| `MinutesAreWonOnce`, `ExecutionsAreSingle` | `MinuteWonOnce`, `OneExecutionPerJob` | `CronInv` |
| `DaysAreMeant` | `FiresOnTheDaysMeant` | `InputInv` |
| `RunningRowsHaveThreads`, `ResultsToldOnce` | `RunningRowHasThread`, `ToldOnce` | `BgInv` |
| `TaskClaimsAreExclusive` | `ClaimsAreExclusive` | `TaskInv` |
| `HistoryIsTyped`, `SessionsAreEach`, `SessionsAreTyped` | `SessionsTypeOK` | the invariants of the five parts |
| `AutomationIsEach`, `AutomationIsTyped` | `AutomationTypeOK` | the invariants of the parts |
| `OffersAreBacked` | `OfferedToolsAreBacked` | `McpInv` |

Why the properties are not inductive, and what is added:

- *Executions.* A state in which an endpoint and a run are both about to execute
  satisfies `AtMostOneExecution`. In `ServerInv` the right to execute is a token
  (`HandlerMayExecute`, `RunMayExecute`), which is *fresh* (`TokenIsFresh`: its
  holder's action is approved, no longer pending and not started) and *unique*
  (`TokenIsUnique`), and an action belongs to the run that created it
  (`ActionsAreOwned`). `KeepsInv` and `KeepsStep` dispose of the steps that create
  no token and start no command; `ServerStep` treats the five others.
  `ExecutionInv` continues past the start: one thread at most has started the
  command and not yet finished the row, and what it knows is the outcome.
- *Runs and rows of an approval.* `FlowInv` says who holds the lock (`LocksAreHeld`)
  and whose the waiters are. `RowSteps` says what a step may do to the rows: create,
  confirm, cancel, start, finish, recover or nothing, each from the statuses its
  UPDATE expects; it makes terminal rows final, and each of its cases is an
  action of `ApprovalLifecycle`.
- *Run recovery.* `StreamInv`: a run has one stream, because its row is not
  resumable while a stream works on it. `CallsInv`: a call starts only while the
  row is unsafe, and its result is in the conversation, in the hands of the
  stream, or taken by a compaction when the row becomes safe. `RecoveryInv` is both.
- *Sessions.* A running chat holds its agent's lock, and until an agent is evicted
  everyone has the same agent (`RunsInv`). What may stop a chat (`StopsInv`) and
  what the row holds (`RowInv`) come on top.
- *Context.* Between model calls the history and the stored one are whole (every
  result has its call in the message before) until a cut that does not look at
  pairs, or a reset among the tools, tears one (`HistoriesWhole`); while tools run
  their call is the last message or the tear is on record (`CallIsLast`). That `snip_compact` tears nothing is proved, that
  `trim_by_size` and `reactive_compact` do is the counterexample of
  `compaction_orphans`; the repair answers every call all the same, and adds no
  result without a call (`Repaired`). The repair flattens a list, which is
  defined by recursion; the proofs argue from a shortest prefix that fails
  instead of by induction (`Smallest`, from the library's `WFMin`).
- *Memory.* The first part is about lists: every operation makes a good list of a
  good one. "No circle" is said of sets (every set of replaced records has one
  that leads out of it), which spares the proof an induction along a chain; it is
  kept because a record is superseded only by one in use, which is superseded by
  none. The second part relates copies to the table (`CopiesTrue`, `ListsGood`).
- *Tool calls.* A lemma about the table of policies (what changes the world needs
  a yes, and nothing that needs one is called read-only), then what holds at each
  step between question and execution.
- *Cron.* The row of a job that was never deleted remembers the last minute it was
  claimed for, and a claim needs a later one (`JobHistory`); what is reserved is
  what queue and worker hold, each once (`WorkInv`). `DaysAreMeant` compares the
  matching of each kind of item with its meaning, on accepted fields.
- *Background tasks.* An id once given is never taken back (`IdsGiven`), so a second
  task under it is noticed for ever; a task alone under its id is ended only by its
  own worker (`OwnStatus`), and what was told stays marked (`Marked`).
- *Task graph.* Whoever has loaded a task holds the lock (`Locked`), so what it has
  checked is still so when it saves (`Current`).
- *MCP.* What a request under way has in hand, a connection or an entry of the file,
  decides what it may enter (`InHand`); registry and calls change different
  variables and have an invariant each.
- *Compositions.* A step of `MCSessions` or `MCAutomation` is a step of one part and
  leaves the others alone, so their behaviours are behaviours of each part
  (`SessionsAreEach`, `AutomationIsEach`) and inherit its theorems. The types are
  those of the inductive invariants, but for the contents of files: that a newer
  one always exists needs a bound on those there are (`FilesBounded`).

What stays with TLC:

- Liveness (`RequestsReturn`, `RunsEnd`, `StreamsEnd`, `AutomationEnds`): it needs
  fairness and ENABLED, which the provers do not treat.


## 6. Where the code and its documents disagree

1. `approval_denied`: "The command was not executed." (`tool_loop.py:284`) is
   also said when an endpoint has confirmed the row just before and goes on to
   execute it.
2. `approval_overwritten`: two decisions "cannot silently overwrite each other"
   (`repositories/actions.py:4`), but a cancel that read a pending row may write
   its record over a confirmed one, approver and time of approval included.
3. `approval_unsettled`: a decision that reaches a waiter whose run has just timed
   out or been cancelled is reported as approved, and the action is never
   executed and stays confirmed.
4. `cron_reborn`: a job is to be claimed for a minute "exactly once, across
   processes and across restarts" (`repositories/cron.py:196`); the snapshot of
   `save_durable_jobs` (`cron.py:153`), written after a job was cancelled or fired
   for the last time, inserts its row anew without the mark.
5. `cron_days`: "Standard cron uses OR when both day-of-month and day-of-week are
   restricted." (`cron.py:89`); the next line takes every field but a bare `*` for
   restricted, and in standard cron one with a `*` in it is not. `*/1` as the day of
   the month and `2` as the weekday fire every day instead of on Tuesdays.
6. `compaction_orphans`: `trim_by_size` (`context_compact.py:210`) keeps a tail
   that may begin with a result whose call was dropped; the repair
   (`tool_loop.py:117`) only adds results, so the orphan is sent again and again.

Also seen while modelling; no run of its own:

- *Approvals.* After an approved decision the run executes whatever the row says,
  so an action canceled between approval and start is executed and its row stays
  canceled; the abstract `Start` therefore allows it.
- *Runs.* `README.md:279` names run recovery among the conditional updates, but
  `mark_resumed` is not conditional: two processes can both resume a run. A reset
  under a run empties its run id, so that its later tools are not marked unsafe
  (`orphaned`). The history is compacted before the save that calls it a safe point
  (`pipeline.py:592-600`), and before model calls: a resumption starts from what the
  compaction left of earlier results (`forgotten`). Canceled runs are resumable by status but never saved as safe. A
  resumption replaces whatever the session said since. A run whose client
  disconnected stays "running" until the server restarts.
- *Sessions.* TTL eviction looks at the last request only, so a long run may get a
  second agent with a lock of its own beside it. A cancellation before the run has
  begun is cleared. Renaming or switching the target overlapping a run's save
  loses messages or the title. A reset under a run leaves what it had appended;
  when it falls between a tool call and its results, these are appended to the
  empty history and sent without their call, again and again, as in
  `compaction_orphans`.
- *Cron.* `README.md:715` says that the deduplication of cron holds within one
  process only and that several need a lease; `README.md:279` and
  `repositories/cron.py:196` say that it holds across processes. The code bears out
  the latter for durable jobs, as long as their row stays and the database locks
  the rows that a claim selects (PostgreSQL; SQLite ignores `FOR UPDATE`):
  `MinuteWonOnce`. It bears out the former for jobs that are not durable, which are
  written to the table too (`cron.py:219`): every process loads them and passes a
  gate of its own (`cron.py:426-430`), so each fires them in the same minute. As a
  day of the month `*/s` counts from 0, so that `*/2` fires on the even days, on
  none of 1, 3, 5. An item `*/s` hides the items behind it. `*/40` is
  accepted as a day and never fires. A firing is lost by a
  crash between claim and queue.
- *Background.* The counter is not locked: two starts of one second may share an id.
  Two collections that overlap both tell a result. Failed tasks are never told, and
  no notification survives a restart.
- *Tasks.* Two processes can both claim a task: no caller passes the version of
  `update_row_if_version`. A dependent of a deleted task can never be claimed.
- *Memory.* The constructor reads table and marker in two steps without the lock, so
  a stale copy may look current and undo another's write. A failed save leaves its
  edit in the copy, to be written by the next operation. `add` archives what
  contradicts a new value before it finds that the new memory is a duplicate; a
  merge fills in a key or a value without looking for contradictions.
- *MCP.* `readline` over stdio ignores the deadline: a silent server holds the lock
  of its session and, through a disconnect, the event loop. Answers that come after
  a timeout over SSE stay in `responses`. A failed handshake leaves the process of
  the server. Connecting enters the client before the session, disconnecting takes
  the session before the client (`stdio.py:189-190`, `sse.py:256-266`): a call in
  between fails with "not connected". A removed custom server may come back with a
  session created meanwhile.
- *Tools.* A restart or deploy command is read from the table when it runs, not when
  it was shown; preview and recorded project are two reads. A confirmed bash of a
  deleted project runs in the server's directory. Two sessions that edit one file of
  a project lose an edit. An MCP server that reconnects between verdict and
  execution may run a destructive tool as if it only read. `auto_readonly` is to
  block writes ("write blocked by auto_readonly", `evaluation/approvals.py:253`), but
  its list of read-only commands (`approvals.py:32-65`) holds docker, systemctl,
  find, sort, journalctl and others that change things with the right arguments,
  which it does not look at.

## 7. What is left out

Everywhere: wording, logging, audit events, permissions and the schemas of
requests, and, unless a module says otherwise, failures of the database (an
exception ends the request or the run). In detail:

- The thread pool's limit of 40, shared by waiting streams and executions: a model
  of its own, since a bounded pool inside `ApprovalFlow` multiplies its states.
- Scoring, judging and baselines of evaluation: arithmetic on finished trials, in
  tables of their own.
- Several processes in `RunRecovery`, `SessionManager`, `TaskGraph` and
  `BackgroundTasks`: what goes wrong there is said in 6.
- In `ContextHistory`, the budget on single results (a result is shortened, never
  dropped) and the text of summaries. In `MemorySystem`, ranking, the measure of
  similarity (a constant relation, not symmetric, as in the code), scopes and owners.
- Sandboxes (directories), the persistence base (the transactions are the steps of
  the modules), audit and usage (append-only), platform and skills (loaded, not
  changed), frontend, migrations and scripts. `PROJECT.json` gives the reasons.

## 8. The plan

Modelling is complete but for section 7, and every invariant and action property
that a passing run checks is proved. What is left is the thread pool as a model of
its own.
