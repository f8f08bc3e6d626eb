------------------------------ MODULE TaskGraph ------------------------------
(***************************************************************************)
(* The task graph: tasks with dependencies in a table, and the operations  *)
(* create, claim, complete and delete, from the endpoints and from the     *)
(* agent's tools.                                                          *)
(*                                                                         *)
(* One server.  Every operation holds _tasks_lock from its first read to   *)
(* its last write (variable taskLock), and each read and each write is a   *)
(* transaction of its own.  What an operation has read may be stale when   *)
(* it writes only if something else could write in between.                *)
(***************************************************************************)
EXTENDS Naturals, FiniteSets, Base

CONSTANTS
    TaskIds,     \* task ids (bounds how many tasks are created)
    TaskOps      \* operations on tasks

ASSUME TaskAssumption == None \notin TaskOps

VARIABLES
    taskRows,    \* the tasks and task_dependencies tables
    taskOp,      \* each operation
    taskLock,    \* the operation that holds _tasks_lock
    claims,      \* history: how often a task was claimed
    deleted      \* history: tasks that were deleted

taskVars == <<taskRows, taskOp, taskLock, claims, deleted>>

TaskStatus == {"absent", "pending", "in_progress", "completed"}
TaskRow == [status : TaskStatus, deps : SUBSET TaskIds]
NoTaskRow == [status |-> "absent", deps |-> {}]

\* "record" is the task an operation has loaded and will save.
OpPc == {"new", "loaded", "checked", "done"}
TaskOp == [pc : OpPc, kind : {"none", "claim", "complete", "delete"},
           task : TaskIds \cup {None}, record : TaskRow]

TaskTypeOK ==
    /\ taskRows \in [TaskIds -> TaskRow]
    /\ taskOp \in [TaskOps -> TaskOp]
    /\ taskLock \in TaskOps \cup {None}
    /\ claims \in [TaskIds -> Nat]
    /\ deleted \subseteq TaskIds

NewOp == [pc |-> "new", kind |-> "none", task |-> None, record |-> NoTaskRow]

TaskInit ==
    /\ taskRows = [t \in TaskIds |-> NoTaskRow]
    /\ taskOp = [o \in TaskOps |-> NewOp]
    /\ taskLock = None
    /\ claims = [t \in TaskIds |-> 0]
    /\ deleted = {}

Idle_Always == TRUE
Idle == taskLock = None

\* The operation ends and releases the lock.
Finish_Held(o) ==
    /\ taskOp' = [taskOp EXCEPT ![o] = [NewOp EXCEPT !.pc = "done"]]
    /\ UNCHANGED taskLock

Finish(o) ==
    /\ taskOp' = [taskOp EXCEPT ![o] = [NewOp EXCEPT !.pc = "done"]]
    /\ taskLock' = None

-----------------------------------------------------------------------------

\* create_task: one write; dependencies need not exist, and a task created
\* later may be one of them.
CreateTask(o, t, deps) ==
    /\ taskOp[o].pc = "new" /\ Idle
    /\ taskRows[t].status = "absent" /\ t \notin deleted
    /\ taskRows' = [taskRows EXCEPT ![t] =
           [status |-> "pending", deps |-> deps]]
    /\ taskOp' = [taskOp EXCEPT ![o].pc = "done"]
    /\ UNCHANGED <<taskLock, claims, deleted>>

\* claim_task, complete_task and delete_task take the lock; the first two
\* load the task and refuse it in any but one status.
Takes(kind) == IF kind = "claim" THEN "pending" ELSE "in_progress"

LoadTask(o, kind, t) ==
    /\ taskOp[o].pc = "new" /\ Idle
    /\ taskRows[t].status # "absent"
    /\ IF kind = "delete" \/ taskRows[t].status = Takes(kind)
       THEN /\ taskOp' = [taskOp EXCEPT ![o] =
                   [pc |-> "loaded", kind |-> kind, task |-> t,
                    record |-> taskRows[t]]]
            /\ taskLock' = o
       ELSE /\ taskOp' = [taskOp EXCEPT ![o].pc = "done"]
            /\ UNCHANGED taskLock
    /\ UNCHANGED <<taskRows, claims, deleted>>

\* can_start: every dependency exists and is completed.
CanStart_Missing(t) ==
    \A d \in taskRows[t].deps : taskRows[d].status \in {"absent", "completed"}
CanStart(t) == \A d \in taskRows[t].deps : taskRows[d].status = "completed"

\* A claim that may not start is refused.
ChecksClaim(o) ==
    /\ taskOp[o].pc = "loaded" /\ taskOp[o].kind = "claim"
    /\ IF CanStart(taskOp[o].task)
       THEN taskOp' = [taskOp EXCEPT ![o].pc = "checked"] /\ UNCHANGED taskLock
       ELSE Finish(o)
    /\ UNCHANGED <<taskRows, claims, deleted>>

\* The loaded record is saved with its new status.
SaveTask(o, status) ==
    taskRows' = [taskRows EXCEPT ![taskOp[o].task] =
        [status |-> status, deps |-> taskOp[o].record.deps]]

SavesClaim(o) ==
    /\ taskOp[o].pc = "checked"
    /\ SaveTask(o, "in_progress")
    /\ claims' = [claims EXCEPT ![taskOp[o].task] = @ + 1]
    /\ Finish(o)
    /\ UNCHANGED deleted

SavesCompletion(o) ==
    /\ taskOp[o].pc = "loaded" /\ taskOp[o].kind = "complete"
    /\ SaveTask(o, "completed")
    /\ Finish(o)
    /\ UNCHANGED <<claims, deleted>>

\* delete_task removes the task and its own edges, not those that lead to it.
DeletesTask(o) ==
    /\ taskOp[o].pc = "loaded" /\ taskOp[o].kind = "delete"
    /\ taskRows' = [taskRows EXCEPT ![taskOp[o].task] = NoTaskRow]
    /\ deleted' = deleted \cup {taskOp[o].task}
    /\ Finish(o)
    /\ UNCHANGED claims

OpGoesOn(o) == ChecksClaim(o) \/ SavesClaim(o) \/ SavesCompletion(o)
               \/ DeletesTask(o)

TaskNext ==
    \E o \in TaskOps :
        \/ \E t \in TaskIds :
             \/ \E deps \in SUBSET TaskIds : CreateTask(o, t, deps)
             \/ \E k \in {"claim", "complete", "delete"} : LoadTask(o, k, t)
        \/ OpGoesOn(o)

TaskSpec == TaskInit /\ [][TaskNext]_taskVars

\* An operation in progress ends.
TaskFairness == \A o \in TaskOps : WF_taskVars(OpGoesOn(o))

-----------------------------------------------------------------------------
(* Properties.                                                             *)

\* A task is claimed once; what a task that was claimed depends on is
\* completed (or was, and then deleted); and a deleted task is never written
\* back by an operation that had loaded it (claim_task, can_start).
ClaimsAreExclusive ==
    /\ \A t \in TaskIds : claims[t] <= 1
    /\ \A t \in TaskIds : taskRows[t].status \in {"in_progress", "completed"} =>
           \A d \in taskRows[t].deps \ deleted : taskRows[d].status = "completed"
    /\ \A t \in deleted : taskRows[t].status = "absent"

\* An operation in progress ends and releases the lock.
TaskOpsEnd == []<>(taskLock = None)
=============================================================================
