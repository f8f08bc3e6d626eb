---------------------------- MODULE MCAutomation ----------------------------
(***************************************************************************)
(* Automation for TLC: the cron scheduler, the matching of cron fields,    *)
(* background tasks, the task graph and the MCP clients.  They share no    *)
(* modelled state, so a behaviour exercises one of them, chosen at the     *)
(* start ("part").                                                         *)
(***************************************************************************)
EXTENDS CronScheduler, CronFields, BackgroundTasks, TaskGraph,
        McpClients

CONSTANT Parts   \* the parts to exercise

VARIABLE part

automationVars == <<part, cronVars, fieldVars, bgVars, taskVars,
                    mcpVars>>

AutomationInit ==
    /\ part \in Parts
    /\ CronInit
    /\ FieldsInit
    /\ BgInit
    /\ TaskInit
    /\ McpInit
    /\ part # "mcp" => ~isMock /\ ~customFile

\* Requests, processes and calls are interchangeable: let the foremost of each
\* be the first to come.
Foremost(S) == CHOOSE x \in S : TRUE

CronSteps ==
    /\ part = "cron" /\ CronNext
    /\ edit'[Foremost(CronEdits)].pc = "new" => edit' = edit
    /\ edit'[Foremost(CronEdits)].proc \in {None, Foremost(CronProcs)}
    /\ UNCHANGED <<part, fieldVars, bgVars, taskVars, mcpVars>>

FieldSteps ==
    /\ part = "fields" /\ FieldsNext
    /\ UNCHANGED <<part, cronVars, bgVars, taskVars, mcpVars>>

BackgroundSteps ==
    /\ part = "background" /\ BgNext
    /\ UNCHANGED <<part, cronVars, fieldVars, taskVars, mcpVars>>

TaskSteps ==
    /\ part = "tasks" /\ TaskNext
    /\ UNCHANGED <<part, cronVars, fieldVars, bgVars, mcpVars>>

\* Only the first server sends notifications, or ends by itself.
McpSteps ==
    /\ part = "mcp" /\ McpNext
    /\ toolCall'[Foremost(McpCalls)].pc = "new" => toolCall' = toolCall
    /\ \A i \in Conns \ {1} : noted'[i] = "none" /\ ~ServerEnds(i)
    /\ UNCHANGED <<part, cronVars, fieldVars, bgVars, taskVars>>

AutomationSpec ==
    /\ AutomationInit
    /\ [][\/ CronSteps \/ FieldSteps
          \/ BackgroundSteps \/ TaskSteps \/ McpSteps]_automationVars
    /\ BgFairness
    /\ TaskFairness
    /\ McpFairness

-----------------------------------------------------------------------------

\* The state of every module stays within its types.
AutomationTypeOK == CronTypeOK /\ BgTypeOK /\ TaskTypeOK /\ McpTypeOK

\* Background tasks end (BackgroundTasks), an operation on a task releases
\* the lock (TaskGraph), and a call of a tool of an MCP server ends
\* (McpClients).
AutomationEnds == BackgroundEnds /\ TaskOpsEnd /\ McpCallsEnd
=============================================================================
