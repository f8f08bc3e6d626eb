----------------------------- MODULE ToolCalls -----------------------------
(***************************************************************************)
(* The tool calls of one session's agent and of its subagents: the policy  *)
(* of every tool (agent/tools/policy.py), the agent's handling of a call   *)
(* (core/tool_loop.py), the yes or no of the user or of an evaluation case *)
(* (evaluation/approvals.py), the execution (tools/executor.py), and what  *)
(* it does to the project selected in the session (targets/tools.py).      *)
(*                                                                         *)
(* Meanwhile the session may select another project, the user may edit or  *)
(* delete a project, another session may write the same file, and an MCP   *)
(* server may be connected or disconnected.  How the answer to a pending   *)
(* action reaches the agent is ApprovalFlow's matter: here it is one step. *)
(* A command and a path are reduced to what the rules ask of them.         *)
(***************************************************************************)
EXTENDS Base, Naturals, FiniteSets, FiniteSetsExt

CONSTANTS
    Targets,          \* registered projects
    AskedTools,       \* the tools that the model calls
    MaxToolCalls,     \* bound: calls
    MaxToolEdits      \* bound: what happens meanwhile

ASSUME ToolAssumption ==
    /\ MaxToolCalls \in Nat /\ MaxToolEdits \in Nat
    /\ None \notin Targets \cup {"user", "case"}

VARIABLES
    toolCall,         \* the call in progress
    selected,         \* target_id of the agent
    command,          \* project -> version of its commands; 0: deleted
    file,             \* project -> content of its file
    backups,          \* what TARGET_BACKUP_ROOT holds: project and content
    linked,           \* an MCP server is connected
    toolCalls,        \* counts calls against the bound
    toolEdits         \* counts what happened meanwhile

targetVars == <<selected, command, file, backups>>
toolVars == <<toolCall, targetVars, linked, toolCalls, toolEdits>>

-----------------------------------------------------------------------------
(* Policies.                                                               *)

Policy(readOnly, risk, approval, scope) ==
    [readOnly |-> readOnly, risk |-> risk, approval |-> approval,
     scope |-> scope]

\* The rows of the table: tools with the same policy share a row.
ReadOnlyRow(tools, scope) ==
    [tools |-> tools, policy |-> Policy(TRUE, "read_only", FALSE, scope)]

FreeRow(tools, risk, scope) ==
    [tools |-> tools, policy |-> Policy(FALSE, risk, FALSE, scope)]

ApprovalRow(tools, risk, scope) ==
    [tools |-> tools, policy |-> Policy(FALSE, risk, TRUE, scope)]

HostRows ==
    {ReadOnlyRow({"read_file", "glob"}, "filesystem.read"),
     FreeRow({"write_file", "edit_file"}, "medium", "filesystem.write"),
     ApprovalRow({"bash"}, "high", "shell.execute")}

TargetRows ==
    {ReadOnlyRow({"target_status", "target_logs", "target_http",
                  "http_check", "target_list_files", "target_read_file",
                  "target_glob"}, "ops.read"),
     ApprovalRow({"target_write_file", "target_edit_file"}, "medium",
                 "filesystem.write"),
     ApprovalRow({"target_restart"}, "high", "ops.read"),
     ApprovalRow({"target_deploy"}, "critical", "ops.read")}

InspectionRows ==
    {ReadOnlyRow({"service_status", "disk_usage", "system_info",
                  "memory_usage", "cpu_usage", "process_top",
                  "process_search", "network_interfaces", "port_listen",
                  "ping_host", "disk_io", "system_logs"}, "ops.read")}

WorkRows ==
    {ReadOnlyRow({"list_tasks", "get_task"}, "task.read"),
     FreeRow({"create_task", "claim_task", "complete_task"}, "low",
             "task.write"),
     ReadOnlyRow({"list_skills", "load_skill"}, "skill.read"),
     ReadOnlyRow({"search_memory"}, "memory.read"),
     FreeRow({"add_memory", "update_memory"}, "medium", "memory.write"),
     FreeRow({"archive_memory", "delete_memory"}, "high", "memory.manage"),
     FreeRow({"restore_memory", "approve_memory"}, "medium",
             "memory.manage")}

AgentRows ==
    {FreeRow({"spawn_subagent"}, "high", "agent.execute"),
     FreeRow({"compact"}, "low", "context.write"),
     FreeRow({"schedule_cron"}, "high", "cron.write"),
     FreeRow({"cancel_cron"}, "medium", "cron.write"),
     ReadOnlyRow({"list_crons", "list_cron_logs"}, "cron.read"),
     ReadOnlyRow({"list_background_tasks"}, "background.read")}

BuiltinPolicies ==
    HostRows \cup TargetRows \cup InspectionRows \cup WorkRows
             \cup AgentRows

Builtin == UNION {row.tools : row \in BuiltinPolicies}

\* Three tools of the MCP server: one whose name reads, one whose name reads
\* and whose description says "destructive", and one whose name writes.
McpTools == {"mcp_query", "mcp_query_destructive", "mcp_create"}

NamedToRead == {"mcp_query", "mcp_query_destructive"}

\* The description is known only while the server is connected.
IsDestructive(tool) == linked /\ tool = "mcp_query_destructive"

DynamicMcpPolicy(tool) ==
    IF tool \in NamedToRead /\ ~IsDestructive(tool)
    THEN Policy(TRUE, "read_only", FALSE, "mcp.execute")
    ELSE Policy(FALSE, "high", TRUE, "mcp.execute")

GetToolPolicy(tool) ==
    CASE tool \in Builtin ->
            (CHOOSE row \in BuiltinPolicies : tool \in row.tools).policy
      [] tool \in McpTools -> DynamicMcpPolicy(tool)
      [] OTHER -> Policy(FALSE, "high", TRUE, "tool.unknown")

\* Principal.to_tool_policy_context: every principal may call every tool.
OwnerContext ==
    [permissions |-> {"*"}, tools |-> None, write |-> TRUE,
     execute |-> TRUE]

SandboxTools == {"read_file", "write_file", "edit_file", "glob"}

\* The context that spawn_subagent gives the executor of a subagent.
SubagentContext ==
    [permissions |-> {"*"}, tools |-> SandboxTools, write |-> TRUE,
     execute |-> FALSE]

\* evaluate_tool_policy: is the call allowed in the context?
Allowed(tool, context) ==
    LET policy == GetToolPolicy(tool)
    IN  /\ context.tools # None => tool \in context.tools
        /\ {"*", policy.scope} \cap context.permissions # {}
        /\ policy.readOnly \/ context.write
        /\ policy.risk \in {"high", "critical"} => context.execute

\* The registry that serves the call: the built-in tools and those of the
\* connected servers, or the file tools of a subagent.
Registered(tool, by) ==
    IF by = "subagent" THEN tool \in SandboxTools
    ELSE tool \in Builtin \/ (linked /\ tool \in McpTools)

-----------------------------------------------------------------------------
(* The answers of an evaluation case to pending actions.                   *)

EditTools == {"target_write_file", "target_edit_file"}

CommandTools == {"target_restart", "target_deploy"}

\* What the rules ask of a tool's input.  Commands: does it match
\* _DANGEROUS_COMMAND, chain commands, pipe; what do its programs do (a
\* "remover" removes one path); where do its paths lead.  "listed": it
\* matches one of the case's allow_commands.  A "manager" is on the list of
\* readers and changes things when its arguments say so: docker, systemctl,
\* find, sort, journalctl, hostname and the like.
ToolInputs ==
    [dangerous : BOOLEAN, control : BOOLEAN, piped : BOOLEAN,
     program : {"reader", "manager", "tester", "remover", "other"},
     path : {"inside", "absolute", "climbs"},
     listed : BOOLEAN, backup : BOOLEAN]

PlainInput ==
    [dangerous |-> FALSE, control |-> FALSE, piped |-> FALSE,
     program |-> "other", path |-> "inside", listed |-> FALSE,
     backup |-> TRUE]

\* _READ_ONLY_EXECUTABLES, piped or not, are told by their names, managers
\* among them; only absolute paths are looked at.
IsSafeReadonly(input) ==
    /\ ~input.dangerous /\ ~input.control
    /\ input.program \in {"reader", "manager"} /\ input.path # "absolute"

IsSafeTest(input) ==
    /\ ~input.dangerous /\ ~input.control /\ ~input.piped
    /\ input.program = "tester"

IsSafeSingleFileDelete(input) ==
    /\ ~input.dangerous /\ ~input.control /\ ~input.piped
    /\ input.program = "remover" /\ input.path = "inside"

SafeBash(input, writes) ==
    \/ IsSafeReadonly(input)
    \/ writes /\ (IsSafeTest(input) \/ IsSafeSingleFileDelete(input))

\* The four policies of a case; "root": the case runs in a fixture.
CaseApproves(approvals, tool, input, root) ==
    \/ /\ approvals # "deny_all"
       /\ tool = "bash" /\ root
       /\ SafeBash(input, approvals \in {"auto_approve", "allow_list"})
       /\ approvals = "allow_list" => input.listed
    \/ /\ approvals = "auto_readonly"
       /\ tool # "bash" /\ GetToolPolicy(tool).readOnly
    \/ /\ approvals = "allow_list"
       /\ tool \notin CommandTools \cup {"bash", "spawn_subagent"}
       /\ tool \in EditTools => root /\ input.path = "inside"
       /\ input.listed
    \/ /\ approvals = "auto_approve"
       /\ tool \in EditTools /\ root /\ input.path = "inside"

-----------------------------------------------------------------------------
(* The agent's handling of a call.                                         *)

CaseModes == {"deny_all", "auto_readonly", "allow_list", "auto_approve"}

NoToolCall ==
    [pc |-> "idle", by |-> "chat", tool |-> "bash", input |-> PlainInput,
     approvals |-> None, target |-> None, shown |-> 0, yes |-> None,
     ranOn |-> None, ran |-> 0, sandboxed |-> FALSE, replaced |-> 0,
     disturbed |-> FALSE]

ToolInit ==
    /\ toolCall = NoToolCall
    /\ selected \in Targets \cup {None}
    /\ command = [t \in Targets |-> 1]
    /\ file = [t \in Targets |-> 1]
    /\ backups = {}
    /\ linked \in BOOLEAN
    /\ toolCalls = 0
    /\ toolEdits = 0

\* The inputs that make a difference to the tool itself.
InputsOf(tool) ==
    IF tool \in EditTools
    THEN {input \in ToolInputs :
             /\ input.path \in {"inside", "climbs"}
             /\ input = [PlainInput EXCEPT !.path = input.path,
                                           !.backup = input.backup]}
    ELSE {PlainInput}

\* Commands that are one of dangerous, chained and piped, and those that
\* are none; nothing else speaks against the former.
Commands ==
    {input \in ToolInputs :
        /\ input.backup
        /\ LET flags == {flag \in {"dangerous", "control", "piped"} :
                            input[flag]}
           IN  \/ flags = {}
               \/ /\ Cardinality(flags) = 1
                  /\ input.path = "inside" /\ input.listed}

\* The inputs that a case may be looking at: nothing has depended on the
\* rest of the input before.
SeenByCase(call) ==
    IF call.tool = "bash" THEN Commands
    ELSE {[call.input EXCEPT !.listed = listed] : listed \in BOOLEAN}

\* The version of the commands of a project that is there.
CommandOf(target) == IF target = None THEN 0 ELSE command[target]

\* The model asks for a tool: in a chat, in a case, or as a subagent.  A
\* call that was answered without running leaves nothing behind.
Asks(by, tool, input, approvals) ==
    /\ toolCall.pc \in {"idle", "ran"}
    /\ toolCalls < MaxToolCalls
    /\ toolCalls' = toolCalls + 1
    /\ toolCall' = [NoToolCall EXCEPT !.pc = "asked", !.by = by,
                        !.tool = tool, !.input = input,
                        !.approvals = approvals]
    /\ UNCHANGED <<targetVars, linked, toolEdits>>

\* _handle_tool_call: the policy's verdict; some commands are answered with
\* the tool to use instead.  For a tool that needs a yes,
\* _create_tool_approval first reads the commands of the project to show.
HandleToolCall ==
    /\ toolCall.pc = "asked" /\ toolCall.by # "subagent"
    /\ LET policy == GetToolPolicy(toolCall.tool)
       IN  \/ /\ ~Allowed(toolCall.tool, OwnerContext) \/ toolCall.tool = "bash"
              /\ toolCall' = NoToolCall
           \/ /\ Allowed(toolCall.tool, OwnerContext) /\ policy.approval
              /\ toolCall' = [toolCall EXCEPT !.pc = "previewed",
                                  !.shown = CommandOf(selected)]
           \/ /\ Allowed(toolCall.tool, OwnerContext) /\ ~policy.approval
              /\ toolCall' = [toolCall EXCEPT !.pc = "allowed"]
    /\ UNCHANGED <<targetVars, linked, toolCalls, toolEdits>>

\* The pending action records the project selected by now.
RecordsTarget ==
    /\ toolCall.pc = "previewed"
    /\ toolCall' = [toolCall EXCEPT !.pc = "waiting", !.target = selected]
    /\ UNCHANGED <<targetVars, linked, toolCalls, toolEdits>>

\* The user says yes or no.
UserAnswers ==
    /\ toolCall.pc = "waiting" /\ toolCall.by = "chat"
    /\ \/ toolCall' = [toolCall EXCEPT !.pc = "confirmed", !.yes = "user"]
       \/ toolCall' = NoToolCall
    /\ UNCHANGED <<targetVars, linked, toolCalls, toolEdits>>

\* decide_eval_approval: the case says yes or no.
CaseAnswers ==
    /\ toolCall.pc = "waiting" /\ toolCall.by = "evaluation"
    /\ \E input \in SeenByCase(toolCall) :
          toolCall' =
             IF CaseApproves(toolCall.approvals, toolCall.tool, input,
                             toolCall.target # None)
             THEN [toolCall EXCEPT !.pc = "confirmed", !.yes = "case",
                                   !.input = input]
             ELSE NoToolCall
    /\ UNCHANGED <<targetVars, linked, toolCalls, toolEdits>>

-----------------------------------------------------------------------------
(* Execution.                                                              *)

ContextOf(by) == IF by = "subagent" THEN SubagentContext ELSE OwnerContext

\* The project of the executor: a confirmed action's own, the session's, or
\* none for a subagent.
ExecutorTarget_Selected ==
    IF toolCall.by = "subagent" THEN None ELSE selected

ExecutorTarget ==
    CASE toolCall.pc = "confirmed" -> toolCall.target
      [] toolCall.by = "subagent"  -> None
      [] OTHER                     -> selected

\* A target tool needs a project that is still there; a path must not leave
\* its root.  Everything else ends in an error text.
MayRun(target) ==
    LET tool == toolCall.tool
    IN  /\ Allowed(tool, ContextOf(toolCall.by))
        /\ Registered(tool, toolCall.by)
        /\ tool \in (UNION {row.tools : row \in TargetRows}) \ {"http_check"}
               => CommandOf(target) > 0
        /\ tool \in EditTools => toolCall.input.path = "inside"

\* run_target_restart and run_target_deploy take the command from the table.
RunsCommand(target) ==
    [toolCall EXCEPT !.pc = "ran", !.ranOn = target,
                     !.ran = CommandOf(target)]

\* run_host_bash: without the project, in the server's own directory.
RunsBash(target) ==
    [toolCall EXCEPT !.pc = "ran",
                     !.ranOn = IF CommandOf(target) > 0 THEN target ELSE None]

Performing(target) ==
    CASE toolCall.tool = "bash"         -> RunsBash(target)
      [] toolCall.tool \in CommandTools -> RunsCommand(target)
      [] toolCall.tool \in EditTools    ->
            [toolCall EXCEPT !.pc = "editing", !.ranOn = target]
      [] OTHER ->
            [toolCall EXCEPT !.pc = "ran", !.ranOn = target,
                             !.sandboxed = toolCall.tool \in SandboxTools]

\* ToolExecutor.execute: the policy again, then the registry, then the
\* sandbox, the host's shell or the tool's handler.  A file is edited in two
\* more steps.
Executes ==
    /\ \/ toolCall.pc \in {"allowed", "confirmed"}
       \/ toolCall.pc = "asked" /\ toolCall.by = "subagent"
    /\ toolCall' = IF MayRun(ExecutorTarget) THEN Performing(ExecutorTarget)
                   ELSE NoToolCall
    /\ UNCHANGED <<targetVars, linked, toolCalls, toolEdits>>

\* _backup_file copies what is in the file now.
BacksUp ==
    /\ toolCall.pc = "editing"
    /\ toolCall' = [toolCall EXCEPT !.pc = "backed_up"]
    /\ backups' = IF toolCall.input.backup
                  THEN backups \cup {<<toolCall.ranOn, file[toolCall.ranOn]>>}
                  ELSE backups
    /\ UNCHANGED <<selected, command, file, linked, toolCalls, toolEdits>>

\* Contents never written before.
NewContent ==
    1 + Max({file[t] : t \in Targets} \cup {copy[2] : copy \in backups})

WritesFile ==
    /\ toolCall.pc = "backed_up"
    /\ toolCall' = [toolCall EXCEPT !.pc = "ran",
                        !.replaced = file[toolCall.ranOn]]
    /\ file' = [file EXCEPT ![toolCall.ranOn] = NewContent]
    /\ UNCHANGED <<selected, command, backups, linked, toolCalls, toolEdits>>

-----------------------------------------------------------------------------
(* Meanwhile.                                                              *)

Meanwhile ==
    /\ toolEdits < MaxToolEdits
    /\ toolEdits' = toolEdits + 1
    /\ UNCHANGED toolCalls

\* "disturbs": history, the call may find something else than it was asked.
Disturbing(disturbs) ==
    toolCall' = [toolCall EXCEPT !.disturbed = @ \/ disturbs]

\* SessionManager.activate_target, also when another chat of the session
\* arrives: one without a project selects none.
SelectsTarget(t) ==
    /\ Meanwhile
    /\ t # selected /\ (t = None \/ CommandOf(t) > 0)
    /\ selected' = t
    /\ Disturbing(toolCall.pc = "previewed")
    /\ UNCHANGED <<command, file, backups, linked>>

\* PATCH of a project: TargetStore.update writes whatever was there.
EditsTarget(t) ==
    /\ Meanwhile
    /\ command[t] > 0
    /\ command' = [command EXCEPT ![t] = @ + 1]
    /\ Disturbing(/\ toolCall.pc \in {"previewed", "waiting", "confirmed"}
                  /\ t \in {toolCall.target, selected})
    /\ UNCHANGED <<selected, file, backups, linked>>

\* DELETE of a project; sessions keep its id.
DeletesTarget(t) ==
    /\ Meanwhile
    /\ command[t] > 0
    /\ command' = [command EXCEPT ![t] = 0]
    /\ Disturbing(/\ toolCall.pc \in {"previewed", "waiting", "confirmed"}
                  /\ t \in {toolCall.target, selected})
    /\ UNCHANGED <<selected, file, backups, linked>>

\* A tool of another session writes the file of a project.
OtherWrites(t) ==
    /\ Meanwhile
    /\ backups' = backups \cup {<<t, file[t]>>}
    /\ file' = [file EXCEPT ![t] = NewContent]
    /\ Disturbing(/\ toolCall.pc \in {"editing", "backed_up"}
                  /\ t = toolCall.ranOn)
    /\ UNCHANGED <<selected, command, linked>>

\* The MCP server is connected or disconnected.
TurnsLink ==
    /\ Meanwhile
    /\ linked' = ~linked
    /\ Disturbing(toolCall.pc \in {"previewed", "waiting", "confirmed",
                                   "allowed"})
    /\ UNCHANGED targetVars

ToolNext ==
    \/ \E tool \in AskedTools : \E input \in InputsOf(tool) :
         \/ Asks("chat", tool, input, None)
         \/ Asks("subagent", tool, input, None)
         \/ \E approvals \in CaseModes :
              Asks("evaluation", tool, input, approvals)
    \/ HandleToolCall \/ RecordsTarget \/ UserAnswers \/ CaseAnswers
    \/ Executes \/ BacksUp \/ WritesFile
    \/ \E t \in Targets \cup {None} : SelectsTarget(t)
    \/ \E t \in Targets :
         EditsTarget(t) \/ DeletesTarget(t) \/ OtherWrites(t)
    \/ TurnsLink

ToolSpec == ToolInit /\ [][ToolNext]_toolVars

ToolTypeOK ==
    /\ toolCall.pc \in {"idle", "asked", "previewed", "waiting", "confirmed",
                        "allowed", "editing", "backed_up", "ran"}
    /\ toolCall.by \in {"chat", "evaluation", "subagent"}
    /\ toolCall.input \in ToolInputs
    /\ selected \in Targets \cup {None}
    /\ command \in [Targets -> Nat] /\ file \in [Targets -> Nat]
    /\ backups \subseteq Targets \X Nat
    /\ linked \in BOOLEAN
    /\ toolCalls \in Nat /\ toolEdits \in Nat

-----------------------------------------------------------------------------
(* Properties.                                                             *)

\* What a tool can change outside the agent's own records and sandboxes,
\* said without the table: the host, the project, another system.
ChangesTheWorld(tool) ==
    tool \in EditTools \cup CommandTools
            \cup {"bash", "mcp_create", "mcp_query_destructive"}

\* A command that only looks, whatever its arguments.
OnlyReads(input) ==
    ~input.dangerous /\ ~input.control /\ input.program = "reader"

\* A call that changed the world had a yes: the user's, or that of a case
\* whose policy admits such a call.  Under auto_readonly that is a shell
\* command that only looks, or one of the managers, which a case takes for
\* readers.  The call ran the command that was shown, on the project that
\* was selected when the yes was asked for, whatever the session selected
\* while it waited (a shell command runs in the server's directory when the
\* project is gone).  A subagent only ever changed its sandbox; and what a
\* call replaced in a file is in a backup.  All this unless the project,
\* the file or the MCP connection was changed by somebody else between the
\* question and the execution, which nothing in the code prevents.
NothingRunsUnasked ==
    toolCall.pc = "ran" /\ ~toolCall.disturbed =>
        /\ ChangesTheWorld(toolCall.tool) =>
               /\ toolCall.yes # None
               /\ \/ toolCall.ranOn = toolCall.target
                  \/ /\ toolCall.tool = "bash"
                     /\ CommandOf(toolCall.target) = 0
               /\ toolCall.tool \in CommandTools =>
                      toolCall.ran = toolCall.shown
        /\ toolCall.yes = "case" =>
               /\ toolCall.approvals # "deny_all"
               /\ toolCall.approvals = "auto_readonly" =>
                      /\ toolCall.tool = "bash"
                      /\ \/ OnlyReads(toolCall.input)
                         \/ toolCall.input.program = "manager"
               /\ toolCall.approvals = "allow_list" => toolCall.input.listed
               /\ toolCall.approvals = "auto_approve" =>
                      toolCall.tool \in EditTools \cup {"bash"}
        /\ toolCall.by = "subagent" => toolCall.sandboxed
        /\ toolCall.tool \in EditTools /\ toolCall.input.backup =>
               <<toolCall.ranOn, toolCall.replaced>> \in backups
=============================================================================
