-------------------------- MODULE ToolCalls_proofs --------------------------
(***************************************************************************)
(* Proofs about ToolCalls, for any projects, any set of tools the model    *)
(* may call, and any number of calls and of changes meanwhile.             *)
(*                                                                         *)
(* The proof has two parts.  The first is about the policy table: what     *)
(* changes the world needs a yes, and nothing that needs one is called     *)
(* read-only.  The second follows a call from the question to the          *)
(* execution (CallInv): what was shown stays true, the yes stays with the  *)
(* call, and what is replaced has been backed up - or the call was         *)
(* disturbed.                                                              *)
(***************************************************************************)
EXTENDS ToolCalls, WellFoundedInduction, TLAPS

\* A command that a case under auto_readonly takes for one that only looks.
TakenForReading(input) == OnlyReads(input) \/ input.program = "manager"

\* What an evaluation case answers yes to.
CaseAdmits(call) == call.yes = "case" =>
    /\ call.approvals # "deny_all"
    /\ call.approvals = "auto_readonly" => call.tool = "bash" /\ TakenForReading(call.input)
    /\ call.approvals = "allow_list" => call.input.listed
    /\ call.approvals = "auto_approve" => call.tool \in EditTools \cup {"bash"}

\* The fields of a call; what it replaced may be anything.
IsCall(x) == x \in
    [pc : {"idle", "asked", "previewed", "waiting", "confirmed", "allowed",
           "editing", "backed_up", "ran"},
     by : {"chat", "evaluation", "subagent"}, tool : AskedTools \cup {"bash"},
     input : ToolInputs, approvals : CaseModes \cup {None},
     target : Targets \cup {None}, shown : Nat, yes : {None, "user", "case"},
     ranOn : Targets \cup {None}, ran : Nat, sandboxed : BOOLEAN,
     replaced : {x.replaced}, disturbed : BOOLEAN]

CallTyped == IsCall(toolCall)

SurroundingsTyped ==
    /\ selected \in Targets \cup {None} /\ command \in [Targets -> Nat]
    /\ DOMAIN file = Targets /\ linked \in BOOLEAN

\* A subagent's call goes straight to its executor; nobody has answered
\* before the question is put.
CallIsOrderly ==
    /\ toolCall.pc \in {"previewed", "waiting", "confirmed", "allowed",
                        "editing", "backed_up"} => toolCall.by # "subagent"
    /\ toolCall.pc \in {"asked", "previewed", "waiting", "allowed"} =>
          toolCall.yes = None

\* An undisturbed call at each stage.
Questioned == toolCall.pc \in {"previewed", "waiting"} =>
    /\ GetToolPolicy(toolCall.tool).approval
    /\ toolCall.pc = "previewed" => toolCall.shown = CommandOf(selected)

ShownStands == toolCall.pc \in {"waiting", "confirmed"} =>
    toolCall.shown = CommandOf(toolCall.target)

FreeCallsAreHarmless == toolCall.pc = "allowed" /\ ChangesTheWorld(toolCall.tool) =>
    ~Registered(toolCall.tool, toolCall.by)

YesGiven == toolCall.pc \in {"confirmed", "editing", "backed_up"} =>
    toolCall.yes # None /\ CaseAdmits(toolCall)

Edited == toolCall.pc \in {"editing", "backed_up"} =>
    /\ toolCall.tool \in EditTools /\ toolCall.ranOn = toolCall.target
    /\ toolCall.pc = "backed_up" /\ toolCall.input.backup =>
          <<toolCall.ranOn, file[toolCall.ranOn]>> \in backups

Undisturbed ==
    /\ Questioned /\ ShownStands /\ FreeCallsAreHarmless
    /\ YesGiven /\ Edited

CallInv ==
    /\ CallTyped /\ SurroundingsTyped /\ CallIsOrderly
    /\ ~toolCall.disturbed => Undisturbed
    /\ NothingRunsUnasked

-----------------------------------------------------------------------------
(* The policy table.                                                       *)

\* Tools whose effect leaves the agent's records and the sandboxes.
BuiltinChangers == EditTools \cup CommandTools \cup {"bash"}

\* A row of the table: what changes the world needs a yes, and what needs a
\* yes is not called read-only.
SoundRow(row) ==
    /\ row.policy.approval => ~row.policy.readOnly
    /\ row.tools \cap BuiltinChangers # {} => row.policy.approval
    /\ row.tools \cap McpTools = {}

LEMMA HostRowsSound == \A row \in HostRows : SoundRow(row)
    BY DEF HostRows, ReadOnlyRow, FreeRow, ApprovalRow, Policy, SoundRow,
           BuiltinChangers, EditTools, CommandTools, McpTools

LEMMA TargetRowsSound == \A row \in TargetRows : SoundRow(row)
    BY DEF TargetRows, ReadOnlyRow, FreeRow, ApprovalRow, Policy, SoundRow,
           BuiltinChangers, EditTools, CommandTools, McpTools

LEMMA InspectionRowsSound == \A row \in InspectionRows : SoundRow(row)
    BY DEF InspectionRows, ReadOnlyRow, FreeRow, ApprovalRow, Policy, SoundRow,
           BuiltinChangers, EditTools, CommandTools, McpTools

LEMMA WorkRowsSound == \A row \in WorkRows : SoundRow(row)
    BY DEF WorkRows, ReadOnlyRow, FreeRow, ApprovalRow, Policy, SoundRow,
           BuiltinChangers, EditTools, CommandTools, McpTools

LEMMA AgentRowsSound == \A row \in AgentRows : SoundRow(row)
    BY DEF AgentRows, ReadOnlyRow, FreeRow, ApprovalRow, Policy, SoundRow,
           BuiltinChangers, EditTools, CommandTools, McpTools

LEMMA RowsSound == \A row \in BuiltinPolicies : SoundRow(row)
    BY HostRowsSound, TargetRowsSound, InspectionRowsSound, WorkRowsSound,
       AgentRowsSound DEF BuiltinPolicies

LEMMA NoMcpToolIsBuiltin == McpTools \cap Builtin = {}
    BY RowsSound DEF SoundRow, Builtin

\* get_tool_policy gives a tool the policy of a row that names it.
LEMMA PolicyOfBuiltin ==
    ASSUME NEW tool, tool \in Builtin
    PROVE  \E row \in BuiltinPolicies :
              tool \in row.tools /\ GetToolPolicy(tool) = row.policy
<1>1. \E row \in BuiltinPolicies : tool \in row.tools
    BY DEF Builtin
<1>2. PICK row : row = CHOOSE r \in BuiltinPolicies : tool \in r.tools
    OBVIOUS
<1>3. row \in BuiltinPolicies /\ tool \in row.tools
    BY <1>1, <1>2
<1>4. GetToolPolicy(tool) = row.policy
    <2>1. tool \notin McpTools
        BY NoMcpToolIsBuiltin
    <2> QED
        BY <1>2, <2>1 DEF GetToolPolicy
<1> QED
    BY <1>3, <1>4

\* What needs a yes is not read-only, whatever is connected.
LEMMA AskedIsNotReadOnly ==
    ASSUME NEW tool, GetToolPolicy(tool).approval
    PROVE  ~GetToolPolicy(tool).readOnly
<1>1. CASE tool \in Builtin
    BY <1>1, PolicyOfBuiltin, RowsSound DEF SoundRow
<1>2. CASE tool \notin Builtin /\ tool \in McpTools
    BY <1>2 DEF GetToolPolicy, DynamicMcpPolicy, Policy
<1>3. CASE tool \notin Builtin /\ tool \notin McpTools
    BY <1>3 DEF GetToolPolicy, Policy
<1> QED
    BY <1>1, <1>2, <1>3

\* What changes the world needs a yes, or it is a tool of the MCP server
\* whose description is out of sight - and which then cannot be called.
LEMMA ChangesAreAsked ==
    ASSUME NEW tool, ChangesTheWorld(tool), ~GetToolPolicy(tool).approval,
           NEW by \in {"chat", "evaluation", "subagent"}
    PROVE  ~Registered(tool, by)
<1>1. SandboxTools \cap (BuiltinChangers \cup McpTools) = {}
    BY DEF SandboxTools, BuiltinChangers, EditTools, CommandTools, McpTools
<1>2. tool \in BuiltinChangers \cup McpTools
    BY DEF ChangesTheWorld, BuiltinChangers, McpTools
<1>3. CASE tool \in Builtin
    <2>1. tool \in BuiltinChangers
        BY <1>2, <1>3, NoMcpToolIsBuiltin
    <2>2. GetToolPolicy(tool).approval
        BY <1>3, <2>1, PolicyOfBuiltin, RowsSound DEF SoundRow
    <2> QED
        BY <2>2
<1>4. CASE tool \notin Builtin /\ tool \in McpTools
    <2>1. GetToolPolicy(tool) = DynamicMcpPolicy(tool)
        BY <1>4 DEF GetToolPolicy
    <2>2. ~linked
        BY <1>4, <2>1 DEF DynamicMcpPolicy, Policy, McpTools, NamedToRead, IsDestructive,
           ChangesTheWorld, EditTools, CommandTools
    <2> QED
        BY <1>1, <1>4, <2>2 DEF Registered
<1>5. CASE tool \notin Builtin /\ tool \notin McpTools
    BY <1>1, <1>2, <1>5 DEF Registered
<1> QED
    BY <1>3, <1>4, <1>5

\* The file tools of a subagent change its sandbox only.
LEMMA SandboxToolsAreHarmless ==
    ASSUME NEW tool, tool \in SandboxTools
    PROVE  /\ ~ChangesTheWorld(tool) /\ tool \notin EditTools
           /\ tool # "bash" /\ tool \notin CommandTools
    BY DEF SandboxTools, ChangesTheWorld, EditTools, CommandTools

\* The rules by which a case says yes.
LEMMA CaseRules ==
    ASSUME NEW call, NEW input, NEW root,
           CaseApproves(call.approvals, call.tool, input, root),
           ~GetToolPolicy(call.tool).readOnly
    PROVE  /\ call.approvals # "deny_all"
           /\ call.approvals = "auto_readonly" => call.tool = "bash" /\ TakenForReading(input)
           /\ call.approvals = "allow_list" => input.listed
           /\ call.approvals = "auto_approve" => call.tool \in EditTools \cup {"bash"}
    BY DEF CaseApproves, SafeBash, IsSafeReadonly, OnlyReads,
       TakenForReading

-----------------------------------------------------------------------------
(* Steps that leave no call under way, and steps beside the call.          *)

LEMMA NoCall ==
    IsCall(NoToolCall) /\ NoToolCall.pc = "idle" /\ NoToolCall.yes = None
<1>1. PlainInput \in ToolInputs
    BY DEF PlainInput, ToolInputs
<1> QED
    BY <1>1 DEF NoToolCall, IsCall

LEMMA NothingUnderWay ==
    ASSUME CallTyped', SurroundingsTyped', toolCall'.pc \in {"idle", "asked"},
           toolCall'.pc = "asked" => toolCall'.yes = None
    PROVE  CallInv'
<1>1. Questioned' /\ ShownStands' /\ FreeCallsAreHarmless' /\ YesGiven' /\ Edited'
    BY DEF Questioned, ShownStands, FreeCallsAreHarmless, YesGiven, Edited
<1>2. CallIsOrderly' /\ NothingRunsUnasked'
    BY DEF CallIsOrderly, NothingRunsUnasked
<1> QED
    BY <1>1, <1>2 DEF CallInv, Undisturbed

\* The policy of the call's tool changes with the MCP connection only.
LEMMA PolicyStands ==
    ASSUME linked' = linked, toolCall'.tool = toolCall.tool
    PROVE  GetToolPolicy(toolCall.tool)' = GetToolPolicy(toolCall.tool)
<1>1. PICK t : t = toolCall.tool
    OBVIOUS
<1>2. toolCall'.tool = t
    BY <1>1
<1> QED
    BY <1>1, <1>2 DEF GetToolPolicy, DynamicMcpPolicy, IsDestructive

\* Something happens meanwhile: the call is the same, and possibly disturbed.
SameCall ==
    /\ toolCall'.pc = toolCall.pc /\ toolCall'.by = toolCall.by
    /\ toolCall'.tool = toolCall.tool /\ toolCall'.input = toolCall.input
    /\ toolCall'.approvals = toolCall.approvals
    /\ toolCall'.target = toolCall.target /\ toolCall'.shown = toolCall.shown
    /\ toolCall'.yes = toolCall.yes /\ toolCall'.ranOn = toolCall.ranOn
    /\ toolCall'.ran = toolCall.ran /\ toolCall'.sandboxed = toolCall.sandboxed
    /\ toolCall'.replaced = toolCall.replaced
    /\ ~toolCall'.disturbed => ~toolCall.disturbed

LEMMA Disturbed ==
    ASSUME CallTyped, NEW disturbs \in BOOLEAN, Disturbing(disturbs)
    PROVE  CallTyped' /\ SameCall /\ (~toolCall'.disturbed => ~disturbs)
<1>1. PICK more \in BOOLEAN : more = (toolCall.disturbed \/ disturbs)
    OBVIOUS
<1>2. toolCall' = [toolCall EXCEPT !.disturbed = more]
    BY <1>1 DEF Disturbing
<1>3. /\ CallTyped'
      /\ toolCall'.pc = toolCall.pc /\ toolCall'.by = toolCall.by
      /\ toolCall'.tool = toolCall.tool /\ toolCall'.input = toolCall.input
      /\ toolCall'.approvals = toolCall.approvals
      /\ toolCall'.target = toolCall.target /\ toolCall'.shown = toolCall.shown
      /\ toolCall'.yes = toolCall.yes /\ toolCall'.ranOn = toolCall.ranOn
      /\ toolCall'.ran = toolCall.ran /\ toolCall'.sandboxed = toolCall.sandboxed
      /\ toolCall'.replaced = toolCall.replaced /\ toolCall'.disturbed = more
    BY <1>2 DEF CallTyped, IsCall
<1> QED
    BY <1>1, <1>3 DEF SameCall

\* What an undisturbed call rests on stands.
GroundStands ==
    /\ toolCall.pc = "previewed" => CommandOf(selected)' = CommandOf(selected)
    /\ toolCall.pc \in {"waiting", "confirmed"} =>
          CommandOf(toolCall.target)' = CommandOf(toolCall.target)
    /\ toolCall.pc \in {"previewed", "waiting", "confirmed", "allowed"} =>
          linked' = linked
    /\ toolCall.pc \in {"editing", "backed_up"} =>
          file'[toolCall.ranOn] = file[toolCall.ranOn]

LEMMA BesideTheCall ==
    ASSUME CallInv, CallTyped', SurroundingsTyped', SameCall, backups \subseteq backups',
           CommandOf(toolCall.target) = 0 => CommandOf(toolCall.target)' = 0,
           ~toolCall'.disturbed => GroundStands
    PROVE  CallInv'
<1>1. CallIsOrderly'
    BY DEF CallInv, CallIsOrderly, SameCall
<1>2. NothingRunsUnasked'
    BY DEF CallInv, NothingRunsUnasked, SameCall
<1>3. ASSUME ~toolCall'.disturbed PROVE Undisturbed'
    <2>1. GroundStands /\ Undisturbed
        BY <1>3 DEF CallInv, SameCall
    <2>2. Questioned'
        BY <2>1, PolicyStands DEF Undisturbed, Questioned, GroundStands, SameCall
    <2>3. ShownStands'
        BY <2>1 DEF Undisturbed, ShownStands, GroundStands, SameCall
    <2>4. FreeCallsAreHarmless'
        BY <2>1 DEF Undisturbed, FreeCallsAreHarmless, GroundStands, SameCall, Registered
    <2>5. YesGiven'
        BY <2>1 DEF Undisturbed, YesGiven, CaseAdmits, SameCall
    <2>6. Edited'
        BY <2>1 DEF Undisturbed, Edited, GroundStands, SameCall
    <2> QED
        BY <2>2, <2>3, <2>4, <2>5, <2>6 DEF Undisturbed
<1> QED
    BY <1>1, <1>2, <1>3 DEF CallInv

LEMMA MeanwhileKeeps ==
    ASSUME CallInv,
           \/ \E t \in Targets \cup {None} : SelectsTarget(t)
           \/ \E t \in Targets : EditsTarget(t) \/ DeletesTarget(t) \/ OtherWrites(t)
           \/ TurnsLink
    PROVE  CallInv'
<1>1. CallTyped /\ SurroundingsTyped /\ toolCall.target \in Targets \cup {None}
    BY DEF CallInv, CallTyped, IsCall
<1>2. ASSUME NEW t \in Targets \cup {None}, SelectsTarget(t) PROVE CallInv'
    <2>1. Disturbing(toolCall.pc = "previewed") /\ selected' = t
          /\ UNCHANGED <<command, file, backups, linked>>
        BY <1>2 DEF SelectsTarget
    <2>2. PICK d \in BOOLEAN : d = (toolCall.pc = "previewed")
        OBVIOUS
    <2>3. CallTyped' /\ SameCall /\ (~toolCall'.disturbed => toolCall.pc # "previewed")
        BY <1>1, <2>1, <2>2, Disturbed
    <2>4. ~toolCall'.disturbed => GroundStands
        BY <2>1, <2>3 DEF GroundStands, CommandOf, SameCall
    <2>5. SurroundingsTyped'
        BY <1>1, <2>1 DEF SurroundingsTyped
    <2> QED
        BY <2>1, <2>3, <2>4, <2>5, BesideTheCall DEF CommandOf, SameCall
<1>3. ASSUME NEW t \in Targets, EditsTarget(t) \/ DeletesTarget(t) PROVE CallInv'
    <2>1. PICK d \in BOOLEAN :
             d = (toolCall.pc \in {"previewed", "waiting", "confirmed"}
                  /\ t \in {toolCall.target, selected})
        OBVIOUS
    <2>2. Disturbing(d) /\ command[t] > 0 /\ UNCHANGED <<selected, file, backups, linked>>
        BY <1>3, <2>1 DEF EditsTarget, DeletesTarget
    <2>3. CallTyped' /\ SameCall /\ (~toolCall'.disturbed => ~d)
        BY <1>1, <2>2, Disturbed
    <2>4. /\ command' \in [Targets -> Nat]
          /\ \A u \in Targets \ {t} : command'[u] = command[u]
        <3>1. command[t] \in Nat /\ command[t] + 1 \in Nat
            BY <1>1 DEF SurroundingsTyped
        <3>2. PICK n \in Nat : command' = [command EXCEPT ![t] = n]
            BY <1>3, <3>1 DEF EditsTarget, DeletesTarget
        <3> QED
            BY <1>1, <3>2 DEF SurroundingsTyped
    <2>5. SurroundingsTyped'
        BY <1>1, <2>2, <2>4 DEF SurroundingsTyped
    <2>6. ~toolCall'.disturbed => GroundStands
        BY <1>1, <2>1, <2>2, <2>3, <2>4, ToolAssumption
        DEF GroundStands, CommandOf, SameCall, SurroundingsTyped
    <2>7. CommandOf(toolCall.target) = 0 => CommandOf(toolCall.target)' = 0
        BY <1>1, <2>2, <2>3, <2>4 DEF CommandOf, SameCall
    <2> QED
        BY <2>2, <2>3, <2>5, <2>6, <2>7, BesideTheCall
<1>4. ASSUME NEW t \in Targets, OtherWrites(t) PROVE CallInv'
    <2>1. PICK d \in BOOLEAN :
             d = (toolCall.pc \in {"editing", "backed_up"} /\ t = toolCall.ranOn)
        OBVIOUS
    <2>2. Disturbing(d) /\ UNCHANGED <<selected, command, linked>>
        BY <1>4, <2>1 DEF OtherWrites
    <2>3. CallTyped' /\ SameCall /\ (~toolCall'.disturbed => ~d)
        BY <1>1, <2>2, Disturbed
    <2>4. /\ backups \subseteq backups' /\ DOMAIN file' = Targets
          /\ \A u : u # t => file'[u] = file[u]
        BY <1>1, <1>4 DEF OtherWrites, SurroundingsTyped
    <2>5. SurroundingsTyped'
        BY <1>1, <2>2, <2>4 DEF SurroundingsTyped
    <2>6. ~toolCall'.disturbed => GroundStands
        BY <2>1, <2>2, <2>3, <2>4 DEF GroundStands, CommandOf, SameCall
    <2> QED
        BY <2>2, <2>3, <2>4, <2>5, <2>6, BesideTheCall DEF CommandOf, SameCall
<1>5. CASE TurnsLink
    <2>1. PICK d \in BOOLEAN :
             d = (toolCall.pc \in {"previewed", "waiting", "confirmed", "allowed"})
        <3>1. CASE toolCall.pc \in {"previewed", "waiting", "confirmed", "allowed"}
            BY <3>1
        <3>2. CASE toolCall.pc \notin {"previewed", "waiting", "confirmed", "allowed"}
            <4>1. FALSE = (toolCall.pc \in {"previewed", "waiting", "confirmed", "allowed"})
                BY <3>2
            <4> QED
                BY ONLY <4>1
        <3> QED
            BY <3>1, <3>2
    <2>2. Disturbing(d) /\ linked' = ~linked /\ UNCHANGED targetVars
        BY <1>5, <2>1 DEF TurnsLink
    <2>3. CallTyped' /\ SameCall /\ (~toolCall'.disturbed => ~d)
        BY <1>1, <2>2, Disturbed
    <2>4. SurroundingsTyped'
        BY <1>1, <2>2 DEF SurroundingsTyped, targetVars
    <2>5. ~toolCall'.disturbed => GroundStands
        BY <2>1, <2>2, <2>3 DEF GroundStands, CommandOf, SameCall, targetVars
    <2> QED
        BY <2>2, <2>3, <2>4, <2>5, BesideTheCall DEF CommandOf, SameCall, targetVars
<1> QED
    BY <1>2, <1>3, <1>4, <1>5

-----------------------------------------------------------------------------
(* From the question to the yes.                                           *)

LEMMA AsksKeeps ==
    ASSUME CallInv, NEW by \in {"chat", "evaluation", "subagent"},
           NEW tool \in AskedTools, NEW input \in ToolInputs,
           NEW approvals \in CaseModes \cup {None}, Asks(by, tool, input, approvals)
    PROVE  CallInv'
<1>1. CallTyped' /\ toolCall'.pc = "asked" /\ toolCall'.yes = None
    <2>1. PICK call : call = [NoToolCall EXCEPT !.pc = "asked", !.by = by, !.tool = tool,
                                                !.input = input, !.approvals = approvals]
        OBVIOUS
    <2>2. IsCall(call) /\ call.pc = "asked" /\ call.yes = None
        <3>1. PICK none : none = NoToolCall
            OBVIOUS
        <3> QED
            BY <2>1, <3>1, NoCall, ZenonT(30) DEF IsCall
    <2>3. toolCall' = call
        BY <2>1 DEF Asks
    <2> QED
        BY <2>2, <2>3 DEF CallTyped, IsCall
<1>2. SurroundingsTyped'
    BY DEF Asks, CallInv, SurroundingsTyped, targetVars
<1> QED
    BY <1>1, <1>2, NothingUnderWay

\* An error text, a refusal or a no: nothing is under way.
LEMMA RefusalKeeps ==
    ASSUME CallInv, toolCall' = NoToolCall, UNCHANGED <<targetVars, linked>>
    PROVE  CallInv'
<1>1. CallTyped' /\ toolCall'.pc = "idle"
    BY NoCall DEF CallTyped
<1>2. SurroundingsTyped'
    BY DEF CallInv, SurroundingsTyped, targetVars
<1> QED
    BY <1>1, <1>2, NothingUnderWay

LEMMA HandleKeeps ==
    ASSUME CallInv, HandleToolCall
    PROVE  CallInv'
<1>1. /\ CallTyped /\ SurroundingsTyped /\ CallIsOrderly
      /\ toolCall.pc = "asked" /\ toolCall.by # "subagent"
      /\ UNCHANGED <<targetVars, linked>>
    BY DEF CallInv, HandleToolCall
<1>2. CommandOf(selected) \in Nat
    BY <1>1 DEF SurroundingsTyped, CommandOf
<1>3. SurroundingsTyped'
    BY <1>1 DEF SurroundingsTyped, targetVars
<1>4. CASE toolCall' = NoToolCall
    BY <1>1, <1>4, RefusalKeeps
<1>5. CASE /\ GetToolPolicy(toolCall.tool).approval
           /\ toolCall' = [toolCall EXCEPT !.pc = "previewed", !.shown = CommandOf(selected)]
    <2>1. /\ CallTyped' /\ toolCall'.pc = "previewed"
          /\ toolCall'.shown = CommandOf(selected)
          /\ toolCall'.tool = toolCall.tool /\ toolCall'.by = toolCall.by
          /\ toolCall'.yes = toolCall.yes
        BY <1>1, <1>2, <1>5 DEF CallTyped, IsCall
    <2>2. CallIsOrderly' /\ NothingRunsUnasked'
        BY <1>1, <2>1 DEF CallIsOrderly, NothingRunsUnasked
    <2>3. Questioned'
        BY <1>1, <1>5, <2>1, PolicyStands DEF Questioned, CommandOf, targetVars
    <2>4. ShownStands' /\ FreeCallsAreHarmless' /\ YesGiven' /\ Edited'
        BY <2>1 DEF ShownStands, FreeCallsAreHarmless, YesGiven, Edited
    <2> QED
        BY <1>3, <2>1, <2>2, <2>3, <2>4 DEF CallInv, Undisturbed
<1>6. CASE /\ ~GetToolPolicy(toolCall.tool).approval
           /\ toolCall' = [toolCall EXCEPT !.pc = "allowed"]
    <2>1. /\ CallTyped' /\ toolCall'.pc = "allowed"
          /\ toolCall'.tool = toolCall.tool /\ toolCall'.by = toolCall.by
          /\ toolCall'.yes = toolCall.yes
        BY <1>1, <1>6 DEF CallTyped, IsCall
    <2>2. CallIsOrderly' /\ NothingRunsUnasked'
        BY <1>1, <2>1 DEF CallIsOrderly, NothingRunsUnasked
    <2>3. toolCall.by \in {"chat", "evaluation", "subagent"}
        BY <1>1 DEF CallTyped, IsCall
    <2>4. ChangesTheWorld(toolCall.tool) => ~Registered(toolCall.tool, toolCall.by)
        BY <1>6, <2>3, ChangesAreAsked
    <2>5. FreeCallsAreHarmless'
        BY <1>1, <2>1, <2>4 DEF FreeCallsAreHarmless, Registered
    <2>6. Questioned' /\ ShownStands' /\ YesGiven' /\ Edited'
        BY <2>1 DEF Questioned, ShownStands, YesGiven, Edited
    <2> QED
        BY <1>3, <2>1, <2>2, <2>5, <2>6 DEF CallInv, Undisturbed
<1> QED
    BY <1>4, <1>5, <1>6 DEF HandleToolCall

LEMMA RecordsTargetKeeps ==
    ASSUME CallInv, RecordsTarget
    PROVE  CallInv'
<1>1. /\ CallTyped /\ SurroundingsTyped /\ CallIsOrderly
      /\ toolCall.pc = "previewed" /\ UNCHANGED <<targetVars, linked>>
      /\ toolCall' = [toolCall EXCEPT !.pc = "waiting", !.target = selected]
    BY DEF CallInv, RecordsTarget
<1>2. SurroundingsTyped'
    BY <1>1 DEF SurroundingsTyped, targetVars
<1>3. /\ CallTyped' /\ toolCall'.pc = "waiting" /\ toolCall'.target = selected
      /\ toolCall'.shown = toolCall.shown /\ toolCall'.by = toolCall.by
      /\ toolCall'.yes = toolCall.yes /\ toolCall'.tool = toolCall.tool
      /\ toolCall'.disturbed = toolCall.disturbed
    BY <1>1 DEF CallTyped, IsCall, SurroundingsTyped
<1>4. CallIsOrderly' /\ NothingRunsUnasked'
    BY <1>1, <1>3 DEF CallIsOrderly, NothingRunsUnasked
<1>5. ASSUME ~toolCall'.disturbed PROVE Undisturbed'
    <2>1. Questioned
        BY <1>3, <1>5 DEF CallInv, Undisturbed
    <2>2. Questioned' /\ ShownStands'
        BY <1>1, <1>3, <2>1, PolicyStands DEF Questioned, ShownStands, CommandOf, targetVars
    <2>3. FreeCallsAreHarmless' /\ YesGiven' /\ Edited'
        BY <1>3 DEF FreeCallsAreHarmless, YesGiven, Edited
    <2> QED
        BY <2>2, <2>3 DEF Undisturbed
<1> QED
    BY <1>2, <1>3, <1>4, <1>5 DEF CallInv

LEMMA AnswersKeep ==
    ASSUME CallInv, UserAnswers \/ CaseAnswers
    PROVE  CallInv'
<1>1. /\ CallTyped /\ SurroundingsTyped /\ CallIsOrderly
      /\ toolCall.pc = "waiting" /\ UNCHANGED <<targetVars, linked>>
    BY DEF CallInv, UserAnswers, CaseAnswers
<1>2. SurroundingsTyped'
    BY <1>1 DEF SurroundingsTyped, targetVars
\* A call with a yes, and the input it was given for.
<1>3. ASSUME NEW yes \in {"user", "case"}, NEW input \in ToolInputs,
             toolCall' = [toolCall EXCEPT !.pc = "confirmed", !.yes = yes, !.input = input],
             ~toolCall.disturbed /\ yes = "case" =>
                 /\ toolCall.approvals # "deny_all"
                 /\ toolCall.approvals = "auto_readonly" =>
                        toolCall.tool = "bash" /\ TakenForReading(input)
                 /\ toolCall.approvals = "allow_list" => input.listed
                 /\ toolCall.approvals = "auto_approve" =>
                        toolCall.tool \in EditTools \cup {"bash"}
      PROVE  CallInv'
    <2>1. /\ CallTyped' /\ toolCall'.pc = "confirmed" /\ toolCall'.input = input
          /\ toolCall'.shown = toolCall.shown /\ toolCall'.by = toolCall.by
          /\ toolCall'.yes = yes /\ toolCall'.tool = toolCall.tool
          /\ toolCall'.target = toolCall.target /\ toolCall'.approvals = toolCall.approvals
          /\ toolCall'.disturbed = toolCall.disturbed
        BY <1>1, <1>3 DEF CallTyped, IsCall
    <2>2. CallIsOrderly' /\ NothingRunsUnasked'
        BY <1>1, <2>1 DEF CallIsOrderly, NothingRunsUnasked
    <2>3. ASSUME ~toolCall'.disturbed PROVE Undisturbed'
        <3>1. ShownStands /\ ~toolCall.disturbed
            BY <2>1, <2>3 DEF CallInv, Undisturbed
        <3>2. ShownStands'
            BY <1>1, <2>1, <3>1 DEF ShownStands, CommandOf, targetVars
        <3>3. toolCall'.yes # None
            BY <2>1, ToolAssumption
        <3>4. YesGiven'
            BY <1>3, <2>1, <3>1, <3>3 DEF YesGiven, CaseAdmits
        <3>5. Questioned' /\ FreeCallsAreHarmless' /\ Edited'
            BY <2>1 DEF Questioned, FreeCallsAreHarmless, Edited
        <3> QED
            BY <3>2, <3>4, <3>5 DEF Undisturbed
    <2> QED
        BY <1>2, <2>1, <2>2, <2>3 DEF CallInv
<1>4. CASE toolCall' = NoToolCall
    BY <1>1, <1>4, RefusalKeeps
<1>5. CASE toolCall' = [toolCall EXCEPT !.pc = "confirmed", !.yes = "user"]
    <2>1. toolCall.input \in ToolInputs
        BY <1>1 DEF CallTyped, IsCall
    <2>2. toolCall' = [toolCall EXCEPT !.pc = "confirmed", !.yes = "user",
                                       !.input = toolCall.input]
        BY <1>1, <1>5 DEF CallTyped, IsCall
    <2> QED
        BY <1>3, <2>1, <2>2
<1>6. ASSUME NEW input \in SeenByCase(toolCall),
             CaseApproves(toolCall.approvals, toolCall.tool, input, toolCall.target # None),
             toolCall' = [toolCall EXCEPT !.pc = "confirmed", !.yes = "case", !.input = input]
      PROVE  CallInv'
    <2>1. input \in ToolInputs
        <3>1. toolCall.input \in ToolInputs
            BY <1>1 DEF CallTyped, IsCall
        <3>2. \A listed \in BOOLEAN : [toolCall.input EXCEPT !.listed = listed] \in ToolInputs
            BY <3>1 DEF ToolInputs
        <3> QED
            BY <1>6, <3>2 DEF SeenByCase, Commands
    <2>2. ~toolCall.disturbed => ~GetToolPolicy(toolCall.tool).readOnly
        BY <1>1, AskedIsNotReadOnly DEF CallInv, Undisturbed, Questioned
    <2> QED
        BY <1>3, <1>6, <2>1, <2>2, CaseRules
<1> QED
    BY <1>4, <1>5, <1>6 DEF UserAnswers, CaseAnswers

-----------------------------------------------------------------------------
(* Execution.                                                              *)

\* The outcome of an execution that runs: which step comes next, and where.
LEMMA Performed ==
    ASSUME CallTyped, SurroundingsTyped, NEW target \in Targets \cup {None},
           toolCall' = Performing(target)
    PROVE  /\ CallTyped'
           /\ toolCall'.tool = toolCall.tool /\ toolCall'.by = toolCall.by
           /\ toolCall'.yes = toolCall.yes /\ toolCall'.input = toolCall.input
           /\ toolCall'.approvals = toolCall.approvals
           /\ toolCall'.target = toolCall.target /\ toolCall'.shown = toolCall.shown
           /\ toolCall'.disturbed = toolCall.disturbed
           /\ \/ /\ toolCall'.pc = "ran" /\ toolCall.tool = "bash"
                 /\ toolCall'.ranOn = target
                    \/ (toolCall'.ranOn = None /\ CommandOf(target) = 0)
              \/ /\ toolCall'.pc = "ran" /\ toolCall.tool \in CommandTools
                 /\ toolCall'.ranOn = target /\ toolCall'.ran = CommandOf(target)
              \/ /\ toolCall'.pc = "editing" /\ toolCall.tool \in EditTools
                 /\ toolCall'.ranOn = target
              \/ /\ toolCall'.pc = "ran"
                 /\ toolCall.tool \notin EditTools \cup CommandTools \cup {"bash"}
                 /\ toolCall'.ranOn = target
                 /\ toolCall'.sandboxed = (toolCall.tool \in SandboxTools)
<1>1. CommandOf(target) \in Nat
    BY DEF SurroundingsTyped, CommandOf
<1>2. "bash" \notin EditTools \cup CommandTools /\ EditTools \cap CommandTools = {}
    BY DEF EditTools, CommandTools
<1>3. CASE toolCall.tool = "bash"
    <2>1. PICK on \in Targets \cup {None} :
             /\ on = target \/ (on = None /\ CommandOf(target) = 0)
             /\ toolCall' = [toolCall EXCEPT !.pc = "ran", !.ranOn = on]
        <3>1. toolCall' = RunsBash(target)
            BY <1>2, <1>3 DEF Performing
        <3>2. CommandOf(target) > 0 \/ CommandOf(target) = 0
            BY <1>1
        <3> QED
            BY <1>1, <3>1, <3>2 DEF RunsBash
    <2> QED
        BY <1>3, <2>1 DEF CallTyped, IsCall
<1>4. CASE toolCall.tool \in CommandTools
    <2>1. toolCall' = RunsCommand(target)
        BY <1>2, <1>4 DEF Performing
    <2> QED
        BY <1>1, <1>4, <2>1 DEF RunsCommand, CallTyped, IsCall
<1>5. CASE toolCall.tool \in EditTools
    <2>1. toolCall' = [toolCall EXCEPT !.pc = "editing", !.ranOn = target]
        BY <1>2, <1>5 DEF Performing
    <2> QED
        BY <1>5, <2>1 DEF CallTyped, IsCall
<1>6. CASE toolCall.tool \notin EditTools \cup CommandTools \cup {"bash"}
    <2>1. PICK boxed \in BOOLEAN : boxed = (toolCall.tool \in SandboxTools)
        <3>1. CASE toolCall.tool \in SandboxTools
            <4>1. TRUE = (toolCall.tool \in SandboxTools)
                BY <3>1
            <4> QED
                BY ONLY <4>1
        <3>2. CASE toolCall.tool \notin SandboxTools
            <4>1. FALSE = (toolCall.tool \in SandboxTools)
                BY <3>2
            <4> QED
                BY ONLY <4>1
        <3> QED
            BY <3>1, <3>2
    <2>2. toolCall' = [toolCall EXCEPT !.pc = "ran", !.ranOn = target, !.sandboxed = boxed]
        BY <1>6, <2>1 DEF Performing
    <2>3. /\ CallTyped' /\ toolCall'.pc = "ran" /\ toolCall'.ranOn = target
          /\ toolCall'.tool = toolCall.tool /\ toolCall'.by = toolCall.by
          /\ toolCall'.yes = toolCall.yes /\ toolCall'.input = toolCall.input
          /\ toolCall'.approvals = toolCall.approvals
          /\ toolCall'.target = toolCall.target /\ toolCall'.shown = toolCall.shown
          /\ toolCall'.disturbed = toolCall.disturbed /\ toolCall'.sandboxed = boxed
        BY <2>2 DEF CallTyped, IsCall
    <2> QED
        BY <1>6, <2>1, <2>3
<1> QED
    BY <1>3, <1>4, <1>5, <1>6

\* A call is executed on the project it may run on: the confirmed one; where
\* no yes was needed, and for a subagent, whatever the executor has.
LEMMA ExecutesKeeps ==
    ASSUME CallInv, Executes
    PROVE  CallInv'
<1>1. /\ CallTyped /\ SurroundingsTyped /\ CallIsOrderly
      /\ UNCHANGED <<targetVars, linked>>
      /\ \/ toolCall.pc \in {"allowed", "confirmed"}
         \/ toolCall.pc = "asked" /\ toolCall.by = "subagent"
    BY DEF CallInv, Executes
<1>2. SurroundingsTyped'
    BY <1>1 DEF SurroundingsTyped, targetVars
<1>3. CASE ~MayRun(ExecutorTarget)
    BY <1>1, <1>3, RefusalKeeps DEF Executes
<1>4. CASE MayRun(ExecutorTarget)
    <2>1. PICK target \in Targets \cup {None} : target = ExecutorTarget
        BY <1>1 DEF ExecutorTarget, CallTyped, IsCall, SurroundingsTyped
    <2>2. MayRun(target) /\ toolCall' = Performing(target)
        BY <1>4, <2>1 DEF Executes
    <2>3. Registered(toolCall.tool, toolCall.by)
        BY <2>2 DEF MayRun
    <2>4. toolCall.pc = "confirmed" => target = toolCall.target
        BY <1>1, <2>1 DEF ExecutorTarget, CallIsOrderly
    <2>5. toolCall.by = "subagent" => toolCall.tool \in SandboxTools
        BY <2>3 DEF Registered
    <2>6. /\ CallTyped'
          /\ toolCall'.tool = toolCall.tool /\ toolCall'.by = toolCall.by
          /\ toolCall'.yes = toolCall.yes /\ toolCall'.input = toolCall.input
          /\ toolCall'.approvals = toolCall.approvals
          /\ toolCall'.target = toolCall.target /\ toolCall'.shown = toolCall.shown
          /\ toolCall'.disturbed = toolCall.disturbed
        BY <1>1, <2>2, Performed
    <2>7. \/ /\ toolCall'.pc = "ran" /\ toolCall.tool = "bash"
             /\ toolCall'.ranOn = target \/ (toolCall'.ranOn = None /\ CommandOf(target) = 0)
          \/ /\ toolCall'.pc = "ran" /\ toolCall.tool \in CommandTools
             /\ toolCall'.ranOn = target /\ toolCall'.ran = CommandOf(target)
          \/ /\ toolCall'.pc = "editing" /\ toolCall.tool \in EditTools
             /\ toolCall'.ranOn = target
          \/ /\ toolCall'.pc = "ran"
             /\ toolCall.tool \notin EditTools \cup CommandTools \cup {"bash"}
             /\ toolCall'.ranOn = target
             /\ toolCall'.sandboxed = (toolCall.tool \in SandboxTools)
        BY <1>1, <2>2, Performed
    <2>8. toolCall'.pc \in {"ran", "editing"}
        BY <2>7
    \* What runs without a yes leaves the world alone.
    <2>9. ~toolCall.disturbed /\ toolCall.pc # "confirmed" =>
             ~ChangesTheWorld(toolCall.tool) /\ toolCall.yes = None
        <3>1. toolCall.by = "subagent" => ~ChangesTheWorld(toolCall.tool)
            BY <2>5, SandboxToolsAreHarmless
        <3>2. ~toolCall.disturbed /\ toolCall.pc = "allowed" => ~ChangesTheWorld(toolCall.tool)
            BY <2>3 DEF CallInv, Undisturbed, FreeCallsAreHarmless
        <3> QED
            BY <1>1, <3>1, <3>2 DEF CallIsOrderly
    <2>10. ~ChangesTheWorld(toolCall.tool) =>
              toolCall.tool \notin EditTools \cup CommandTools \cup {"bash"}
        BY DEF ChangesTheWorld
    <2>11. CallIsOrderly'
        <3>1. toolCall.by = "subagent" => toolCall'.pc = "ran"
            BY <2>5, <2>7, SandboxToolsAreHarmless
        <3> QED
            BY <2>6, <2>8, <3>1 DEF CallIsOrderly
    <2>12. ASSUME ~toolCall.disturbed, toolCall.pc = "confirmed"
           PROVE  /\ toolCall.yes # None /\ CaseAdmits(toolCall)
                  /\ toolCall.shown = CommandOf(target) /\ toolCall.by # "subagent"
        BY <1>1, <2>4, <2>12 DEF CallInv, Undisturbed, YesGiven, ShownStands, CallIsOrderly
    <2>13. CommandOf(target)' = CommandOf(target)
        BY <1>1 DEF CommandOf, targetVars
    <2>14. ASSUME ~toolCall'.disturbed PROVE Undisturbed'
        <3>1. Questioned' /\ ShownStands' /\ FreeCallsAreHarmless'
            BY <2>8 DEF Questioned, ShownStands, FreeCallsAreHarmless
        <3>2. toolCall'.pc = "editing" => toolCall.pc = "confirmed"
            BY <2>6, <2>7, <2>9, <2>10, <2>14
        <3>3. YesGiven'
            BY <2>6, <2>8, <2>12, <2>14, <3>2 DEF YesGiven, CaseAdmits
        <3>4. toolCall'.pc = "editing" => toolCall.tool \in EditTools /\ toolCall'.ranOn = target
            BY <2>7
        <3>5. Edited'
            BY <2>4, <2>6, <2>8, <3>2, <3>4 DEF Edited
        <3> QED
            BY <3>1, <3>3, <3>5 DEF Undisturbed
    <2>15. ASSUME ~toolCall'.disturbed, toolCall'.pc = "ran" PROVE NothingRunsUnasked'
        <3>1. toolCall.tool \notin EditTools
            BY <2>7, <2>15 DEF EditTools, CommandTools
        <3>2. CASE toolCall.pc = "confirmed"
            <4>1. /\ toolCall'.ranOn = toolCall'.target
                     \/ (toolCall.tool = "bash" /\ CommandOf(toolCall.target)' = 0)
                  /\ toolCall.tool \in CommandTools => toolCall'.ran = toolCall'.shown
                <5>1. "bash" \notin CommandTools
                    BY DEF CommandTools
                <5>2. toolCall.shown = CommandOf(target) /\ target = toolCall.target
                    BY <2>4, <2>6, <2>12, <2>15, <3>2
                <5>3. CommandOf(toolCall.target)' = CommandOf(target)
                    BY <1>1, <2>6, <5>2 DEF CommandOf, targetVars
                <5> QED
                    BY <2>6, <2>7, <2>15, <5>1, <5>2, <5>3
            <4> QED
                BY <2>6, <2>12, <2>15, <3>1, <3>2, <4>1 DEF NothingRunsUnasked, CaseAdmits,
                   TakenForReading
        <3>3. CASE toolCall.pc # "confirmed"
            <4>1. ~ChangesTheWorld(toolCall.tool) /\ toolCall.yes = None
                BY <2>6, <2>9, <2>15, <3>3
            <4>2. toolCall.by = "subagent" => toolCall'.sandboxed
                BY <2>5, <2>7, <2>10, <4>1
            <4> QED
                BY <2>6, <3>1, <4>1, <4>2, ToolAssumption DEF NothingRunsUnasked
        <3> QED
            BY <3>2, <3>3
    <2>16. NothingRunsUnasked'
        BY <2>15 DEF NothingRunsUnasked
    <2> QED
        BY <1>2, <2>6, <2>11, <2>14, <2>16 DEF CallInv
<1> QED
    BY <1>3, <1>4

\* _backup_file: the copy is in place before the file is written.
LEMMA EditKeeps ==
    ASSUME CallInv, BacksUp \/ WritesFile
    PROVE  CallInv'
<1>1. CallTyped /\ SurroundingsTyped /\ CallIsOrderly /\ NothingRunsUnasked
    BY DEF CallInv
<1>2. CASE BacksUp
    <2>1. /\ toolCall.pc = "editing" /\ toolCall' = [toolCall EXCEPT !.pc = "backed_up"]
          /\ UNCHANGED <<selected, command, file, linked>>
        BY <1>2 DEF BacksUp
    <2>2. /\ CallTyped' /\ toolCall'.pc = "backed_up"
          /\ toolCall'.tool = toolCall.tool /\ toolCall'.by = toolCall.by
          /\ toolCall'.yes = toolCall.yes /\ toolCall'.input = toolCall.input
          /\ toolCall'.approvals = toolCall.approvals
          /\ toolCall'.target = toolCall.target /\ toolCall'.ranOn = toolCall.ranOn
          /\ toolCall'.disturbed = toolCall.disturbed
        BY <1>1, <2>1 DEF CallTyped, IsCall
    <2>3. SurroundingsTyped' /\ CallIsOrderly' /\ NothingRunsUnasked'
        BY <1>1, <2>1, <2>2 DEF SurroundingsTyped, CallIsOrderly, NothingRunsUnasked
    <2>4. ASSUME ~toolCall'.disturbed PROVE Undisturbed'
        <3>1. YesGiven /\ Edited
            BY <2>2, <2>4 DEF CallInv, Undisturbed
        <3>2. YesGiven'
            BY <2>1, <2>2, <3>1 DEF YesGiven, CaseAdmits
        <3>3. toolCall.input.backup =>
                 <<toolCall.ranOn, file[toolCall.ranOn]>> \in backups'
            BY <1>2 DEF BacksUp
        <3>4. Edited'
            BY <2>1, <2>2, <3>1, <3>3 DEF Edited
        <3>5. Questioned' /\ ShownStands' /\ FreeCallsAreHarmless'
            BY <2>2 DEF Questioned, ShownStands, FreeCallsAreHarmless
        <3> QED
            BY <3>2, <3>4, <3>5 DEF Undisturbed
    <2> QED
        BY <2>2, <2>3, <2>4 DEF CallInv
<1>3. CASE WritesFile
    <2>1. PICK old : old = file[toolCall.ranOn]
        OBVIOUS
    <2>2. /\ toolCall.pc = "backed_up" /\ DOMAIN file' = DOMAIN file
          /\ toolCall' = [toolCall EXCEPT !.pc = "ran", !.replaced = old]
          /\ UNCHANGED <<selected, command, backups, linked>>
        BY <1>3, <2>1 DEF WritesFile
    <2>3. /\ CallTyped' /\ toolCall'.pc = "ran" /\ toolCall'.replaced = old
          /\ toolCall'.tool = toolCall.tool /\ toolCall'.by = toolCall.by
          /\ toolCall'.yes = toolCall.yes /\ toolCall'.input = toolCall.input
          /\ toolCall'.approvals = toolCall.approvals
          /\ toolCall'.target = toolCall.target /\ toolCall'.ranOn = toolCall.ranOn
          /\ toolCall'.disturbed = toolCall.disturbed
        BY <1>1, <2>2 DEF CallTyped, IsCall
    <2>4. SurroundingsTyped' /\ CallIsOrderly'
        BY <1>1, <2>2, <2>3 DEF SurroundingsTyped, CallIsOrderly
    <2>5. Questioned' /\ ShownStands' /\ FreeCallsAreHarmless' /\ YesGiven' /\ Edited'
        BY <2>3 DEF Questioned, ShownStands, FreeCallsAreHarmless, YesGiven, Edited
    <2>6. ASSUME ~toolCall'.disturbed PROVE NothingRunsUnasked'
        <3>1. YesGiven /\ Edited
            BY <2>3, <2>6 DEF CallInv, Undisturbed
        <3>2. /\ toolCall.yes # None /\ CaseAdmits(toolCall) /\ toolCall.tool \in EditTools
              /\ toolCall.ranOn = toolCall.target
              /\ toolCall.input.backup => <<toolCall.ranOn, old>> \in backups
            BY <2>1, <2>2, <3>1 DEF YesGiven, Edited
        <3>3. toolCall.tool \notin CommandTools /\ toolCall.by # "subagent"
            BY <1>1, <2>2, <3>2 DEF CallIsOrderly, EditTools, CommandTools
        <3> QED
            BY <2>2, <2>3, <3>2, <3>3 DEF NothingRunsUnasked, CaseAdmits,
               TakenForReading
    <2>7. NothingRunsUnasked'
        BY <2>6 DEF NothingRunsUnasked
    <2> QED
        BY <2>3, <2>4, <2>5, <2>7 DEF CallInv, Undisturbed
<1> QED
    BY <1>2, <1>3

-----------------------------------------------------------------------------
(* The theorem.                                                            *)

LEMMA InputsAreInputs ==
    \A tool \in AskedTools : InputsOf(tool) \subseteq ToolInputs
<1>1. PlainInput \in ToolInputs
    BY DEF PlainInput, ToolInputs
<1> QED
    BY <1>1 DEF InputsOf

LEMMA CallStep ==
    ASSUME CallInv, [ToolNext]_toolVars
    PROVE  CallInv'
<1>1. ASSUME NEW tool \in AskedTools, NEW input \in InputsOf(tool),
             \/ Asks("chat", tool, input, None) \/ Asks("subagent", tool, input, None)
             \/ \E approvals \in CaseModes : Asks("evaluation", tool, input, approvals)
      PROVE  CallInv'
    <2>1. input \in ToolInputs
        BY <1>1, InputsAreInputs
    <2> QED
        BY <1>1, <2>1, AsksKeeps
<1>2. CASE HandleToolCall \/ RecordsTarget \/ UserAnswers \/ CaseAnswers
    BY <1>2, HandleKeeps, RecordsTargetKeeps, AnswersKeep
<1>3. CASE Executes \/ BacksUp \/ WritesFile
    BY <1>3, ExecutesKeeps, EditKeeps
<1>4. CASE \/ \E t \in Targets \cup {None} : SelectsTarget(t)
           \/ \E t \in Targets : EditsTarget(t) \/ DeletesTarget(t) \/ OtherWrites(t)
           \/ TurnsLink
    BY <1>4, MeanwhileKeeps
<1>5. CASE UNCHANGED toolVars
    <2>1. CallTyped' /\ SurroundingsTyped' /\ SameCall /\ GroundStands /\ backups' = backups
        BY <1>5 DEF toolVars, targetVars, CallInv, CallTyped, IsCall, SurroundingsTyped,
           SameCall, GroundStands, CommandOf
    <2> QED
        BY <1>5, <2>1, BesideTheCall DEF CommandOf, toolVars, targetVars
<1> QED
    BY <1>1, <1>2, <1>3, <1>4, <1>5 DEF ToolNext

LEMMA CallStart == ToolInit => CallInv
<1> SUFFICES ASSUME ToolInit PROVE CallInv
    OBVIOUS
<1>1. CallTyped /\ toolCall.pc = "idle"
    BY NoCall DEF ToolInit, CallTyped, IsCall
<1>2. SurroundingsTyped
    BY DEF ToolInit, SurroundingsTyped
<1> QED
    BY <1>1, <1>2 DEF CallInv, CallIsOrderly, Undisturbed, Questioned, ShownStands,
       FreeCallsAreHarmless, YesGiven, Edited, NothingRunsUnasked

\* Whatever tools the model calls, in a chat, as a subagent or in an
\* evaluation case, and whatever is selected meanwhile: what changes the
\* world had a yes that covers it, ran what was shown on the project it was
\* shown for, and left a backup - unless somebody else changed the ground
\* under the call.
THEOREM CallsAreCovered == ToolSpec => []NothingRunsUnasked
<1>1. CallInv => NothingRunsUnasked
    BY DEF CallInv
<1> QED
    BY <1>1, CallStart, CallStep, PTL DEF ToolSpec

-----------------------------------------------------------------------------
(* Types.                                                                  *)

\* The largest of numbers that are bounded.
LEMMA BoundedHaveMax ==
    ASSUME NEW S \in SUBSET Nat, S # {}, NEW b \in Nat, \A x \in S : x <= b
    PROVE  Max(S) \in S /\ \A x \in S : x <= Max(S)
<1>1. PICK D \in SUBSET Nat : D = {b - x : x \in S}
    <2>1. \A x \in S : b - x \in Nat
        OBVIOUS
    <2> QED
        BY <2>1
<1>2. D # {}
    BY <1>1
<1>3. PICK d \in D : \A e \in D : ~(<<e, d>> \in OpToRel(<, Nat))
    BY <1>2, WFMin, NatLessThanWellFounded, Zenon
<1>4. \A e \in D : ~(e < d)
    BY <1>3 DEF OpToRel
<1>5. PICK m \in S : d = b - m
    BY <1>1
<1>6. \A x \in S : m >= x
    BY <1>1, <1>4, <1>5
<1>7. \E k \in S : \A x \in S : k >= x
    BY <1>6
<1>8. Max(S) \in S /\ \A x \in S : Max(S) >= x
    BY <1>7, Zenon DEF Max
<1> QED
    BY <1>8

\* Contents are numbers, and there is always a newer one, because those
\* there are are bounded; what is edited is a file of a project.
FilesTyped == file \in [Targets -> Nat] /\ backups \subseteq Targets \X Nat
FilesBounded == \E b \in Nat :
    /\ \A t \in Targets : file[t] <= b
    /\ \A copy \in backups : copy[2] <= b
EditsAFile == toolCall.pc \in {"editing", "backed_up"} => toolCall.ranOn \in Targets
FilesInv == FilesTyped /\ FilesBounded /\ EditsAFile

LEMMA NewIsNewer ==
    ASSUME FilesTyped, Targets # {}, NEW b \in Nat,
           \A t \in Targets : file[t] <= b, \A copy \in backups : copy[2] <= b
    PROVE  NewContent \in 0..(b + 1)
<1>1. PICK S : S = {file[t] : t \in Targets} \cup {copy[2] : copy \in backups}
    OBVIOUS
<1>2. S \in SUBSET Nat /\ S # {}
    BY <1>1 DEF FilesTyped
<1>3. \A x \in S : x <= b
    BY <1>1
<1>4. Max(S) \in S
    BY <1>2, <1>3, BoundedHaveMax
<1>5. PICK m \in S : m = Max(S)
    BY <1>4
<1>6. NewContent = 1 + m
    BY <1>1, <1>5 DEF NewContent
<1>7. m \in Nat /\ m <= b
    BY <1>2, <1>3
<1> QED
    BY <1>6, <1>7

\* A file is backed up, or not, and written, or not.
LEMMA FilesChange ==
    ASSUME FilesTyped, FilesBounded, NEW t \in Targets,
           backups' \in {backups, backups \cup {<<t, file[t]>>}},
           file' \in {file, [file EXCEPT ![t] = NewContent]}
    PROVE  FilesTyped' /\ FilesBounded'
<1>1. PICK b \in Nat : /\ \A u \in Targets : file[u] <= b
                       /\ \A copy \in backups : copy[2] <= b
    BY DEF FilesBounded
<1>2. PICK n : n = NewContent
    OBVIOUS
<1>3. n \in Nat /\ n <= b + 1
    BY <1>1, <1>2, NewIsNewer
<1>4. file' \in {file, [file EXCEPT ![t] = n]}
    BY <1>2
<1>5. FilesTyped'
    BY <1>3, <1>4 DEF FilesTyped
<1>6. \A u \in Targets : file'[u] <= b + 1
    BY <1>1, <1>3, <1>4 DEF FilesTyped
<1>7. \A copy \in backups' : copy[2] <= b + 1
    <2>1. \A copy \in backups : copy[2] \in Nat /\ copy[2] <= b + 1
        BY <1>1 DEF FilesTyped
    <2>2. file[t] <= b + 1
        BY <1>1 DEF FilesTyped
    <2> QED
        BY <2>1, <2>2
<1> QED
    BY <1>5, <1>6, <1>7 DEF FilesBounded

\* The tools that edit need a project that is there.
LEMMA EditingNeedsATarget ==
    ASSUME NEW target, MayRun(target), toolCall.tool \in EditTools
    PROVE  target # None
<1>1. toolCall.tool \in (UNION {row.tools : row \in TargetRows}) \ {"http_check"}
    <2>1. PICK row : row = ApprovalRow({"target_write_file", "target_edit_file"},
                                       "medium", "filesystem.write")
        OBVIOUS
    <2>2. row \in TargetRows
        BY <2>1 DEF TargetRows
    <2>3. row.tools = EditTools
        BY <2>1 DEF ApprovalRow, EditTools
    <2>4. "http_check" \notin EditTools
        BY DEF EditTools
    <2>5. EditTools \in {r.tools : r \in TargetRows}
        BY <2>2, <2>3
    <2> QED
        BY <2>4, <2>5
<1>2. CommandOf(target) > 0
    BY <1>1 DEF MayRun
<1> QED
    BY <1>2 DEF CommandOf

LEMMA FilesStep ==
    ASSUME CallInv, FilesInv, [ToolNext]_toolVars
    PROVE  FilesInv'
<1>1. /\ CallTyped /\ SurroundingsTyped
      /\ FilesTyped /\ FilesBounded /\ EditsAFile
    BY DEF CallInv, FilesInv
<1>2. ASSUME UNCHANGED <<file, backups>>, EditsAFile' PROVE FilesInv'
    BY <1>1, <1>2 DEF FilesInv, FilesTyped, FilesBounded
<1>3. ASSUME NEW d, Disturbing(d) PROVE EditsAFile'
    BY <1>1, <1>3 DEF Disturbing, EditsAFile, CallTyped, IsCall
<1>4. CASE UNCHANGED toolVars
    BY <1>2, <1>4 DEF toolVars, targetVars, FilesInv, EditsAFile
<1>5. CASE \E by, tool, input, approvals : Asks(by, tool, input, approvals)
    <2>1. toolCall'.pc = "asked"
        BY <1>5 DEF Asks, NoToolCall
    <2> QED
        BY <1>2, <1>5, <2>1 DEF Asks, targetVars, EditsAFile
<1>6. CASE HandleToolCall \/ RecordsTarget \/ UserAnswers \/ CaseAnswers
    <2>1. UNCHANGED <<file, backups>>
        BY <1>6 DEF HandleToolCall, RecordsTarget, UserAnswers, CaseAnswers, targetVars
    <2>2. NoToolCall.pc = "idle"
        BY DEF NoToolCall
    <2>3. ASSUME HandleToolCall PROVE EditsAFile'
        BY <1>1, <2>2, <2>3 DEF HandleToolCall, CallTyped, IsCall, EditsAFile
    <2>4. ASSUME RecordsTarget PROVE EditsAFile'
        BY <1>1, <2>4 DEF RecordsTarget, CallTyped, IsCall, EditsAFile
    <2>5. ASSUME UserAnswers PROVE EditsAFile'
        BY <1>1, <2>2, <2>5 DEF UserAnswers, CallTyped, IsCall, EditsAFile
    <2>6. ASSUME CaseAnswers PROVE EditsAFile'
        BY <1>1, <2>2, <2>6 DEF CaseAnswers, CallTyped, IsCall, EditsAFile
    <2> QED
        BY <1>2, <1>6, <2>1, <2>3, <2>4, <2>5, <2>6
<1>7. CASE Executes
    <2>1. PICK target : target = ExecutorTarget
        OBVIOUS
    <2>2. target \in Targets \cup {None}
        BY <1>1, <2>1 DEF ExecutorTarget, SurroundingsTyped, CallTyped, IsCall
    <2>3. toolCall' = IF MayRun(target) THEN Performing(target) ELSE NoToolCall
        BY <1>7, <2>1 DEF Executes
    <2>4. ASSUME toolCall'.pc \in {"editing", "backed_up"}
          PROVE  /\ MayRun(target) /\ toolCall.tool \in EditTools
                 /\ toolCall'.ranOn = target
        <3>1. MayRun(target) /\ toolCall' = Performing(target)
            BY <2>3, <2>4 DEF NoToolCall
        <3>2. toolCall.tool \in EditTools
            BY <1>1, <2>4, <3>1
            DEF Performing, RunsBash, RunsCommand, CallTyped, IsCall
        <3>3. toolCall.tool # "bash" /\ toolCall.tool \notin CommandTools
            BY <3>2 DEF EditTools, CommandTools
        <3> QED
            BY <1>1, <3>1, <3>2, <3>3 DEF Performing, CallTyped, IsCall
    <2>5. EditsAFile'
        BY <2>2, <2>4, EditingNeedsATarget DEF EditsAFile
    <2> QED
        BY <1>2, <1>7, <2>5 DEF Executes, targetVars
<1>8. CASE BacksUp \/ WritesFile
    <2>1. PICK t \in Targets : t = toolCall.ranOn
        BY <1>1, <1>8 DEF BacksUp, WritesFile, EditsAFile
    <2>2. FilesTyped' /\ FilesBounded'
        BY <1>1, <1>8, <2>1, FilesChange DEF BacksUp, WritesFile
    <2>3. EditsAFile'
        BY <1>1, <1>8, <2>1 DEF BacksUp, WritesFile, EditsAFile, CallTyped, IsCall
    <2> QED
        BY <2>2, <2>3 DEF FilesInv
<1>9. CASE \/ \E t \in Targets \cup {None} : SelectsTarget(t)
           \/ \E t \in Targets : EditsTarget(t) \/ DeletesTarget(t)
           \/ TurnsLink
    BY <1>2, <1>3, <1>9
    DEF SelectsTarget, EditsTarget, DeletesTarget, TurnsLink, targetVars
<1>10. CASE \E t \in Targets : OtherWrites(t)
    <2>1. EditsAFile'
        BY <1>3, <1>10 DEF OtherWrites
    <2>2. FilesTyped' /\ FilesBounded'
        BY <1>1, <1>10, FilesChange DEF OtherWrites
    <2> QED
        BY <2>1, <2>2 DEF FilesInv
<1> QED
    BY <1>4, <1>5, <1>6, <1>7, <1>8, <1>9, <1>10 DEF ToolNext

\* The call, the projects, their files and what was backed up keep their
\* types.
THEOREM CallsAreTyped == ToolSpec => []ToolTypeOK
<1> DEFINE Counts == toolCalls \in Nat /\ toolEdits \in Nat
<1>1. ToolInit => Counts /\ FilesInv
    <2> SUFFICES ASSUME ToolInit PROVE Counts /\ FilesInv
        OBVIOUS
    <2>1. FilesTyped /\ EditsAFile
        BY DEF ToolInit, NoToolCall, FilesTyped, EditsAFile
    <2>2. FilesBounded
        <3>1. 1 \in Nat /\ \A t \in Targets : file[t] <= 1
            BY DEF ToolInit
        <3> QED
            BY <3>1 DEF ToolInit, FilesBounded
    <2> QED
        BY <2>1, <2>2 DEF ToolInit, FilesInv
<1>2. Counts /\ [ToolNext]_toolVars => Counts'
    <2> SUFFICES ASSUME Counts, [ToolNext]_toolVars PROVE Counts'
        OBVIOUS
    <2>1. toolCalls' \in {toolCalls, toolCalls + 1}
        BY DEF ToolNext, toolVars, Asks, HandleToolCall, RecordsTarget, UserAnswers,
           CaseAnswers, Executes, BacksUp, WritesFile, Meanwhile, SelectsTarget,
           EditsTarget, DeletesTarget, OtherWrites, TurnsLink
    <2>2. toolEdits' \in {toolEdits, toolEdits + 1}
        BY DEF ToolNext, toolVars, Asks, HandleToolCall, RecordsTarget, UserAnswers,
           CaseAnswers, Executes, BacksUp, WritesFile, Meanwhile, SelectsTarget,
           EditsTarget, DeletesTarget, OtherWrites, TurnsLink
    <2> QED
        BY <2>1, <2>2
<1>3. CallInv /\ FilesInv /\ Counts => ToolTypeOK
    BY DEF CallInv, CallTyped, IsCall, SurroundingsTyped, FilesInv, FilesTyped,
       ToolTypeOK
<1>4. CallInv /\ FilesInv /\ [ToolNext]_toolVars => FilesInv'
    BY FilesStep
<1> QED
    BY <1>1, <1>2, <1>3, <1>4, CallStart, CallStep, PTL DEF ToolSpec
=============================================================================
