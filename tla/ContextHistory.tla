--------------------------- MODULE ContextHistory ---------------------------
(***************************************************************************)
(* The message history of one agent: what the run loop appends to it, how  *)
(* it is cut when it grows, and how it is repaired before every call of    *)
(* the model.                                                              *)
(*                                                                         *)
(* A message is reduced to its role, the tool calls it makes (the tool     *)
(* round it starts, if any) and the rounds whose results it carries.  The  *)
(* calls of one assistant message are answered together, so one number     *)
(* stands for them all.  Sizes are left out: whether a history is too      *)
(* large is a free choice at every test of a size.                         *)
(***************************************************************************)
EXTENDS Naturals, SequencesExt

CONSTANTS
    MaxRounds,    \* bound on the tool rounds of a behaviour
    MaxChats,     \* bound on the chats, resumed runs, closed streams, resets,
                  \* restarts and batches of background notifications
    SnipAt,       \* max_messages of snip_compact (50 in the code)
    KeepTail,     \* messages reactive_compact keeps (5 in the code)
    MaxTurns,     \* turns of a run (50 in the code)
    MaxRecoveries \* recoveries from an overflow in a run (2 in the code)

ASSUME ContextAssumption ==
    /\ {MaxRounds, MaxChats, MaxRecoveries} \subseteq Nat
    /\ KeepTail \in Nat \ {0} /\ MaxTurns \in Nat \ {0}
    /\ SnipAt \in Nat /\ SnipAt > 4

VARIABLES
    history,      \* self.messages
    stored,       \* the messages in the session row
    saved,        \* the messages in the row of the last run
    runRow,       \* what that row says of the run
    named,        \* does the agent know the id of its run?
    stage,        \* where the run loop is
    turns,        \* turns of this run so far
    recoveries,   \* context_recovery_attempts
    compacting,   \* _pending_compaction
    escalated,    \* recovery.has_escalated
    rounds,       \* tool rounds so far: numbers the next one
    chats,        \* what MaxChats bounds, so far
    cut           \* history: a call and its results were torn apart

contextVars == <<history, stored, saved, runRow, named, stage, turns,
                 recoveries, compacting, escalated, rounds, chats, cut>>
rows == <<stored, saved, runRow, named>>

Rounds == 1..MaxRounds
HistoryMessage ==
    [role : {"user", "assistant"}, calls : SUBSET Rounds,
     results : SUBSET Rounds]
Text(role) == [role |-> role, calls |-> {}, results |-> {}]
Call(c) == [role |-> "assistant", calls |-> {c}, results |-> {}]
Answers(cs) == [role |-> "user", calls |-> {}, results |-> cs]

\* "sent": the model has been called with the history; "tools": it has asked
\* for some; "working": one of them has begun; "replacing": the summary that
\* a tool asked for is being written.
Stage == {"idle", "start", "turn", "compacted", "sent", "overflow", "tools",
          "working", "replacing", "answered"}
\* "running": the row of a run in progress says it is safe to resume.
StoredRun == {"unsafe", "running", "resumable"}

ContextTypeOK ==
    /\ {history, stored, saved} \subseteq Seq(HistoryMessage)
    /\ stage \in Stage /\ runRow \in StoredRun
    /\ {named, compacting, escalated, cut} \subseteq BOOLEAN
    /\ turns \in 0..MaxTurns /\ recoveries \in 0..MaxRecoveries
    /\ rounds \in 0..MaxRounds /\ chats \in 0..MaxChats

ContextInit ==
    /\ history = <<>> /\ stored = <<>> /\ saved = <<>>
    /\ runRow = "unsafe" /\ named = FALSE
    /\ stage = "idle" /\ turns = 0 /\ recoveries = 0
    /\ compacting = FALSE /\ escalated = FALSE
    /\ rounds = 0 /\ chats = 0 /\ cut = FALSE

-----------------------------------------------------------------------------
(* The cuts and the repair *)

HasToolUse(message) == message.calls # {}
IsToolResult(message) == message.results # {}

LastN(h, n) == SubSeq(h, Len(h) - n + 1, Len(h))

\* snip_compact: three messages at the head, a tail, and a marker between
\* them.  A message after a call goes with the head, the message before a
\* result with the tail, as long as the limit leaves room for it.
Snip_Blind(h) ==
    IF Len(h) <= SnipAt THEN h
    ELSE SubSeq(h, 1, 3) \o <<Text("user")>> \o LastN(h, SnipAt - 4)

Snip(h) ==
    LET start == IF HasToolUse(h[3]) THEN 4 ELSE 3
        end == Len(h) - (SnipAt - 4)
        from == IF end > start /\ IsToolResult(h[end + 1])
                THEN end ELSE end + 1
    IN IF Len(h) <= SnipAt THEN h
       ELSE SubSeq(h, 1, start) \o <<Text("user")>>
                \o SubSeq(h, from, Len(h))

\* trim_by_size: the first message, a marker, and the messages from "from"
\* on that fit the budget, whatever they are.
Trim(h, from) ==
    <<h[1], Text("user")>> \o SubSeq(h, from, Len(h))

\* reactive_compact: the last messages are kept, with the calls and then the
\* results that come right before them, and the rest is summarised.
ReactiveKeeps(h) ==
    LET Run(k, Test(_)) ==
            CHOOSE n \in k..Len(h) :
                /\ \A i \in k..(n - 1) : Test(h[Len(h) - i])
                /\ n < Len(h) => ~Test(h[Len(h) - n])
    IN Run(Run(KeepTail, HasToolUse), IsToolResult)

Reactive(h) ==
    IF Len(h) <= KeepTail \/ ReactiveKeeps(h) >= Len(h) THEN h
    ELSE <<Text("user")>> \o LastN(h, ReactiveKeeps(h))

\* _repair_message_sequence: a call without its results in the next message
\* gets error results there, merged into a user message or as a message of
\* their own.  A result without its call stays.
Unanswered(h, i) ==
    IF i = Len(h) THEN h[i].calls ELSE h[i].calls \ h[i + 1].results

Repair_Last(h) ==
    IF h = <<>> \/ ~HasToolUse(Last(h)) THEN h
    ELSE Append(h, Answers(Last(h).calls))

Repair(h) ==
    LET Merged(i) ==
            IF i > 1 /\ h[i].role = "user"
            THEN [h[i] EXCEPT !.results = @ \cup Unanswered(h, i - 1)]
            ELSE h[i]
        Inserted(i) ==
            IF Unanswered(h, i) # {}
               /\ (i = Len(h) \/ h[i + 1].role # "user")
            THEN <<Answers(Unanswered(h, i))>> ELSE <<>>
    IN FlattenSeq([i \in DOMAIN h |-> <<Merged(i)>> \o Inserted(i)])

\* A result without its call in the message right before it.
IsOrphan(h, i) ==
    \E c \in h[i].results : i = 1 \/ c \notin h[i - 1].calls
Orphans(h) == {i \in DOMAIN h : IsOrphan(h, i)}

\* Whether trim_by_size or reactive_compact tore a call from its result.
CutBy(before, after) ==
    cut' = (cut \/ (Orphans(after) # {} /\ Orphans(before) = {}))

-----------------------------------------------------------------------------
(* The run loop *)

\* The messages reach the session row and the run row together.
Stores(h, row) == stored' = h /\ saved' = h /\ runRow' = row

\* _persist_run_state: without the id of a run nothing is stored.
PersistsRun(h, row) ==
    /\ IF named THEN Stores(h, row) ELSE UNCHANGED <<stored, saved, runRow>>
    /\ UNCHANGED named

\* The run is over and its messages are stored.
EndsRun(h, row) ==
    /\ history' = h /\ PersistsRun(h, row)
    /\ stage' = "idle" /\ turns' = 0 /\ recoveries' = 0

\* A chat starts a run with the user's message.
StartsChat ==
    /\ stage = "idle" /\ chats < MaxChats
    /\ chats' = chats + 1
    /\ history' = Append(history, Text("user"))
    /\ Stores(history', "running") /\ named' = TRUE
    /\ stage' = "start"
    /\ UNCHANGED <<turns, recoveries, compacting, escalated, rounds, cut>>

\* resume_stream: the messages of the safe point, and none from the user.
ResumesHistory ==
    /\ stage = "idle" /\ runRow = "resumable" /\ chats < MaxChats
    /\ chats' = chats + 1
    /\ history' = saved /\ Stores(saved, "running") /\ named' = TRUE
    /\ stage' = "start"
    /\ UNCHANGED <<turns, recoveries, compacting, escalated, rounds, cut>>

\* Notifications of background tasks are one more user message.
CollectsNotes ==
    /\ stage = "start"
    /\ stage' = "turn"
    /\ \/ UNCHANGED <<history, chats>>
       \/ /\ chats < MaxChats
          /\ chats' = chats + 1
          /\ history' = Append(history, Text("user"))
    /\ UNCHANGED <<rows, turns, recoveries, compacting, escalated,
                   rounds, cut>>

\* _cancelled_event at the start, before a turn and after the model call.
CancelsLoop ==
    /\ stage \in {"start", "turn", "sent"}
    /\ EndsRun(Append(history, Text("assistant")), "unsafe")
    /\ UNCHANGED <<compacting, escalated, rounds, chats, cut>>

\* _compact_if_needed: old results lose their content (not modelled), a
\* large history is snipped, and one still too large is trimmed.
CompactsIfNeeded ==
    /\ stage = "turn" /\ turns < MaxTurns
    /\ turns' = turns + 1
    /\ \E h \in {history, Snip(history)} :
           /\ \/ history' = h
              \/ \E from \in 3..Len(h) : history' = Trim(h, from)
           /\ CutBy(h, history')
    /\ stage' = "compacted"
    /\ UNCHANGED <<rows, recoveries, compacting, escalated, rounds, chats>>

\* The loop ends at the last turn: the run counts as completed.
LastTurnEnds ==
    /\ stage = "turn" /\ turns = MaxTurns
    /\ EndsRun(history, "unsafe")
    /\ UNCHANGED <<compacting, escalated, rounds, chats, cut>>

\* _call_api: the history is repaired, and the repaired one is kept and sent.
CallsModel ==
    /\ stage = "compacted"
    /\ history' = Repair(history)
    /\ stage' = "sent"
    /\ UNCHANGED <<rows, turns, recoveries, compacting, escalated,
                   rounds, chats, cut>>

\* The model answers in words, which are streamed; then the run ends.
AnswersInWords ==
    /\ stage = "sent"
    /\ history' = Append(history, Text("assistant"))
    /\ stage' = "answered"
    /\ UNCHANGED <<rows, turns, recoveries, compacting, escalated,
                   rounds, chats, cut>>

CompletesRun ==
    /\ stage = "answered"
    /\ EndsRun(history, "unsafe")
    /\ UNCHANGED <<compacting, escalated, rounds, chats, cut>>

\* The model calls tools.
AsksForTools ==
    /\ stage = "sent" /\ rounds < MaxRounds
    /\ rounds' = rounds + 1
    /\ history' = Append(history, Call(rounds'))
    /\ stage' = "tools"
    /\ UNCHANGED <<rows, turns, recoveries, compacting, escalated,
                   chats, cut>>

\* The model call fails, or is too long once too often.
ModelCallFails ==
    /\ stage = "sent"
    /\ EndsRun(history, "resumable")
    /\ UNCHANGED <<compacting, escalated, rounds, chats, cut>>

\* The output limit is raised once, and the next turn tries again.
EscalatesTokens ==
    /\ stage = "sent" /\ ~escalated
    /\ escalated' = TRUE
    /\ stage' = "turn"
    /\ UNCHANGED <<history, rows, turns, recoveries, compacting, rounds,
                   chats, cut>>

PromptIsTooLong ==
    /\ stage = "sent" /\ recoveries < MaxRecoveries
    /\ recoveries' = recoveries + 1
    /\ stage' = "overflow"
    /\ UNCHANGED <<history, rows, turns, compacting, escalated,
                   rounds, chats, cut>>

\* recover_context_overflow: the summary, and a snip if it saved too little;
\* a history that is no smaller then ends the run, as a failed summary does.
RecoversOverflow ==
    /\ stage = "overflow"
    /\ \E h \in {Reactive(history), Snip(Reactive(history))} :
           \/ /\ history' = h /\ stage' = "turn"
              /\ UNCHANGED <<rows, turns, recoveries>>
           \/ EndsRun(h, "resumable")
    /\ CutBy(history, Reactive(history))
    /\ UNCHANGED <<compacting, escalated, rounds, chats>>

RecoveryRaises ==
    /\ stage = "overflow"
    /\ EndsRun(history, "resumable")
    /\ UNCHANGED <<compacting, escalated, rounds, chats, cut>>

-----------------------------------------------------------------------------
(* The tools *)

\* The run is marked unsafe and a tool runs; the tool compact asks for a
\* summary after this round.
RunsATool ==
    /\ stage \in {"tools", "working"}
    /\ PersistsRun(history, "unsafe")
    /\ stage' = "working"
    /\ compacting' \in {compacting, TRUE}
    /\ UNCHANGED <<history, turns, recoveries, escalated, rounds, chats, cut>>

\* The results follow the calls.
AppendsResults ==
    /\ stage = "working"
    /\ history' = Append(history, Answers({rounds}))
    /\ IF compacting
       THEN stage' = "replacing" /\ UNCHANGED rows
       ELSE stage' = "turn" /\ PersistsRun(history', "running")
    /\ UNCHANGED <<turns, recoveries, compacting, escalated, rounds, chats,
                   cut>>

\* The summary the tool asked for replaces everything,
ReplacesHistory ==
    /\ stage = "replacing"
    /\ history' = <<Text("user")>>
    /\ PersistsRun(history', "running")
    /\ stage' = "turn" /\ compacting' = FALSE
    /\ UNCHANGED <<turns, recoveries, escalated, rounds, chats, cut>>

\* or writing it fails and takes the run with it.
SummaryFails ==
    /\ stage = "replacing"
    /\ stage' = "idle" /\ turns' = 0 /\ recoveries' = 0
    /\ UNCHANGED <<history, rows, compacting, escalated, rounds, chats, cut>>

\* A cancellation between two tools answers all that are left.
CancelsTools ==
    /\ stage \in {"tools", "working"}
    /\ EndsRun(history \o <<Answers({rounds}), Text("assistant")>>, "unsafe")
    /\ UNCHANGED <<compacting, escalated, rounds, chats, cut>>

-----------------------------------------------------------------------------
(* What cuts a run off *)

\* The consumer closes the stream: nothing more is appended or stored.
ClosesStream ==
    /\ stage \notin {"idle", "sent", "replacing"} /\ chats < MaxChats
    /\ chats' = chats + 1
    /\ stage' = "idle" /\ turns' = 0 /\ recoveries' = 0
    /\ UNCHANGED <<history, rows, compacting, escalated, rounds, cut>>

\* The reset endpoint, also under a run: the agent forgets its messages and
\* the id of its run, and the session row is gone; the run row stays.  A run
\* about to assign a cut or repaired history undoes the first of these.
ResetsHistory ==
    /\ chats < MaxChats
    /\ chats' = chats + 1
    /\ \/ history' = <<>>
       \/ stage \in {"turn", "compacted", "overflow"} /\ UNCHANGED history
    /\ stored' = <<>> /\ named' = FALSE
    /\ compacting' = FALSE /\ escalated' = FALSE
    /\ cut' = (cut \/ stage \in {"tools", "working"})
    /\ UNCHANGED <<saved, runRow, stage, turns, recoveries, rounds>>

\* The server restarts: a new agent takes the stored messages, and the run
\* in progress is interrupted.
Restarts ==
    /\ chats < MaxChats
    /\ chats' = chats + 1
    /\ history' = stored
    /\ runRow' = IF runRow = "running" THEN "resumable" ELSE runRow
    /\ stage' = "idle" /\ turns' = 0 /\ recoveries' = 0
    /\ named' = FALSE /\ compacting' = FALSE /\ escalated' = FALSE
    /\ UNCHANGED <<stored, saved, rounds, cut>>

ContextNext ==
    \/ StartsChat \/ ResumesHistory \/ CollectsNotes \/ CancelsLoop
    \/ CompactsIfNeeded \/ LastTurnEnds \/ CallsModel
    \/ AnswersInWords \/ CompletesRun \/ AsksForTools \/ ModelCallFails
    \/ EscalatesTokens \/ PromptIsTooLong \/ RecoversOverflow \/ RecoveryRaises
    \/ RunsATool \/ AppendsResults \/ ReplacesHistory \/ SummaryFails
    \/ CancelsTools \/ ClosesStream \/ ResetsHistory \/ Restarts

ContextSpec == ContextInit /\ [][ContextNext]_contextVars

-----------------------------------------------------------------------------
(* Properties *)

\* Every request to the model answers each call in the message right after
\* it, whatever was cancelled, cut off, reset, resumed, restored or snipped
\* before; and it has no result without its call (tool_loop.py
\* _repair_message_sequence and snip_compact's boundaries), unless one of the
\* three things that tear them apart has happened: trim_by_size,
\* reactive_compact, or a reset between a call and its results.
SentPairsHold ==
    stage = "sent" =>
        /\ \A i \in DOMAIN history : Unanswered(history, i) = {}
        /\ cut \/ Orphans(history) = {}

\* tool_loop.py:117: calls and results that do not match are repaired
\* before the model is called.  Violated: nothing removes a result whose
\* call a reset emptied, or trim_by_size or reactive_compact dropped.
EveryResultHasItsCall == stage = "sent" => Orphans(history) = {}
=============================================================================
