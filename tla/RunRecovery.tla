----------------------------- MODULE RunRecovery -----------------------------
(***************************************************************************)
(* Recovery of agent runs: the agent_runs row a run keeps while it calls   *)
(* the model and tools, the marking of stale runs at startup, and the      *)
(* endpoint that resumes a run from its last safe point.                   *)
(*                                                                         *)
(* One server and one session.  A chat request is one run, whose id is the *)
(* chat.  A conversation is the set of tool calls whose results it         *)
(* contains: nothing else in it decides what a resumed run may repeat.     *)
(* Chat and resume streams are threads that hold the session's run_lock;   *)
(* the resume endpoint itself is a coroutine without an await, so no other *)
(* handler runs between its check and its update (variable handler).       *)
(***************************************************************************)
EXTENDS Naturals, FiniteSets, Base

CONSTANTS
    RunChats,     \* chat requests, each one agent run
    Resumes,      \* requests to resume a run
    Calls,        \* tool_use ids the model may produce (bounds the turns)
    MaxCrashes,   \* bound on crashes of the server
    MaxResets     \* bound on resets of the session

Streams == RunChats \cup Resumes

ASSUME RecoveryAssumption ==
    /\ RunChats \cap Resumes = {}
    /\ None \notin Streams
    /\ MaxCrashes \in Nat
    /\ MaxResets \in Nat

VARIABLES
    runRows,   \* the agent_runs table: [RunChats -> row or NoRow]
    agent,     \* the session's agent: current_run_id and messages
    stream,    \* the thread of each chat and resume request
    runLock,   \* the stream that holds run_lock
    handler,   \* the resume request that occupies the event loop
    call,      \* the run and the state of each tool call
    alive,     \* is the server up?
    crashes,   \* number of crashes
    resets,    \* number of resets
    orphaned,  \* history: runs that a reset interrupted
    forgotten  \* history: calls whose results a compaction took

recoveryVars == <<runRows, agent, stream, runLock, handler, call, alive,
                  crashes, resets, orphaned, forgotten>>

RunStatus == {"running", "completed", "failed", "canceled", "interrupted"}
TerminalStatus == {"completed", "failed", "canceled", "interrupted"}
ResumableStatus == {"interrupted", "failed", "canceled"}

RunRow == [status : RunStatus \cup {"absent"}, safe : BOOLEAN,
           messages : SUBSET Calls]
NoRow == [status |-> "absent", safe |-> FALSE, messages |-> {}]

\* "saving" is a stream inside _persist_run_state: "save" is the status and
\* the flag it will write, "run" the id it has read, "next" where it goes on.
StreamPc == {"new", "accepted", "queued", "creating", "saving", "model",
             "tools", "calling", "asking", "asked", "done"}
Saved == [status : RunStatus, safe : BOOLEAN]
Unsafe == [status |-> "running", safe |-> FALSE]
Safe == [status |-> "running", safe |-> TRUE]

\* "target" is the run the stream executes; "snap" the messages a resume
\* request has read; "todo" the calls of the response not reached yet;
\* "results" those whose results are not in the conversation yet; "now" the
\* call being executed.
Stream == [pc : StreamPc, next : StreamPc, target : RunChats \cup {None},
           run : RunChats \cup {None}, save : Saved, snap : SUBSET Calls,
           todo : SUBSET Calls, results : SUBSET Calls,
           now : Calls \cup {None}]

RecoveryTypeOK ==
    /\ runRows \in [RunChats -> RunRow]
    /\ agent \in [run : RunChats \cup {None}, messages : SUBSET Calls]
    /\ stream \in [Streams -> Stream]
    /\ runLock \in Streams \cup {None}
    /\ handler \in Resumes \cup {None}
    /\ call \in [Calls -> [run : RunChats \cup {None},
                           state : {"unused", "listed", "asked", "started"}]]
    /\ alive \in BOOLEAN
    /\ crashes \in 0..MaxCrashes
    /\ resets \in 0..MaxResets
    /\ orphaned \subseteq RunChats
    /\ forgotten \subseteq Calls

NewStream == [pc |-> "new", next |-> "new", target |-> None, run |-> None,
              save |-> Safe, snap |-> {}, todo |-> {}, results |-> {},
              now |-> None]
EndedStream == [NewStream EXCEPT !.pc = "done"]
NewAgent == [run |-> None, messages |-> {}]

RecoveryInit ==
    /\ runRows = [r \in RunChats |-> NoRow]
    /\ agent = NewAgent
    /\ stream = [x \in Streams |-> NewStream]
    /\ runLock = None
    /\ handler = None
    /\ call = [c \in Calls |-> [run |-> None, state |-> "unused"]]
    /\ alive = TRUE
    /\ crashes = 0
    /\ resets = 0
    /\ orphaned = {}
    /\ forgotten = {}

tables == <<call, alive, crashes, resets, orphaned, forgotten>>

At(x, pc) == alive /\ stream[x].pc = pc

-----------------------------------------------------------------------------
(* Persisting.                                                             *)

\* _persist_run_state: read current_run_id; without one nothing is saved.
BeginSave(x, record, save, next) ==
    stream' = [stream EXCEPT ![x] =
        IF agent.run = None
        THEN [record EXCEPT !.pc = next]
        ELSE [record EXCEPT !.pc = "saving", !.run = agent.run,
                            !.save = save, !.next = next]]

\* The second half: the row takes the messages the agent has by now.
Saves(x) ==
    /\ At(x, "saving")
    /\ runRows' = [runRows EXCEPT ![stream[x].run] =
           [status |-> stream[x].save.status, safe |-> stream[x].save.safe,
            messages |-> agent.messages]]
    /\ stream' = [stream EXCEPT ![x].pc = stream[x].next, ![x].next = "new",
                                ![x].run = None, ![x].save = Safe]
    /\ UNCHANGED <<agent, runLock, handler, tables>>

\* The generator is exhausted: run_lock is released.
Leave_Held(x) ==
    /\ At(x, "done")
    /\ runLock = x
    /\ stream[x] # EndedStream
    /\ stream' = [stream EXCEPT ![x] = EndedStream]
    /\ UNCHANGED <<runRows, agent, runLock, handler, tables>>

Leave(x) ==
    /\ At(x, "done")
    /\ runLock = x
    /\ runLock' = None
    /\ stream' = [stream EXCEPT ![x] = EndedStream]
    /\ UNCHANGED <<runRows, agent, handler, tables>>

-----------------------------------------------------------------------------
(* A chat stream.                                                          *)

RunChatArrives(x) ==
    /\ At(x, "new")
    /\ handler = None
    /\ stream' = [stream EXCEPT ![x].pc = "queued", ![x].target = x]
    /\ UNCHANGED <<runRows, agent, runLock, handler, tables>>

\* Acquire run_lock, take a fresh run id, append the message.
ChatStarts(x) ==
    /\ At(x, "queued")
    /\ runLock = None
    /\ runLock' = x
    /\ agent' = [agent EXCEPT !.run = x]
    /\ stream' = [stream EXCEPT ![x].pc = "creating"]
    /\ UNCHANGED <<runRows, handler, tables>>

\* create_run stores the first safe point; an id that a reset has emptied
\* raises and ends the stream.
CreatesRun(x) ==
    /\ At(x, "creating")
    /\ IF agent.run = None
       THEN /\ stream' = [stream EXCEPT ![x].pc = "done"]
            /\ UNCHANGED runRows
       ELSE /\ stream' = [stream EXCEPT ![x].pc = "model"]
            /\ runRows' = [runRows EXCEPT ![agent.run] =
                   [status |-> "running", safe |-> TRUE,
                    messages |-> agent.messages]]
    /\ UNCHANGED <<agent, runLock, handler, tables>>

-----------------------------------------------------------------------------
(* The agent loop.                                                         *)

\* The model answers without a tool call: the run is completed.
ModelAnswers(x) ==
    /\ At(x, "model")
    /\ BeginSave(x, stream[x], [status |-> "completed", safe |-> FALSE],
                 "done")
    /\ UNCHANGED <<runRows, agent, runLock, handler, tables>>

\* The model call fails and its recovery is exhausted: the conversation is
\* as it was before the call, hence still a safe point.
ModelFails(x) ==
    /\ At(x, "model")
    /\ BeginSave(x, stream[x], [status |-> "failed", safe |-> TRUE], "done")
    /\ UNCHANGED <<runRows, agent, runLock, handler, tables>>

\* The model asks for tool calls; their ids are fresh.
ModelCallsTools(x) ==
    /\ At(x, "model")
    /\ \E cs \in (SUBSET {c \in Calls : call[c].state = "unused"}) \ {{}} :
         /\ stream' = [stream EXCEPT ![x].pc = "tools", ![x].todo = cs,
                                     ![x].results = {}]
         /\ call' = [c \in Calls |->
                IF c \in cs
                THEN [run |-> stream[x].target, state |-> "listed"]
                ELSE call[c]]
    /\ UNCHANGED <<runRows, agent, runLock, handler, alive, crashes, resets,
                   orphaned, forgotten>>

\* cancel_event is set at one of the places where the loop looks at it.  The
\* calls not reached are answered with an error; the flag is not safe.
CancelsRun(x) ==
    /\ At(x, "model") \/ (At(x, "tools") /\ stream[x].todo # {})
    /\ agent' = [agent EXCEPT !.messages =
           @ \cup stream[x].results \cup stream[x].todo]
    /\ BeginSave(x, [stream[x] EXCEPT !.results = {}, !.todo = {}],
                 [status |-> "canceled", safe |-> FALSE], "done")
    /\ UNCHANGED <<runRows, runLock, handler, tables>>

\* Before a call the row is marked unsafe.
MarksUnsafe_Kept(x) ==
    /\ At(x, "tools")
    /\ \E c \in stream[x].todo :
         stream' = [stream EXCEPT ![x].pc = "calling", ![x].now = c,
                                  ![x].todo = @ \ {c}]
    /\ UNCHANGED <<runRows, agent, runLock, handler, tables>>

MarksUnsafe(x) ==
    /\ At(x, "tools")
    /\ \E c \in stream[x].todo :
         BeginSave(x, [stream[x] EXCEPT !.now = c, !.todo = @ \ {c}],
                   Unsafe, "calling")
    /\ UNCHANGED <<agent, runRows, runLock, handler, tables>>

\* The result of the call joins those of the response.
Answered(x) ==
    stream' = [stream EXCEPT ![x].pc = "tools", ![x].now = None,
                             ![x].results = @ \cup {stream[x].now}]

\* The tool runs, at once or after an approval.
ToolRuns(x) ==
    /\ At(x, "calling") \/ At(x, "asked")
    /\ call[stream[x].now].state \in {"listed", "asked"}
    /\ call' = [call EXCEPT ![stream[x].now].state = "started"]
    /\ Answered(x)
    /\ UNCHANGED <<runRows, agent, runLock, handler, alive, crashes, resets,
                   orphaned, forgotten>>

\* The tool asks for an approval: the action is created and announced.
ToolAsksApproval(x) ==
    /\ At(x, "calling")
    /\ call' = [call EXCEPT ![stream[x].now].state = "asked"]
    /\ stream' = [stream EXCEPT ![x].pc = "asking"]
    /\ UNCHANGED <<runRows, agent, runLock, handler, alive, crashes, resets,
                   orphaned, forgotten>>

\* Then the row is written again, still unsafe, and the run waits.
SavesWaiting(x) ==
    /\ At(x, "asking")
    /\ BeginSave(x, stream[x], Unsafe, "asked")
    /\ UNCHANGED <<runRows, agent, runLock, handler, tables>>

\* The call is refused, by the policy or by a person, or its wait ends.
ToolIsRefused(x) ==
    /\ At(x, "calling") \/ At(x, "asked")
    /\ call' = [call EXCEPT ![stream[x].now].state = "listed"]
    /\ Answered(x)
    /\ UNCHANGED <<runRows, agent, runLock, handler, alive, crashes, resets,
                   orphaned, forgotten>>

Compact(msgs, kept) ==
    /\ agent' = [agent EXCEPT !.messages = kept]
    /\ forgotten' = forgotten \cup (msgs \ kept)
    /\ UNCHANGED <<call, alive, crashes, resets, orphaned>>

\* All calls are answered: the results join the conversation.  If one of the
\* calls asked for a compaction, a summary takes the place of everything.
\* Then the row is a safe point again.
ToolsDone(x) ==
    /\ At(x, "tools")
    /\ stream[x].todo = {}
    /\ LET msgs == agent.messages \cup stream[x].results
       IN  \E kept \in {msgs, {}} : Compact(msgs, kept)
    /\ BeginSave(x, [stream[x] EXCEPT !.results = {}], Safe, "model")
    /\ UNCHANGED <<runRows, runLock, handler>>

\* Writing that summary may fail: the stream ends, the row stays as it is.
CompactionFails(x) ==
    /\ At(x, "tools")
    /\ stream[x].todo = {}
    /\ agent' = [agent EXCEPT !.messages = @ \cup stream[x].results]
    /\ stream' = [stream EXCEPT ![x] = EndedStream]
    /\ UNCHANGED <<runRows, runLock, handler, tables>>

\* Before the model is called, and when it finds the conversation too long,
\* old results are cut, dropped or summarised.
CompactsHistory(x) ==
    /\ At(x, "model")
    /\ \E kept \in SUBSET agent.messages : Compact(agent.messages, kept)
    /\ UNCHANGED <<runRows, stream, runLock, handler>>

\* The client is gone: the generator is closed where it is suspended, the
\* row stays as it is.
StreamCloses(x) ==
    /\ At(x, "model") \/ At(x, "tools") \/ At(x, "asking")
    /\ stream' = [stream EXCEPT ![x] = EndedStream]
    /\ UNCHANGED <<runRows, agent, runLock, handler, tables>>

\* A pending action outlives its run: the confirm endpoint executes it even
\* when nobody waits for the result any more.
LateApproval(c) ==
    /\ alive
    /\ call[c].state = "asked"
    /\ \A x \in Streams : stream[x].now # c \/ stream[x].pc = "done"
    /\ call' = [call EXCEPT ![c].state = "started"]
    /\ UNCHANGED <<runRows, agent, stream, runLock, handler, alive, crashes,
                   resets, orphaned, forgotten>>

-----------------------------------------------------------------------------
(* Resuming.                                                               *)

IsResumable(row) == row.status \in ResumableStatus /\ row.safe

\* The endpoint reads the row and checks status and flag.
ResumeArrives(x, r) ==
    /\ At(x, "new")
    /\ handler = None
    /\ IsResumable(runRows[r])
    /\ handler' = x
    /\ stream' = [stream EXCEPT ![x].pc = "accepted", ![x].target = r,
                                ![x].snap = runRows[r].messages]
    /\ UNCHANGED <<runRows, agent, runLock, tables>>

\* mark_resumed: the row is running again and keeps its messages.
Resumed_Kept(row) == row
Resumed_Phase(row) == [row EXCEPT !.status = "resuming", !.safe = TRUE]
Resumed(row) == [row EXCEPT !.status = "running", !.safe = TRUE]

\* The endpoint marks the run and returns the stream.
ResumeMarks(x) ==
    /\ At(x, "accepted")
    /\ runRows' = [runRows EXCEPT ![stream[x].target] = Resumed(@)]
    /\ handler' = None
    /\ stream' = [stream EXCEPT ![x].pc = "queued"]
    /\ UNCHANGED <<agent, runLock, tables>>

\* Acquire run_lock; resume_stream replaces the agent's run and messages,
\* marks the run again and persists the safe point.
ResumeStarts(x) ==
    /\ At(x, "queued")
    /\ runLock = None
    /\ runLock' = x
    /\ agent' = [run |-> stream[x].target, messages |-> stream[x].snap]
    /\ runRows' = [runRows EXCEPT ![stream[x].target] = Resumed(@)]
    /\ stream' = [stream EXCEPT
           ![x].pc = "saving", ![x].run = stream[x].target,
           ![x].save = Safe, ![x].next = "model", ![x].snap = {}]
    /\ UNCHANGED <<handler, tables>>

-----------------------------------------------------------------------------
(* Reset, crash and restart.                                               *)

\* The reset endpoint empties the agent, also under a running stream.
SessionReset ==
    /\ alive
    /\ handler = None
    /\ resets < MaxResets
    /\ resets' = resets + 1
    /\ agent' = NewAgent
    /\ orphaned' = orphaned \cup
           {stream[x].target : x \in {y \in Streams :
                stream[y].pc \notin {"new", "done"}}}
    /\ UNCHANGED <<runRows, stream, runLock, handler, call, alive, crashes,
                   forgotten>>

\* The process ends: its threads and its agent are gone.
ServerCrashes ==
    /\ alive
    /\ crashes < MaxCrashes
    /\ crashes' = crashes + 1
    /\ alive' = FALSE
    /\ agent' = NewAgent
    /\ stream' = [x \in Streams |->
           IF stream[x].pc = "new" THEN NewStream ELSE EndedStream]
    /\ runLock' = None
    /\ handler' = None
    /\ UNCHANGED <<runRows, call, resets, orphaned, forgotten>>

\* interrupt_stale_runs marks every run that is not terminal; the flag says
\* whether its messages are a safe point.
Interrupt_All(row) ==
    IF row.status = "absent" THEN row
    ELSE [row EXCEPT !.status = "interrupted"]

Interrupt(row) ==
    IF row.status \in TerminalStatus \cup {"absent"} THEN row
    ELSE [row EXCEPT !.status = "interrupted"]

ServerRestarts ==
    /\ ~alive
    /\ alive' = TRUE
    /\ runRows' = [r \in RunChats |-> Interrupt(runRows[r])]
    /\ UNCHANGED <<agent, stream, runLock, handler, call, crashes, resets,
                   orphaned, forgotten>>

-----------------------------------------------------------------------------

ChatProceeds(x) == ChatStarts(x) \/ CreatesRun(x)

ResumeProceeds(x) == ResumeMarks(x) \/ ResumeStarts(x)

LoopProceeds(x) ==
    \/ Saves(x) \/ Leave(x)
    \/ ModelAnswers(x) \/ ModelFails(x) \/ ModelCallsTools(x)
    \/ MarksUnsafe(x) \/ ToolRuns(x) \/ ToolAsksApproval(x)
    \/ SavesWaiting(x) \/ ToolIsRefused(x) \/ ToolsDone(x)

\* Threads are scheduled, the model and the tools answer, and nobody waits
\* forever for an approval.
RecoveryFairness ==
    /\ \A x \in RunChats : WF_recoveryVars(ChatProceeds(x))
    /\ \A x \in Resumes : WF_recoveryVars(ResumeProceeds(x))
    /\ \A x \in Streams : WF_recoveryVars(LoopProceeds(x))

RecoveryNext ==
    \/ \E x \in RunChats : RunChatArrives(x) \/ ChatProceeds(x)
    \/ \E x \in Resumes :
         (\E r \in RunChats : ResumeArrives(x, r)) \/ ResumeProceeds(x)
    \/ \E x \in Streams :
         \/ LoopProceeds(x) \/ CancelsRun(x) \/ StreamCloses(x)
         \/ CompactsHistory(x) \/ CompactionFails(x)
    \/ \E c \in Calls : LateApproval(c)
    \/ SessionReset
    \/ ServerCrashes
    \/ ServerRestarts

RecoverySpec == RecoveryInit /\ [][RecoveryNext]_recoveryVars

-----------------------------------------------------------------------------
(* Properties.                                                             *)

\* A row that may be resumed, and a resume request already accepted, hold
\* the result of every tool call of the run that was started, unless a
\* compaction took it after it had joined the conversation: no resumed run
\* repeats a call because nobody ever told it (pipeline.py:508 and 600).
\* Runs whose session was reset under them are left out.
SafePointIsComplete ==
    \A c \in Calls :
        LET r == call[c].run IN
        call[c].state = "started" /\ c \notin forgotten /\ r \notin orphaned =>
            /\ runRows[r].safe => c \in runRows[r].messages
            /\ \A x \in Resumes :
                 /\ stream[x].pc \in {"accepted", "queued"}
                 /\ stream[x].target = r
                 => c \in stream[x].snap

\* One stream at a time executes a run: a run that is resumed twice, or
\* resumed while it still runs, would repeat its tools.
OneStreamPerRun ==
    \A x, y \in Streams :
        /\ stream[x].pc \notin {"new", "done"}
        /\ stream[y].pc \notin {"new", "done"}
        /\ stream[x].target = stream[y].target
        => x = y

\* A completed run stays completed: neither a restart nor a resume request
\* reopens it.
CompletedIsFinal ==
    [][\A r \in RunChats :
         runRows[r].status = "completed" => runRows'[r].status = "completed"
      ]_recoveryVars

\* Every accepted chat or resume stream ends and lets the next one in: again
\* and again, each has ended or was not accepted yet.
RunsEnd ==
    []<>(\A x \in Streams :
            stream[x].pc \in {"new", "done"} /\ runLock # x)
=============================================================================
