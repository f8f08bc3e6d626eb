----------------------------- MODULE MCSessions -----------------------------
(***************************************************************************)
(* What an agent keeps and does, for TLC: its runs (run recovery), its     *)
(* session (the session manager), its message history, its memory and its  *)
(* tool calls.  The five share no modelled state, so a behaviour exercises *)
(* one of them, chosen at the start ("part"), and leaves the others in     *)
(* their initial states.                                                   *)
(***************************************************************************)
EXTENDS RunRecovery, SessionManager, ContextHistory, MemorySystem,
        ToolCalls

CONSTANTS
    Parts,      \* the parts to exercise
    c1, c2, c3, \* contents of memory records
    e1, v1, v2  \* the key of an entity and its values

\* Contents that are near duplicates, and that are the same by the measure
\* of the search; the measure depends on the order of its arguments.
NearlySame == {<<c1, c2>>, <<c2, c1>>}
SameText == {<<c1, c2>>}

\* What callers say of a new memory: a fact, an entity without a key, and
\* one with either value of the key.
FactsAndEntities ==
    {<<FALSE, None, None>>, <<TRUE, None, None>>,
     <<TRUE, e1, v1>>, <<TRUE, e1, v2>>}

VARIABLE part

sessionsVars == <<part, recoveryVars, sessionVars, contextVars, memoryVars,
                  toolVars>>

SessionsInit ==
    /\ part \in Parts
    /\ RecoveryInit
    /\ SessionInit
    /\ ContextInit
    /\ MemoryInit
    /\ ToolInit
    /\ part # "tools" => selected = None /\ ~linked

RecoverySteps ==
    /\ part = "recovery" /\ RecoveryNext
    /\ UNCHANGED <<part, sessionVars, contextVars, memoryVars,
                   toolVars>>

SessionSteps ==
    /\ part = "sessions" /\ SessionNext
    /\ UNCHANGED <<part, recoveryVars, contextVars, memoryVars,
                   toolVars>>

ContextSteps ==
    /\ part = "context" /\ ContextNext
    /\ UNCHANGED <<part, recoveryVars, sessionVars, memoryVars,
                   toolVars>>

\* Nothing is loaded after the last operation,
MemorySteps ==
    /\ part = "memory" /\ memoryOps < MaxMemoryOps /\ MemoryNext
    /\ UNCHANGED <<part, recoveryVars, sessionVars, contextVars,
                   toolVars>>

\* and nothing is edited after the last call.
ToolSteps ==
    /\ part = "tools" /\ ToolNext
    /\ toolCall.pc \in {"idle", "ran"} => toolCalls < MaxToolCalls
    /\ UNCHANGED <<part, recoveryVars, sessionVars, contextVars,
                   memoryVars>>

SessionsSpec ==
    /\ SessionsInit
    /\ [][\/ RecoverySteps \/ SessionSteps
          \/ ContextSteps \/ MemorySteps \/ ToolSteps]_sessionsVars
    /\ RecoveryFairness
    /\ SessionFairness

-----------------------------------------------------------------------------

\* The state of every module stays within its types.
SessionsTypeOK ==
    /\ RecoveryTypeOK /\ SessionTypeOK
    /\ ContextTypeOK /\ MemoryTypeOK /\ ToolTypeOK

\* Every accepted chat or resume stream ends (RunRecovery), and every
\* accepted chat ends and releases run_lock (SessionManager).
StreamsEnd == RunsEnd /\ ChatsEnd
=============================================================================
