-------------------------- MODULE Sessions_proofs --------------------------
(***************************************************************************)
(* Proofs about MCSessions, the composition of what an agent keeps and     *)
(* does: a behaviour of it is one of each part, so the theorems about the  *)
(* parts hold of it.                                                       *)
(***************************************************************************)
EXTENDS MCSessions, RunRecovery_proofs, SessionManager_proofs,
        ContextHistory_proofs, MemorySystem_proofs, ToolCalls_proofs

\* What exercises the five modules one at a time behaves like each of them.
THEOREM SessionsAreEach ==
    SessionsSpec => /\ RecoverySpec /\ SessionSpec /\ ContextSpec
                    /\ MemorySpec /\ ToolSpec
<1> DEFINE Steps == \/ RecoverySteps \/ SessionSteps
                    \/ ContextSteps \/ MemorySteps \/ ToolSteps
<1> USE DEF sessionsVars, RecoverySteps, SessionSteps, ContextSteps, MemorySteps, ToolSteps
<1>1. [Steps]_sessionsVars => [RecoveryNext]_recoveryVars
    OBVIOUS
<1>2. [Steps]_sessionsVars => [SessionNext]_sessionVars
    OBVIOUS
<1>3. [Steps]_sessionsVars => [ContextNext]_contextVars
    OBVIOUS
<1>4. [Steps]_sessionsVars => [MemoryNext]_memoryVars
    OBVIOUS
<1>5. [Steps]_sessionsVars => [ToolNext]_toolVars
    OBVIOUS
<1>6. SessionsInit => /\ RecoveryInit /\ SessionInit /\ ContextInit
                      /\ MemoryInit /\ ToolInit
    BY DEF SessionsInit
<1> QED
    BY <1>1, <1>2, <1>3, <1>4, <1>5, <1>6, PTL
    DEF SessionsSpec, RecoverySpec, SessionSpec, ContextSpec, MemorySpec, ToolSpec

\* Runs, streams, agents, chats, rows, messages, memories and calls keep their
\* types.
THEOREM SessionsAreTyped == SessionsSpec => []SessionsTypeOK
<1>1. RecoveryInv => RecoveryTypeOK
    BY DEF RecoveryInv, StreamInv
<1>2. SessionInv => SessionTypeOK
    BY DEF SessionInv
<1>3. RecoveryTypeOK /\ SessionTypeOK /\ ContextTypeOK /\ MemoryTypeOK /\ ToolTypeOK
          => SessionsTypeOK
    BY DEF SessionsTypeOK
<1> QED
    BY <1>1, <1>2, <1>3, SessionsAreEach, RecoveryInvariant, SessionCorrect,
       HistoryIsTyped, MemoryIsTyped, CallsAreTyped, PTL
=============================================================================
