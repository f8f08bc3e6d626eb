------------------------ MODULE ApprovalFlow_proofs ------------------------
(***************************************************************************)
(* Proofs about ApprovalFlow, for any number of processes, chats, endpoint *)
(* requests, actions and turns.                                            *)
(*                                                                         *)
(* The main argument: the right to execute an action is a token.  It comes *)
(* into being with the one transition to confirmed that can succeed, moves *)
(* from the endpoint to the waiting run with the decision, and is used up  *)
(* when the command starts.  The token is fresh (the command has not been  *)
(* started) and unique (one thread holds it), hence one execution.  The    *)
(* proof splits the steps in two: those that create no token and start no  *)
(* command (Keeps, lemmas KeepsStep and KeepsInv) and the five others      *)
(* (lemma ServerStep).                                                     *)
(***************************************************************************)
EXTENDS ApprovalFlow, TLAPS

TypeInv == TypeOK /\ ActionsAreKnown

RunTyped == run \in [Runners -> Run]
ReqTyped == req \in [Handlers -> Req]

\* What a step of the thread of r does to the runs.
LEMMA RunGoto ==
    ASSUME RunTyped, NEW r \in Runners, NEW pc \in RunPc, Goto(r, pc)
    PROVE  /\ RunTyped'
           /\ run'[r].pc = pc
           /\ run'[r].action = run[r].action
           /\ run'[r].ok = run[r].ok
           /\ \A s \in Runners : s # r => run'[s] = run[s]
    BY DEF RunTyped, Run, Goto

LEMMA RunGotoWith ==
    ASSUME RunTyped, NEW r \in Runners, NEW pc \in RunPc, NEW record \in Row,
           GotoWith(r, pc, record)
    PROVE  /\ RunTyped'
           /\ run'[r].pc = pc
           /\ run'[r].action = run[r].action
           /\ run'[r].ok = run[r].ok
           /\ \A s \in Runners : s # r => run'[s] = run[s]
    BY DEF RunTyped, Run, GotoWith

LEMMA RunGotoEnded ==
    ASSUME RunTyped, NEW r \in Runners, NEW pc \in RunPc, NEW ok \in BOOLEAN,
           GotoEnded(r, pc, ok)
    PROVE  /\ RunTyped'
           /\ run'[r].pc = pc
           /\ run'[r].action = run[r].action
           /\ run'[r].ok = ok
           /\ \A s \in Runners : s # r => run'[s] = run[s]
    BY DEF RunTyped, Run, GotoEnded

LEMMA ReqGotos ==
    ASSUME ReqTyped, NEW h \in Handlers, NEW pc \in ReqPc, ReqGoto(h, pc)
    PROVE  /\ ReqTyped'
           /\ req'[h].pc = pc
           /\ req'[h].action = req[h].action
           /\ req'[h].ok = req[h].ok
           /\ \A g \in Handlers : g # h => req'[g] = req[g]
    BY DEF ReqTyped, Req, ReqGoto

LEMMA ReqGotosWith ==
    ASSUME ReqTyped, NEW h \in Handlers, NEW pc \in ReqPc, NEW a \in Actions,
           NEW record \in Row, ReqGotoWith(h, pc, a, record)
    PROVE  /\ ReqTyped'
           /\ req'[h].pc = pc
           /\ req'[h].action = a
           /\ req'[h].ok = req[h].ok
           /\ \A g \in Handlers : g # h => req'[g] = req[g]
    BY DEF ReqTyped, Req, ReqGotoWith

LEMMA ReqGotosEnded ==
    ASSUME ReqTyped, NEW h \in Handlers, NEW pc \in ReqPc, NEW ok \in BOOLEAN,
           ReqGotoEnded(h, pc, ok)
    PROVE  /\ ReqTyped'
           /\ req'[h].pc = pc
           /\ req'[h].action = req[h].action
           /\ req'[h].ok = ok
           /\ \A g \in Handlers : g # h => req'[g] = req[g]
    BY DEF ReqTyped, Req, ReqGotoEnded

LEMMA ToolCall ==
    ASSUME RunTyped, NEW r \in Runners, RunToolCall(r)
    PROVE  /\ RunTyped'
           /\ run'[r].pc = "tool"
           /\ run'[r].action = run[r].action
           /\ run'[r].ok = run[r].ok
           /\ \A s \in Runners : s # r => run'[s] = run[s]
  <1>1. run[r].turn + 1 \in 0..MaxTurns
    BY ConstantsAssumption DEF RunToolCall, RunTyped, Run
  <1>2. run' = [run EXCEPT ![r].pc = "tool", ![r].turn = run[r].turn + 1]
    BY DEF RunToolCall
  <1>3. "tool" \in RunPc
    BY DEF RunPc
  <1> QED
    BY <1>1, <1>2, <1>3 DEF RunTyped, Run

LEMMA Owning ==
    ASSUME RunTyped, NEW r \in Runners, NEW a \in Actions,
           run' = [run EXCEPT ![r].pc = "created", ![r].action = a]
    PROVE  /\ RunTyped'
           /\ run'[r].pc = "created"
           /\ run'[r].action = a
           /\ run'[r].ok = run[r].ok
           /\ \A s \in Runners : s # r => run'[s] = run[s]
  <1>1. "created" \in RunPc
    BY DEF RunPc
  <1> QED
    BY <1>1 DEF RunTyped, Run

\* What the transitions and the recovery write.
LEMMA RowsApplied ==
    ASSUME NEW record \in Row, NEW success \in BOOLEAN
    PROVE  /\ ApplyConfirm(record) \in Row
           /\ ApplyConfirm(record).status = "confirmed"
           /\ ApplyCancel(record) \in Row
           /\ ApplyCancel(record).status = "canceled"
           /\ ApplyFinish(record, success) \in Row
           /\ ApplyFinish(record, success).status =
                  IF success THEN "executed" ELSE "failed"
    BY DEF ApplyConfirm, ApplyCancel, ApplyFinish, Row, Status

LEMMA Recovered ==
    ASSUME NEW row \in Row
    PROVE  /\ RecoverInterrupted(row) \in Row
           /\ RecoverInterrupted(row).status =
                  IF row.status = "confirmed" THEN "failed" ELSE row.status
    BY DEF RecoverInterrupted, Row, Status

LEMMA NewRows ==
    /\ NewAction \in Row /\ NewAction.status = "pending"
    /\ Absent \in Row /\ Absent.status = "absent"
    BY DEF Row, Status, NewAction, Absent

LEMMA WaiterOps ==
    ASSUME NEW w \in [Actions -> WaiterState], NEW a \in Actions,
           NEW approve \in BOOLEAN
    PROVE  /\ Register(w, a) \in [Actions -> WaiterState]
           /\ Clear(w, a) \in [Actions -> WaiterState]
           /\ Resolve(w, a, approve) \in [Actions -> WaiterState]
           /\ NoWaiters(Actions) \in [Actions -> WaiterState]
    BY DEF Register, Clear, Resolve, NoWaiters, WaiterState

LEMMA Fields ==
    ASSUME RunTyped, ReqTyped
    PROVE  /\ \A r \in Runners :
                  /\ run[r].pc \in RunPc /\ run[r].action \in Actions \cup {None}
                  /\ run[r].snap \in Row /\ run[r].ok \in BOOLEAN
           /\ \A h \in Handlers :
                  /\ req[h].pc \in ReqPc /\ req[h].action \in Actions \cup {None}
                  /\ req[h].snap \in Row /\ req[h].ok \in BOOLEAN
    BY DEF RunTyped, ReqTyped, Run, Req

LEMMA Crashed ==
    /\ \A x \in Run : /\ [x EXCEPT !.pc = "ended"] \in Run
                      /\ [x EXCEPT !.pc = "ended"].pc = "ended"
                      /\ [x EXCEPT !.pc = "ended"].action = x.action
    /\ \A x \in Req : /\ [x EXCEPT !.pc = "done"] \in Req
                      /\ [x EXCEPT !.pc = "done"].pc = "done"
                      /\ [x EXCEPT !.pc = "done"].action = x.action
    BY DEF Run, Req, RunPc, ReqPc

LEMMA Located ==
    /\ \A r \in Runners : ProcOf[r] \in Procs
    /\ \A h \in Handlers : ProcOf[h] \in Procs /\ h \in Runners
    BY ConstantsAssumption DEF Runners

\* A step of a run that changes nothing but its pc.
LEMMA OnlyMoves ==
    ASSUME TypeInv, NEW r \in Runners, NEW pc \in RunPc, Goto(r, pc),
           UNCHANGED <<rows, waiters, req, loop, lock, cancel, up, history>>,
           pc \in AwaitingPc \cup {"created"} =>
               run[r].pc \in AwaitingPc \cup {"created"}
    PROVE  TypeInv'
<1> USE DEF TypeInv
<1>1. RunTyped
    BY DEF TypeOK, RunTyped
<1>2. TypeOK'
    BY <1>1, RunGoto DEF TypeOK, RunTyped, history
<1>3. ActionsAreKnown'
    BY <1>1, RunGoto DEF ActionsAreKnown, AwaitingPc
<1> QED
    BY <1>2, <1>3

-----------------------------------------------------------------------------
(* Types.                                                                  *)

\* Every step of the program keeps the types and the actions known.
LEMMA TypeStep == TypeInv /\ [Next]_vars => TypeInv'
<1> SUFFICES ASSUME TypeInv, [Next]_vars PROVE TypeInv'
    OBVIOUS
<1> USE DEF TypeInv
<1>1. RunTyped /\ ReqTyped
    BY DEF TypeOK, RunTyped, ReqTyped
<1>2. ASSUME NEW r \in Runners, ChatArrives(r) PROVE TypeInv'
    <2>1. TypeOK'
        BY <1>1, <1>2, RunGoto
        DEF ChatArrives, RunPc, StartRun, TypeOK, RunTyped, ReqTyped, history
    <2>2. ActionsAreKnown'
        BY <1>1, <1>2, RunGoto
        DEF ChatArrives, RunPc, StartRun, ActionsAreKnown, AwaitingPc
    <2> QED
        BY <2>1, <2>2
<1>3. ASSUME NEW r \in Runners, StreamClosed(r) PROVE TypeInv'
    <2>1. run[r].pc = "registered" => run[r].action \in Actions
        BY <1>3 DEF ActionsAreKnown, AwaitingPc
    <2>2. TypeOK'
        BY <1>1, <1>3, <2>1, RunGoto, WaiterOps, Located
        DEF StreamClosed, RunPc, LeaveRun, TypeOK, RunTyped, ReqTyped, history
    <2>3. ActionsAreKnown'
        BY <1>1, <1>3, <2>1, RunGoto, WaiterOps, Located
        DEF StreamClosed, RunPc, LeaveRun, ActionsAreKnown, AwaitingPc
    <2> QED
        BY <2>2, <2>3
<1>4. ASSUME NEW r \in Runners, RunToolCall(r) PROVE TypeInv'
    <2>1. TypeOK'
        BY <1>1, <1>4, ToolCall
        DEF RunToolCall, RunPc, TypeOK, RunTyped, ReqTyped, history
    <2>2. ActionsAreKnown'
        BY <1>1, <1>4, ToolCall
        DEF RunToolCall, RunPc, ActionsAreKnown, AwaitingPc
    <2> QED
        BY <2>1, <2>2
<1>5. ASSUME NEW r \in Runners, RunEnds(r) PROVE TypeInv'
    <2>1. TypeOK'
        BY <1>1, <1>5, RunGoto
        DEF RunEnds, RunPc, LeaveRun, TypeOK, RunTyped, ReqTyped, history
    <2>2. ActionsAreKnown'
        BY <1>1, <1>5, RunGoto
        DEF RunEnds, RunPc, LeaveRun, ActionsAreKnown, AwaitingPc
    <2> QED
        BY <2>1, <2>2
<1>6. ASSUME NEW r \in Runners, RunPlainTool(r) PROVE TypeInv'
    BY <1>6, OnlyMoves DEF RunPlainTool, RunPc, AwaitingPc
<1>7. ASSUME NEW r \in Runners, RunCreatesAction(r) PROVE TypeInv'
    <2>1. PICK a \in Actions :
              /\ rows' = [rows EXCEPT ![a] = NewAction]
              /\ run' = [run EXCEPT ![r].pc = "created", ![r].action = a]
        BY <1>7 DEF RunCreatesAction
    <2>2. /\ RunTyped'
          /\ run'[r].action = a
          /\ \A s \in Runners : s # r => run'[s] = run[s]
        BY <1>1, <2>1, Owning
    <2>3. rows' \in [Actions -> Row]
        BY <2>1, NewRows DEF TypeOK
    <2>4. TypeOK'
        BY <1>7, <2>2, <2>3 DEF RunCreatesAction, TypeOK, RunTyped, history
    <2>5. ActionsAreKnown'
        BY <1>7, <2>2 DEF RunCreatesAction, ActionsAreKnown
    <2> QED
        BY <2>4, <2>5
<1>8. ASSUME NEW r \in Runners, RunRegisters(r) PROVE TypeInv'
    <2>1. run[r].action \in Actions
        BY <1>8 DEF RunRegisters, ActionsAreKnown, AwaitingPc
    <2>2. TypeOK'
        BY <1>1, <1>8, <2>1, RunGoto, WaiterOps, Located
        DEF RunRegisters, RunPc, TypeOK, RunTyped, ReqTyped, history
    <2>3. ActionsAreKnown'
        BY <1>1, <1>8, <2>1, RunGoto, WaiterOps, Located
        DEF RunRegisters, RunPc, ActionsAreKnown, AwaitingPc
    <2> QED
        BY <2>2, <2>3
<1>9. ASSUME NEW r \in Runners, RunStartsWaiting(r) PROVE TypeInv'
    BY <1>9, OnlyMoves DEF RunStartsWaiting, RunPc, AwaitingPc
<1>10. ASSUME NEW r \in Runners, EvalDecides(r) PROVE TypeInv'
    <2>1. run[r].action \in Actions /\ ProcOf[r] \in Procs
        BY <1>10, Located DEF EvalDecides, ActionsAreKnown, AwaitingPc
    <2>2. PICK approve \in BOOLEAN :
              waiters' = [waiters EXCEPT ![ProcOf[r]] =
                             Resolve(waiters[ProcOf[r]], run[r].action, approve)]
        BY <1>10 DEF EvalDecides
    <2>3. waiters' \in [Procs -> [Actions -> WaiterState]]
        BY <2>1, <2>2, WaiterOps DEF TypeOK
    <2>4. RunTyped' /\ ActionsAreKnown'
        BY <1>1, <1>10, <2>1, RunGoto
        DEF EvalDecides, RunPc, ActionsAreKnown, AwaitingPc
    <2>5. TypeOK'
        BY <1>10, <2>3, <2>4 DEF EvalDecides, TypeOK, RunTyped, history
    <2> QED
        BY <2>4, <2>5
<1>11. ASSUME NEW r \in Runners, RunReadsDecision(r) PROVE TypeInv'
    BY <1>11, OnlyMoves DEF RunReadsDecision, RunPc, AwaitingPc
<1>12. ASSUME NEW r \in Runners, RunWaitCancelled(r) PROVE TypeInv'
    BY <1>12, OnlyMoves DEF RunWaitCancelled, RunPc, AwaitingPc
<1>13. ASSUME NEW r \in Runners, RunWaitTimesOut(r) PROVE TypeInv'
    BY <1>13, OnlyMoves DEF RunWaitTimesOut, RunPc, AwaitingPc
<1>14. ASSUME NEW r \in Runners, RunDenyGet(r) PROVE TypeInv'
    BY <1>14, OnlyMoves DEF RunDenyGet, RunPc, AwaitingPc
<1>15. ASSUME NEW r \in Runners, RunDenyRead(r) PROVE TypeInv'
    <2>1. run[r].action \in Actions
        BY <1>15 DEF RunDenyRead, ActionsAreKnown, AwaitingPc
    <2>2. rows[run[r].action] \in Row
        BY <2>1 DEF TypeOK
    <2>3. TypeOK'
        BY <2>2, <1>1, <1>15, <2>1, RunGoto, RunGotoWith
        DEF RunDenyRead, RunPc, TypeOK, RunTyped, ReqTyped, history
    <2>4. ActionsAreKnown'
        BY <2>2, <1>1, <1>15, <2>1, RunGoto, RunGotoWith
        DEF RunDenyRead, RunPc, ActionsAreKnown, AwaitingPc
    <2> QED
        BY <2>3, <2>4
<1>16. ASSUME NEW r \in Runners, RunDenyCas(r) PROVE TypeInv'
    <2>1. run[r].action \in Actions
        BY <1>16 DEF RunDenyCas, ActionsAreKnown, AwaitingPc
    <2>2. ApplyCancel(run[r].snap) \in Row
        BY <1>1, Fields, RowsApplied
    <2>3. TypeOK'
        BY <2>2, <1>1, <1>16, <2>1, RunGoto
        DEF RunDenyCas, RunPc, TypeOK, RunTyped, ReqTyped, history
    <2>4. ActionsAreKnown'
        BY <2>2, <1>1, <1>16, <2>1, RunGoto
        DEF RunDenyCas, RunPc, ActionsAreKnown, AwaitingPc
    <2> QED
        BY <2>3, <2>4
<1>17. ASSUME NEW r \in Runners, RunReturnsDenied(r) PROVE TypeInv'
    <2>1. run[r].action \in Actions
        BY <1>17 DEF RunReturnsDenied, ActionsAreKnown, AwaitingPc
    <2>2. TypeOK'
        BY <1>1, <1>17, <2>1, RunGoto, WaiterOps, Located
        DEF RunReturnsDenied, RunPc, TypeOK, RunTyped, ReqTyped, history
    <2>3. ActionsAreKnown'
        BY <1>1, <1>17, <2>1, RunGoto, WaiterOps, Located
        DEF RunReturnsDenied, RunPc, ActionsAreKnown, AwaitingPc
    <2> QED
        BY <2>2, <2>3
<1>18. ASSUME NEW r \in Runners, RunApproveGet(r) PROVE TypeInv'
    BY <1>18, OnlyMoves DEF RunApproveGet, RunPc, AwaitingPc
<1>19. ASSUME NEW r \in Runners, RunApproveRead(r) PROVE TypeInv'
    <2>1. run[r].action \in Actions
        BY <1>19 DEF RunApproveRead, ActionsAreKnown, AwaitingPc
    <2>2. rows[run[r].action] \in Row
        BY <2>1 DEF TypeOK
    <2>3. TypeOK'
        BY <2>2, <1>1, <1>19, <2>1, RunGoto, RunGotoWith
        DEF RunApproveRead, RunPc, TypeOK, RunTyped, ReqTyped, history
    <2>4. ActionsAreKnown'
        BY <2>2, <1>1, <1>19, <2>1, RunGoto, RunGotoWith
        DEF RunApproveRead, RunPc, ActionsAreKnown, AwaitingPc
    <2> QED
        BY <2>3, <2>4
<1>20. ASSUME NEW r \in Runners, RunApproveCas(r) PROVE TypeInv'
    <2>1. run[r].action \in Actions
        BY <1>20 DEF RunApproveCas, ActionsAreKnown, AwaitingPc
    <2>2. ApplyConfirm(run[r].snap) \in Row
        BY <1>1, Fields, RowsApplied
    <2>3. TypeOK'
        BY <2>2, <1>1, <1>20, <2>1, RunGoto
        DEF RunApproveCas, RunPc, TypeOK, RunTyped, ReqTyped, history
    <2>4. ActionsAreKnown'
        BY <2>2, <1>1, <1>20, <2>1, RunGoto
        DEF RunApproveCas, RunPc, ActionsAreKnown, AwaitingPc
    <2> QED
        BY <2>3, <2>4
<1>21. ASSUME NEW r \in Runners, RunExecutes(r) PROVE TypeInv'
    <2>1. run[r].action \in Actions
        BY <1>21 DEF RunExecutes, ActionsAreKnown, AwaitingPc
    <2>2. TypeOK'
        BY <1>1, <1>21, <2>1, RunGoto
        DEF RunExecutes, RunPc, TypeOK, RunTyped, ReqTyped, history
    <2>3. ActionsAreKnown'
        BY <1>1, <1>21, <2>1, RunGoto
        DEF RunExecutes, RunPc, ActionsAreKnown, AwaitingPc
    <2> QED
        BY <2>2, <2>3
<1>22. ASSUME NEW r \in Runners, RunExecuted(r) PROVE TypeInv'
    <2>1. run[r].action \in Actions
        BY <1>22 DEF RunExecuted, ActionsAreKnown, AwaitingPc
    <2>2. TypeOK'
        BY <1>1, <1>22, <2>1, RunGotoEnded
        DEF RunExecuted, RunPc, TypeOK, RunTyped, ReqTyped, history
    <2>3. ActionsAreKnown'
        BY <1>1, <1>22, <2>1, RunGotoEnded
        DEF RunExecuted, RunPc, ActionsAreKnown, AwaitingPc
    <2> QED
        BY <2>2, <2>3
<1>23. ASSUME NEW r \in Runners, RunExecuteRaises(r) PROVE TypeInv'
    <2>1. run[r].action \in Actions
        BY <1>23 DEF RunExecuteRaises, ActionsAreKnown, AwaitingPc
    <2>2. TypeOK'
        BY <1>1, <1>23, <2>1, RunGoto
        DEF RunExecuteRaises, RunPc, TypeOK, RunTyped, ReqTyped, history
    <2>3. ActionsAreKnown'
        BY <1>1, <1>23, <2>1, RunGoto
        DEF RunExecuteRaises, RunPc, ActionsAreKnown, AwaitingPc
    <2> QED
        BY <2>2, <2>3
<1>24. ASSUME NEW r \in Runners, RunFinishRead(r) PROVE TypeInv'
    <2>1. run[r].action \in Actions
        BY <1>24 DEF RunFinishRead, ActionsAreKnown, AwaitingPc
    <2>2. rows[run[r].action] \in Row
        BY <2>1 DEF TypeOK
    <2>3. TypeOK'
        BY <2>2, <1>1, <1>24, <2>1, RunGoto, RunGotoWith
        DEF RunFinishRead, RunPc, TypeOK, RunTyped, ReqTyped, history
    <2>4. ActionsAreKnown'
        BY <2>2, <1>1, <1>24, <2>1, RunGoto, RunGotoWith
        DEF RunFinishRead, RunPc, ActionsAreKnown, AwaitingPc
    <2> QED
        BY <2>3, <2>4
<1>25. ASSUME NEW r \in Runners, RunFinishCas(r) PROVE TypeInv'
    <2>1. run[r].action \in Actions
        BY <1>25 DEF RunFinishCas, ActionsAreKnown, AwaitingPc
    <2>2. ApplyFinish(run[r].snap, run[r].ok) \in Row
        BY <1>1, Fields, RowsApplied
    <2>3. TypeOK'
        BY <2>2, <1>1, <1>25, <2>1, RunGoto
        DEF RunFinishCas, RunPc, TypeOK, RunTyped, ReqTyped, history
    <2>4. ActionsAreKnown'
        BY <2>2, <1>1, <1>25, <2>1, RunGoto
        DEF RunFinishCas, RunPc, ActionsAreKnown, AwaitingPc
    <2> QED
        BY <2>3, <2>4
<1>26. ASSUME NEW r \in Runners, RunReturnsResult(r) PROVE TypeInv'
    <2>1. run[r].action \in Actions
        BY <1>26 DEF RunReturnsResult, ActionsAreKnown, AwaitingPc
    <2>2. TypeOK'
        BY <1>1, <1>26, <2>1, RunGoto, WaiterOps, Located
        DEF RunReturnsResult, RunPc, TypeOK, RunTyped, ReqTyped, history
    <2>3. ActionsAreKnown'
        BY <1>1, <1>26, <2>1, RunGoto, WaiterOps, Located
        DEF RunReturnsResult, RunPc, ActionsAreKnown, AwaitingPc
    <2> QED
        BY <2>2, <2>3
<1>27. ASSUME NEW r \in Runners, RunRaises(r) PROVE TypeInv'
    <2>1. run[r].action \in Actions
        BY <1>27 DEF RunRaises, ActionsAreKnown, AwaitingPc
    <2>2. TypeOK'
        BY <1>1, <1>27, <2>1, RunGoto, WaiterOps, Located
        DEF RunRaises, RunPc, LeaveRun, TypeOK, RunTyped, ReqTyped, history
    <2>3. ActionsAreKnown'
        BY <1>1, <1>27, <2>1, RunGoto, WaiterOps, Located
        DEF RunRaises, RunPc, LeaveRun, ActionsAreKnown, AwaitingPc
    <2> QED
        BY <2>2, <2>3
<1>28. ASSUME NEW h \in Handlers, ConfirmCas(h) PROVE TypeInv'
    <2>1. req[h].action \in Actions
        BY <1>28 DEF ConfirmCas, ActionsAreKnown
    <2>2. ApplyConfirm(req[h].snap) \in Row
        BY <1>1, Fields, RowsApplied
    <2>3. TypeOK'
        BY <2>2, <1>1, <1>28, <2>1, ReqGotos
        DEF ConfirmCas, ReqPc, ReleasesLoop, TypeOK, RunTyped, ReqTyped,
            history
    <2>4. ActionsAreKnown'
        BY <2>2, <1>1, <1>28, <2>1, ReqGotos
        DEF ConfirmCas, ReqPc, ReleasesLoop, ActionsAreKnown, AwaitingPc
    <2> QED
        BY <2>3, <2>4
<1>29. ASSUME NEW h \in Handlers, ConfirmResolve(h) PROVE TypeInv'
    <2>1. req[h].action \in Actions
        BY <1>29 DEF ConfirmResolve, ActionsAreKnown
    <2>2. Resolve(waiters[ProcOf[h]], req[h].action, TRUE) \in [Actions -> WaiterState]
        BY <2>1, WaiterOps, Located DEF TypeOK
    <2>3. TypeOK'
        BY <2>2, <1>1, <1>29, <2>1, ReqGotos, WaiterOps, Located
        DEF ConfirmResolve, ReqPc, ReleasesLoop, TypeOK, RunTyped, ReqTyped,
            history
    <2>4. ActionsAreKnown'
        BY <2>2, <1>1, <1>29, <2>1, ReqGotos, WaiterOps, Located
        DEF ConfirmResolve, ReqPc, ReleasesLoop, ActionsAreKnown, AwaitingPc
    <2> QED
        BY <2>3, <2>4
<1>30. ASSUME NEW h \in Handlers, CancelCas(h) PROVE TypeInv'
    <2>1. req[h].action \in Actions
        BY <1>30 DEF CancelCas, ActionsAreKnown
    <2>2. ApplyCancel(req[h].snap) \in Row
        BY <1>1, Fields, RowsApplied
    <2>3. TypeOK'
        BY <2>2, <1>1, <1>30, <2>1, ReqGotos
        DEF CancelCas, ReqPc, ReleasesLoop, TypeOK, RunTyped, ReqTyped,
            history
    <2>4. ActionsAreKnown'
        BY <2>2, <1>1, <1>30, <2>1, ReqGotos
        DEF CancelCas, ReqPc, ReleasesLoop, ActionsAreKnown, AwaitingPc
    <2> QED
        BY <2>3, <2>4
<1>31. ASSUME NEW h \in Handlers, CancelResolve(h) PROVE TypeInv'
    <2>1. req[h].action \in Actions
        BY <1>31 DEF CancelResolve, ActionsAreKnown
    <2>2. TypeOK'
        BY <1>1, <1>31, <2>1, ReqGotos, WaiterOps, Located
        DEF CancelResolve, ReqPc, ReleasesLoop, TypeOK, RunTyped, ReqTyped,
            history
    <2>3. ActionsAreKnown'
        BY <1>1, <1>31, <2>1, ReqGotos, WaiterOps, Located
        DEF CancelResolve, ReqPc, ReleasesLoop, ActionsAreKnown, AwaitingPc
    <2> QED
        BY <2>2, <2>3
<1>32. ASSUME NEW h \in Handlers, HandlerExecutes(h) PROVE TypeInv'
    <2>1. req[h].action \in Actions
        BY <1>32 DEF HandlerExecutes, ActionsAreKnown
    <2>2. TypeOK'
        BY <1>1, <1>32, <2>1, ReqGotos
        DEF HandlerExecutes, ReqPc, TypeOK, RunTyped, ReqTyped, history
    <2>3. ActionsAreKnown'
        BY <1>1, <1>32, <2>1, ReqGotos
        DEF HandlerExecutes, ReqPc, ActionsAreKnown, AwaitingPc
    <2> QED
        BY <2>2, <2>3
<1>33. ASSUME NEW h \in Handlers, HandlerExecuted(h) PROVE TypeInv'
    <2>1. req[h].action \in Actions
        BY <1>33 DEF HandlerExecuted, ActionsAreKnown
    <2>2. TypeOK'
        BY <1>1, <1>33, <2>1, ReqGotosEnded
        DEF HandlerExecuted, ReqPc, TypeOK, RunTyped, ReqTyped, history
    <2>3. ActionsAreKnown'
        BY <1>1, <1>33, <2>1, ReqGotosEnded
        DEF HandlerExecuted, ReqPc, ActionsAreKnown, AwaitingPc
    <2> QED
        BY <2>2, <2>3
<1>34. ASSUME NEW h \in Handlers, HandlerExecuteRaises(h) PROVE TypeInv'
    <2>1. req[h].action \in Actions
        BY <1>34 DEF HandlerExecuteRaises, ActionsAreKnown
    <2>2. TypeOK'
        BY <1>1, <1>34, <2>1, ReqGotosEnded
        DEF HandlerExecuteRaises, ReqPc, TypeOK, RunTyped, ReqTyped, history
    <2>3. ActionsAreKnown'
        BY <1>1, <1>34, <2>1, ReqGotosEnded
        DEF HandlerExecuteRaises, ReqPc, ActionsAreKnown, AwaitingPc
    <2> QED
        BY <2>2, <2>3
<1>35. ASSUME NEW h \in Handlers, HandlerContinues(h) PROVE TypeInv'
    <2>1. req[h].action \in Actions
        BY <1>35 DEF HandlerContinues, ActionsAreKnown
    <2>2. TypeOK'
        BY <1>1, <1>35, <2>1, ReqGotos, RunGoto, Located
        DEF HandlerContinues, ReqPc, StartRun, RunPc, TypeOK, RunTyped,
            ReqTyped, history
    <2>3. ActionsAreKnown'
        BY <1>1, <1>35, <2>1, ReqGotos, RunGoto, Located
        DEF HandlerContinues, ReqPc, StartRun, RunPc, ActionsAreKnown,
            AwaitingPc
    <2> QED
        BY <2>2, <2>3
<1>36. ASSUME NEW h \in Handlers, HandlerSkipsContinuation(h) PROVE TypeInv'
    <2>1. req[h].action \in Actions
        BY <1>36 DEF HandlerSkipsContinuation, ActionsAreKnown
    <2>2. TypeOK'
        BY <1>1, <1>36, <2>1, ReqGotos
        DEF HandlerSkipsContinuation, ReqPc, TypeOK, RunTyped, ReqTyped,
            history
    <2>3. ActionsAreKnown'
        BY <1>1, <1>36, <2>1, ReqGotos
        DEF HandlerSkipsContinuation, ReqPc, ActionsAreKnown, AwaitingPc
    <2> QED
        BY <2>2, <2>3
<1>37. ASSUME NEW h \in Handlers, HandlerContinued(h) PROVE TypeInv'
    <2>1. req[h].action \in Actions
        BY <1>37 DEF HandlerContinued, ActionsAreKnown
    <2>2. TypeOK'
        BY <1>1, <1>37, <2>1, ReqGotos
        DEF HandlerContinued, ReqPc, TypeOK, RunTyped, ReqTyped, history
    <2>3. ActionsAreKnown'
        BY <1>1, <1>37, <2>1, ReqGotos
        DEF HandlerContinued, ReqPc, ActionsAreKnown, AwaitingPc
    <2> QED
        BY <2>2, <2>3
<1>38. ASSUME NEW h \in Handlers, HandlerFinishRead(h) PROVE TypeInv'
    <2>1. req[h].action \in Actions
        BY <1>38 DEF HandlerFinishRead, ActionsAreKnown
    <2>2. rows[req[h].action] \in Row
        BY <2>1 DEF TypeOK
    <2>3. ReqTyped' /\ ActionsAreKnown'
        BY <1>1, <1>38, <2>1, <2>2, ReqGotos, ReqGotosWith
        DEF HandlerFinishRead, ReqPc, ActionsAreKnown
    <2>4. loop' \in [Procs -> Handlers \cup {None}]
        BY <1>38 DEF HandlerFinishRead, TakesLoop, TypeOK
    <2>5. TypeOK'
        BY <1>38, <2>3, <2>4 DEF HandlerFinishRead, TypeOK, ReqTyped, history
    <2> QED
        BY <2>3, <2>5
<1>39. ASSUME NEW h \in Handlers, HandlerFinishCas(h) PROVE TypeInv'
    <2>1. ApplyFinish(req[h].snap, req[h].ok) \in Row
        BY <1>1, Fields, RowsApplied
    <2>2. ReqTyped' /\ ActionsAreKnown'
        BY <1>1, <1>39, ReqGotos DEF HandlerFinishCas, ReqPc, ActionsAreKnown
    <2>3. rows' \in [Actions -> Row]
        BY <1>39, <2>1 DEF HandlerFinishCas, TypeOK
    <2>4. TypeOK'
        BY <1>39, <2>2, <2>3
        DEF HandlerFinishCas, ReleasesLoop, TypeOK, ReqTyped, history
    <2> QED
        BY <2>2, <2>4
<1>40. ASSUME NEW h \in Handlers, NEW a \in Actions, ConfirmRead(h, a)
      PROVE TypeInv'
    <2>1. rows[a] \in Row
        BY DEF TypeOK
    <2>2. ReqTyped' /\ ActionsAreKnown'
        BY <1>1, <1>40, <2>1, ReqGotos, ReqGotosWith
        DEF ConfirmRead, ReadRow, ReqPc, ActionsAreKnown
    <2>3. loop' \in [Procs -> Handlers \cup {None}]
        BY <1>40 DEF ConfirmRead, ReadRow, TakesLoop, TypeOK
    <2>4. TypeOK'
        BY <1>40, <2>2, <2>3
        DEF ConfirmRead, ReadRow, TypeOK, ReqTyped, history
    <2> QED
        BY <2>2, <2>4
<1>41. ASSUME NEW h \in Handlers, NEW a \in Actions, CancelRead(h, a)
      PROVE TypeInv'
    <2>1. rows[a] \in Row
        BY DEF TypeOK
    <2>2. ReqTyped' /\ ActionsAreKnown'
        BY <1>1, <1>41, <2>1, ReqGotos, ReqGotosWith
        DEF CancelRead, ReadRow, ReqPc, ActionsAreKnown
    <2>3. loop' \in [Procs -> Handlers \cup {None}]
        BY <1>41 DEF CancelRead, ReadRow, TakesLoop, TypeOK
    <2>4. TypeOK'
        BY <1>41, <2>2, <2>3 DEF CancelRead, ReadRow, TypeOK, ReqTyped, history
    <2> QED
        BY <2>2, <2>4
<1>42. ASSUME NEW p \in Procs, CancelChat(p) PROVE TypeInv'
    <2>1. TypeOK'
        BY <1>1, <1>42, Fields, WaiterOps, Recovered
        DEF CancelChat, TypeOK, RunTyped, ReqTyped, history
    <2>2. ActionsAreKnown'
        BY <1>1, <1>42, Fields, WaiterOps, Recovered
        DEF CancelChat, ActionsAreKnown, AwaitingPc
    <2> QED
        BY <2>1, <2>2
<1>43. ASSUME NEW p \in Procs, Crash(p) PROVE TypeInv'
    <2>1. /\ RunTyped'
          /\ \A r \in Runners : /\ run'[r].action = run[r].action
                                /\ run'[r].pc \in {run[r].pc, "ended"}
        BY <1>1, <1>43, Crashed DEF Crash, RunTyped
    <2>2. /\ ReqTyped'
          /\ \A h \in Handlers : /\ req'[h].action = req[h].action
                                 /\ req'[h].pc \in {req[h].pc, "done"}
        BY <1>1, <1>43, Crashed DEF Crash, ReqTyped
    <2>3. ActionsAreKnown'
        BY <2>1, <2>2 DEF ActionsAreKnown, AwaitingPc
    <2>4. waiters' \in [Procs -> [Actions -> WaiterState]]
        BY <1>43 DEF Crash, TypeOK, NoWaiters, WaiterState
    <2>5. TypeOK'
        BY <1>43, <2>1, <2>2, <2>4
        DEF Crash, TypeOK, RunTyped, ReqTyped, history
    <2> QED
        BY <2>3, <2>5
<1>44. ASSUME NEW p \in Procs, Restart(p) PROVE TypeInv'
    <2>1. TypeOK'
        BY <1>1, <1>44, Fields, WaiterOps, Recovered
        DEF Restart, TypeOK, RunTyped, ReqTyped, history
    <2>2. ActionsAreKnown'
        BY <1>1, <1>44, Fields, WaiterOps, Recovered
        DEF Restart, ActionsAreKnown, AwaitingPc
    <2> QED
        BY <2>1, <2>2
<1>45. CASE UNCHANGED vars
    BY <1>45 DEF vars, history, TypeOK, ActionsAreKnown
<1> QED
    BY <1>2, <1>3, <1>4, <1>5, <1>6, <1>7, <1>8, <1>9, <1>10, <1>11, <1>12,
       <1>13, <1>14, <1>15, <1>16, <1>17, <1>18, <1>19, <1>20, <1>21, <1>22,
       <1>23, <1>24, <1>25, <1>26, <1>27, <1>28, <1>29, <1>30, <1>31, <1>32,
       <1>33, <1>34, <1>35, <1>36, <1>37, <1>38, <1>39, <1>40, <1>41, <1>42,
       <1>43, <1>44, <1>45
    DEF Next, RunStep, HandlerStep

-----------------------------------------------------------------------------
(* Steps that create no token and start no command.                        *)

\* No row is created or becomes pending again.
RowsKeep ==
    \A a \in Actions :
        /\ rows'[a].status = "absent" => rows[a].status = "absent"
        /\ rows'[a].status \in {"absent", "pending"} =>
               rows[a].status \in {"absent", "pending"}

\* No run gains the right to execute an action.
RunsKeep ==
    /\ \A r \in Runners : run'[r].action = run[r].action
    /\ \A r \in Runners : run'[r].pc \notin {"approve_read", "approve_cas"}
    /\ \A r \in Runners, a \in Actions :
          RunMayExecute(r, a)' => RunMayExecute(r, a)

\* No endpoint gains the right to execute an action.
ReqsKeep ==
    \A h \in Handlers, a \in Actions :
        HandlerMayExecute(h, a)' => HandlerMayExecute(h, a)

Keeps ==
    /\ RowsKeep /\ RunsKeep /\ ReqsKeep
    /\ starts' = starts
    /\ \A a \in Actions : approved[a] => approved'[a]

\* Such a step preserves the invariant.
LEMMA KeepsInv ==
    ASSUME ServerInv, TypeInv', Keeps
    PROVE  ServerInv'
<1> USE DEF ServerInv, TypeInv, Keeps
<1>1. ActionsAreOwned'
    BY DEF RowsKeep, RunsKeep, ActionsAreOwned
<1>2. NeverConfirmsItself'
    BY DEF RunsKeep, NeverConfirmsItself
<1>3. TokenIsFresh'
    <2> SUFFICES ASSUME NEW a \in Actions
                 PROVE /\ rows'[a].status \in {"absent", "pending"} =>
                              starts'[a] = 0
                       /\ \A h \in Handlers : HandlerMayExecute(h, a)' =>
                              /\ rows'[a].status \notin {"absent", "pending"}
                              /\ approved'[a] /\ starts'[a] = 0
                       /\ \A r \in Runners : RunMayExecute(r, a)' =>
                              /\ rows'[a].status \notin {"absent", "pending"}
                              /\ approved'[a] /\ starts'[a] = 0
        BY Zenon DEF TokenIsFresh
    <2> QED
        BY Zenon DEF TokenIsFresh, RowsKeep, RunsKeep, ReqsKeep
<1>4. TokenIsUnique'
    BY Zenon DEF TokenIsUnique, RunsKeep, ReqsKeep
<1>5. AtMostOneExecution' /\ OnlyApprovedExecute'
    BY DEF AtMostOneExecution, OnlyApprovedExecute
<1> QED
    BY <1>1, <1>2, <1>3, <1>4, <1>5

\* What is not changed is kept.
LEMMA RowsSame ==
    ASSUME rows' = rows
    PROVE  RowsKeep
    BY DEF RowsKeep

LEMMA ReqsSame ==
    ASSUME req' = req
    PROVE  ReqsKeep
    BY DEF ReqsKeep, HandlerMayExecute

LEMMA RunsSame ==
    ASSUME run' = run, waiters' = waiters, NeverConfirmsItself
    PROVE  RunsKeep
    BY DEF RunsKeep, RunMayExecute, NeverConfirmsItself

\* One row moves on.
LEMMA RowMoves ==
    ASSUME rows \in [Actions -> Row], NEW a \in Actions, NEW row \in Row,
           rows' = [rows EXCEPT ![a] = row],
           row.status \notin {"absent", "pending"}
    PROVE  RowsKeep
    BY DEF RowsKeep
\* No decision to approve reaches a waiter.
WaitersKeep ==
    \A p \in Procs, a \in Actions :
        waiters'[p][a] = "approved" => waiters[p][a] = "approved"

LEMMA WaitersSame ==
    ASSUME waiters' = waiters
    PROVE  WaitersKeep
    BY DEF WaitersKeep

LEMMA WaiterSet ==
    ASSUME waiters \in [Procs -> [Actions -> WaiterState]],
           NEW p \in Procs, NEW a \in Actions,
           \/ waiters' = [waiters EXCEPT ![p] = Register(waiters[p], a)]
           \/ waiters' = [waiters EXCEPT ![p] = Clear(waiters[p], a)]
           \/ waiters' = [waiters EXCEPT ![p] = Resolve(waiters[p], a, FALSE)]
    PROVE  /\ WaitersKeep
           /\ waiters'[p][a] # "approved"
<1>1. waiters[p] \in [Actions -> WaiterState]
    OBVIOUS
<1>2. PICK w \in {Register(waiters[p], a), Clear(waiters[p], a),
                  Resolve(waiters[p], a, FALSE)} :
          waiters' = [waiters EXCEPT ![p] = w]
    OBVIOUS
<1>3. /\ w[a] # "approved"
      /\ \A b \in Actions : b # a => w[b] = waiters[p][b]
    <2>1. \A b \in Actions :
              /\ Register(waiters[p], a)[b] =
                     IF b = a THEN "undecided" ELSE waiters[p][b]
              /\ Clear(waiters[p], a)[b] =
                     IF b = a THEN "none" ELSE waiters[p][b]
              /\ Resolve(waiters[p], a, FALSE)[b] =
                     IF b # a THEN waiters[p][b] ELSE "rejected"
        BY <1>1 DEF Register, Clear, Resolve
    <2> QED
        BY <1>2, <2>1
<1>4. \A q \in Procs : waiters'[q] = IF q = p THEN w ELSE waiters[q]
    BY <1>2
<1> QED
    BY <1>3, <1>4 DEF WaitersKeep

\* The thread of r goes where it may not execute, or could execute before.
LEMMA RunMoves ==
    ASSUME NEW r \in Runners, NeverConfirmsItself, WaitersKeep,
           run'[r].action = run[r].action,
           \A s \in Runners : s # r => run'[s] = run[s],
           run'[r].pc \notin {"approve_read", "approve_cas"},
           run'[r].pc \notin {"registered", "waiting", "approve_get", "execute"}
               \/ \A a \in Actions : RunMayExecute(r, a)' => RunMayExecute(r, a)
    PROVE  RunsKeep
<1>1. ASSUME NEW s \in Runners, NEW a \in Actions, RunMayExecute(s, a)'
      PROVE  RunMayExecute(s, a)
    BY <1>1, Located DEF RunMayExecute, WaitersKeep
<1> QED
    BY <1>1 DEF RunsKeep, NeverConfirmsItself

\* Every step of the program but five is such a step.
LEMMA KeepsStep ==
    ASSUME Unattended = {}, ServerInv, Next,
           ~ \E r \in Runners : RunCreatesAction(r) \/ RunExecutes(r),
           ~ \E h \in Handlers : ConfirmCas(h) \/ ConfirmResolve(h)
                                \/ HandlerExecutes(h)
    PROVE  Keeps
<1> USE DEF ServerInv
<1>1. RunTyped /\ ReqTyped
    BY DEF TypeOK, RunTyped, ReqTyped
<1>2. ASSUME NEW r \in Runners, ChatArrives(r) PROVE Keeps
    <2>1. RowsKeep
        BY <1>2, RowsSame DEF ChatArrives
    <2>2. RunsKeep
        BY <1>1, <1>2, RunGoto
        DEF ChatArrives, StartRun, RunPc, TypeOK, RunsKeep, RunMayExecute,
            NeverConfirmsItself
    <2>3. ReqsKeep
        BY <1>2, ReqsSame DEF ChatArrives
    <2> QED
        BY <1>2, <2>1, <2>2, <2>3 DEF ChatArrives, Keeps, history
<1>3. ASSUME NEW r \in Runners, StreamClosed(r) PROVE Keeps
    <2>1. run[r].pc = "registered" => run[r].action \in Actions
        BY <1>3 DEF StreamClosed, TypeOK, ActionsAreKnown, AwaitingPc
    <2>2. RowsKeep
        BY <1>3, RowsSame DEF StreamClosed
    <2>3. /\ run'[r].action = run[r].action
          /\ run'[r].pc = "ended"
          /\ \A s \in Runners : s # r => run'[s] = run[s]
        BY <1>1, <1>3, RunGoto DEF StreamClosed, LeaveRun, RunPc
    <2>4. WaitersKeep
        BY <1>3, <2>1, WaiterSet, WaitersSame, Located DEF StreamClosed, TypeOK
    <2>5. RunsKeep
        BY <2>3, <2>4, RunMoves
    <2>6. ReqsKeep
        BY <1>3, ReqsSame DEF StreamClosed
    <2> QED
        BY <1>3, <2>2, <2>5, <2>6 DEF StreamClosed, Keeps, history
<1>4. ASSUME NEW r \in Runners, RunToolCall(r) PROVE Keeps
    <2>1. RowsKeep
        BY <1>4, RowsSame DEF RunToolCall
    <2>2. RunsKeep
        BY <1>1, <1>4, ToolCall
        DEF RunToolCall, RunPc, TypeOK, RunsKeep, RunMayExecute,
            NeverConfirmsItself
    <2>3. ReqsKeep
        BY <1>4, ReqsSame DEF RunToolCall
    <2> QED
        BY <1>4, <2>1, <2>2, <2>3 DEF RunToolCall, Keeps, history
<1>5. ASSUME NEW r \in Runners, RunEnds(r) PROVE Keeps
    <2>1. RowsKeep
        BY <1>5, RowsSame DEF RunEnds
    <2>2. RunsKeep
        BY <1>1, <1>5, RunGoto
        DEF RunEnds, LeaveRun, RunPc, TypeOK, RunsKeep, RunMayExecute,
            NeverConfirmsItself
    <2>3. ReqsKeep
        BY <1>5, ReqsSame DEF RunEnds
    <2> QED
        BY <1>5, <2>1, <2>2, <2>3 DEF RunEnds, Keeps, history
<1>6. ASSUME NEW r \in Runners, RunPlainTool(r) PROVE Keeps
    <2>1. RowsKeep
        BY <1>6, RowsSame DEF RunPlainTool
    <2>2. RunsKeep
        BY <1>1, <1>6, RunGoto
        DEF RunPlainTool, RunPc, TypeOK, RunsKeep, RunMayExecute,
            NeverConfirmsItself
    <2>3. ReqsKeep
        BY <1>6, ReqsSame DEF RunPlainTool
    <2> QED
        BY <1>6, <2>1, <2>2, <2>3 DEF RunPlainTool, Keeps, history
<1>7. ASSUME NEW r \in Runners, RunRegisters(r) PROVE Keeps
    <2>1. run[r].action \in Actions
        BY <1>7 DEF RunRegisters, TypeOK, ActionsAreKnown, AwaitingPc
    <2>2. RowsKeep
        BY <1>7, RowsSame DEF RunRegisters
    <2>3. /\ run'[r].action = run[r].action
          /\ run'[r].pc = "registered"
          /\ \A s \in Runners : s # r => run'[s] = run[s]
        BY <1>1, <1>7, RunGoto DEF RunRegisters, RunPc
    <2>4. WaitersKeep /\ waiters'[ProcOf[r]][run[r].action] # "approved"
        BY <1>7, <2>1, WaiterSet, Located DEF RunRegisters, TypeOK
    <2>5. RunsKeep
        BY <2>3, <2>4, RunMoves DEF RunMayExecute
    <2>6. ReqsKeep
        BY <1>7, ReqsSame DEF RunRegisters
    <2> QED
        BY <1>7, <2>2, <2>5, <2>6 DEF RunRegisters, Keeps, history
<1>8. ASSUME NEW r \in Runners, RunStartsWaiting(r) PROVE Keeps
    <2>1. RowsKeep
        BY <1>8, RowsSame DEF RunStartsWaiting
    <2>2. RunsKeep
        BY <1>1, <1>8, RunGoto
        DEF RunStartsWaiting, RunPc, TypeOK, RunsKeep, RunMayExecute,
            NeverConfirmsItself
    <2>3. ReqsKeep
        BY <1>8, ReqsSame DEF RunStartsWaiting
    <2> QED
        BY <1>8, <2>1, <2>2, <2>3 DEF RunStartsWaiting, Keeps, history
<1>9. ASSUME NEW r \in Runners, EvalDecides(r) PROVE Keeps
    BY <1>9 DEF EvalDecides
<1>10. ASSUME NEW r \in Runners, RunReadsDecision(r) PROVE Keeps
    <2>1. run[r].action \in Actions
        BY <1>10 DEF RunReadsDecision, TypeOK, ActionsAreKnown, AwaitingPc
    <2>2. RowsKeep
        BY <1>10, RowsSame DEF RunReadsDecision
    <2>3. /\ run'[r].action = run[r].action
          /\ run'[r].pc \in {"approve_get", "deny_get"}
          /\ \A s \in Runners : s # r => run'[s] = run[s]
        BY <1>1, <1>10, RunGoto DEF RunReadsDecision, RunPc
    <2>4. /\ WaitersKeep
          /\ run'[r].pc = "approve_get" =>
                 waiters[ProcOf[r]][run[r].action] = "approved"
          /\ run[r].pc = "waiting"
        BY <1>10, <1>1, RunGoto, WaitersSame DEF RunReadsDecision, RunPc
    <2>5. RunsKeep
        BY <2>3, <2>4, RunMoves DEF RunMayExecute
    <2>6. ReqsKeep
        BY <1>10, ReqsSame DEF RunReadsDecision
    <2> QED
        BY <1>10, <2>2, <2>5, <2>6 DEF RunReadsDecision, Keeps, history
<1>11. ASSUME NEW r \in Runners, RunWaitCancelled(r) PROVE Keeps
    <2>1. RowsKeep
        BY <1>11, RowsSame DEF RunWaitCancelled
    <2>2. RunsKeep
        BY <1>1, <1>11, RunGoto
        DEF RunWaitCancelled, RunPc, TypeOK, RunsKeep, RunMayExecute,
            NeverConfirmsItself
    <2>3. ReqsKeep
        BY <1>11, ReqsSame DEF RunWaitCancelled
    <2> QED
        BY <1>11, <2>1, <2>2, <2>3 DEF RunWaitCancelled, Keeps, history
<1>12. ASSUME NEW r \in Runners, RunWaitTimesOut(r) PROVE Keeps
    <2>1. RowsKeep
        BY <1>12, RowsSame DEF RunWaitTimesOut
    <2>2. RunsKeep
        BY <1>1, <1>12, RunGoto
        DEF RunWaitTimesOut, RunPc, TypeOK, RunsKeep, RunMayExecute,
            NeverConfirmsItself
    <2>3. ReqsKeep
        BY <1>12, ReqsSame DEF RunWaitTimesOut
    <2> QED
        BY <1>12, <2>1, <2>2, <2>3 DEF RunWaitTimesOut, Keeps, history
<1>13. ASSUME NEW r \in Runners, RunDenyGet(r) PROVE Keeps
    <2>1. RowsKeep
        BY <1>13, RowsSame DEF RunDenyGet
    <2>2. RunsKeep
        BY <1>1, <1>13, RunGoto
        DEF RunDenyGet, RunPc, TypeOK, RunsKeep, RunMayExecute,
            NeverConfirmsItself
    <2>3. ReqsKeep
        BY <1>13, ReqsSame DEF RunDenyGet
    <2> QED
        BY <1>13, <2>1, <2>2, <2>3 DEF RunDenyGet, Keeps, history
<1>14. ASSUME NEW r \in Runners, RunDenyRead(r) PROVE Keeps
    <2>1. run[r].action \in Actions /\ rows[run[r].action] \in Row
        BY <1>14 DEF RunDenyRead, TypeOK, ActionsAreKnown, AwaitingPc
    <2>2. RowsKeep
        BY <1>14, RowsSame DEF RunDenyRead
    <2>3. /\ run'[r].action = run[r].action
          /\ run'[r].pc \in {"deny_cas", "raise"}
          /\ \A s \in Runners : s # r => run'[s] = run[s]
        BY <1>1, <1>14, <2>1, RunGoto, RunGotoWith DEF RunDenyRead, RunPc
    <2>4. WaitersKeep
        BY <1>14, WaitersSame DEF RunDenyRead
    <2>5. RunsKeep
        BY <2>3, <2>4, RunMoves
    <2>6. ReqsKeep
        BY <1>14, ReqsSame DEF RunDenyRead
    <2> QED
        BY <1>14, <2>2, <2>5, <2>6 DEF RunDenyRead, Keeps, history
<1>15. ASSUME NEW r \in Runners, RunDenyCas(r) PROVE Keeps
    <2>1. run[r].action \in Actions
        BY <1>15 DEF RunDenyCas, TypeOK, ActionsAreKnown, AwaitingPc
    <2>2. /\ ApplyCancel(run[r].snap) \in Row
          /\ ApplyCancel(run[r].snap).status \notin {"absent", "pending"}
        BY <1>1, Fields, RowsApplied
    <2>3. RowsKeep
        BY <1>15, <2>1, <2>2, RowsSame, RowMoves DEF RunDenyCas, TypeOK
    <2>4. RunsKeep
        BY <1>1, <1>15, <2>1, RunGoto
        DEF RunDenyCas, RunPc, TypeOK, RunsKeep, RunMayExecute,
            NeverConfirmsItself
    <2>5. ReqsKeep
        BY <1>15, ReqsSame DEF RunDenyCas
    <2> QED
        BY <1>15, <2>3, <2>4, <2>5 DEF RunDenyCas, Keeps, history
<1>16. ASSUME NEW r \in Runners, RunReturnsDenied(r) PROVE Keeps
    <2>1. run[r].action \in Actions
        BY <1>16 DEF RunReturnsDenied, TypeOK, ActionsAreKnown, AwaitingPc
    <2>2. RowsKeep
        BY <1>16, RowsSame DEF RunReturnsDenied
    <2>3. /\ run'[r].action = run[r].action
          /\ run'[r].pc = "model"
          /\ \A s \in Runners : s # r => run'[s] = run[s]
        BY <1>1, <1>16, RunGoto DEF RunReturnsDenied, RunPc
    <2>4. WaitersKeep
        BY <1>16, <2>1, WaiterSet, Located DEF RunReturnsDenied, TypeOK
    <2>5. RunsKeep
        BY <2>3, <2>4, RunMoves
    <2>6. ReqsKeep
        BY <1>16, ReqsSame DEF RunReturnsDenied
    <2> QED
        BY <1>16, <2>2, <2>5, <2>6 DEF RunReturnsDenied, Keeps, history
<1>17. ASSUME NEW r \in Runners, RunApproveGet(r) PROVE Keeps
    <2>1. run[r].action \in Actions
        BY <1>17 DEF RunApproveGet, TypeOK, ActionsAreKnown, AwaitingPc
    <2>2. RowsKeep
        BY <1>17, RowsSame DEF RunApproveGet
    <2>3. rows[run[r].action].status # "pending"
        BY <1>17, <2>1 DEF RunApproveGet, TokenIsFresh, RunMayExecute
    <2>4. /\ run'[r].action = run[r].action
          /\ run'[r].pc = "execute"
          /\ \A s \in Runners : s # r => run'[s] = run[s]
        BY <1>1, <1>17, <2>3, RunGoto DEF RunApproveGet, RunPc
    <2>5. WaitersKeep /\ run[r].pc = "approve_get"
        BY <1>17, WaitersSame DEF RunApproveGet
    <2>6. RunsKeep
        BY <2>4, <2>5, RunMoves DEF RunMayExecute
    <2>7. ReqsKeep
        BY <1>17, ReqsSame DEF RunApproveGet
    <2> QED
        BY <1>17, <2>2, <2>6, <2>7 DEF RunApproveGet, Keeps, history
<1>18. ASSUME NEW r \in Runners, RunApproveRead(r) PROVE Keeps
    BY <1>18 DEF RunApproveRead, NeverConfirmsItself
<1>19. ASSUME NEW r \in Runners, RunApproveCas(r) PROVE Keeps
    BY <1>19 DEF RunApproveCas, NeverConfirmsItself
<1>20. ASSUME NEW r \in Runners, RunExecuted(r) PROVE Keeps
    <2>1. RowsKeep
        BY <1>20, RowsSame DEF RunExecuted
    <2>2. /\ run'[r].action = run[r].action
          /\ run'[r].pc = "finish_read"
          /\ \A s \in Runners : s # r => run'[s] = run[s]
        BY <1>1, <1>20, RunGotoEnded DEF RunExecuted, RunPc
    <2>3. WaitersKeep
        BY <1>20, WaitersSame DEF RunExecuted
    <2>4. RunsKeep
        BY <2>2, <2>3, RunMoves
    <2>5. ReqsKeep
        BY <1>20, ReqsSame DEF RunExecuted
    <2> QED
        BY <1>20, <2>1, <2>4, <2>5 DEF RunExecuted, Keeps, history
<1>21. ASSUME NEW r \in Runners, RunExecuteRaises(r) PROVE Keeps
    <2>1. RowsKeep
        BY <1>21, RowsSame DEF RunExecuteRaises
    <2>2. RunsKeep
        BY <1>1, <1>21, RunGoto
        DEF RunExecuteRaises, RunPc, TypeOK, RunsKeep, RunMayExecute,
            NeverConfirmsItself
    <2>3. ReqsKeep
        BY <1>21, ReqsSame DEF RunExecuteRaises
    <2> QED
        BY <1>21, <2>1, <2>2, <2>3 DEF RunExecuteRaises, Keeps, history
<1>22. ASSUME NEW r \in Runners, RunFinishRead(r) PROVE Keeps
    <2>1. run[r].action \in Actions /\ rows[run[r].action] \in Row
        BY <1>22 DEF RunFinishRead, TypeOK, ActionsAreKnown, AwaitingPc
    <2>2. RowsKeep
        BY <1>22, RowsSame DEF RunFinishRead
    <2>3. /\ run'[r].action = run[r].action
          /\ run'[r].pc \in {"finish_cas", "raise"}
          /\ \A s \in Runners : s # r => run'[s] = run[s]
        BY <1>1, <1>22, <2>1, RunGoto, RunGotoWith DEF RunFinishRead, RunPc
    <2>4. WaitersKeep
        BY <1>22, WaitersSame DEF RunFinishRead
    <2>5. RunsKeep
        BY <2>3, <2>4, RunMoves
    <2>6. ReqsKeep
        BY <1>22, ReqsSame DEF RunFinishRead
    <2> QED
        BY <1>22, <2>2, <2>5, <2>6 DEF RunFinishRead, Keeps, history
<1>23. ASSUME NEW r \in Runners, RunFinishCas(r) PROVE Keeps
    <2>1. run[r].action \in Actions
        BY <1>23 DEF RunFinishCas, TypeOK, ActionsAreKnown, AwaitingPc
    <2>2. /\ ApplyFinish(run[r].snap, run[r].ok) \in Row
          /\ ApplyFinish(run[r].snap, run[r].ok).status \notin {"absent", "pending"}
        BY <1>1, Fields, RowsApplied
    <2>3. RowsKeep
        BY <1>23, <2>1, <2>2, RowsSame, RowMoves DEF RunFinishCas, TypeOK
    <2>4. RunsKeep
        BY <1>1, <1>23, <2>1, RunGoto
        DEF RunFinishCas, RunPc, TypeOK, RunsKeep, RunMayExecute,
            NeverConfirmsItself
    <2>5. ReqsKeep
        BY <1>23, ReqsSame DEF RunFinishCas
    <2> QED
        BY <1>23, <2>3, <2>4, <2>5 DEF RunFinishCas, Keeps, history
<1>24. ASSUME NEW r \in Runners, RunReturnsResult(r) PROVE Keeps
    <2>1. run[r].action \in Actions
        BY <1>24 DEF RunReturnsResult, TypeOK, ActionsAreKnown, AwaitingPc
    <2>2. RowsKeep
        BY <1>24, RowsSame DEF RunReturnsResult
    <2>3. /\ run'[r].action = run[r].action
          /\ run'[r].pc = "model"
          /\ \A s \in Runners : s # r => run'[s] = run[s]
        BY <1>1, <1>24, RunGoto DEF RunReturnsResult, RunPc
    <2>4. WaitersKeep
        BY <1>24, <2>1, WaiterSet, Located DEF RunReturnsResult, TypeOK
    <2>5. RunsKeep
        BY <2>3, <2>4, RunMoves
    <2>6. ReqsKeep
        BY <1>24, ReqsSame DEF RunReturnsResult
    <2> QED
        BY <1>24, <2>2, <2>5, <2>6 DEF RunReturnsResult, Keeps, history
<1>25. ASSUME NEW r \in Runners, RunRaises(r) PROVE Keeps
    <2>1. run[r].action \in Actions
        BY <1>25 DEF RunRaises, TypeOK, ActionsAreKnown, AwaitingPc
    <2>2. RowsKeep
        BY <1>25, RowsSame DEF RunRaises
    <2>3. /\ run'[r].action = run[r].action
          /\ run'[r].pc = "ended"
          /\ \A s \in Runners : s # r => run'[s] = run[s]
        BY <1>1, <1>25, RunGoto DEF RunRaises, LeaveRun, RunPc
    <2>4. WaitersKeep
        BY <1>25, <2>1, WaiterSet, Located DEF RunRaises, TypeOK
    <2>5. RunsKeep
        BY <2>3, <2>4, RunMoves
    <2>6. ReqsKeep
        BY <1>25, ReqsSame DEF RunRaises
    <2> QED
        BY <1>25, <2>2, <2>5, <2>6 DEF RunRaises, Keeps, history
<1>26. ASSUME NEW h \in Handlers, CancelCas(h) PROVE Keeps
    <2>1. req[h].action \in Actions
        BY <1>26 DEF CancelCas, ActionsAreKnown, TypeOK
    <2>2. /\ ApplyCancel(req[h].snap) \in Row
          /\ ApplyCancel(req[h].snap).status \notin {"absent", "pending"}
        BY <1>1, Fields, RowsApplied
    <2>3. RowsKeep
        BY <1>26, <2>1, <2>2, RowsSame, RowMoves DEF CancelCas, TypeOK
    <2>4. RunsKeep
        BY <1>26, RunsSame DEF CancelCas
    <2>5. ReqsKeep
        BY <1>1, <1>26, <2>1, ReqGotos
        DEF CancelCas, ReqPc, ReqsKeep, HandlerMayExecute
    <2> QED
        BY <1>26, <2>3, <2>4, <2>5 DEF CancelCas, Keeps, history
<1>27. ASSUME NEW h \in Handlers, CancelResolve(h) PROVE Keeps
    <2>1. req[h].action \in Actions
        BY <1>27 DEF CancelResolve, ActionsAreKnown, TypeOK
    <2>2. RowsKeep
        BY <1>27, RowsSame DEF CancelResolve
    <2>3. WaitersKeep
        BY <1>27, <2>1, WaiterSet, WaitersSame, Located
        DEF CancelResolve, TypeOK
    <2>4. RunsKeep
        BY <1>27, <2>3, Located DEF CancelResolve, RunsKeep, RunMayExecute,
            WaitersKeep, NeverConfirmsItself
    <2>5. ReqsKeep
        BY <1>1, <1>27, <2>1, ReqGotos
        DEF CancelResolve, ReqPc, ReqsKeep, HandlerMayExecute
    <2> QED
        BY <1>27, <2>2, <2>4, <2>5 DEF CancelResolve, Keeps, history
<1>28. ASSUME NEW h \in Handlers, HandlerExecuted(h) PROVE Keeps
    <2>1. req[h].action \in Actions
        BY <1>28 DEF HandlerExecuted, ActionsAreKnown, TypeOK
    <2>2. RowsKeep
        BY <1>28, RowsSame DEF HandlerExecuted
    <2>3. RunsKeep
        BY <1>28, RunsSame DEF HandlerExecuted
    <2>4. ReqsKeep
        BY <1>1, <1>28, <2>1, ReqGotosEnded
        DEF HandlerExecuted, ReqPc, ReqsKeep, HandlerMayExecute
    <2> QED
        BY <1>28, <2>2, <2>3, <2>4 DEF HandlerExecuted, Keeps, history
<1>29. ASSUME NEW h \in Handlers, HandlerExecuteRaises(h) PROVE Keeps
    <2>1. req[h].action \in Actions
        BY <1>29 DEF HandlerExecuteRaises, ActionsAreKnown, TypeOK
    <2>2. RowsKeep
        BY <1>29, RowsSame DEF HandlerExecuteRaises
    <2>3. RunsKeep
        BY <1>29, RunsSame DEF HandlerExecuteRaises
    <2>4. ReqsKeep
        BY <1>1, <1>29, <2>1, ReqGotosEnded
        DEF HandlerExecuteRaises, ReqPc, ReqsKeep, HandlerMayExecute
    <2> QED
        BY <1>29, <2>2, <2>3, <2>4 DEF HandlerExecuteRaises, Keeps, history
<1>30. ASSUME NEW h \in Handlers, HandlerContinues(h) PROVE Keeps
    <2>1. req[h].action \in Actions
        BY <1>30 DEF HandlerContinues, ActionsAreKnown, TypeOK
    <2>2. RowsKeep
        BY <1>30, RowsSame DEF HandlerContinues
    <2>3. RunsKeep
        BY <1>1, <1>30, RunGoto, Located
        DEF HandlerContinues, StartRun, RunPc, RunsKeep, RunMayExecute,
            NeverConfirmsItself
    <2>4. ReqsKeep
        BY <1>1, <1>30, <2>1, ReqGotos
        DEF HandlerContinues, ReqPc, ReqsKeep, HandlerMayExecute
    <2> QED
        BY <1>30, <2>2, <2>3, <2>4 DEF HandlerContinues, Keeps, history
<1>31. ASSUME NEW h \in Handlers, HandlerSkipsContinuation(h) PROVE Keeps
    <2>1. req[h].action \in Actions
        BY <1>31 DEF HandlerSkipsContinuation, ActionsAreKnown, TypeOK
    <2>2. RowsKeep
        BY <1>31, RowsSame DEF HandlerSkipsContinuation
    <2>3. RunsKeep
        BY <1>31, RunsSame DEF HandlerSkipsContinuation
    <2>4. ReqsKeep
        BY <1>1, <1>31, <2>1, ReqGotos
        DEF HandlerSkipsContinuation, ReqPc, ReqsKeep, HandlerMayExecute
    <2> QED
        BY <1>31, <2>2, <2>3, <2>4 DEF HandlerSkipsContinuation, Keeps, history
<1>32. ASSUME NEW h \in Handlers, HandlerContinued(h) PROVE Keeps
    <2>1. req[h].action \in Actions
        BY <1>32 DEF HandlerContinued, ActionsAreKnown, TypeOK
    <2>2. RowsKeep
        BY <1>32, RowsSame DEF HandlerContinued
    <2>3. RunsKeep
        BY <1>32, RunsSame DEF HandlerContinued
    <2>4. ReqsKeep
        BY <1>1, <1>32, <2>1, ReqGotos
        DEF HandlerContinued, ReqPc, ReqsKeep, HandlerMayExecute
    <2> QED
        BY <1>32, <2>2, <2>3, <2>4 DEF HandlerContinued, Keeps, history
<1>33. ASSUME NEW h \in Handlers, HandlerFinishRead(h) PROVE Keeps
    <2>1. req[h].action \in Actions /\ rows[req[h].action] \in Row
        BY <1>33 DEF HandlerFinishRead, ActionsAreKnown, TypeOK
    <2>2. RowsKeep
        BY <1>33, RowsSame DEF HandlerFinishRead
    <2>3. RunsKeep
        BY <1>33, RunsSame DEF HandlerFinishRead
    <2>4. ReqsKeep
        BY <1>1, <1>33, <2>1, ReqGotos, ReqGotosWith
        DEF HandlerFinishRead, ReqPc, ReqsKeep, HandlerMayExecute
    <2> QED
        BY <1>33, <2>2, <2>3, <2>4 DEF HandlerFinishRead, Keeps, history
<1>34. ASSUME NEW h \in Handlers, HandlerFinishCas(h) PROVE Keeps
    <2>1. req[h].action \in Actions
        BY <1>34 DEF HandlerFinishCas, ActionsAreKnown, TypeOK
    <2>2. /\ ApplyFinish(req[h].snap, req[h].ok) \in Row
          /\ ApplyFinish(req[h].snap, req[h].ok).status \notin {"absent", "pending"}
        BY <1>1, Fields, RowsApplied
    <2>3. RowsKeep
        BY <1>34, <2>1, <2>2, RowsSame, RowMoves DEF HandlerFinishCas, TypeOK
    <2>4. RunsKeep
        BY <1>34, RunsSame DEF HandlerFinishCas
    <2>5. ReqsKeep
        BY <1>1, <1>34, <2>1, ReqGotos
        DEF HandlerFinishCas, ReqPc, ReqsKeep, HandlerMayExecute
    <2> QED
        BY <1>34, <2>3, <2>4, <2>5 DEF HandlerFinishCas, Keeps, history
<1>35. ASSUME NEW h \in Handlers, NEW a \in Actions, ConfirmRead(h, a)
      PROVE Keeps
    <2>1. rows[a] \in Row
        BY DEF TypeOK
    <2>2. RowsKeep
        BY <1>35, RowsSame DEF ConfirmRead, ReadRow
    <2>3. RunsKeep
        BY <1>35, RunsSame DEF ConfirmRead, ReadRow
    <2>4. ReqsKeep
        BY <1>1, <1>35, <2>1, ReqGotos, ReqGotosWith
        DEF ConfirmRead, ReadRow, ReqPc, ReqsKeep, HandlerMayExecute
    <2> QED
        BY <1>35, <2>2, <2>3, <2>4 DEF ConfirmRead, ReadRow, Keeps, history
<1>36. ASSUME NEW h \in Handlers, NEW a \in Actions, CancelRead(h, a)
      PROVE Keeps
    <2>1. rows[a] \in Row
        BY DEF TypeOK
    <2>2. RowsKeep
        BY <1>36, RowsSame DEF CancelRead, ReadRow
    <2>3. RunsKeep
        BY <1>36, RunsSame DEF CancelRead, ReadRow
    <2>4. ReqsKeep
        BY <1>1, <1>36, <2>1, ReqGotos, ReqGotosWith
        DEF CancelRead, ReadRow, ReqPc, ReqsKeep, HandlerMayExecute
    <2> QED
        BY <1>36, <2>2, <2>3, <2>4 DEF CancelRead, ReadRow, Keeps, history
<1>37. ASSUME NEW p \in Procs, CancelChat(p) PROVE Keeps
    BY <1>37, RowsSame, RunsSame, ReqsSame DEF CancelChat, Keeps, history
<1>38. ASSUME NEW p \in Procs, Crash(p) PROVE Keeps
    <2>1. \A r \in Runners : /\ run'[r].action = run[r].action
                             /\ run'[r].pc \in {run[r].pc, "ended"}
        BY <1>1, <1>38, Crashed DEF Crash, RunTyped
    <2>2. \A h \in Handlers : /\ req'[h].action = req[h].action
                              /\ req'[h].pc \in {req[h].pc, "done"}
        BY <1>1, <1>38, Crashed DEF Crash, ReqTyped
    <2>3. \A q \in Procs, a \in Actions :
              waiters'[q][a] = "approved" => waiters[q][a] = "approved"
        BY <1>38 DEF Crash, TypeOK, NoWaiters
    <2>4. RunsKeep
        BY <2>1, <2>3, Located DEF RunsKeep, RunMayExecute, NeverConfirmsItself
    <2>5. ReqsKeep
        BY <2>2 DEF ReqsKeep, HandlerMayExecute
    <2> QED
        BY <1>38, <2>4, <2>5, RowsSame DEF Crash, Keeps, history
<1>39. ASSUME NEW p \in Procs, Restart(p) PROVE Keeps
    <2>1. RowsKeep
        BY <1>39, Recovered DEF Restart, RowsKeep, TypeOK
    <2> QED
        BY <1>39, <2>1, RunsSame, ReqsSame DEF Restart, Keeps, history
<1> QED
    BY <1>2, <1>3, <1>4, <1>5, <1>6, <1>7, <1>8, <1>9, <1>10, <1>11, <1>12,
       <1>13, <1>14, <1>15, <1>16, <1>17, <1>18, <1>19, <1>20, <1>21, <1>22,
       <1>23, <1>24, <1>25, <1>26, <1>27, <1>28, <1>29, <1>30, <1>31, <1>32,
       <1>33, <1>34, <1>35, <1>36, <1>37, <1>38, <1>39
    DEF Next, RunStep, HandlerStep

-----------------------------------------------------------------------------
(* The invariant, and what it says.                                        *)

\* Every step of the program preserves the invariant.
LEMMA ServerStep ==
    ASSUME Unattended = {}, ServerInv, [Next]_vars
    PROVE  ServerInv'
<1> USE DEF ServerInv
<1>1. RunTyped /\ ReqTyped /\ TypeInv /\ TypeInv'
    BY TypeStep DEF TypeOK, RunTyped, ReqTyped, TypeInv
\* A new action comes without a token.
<1>2. ASSUME NEW r \in Runners, RunCreatesAction(r) PROVE ServerInv'
    <2>1. PICK a \in Actions :
              /\ rows[a] = Absent
              /\ rows' = [rows EXCEPT ![a] = NewAction]
              /\ run' = [run EXCEPT ![r].pc = "created", ![r].action = a]
        BY <1>2 DEF RunCreatesAction
    <2>2. /\ run'[r].pc = "created"
          /\ run'[r].action = a
          /\ \A s \in Runners : s # r => run'[s] = run[s]
        BY <1>1, <2>1, Owning
    <2>3. /\ rows[a].status = "absent" /\ rows'[a].status = "pending"
          /\ \A b \in Actions : b # a => rows'[b] = rows[b]
        BY <2>1, NewRows DEF TypeOK
    <2>4. /\ UNCHANGED <<waiters, starts, approved, req>>
        BY <1>2 DEF RunCreatesAction, history
    <2>5. \A s \in Runners, b \in Actions :
              RunMayExecute(s, b)' => s # r /\ RunMayExecute(s, b)
        BY <2>2, <2>4 DEF RunMayExecute
    <2>6. \A h \in Handlers, b \in Actions :
              HandlerMayExecute(h, b)' => HandlerMayExecute(h, b)
        BY <2>4 DEF HandlerMayExecute
    <2>7. ActionsAreOwned'
        BY <2>2, <2>3 DEF ActionsAreOwned
    <2>8. NeverConfirmsItself'
        BY <2>2 DEF NeverConfirmsItself
    <2>9. TokenIsFresh'
        BY <2>3, <2>4, <2>5, <2>6 DEF TokenIsFresh
    <2>10. TokenIsUnique'
        BY <2>5, <2>6 DEF TokenIsUnique
    <2> QED
        BY <1>1, <2>4, <2>7, <2>8, <2>9, <2>10
        DEF TypeInv, AtMostOneExecution, OnlyApprovedExecute
\* The winner of the transition to confirmed gets the token.
<1>3. ASSUME NEW h \in Handlers, ConfirmCas(h) PROVE ServerInv'
    <2> DEFINE a == req[h].action
    <2>1. a \in Actions
        BY <1>3 DEF ConfirmCas, ActionsAreKnown
    <2>2. CASE ~Swaps(rows[a], ConfirmExpects)
        <3>1. /\ req'[h].pc = "done"
              /\ \A g \in Handlers : g # h => req'[g] = req[g]
            BY <1>1, <1>3, <2>2, ReqGotos DEF ConfirmCas, ReqPc
        <3>2. UNCHANGED <<rows, run, waiters, starts, approved>>
            BY <1>3, <2>2 DEF ConfirmCas, history
        <3>3. ReqsKeep
            BY <3>1 DEF ReqsKeep, HandlerMayExecute
        <3> QED
            BY <1>1, <3>2, <3>3, RowsSame, RunsSame, KeepsInv DEF Keeps
    <2>3. CASE Swaps(rows[a], ConfirmExpects)
        <3>1. rows[a].status = "pending"
            BY <2>3 DEF Swaps, ConfirmExpects
        <3>2. ApplyConfirm(req[h].snap) \in Row
              /\ ApplyConfirm(req[h].snap).status = "confirmed"
            BY <1>1, Fields, RowsApplied
        <3>3. /\ rows'[a].status = "confirmed"
              /\ \A b \in Actions : b # a => rows'[b] = rows[b]
            BY <1>3, <2>1, <2>3, <3>2 DEF ConfirmCas, TypeOK
        <3>4. /\ approved'[a]
              /\ \A b \in Actions : b # a => approved'[b] = approved[b]
            BY <1>3, <2>1, <2>3 DEF ConfirmCas, TypeOK
        <3>5. /\ req'[h].pc = "confirm_resolve" /\ req'[h].action = a
              /\ \A g \in Handlers : g # h => req'[g] = req[g]
            BY <1>1, <1>3, <2>3, ReqGotos DEF ConfirmCas, ReqPc
        <3>6. UNCHANGED <<run, waiters, starts>>
            BY <1>3 DEF ConfirmCas
        <3>7. \A r \in Runners, b \in Actions :
                  RunMayExecute(r, b)' => b # a /\ RunMayExecute(r, b)
            BY <3>1, <3>6 DEF RunMayExecute, TokenIsFresh
        <3>8. \A g \in Handlers, b \in Actions : HandlerMayExecute(g, b)' =>
                  \/ g = h /\ b = a
                  \/ g # h /\ b # a /\ HandlerMayExecute(g, b)
            BY <3>1, <3>5 DEF HandlerMayExecute, TokenIsFresh
        <3>9. starts[a] = 0
            BY <2>1, <3>1 DEF TokenIsFresh
        <3>10. ActionsAreOwned' /\ NeverConfirmsItself'
            BY <3>3, <3>6 DEF ActionsAreOwned, NeverConfirmsItself
        <3>11. TokenIsFresh'
            BY <2>1, <3>3, <3>4, <3>6, <3>7, <3>8, <3>9 DEF TokenIsFresh
        <3>12. TokenIsUnique'
            BY <3>7, <3>8 DEF TokenIsUnique
        <3>13. AtMostOneExecution' /\ OnlyApprovedExecute'
            BY <3>4, <3>6 DEF AtMostOneExecution, OnlyApprovedExecute
        <3> QED
            BY <1>1, <3>10, <3>11, <3>12, <3>13 DEF TypeInv
    <2> QED
        BY <2>2, <2>3
\* The endpoint keeps the token, or passes it to the run that waits.
<1>4. ASSUME NEW h \in Handlers, ConfirmResolve(h) PROVE ServerInv'
    <2> DEFINE a == req[h].action
               p == ProcOf[h]
    <2>1. a \in Actions /\ p \in Procs /\ HandlerMayExecute(h, a)
        BY <1>4, Located DEF ConfirmResolve, ActionsAreKnown, HandlerMayExecute
    <2>2. UNCHANGED <<rows, run, starts, approved>>
        BY <1>4 DEF ConfirmResolve, history
    <2>3. /\ req'[h].pc \in {"done", "execute"} /\ req'[h].action = a
          /\ \A g \in Handlers : g # h => req'[g] = req[g]
        BY <1>1, <1>4, ReqGotos DEF ConfirmResolve, ReqPc
    <2>4. ReqsKeep
        BY <1>4, <2>3 DEF ReqsKeep, HandlerMayExecute, ConfirmResolve
    <2>5. CASE ~HasWaiter(waiters[p], a)
        <3>1. waiters' = waiters
            BY <1>4, <2>5 DEF ConfirmResolve
        <3> QED
            BY <1>1, <2>2, <2>4, <3>1, RowsSame, RunsSame, KeepsInv DEF Keeps
    <2>6. CASE HasWaiter(waiters[p], a)
        <3>1. req'[h].pc = "done"
            BY <1>1, <1>4, <2>6, ReqGotos DEF ConfirmResolve, ReqPc
        <3>2. waiters' = [waiters EXCEPT ![p] = Resolve(waiters[p], a, TRUE)]
            BY <1>4, <2>6 DEF ConfirmResolve
        <3>3. \A q \in Procs, b \in Actions :
                  b # a => waiters'[q][b] = waiters[q][b]
            <4>1. waiters[p] \in [Actions -> WaiterState]
                BY <2>1 DEF TypeOK
            <4>2. \A b \in Actions :
                      b # a => Resolve(waiters[p], a, TRUE)[b] = waiters[p][b]
                BY <2>1, <4>1 DEF Resolve
            <4> QED
                BY <2>1, <3>2, <4>2 DEF TypeOK
        <3>4. \A r \in Runners, b \in Actions :
                  RunMayExecute(r, b)' => b = a \/ RunMayExecute(r, b)
            BY <2>2, <3>3, Located DEF RunMayExecute
        <3>5. \A g \in Handlers, b \in Actions : HandlerMayExecute(g, b)' => b # a
            BY <2>1, <2>3, <3>1 DEF HandlerMayExecute, TokenIsUnique
        <3>6. ActionsAreOwned' /\ NeverConfirmsItself'
            BY <2>2 DEF ActionsAreOwned, NeverConfirmsItself
        <3>7. TokenIsFresh'
            BY <2>1, <2>2, <2>4, <3>4 DEF TokenIsFresh, ReqsKeep
        <3>8. TokenIsUnique'
            <4>1. ASSUME NEW b \in Actions, NEW g1 \in Handlers, NEW g2 \in Handlers,
                         HandlerMayExecute(g1, b)', HandlerMayExecute(g2, b)'
                  PROVE  g1 = g2
                BY <2>4, <4>1 DEF TokenIsUnique, ReqsKeep
            <4>2. ASSUME NEW b \in Actions, NEW g \in Handlers, NEW r \in Runners,
                         HandlerMayExecute(g, b)', RunMayExecute(r, b)'
                  PROVE  FALSE
                <5>1. b # a /\ HandlerMayExecute(g, b)
                    BY <2>4, <3>5, <4>2 DEF ReqsKeep
                <5>2. RunMayExecute(r, b)
                    BY <3>4, <4>2, <5>1
                <5> QED
                    BY <5>1, <5>2 DEF TokenIsUnique
            <4> QED
                BY <4>1, <4>2 DEF TokenIsUnique
        <3>9. AtMostOneExecution' /\ OnlyApprovedExecute'
            BY <2>2 DEF AtMostOneExecution, OnlyApprovedExecute
        <3> QED
            BY <1>1, <3>6, <3>7, <3>8, <3>9 DEF TypeInv
    <2> QED
        BY <2>5, <2>6
\* Whoever starts the command uses the token up.
<1>5. ASSUME NEW r \in Runners, RunExecutes(r) PROVE ServerInv'
    <2> DEFINE a == run[r].action
    <2>1. a \in Actions /\ RunMayExecute(r, a)
        BY <1>5 DEF RunExecutes, ActionsAreKnown, AwaitingPc, RunMayExecute
    <2>2. UNCHANGED <<rows, waiters, req, approved>>
        BY <1>5 DEF RunExecutes
    <2>3. /\ run'[r].pc = "executing" /\ run'[r].action = a
          /\ \A s \in Runners : s # r => run'[s] = run[s]
        BY <1>1, <1>5, RunGoto DEF RunExecutes, RunPc
    <2>4. /\ starts'[a] = starts[a] + 1
          /\ \A b \in Actions : b # a => starts'[b] = starts[b]
        BY <1>5, <2>1 DEF RunExecutes, TypeOK
    <2>5. starts[a] = 0 /\ approved[a] /\ rows[a].status \notin {"absent", "pending"}
        BY <2>1 DEF TokenIsFresh
    <2>6. \A s \in Runners, b \in Actions :
              RunMayExecute(s, b)' => b # a /\ RunMayExecute(s, b)
        BY <2>1, <2>2, <2>3 DEF RunMayExecute, ActionsAreOwned
    <2>7. \A h \in Handlers, b \in Actions :
              HandlerMayExecute(h, b)' => b # a /\ HandlerMayExecute(h, b)
        BY <2>1, <2>2 DEF HandlerMayExecute, TokenIsUnique
    <2>8. ActionsAreOwned' /\ NeverConfirmsItself'
        BY <2>2, <2>3 DEF ActionsAreOwned, NeverConfirmsItself
    <2>9. TokenIsFresh'
        BY <2>1, <2>2, <2>4, <2>5, <2>6, <2>7 DEF TokenIsFresh
    <2>10. TokenIsUnique'
        BY <2>6, <2>7 DEF TokenIsUnique
    <2>11. AtMostOneExecution' /\ OnlyApprovedExecute'
        BY <2>1, <2>2, <2>4, <2>5 DEF AtMostOneExecution, OnlyApprovedExecute
    <2> QED
        BY <1>1, <2>8, <2>9, <2>10, <2>11 DEF TypeInv
<1>6. ASSUME NEW h \in Handlers, HandlerExecutes(h) PROVE ServerInv'
    <2> DEFINE a == req[h].action
    <2>1. a \in Actions /\ HandlerMayExecute(h, a)
        BY <1>6 DEF HandlerExecutes, ActionsAreKnown, HandlerMayExecute
    <2>2. UNCHANGED <<rows, waiters, run, approved>>
        BY <1>6 DEF HandlerExecutes
    <2>3. /\ req'[h].pc = "executing" /\ req'[h].action = a
          /\ \A g \in Handlers : g # h => req'[g] = req[g]
        BY <1>1, <1>6, ReqGotos DEF HandlerExecutes, ReqPc
    <2>4. /\ starts'[a] = starts[a] + 1
          /\ \A b \in Actions : b # a => starts'[b] = starts[b]
        BY <1>6, <2>1 DEF HandlerExecutes, TypeOK
    <2>5. starts[a] = 0 /\ approved[a] /\ rows[a].status \notin {"absent", "pending"}
        BY <2>1 DEF TokenIsFresh
    <2>6. \A r \in Runners, b \in Actions :
              RunMayExecute(r, b)' => b # a /\ RunMayExecute(r, b)
        BY <2>1, <2>2 DEF RunMayExecute, TokenIsUnique
    <2>7. \A g \in Handlers, b \in Actions :
              HandlerMayExecute(g, b)' => b # a /\ HandlerMayExecute(g, b)
        BY <2>1, <2>3 DEF HandlerMayExecute, TokenIsUnique
    <2>8. ActionsAreOwned' /\ NeverConfirmsItself'
        BY <2>2 DEF ActionsAreOwned, NeverConfirmsItself
    <2>9. TokenIsFresh'
        BY <2>1, <2>2, <2>4, <2>5, <2>6, <2>7 DEF TokenIsFresh
    <2>10. TokenIsUnique'
        BY <2>6, <2>7 DEF TokenIsUnique
    <2>11. AtMostOneExecution' /\ OnlyApprovedExecute'
        BY <2>1, <2>2, <2>4, <2>5 DEF AtMostOneExecution, OnlyApprovedExecute
    <2> QED
        BY <1>1, <2>8, <2>9, <2>10, <2>11 DEF TypeInv
<1>7. CASE UNCHANGED vars
    <2>1. UNCHANGED <<rows, waiters, run, req, starts, approved>>
        BY <1>7 DEF vars, history
    <2> QED
        BY <1>1, <2>1, RowsSame, RunsSame, ReqsSame, KeepsInv DEF Keeps
<1> QED
    BY <1>1, <1>2, <1>3, <1>4, <1>5, <1>6, <1>7, KeepsStep, KeepsInv

LEMMA TypeInit == Init => TypeInv
<1> SUFFICES ASSUME Init PROVE TypeInv
    OBVIOUS
<1>1. IdleRun \in Run /\ IdleRun.pc = "idle"
    BY NewRows, ConstantsAssumption DEF Run, IdleRun, RunPc
<1>2. NewReq \in Req /\ NewReq.pc = "new"
    BY NewRows DEF Req, NewReq, ReqPc
<1>3. TypeOK
    BY <1>1, <1>2, NewRows DEF Init, TypeOK, NoWaiters, WaiterState
<1>4. ActionsAreKnown
    BY <1>1, <1>2 DEF Init, ActionsAreKnown, AwaitingPc
<1> QED
    BY <1>3, <1>4 DEF TypeInv

LEMMA ServerInit == Init => ServerInv
<1> SUFFICES ASSUME Init PROVE ServerInv
    OBVIOUS
<1>1. \A r \in Runners : run[r].pc = "idle" /\ run[r].action = None
    BY DEF Init, IdleRun
<1>2. \A h \in Handlers : req[h].pc = "new"
    BY DEF Init, NewReq
<1>3. ActionsAreOwned /\ NeverConfirmsItself
    BY <1>1, ConstantsAssumption DEF ActionsAreOwned, NeverConfirmsItself
<1>4. TokenIsFresh /\ TokenIsUnique
    BY <1>1, <1>2
    DEF Init, TokenIsFresh, TokenIsUnique, RunMayExecute, HandlerMayExecute
<1>5. AtMostOneExecution /\ OnlyApprovedExecute
    BY DEF Init, AtMostOneExecution, OnlyApprovedExecute
<1> QED
    BY <1>3, <1>4, <1>5, TypeInit DEF ServerInv, TypeInv

\* Type correctness: rows, waiters, runs, requests and histories keep their
\* types, whatever chats, endpoints, trials, crashes and restarts do.
THEOREM TypeCorrect == Spec => []TypeOK
<1>1. TypeInv => TypeOK
    BY DEF TypeInv
<1> QED
    BY <1>1, TypeInit, TypeStep, PTL DEF Spec

\* Without evaluation trials, the token invariant holds in every state of any
\* number of servers on one database (action_route.py, tool_loop.py and
\* approval_coordinator.py together).
THEOREM ServerCorrect ==
    ASSUME Unattended = {}
    PROVE  Spec => []ServerInv
<1>1. ServerInv /\ [Next]_vars => ServerInv'
    BY ServerStep
<1> QED
    BY <1>1, ServerInit, PTL DEF Spec

\* Without evaluation trials an approved command starts at most once: the
\* confirm endpoint and the waiting run never both execute it, however many
\* approvers confirm, and no crash or restart repeats it.
THEOREM ExecutedAtMostOnce ==
    ASSUME Unattended = {}
    PROVE  Spec => []AtMostOneExecution
<1>1. ServerInv => AtMostOneExecution
    BY DEF ServerInv
<1> QED
    BY <1>1, ServerCorrect, PTL
\* Without evaluation trials no command starts before some approver's
\* transition to confirmed has succeeded: a timeout, a cancellation of the
\* chat or a lost race never lets one through.
THEOREM ExecutedOnlyApproved ==
    ASSUME Unattended = {}
    PROVE  Spec => []OnlyApprovedExecute
<1>1. ServerInv => OnlyApprovedExecute
    BY DEF ServerInv
<1> QED
    BY <1>1, ServerCorrect, PTL

-----------------------------------------------------------------------------
(* The session's lock and the coordinator's waiters.                       *)

\* Whoever runs the session holds its run_lock.
LocksAreHeld == \A r \in Runners : Running(r) => lock[ProcOf[r]] = r

FlowInv == TypeInv /\ LocksAreHeld /\ WaitersAreServed

OthersStand(r) == \A s \in Runners \ {r} : run'[s] = run[s]

\* A thread that keeps its waiter, or has none and adds none.
LEMMA ThreadMoves ==
    ASSUME FlowInv, TypeInv', NEW r \in Runners, OthersStand(r),
           UNCHANGED <<waiters, lock>>, Running(r),
           run[r].pc \in AwaitingPc =>
               run'[r].pc \in AwaitingPc /\ run'[r].action = run[r].action
    PROVE  FlowInv'
<1> USE DEF FlowInv
<1>1. LocksAreHeld'
    BY DEF LocksAreHeld, OthersStand, Running
<1>2. WaitersAreServed'
    BY DEF WaitersAreServed, OthersStand, HasWaiter
<1> QED
    BY <1>1, <1>2

\* What changes one waiter, or none.
WaiterChanges(p, a) ==
    \A q \in Procs, b \in Actions :
        waiters'[q][b] = waiters[q][b] \/ (q = p /\ b = a)

LEMMA OneWaiter ==
    ASSUME TypeInv, NEW p \in Procs, NEW a \in Actions, NEW w,
           waiters' = [waiters EXCEPT ![p] = [waiters[p] EXCEPT ![a] = w]]
    PROVE  waiters'[p][a] = w /\ WaiterChanges(p, a)
    BY DEF TypeInv, TypeOK, WaiterChanges

\* A thread that gets or changes its waiter.
LEMMA ThreadRegisters ==
    ASSUME FlowInv, TypeInv', NEW r \in Runners, OthersStand(r),
           lock' = lock, Running(r), WaiterChanges(ProcOf[r], run'[r].action),
           run'[r].pc \in AwaitingPc, run'[r].action = run[r].action
    PROVE  FlowInv'
<1> USE DEF FlowInv
<1>1. LocksAreHeld'
    BY DEF LocksAreHeld, OthersStand, Running
<1>2. WaitersAreServed'
    <2> SUFFICES ASSUME NEW p \in Procs, NEW a \in Actions, HasWaiter(waiters'[p], a)
                 PROVE  \E s \in Runners : /\ ProcOf[s] = p /\ run'[s].action = a
                                           /\ run'[s].pc \in AwaitingPc
        BY DEF WaitersAreServed, HasWaiter
    <2>1. CASE p = ProcOf[r] /\ a = run'[r].action
        BY <2>1
    <2>2. CASE ~(p = ProcOf[r] /\ a = run'[r].action)
        BY <2>2 DEF WaiterChanges, HasWaiter, WaitersAreServed, OthersStand
    <2> QED
        BY <2>1, <2>2
<1> QED
    BY <1>1, <1>2

\* A thread that has cleared its waiter, or has none; it may end.
LEMMA ThreadClears ==
    ASSUME FlowInv, TypeInv', NEW r \in Runners, OthersStand(r), Running(r),
           \/ lock' = lock
           \/ run'[r].pc = "ended" /\ lock' = [lock EXCEPT ![ProcOf[r]] = None],
           \/ run[r].pc \notin AwaitingPc /\ waiters' = waiters
           \/ /\ WaiterChanges(ProcOf[r], run[r].action)
              /\ ~HasWaiter(waiters'[ProcOf[r]], run[r].action)
    PROVE  FlowInv'
<1> USE DEF FlowInv
<1>1. LocksAreHeld'
    <2> SUFFICES ASSUME NEW s \in Runners, Running(s)' PROVE lock'[ProcOf[s]] = s
        BY DEF LocksAreHeld, Running
    <2>1. lock[ProcOf[r]] = r /\ ProcOf[r] \in Procs /\ ProcOf[s] \in Procs
        BY Located DEF LocksAreHeld
    <2>2. CASE s = r
        BY <2>1, <2>2 DEF Running
    <2>3. CASE s # r
        <3>1. lock[ProcOf[s]] = s
            BY <2>3 DEF OthersStand, Running, LocksAreHeld
        <3> QED
            BY <2>1, <2>3, <3>1 DEF TypeInv, TypeOK
    <2> QED
        BY <2>2, <2>3
<1>2. WaitersAreServed'
    <2> SUFFICES ASSUME NEW p \in Procs, NEW a \in Actions, HasWaiter(waiters'[p], a)
                 PROVE  \E s \in Runners : /\ ProcOf[s] = p /\ run'[s].action = a
                                           /\ run'[s].pc \in AwaitingPc
        BY DEF WaitersAreServed, HasWaiter
    <2>1. HasWaiter(waiters[p], a) /\ ~(ProcOf[r] = p /\ run[r].action = a
                                        /\ run[r].pc \in AwaitingPc)
        BY DEF WaiterChanges, HasWaiter
    <2> QED
        BY <2>1 DEF WaitersAreServed, OthersStand
<1> QED
    BY <1>1, <1>2

\* An endpoint decides for a run that waits, and nothing else.
LEMMA HandlersDecide ==
    ASSUME FlowInv, TypeInv', UNCHANGED <<run, lock>>,
           \A p \in Procs, a \in Actions :
               HasWaiter(waiters'[p], a) => HasWaiter(waiters[p], a)
    PROVE  FlowInv'
    BY DEF FlowInv, LocksAreHeld, WaitersAreServed, Running

LEMMA LockTaken ==
    ASSUME FlowInv, TypeInv', NEW r \in Runners, StartRun(r), waiters' = waiters
    PROVE  FlowInv'
<1> USE DEF FlowInv
<1>1. RunTyped
    BY DEF TypeInv, TypeOK, RunTyped
<1>2. OthersStand(r) /\ run[r].pc = "idle"
    BY <1>1, RunGoto DEF StartRun, RunPc, OthersStand
<1>3. LocksAreHeld'
    <2> SUFFICES ASSUME NEW s \in Runners, Running(s)' PROVE lock'[ProcOf[s]] = s
        BY DEF LocksAreHeld, Running
    <2>1. /\ ProcOf[r] \in Procs /\ ProcOf[s] \in Procs /\ lock[ProcOf[r]] = None
          /\ lock' = [lock EXCEPT ![ProcOf[r]] = r]
        BY Located DEF StartRun
    <2>2. s # r => lock[ProcOf[s]] = s /\ s # None
        BY <1>2, ConstantsAssumption DEF OthersStand, Running, LocksAreHeld
    <2> QED
        BY <2>1, <2>2 DEF TypeInv, TypeOK
<1>4. WaitersAreServed'
    BY <1>2 DEF WaitersAreServed, OthersStand, AwaitingPc
<1> QED
    BY <1>3, <1>4

\* Every step of the program keeps the lock with whoever runs and the waiters
\* with those who wait.
LEMMA FlowStep == FlowInv /\ [Next]_vars => FlowInv'
<1> SUFFICES ASSUME FlowInv, [Next]_vars PROVE FlowInv'
    OBVIOUS
<1>1. RunTyped /\ ReqTyped /\ TypeInv /\ TypeInv'
    BY TypeStep DEF FlowInv, TypeInv, TypeOK, RunTyped, ReqTyped
<1>2. ASSUME NEW r \in Runners, run[r].pc \in AwaitingPc \cup {"created"}
      PROVE  run[r].action \in Actions
    BY <1>1, <1>2 DEF TypeInv, ActionsAreKnown
<1>3. ASSUME NEW r \in Runners,
             RunDenyRead(r) \/ RunApproveRead(r) \/ RunFinishRead(r)
      PROVE  rows[run[r].action] \in Row
    BY <1>1, <1>2, <1>3 DEF RunDenyRead, RunApproveRead, RunFinishRead, AwaitingPc,
       TypeInv, TypeOK
\* Steps of a run between registering its waiter and clearing it, or outside.
<1>4. ASSUME NEW r \in Runners,
             RunStartsWaiting(r) \/ RunReadsDecision(r) \/ RunWaitCancelled(r)
             \/ RunWaitTimesOut(r) \/ RunDenyGet(r) \/ RunDenyRead(r)
      PROVE  FlowInv'
    <2>1. /\ OthersStand(r) /\ Running(r) /\ run'[r].pc \in AwaitingPc
          /\ run'[r].action = run[r].action
        BY <1>1, <1>3, <1>4, RunGoto, RunGotoWith
        DEF RunStartsWaiting, RunReadsDecision, RunWaitCancelled, RunWaitTimesOut,
            RunDenyGet, RunDenyRead, RunPc, AwaitingPc, OthersStand, Running
    <2>2. UNCHANGED <<waiters, lock>>
        BY <1>4 DEF RunStartsWaiting, RunReadsDecision, RunWaitCancelled,
           RunWaitTimesOut, RunDenyGet, RunDenyRead
    <2> QED
        BY <1>1, <2>1, <2>2, ThreadMoves
<1>5. ASSUME NEW r \in Runners,
             RunDenyCas(r) \/ RunApproveGet(r) \/ RunApproveRead(r)
             \/ RunApproveCas(r) \/ RunExecutes(r)
      PROVE  FlowInv'
    <2>1. /\ OthersStand(r) /\ Running(r) /\ run'[r].pc \in AwaitingPc
          /\ run'[r].action = run[r].action
        BY <1>1, <1>3, <1>5, RunGoto, RunGotoWith
        DEF RunDenyCas, RunApproveGet, RunApproveRead, RunApproveCas, RunExecutes,
            RunPc, AwaitingPc, OthersStand, Running
    <2>2. UNCHANGED <<waiters, lock>>
        BY <1>5 DEF RunDenyCas, RunApproveGet, RunApproveRead, RunApproveCas,
           RunExecutes
    <2> QED
        BY <1>1, <2>1, <2>2, ThreadMoves
<1>6. ASSUME NEW r \in Runners,
             RunExecuted(r) \/ RunExecuteRaises(r) \/ RunFinishRead(r)
             \/ RunFinishCas(r)
      PROVE  FlowInv'
    <2>1. /\ OthersStand(r) /\ Running(r) /\ run'[r].pc \in AwaitingPc
          /\ run'[r].action = run[r].action
        BY <1>1, <1>3, <1>6, RunGoto, RunGotoWith, RunGotoEnded, ZenonT(30)
        DEF RunExecuted, RunExecuteRaises, RunFinishRead, RunFinishCas,
            RunPc, AwaitingPc, OthersStand, Running
    <2>2. UNCHANGED <<waiters, lock>>
        BY <1>6 DEF RunExecuted, RunExecuteRaises, RunFinishRead, RunFinishCas
    <2> QED
        BY <1>1, <2>1, <2>2, ThreadMoves
<1>7. ASSUME NEW r \in Runners,
             RunToolCall(r) \/ RunPlainTool(r) \/ RunCreatesAction(r)
      PROVE  FlowInv'
    <2>1. /\ OthersStand(r) /\ Running(r) /\ run[r].pc \notin AwaitingPc
        BY <1>1, <1>7, ToolCall, RunGoto, Owning
        DEF RunToolCall, RunPlainTool, RunCreatesAction, RunPc, AwaitingPc,
            OthersStand, Running
    <2>2. UNCHANGED <<waiters, lock>>
        BY <1>7 DEF RunToolCall, RunPlainTool, RunCreatesAction
    <2> QED
        BY <1>1, <2>1, <2>2, ThreadMoves
<1>8. ASSUME NEW r \in Runners, RunRegisters(r) \/ EvalDecides(r) PROVE FlowInv'
    <2>1. run[r].action \in Actions /\ ProcOf[r] \in Procs
        BY <1>2, <1>8, Located DEF RunRegisters, EvalDecides, AwaitingPc
    <2>2. /\ OthersStand(r) /\ Running(r) /\ run'[r].pc \in AwaitingPc
          /\ run'[r].action = run[r].action /\ lock' = lock
        BY <1>1, <1>8, RunGoto
        DEF RunRegisters, EvalDecides, RunPc, AwaitingPc, OthersStand, Running
    <2>3. \E w : waiters' = [waiters EXCEPT ![ProcOf[r]] =
                               [waiters[ProcOf[r]] EXCEPT ![run[r].action] = w]]
        BY <1>8 DEF RunRegisters, EvalDecides, Register, Resolve
    <2>4. WaiterChanges(ProcOf[r], run'[r].action)
        BY <1>1, <2>1, <2>2, <2>3, OneWaiter
    <2> QED
        BY <1>1, <2>2, <2>4, ThreadRegisters
\* Steps that end the wait, or the run.
<1>9. ASSUME NEW r \in Runners,
             RunReturnsDenied(r) \/ RunReturnsResult(r) \/ RunRaises(r)
             \/ (StreamClosed(r) /\ run[r].pc = "registered")
      PROVE  FlowInv'
    <2>1. run[r].action \in Actions /\ ProcOf[r] \in Procs
        BY <1>2, <1>9, Located
        DEF RunReturnsDenied, RunReturnsResult, RunRaises, AwaitingPc
    <2>2. OthersStand(r) /\ Running(r)
        BY <1>1, <1>9, RunGoto
        DEF RunReturnsDenied, RunReturnsResult, RunRaises, StreamClosed, LeaveRun,
            RunPc, OthersStand, Running
    <2>3. waiters' = [waiters EXCEPT ![ProcOf[r]] =
                        [waiters[ProcOf[r]] EXCEPT ![run[r].action] = "none"]]
        BY <1>9 DEF RunReturnsDenied, RunReturnsResult, RunRaises, StreamClosed, Clear
    <2>4. /\ WaiterChanges(ProcOf[r], run[r].action)
          /\ ~HasWaiter(waiters'[ProcOf[r]], run[r].action)
        BY <1>1, <2>1, <2>3, OneWaiter DEF HasWaiter
    <2>5. \/ lock' = lock
          \/ run'[r].pc = "ended" /\ lock' = [lock EXCEPT ![ProcOf[r]] = None]
        BY <1>1, <1>9, RunGoto
        DEF RunReturnsDenied, RunReturnsResult, RunRaises, StreamClosed, LeaveRun, RunPc
    <2> QED
        BY <1>1, <2>2, <2>4, <2>5, ThreadClears
<1>10. ASSUME NEW r \in Runners,
              RunEnds(r) \/ (StreamClosed(r) /\ run[r].pc # "registered")
       PROVE  FlowInv'
    <2>1. /\ OthersStand(r) /\ Running(r) /\ run[r].pc \notin AwaitingPc
          /\ run'[r].pc = "ended" /\ lock' = [lock EXCEPT ![ProcOf[r]] = None]
        BY <1>1, <1>10, RunGoto
        DEF RunEnds, StreamClosed, LeaveRun, RunPc, AwaitingPc, OthersStand, Running
    <2>2. waiters' = waiters
        BY <1>10 DEF RunEnds, StreamClosed
    <2> QED
        BY <1>1, <2>1, <2>2, ThreadClears
<1>11. ASSUME NEW r \in Runners, ChatArrives(r) PROVE FlowInv'
    BY <1>1, <1>11, LockTaken DEF ChatArrives
<1>12. ASSUME NEW h \in Handlers, HandlerContinues(h) PROVE FlowInv'
    BY <1>1, <1>12, LockTaken, Located DEF HandlerContinues
\* The endpoints.
<1>13. ASSUME NEW h \in Handlers, ConfirmResolve(h) \/ CancelResolve(h)
       PROVE  FlowInv'
    <2> DEFINE p == ProcOf[h]
               a == req[h].action
    <2>1. a \in Actions /\ p \in Procs
        BY <1>1, <1>13, Located
        DEF ConfirmResolve, CancelResolve, TypeInv, ActionsAreKnown
    <2>2. UNCHANGED <<run, lock>>
        BY <1>13 DEF ConfirmResolve, CancelResolve
    <2>3. \/ waiters' = waiters
          \/ /\ HasWaiter(waiters[p], a)
             /\ \E w : waiters' = [waiters EXCEPT ![p] = [waiters[p] EXCEPT ![a] = w]]
        BY <1>13 DEF ConfirmResolve, CancelResolve, Resolve
    <2> HIDE DEF p, a
    <2>4. waiters' = waiters \/ (HasWaiter(waiters[p], a) /\ WaiterChanges(p, a))
        BY <1>1, <2>1, <2>3, OneWaiter
    <2>5. \A q \in Procs, b \in Actions :
              HasWaiter(waiters'[q], b) => HasWaiter(waiters[q], b)
        BY <2>4 DEF WaiterChanges, HasWaiter
    <2> QED
        BY <1>1, <2>2, <2>5, HandlersDecide
<1>14. ASSUME NEW h \in Handlers,
              \/ ConfirmCas(h) \/ CancelCas(h) \/ HandlerExecutes(h)
              \/ HandlerExecuted(h) \/ HandlerExecuteRaises(h)
              \/ HandlerSkipsContinuation(h) \/ HandlerContinued(h)
              \/ HandlerFinishRead(h) \/ HandlerFinishCas(h)
       PROVE  FlowInv'
    <2>1. UNCHANGED <<run, lock, waiters>>
        BY <1>14 DEF ConfirmCas, CancelCas, HandlerExecutes, HandlerExecuted,
           HandlerExecuteRaises, HandlerSkipsContinuation, HandlerContinued,
           HandlerFinishRead, HandlerFinishCas
    <2> QED
        BY <1>1, <2>1, HandlersDecide
<1>15. ASSUME NEW h \in Handlers, NEW a \in Actions,
              ConfirmRead(h, a) \/ CancelRead(h, a)
       PROVE  FlowInv'
    BY <1>1, <1>15, HandlersDecide DEF ConfirmRead, CancelRead, ReadRow
<1>16. ASSUME NEW p \in Procs, CancelChat(p) \/ Restart(p) PROVE FlowInv'
    BY <1>1, <1>16, HandlersDecide DEF CancelChat, Restart
<1>17. ASSUME NEW p \in Procs, Crash(p) PROVE FlowInv'
    <2>1. \A r \in Runners : IF ProcOf[r] = p THEN ~Running(r)'
                                              ELSE run'[r] = run[r]
        BY <1>1, <1>17, Crashed DEF Crash, RunTyped, Running
    <2>2. /\ \A q \in Procs : q # p => lock'[q] = lock[q] /\ waiters'[q] = waiters[q]
          /\ \A a \in Actions : ~HasWaiter(waiters'[p], a)
        BY <1>1, <1>17 DEF Crash, TypeInv, TypeOK, NoWaiters, HasWaiter
    <2>3. LocksAreHeld'
        BY <2>1, <2>2, Located DEF FlowInv, LocksAreHeld, Running
    <2>4. WaitersAreServed'
        BY <2>1, <2>2 DEF FlowInv, WaitersAreServed, HasWaiter
    <2> QED
        BY <1>1, <2>3, <2>4 DEF FlowInv
<1>18. CASE UNCHANGED vars
    BY <1>1, <1>18, HandlersDecide DEF vars
<1> QED
    BY <1>4, <1>5, <1>6, <1>7, <1>8, <1>9, <1>10, <1>11, <1>12, <1>13, <1>14,
       <1>15, <1>16, <1>17, <1>18
    DEF Next, RunStep, HandlerStep

LEMMA FlowInvariant == Spec => []FlowInv
<1>1. Init => FlowInv
    <2> SUFFICES ASSUME Init PROVE FlowInv
        OBVIOUS
    <2>1. LocksAreHeld /\ WaitersAreServed
        BY DEF Init, IdleRun, LocksAreHeld, Running, WaitersAreServed, HasWaiter,
           NoWaiters
    <2> QED
        BY <2>1, TypeInit DEF FlowInv
<1> QED
    BY <1>1, FlowStep, PTL DEF Spec

\* Two runs of one session never overlap, the continuation that a confirm
\* request starts included, through crashes and restarts: run_lock is enough.
THEOREM SessionsRunAlone == Spec => []OneRunPerSession
<1>1. FlowInv => OneRunPerSession
    BY Located DEF FlowInv, LocksAreHeld, OneRunPerSession
<1> QED
    BY <1>1, FlowInvariant, PTL

\* A waiter in the coordinator always has a run that will look at it: an
\* endpoint never hands an approved command to a run that is not there.
THEOREM WaitersHaveRuns == Spec => []WaitersAreServed
<1>1. FlowInv => WaitersAreServed
    BY DEF FlowInv
<1> QED
    BY <1>1, FlowInvariant, PTL

-----------------------------------------------------------------------------
(* What the steps do to the rows, the approvals and the starts.            *)

Moves(a, from, to) ==
    \E row \in Row :
        rows[a].status \in from /\ row.status = to /\ rows' = [rows EXCEPT ![a] = row]

Creating == \E a \in Actions :
    Moves(a, {"absent"}, "pending") /\ UNCHANGED <<approved, starts>>
Confirming == \E a \in Actions :
    /\ Moves(a, {"pending"}, "confirmed")
    /\ approved' = [approved EXCEPT ![a] = TRUE] /\ starts' = starts
Canceling == \E a \in Actions :
    Moves(a, {"pending", "confirmed"}, "canceled") /\ UNCHANGED <<approved, starts>>
Starting == (\E r \in Runners : RunExecutes(r)) \/ \E h \in Handlers : HandlerExecutes(h)
RunFinishes(r) ==
    /\ RunFinishCas(r)
    /\ Moves(run[r].action, {"confirmed"}, IF run[r].ok THEN "executed" ELSE "failed")
HandlerFinishes(h) ==
    /\ HandlerFinishCas(h)
    /\ Moves(req[h].action, {"confirmed"}, IF req[h].ok THEN "executed" ELSE "failed")
Finishing == (\E r \in Runners : RunFinishes(r)) \/ \E h \in Handlers : HandlerFinishes(h)
Recovering == \E p \in Procs : Restart(p)

LEMMA RowSteps ==
    ASSUME TypeInv, [Next]_vars
    PROVE  \/ UNCHANGED <<rows, approved, starts>>
           \/ Creating \/ Confirming \/ Canceling \/ Starting \/ Finishing \/ Recovering
<1>1. RunTyped /\ ReqTyped
    BY DEF TypeInv, TypeOK, RunTyped, ReqTyped
<1>2. /\ \A r \in Runners : run[r].pc \in AwaitingPc => run[r].action \in Actions
      /\ \A h \in Handlers : req[h].pc \notin {"new", "done"} => req[h].action \in Actions
    BY DEF TypeInv, ActionsAreKnown
<1>3. ASSUME NEW r \in Runners, RunCreatesAction(r) PROVE Creating
    BY <1>3, NewRows DEF RunCreatesAction, Creating, Moves, history
<1>4. ASSUME NEW r \in Runners, RunDenyCas(r)
      PROVE  Canceling \/ UNCHANGED <<rows, approved, starts>>
    <2>1. run[r].action \in Actions /\ ApplyCancel(run[r].snap) \in Row
          /\ ApplyCancel(run[r].snap).status = "canceled"
        BY <1>1, <1>2, <1>4, Fields, RowsApplied DEF RunDenyCas, AwaitingPc
    <2> QED
        BY <1>4, <2>1
        DEF RunDenyCas, Canceling, Moves, history, Swaps, CancelExpects
<1>5. ASSUME NEW r \in Runners, RunApproveCas(r)
      PROVE  Confirming \/ UNCHANGED <<rows, approved, starts>>
    <2>1. run[r].action \in Actions /\ ApplyConfirm(run[r].snap) \in Row
          /\ ApplyConfirm(run[r].snap).status = "confirmed"
        BY <1>1, <1>2, <1>5, Fields, RowsApplied DEF RunApproveCas, AwaitingPc
    <2> QED
        BY <1>5, <2>1 DEF RunApproveCas, Confirming, Moves, Swaps, ConfirmExpects
<1>6. ASSUME NEW r \in Runners, RunFinishCas(r)
      PROVE  Finishing \/ UNCHANGED <<rows, approved, starts>>
    <2>1. /\ ApplyFinish(run[r].snap, run[r].ok) \in Row
          /\ ApplyFinish(run[r].snap, run[r].ok).status =
                 IF run[r].ok THEN "executed" ELSE "failed"
        BY <1>1, Fields, RowsApplied
    <2> QED
        BY <1>6, <2>1
        DEF RunFinishCas, Finishing, RunFinishes, Moves, history, Swaps, FinishExpects
<1>7. ASSUME NEW h \in Handlers, ConfirmCas(h)
      PROVE  Confirming \/ UNCHANGED <<rows, approved, starts>>
    <2>1. req[h].action \in Actions /\ ApplyConfirm(req[h].snap) \in Row
          /\ ApplyConfirm(req[h].snap).status = "confirmed"
        BY <1>1, <1>2, <1>7, Fields, RowsApplied DEF ConfirmCas
    <2> QED
        BY <1>7, <2>1 DEF ConfirmCas, Confirming, Moves, Swaps, ConfirmExpects
<1>8. ASSUME NEW h \in Handlers, CancelCas(h)
      PROVE  Canceling \/ UNCHANGED <<rows, approved, starts>>
    <2>1. req[h].action \in Actions /\ ApplyCancel(req[h].snap) \in Row
          /\ ApplyCancel(req[h].snap).status = "canceled"
        BY <1>1, <1>2, <1>8, Fields, RowsApplied DEF CancelCas
    <2> QED
        BY <1>8, <2>1 DEF CancelCas, Canceling, Moves, history, Swaps, CancelExpects
<1>9. ASSUME NEW h \in Handlers, HandlerFinishCas(h)
      PROVE  Finishing \/ UNCHANGED <<rows, approved, starts>>
    <2>1. /\ ApplyFinish(req[h].snap, req[h].ok) \in Row
          /\ ApplyFinish(req[h].snap, req[h].ok).status =
                 IF req[h].ok THEN "executed" ELSE "failed"
        BY <1>1, Fields, RowsApplied
    <2> QED
        BY <1>9, <2>1
        DEF HandlerFinishCas, Finishing, HandlerFinishes, Moves, history, Swaps,
            FinishExpects
<1>10. ASSUME NEW r \in Runners,
              \/ ChatArrives(r) \/ StreamClosed(r) \/ RunToolCall(r) \/ RunEnds(r)
              \/ RunPlainTool(r) \/ RunRegisters(r) \/ RunStartsWaiting(r)
              \/ EvalDecides(r) \/ RunReadsDecision(r) \/ RunWaitCancelled(r)
       PROVE  UNCHANGED <<rows, approved, starts>>
    BY <1>10 DEF ChatArrives, StreamClosed, RunToolCall, RunEnds, RunPlainTool,
       RunRegisters, RunStartsWaiting, EvalDecides, RunReadsDecision,
       RunWaitCancelled, history
<1>11. ASSUME NEW r \in Runners,
              \/ RunWaitTimesOut(r) \/ RunDenyGet(r) \/ RunDenyRead(r)
              \/ RunReturnsDenied(r) \/ RunApproveGet(r) \/ RunApproveRead(r)
              \/ RunExecuted(r) \/ RunExecuteRaises(r) \/ RunFinishRead(r)
              \/ RunReturnsResult(r) \/ RunRaises(r)
       PROVE  UNCHANGED <<rows, approved, starts>>
    BY <1>11 DEF RunWaitTimesOut, RunDenyGet, RunDenyRead, RunReturnsDenied,
       RunApproveGet, RunApproveRead, RunExecuted, RunExecuteRaises,
       RunFinishRead, RunReturnsResult, RunRaises, history
<1>12. ASSUME NEW h \in Handlers,
              \/ ConfirmResolve(h) \/ CancelResolve(h) \/ HandlerExecuted(h)
              \/ HandlerExecuteRaises(h) \/ HandlerContinues(h)
              \/ HandlerSkipsContinuation(h) \/ HandlerContinued(h)
              \/ HandlerFinishRead(h)
              \/ \E a \in Actions : ConfirmRead(h, a) \/ CancelRead(h, a)
       PROVE  UNCHANGED <<rows, approved, starts>>
    BY <1>12 DEF ConfirmResolve, CancelResolve, HandlerExecuted,
       HandlerExecuteRaises, HandlerContinues, HandlerSkipsContinuation,
       HandlerContinued, HandlerFinishRead, ConfirmRead, CancelRead, ReadRow, history
<1>13. ASSUME NEW p \in Procs, CancelChat(p) \/ Crash(p)
       PROVE  UNCHANGED <<rows, approved, starts>>
    BY <1>13 DEF CancelChat, Crash, history
<1>14. CASE UNCHANGED vars
    BY <1>14 DEF vars, history
<1> QED
    BY <1>3, <1>4, <1>5, <1>6, <1>7, <1>8, <1>9, <1>10, <1>11, <1>12, <1>13, <1>14
    DEF Next, RunStep, HandlerStep, Starting, Recovering

\* The row an action moves to, and the others.
LEMMA MovedRow ==
    ASSUME TypeInv, NEW a \in Actions, NEW from, NEW to, Moves(a, from, to)
    PROVE  /\ rows[a].status \in from /\ rows'[a].status = to
           /\ \A b \in Actions \ {a} : rows'[b] = rows[b]
    BY DEF TypeInv, TypeOK, Moves

LEMMA StartedRow ==
    ASSUME TypeInv, Starting
    PROVE  UNCHANGED <<rows, approved>>
    BY DEF Starting, RunExecutes, HandlerExecutes

LEMMA FinishedRow ==
    ASSUME TypeInv, Finishing
    PROVE  /\ UNCHANGED <<approved, starts>>
           /\ \E a \in Actions, to \in {"executed", "failed"} :
                  Moves(a, {"confirmed"}, to)
<1>1. ASSUME NEW r \in Runners, RunFinishes(r) PROVE run[r].action \in Actions
    BY <1>1 DEF TypeInv, ActionsAreKnown, AwaitingPc, RunFinishes, RunFinishCas
<1>2. ASSUME NEW h \in Handlers, HandlerFinishes(h) PROVE req[h].action \in Actions
    BY <1>2 DEF TypeInv, ActionsAreKnown, HandlerFinishes, HandlerFinishCas
<1> QED
    BY <1>1, <1>2
    DEF Finishing, RunFinishes, HandlerFinishes, RunFinishCas, HandlerFinishCas, history

\* An executed, failed or canceled row is final: no late approver, no stale
\* snapshot, no recovery, with evaluation trials or without, overwrites it.
THEOREM TerminalRowsStay == Spec => TerminalIsFinal
<1> DEFINE Stay == \A a \in Actions : rows[a].status \in Terminal => rows'[a] = rows[a]
<1>1. ASSUME TypeInv, [Next]_vars PROVE Stay
    <2> USE <1>1
    <2> SUFFICES ASSUME NEW a \in Actions, rows[a].status \in Terminal
                 PROVE  rows'[a] = rows[a]
        BY DEF Stay
    <2>1. ASSUME NEW b \in Actions, NEW from \in {{"absent"}, {"pending"},
                     {"confirmed"}, {"pending", "confirmed"}}, NEW to, Moves(b, from, to)
          PROVE  rows'[a] = rows[a]
        <3>1. a # b
            BY <2>1 DEF Moves, Terminal
        <3> QED
            BY <2>1, <3>1, MovedRow
    <2>2. CASE Creating \/ Confirming \/ Canceling
        BY <2>1, <2>2 DEF Creating, Confirming, Canceling
    <2>3. CASE Starting
        BY <2>3, StartedRow
    <2>4. CASE Finishing
        BY <2>1, <2>4, FinishedRow
    <2>5. CASE Recovering
        BY <2>5 DEF Recovering, Restart, RecoverInterrupted, Terminal
    <2> QED
        BY <2>2, <2>3, <2>4, <2>5, RowSteps
<1>2. TypeInv /\ [Next]_vars => Stay
    BY <1>1
<1> QED
    BY <1>2, TypeInit, TypeStep, PTL DEF Spec, TerminalIsFinal, Stay

-----------------------------------------------------------------------------
(* An execution and its outcome.                                           *)

\* A thread that has started the command and has not finished the row.
RunPast(r, a) ==
    run[r].action = a /\ run[r].pc \in {"executing", "finish_read", "finish_cas"}
ReqPast(h, a) ==
    /\ req[h].action = a
    /\ req[h].pc \in {"executing", "continue", "continuing", "finish_read", "finish_cas"}

\* One thread at most is past the start; what it knows is the outcome, and
\* nobody is when the row says "executed" and the command would be running.
ExecutionOK(a) ==
    /\ \A r \in Runners : RunPast(r, a) =>
          starts[a] = 1 /\ (run[r].pc # "executing" /\ run[r].ok => outcome[a] = "ok")
    /\ \A h \in Handlers : ReqPast(h, a) =>
          starts[a] = 1 /\ (req[h].pc # "executing" /\ req[h].ok => outcome[a] = "ok")
    /\ \A r \in Runners, h \in Handlers : ~(RunPast(r, a) /\ ReqPast(h, a))
    /\ \A g, h \in Handlers : ReqPast(g, a) /\ ReqPast(h, a) => g = h
    /\ rows[a].status = "executed" =>
          /\ starts[a] = 1 /\ outcome[a] = "ok"
          /\ \A r \in Runners : ~(run[r].pc = "executing" /\ run[r].action = a)
          /\ \A h \in Handlers : ~(req[h].pc = "executing" /\ req[h].action = a)

ExecutionInv == ServerInv /\ \A a \in Actions : ExecutionOK(a)

\* A thread that neither starts nor ends an execution.
RunQuiet(r) == \A a \in Actions : RunPast(r, a)' =>
    /\ RunPast(r, a) /\ run'[r].ok = run[r].ok
    /\ run'[r].pc = "executing" <=> run[r].pc = "executing"
ReqQuiet(h) == \A a \in Actions : ReqPast(h, a)' =>
    /\ ReqPast(h, a) /\ req'[h].ok = req[h].ok
    /\ req'[h].pc = "executing" <=> req[h].pc = "executing"

LEMMA QuietSteps ==
    ASSUME ExecutionInv, ServerInv', UNCHANGED <<starts, outcome>>,
           \A r \in Runners : RunQuiet(r), \A h \in Handlers : ReqQuiet(h),
           \A a \in Actions : rows'[a].status = "executed" => rows[a].status = "executed"
    PROVE  ExecutionInv'
<1> SUFFICES ASSUME NEW a \in Actions PROVE ExecutionOK(a)'
    BY DEF ExecutionInv
<1>1. ExecutionOK(a)
    BY DEF ExecutionInv
<1>2. \A r \in Runners : run'[r].pc = "executing" /\ run'[r].action = a =>
                             run[r].pc = "executing" /\ run[r].action = a
    BY DEF RunQuiet, RunPast
<1>3. \A h \in Handlers : req'[h].pc = "executing" /\ req'[h].action = a =>
                             req[h].pc = "executing" /\ req[h].action = a
    BY DEF ReqQuiet, ReqPast
<1>4. /\ \A r \in Runners : RunPast(r, a)' =>
             starts'[a] = 1 /\ (run'[r].pc # "executing" /\ run'[r].ok => outcome'[a] = "ok")
      /\ \A h \in Handlers : ReqPast(h, a)' =>
             starts'[a] = 1 /\ (req'[h].pc # "executing" /\ req'[h].ok => outcome'[a] = "ok")
    BY <1>1 DEF ExecutionOK, RunQuiet, ReqQuiet
<1>5. /\ \A r \in Runners, h \in Handlers : ~(RunPast(r, a)' /\ ReqPast(h, a)')
      /\ \A g, h \in Handlers : ReqPast(g, a)' /\ ReqPast(h, a)' => g = h
    BY <1>1 DEF ExecutionOK, RunQuiet, ReqQuiet
<1> QED
    BY <1>1, <1>2, <1>3, <1>4, <1>5 DEF ExecutionOK

\* Nobody else is past the start of the action of a thread that is, or that
\* may start it.
LEMMA AlonePast ==
    ASSUME ExecutionInv, NEW a \in Actions
    PROVE  /\ \A r, s \in Runners : RunPast(r, a) /\ RunPast(s, a) => r = s
           /\ \A r \in Runners : RunMayExecute(r, a) =>
                 /\ starts[a] = 0 /\ rows[a].status # "executed"
                 /\ \A s \in Runners : ~RunPast(s, a)
                 /\ \A h \in Handlers : ~ReqPast(h, a)
           /\ \A g \in Handlers : HandlerMayExecute(g, a) =>
                 /\ starts[a] = 0 /\ rows[a].status # "executed"
                 /\ \A s \in Runners : ~RunPast(s, a)
                 /\ \A h \in Handlers : ~ReqPast(h, a)
<1>1. \A r, s \in Runners : RunPast(r, a) /\ RunPast(s, a) => r = s
    BY DEF ExecutionInv, ServerInv, ActionsAreOwned, RunPast
<1>2. /\ \A r \in Runners : RunMayExecute(r, a) => starts[a] = 0
      /\ \A h \in Handlers : HandlerMayExecute(h, a) => starts[a] = 0
    BY DEF ExecutionInv, ServerInv, TokenIsFresh
<1>3. ExecutionOK(a)
    BY DEF ExecutionInv
<1> QED
    BY <1>1, <1>2, <1>3 DEF ExecutionOK

\* One thread reaches the state past the start of a, or goes on from it.
LEMMA RunGoesPast ==
    ASSUME ExecutionInv, ServerInv', req' = req, NEW r \in Runners, OthersStand(r),
           run[r].action \in Actions, run'[r].action = run[r].action,
           \A b \in Actions \ {run[r].action} :
               /\ starts'[b] = starts[b] /\ outcome'[b] = outcome[b]
               /\ rows'[b] = rows[b],
           RunPast(r, run[r].action) \/ RunMayExecute(r, run[r].action),
           RunPast(r, run[r].action)' =>
               /\ starts'[run[r].action] = 1
               /\ run'[r].pc # "executing" /\ run'[r].ok =>
                      outcome'[run[r].action] = "ok",
           rows'[run[r].action].status = "executed" =>
               /\ starts'[run[r].action] = 1 /\ outcome'[run[r].action] = "ok"
               /\ run'[r].pc # "executing"
    PROVE  ExecutionInv'
<1> SUFFICES ASSUME NEW b \in Actions PROVE ExecutionOK(b)'
    BY DEF ExecutionInv
<1>0. PICK a : a = run[r].action
    OBVIOUS
<1>1. ExecutionOK(b)
    BY DEF ExecutionInv
<1>2. CASE b # a
    BY <1>0, <1>1, <1>2 DEF ExecutionOK, RunPast, ReqPast, OthersStand
<1>3. CASE b = a
    <2>1. \A h \in Handlers : ~ReqPast(h, a)
        BY <1>0, AlonePast DEF ExecutionInv, ExecutionOK
    <2>2. \A s \in Runners \ {r} : ~RunPast(s, a)
        BY <1>0, AlonePast
    <2>3. /\ \A h \in Handlers : ~ReqPast(h, a)' /\ ~(req'[h].pc = "executing" /\ req'[h].action = a)
          /\ \A s \in Runners \ {r} :
                ~RunPast(s, a)' /\ ~(run'[s].pc = "executing" /\ run'[s].action = a)
        BY <2>1, <2>2 DEF RunPast, ReqPast, OthersStand
    <2> QED
        BY <1>0, <1>3, <2>3 DEF ExecutionOK
<1> QED
    BY <1>2, <1>3

LEMMA ReqGoesPast ==
    ASSUME ExecutionInv, ServerInv', run' = run, NEW h \in Handlers,
           \A g \in Handlers \ {h} : req'[g] = req[g],
           req[h].action \in Actions, req'[h].action = req[h].action,
           \A b \in Actions \ {req[h].action} :
               /\ starts'[b] = starts[b] /\ outcome'[b] = outcome[b]
               /\ rows'[b] = rows[b],
           ReqPast(h, req[h].action) \/ HandlerMayExecute(h, req[h].action),
           ReqPast(h, req[h].action)' =>
               /\ starts'[req[h].action] = 1
               /\ req'[h].pc # "executing" /\ req'[h].ok =>
                      outcome'[req[h].action] = "ok",
           rows'[req[h].action].status = "executed" =>
               /\ starts'[req[h].action] = 1 /\ outcome'[req[h].action] = "ok"
               /\ req'[h].pc # "executing"
    PROVE  ExecutionInv'
<1> SUFFICES ASSUME NEW b \in Actions PROVE ExecutionOK(b)'
    BY DEF ExecutionInv
<1>0. PICK a : a = req[h].action
    OBVIOUS
<1>1. ExecutionOK(b)
    BY DEF ExecutionInv
<1>2. CASE b # a
    BY <1>0, <1>1, <1>2 DEF ExecutionOK, RunPast, ReqPast
<1>3. CASE b = a
    <2>1. \A g \in Handlers \ {h} : ~ReqPast(g, a)
        BY <1>0, AlonePast DEF ExecutionInv, ExecutionOK
    <2>2. \A s \in Runners : ~RunPast(s, a)
        BY <1>0, AlonePast DEF ExecutionInv, ExecutionOK
    <2>3. /\ \A s \in Runners : ~RunPast(s, a)' /\ ~(run'[s].pc = "executing" /\ run'[s].action = a)
          /\ \A g \in Handlers \ {h} :
                ~ReqPast(g, a)' /\ ~(req'[g].pc = "executing" /\ req'[g].action = a)
        BY <2>1, <2>2 DEF RunPast, ReqPast
    <2> QED
        BY <1>0, <1>3, <2>3 DEF ExecutionOK
<1> QED
    BY <1>2, <1>3

\* Every step of the program keeps what is known of the executions.
LEMMA ExecutionStep ==
    ASSUME Unattended = {}, ExecutionInv, [Next]_vars
    PROVE  ExecutionInv'
<1>1. ServerInv /\ ServerInv'
    BY ServerStep DEF ExecutionInv
<1>2. RunTyped /\ ReqTyped /\ TypeInv /\ ReqTyped'
    BY <1>1 DEF ServerInv, TypeInv, TypeOK, RunTyped, ReqTyped
<1>3. /\ \A r \in Runners : run[r].pc \in AwaitingPc => run[r].action \in Actions
      /\ \A h \in Handlers : req[h].pc \notin {"new", "done"} => req[h].action \in Actions
    BY <1>2 DEF TypeInv, ActionsAreKnown
<1>4. /\ starts \in [Actions -> Nat] /\ rows \in [Actions -> Row]
      /\ outcome \in [Actions -> {"none", "ok", "error"}]
    BY <1>2 DEF TypeInv, TypeOK
\* Steps that are no part of an execution.
<1>5. ASSUME req' = req, NEW r \in Runners, OthersStand(r), RunQuiet(r)
      PROVE  (\A s \in Runners : RunQuiet(s)) /\ \A h \in Handlers : ReqQuiet(h)
    BY <1>5 DEF OthersStand, RunQuiet, ReqQuiet, RunPast, ReqPast
<1>6. ASSUME run' = run, NEW h \in Handlers,
             \A g \in Handlers \ {h} : req'[g] = req[g], ReqQuiet(h)
      PROVE  (\A s \in Runners : RunQuiet(s)) /\ \A g \in Handlers : ReqQuiet(g)
    BY <1>6 DEF RunQuiet, ReqQuiet, RunPast, ReqPast
<1>7. ASSUME NEW r \in Runners,
             \/ StreamClosed(r) \/ RunToolCall(r) \/ RunEnds(r) \/ RunPlainTool(r)
             \/ RunRegisters(r) \/ RunStartsWaiting(r) \/ EvalDecides(r)
             \/ RunReadsDecision(r) \/ RunWaitCancelled(r) \/ RunWaitTimesOut(r)
             \/ ChatArrives(r)
      PROVE  ExecutionInv'
    <2>1. OthersStand(r) /\ run'[r].pc \notin {"executing", "finish_read", "finish_cas"}
        BY <1>2, <1>7, RunGoto, ToolCall
        DEF StreamClosed, RunToolCall, RunEnds, RunPlainTool, RunRegisters,
            RunStartsWaiting, EvalDecides, RunReadsDecision, RunWaitCancelled,
            RunWaitTimesOut, ChatArrives, StartRun, LeaveRun, RunPc, OthersStand
    <2>2. UNCHANGED <<req, rows, starts, outcome>>
        BY <1>7 DEF StreamClosed, RunToolCall, RunEnds, RunPlainTool, RunRegisters,
           RunStartsWaiting, EvalDecides, RunReadsDecision, RunWaitCancelled,
           RunWaitTimesOut, ChatArrives, history
    <2>3. RunQuiet(r)
        BY <2>1 DEF RunQuiet, RunPast
    <2> QED
        BY <1>1, <1>5, <2>1, <2>2, <2>3, QuietSteps
<1>8. ASSUME NEW r \in Runners,
             \/ RunDenyGet(r) \/ RunReturnsDenied(r) \/ RunApproveGet(r)
             \/ RunReturnsResult(r) \/ RunRaises(r) \/ RunDenyRead(r)
             \/ RunApproveRead(r)
      PROVE  ExecutionInv'
    <2>1. RunDenyRead(r) \/ RunApproveRead(r) => rows[run[r].action] \in Row
        BY <1>3, <1>4 DEF RunDenyRead, RunApproveRead, AwaitingPc
    <2>2. OthersStand(r) /\ run'[r].pc \notin {"executing", "finish_read", "finish_cas"}
        BY <1>2, <1>8, <2>1, RunGoto, RunGotoWith
        DEF RunDenyGet, RunReturnsDenied, RunApproveGet, RunReturnsResult,
            RunRaises, RunDenyRead, RunApproveRead, LeaveRun, RunPc, OthersStand
    <2>3. UNCHANGED <<req, rows, starts, outcome>>
        BY <1>8 DEF RunDenyGet, RunReturnsDenied, RunApproveGet, RunReturnsResult,
            RunRaises, RunDenyRead, RunApproveRead, history
    <2>4. RunQuiet(r)
        BY <2>2 DEF RunQuiet, RunPast
    <2> QED
        BY <1>1, <1>5, <2>2, <2>3, <2>4, QuietSteps
<1>9. ASSUME NEW r \in Runners, RunCreatesAction(r) \/ RunDenyCas(r) \/ RunApproveCas(r)
      PROVE  ExecutionInv'
    <2>1. /\ OthersStand(r) /\ run'[r].pc \notin {"executing", "finish_read", "finish_cas"}
          /\ UNCHANGED <<req, starts, outcome>>
        BY <1>2, <1>9, RunGoto, Owning
        DEF RunCreatesAction, RunDenyCas, RunApproveCas, RunPc, OthersStand, history
    <2>2. \A a \in Actions : rows'[a].status = "executed" => rows[a].status = "executed"
        BY <1>2, <1>4, <1>9, Fields, RowsApplied, NewRows
        DEF RunCreatesAction, RunDenyCas, RunApproveCas
    <2>3. RunQuiet(r)
        BY <2>1 DEF RunQuiet, RunPast
    <2> QED
        BY <1>1, <1>5, <2>1, <2>2, <2>3, QuietSteps
<1>10. ASSUME NEW r \in Runners, RunFinishRead(r) PROVE ExecutionInv'
    <2>1. rows[run[r].action] \in Row
        BY <1>3, <1>4, <1>10 DEF RunFinishRead, AwaitingPc
    <2>2. /\ OthersStand(r) /\ UNCHANGED <<req, rows, starts, outcome>>
          /\ run'[r].action = run[r].action /\ run'[r].ok = run[r].ok
          /\ run'[r].pc \in {"finish_cas", "raise"} /\ run[r].pc = "finish_read"
        BY <1>2, <1>10, <2>1, RunGoto, RunGotoWith
        DEF RunFinishRead, RunPc, OthersStand, history
    <2>3. RunQuiet(r)
        BY <2>2 DEF RunQuiet, RunPast
    <2> QED
        BY <1>1, <1>5, <2>2, <2>3, QuietSteps
<1>11. ASSUME NEW h \in Handlers,
              ConfirmCas(h) \/ ConfirmResolve(h) \/ CancelCas(h) \/ CancelResolve(h)
       PROVE  ExecutionInv'
    <2>1. /\ \A g \in Handlers \ {h} : req'[g] = req[g]
          /\ req'[h].pc \in {"confirm_resolve", "cancel_resolve", "execute", "done"}
          /\ UNCHANGED <<run, starts, outcome>>
        BY <1>2, <1>11, ReqGotos
        DEF ConfirmCas, ConfirmResolve, CancelCas, CancelResolve, ReqPc, history
    <2>2. \A a \in Actions : rows'[a].status = "executed" => rows[a].status = "executed"
        BY <1>2, <1>4, <1>11, Fields, RowsApplied
        DEF ConfirmCas, ConfirmResolve, CancelCas, CancelResolve
    <2>3. ReqQuiet(h)
        BY <2>1 DEF ReqQuiet, ReqPast
    <2> QED
        BY <1>1, <1>6, <2>1, <2>2, <2>3, QuietSteps
<1>12. ASSUME NEW h \in Handlers, HandlerSkipsContinuation(h) \/ HandlerContinued(h)
              \/ HandlerFinishRead(h)
       PROVE  ExecutionInv'
    <2>1. HandlerFinishRead(h) => rows[req[h].action] \in Row /\ req[h].action \in Actions
        BY <1>3, <1>4 DEF HandlerFinishRead
    <2>2. /\ \A g \in Handlers \ {h} : req'[g] = req[g]
          /\ req[h].pc \in {"continue", "continuing", "finish_read"}
          /\ req'[h].pc \in {"finish_read", "finish_cas", "done"}
          /\ req'[h].action = req[h].action /\ req'[h].ok = req[h].ok
          /\ UNCHANGED <<run, rows, starts, outcome>>
        BY <1>2, <1>12, <2>1, ReqGotos, ReqGotosWith
        DEF HandlerSkipsContinuation, HandlerContinued, HandlerFinishRead, ReqPc, history
    <2>3. ReqQuiet(h)
        BY <2>2 DEF ReqQuiet, ReqPast
    <2> QED
        BY <1>1, <1>6, <2>2, <2>3, QuietSteps
<1>13. ASSUME NEW h \in Handlers, HandlerContinues(h) PROVE ExecutionInv'
    <2>1. /\ \A g \in Handlers \ {h} : req'[g] = req[g]
          /\ req[h].pc = "continue" /\ req'[h].pc = "continuing"
          /\ req'[h].action = req[h].action /\ req'[h].ok = req[h].ok
          /\ UNCHANGED <<rows, starts, outcome>>
        BY <1>2, <1>13, ReqGotos DEF HandlerContinues, ReqPc, history
    <2>2. OthersStand(h) /\ run'[h].pc = "model"
        BY <1>2, <1>13, Located, RunGoto DEF HandlerContinues, StartRun, RunPc, OthersStand
    <2>3. (\A r \in Runners : RunQuiet(r)) /\ \A g \in Handlers : ReqQuiet(g)
        BY <2>1, <2>2 DEF RunQuiet, ReqQuiet, RunPast, ReqPast, OthersStand
    <2> QED
        BY <1>1, <2>1, <2>3, QuietSteps
<1>14. ASSUME NEW h \in Handlers, NEW a \in Actions, ConfirmRead(h, a) \/ CancelRead(h, a)
       PROVE  ExecutionInv'
    <2>1. /\ \A g \in Handlers \ {h} : req'[g] = req[g]
          /\ req'[h].pc \in {"confirm_cas", "cancel_cas", "done"}
          /\ UNCHANGED <<run, rows, starts, outcome>>
        BY <1>2, <1>4, <1>14, ReqGotos, ReqGotosWith
        DEF ConfirmRead, CancelRead, ReadRow, ReqPc, history
    <2>2. ReqQuiet(h)
        BY <2>1 DEF ReqQuiet, ReqPast
    <2> QED
        BY <1>1, <1>6, <2>1, <2>2, QuietSteps
<1>15. ASSUME NEW p \in Procs, CancelChat(p) \/ Crash(p) \/ Restart(p)
       PROVE  ExecutionInv'
    <2>1. /\ \A r \in Runners : run'[r] = run[r] \/ run'[r].pc = "ended"
          /\ \A h \in Handlers : req'[h] = req[h] \/ req'[h].pc = "done"
        <3>1. CASE Crash(p)
            <4>1. \A r \in Runners :
                     run'[r] = IF ProcOf[r] = p /\ run[r].pc # "idle"
                               THEN [run[r] EXCEPT !.pc = "ended"] ELSE run[r]
                BY <3>1 DEF Crash
            <4>2. \A h \in Handlers :
                     req'[h] = IF ProcOf[h] = p /\ req[h].pc # "new"
                               THEN [req[h] EXCEPT !.pc = "done"] ELSE req[h]
                BY <3>1 DEF Crash
            <4>3. (\A r \in Runners : run[r] \in Run) /\ \A h \in Handlers : req[h] \in Req
                BY <1>2 DEF RunTyped, ReqTyped
            <4>4. /\ \A r \in Runners : [run[r] EXCEPT !.pc = "ended"].pc = "ended"
                  /\ \A h \in Handlers : [req[h] EXCEPT !.pc = "done"].pc = "done"
                BY <4>3, Crashed
            <4>5. \A r \in Runners : run'[r] = run[r] \/ run'[r].pc = "ended"
                BY <4>1, <4>4
            <4>6. \A h \in Handlers : req'[h] = req[h] \/ req'[h].pc = "done"
                BY <4>2, <4>4
            <4> QED
                BY <4>5, <4>6
        <3>2. CASE CancelChat(p) \/ Restart(p)
            BY <3>2 DEF CancelChat, Restart
        <3> QED
            BY <1>15, <3>1, <3>2
    <2>2. (\A r \in Runners : RunQuiet(r)) /\ \A g \in Handlers : ReqQuiet(g)
        BY <2>1 DEF RunQuiet, ReqQuiet, RunPast, ReqPast
    <2>3. \A a \in Actions : rows'[a].status = "executed" => rows[a].status = "executed"
        BY <1>4, <1>15, Recovered DEF CancelChat, Crash, Restart
    <2>4. UNCHANGED <<starts, outcome>>
        BY <1>15 DEF CancelChat, Crash, Restart, history
    <2> QED
        BY <1>1, <2>2, <2>3, <2>4, QuietSteps
<1>16. CASE UNCHANGED vars
    <2>1. UNCHANGED <<run, req, rows, starts, outcome>>
        BY <1>16 DEF vars, history
    <2>2. (\A r \in Runners : RunQuiet(r)) /\ \A g \in Handlers : ReqQuiet(g)
        BY <2>1 DEF RunQuiet, ReqQuiet, RunPast, ReqPast
    <2> QED
        BY <1>1, <2>1, <2>2, QuietSteps
\* The start of the command, its end, and the row that reports it.
<1>17. ASSUME NEW r \in Runners, RunExecutes(r) PROVE ExecutionInv'
    <2>1. PICK a \in Actions : a = run[r].action
        BY <1>3, <1>17 DEF RunExecutes, AwaitingPc
    <2>2. RunMayExecute(r, a) /\ starts[a] = 0 /\ rows[a].status # "executed"
        BY <1>17, <2>1, AlonePast DEF RunExecutes, RunMayExecute
    <2>3. /\ OthersStand(r) /\ run'[r].action = a /\ run'[r].pc = "executing"
        BY <1>2, <1>17, <2>1, RunGoto DEF RunExecutes, RunPc, OthersStand
    <2>4. /\ starts'[a] = 1 /\ UNCHANGED <<req, rows, outcome>>
          /\ \A b \in Actions \ {a} : starts'[b] = starts[b]
        BY <1>4, <1>17, <2>1, <2>2 DEF RunExecutes
    <2> QED
        BY <1>1, <2>1, <2>2, <2>3, <2>4, RunGoesPast
<1>18. ASSUME NEW h \in Handlers, HandlerExecutes(h) PROVE ExecutionInv'
    <2>1. PICK a \in Actions : a = req[h].action
        BY <1>3, <1>18 DEF HandlerExecutes
    <2>2. HandlerMayExecute(h, a) /\ starts[a] = 0 /\ rows[a].status # "executed"
        BY <1>18, <2>1, AlonePast DEF HandlerExecutes, HandlerMayExecute
    <2>3. /\ \A g \in Handlers \ {h} : req'[g] = req[g]
          /\ req'[h].action = a /\ req'[h].pc = "executing"
        BY <1>2, <1>18, <2>1, ReqGotos DEF HandlerExecutes, ReqPc
    <2>4. /\ starts'[a] = 1 /\ UNCHANGED <<run, rows, outcome>>
          /\ \A b \in Actions \ {a} : starts'[b] = starts[b]
        BY <1>4, <1>18, <2>1, <2>2 DEF HandlerExecutes
    <2> QED
        BY <1>1, <2>1, <2>2, <2>3, <2>4, ReqGoesPast
<1>19. ASSUME NEW r \in Runners, RunExecuted(r) \/ RunExecuteRaises(r)
       PROVE  ExecutionInv'
    <2>1. PICK a \in Actions : a = run[r].action
        BY <1>3, <1>19 DEF RunExecuted, RunExecuteRaises, AwaitingPc
    <2>2. /\ RunPast(r, a) /\ run[r].pc = "executing"
        BY <1>19, <2>1 DEF RunExecuted, RunExecuteRaises, RunPast
    <2>3. starts[a] = 1 /\ rows[a].status # "executed"
        BY <2>1, <2>2 DEF ExecutionInv, ExecutionOK
    <2>4. /\ OthersStand(r) /\ run'[r].action = a
          /\ \/ run'[r].pc = "finish_read" /\ (run'[r].ok => outcome'[a] = "ok")
             \/ run'[r].pc = "raise"
        <3>1. CASE RunExecuted(r)
            <4>1. PICK ok \in BOOLEAN :
                     /\ outcome' = [outcome EXCEPT ![a] = IF ok THEN "ok" ELSE "error"]
                     /\ GotoEnded(r, "finish_read", ok)
                BY <2>1, <3>1 DEF RunExecuted
            <4> QED
                BY <1>2, <1>4, <2>1, <4>1, RunGotoEnded DEF RunPc, OthersStand
        <3>2. CASE RunExecuteRaises(r)
            BY <1>2, <2>1, <3>2, RunGoto DEF RunExecuteRaises, RunPc, OthersStand
        <3> QED
            BY <1>19, <3>1, <3>2
    <2>5. /\ UNCHANGED <<req, rows, starts>>
          /\ \A b \in Actions \ {a} : outcome'[b] = outcome[b]
        BY <1>4, <1>19, <2>1 DEF RunExecuted, RunExecuteRaises
    <2>6. RunPast(r, a)' => run'[r].pc = "finish_read"
        BY <2>4 DEF RunPast
    <2> QED
        BY <1>1, <2>1, <2>2, <2>3, <2>4, <2>5, <2>6, RunGoesPast
<1>20. ASSUME NEW h \in Handlers, HandlerExecuted(h) \/ HandlerExecuteRaises(h)
       PROVE  ExecutionInv'
    <2>1. PICK a \in Actions : a = req[h].action
        BY <1>3, <1>20 DEF HandlerExecuted, HandlerExecuteRaises
    <2>2. ReqPast(h, a) /\ req[h].pc = "executing"
        BY <1>20, <2>1 DEF HandlerExecuted, HandlerExecuteRaises, ReqPast
    <2>3. starts[a] = 1 /\ rows[a].status # "executed"
        BY <2>1, <2>2 DEF ExecutionInv, ExecutionOK
    <2>4. /\ \A g \in Handlers \ {h} : req'[g] = req[g]
          /\ req'[h].action = a /\ req'[h].pc # "executing"
          /\ req'[h].ok => outcome'[a] = "ok"
        <3>1. CASE HandlerExecuted(h)
            <4>1. PICK ok \in BOOLEAN :
                     /\ outcome' = [outcome EXCEPT ![a] = IF ok THEN "ok" ELSE "error"]
                     /\ ReqGotoEnded(h, "continue", ok)
                BY <2>1, <3>1 DEF HandlerExecuted
            <4> QED
                BY <1>2, <1>4, <2>1, <4>1, ReqGotosEnded DEF ReqPc
        <3>2. CASE HandlerExecuteRaises(h)
            BY <1>2, <2>1, <3>2, ReqGotosEnded DEF HandlerExecuteRaises, ReqPc
        <3> QED
            BY <1>20, <3>1, <3>2
    <2>5. /\ UNCHANGED <<run, rows, starts>>
          /\ \A b \in Actions \ {a} : outcome'[b] = outcome[b]
        BY <1>4, <1>20, <2>1 DEF HandlerExecuted, HandlerExecuteRaises
    <2> QED
        BY <1>1, <2>1, <2>2, <2>3, <2>4, <2>5, ReqGoesPast
<1>21. ASSUME NEW r \in Runners, RunFinishCas(r) PROVE ExecutionInv'
    <2>1. PICK a \in Actions : a = run[r].action
        BY <1>3, <1>21 DEF RunFinishCas, AwaitingPc
    <2>2. RunPast(r, a) /\ run[r].pc = "finish_cas"
        BY <1>21, <2>1 DEF RunFinishCas, RunPast
    <2>3. /\ starts[a] = 1 /\ (run[r].ok => outcome[a] = "ok")
          /\ rows[a].status = "executed" => outcome[a] = "ok"
        BY <2>1, <2>2 DEF ExecutionInv, ExecutionOK
    <2>4. /\ OthersStand(r) /\ run'[r].action = a
          /\ run'[r].pc \in {"return_result", "raise"} /\ ~RunPast(r, a)'
        BY <1>2, <1>21, <2>1, RunGoto DEF RunFinishCas, RunPc, OthersStand, RunPast
    <2>5. /\ UNCHANGED <<req, starts, outcome>>
          /\ \A b \in Actions \ {a} : rows'[b] = rows[b]
          /\ rows'[a].status = "executed" => run[r].ok \/ rows[a].status = "executed"
        BY <1>2, <1>4, <1>21, <2>1, Fields, RowsApplied DEF RunFinishCas, history
    <2> QED
        BY <1>1, <2>1, <2>2, <2>3, <2>4, <2>5, RunGoesPast
<1>22. ASSUME NEW h \in Handlers, HandlerFinishCas(h) PROVE ExecutionInv'
    <2>1. PICK a \in Actions : a = req[h].action
        BY <1>3, <1>22 DEF HandlerFinishCas
    <2>2. ReqPast(h, a) /\ req[h].pc = "finish_cas"
        BY <1>22, <2>1 DEF HandlerFinishCas, ReqPast
    <2>3. /\ starts[a] = 1 /\ (req[h].ok => outcome[a] = "ok")
          /\ rows[a].status = "executed" => outcome[a] = "ok"
        BY <2>1, <2>2 DEF ExecutionInv, ExecutionOK
    <2>4. /\ \A g \in Handlers \ {h} : req'[g] = req[g]
          /\ req'[h].action = a /\ req'[h].pc = "done" /\ ~ReqPast(h, a)'
        BY <1>2, <1>22, <2>1, ReqGotos DEF HandlerFinishCas, ReqPc, ReqPast
    <2>5. /\ UNCHANGED <<run, starts, outcome>>
          /\ \A b \in Actions \ {a} : rows'[b] = rows[b]
          /\ rows'[a].status = "executed" => req[h].ok \/ rows[a].status = "executed"
        BY <1>2, <1>4, <1>22, <2>1, Fields, RowsApplied DEF HandlerFinishCas, history
    <2> QED
        BY <1>1, <2>1, <2>2, <2>3, <2>4, <2>5, ReqGoesPast
<1> QED
    BY <1>7, <1>8, <1>9, <1>10, <1>11, <1>12, <1>13, <1>14, <1>15, <1>16, <1>17,
       <1>18, <1>19, <1>20, <1>21, <1>22
    DEF Next, RunStep, HandlerStep

LEMMA ExecutionInvariant ==
    ASSUME Unattended = {}
    PROVE  Spec => []ExecutionInv
<1>1. Init => ExecutionInv
    <2> SUFFICES ASSUME Init PROVE ExecutionInv
        OBVIOUS
    <2>1. /\ \A r \in Runners : run[r].pc = "idle"
          /\ \A h \in Handlers : req[h].pc = "new"
          /\ \A a \in Actions : rows[a].status = "absent"
        BY NewRows DEF Init, IdleRun, NewReq
    <2> QED
        BY <2>1, ServerInit DEF ExecutionInv, ExecutionOK, RunPast, ReqPast
<1>2. ExecutionInv /\ [Next]_vars => ExecutionInv'
    BY ExecutionStep
<1> QED
    BY <1>1, <1>2, PTL DEF Spec

\* Without evaluation trials a row says "executed" only when its command was
\* started once, succeeded, and is not running any more, in the run's thread
\* or in that of an endpoint.
THEOREM ExecutedIsTrue ==
    ASSUME Unattended = {}
    PROVE  Spec => []ExecutedMeansSuccess
<1>1. ExecutionInv => ExecutedMeansSuccess
    BY DEF ExecutionInv, ExecutionOK, ExecutedMeansSuccess
<1> QED
    BY <1>1, ExecutionInvariant, PTL

-----------------------------------------------------------------------------
(* The subsystem implements the lifecycle of an action.                    *)

StatusOf == [a \in Actions |-> rows[a].status]

LEMMA MovedStatus ==
    ASSUME TypeInv, NEW a \in Actions, NEW from, NEW to, Moves(a, from, to)
    PROVE  /\ StatusOf[a] \in from
           /\ StatusOf' = [StatusOf EXCEPT ![a] = to]
    BY MovedRow DEF StatusOf

\* Every step is a step of the lifecycle or leaves it alone: creation,
\* confirmation, cancellation, start, end and recovery of one action.
LEMMA LifecycleStep ==
    ASSUME Unattended = {}, ExecutionInv, [Next]_vars
    PROVE  [Lifecycle!Next]_(Lifecycle!lifecycle)
<1>1. TypeInv /\ ServerInv
    BY DEF ExecutionInv, ServerInv, TypeInv
<1> USE <1>1
<1>2. CASE UNCHANGED <<rows, approved, starts>>
    BY <1>2 DEF Lifecycle!lifecycle
<1>3. CASE Creating
    <2>1. PICK a \in Actions :
              Moves(a, {"absent"}, "pending") /\ UNCHANGED <<approved, starts>>
        BY <1>3 DEF Creating
    <2>2. Lifecycle!Create(a)
        BY <2>1, MovedStatus DEF Lifecycle!Create, Lifecycle!Move, StatusOf
    <2> QED
        BY <2>2 DEF Lifecycle!Next
<1>4. CASE Confirming
    <2>1. PICK a \in Actions :
              /\ Moves(a, {"pending"}, "confirmed")
              /\ approved' = [approved EXCEPT ![a] = TRUE] /\ starts' = starts
        BY <1>4 DEF Confirming
    <2>2. Lifecycle!Confirm(a)
        BY <2>1, MovedStatus DEF Lifecycle!Confirm, Lifecycle!Move, StatusOf
    <2> QED
        BY <2>2 DEF Lifecycle!Next
<1>5. CASE Canceling
    <2>1. PICK a \in Actions :
              /\ Moves(a, {"pending", "confirmed"}, "canceled")
              /\ UNCHANGED <<approved, starts>>
        BY <1>5 DEF Canceling
    <2>2. Lifecycle!Cancel(a)
        BY <2>1, MovedStatus DEF Lifecycle!Cancel, Lifecycle!Move, StatusOf
    <2> QED
        BY <2>2 DEF Lifecycle!Next
<1>6. CASE Starting
    <2>1. PICK a \in Actions : approved[a] /\ starts[a] = 0
                               /\ starts' = [starts EXCEPT ![a] = starts[a] + 1]
        <3>1. ASSUME NEW r \in Runners, RunExecutes(r)
              PROVE  run[r].action \in Actions /\ RunMayExecute(r, run[r].action)
            BY <3>1 DEF RunExecutes, TypeInv, ActionsAreKnown, AwaitingPc, RunMayExecute
        <3>2. ASSUME NEW h \in Handlers, HandlerExecutes(h)
              PROVE  req[h].action \in Actions /\ HandlerMayExecute(h, req[h].action)
            BY <3>2 DEF HandlerExecutes, TypeInv, ActionsAreKnown, HandlerMayExecute
        <3>3. CASE \E r \in Runners : RunExecutes(r)
            BY <3>1, <3>3 DEF RunExecutes, ServerInv, TokenIsFresh
        <3>4. CASE \E h \in Handlers : HandlerExecutes(h)
            BY <3>2, <3>4 DEF HandlerExecutes, ServerInv, TokenIsFresh
        <3> QED
            BY <1>6, <3>3, <3>4 DEF Starting
    <2>2. Lifecycle!Start(a)
        BY <1>6, <2>1, StartedRow DEF Lifecycle!Start
    <2> QED
        BY <2>2 DEF Lifecycle!Next
<1>7. CASE Finishing
    <2>1. ASSUME NEW r \in Runners, RunFinishes(r)
          PROVE  \E a \in Actions : Lifecycle!Succeed(a) \/ Lifecycle!Fail(a)
        <3>1. PICK a \in Actions : a = run[r].action
            BY <2>1 DEF RunFinishes, RunFinishCas, TypeInv, ActionsAreKnown, AwaitingPc
        <3>2. RunPast(r, a) /\ starts[a] = 1
            BY <2>1, <3>1 DEF RunFinishes, RunFinishCas, RunPast, ExecutionInv, ExecutionOK
        <3>3. UNCHANGED <<approved, starts>>
            BY <2>1 DEF RunFinishes, RunFinishCas, history
        <3>4. Moves(a, {"confirmed"}, "executed") \/ Moves(a, {"confirmed"}, "failed")
            BY <2>1, <3>1 DEF RunFinishes
        <3> QED
            BY <3>2, <3>3, <3>4, MovedStatus
            DEF Lifecycle!Succeed, Lifecycle!Fail, Lifecycle!Move, StatusOf
    <2>2. ASSUME NEW h \in Handlers, HandlerFinishes(h)
          PROVE  \E a \in Actions : Lifecycle!Succeed(a) \/ Lifecycle!Fail(a)
        <3>1. PICK a \in Actions : a = req[h].action
            BY <2>2 DEF HandlerFinishes, HandlerFinishCas, TypeInv, ActionsAreKnown
        <3>2. ReqPast(h, a) /\ starts[a] = 1
            BY <2>2, <3>1 DEF HandlerFinishes, HandlerFinishCas, ReqPast, ExecutionInv,
               ExecutionOK
        <3>3. UNCHANGED <<approved, starts>>
            BY <2>2 DEF HandlerFinishes, HandlerFinishCas, history
        <3>4. Moves(a, {"confirmed"}, "executed") \/ Moves(a, {"confirmed"}, "failed")
            BY <2>2, <3>1 DEF HandlerFinishes
        <3> QED
            BY <3>2, <3>3, <3>4, MovedStatus
            DEF Lifecycle!Succeed, Lifecycle!Fail, Lifecycle!Move, StatusOf
    <2> QED
        BY <1>7, <2>1, <2>2 DEF Finishing, Lifecycle!Next
<1>8. CASE Recovering
    <2>1. /\ UNCHANGED <<approved, starts>>
          /\ \A a \in Actions : rows'[a].status =
                IF rows[a].status = "confirmed" THEN "failed" ELSE rows[a].status
        BY <1>8, Recovered DEF Recovering, Restart, TypeInv, TypeOK, history
    <2>2. Lifecycle!Recover
        BY <2>1 DEF Lifecycle!Recover
    <2> QED
        BY <2>2 DEF Lifecycle!Next
<1> QED
    BY <1>2, <1>3, <1>4, <1>5, <1>6, <1>7, <1>8, RowSteps

\* Without evaluation trials the rows, the approvals and the starts follow
\* the lifecycle that ApprovalLifecycle promises, whoever acts in whichever
\* order, and whatever crashes.
THEOREM LifecycleImplemented ==
    ASSUME Unattended = {}
    PROVE  Spec => ImplementsLifecycle
<1>1. Init => Lifecycle!Init
    BY NewRows DEF Init, Lifecycle!Init
<1>2. ExecutionInv /\ [Next]_vars => [Lifecycle!Next]_(Lifecycle!lifecycle)
    BY LifecycleStep
<1> QED
    BY <1>1, <1>2, ExecutionInvariant, PTL
    DEF Spec, ImplementsLifecycle, Lifecycle!Spec
=============================================================================
