------------------------- MODULE RunRecovery_proofs -------------------------
(***************************************************************************)
(* Proofs about RunRecovery, for any number of chats, resume requests,     *)
(* tool calls, crashes and resets.                                         *)
(*                                                                         *)
(* The argument: a run has one stream, from the moment its chat arrives or *)
(* a resume request is accepted, because its row is not resumable while a  *)
(* stream works on it (RowOK); so nobody else writes the row between what  *)
(* a stream does and what it saves.  A call of a tool starts while the row *)
(* is unsafe (MarkedUnsafe, AskedUnsafe), and its result is in the         *)
(* conversation or in the hands of the run's stream (ResultsKept) when the *)
(* row becomes safe again.                                                 *)
(***************************************************************************)
EXTENDS RunRecovery, TLAPS

Active(x) == stream[x].pc \notin {"new", "done"}
LoopPc == {"creating", "saving", "model", "tools", "calling", "asking", "asked"}
InLoop(x) == stream[x].pc \in LoopPc
RowOf(x) == runRows[stream[x].target]

\* A stream executes the run of its chat or a run that is resumed; it dies
\* with the process, an accepted request keeps the event loop, and whoever
\* executes holds the lock.
PlaceOK(x) ==
    /\ Active(x) =>
         /\ alive
         /\ stream[x].target \in RunChats
         /\ x \in RunChats => stream[x].target = x /\ stream[x].pc # "accepted"
         /\ x \in Resumes => stream[x].pc # "creating"
    /\ stream[x].pc = "accepted" => handler = x
    /\ InLoop(x) => runLock = x

\* The row of a run as its stream has left it.
RowOK(x) ==
    /\ x \in RunChats /\ stream[x].pc \in {"new", "queued", "creating"} =>
         runRows[x].status = "absent"
    /\ InLoop(x) /\ stream[x].pc # "creating" => RowOf(x).status = "running"
    /\ x \in Resumes =>
         /\ stream[x].pc = "accepted" => RowOf(x).status \in ResumableStatus
         /\ stream[x].pc = "queued" => RowOf(x).status = "running"
         /\ stream[x].pc \in {"accepted", "queued"} =>
                RowOf(x).safe /\ stream[x].snap = RowOf(x).messages

\* The agent works on the run of the stream that holds the lock, unless the
\* session was reset.
AgentOK(x) == InLoop(x) =>
    \/ agent.run = stream[x].target
    \/ agent.run = None /\ stream[x].target \in orphaned

\* What a stream is about to save, and what it has in hand when the row is
\* safe or will be.
SaveOK(x) ==
    /\ stream[x].pc = "saving" =>
         /\ stream[x].run = stream[x].target
         /\ \/ stream[x].next = "done"
            \/ stream[x].next = "model" /\ stream[x].save = Safe
            \/ stream[x].next \in {"calling", "asked"} /\ stream[x].save = Unsafe
    /\ \/ stream[x].pc \in {"new", "accepted", "queued", "creating", "model"}
       \/ stream[x].pc = "saving" /\ stream[x].save.safe
       => stream[x].results = {} /\ stream[x].todo = {}

StreamOK(x) == PlaceOK(x) /\ RowOK(x) /\ AgentOK(x) /\ SaveOK(x)
StreamInv == /\ RecoveryTypeOK /\ OneStreamPerRun
             /\ \A x \in Streams : StreamOK(x)

\* A stream is at a call, or waits for its approval.
HasCall(x) == \/ stream[x].pc \in {"calling", "asking", "asked"}
              \/ stream[x].pc = "saving" /\ stream[x].next \in {"calling", "asked"}
Waits(x) == \/ stream[x].pc \in {"asking", "asked"}
            \/ stream[x].pc = "saving" /\ stream[x].next = "asked"
Used(c) == call[c].state # "unused"
CallOf(c, x) == Used(c) /\ call[c].run = stream[x].target

\* The call a stream has reached and those it has not reached yet belong to
\* its run; the row is unsafe while the stream is at a call, and the results
\* of all calls that were started are in the conversation or in its hands.
StreamCalls(x) ==
    /\ Active(x) => \A c \in stream[x].todo : CallOf(c, x)
    /\ HasCall(x) => stream[x].now \in Calls /\ CallOf(stream[x].now, x)
    /\ stream[x].target \notin orphaned =>
         /\ stream[x].pc = "calling" \/ Waits(x) => ~RowOf(x).safe
         /\ InLoop(x) =>
              \A c \in Calls :
                 call[c].state = "started" /\ call[c].run = stream[x].target =>
                    c \in agent.messages \cup stream[x].results \cup forgotten

\* A call belongs to a run that has a row.  The row is unsafe as long as the
\* call waits for an approval, with its stream or after it; a row that is
\* safe has the result of a call that was started.
CallOK(c) ==
    /\ Used(c) => /\ call[c].run \in RunChats
                  /\ runRows[call[c].run].status # "absent"
    /\ call[c].run \notin orphaned =>
         /\ call[c].state = "asked" =>
              /\ ~runRows[call[c].run].safe
              /\ \A x \in Streams :
                    Active(x) /\ stream[x].target = call[c].run =>
                        stream[x].now = c /\ Waits(x)
         /\ call[c].state = "started" /\ runRows[call[c].run].safe =>
              c \in runRows[call[c].run].messages \cup forgotten

CallsInv == /\ \A x \in Streams : StreamCalls(x)
            /\ \A c \in Calls : CallOK(c)
RecoveryInv == StreamInv /\ CallsInv

-----------------------------------------------------------------------------
(* What one stream does leaves the others as they were.                    *)

OthersSame(x) == \A y \in Streams \ {x} : stream'[y] = stream[y]

\* Nobody but the stream of a run writes its row.
OwnRow(x) ==
    \A r \in RunChats : \/ Active(x) /\ r = stream[x].target
                        \/ runRows'[r] = runRows[r]

LEMMA OthersRows ==
    ASSUME StreamInv, NEW x \in Streams, NEW y \in Streams, x # y,
           OwnRow(x)
    PROVE  /\ Active(y) => RowOf(y) = runRows'[stream[y].target]
           /\ y \in RunChats /\ stream[y].pc = "new" => runRows'[y] = runRows[y]
<1> USE DEF StreamInv
<1>1. ASSUME Active(y) PROVE RowOf(y) = runRows'[stream[y].target]
  <2>1. stream[y].target \in RunChats
    BY <1>1 DEF StreamOK, PlaceOK
  <2>2. Active(x) => stream[x].target # stream[y].target
    BY <1>1 DEF OneStreamPerRun, Active
  <2> QED
    BY <2>1, <2>2 DEF OwnRow, RowOf
<1>2. ASSUME y \in RunChats, stream[y].pc = "new" PROVE runRows'[y] = runRows[y]
  <2>1. runRows[y].status = "absent"
    BY <1>2 DEF StreamOK, RowOK
  <2>2. ASSUME Active(x), stream[x].target = y PROVE FALSE
    <3>1. x \in Resumes
      BY <2>2 DEF StreamOK, PlaceOK, Streams
    <3>2. stream[x].pc \in {"accepted", "queued"} \/ InLoop(x)
      BY <2>2 DEF RecoveryTypeOK, Stream, StreamPc, Active, InLoop, LoopPc
    <3>3. stream[x].pc # "creating"
      BY <2>2, <3>1 DEF StreamOK, PlaceOK
    <3>4. RowOf(x).status # "absent"
      BY <3>1, <3>2, <3>3 DEF StreamOK, RowOK, ResumableStatus
    <3> QED
      BY <2>1, <2>2, <3>4 DEF RowOf
  <2> QED
    BY <1>2, <2>2 DEF OwnRow
<1> QED
  BY <1>1, <1>2

\* The lock is free or x has it: nobody else is in the loop.
LEMMA AloneInLoop ==
    ASSUME StreamInv, NEW x \in Streams, runLock \in {x, None}
    PROVE  \A y \in Streams \ {x} : ~InLoop(y)
    BY RecoveryAssumption DEF StreamInv, StreamOK, PlaceOK

LEMMA OthersStay ==
    ASSUME StreamInv, NEW x \in Streams, OthersSame(x), OwnRow(x),
           alive' = alive, orphaned' = orphaned,
           handler' = handler \/ handler \in {x, None},
           UNCHANGED <<agent, runLock>> \/ runLock \in {x, None}
    PROVE  \A y \in Streams \ {x} : StreamOK(y)'
<1> SUFFICES ASSUME NEW y \in Streams \ {x} PROVE StreamOK(y)'
    OBVIOUS
<1>1. stream'[y] = stream[y] /\ StreamOK(y)
  BY DEF OthersSame, StreamInv
<1>2. InLoop(y) => UNCHANGED <<agent, runLock>>
  BY AloneInLoop
<1>3. stream[y].pc = "accepted" => handler' = handler
  BY <1>1, RecoveryAssumption DEF StreamOK, PlaceOK
<1>4. /\ Active(y) => RowOf(y) = runRows'[stream[y].target]
      /\ y \in RunChats /\ stream[y].pc = "new" => runRows'[y] = runRows[y]
  BY OthersRows
<1>5. InLoop(y) => Active(y)
  BY DEF InLoop, LoopPc, Active
<1>6. PlaceOK(y)'
  BY <1>1, <1>2, <1>3 DEF StreamOK, PlaceOK, Active, InLoop
<1>7. RowOK(y)'
  <2>1. y \in RunChats /\ stream[y].pc \in {"queued", "creating"} =>
            runRows'[y] = runRows[y]
    BY <1>1, <1>4 DEF StreamOK, PlaceOK, Active, RowOf
  <2>2. stream[y].pc \in {"accepted", "queued"} \/ InLoop(y) => Active(y)
    BY <1>5 DEF Active
  <2> QED
    BY <1>1, <1>4, <2>1, <2>2 DEF StreamOK, RowOK, RowOf, InLoop
<1>8. AgentOK(y)'
  BY <1>1, <1>2 DEF StreamOK, AgentOK, InLoop
<1>9. SaveOK(y)'
  BY <1>1 DEF StreamOK, SaveOK
<1> QED
  BY <1>6, <1>7, <1>8, <1>9 DEF StreamOK

\* A stream that does not begin cannot become a second one of its run.
LEMMA StillOneStream ==
    ASSUME OneStreamPerRun, NEW x \in Streams, OthersSame(x),
           Active(x)' => Active(x) /\ stream'[x].target = stream[x].target
    PROVE  OneStreamPerRun'
    BY DEF OneStreamPerRun, OthersSame, Active

\* A stream leaves the calls of other runs alone.
OwnCalls(x) ==
    \A c \in Calls :
        \/ call'[c] = call[c]
        \/ /\ Active(x) /\ call'[c].run = stream[x].target
           /\ Used(c) => CallOf(c, x)
           /\ Used(c)'

LEMMA OthersKeepCalls ==
    ASSUME RecoveryInv, NEW x \in Streams, OthersSame(x), OwnRow(x),
           OwnCalls(x), orphaned' = orphaned, forgotten \subseteq forgotten',
           agent' = agent \/ runLock \in {x, None}
    PROVE  \A y \in Streams \ {x} : StreamCalls(y)'
<1> SUFFICES ASSUME NEW y \in Streams \ {x} PROVE StreamCalls(y)'
    OBVIOUS
<1> USE DEF RecoveryInv
<1>1. stream'[y] = stream[y] /\ StreamCalls(y)
  BY DEF OthersSame, CallsInv
<1>2. InLoop(y) => agent' = agent
  BY AloneInLoop
<1>3. Active(y) => RowOf(y) = runRows'[stream[y].target]
  BY OthersRows
<1>4. Active(x) /\ Active(y) => stream[x].target # stream[y].target
  BY DEF StreamInv, OneStreamPerRun, Active
<1>5. /\ InLoop(y) => Active(y)
      /\ HasCall(y) => InLoop(y)
      /\ stream[y].pc = "calling" \/ Waits(y) => InLoop(y)
  BY DEF InLoop, LoopPc, Active, HasCall, Waits
<1>6. \A c \in Calls : Active(y) /\ CallOf(c, y) => call'[c] = call[c]
  BY <1>4 DEF OwnCalls, CallOf
<1>7. ASSUME Active(y)' PROVE \A c \in stream'[y].todo : CallOf(c, y)'
  <2>1. Active(y) /\ stream[y].todo \subseteq Calls
    BY <1>1, <1>7 DEF Active, StreamInv, RecoveryTypeOK, Stream
  <2> QED
    BY <1>1, <1>6, <2>1 DEF StreamCalls, CallOf, Used
<1>8. ASSUME HasCall(y)'
      PROVE  stream'[y].now \in Calls /\ CallOf(stream[y].now, y)'
  <2>1. HasCall(y)
    BY <1>1, <1>8 DEF HasCall
  <2> QED
    BY <1>1, <1>5, <1>6, <2>1 DEF StreamCalls, CallOf, Used
<1>9. ASSUME stream[y].target \notin orphaned,
             (stream[y].pc = "calling" \/ Waits(y))'
      PROVE  ~RowOf(y)'.safe
  BY <1>1, <1>3, <1>5, <1>9 DEF StreamCalls, RowOf, Waits
<1>10. ASSUME stream[y].target \notin orphaned, InLoop(y)', NEW c \in Calls,
              call'[c].state = "started", call'[c].run = stream[y].target
       PROVE  c \in agent'.messages \cup stream[y].results \cup forgotten'
  <2>1. InLoop(y)
    BY <1>1, <1>10 DEF InLoop
  <2>2. call'[c] = call[c]
    BY <1>4, <1>5, <1>10, <2>1 DEF OwnCalls
  <2> QED
    BY <1>1, <1>2, <1>10, <2>1, <2>2 DEF StreamCalls
<1> QED
  BY <1>1, <1>7, <1>8, <1>9, <1>10 DEF StreamCalls

LEMMA OtherCalls ==
    ASSUME RecoveryInv, NEW x \in Streams, OthersSame(x), OwnRow(x),
           OwnCalls(x), orphaned' = orphaned, forgotten \subseteq forgotten', NEW c \in Calls,
           Active(x) => call'[c].run # stream[x].target,
           Active(x)' => call'[c].run # stream'[x].target
    PROVE  CallOK(c)'
<1> USE DEF RecoveryInv
<1>1. call'[c] = call[c] /\ CallOK(c)
  BY DEF OwnCalls, CallsInv
<1>2. Used(c) => runRows'[call[c].run] = runRows[call[c].run]
  BY <1>1 DEF OwnRow, CallOK
<1>3. call[c].state \in {"asked", "started"} => Used(c)
  BY DEF Used
<1>4. ASSUME call'[c].state = "asked", NEW y \in Streams,
             call[c].run \notin orphaned,
             Active(y)', stream'[y].target = call'[c].run
      PROVE  stream'[y].now = c /\ Waits(y)'
  <2>1. y # x
    BY <1>4
  <2> QED
    BY <1>1, <1>4, <2>1 DEF CallOK, OthersSame, Active, Waits
<1> QED
  BY <1>1, <1>2, <1>3, <1>4 DEF CallOK, Used

\* What a step of one stream has to establish.
LEMMA StreamSteps ==
    ASSUME RecoveryInv, NEW x \in Streams, OthersSame(x), OwnRow(x),
           OwnCalls(x), UNCHANGED <<alive, orphaned>>, forgotten \subseteq forgotten',
           handler' = handler \/ handler \in {x, None},
           UNCHANGED <<agent, runLock>> \/ runLock \in {x, None},
           RecoveryTypeOK', OneStreamPerRun', StreamOK(x)', StreamCalls(x)',
           \A c \in Calls :
              \/ Active(x) /\ call'[c].run = stream[x].target
              \/ Active(x)' /\ call'[c].run = stream'[x].target
              => CallOK(c)'
    PROVE  RecoveryInv'
<1>1. \A y \in Streams : StreamOK(y)'
  BY OthersStay DEF RecoveryInv
<1>2. \A y \in Streams : StreamCalls(y)'
  BY OthersKeepCalls
<1>3. \A c \in Calls : CallOK(c)'
  BY OtherCalls
<1> QED
  BY <1>1, <1>2, <1>3 DEF RecoveryInv, StreamInv, CallsInv

LEMMA StreamSet ==
    ASSUME RecoveryTypeOK, NEW x \in Streams, NEW s \in Stream,
           stream' = [stream EXCEPT ![x] = s]
    PROVE  /\ stream' \in [Streams -> Stream]
           /\ stream'[x] = s
           /\ OthersSame(x)
    BY DEF RecoveryTypeOK, OthersSame

-----------------------------------------------------------------------------
(* The agent loop.                                                         *)

\* Of the tables, a step of the loop that writes no row and changes no call
\* changes at most the calls a compaction took.
ForgetsOnly == /\ UNCHANGED <<call, alive, crashes, resets, orphaned>>
               /\ forgotten \subseteq forgotten' /\ forgotten' \subseteq Calls

\* Such a step.
LEMMA LoopMoves ==
    ASSUME RecoveryInv, NEW x \in Streams, InLoop(x), stream[x].pc # "creating",
           NEW s \in Stream, stream' = [stream EXCEPT ![x] = s],
           UNCHANGED <<runRows, runLock, handler>>, ForgetsOnly,
           agent' \in [run : {agent.run}, messages : SUBSET Calls],
           s.pc # "done" => InLoop(x)' /\ s.pc # "creating",
           SaveOK(x)',
           s.pc # "done" =>
             /\ s.target = stream[x].target
             /\ s.todo \subseteq stream[x].todo
             /\ agent.messages \cup stream[x].results \subseteq
                    agent'.messages \cup s.results \cup forgotten'
             /\ Waits(x) => Waits(x)' /\ s.now = stream[x].now,
           HasCall(x)' => s.now \in Calls /\ CallOf(s.now, x),
           s.pc = "calling" \/ Waits(x)' =>
             stream[x].target \in orphaned \/ ~RowOf(x).safe
    PROVE  RecoveryInv'
<1> USE DEF RecoveryInv
<1>1. /\ stream' \in [Streams -> Stream] /\ stream'[x] = s /\ OthersSame(x)
  BY StreamSet DEF StreamInv
<1>2. OwnRow(x) /\ OwnCalls(x)
  BY DEF OwnRow, OwnCalls, ForgetsOnly
<1>3. RecoveryTypeOK'
  BY <1>1 DEF StreamInv, RecoveryTypeOK, ForgetsOnly
<1>4. Active(x) /\ runLock = x /\ StreamOK(x) /\ StreamCalls(x)
  BY DEF StreamInv, CallsInv, StreamOK, PlaceOK, InLoop, LoopPc, Active
<1>5. Active(x)' => s.pc # "done" /\ s.target = stream[x].target
  BY <1>1 DEF Active
<1>6. OneStreamPerRun'
  BY <1>1, <1>4, <1>5, StillOneStream DEF StreamInv
<1>7. StreamOK(x)'
  <2>1. s.pc # "done" => s.pc \in LoopPc
    BY <1>1 DEF InLoop
  <2>2. PlaceOK(x)'
    BY <1>1, <1>4, <1>5, <2>1 DEF StreamOK, PlaceOK, Active, InLoop, LoopPc, ForgetsOnly
  <2>3. RowOK(x)'
    BY <1>1, <1>4, <1>5, <2>1 DEF StreamOK, RowOK, RowOf, Active, InLoop, LoopPc
  <2>4. AgentOK(x)'
    BY <1>1, <1>4, <1>5, <2>1 DEF StreamOK, AgentOK, Active, InLoop, LoopPc, ForgetsOnly
  <2> QED
    BY <2>2, <2>3, <2>4 DEF StreamOK
<1>8. StreamCalls(x)'
  <2>1. InLoop(x)' \/ HasCall(x)' \/ Waits(x)' => s.pc # "done"
    BY <1>1 DEF InLoop, LoopPc, HasCall, Waits
  <2>2. Active(x)' => \A c \in s.todo : CallOf(c, x)'
    BY <1>1, <1>4, <1>5 DEF StreamCalls, CallOf, Used, ForgetsOnly
  <2>3. HasCall(x)' => s.now \in Calls /\ CallOf(s.now, x)'
    BY <1>1, <2>1 DEF CallOf, Used, ForgetsOnly
  <2>4. ASSUME s.pc # "done", stream'[x].target \notin orphaned'
        PROVE  /\ s.pc = "calling" \/ Waits(x)' => ~RowOf(x)'.safe
               /\ \A c \in Calls :
                    call'[c].state = "started" /\ call'[c].run = s.target =>
                        c \in agent'.messages \cup s.results \cup forgotten'
    BY <1>1, <1>4, <2>4 DEF StreamCalls, RowOf, ForgetsOnly
  <2> QED
    BY <1>1, <2>1, <2>2, <2>3, <2>4 DEF StreamCalls
<1>9. ASSUME NEW c \in Calls PROVE CallOK(c)'
  <2>1. CallOK(c) /\ call'[c] = call[c] /\ orphaned' = orphaned
        /\ forgotten \subseteq forgotten'
    BY DEF CallsInv, ForgetsOnly
  <2>2. ASSUME NEW y \in Streams, Active(y)', stream'[y].target = call[c].run,
               call[c].run \notin orphaned, call[c].state = "asked"
        PROVE  stream'[y].now = c /\ Waits(y)'
    <3>1. CASE y = x
      BY <1>1, <1>4, <1>5, <2>1, <2>2, <3>1 DEF CallOK
    <3>2. CASE y # x
      BY <1>1, <2>1, <2>2, <3>2 DEF CallOK, OthersSame, Active, Waits
    <3> QED
      BY <3>1, <3>2
  <2> QED
    BY <2>1, <2>2 DEF CallOK, Used
<1> QED
  BY <1>1, <1>2, <1>3, <1>4, <1>6, <1>7, <1>8, <1>9, StreamSteps DEF ForgetsOnly

\* A step of the loop that ends in _persist_run_state: either the row is
\* about to be written, or there is no run to save and the loop goes on.
LEMMA LoopSaves ==
    ASSUME RecoveryInv, NEW x \in Streams,
           stream[x].pc \in {"model", "tools", "asking"},
           NEW record \in Stream, NEW save \in Saved,
           NEW next \in {"done", "model", "calling", "asked"},
           BeginSave(x, record, save, next),
           UNCHANGED <<runRows, runLock, handler>>, ForgetsOnly,
           agent' \in [run : {agent.run}, messages : SUBSET Calls],
           record.target = stream[x].target,
           record.todo \subseteq stream[x].todo,
           agent.messages \cup stream[x].results \subseteq
               agent'.messages \cup record.results \cup forgotten',
           next = "model" => save = Safe,
           next \in {"calling", "asked"} => save = Unsafe,
           next = "model" \/ save.safe =>
               record.results = {} /\ record.todo = {},
           next \in {"calling", "asked"} =>
               record.now \in Calls /\ CallOf(record.now, x),
           stream[x].pc = "asking" \/ next = "asked" =>
               /\ next = "asked" /\ stream[x].pc = "asking"
               /\ record.now = stream[x].now
    PROVE  RecoveryInv'
<1> DEFINE s == IF agent.run = None
                THEN [record EXCEPT !.pc = next]
                ELSE [record EXCEPT !.pc = "saving", !.run = agent.run,
                                    !.save = save, !.next = next]
<1>1. stream' = [stream EXCEPT ![x] = s]
  BY DEF BeginSave
<1>2. Active(x) /\ StreamOK(x) /\ StreamCalls(x) /\ RecoveryTypeOK
  BY DEF RecoveryInv, StreamInv, CallsInv, InLoop, LoopPc, Active
<1>3. agent.run \in RunChats \cup {None}
  BY <1>2 DEF RecoveryTypeOK
<1>4. s \in Stream
  BY <1>3 DEF Stream, StreamPc
<1>5. \/ agent.run = stream[x].target
      \/ agent.run = None /\ stream[x].target \in orphaned
  BY <1>2 DEF StreamOK, AgentOK, InLoop, LoopPc
<1>6. stream'[x] = s
  BY <1>1, <1>2, <1>4, StreamSet
<1>7. agent.run = None => s.pc = next /\ stream[x].target \in orphaned
  BY <1>2, <1>4, <1>5, RecoveryAssumption DEF Stream, StreamOK, PlaceOK, Streams
<1>8. agent.run # None =>
          /\ s.pc = "saving" /\ s.run = stream[x].target
          /\ s.save = save /\ s.next = next
  BY <1>5 DEF Stream
<1>9. /\ s.target = record.target /\ s.todo = record.todo
      /\ s.results = record.results /\ s.now = record.now
  BY DEF Stream
<1>10. SaveOK(x)'
  BY <1>6, <1>7, <1>8, <1>9, <1>3 DEF SaveOK, Safe, Unsafe
<1>11. HasCall(x)' => s.now \in Calls /\ CallOf(s.now, x)
  BY <1>6, <1>7, <1>8, <1>9 DEF HasCall
<1>12. Waits(x) \/ Waits(x)' => stream[x].pc = "asking" /\ Waits(x)
  BY <1>6, <1>7, <1>8 DEF Waits
<1>13. stream[x].pc = "asking" => Waits(x)' /\ s.now = stream[x].now
  BY <1>6, <1>7, <1>8, <1>9 DEF Waits
<1>14. s.pc = "calling" \/ Waits(x)' =>
           stream[x].target \in orphaned \/ ~RowOf(x).safe
  BY <1>2, <1>7, <1>8, <1>12 DEF StreamCalls
<1>15. s.pc # "done" => InLoop(x)' /\ s.pc # "creating"
  BY <1>6, <1>7, <1>8 DEF InLoop, LoopPc
<1>16. InLoop(x) /\ stream[x].pc # "creating"
  BY DEF InLoop, LoopPc
<1> HIDE DEF s
<1> QED
  BY <1>1, <1>4, <1>9, <1>10, <1>11, <1>12, <1>13, <1>14, <1>15, <1>16, LoopMoves

LEMMA StreamTyped ==
    ASSUME RecoveryInv, NEW x \in Streams
    PROVE  /\ stream[x] \in Stream /\ agent.messages \subseteq Calls
           /\ agent.run \in RunChats \cup {None}
           /\ agent = [run |-> agent.run, messages |-> agent.messages]
           /\ StreamOK(x) /\ StreamCalls(x)
    BY DEF RecoveryInv, StreamInv, CallsInv, RecoveryTypeOK

\* What a compaction takes out of the conversation is remembered as forgotten.
LEMMA CompactForgets ==
    ASSUME RecoveryInv, NEW msgs \in SUBSET Calls, NEW kept \in SUBSET msgs,
           Compact(msgs, kept)
    PROVE  /\ agent' \in [run : {agent.run}, messages : SUBSET Calls]
           /\ msgs \subseteq agent'.messages \cup forgotten'
           /\ ForgetsOnly
<1>1. agent \in [run : RunChats \cup {None}, messages : SUBSET Calls]
      /\ forgotten \subseteq Calls
  BY DEF RecoveryInv, StreamInv, RecoveryTypeOK
<1>2. agent'.run = agent.run /\ agent'.messages = kept
      /\ agent' \in [run : {agent.run}, messages : SUBSET Calls]
  BY <1>1 DEF Compact
<1> QED
  BY <1>1, <1>2 DEF Compact, ForgetsOnly

LEMMA SavingSteps ==
    ASSUME RecoveryInv, NEW x \in Streams,
           \/ ModelAnswers(x) \/ ModelFails(x) \/ CancelsRun(x)
           \/ MarksUnsafe(x) \/ SavesWaiting(x) \/ ToolsDone(x)
    PROVE  RecoveryInv'
<1>1. /\ stream[x] \in Stream /\ agent.messages \subseteq Calls
      /\ agent = [run |-> agent.run, messages |-> agent.messages]
      /\ stream[x].todo \subseteq Calls /\ stream[x].results \subseteq Calls
      /\ SaveOK(x) /\ StreamCalls(x)
  BY StreamTyped DEF StreamOK, Stream
<1>2. Safe \in Saved /\ Unsafe \in Saved
  BY DEF Saved, RunStatus, Safe, Unsafe
<1>3. agent' = agent => agent' \in [run : {agent.run}, messages : SUBSET Calls]
  BY <1>1
<1>9. ModelAnswers(x) \/ ModelFails(x) \/ CancelsRun(x) \/ MarksUnsafe(x)
      \/ SavesWaiting(x) => ForgetsOnly /\ UNCHANGED <<runRows, runLock, handler, forgotten>>
  BY DEF ModelAnswers, ModelFails, CancelsRun, MarksUnsafe, SavesWaiting, tables,
     ForgetsOnly, RecoveryInv, StreamInv, RecoveryTypeOK
<1>4. CASE ModelAnswers(x) \/ ModelFails(x)
  <2>1. stream[x].pc = "model" /\ agent' = agent
    BY <1>4 DEF ModelAnswers, ModelFails, At
  <2>2. PICK save \in Saved : BeginSave(x, stream[x], save, "done")
    BY <1>4 DEF ModelAnswers, ModelFails, Saved, RunStatus
  <2>3. stream[x].results = {} /\ stream[x].todo = {}
    BY <1>1, <2>1 DEF SaveOK
  <2> QED
    BY <1>1, <1>3, <1>4, <2>1, <2>2, <2>3, <1>9, LoopSaves
<1>5. CASE CancelsRun(x)
  <2> DEFINE record == [stream[x] EXCEPT !.results = {}, !.todo = {}]
             save == [status |-> "canceled", safe |-> FALSE]
  <2>1. stream[x].pc \in {"model", "tools"}
    BY <1>5 DEF CancelsRun, At
  <2>2. record \in Stream /\ save \in Saved
    BY <1>1 DEF Stream, Saved, RunStatus
  <2>3. /\ record.target = stream[x].target /\ record.todo = {}
        /\ record.results = {} /\ record.now = stream[x].now
    BY <1>1 DEF Stream
  <2>4. agent' = [run |-> agent.run, messages |->
                    agent.messages \cup stream[x].results \cup stream[x].todo]
    BY <1>1, <1>5 DEF CancelsRun
  <2>5. /\ agent' \in [run : {agent.run}, messages : SUBSET Calls]
        /\ agent.messages \cup stream[x].results \subseteq agent'.messages
    BY <1>1, <2>4
  <2>6. BeginSave(x, record, save, "done")
    BY <1>5 DEF CancelsRun
  <2>7. ~save.safe
    OBVIOUS
  <2> HIDE DEF record, save
  <2> QED
    BY <1>5, <2>1, <2>2, <2>3, <2>5, <2>6, <2>7, <1>9, LoopSaves
<1>6. CASE MarksUnsafe(x)
  <2>1. stream[x].pc = "tools" /\ agent' = agent
    BY <1>6 DEF MarksUnsafe, At
  <2>2. PICK c \in stream[x].todo :
            BeginSave(x, [stream[x] EXCEPT !.now = c, !.todo = @ \ {c}],
                      Unsafe, "calling")
    BY <1>6 DEF MarksUnsafe
  <2> DEFINE record == [stream[x] EXCEPT !.now = c, !.todo = @ \ {c}]
  <2>3. /\ record \in Stream /\ record.now = c /\ c \in Calls
        /\ record.target = stream[x].target
        /\ record.todo \subseteq stream[x].todo
        /\ record.results = stream[x].results
    BY <1>1 DEF Stream
  <2>4. CallOf(c, x)
    BY <1>1, <2>1 DEF StreamCalls, Active
  <2>5. ~Unsafe.safe
    BY DEF Unsafe
  <2>6. BeginSave(x, record, Unsafe, "calling")
    BY <2>2
  <2> HIDE DEF record
  <2> QED
    BY <1>1, <1>2, <1>3, <1>6, <2>1, <2>3, <2>4, <2>5, <2>6, <1>9,
       LoopSaves
<1>7. CASE SavesWaiting(x)
  <2>1. stream[x].pc = "asking" /\ agent' = agent
        /\ BeginSave(x, stream[x], Unsafe, "asked")
    BY <1>7 DEF SavesWaiting, At
  <2>2. stream[x].now \in Calls /\ CallOf(stream[x].now, x)
    BY <1>1, <2>1 DEF StreamCalls, HasCall
  <2>3. ~Unsafe.safe
    BY DEF Unsafe
  <2> QED
    BY <1>1, <1>2, <1>3, <1>7, <2>1, <2>2, <2>3, <1>9, LoopSaves
<1>8. CASE ToolsDone(x)
  <2> DEFINE record == [stream[x] EXCEPT !.results = {}]
  <2>1. stream[x].pc = "tools" /\ stream[x].todo = {}
        /\ BeginSave(x, record, Safe, "model")
    BY <1>8 DEF ToolsDone, At
  <2>2. /\ record \in Stream /\ record.results = {} /\ record.todo = {}
        /\ record.target = stream[x].target
    BY <1>1, <2>1 DEF Stream
  <2> DEFINE msgs == agent.messages \cup stream[x].results
  <2>3. PICK kept \in {msgs, {}} : Compact(msgs, kept)
    BY <1>8 DEF ToolsDone
  <2>4. /\ agent' \in [run : {agent.run}, messages : SUBSET Calls]
        /\ msgs \subseteq agent'.messages \cup forgotten'
        /\ ForgetsOnly
    BY <1>1, <2>3, CompactForgets
  <2> HIDE DEF record
  <2> QED
    BY <1>2, <1>8, <2>1, <2>2, <2>4, LoopSaves DEF ToolsDone
<1> QED
  BY <1>4, <1>5, <1>6, <1>7, <1>8

LEMMA ClosingSteps ==
    ASSUME RecoveryInv, NEW x \in Streams, StreamCloses(x) \/ CompactionFails(x)
    PROVE  RecoveryInv'
<1>1. stream[x].pc \in {"model", "tools", "asking"}
  BY DEF StreamCloses, CompactionFails, At
<1>2. /\ EndedStream \in Stream /\ EndedStream.pc = "done"
      /\ EndedStream.results = {} /\ EndedStream.todo = {}
  BY DEF EndedStream, NewStream, Stream, StreamPc, Saved, RunStatus, Safe
<1>3. agent' \in [run : {agent.run}, messages : SUBSET Calls]
  BY StreamTyped DEF StreamCloses, CompactionFails, Stream
<1>4. /\ stream' = [stream EXCEPT ![x] = EndedStream]
      /\ stream'[x] = EndedStream
  BY StreamTyped
     DEF StreamCloses, CompactionFails, RecoveryInv, StreamInv, RecoveryTypeOK
<1>6. ForgetsOnly /\ UNCHANGED <<runRows, runLock, handler>>
  BY DEF StreamCloses, CompactionFails, ForgetsOnly, tables, RecoveryInv,
     StreamInv, RecoveryTypeOK
<1>5. SaveOK(x)' /\ ~HasCall(x)' /\ ~Waits(x)'
  BY <1>2, <1>4 DEF SaveOK, HasCall, Waits
<1> QED
  BY <1>1, <1>2, <1>3, <1>4, <1>5, <1>6, LoopMoves DEF InLoop, LoopPc

\* The history is compacted before the model is called: the stream stays where
\* it is.
LEMMA CompactingSteps ==
    ASSUME RecoveryInv, NEW x \in Streams, CompactsHistory(x)
    PROVE  RecoveryInv'
<1>1. /\ stream[x] \in Stream /\ agent.messages \subseteq Calls
      /\ StreamOK(x) /\ StreamCalls(x) /\ RecoveryTypeOK
  BY StreamTyped DEF RecoveryInv, StreamInv
<1>2. stream[x].pc = "model" /\ UNCHANGED <<runRows, stream, runLock, handler>>
  BY DEF CompactsHistory, At
<1>3. InLoop(x) /\ ~HasCall(x) /\ ~Waits(x) /\ stream[x].results = {}
  BY <1>1, <1>2 DEF StreamOK, SaveOK, InLoop, LoopPc, HasCall, Waits
<1>4. PICK kept \in SUBSET agent.messages : Compact(agent.messages, kept)
  BY DEF CompactsHistory
<1>5. /\ agent' \in [run : {agent.run}, messages : SUBSET Calls]
      /\ agent.messages \subseteq agent'.messages \cup forgotten'
      /\ ForgetsOnly
  BY <1>1, <1>4, CompactForgets
<1>6. PICK s \in Stream : s = stream[x]
  BY <1>1
<1>7. stream' = [stream EXCEPT ![x] = s]
  BY <1>1, <1>2, <1>6 DEF RecoveryTypeOK
<1>8. SaveOK(x)' /\ InLoop(x)' /\ ~HasCall(x)' /\ ~Waits(x)'
  BY <1>1, <1>2, <1>3 DEF StreamOK, SaveOK, InLoop, HasCall, Waits
<1> QED
  BY <1>2, <1>3, <1>5, <1>6, <1>7, <1>8, LoopMoves

\* A step of the loop that writes the row or changes calls of the run.
LEMMA RunSteps ==
    ASSUME RecoveryInv, NEW x \in Streams, InLoop(x),
           NEW s \in Stream, stream' = [stream EXCEPT ![x] = s],
           UNCHANGED <<agent, runLock, handler, alive, crashes, resets, orphaned,
                       forgotten>>,
           runRows' \in [RunChats -> RunRow],
           call' \in [Calls -> [run : RunChats \cup {None},
                           state : {"unused", "listed", "asked", "started"}]],
           OwnRow(x), OwnCalls(x),
           s.pc # "done" =>
              /\ s.pc \in LoopPc \ {"creating"} /\ s.target = stream[x].target
              /\ runRows'[s.target].status = "running",
           SaveOK(x)', StreamCalls(x)',
           \A c \in Calls : call'[c].run = stream[x].target => CallOK(c)'
    PROVE  RecoveryInv'
<1>1. /\ stream' \in [Streams -> Stream] /\ stream'[x] = s /\ OthersSame(x)
      /\ StreamOK(x) /\ Active(x) /\ RecoveryTypeOK /\ OneStreamPerRun
  BY StreamSet DEF RecoveryInv, StreamInv, Active, InLoop, LoopPc
<1>2. RecoveryTypeOK'
  BY <1>1 DEF RecoveryTypeOK
<1>3. Active(x)' => s.pc # "done"
  BY <1>1 DEF Active
<1>4. OneStreamPerRun'
  BY <1>1, <1>3, StillOneStream
<1>5. PlaceOK(x)'
  BY <1>1, <1>3 DEF StreamOK, PlaceOK, Active, InLoop, LoopPc
<1>6. RowOK(x)'
  BY <1>1, <1>3 DEF RowOK, RowOf, InLoop, LoopPc
<1>7. AgentOK(x)'
  BY <1>1, <1>3 DEF StreamOK, AgentOK, InLoop, LoopPc
<1> QED
  BY <1>1, <1>2, <1>3, <1>4, <1>5, <1>6, <1>7, StreamSteps DEF StreamOK

\* The call at which a stream is, and what is known of the other calls of
\* its run.
LEMMA AtCall ==
    ASSUME RecoveryInv, NEW x \in Streams, stream[x].pc \in {"calling", "asked"}
    PROVE  /\ InLoop(x) /\ Active(x) /\ RowOf(x).status = "running"
           /\ stream[x].now \in Calls /\ CallOf(stream[x].now, x)
           /\ stream[x].target \in RunChats
           /\ stream[x].target \notin orphaned =>
                /\ ~RowOf(x).safe
                /\ \A c \in Calls :
                      call[c].state = "asked" /\ call[c].run = stream[x].target
                      => c = stream[x].now /\ stream[x].pc = "asked"
<1>1. StreamOK(x) /\ StreamCalls(x) /\ \A c \in Calls : CallOK(c)
  BY DEF RecoveryInv, StreamInv, CallsInv
<1>2. InLoop(x) /\ Active(x) /\ HasCall(x)
  BY DEF InLoop, LoopPc, Active, HasCall
<1>3. Waits(x) <=> stream[x].pc = "asked"
  BY DEF Waits
<1> QED
  BY <1>1, <1>2, <1>3 DEF StreamOK, PlaceOK, RowOK, StreamCalls, CallOK

LEMMA CallMoves ==
    ASSUME RecoveryInv, NEW x \in Streams, stream[x].pc \in {"calling", "asked"},
           NEW s \in Stream, NEW st,
           stream' = [stream EXCEPT ![x] = s],
           call' = [call EXCEPT ![stream[x].now].state = st],
           UNCHANGED <<runRows, agent, runLock, handler, alive, crashes, resets,
                       orphaned, forgotten>>,
           s.target = stream[x].target, s.todo = stream[x].todo,
           \/ /\ st \in {"started", "listed"} /\ s.pc = "tools"
              /\ s.results = stream[x].results \cup {stream[x].now}
           \/ /\ st = "asked" /\ stream[x].pc = "calling" /\ s.pc = "asking"
              /\ s.now = stream[x].now /\ s.results = stream[x].results
    PROVE  RecoveryInv'
<1>0. PICK now : now = stream[x].now
  OBVIOUS
<1>1. /\ InLoop(x) /\ Active(x) /\ RowOf(x).status = "running"
      /\ now \in Calls /\ CallOf(now, x)
      /\ stream[x].target \in RunChats
      /\ stream[x].target \notin orphaned =>
           /\ ~RowOf(x).safe
           /\ \A c \in Calls :
                 call[c].state = "asked" /\ call[c].run = stream[x].target
                 => c = now /\ stream[x].pc = "asked"
  BY <1>0, AtCall
<1>2. /\ StreamCalls(x) /\ RecoveryTypeOK /\ \A c \in Calls : CallOK(c)
  BY DEF RecoveryInv, StreamInv, CallsInv
<1>3. /\ stream'[x] = s /\ OthersSame(x)
  BY <1>2, StreamSet
<1>4. /\ call'[now].run = call[now].run /\ call'[now].state = st
      /\ \A c \in Calls \ {now} : call'[c] = call[c]
      /\ call' \in [Calls -> [run : RunChats \cup {None},
                      state : {"unused", "listed", "asked", "started"}]]
  BY <1>0, <1>1, <1>2 DEF RecoveryTypeOK
<1>5. \A c \in Calls : Used(c) => Used(c)' /\ call'[c].run = call[c].run
  BY <1>4 DEF Used
<1>6. OwnRow(x) /\ OwnCalls(x)
  BY <1>1, <1>4, <1>5 DEF OwnRow, OwnCalls, CallOf
<1>7. SaveOK(x)'
  BY <1>3 DEF SaveOK
<1>8. StreamCalls(x)'
  <2>1. stream[x].todo \subseteq Calls
    BY StreamTyped DEF Stream
  <2>2. \A c \in s.todo : CallOf(c, x)'
    BY <1>1, <1>2, <1>3, <1>5, <2>1 DEF StreamCalls, CallOf
  <2>3. HasCall(x)' => s.now = now
    BY <1>0, <1>3 DEF HasCall
  <2>4. CallOf(now, x)'
    BY <1>1, <1>3, <1>5 DEF CallOf
  <2>5. ASSUME s.target \notin orphaned
        PROVE  /\ ~RowOf(x)'.safe
               /\ \A c \in Calls :
                    call'[c].state = "started" /\ call'[c].run = s.target =>
                        c \in agent'.messages \cup s.results \cup forgotten
    <3>1. ~RowOf(x)'.safe
      BY <1>1, <1>3, <2>5 DEF RowOf
    <3>2. ASSUME NEW c \in Calls, call'[c].state = "started", call'[c].run = s.target
          PROVE  c \in agent'.messages \cup s.results \cup forgotten
      <4>1. CASE c = now
        BY <1>0, <1>4, <3>2, <4>1
      <4>2. CASE c # now
        <5>1. call[c].state = "started" /\ call[c].run = stream[x].target
          BY <1>4, <3>2, <4>2
        <5>2. c \in agent.messages \cup stream[x].results \cup forgotten
          BY <1>1, <1>2, <2>5, <5>1 DEF StreamCalls
        <5> QED
          BY <5>2
      <4> QED
        BY <4>1, <4>2
    <3> QED
      BY <3>1, <3>2
  <2> QED
    BY <1>1, <1>3, <2>2, <2>3, <2>4, <2>5 DEF StreamCalls
<1>9. ASSUME NEW c \in Calls, call'[c].run = stream[x].target PROVE CallOK(c)'
  <2>1. Used(c)' => runRows'[call'[c].run].status # "absent"
    BY <1>1, <1>9 DEF RowOf
  <2>2. ASSUME stream[x].target \notin orphaned
        PROVE  ~runRows'[call'[c].run].safe
    BY <1>1, <1>9, <2>2 DEF RowOf
  <2>3. ASSUME stream[x].target \notin orphaned, call'[c].state = "asked",
               NEW y \in Streams, Active(y)', stream'[y].target = stream[x].target
        PROVE  stream'[y].now = c /\ Waits(y)'
    <3>1. y = x
      BY <1>1, <1>3, <2>3 DEF RecoveryInv, StreamInv, OneStreamPerRun, OthersSame, Active
    <3>2. c = now /\ st = "asked"
      BY <1>1, <1>4, <1>9, <2>3
    <3> QED
      BY <1>0, <1>3, <3>1, <3>2 DEF Waits
  <2>4. orphaned' = orphaned /\ stream[x].target \in RunChats
    BY <1>1
  <2>5. CASE stream[x].target \in orphaned
    BY <1>9, <2>1, <2>4, <2>5 DEF CallOK
  <2>6. CASE stream[x].target \notin orphaned
    BY <1>9, <2>1, <2>2, <2>3, <2>4, <2>6 DEF CallOK
  <2> QED
    BY <2>5, <2>6
<1> QED
  BY <1>1, <1>3, <1>4, <1>6, <1>7, <1>8, <1>9, <1>2, RunSteps
     DEF RecoveryTypeOK, LoopPc, RowOf

LEMMA ToolsOf ==
    ASSUME RecoveryInv, NEW x \in Streams,
           ToolRuns(x) \/ ToolIsRefused(x) \/ ToolAsksApproval(x)
    PROVE  RecoveryInv'
<1>1. stream[x] \in Stream /\ stream[x].now \in Calls
  BY StreamTyped, AtCall DEF ToolRuns, ToolIsRefused, ToolAsksApproval, At
<1>2. CASE ToolRuns(x) \/ ToolIsRefused(x)
  <2> DEFINE s == [stream[x] EXCEPT !.pc = "tools", !.now = None,
                                    !.results = @ \cup {stream[x].now}]
  <2>1. /\ s \in Stream /\ s.pc = "tools" /\ s.target = stream[x].target
        /\ s.todo = stream[x].todo
        /\ s.results = stream[x].results \cup {stream[x].now}
    BY <1>1 DEF Stream, StreamPc
  <2>2. stream' = [stream EXCEPT ![x] = s]
    BY <1>2 DEF ToolRuns, ToolIsRefused, Answered
  <2>3. PICK st \in {"started", "listed"} :
            call' = [call EXCEPT ![stream[x].now].state = st]
    BY <1>2 DEF ToolRuns, ToolIsRefused
  <2> HIDE DEF s
  <2> QED
    BY <1>2, <2>1, <2>2, <2>3, CallMoves DEF ToolRuns, ToolIsRefused, At
<1>3. CASE ToolAsksApproval(x)
  <2> DEFINE s == [stream[x] EXCEPT !.pc = "asking"]
  <2>1. /\ s \in Stream /\ s.pc = "asking" /\ s.target = stream[x].target
        /\ s.todo = stream[x].todo /\ s.results = stream[x].results
        /\ s.now = stream[x].now
    BY <1>1 DEF Stream, StreamPc
  <2>2. stream' = [stream EXCEPT ![x] = s]
    BY <1>3 DEF ToolAsksApproval
  <2> HIDE DEF s
  <2> QED
    BY <1>3, <2>1, <2>2, CallMoves DEF ToolAsksApproval, At
<1> QED
  BY <1>2, <1>3

LEMMA CallingSteps ==
    ASSUME RecoveryInv, NEW x \in Streams, ModelCallsTools(x)
    PROVE  RecoveryInv'
<1>1. stream[x].pc = "model"
  BY DEF ModelCallsTools, At
<1>2. PICK cs \in SUBSET {c \in Calls : call[c].state = "unused"} :
         /\ stream' = [stream EXCEPT ![x].pc = "tools", ![x].todo = cs,
                                     ![x].results = {}]
         /\ call' = [c \in Calls |->
                IF c \in cs
                THEN [run |-> stream[x].target, state |-> "listed"]
                ELSE call[c]]
  BY DEF ModelCallsTools
<1>3. /\ stream[x] \in Stream /\ StreamCalls(x) /\ RecoveryTypeOK /\ StreamOK(x)
      /\ \A c \in Calls : CallOK(c)
  BY StreamTyped DEF RecoveryInv, StreamInv, CallsInv
<1>4. /\ InLoop(x) /\ Active(x) /\ RowOf(x).status = "running"
      /\ stream[x].target \in RunChats /\ stream[x].results = {}
  BY <1>1, <1>3 DEF StreamOK, PlaceOK, RowOK, SaveOK, InLoop, LoopPc, Active
<1> DEFINE s == [stream[x] EXCEPT !.pc = "tools", !.todo = cs, !.results = {}]
<1>5. /\ s \in Stream /\ s.pc = "tools" /\ s.target = stream[x].target
      /\ s.todo = cs /\ s.results = {}
  BY <1>3 DEF Stream, StreamPc
<1>6. stream' = [stream EXCEPT ![x] = s]
  BY <1>2
<1> HIDE DEF s
<1>7. stream'[x] = s /\ OthersSame(x)
  BY <1>3, <1>5, <1>6, StreamSet
<1>8. UNCHANGED <<runRows, agent, runLock, handler, alive, crashes, resets,
                  orphaned, forgotten>>
  BY DEF ModelCallsTools
<1>9. /\ \A c \in cs : ~Used(c) /\ Used(c)' /\ CallOf(c, x)'
                       /\ call'[c].state = "listed"
                       /\ call'[c].run = stream[x].target
      /\ \A c \in Calls \ cs : call'[c] = call[c]
      /\ call' \in [Calls -> [run : RunChats \cup {None},
                      state : {"unused", "listed", "asked", "started"}]]
  BY <1>2, <1>3, <1>4, <1>5, <1>7 DEF RecoveryTypeOK, Used, CallOf
<1>10. OwnRow(x) /\ OwnCalls(x)
  BY <1>4, <1>8, <1>9 DEF OwnRow, OwnCalls
<1>11. SaveOK(x)' /\ ~HasCall(x)' /\ ~Waits(x)' /\ s.pc # "calling"
  BY <1>5, <1>7 DEF SaveOK, HasCall, Waits
<1>12. StreamCalls(x)'
  BY <1>1, <1>3, <1>4, <1>5, <1>7, <1>8, <1>9, <1>11 DEF StreamCalls
<1>13. ASSUME NEW c \in Calls, call'[c].run = stream[x].target PROVE CallOK(c)'
  <2>1. call'[c].run \in RunChats /\ runRows'[call'[c].run].status # "absent"
    BY <1>4, <1>8, <1>13 DEF RowOf
  <2>2. CASE c \in cs
    BY <1>9, <2>1, <2>2 DEF CallOK
  <2>3. CASE c \notin cs
    <3>1. call'[c] = call[c] /\ CallOK(c) /\ ~Waits(x)
      BY <1>1, <1>3, <1>9, <2>3 DEF Waits
    <3>2. call[c].run \notin orphaned => call[c].state # "asked"
      BY <1>4, <1>13, <3>1 DEF CallOK
    <3> QED
      BY <1>8, <2>1, <3>1, <3>2 DEF CallOK
  <2> QED
    BY <2>2, <2>3
<1> QED
  BY <1>3, <1>4, <1>5, <1>6, <1>8, <1>9, <1>10, <1>11, <1>12, <1>13, RunSteps
     DEF RecoveryTypeOK, LoopPc, RowOf

LEMMA WritingSteps ==
    ASSUME RecoveryInv, NEW x \in Streams, Saves(x)
    PROVE  RecoveryInv'
<1>1. stream[x].pc = "saving" /\ InLoop(x) /\ Active(x)
  BY DEF Saves, At, InLoop, LoopPc, Active
<1>2. /\ stream[x] \in Stream /\ StreamCalls(x) /\ RecoveryTypeOK /\ StreamOK(x)
      /\ agent.messages \subseteq Calls /\ \A c \in Calls : CallOK(c)
  BY StreamTyped DEF RecoveryInv, StreamInv, CallsInv
<1>0. PICK s : s = [stream[x] EXCEPT !.pc = stream[x].next, !.next = "new",
                                     !.run = None, !.save = Safe]
  OBVIOUS
<1> DEFINE save == stream[x].save
           row == [status |-> save.status, safe |-> save.safe,
                   messages |-> agent.messages]
<1>3. /\ s \in Stream /\ s.pc = stream[x].next /\ s.target = stream[x].target
      /\ s.todo = stream[x].todo /\ s.results = stream[x].results
      /\ s.now = stream[x].now
  BY <1>0, <1>2 DEF Stream, StreamPc, Saved, RunStatus, Safe
<1>4. /\ stream[x].run = stream[x].target /\ stream[x].target \in RunChats
      /\ save \in Saved
      /\ \/ stream[x].next = "done"
         \/ stream[x].next = "model" /\ save = Safe
         \/ stream[x].next \in {"calling", "asked"} /\ save = Unsafe
      /\ save.safe => stream[x].results = {} /\ stream[x].todo = {}
  BY <1>1, <1>2 DEF StreamOK, PlaceOK, SaveOK, Stream
<1>5. row \in RunRow
  BY <1>2, <1>4 DEF RunRow, Saved
<1>6. /\ stream' = [stream EXCEPT ![x] = s]
      /\ runRows' = [runRows EXCEPT ![stream[x].target] = row]
      /\ UNCHANGED <<agent, runLock, handler, alive, crashes, resets, orphaned,
                     forgotten, call>>
  BY <1>0, <1>4 DEF Saves, tables
<1>7. /\ row.status = save.status /\ row.safe = save.safe
      /\ row.messages = agent.messages
  OBVIOUS
<1>8. save \in {Safe, Unsafe} => save.status = "running"
  BY DEF Safe, Unsafe
<1> HIDE DEF save, row
<1>9. /\ stream'[x] = s /\ OthersSame(x)
  BY <1>2, <1>3, <1>6, StreamSet
<1>10. /\ runRows'[stream[x].target] = row
       /\ runRows' \in [RunChats -> RunRow]
       /\ OwnRow(x) /\ OwnCalls(x)
  BY <1>1, <1>2, <1>4, <1>5, <1>6 DEF RecoveryTypeOK, OwnRow, OwnCalls
<1>11. SaveOK(x)'
  BY <1>3, <1>4, <1>9 DEF SaveOK, Safe
<1>12. /\ HasCall(x)' => HasCall(x)
       /\ s.pc = "calling" \/ Waits(x)' => ~row.safe
       /\ Waits(x) => Waits(x)'
  BY <1>1, <1>3, <1>4, <1>7, <1>9 DEF HasCall, Waits, Unsafe
<1>13. StreamCalls(x)'
  <2>1. stream[x].todo \subseteq Calls
    BY <1>2 DEF Stream
  <2>2. \A c \in s.todo : CallOf(c, x)'
    BY <1>1, <1>2, <1>3, <1>6, <1>9 DEF StreamCalls, CallOf, Used
  <2>3. HasCall(x)' => s.now \in Calls /\ CallOf(s.now, x)'
    BY <1>2, <1>3, <1>6, <1>9, <1>12 DEF StreamCalls, CallOf, Used
  <2> QED
    BY <1>1, <1>2, <1>3, <1>6, <1>9, <1>10, <1>12, <2>2, <2>3
       DEF StreamCalls, RowOf
<1>14. ASSUME NEW c \in Calls, call'[c].run = stream[x].target PROVE CallOK(c)'
  <2>1. CallOK(c) /\ call'[c] = call[c] /\ orphaned' = orphaned
    BY <1>2, <1>6
  <2>2. row.status # "absent"
    BY <1>4, <1>7 DEF Saved, RunStatus
  <2>3. ASSUME stream[x].target \notin orphaned, call[c].state = "asked"
        PROVE  /\ ~row.safe
               /\ \A y \in Streams :
                    Active(y)' /\ stream'[y].target = call[c].run =>
                        stream'[y].now = c /\ Waits(y)'
    <3>1. stream[x].now = c /\ Waits(x)
      BY <1>1, <1>14, <2>1, <2>3 DEF CallOK
    <3>2. \A y \in Streams : Active(y)' /\ stream'[y].target = call[c].run => y = x
      BY <1>1, <1>9, <1>14, <2>1
         DEF RecoveryInv, StreamInv, OneStreamPerRun, OthersSame, Active
    <3> QED
      BY <1>3, <1>9, <1>12, <3>1, <3>2
  <2>4. ASSUME stream[x].target \notin orphaned, call[c].state = "started", row.safe
        PROVE  c \in row.messages \cup forgotten
    BY <1>1, <1>2, <1>4, <1>7, <1>14, <2>1, <2>4 DEF StreamCalls
  <2>5. /\ runRows'[call'[c].run] = row /\ call'[c].run = stream[x].target
        /\ forgotten' = forgotten
    BY <1>6, <1>10, <1>14
  <2>6. call'[c].run \in RunChats /\ runRows'[call'[c].run].status # "absent"
    BY <1>4, <2>2, <2>5
  <2>7. CASE stream[x].target \in orphaned
    BY <2>1, <2>5, <2>6, <2>7 DEF CallOK
  <2>8. CASE stream[x].target \notin orphaned
    BY <2>1, <2>3, <2>4, <2>5, <2>6, <2>8 DEF CallOK
  <2> QED
    BY <2>7, <2>8
<1> QED
  BY <1>1, <1>2, <1>3, <1>4, <1>6, <1>7, <1>8, <1>9, <1>10, <1>11, <1>13, <1>14,
     RunSteps DEF RecoveryTypeOK, LoopPc

-----------------------------------------------------------------------------
(* How a stream begins and ends.                                           *)

\* The row of a run that is being resumed exists.
LEMMA ResumedHasRow ==
    ASSUME StreamInv, NEW x \in Resumes, Active(x)
    PROVE  RowOf(x).status # "absent"
<1>1. StreamOK(x) /\ stream[x] \in Stream
  BY DEF StreamInv, RecoveryTypeOK, Streams
<1>2. stream[x].pc \in {"accepted", "queued"} \/ InLoop(x)
  BY <1>1 DEF Stream, StreamPc, Active, InLoop, LoopPc
<1> QED
  BY <1>1, <1>2 DEF StreamOK, PlaceOK, RowOK, ResumableStatus, Active

\* Where the run of a chat has no row yet, nobody has produced a call for it.
LEMMA NoCallsYet ==
    ASSUME RecoveryInv, NEW x \in RunChats,
           stream[x].pc \in {"new", "queued", "creating"}
    PROVE  /\ runRows[x].status = "absent"
           /\ \A c \in Calls : call[c].run = x => ~Used(c)
           /\ \A y \in Streams \ {x} : Active(y) => stream[y].target # x
<1>1. runRows[x].status = "absent"
  BY DEF RecoveryInv, StreamInv, StreamOK, RowOK, Streams
<1>2. ASSUME NEW c \in Calls, call[c].run = x PROVE ~Used(c)
  BY <1>1, <1>2 DEF RecoveryInv, CallsInv, CallOK
<1>3. ASSUME NEW y \in Streams \ {x}, Active(y), stream[y].target = x PROVE FALSE
  <2>1. y \in Resumes
    BY <1>3 DEF RecoveryInv, StreamInv, StreamOK, PlaceOK, Streams
  <2> QED
    BY <1>1, <1>3, <2>1, ResumedHasRow DEF RecoveryInv, RowOf
<1> QED
  BY <1>1, <1>2, <1>3

\* A stream before its loop has nothing in hand.
LEMMA BeforeTheLoop ==
    ASSUME NEW x \in Streams, NEW s \in Stream, stream'[x] = s,
           s.todo = {}, s.results = {},
           s.pc \in {"queued", "creating", "model"} \/
               (s.pc = "saving" /\ s.run = s.target /\ s.next = "model" /\ s.save = Safe),
           InLoop(x)' => \A c \in Calls :
               call'[c].state = "started" /\ call'[c].run = s.target
               /\ s.target \notin orphaned' => c \in agent'.messages \cup forgotten'
    PROVE  SaveOK(x)' /\ StreamCalls(x)'
<1>1. SaveOK(x)'
  BY DEF SaveOK
<1>2. ~HasCall(x)' /\ ~Waits(x)' /\ s.pc # "calling"
  BY DEF HasCall, Waits
<1> QED
  BY <1>1, <1>2 DEF StreamCalls

LEMMA ChatSteps ==
    ASSUME RecoveryInv, NEW x \in RunChats,
           RunChatArrives(x) \/ ChatStarts(x) \/ CreatesRun(x)
    PROVE  RecoveryInv'
<1>1. x \in Streams /\ x \notin Resumes
  BY RecoveryAssumption DEF Streams
<1>2. stream[x].pc \in {"new", "queued", "creating"}
  BY DEF RunChatArrives, ChatStarts, CreatesRun, At
<1>3. /\ runRows[x].status = "absent"
      /\ \A c \in Calls : call[c].run = x => ~Used(c)
      /\ \A y \in Streams \ {x} : Active(y) => stream[y].target # x
  BY <1>2, NoCallsYet
<1>4. /\ stream[x] \in Stream /\ StreamOK(x) /\ RecoveryTypeOK /\ OneStreamPerRun
      /\ stream[x].pc # "new" => stream[x].target = x /\ Active(x)
      /\ stream[x].todo = {} /\ stream[x].results = {}
      /\ agent.messages \subseteq Calls
  BY <1>1, <1>2, StreamTyped
     DEF RecoveryInv, StreamInv, StreamOK, PlaceOK, SaveOK, Active
<1>5. PICK s \in Stream :
        /\ stream' = [stream EXCEPT ![x] = s]
        /\ s.target = x /\ s.todo = {} /\ s.results = {}
        /\ RunChatArrives(x) => s.pc = "queued"
        /\ ChatStarts(x) => s.pc = "creating"
        /\ CreatesRun(x) => s.pc = IF agent.run = None THEN "done" ELSE "model"
  <2>1. CASE RunChatArrives(x)
    <3> DEFINE s == [stream[x] EXCEPT !.pc = "queued", !.target = x]
    <3>1. s \in Stream /\ s.target = x /\ s.todo = {} /\ s.results = {} /\ s.pc = "queued"
      BY <1>4 DEF Stream, StreamPc
    <3>2. stream' = [stream EXCEPT ![x] = s] /\ ~ChatStarts(x) /\ ~CreatesRun(x)
      BY <2>1 DEF RunChatArrives, ChatStarts, CreatesRun, At
    <3> QED
      BY <2>1, <3>1, <3>2
  <2>2. CASE ChatStarts(x)
    <3> DEFINE s == [stream[x] EXCEPT !.pc = "creating"]
    <3>1. s \in Stream /\ s.target = x /\ s.todo = {} /\ s.results = {} /\ s.pc = "creating"
      BY <1>4, <2>2 DEF Stream, StreamPc, ChatStarts, At
    <3>2. stream' = [stream EXCEPT ![x] = s] /\ ~RunChatArrives(x) /\ ~CreatesRun(x)
      BY <2>2 DEF RunChatArrives, ChatStarts, CreatesRun, At
    <3> QED
      BY <2>2, <3>1, <3>2
  <2>3. CASE CreatesRun(x)
    <3> DEFINE pc == IF agent.run = None THEN "done" ELSE "model"
               s == [stream[x] EXCEPT !.pc = pc]
    <3>1. s \in Stream /\ s.target = x /\ s.todo = {} /\ s.results = {} /\ s.pc = pc
      BY <1>4, <2>3 DEF Stream, StreamPc, CreatesRun, At
    <3>2. stream' = [stream EXCEPT ![x] = s] /\ ~ChatStarts(x) /\ ~RunChatArrives(x)
      BY <2>3 DEF RunChatArrives, ChatStarts, CreatesRun, At
    <3> QED
      BY <2>3, <3>1, <3>2
  <2> QED
    BY <2>1, <2>2, <2>3
<1>6. stream' \in [Streams -> Stream] /\ stream'[x] = s /\ OthersSame(x)
  BY <1>1, <1>4, <1>5, StreamSet
<1>7. OneStreamPerRun'
  BY <1>3, <1>4, <1>5, <1>6 DEF OneStreamPerRun, OthersSame, Active
<1>8. /\ UNCHANGED <<handler, call, alive, crashes, resets, orphaned, forgotten>>
      /\ OwnCalls(x) /\ alive
  BY DEF RunChatArrives, ChatStarts, CreatesRun, tables, At, OwnCalls
<1>9. /\ \A c \in Calls : call'[c].run = x => CallOK(c)'
      /\ \A c \in Calls : \/ Active(x) /\ call'[c].run = stream[x].target
                          \/ Active(x)' /\ call'[c].run = stream'[x].target
                          => CallOK(c)'
  BY <1>3, <1>4, <1>5, <1>6, <1>8 DEF CallOK, Used, Active
<1>10. CASE RunChatArrives(x)
  <2>1. UNCHANGED <<runRows, agent, runLock>> /\ s.pc = "queued"
    BY <1>5, <1>10 DEF RunChatArrives
  <2>2. RecoveryTypeOK' /\ OwnRow(x) /\ ~InLoop(x)'
    BY <1>4, <1>6, <1>8, <2>1 DEF RecoveryTypeOK, OwnRow, InLoop, LoopPc
  <2>3. SaveOK(x)' /\ StreamCalls(x)'
    BY <1>1, <1>5, <1>6, <2>1, <2>2, BeforeTheLoop
  <2>4. StreamOK(x)'
    BY <1>1, <1>3, <1>5, <1>6, <1>8, <2>1, <2>2, <2>3
       DEF StreamOK, PlaceOK, RowOK, AgentOK, Active
  <2> QED
    BY <1>1, <1>2, <1>4, <1>5, <1>6, <1>7, <1>8, <1>9, <2>1, <2>2, <2>3, <2>4,
       StreamSteps
<1>11. CASE ChatStarts(x)
  <2>1. /\ runRows' = runRows /\ s.pc = "creating" /\ runLock = None /\ runLock' = x
        /\ agent' = [run |-> x, messages |-> agent.messages]
    BY <1>4, <1>5, <1>11 DEF ChatStarts, RecoveryTypeOK
  <2>2. RecoveryTypeOK' /\ OwnRow(x) /\ InLoop(x)'
    BY <1>1, <1>4, <1>5, <1>6, <1>8, <2>1
       DEF RecoveryTypeOK, OwnRow, InLoop, LoopPc
  <2>3. SaveOK(x)' /\ StreamCalls(x)'
    BY <1>1, <1>3, <1>5, <1>6, <1>8, <2>1, BeforeTheLoop DEF Used
  <2>4. StreamOK(x)'
    BY <1>1, <1>3, <1>5, <1>6, <1>8, <2>1, <2>2, <2>3
       DEF StreamOK, PlaceOK, RowOK, AgentOK, Active
  <2> QED
    BY <1>1, <1>4, <1>5, <1>6, <1>7, <1>8, <1>9, <2>1, <2>2, <2>3, <2>4,
       StreamSteps
<1>12. CASE CreatesRun(x)
  <2>1. /\ stream[x].pc = "creating" /\ UNCHANGED <<agent, runLock>>
        /\ InLoop(x) /\ Active(x)
    BY <1>12 DEF CreatesRun, At, InLoop, LoopPc, Active
  <2>2. agent.run = None \/ agent.run = x
    BY <1>4, <2>1 DEF StreamOK, AgentOK
  <2>3. CASE agent.run = None
    <3>1. runRows' = runRows /\ s.pc = "done"
      BY <1>5, <1>12, <2>3 DEF CreatesRun
    <3>2. OwnRow(x) /\ SaveOK(x)' /\ StreamCalls(x)'
      BY <1>5, <1>6, <3>1 DEF OwnRow, SaveOK, StreamCalls, Active, HasCall,
         Waits, InLoop, LoopPc
    <3> QED
      BY <1>1, <1>4, <1>5, <1>8, <1>9, <2>1, <3>1, <3>2, RunSteps DEF RecoveryTypeOK
  <2>4. CASE agent.run # None
    <3> DEFINE row == [status |-> "running", safe |-> TRUE,
                       messages |-> agent.messages]
    <3>1. runRows' = [runRows EXCEPT ![x] = row] /\ s.pc = "model"
      BY <1>5, <1>12, <2>2, <2>4 DEF CreatesRun
    <3>2. row \in RunRow /\ row.status = "running"
      BY <1>4 DEF RunRow, RunStatus
    <3> HIDE DEF row
    <3>3. runRows' \in [RunChats -> RunRow] /\ OwnRow(x) /\ runRows'[x] = row
      BY <1>4, <2>1, <3>1, <3>2 DEF RecoveryTypeOK, OwnRow
    <3>4. SaveOK(x)' /\ StreamCalls(x)'
      BY <1>1, <1>3, <1>5, <1>6, <1>8, <3>1, BeforeTheLoop DEF Used
    <3>5. s.pc \in LoopPc \ {"creating"} /\ runRows'[s.target].status = "running"
      BY <1>5, <3>1, <3>2, <3>3 DEF LoopPc
    <3> QED
      BY <1>1, <1>4, <1>5, <1>8, <1>9, <2>1, <3>3, <3>4, <3>5, RunSteps
         DEF RecoveryTypeOK
  <2> QED
    BY <2>3, <2>4
<1> QED
  BY <1>10, <1>11, <1>12

LEMMA LeavingSteps ==
    ASSUME RecoveryInv, NEW x \in Streams, Leave(x)
    PROVE  RecoveryInv'
<1>1. /\ EndedStream \in Stream /\ EndedStream.pc = "done"
      /\ EndedStream.results = {} /\ EndedStream.todo = {}
  BY DEF EndedStream, NewStream, Stream, StreamPc, Saved, RunStatus, Safe
<1>2. /\ stream[x].pc = "done" /\ runLock = x /\ runLock' = None
      /\ stream' = [stream EXCEPT ![x] = EndedStream]
      /\ UNCHANGED <<runRows, agent, handler, tables>>
  BY DEF Leave, At
<1>3. RecoveryTypeOK
  BY DEF RecoveryInv, StreamInv
<1>4. /\ stream' \in [Streams -> Stream] /\ stream'[x] = EndedStream
      /\ OthersSame(x)
  BY <1>1, <1>2, <1>3, StreamSet
<1>5. ~Active(x) /\ ~Active(x)' /\ ~InLoop(x)' /\ ~HasCall(x)' /\ ~Waits(x)'
  BY <1>1, <1>2, <1>4 DEF Active, InLoop, LoopPc, HasCall, Waits
<1>6. OwnRow(x) /\ OwnCalls(x) /\ RecoveryTypeOK'
  BY <1>2, <1>3, <1>4 DEF OwnRow, OwnCalls, RecoveryTypeOK, tables
<1>7. OneStreamPerRun'
  BY <1>4, <1>5, StillOneStream DEF RecoveryInv, StreamInv
<1>8. StreamOK(x)'
  BY <1>1, <1>4, <1>5 DEF StreamOK, PlaceOK, RowOK, AgentOK, SaveOK
<1>9. StreamCalls(x)'
  BY <1>1, <1>4, <1>5 DEF StreamCalls
<1> QED
  BY <1>2, <1>4, <1>5, <1>6, <1>7, <1>8, <1>9, StreamSteps DEF tables

\* What an accepted or queued resume request knows of its run.
LEMMA SafeRowKnows ==
    ASSUME RecoveryInv, NEW r \in RunChats, runRows[r].safe,
           runRows[r].status # "absent", runRows'[r].status # "absent",
           runRows'[r].safe, runRows'[r].messages = runRows[r].messages,
           UNCHANGED <<call, orphaned, forgotten>>,
           NEW c \in Calls, call'[c].run = r
    PROVE  /\ CallOK(c)'
           /\ call[c].state = "started" /\ r \notin orphaned =>
                  c \in runRows[r].messages \cup forgotten
    BY DEF RecoveryInv, CallsInv, CallOK, Used

LEMMA ResumingSteps ==
    ASSUME RecoveryInv, NEW x \in Resumes, NEW r \in RunChats,
           \/ ResumeArrives(x, r)
           \/ stream[x].target = r /\ (ResumeMarks(x) \/ ResumeStarts(x))
    PROVE  RecoveryInv'
<1>1. x \in Streams /\ x \notin RunChats
  BY RecoveryAssumption DEF Streams
<1>2. /\ stream[x] \in Stream /\ StreamOK(x) /\ RecoveryTypeOK /\ OneStreamPerRun
      /\ stream[x].pc \in {"new", "accepted", "queued"}
      /\ stream[x].todo = {} /\ stream[x].results = {}
      /\ alive /\ UNCHANGED <<call, alive, crashes, resets, orphaned, forgotten>>
  BY <1>1, StreamTyped
     DEF RecoveryInv, StreamInv, StreamOK, SaveOK, ResumeArrives, ResumeMarks,
         ResumeStarts, At, tables
<1>3. /\ ResumeArrives(x, r) => stream[x].pc = "new" /\ IsResumable(runRows[r])
      /\ ~ResumeArrives(x, r) => stream[x].target = r /\ Active(x)
      /\ ResumeMarks(x) => stream[x].pc = "accepted"
      /\ ResumeStarts(x) => stream[x].pc = "queued"
  BY DEF ResumeArrives, ResumeMarks, ResumeStarts, At, Active
<1>4. /\ runRows[r].safe /\ runRows[r].status # "absent"
      /\ stream[x].pc = "accepted" => runRows[r].status \in ResumableStatus
      /\ stream[x].pc \in {"accepted", "queued"} =>
           stream[x].snap = runRows[r].messages
  BY <1>2, <1>3 DEF StreamOK, RowOK, RowOf, IsResumable, ResumableStatus
<1>5. runRows[r] \in RunRow /\ OwnCalls(x)
  BY <1>2 DEF RecoveryTypeOK, OwnCalls
<1>6. /\ Resumed(runRows[r]) \in RunRow /\ Resumed(runRows[r]).safe
      /\ Resumed(runRows[r]).status = "running"
      /\ Resumed(runRows[r]).messages = runRows[r].messages
  BY <1>5 DEF Resumed, RunRow, RunStatus
<1>7. CASE ResumeArrives(x, r)
  <2> DEFINE s == [stream[x] EXCEPT !.pc = "accepted", !.target = r,
                                    !.snap = runRows[r].messages]
  <2>1. /\ s \in Stream /\ s.pc = "accepted" /\ s.target = r
        /\ s.snap = runRows[r].messages /\ s.todo = {} /\ s.results = {}
    BY <1>2, <1>5 DEF Stream, StreamPc, RunRow
  <2>2. /\ stream' = [stream EXCEPT ![x] = s] /\ handler = None /\ handler' = x
        /\ UNCHANGED <<runRows, agent, runLock>>
    BY <1>7 DEF ResumeArrives
  <2>3. PICK t \in Stream : t = s
    BY <2>1
  <2> HIDE DEF s
  <2>4. stream' \in [Streams -> Stream] /\ stream'[x] = t /\ OthersSame(x)
    BY <1>1, <1>2, <2>1, <2>2, <2>3, StreamSet
  <2>5. ASSUME NEW y \in Streams \ {x}, Active(y), stream[y].target = r PROVE FALSE
    <3>1. StreamOK(y) /\ stream[y] \in Stream
      BY StreamTyped
    <3>2. stream[y].pc \in {"accepted", "queued"} \/ InLoop(y)
      BY <2>5, <3>1 DEF Stream, StreamPc, Active, InLoop, LoopPc
    <3>3. runRows[r].status \in ResumableStatus
      BY <1>3, <1>7 DEF IsResumable
    <3>4. stream[y].pc # "accepted"
      BY <2>2, <2>5, <3>1, RecoveryAssumption DEF StreamOK, PlaceOK
    <3>5. runRows[r].status \in {"running", "absent"}
      <4>1. CASE y \in RunChats
        BY <2>5, <3>1, <3>2, <3>4, <4>1 DEF StreamOK, PlaceOK, RowOK, RowOf
      <4>2. CASE y \in Resumes
        BY <2>5, <3>1, <3>2, <3>4, <4>2 DEF StreamOK, PlaceOK, RowOK, RowOf
      <4> QED
        BY <4>1, <4>2, <2>5 DEF Streams
    <3> QED
      BY <3>3, <3>5 DEF ResumableStatus
  <2>6. OneStreamPerRun'
    BY <1>2, <2>1, <2>3, <2>4, <2>5 DEF OneStreamPerRun, OthersSame, Active
  <2>7. RecoveryTypeOK' /\ OwnRow(x) /\ ~InLoop(x)'
    BY <1>1, <1>2, <2>1, <2>2, <2>3, <2>4
       DEF RecoveryTypeOK, OwnRow, InLoop, LoopPc
  <2>8. SaveOK(x)' /\ StreamCalls(x)'
    BY <2>1, <2>3, <2>4 DEF SaveOK, StreamCalls, HasCall, Waits, InLoop, LoopPc
  <2>9. StreamOK(x)'
    BY <1>1, <1>2, <1>3, <1>4, <1>7, <2>1, <2>2, <2>3, <2>4, <2>7, <2>8
       DEF StreamOK, PlaceOK, RowOK, RowOf, AgentOK, Active, IsResumable
  <2>10. \A c \in Calls : call'[c].run = r => CallOK(c)'
    BY <1>2, <1>4, <2>2, SafeRowKnows
  <2> QED
    BY <1>1, <1>2, <1>3, <1>5, <1>7, <2>1, <2>2, <2>3, <2>4, <2>6, <2>7, <2>8, <2>9, <2>10,
       StreamSteps DEF Active
<1>8. CASE ResumeMarks(x)
  <2> DEFINE s == [stream[x] EXCEPT !.pc = "queued"]
  <2>1. /\ s \in Stream /\ s.pc = "queued" /\ s.target = r
        /\ s.snap = stream[x].snap /\ s.todo = {} /\ s.results = {}
    BY <1>2, <1>3, <1>8 DEF Stream, StreamPc, ResumeArrives, ResumeMarks, At
  <2>2. /\ stream' = [stream EXCEPT ![x] = s] /\ handler' = None
        /\ runRows' = [runRows EXCEPT ![r] = Resumed(runRows[r])]
        /\ UNCHANGED <<agent, runLock>>
    <3>1. stream[x].target = r
      BY <1>3, <1>8 DEF ResumeMarks, ResumeArrives, At
    <3> QED
      BY <3>1, <1>8 DEF ResumeMarks
  <2>3. PICK t \in Stream : t = s
    BY <2>1
  <2> HIDE DEF s
  <2>4. stream' \in [Streams -> Stream] /\ stream'[x] = t /\ OthersSame(x)
    BY <1>1, <1>2, <2>1, <2>2, <2>3, StreamSet
  <2>5. Active(x) /\ stream[x].target = r /\ handler = x /\ stream[x].pc = "accepted"
    BY <1>2, <1>3, <1>8, <2>1 DEF StreamOK, PlaceOK, Active, ResumeMarks, ResumeArrives, At
  <2>6. OneStreamPerRun'
    BY <1>1, <1>2, <2>1, <2>3, <2>4, <2>5, StillOneStream
  <2>7. /\ runRows' \in [RunChats -> RunRow] /\ runRows'[r] = Resumed(runRows[r])
        /\ OwnRow(x) /\ ~InLoop(x)'
    BY <1>2, <1>6, <2>1, <2>2, <2>3, <2>4, <2>5
       DEF RecoveryTypeOK, OwnRow, InLoop, LoopPc
  <2>8. RecoveryTypeOK'
    BY <1>2, <2>2, <2>4, <2>7 DEF RecoveryTypeOK
  <2>9. SaveOK(x)' /\ StreamCalls(x)'
    BY <1>1, <2>1, <2>3, <2>4, <2>7, BeforeTheLoop
  <2>10. StreamOK(x)'
    BY <1>1, <1>2, <1>4, <1>6, <2>1, <2>3, <2>4, <2>5, <2>7, <2>9
       DEF StreamOK, PlaceOK, RowOK, RowOf, AgentOK, Active
  <2>11. \A c \in Calls : call'[c].run = r => CallOK(c)'
    BY <1>2, <1>4, <1>6, <2>7, SafeRowKnows
  <2> QED
    BY <1>1, <1>2, <1>5, <2>1, <2>2, <2>3, <2>4, <2>5, <2>6, <2>7, <2>8, <2>9, <2>10, <2>11,
       StreamSteps
<1>9. CASE ResumeStarts(x)
  <2> DEFINE s == [stream[x] EXCEPT !.pc = "saving", !.run = stream[x].target,
                     !.save = Safe, !.next = "model", !.snap = {}]
  <2>1. stream[x].pc = "queued" /\ stream[x].target = r
    BY <1>3, <1>9 DEF ResumeStarts, ResumeArrives, At
  <2>2. /\ s \in Stream /\ s.pc = "saving" /\ s.target = r /\ s.run = r
        /\ s.save = Safe /\ s.next = "model" /\ s.todo = {} /\ s.results = {}
    BY <1>2, <2>1 DEF Stream, StreamPc, Saved, RunStatus, Safe
  <2>3. /\ stream' = [stream EXCEPT ![x] = s] /\ handler' = handler
        /\ runRows' = [runRows EXCEPT ![r] = Resumed(runRows[r])]
        /\ agent' = [run |-> r, messages |-> runRows[r].messages]
        /\ runLock = None /\ runLock' = x
    BY <1>2, <1>4, <2>1, <1>9 DEF ResumeStarts
  <2>4. PICK t \in Stream : t = s
    BY <2>2
  <2> HIDE DEF s
  <2>5. stream' \in [Streams -> Stream] /\ stream'[x] = t /\ OthersSame(x)
    BY <1>1, <1>2, <2>2, <2>3, <2>4, StreamSet
  <2>6. Active(x) /\ InLoop(x)'
    BY <2>1, <2>2, <2>4, <2>5 DEF Active, InLoop, LoopPc
  <2>7. OneStreamPerRun'
    BY <1>1, <1>2, <2>1, <2>2, <2>4, <2>5, <2>6, StillOneStream
  <2>8. /\ runRows' \in [RunChats -> RunRow] /\ runRows'[r] = Resumed(runRows[r])
        /\ OwnRow(x)
    BY <1>2, <1>6, <2>1, <2>3, <2>6 DEF RecoveryTypeOK, OwnRow
  <2>9. RecoveryTypeOK'
    BY <1>1, <1>2, <1>5, <2>3, <2>5, <2>8 DEF RecoveryTypeOK, RunRow
  <2>10. \A c \in Calls : call'[c].run = r =>
           /\ CallOK(c)'
           /\ call[c].state = "started" /\ r \notin orphaned =>
                  c \in runRows[r].messages \cup forgotten
    BY <1>2, <1>4, <1>6, <2>8, SafeRowKnows
  <2>11. SaveOK(x)' /\ StreamCalls(x)'
    BY <1>1, <1>2, <2>2, <2>3, <2>4, <2>5, <2>10, BeforeTheLoop
  <2>12. StreamOK(x)'
    BY <1>1, <1>2, <1>4, <1>6, <2>2, <2>3, <2>4, <2>5, <2>6, <2>8, <2>11
       DEF StreamOK, PlaceOK, RowOK, RowOf, AgentOK, Active
  <2> QED
    BY <1>1, <1>2, <1>5, <2>1, <2>2, <2>3, <2>4, <2>5, <2>7, <2>8, <2>9, <2>10, <2>11, <2>12,
       StreamSteps
<1> QED
  BY <1>7, <1>8, <1>9

-----------------------------------------------------------------------------
(* The confirm endpoint, the reset endpoint, the process.                  *)

LEMMA LateSteps ==
    ASSUME RecoveryInv, NEW c \in Calls, LateApproval(c)
    PROVE  RecoveryInv'
<1>1. /\ RecoveryTypeOK /\ call[c].state = "asked"
      /\ call' = [call EXCEPT ![c].state = "started"]
      /\ UNCHANGED <<runRows, agent, stream, runLock, handler, alive, crashes,
                     resets, orphaned, forgotten>>
  BY DEF LateApproval, RecoveryInv, StreamInv
<1>2. /\ call'[c].run = call[c].run /\ call'[c].state = "started"
      /\ \A d \in Calls \ {c} : call'[d] = call[d]
      /\ call' \in [Calls -> [run : RunChats \cup {None},
                      state : {"unused", "listed", "asked", "started"}]]
  BY <1>1 DEF RecoveryTypeOK
<1>3. \A d \in Calls : (Used(d) <=> Used(d)') /\ call'[d].run = call[d].run
  BY <1>1, <1>2 DEF Used
<1>4. StreamInv'
  BY <1>1, <1>2 DEF RecoveryInv, StreamInv, RecoveryTypeOK, OneStreamPerRun,
     StreamOK, PlaceOK, RowOK, AgentOK, SaveOK, Active, InLoop, RowOf
<1>5. ASSUME NEW x \in Streams PROVE StreamCalls(x)'
  <2>1. StreamCalls(x) /\ CallOK(c) /\ stream[x].todo \subseteq Calls
    BY StreamTyped DEF RecoveryInv, CallsInv, Stream
  <2>2. (Active(x) <=> Active(x)') /\ (HasCall(x) <=> HasCall(x)')
        /\ (Waits(x) <=> Waits(x)') /\ (InLoop(x) <=> InLoop(x)')
        /\ RowOf(x)' = RowOf(x)
    BY <1>1 DEF Active, HasCall, Waits, InLoop, RowOf
  <2>3. stream[x].target = call[c].run /\ InLoop(x) => call[c].run \in orphaned
    BY <1>1, <2>1 DEF CallOK, Active, InLoop, LoopPc, LateApproval
  <2>4. ASSUME stream[x].target \notin orphaned, InLoop(x), NEW d \in Calls,
               call'[d].state = "started", call'[d].run = stream[x].target
        PROVE  d \in agent.messages \cup stream[x].results \cup forgotten
    <3>1. d # c
      BY <1>2, <2>3, <2>4
    <3> QED
      BY <1>2, <2>1, <2>4, <3>1 DEF StreamCalls
  <2>5. Active(x) => \A d \in stream[x].todo : CallOf(d, x)'
    BY <1>1, <1>3, <2>1 DEF StreamCalls, CallOf
  <2>6. HasCall(x) => stream[x].now \in Calls /\ CallOf(stream[x].now, x)'
    BY <1>1, <1>3, <2>1 DEF StreamCalls, CallOf
  <2> QED
    BY <1>1, <2>1, <2>2, <2>4, <2>5, <2>6 DEF StreamCalls
<1>6. ASSUME NEW d \in Calls PROVE CallOK(d)'
  <2>1. CallOK(d)
    BY DEF RecoveryInv, CallsInv
  <2>2. CASE d = c
    BY <1>1, <1>2, <1>3, <2>1, <2>2 DEF CallOK
  <2>3. CASE d # c
    <3>1. call'[d] = call[d]
      BY <1>2, <2>3
    <3> QED
      BY <1>1, <2>1, <3>1 DEF CallOK, Used, Active, Waits
  <2> QED
    BY <2>2, <2>3
<1> QED
  BY <1>4, <1>5, <1>6 DEF RecoveryInv, CallsInv

LEMMA ResetSteps ==
    ASSUME RecoveryInv, SessionReset
    PROVE  RecoveryInv'
<1>1. /\ RecoveryTypeOK /\ agent' = NewAgent /\ handler = None
      /\ UNCHANGED <<runRows, stream, runLock, handler, call, alive, crashes,
                     forgotten>>
      /\ orphaned' = orphaned \cup
             {stream[x].target : x \in {y \in Streams : Active(y)}}
      /\ resets' \in 0..MaxResets
  BY RecoveryAssumption
     DEF SessionReset, RecoveryInv, StreamInv, RecoveryTypeOK, Active
<1>2. \A x \in Streams : Active(x) => stream[x].target \in RunChats
  BY DEF RecoveryInv, StreamInv, StreamOK, PlaceOK
<1>3. /\ orphaned \subseteq orphaned' /\ orphaned' \subseteq RunChats
      /\ \A x \in Streams : Active(x) => stream[x].target \in orphaned'
  BY <1>1, <1>2 DEF RecoveryTypeOK
<1>4. RecoveryTypeOK'
  BY <1>1, <1>3 DEF RecoveryTypeOK, NewAgent
<1>5. OneStreamPerRun'
  BY <1>1 DEF RecoveryInv, StreamInv, OneStreamPerRun
<1>6. ASSUME NEW x \in Streams PROVE StreamOK(x)' /\ StreamCalls(x)'
  <2>1. StreamOK(x) /\ StreamCalls(x)
    BY DEF RecoveryInv, StreamInv, CallsInv
  <2>2. InLoop(x) \/ HasCall(x) \/ Waits(x) \/ stream[x].pc = "calling" => Active(x)
    BY DEF InLoop, LoopPc, Active, HasCall, Waits
  <2>3. agent'.run = None
    BY <1>1 DEF NewAgent
  <2>4. PlaceOK(x)' /\ RowOK(x)' /\ SaveOK(x)'
    BY <1>1, <2>1 DEF StreamOK, PlaceOK, RowOK, SaveOK, Active, InLoop, RowOf
  <2>5. AgentOK(x)'
    BY <1>1, <1>3, <2>2, <2>3 DEF AgentOK, InLoop
  <2>6. StreamCalls(x)'
    BY <1>1, <1>3, <2>1, <2>2 DEF StreamCalls, Active, InLoop, HasCall, Waits, CallOf, Used
  <2> QED
    BY <2>4, <2>5, <2>6 DEF StreamOK
<1>7. ASSUME NEW c \in Calls PROVE CallOK(c)'
  BY <1>1, <1>3, <1>7 DEF RecoveryInv, CallsInv, CallOK, Used, Active, Waits
<1> QED
  BY <1>4, <1>5, <1>6, <1>7 DEF RecoveryInv, StreamInv, CallsInv

\* Nothing runs when the process has ended.
LEMMA NobodyRuns ==
    ASSUME RecoveryTypeOK', \A x \in Streams : ~Active(x)',
           \A x \in Streams : SaveOK(x)',
           \A x \in RunChats : stream'[x].pc = "new" => runRows'[x].status = "absent",
           \A c \in Calls :
              /\ Used(c)' => /\ call'[c].run \in RunChats
                             /\ runRows'[call'[c].run].status # "absent"
              /\ call'[c].run \notin orphaned' =>
                   /\ call'[c].state = "asked" => ~runRows'[call'[c].run].safe
                   /\ call'[c].state = "started" /\ runRows'[call'[c].run].safe =>
                        c \in runRows'[call'[c].run].messages \cup forgotten'
    PROVE  RecoveryInv'
<1>1. OneStreamPerRun'
  BY DEF OneStreamPerRun, Active
<1>2. ASSUME NEW x \in Streams PROVE StreamOK(x)' /\ StreamCalls(x)'
  <2>1. ~InLoop(x)' /\ ~HasCall(x)' /\ ~Waits(x)' /\ ~Active(x)'
    BY DEF InLoop, LoopPc, Active, HasCall, Waits
  <2> QED
    BY <2>1 DEF StreamOK, PlaceOK, RowOK, AgentOK, StreamCalls, Active
<1>3. ASSUME NEW c \in Calls PROVE CallOK(c)'
  BY DEF CallOK
<1> QED
  BY <1>1, <1>2, <1>3 DEF RecoveryInv, StreamInv, CallsInv

LEMMA ProcessSteps ==
    ASSUME RecoveryInv, ServerCrashes \/ ServerRestarts
    PROVE  RecoveryInv'
<1>1. RecoveryTypeOK /\ (\A x \in Streams : StreamOK(x)) /\ \A c \in Calls : CallOK(c)
  BY DEF RecoveryInv, StreamInv, CallsInv
<1>2. CASE ServerCrashes
  <2>1. /\ NewStream \in Stream /\ NewStream.pc = "new"
        /\ NewStream.results = {} /\ NewStream.todo = {}
        /\ EndedStream \in Stream /\ EndedStream.pc = "done"
    BY DEF EndedStream, NewStream, Stream, StreamPc, Saved, RunStatus, Safe
  <2>2. /\ UNCHANGED <<runRows, call, orphaned, resets, forgotten>> /\ alive' = FALSE
        /\ runLock' = None /\ handler' = None /\ agent' = NewAgent
        /\ stream' = [x \in Streams |->
                       IF stream[x].pc = "new" THEN NewStream ELSE EndedStream]
        /\ crashes' \in 0..MaxCrashes
    BY <1>1, <1>2, RecoveryAssumption DEF ServerCrashes, RecoveryTypeOK
  <2>3. \A x \in Streams : /\ stream'[x] \in {NewStream, EndedStream}
                           /\ stream'[x].pc = "new" => stream[x].pc = "new"
    BY <2>1, <2>2
  <2>4. RecoveryTypeOK'
    BY <1>1, <2>1, <2>2 DEF RecoveryTypeOK, NewAgent
  <2>5. \A x \in Streams : ~Active(x)' /\ SaveOK(x)'
    BY <2>1, <2>3 DEF Active, SaveOK
  <2>6. \A x \in RunChats : stream'[x].pc = "new" => runRows'[x].status = "absent"
    BY <1>1, <2>2, <2>3 DEF StreamOK, RowOK, Streams
  <2> QED
    BY <1>1, <2>2, <2>4, <2>5, <2>6, NobodyRuns DEF CallOK, Used
<1>3. CASE ServerRestarts
  <2>1. /\ ~alive /\ UNCHANGED <<agent, stream, runLock, handler, call, crashes,
                                 resets, orphaned, forgotten>>
        /\ runRows' = [r \in RunChats |-> Interrupt(runRows[r])] /\ alive' = TRUE
    BY <1>3 DEF ServerRestarts
  <2>2. ASSUME NEW r \in RunChats
        PROVE  /\ runRows'[r] \in RunRow
               /\ runRows'[r].safe = runRows[r].safe
               /\ runRows'[r].messages = runRows[r].messages
               /\ runRows'[r].status = "absent" <=> runRows[r].status = "absent"
    BY <1>1, <2>1 DEF RecoveryTypeOK, Interrupt, TerminalStatus, RunRow, RunStatus
  <2>3. RecoveryTypeOK'
    BY <1>1, <2>1, <2>2 DEF RecoveryTypeOK
  <2>4. \A x \in Streams : ~Active(x)' /\ SaveOK(x)'
    BY <1>1, <2>1 DEF StreamOK, PlaceOK, Active, SaveOK
  <2>5. \A x \in RunChats : stream'[x].pc = "new" => runRows'[x].status = "absent"
    BY <1>1, <2>1, <2>2 DEF StreamOK, RowOK, Streams
  <2>6. \A c \in Calls : CallOK(c) /\ call'[c] = call[c]
    BY <1>1, <2>1
  <2>7. ASSUME NEW c \in Calls
        PROVE  /\ Used(c)' => /\ call'[c].run \in RunChats
                              /\ runRows'[call'[c].run].status # "absent"
               /\ call'[c].run \notin orphaned' =>
                    /\ call'[c].state = "asked" => ~runRows'[call'[c].run].safe
                    /\ call'[c].state = "started" /\ runRows'[call'[c].run].safe =>
                         c \in runRows'[call'[c].run].messages \cup forgotten'
    <3>1. Used(c) => call[c].run \in RunChats
      BY <2>6 DEF CallOK
    <3>2. CASE Used(c)
      BY <2>1, <2>2, <2>6, <3>1, <3>2 DEF CallOK, Used
    <3>3. CASE ~Used(c)
      BY <2>6, <3>3 DEF Used
    <3> QED
      BY <3>2, <3>3
  <2> QED
    BY <2>3, <2>4, <2>5, <2>7, NobodyRuns
<1> QED
  BY <1>2, <1>3

LEMMA RecoveryInvInit == RecoveryInit => RecoveryInv
<1> SUFFICES ASSUME RecoveryInit PROVE RecoveryInv
    OBVIOUS
<1>1. /\ NewStream \in Stream /\ NewStream.pc = "new" /\ NewStream.results = {}
      /\ NewStream.todo = {} /\ NoRow \in RunRow /\ NoRow.status = "absent"
      /\ NewAgent \in [run : RunChats \cup {None}, messages : SUBSET Calls]
  BY DEF NewStream, Stream, StreamPc, Saved, RunStatus, Safe, NoRow, RunRow, NewAgent
<1>2. \A x \in Streams : stream[x] = NewStream
  BY DEF RecoveryInit
<1>3. RecoveryTypeOK
  BY <1>1, RecoveryAssumption DEF RecoveryInit, RecoveryTypeOK
<1>4. OneStreamPerRun
  BY <1>1, <1>2 DEF OneStreamPerRun
<1>5. ASSUME NEW x \in Streams PROVE StreamOK(x) /\ StreamCalls(x)
  <2>1. ~InLoop(x) /\ ~HasCall(x) /\ ~Waits(x) /\ ~Active(x)
    BY <1>1, <1>2 DEF InLoop, LoopPc, Active, HasCall, Waits
  <2> QED
    BY <1>1, <1>2, <2>1 DEF StreamOK, PlaceOK, RowOK, RowOf, AgentOK, SaveOK,
       StreamCalls, RecoveryInit
<1>6. \A c \in Calls : CallOK(c)
  BY DEF RecoveryInit, CallOK, Used
<1> QED
  BY <1>3, <1>4, <1>5, <1>6 DEF RecoveryInv, StreamInv, CallsInv

LEMMA RecoveryInvStep == RecoveryInv /\ [RecoveryNext]_recoveryVars => RecoveryInv'
<1> SUFFICES ASSUME RecoveryInv, [RecoveryNext]_recoveryVars PROVE RecoveryInv'
    OBVIOUS
<1>1. ASSUME NEW x \in RunChats, RunChatArrives(x) \/ ChatProceeds(x)
      PROVE  RecoveryInv'
  BY <1>1, ChatSteps DEF ChatProceeds
<1>2. ASSUME NEW x \in Resumes,
             (\E r \in RunChats : ResumeArrives(x, r)) \/ ResumeProceeds(x)
      PROVE  RecoveryInv'
  <2>1. ResumeProceeds(x) => stream[x].target \in RunChats
    BY StreamTyped DEF ResumeProceeds, ResumeMarks, ResumeStarts, At, StreamOK,
       PlaceOK, Active, Streams
  <2> QED
    BY <1>2, <2>1, ResumingSteps DEF ResumeProceeds
<1>3. ASSUME NEW x \in Streams,
             \/ LoopProceeds(x) \/ CancelsRun(x) \/ StreamCloses(x)
             \/ CompactsHistory(x) \/ CompactionFails(x)
      PROVE  RecoveryInv'
  BY <1>3, SavingSteps, ClosingSteps, CompactingSteps, ToolsOf, CallingSteps, WritingSteps,
     LeavingSteps DEF LoopProceeds
<1>4. ASSUME UNCHANGED recoveryVars PROVE RecoveryInv'
  BY <1>4 DEF RecoveryInv, StreamInv, CallsInv, RecoveryTypeOK, OneStreamPerRun,
     StreamOK, PlaceOK, RowOK, AgentOK, SaveOK, Active, InLoop, RowOf,
     StreamCalls, CallOK, Used, CallOf, HasCall, Waits, recoveryVars
<1> QED
  BY <1>1, <1>2, <1>3, <1>4, LateSteps, ResetSteps, ProcessSteps DEF RecoveryNext

LEMMA RecoveryInvariant == RecoverySpec => []RecoveryInv
  BY RecoveryInvInit, RecoveryInvStep, PTL DEF RecoverySpec

-----------------------------------------------------------------------------
(* The results.                                                            *)

\* A run is never executed by two streams at once: neither by two resume
\* requests nor by one while its chat still runs it.
THEOREM RunsHaveOneStream == RecoverySpec => []OneStreamPerRun
<1>1. RecoveryInv => OneStreamPerRun
  BY DEF RecoveryInv, StreamInv
<1> QED
  BY <1>1, RecoveryInvariant, PTL

\* A row that may be resumed holds the result of every call that was started,
\* and so does what an accepted resume request has read from it: a resumed
\* run never repeats a call because nobody told it.
THEOREM SafePointsAreComplete == RecoverySpec => []SafePointIsComplete
<1>1. ASSUME RecoveryInv PROVE SafePointIsComplete
  <2> SUFFICES ASSUME NEW c \in Calls, call[c].state = "started",
                      c \notin forgotten, call[c].run \notin orphaned
               PROVE  /\ runRows[call[c].run].safe =>
                             c \in runRows[call[c].run].messages
                      /\ \A x \in Resumes :
                           /\ stream[x].pc \in {"accepted", "queued"}
                           /\ stream[x].target = call[c].run
                           => c \in stream[x].snap
    BY DEF SafePointIsComplete
  <2>1. runRows[call[c].run].safe => c \in runRows[call[c].run].messages
    BY <1>1 DEF RecoveryInv, CallsInv, CallOK
  <2>2. ASSUME NEW x \in Resumes, stream[x].pc \in {"accepted", "queued"},
               stream[x].target = call[c].run
        PROVE  c \in stream[x].snap
    BY <1>1, <2>1, <2>2 DEF RecoveryInv, StreamInv, StreamOK, RowOK, RowOf, Streams
  <2> QED
    BY <2>1, <2>2
<1> QED
  BY <1>1, RecoveryInvariant, PTL

\* A completed run stays completed through every step, those of resume
\* requests, crashes and restarts included.
THEOREM CompletedStaysCompleted == RecoverySpec => CompletedIsFinal
<1> DEFINE Kept == \A r \in RunChats : runRows[r].status = "completed" =>
                        runRows'[r].status = "completed"
<1>1. ASSUME RecoveryInv, [RecoveryNext]_recoveryVars PROVE Kept
  <2> SUFFICES ASSUME NEW r \in RunChats, runRows[r].status = "completed",
                      runRows' # runRows
               PROVE  runRows'[r].status = "completed"
    BY DEF Kept
  <2> USE <1>1
  <2>1. RecoveryTypeOK /\ \A x \in Streams : StreamOK(x)
    BY DEF RecoveryInv, StreamInv
  <2>2. ASSUME NEW x \in Streams, Saves(x) PROVE runRows'[r] = runRows[r]
    <3>1. RowOf(x).status = "running" /\ stream[x].run = stream[x].target
      BY <2>1, <2>2 DEF Saves, At, StreamOK, RowOK, SaveOK, InLoop, LoopPc
    <3> QED
      BY <2>1, <2>2, <3>1 DEF Saves, RowOf, RecoveryTypeOK
  <2>3. ASSUME NEW x \in RunChats, CreatesRun(x) PROVE runRows'[r] = runRows[r]
    <3>1. runRows[x].status = "absent" /\ stream[x].target = x
      BY <2>1, <2>3 DEF CreatesRun, At, StreamOK, PlaceOK, RowOK, Active, Streams
    <3>2. agent.run = None \/ agent.run = x
      BY <2>1, <2>3, <3>1 DEF CreatesRun, At, StreamOK, AgentOK, InLoop, LoopPc, Streams
    <3> QED
      BY <2>1, <2>3, <3>1, <3>2 DEF CreatesRun, RecoveryTypeOK
  <2>4. ASSUME NEW x \in Resumes, ResumeProceeds(x) PROVE runRows'[r] = runRows[r]
    <3>1. RowOf(x).status # "completed"
      BY <2>1, <2>4 DEF ResumeProceeds, ResumeMarks, ResumeStarts, At, StreamOK,
         RowOK, ResumableStatus, Streams
    <3> QED
      BY <2>1, <2>4, <3>1 DEF ResumeProceeds, ResumeMarks, ResumeStarts, RowOf,
         RecoveryTypeOK
  <2>5. ASSUME ServerRestarts PROVE runRows'[r] = runRows[r]
    BY <2>5 DEF ServerRestarts, Interrupt, TerminalStatus
  <2> QED
    BY <2>2, <2>3, <2>4, <2>5
       DEF RecoveryNext, LoopProceeds, ChatProceeds, recoveryVars,
           RunChatArrives, ChatStarts, Leave, ModelAnswers, ModelFails,
           ModelCallsTools, MarksUnsafe, ToolRuns, ToolAsksApproval,
           SavesWaiting, ToolIsRefused, ToolsDone, CancelsRun, StreamCloses,
           CompactsHistory, CompactionFails,
           ResumeArrives, LateApproval, SessionReset, ServerCrashes
<1> QED
  BY <1>1, RecoveryInvariant, PTL DEF RecoverySpec, CompletedIsFinal, Kept
=============================================================================
