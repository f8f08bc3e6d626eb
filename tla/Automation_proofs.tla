-------------------------- MODULE Automation_proofs --------------------------
(***************************************************************************)
(* Proofs about the modules of what runs beside the chats, which share no  *)
(* state: CronScheduler, for any number of cronCrashes, jobs, requests,      *)
(* minutes and crashes; CronFields, for months and weeks of any length;    *)
(* TaskGraph and BackgroundTasks, for any number of tasks, operations,     *)
(* collecting runs and crashes, and any finite number of starts;           *)
(* McpClients, for any number of calls and of connections.                 *)
(*                                                                         *)
(* CronScheduler: two arguments that share nothing.  The row of a job that *)
(* was never deleted remembers the last minute it was claimed for, and a   *)
(* claim needs a later one (JobHistory).  What is reserved in a process is *)
(* what its queue and its worker hold, each once (WorkInv).                *)
(*                                                                         *)
(* TaskGraph: an operation that has loaded a task holds the lock, so what  *)
(* it has loaded and checked is still so when it saves (Locked, Current).  *)
(* A task is pending until its only claim.                                 *)
(*                                                                         *)
(* BackgroundTasks: an id, once given, is never taken back (Given), so     *)
(* that a second task under an id is noticed for ever (Shared).  A task    *)
(* that has its id to itself is finished by nobody but its own worker      *)
(* (OwnStatus), and what was told stays marked as told (Marked).           *)
(*                                                                         *)
(* McpClients: the steps of the registry (endpoints, reloads) and those of *)
(* the calls change different variables, and each half has its own         *)
(* invariant.  The registry's rests on what a request that is under way    *)
(* has in hand: a connection to enter, or an entry of the file it has read *)
(* (InHand).                                                               *)
(*                                                                         *)
(* A behaviour of MCAutomation, which the runs check, is one of each part. *)
(***************************************************************************)
EXTENDS MCAutomation, FiniteSetTheorems, TLAPS

-----------------------------------------------------------------------------
(* The cron scheduler and cron fields.                                     *)

RowState == [present : BOOLEAN, fired : 0..MaxMinute]
Flags == [recurring : BOOLEAN, durable : BOOLEAN]
Life == {"new", "stored", "erased", "reborn"}

\* A job whose row was never deleted is claimed for increasing minutes, the
\* last of them in the row; one whose row was deleted was claimed at most
\* once for each minute, unless a save inserts it again.
JobHistory ==
    \A j \in CronJobs :
        /\ life[j] \in {"new", "erased"} => ~cronRows[j].present
        /\ life[j] = "new" => \A m \in Minutes : wins[j][m] = 0
        /\ life[j] = "stored" =>
               /\ cronRows[j].present
               /\ \A m \in Minutes : wins[j][m] > 0 => cronRows[j].fired >= m
        /\ life[j] # "reborn" => \A m \in Minutes : wins[j][m] <= 1

TableInv ==
    /\ minute \in Minutes
    /\ kind \in [CronJobs -> Flags]
    /\ cronRows \in [CronJobs -> RowState]
    /\ wins \in [CronJobs -> [Minutes -> Nat]]
    /\ life \in [CronJobs -> Life]
    /\ JobHistory

\* A pass that claims does so for a minute of the clock, and a request that
\* saves does so in some process.
ProcessInv ==
    /\ scheduled \in [CronProcs -> SUBSET CronJobs]
    /\ lastFired \in [CronProcs -> [CronJobs -> 0..MaxMinute]]
    /\ scheduler \in [CronProcs -> Pass]
    /\ edit \in [CronEdits -> Request]
    /\ cronCrashes \in 0..MaxCronCrashes
    /\ \A p \in CronProcs : scheduler[p].pc = "claiming" => scheduler[p].at # 0
    /\ \A e \in CronEdits : edit[e].pc = "saving" => edit[e].proc \in CronProcs

Queued(p, j) == \E i \in DOMAIN cronQueue[p] : cronQueue[p][i] = j

\* A queue holds a job once and not the one that is executed, and what it
\* holds and what is executed is what is reserved.
WorkInv ==
    /\ cronQueue \in [CronProcs -> Seq(CronJobs)]
    /\ cronWorker \in [CronProcs -> CronJobs \cup {None}]
    /\ reserved \in [CronProcs -> SUBSET CronJobs]
    /\ \A p \in CronProcs :
         /\ \A i, k \in DOMAIN cronQueue[p] :
              cronQueue[p][i] = cronQueue[p][k] => i = k
         /\ ~Queued(p, cronWorker[p])
         /\ \A j \in CronJobs :
              j \in reserved[p] <=> Queued(p, j) \/ cronWorker[p] = j

CronInv == TableInv /\ ProcessInv /\ WorkInv

-----------------------------------------------------------------------------
(* Cron: the table.                                                        *)

\* An upsert keeps what a row remembers, and inserts rows of new jobs and of
\* jobs that become reborn.
LEMMA Upserted ==
    ASSUME TableInv, NEW js, UpsertRows(js), UNCHANGED <<minute, kind, wins>>
    PROVE  TableInv'
<1> USE DEF TableInv
<1>1. /\ \A j \in CronJobs : cronRows'[j] =
             IF j \in js /\ ~cronRows[j].present THEN Stored ELSE cronRows[j]
      /\ \A j \in CronJobs : life'[j] =
             IF j \notin js THEN life[j]
             ELSE IF life[j] \in {"erased", "reborn"} THEN "reborn" ELSE "stored"
  BY DEF UpsertRows
<1>2. Stored \in RowState /\ Stored.present
  BY CronAssumption DEF Stored, RowState, Never
<1>3. cronRows' \in [CronJobs -> RowState] /\ life' \in [CronJobs -> Life]
  BY <1>1, <1>2 DEF UpsertRows, Life
<1>4. ASSUME NEW j \in CronJobs
      PROVE  /\ life'[j] \in {"new", "erased"} => ~cronRows'[j].present
             /\ life'[j] = "new" => \A m \in Minutes : wins[j][m] = 0
             /\ life'[j] = "stored" =>
                    /\ cronRows'[j].present
                    /\ \A m \in Minutes : wins[j][m] > 0 => cronRows'[j].fired >= m
             /\ life'[j] # "reborn" => \A m \in Minutes : wins[j][m] <= 1
  <2>1. CASE j \notin js
    BY <1>1, <2>1 DEF JobHistory
  <2>2. CASE j \in js /\ life[j] \in {"erased", "reborn"}
    BY <1>1, <2>2
  <2>3. CASE j \in js /\ life[j] = "new"
    <3>1. life'[j] = "stored" /\ cronRows'[j].present
      BY <1>1, <1>2, <2>3
    <3>2. \A m \in Minutes : wins[j][m] = 0
      BY <2>3 DEF JobHistory
    <3> QED
      BY <3>1, <3>2
  <2>4. CASE j \in js /\ life[j] = "stored"
    <3>1. life'[j] = "stored"
      BY <1>1, <2>4
    <3>2. cronRows'[j] = cronRows[j] /\ cronRows[j].present
      BY <1>1, <2>4 DEF JobHistory
    <3> QED
      BY <2>4, <3>1, <3>2 DEF JobHistory
  <2> QED
    BY <2>1, <2>2, <2>3, <2>4 DEF Life
<1>5. JobHistory'
  BY <1>4 DEF JobHistory
<1> QED
  BY <1>3, <1>5

LEMMA Deleted ==
    ASSUME TableInv, NEW x, DeleteRow(x), UNCHANGED <<minute, kind, wins>>
    PROVE  TableInv'
<1> USE DEF TableInv
<1>1. /\ \A j \in CronJobs : cronRows'[j] = IF j = x THEN Gone ELSE cronRows[j]
      /\ \A j \in CronJobs : life'[j] =
             IF j = x THEN (IF life[j] = "reborn" THEN "reborn" ELSE "erased")
             ELSE life[j]
  BY DEF DeleteRow
<1>2. Gone \in RowState /\ ~Gone.present
  BY CronAssumption DEF Gone, RowState, Never
<1>3. cronRows' \in [CronJobs -> RowState] /\ life' \in [CronJobs -> Life]
  BY <1>1, <1>2 DEF DeleteRow, Life
<1>4. JobHistory'
  BY <1>1, <1>2 DEF JobHistory
<1> QED
  BY <1>3, <1>4

\* A claim is for a later minute than the row remembers, hence for one the
\* job was not claimed for.
LEMMA Claimed ==
    ASSUME TableInv, NEW at \in Minutes, NEW won \in SUBSET CronJobs,
           \A j \in won : Wins(j, at),
           cronRows' = [j \in CronJobs |->
               IF j \in won THEN [cronRows[j] EXCEPT !.fired = at] ELSE cronRows[j]],
           wins' = [j \in CronJobs |->
               IF j \in won THEN [wins[j] EXCEPT ![at] = @ + 1] ELSE wins[j]],
           UNCHANGED <<minute, kind, life>>
    PROVE  TableInv'
<1> USE DEF TableInv
<1>1. Minutes \subseteq 0..MaxMinute /\ Minutes \subseteq Nat
  BY CronAssumption DEF Minutes
<1>2. \A j \in CronJobs \ won : cronRows'[j] = cronRows[j] /\ wins'[j] = wins[j]
  OBVIOUS
<1>3. ASSUME NEW j \in won
      PROVE  /\ cronRows'[j] \in RowState
             /\ cronRows'[j].fired = at
             /\ cronRows'[j].present /\ cronRows[j].present
             /\ cronRows[j].fired \in Nat /\ cronRows[j].fired < at
             /\ wins'[j] \in [Minutes -> Nat]
             /\ \A m \in Minutes : wins'[j][m] =
                    IF m = at THEN wins[j][m] + 1 ELSE wins[j][m]
  <2>1. j \in CronJobs /\ cronRows[j] \in RowState /\ wins[j] \in [Minutes -> Nat]
    OBVIOUS
  <2>2. cronRows'[j] = [cronRows[j] EXCEPT !.fired = at]
    BY <2>1
  <2>3. wins'[j] = [wins[j] EXCEPT ![at] = @ + 1]
    BY <2>1
  <2>4. cronRows[j].present /\ cronRows[j].fired < at /\ cronRows[j].fired \in 0..MaxMinute
    BY <2>1, CronAssumption DEF Wins, RowState
  <2> QED
    BY <1>1, <2>1, <2>2, <2>3, <2>4 DEF RowState
<1>4. cronRows' \in [CronJobs -> RowState]
  BY <1>2, <1>3
<1>5. wins' \in [CronJobs -> [Minutes -> Nat]]
  BY <1>2, <1>3
<1>6. ASSUME NEW j \in won
      PROVE  /\ life[j] \notin {"new", "erased"}
             /\ life[j] = "stored" =>
                    \A m \in Minutes : /\ wins'[j][m] > 0 => cronRows'[j].fired >= m
                                       /\ wins'[j][m] <= 1
  <2>1. j \in CronJobs
    OBVIOUS
  <2>2. life[j] \notin {"new", "erased"}
    BY <1>3, <2>1 DEF JobHistory
  <2>3. ASSUME life[j] = "stored", NEW m \in Minutes
        PROVE  (wins'[j][m] > 0 => cronRows'[j].fired >= m) /\ wins'[j][m] <= 1
    <3>1. wins[j][m] > 0 => cronRows[j].fired >= m
      BY <2>1, <2>3 DEF JobHistory
    <3>2. wins[j][m] <= 1 /\ wins[j][m] \in Nat
      BY <2>1, <2>3 DEF JobHistory
    <3>3. m \in Nat /\ at \in Nat
      BY <1>1
    <3>4. /\ wins'[j][m] = IF m = at THEN wins[j][m] + 1 ELSE wins[j][m]
          /\ cronRows'[j].fired = at
          /\ cronRows[j].fired \in Nat /\ cronRows[j].fired < at
      BY <1>3
    <3> QED
      BY <3>1, <3>2, <3>3, <3>4
  <2> QED
    BY <2>2, <2>3
<1>7. JobHistory'
  <2> SUFFICES ASSUME NEW j \in CronJobs
               PROVE  /\ life[j] \in {"new", "erased"} => ~cronRows'[j].present
                      /\ life[j] = "new" => \A m \in Minutes : wins'[j][m] = 0
                      /\ life[j] = "stored" =>
                             /\ cronRows'[j].present
                             /\ \A m \in Minutes :
                                    wins'[j][m] > 0 => cronRows'[j].fired >= m
                      /\ life[j] # "reborn" => \A m \in Minutes : wins'[j][m] <= 1
    BY DEF JobHistory
  <2>1. CASE j \notin won
    BY <1>2, <2>1 DEF JobHistory
  <2>2. CASE j \in won
    <3>1. life[j] \in {"stored", "reborn"} /\ cronRows'[j].present
      BY <1>3, <1>6, <2>2, ZenonT(30) DEF Life
    <3>2. life[j] = "stored" =>
              /\ \A m \in Minutes : wins'[j][m] > 0 => cronRows'[j].fired >= m
              /\ \A m \in Minutes : wins'[j][m] <= 1
      BY <1>6, <2>2
    <3> QED
      BY <3>1, <3>2
  <2> QED
    BY <2>1, <2>2
<1> QED
  BY <1>4, <1>5, <1>7

\* Nothing else touches the rows or what was claimed.
LEMMA TableSame ==
    ASSUME TableInv, UNCHANGED <<cronRows, wins, life>>,
           minute' \in Minutes, kind' \in [CronJobs -> Flags]
    PROVE  TableInv'
    BY DEF TableInv, JobHistory

-----------------------------------------------------------------------------
(* Cron: the executions of a process.                                      *)

WorkOf(p) ==
    /\ \A i, k \in DOMAIN cronQueue[p] :
         cronQueue[p][i] = cronQueue[p][k] => i = k
    /\ ~Queued(p, cronWorker[p])
    /\ \A j \in CronJobs : j \in reserved[p] <=> Queued(p, j) \/ cronWorker[p] = j

\* A step of one process leaves the others' work alone.
LEMMA OthersWork ==
    ASSUME WorkInv, NEW p \in CronProcs,
           cronQueue' \in [CronProcs -> Seq(CronJobs)],
           cronWorker' \in [CronProcs -> CronJobs \cup {None}],
           reserved' \in [CronProcs -> SUBSET CronJobs],
           \A q \in CronProcs \ {p} : /\ cronQueue'[q] = cronQueue[q]
                                      /\ cronWorker'[q] = cronWorker[q]
                                      /\ reserved'[q] = reserved[q],
           WorkOf(p)'
    PROVE  WorkInv'
<1>1. \A q \in CronProcs \ {p} : WorkOf(q)'
  BY DEF WorkInv, WorkOf, Queued
<1> QED
  BY <1>1 DEF WorkInv, WorkOf

LEMMA WorkSame ==
    ASSUME WorkInv, UNCHANGED work
    PROVE  WorkInv'
    BY DEF WorkInv, work, Queued

\* A job is queued only if it is neither queued nor executed.
LEMMA Enqueued ==
    ASSUME WorkInv, NEW p \in CronProcs, NEW j \in CronJobs, Enqueue(p, j),
           cronWorker' = cronWorker
    PROVE  WorkInv'
<1>1. CASE j \in reserved[p]
  BY <1>1, WorkSame DEF Enqueue, MayReserve, work
<1>2. CASE j \notin reserved[p]
  <2> DEFINE q == cronQueue[p]
  <2>1. /\ reserved' = [reserved EXCEPT ![p] = @ \cup {j}]
        /\ cronQueue' = [cronQueue EXCEPT ![p] = Append(@, j)]
    BY <1>2 DEF Enqueue, MayReserve
  <2>2. q \in Seq(CronJobs)
    BY DEF WorkInv
  <2>3. /\ cronQueue'[p] = Append(q, j)
        /\ reserved'[p] = reserved[p] \cup {j}
        /\ \A r \in CronProcs \ {p} : /\ cronQueue'[r] = cronQueue[r]
                                      /\ reserved'[r] = reserved[r]
    BY <2>1 DEF WorkInv
  <2>4. /\ DOMAIN Append(q, j) = DOMAIN q \cup {Len(q) + 1}
        /\ Len(q) + 1 \notin DOMAIN q
        /\ \A i \in DOMAIN q : Append(q, j)[i] = q[i]
        /\ Append(q, j)[Len(q) + 1] = j
        /\ Append(q, j) \in Seq(CronJobs)
    BY <2>2
  <2>5. ~Queued(p, j) /\ cronWorker[p] # j
    BY <1>2 DEF WorkInv
  <2>6. \A k : Queued(p, k)' <=> Queued(p, k) \/ k = j
    BY <2>3, <2>4 DEF Queued
  <2>7. WorkOf(p)'
    <3>1. \A i, k \in DOMAIN Append(q, j) :
              Append(q, j)[i] = Append(q, j)[k] => i = k
      BY <2>4, <2>5 DEF WorkInv, Queued
    <3>2. ~Queued(p, cronWorker[p])'
      BY <2>5, <2>6 DEF WorkInv
    <3>3. \A k \in CronJobs :
              k \in reserved'[p] <=> Queued(p, k)' \/ cronWorker[p] = k
      BY <2>3, <2>6 DEF WorkInv
    <3> QED
      BY <2>3, <3>1, <3>2, <3>3 DEF WorkOf
  <2>8. /\ cronQueue' \in [CronProcs -> Seq(CronJobs)]
        /\ reserved' \in [CronProcs -> SUBSET CronJobs]
    BY <2>1, <2>4 DEF WorkInv
  <2> QED
    BY <2>3, <2>7, <2>8, OthersWork DEF WorkInv
<1> QED
  BY <1>1, <1>2

\* The worker takes the head of the queue: the job is not in the rest of it.
LEMMA Taken ==
    ASSUME WorkInv, NEW p \in CronProcs, WorkerTakes(p)
    PROVE  WorkInv'
<1> DEFINE q == cronQueue[p]
<1>1. /\ cronWorker[p] = None /\ q # <<>> /\ q \in Seq(CronJobs)
      /\ cronWorker' = [cronWorker EXCEPT ![p] = Head(q)]
      /\ cronQueue' = [cronQueue EXCEPT ![p] = Tail(@)]
      /\ reserved' = reserved
  BY DEF WorkerTakes, WorkInv
<1>2. /\ cronQueue'[p] = Tail(q) /\ cronWorker'[p] = Head(q)
      /\ \A r \in CronProcs \ {p} : /\ cronQueue'[r] = cronQueue[r]
                                    /\ cronWorker'[r] = cronWorker[r]
  BY <1>1 DEF WorkInv
<1>3. /\ Tail(q) \in Seq(CronJobs) /\ Head(q) \in CronJobs /\ Head(q) = q[1]
      /\ Len(q) \in Nat /\ Len(q) # 0
      /\ DOMAIN q = 1..Len(q) /\ DOMAIN Tail(q) = 1..(Len(q) - 1)
      /\ \A i \in DOMAIN Tail(q) : Tail(q)[i] = q[i + 1]
  BY <1>1
<1>4. \A i \in DOMAIN Tail(q) : i + 1 \in DOMAIN q /\ i + 1 # 1
  BY <1>3
<1>5. \A i \in DOMAIN q : i = 1 \/ (i - 1 \in DOMAIN Tail(q) /\ i = (i - 1) + 1)
  BY <1>3
<1>6. \A k : Queued(p, k) <=> Queued(p, k)' \/ k = Head(q)
  <2> SUFFICES ASSUME NEW k PROVE Queued(p, k) <=> Queued(p, k)' \/ k = Head(q)
    OBVIOUS
  <2>1. Queued(p, k)' => Queued(p, k)
    BY <1>2, <1>3, <1>4 DEF Queued
  <2>2. Queued(p, Head(q))
    BY <1>3 DEF Queued
  <2>3. Queued(p, k) => Queued(p, k)' \/ k = Head(q)
    <3> SUFFICES ASSUME NEW i \in DOMAIN q, q[i] = k
                 PROVE  Queued(p, k)' \/ k = Head(q)
      BY DEF Queued
    <3>1. CASE i = 1
      BY <1>3, <3>1
    <3>2. CASE i # 1
      <4>1. i - 1 \in DOMAIN Tail(q) /\ Tail(q)[i - 1] = q[i]
        BY <1>3, <1>5, <3>2
      <4> QED
        BY <1>2, <4>1 DEF Queued
    <3> QED
      BY <3>1, <3>2
  <2> QED
    BY <2>1, <2>2, <2>3
<1>7. \A i, k \in DOMAIN q : q[i] = q[k] => i = k
  BY DEF WorkInv
<1>8. WorkOf(p)'
  <2>1. ASSUME NEW i \in DOMAIN Tail(q), NEW k \in DOMAIN Tail(q),
               Tail(q)[i] = Tail(q)[k]
        PROVE  i = k
    <3>1. i + 1 = k + 1
      BY <1>3, <1>4, <1>7, <2>1
    <3> QED
      BY <1>3, <3>1
  <2>2. \A i \in DOMAIN Tail(q) : Tail(q)[i] # Head(q)
    BY <1>3, <1>4, <1>7
  <2>3. ~Queued(p, cronWorker[p])'
    BY <1>2, <2>2 DEF Queued
  <2>4. \A j \in CronJobs : j \in reserved[p] <=> Queued(p, j)' \/ Head(q) = j
    BY <1>1, <1>6, CronAssumption DEF WorkInv
  <2> QED
    BY <1>1, <1>2, <2>1, <2>3, <2>4 DEF WorkOf
<1>9. /\ cronQueue' \in [CronProcs -> Seq(CronJobs)]
      /\ cronWorker' \in [CronProcs -> CronJobs \cup {None}]
  BY <1>1, <1>3 DEF WorkInv
<1> QED
  BY <1>1, <1>2, <1>8, <1>9, OthersWork DEF WorkInv

\* The job that was executed is not queued, and its reservation goes.
LEMMA WorkerDone ==
    ASSUME WorkInv, NEW p \in CronProcs, WorkerEnds(p)
    PROVE  WorkInv'
<1>1. /\ cronWorker[p] # None
      /\ cronWorker' = [cronWorker EXCEPT ![p] = None]
      /\ reserved' = [reserved EXCEPT ![p] = @ \ {cronWorker[p]}]
      /\ cronQueue' = cronQueue
  BY DEF WorkerEnds
<1>2. /\ cronWorker'[p] = None
      /\ reserved'[p] = reserved[p] \ {cronWorker[p]}
      /\ \A r \in CronProcs \ {p} : /\ cronWorker'[r] = cronWorker[r]
                                    /\ reserved'[r] = reserved[r]
  BY <1>1 DEF WorkInv
<1>3. \A k : Queued(p, k)' <=> Queued(p, k)
  BY <1>1 DEF Queued
<1>4. ~Queued(p, None)
  BY CronAssumption DEF WorkInv, Queued
<1>5. \A j \in CronJobs : j \in reserved'[p] <=> Queued(p, j)' \/ cronWorker'[p] = j
  BY <1>2, <1>3, CronAssumption DEF WorkInv
<1>6. WorkOf(p)'
  BY <1>1, <1>2, <1>3, <1>4, <1>5 DEF WorkOf, WorkInv
<1>7. /\ cronWorker' \in [CronProcs -> CronJobs \cup {None}]
      /\ reserved' \in [CronProcs -> SUBSET CronJobs]
  BY <1>1 DEF WorkInv
<1> QED
  BY <1>1, <1>2, <1>6, <1>7, OthersWork DEF WorkInv

LEMMA WorkLost ==
    ASSUME WorkInv, NEW p \in CronProcs,
           cronQueue' = [cronQueue EXCEPT ![p] = <<>>],
           cronWorker' = [cronWorker EXCEPT ![p] = None],
           reserved' = [reserved EXCEPT ![p] = {}]
    PROVE  WorkInv'
<1>1. /\ cronQueue'[p] = <<>> /\ cronWorker'[p] = None /\ reserved'[p] = {}
      /\ \A r \in CronProcs \ {p} : /\ cronQueue'[r] = cronQueue[r]
                                    /\ cronWorker'[r] = cronWorker[r]
                                    /\ reserved'[r] = reserved[r]
  BY DEF WorkInv
<1>2. \A k : ~Queued(p, k)'
  BY <1>1 DEF Queued
<1>3. WorkOf(p)'
  BY <1>1, <1>2, CronAssumption DEF WorkOf
<1>4. /\ cronQueue' \in [CronProcs -> Seq(CronJobs)]
      /\ cronWorker' \in [CronProcs -> CronJobs \cup {None}]
      /\ reserved' \in [CronProcs -> SUBSET CronJobs]
  BY DEF WorkInv
<1> QED
  BY <1>1, <1>3, <1>4, OthersWork

-----------------------------------------------------------------------------
(* Cron: the threads and the requests.                                     *)

PassesInv ==
    /\ scheduler \in [CronProcs -> Pass]
    /\ \A p \in CronProcs : scheduler[p].pc = "claiming" => scheduler[p].at # 0

LEMMA PassSet ==
    ASSUME PassesInv, NEW p \in CronProcs, NEW x \in Pass,
           x.pc = "claiming" => x.at # 0,
           scheduler' = [scheduler EXCEPT ![p] = x]
    PROVE  PassesInv'
    BY DEF PassesInv

LEMMA PassClaimed ==
    ASSUME PassesInv, NEW p \in CronProcs, NEW won \in SUBSET CronJobs,
           scheduler' = [scheduler EXCEPT ![p].pc = "firing", ![p].won = won]
    PROVE  PassesInv'
    BY ZenonT(30) DEF PassesInv, Pass, SchedulerPc

\* A job of a pass that fires is handled.
LEMMA PassHandles ==
    ASSUME PassesInv, NEW p \in CronProcs, NEW j, scheduler[p].pc = "firing",
           \/ scheduler' = [scheduler EXCEPT ![p].due = @ \ {j}]
           \/ scheduler' = [scheduler EXCEPT ![p].due = @ \ {j}, ![p].changed = TRUE]
    PROVE  PassesInv'
    BY DEF PassesInv, Pass

LEMMA Passes ==
    /\ IdlePass \in Pass /\ IdlePass.pc = "idle"
    /\ [IdlePass EXCEPT !.pc = "dead"] \in Pass
    /\ NoThread \in Pass /\ NoThread.pc = "off"
    /\ \A due \in SUBSET CronJobs :
         [IdlePass EXCEPT !.pc = "loading", !.due = due] \in Pass
    /\ \A snap \in SUBSET CronJobs :
         [IdlePass EXCEPT !.pc = "writing", !.snap = snap] \in Pass
    /\ \A at \in Minutes, due \in SUBSET CronJobs :
         [IdlePass EXCEPT !.pc = "claiming", !.at = at, !.due = due] \in Pass
<1>1. 0 \in 0..MaxMinute /\ Minutes \subseteq 0..MaxMinute
  BY CronAssumption DEF Minutes
<1>2. IdlePass \in Pass /\ IdlePass.pc = "idle"
  BY <1>1 DEF IdlePass, Pass, SchedulerPc
<1>3. [IdlePass EXCEPT !.pc = "dead"] \in Pass
  BY <1>2 DEF Pass, SchedulerPc
<1>6. NoThread \in Pass /\ NoThread.pc = "off"
  BY <1>2 DEF NoThread, IdlePass, Pass, SchedulerPc
<1>7. ASSUME NEW due \in SUBSET CronJobs
      PROVE  [IdlePass EXCEPT !.pc = "loading", !.due = due] \in Pass
  BY <1>2 DEF Pass, SchedulerPc
<1>4. ASSUME NEW snap \in SUBSET CronJobs
      PROVE  [IdlePass EXCEPT !.pc = "writing", !.snap = snap] \in Pass
  BY <1>2 DEF Pass, SchedulerPc
<1>5. ASSUME NEW at \in Minutes, NEW due \in SUBSET CronJobs
      PROVE  [IdlePass EXCEPT !.pc = "claiming", !.at = at, !.due = due] \in Pass
  <2>1. at \in 0..MaxMinute
    BY <1>1
  <2> QED
    BY <1>2, <2>1 DEF Pass, SchedulerPc
<1> QED
  BY <1>2, <1>3, <1>4, <1>5, <1>6, <1>7

EditsInv ==
    /\ edit \in [CronEdits -> Request]
    /\ \A e \in CronEdits : edit[e].pc = "saving" => edit[e].proc \in CronProcs

LEMMA EditSet ==
    ASSUME EditsInv, NEW e \in CronEdits, NEW x \in Request,
           x.proc \in CronProcs, edit' = [edit EXCEPT ![e] = x]
    PROVE  EditsInv'
    BY DEF EditsInv

LEMMA EditGoes ==
    ASSUME EditsInv, NEW e \in CronEdits, NEW pc \in EditPc \ {"saving"},
           NEW snap \in SUBSET CronJobs,
           \/ edit' = [edit EXCEPT ![e].pc = pc]
           \/ edit' = [edit EXCEPT ![e].pc = pc, ![e].snap = snap]
    PROVE  EditsInv'
    BY DEF EditsInv, Request

\* What is left of a request that is done.
LEMMA EditServed ==
    ASSUME EditsInv, NEW e \in CronEdits
    PROVE  /\ Served(e) \in Request /\ Served(e).pc = "done"
           /\ edit' = [edit EXCEPT ![e] = Served(e)] => EditsInv'
<1>1. edit[e] \in Request /\ edit[e].job \in CronJobs \cup {None}
  BY DEF EditsInv, Request
<1>2. NewEdit \in Request
  BY DEF NewEdit, Request, EditPc
<1>3. Served(e) \in Request /\ Served(e).pc = "done"
  BY <1>1, <1>2 DEF Served, NewEdit, Request, EditPc
<1> HIDE DEF Request
<1> QED
  BY <1>3 DEF EditsInv

-----------------------------------------------------------------------------

LEMMA CronStep == CronInv /\ [CronNext]_cronVars => CronInv'
<1> SUFFICES ASSUME CronInv, [CronNext]_cronVars PROVE CronInv'
    OBVIOUS
<1> DEFINE procs == <<scheduled, lastFired, scheduler, edit, cronCrashes>>
           table == <<minute, kind, cronRows, wins, life>>
<1> USE DEF CronInv
<1>1. ASSUME UNCHANGED procs PROVE ProcessInv'
  BY <1>1 DEF ProcessInv
<1>2. ASSUME UNCHANGED table PROVE TableInv'
  BY <1>2, TableSame DEF TableInv
<1>3. PassesInv /\ EditsInv
  BY DEF ProcessInv, PassesInv, EditsInv
<1>4. ASSUME NEW e \in CronEdits, NEW p \in CronProcs, NEW j \in CronJobs,
             NEW k \in Flags, Schedules(e, p, j, k)
      PROVE  CronInv'
  <2>1. /\ kind' = [kind EXCEPT ![j] = k]
        /\ scheduled' = [scheduled EXCEPT ![p] = @ \cup {j}]
        /\ edit' = [edit EXCEPT ![e] =
               [pc |-> IF k.durable THEN "saving" ELSE "inserting", proc |-> p,
                job |-> j, cancels |-> FALSE, snap |-> {}]]
        /\ UNCHANGED <<minute, cronRows, lastFired, scheduler, work, cronCrashes,
                       wins, life>>
    BY <1>4 DEF Schedules
  <2>2. TableInv'
    BY <2>1, TableSame DEF TableInv
  <2>3. [pc |-> IF k.durable THEN "saving" ELSE "inserting", proc |-> p,
         job |-> j, cancels |-> FALSE, snap |-> {}] \in Request
    BY DEF Request, EditPc
  <2>4. ProcessInv'
    BY <1>3, <2>1, <2>3, EditSet DEF ProcessInv, EditsInv
  <2> QED
    BY <2>1, <2>2, <2>4, WorkSame
<1>5. ASSUME NEW e \in CronEdits, NEW p \in CronProcs, NEW j \in CronJobs,
             Cancels(e, p, j)
      PROVE  CronInv'
  <2>1. /\ scheduled' = [scheduled EXCEPT ![p] = @ \ {j}]
        /\ lastFired' = [lastFired EXCEPT ![p][j] = Never]
        /\ edit' = [edit EXCEPT ![e] =
               [pc |-> "saving", proc |-> p, job |-> j, cancels |-> TRUE,
                snap |-> {}]]
        /\ UNCHANGED <<minute, kind, cronRows, scheduler, work, cronCrashes, wins,
                       life>>
    BY <1>5 DEF Cancels
  <2>2. [pc |-> "saving", proc |-> p, job |-> j, cancels |-> TRUE, snap |-> {}]
            \in Request
    BY DEF Request, EditPc
  <2>3. lastFired' \in [CronProcs -> [CronJobs -> 0..MaxMinute]]
    BY <2>1, CronAssumption DEF ProcessInv, Never
  <2>4. scheduled' \in [CronProcs -> SUBSET CronJobs]
    BY <2>1 DEF ProcessInv
  <2>5. ProcessInv'
    BY <1>3, <2>1, <2>2, <2>3, <2>4, EditSet DEF ProcessInv, EditsInv
  <2> QED
    BY <1>2, <2>1, <2>5, WorkSame
<1>6. ASSUME NEW e \in CronEdits, Inserts(e) PROVE CronInv'
  <2>1. /\ UpsertRows({edit[e].job})
        /\ edit' = [edit EXCEPT ![e] = Served(e)]
        /\ UNCHANGED <<minute, kind, scheduled, lastFired, scheduler, work,
                       cronCrashes, wins>>
    BY <1>6 DEF Inserts
  <2>2. ProcessInv'
    BY <1>3, <2>1, EditServed DEF ProcessInv, EditsInv
  <2> QED
    BY <2>1, <2>2, Upserted, WorkSame
<1>7. ASSUME NEW e \in CronEdits, TakesSnapshot(e) PROVE CronInv'
  <2>1. /\ edit' = [edit EXCEPT ![e].pc = "writing",
                                ![e].snap = Snapshot(edit[e].proc)]
        /\ edit[e].pc = "saving" /\ "writing" \in EditPc \ {"saving"}
        /\ UNCHANGED <<minute, kind, cronRows, scheduled, lastFired, scheduler,
                       work, cronCrashes, wins, life>>
    BY <1>7 DEF TakesSnapshot, EditPc
  <2>2. Snapshot(edit[e].proc) \in SUBSET CronJobs
    BY <2>1 DEF Snapshot, ProcessInv
  <2>3. ProcessInv'
    BY <1>3, <2>1, <2>2, EditGoes DEF ProcessInv, EditsInv
  <2> QED
    BY <1>2, <2>1, <2>3, WorkSame
<1>8. ASSUME NEW e \in CronEdits, WritesSnapshot(e) PROVE CronInv'
  <2>1. /\ edit' = [edit EXCEPT ![e] =
               IF edit[e].cancels
               THEN [edit[e] EXCEPT !.pc = "deleting", !.snap = {}]
               ELSE Served(e)]
        /\ UNCHANGED <<minute, kind, scheduled, lastFired, scheduler, work,
                       cronCrashes, wins>>
        /\ \E written \in SUBSET edit[e].snap : UpsertRows(written)
    BY <1>8 DEF WritesSnapshot
  <2>2. PICK written : UpsertRows(written)
    BY <2>1
  <2>3. EditsInv'
    <3>1. CASE edit[e].cancels
      <4>1. [edit[e] EXCEPT !.pc = "deleting", !.snap = {}] \in Request
        BY <1>3 DEF EditsInv, Request, EditPc
      <4>2. [edit[e] EXCEPT !.pc = "deleting", !.snap = {}].pc = "deleting"
        BY <1>3 DEF EditsInv, Request
      <4> HIDE DEF Request
      <4> QED
        BY <1>3, <2>1, <3>1, <4>1, <4>2 DEF EditsInv
    <3>2. CASE ~edit[e].cancels
      BY <1>3, <2>1, <3>2, EditServed
    <3> QED
      BY <3>1, <3>2
  <2>4. ProcessInv'
    BY <2>1, <2>3 DEF ProcessInv, EditsInv
  <2>5. TableInv'
    BY <2>1, <2>2, Upserted
  <2> QED
    BY <2>1, <2>4, <2>5, WorkSame
<1>9. ASSUME NEW e \in CronEdits, DeletesCancelled(e) PROVE CronInv'
  <2>1. /\ DeleteRow(edit[e].job)
        /\ edit' = [edit EXCEPT ![e] = Served(e)]
        /\ UNCHANGED <<minute, kind, scheduled, lastFired, scheduler, work,
                       cronCrashes, wins>>
    BY <1>9 DEF DeletesCancelled
  <2>2. ProcessInv'
    BY <1>3, <2>1, EditServed DEF ProcessInv, EditsInv
  <2> QED
    BY <2>1, <2>2, Deleted, WorkSame
<1>10. ASSUME NEW p \in CronProcs, ScansJobs(p) PROVE CronInv'
  <2> DEFINE pass == [IdlePass EXCEPT !.pc = "claiming", !.at = minute,
                                      !.due = scheduled[p]]
  <2>1. /\ scheduler' = [scheduler EXCEPT ![p] = pass]
        /\ UNCHANGED <<minute, kind, cronRows, scheduled, lastFired, work, edit,
                       cronCrashes, wins, life>>
    BY <1>10 DEF ScansJobs
  <2>2. pass \in Pass
    BY Passes DEF TableInv, ProcessInv
  <2>3. pass.at # 0
    BY CronAssumption DEF TableInv, Minutes, IdlePass
  <2>4. PassesInv'
    BY <1>3, <2>1, <2>2, <2>3, PassSet
  <2>5. ProcessInv'
    BY <2>1, <2>4 DEF ProcessInv, PassesInv
  <2> QED
    BY <1>2, <2>1, <2>5, WorkSame
<1>11. ASSUME NEW p \in CronProcs, ClaimsJobs(p) PROVE CronInv'
  <2> DEFINE at == scheduler[p].at
             won == {j \in scheduler[p].due : Durable(j) /\ Wins(j, at)}
  <2>1. /\ cronRows' = [j \in CronJobs |->
               IF j \in won THEN [cronRows[j] EXCEPT !.fired = at]
               ELSE cronRows[j]]
        /\ wins' = [j \in CronJobs |->
               IF j \in won THEN [wins[j] EXCEPT ![at] = @ + 1] ELSE wins[j]]
        /\ scheduler' = [scheduler EXCEPT ![p].pc = "firing", ![p].won = won]
        /\ scheduler[p].pc = "claiming"
        /\ UNCHANGED <<minute, kind, scheduled, lastFired, work, edit, cronCrashes,
                       life>>
    BY <1>11 DEF ClaimsJobs, Scheduling
  <2>2. won \in SUBSET CronJobs /\ \A j \in won : Wins(j, at)
    BY DEF ProcessInv, Pass
  <2>3. at \in Minutes
    BY <2>1, CronAssumption DEF ProcessInv, Pass, Minutes
  <2> HIDE DEF won, at
  <2>4. TableInv'
    BY <2>1, <2>2, <2>3, Claimed
  <2>5. PassesInv'
    BY <1>3, <2>1, <2>2, PassClaimed
  <2>6. ProcessInv'
    BY <2>1, <2>5 DEF ProcessInv, PassesInv
  <2> QED
    BY <2>1, <2>4, <2>6, WorkSame
<1>12. ASSUME NEW p \in CronProcs, SchedulerDies(p) PROVE CronInv'
  <2>1. /\ scheduler' = [scheduler EXCEPT ![p] = [IdlePass EXCEPT !.pc = "dead"]]
        /\ UNCHANGED <<minute, kind, cronRows, scheduled, lastFired, work, edit,
                       cronCrashes, wins, life>>
    BY <1>12 DEF SchedulerDies
  <2>2. [IdlePass EXCEPT !.pc = "dead"].pc # "claiming"
    BY DEF IdlePass
  <2>3. PassesInv'
    BY <1>3, <2>1, <2>2, Passes, PassSet
  <2>4. ProcessInv'
    BY <2>1, <2>3 DEF ProcessInv, PassesInv
  <2> QED
    BY <1>2, <2>1, <2>4, WorkSame
<1>13. ASSUME NEW p \in CronProcs, NEW j \in CronJobs, SkipsJob(p, j) PROVE CronInv'
  <2>1. /\ scheduler' = [scheduler EXCEPT ![p].due = @ \ {j}]
        /\ scheduler[p].pc = "firing"
        /\ UNCHANGED <<minute, kind, cronRows, scheduled, lastFired, work, edit,
                       cronCrashes, wins, life>>
    BY <1>13 DEF SkipsJob, Scheduling
  <2>2. PassesInv'
    BY <1>3, <2>1, PassHandles
  <2>3. ProcessInv'
    BY <2>1, <2>2 DEF ProcessInv, PassesInv
  <2> QED
    BY <1>2, <2>1, <2>3, WorkSame
<1>14. ASSUME NEW p \in CronProcs, NEW j \in CronJobs, FiresRecurring(p, j)
       PROVE  CronInv'
  <2>1. /\ scheduler' = [scheduler EXCEPT ![p].due = @ \ {j}]
        /\ scheduler[p].pc = "firing"
        /\ lastFired' = IF Durable(j) THEN lastFired
                        ELSE [lastFired EXCEPT ![p][j] = scheduler[p].at]
        /\ Enqueue(p, j)
        /\ UNCHANGED <<minute, kind, cronRows, scheduled, cronWorker, edit,
                       cronCrashes, wins, life>>
    BY <1>14 DEF FiresRecurring, Scheduling
  <2>2. PassesInv'
    BY <1>3, <2>1, PassHandles
  <2>3. scheduler[p].at \in 0..MaxMinute
    BY DEF ProcessInv, Pass
  <2>4. lastFired' \in [CronProcs -> [CronJobs -> 0..MaxMinute]]
    BY <2>1, <2>3 DEF ProcessInv
  <2>5. ProcessInv'
    BY <2>1, <2>2, <2>4 DEF ProcessInv, PassesInv
  <2>6. WorkInv'
    BY <2>1, Enqueued
  <2> QED
    BY <1>2, <2>1, <2>5, <2>6
<1>15. ASSUME NEW p \in CronProcs, NEW j \in CronJobs, FiresOneShot(p, j)
       PROVE  CronInv'
  <2>1. /\ scheduler' = [scheduler EXCEPT ![p].due = @ \ {j}, ![p].changed = TRUE]
        /\ scheduler[p].pc = "firing"
        /\ scheduled' = [scheduled EXCEPT ![p] = @ \ {j}]
        /\ lastFired' = [lastFired EXCEPT ![p][j] = Never]
        /\ DeleteRow(j)
        /\ Enqueue(p, j)
        /\ UNCHANGED <<minute, kind, cronWorker, edit, cronCrashes, wins>>
    BY <1>15 DEF FiresOneShot, Scheduling
  <2>2. PassesInv'
    BY <1>3, <2>1, PassHandles
  <2>3. lastFired' \in [CronProcs -> [CronJobs -> 0..MaxMinute]]
    BY <2>1, CronAssumption DEF ProcessInv, Never
  <2>4. scheduled' \in [CronProcs -> SUBSET CronJobs]
    BY <2>1 DEF ProcessInv
  <2>5. ProcessInv'
    BY <2>1, <2>2, <2>3, <2>4 DEF ProcessInv, PassesInv
  <2>6. WorkInv'
    BY <2>1, Enqueued
  <2> QED
    BY <2>1, <2>5, <2>6, Deleted
<1>16. ASSUME NEW p \in CronProcs, EndsPass(p) PROVE CronInv'
  <2>1. /\ scheduler' = [scheduler EXCEPT ![p] =
               IF scheduler[p].changed
               THEN [IdlePass EXCEPT !.pc = "writing", !.snap = Snapshot(p)]
               ELSE IdlePass]
        /\ UNCHANGED <<minute, kind, cronRows, scheduled, lastFired, work, edit,
                       cronCrashes, wins, life>>
    BY <1>16 DEF EndsPass
  <2>2. Snapshot(p) \in SUBSET CronJobs
    BY DEF Snapshot, ProcessInv
  <2>3. PICK x \in Pass : x.pc # "claiming"
                          /\ scheduler' = [scheduler EXCEPT ![p] = x]
    <3>1. CASE scheduler[p].changed
      <4>1. [IdlePass EXCEPT !.pc = "writing", !.snap = Snapshot(p)].pc = "writing"
        BY DEF IdlePass
      <4> QED
        BY <2>1, <2>2, <3>1, <4>1, Passes
    <3>2. CASE ~scheduler[p].changed
      BY <2>1, <3>2, Passes
    <3> QED
      BY <3>1, <3>2
  <2>4. PassesInv'
    BY <1>3, <2>3, PassSet
  <2>5. ProcessInv'
    BY <2>1, <2>4 DEF ProcessInv, PassesInv
  <2> QED
    BY <1>2, <2>1, <2>5, WorkSame
<1>17. ASSUME NEW p \in CronProcs, SchedulerWrites(p) PROVE CronInv'
  <2>1. /\ \E written \in SUBSET scheduler[p].snap : UpsertRows(written)
        /\ scheduler' = [scheduler EXCEPT ![p] = IdlePass]
        /\ UNCHANGED <<minute, kind, scheduled, lastFired, work, edit, cronCrashes,
                       wins>>
    BY <1>17 DEF SchedulerWrites
  <2>2. PICK written : UpsertRows(written)
    BY <2>1
  <2>3. PassesInv'
    BY <1>3, <2>1, Passes, PassSet
  <2>4. ProcessInv'
    BY <2>1, <2>3 DEF ProcessInv, PassesInv
  <2>5. TableInv'
    BY <2>1, <2>2, Upserted
  <2> QED
    BY <2>1, <2>4, <2>5, WorkSame
<1>18. ASSUME NEW p \in CronProcs, WorkerTakes(p) PROVE CronInv'
  BY <1>1, <1>2, <1>18, Taken DEF WorkerTakes
<1>19. ASSUME NEW p \in CronProcs, WorkerEnds(p) PROVE CronInv'
  BY <1>1, <1>2, <1>19, WorkerDone DEF WorkerEnds
<1>20. ASSUME NEW p \in CronProcs, CronCrashes(p) PROVE CronInv'
  <2>1. /\ cronCrashes < MaxCronCrashes /\ cronCrashes' = cronCrashes + 1
        /\ scheduled' = [scheduled EXCEPT ![p] = {}]
        /\ lastFired' = [lastFired EXCEPT ![p] = [j \in CronJobs |-> Never]]
        /\ scheduler' = [scheduler EXCEPT ![p] = NoThread]
        /\ edit' = [e \in CronEdits |->
               IF edit[e].proc = p THEN Served(e) ELSE edit[e]]
        /\ UNCHANGED <<minute, kind, cronRows, wins, life>>
    BY <1>20 DEF CronCrashes
  <2>2. PassesInv'
    BY <1>3, <2>1, Passes, PassSet
  <2>3. EditsInv'
    <3>1. \A e \in CronEdits : Served(e) \in Request /\ Served(e).pc = "done"
      BY <1>3, EditServed
    <3> QED
      BY <1>3, <2>1, <3>1 DEF EditsInv
  <2>4. cronCrashes' \in 0..MaxCronCrashes
    <3>1. cronCrashes \in 0..MaxCronCrashes
      BY DEF ProcessInv
    <3>2. MaxCronCrashes \in Nat
      BY CronAssumption
    <3>3. cronCrashes < MaxCronCrashes /\ cronCrashes' = cronCrashes + 1
      BY <2>1
    <3> QED
      BY <3>1, <3>2, <3>3
  <2>5. lastFired' \in [CronProcs -> [CronJobs -> 0..MaxMinute]]
    <3>1. [j \in CronJobs |-> Never] \in [CronJobs -> 0..MaxMinute]
      BY CronAssumption DEF Never
    <3> QED
      BY <2>1, <3>1 DEF ProcessInv
  <2>6. ProcessInv'
    BY <2>1, <2>2, <2>3, <2>4, <2>5 DEF ProcessInv, PassesInv, EditsInv
  <2>7. WorkInv'
    BY <1>20, WorkLost DEF CronCrashes
  <2> QED
    BY <1>2, <2>1, <2>6, <2>7
<1>21. ASSUME NEW p \in CronProcs, FetchesRows(p) PROVE CronInv'
  <2>1. /\ \E due \in {{}, {j \in CronJobs : cronRows[j].present}} :
               scheduler' = [scheduler EXCEPT ![p] =
                   [IdlePass EXCEPT !.pc = "loading", !.due = due]]
        /\ UNCHANGED <<minute, kind, cronRows, scheduled, lastFired, work, edit,
                       cronCrashes, wins, life>>
    BY <1>21 DEF FetchesRows
  <2>2. PICK due \in SUBSET CronJobs :
            scheduler' = [scheduler EXCEPT ![p] =
                [IdlePass EXCEPT !.pc = "loading", !.due = due]]
    BY <2>1
  <2>3. [IdlePass EXCEPT !.pc = "loading", !.due = due].pc = "loading"
    BY DEF IdlePass
  <2>4. PassesInv'
    BY <1>3, <2>2, <2>3, Passes, PassSet
  <2>5. ProcessInv'
    BY <2>1, <2>4 DEF ProcessInv, PassesInv
  <2> QED
    BY <1>2, <2>1, <2>5, WorkSame
<1>24. ASSUME NEW p \in CronProcs, EntersRows(p) PROVE CronInv'
  <2>1. /\ scheduled' = [scheduled EXCEPT ![p] = @ \cup scheduler[p].due]
        /\ scheduler' = [scheduler EXCEPT ![p] = IdlePass]
        /\ UNCHANGED <<minute, kind, cronRows, lastFired, work, edit, cronCrashes,
                       wins, life>>
    BY <1>24 DEF EntersRows
  <2>2. PassesInv'
    BY <1>3, <2>1, Passes, PassSet
  <2>3. scheduler[p].due \in SUBSET CronJobs
    BY DEF ProcessInv, Pass
  <2>4. scheduled' \in [CronProcs -> SUBSET CronJobs]
    BY <2>1, <2>3 DEF ProcessInv
  <2>5. ProcessInv'
    BY <2>1, <2>2, <2>4 DEF ProcessInv, PassesInv
  <2> QED
    BY <1>2, <2>1, <2>5, WorkSame
<1>25. ASSUME NEW e \in CronEdits, RowFails(e) PROVE CronInv'
  <2>1. /\ edit' = [edit EXCEPT ![e] = Served(e)]
        /\ UNCHANGED <<minute, kind, cronRows, scheduled, lastFired, scheduler,
                       work, cronCrashes, wins, life>>
    BY <1>25 DEF RowFails
  <2>2. ProcessInv'
    BY <1>3, <2>1, EditServed DEF ProcessInv, EditsInv
  <2> QED
    BY <1>2, <2>1, <2>2, WorkSame
<1>26. ASSUME NEW p \in CronProcs, NEW j \in CronJobs, LosesOneShot(p, j)
       PROVE  CronInv'
  <2>1. /\ scheduler' = [scheduler EXCEPT ![p] = [IdlePass EXCEPT !.pc = "dead"]]
        /\ scheduled' = [scheduled EXCEPT ![p] = @ \ {j}]
        /\ lastFired' = [lastFired EXCEPT ![p][j] = Never]
        /\ UNCHANGED <<minute, kind, cronRows, work, edit, cronCrashes, wins,
                       life>>
    BY <1>26 DEF LosesOneShot
  <2>2. [IdlePass EXCEPT !.pc = "dead"].pc # "claiming"
    BY DEF IdlePass
  <2>3. PassesInv'
    BY <1>3, <2>1, <2>2, Passes, PassSet
  <2>4. lastFired' \in [CronProcs -> [CronJobs -> 0..MaxMinute]]
    BY <2>1, CronAssumption DEF ProcessInv, Never
  <2>5. scheduled' \in [CronProcs -> SUBSET CronJobs]
    BY <2>1 DEF ProcessInv
  <2>6. ProcessInv'
    BY <2>1, <2>3, <2>4, <2>5 DEF ProcessInv, PassesInv
  <2> QED
    BY <1>2, <2>1, <2>6, WorkSame
<1>22. CASE MinutePasses
  <2>1. minute' = minute + 1 /\ minute < MaxMinute
        /\ UNCHANGED <<kind, cronRows, scheduled, lastFired, scheduler, work, edit,
                       cronCrashes, wins, life>>
    BY <1>22 DEF MinutePasses
  <2>2. minute' \in Minutes
    BY <2>1, CronAssumption DEF TableInv, Minutes
  <2>3. TableInv'
    BY <2>1, <2>2, TableSame DEF TableInv
  <2> QED
    BY <1>1, <2>1, <2>3, WorkSame
<1>23. CASE UNCHANGED cronVars
  BY <1>1, <1>2, <1>23, WorkSame DEF cronVars, work
<1> QED
  BY <1>4, <1>5, <1>6, <1>7, <1>8, <1>9, <1>10, <1>11, <1>12, <1>13, <1>14,
     <1>15, <1>16, <1>17, <1>18, <1>19, <1>20, <1>21, <1>22, <1>23, <1>24,
     <1>25, <1>26
     DEF CronNext, Flags

LEMMA CronStart == CronInit => CronInv
<1> SUFFICES ASSUME CronInit PROVE CronInv
    OBVIOUS
<1>1. 0 \in 0..MaxMinute /\ 0 \in 0..MaxCronCrashes /\ 1 \in Minutes
  BY CronAssumption DEF Minutes
<1>2. JobHistory
  BY DEF CronInit, JobHistory, Gone
<1>3. TableInv
  BY <1>1, <1>2 DEF CronInit, TableInv, Flags, RowState, Life, Gone, Never
<1>4. NewEdit \in Request /\ NewEdit.pc = "new"
  BY DEF NewEdit, Request, EditPc
<1>5. ProcessInv
  BY <1>1, <1>4, Passes DEF CronInit, ProcessInv, Never
<1>6. \A p \in CronProcs : \A j : ~Queued(p, j)
  BY DEF CronInit, Queued
<1>7. WorkInv
  BY <1>6, CronAssumption DEF CronInit, WorkInv
<1> QED
  BY <1>3, <1>5, <1>7 DEF CronInv

LEMMA CronAlways == CronSpec => []CronInv
    BY CronStart, CronStep, PTL DEF CronSpec

-----------------------------------------------------------------------------

\* Across processes, crashes and restarts a job is claimed at most once for a
\* minute, unless a save inserted its row again after it was deleted:
\* claim_due_cron_jobs compares and writes last_fired_at in one transaction,
\* and upsert_cron_jobs keeps the last_fired_at of a row that is there.
THEOREM MinutesAreWonOnce == CronSpec => []MinuteWonOnce
<1>1. CronInv => MinuteWonOnce
  <2> SUFFICES ASSUME CronInv, NEW j \in CronJobs, NEW m \in Minutes,
                      wins[j][m] > 1
               PROVE  life[j] = "reborn"
    BY DEF MinuteWonOnce
  <2>1. wins[j][m] \in Nat
    BY DEF CronInv, TableInv
  <2> QED
    BY <2>1 DEF CronInv, TableInv, JobHistory
<1> QED
  BY <1>1, CronAlways, PTL

\* In a process a job is queued or executed once at a time, and it is reserved
\* exactly that long: _reserve_job refuses a reserved job, and the worker
\* releases the reservation whatever becomes of the execution.
THEOREM ExecutionsAreSingle == CronSpec => []OneExecutionPerJob
<1>1. CronInv => OneExecutionPerJob
  <2> SUFFICES ASSUME CronInv, NEW p \in CronProcs, NEW j \in CronJobs
               PROVE  LET queued == {i \in DOMAIN cronQueue[p] : cronQueue[p][i] = j}
                      IN  /\ Cardinality(queued) <=
                                 (IF cronWorker[p] = j THEN 0 ELSE 1)
                          /\ j \in reserved[p] <=>
                                 queued # {} \/ cronWorker[p] = j
    BY DEF OneExecutionPerJob
  <2> DEFINE queued == {i \in DOMAIN cronQueue[p] : cronQueue[p][i] = j}
  <2>1. Queued(p, j) <=> queued # {}
    BY DEF Queued
  <2>2. cronWorker[p] = j => ~Queued(p, j)
    BY DEF CronInv, WorkInv
  <2>3. queued = {} \/ \E i : queued = {i}
    <3>1. \A i, k \in queued : i = k
      BY DEF CronInv, WorkInv
    <3> QED
      BY <3>1
  <2>4. Cardinality(queued) <= 1 /\ (queued = {} => Cardinality(queued) = 0)
    <3> HIDE DEF queued
    <3>1. CASE queued = {}
      BY <3>1, FS_EmptySet
    <3>2. CASE \E i : queued = {i}
      <4>1. PICK i : queued = {i}
        BY <3>2
      <4>2. Cardinality({i}) = 1
        BY FS_Singleton
      <4> QED
        BY <4>1, <4>2
    <3> QED
      BY <2>3, <3>1, <3>2
  <2>5. j \in reserved[p] <=> queued # {} \/ cronWorker[p] = j
    <3>1. j \in reserved[p] <=> Queued(p, j) \/ cronWorker[p] = j
      BY DEF CronInv, WorkInv
    <3> HIDE DEF queued
    <3> QED
      BY <2>1, <3>1
  <2> QED
    BY <2>1, <2>2, <2>4, <2>5
<1> QED
  BY <1>1, CronAlways, PTL

-----------------------------------------------------------------------------
(* Cron fields: the days an expression fires on.                           *)

Accepts(field, least, most) ==
    field \in Fields(MaxItems) /\ Valid(field, least, most)

LEMMA FieldItems ==
    ASSUME NEW most \in Nat, NEW field \in Fields(most)
    PROVE  /\ Len(field) \in Nat /\ DOMAIN field = 1..Len(field)
           /\ \A i \in DOMAIN field : field[i] \in Item
<1>1. PICK n \in 0..most : field \in [1..n -> Item]
    BY DEF Fields
<1>2. field \in Seq(Item) /\ Len(field) = n
    BY <1>1
<1> QED
    BY <1>1, <1>2

\* A remainder of zero is a whole number of steps.
LEMMA WholeSteps ==
    ASSUME NEW d \in Nat, NEW s \in Nat \ {0}
    PROVE  d % s = 0 <=> \E n \in 0..d : d = n * s
<1>1. ASSUME d % s = 0 PROVE \E n \in 0..d : d = n * s
    <2>1. d = s * (d \div s) + (d % s) /\ d \div s \in Int
        BY SMTT(20)
    <2>2. d \div s >= 0 /\ d \div s <= d
        BY SMTT(20)
    <2> QED
        BY <1>1, <2>1, <2>2
<1>2. ASSUME NEW n \in 0..d, d = n * s PROVE d % s = 0
    <2>1. d = s * (d \div s) + (d % s) /\ d \div s \in Int /\ d % s \in 0..(s - 1)
        BY SMTT(20)
    <2> QED
        BY <1>2, <2>1, SMTT(20)
<1> QED
    BY <1>1, <1>2

\* The code's arithmetic finds the values an item means: those a number of
\* steps from its start - for "*/s", in a field that starts at 0.
LEMMA ItemMeans ==
    ASSUME NEW least \in Nat, NEW most \in Nat, NEW item \in Item,
           ValidItem(item, least, most), item.kind = "every" => least = 0,
           NEW v \in least..most
    PROVE  ItemMatches(item, v) <=> v \in ItemValues(item, least, most)
<1>0. MaxDay \in Nat /\ Number \subseteq Nat
    BY FieldsAssumption DEF Number
<1>1. v \in Nat /\ least <= v /\ v <= most
    OBVIOUS
<1>2. item.step \in Nat \ {0}
    <2>1. item.step \in Nat
        BY <1>0 DEF Item
    <2> QED
        BY <2>1 DEF ValidItem
\* A number of steps from a start that is no later.
<1>3. ASSUME NEW from \in Nat, from <= v
      PROVE  (v - from) % item.step = 0
                 <=> \E n \in 0..most : v = from + n * item.step
    <2>1. PICK s \in Nat \ {0} : s = item.step
        BY <1>2
    <2>2. PICK d \in Nat : d = v - from
        BY <1>1, <1>3
    <2>3. d % s = 0 <=> \E n \in 0..d : d = n * s
        BY WholeSteps
    <2>4. d <= most
        BY <1>1, <1>3, <2>2
    <2>5. ASSUME NEW n \in 0..d, d = n * s
          PROVE  \E m \in 0..most : v = from + m * s
        <3>1. n \in 0..most
            BY <2>4
        <3>2. v = from + n * s
            BY <1>1, <1>3, <2>2, <2>5
        <3> QED
            BY <3>1, <3>2
    <2>6. ASSUME NEW n \in 0..most, v = from + n * s
          PROVE  n \in 0..d /\ d = n * s
        <3>1. n * s \in Nat /\ n <= n * s
            BY SMTT(20)
        <3>2. d = n * s
            BY <1>1, <1>3, <2>2, <2>6, <3>1
        <3> QED
            BY <3>1, <3>2
    <2>7. (v - from) % item.step = d % s
        BY <2>1, <2>2
    <2> QED
        BY <2>1, <2>3, <2>5, <2>6, <2>7
<1>4. CASE item.kind = "every"
    <2>1. least = 0 /\ (v - 0) % item.step = v % item.step
        BY <1>1, <1>4
    <2>2. v \in ItemValues(item, least, most)
              <=> \E n \in 0..most : v = 0 + n * item.step
        BY <1>4, <2>1 DEF ItemValues
    <2>3. v % item.step = 0 <=> \E n \in 0..most : v = 0 + n * item.step
        BY <1>1, <1>3, <2>1
    <2> QED
        BY <1>4, <2>2, <2>3 DEF ItemMatches
<1>5. CASE item.kind \in {"range", "from"}
    <2>1. item.lo \in Nat /\ item.hi \in Nat /\ least <= item.lo
        <3>1. CASE item.kind = "range"
            <4>1. item.lo \in Nat /\ item.hi \in Nat
                BY <1>0, <3>1 DEF Item
            <4> QED
                BY <3>1, <4>1 DEF ValidItem
        <3>2. CASE item.kind = "from"
            <4>1. item.lo \in Nat /\ item.hi = 0
                BY <1>0, <3>2 DEF Item
            <4>2. item.lo \in least..most
                BY <3>2 DEF ValidItem
            <4> QED
                BY <4>1, <4>2
        <3> QED
            BY <1>5, <3>1, <3>2
    <2> DEFINE to == IF item.kind = "range" THEN item.hi ELSE most
    <2>2. to \in Nat /\ (v \in least..to <=> v <= to)
        BY <1>1, <2>1
    <2>3. ItemMatches(item, v) <=>
              v <= to /\ v >= item.lo /\ (v - item.lo) % item.step = 0
        <3>1. CASE item.kind = "range"
            <4>1. v \in item.lo..item.hi <=> v <= item.hi /\ v >= item.lo
                BY <1>1, <2>1
            <4> QED
                BY <3>1, <4>1 DEF ItemMatches
        <3>2. CASE item.kind = "from"
            BY <1>1, <3>2 DEF ItemMatches
        <3> QED
            BY <1>5, <3>1, <3>2
    <2>4. v \in ItemValues(item, least, most) <=>
              v <= to /\ \E n \in 0..most : v = item.lo + n * item.step
        BY <1>5, <2>2 DEF ItemValues
    <2>5. ASSUME NEW n \in 0..most, v = item.lo + n * item.step
          PROVE  v >= item.lo
        <3>1. PICK k \in Nat : k = n * item.step
            BY <1>2
        <3> QED
            BY <2>1, <2>5, <3>1
    <2>6. v >= item.lo =>
              ((v - item.lo) % item.step = 0
                   <=> \E n \in 0..most : v = item.lo + n * item.step)
        BY <1>1, <1>3, <2>1
    <2> HIDE DEF to
    <2> QED
        BY <2>3, <2>4, <2>5, <2>6
<1>6. CASE item.kind = "value"
    <2>1. item.lo \in least..most /\ item.step = 1
        BY <1>6 DEF Item, ValidItem
    <2>2. ItemMatches(item, v) <=> v = item.lo
        BY <1>6 DEF ItemMatches
    <2>3. v \in ItemValues(item, least, most) <=>
              v \in least..item.lo /\ \E n \in 0..most : v = item.lo + n * 1
        BY <1>6, <2>1 DEF ItemValues
    <2>4. v = item.lo =>
              v \in least..item.lo /\ 0 \in 0..most /\ v = item.lo + 0 * 1
        BY <1>1, <2>1
    <2>5. ASSUME v \in least..item.lo, NEW n \in 0..most, v = item.lo + n * 1
          PROVE  v = item.lo
        BY <1>1, <2>1, <2>5
    <2> QED
        BY <2>2, <2>3, <2>4, <2>5
<1> QED
    BY <1>4, <1>5, <1>6 DEF Item

LEMMA FieldMeans ==
    ASSUME NEW least \in Nat, NEW most \in Nat, NEW field,
           Accepts(field, least, most), Plain(field),
           Stepped(field) => least = 0, NEW v \in least..most
    PROVE  FieldMatches(field, v) <=> v \in FieldValues(field, least, most)
<1>1. /\ Len(field) \in Nat /\ DOMAIN field = 1..Len(field)
      /\ \A i \in DOMAIN field : field[i] \in Item
    BY FieldItems, FieldsAssumption DEF Accepts
<1>2. CASE field = Star
    BY <1>2 DEF FieldMatches, FieldValues
<1>3. CASE field # Star
    <2>1. \A i \in DOMAIN field : /\ ValidItem(field[i], least, most)
                                  /\ field[i].kind = "every" => least = 0
        BY <1>3 DEF Accepts, Valid, Stepped, Starred
    <2>2. \A i \in DOMAIN field :
            ItemMatches(field[i], v) <=> v \in ItemValues(field[i], least, most)
        BY <1>1, <2>1, ItemMeans
    <2>3. \A i \in DOMAIN field : \A k \in 1..(i - 1) : field[k].kind # "every"
        BY <1>1 DEF Plain
    <2> QED
        BY <1>3, <2>2, <2>3 DEF FieldMatches, FieldValues
<1> QED
    BY <1>2, <1>3

InputInv ==
    /\ cronInput.dom \in Fields(MaxItems)
    /\ cronInput.dow \in Fields(MaxItems)
    /\ cronInput.accepted => /\ Valid(cronInput.dom, 1, MaxDay)
                             /\ Valid(cronInput.dow, 0, MaxWeekday + 1)

LEMMA InputMeans == InputInv => FiresOnTheDaysMeant
<1> SUFFICES ASSUME InputInv PROVE FiresOnTheDaysMeant
    OBVIOUS
<1>1. PICK dom, dow : dom = cronInput.dom /\ dow = cronInput.dow
    OBVIOUS
<1>2. SUFFICES ASSUME cronInput.accepted, Plain(dow), ~Stepped(dom),
                      Stepped(dow) => dom = Star,
                      NEW day \in 1..MaxDay, NEW weekday \in 0..MaxWeekday
               PROVE  DayMatches(dom, dow, day, weekday)
                          = MeantDay(dom, dow, day, weekday)
    BY <1>1 DEF FiresOnTheDaysMeant, AsMeant
<1>3. Accepts(dom, 1, MaxDay) /\ Accepts(dow, 0, MaxWeekday + 1)
    BY <1>1, <1>2 DEF InputInv, Accepts
<1>4. Plain(dom)
    <2>1. /\ Len(dom) \in Nat /\ DOMAIN dom = 1..Len(dom)
        BY <1>3, FieldItems, FieldsAssumption DEF Accepts
    <2>2. dom = Star => Len(dom) = 0
        BY DEF Star
    <2> QED
        BY <1>2, <2>1, <2>2 DEF Plain, Stepped, Starred
<1>5. /\ weekday \in 0..(MaxWeekday + 1) /\ MaxWeekday + 1 \in 0..(MaxWeekday + 1)
      /\ {1, 0, MaxDay, MaxWeekday + 1} \subseteq Nat
    BY FieldsAssumption
<1>6. FieldMatches(dom, day) <=> day \in FieldValues(dom, 1, MaxDay)
    BY <1>2, <1>3, <1>4, <1>5, FieldMeans
<1>7. \A v \in 0..(MaxWeekday + 1) :
        FieldMatches(dow, v) <=> v \in FieldValues(dow, 0, MaxWeekday + 1)
    BY <1>2, <1>3, <1>5, FieldMeans
<1>8. WeekdayMatches(dow, weekday) <=>
        (IF weekday = 0 THEN {0, MaxWeekday + 1} ELSE {weekday})
            \cap FieldValues(dow, 0, MaxWeekday + 1) # {}
    BY <1>5, <1>7 DEF WeekdayMatches
<1>9. Starred(dom) \/ Starred(dow) <=> dom = Star \/ dow = Star
    BY <1>2 DEF Stepped, Starred
<1>10. /\ FieldMatches(dom, day) \in BOOLEAN /\ WeekdayMatches(dow, weekday) \in BOOLEAN
    BY DEF FieldMatches, WeekdayMatches
<1> QED
    BY <1>6, <1>8, <1>9, <1>10 DEF DayMatches, MeantDay

\* An accepted expression fires on the days crontab(5) gives it, for months
\* and weeks of any length and any number of items, as long as "*/s" is no day
\* of the month, and a weekday only when every day of the month will do.
THEOREM DaysAreMeant == FieldsSpec => []FiresOnTheDaysMeant
<1>1. FieldsInit => InputInv
    <2>1. Star \in Fields(MaxItems)
        <3>1. 0 \in 0..MaxItems /\ Star \in [1..0 -> Item]
            BY FieldsAssumption DEF Star
        <3> QED
            BY <3>1 DEF Fields
    <2> QED
        BY <2>1 DEF FieldsInit, NoInput, InputInv
<1>2. InputInv /\ [FieldsNext]_fieldVars => InputInv'
    <2>1. Fields(1) \subseteq Fields(MaxItems)
        <3>1. 0..1 \subseteq 0..MaxItems
            BY FieldsAssumption
        <3> QED
            BY <3>1 DEF Fields
    <2> QED
        BY <2>1 DEF FieldsNext, SubmitsCron, InputInv, fieldVars
<1> QED
    BY <1>1, <1>2, InputMeans, PTL DEF FieldsSpec

-----------------------------------------------------------------------------
(* Tasks.                                                                  *)

Underway(o) == taskOp[o].pc \in {"loaded", "checked"}

\* The operation that has loaded a task is the one that holds the lock.
Locked == \A o \in TaskOps : Underway(o) <=> taskLock = o

\* What an operation has loaded and checked is what the tables hold.
Current ==
    \A o \in TaskOps : Underway(o) =>
        /\ taskOp[o].task \in TaskIds
        /\ taskOp[o].record = taskRows[taskOp[o].task]
        /\ taskOp[o].record.status # "absent"
        /\ taskOp[o].kind \in {"claim", "complete", "delete"}
        /\ taskOp[o].kind # "delete" =>
               taskOp[o].record.status = Takes(taskOp[o].kind)
        /\ taskOp[o].pc = "checked" =>
               taskOp[o].kind = "claim" /\ CanStart(taskOp[o].task)

\* A task that was neither claimed nor deleted has no claim.
ClaimsCounted ==
    \A t \in TaskIds :
        /\ claims[t] <= 1
        /\ taskRows[t].status = "pending" => claims[t] = 0
        /\ taskRows[t].status = "absent" /\ t \notin deleted => claims[t] = 0

\* What a task that was claimed depends on is completed or deleted.
DepsCompleted ==
    \A t \in TaskIds : taskRows[t].status \in {"in_progress", "completed"} =>
        \A d \in taskRows[t].deps \ deleted : taskRows[d].status = "completed"

DeletedAbsent == \A t \in deleted : taskRows[t].status = "absent"

TaskInv == /\ TaskTypeOK /\ Locked /\ Current
           /\ ClaimsCounted /\ DepsCompleted /\ DeletedAbsent

-----------------------------------------------------------------------------
(* What the steps do to the operation that takes them.                     *)

LEMMA Finished ==
    ASSUME TaskTypeOK, NEW o \in TaskOps, Finish(o)
    PROVE  /\ taskOp' \in [TaskOps -> TaskOp]
           /\ taskOp'[o].pc = "done"
           /\ \A p \in TaskOps \ {o} : taskOp'[p] = taskOp[p]
           /\ taskLock' = None
    BY DEF TaskTypeOK, Finish, NewOp, TaskOp, OpPc, NoTaskRow, TaskRow, TaskStatus

LEMMA Moved ==
    ASSUME TaskTypeOK, NEW o \in TaskOps, NEW pc \in OpPc,
           taskOp' = [taskOp EXCEPT ![o].pc = pc]
    PROVE  /\ taskOp' \in [TaskOps -> TaskOp]
           /\ taskOp'[o] = [taskOp[o] EXCEPT !.pc = pc]
           /\ \A p \in TaskOps \ {o} : taskOp'[p] = taskOp[p]
    BY DEF TaskTypeOK, TaskOp

\* An operation that has loaded a task is alone in that: whatever the step of
\* another one, or its own saving, leaves Locked and Current as they are.
LEMMA SaverAlone ==
    ASSUME TaskTypeOK, Locked, NEW o \in TaskOps, Underway(o), Finish(o)
    PROVE  Locked' /\ Current'
  <1>1. \A p \in TaskOps : ~Underway(p)'
    BY Finished DEF Locked, Underway
  <1> QED
    BY <1>1, Finished, TaskAssumption DEF Locked, Current, Underway

\* No operation has loaded anything while the lock is free.
LEMMA NobodyLoaded ==
    ASSUME Locked, Idle
    PROVE  \A o \in TaskOps : ~Underway(o)
    BY TaskAssumption DEF Locked, Idle

-----------------------------------------------------------------------------

LEMMA TaskStep == TaskInv /\ [TaskNext]_taskVars => TaskInv'
<1> SUFFICES ASSUME TaskInv, [TaskNext]_taskVars PROVE TaskInv'
    OBVIOUS
<1> USE DEF TaskInv
<1>1. ASSUME NEW o \in TaskOps, NEW t \in TaskIds, NEW deps \in SUBSET TaskIds,
             CreateTask(o, t, deps)
      PROVE  TaskInv'
  <2>1. taskOp' = [taskOp EXCEPT ![o].pc = "done"] /\ "done" \in OpPc
    BY <1>1 DEF CreateTask, OpPc
  <2>2. /\ taskRows' \in [TaskIds -> TaskRow]
        /\ taskRows'[t] = [status |-> "pending", deps |-> deps]
        /\ \A u \in TaskIds \ {t} : taskRows'[u] = taskRows[u]
    BY <1>1 DEF CreateTask, TaskTypeOK, TaskRow, TaskStatus
  <2>3. TaskTypeOK'
    BY <1>1, <2>1, <2>2, Moved DEF CreateTask, TaskTypeOK
  <2>4. \A p \in TaskOps : ~Underway(p)'
    BY <1>1, <2>1, Moved, NobodyLoaded DEF CreateTask, Underway
  <2>5. Locked' /\ Current'
    BY <1>1, <2>4, TaskAssumption DEF CreateTask, Locked, Current, Underway, Idle
  <2>6. ClaimsCounted'
    BY <1>1, <2>2 DEF CreateTask, ClaimsCounted
  <2>7. DepsCompleted'
    BY <1>1, <2>2 DEF CreateTask, DepsCompleted, TaskTypeOK, TaskRow
  <2>8. DeletedAbsent'
    BY <1>1, <2>2 DEF CreateTask, DeletedAbsent, TaskTypeOK
  <2> QED
    BY <2>3, <2>5, <2>6, <2>7, <2>8
<1>2. ASSUME NEW o \in TaskOps, NEW t \in TaskIds,
             NEW does \in {"claim", "complete", "delete"}, LoadTask(o, does, t)
      PROVE  TaskInv'
  <2>1. CASE does = "delete" \/ taskRows[t].status = Takes(does)
    <3>1. taskOp' = [taskOp EXCEPT ![o] =
                        [pc |-> "loaded", kind |-> does, task |-> t,
                         record |-> taskRows[t]]]
      BY <1>2, <2>1 DEF LoadTask
    <3>2. taskLock' = o /\ UNCHANGED <<taskRows, claims, deleted>>
      BY <1>2, <2>1 DEF LoadTask
    <3>3. TaskTypeOK'
      BY <3>1, <3>2 DEF TaskTypeOK, TaskOp, OpPc
    <3>4. /\ Underway(o)'
          /\ \A p \in TaskOps \ {o} : ~Underway(p)'
      BY <1>2, <3>1, NobodyLoaded DEF LoadTask, Underway, TaskTypeOK
    <3>5. Locked'
      BY <3>2, <3>4 DEF Locked
    <3>6. Current'
      BY <1>2, <2>1, <3>1, <3>2, <3>4 DEF Current, LoadTask, TaskTypeOK, Underway
    <3>7. (ClaimsCounted /\ DepsCompleted /\ DeletedAbsent)'
      BY <3>2 DEF ClaimsCounted, DepsCompleted, DeletedAbsent
    <3> QED
      BY <3>3, <3>5, <3>6, <3>7
  <2>2. CASE ~(does = "delete" \/ taskRows[t].status = Takes(does))
    <3>1. taskOp' = [taskOp EXCEPT ![o].pc = "done"] /\ "done" \in OpPc
      BY <1>2, <2>2 DEF LoadTask, OpPc
    <3>2. UNCHANGED <<taskLock, taskRows, claims, deleted>>
      BY <1>2, <2>2 DEF LoadTask
    <3>3. TaskTypeOK'
      BY <3>1, <3>2, Moved DEF TaskTypeOK
    <3>4. \A p \in TaskOps : ~Underway(p)'
      BY <1>2, <3>1, Moved, NobodyLoaded DEF LoadTask, Underway
    <3>5. Locked' /\ Current'
      BY <1>2, <3>2, <3>4, TaskAssumption DEF LoadTask, Locked, Current, Idle
    <3>6. (ClaimsCounted /\ DepsCompleted /\ DeletedAbsent)'
      BY <3>2 DEF ClaimsCounted, DepsCompleted, DeletedAbsent
    <3> QED
      BY <3>3, <3>5, <3>6
  <2> QED
    BY <2>1, <2>2
<1>3. ASSUME NEW o \in TaskOps, ChecksClaim(o) PROVE TaskInv'
  <2>1. Underway(o) /\ taskOp[o].kind = "claim" /\ taskOp[o].pc = "loaded"
    BY <1>3 DEF ChecksClaim, Underway
  <2>2. UNCHANGED <<taskRows, claims, deleted>>
    BY <1>3 DEF ChecksClaim
  <2>3. CASE CanStart(taskOp[o].task)
    <3>1. taskOp' = [taskOp EXCEPT ![o].pc = "checked"] /\ "checked" \in OpPc
      BY <1>3, <2>3 DEF ChecksClaim, OpPc
    <3>2. taskLock' = taskLock
      BY <1>3, <2>3 DEF ChecksClaim
    <3>3. TaskTypeOK'
      BY <2>2, <3>1, <3>2, Moved DEF TaskTypeOK
    <3>4. \A p \in TaskOps : Underway(p)' <=> Underway(p)
      BY <2>1, <3>1, Moved DEF Underway, TaskTypeOK, TaskOp
    <3>5. Locked'
      BY <3>2, <3>4 DEF Locked
    <3>6. Current'
      BY <2>1, <2>2, <2>3, <3>1, <3>4, Moved
         DEF Current, CanStart, TaskTypeOK, TaskOp
    <3>7. (ClaimsCounted /\ DepsCompleted /\ DeletedAbsent)'
      BY <2>2 DEF ClaimsCounted, DepsCompleted, DeletedAbsent
    <3> QED
      BY <3>3, <3>5, <3>6, <3>7
  <2>4. CASE Finish(o)
    <3>1. TaskTypeOK'
      BY <2>2, <2>4, Finished DEF TaskTypeOK
    <3>2. Locked' /\ Current'
      BY <2>1, <2>4, SaverAlone
    <3>3. (ClaimsCounted /\ DepsCompleted /\ DeletedAbsent)'
      BY <2>2 DEF ClaimsCounted, DepsCompleted, DeletedAbsent
    <3> QED
      BY <3>1, <3>2, <3>3
  <2> QED
    BY <1>3, <2>3, <2>4 DEF ChecksClaim
<1>4. ASSUME NEW o \in TaskOps, SavesClaim(o) PROVE TaskInv'
  <2> DEFINE t == taskOp[o].task
  <2>1. /\ Underway(o) /\ t \in TaskIds
        /\ taskRows[t].status = "pending"
        /\ taskOp[o].record = taskRows[t]
        /\ CanStart(t)
    BY <1>4 DEF SavesClaim, Underway, Current, Takes
  <2>2. /\ taskRows' \in [TaskIds -> TaskRow]
        /\ taskRows'[t] = [status |-> "in_progress", deps |-> taskRows[t].deps]
        /\ \A u \in TaskIds \ {t} : taskRows'[u] = taskRows[u]
    BY <1>4, <2>1 DEF SavesClaim, SaveTask, TaskTypeOK, TaskRow, TaskStatus
  <2>3. /\ claims' \in [TaskIds -> Nat]
        /\ claims'[t] = claims[t] + 1
        /\ \A u \in TaskIds \ {t} : claims'[u] = claims[u]
    BY <1>4, <2>1 DEF SavesClaim, TaskTypeOK
  <2>4. Finish(o) /\ deleted' = deleted
    BY <1>4 DEF SavesClaim
  <2>5. TaskTypeOK'
    BY <2>2, <2>3, <2>4, Finished DEF TaskTypeOK
  <2>6. Locked' /\ Current'
    BY <2>1, <2>4, SaverAlone
  <2>7. ClaimsCounted'
    BY <2>1, <2>2, <2>3, <2>4 DEF ClaimsCounted, TaskTypeOK
  <2>8. DepsCompleted'
    BY <2>1, <2>2, <2>4 DEF DepsCompleted, CanStart, TaskTypeOK, TaskRow
  <2>9. DeletedAbsent'
    BY <2>1, <2>2, <2>4 DEF DeletedAbsent, TaskTypeOK
  <2> QED
    BY <2>5, <2>6, <2>7, <2>8, <2>9
<1>5. ASSUME NEW o \in TaskOps, SavesCompletion(o) PROVE TaskInv'
  <2> DEFINE t == taskOp[o].task
  <2>1. /\ Underway(o) /\ t \in TaskIds
        /\ taskRows[t].status = "in_progress"
        /\ taskOp[o].record = taskRows[t]
    BY <1>5 DEF SavesCompletion, Underway, Current, Takes
  <2>2. /\ taskRows' \in [TaskIds -> TaskRow]
        /\ taskRows'[t] = [status |-> "completed", deps |-> taskRows[t].deps]
        /\ \A u \in TaskIds \ {t} : taskRows'[u] = taskRows[u]
    BY <1>5, <2>1 DEF SavesCompletion, SaveTask, TaskTypeOK, TaskRow, TaskStatus
  <2>3. Finish(o) /\ UNCHANGED <<claims, deleted>>
    BY <1>5 DEF SavesCompletion
  <2>4. TaskTypeOK'
    BY <2>2, <2>3, Finished DEF TaskTypeOK
  <2>5. Locked' /\ Current'
    BY <2>1, <2>3, SaverAlone
  <2>6. ClaimsCounted'
    BY <2>1, <2>2, <2>3 DEF ClaimsCounted
  <2>7. DepsCompleted'
    BY <2>1, <2>2, <2>3 DEF DepsCompleted, TaskTypeOK, TaskRow
  <2>8. DeletedAbsent'
    BY <2>1, <2>2, <2>3 DEF DeletedAbsent, TaskTypeOK
  <2> QED
    BY <2>4, <2>5, <2>6, <2>7, <2>8
<1>6. ASSUME NEW o \in TaskOps, DeletesTask(o) PROVE TaskInv'
  <2> DEFINE t == taskOp[o].task
  <2>1. Underway(o) /\ t \in TaskIds
    BY <1>6 DEF DeletesTask, Underway, Current
  <2>2. /\ taskRows' \in [TaskIds -> TaskRow]
        /\ taskRows'[t] = NoTaskRow
        /\ \A u \in TaskIds \ {t} : taskRows'[u] = taskRows[u]
    BY <1>6, <2>1 DEF DeletesTask, TaskTypeOK, NoTaskRow, TaskRow, TaskStatus
  <2>3. /\ Finish(o) /\ claims' = claims
        /\ deleted' = deleted \cup {t}
    BY <1>6 DEF DeletesTask
  <2>4. TaskTypeOK'
    BY <2>1, <2>2, <2>3, Finished DEF TaskTypeOK
  <2>5. Locked' /\ Current'
    BY <2>1, <2>3, SaverAlone
  <2>6. ClaimsCounted'
    BY <2>2, <2>3 DEF ClaimsCounted, NoTaskRow
  <2>7. DepsCompleted'
    BY <2>2, <2>3 DEF DepsCompleted, NoTaskRow, TaskTypeOK, TaskRow
  <2>8. DeletedAbsent'
    BY <2>2, <2>3 DEF DeletedAbsent, TaskTypeOK, NoTaskRow
  <2> QED
    BY <2>4, <2>5, <2>6, <2>7, <2>8
<1>7. CASE UNCHANGED taskVars
  BY <1>7 DEF taskVars, TaskTypeOK, Locked, Current, ClaimsCounted,
       DepsCompleted, DeletedAbsent, Underway, CanStart
<1> QED
  BY <1>1, <1>2, <1>3, <1>4, <1>5, <1>6, <1>7 DEF TaskNext, OpGoesOn

LEMMA TaskStart == TaskInit => TaskInv
<1> SUFFICES ASSUME TaskInit PROVE TaskInv
    OBVIOUS
<1>1. TaskTypeOK
  BY DEF TaskInit, TaskTypeOK, TaskRow, TaskStatus, NoTaskRow, TaskOp, OpPc, NewOp
<1>2. Locked /\ Current
  BY TaskAssumption DEF TaskInit, Locked, Current, Underway, NewOp
<1>3. ClaimsCounted /\ DepsCompleted /\ DeletedAbsent
  BY DEF TaskInit, ClaimsCounted, DepsCompleted, DeletedAbsent, NoTaskRow
<1> QED
  BY <1>1, <1>2, <1>3 DEF TaskInv

-----------------------------------------------------------------------------

\* However many operations run, a task is claimed once, what a claimed task
\* depends on is completed or deleted, and a deleted task does not come back:
\* claim_task, complete_task and delete_task keep _tasks_lock from their read
\* to their write.
THEOREM TaskClaimsAreExclusive == TaskSpec => []ClaimsAreExclusive
<1>1. TaskInv => ClaimsAreExclusive
  BY DEF TaskInv, ClaimsCounted, DepsCompleted, DeletedAbsent, ClaimsAreExclusive
<1> QED
  BY <1>1, TaskStart, TaskStep, PTL DEF TaskSpec

-----------------------------------------------------------------------------
(* Background tasks.                                                       *)

Call == [pc : StartPc, id : BgIds \cup {0}, copy : BgStatus]
CallTyped == start \in [Starts -> Call]
Begun == {s \in Starts : start[s].pc # "new"}
AtWork(s) == start[s].pc \notin {"new", "counted", "done"}

\* The counter counts the calls of start_background_task.
Counted == counter = Cardinality(Begun)

\* A task has an id from the moment it is entered on.
HasId == \A s \in Starts :
    /\ start[s].pc \in {"new", "counted"} => start[s].id = 0
    /\ AtWork(s) => /\ start[s].id \in BgIds
                    /\ bgTasks[start[s].id].status # "none"

\* A task of the process and a result that was told, or is about to be, are
\* those of some call.
Given(b) == \E s \in Starts : start[s].id = b
IdsGiven == \A b \in BgIds :
    \/ Given(b)
    \/ /\ bgTasks[b].status = "none"
       /\ \A c \in Collectors : b \notin delivered[c] \cup collector[c].ready

\* The worker of a task with an id of its own writes how the task ended.
Ended == {"completed", "failed"}
OwnStatus == \A s \in Starts : ~Shared(start[s].id) =>
    /\ start[s].pc = "finished" => bgTasks[start[s].id].status \in Ended
    /\ start[s].pc = "persisting" => start[s].copy \in Ended

\* Two runs that tell at the same time are known to.
Overlaps == \A c, d \in Collectors :
    c # d /\ collector[c].pc = "telling" /\ collector[d].pc = "telling" =>
        {c, d} \in overlapped

\* What was told is marked as told, for the others to see: those that list
\* what is ready later.
Marked == \A b \in BgIds : \A c \in Collectors :
    b \in delivered[c] /\ ~Shared(b) /\ bgTasks[b].status # "none" =>
        bgTasks[b].notified

\* What was told and is about to be told again was listed meanwhile.
Relisted == \A c, d \in Collectors : \A b \in BgIds :
    /\ collector[d].pc # "telling" => collector[d].ready = {}
    /\ b \in delivered[c] /\ b \in collector[d].ready =>
           c = d \/ {c, d} \in overlapped \/ Shared(b)

BgInv == /\ BgTypeOK /\ Counted /\ HasId /\ IdsGiven /\ OwnStatus
         /\ RunningRowHasThread
         /\ Overlaps /\ Marked /\ Relisted /\ ToldOnce

-----------------------------------------------------------------------------
(* What the steps do to the ids.                                           *)

IdsSame == \A s \in Starts : start'[s].id = start[s].id

LEMMA SameIds ==
    ASSUME IdsSame
    PROVE  \A b : Shared(b)' = Shared(b) /\ Given(b)' = Given(b)
    BY DEF IdsSame, Shared, Given

\* A step of a call that changes its stage alone.
LEMMA CallGoesTo ==
    ASSUME CallTyped, NEW s \in Starts, NEW pc \in StartPc,
           start' = [start EXCEPT ![s].pc = pc]
    PROVE  CallTyped'
    BY DEF CallTyped, Call

LEMMA CallCopies ==
    ASSUME CallTyped, NEW s \in Starts, NEW pc \in StartPc, NEW copy \in BgStatus,
           start' = [start EXCEPT ![s].pc = pc, ![s].copy = copy]
    PROVE  CallTyped'
    BY DEF CallTyped, Call

\* What a step does that changes one call, and not its id.
LEMMA CallMoves ==
    ASSUME BgTypeOK, Counted, NEW s \in Starts,
           start'[s].pc # "new", start[s].pc # "new",
           start'[s].id = start[s].id,
           \A t \in Starts \ {s} : start'[t] = start[t], counter' = counter
    PROVE  IdsSame /\ Counted'
  <1>1. Begun' = Begun
    BY DEF Begun
  <1> QED
    BY <1>1 DEF IdsSame, Counted

\* Nothing about telling changes in a step that leaves the ids, the tasks of
\* the process and the collecting runs alone.
LEMMA TellingSame ==
    ASSUME IdsSame, UNCHANGED <<bgTasks, collector, told>>,
           IdsGiven, Overlaps, Marked, Relisted, ToldOnce
    PROVE  (IdsGiven /\ Overlaps /\ Marked /\ Relisted /\ ToldOnce)'
  <1>1. (IdsGiven /\ Overlaps)'
    BY SameIds DEF told, IdsGiven, Overlaps
  <1>2. (Marked /\ Relisted)'
    BY SameIds DEF told, Marked, Relisted
  <1>3. ToldOnce'
    BY SameIds DEF told, ToldOnce
  <1> QED
    BY <1>1, <1>2, <1>3

LEMMA Ids ==
    ASSUME BgTypeOK
    PROVE  /\ Cardinality(Starts) \in Nat
           /\ \A b \in BgIds : b # 0
    BY FS_CardinalityType, BackgroundAssumption DEF BgIds

\* A step of a call counts it if it was not counted.
LEMMA CountGrows ==
    ASSUME BgTypeOK, Counted, NEW s \in Starts, start[s].pc = "new",
           start'[s].pc # "new", \A t \in Starts \ {s} : start'[t] = start[t],
           counter' = counter + 1
    PROVE  Counted' /\ counter' \in 1..Cardinality(Starts)
  <1>1. Begun' = Begun \cup {s} /\ s \notin Begun
    BY DEF Begun
  <1>2. Begun \in SUBSET Starts /\ Begun' \in SUBSET Starts
    BY DEF Begun
  <1>3. IsFiniteSet(Begun)
    BY <1>2, FS_Subset, BackgroundAssumption
  <1>4. Cardinality(Begun') = Cardinality(Begun) + 1
    BY <1>1, <1>3, FS_AddElement
  <1>5. Cardinality(Begun') <= Cardinality(Starts)
    BY <1>2, FS_Subset, BackgroundAssumption
  <1>6. counter \in Nat /\ Cardinality(Starts) \in Nat
    BY Ids DEF BgTypeOK
  <1> QED
    BY <1>4, <1>5, <1>6 DEF Counted

\* A call that has been counted has a place below the counter.
LEMMA CounterIsId ==
    ASSUME BgTypeOK, Counted, NEW s \in Starts, start[s].pc # "new"
    PROVE  counter \in BgIds
  <1>1. Begun \in SUBSET Starts /\ Begun # {}
    BY DEF Begun
  <1>2. IsFiniteSet(Begun)
    BY <1>1, FS_Subset, BackgroundAssumption
  <1>3. counter # 0
    BY <1>1, <1>2, FS_EmptySet DEF Counted
  <1> QED
    BY <1>3, Ids DEF BgTypeOK, BgIds

-----------------------------------------------------------------------------

LEMMA BgStep == BgInv /\ [BgNext]_bgVars => BgInv'
<1> SUFFICES ASSUME BgInv, [BgNext]_bgVars PROVE BgInv'
    OBVIOUS
<1> USE DEF BgInv
<1>1. ASSUME NEW s \in Starts, CountsUp(s) PROVE BgInv'
  <2>1. /\ start' = [start EXCEPT ![s].pc = "counted"]
        /\ start[s].pc = "new" /\ counter' = counter + 1
        /\ UNCHANGED <<bgTasks, bgRows, collector, bgProcess, told>>
    BY <1>1 DEF CountsUp, BgAt
  <2>2. /\ start'[s] = [start[s] EXCEPT !.pc = "counted"]
        /\ \A t \in Starts \ {s} : start'[t] = start[t]
        /\ IdsSame
    BY <2>1 DEF BgTypeOK, IdsSame
  <2>3. Counted' /\ counter' \in 0..Cardinality(Starts)
    BY <2>1, <2>2, CountGrows, Ids DEF BgTypeOK
  <2>4. BgTypeOK'
    <3>1. start' \in [Starts -> Call]
      BY <2>1, CallGoesTo DEF BgTypeOK, CallTyped, Call, StartPc
    <3> QED
      BY <2>1, <2>3, <3>1 DEF BgTypeOK, Call, bgProcess, told
  <2>5. HasId'
    BY <2>1, <2>2 DEF HasId, AtWork, BgTypeOK
  <2>6. OwnStatus'
    BY <2>1, <2>2, SameIds DEF OwnStatus, BgTypeOK
  <2>7. RunningRowHasThread'
    BY <2>1, <2>2, SameIds DEF RunningRowHasThread, BgTypeOK, bgProcess
  <2> QED
    BY <2>1, <2>2, <2>3, <2>4, <2>5, <2>6, <2>7, TellingSame
<1>2. ASSUME NEW s \in Starts, EntersTask(s) PROVE BgInv'
  <2>1. /\ bgUp /\ start[s].pc = "counted" /\ start[s].id = 0
        /\ start' = [start EXCEPT ![s].pc = "entered", ![s].id = counter]
        /\ bgTasks' = [bgTasks EXCEPT ![counter] =
               [status |-> "running", notified |-> FALSE]]
        /\ UNCHANGED <<counter, bgRows, collector, bgProcess, told>>
    BY <1>2 DEF EntersTask, BgAt, HasId
  <2>2. counter \in BgIds /\ counter # 0
    BY <2>1, CounterIsId, Ids
  <2>3. /\ start'[s] = [start[s] EXCEPT !.pc = "entered", !.id = counter]
        /\ \A t \in Starts \ {s} : start'[t] = start[t]
    BY <2>1 DEF BgTypeOK
  <2>4. /\ start'[s].pc = "entered" /\ start'[s].id = counter
        /\ start'[s].copy = start[s].copy
    BY <2>1, <2>3 DEF BgTypeOK
  <2>5. /\ bgTasks'[counter] = [status |-> "running", notified |-> FALSE]
        /\ \A b \in BgIds \ {counter} : bgTasks'[b] = bgTasks[b]
    BY <2>1, <2>2 DEF BgTypeOK
  <2>6. BgTypeOK'
    BY <2>1, <2>2 DEF BgTypeOK, StartPc, BgStatus, bgProcess, told
  <2>7. Counted'
    <3>1. Begun' = Begun
      BY <2>1, <2>3, <2>4 DEF Begun
    <3> QED
      BY <3>1, <2>1 DEF Counted
  <2>8. \A b \in BgIds : /\ Shared(b) => Shared(b)'
                         /\ Given(b) => Given(b)'
                         /\ b = counter /\ Given(b) => Shared(b)'
    <3> SUFFICES ASSUME NEW b \in BgIds
                 PROVE  /\ Shared(b) => Shared(b)'
                        /\ Given(b) => Given(b)'
                        /\ b = counter /\ Given(b) => Shared(b)'
      OBVIOUS
    <3>1. b # 0 /\ start[s].id # b
      BY <2>1, Ids
    <3>2. \A t \in Starts : start[t].id = b => t # s /\ start'[t].id = b
      BY <3>1, <2>3
    <3>3. Shared(b) => Shared(b)'
      BY <3>2 DEF Shared
    <3>4. Given(b) => Given(b)'
      BY <3>2 DEF Given
    <3>5. b = counter /\ Given(b) => Shared(b)'
      BY <3>2, <2>4 DEF Given, Shared
    <3> QED
      BY <3>3, <3>4, <3>5
  <2>9. HasId'
    <3>1. ASSUME NEW t \in Starts, t # s
          PROVE  /\ start'[t].pc \in {"new", "counted"} => start'[t].id = 0
                 /\ AtWork(t)' => /\ start'[t].id \in BgIds
                                  /\ bgTasks'[start'[t].id].status # "none"
      BY <3>1, <2>3, <2>5 DEF HasId, AtWork
    <3>2. /\ start'[s].id \in BgIds /\ bgTasks'[start'[s].id].status # "none"
          /\ start'[s].pc \notin {"new", "counted"}
      BY <2>2, <2>4, <2>5
    <3> QED
      BY <3>1, <3>2 DEF HasId
  <2>10. IdsGiven'
    <3>1. ASSUME NEW b \in BgIds, b # counter
          PROVE  \/ Given(b)'
                 \/ /\ bgTasks'[b].status = "none"
                    /\ \A c \in Collectors : b \notin delivered[c] \cup collector[c].ready
      BY <3>1, <2>5, <2>8 DEF IdsGiven
    <3>2. Given(counter)'
      BY <2>1, <2>4 DEF Given
    <3> QED
      BY <3>1, <3>2, <2>1 DEF IdsGiven, told
  <2>11. OwnStatus'
    <3> SUFFICES ASSUME NEW t \in Starts, ~Shared(start[t].id)'
                 PROVE  /\ start'[t].pc = "finished" =>
                               bgTasks'[start'[t].id].status \in Ended
                        /\ start'[t].pc = "persisting" => start'[t].copy \in Ended
      BY DEF OwnStatus
    <3>1. CASE t = s
      BY <3>1, <2>4
    <3>2. CASE t # s /\ AtWork(t)
      <4>1. start[t].id \in BgIds /\ start[t].id # counter
        BY <3>2, <2>3, <2>4 DEF HasId, Shared
      <4>2. ~Shared(start[t].id)
        BY <3>2, <4>1, <2>3, <2>8
      <4> QED
        BY <3>2, <4>1, <4>2, <2>3, <2>5 DEF OwnStatus
    <3> QED
      BY <3>1, <3>2, <2>3 DEF AtWork
  <2>12. RunningRowHasThread'
    <3> SUFFICES ASSUME NEW b \in BgIds, bgRows[b] = "running", ~Shared(b)'
                 PROVE  \E t \in Starts : AtWork(t)' /\ start'[t].id = b
      BY <2>1 DEF RunningRowHasThread, AtWork
    <3>1. PICK t \in Starts : AtWork(t) /\ start[t].id = b
      BY <2>1, <2>8 DEF RunningRowHasThread, AtWork
    <3> QED
      BY <3>1, <2>1, <2>3 DEF AtWork
  <2>13. Overlaps'
    BY <2>1 DEF Overlaps, told
  <2>14. Marked'
    BY <2>1, <2>5, <2>8 DEF Marked, IdsGiven, told
  <2>15. Relisted'
    BY <2>1, <2>8 DEF Relisted, told
  <2>16. ToldOnce'
    <3>1. \A c \in Collectors : delivered[c] \subseteq BgIds
      BY DEF BgTypeOK
    <3> QED
      BY <2>1, <2>8, <3>1 DEF ToldOnce, told
  <2> QED
    BY <2>6, <2>7, <2>9, <2>10, <2>11, <2>12, <2>13, <2>14, <2>15, <2>16
<1>3. ASSUME NEW s \in Starts, CopiesTask(s) PROVE BgInv'
  <2>1. PICK pc \in {"starting", "persisting"} :
            /\ start' = [start EXCEPT ![s].pc = pc,
                                      ![s].copy = bgTasks[start[s].id].status]
            /\ \/ start[s].pc = "entered" /\ pc = "starting"
               \/ start[s].pc = "finished" /\ pc = "persisting"
            /\ UNCHANGED <<counter, bgTasks, bgRows, collector, bgProcess, told>>
    BY <1>3 DEF CopiesTask, BgAt, BgTypeOK, bgProcess, told
  <2>2. start[s].id \in BgIds /\ bgTasks[start[s].id].status \in BgStatus
    BY <2>1 DEF HasId, AtWork, BgTypeOK
  <2>3. /\ start'[s].pc = pc /\ start'[s].id = start[s].id
        /\ start'[s].copy = bgTasks[start[s].id].status
        /\ \A t \in Starts \ {s} : start'[t] = start[t]
    BY <2>1 DEF BgTypeOK
  <2>4. BgTypeOK'
    <3>1. start' \in [Starts -> Call]
      BY <2>1, <2>2, CallCopies DEF BgTypeOK, CallTyped, Call, StartPc
    <3> QED
      BY <2>1, <3>1 DEF BgTypeOK, Call, bgProcess, told
  <2>5. IdsSame /\ Counted'
    BY <2>1, <2>3, CallMoves
  <2>6. HasId'
    <3>1. \A t \in Starts : AtWork(t)' => AtWork(t)
      BY <2>1, <2>3 DEF AtWork
    <3>2. \A t \in Starts :
             start'[t].pc \in {"new", "counted"} => start[t].pc = start'[t].pc
      BY <2>1, <2>3
    <3>3. \A t \in Starts : start'[t].id = start[t].id
      BY <2>3
    <3>4. bgTasks' = bgTasks
      BY <2>1
    <3>5. HasId
      BY <2>1
    <3> QED
      BY <3>1, <3>2, <3>3, <3>4, <3>5 DEF HasId
  <2>7. OwnStatus'
    BY <2>1, <2>3, <2>5, SameIds DEF OwnStatus
  <2>8. RunningRowHasThread'
    <3>1. bgUp' = bgUp /\ bgRows' = bgRows
      BY <2>1 DEF bgProcess
    <3>2. \A t \in Starts : AtWork(t) => AtWork(t)'
      BY <2>1, <2>3 DEF AtWork
    <3> QED
      BY <3>1, <3>2, <2>5, SameIds DEF RunningRowHasThread, AtWork, IdsSame
  <2> QED
    BY <2>1, <2>4, <2>5, <2>6, <2>7, <2>8, TellingSame
<1>4. ASSUME NEW s \in Starts, StartsWorker(s) PROVE BgInv'
  <2>1. /\ start' = [start EXCEPT ![s].pc = "working"]
        /\ start[s].pc = "starting"
        /\ bgRows' = [bgRows EXCEPT ![start[s].id] = start[s].copy]
        /\ UNCHANGED <<counter, bgTasks, collector, bgProcess, told>>
    BY <1>4 DEF StartsWorker, BgAt
  <2>2. start[s].id \in BgIds
    BY <2>1 DEF HasId, AtWork
  <2>3. /\ start'[s].pc = "working" /\ start'[s].id = start[s].id
        /\ \A t \in Starts \ {s} : start'[t] = start[t]
    BY <2>1 DEF BgTypeOK
  <2>4. BgTypeOK'
    BY <2>1, <2>2 DEF BgTypeOK, StartPc, bgProcess, told
  <2>5. IdsSame /\ Counted'
    BY <2>1, <2>3, CallMoves
  <2>6. HasId'
    BY <2>1, <2>2, <2>3 DEF HasId, AtWork
  <2>7. OwnStatus'
    BY <2>1, <2>3, <2>5, SameIds DEF OwnStatus
  <2>8. RunningRowHasThread'
    BY <2>1, <2>2, <2>3, <2>5, SameIds DEF RunningRowHasThread, bgProcess, BgTypeOK
  <2> QED
    BY <2>1, <2>4, <2>5, <2>6, <2>7, <2>8, TellingSame
<1>5. ASSUME NEW s \in Starts, WorkerFinishes(s) PROVE BgInv'
  <2> DEFINE b == start[s].id
  <2>1. /\ start[s].pc = "working"
        /\ start' = [start EXCEPT ![s].pc = "finished"]
        /\ UNCHANGED <<counter, bgRows, collector, bgProcess, told>>
    BY <1>5 DEF WorkerFinishes, BgAt
  <2>2. PICK status \in Ended :
            bgTasks' = [bgTasks EXCEPT ![b].status = status]
    BY <1>5 DEF WorkerFinishes, Ended
  <2>3. b \in BgIds /\ bgTasks[b].status # "none"
    BY <2>1 DEF HasId, AtWork
  <2>4. /\ start'[s].pc = "finished" /\ start'[s].id = b
        /\ \A t \in Starts \ {s} : start'[t] = start[t]
    BY <2>1 DEF BgTypeOK
  <2>5. /\ bgTasks'[b].status = status
        /\ bgTasks'[b].notified = bgTasks[b].notified
        /\ \A d \in BgIds \ {b} : bgTasks'[d] = bgTasks[d]
    BY <2>2, <2>3 DEF BgTypeOK
  <2>6. BgTypeOK'
    <3>1. start' \in [Starts -> Call]
      BY <2>1, CallGoesTo DEF BgTypeOK, CallTyped, Call, StartPc
    <3>2. bgTasks' \in [BgIds -> [status : BgStatus, notified : BOOLEAN]]
      BY <2>2, <2>3 DEF BgTypeOK, BgStatus, Ended
    <3> QED
      BY <2>1, <3>1, <3>2 DEF BgTypeOK, Call, bgProcess, told
  <2>7. IdsSame /\ Counted'
    BY <2>1, <2>4, CallMoves
  <2>8. HasId'
    BY <2>2, <2>3, <2>4, <2>5 DEF HasId, AtWork, Ended
  <2>9. IdsGiven'
    BY <2>1, <2>4, <2>5, <2>7, SameIds DEF IdsGiven, Given, told
  <2>10. OwnStatus'
    <3> SUFFICES ASSUME NEW t \in Starts, ~Shared(start[t].id)'
                 PROVE  /\ start'[t].pc = "finished" =>
                               bgTasks'[start'[t].id].status \in Ended
                        /\ start'[t].pc = "persisting" => start'[t].copy \in Ended
      BY DEF OwnStatus
    <3>1. CASE t = s
      BY <3>1, <2>4, <2>5
    <3>2. CASE t # s /\ AtWork(t)
      <4>1. start[t].id \in BgIds /\ start[t].id # b
        BY <3>2, <2>4 DEF HasId, Shared
      <4>2. ~Shared(start[t].id)
        BY <3>2, <2>4, <2>7, SameIds
      <4> QED
        BY <3>2, <4>1, <4>2, <2>4, <2>5 DEF OwnStatus
    <3> QED
      BY <3>1, <3>2, <2>4 DEF AtWork
  <2>11. RunningRowHasThread'
    BY <2>1, <2>4, <2>7, SameIds DEF RunningRowHasThread, bgProcess
  <2>12. Marked'
    BY <2>1, <2>3, <2>5, <2>7, SameIds DEF Marked, told
  <2>13. (Overlaps /\ Relisted)'
    BY <2>1, <2>7, SameIds DEF Overlaps, Relisted, told
  <2>14. ToldOnce'
    BY <2>1, <2>7, SameIds DEF ToldOnce, told
  <2> QED
    BY <2>6, <2>7, <2>8, <2>9, <2>10, <2>11, <2>12, <2>13, <2>14
<1>6. ASSUME NEW s \in Starts, WorkerPersists(s) PROVE BgInv'
  <2>1. /\ start' = [start EXCEPT ![s].pc = "done"]
        /\ start[s].pc = "persisting"
        /\ bgRows' = [bgRows EXCEPT ![start[s].id] = start[s].copy]
        /\ UNCHANGED <<counter, bgTasks, collector, bgProcess, told>>
    BY <1>6 DEF WorkerPersists, BgAt
  <2>2. start[s].id \in BgIds
    BY <2>1 DEF HasId, AtWork
  <2>3. /\ start'[s].pc = "done" /\ start'[s].id = start[s].id
        /\ \A t \in Starts \ {s} : start'[t] = start[t]
    BY <2>1 DEF BgTypeOK
  <2>4. BgTypeOK'
    <3>1. start' \in [Starts -> Call]
      BY <2>1, CallGoesTo DEF BgTypeOK, CallTyped, Call, StartPc
    <3>2. bgRows' \in [BgIds -> BgStatus]
      BY <2>1, <2>2 DEF BgTypeOK
    <3> QED
      BY <2>1, <3>1, <3>2 DEF BgTypeOK, Call, bgProcess, told
  <2>5. IdsSame /\ Counted'
    BY <2>1, <2>3, CallMoves
  <2>6. HasId'
    BY <2>1, <2>3 DEF HasId, AtWork
  <2>7. OwnStatus'
    BY <2>1, <2>3, <2>5, SameIds DEF OwnStatus
  <2>8. RunningRowHasThread'
    <3> SUFFICES ASSUME bgUp, NEW b \in BgIds, bgRows'[b] = "running", ~Shared(b)
                 PROVE  \E t \in Starts : AtWork(t)' /\ start'[t].id = b
      BY <2>1, <2>5, SameIds DEF RunningRowHasThread, AtWork, bgProcess
    <3>1. b # start[s].id
      BY <2>1, <2>2 DEF OwnStatus, Ended, BgTypeOK
    <3>2. bgRows[b] = "running"
      BY <3>1, <2>1, <2>2 DEF BgTypeOK
    <3> QED
      BY <3>1, <3>2, <2>3 DEF RunningRowHasThread, AtWork
  <2> QED
    BY <2>1, <2>4, <2>5, <2>6, <2>7, <2>8, TellingSame
<1>7. ASSUME NEW c \in Collectors, Lists(c) PROVE BgInv'
  <2>1. /\ collector[c].pc = "new"
        /\ collector' = [collector EXCEPT ![c] =
               [pc |-> "telling", ready |-> Ready]]
        /\ overlapped' = overlapped \cup
               {{c, d} : d \in {d \in Collectors : collector[d].pc = "telling"}}
        /\ UNCHANGED <<counter, start, bgTasks, bgRows, bgProcess, delivered>>
    BY <1>7 DEF Lists
  <2>2. /\ collector'[c].pc = "telling" /\ collector'[c].ready = Ready
        /\ \A d \in Collectors \ {c} : collector'[d] = collector[d]
    BY <2>1 DEF BgTypeOK
  <2>3. Ready \in SUBSET BgIds
    BY DEF Ready
  <2>4. overlapped \subseteq overlapped' /\ overlapped' \subseteq SUBSET Collectors
    BY <2>1 DEF BgTypeOK
  <2>5. BgTypeOK'
    BY <2>1, <2>3, <2>4 DEF BgTypeOK, bgProcess
  <2>6. IdsSame /\ Counted'
    BY <2>1 DEF IdsSame, Counted, Begun
  <2>7. (HasId /\ OwnStatus /\ RunningRowHasThread)'
    BY <2>1, <2>6, SameIds DEF HasId, OwnStatus, RunningRowHasThread, AtWork, bgProcess
  <2>8. IdsGiven'
    BY <2>1, <2>2, <2>6, SameIds DEF IdsGiven, Ready
  <2>9. Overlaps'
    BY <2>1, <2>2, <2>4 DEF Overlaps
  <2>10. Marked'
    BY <2>1, <2>6, SameIds DEF Marked
  <2>11. Relisted'
    <3>1. \A b \in Ready, d \in Collectors : b \in delivered[d] => Shared(b)
      BY DEF Ready, Marked
    <3> QED
      BY <3>1, <2>1, <2>2, <2>4, <2>6, SameIds DEF Relisted
  <2>12. ToldOnce'
    BY <2>1, <2>4, <2>6, SameIds DEF ToldOnce
  <2> QED
    BY <2>5, <2>6, <2>7, <2>8, <2>9, <2>10, <2>11, <2>12
<1>8. ASSUME NEW c \in Collectors, Tells(c) PROVE BgInv'
  <2>1. PICK b \in collector[c].ready :
            /\ bgTasks' = [bgTasks EXCEPT ![b].notified = TRUE]
            /\ delivered' = [delivered EXCEPT ![c] = @ \cup {b}]
            /\ collector' = [collector EXCEPT ![c].ready = @ \ {b}]
    BY <1>8 DEF Tells
  <2>2. /\ collector[c].pc = "telling"
        /\ UNCHANGED <<counter, start, bgRows, bgProcess, overlapped>>
    BY <1>8 DEF Tells
  <2>3. b \in BgIds
    BY <2>1 DEF BgTypeOK
  <2>4. /\ bgTasks'[b].status = bgTasks[b].status
        /\ bgTasks'[b].notified
        /\ \A d \in BgIds \ {b} : bgTasks'[d] = bgTasks[d]
    BY <2>1, <2>3 DEF BgTypeOK
  <2>5. /\ delivered'[c] = delivered[c] \cup {b}
        /\ \A d \in Collectors \ {c} : delivered'[d] = delivered[d]
    BY <2>1 DEF BgTypeOK
  <2>6. /\ collector'[c].pc = "telling"
        /\ collector'[c].ready = collector[c].ready \ {b}
        /\ \A d \in Collectors \ {c} : collector'[d] = collector[d]
    BY <2>1, <2>2 DEF BgTypeOK
  <2>7. BgTypeOK'
    <3> DEFINE Task == [status : BgStatus, notified : BOOLEAN]
    <3> HIDE DEF Task
    <3>1. bgTasks' \in [BgIds -> Task]
      <4>1. bgTasks \in [BgIds -> Task]
        BY DEF BgTypeOK, Task
      <4>2. [bgTasks[b] EXCEPT !.notified = TRUE] \in Task
        BY <4>1, <2>3 DEF Task
      <4> QED
        BY <2>1, <4>1, <4>2
    <3>2. delivered' \in [Collectors -> SUBSET BgIds]
      BY <2>1, <2>3 DEF BgTypeOK
    <3>3. collector' \in [Collectors -> [pc : {"new", "telling", "done"},
                                         ready : SUBSET BgIds]]
      BY <2>1 DEF BgTypeOK
    <3> QED
      BY <2>2, <3>1, <3>2, <3>3 DEF BgTypeOK, bgProcess, Task
  <2>8. IdsSame /\ Counted'
    BY <2>2 DEF IdsSame, Counted, Begun
  <2>9. (HasId /\ OwnStatus)'
    <3>1. \A d \in BgIds : bgTasks'[d].status = bgTasks[d].status
      BY <2>4
    <3>2. HasId'
      BY <3>1, <2>2 DEF HasId, AtWork
    <3>3. OwnStatus'
      BY <3>1, <2>2, <2>8, SameIds DEF OwnStatus, HasId, AtWork
    <3> QED
      BY <3>2, <3>3
  <2>10. RunningRowHasThread'
    BY <2>2, <2>8, SameIds DEF RunningRowHasThread, bgProcess
  <2>11. IdsGiven'
    BY <2>1, <2>3, <2>4, <2>5, <2>6, <2>8, SameIds DEF IdsGiven
  <2>12. Overlaps'
    BY <2>2, <2>6 DEF Overlaps
  <2>13. Marked'
    BY <2>3, <2>4, <2>5, <2>8, SameIds DEF Marked
  <2>14. Relisted'
    <3> SUFFICES ASSUME NEW d \in Collectors, NEW e \in Collectors,
                        NEW x \in BgIds, x \in delivered'[d],
                        x \in collector'[e].ready, d # e
                 PROVE  {d, e} \in overlapped \/ Shared(x)
      BY <2>2, <2>6, <2>8, SameIds DEF Relisted
    <3>1. x \in collector[e].ready
      BY <2>6
    <3>2. CASE x \in delivered[d]
      BY <3>1, <3>2 DEF Relisted
    <3>3. CASE d = c /\ x = b
      BY <3>1, <3>3, <2>2 DEF Relisted, Overlaps
    <3> QED
      BY <3>2, <3>3, <2>5
  <2>15. ToldOnce'
    <3> SUFFICES ASSUME NEW d \in Collectors, NEW e \in Collectors,
                        NEW x \in delivered'[d] \cap delivered'[e], d # e
                 PROVE  {d, e} \in overlapped \/ Shared(x)
      BY <2>2, <2>8, SameIds DEF ToldOnce
    <3>1. CASE x \in delivered[d] /\ x \in delivered[e]
      BY <3>1 DEF ToldOnce
    <3>2. CASE x \in delivered[d] /\ e = c /\ x = b
      BY <3>2, <2>1, <2>3 DEF Relisted
    <3>3. CASE x \in delivered[e] /\ d = c /\ x = b
      <4>1. {e, d} \in overlapped \/ Shared(x)
        BY <3>3, <2>1, <2>3 DEF Relisted
      <4> QED
        BY <4>1
    <3> QED
      BY <3>1, <3>2, <3>3, <2>5
  <2> QED
    BY <2>7, <2>8, <2>9, <2>10, <2>11, <2>12, <2>13, <2>14, <2>15
<1>9. ASSUME NEW c \in Collectors, EndsTelling(c) PROVE BgInv'
  <2>1. /\ collector[c].ready = {}
        /\ collector' = [collector EXCEPT ![c].pc = "done"]
        /\ UNCHANGED <<counter, start, bgTasks, bgRows, bgProcess, told>>
    BY <1>9 DEF EndsTelling
  <2>2. /\ collector'[c].pc = "done" /\ collector'[c].ready = {}
        /\ \A d \in Collectors \ {c} : collector'[d] = collector[d]
    BY <2>1 DEF BgTypeOK
  <2>3. BgTypeOK'
    BY <2>1 DEF BgTypeOK, bgProcess, told
  <2>4. IdsSame /\ Counted'
    BY <2>1 DEF IdsSame, Counted, Begun
  <2>5. (HasId /\ OwnStatus /\ RunningRowHasThread)'
    BY <2>1, <2>4, SameIds DEF HasId, OwnStatus, RunningRowHasThread, AtWork, bgProcess
  <2>6. IdsGiven'
    BY <2>1, <2>2, <2>4, SameIds DEF IdsGiven, told
  <2>7. (Overlaps /\ Relisted)'
    BY <2>1, <2>2, <2>4, SameIds DEF Overlaps, Relisted, told
  <2>8. (Marked /\ ToldOnce)'
    BY <2>1, <2>4, SameIds DEF Marked, ToldOnce, told
  <2> QED
    BY <2>3, <2>4, <2>5, <2>6, <2>7, <2>8
<1>10. CASE BgCrashes
  <2>1. /\ bgUp' = FALSE /\ bgCrashes < MaxBgCrashes /\ bgCrashes' = bgCrashes + 1
        /\ start' = [s \in Starts |->
               IF start[s].pc = "new" THEN start[s]
               ELSE [start[s] EXCEPT !.pc = "done"]]
        /\ bgTasks' = [b \in BgIds |-> NoTask]
        /\ collector' = [c \in Collectors |->
               [pc |-> IF collector[c].pc = "new" THEN "new" ELSE "done",
                ready |-> {}]]
        /\ UNCHANGED <<counter, bgRows, told>>
    BY <1>10 DEF BgCrashes
  <2>2. BgTypeOK'
    <3>1. start' \in [Starts -> Call]
      <4>1. \A s \in Starts : start[s] \in Call
        BY DEF BgTypeOK, Call
      <4>2. \A x \in Call : [x EXCEPT !.pc = "done"] \in Call
        BY DEF Call, StartPc
      <4> QED
        BY <2>1, <4>1, <4>2
    <3>2. bgTasks' \in [BgIds -> [status : BgStatus, notified : BOOLEAN]]
      BY <2>1 DEF BgStatus, NoTask
    <3>3. collector' \in [Collectors -> [pc : {"new", "telling", "done"},
                                         ready : SUBSET BgIds]]
      BY <2>1
    <3>4. bgCrashes' \in 0..MaxBgCrashes
      BY <2>1, BackgroundAssumption DEF BgTypeOK
    <3> QED
      BY <2>1, <3>1, <3>2, <3>3, <3>4 DEF BgTypeOK, Call, told
  <2>3. IdsSame
    BY <2>1 DEF IdsSame, BgTypeOK
  <2>4. Begun' = Begun
    BY <2>1 DEF Begun, BgTypeOK
  <2>5. Counted'
    BY <2>1, <2>4 DEF Counted
  <2>6. \A s \in Starts : ~AtWork(s)'
    BY <2>1 DEF AtWork, BgTypeOK
  <2>7. (HasId /\ OwnStatus)'
    BY <2>1, <2>6 DEF HasId, OwnStatus, AtWork
  <2>8. RunningRowHasThread'
    BY <2>1 DEF RunningRowHasThread
  <2>9. IdsGiven'
    BY <2>1, <2>3, SameIds DEF IdsGiven, NoTask, told
  <2>10. (Overlaps /\ Relisted)'
    BY <2>1 DEF Overlaps, Relisted
  <2>11. (Marked /\ ToldOnce)'
    BY <2>1, <2>3, SameIds DEF Marked, ToldOnce, NoTask, told
  <2> QED
    BY <2>2, <2>5, <2>7, <2>8, <2>9, <2>10, <2>11
<1>11. CASE BgRestarts
  <2>1. /\ bgUp' = TRUE
        /\ bgRows' = [b \in BgIds |-> Recovered(bgRows[b])]
        /\ UNCHANGED <<counter, start, bgTasks, collector, bgCrashes, told>>
    BY <1>11 DEF BgRestarts
  <2>2. \A b \in BgIds : bgRows'[b] \in BgStatus /\ bgRows'[b] # "running"
    BY <2>1 DEF Recovered, BgTypeOK, BgStatus
  <2>3. BgTypeOK'
    BY <2>1, <2>2 DEF BgTypeOK, told
  <2>4. IdsSame /\ Counted'
    BY <2>1 DEF IdsSame, Counted, Begun
  <2>5. (HasId /\ OwnStatus)'
    BY <2>1, <2>4, SameIds DEF HasId, OwnStatus, AtWork
  <2>6. RunningRowHasThread'
    BY <2>2 DEF RunningRowHasThread
  <2> QED
    BY <2>1, <2>3, <2>4, <2>5, <2>6, TellingSame
<1>12. CASE UNCHANGED bgVars
  <2>1. UNCHANGED <<counter, start, bgTasks, bgRows, collector, bgUp, bgCrashes,
                    delivered, overlapped>>
    BY <1>12 DEF bgVars
  <2>2. IdsSame /\ Counted' /\ BgTypeOK'
    BY <2>1 DEF IdsSame, Counted, Begun, BgTypeOK
  <2>3. (HasId /\ OwnStatus /\ RunningRowHasThread)'
    BY <2>1, <2>2, SameIds DEF HasId, OwnStatus, RunningRowHasThread, AtWork
  <2> QED
    BY <2>1, <2>2, <2>3, TellingSame DEF told
<1> QED
  BY <1>1, <1>2, <1>3, <1>4, <1>5, <1>6, <1>7, <1>8, <1>9, <1>10, <1>11, <1>12
     DEF BgNext, StartGoesOn, CollectorGoesOn

LEMMA BgStart == BgInit => BgInv
<1> SUFFICES ASSUME BgInit PROVE BgInv
    OBVIOUS
<1>1. BgTypeOK
  BY FS_CardinalityType, BackgroundAssumption
     DEF BgInit, BgTypeOK, StartPc, BgStatus, NoTask, BgIds
<1>2. Counted
  <2>1. Begun = {}
    BY DEF BgInit, Begun
  <2> QED
    BY <2>1, FS_EmptySet DEF Counted, BgInit
<1>3. HasId /\ IdsGiven
  BY DEF BgInit, HasId, AtWork, IdsGiven, NoTask
<1>4. OwnStatus /\ RunningRowHasThread
  BY DEF BgInit, OwnStatus, RunningRowHasThread
<1>5. Overlaps /\ Marked /\ Relisted /\ ToldOnce
  BY DEF BgInit, Overlaps, Marked, Relisted, ToldOnce
<1> QED
  BY <1>1, <1>2, <1>3, <1>4, <1>5 DEF BgInv

LEMMA BgAlways == BgSpec => []BgInv
    BY BgStart, BgStep, PTL DEF BgSpec

-----------------------------------------------------------------------------

\* However many commands run and however often the process crashes, the table
\* does not say of a task with its own id that it runs when nothing runs it:
\* the last write of _persist_task follows the one of the worker, and
\* recover_interrupted_background_tasks clears what a crash left.
THEOREM RunningRowsHaveThreads == BgSpec => []RunningRowHasThread
<1>1. BgInv => RunningRowHasThread
  BY DEF BgInv
<1> QED
  BY <1>1, BgAlways, PTL

\* A result is told to two runs only if they collected at the same time or
\* its id was given twice: the notified flag that collect_background_results
\* sets under the lock is seen by every run that lists later.
THEOREM ResultsToldOnce == BgSpec => []ToldOnce
<1>1. BgInv => ToldOnce
  BY DEF BgInv
<1> QED
  BY <1>1, BgAlways, PTL

-----------------------------------------------------------------------------
(* The MCP clients.                                                        *)

RegistryTyped ==
    /\ {isMock, customFile, loading, raced} \subseteq BOOLEAN
    /\ pool \in Remote \cup {"custom", "mock", None}
    /\ session \in [Remote -> 0..MaxConns]
    /\ loop \in [op : LoopOp, kind : Remote \cup {"custom", None},
                 conn : 0..MaxConns]
    /\ mcpEdits \in 0..MaxMcpEdits

ServersTyped == conns \in 0..MaxConns /\ alive \subseteq Conns

CallsTyped ==
    /\ noted \in [Conns -> {"none", "unread", "read"}]
    /\ reader \in [Conns -> McpCalls \cup {None}]
    /\ toolCall \in [McpCalls -> ToolCall]
    /\ {asked, arrived} \subseteq SUBSET McpCalls

\* What a request that is under way has in hand: a connection to enter, in
\* the handshake under a name without such a client, or an entry of the file.
\* A reload has read an entry that is still there unless it was removed
\* meanwhile.
InHand ==
    /\ loop.op \in {"connect", "enter"} => loop.kind \in Remote /\ loop.conn # 0
    /\ loop.op = "connect" => pool \notin Remote
    /\ loop.op = "instantiate" => customFile
    /\ loading => \/ customFile \/ raced
                  \/ (loop.op = "remove" /\ loop.kind = "custom")

\* An agent holds the handler of a server it can be connected to.
HandlersHeld == \A c \in McpCalls :
    toolCall[c].pc = "held" => toolCall[c].kind \in Remote

RegistryInv == RegistryTyped /\ ServersTyped /\ InHand /\ OfferedToolsAreBacked
CallInv == CallsTyped /\ HandlersHeld

McpInv == RegistryInv /\ CallInv

-----------------------------------------------------------------------------
(* MCP: the registry.                                                      *)

RegistrySteps ==
    Requests \/ LoopProceedsMcp \/ FinishesReload

\* What the request of the event loop is.
LoopTyped == [op : LoopOp, kind : Remote \cup {"custom", None}, conn : 0..MaxConns]

\* A request that starts finds the event loop free, and is counted.
LEMMA EditStarts ==
    ASSUME RegistryTyped, Edits
    PROVE  /\ loop.op = "none" /\ loop.kind = None
           /\ mcpEdits' \in 0..MaxMcpEdits
<1>1. MaxMcpEdits \in Nat
  BY McpAssumption
<1>2. loop = NoLoop /\ mcpEdits' = mcpEdits + 1 /\ mcpEdits < MaxMcpEdits
  BY DEF Edits, LoopIsFree
<1>3. mcpEdits \in 0..MaxMcpEdits
  BY DEF RegistryTyped
<1> QED
  BY <1>1, <1>2, <1>3 DEF NoLoop

LEMMA LoopGoesFree ==
    ASSUME loop' = NoLoop
    PROVE  loop' \in LoopTyped /\ loop'.op = "none" /\ loop'.kind = None
<1>1. MaxConns \in Nat
  BY McpAssumption
<1> QED
  BY <1>1 DEF NoLoop, LoopTyped, LoopOp

LEMMA HandshakeStep ==
    ASSUME RegistryInv, \/ \E k \in Remote : StartsConnect(k)
                        \/ EndsHandshake \/ EntersSession
    PROVE  RegistryInv' /\ UNCHANGED callVars
<1> USE DEF RegistryInv, RegistryTyped, ServersTyped, InHand,
            OfferedToolsAreBacked, Backed
<1>1. MaxConns \in Nat /\ "stdio" # "custom" /\ "sse" # "custom"
  BY McpAssumption
<1>2. ASSUME NEW k \in Remote, StartsConnect(k)
      PROVE  RegistryInv' /\ UNCHANGED callVars
  <2>1. /\ conns' = conns + 1 /\ conns' \in 1..MaxConns
        /\ alive' = alive \cup {conns'}
        /\ loop' = [op |-> "connect", kind |-> k, conn |-> conns']
        /\ UNCHANGED <<isMock, pool, session, customFile, loading, mcpEdits,
                       raced, callVars>>
        /\ pool = None /\ loop = NoLoop
    BY <1>1, <1>2 DEF StartsConnect, LoopIsFree
  <2>2. ServersTyped' /\ loop' \in LoopTyped
    BY <1>1, <2>1 DEF Conns, LoopTyped, LoopOp
  <2>3. RegistryTyped'
    BY <2>1, <2>2 DEF LoopTyped
  <2>4. /\ loop'.op = "connect" /\ loop'.kind = k /\ loop'.conn # 0
        /\ loop.op = "none" /\ pool' \notin Remote \cup {"custom"}
    BY <1>1, <2>1, McpAssumption DEF NoLoop, Remote
  <2>5. InHand' /\ OfferedToolsAreBacked'
    BY <2>1, <2>4
  <2> QED
    BY <2>1, <2>2, <2>3, <2>5
<1>3. CASE EndsHandshake
  <2>1. /\ loop.op = "connect" /\ loop.kind \in Remote /\ loop.conn # 0
        /\ loop \in LoopTyped /\ pool \notin Remote
        /\ UNCHANGED <<isMock, session, customFile, loading, conns, alive,
                       mcpEdits, raced, callVars>>
    BY <1>3 DEF EndsHandshake, LoopTyped
  <2>2. CASE pool' = loop.kind /\ loop' = [loop EXCEPT !.op = "enter"]
    <3>1. /\ loop' \in LoopTyped /\ loop'.op = "enter"
          /\ loop'.kind = loop.kind /\ loop'.conn = loop.conn
      BY <2>1, <2>2 DEF LoopTyped, LoopOp
    <3>2. RegistryTyped' /\ ServersTyped'
      BY <2>1, <2>2, <3>1 DEF LoopTyped
    <3>3. InHand' /\ OfferedToolsAreBacked'
      BY <2>1, <2>2, <3>1
    <3> QED
      BY <2>1, <3>2, <3>3
  <2>3. CASE loop' = NoLoop /\ UNCHANGED pool
    <3>1. loop' \in LoopTyped /\ loop'.op = "none"
      BY <2>3, LoopGoesFree
    <3>2. RegistryTyped' /\ ServersTyped'
      BY <2>1, <2>3, <3>1 DEF LoopTyped
    <3>3. pool = "custom" => customFile \/ raced
      BY <1>1, <2>1 DEF Remote
    <3>4. InHand' /\ OfferedToolsAreBacked'
      BY <2>1, <2>3, <3>1, <3>3
    <3> QED
      BY <2>1, <3>2, <3>4
  <2> QED
    BY <1>3, <2>2, <2>3 DEF EndsHandshake
<1>4. CASE EntersSession
  <2>1. /\ loop.op = "enter" /\ loop' = NoLoop
        /\ loop.kind \in Remote /\ loop.conn \in 0..MaxConns /\ loop.conn # 0
        /\ session' = [session EXCEPT ![loop.kind] = loop.conn]
        /\ UNCHANGED <<isMock, pool, customFile, loading, conns, alive,
                       mcpEdits, raced, callVars>>
    BY <1>4 DEF EntersSession
  <2>2. loop' \in LoopTyped /\ loop'.op = "none"
    BY <2>1, LoopGoesFree
  <2>3. /\ session' \in [Remote -> 0..MaxConns]
        /\ session'[loop.kind] # 0
        /\ \A k \in Remote : k # loop.kind => session'[k] = session[k]
    BY <2>1
  <2>4. RegistryTyped' /\ ServersTyped'
    BY <2>1, <2>2, <2>3 DEF LoopTyped
  <2>5. pool = "custom" => customFile \/ raced
    BY <1>1, <2>1 DEF Remote
  <2>6. pool \in Remote => session'[pool] # 0
    BY <1>1, <2>1, <2>3 DEF Remote
  <2>7. InHand' /\ OfferedToolsAreBacked'
    BY <1>1, <2>1, <2>2, <2>5, <2>6 DEF Remote
  <2> QED
    BY <2>1, <2>4, <2>7
<1> QED
  BY <1>2, <1>3, <1>4

LEMMA DisconnectStep ==
    ASSUME RegistryInv,
           \/ Disconnects \/ \E k \in Remote : StartsDisconnect(k)
           \/ ClosesConnection \/ RemovesClient
    PROVE  RegistryInv' /\ UNCHANGED callVars
<1> USE DEF RegistryInv, RegistryTyped, ServersTyped, InHand,
            OfferedToolsAreBacked, Backed
<1>1. MaxConns \in Nat
  BY McpAssumption
<1>2. None \notin Remote \cup {"custom"}
  BY McpAssumption DEF Remote
<1>3. CASE Disconnects
  <2>1. /\ pool' = None
        /\ UNCHANGED <<isMock, session, customFile, loading, loop, conns, alive,
                       raced, callVars>>
    BY <1>3 DEF Disconnects
  <2>2. Edits
    BY <1>3 DEF Disconnects
  <2> QED
    BY <2>1, <2>2, <1>2, EditStarts
<1>4. ASSUME NEW k \in Remote, StartsDisconnect(k)
      PROVE  RegistryInv' /\ UNCHANGED callVars
  <2>1. /\ loop' = [op |-> "close", kind |-> k, conn |-> session[k]]
        /\ session' = [session EXCEPT ![k] = 0]
        /\ UNCHANGED <<isMock, pool, customFile, loading, conns, alive, raced,
                       callVars>>
    BY <1>4 DEF StartsDisconnect
  <2>2. /\ loop.op = "none" /\ loop.kind = None
        /\ mcpEdits' \in 0..MaxMcpEdits
    BY <1>4, EditStarts DEF StartsDisconnect
  <2>3. /\ session' \in [Remote -> 0..MaxConns] /\ session[k] \in 0..MaxConns
        /\ \A h \in Remote : h # k => session'[h] = session[h]
    BY <1>1, <2>1
  <2>4. loop' \in LoopTyped /\ loop'.op = "close" /\ loop'.kind = k
    BY <2>1, <2>3 DEF LoopTyped, LoopOp
  <2>5. RegistryTyped' /\ ServersTyped'
    BY <2>1, <2>2, <2>3, <2>4 DEF LoopTyped
  <2>6. InHand'
    BY <2>1, <2>2, <2>4
  <2>7. OfferedToolsAreBacked'
    BY <1>2, <2>1, <2>2, <2>3, <2>4 DEF Remote
  <2> QED
    BY <2>1, <2>5, <2>6, <2>7
<1>5. CASE ClosesConnection
  <2>1. /\ loop.op = "close" /\ loop \in LoopTyped
        /\ alive' = alive \ {loop.conn}
        /\ loop' = [loop EXCEPT !.op = "remove"]
        /\ UNCHANGED <<isMock, pool, session, customFile, loading, conns,
                       mcpEdits, raced, callVars>>
    BY <1>5 DEF ClosesConnection, LoopTyped
  <2>2. loop' \in LoopTyped /\ loop'.op = "remove" /\ loop'.kind = loop.kind
    BY <2>1 DEF LoopTyped, LoopOp
  <2>3. RegistryTyped' /\ ServersTyped'
    BY <2>1, <2>2 DEF LoopTyped
  <2>4. InHand' /\ OfferedToolsAreBacked'
    BY <2>1, <2>2
  <2> QED
    BY <2>1, <2>3, <2>4
<1>6. CASE RemovesClient
  <2>1. /\ loop.op = "remove" /\ pool' = None /\ loop' = NoLoop
        /\ raced' = IF loop.kind = "custom" THEN loading ELSE raced
        /\ UNCHANGED <<isMock, session, customFile, loading, conns, alive,
                       mcpEdits, callVars>>
    BY <1>6 DEF RemovesClient, RemovedClient
  <2>2. loop' \in LoopTyped /\ loop'.op = "none"
    BY <2>1, LoopGoesFree
  <2>3. raced' \in BOOLEAN
    BY <2>1
  <2>4. RegistryTyped' /\ ServersTyped'
    BY <2>1, <2>2, <2>3 DEF LoopTyped
  <2>5. InHand'
    BY <2>1, <2>2
  <2>6. OfferedToolsAreBacked'
    BY <1>2, <2>1
  <2> QED
    BY <2>1, <2>4, <2>5, <2>6
<1> QED
  BY <1>3, <1>4, <1>5, <1>6

LEMMA CustomStep ==
    ASSUME RegistryInv,
           \/ ConnectsMock \/ RegistersCustom \/ InstantiatesCustom
           \/ RemovesCustom \/ ReloadsCustom
           \/ StartsReload \/ FinishesReload
    PROVE  RegistryInv' /\ UNCHANGED callVars
<1> USE DEF RegistryInv, RegistryTyped, ServersTyped, InHand,
            OfferedToolsAreBacked, Backed
<1>1. MaxConns \in Nat /\ MaxMcpEdits \in Nat
  BY McpAssumption
<1>2. None \notin Remote \cup {"custom"} /\ "mock" \notin Remote \cup {"custom"}
  BY McpAssumption DEF Remote
<1>3. CASE ConnectsMock
  <2>1. /\ pool' = "mock"
        /\ UNCHANGED <<isMock, session, customFile, loading, loop, conns, alive,
                       raced, callVars>>
    BY <1>3 DEF ConnectsMock
  <2>2. Edits
    BY <1>3 DEF ConnectsMock
  <2> QED
    BY <1>2, <2>1, <2>2, EditStarts
<1>4. CASE RegistersCustom
  <2>1. /\ customFile' = TRUE
        /\ loop' = [op |-> "instantiate", kind |-> "custom", conn |-> 0]
        /\ UNCHANGED <<isMock, pool, session, loading, conns, alive, raced,
                       callVars>>
    BY <1>4 DEF RegistersCustom
  <2>2. /\ loop.op = "none" /\ loop.kind = None
        /\ mcpEdits' \in 0..MaxMcpEdits
    BY <1>4, EditStarts DEF RegistersCustom
  <2>3. loop' \in LoopTyped /\ loop'.op = "instantiate"
    BY <1>1, <2>1 DEF LoopTyped, LoopOp
  <2>4. RegistryTyped' /\ ServersTyped'
    BY <2>1, <2>2, <2>3 DEF LoopTyped
  <2>5. InHand'
    BY <2>1, <2>3
  <2>6. OfferedToolsAreBacked'
    BY <1>2, <2>1, <2>2
  <2> QED
    BY <2>1, <2>4, <2>5, <2>6
<1>5. CASE InstantiatesCustom
  <2>1. /\ loop.op = "instantiate" /\ customFile
        /\ pool' = "custom" /\ loop' = NoLoop
        /\ UNCHANGED <<isMock, session, customFile, loading, conns, alive,
                       mcpEdits, raced, callVars>>
    BY <1>5 DEF InstantiatesCustom
  <2>2. loop' \in LoopTyped /\ loop'.op = "none"
    BY <2>1, LoopGoesFree
  <2>3. RegistryTyped' /\ ServersTyped'
    BY <2>1, <2>2 DEF LoopTyped
  <2>4. InHand' /\ OfferedToolsAreBacked'
    BY <2>1, <2>2
  <2> QED
    BY <2>1, <2>3, <2>4
<1>6. CASE RemovesCustom
  <2>1. /\ customFile' = FALSE
        /\ loop' = [op |-> "remove", kind |-> "custom", conn |-> 0]
        /\ UNCHANGED <<isMock, pool, session, loading, conns, alive, raced,
                       callVars>>
    BY <1>6 DEF RemovesCustom
  <2>2. /\ loop.op = "none" /\ loop.kind = None
        /\ mcpEdits' \in 0..MaxMcpEdits
    BY <1>6, EditStarts DEF RemovesCustom
  <2>3. loop' \in LoopTyped /\ loop'.op = "remove" /\ loop'.kind = "custom"
    BY <1>1, <2>1 DEF LoopTyped, LoopOp
  <2>4. RegistryTyped' /\ ServersTyped'
    BY <2>1, <2>2, <2>3 DEF LoopTyped
  <2>5. InHand'
    BY <2>1, <2>3
  <2>6. OfferedToolsAreBacked'
    BY <1>2, <2>1, <2>2, <2>3
  <2> QED
    BY <2>1, <2>4, <2>5, <2>6
<1>7. CASE ReloadsCustom
  <2>1. /\ customFile /\ pool' = "custom"
        /\ UNCHANGED <<isMock, session, customFile, loading, loop, conns, alive,
                       raced, callVars>>
    BY <1>7 DEF ReloadsCustom
  <2>2. Edits
    BY <1>7 DEF ReloadsCustom
  <2> QED
    BY <2>1, <2>2, EditStarts
<1>8. CASE StartsReload
  <2>1. /\ customFile /\ loading' = TRUE
        /\ mcpEdits' = mcpEdits + 1 /\ mcpEdits < MaxMcpEdits
        /\ UNCHANGED <<isMock, pool, session, customFile, loop, conns, alive,
                       raced, callVars>>
    BY <1>8 DEF StartsReload
  <2>2. mcpEdits' \in 0..MaxMcpEdits
    BY <1>1, <2>1
  <2> QED
    BY <2>1, <2>2
<1>9. CASE FinishesReload
  <2>1. /\ loading /\ loading' = FALSE /\ pool' = "custom"
        /\ UNCHANGED <<isMock, session, customFile, loop, conns, alive, mcpEdits,
                       raced, callVars>>
    BY <1>9 DEF FinishesReload
  <2>2. /\ customFile \/ raced \/ loop.kind = "custom"
        /\ pool' \notin Remote
    BY <2>1 DEF Remote
  <2> QED
    BY <2>1, <2>2
<1> QED
  BY <1>3, <1>4, <1>5, <1>6, <1>7, <1>8, <1>9

LEMMA RegistryStep ==
    ASSUME RegistryInv, RegistrySteps
    PROVE  RegistryInv' /\ UNCHANGED callVars
    BY HandshakeStep, DisconnectStep, CustomStep
       DEF RegistrySteps, Requests, LoopProceedsMcp, StartsStdio, StartsSse, Remote

-----------------------------------------------------------------------------
(* MCP: the calls.                                                         *)

\* What the steps of a call do to it: it goes on to another stage, or it
\* takes a handler or the connection of a session.
LEMMA CallMovesTo ==
    ASSUME CallInv, NEW c \in McpCalls, NEW pc \in CallPc \ {"held"},
           toolCall' = [toolCall EXCEPT ![c].pc = pc]
    PROVE  toolCall' \in [McpCalls -> ToolCall] /\ HandlersHeld'
<1>1. toolCall \in [McpCalls -> ToolCall]
  BY DEF CallInv, CallsTyped
<1>2. toolCall' \in [McpCalls -> ToolCall] /\ toolCall'[c].pc = pc
  BY <1>1 DEF ToolCall
<1>3. \A d \in McpCalls \ {c} : toolCall'[d] = toolCall[d]
  BY <1>1
<1> QED
  BY <1>2, <1>3 DEF CallInv, HandlersHeld

LEMMA CallGoesOn ==
    ASSUME RegistryTyped, CallInv, NEW c \in McpCalls,
           TakesHandler(c) \/ FindsSession(c)
    PROVE  toolCall' \in [McpCalls -> ToolCall] /\ HandlersHeld'
<1>1. toolCall \in [McpCalls -> ToolCall] /\ toolCall[c] \in ToolCall
  BY DEF CallInv, CallsTyped
<1>2. CASE TakesHandler(c)
  <2>1. /\ toolCall' = [toolCall EXCEPT ![c].pc = "held", ![c].kind = pool]
        /\ pool \in Remote
    BY <1>2 DEF TakesHandler
  <2>2. toolCall' \in [McpCalls -> ToolCall] /\ toolCall'[c].kind \in Remote
    BY <1>1, <2>1 DEF ToolCall, CallPc
  <2>3. \A d \in McpCalls \ {c} : toolCall'[d] = toolCall[d]
    BY <1>1, <2>1
  <2> QED
    BY <2>2, <2>3 DEF CallInv, HandlersHeld
<1>3. CASE FindsSession(c)
  <2> DEFINE conn == session[toolCall[c].kind]
  <2>1. conn \in 0..MaxConns
    BY <1>3 DEF FindsSession, CallAt, CallInv, HandlersHeld, RegistryTyped
  <2>2. CASE conn = 0
    <3>1. toolCall' = [toolCall EXCEPT ![c].pc = "done"]
      BY <1>3, <2>2 DEF FindsSession, Ends
    <3> QED
      BY <3>1, CallMovesTo DEF CallPc
  <2>3. CASE conn # 0
    <3>1. toolCall' = [toolCall EXCEPT ![c].pc = "found", ![c].conn = conn]
      BY <1>3, <2>3 DEF FindsSession
    <3>2. toolCall' \in [McpCalls -> ToolCall] /\ toolCall'[c].pc = "found"
      BY <1>1, <2>1, <3>1 DEF ToolCall, CallPc
    <3>3. \A d \in McpCalls \ {c} : toolCall'[d] = toolCall[d]
      BY <1>1, <3>1
    <3> QED
      BY <3>2, <3>3 DEF CallInv, HandlersHeld
  <2> QED
    BY <2>2, <2>3
<1> QED
  BY <1>2, <1>3

\* A call that goes on stays within the types of what it changes.
LEMMA CallStep ==
    ASSUME RegistryTyped, CallInv,
           NEW c \in McpCalls, TakesHandler(c) \/ CallProceeds(c)
    PROVE  CallInv'
<1> DEFINE Moves == \E pc \in CallPc \ {"held"} :
                        toolCall' = [toolCall EXCEPT ![c].pc = pc]
           Readers == [Conns -> McpCalls \cup {None}]
           Notes == [Conns -> {"none", "unread", "read"}]
           Answers == asked' \in SUBSET McpCalls /\ arrived' \in SUBSET McpCalls
           Kept == reader' \in Readers /\ noted' \in Notes /\ Answers
<1>1. /\ toolCall \in [McpCalls -> ToolCall] /\ HandlersHeld
      /\ reader \in Readers /\ noted \in Notes
      /\ asked \in SUBSET McpCalls /\ arrived \in SUBSET McpCalls
  BY DEF CallInv, CallsTyped
<1>2. /\ [reader EXCEPT ![ConnOf(c)] = c] \in Readers
      /\ [reader EXCEPT ![ConnOf(c)] = None] \in Readers
      /\ [noted EXCEPT ![ConnOf(c)] = "read"] \in Notes
  BY <1>1
<1>3. ASSUME Ends(c) PROVE Moves
  BY <1>3 DEF Ends, CallPc
<1>4. ASSUME Skips(c) PROVE reader' \in Readers /\ (Moves \/ toolCall' = toolCall)
  BY <1>1, <1>2, <1>3, <1>4 DEF Skips, Releases
<1>5. ASSUME Kept, \/ Moves \/ toolCall' = toolCall
                   \/ TakesHandler(c) \/ FindsSession(c)
      PROVE  CallInv'
  <2>1. CASE Moves
    BY <1>5, <2>1, CallMovesTo DEF CallInv, CallsTyped
  <2>2. CASE toolCall' = toolCall
    BY <1>1, <1>5, <2>2 DEF CallInv, CallsTyped, HandlersHeld
  <2>3. CASE TakesHandler(c) \/ FindsSession(c)
    BY <1>5, <2>3, CallGoesOn DEF CallInv, CallsTyped
  <2> QED
    BY <1>5, <2>1, <2>2, <2>3
<1>6. CASE TakesHandler(c) \/ FindsSession(c)
  <2>1. Kept
    BY <1>1, <1>6 DEF TakesHandler, FindsSession
  <2> QED
    BY <1>5, <1>6, <2>1
<1>7. CASE SendsRequest(c)
  <2>1. /\ UNCHANGED <<arrived, noted>>
        /\ Sends(c) \/ (Ends(c) /\ UNCHANGED <<asked, reader>>)
    BY <1>7 DEF SendsRequest
  <2>2. CASE Sends(c)
    <3>1. Moves /\ reader' \in Readers /\ asked' \in SUBSET McpCalls
      BY <1>1, <1>2, <2>2 DEF Sends, CallPc
    <3> QED
      BY <1>1, <1>5, <2>1, <3>1
  <2>3. CASE Ends(c) /\ UNCHANGED <<asked, reader>>
    BY <1>1, <1>3, <1>5, <2>1, <2>3
  <2> QED
    BY <2>1, <2>2, <2>3
<1>8. CASE ReadsAnswer(c)
  <2>1. PICK line \in arrived :
            /\ arrived' = arrived \ {line}
            /\ IF line = c THEN Ends(c) /\ Releases(c) ELSE Skips(c)
    BY <1>8 DEF ReadsAnswer
  <2>2. UNCHANGED <<asked, noted>>
    BY <1>8 DEF ReadsAnswer
  <2>3. reader' \in Readers /\ (Moves \/ toolCall' = toolCall)
    BY <1>2, <1>3, <1>4, <2>1 DEF Releases
  <2> QED
    BY <1>1, <1>5, <2>1, <2>2, <2>3
<1>9. CASE SkipsNotification(c)
  <2>1. /\ UNCHANGED <<asked, arrived>>
        /\ noted' = [noted EXCEPT ![ConnOf(c)] = "read"] /\ Skips(c)
    BY <1>9 DEF SkipsNotification
  <2>2. reader' \in Readers /\ (Moves \/ toolCall' = toolCall)
    BY <1>4, <2>1
  <2> QED
    BY <1>1, <1>2, <1>5, <2>1, <2>2
<1>10. CASE MeetsEndOfFile(c)
  <2>1. Ends(c) /\ Releases(c) /\ UNCHANGED <<asked, arrived, noted>>
    BY <1>10 DEF MeetsEndOfFile
  <2> QED
    BY <1>1, <1>2, <1>3, <1>5, <2>1 DEF Releases
<1>11. CASE RegistersWaiter(c) \/ WakesOrTimesOut(c) \/ TakesAnswer(c)
  <2>1. Kept
    BY <1>1, <1>11 DEF RegistersWaiter, WakesOrTimesOut, TakesAnswer
  <2>2. Moves
    BY <1>3, <1>11 DEF RegistersWaiter, WakesOrTimesOut, TakesAnswer, CallPc
  <2> QED
    BY <1>5, <2>1, <2>2
<1> QED
  BY <1>6, <1>7, <1>8, <1>9, <1>10, <1>11 DEF CallProceeds

-----------------------------------------------------------------------------

LEMMA McpStep == McpInv /\ [McpNext]_mcpVars => McpInv'
<1> SUFFICES ASSUME McpInv, [McpNext]_mcpVars PROVE McpInv'
    OBVIOUS
<1> USE DEF McpInv
<1>1. ASSUME UNCHANGED registryVars, ServersTyped' PROVE RegistryInv'
  BY <1>1 DEF registryVars, RegistryInv, RegistryTyped, InHand,
              OfferedToolsAreBacked, Backed
<1>2. ASSUME UNCHANGED callVars PROVE CallInv'
  BY <1>2 DEF callVars, CallInv, CallsTyped, HandlersHeld
<1>3. CASE RegistrySteps
  BY <1>2, <1>3, RegistryStep
<1>4. ASSUME NEW c \in McpCalls, CallSteps(c) PROVE McpInv'
  <2>1. RegistryInv'
    BY <1>1, <1>4 DEF CallSteps, RegistryInv, ServersTyped
  <2>2. CallInv'
    BY <1>4, CallStep DEF CallSteps, RegistryInv
  <2> QED
    BY <2>1, <2>2
<1>5. ASSUME NEW c \in McpCalls, ServerAnswers(c) PROVE McpInv'
  <2>1. RegistryInv'
    BY <1>1, <1>5 DEF ServerAnswers, RegistryInv, ServersTyped
  <2>2. CallInv'
    BY <1>5 DEF ServerAnswers, CallInv, CallsTyped, HandlersHeld
  <2> QED
    BY <2>1, <2>2
<1>6. ASSUME NEW i \in Conns, ServerNotifies(i) PROVE McpInv'
  <2>1. RegistryInv'
    BY <1>1, <1>6 DEF ServerNotifies, RegistryInv, ServersTyped
  <2>2. /\ noted' = [noted EXCEPT ![i] = "unread"]
        /\ UNCHANGED <<reader, toolCall, asked, arrived>>
    BY <1>6 DEF ServerNotifies
  <2>3. CallInv'
    BY <2>2 DEF CallInv, CallsTyped, HandlersHeld
  <2> QED
    BY <2>1, <2>3
<1>7. ASSUME NEW i \in Conns, ServerEnds(i) PROVE McpInv'
  BY <1>1, <1>2, <1>7 DEF ServerEnds, RegistryInv, ServersTyped
<1>8. CASE UNCHANGED mcpVars
  BY <1>1, <1>2, <1>8 DEF mcpVars, registryVars, callVars, RegistryInv, ServersTyped
<1> QED
  BY <1>3, <1>4, <1>5, <1>6, <1>7, <1>8 DEF McpNext, RegistrySteps

LEMMA McpStart == McpInit => McpInv
<1> SUFFICES ASSUME McpInit PROVE McpInv
    OBVIOUS
<1>1. MaxConns \in Nat /\ MaxMcpEdits \in Nat
  BY McpAssumption
<1>2. RegistryTyped /\ ServersTyped
  <2>1. 0 \in 0..MaxConns /\ 0 \in 0..MaxMcpEdits
    BY <1>1
  <2>2. loop \in [op : LoopOp, kind : Remote \cup {"custom", None},
                  conn : 0..MaxConns]
    BY <2>1 DEF McpInit, NoLoop, LoopOp
  <2>3. session \in [Remote -> 0..MaxConns]
    BY <2>1 DEF McpInit
  <2> QED
    BY <2>1, <2>2, <2>3 DEF McpInit, RegistryTyped, ServersTyped
<1>3. InHand /\ OfferedToolsAreBacked
  BY McpAssumption DEF McpInit, InHand, OfferedToolsAreBacked, NoLoop, Remote
<1>4. CallInv
  BY <1>1 DEF McpInit, CallInv, CallsTyped, HandlersHeld, ToolCall, CallPc
<1> QED
  BY <1>2, <1>3, <1>4 DEF McpInv, RegistryInv

LEMMA McpAlways == McpSpec => []McpInv
    BY McpStart, McpStep, PTL DEF McpSpec

-----------------------------------------------------------------------------

\* Whatever the endpoints, the reloads and the servers do, a client that is
\* offered has a session or an entry behind it, except between the steps of
\* the request that makes or unmakes one of its kind: the event loop serves
\* one request at a time, and each leaves the two registries in accord.
THEOREM OffersAreBacked == McpSpec => []OfferedToolsAreBacked
<1>1. McpInv => OfferedToolsAreBacked
  BY DEF McpInv, RegistryInv
<1> QED
  BY <1>1, McpAlways, PTL

-----------------------------------------------------------------------------
(* The composition.                                                        *)

\* What exercises the five modules one at a time behaves like each of them, so
\* the theorems above hold of it.
THEOREM AutomationIsEach ==
    AutomationSpec => CronSpec /\ FieldsSpec /\ BgSpec /\ TaskSpec /\ McpSpec
<1> DEFINE Steps == \/ CronSteps \/ FieldSteps
                    \/ BackgroundSteps \/ TaskSteps \/ McpSteps
<1>1. [Steps]_automationVars => [CronNext]_cronVars
  BY DEF automationVars, CronSteps, FieldSteps, BackgroundSteps, TaskSteps, McpSteps
<1>2. [Steps]_automationVars => [FieldsNext]_fieldVars
  BY DEF automationVars, CronSteps, FieldSteps, BackgroundSteps, TaskSteps, McpSteps
<1>3. [Steps]_automationVars => [BgNext]_bgVars
  BY DEF automationVars, CronSteps, FieldSteps, BackgroundSteps, TaskSteps, McpSteps
<1>4. [Steps]_automationVars => [TaskNext]_taskVars
  BY DEF automationVars, CronSteps, FieldSteps, BackgroundSteps, TaskSteps, McpSteps
<1>5. [Steps]_automationVars => [McpNext]_mcpVars
  BY DEF automationVars, CronSteps, FieldSteps, BackgroundSteps, TaskSteps, McpSteps
<1>6. AutomationInit => CronInit /\ FieldsInit /\ BgInit /\ TaskInit /\ McpInit
  BY DEF AutomationInit
<1> QED
  BY <1>1, <1>2, <1>3, <1>4, <1>5, <1>6, PTL
  DEF AutomationSpec, CronSpec, FieldsSpec, BgSpec, TaskSpec, McpSpec

\* Rows, queues, passes, operations, tasks and connections keep their types.
THEOREM AutomationIsTyped == AutomationSpec => []AutomationTypeOK
<1>1. CronInv => CronTypeOK
  BY DEF CronInv, TableInv, ProcessInv, WorkInv, CronTypeOK, Flags, RowState, Life
<1>2. BgInv => BgTypeOK
  BY DEF BgInv
<1>3. TaskInv => TaskTypeOK
  BY DEF TaskInv
<1>4. McpInv => McpTypeOK
  BY DEF McpInv, RegistryInv, CallInv, RegistryTyped, ServersTyped, CallsTyped,
         McpTypeOK
<1>5. CronTypeOK /\ BgTypeOK /\ TaskTypeOK /\ McpTypeOK => AutomationTypeOK
  BY DEF AutomationTypeOK
<1> QED
  BY <1>1, <1>2, <1>3, <1>4, <1>5, AutomationIsEach, CronAlways, BgAlways,
     McpAlways, TaskStart, TaskStep, PTL DEF TaskSpec
=============================================================================
