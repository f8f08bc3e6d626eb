---------------------------- MODULE CronScheduler ----------------------------
(***************************************************************************)
(* Cron jobs: the dictionary of jobs each process keeps, the cron_jobs     *)
(* table behind it, the scheduler thread that claims a due job for the     *)
(* minute and queues it, the single worker that executes the queue, and    *)
(* the requests that schedule and cancel jobs.                             *)
(*                                                                         *)
(* Processes share the table and nothing else: a database that locks the   *)
(* rows a claim selects, as PostgreSQL does.  A process loads the table    *)
(* once, at its first chat, before its scheduler thread starts.  Saving    *)
(* takes a snapshot of the process's durable jobs and writes it back       *)
(* later, row by row, until a write fails; the rows of one snapshot are    *)
(* written in one step here, since writes of different jobs commute.       *)
(* Every job is due in every minute: CronFields has the matching.          *)
(***************************************************************************)
EXTENDS Naturals, Sequences, FiniteSets, Base

CONSTANTS
    CronProcs,        \* processes with a scheduler thread
    CronJobs,         \* job ids (bounds how many jobs are scheduled)
    CronEdits,        \* requests that schedule or cancel a job
    MaxMinute,        \* bound on the clock
    MaxCronCrashes    \* bound on crashes, each followed by a restart

ASSUME CronAssumption ==
    /\ None \notin CronJobs \cup CronProcs
    /\ MaxMinute \in Nat \ {0}
    /\ MaxCronCrashes \in Nat

VARIABLES
    minute,      \* the clock, truncated to minutes
    kind,        \* recurring and durable flags of each job
    cronRows,    \* the cron_jobs table: last_fired_at of each row
    scheduled,   \* scheduled_jobs of each process
    lastFired,   \* _last_fired of each process, for jobs that are not durable
    scheduler,   \* the scheduler thread of each process
    cronQueue,   \* _cron_execution_queue of each process
    cronWorker,  \* the job the worker of each process executes
    reserved,    \* _pending_job_ids of each process
    edit,        \* the schedule and cancel requests
    cronCrashes, \* number of crashes
    wins,        \* history: how often a job was claimed for a minute
    life         \* history: what became of the row of a job

cronVars == <<minute, kind, cronRows, scheduled, lastFired, scheduler,
              cronQueue, cronWorker, reserved, edit, cronCrashes, wins,
              life>>

Minutes == 1..MaxMinute
Never == 0
Gone == [present |-> FALSE, fired |-> Never]
Stored == [present |-> TRUE, fired |-> Never]

\* "at" is the minute of the pass; "due" the jobs not handled yet; "won" the
\* durable ones claimed; "snap" a snapshot about to be written.  While a
\* process loads the table, "due" is what it has read.
SchedulerPc == {"off", "loading", "idle", "claiming", "firing", "writing",
                "dead"}
Pass == [pc : SchedulerPc, at : 0..MaxMinute, due : SUBSET CronJobs,
         won : SUBSET CronJobs, changed : BOOLEAN, snap : SUBSET CronJobs]
EditPc == {"new", "saving", "writing", "inserting", "deleting", "done"}
Request == [pc : EditPc, proc : CronProcs \cup {None},
            job : CronJobs \cup {None}, cancels : BOOLEAN,
            snap : SUBSET CronJobs]

CronTypeOK ==
    /\ minute \in Minutes
    /\ kind \in [CronJobs -> [recurring : BOOLEAN, durable : BOOLEAN]]
    /\ cronRows \in [CronJobs -> [present : BOOLEAN, fired : 0..MaxMinute]]
    /\ scheduled \in [CronProcs -> SUBSET CronJobs]
    /\ lastFired \in [CronProcs -> [CronJobs -> 0..MaxMinute]]
    /\ scheduler \in [CronProcs -> Pass]
    /\ cronQueue \in [CronProcs -> Seq(CronJobs)]
    /\ cronWorker \in [CronProcs -> CronJobs \cup {None}]
    /\ reserved \in [CronProcs -> SUBSET CronJobs]
    /\ edit \in [CronEdits -> Request]
    /\ cronCrashes \in 0..MaxCronCrashes
    /\ wins \in [CronJobs -> [Minutes -> Nat]]
    /\ life \in [CronJobs -> {"new", "stored", "erased", "reborn"}]

IdlePass == [pc |-> "idle", at |-> 0, due |-> {}, won |-> {},
             changed |-> FALSE, snap |-> {}]
NoThread == [IdlePass EXCEPT !.pc = "off"]
NewEdit == [pc |-> "new", proc |-> None, job |-> None, cancels |-> FALSE,
            snap |-> {}]

CronInit ==
    /\ minute = 1
    /\ kind = [j \in CronJobs |-> [recurring |-> TRUE, durable |-> TRUE]]
    /\ cronRows = [j \in CronJobs |-> Gone]
    /\ scheduled = [p \in CronProcs |-> {}]
    /\ lastFired = [p \in CronProcs |-> [j \in CronJobs |-> Never]]
    /\ scheduler = [p \in CronProcs |-> NoThread]
    /\ cronQueue = [p \in CronProcs |-> <<>>]
    /\ cronWorker = [p \in CronProcs |-> None]
    /\ reserved = [p \in CronProcs |-> {}]
    /\ edit = [e \in CronEdits |-> NewEdit]
    /\ cronCrashes = 0
    /\ wins = [j \in CronJobs |-> [m \in Minutes |-> 0]]
    /\ life = [j \in CronJobs |-> "new"]

Durable(j) == kind[j].durable
work == <<cronQueue, cronWorker, reserved>>

-----------------------------------------------------------------------------
(* The table.                                                              *)

\* upsert_cron_jobs: an existing row keeps last_fired_at, a missing row is
\* inserted without one.
UpsertRows(js) ==
    /\ cronRows' = [j \in CronJobs |->
           IF j \in js /\ ~cronRows[j].present THEN Stored ELSE cronRows[j]]
    /\ life' = [j \in CronJobs |->
           IF j \notin js THEN life[j]
           ELSE IF life[j] \in {"erased", "reborn"} THEN "reborn"
           ELSE "stored"]

\* delete_cron_job.
DeleteRow(j) ==
    /\ cronRows' = [cronRows EXCEPT ![j] = Gone]
    /\ life' = [life EXCEPT ![j] = IF @ = "reborn" THEN @ ELSE "erased"]

\* claim_due_cron_jobs: a row is won unless it was fired in this minute; the
\* same transaction writes the minute.
Wins_Unread(j, at) == cronRows[j].present
Wins(j, at) == cronRows[j].present /\ cronRows[j].fired < at

\* The snapshot a save takes.
Snapshot(p) == {j \in scheduled[p] : Durable(j)}

-----------------------------------------------------------------------------
(* Requests.                                                               *)

\* schedule_job enters the job in the dictionary.  A durable job is saved
\* with all others; one that is not durable gets a row of its own as well.
Schedules(e, p, j, k) ==
    /\ edit[e].pc = "new"
    /\ life[j] = "new"
    /\ \A f \in CronEdits : edit[f].job # j
    /\ kind' = [kind EXCEPT ![j] = k]
    /\ scheduled' = [scheduled EXCEPT ![p] = @ \cup {j}]
    /\ edit' = [edit EXCEPT ![e] =
           [pc |-> IF k.durable THEN "saving" ELSE "inserting", proc |-> p,
            job |-> j, cancels |-> FALSE, snap |-> {}]]
    /\ UNCHANGED <<minute, cronRows, lastFired, scheduler, work, cronCrashes,
                   wins, life>>

\* Of a request that is done only its job is remembered: an id is used once.
Served(e) == [NewEdit EXCEPT !.pc = "done", !.job = edit[e].job]

Inserts(e) ==
    /\ edit[e].pc = "inserting"
    /\ UpsertRows({edit[e].job})
    /\ edit' = [edit EXCEPT ![e] = Served(e)]
    /\ UNCHANGED <<minute, kind, scheduled, lastFired, scheduler, work,
                   cronCrashes, wins>>

\* cancel_job takes the job out of this process's dictionary.
Cancels(e, p, j) ==
    /\ edit[e].pc = "new"
    /\ j \in scheduled[p]
    /\ scheduled' = [scheduled EXCEPT ![p] = @ \ {j}]
    /\ lastFired' = [lastFired EXCEPT ![p][j] = Never]
    /\ edit' = [edit EXCEPT ![e] =
           [pc |-> "saving", proc |-> p, job |-> j, cancels |-> TRUE,
            snap |-> {}]]
    /\ UNCHANGED <<minute, kind, cronRows, scheduler, work, cronCrashes, wins,
                   life>>

\* save_durable_jobs: the snapshot, under the lock ...
TakesSnapshot(e) ==
    /\ edit[e].pc = "saving"
    /\ edit' = [edit EXCEPT ![e].pc = "writing",
                            ![e].snap = Snapshot(edit[e].proc)]
    /\ UNCHANGED <<minute, kind, cronRows, scheduled, lastFired, scheduler,
                   work, cronCrashes, wins, life>>

\* ... and the rows, without it.
WritesSnapshot(e) ==
    /\ edit[e].pc = "writing"
    /\ \E written \in SUBSET edit[e].snap : UpsertRows(written)
    /\ edit' = [edit EXCEPT ![e] =
           IF edit[e].cancels THEN [edit[e] EXCEPT !.pc = "deleting", !.snap = {}]
           ELSE Served(e)]
    /\ UNCHANGED <<minute, kind, scheduled, lastFired, scheduler, work,
                   cronCrashes, wins>>

\* cancel_job ends by deleting the row.
DeletesCancelled(e) ==
    /\ edit[e].pc = "deleting"
    /\ DeleteRow(edit[e].job)
    /\ edit' = [edit EXCEPT ![e] = Served(e)]
    /\ UNCHANGED <<minute, kind, scheduled, lastFired, scheduler, work,
                   cronCrashes, wins>>

\* A request whose single row the database refuses ends there.
RowFails(e) ==
    /\ edit[e].pc \in {"inserting", "deleting"}
    /\ edit' = [edit EXCEPT ![e] = Served(e)]
    /\ UNCHANGED <<minute, kind, cronRows, scheduled, lastFired, scheduler,
                   work, cronCrashes, wins, life>>

-----------------------------------------------------------------------------
(* The scheduler thread.                                                   *)

Scheduling(p, pc) == scheduler[p].pc = pc

\* The first chat of a process reads every row, durable or not; a read that
\* fails is nothing read ...
FetchesRows(p) ==
    /\ Scheduling(p, "off")
    /\ \E due \in {{}, {j \in CronJobs : cronRows[j].present}} :
           scheduler' = [scheduler EXCEPT ![p] =
               [IdlePass EXCEPT !.pc = "loading", !.due = due]]
    /\ UNCHANGED <<minute, kind, cronRows, scheduled, lastFired, work, edit,
                   cronCrashes, wins, life>>

\* ... enters them in the dictionary, whatever became of them since, and
\* starts the thread.
EntersRows(p) ==
    /\ Scheduling(p, "loading")
    /\ scheduled' = [scheduled EXCEPT ![p] = @ \cup scheduler[p].due]
    /\ scheduler' = [scheduler EXCEPT ![p] = IdlePass]
    /\ UNCHANGED <<minute, kind, cronRows, lastFired, work, edit, cronCrashes,
                   wins, life>>

\* A pass takes the minute and the enabled, due jobs.
ScansJobs(p) ==
    /\ Scheduling(p, "idle")
    /\ scheduled[p] # {}
    /\ scheduler' = [scheduler EXCEPT ![p] =
           [IdlePass EXCEPT !.pc = "claiming", !.at = minute,
                            !.due = scheduled[p]]]
    /\ UNCHANGED <<minute, kind, cronRows, scheduled, lastFired, work, edit,
                   cronCrashes, wins, life>>

\* The durable jobs are claimed in the table.
ClaimsJobs(p) ==
    /\ Scheduling(p, "claiming")
    /\ LET at == scheduler[p].at
           won == {j \in scheduler[p].due : Durable(j) /\ Wins(j, at)}
       IN  /\ cronRows' = [j \in CronJobs |->
                  IF j \in won THEN [cronRows[j] EXCEPT !.fired = at]
                  ELSE cronRows[j]]
           /\ wins' = [j \in CronJobs |->
                  IF j \in won THEN [wins[j] EXCEPT ![at] = @ + 1]
                  ELSE wins[j]]
           /\ scheduler' = [scheduler EXCEPT ![p].pc = "firing",
                                             ![p].won = won]
    /\ UNCHANGED <<minute, kind, scheduled, lastFired, work, edit, cronCrashes,
                   life>>

\* An error of the database ends the thread, for good: while it claims ...
SchedulerDies(p) ==
    /\ Scheduling(p, "claiming")
    /\ \E j \in scheduler[p].due : Durable(j)
    /\ scheduler' = [scheduler EXCEPT ![p] = [IdlePass EXCEPT !.pc = "dead"]]
    /\ UNCHANGED <<minute, kind, cronRows, scheduled, lastFired, work, edit,
                   cronCrashes, wins, life>>

\* A job that is not durable passes the gate of its process.
Gated(p, j) ==
    IF Durable(j) THEN j \in scheduler[p].won
    ELSE lastFired[p][j] < scheduler[p].at

\* _reserve_job refuses a job that is queued or running.
MayReserve_Always(p, j) == TRUE
MayReserve(p, j) == j \notin reserved[p]

Enqueue(p, j) ==
    IF MayReserve(p, j)
    THEN /\ reserved' = [reserved EXCEPT ![p] = @ \cup {j}]
         /\ cronQueue' = [cronQueue EXCEPT ![p] = Append(@, j)]
    ELSE UNCHANGED <<reserved, cronQueue>>

\* A job that lost is skipped.
SkipsJob(p, j) ==
    /\ Scheduling(p, "firing")
    /\ j \in scheduler[p].due
    /\ ~Gated(p, j)
    /\ scheduler' = [scheduler EXCEPT ![p].due = @ \ {j}]
    /\ UNCHANGED <<minute, kind, cronRows, scheduled, lastFired, work, edit,
                   cronCrashes, wins, life>>

\* A recurring job is queued unless it is pending.
FiresRecurring(p, j) ==
    /\ Scheduling(p, "firing")
    /\ j \in scheduler[p].due
    /\ Gated(p, j)
    /\ kind[j].recurring
    /\ scheduler' = [scheduler EXCEPT ![p].due = @ \ {j}]
    /\ lastFired' = IF Durable(j) THEN lastFired
                    ELSE [lastFired EXCEPT ![p][j] = scheduler[p].at]
    /\ Enqueue(p, j)
    /\ UNCHANGED <<minute, kind, cronRows, scheduled, cronWorker, edit,
                   cronCrashes, wins, life>>

\* A one-shot job leaves the dictionary and the table first.
FiresOneShot(p, j) ==
    /\ Scheduling(p, "firing")
    /\ j \in scheduler[p].due
    /\ Gated(p, j)
    /\ ~kind[j].recurring
    /\ scheduler' = [scheduler EXCEPT ![p].due = @ \ {j}, ![p].changed = TRUE]
    /\ scheduled' = [scheduled EXCEPT ![p] = @ \ {j}]
    /\ lastFired' = [lastFired EXCEPT ![p][j] = Never]
    /\ DeleteRow(j)
    /\ Enqueue(p, j)
    /\ UNCHANGED <<minute, kind, cronWorker, edit, cronCrashes, wins>>

\* ... and while it deletes the row of a one-shot: the job has left the
\* dictionary and is not queued.
LosesOneShot(p, j) ==
    /\ Scheduling(p, "firing")
    /\ j \in scheduler[p].due
    /\ Gated(p, j)
    /\ ~kind[j].recurring
    /\ scheduler' = [scheduler EXCEPT ![p] = [IdlePass EXCEPT !.pc = "dead"]]
    /\ scheduled' = [scheduled EXCEPT ![p] = @ \ {j}]
    /\ lastFired' = [lastFired EXCEPT ![p][j] = Never]
    /\ UNCHANGED <<minute, kind, cronRows, work, edit, cronCrashes, wins, life>>

\* The pass ends; when a one-shot fired, all durable jobs are saved.
EndsPass(p) ==
    /\ Scheduling(p, "firing")
    /\ scheduler[p].due = {}
    /\ scheduler' = [scheduler EXCEPT ![p] =
           IF scheduler[p].changed
           THEN [IdlePass EXCEPT !.pc = "writing", !.snap = Snapshot(p)]
           ELSE IdlePass]
    /\ UNCHANGED <<minute, kind, cronRows, scheduled, lastFired, work, edit,
                   cronCrashes, wins, life>>

SchedulerWrites(p) ==
    /\ Scheduling(p, "writing")
    /\ \E written \in SUBSET scheduler[p].snap : UpsertRows(written)
    /\ scheduler' = [scheduler EXCEPT ![p] = IdlePass]
    /\ UNCHANGED <<minute, kind, scheduled, lastFired, work, edit, cronCrashes,
                   wins>>

-----------------------------------------------------------------------------
(* The worker, the clock, and the processes.                               *)

WorkerTakes(p) ==
    /\ cronWorker[p] = None /\ cronQueue[p] # <<>>
    /\ cronWorker' = [cronWorker EXCEPT ![p] = Head(cronQueue[p])]
    /\ cronQueue' = [cronQueue EXCEPT ![p] = Tail(@)]
    /\ UNCHANGED <<minute, kind, cronRows, scheduled, lastFired, scheduler,
                   reserved, edit, cronCrashes, wins, life>>

\* The execution ends, well or not, and its reservation is released.
WorkerEnds(p) ==
    /\ cronWorker[p] # None
    /\ cronWorker' = [cronWorker EXCEPT ![p] = None]
    /\ reserved' = [reserved EXCEPT ![p] = @ \ {cronWorker[p]}]
    /\ UNCHANGED <<minute, kind, cronRows, scheduled, lastFired, scheduler,
                   cronQueue, edit, cronCrashes, wins, life>>

MinutePasses ==
    /\ minute < MaxMinute
    /\ minute' = minute + 1
    /\ UNCHANGED <<kind, cronRows, scheduled, lastFired, scheduler, work, edit,
                   cronCrashes, wins, life>>

\* A process crashes and is started again, with nothing in memory.
CronCrashes(p) ==
    /\ cronCrashes < MaxCronCrashes
    /\ cronCrashes' = cronCrashes + 1
    /\ scheduled' = [scheduled EXCEPT ![p] = {}]
    /\ lastFired' = [lastFired EXCEPT ![p] = [j \in CronJobs |-> Never]]
    /\ scheduler' = [scheduler EXCEPT ![p] = NoThread]
    /\ cronQueue' = [cronQueue EXCEPT ![p] = <<>>]
    /\ cronWorker' = [cronWorker EXCEPT ![p] = None]
    /\ reserved' = [reserved EXCEPT ![p] = {}]
    /\ edit' = [e \in CronEdits |->
           IF edit[e].proc = p THEN Served(e) ELSE edit[e]]
    /\ UNCHANGED <<minute, kind, cronRows, wins, life>>

-----------------------------------------------------------------------------

CronNext ==
    \/ \E e \in CronEdits :
         \/ \E p \in CronProcs, j \in CronJobs :
              \/ \E k \in [recurring : BOOLEAN, durable : BOOLEAN] :
                   Schedules(e, p, j, k)
              \/ Cancels(e, p, j)
         \/ Inserts(e) \/ TakesSnapshot(e) \/ WritesSnapshot(e)
         \/ DeletesCancelled(e) \/ RowFails(e)
    \/ \E p \in CronProcs :
         \/ FetchesRows(p) \/ EntersRows(p)
         \/ ScansJobs(p) \/ ClaimsJobs(p) \/ SchedulerDies(p)
         \/ \E j \in CronJobs :
              \/ SkipsJob(p, j) \/ FiresRecurring(p, j)
              \/ FiresOneShot(p, j) \/ LosesOneShot(p, j)
         \/ EndsPass(p) \/ SchedulerWrites(p)
         \/ WorkerTakes(p) \/ WorkerEnds(p)
         \/ CronCrashes(p)
    \/ MinutePasses

CronSpec == CronInit /\ [][CronNext]_cronVars

-----------------------------------------------------------------------------
(* Properties.                                                             *)

\* A durable job is claimed at most once in a minute, by any process, before
\* or after a restart - unless its row was deleted and inserted again.  The
\* README's known limitations (715) keep the deduplication of cron to one
\* process.  That is so of a job that is not durable: it has a row as well,
\* every process that loads the table fires it, and each passes its own gate
\* alone.  The claim of a durable job is in the row.
MinuteWonOnce ==
    \A j \in CronJobs, m \in Minutes :
        wins[j][m] > 1 => life[j] = "reborn"

\* cron.py repositories, 196-198: "a job can be claimed for a given minute
\* exactly once, across processes and across restarts".
ClaimedOncePerMinute == \A j \in CronJobs, m \in Minutes : wins[j][m] <= 1

\* In a process a job is queued or running at most once, and it is reserved
\* exactly that long: a reservation left behind would keep it from ever
\* firing again.
OneExecutionPerJob ==
    \A p \in CronProcs, j \in CronJobs :
        LET queued == {i \in DOMAIN cronQueue[p] : cronQueue[p][i] = j} IN
        /\ Cardinality(queued) <= (IF cronWorker[p] = j THEN 0 ELSE 1)
        /\ j \in reserved[p] <=> queued # {} \/ cronWorker[p] = j
=============================================================================
