--------------------------- MODULE BackgroundTasks ---------------------------
(***************************************************************************)
(* Background commands: an agent run starts one and goes on, a worker      *)
(* thread executes it, later runs collect the results, and a restart marks *)
(* what was running as failed.                                             *)
(*                                                                         *)
(* One server.  background_tasks and background_results live in the        *)
(* process and are changed under background_lock; rows are copied from     *)
(* them by separate transactions.  An id is the second and a counter: the  *)
(* counter alone tells ids of one second apart, and nothing tells ids of   *)
(* two starts apart that read the counter after both have incremented it.  *)
(* A restart begins another second, hence the counter goes on in the model.*)
(***************************************************************************)
EXTENDS Naturals, FiniteSets, Base

CONSTANTS
    Starts,         \* calls of start_background_task
    Collectors,     \* agent runs that collect results when they begin
    MaxBgCrashes    \* bound on crashes

ASSUME BackgroundAssumption ==
    /\ None \notin Starts \cup Collectors
    /\ IsFiniteSet(Starts)
    /\ MaxBgCrashes \in Nat

VARIABLES
    counter,    \* _bg_counter
    start,      \* each call of start_background_task and its worker thread
    bgTasks,    \* background_tasks: status and notified flag
    bgRows,     \* the background_tasks table: the status
    collector,  \* each collecting run
    bgUp,       \* is the server running?
    bgCrashes,  \* number of crashes
    delivered,  \* history: the ids each run was told about
    overlapped  \* history: pairs of runs that collected at the same time

bgVars == <<counter, start, bgTasks, bgRows, collector, bgUp, bgCrashes,
            delivered, overlapped>>

bgProcess == <<bgUp, bgCrashes>>
told == <<delivered, overlapped>>

BgIds == 1..Cardinality(Starts)
BgStatus == {"none", "running", "completed", "failed"}
StartPc == {"new", "counted", "entered", "starting", "working", "finished",
            "persisting", "done"}

BgTypeOK ==
    /\ counter \in 0..Cardinality(Starts)
    /\ start \in [Starts -> [pc : StartPc, id : BgIds \cup {0},
                           copy : BgStatus]]
    /\ bgTasks \in [BgIds -> [status : BgStatus, notified : BOOLEAN]]
    /\ bgRows \in [BgIds -> BgStatus]
    /\ collector \in [Collectors -> [pc : {"new", "telling", "done"},
                                     ready : SUBSET BgIds]]
    /\ bgUp \in BOOLEAN
    /\ bgCrashes \in 0..MaxBgCrashes
    /\ delivered \in [Collectors -> SUBSET BgIds]
    /\ overlapped \subseteq SUBSET Collectors

NoTask == [status |-> "none", notified |-> FALSE]

BgInit ==
    /\ counter = 0
    /\ start = [s \in Starts |-> [pc |-> "new", id |-> 0, copy |-> "none"]]
    /\ bgTasks = [b \in BgIds |-> NoTask]
    /\ bgRows = [b \in BgIds |-> "none"]
    /\ collector = [c \in Collectors |-> [pc |-> "new", ready |-> {}]]
    /\ bgUp = TRUE
    /\ bgCrashes = 0
    /\ delivered = [c \in Collectors |-> {}]
    /\ overlapped = {}

BgAt(s, pc) == bgUp /\ start[s].pc = pc

-----------------------------------------------------------------------------
(* Starting and working.                                                   *)

\* The counter is incremented ...
CountsUp(s) ==
    /\ BgAt(s, "new")
    /\ counter' = counter + 1
    /\ start' = [start EXCEPT ![s].pc = "counted"]
    /\ UNCHANGED <<bgTasks, bgRows, collector, bgProcess, told>>

\* ... and read again for the id, under which the task is entered.
EntersTask(s) ==
    /\ BgAt(s, "counted")
    /\ start' = [start EXCEPT ![s].pc = "entered", ![s].id = counter]
    /\ bgTasks' = [bgTasks EXCEPT ![counter] =
           [status |-> "running", notified |-> FALSE]]
    /\ UNCHANGED <<counter, bgRows, collector, bgProcess, told>>

\* _persist_task copies the record under the lock ...
CopiesTask(s) ==
    /\ BgAt(s, "entered") \/ BgAt(s, "finished")
    /\ start' = [start EXCEPT
           ![s].pc = IF @ = "entered" THEN "starting" ELSE "persisting",
           ![s].copy = bgTasks[start[s].id].status]
    /\ UNCHANGED <<counter, bgTasks, bgRows, collector, bgUp, bgCrashes,
                   delivered, overlapped>>

\* ... and writes the row after it: before the worker thread is started ...
StartsWorker(s) ==
    /\ BgAt(s, "starting")
    /\ bgRows' = [bgRows EXCEPT ![start[s].id] = start[s].copy]
    /\ start' = [start EXCEPT ![s].pc = "working"]
    /\ UNCHANGED <<counter, bgTasks, collector, bgProcess, told>>

\* ... and, whatever happened, as the last thing a worker does.
WorkerPersists_Completed(s) ==
    /\ BgAt(s, "persisting")
    /\ bgRows' = IF start[s].copy = "failed" THEN bgRows
                 ELSE [bgRows EXCEPT ![start[s].id] = start[s].copy]
    /\ start' = [start EXCEPT ![s].pc = "done"]
    /\ UNCHANGED <<counter, bgTasks, collector, bgProcess, told>>

WorkerPersists(s) ==
    /\ BgAt(s, "persisting")
    /\ bgRows' = [bgRows EXCEPT ![start[s].id] = start[s].copy]
    /\ start' = [start EXCEPT ![s].pc = "done"]
    /\ UNCHANGED <<counter, bgTasks, collector, bgProcess, told>>

\* The command ends, or it raises.
WorkerFinishes(s) ==
    /\ BgAt(s, "working")
    /\ \E status \in {"completed", "failed"} :
         bgTasks' = [bgTasks EXCEPT ![start[s].id].status = status]
    /\ start' = [start EXCEPT ![s].pc = "finished"]
    /\ UNCHANGED <<counter, bgRows, collector, bgProcess, told>>

-----------------------------------------------------------------------------
(* Collecting.                                                             *)

Ready_Unmarked == {b \in BgIds : bgTasks[b].status = "completed"}
Ready == {b \in BgIds : bgTasks[b].status = "completed"
                        /\ ~bgTasks[b].notified}

\* collect_background_results lists what is ready ...
Lists(c) ==
    /\ bgUp /\ collector[c].pc = "new"
    /\ collector' = [collector EXCEPT ![c] =
           [pc |-> "telling", ready |-> Ready]]
    /\ overlapped' = overlapped \cup
           {{c, d} : d \in {d \in Collectors : collector[d].pc = "telling"}}
    /\ UNCHANGED <<counter, start, bgTasks, bgRows, bgProcess,
                   delivered>>

\* ... then, releasing the lock in between, marks and tells one at a time.
Tells(c) ==
    /\ bgUp /\ collector[c].pc = "telling"
    /\ \E b \in collector[c].ready :
         /\ bgTasks' = [bgTasks EXCEPT ![b].notified = TRUE]
         /\ delivered' = [delivered EXCEPT ![c] = @ \cup {b}]
         /\ collector' = [collector EXCEPT ![c].ready = @ \ {b}]
    /\ UNCHANGED <<counter, start, bgRows, bgProcess, overlapped>>

EndsTelling(c) ==
    /\ bgUp /\ collector[c].pc = "telling"
    /\ collector[c].ready = {}
    /\ collector' = [collector EXCEPT ![c].pc = "done"]
    /\ UNCHANGED <<counter, start, bgTasks, bgRows, bgProcess, told>>

-----------------------------------------------------------------------------
(* Crash and restart.                                                      *)

\* Threads, tasks and results of the process are gone.
BgCrashes ==
    /\ bgUp /\ bgCrashes < MaxBgCrashes
    /\ bgUp' = FALSE
    /\ bgCrashes' = bgCrashes + 1
    /\ start' = [s \in Starts |->
           IF start[s].pc = "new" THEN start[s]
           ELSE [start[s] EXCEPT !.pc = "done"]]
    /\ bgTasks' = [b \in BgIds |-> NoTask]
    /\ collector' = [c \in Collectors |->
           [pc |-> IF collector[c].pc = "new" THEN "new" ELSE "done",
            ready |-> {}]]
    /\ UNCHANGED <<counter, bgRows, told>>

\* recover_interrupted_background_tasks; tasks are not loaded back.
Recovered_Interrupted(status) ==
    IF status = "running" THEN "interrupted" ELSE status
Recovered(status) == IF status = "running" THEN "failed" ELSE status

BgRestarts ==
    /\ ~bgUp
    /\ bgUp' = TRUE
    /\ bgRows' = [b \in BgIds |-> Recovered(bgRows[b])]
    /\ UNCHANGED <<counter, start, bgTasks, collector, bgCrashes, told>>

-----------------------------------------------------------------------------

StartGoesOn(s) == EntersTask(s) \/ CopiesTask(s) \/ StartsWorker(s)
                  \/ WorkerFinishes(s) \/ WorkerPersists(s)
CollectorGoesOn(c) == Tells(c) \/ EndsTelling(c)

BgNext ==
    \/ \E s \in Starts : CountsUp(s) \/ StartGoesOn(s)
    \/ \E c \in Collectors : Lists(c) \/ CollectorGoesOn(c)
    \/ BgCrashes
    \/ BgRestarts

BgSpec == BgInit /\ [][BgNext]_bgVars

\* Threads are scheduled and commands end.
BgFairness ==
    /\ \A s \in Starts : WF_bgVars(StartGoesOn(s))
    /\ \A c \in Collectors : WF_bgVars(CollectorGoesOn(c))

-----------------------------------------------------------------------------
(* Properties.                                                             *)

Shared(b) == \E s, t \in Starts : s # t /\ start[s].id = b /\ start[t].id = b

\* While the server runs, a row says "running" only while a thread is at
\* work on the task: neither a failed command nor a crash leaves a row that
\* runs for ever.  Two tasks under one id may.
RunningRowHasThread ==
    bgUp => \A b \in BgIds :
        bgRows[b] = "running" /\ ~Shared(b) =>
            \E s \in Starts : start[s].pc \notin {"new", "counted", "done"}
                              /\ start[s].id = b

\* A result is told to two runs only when one listed what is ready while the
\* other was telling, or two tasks had one id.
ToldOnce ==
    \A c, d \in Collectors : \A b \in delivered[c] \cap delivered[d] :
        c = d \/ {c, d} \in overlapped \/ Shared(b)

\* Background tasks end, or the server has crashed.
BackgroundEnds == []<>(\A s \in Starts : start[s].pc \in {"new", "done"})
=============================================================================
