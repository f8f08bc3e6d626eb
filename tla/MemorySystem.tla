---------------------------- MODULE MemorySystem ----------------------------
(***************************************************************************)
(* Long-term memory (agent/memory): the instances of MemorySystem of one   *)
(* process over the table of memories.  Every instance keeps a copy of all *)
(* records; an operation runs under the process-wide _memory_lock, reloads *)
(* the copy when the table's generation marker has changed, edits the copy *)
(* and writes the whole copy back.  The constructor does not take the      *)
(* lock: its SELECT and its reading of the marker are two steps.           *)
(*                                                                         *)
(* One scope, and one type of entity, which comes and goes with the key:   *)
(* records of other scopes never meet.  A content stands for a content     *)
(* hash.  memory_repo's marker (count, newest updated_at, accesses) is a   *)
(* counter that every write raises.  Access statistics, tags, confidence   *)
(* and "supersedes", the audit twin of superseded_by, are left out, and so *)
(* is consolidate(), which nothing calls.                                  *)
(***************************************************************************)
EXTENDS Base, Naturals, FiniteSets, Functions

CONSTANTS
    Systems,          \* instances of MemorySystem: agents and requests
    MaxRecords,       \* bound: memories ever recorded
    Contents,         \* contents of memories
    Keys,             \* entity keys
    Values,           \* values of an entity key
    Details,          \* type, key and value of new memories
    Alike,            \* pairs as similar as MEMORY_NEAR_DUP_THRESHOLD
    Same,             \* pairs as similar as MEMORY_AUTO_MERGE_THRESHOLD
    MaxMemoryOps,     \* bound: operations
    MaxFailures       \* bound: saves that fail

ASSUME MemoryAssumption ==
    /\ MaxRecords \in Nat /\ MaxMemoryOps \in Nat /\ MaxFailures \in Nat
    /\ Details \subseteq BOOLEAN \X (Keys \cup {None}) \X (Values \cup {None})
    /\ Alike \subseteq Contents \X Contents
    /\ Same \subseteq Alike
    /\ None \notin Contents \cup Keys \cup Values \cup Systems

VARIABLES
    memories,         \* the table
    generation,       \* its marker
    opened,           \* instance -> how far its constructor got
    copies,           \* instance -> MemorySystem.memories
    seen,             \* instance -> _generation
    memoryOps,        \* counts operations against the bound
    failures,         \* counts failed saves against the bound
    \* history, which no operation reads
    misled,           \* instance -> why its copy may differ unnoticed
    tainted,          \* a copy fetched before another's write was saved
    filled            \* records whose key or value a merge filled in

bookVars == <<memoryOps, failures>>
memoryHistory == <<misled, tainted, filled>>
memoryVars ==
    <<memories, generation, opened, copies, seen, bookVars, memoryHistory>>

\* The identifiers of records, in the order of created_at.
MemIds == 1 .. MaxRecords

\* models.MemoryRecord; "absent" for an id that is not in the list.
MemoryRow ==
    [status : {"absent", "active", "archived", "candidate", "deleted"},
     content : Contents \cup {None}, entity : BOOLEAN,
     key : Keys \cup {None}, value : Values \cup {None}, by : MemIds \cup {None}]

\* The list without the record.
NoMemory ==
    [status |-> "absent", content |-> None, entity |-> FALSE,
     key |-> None, value |-> None, by |-> None]

NoMemories == [m \in MemIds |-> NoMemory]

MemoryInit ==
    /\ memories = NoMemories
    /\ generation = 0
    /\ opened = [a \in Systems |-> "no"]
    /\ copies = [a \in Systems |-> NoMemories]
    /\ seen = [a \in Systems |-> 0]
    /\ memoryOps = 0
    /\ failures = 0
    /\ misled = [a \in Systems |-> "no"]
    /\ tainted = FALSE
    /\ filled = {}

-----------------------------------------------------------------------------
(* What the operations of the lifecycle make of a list L of memories.      *)

\* The memories of L in one of the states S.
InState(L, S) == {m \in MemIds : L[m].status \in S}

\* Those that hold content c.
Holding(L, c, S) == {m \in InState(L, S) : L[m].content = c}

\* "next(...)": the first in the order of the list.
FirstOf(S) == CHOOSE m \in S : \A n \in S : m <= n

\* Active memories that do not give the entity key of a row its value: none
\* are sought for a row that is no entity or lacks the key or the value.
Conflicts(L, row) ==
    {m \in InState(L, {"active"}) :
        /\ row.entity /\ None \notin {row.key, row.value}
        /\ L[m].entity /\ L[m].key = row.key /\ L[m].value # row.value}

\* _archive_entity_conflicts: memory m supersedes the memories S.
Superseded(L, S, m) ==
    [n \in MemIds |->
        IF n \in S THEN [L[n] EXCEPT !.status = "archived", !.by = m]
        ELSE L[n]]

\* A field is filled only when it was empty.
FilledWith(v, w) == IF v = None THEN w ELSE v

\* A memory takes over the key and the value it lacks from another row.
TakesOver(row, other) ==
    [row EXCEPT !.key = FilledWith(row.key, other.key),
                !.value = FilledWith(row.value, other.value)]

\* _merge_record: s is archived in favour of t.
Merged(L, t, s) ==
    [L EXCEPT ![t] = TakesOver(L[t], L[s]),
              ![s].status = "archived",
              ![s].by = t]

\* add(): a memory with the same content absorbs the new one; else the
\* new record supersedes the values it contradicts, and is then merged
\* into a near duplicate or waits for approval beside it.  Which near
\* duplicate is the best one is left open.
Added(L, m, row) ==
    LET twins == Holding(L, row.content, {"active", "candidate"})
        kept == Superseded(L, Conflicts(L, row), m)
        near(pairs) ==
            {n \in InState(kept, {"active"}) :
                /\ kept[n].entity = row.entity
                /\ None \in {row.key, kept[n].key} \/ kept[n].key = row.key
                /\ <<row.content, kept[n].content>> \in pairs}
        new(status) == [kept EXCEPT ![m] = [row EXCEPT !.status = status]]
    IN  CASE twins # {} ->
                {[L EXCEPT ![FirstOf(twins)] = TakesOver(@, row)]}
          [] twins = {} /\ near(Same) # {} ->
                {Merged(new("active"), t, m) : t \in near(Same)}
          [] twins = {} /\ near(Same) = {} /\ near(Alike) # {} ->
                {new("candidate")}
          [] OTHER -> {new("active")}

\* Mutant: an edit is applied without looking for its double.
Updated_Unmerged(L, m, new) ==
    IF L[m].status # "active" THEN [L EXCEPT ![m] = new]
    ELSE [Superseded(L, Conflicts(L, new) \ {m}, m)
             EXCEPT ![m] = new]

\* update(): the edit of an active memory is dropped when another active
\* memory already has the new content; the two are merged.
Updated(L, m, new) ==
    LET twins == Holding(L, new.content, {"active"}) \ {m}
        old == Conflicts(L, new) \ {m}
    IN  CASE L[m].status # "active" -> [L EXCEPT ![m] = new]
          [] L[m].status = "active" /\ twins # {} ->
                Merged(L, FirstOf(twins), m)
          [] OTHER -> [Superseded(L, old, m) EXCEPT ![m] = new]

\* Mutant: a restored memory keeps the name of its successor.
Revived_Kept(L, m) ==
    LET twins == Holding(L, L[m].content, {"active"}) \ {m}
        old == Conflicts(L, L[m]) \ {m}
    IN  IF twins # {} THEN Merged(L, FirstOf(twins), m)
        ELSE [Superseded(L, old, m) EXCEPT ![m].status = "active"]

\* restore(), which approve() calls for a candidate.
Revived(L, m) ==
    LET twins == Holding(L, L[m].content, {"active"}) \ {m}
        old == Conflicts(L, L[m]) \ {m}
    IN  IF twins # {} THEN Merged(L, FirstOf(twins), m)
        ELSE [Superseded(L, old, m) EXCEPT ![m].status = "active",
                                           ![m].by = None]

-----------------------------------------------------------------------------
(* The store: copies, the marker and the write of a whole copy.            *)

\* Mutant: an operation works on the copy as it is.
Current_Cached(a) == copies[a]

\* _reload_if_changed: the list an operation starts from.
Current(a) == IF seen[a] = generation THEN copies[a] ELSE memories

\* A reloaded copy is a true one.
MisledNow(a) == IF seen[a] = generation THEN misled[a] ELSE "no"

\* _save: every record of the copy is written, whoever changed it.
Persists(a, L) ==
    /\ memories' = [m \in MemIds |->
            IF L[m].status = "absent" THEN memories[m] ELSE L[m]]
    /\ generation' = generation + 1
    /\ copies' = [copies EXCEPT ![a] = L]
    /\ seen' = [seen EXCEPT ![a] = generation + 1]
    /\ misled' = [misled EXCEPT ![a] = MisledNow(a)]
    /\ tainted' = (tainted \/ MisledNow(a) = "raced")
    /\ UNCHANGED failures

\* The database refuses the write: the copy keeps the unsaved edit.
SaveRaises(a, L) ==
    /\ failures < MaxFailures
    /\ failures' = failures + 1
    /\ copies' = [copies EXCEPT ![a] = L]
    /\ seen' = [seen EXCEPT ![a] = generation]
    /\ misled' = [misled EXCEPT ![a] =
            IF MisledNow(a) = "raced" THEN "raced" ELSE "unsaved"]
    /\ UNCHANGED <<memories, generation, tainted>>

\* An operation on record m turns the list into L and saves it.
Operation(a, m, L) ==
    /\ opened[a] = "yes"
    /\ memoryOps < MaxMemoryOps
    /\ memoryOps' = memoryOps + 1
    /\ filled' = filled \cup {n \in MemIds \ {m} :
            \/ Current(a)[n].key = None /\ L[n].key # None
            \/ Current(a)[n].value = None /\ L[n].value # None}
    /\ Persists(a, L) \/ SaveRaises(a, L)
    /\ UNCHANGED opened

\* The memories an operation of a can name.
Found(a) == {m \in MemIds : Current(a)[m].status # "absent"}

\* Ids no list knows: uuid4.
Fresh ==
    {m \in MemIds : \A L \in Range(copies) \cup {memories} :
        L[m].status = "absent"}

-----------------------------------------------------------------------------
(* Operations                                                              *)

\* MemorySystem(): the SELECT of _load, outside the lock.
Fetches(a) ==
    /\ opened[a] = "no"
    /\ opened' = [opened EXCEPT ![a] = "fetched"]
    /\ copies' = [copies EXCEPT ![a] = memories]
    /\ UNCHANGED <<memories, generation, seen, bookVars, misled, tainted,
                   filled>>

\* MemorySystem(): _load reads the marker afterwards.
Marks(a) ==
    /\ opened[a] = "fetched"
    /\ opened' = [opened EXCEPT ![a] = "yes"]
    /\ seen' = [seen EXCEPT ![a] = generation]
    /\ misled' = [misled EXCEPT ![a] =
            IF copies[a] = memories THEN "no" ELSE "raced"]
    /\ UNCHANGED <<memories, generation, copies, bookVars, tainted, filled>>

\* get(), select() and every operation that is refused or changes nothing.
Looks(a) ==
    /\ opened[a] = "yes" /\ seen[a] # generation
    /\ copies' = [copies EXCEPT ![a] = memories]
    /\ seen' = [seen EXCEPT ![a] = generation]
    /\ misled' = [misled EXCEPT ![a] = "no"]
    /\ UNCHANGED <<memories, generation, opened, bookVars, tainted, filled>>

\* flush_access_stats() loads, adds the counts and saves.
FlushesAccess(a) ==
    /\ opened[a] = "yes"
    /\ InState(copies[a], {"active"}) # {}
    /\ memoryOps < MaxMemoryOps
    /\ memoryOps' = memoryOps + 1
    /\ generation' = generation + 1
    /\ copies' = [copies EXCEPT ![a] = memories]
    /\ seen' = [seen EXCEPT ![a] = generation + 1]
    /\ misled' = [misled EXCEPT ![a] = "no"]
    /\ UNCHANGED <<memories, opened, failures, tainted, filled>>

\* add_memory: a fact or an entity, with or without a key and a value.
AddsMemory(a) ==
    \E c \in Contents, d \in Details :
        LET m == FirstOf(Fresh \cup {MaxRecords + 1})
            row == [status |-> "active", content |-> c, entity |-> d[1],
                    key |-> d[2], value |-> d[3], by |-> None]
        IN  /\ \/ m \in MemIds
               \/ Holding(Current(a), c, {"active", "candidate"}) # {}
            /\ \E L \in Added(Current(a), m, row) : Operation(a, m, L)

\* update_memory: a new content, or a key for an entity and its value.
UpdatesMemory(a) ==
    \E m \in Found(a) :
        LET row == Current(a)[m]
        IN  \/ \E c \in Contents \ {row.content} :
                Operation(a, m, Updated(Current(a), m,
                                    [row EXCEPT !.content = c]))
            \/ \E k \in Keys, v \in Values \cup {None} :
                Operation(a, m, Updated(Current(a), m,
                    [row EXCEPT !.entity = TRUE, !.key = k, !.value = v]))

\* archive_memory
ArchivesMemory(a) ==
    \E m \in Found(a) :
        /\ Current(a)[m].status # "archived"
        /\ Operation(a, m, [Current(a) EXCEPT ![m].status = "archived"])

\* delete_memory, which keeps the record.
DeletesMemory(a) ==
    \E m \in Found(a) :
        /\ Current(a)[m].status # "deleted"
        /\ Operation(a, m, [Current(a) EXCEPT ![m].status = "deleted"])

\* restore_memory
RestoresMemory(a) ==
    \E m \in Found(a) : Operation(a, m, Revived(Current(a), m))

\* approve_memory and the endpoint: only a candidate.
ApprovesMemory(a) ==
    \E m \in InState(Current(a), {"candidate"}) :
        Operation(a, m, Revived(Current(a), m))

MemoryNext ==
    \E a \in Systems :
        \/ Fetches(a) \/ Marks(a) \/ Looks(a) \/ FlushesAccess(a)
        \/ AddsMemory(a) \/ UpdatesMemory(a)
        \/ ArchivesMemory(a) \/ DeletesMemory(a)
        \/ RestoresMemory(a) \/ ApprovesMemory(a)

MemorySpec == MemoryInit /\ [][MemoryNext]_memoryVars

-----------------------------------------------------------------------------
(* Properties                                                              *)

MemoryTypeOK ==
    /\ memories \in [MemIds -> MemoryRow]
    /\ generation \in Nat
    /\ opened \in [Systems -> {"no", "fetched", "yes"}]
    /\ copies \in [Systems -> [MemIds -> MemoryRow]]
    /\ seen \in [Systems -> Nat]
    /\ filled \subseteq MemIds
    /\ misled \in [Systems -> {"no", "raced", "unsaved"}]

\* Two entities give one key different values.
Contradict(L, m, n) ==
    /\ L[m].entity /\ L[n].entity
    /\ L[m].key = L[n].key /\ L[m].value # L[n].value
    /\ None \notin {L[m].key, L[m].value, L[n].value}

\* Active memories do not contradict each other: no two hold the same
\* content, and no two entities give a key different values (lifecycle,
\* the searches for duplicates and conflicts of add, update and restore).
\* Two exceptions: a merge that fills in the key or the value of a memory
\* does not look for conflicts, and nothing is said once a copy that was
\* fetched across another's write has been written.
ActiveMemoriesAgree ==
    ~tainted =>
        \A m, n \in InState(memories, {"active"}) :
            m # n =>
                /\ memories[m].content # memories[n].content
                /\ Contradict(memories, m, n) => {m, n} \cap filled # {}

\* Whoever follows superseded_by from a memory arrives: it names records
\* that exist, never leads in a circle, and is empty for a memory in use
\* (_archive_entity_conflicts, _merge_record, restore).
SupersessionEnds ==
    LET replaced == {m \in MemIds : memories[m].by # None}
    IN  ~tainted =>
        /\ \A m \in replaced :
            /\ memories[memories[m].by].status # "absent"
            /\ memories[m].status \in {"archived", "deleted"}
        /\ \A S \in (SUBSET replaced) \ {{}} :
            \E m \in S : memories[m].by \notin S

\* This step is a save of instance a.
SavedBy(a) == generation' # generation /\ seen'[a] = generation'

\* A save writes every record of a copy, yet changes only those its own
\* operation changed: no other instance's update is lost (store.py,
\* _save under _reload_if_changed), unless the copy was fetched across
\* another's write or holds the edit of a save that failed.
OthersKept ==
    [][\A a \in Systems : SavedBy(a) /\ MisledNow(a) = "no" =>
           \A m \in MemIds : memories'[m] # memories[m] =>
               copies'[a][m] # Current(a)[m]]_memoryVars
=============================================================================
