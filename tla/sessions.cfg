\* Run recovery with one chat, two resume requests and a crash; the
\* session manager with two chats and two other requests; a history of up
\* to two tool rounds and three chats, resumed runs or interruptions; two
\* memory systems, two records, three operations and a failure; one tool
\* call and two changes of its surroundings.
CONSTANTS
    Parts = {"recovery", "sessions", "context", "memory",
             "tools"}
    RunChats = {x1}
    Resumes = {r1, r2}
    Calls = {k1, k2}
    MaxCrashes = 1
    MaxResets = 1
    Chatters = {x1, x2}
    Agents = {g1, g2}
    Titles = {t1}
    MaxEdits = 2
    MaxRounds = 2
    MaxChats = 3
    SnipAt = 6
    KeepTail = 2
    MaxTurns = 3
    MaxRecoveries = 1
    Systems = {i1, i2}
    MaxRecords = 2
    c1 = c1
    c2 = c2
    c3 = c3
    Contents = {c1, c2, c3}
    e1 = e1
    v1 = v1
    v2 = v2
    Keys = {e1}
    Values = {v1, v2}
    Details <- FactsAndEntities
    Alike <- NearlySame
    Same <- SameText
    MaxMemoryOps = 3
    MaxFailures = 1
    Targets = {y1, y2}
    AskedTools = {"bash", "write_file", "target_read_file",
                  "target_edit_file", "target_restart", "target_deploy",
                  "delete_memory", "mcp_query", "mcp_query_destructive",
                  "mcp_create", "unknown_tool"}
    MaxToolCalls = 1
    MaxToolEdits = 2
    None = None
SPECIFICATION SessionsSpec
INVARIANT SessionsTypeOK
INVARIANT SafePointIsComplete
INVARIANT OneStreamPerRun
INVARIANT SessionRunsAlone
INVARIANT RowFollowsAgent
INVARIANT StaleCancelStopsNobody
INVARIANT SentPairsHold
INVARIANT ActiveMemoriesAgree
INVARIANT SupersessionEnds
 
PROPERTY CompletedIsFinal
PROPERTY OthersKept
PROPERTY StreamsEnd
\* A finite set of requests: once they are served the system rests.
CHECK_DEADLOCK FALSE
