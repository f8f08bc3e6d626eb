\* The message history alone: is a result ever sent without its call?
CONSTANTS
    Parts = {"context"}
    RunChats = {x1}
    Resumes = {r1, r2}
    Calls = {k1, k2}
    MaxCrashes = 1
    MaxResets = 1
    Chatters = {x1, x2}
    Agents = {g1, g2}
    Titles = {t1}
    MaxEdits = 2
    MaxRounds = 2
    MaxChats = 1
    SnipAt = 6
    KeepTail = 2
    MaxTurns = 3
    MaxRecoveries = 1
    Systems = {i1, i2}
    MaxRecords = 2
    c1 = c1
    c2 = c2
    c3 = c3
    Contents = {c1, c2, c3}
    e1 = e1
    v1 = v1
    v2 = v2
    Keys = {e1}
    Values = {v1, v2}
    Details <- FactsAndEntities
    Alike <- NearlySame
    Same <- SameText
    MaxMemoryOps = 3
    MaxFailures = 1
    Targets = {y1, y2}
    AskedTools = {"bash", "write_file", "target_read_file",
                  "target_edit_file", "target_restart", "target_deploy",
                  "delete_memory", "mcp_query", "mcp_query_destructive",
                  "mcp_create", "unknown_tool"}
    MaxToolCalls = 0
    MaxToolEdits = 0
    None = None
SPECIFICATION SessionsSpec
INVARIANT EveryResultHasItsCall
\* Chats and rounds are bounded: the history rests at the bound.
CHECK_DEADLOCK FALSE
