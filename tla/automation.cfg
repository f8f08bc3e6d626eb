\* Two cron processes with one job, two requests, two minutes and a crash;
\* cron fields of up to two items; two background tasks, two collecting runs
\* and a crash; five operations on two tasks; two calls over up to two
\* connections to one MCP server, and two other requests.
CONSTANTS
    Parts = {"cron", "fields", "background", "tasks", "mcp"}
    CronProcs = {p1, p2}
    CronJobs = {j1}
    CronEdits = {e1, e2}
    MaxMinute = 2
    MaxCronCrashes = 1
    MaxDay = 2
    MaxWeekday = 1
    MaxItems = 2
    Starts = {s1, s2}
    Collectors = {l1, l2}
    MaxBgCrashes = 1
    TaskIds = {t1, t2}
    TaskOps = {o1, o2, o3, o4, o5}
    McpCalls = {m1, m2}
    MaxConns = 2
    MaxMcpEdits = 2
    None = None
SPECIFICATION AutomationSpec
INVARIANT AutomationTypeOK
INVARIANT MinuteWonOnce
INVARIANT OneExecutionPerJob
INVARIANT FiresOnTheDaysMeant
INVARIANT RunningRowHasThread
INVARIANT ToldOnce
INVARIANT ClaimsAreExclusive
INVARIANT OfferedToolsAreBacked
PROPERTY AutomationEnds
\* Requests are finite in number: once they are served the system rests.
CHECK_DEADLOCK FALSE
