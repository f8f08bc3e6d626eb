\* Does "either field" apply only when both fields are restricted?
CONSTANTS
    Parts = {"fields"}
    CronProcs = {p1}
    CronJobs = {j1, j2}
    CronEdits = {e1, e2}
    MaxMinute = 1
    MaxCronCrashes = 1
    MaxDay = 3
    MaxWeekday = 1
    MaxItems = 1
    Starts = {s1}
    Collectors = {l1}
    MaxBgCrashes = 0
    TaskIds = {t1}
    TaskOps = {o1}
    McpCalls = {m1}
    MaxConns = 0
    MaxMcpEdits = 0
    None = None
SPECIFICATION AutomationSpec
INVARIANT EitherOnlyIfBothRestricted
\* Requests are finite in number: once they are served the system rests.
CHECK_DEADLOCK FALSE
