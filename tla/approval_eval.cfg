\* Evaluation trials alone: each decides its own approvals.
CONSTANTS
    c1 = c1  c2 = c2  h1 = h1  h2 = h2  h3 = h3
    api = api  api2 = api2  eval = eval  eval2 = eval2
    Procs = {eval, eval2}
    Chats = {c1, c2}
    Unattended = {c1, c2}
    Handlers = {}
    Actions = {a1, a2}
    ProcOf <- Trials
    MaxTurns = 1
    None = None
SPECIFICATION FairSpec
INVARIANT AtMostOneExecution
INVARIANT OnlyApprovedExecute
INVARIANT ExecutedMeansSuccess
\* A finite set of requests: once they are served the system rests.
CHECK_DEADLOCK FALSE
