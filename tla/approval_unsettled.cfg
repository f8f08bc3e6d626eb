\* A confirmed action is never executed and stays confirmed.
CONSTANTS
    c1 = c1  c2 = c2  h1 = h1  h2 = h2  h3 = h3
    api = api  api2 = api2  eval = eval  eval2 = eval2
    Procs = {api}
    Chats = {c1}
    Unattended = {}
    Handlers = {h1, h2}
    Actions = {a1, a2}
    ProcOf <- AllInOne
    MaxTurns = 1
    None = None
SPECIFICATION SupervisedSpec
PROPERTY ApprovedIsSettled
\* A finite set of requests: once they are served the system rests.
CHECK_DEADLOCK FALSE
