----------------------------- MODULE McpClients -----------------------------
(***************************************************************************)
(* The MCP servers an API process is connected to under one name, and the  *)
(* calls of their tools.  Names share nothing, so one is enough.           *)
(*                                                                         *)
(* The client that offers the tools (mcp_clients) and the session behind   *)
(* it (_stdio_mcp_sessions, _sse_mcp_sessions) are kept apart, and a call  *)
(* looks the session up by name.  The endpoints run on the event loop and  *)
(* block it: one request at a time.  Calls run on threads of agents, and   *)
(* so does the reload of the custom servers when a session is created.     *)
(***************************************************************************)
EXTENDS Naturals, Base

CONSTANTS
    McpCalls,     \* calls of tools
    MaxConns,     \* bound on the connections made
    MaxMcpEdits   \* bound on the other requests and reloads

ASSUME McpAssumption ==
    /\ {MaxConns, MaxMcpEdits} \subseteq Nat
    /\ None \notin {"stdio", "sse", "custom", "mock"} \cup McpCalls

VARIABLES
    isMock,       \* the name is one of MOCK_SERVERS, and they are enabled
    pool,         \* mcp_clients: the kind of client under the name
    session,      \* the stdio and the SSE session under the name
    customFile,   \* the name is in .mcp_servers.json
    loading,      \* a new session has read the file and found the name
    loop,         \* the request that blocks the event loop, and its step
    conns,        \* connections so far: numbers the next one
    alive,        \* the connections whose server is alive
    reader,       \* the call that holds the lock of a stdio session
    toolCall,     \* each call
    asked,        \* the requests a server has not answered
    arrived,      \* the answers sent and not taken
    noted,        \* whether a stdio server sent a notification (at most one)
    mcpEdits,     \* other requests and reloads so far
    raced         \* history: the file lost the name during a reload

mcpVars == <<isMock, pool, session, customFile, loading, loop, conns, alive,
             reader, toolCall, asked, arrived, noted, mcpEdits, raced>>

registryVars == <<isMock, pool, session, customFile, loading, loop, mcpEdits,
                  raced>>
callVars == <<reader, toolCall, asked, arrived, noted>>

Remote == {"stdio", "sse"}
Conns == 1..MaxConns

\* A request is one of these steps from its end: the handshake with the
\* server ("connect"), entering the session ("enter") or the custom server's
\* client ("instantiate"), stopping the server ("close"), removing the
\* client ("remove").
LoopOp == {"none", "connect", "enter", "instantiate", "close", "remove"}
NoLoop == [op |-> "none", kind |-> None, conn |-> 0]

\* "held": the agent holds the client's handler; "found": its session was
\* found; "asked": the request is sent (stdio: under the lock);
\* "registered": the SSE call waits; "awake": it has stopped waiting.
CallPc == {"new", "held", "found", "asked", "registered", "awake", "done"}
ToolCall == [pc : CallPc, kind : Remote \cup {None}, conn : 0..MaxConns]

McpTypeOK ==
    /\ {isMock, customFile, loading, raced} \subseteq BOOLEAN
    /\ pool \in Remote \cup {"custom", "mock", None}
    /\ session \in [Remote -> 0..MaxConns]
    /\ loop \in [op : LoopOp, kind : Remote \cup {"custom", None},
                 conn : 0..MaxConns]
    /\ conns \in 0..MaxConns /\ mcpEdits \in 0..MaxMcpEdits
    /\ alive \subseteq Conns
    /\ noted \in [Conns -> {"none", "unread", "read"}]
    /\ reader \in [Conns -> McpCalls \cup {None}]
    /\ toolCall \in [McpCalls -> ToolCall]
    /\ {asked, arrived} \subseteq SUBSET McpCalls

McpInit ==
    /\ isMock \in BOOLEAN /\ customFile \in BOOLEAN
    /\ isMock => ~customFile
    /\ pool = None /\ session = [k \in Remote |-> 0]
    /\ loading = FALSE /\ loop = NoLoop
    /\ conns = 0 /\ alive = {} /\ mcpEdits = 0
    /\ reader = [i \in Conns |-> None]
    /\ toolCall = [c \in McpCalls |->
           [pc |-> "new", kind |-> None, conn |-> 0]]
    /\ asked = {} /\ arrived = {} /\ noted = [i \in Conns |-> "none"]
    /\ raced = FALSE

-----------------------------------------------------------------------------
(* The endpoints: the threads of agents run between the steps of one. *)

LoopIsFree == loop = NoLoop

Edits ==
    /\ LoopIsFree /\ mcpEdits < MaxMcpEdits
    /\ mcpEdits' = mcpEdits + 1

\* connect_stdio_mcp and connect_sse_mcp refuse a name in use, start the
\* server and talk to it while the event loop waits.
StartsConnect(kind) ==
    /\ LoopIsFree /\ pool = None /\ conns < MaxConns
    /\ conns' = conns + 1 /\ alive' = alive \cup {conns'}
    /\ loop' = [op |-> "connect", kind |-> kind, conn |-> conns']
    /\ UNCHANGED <<isMock, pool, session, customFile, loading, mcpEdits,
                   raced, callVars>>

StartsStdio == StartsConnect("stdio")

StartsSse == StartsConnect("sse")

\* The client is entered, over whatever is there by now; or the handshake
\* failed, and the server is left running.
EndsHandshake ==
    /\ loop.op = "connect"
    /\ \/ /\ loop.conn \in alive
          /\ pool' = loop.kind
          /\ loop' = [loop EXCEPT !.op = "enter"]
       \/ loop' = NoLoop /\ UNCHANGED pool
    /\ UNCHANGED <<isMock, session, customFile, loading, conns, alive,
                   mcpEdits, raced, callVars>>

\* The session is entered: until then a call of the client finds none.
EntersSession ==
    /\ loop.op = "enter"
    /\ session' = [session EXCEPT ![loop.kind] = loop.conn]
    /\ loop' = NoLoop
    /\ UNCHANGED <<isMock, pool, customFile, loading, conns, alive, mcpEdits,
                   raced, callVars>>

\* disconnect_mcp removes the client of any kind, and nothing else.
Disconnects ==
    /\ Edits /\ pool # None
    /\ pool' = None
    /\ UNCHANGED <<isMock, session, customFile, loading, loop, conns, alive,
                   raced, callVars>>

\* disconnect_stdio_mcp and disconnect_sse_mcp take the session away ...
StartsDisconnect(kind) ==
    /\ Edits /\ session[kind] # 0
    /\ loop' = [op |-> "close", kind |-> kind, conn |-> session[kind]]
    /\ session' = [session EXCEPT ![kind] = 0]
    /\ UNCHANGED <<isMock, pool, customFile, loading, conns, alive, raced,
                   callVars>>

\* ... stop the process, once they have the lock of its session, or close
\* the stream ...
ClosesConnection ==
    /\ loop.op = "close"
    /\ loop.kind = "stdio" => reader[loop.conn] = None
    /\ alive' = alive \ {loop.conn}
    /\ loop' = [loop EXCEPT !.op = "remove"]
    /\ UNCHANGED <<isMock, pool, session, customFile, loading, conns,
                   mcpEdits, raced, callVars>>

\* ... and remove the client under the name, of whatever kind.
RemovedClient_Left == pool
RemovedClient == None

RemovesClient ==
    /\ loop.op = "remove"
    /\ pool' = RemovedClient
    /\ loop' = NoLoop
    /\ raced' = IF loop.kind = "custom" THEN loading ELSE raced
    /\ UNCHANGED <<isMock, session, customFile, loading, conns, alive,
                   mcpEdits, callVars>>

\* connect_mcp: a mock server, unless the name is in use.
ConnectsMock ==
    /\ Edits /\ isMock /\ pool = None
    /\ pool' = "mock"
    /\ UNCHANGED <<isMock, session, customFile, loading, loop, conns, alive,
                   raced, callVars>>

\* register_custom_server and remove_custom_server save the file; the client
\* comes and goes in a step of its own, whatever client the name has; never
\* for a mock server's name.
RegistersCustom ==
    /\ Edits /\ ~isMock
    /\ customFile' = TRUE
    /\ loop' = [op |-> "instantiate", kind |-> "custom", conn |-> 0]
    /\ UNCHANGED <<isMock, pool, session, loading, conns, alive, raced,
                   callVars>>

InstantiatesCustom ==
    /\ loop.op = "instantiate"
    /\ pool' = "custom"
    /\ loop' = NoLoop
    /\ UNCHANGED <<isMock, session, customFile, loading, conns, alive,
                   mcpEdits, raced, callVars>>

RemovesCustom ==
    /\ Edits /\ ~isMock /\ customFile
    /\ customFile' = FALSE
    /\ loop' = [op |-> "remove", kind |-> "custom", conn |-> 0]
    /\ UNCHANGED <<isMock, pool, session, loading, conns, alive, raced,
                   callVars>>

\* load_all_custom_servers, from the endpoint: in one step on the loop.
ReloadsCustom ==
    /\ Edits /\ customFile
    /\ pool' = "custom"
    /\ UNCHANGED <<isMock, session, customFile, loading, loop, conns, alive,
                   raced, callVars>>

\* The same from a thread that creates a session: other steps come between
\* reading the file and entering the client.
StartsReload ==
    /\ mcpEdits < MaxMcpEdits /\ ~loading /\ customFile
    /\ mcpEdits' = mcpEdits + 1
    /\ loading' = TRUE
    /\ UNCHANGED <<isMock, pool, session, customFile, loop, conns, alive,
                   raced, callVars>>

FinishesReload ==
    /\ loading
    /\ loading' = FALSE /\ pool' = "custom"
    /\ UNCHANGED <<isMock, session, customFile, loop, conns, alive, mcpEdits,
                   raced, callVars>>

-----------------------------------------------------------------------------
(* Calls of tools *)

CallAt(c, pc) == toolCall[c].pc = pc
ConnOf(c) == toolCall[c].conn
OnStdio(c) == toolCall[c].kind = "stdio"

\* With an answer, or with an error text.
Ends(c) == toolCall' = [toolCall EXCEPT ![c].pc = "done"]

Releases(c) == reader' = [reader EXCEPT ![ConnOf(c)] = None]

\* assemble_tool_pool gives the agent the handler of the client of now.
TakesHandler(c) ==
    /\ CallAt(c, "new") /\ pool \in Remote
    /\ toolCall' = [toolCall EXCEPT ![c].pc = "held", ![c].kind = pool]
    /\ UNCHANGED <<reader, asked, arrived, noted>>

\* The handler looks its session up by name: another one, or none, by now.
FindsSession(c) ==
    /\ CallAt(c, "held")
    /\ LET conn == session[toolCall[c].kind]
       IN IF conn = 0 THEN Ends(c)
          ELSE toolCall' = [toolCall EXCEPT ![c].pc = "found",
                                            ![c].conn = conn]
    /\ UNCHANGED <<reader, asked, arrived, noted>>

\* The request is sent, for stdio once the call has the session's lock.
Sends(c) ==
    /\ toolCall' = [toolCall EXCEPT ![c].pc = "asked"]
    /\ asked' = asked \cup {c}
    /\ reader' = IF OnStdio(c) THEN [reader EXCEPT ![ConnOf(c)] = c]
                 ELSE reader

\* Sending to a server that is gone may fail, or not: a pipe takes it, and so
\* does an SSE server whose stream was closed.
SendsRequest(c) ==
    /\ CallAt(c, "found")
    /\ OnStdio(c) => reader[ConnOf(c)] = None
    /\ \/ Sends(c)
       \/ ConnOf(c) \notin alive /\ Ends(c) /\ UNCHANGED <<asked, reader>>
    /\ UNCHANGED <<arrived, noted>>

\* _recv_response: readline returns a line; one that is not an answer with
\* the id of the request is skipped, and the next is read unless time is up.
Skips(c) ==
    \/ UNCHANGED <<toolCall, reader>>
    \/ Ends(c) /\ Releases(c)

ReadsAnswer(c) ==
    /\ CallAt(c, "asked") /\ OnStdio(c)
    /\ \E line \in arrived :
         /\ OnStdio(line) /\ ConnOf(line) = ConnOf(c)
         /\ arrived' = arrived \ {line}
         /\ IF line = c THEN Ends(c) /\ Releases(c) ELSE Skips(c)
    /\ UNCHANGED <<asked, noted>>

SkipsNotification(c) ==
    /\ CallAt(c, "asked") /\ OnStdio(c) /\ noted[ConnOf(c)] = "unread"
    /\ noted' = [noted EXCEPT ![ConnOf(c)] = "read"]
    /\ Skips(c)
    /\ UNCHANGED <<asked, arrived>>

\* At the end of the output readline returns at once, until time is up.
MeetsEndOfFile(c) ==
    /\ CallAt(c, "asked") /\ OnStdio(c)
    /\ ConnOf(c) \notin alive /\ noted[ConnOf(c)] # "unread"
    /\ \A line \in arrived : ~(OnStdio(line) /\ ConnOf(line) = ConnOf(c))
    /\ Ends(c) /\ Releases(c)
    /\ UNCHANGED <<asked, arrived, noted>>

\* _sse_recv_response: the answer is there, or the call registers and waits
\* until it is woken or time is up; then it looks again, and ends.
RegistersWaiter(c) ==
    /\ CallAt(c, "asked") /\ ~OnStdio(c)
    /\ IF c \in arrived THEN Ends(c)
       ELSE toolCall' = [toolCall EXCEPT ![c].pc = "registered"]
    /\ arrived' = arrived \ {c}
    /\ UNCHANGED <<reader, asked, noted>>

WakesOrTimesOut(c) ==
    /\ CallAt(c, "registered")
    /\ toolCall' = [toolCall EXCEPT ![c].pc = "awake"]
    /\ UNCHANGED <<reader, asked, arrived, noted>>

TakesAnswer(c) ==
    /\ CallAt(c, "awake")
    /\ Ends(c)
    /\ arrived' = arrived \ {c}
    /\ UNCHANGED <<reader, asked, noted>>

CallProceeds(c) ==
    \/ FindsSession(c) \/ SendsRequest(c)
    \/ ReadsAnswer(c) \/ SkipsNotification(c) \/ MeetsEndOfFile(c)
    \/ RegistersWaiter(c) \/ WakesOrTimesOut(c) \/ TakesAnswer(c)

-----------------------------------------------------------------------------
(* The servers *)

\* A server answers, however late; it may write what nobody asked for; it
\* may end.
ServerAnswers(c) ==
    /\ c \in asked /\ ConnOf(c) \in alive
    /\ asked' = asked \ {c} /\ arrived' = arrived \cup {c}
    /\ UNCHANGED <<registryVars, conns, alive, reader, toolCall, noted>>

ServerNotifies(i) ==
    /\ i \in alive /\ noted[i] = "none" /\ reader[i] # None
    /\ noted' = [noted EXCEPT ![i] = "unread"]
    /\ UNCHANGED <<registryVars, conns, alive, reader, toolCall, asked,
                   arrived>>

ServerEnds(i) ==
    /\ i \in alive
    /\ alive' = alive \ {i}
    /\ UNCHANGED <<registryVars, conns, callVars>>

Requests ==
    \/ StartsStdio \/ StartsSse
    \/ Disconnects \/ \E kind \in Remote : StartsDisconnect(kind)
    \/ ConnectsMock \/ RegistersCustom \/ RemovesCustom \/ ReloadsCustom
    \/ StartsReload

LoopProceedsMcp ==
    \/ EndsHandshake \/ EntersSession \/ InstantiatesCustom
    \/ ClosesConnection \/ RemovesClient

CallSteps(c) ==
    /\ TakesHandler(c) \/ CallProceeds(c)
    /\ UNCHANGED <<registryVars, conns, alive>>

McpNext ==
    \/ Requests \/ LoopProceedsMcp \/ FinishesReload
    \/ \E c \in McpCalls : CallSteps(c) \/ ServerAnswers(c)
    \/ \E i \in Conns : ServerNotifies(i) \/ ServerEnds(i)

McpSpec == McpInit /\ [][McpNext]_mcpVars

\* Is the event loop in a handshake over stdio?  Its readline has no timeout:
\* it returns when the server writes a line or ends.
InStdioHandshake == loop.op = "connect" /\ loop.kind = "stdio"

\* Threads are scheduled and the event loop runs on; what waits over SSE
\* times out.  No server is assumed to answer.
McpFairness ==
    /\ \A c \in McpCalls :
         WF_mcpVars(CallProceeds(c) /\ UNCHANGED <<registryVars, conns,
                                                   alive>>)
    /\ WF_mcpVars(/\ InStdioHandshake => loop.conn \notin alive
                  /\ LoopProceedsMcp)

-----------------------------------------------------------------------------
(* Properties *)

\* What a client needs to serve a call: its session; or its entry in the
\* file, unless that was removed while a new session loaded it.
Backed(kind) ==
    IF kind = "custom" THEN customFile \/ raced ELSE session[kind] # 0

\* A client that is offered to agents is backed, whatever requests, reloads
\* and ends of servers there were: it is not only between the steps of a
\* request that connects or disconnects one of its kind, when its calls fail
\* with "not connected".
OfferedToolsAreBacked ==
    pool \in Remote \cup {"custom"} => Backed(pool) \/ loop.kind = pool

\* The stdio server is alive and has not answered the call that holds the
\* lock of its session.
Silent(conn) == conn \in alive /\ reader[conn] \in asked

\* A call of a tool ends, and a request lets go of the event loop - or one
\* stdio server stays silent for ever, to the call, to an earlier one on its
\* session, or in the handshake: no timeout bounds such a wait.
McpCallsEnd ==
    /\ \A c \in McpCalls :
         \/ []<>(toolCall[c].pc \in {"new", "held", "done"})
         \/ <>[](OnStdio(c) /\ Silent(ConnOf(c)))
    /\ \/ []<>LoopIsFree
       \/ <>[](\/ InStdioHandshake /\ loop.conn \in alive
               \/ loop.kind = "stdio" /\ Silent(loop.conn))
=============================================================================
