--------------------------- MODULE SessionManager ---------------------------
(***************************************************************************)
(* Live sessions of one server and their row: get_or_create with its TTL   *)
(* eviction and restoration, chats that run one at a time under run_lock,  *)
(* cancelling, resetting, renaming, and the saves that read a session row  *)
(* and then write it.                                                      *)
(*                                                                         *)
(* One session id.  Endpoints are coroutines without an await between      *)
(* their calls (variable desk: the chat whose endpoint occupies the event  *)
(* loop); the runs are threads beside them.  Deployments have one          *)
(* configured principal or several roles with access, so ownership checks  *)
(* pass and are left out.  A message is known by the chat it belongs to.   *)
(***************************************************************************)
EXTENDS Naturals, Sequences, Base

CONSTANTS
    Chatters,    \* chat requests for the session
    Agents,      \* agent objects the process may create (a bound)
    Titles,      \* titles a user may give
    MaxEdits     \* bound on cancel, reset and rename requests

ASSUME SessionAssumption ==
    /\ None \notin Chatters \cup Agents \cup Titles
    /\ MaxEdits \in Nat

VARIABLES
    live,       \* _sessions[session_id]: the agent, or None
    agents,     \* messages, run id, run_lock and cancel_event of each agent
    sessionRow, \* the sessions row with its messages, or NoSession
    chat,       \* the request of each chat
    desk,       \* the chat whose endpoint occupies the event loop
    edits,      \* number of cancel, reset and rename requests
    disturbed,  \* history: what was changed under a chat in progress
    title,      \* history: the title the user gave last
    asked       \* history: the chats that were running when cancel was called

sessionVars == <<live, agents, sessionRow, chat, desk, edits, disturbed,
                 title, asked>>

\* A chat leaves at most two messages: the user's and the answer.
Message == Chatters \X {"user", "answer"}

Agent == [messages : Seq(Message), hasRun : BOOLEAN,
          lock : Chatters \cup {None}, cancel : BOOLEAN, used : BOOLEAN]

NoSession == [present |-> FALSE, title |-> None, messages |-> <<>>]

\* "copy" is what a save has read and is about to write.
ChatPc == {"new", "saving", "locking", "working", "stopped", "answered",
           "done"}
Chat == [pc : ChatPc, next : ChatPc \ {"saving"}, agent : Agents \cup {None},
         copy : [title : Titles \cup {None}, messages : Seq(Message)]]

SessionTypeOK ==
    /\ live \in Agents \cup {None}
    /\ agents \in [Agents -> Agent]
    /\ sessionRow \in [present : BOOLEAN, title : Titles \cup {None},
                       messages : Seq(Message)]
    /\ chat \in [Chatters -> Chat]
    /\ desk \in Chatters \cup {None}
    /\ edits \in 0..MaxEdits
    /\ disturbed \subseteq {"evicted", "overlapped", "reset"}
    /\ title \in Titles \cup {None}
    /\ asked \subseteq Chatters

NewAgentObject == [messages |-> <<>>, hasRun |-> FALSE, lock |-> None,
                   cancel |-> FALSE, used |-> FALSE]
NewChat == [pc |-> "new", next |-> "new", agent |-> None,
            copy |-> [title |-> None, messages |-> <<>>]]

SessionInit ==
    /\ live = None
    /\ agents = [a \in Agents |-> NewAgentObject]
    /\ sessionRow = NoSession
    /\ chat = [c \in Chatters |-> NewChat]
    /\ desk = None
    /\ edits = 0
    /\ disturbed = {}
    /\ title = None
    /\ asked = {}

\* A chat that holds or waits for its agent's run_lock.
InProgress(c) == chat[c].pc \notin {"new", "done"}

\* A chat past the point where it clears cancel_event.
RunPhase == {"working", "stopped", "answered"}
Running(c) ==
    \/ chat[c].pc \in RunPhase
    \/ chat[c].pc = "saving" /\ chat[c].next \in RunPhase

\* Keep in "disturbed" that something happened while the condition held.
Notes(what, condition) ==
    disturbed' = disturbed \cup IF condition THEN {what} ELSE {}

-----------------------------------------------------------------------------
(* Saving.                                                                 *)

\* save_session: read the row for its title and take the messages along ...
Save(c, a, messages, next) ==
    chat' = [chat EXCEPT ![c] =
        [pc |-> "saving", next |-> next, agent |-> a,
         copy |-> [title |-> sessionRow.title, messages |-> messages]]]

\* ... then write the whole record.
Writes(c) ==
    /\ chat[c].pc = "saving"
    /\ sessionRow' = [present |-> TRUE, title |-> chat[c].copy.title,
                      messages |-> chat[c].copy.messages]
    /\ chat' = [chat EXCEPT ![c].pc = chat[c].next, ![c].next = "new",
                            ![c].copy = NewChat.copy]
    /\ desk' = IF desk = c THEN None ELSE desk
    /\ Notes("overlapped", \E d \in Chatters \ {c} : chat[d].pc = "saving")
    /\ UNCHANGED <<live, agents, edits, title, asked>>

-----------------------------------------------------------------------------
(* Chat endpoints.                                                         *)

\* A new agent takes over the messages of the row.
Restored_Empty == <<>>
Restored == sessionRow.messages

\* get_or_create: the live agent, unless cleanup_expired evicts it - which
\* looks only at the time of the last request -, or a new one.
Finds(a, expired) == ~expired /\ a = live

Creates(a, expired) == (expired \/ live = None) /\ ~agents[a].used

GetOrCreate(a, expired) ==
    /\ expired => live # None
    /\ live' = a
    /\ \/ Finds(a, expired) /\ UNCHANGED agents
       \/ /\ Creates(a, expired)
          /\ agents' = [agents EXCEPT ![a] =
                 [NewAgentObject EXCEPT !.used = TRUE, !.messages = Restored]]
    /\ Notes("evicted", expired /\ \E d \in Chatters : InProgress(d))

\* A session without a row is saved at once; so is one whose target the chat
\* changes ("target", activate_target).
MustSave(a, target) == target \/ (a # live /\ ~sessionRow.present)

\* A chat arrives.
Arrives(c, a, expired, target) ==
    /\ chat[c].pc = "new"
    /\ desk = None
    /\ GetOrCreate(a, expired)
    /\ IF MustSave(a, target)
       THEN /\ Save(c, a, agents'[a].messages, "locking")
            /\ desk' = c
       ELSE /\ chat' = [chat EXCEPT ![c].pc = "locking", ![c].agent = a]
            /\ UNCHANGED desk
    /\ UNCHANGED <<sessionRow, edits, title, asked>>

\* Reading the messages of a session makes it live as well.
OpensSession(a, expired) ==
    /\ desk = None
    /\ live # None \/ sessionRow.present
    /\ GetOrCreate(a, expired)
    /\ UNCHANGED <<sessionRow, chat, desk, edits, title, asked>>

-----------------------------------------------------------------------------
(* The run of a chat.                                                      *)

\* Acquire run_lock, clear cancel_event, append the message, save it.
MayEnter_Barging(c) == chat[c].pc = "locking"
MayEnter(c) == chat[c].pc = "locking" /\ agents[chat[c].agent].lock = None

Cleared_Kept(a) == agents[a].cancel
Cleared(a) == FALSE

Enters(c) ==
    LET a == chat[c].agent
        messages == Append(agents[a].messages, <<c, "user">>)
    IN  /\ MayEnter(c)
        /\ agents' = [agents EXCEPT ![a].lock = c, ![a].hasRun = TRUE,
                          ![a].cancel = Cleared(a), ![a].messages = messages]
        /\ Save(c, a, messages, "working")
        /\ UNCHANGED <<live, sessionRow, desk, edits, disturbed, title, asked>>

\* The run ends with an answer or, when it sees cancel_event, with the
\* cancelled message; the conversation is saved unless a reset has taken the
\* run's id.
Ends(c, pc) ==
    LET a == chat[c].agent
        messages == Append(agents[a].messages, <<c, "answer">>)
    IN  /\ chat[c].pc = "working"
        /\ agents' = [agents EXCEPT ![a].messages = messages]
        /\ IF agents[a].hasRun
           THEN Save(c, a, messages, pc)
           ELSE chat' = [chat EXCEPT ![c].pc = pc]
        /\ UNCHANGED <<live, sessionRow, desk, edits, disturbed, title, asked>>

ChatAnswers(c) == Ends(c, "answered")

SeesCancel(c) ==
    /\ chat[c].pc = "working" /\ agents[chat[c].agent].cancel
    /\ Ends(c, "stopped")

\* The stream ends and run_lock is released.
Releases(c) ==
    /\ chat[c].pc \in {"answered", "stopped"}
    /\ agents' = [agents EXCEPT ![chat[c].agent].lock = None]
    /\ chat' = [chat EXCEPT ![c] = [NewChat EXCEPT !.pc = "done"]]
    /\ UNCHANGED <<live, sessionRow, desk, edits, disturbed, title, asked>>

-----------------------------------------------------------------------------
(* Cancel, reset and rename.                                               *)

Edit == desk = None /\ edits < MaxEdits /\ edits' = edits + 1

\* The cancel endpoint sets the event of the live agent.
CancelChat ==
    /\ Edit
    /\ live # None
    /\ agents' = [agents EXCEPT ![live].cancel = TRUE]
    /\ asked' = asked \cup {c \in Chatters : Running(c)}
    /\ UNCHANGED <<live, sessionRow, chat, desk, disturbed, title>>

\* The reset endpoint empties the live agent and deletes the row; without a
\* live agent it deletes the row.
ResetSession ==
    /\ Edit
    /\ sessionRow' = NoSession
    /\ title' = None
    /\ IF live = None THEN UNCHANGED agents
       ELSE agents' = [agents EXCEPT ![live].messages = <<>>,
                                     ![live].hasRun = FALSE]
    /\ Notes("reset", \E c \in Chatters : InProgress(c))
    /\ UNCHANGED <<live, chat, desk, asked>>

\* The rename endpoint updates one column of the row.
RenameSession(t) ==
    /\ Edit
    /\ sessionRow.present
    /\ sessionRow' = [sessionRow EXCEPT !.title = t]
    /\ title' = t
    /\ Notes("overlapped", \E c \in Chatters : chat[c].pc = "saving")
    /\ UNCHANGED <<live, agents, chat, desk, asked>>

-----------------------------------------------------------------------------

ChatGoesOn(c) == Writes(c) \/ Enters(c) \/ ChatAnswers(c) \/ Releases(c)

\* Threads are scheduled and runs end.
SessionFairness == \A c \in Chatters : WF_sessionVars(ChatGoesOn(c))

SessionNext ==
    \/ \E c \in Chatters :
         \/ \E a \in Agents, expired, target \in BOOLEAN :
              Arrives(c, a, expired, target)
         \/ ChatGoesOn(c)
         \/ SeesCancel(c)
    \/ \E a \in Agents, expired \in BOOLEAN : OpensSession(a, expired)
    \/ CancelChat
    \/ ResetSession
    \/ \E t \in Titles : RenameSession(t)

\* Fairness is left to the composition (MCSessions).
SessionSpec == SessionInit /\ [][SessionNext]_sessionVars

-----------------------------------------------------------------------------
(* Properties.                                                             *)

\* Two chats of the session run at once only when the second one found the
\* agent of the first evicted: run_lock serialises everything else.
SessionRunsAlone ==
    \A c, d \in Chatters :
        Running(c) /\ Running(d) /\ c # d => "evicted" \in disturbed

\* While no chat is in progress, the row holds the live agent's conversation
\* and the title the user gave last, whatever was evicted, restored and
\* renamed before - unless a save overlapped another change.
RowFollowsAgent ==
    disturbed = {} /\ live # None /\ (\A c \in Chatters : ~InProgress(c)) =>
        /\ sessionRow.messages = agents[live].messages
        /\ sessionRow.title = title

\* A chat is stopped by a cancel request made while it ran, never by one
\* left over from an earlier chat.
StaleCancelStopsNobody ==
    \A c \in Chatters : chat[c].pc = "stopped" => c \in asked

\* Every chat that was accepted ends and releases run_lock: again and again,
\* each has ended or was not accepted yet.
ChatsEnd == []<>(\A c \in Chatters : chat[c].pc \in {"new", "done"})
=============================================================================
