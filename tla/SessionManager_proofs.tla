----------------------- MODULE SessionManager_proofs -----------------------
(***************************************************************************)
(* Proofs about SessionManager, for any number of chats, agent objects,    *)
(* titles and other requests.                                              *)
(*                                                                         *)
(* The main argument: a chat that runs holds the lock of its agent, and    *)
(* until a live agent is evicted under somebody everyone uses the same     *)
(* agent (RunsInv).  What a chat may be stopped by, and what the row       *)
(* holds, are invariants of their own on top of that one (StopsInv,        *)
(* RowInv).                                                                *)
(***************************************************************************)
EXTENDS SessionManager, TLAPS

IsSaving(c) == chat[c].pc = "saving"

RunsInv ==
    /\ live # None => live \in Agents /\ agents[live].used
    /\ \A c \in Chatters : InProgress(c) =>
          chat[c].agent \in Agents /\ agents[chat[c].agent].used
    /\ \A c \in Chatters : Running(c) => agents[chat[c].agent].lock = c
    /\ "evicted" \notin disturbed =>
          \A c \in Chatters : InProgress(c) => chat[c].agent = live

StopsInv == \A c \in Chatters :
    /\ Running(c) /\ agents[chat[c].agent].cancel => c \in asked
    /\ "stopped" \in {chat[c].pc, chat[c].next} => c \in asked

\* Undisturbed, every title in hand is the user's, and the messages of the
\* live agent are in the row or in the hands of the one who saves.
TitlesInv ==
    /\ sessionRow.title = title
    /\ \A c \in Chatters : IsSaving(c) => chat[c].copy.title = title

MessagesInv == live # None =>
    /\ (\A c \in Chatters : ~IsSaving(c)) =>
          sessionRow.messages = agents[live].messages
    /\ \A c \in Chatters :
          IsSaving(c) /\ (\A d \in Chatters \ {c} : ~IsSaving(d)) =>
             chat[c].copy.messages = agents[live].messages

RunIdsInv == \A c \in Chatters : Running(c) => agents[chat[c].agent].hasRun

RowInv == disturbed = {} => TitlesInv /\ MessagesInv /\ RunIdsInv

SessionInv == SessionTypeOK /\ RunsInv /\ StopsInv /\ RowInv

-----------------------------------------------------------------------------
(* What the steps do to the chats and the agents.                          *)

Others(c) == \A d \in Chatters \ {c} : chat'[d] = chat[d]

LEMMA Initial == SessionInit => SessionInv
<1> SUFFICES ASSUME SessionInit PROVE SessionInv
    OBVIOUS
<1>1. NewAgentObject \in Agent /\ NewChat \in Chat
    BY DEF NewAgentObject, Agent, NewChat, Chat, ChatPc
<1>2. NoSession \in [present : BOOLEAN, title : Titles \cup {None}, messages : Seq(Message)]
    BY DEF NoSession
<1>3. SessionTypeOK
    BY <1>1, <1>2, SessionAssumption DEF SessionInit, SessionTypeOK
<1>4. \A c \in Chatters : chat[c].pc = "new" /\ chat[c].next = "new"
    BY DEF SessionInit, NewChat
<1>5. TitlesInv /\ MessagesInv
    BY <1>4 DEF SessionInit, NoSession, TitlesInv, MessagesInv, IsSaving
<1>6. live = None /\ disturbed = {}
    BY DEF SessionInit
<1> QED
    BY <1>3, <1>4, <1>5, <1>6
    DEF SessionInv, RunsInv, StopsInv, RowInv, RunIdsInv, InProgress, Running, RunPhase

\* A record that is saved, and the fields of a record that is changed.
LEMMA Records ==
    /\ \A x \in Chat : /\ x.pc \in ChatPc /\ x.next \in ChatPc \ {"saving"}
                       /\ x.agent \in Agents \cup {None}
                       /\ x.copy.title \in Titles \cup {None}
                       /\ x.copy.messages \in Seq(Message)
    /\ \A x \in Agent : /\ x.messages \in Seq(Message) /\ x.hasRun \in BOOLEAN
                        /\ x.lock \in Chatters \cup {None}
                        /\ x.cancel \in BOOLEAN /\ x.used \in BOOLEAN
    /\ \A next \in ChatPc \ {"saving"}, a \in Agents \cup {None},
          t \in Titles \cup {None}, m \in Seq(Message) :
             [pc |-> "saving", next |-> next, agent |-> a,
              copy |-> [title |-> t, messages |-> m]] \in Chat
    BY DEF Chat, Agent, ChatPc

LEMMA CopySaved ==
    ASSUME SessionTypeOK, NEW c \in Chatters, NEW a \in Agents,
           NEW m \in Seq(Message), NEW next \in ChatPc \ {"saving"},
           Save(c, a, m, next)
    PROVE  /\ chat' \in [Chatters -> Chat] /\ Others(c)
           /\ chat'[c].pc = "saving" /\ chat'[c].next = next
           /\ chat'[c].agent = a /\ chat'[c].copy.title = sessionRow.title
           /\ chat'[c].copy.messages = m
<1>1. [pc |-> "saving", next |-> next, agent |-> a,
       copy |-> [title |-> sessionRow.title, messages |-> m]] \in Chat
    BY Records DEF SessionTypeOK
<1> QED
    BY <1>1 DEF Save, SessionTypeOK, Others

\* get_or_create: the agent that is live afterwards, new or not.
LEMMA Got ==
    ASSUME SessionTypeOK, NEW a \in Agents, NEW expired \in BOOLEAN,
           GetOrCreate(a, expired)
    PROVE  /\ live' = a /\ agents' \in [Agents -> Agent]
           /\ \A b \in Agents \ {a} : agents'[b] = agents[b]
           /\ \/ ~expired /\ live = a /\ agents' = agents
              \/ /\ expired \/ live = None
                 /\ ~agents[a].used /\ agents'[a].used
                 /\ agents'[a].messages = sessionRow.messages
                 /\ ~agents'[a].cancel
           /\ disturbed' \subseteq {"evicted", "overlapped", "reset"}
           /\ IF expired /\ \E d \in Chatters : InProgress(d)
              THEN disturbed' = disturbed \cup {"evicted"} ELSE disturbed' = disturbed
<1>1. [NewAgentObject EXCEPT !.used = TRUE, !.messages = Restored] \in Agent
    BY DEF NewAgentObject, Agent, Restored, SessionTypeOK
<1>2. /\ [NewAgentObject EXCEPT !.used = TRUE, !.messages = Restored].used
      /\ [NewAgentObject EXCEPT !.used = TRUE, !.messages = Restored].messages
            = sessionRow.messages
      /\ ~[NewAgentObject EXCEPT !.used = TRUE, !.messages = Restored].cancel
    BY DEF NewAgentObject, Restored
<1>3. /\ disturbed' \subseteq {"evicted", "overlapped", "reset"}
      /\ IF expired /\ \E d \in Chatters : InProgress(d)
         THEN disturbed' = disturbed \cup {"evicted"} ELSE disturbed' = disturbed
    BY DEF GetOrCreate, Notes, SessionTypeOK
<1>4. CASE Finds(a, expired) /\ UNCHANGED agents
    BY <1>3, <1>4 DEF GetOrCreate, Finds, SessionTypeOK
<1>5. CASE Creates(a, expired)
           /\ agents' = [agents EXCEPT ![a] =
                 [NewAgentObject EXCEPT !.used = TRUE, !.messages = Restored]]
    BY <1>1, <1>2, <1>3, <1>5 DEF GetOrCreate, Creates, SessionTypeOK
<1> QED
    BY <1>4, <1>5 DEF GetOrCreate

\* A chat arrives: it waits for the lock, at once or after a save.
LEMMA Arrived ==
    ASSUME SessionTypeOK, NEW c \in Chatters, NEW a \in Agents,
           NEW expired \in BOOLEAN, NEW target \in BOOLEAN,
           Arrives(c, a, expired, target)
    PROVE  /\ chat' \in [Chatters -> Chat] /\ Others(c) /\ chat[c].pc = "new"
           /\ chat'[c].agent = a
           /\ \/ chat'[c].pc = "locking" /\ chat'[c].next = chat[c].next
              \/ /\ chat'[c].pc = "saving" /\ chat'[c].next = "locking"
                 /\ chat'[c].copy.title = sessionRow.title
                 /\ chat'[c].copy.messages = agents'[a].messages
           /\ desk' \in Chatters \cup {None}
<1>1. agents'[a].messages \in Seq(Message)
    BY Got, Records DEF Arrives
<1>2. CASE MustSave(a, target)
    <2>1. Save(c, a, agents'[a].messages, "locking") /\ desk' = c
        BY <1>2 DEF Arrives
    <2> QED
        BY <1>1, <2>1, CopySaved DEF ChatPc, Arrives
<1>3. CASE ~MustSave(a, target)
    <2>1. chat' = [chat EXCEPT ![c].pc = "locking", ![c].agent = a] /\ UNCHANGED desk
        BY <1>3 DEF Arrives
    <2>2. chat[c] \in Chat
        BY DEF SessionTypeOK
    <2>3. [chat[c] EXCEPT !.pc = "locking", !.agent = a] \in Chat
        BY <2>2 DEF Chat, ChatPc
    <2>4. chat'[c] = [chat[c] EXCEPT !.pc = "locking", !.agent = a] /\ Others(c)
        BY <2>1 DEF SessionTypeOK, Others
    <2>5. /\ chat'[c].pc = "locking" /\ chat'[c].agent = a
          /\ chat'[c].next = chat[c].next
        BY <2>2, <2>4 DEF Chat
    <2>6. chat' \in [Chatters -> Chat]
        BY <2>1, <2>3 DEF SessionTypeOK
    <2> QED
        BY <2>1, <2>4, <2>5, <2>6 DEF Arrives, SessionTypeOK
<1> QED
    BY <1>2, <1>3

\* A save is written.
LEMMA Written ==
    ASSUME SessionTypeOK, NEW c \in Chatters, Writes(c)
    PROVE  /\ chat[c].pc = "saving" /\ SessionTypeOK' /\ Others(c)
           /\ chat'[c].pc = chat[c].next /\ chat'[c].next = "new"
           /\ chat'[c].agent = chat[c].agent
           /\ sessionRow'.title = chat[c].copy.title
           /\ sessionRow'.messages = chat[c].copy.messages
           /\ IF \E d \in Chatters \ {c} : IsSaving(d)
              THEN disturbed' = disturbed \cup {"overlapped"} ELSE disturbed' = disturbed
<1>1. chat[c] \in Chat
    BY DEF SessionTypeOK
<1>2. PICK y \in [title : Titles \cup {None}, messages : Seq(Message)] : y = NewChat.copy
    <2>1. NewChat.copy = [title |-> None, messages |-> <<>>]
        BY DEF NewChat
    <2>2. <<>> \in Seq(Message)
        OBVIOUS
    <2>3. NewChat.copy \in [title : Titles \cup {None}, messages : Seq(Message)]
        BY <2>1, <2>2
    <2> QED
        BY <2>3
<1>3. PICK x : x = [chat[c] EXCEPT !.pc = chat[c].next, !.next = "new", !.copy = y]
    OBVIOUS
<1>4. /\ x \in Chat /\ x.pc = chat[c].next /\ x.next = "new" /\ x.agent = chat[c].agent
    BY <1>1, <1>3 DEF Chat, ChatPc
<1>5. chat' = [chat EXCEPT ![c] = x]
    BY <1>2, <1>3 DEF Writes
<1>6. chat' \in [Chatters -> Chat] /\ chat'[c] = x /\ Others(c)
    BY <1>4, <1>5 DEF SessionTypeOK, Others
<1>7. /\ chat[c].copy.title \in Titles \cup {None}
      /\ chat[c].copy.messages \in Seq(Message)
    BY <1>1, Records
<1>8. /\ sessionRow' \in [present : BOOLEAN, title : Titles \cup {None},
                          messages : Seq(Message)]
      /\ sessionRow'.title = chat[c].copy.title
      /\ sessionRow'.messages = chat[c].copy.messages
    BY <1>7 DEF Writes
<1>9. /\ IF \E d \in Chatters \ {c} : IsSaving(d)
         THEN disturbed' = disturbed \cup {"overlapped"} ELSE disturbed' = disturbed
      /\ disturbed' \subseteq {"evicted", "overlapped", "reset"}
    BY DEF Writes, Notes, IsSaving, SessionTypeOK
<1> QED
    BY <1>4, <1>6, <1>8, <1>9 DEF Writes, SessionTypeOK

\* A message is appended to those of an agent.
LEMMA Appended ==
    ASSUME SessionTypeOK, NEW a \in Agents, NEW c \in Chatters
    PROVE  /\ Append(agents[a].messages, <<c, "user">>) \in Seq(Message)
           /\ Append(agents[a].messages, <<c, "answer">>) \in Seq(Message)
<1>1. agents[a].messages \in Seq(Message)
    BY Records DEF SessionTypeOK
<1>2. <<c, "user">> \in Message /\ <<c, "answer">> \in Message
    BY DEF Message
<1> QED
    BY <1>1, <1>2

\* A chat takes the lock of its agent, which nobody holds.
LEMMA Entered ==
    ASSUME SessionTypeOK, RunsInv, NEW c \in Chatters, Enters(c)
    PROVE  \E a \in Agents :
             /\ a = chat[c].agent /\ agents[a].lock = None /\ chat[c].pc = "locking"
             /\ SessionTypeOK' /\ Others(c)
             /\ \A b \in Agents \ {a} : agents'[b] = agents[b]
             /\ agents'[a].lock = c /\ agents'[a].hasRun /\ ~agents'[a].cancel
             /\ agents'[a].used = agents[a].used
             /\ chat'[c].pc = "saving" /\ chat'[c].next = "working"
             /\ chat'[c].agent = a /\ chat'[c].copy.title = sessionRow.title
             /\ chat'[c].copy.messages = agents'[a].messages
<1>1. chat[c].pc = "locking"
    BY DEF Enters, MayEnter
<1>2. PICK a \in Agents : a = chat[c].agent
    BY <1>1 DEF RunsInv, InProgress
<1>3. PICK m \in Seq(Message) : m = Append(agents[a].messages, <<c, "user">>)
    BY Appended
<1>4. PICK x : x = [agents[a] EXCEPT !.lock = c, !.hasRun = TRUE, !.cancel = FALSE,
                                     !.messages = m]
    OBVIOUS
<1>5. agents[a] \in Agent
    BY DEF SessionTypeOK
<1>6. /\ x \in Agent /\ x.lock = c /\ x.hasRun /\ ~x.cancel /\ x.messages = m
      /\ x.used = agents[a].used
    BY <1>4, <1>5 DEF Agent
<1>7. agents' = [agents EXCEPT ![a] = x]
    BY <1>2, <1>3, <1>4 DEF Enters, Cleared
<1>8. Save(c, a, m, "working")
    BY <1>2, <1>3 DEF Enters
<1>9. /\ agents' \in [Agents -> Agent] /\ agents'[a] = x
      /\ \A b \in Agents \ {a} : agents'[b] = agents[b]
    BY <1>6, <1>7 DEF SessionTypeOK
<1>10. /\ chat' \in [Chatters -> Chat] /\ Others(c)
       /\ chat'[c].pc = "saving" /\ chat'[c].next = "working"
       /\ chat'[c].agent = a /\ chat'[c].copy.title = sessionRow.title
       /\ chat'[c].copy.messages = m
    BY <1>8, CopySaved DEF ChatPc
<1>11. agents[a].lock = None
    BY <1>2 DEF Enters, MayEnter
<1>12. SessionTypeOK'
    BY <1>9, <1>10 DEF SessionTypeOK, Enters
<1> QED
    BY <1>1, <1>2, <1>6, <1>9, <1>10, <1>11, <1>12

\* A run ends: its last message is appended and saved.
LEMMA Ended ==
    ASSUME SessionTypeOK, RunsInv, NEW c \in Chatters,
           NEW pc \in {"answered", "stopped"}, Ends(c, pc)
    PROVE  \E a \in Agents :
             /\ a = chat[c].agent /\ chat[c].pc = "working" /\ Others(c)
             /\ SessionTypeOK' /\ chat'[c].agent = a
             /\ \A b \in Agents \ {a} : agents'[b] = agents[b]
             /\ agents'[a].lock = agents[a].lock /\ agents'[a].hasRun = agents[a].hasRun
             /\ agents'[a].cancel = agents[a].cancel /\ agents'[a].used = agents[a].used
             /\ IF agents[a].hasRun
                THEN /\ chat'[c].pc = "saving" /\ chat'[c].next = pc
                     /\ chat'[c].copy.title = sessionRow.title
                     /\ chat'[c].copy.messages = agents'[a].messages
                ELSE chat'[c].pc = pc /\ chat'[c].next = chat[c].next
<1>1. chat[c].pc = "working"
    BY DEF Ends
<1>2. PICK a \in Agents : a = chat[c].agent
    BY <1>1 DEF RunsInv, InProgress
<1>3. PICK m \in Seq(Message) : m = Append(agents[a].messages, <<c, "answer">>)
    BY Appended
<1>4. PICK x : x = [agents[a] EXCEPT !.messages = m]
    OBVIOUS
<1>5. agents[a] \in Agent
    BY DEF SessionTypeOK
<1>6. /\ x \in Agent /\ x.lock = agents[a].lock /\ x.hasRun = agents[a].hasRun
      /\ x.cancel = agents[a].cancel /\ x.messages = m
      /\ x.used = agents[a].used
    BY <1>4, <1>5 DEF Agent
<1>7. agents' = [agents EXCEPT ![a] = x]
    BY <1>2, <1>3, <1>4 DEF Ends
<1>8. IF agents[a].hasRun THEN Save(c, a, m, pc) ELSE chat' = [chat EXCEPT ![c].pc = pc]
    BY <1>2, <1>3 DEF Ends
<1>9. /\ agents' \in [Agents -> Agent] /\ agents'[a] = x
      /\ \A b \in Agents \ {a} : agents'[b] = agents[b]
    BY <1>6, <1>7 DEF SessionTypeOK
<1>10. /\ chat' \in [Chatters -> Chat] /\ Others(c) /\ chat'[c].agent = a
       /\ IF agents[a].hasRun
          THEN /\ chat'[c].pc = "saving" /\ chat'[c].next = pc
               /\ chat'[c].copy.title = sessionRow.title
               /\ chat'[c].copy.messages = m
          ELSE chat'[c].pc = pc /\ chat'[c].next = chat[c].next
    <2>1. CASE agents[a].hasRun
        BY <1>8, <2>1, CopySaved DEF ChatPc
    <2>2. CASE ~agents[a].hasRun
        <3>1. chat' = [chat EXCEPT ![c] = [chat[c] EXCEPT !.pc = pc]]
            BY <1>8, <2>2
        <3>2. chat[c] \in Chat
            BY DEF SessionTypeOK
        <3>3. /\ [chat[c] EXCEPT !.pc = pc] \in Chat /\ [chat[c] EXCEPT !.pc = pc].pc = pc
              /\ [chat[c] EXCEPT !.pc = pc].agent = chat[c].agent
              /\ [chat[c] EXCEPT !.pc = pc].next = chat[c].next
            BY <3>2 DEF Chat, ChatPc
        <3>4. chat'[c] = [chat[c] EXCEPT !.pc = pc] /\ Others(c)
            BY <3>1 DEF SessionTypeOK, Others
        <3>5. chat' \in [Chatters -> Chat]
            BY <3>1, <3>3 DEF SessionTypeOK
        <3> QED
            BY <1>2, <2>2, <3>3, <3>4, <3>5
    <2> QED
        BY <2>1, <2>2, <1>5, Records
<1>11. SessionTypeOK'
    BY <1>9, <1>10 DEF SessionTypeOK, Ends
<1> QED
    BY <1>1, <1>2, <1>6, <1>9, <1>10, <1>11

\* A chat ends and lets go of the lock.
LEMMA Released ==
    ASSUME SessionTypeOK, RunsInv, NEW c \in Chatters, Releases(c)
    PROVE  \E a \in Agents :
             /\ a = chat[c].agent /\ chat[c].pc \in {"answered", "stopped"}
             /\ SessionTypeOK' /\ Others(c)
             /\ chat'[c].pc = "done" /\ chat'[c].next = "new"
             /\ \A b \in Agents \ {a} : agents'[b] = agents[b]
             /\ agents'[a].messages = agents[a].messages
             /\ agents'[a].hasRun = agents[a].hasRun
             /\ agents'[a].cancel = agents[a].cancel
             /\ agents'[a].used = agents[a].used
<1>1. chat[c].pc \in {"answered", "stopped"}
    BY DEF Releases
<1>2. PICK a \in Agents : a = chat[c].agent
    BY <1>1 DEF RunsInv, InProgress
<1>3. PICK x : x = [agents[a] EXCEPT !.lock = None]
    OBVIOUS
<1>4. agents[a] \in Agent
    BY DEF SessionTypeOK
<1>5. /\ x \in Agent /\ x.messages = agents[a].messages /\ x.hasRun = agents[a].hasRun
      /\ x.cancel = agents[a].cancel /\ x.used = agents[a].used
    BY <1>3, <1>4 DEF Agent
<1>6. agents' = [agents EXCEPT ![a] = x]
    BY <1>2, <1>3 DEF Releases
<1>7. /\ agents' \in [Agents -> Agent] /\ agents'[a] = x
      /\ \A b \in Agents \ {a} : agents'[b] = agents[b]
    BY <1>5, <1>6 DEF SessionTypeOK
<1>8. PICK y : y = [NewChat EXCEPT !.pc = "done"]
    OBVIOUS
<1>9. NewChat \in Chat
    BY DEF NewChat, Chat, ChatPc
<1>10. y \in Chat /\ y.pc = "done" /\ y.next = "new"
    BY <1>8, <1>9 DEF Chat, ChatPc, NewChat
<1>11. chat' = [chat EXCEPT ![c] = y]
    BY <1>8 DEF Releases
<1>12. chat' \in [Chatters -> Chat] /\ Others(c) /\ chat'[c] = y
    BY <1>10, <1>11 DEF SessionTypeOK, Others
<1>13. SessionTypeOK'
    BY <1>7, <1>12 DEF SessionTypeOK, Releases
<1> QED
    BY <1>1, <1>2, <1>5, <1>7, <1>10, <1>12, <1>13

\* The cancel endpoint sets the event of the live agent.
LEMMA Cancelled ==
    ASSUME SessionTypeOK, CancelChat
    PROVE  /\ SessionTypeOK' /\ live \in Agents
           /\ \A b \in Agents \ {live} : agents'[b] = agents[b]
           /\ agents'[live].messages = agents[live].messages
           /\ agents'[live].hasRun = agents[live].hasRun
           /\ agents'[live].lock = agents[live].lock
           /\ agents'[live].used = agents[live].used
<1>1. live \in Agents
    BY DEF CancelChat, SessionTypeOK
<1>2. PICK x : x = [agents[live] EXCEPT !.cancel = TRUE]
    OBVIOUS
<1>3. agents[live] \in Agent
    BY <1>1 DEF SessionTypeOK
<1>4. /\ x \in Agent /\ x.messages = agents[live].messages
      /\ x.hasRun = agents[live].hasRun /\ x.lock = agents[live].lock
      /\ x.used = agents[live].used
    BY <1>2, <1>3 DEF Agent
<1>5. agents' = [agents EXCEPT ![live] = x]
    BY <1>2 DEF CancelChat
<1>6. /\ agents' \in [Agents -> Agent] /\ agents'[live] = x
      /\ \A b \in Agents \ {live} : agents'[b] = agents[b]
    BY <1>1, <1>4, <1>5 DEF SessionTypeOK
<1>7. edits' \in 0..MaxEdits /\ asked' \subseteq Chatters
    BY SessionAssumption DEF CancelChat, Edit, SessionTypeOK
<1> QED
    BY <1>1, <1>4, <1>6, <1>7 DEF CancelChat, SessionTypeOK

\* The reset endpoint empties the live agent, if there is one, and the row.
LEMMA Emptied ==
    ASSUME SessionTypeOK, ResetSession
    PROVE  /\ SessionTypeOK' /\ sessionRow'.title = None /\ sessionRow'.messages = <<>>
           /\ \A b \in Agents : b # live => agents'[b] = agents[b]
           /\ live # None => /\ live \in Agents
                             /\ agents'[live].messages = <<>>
                             /\ agents'[live].lock = agents[live].lock
                             /\ agents'[live].cancel = agents[live].cancel
                             /\ agents'[live].used = agents[live].used
           /\ IF \E c \in Chatters : InProgress(c)
              THEN disturbed' = disturbed \cup {"reset"} ELSE disturbed' = disturbed
<1>1. /\ agents' \in [Agents -> Agent]
      /\ \A b \in Agents : b # live => agents'[b] = agents[b]
      /\ live # None => /\ live \in Agents
                        /\ agents'[live].messages = <<>>
                        /\ agents'[live].lock = agents[live].lock
                        /\ agents'[live].cancel = agents[live].cancel
                        /\ agents'[live].used = agents[live].used
    <2>1. CASE live = None
        BY <2>1, SessionAssumption DEF ResetSession, SessionTypeOK
    <2>2. CASE live # None
        <3>1. live \in Agents
            BY <2>2 DEF SessionTypeOK
        <3>2. PICK x : x = [agents[live] EXCEPT !.messages = <<>>, !.hasRun = FALSE]
            OBVIOUS
        <3>3. agents[live] \in Agent /\ <<>> \in Seq(Message)
            BY <3>1 DEF SessionTypeOK
        <3>4. /\ x \in Agent /\ x.messages = <<>> /\ x.lock = agents[live].lock
              /\ x.cancel = agents[live].cancel /\ x.used = agents[live].used
            BY <3>2, <3>3 DEF Agent
        <3>5. agents' = [agents EXCEPT ![live] = x]
            BY <2>2, <3>2 DEF ResetSession
        <3> QED
            BY <3>1, <3>4, <3>5 DEF SessionTypeOK
    <2> QED
        BY <2>1, <2>2
<1>2. /\ sessionRow' \in [present : BOOLEAN, title : Titles \cup {None},
                          messages : Seq(Message)]
      /\ sessionRow'.title = None /\ sessionRow'.messages = <<>>
    BY DEF ResetSession, NoSession
<1>3. edits' \in 0..MaxEdits
    BY SessionAssumption DEF ResetSession, Edit, SessionTypeOK
<1>4. /\ disturbed' \subseteq {"evicted", "overlapped", "reset"}
      /\ IF \E c \in Chatters : InProgress(c)
         THEN disturbed' = disturbed \cup {"reset"} ELSE disturbed' = disturbed
    BY DEF ResetSession, Notes, SessionTypeOK
<1> QED
    BY <1>1, <1>2, <1>3, <1>4 DEF ResetSession, SessionTypeOK

\* The rename endpoint changes the title in the row.
LEMMA Renamed ==
    ASSUME SessionTypeOK, NEW t \in Titles, RenameSession(t)
    PROVE  /\ SessionTypeOK' /\ sessionRow'.title = t
           /\ sessionRow'.messages = sessionRow.messages
           /\ IF \E c \in Chatters : IsSaving(c)
              THEN disturbed' = disturbed \cup {"overlapped"} ELSE disturbed' = disturbed
<1>1. /\ sessionRow' \in [present : BOOLEAN, title : Titles \cup {None},
                          messages : Seq(Message)]
      /\ sessionRow'.title = t /\ sessionRow'.messages = sessionRow.messages
    BY DEF RenameSession, SessionTypeOK
<1>2. edits' \in 0..MaxEdits
    BY SessionAssumption DEF RenameSession, Edit, SessionTypeOK
<1>3. /\ disturbed' \subseteq {"evicted", "overlapped", "reset"}
      /\ IF \E c \in Chatters : IsSaving(c)
         THEN disturbed' = disturbed \cup {"overlapped"} ELSE disturbed' = disturbed
    BY DEF RenameSession, Notes, IsSaving, SessionTypeOK
<1> QED
    BY <1>1, <1>2, <1>3 DEF RenameSession, SessionTypeOK

\* Every step keeps the types.
LEMMA SessionTypes ==
    ASSUME SessionTypeOK, RunsInv, [SessionNext]_sessionVars
    PROVE  SessionTypeOK'
<1>1. ASSUME NEW c \in Chatters, NEW a \in Agents, NEW expired \in BOOLEAN,
             NEW target \in BOOLEAN, Arrives(c, a, expired, target)
      PROVE  SessionTypeOK'
    <2>1. GetOrCreate(a, expired)
        BY <1>1 DEF Arrives
    <2>2. /\ live' = a /\ agents' \in [Agents -> Agent]
          /\ disturbed' \subseteq {"evicted", "overlapped", "reset"}
        BY <2>1, Got
    <2>3. chat' \in [Chatters -> Chat] /\ desk' \in Chatters \cup {None}
        BY <1>1, Arrived
    <2>4. UNCHANGED <<sessionRow, edits, title, asked>>
        BY <1>1 DEF Arrives
    <2> QED
        BY <2>2, <2>3, <2>4 DEF SessionTypeOK
<1>2. ASSUME NEW c \in Chatters, ChatGoesOn(c) \/ SeesCancel(c)
      PROVE  SessionTypeOK'
    BY <1>2, Written, Entered, Ended, Released DEF ChatGoesOn, ChatAnswers, SeesCancel
<1>3. ASSUME NEW a \in Agents, NEW expired \in BOOLEAN, OpensSession(a, expired)
      PROVE  SessionTypeOK'
    <2>1. GetOrCreate(a, expired)
        BY <1>3 DEF OpensSession
    <2> QED
        BY <1>3, <2>1, Got DEF OpensSession, SessionTypeOK
<1>4. CASE CancelChat \/ ResetSession \/ \E t \in Titles : RenameSession(t)
    BY <1>4, Cancelled, Emptied, Renamed
<1>5. CASE UNCHANGED sessionVars
    BY <1>5 DEF sessionVars, SessionTypeOK
<1> QED
    BY <1>1, <1>2, <1>3, <1>4, <1>5 DEF SessionNext

-----------------------------------------------------------------------------
(* One run at a time.                                                      *)

\* A chat that did not move is in progress, and runs, as it was.
LEMMA Unmoved ==
    ASSUME NEW d \in Chatters, chat'[d] = chat[d]
    PROVE  /\ Running(d)' <=> Running(d)
           /\ InProgress(d)' <=> InProgress(d)
           /\ IsSaving(d)' <=> IsSaving(d)
    BY DEF Running, InProgress, IsSaving

\* What a chat that moves has to see to, what the step does to the agents of
\* the others, and that only an eviction takes the agent from anybody.
RunFits(d) ==
    /\ InProgress(d)' => chat'[d].agent \in Agents /\ agents'[chat'[d].agent].used
    /\ Running(d)' => agents'[chat'[d].agent].lock = d
    /\ "evicted" \notin disturbed' /\ InProgress(d)' => chat'[d].agent = live'

LocksStand == \A b \in Agents : agents[b].used =>
    /\ agents'[b].used
    /\ \A d \in Chatters :
          agents[b].lock = d /\ chat'[d] = chat[d] => agents'[b].lock = d

LiveFits == live' = live \/ (live' \in Agents /\ agents'[live'].used)

Evicts ==
    "evicted" \notin disturbed' =>
        /\ "evicted" \notin disturbed
        /\ live' = live \/ \A d \in Chatters : ~InProgress(d)

LEMMA RunsMove ==
    ASSUME RunsInv, LocksStand, LiveFits, Evicts,
           \A d \in Chatters : chat'[d] = chat[d] \/ RunFits(d)
    PROVE  RunsInv'
<1>1. ASSUME NEW d \in Chatters, chat'[d] = chat[d] PROVE RunFits(d)
    <2>1. Running(d) => InProgress(d)
        BY DEF Running, InProgress, RunPhase
    <2> QED
        BY <1>1, <2>1, Unmoved DEF RunsInv, LocksStand, Evicts, RunFits
<1>2. \A d \in Chatters : RunFits(d)
    BY <1>1
<1>3. live' # None => live' \in Agents /\ agents'[live'].used
    BY DEF LiveFits, LocksStand, RunsInv
<1> QED
    BY <1>2, <1>3 DEF RunsInv, RunFits

LEMMA RunsKept ==
    ASSUME SessionTypeOK, RunsInv, [SessionNext]_sessionVars
    PROVE  RunsInv'
<1>1. None \notin Agents /\ None \notin Chatters
    BY SessionAssumption
<1>2. ASSUME NEW a \in Agents, NEW expired \in BOOLEAN, GetOrCreate(a, expired)
      PROVE  LocksStand /\ LiveFits /\ Evicts /\ live' = a /\ agents'[a].used
    <2>1. /\ live' = a
          /\ \A b \in Agents \ {a} : agents'[b] = agents[b]
          /\ \/ ~expired /\ live = a /\ agents' = agents
             \/ (expired \/ live = None) /\ ~agents[a].used /\ agents'[a].used
          /\ IF expired /\ \E d \in Chatters : InProgress(d)
             THEN disturbed' = disturbed \cup {"evicted"} ELSE disturbed' = disturbed
        BY <1>2, Got
    <2>2. LocksStand
        BY <2>1 DEF LocksStand
    <2>3. live = None /\ "evicted" \notin disturbed => \A d \in Chatters : ~InProgress(d)
        BY <1>1 DEF RunsInv
    <2>4. Evicts
        BY <2>1, <2>3 DEF Evicts
    <2>5. agents'[a].used
        BY <1>1, <2>1 DEF RunsInv
    <2> QED
        BY <2>1, <2>2, <2>4, <2>5 DEF LiveFits
<1>3. ASSUME NEW c \in Chatters, NEW a \in Agents, NEW expired \in BOOLEAN,
             NEW target \in BOOLEAN, Arrives(c, a, expired, target)
      PROVE  RunsInv'
    <2>1. LocksStand /\ LiveFits /\ Evicts /\ live' = a /\ agents'[a].used
        BY <1>2, <1>3 DEF Arrives
    <2>2. /\ Others(c) /\ chat'[c].agent = a
          /\ \/ chat'[c].pc = "locking"
             \/ chat'[c].pc = "saving" /\ chat'[c].next = "locking"
        BY <1>3, Arrived
    <2>3. ~Running(c)'
        BY <2>2 DEF Running, RunPhase
    <2>4. RunFits(c)
        BY <2>1, <2>2, <2>3 DEF RunFits
    <2> QED
        BY <2>1, <2>2, <2>4, RunsMove DEF Others
<1>4. ASSUME NEW a \in Agents, NEW expired \in BOOLEAN, OpensSession(a, expired)
      PROVE  RunsInv'
    BY <1>2, <1>4, RunsMove DEF OpensSession
<1>5. ASSUME NEW c \in Chatters, Writes(c) PROVE RunsInv'
    <2>1. /\ Others(c) /\ chat[c].pc = "saving" /\ chat'[c].pc = chat[c].next
          /\ chat'[c].agent = chat[c].agent /\ chat[c].next # "saving"
          /\ "evicted" \in disturbed => "evicted" \in disturbed'
        BY <1>5, Written, Records DEF SessionTypeOK
    <2>2. (Running(c)' => Running(c)) /\ InProgress(c)
        BY <2>1 DEF Running, InProgress
    <2>3. UNCHANGED <<live, agents>>
        BY <1>5 DEF Writes
    <2>4. LocksStand /\ LiveFits /\ Evicts /\ RunFits(c)
        BY <2>1, <2>2, <2>3 DEF LocksStand, LiveFits, Evicts, RunFits, RunsInv
    <2> QED
        BY <2>1, <2>4, RunsMove DEF Others
<1>6. ASSUME NEW c \in Chatters, Enters(c) PROVE RunsInv'
    <2>1. PICK a \in Agents :
             /\ a = chat[c].agent /\ agents[a].lock = None /\ chat[c].pc = "locking"
             /\ Others(c)
             /\ \A b \in Agents \ {a} : agents'[b] = agents[b]
             /\ agents'[a].lock = c /\ agents'[a].used = agents[a].used
             /\ chat'[c].agent = a
        BY <1>6, Entered
    <2>2. UNCHANGED <<live, disturbed>>
        BY <1>6 DEF Enters
    <2>3. InProgress(c)
        BY <2>1 DEF InProgress
    <2>4. LocksStand
        BY <1>1, <2>1 DEF LocksStand
    <2>5. LiveFits /\ Evicts /\ RunFits(c)
        BY <2>1, <2>2, <2>3 DEF LiveFits, Evicts, RunFits, RunsInv
    <2> QED
        BY <2>1, <2>4, <2>5, RunsMove DEF Others
<1>7. ASSUME NEW c \in Chatters, NEW pc \in {"answered", "stopped"}, Ends(c, pc)
      PROVE  RunsInv'
    <2>1. PICK a \in Agents :
             /\ a = chat[c].agent /\ chat[c].pc = "working" /\ Others(c)
             /\ \A b \in Agents \ {a} : agents'[b] = agents[b]
             /\ agents'[a].lock = agents[a].lock /\ agents'[a].used = agents[a].used
             /\ chat'[c].agent = a
        BY <1>7, Ended
    <2>2. UNCHANGED <<live, disturbed>>
        BY <1>7 DEF Ends
    <2>3. InProgress(c) /\ Running(c)
        BY <2>1 DEF InProgress, Running, RunPhase
    <2>4. \A b \in Agents : agents'[b].lock = agents[b].lock /\ agents'[b].used = agents[b].used
        BY <2>1
    <2>5. LocksStand /\ LiveFits /\ Evicts
        BY <2>2, <2>4 DEF LocksStand, LiveFits, Evicts
    <2>6. RunFits(c)
        BY <2>1, <2>2, <2>3, <2>4 DEF RunFits, RunsInv
    <2> QED
        BY <2>1, <2>5, <2>6, RunsMove DEF Others
<1>8. ASSUME NEW c \in Chatters, Releases(c) PROVE RunsInv'
    <2>1. PICK a \in Agents :
             /\ a = chat[c].agent /\ chat[c].pc \in {"answered", "stopped"}
             /\ Others(c) /\ chat'[c].pc = "done"
             /\ \A b \in Agents \ {a} : agents'[b] = agents[b]
             /\ agents'[a].used = agents[a].used
        BY <1>8, Released
    <2>2. UNCHANGED <<live, disturbed>>
        BY <1>8 DEF Releases
    <2>3. Running(c) /\ ~Running(c)' /\ ~InProgress(c)'
        BY <2>1 DEF InProgress, Running, RunPhase
    <2>4. agents[a].lock = c /\ chat'[c] # chat[c]
        BY <2>1, <2>3 DEF RunsInv
    <2>5. LocksStand
        BY <2>1, <2>4 DEF LocksStand
    <2>6. LiveFits /\ Evicts /\ RunFits(c)
        BY <2>2, <2>3 DEF LiveFits, Evicts, RunFits
    <2> QED
        BY <2>1, <2>5, <2>6, RunsMove DEF Others
<1>9. ASSUME CancelChat \/ ResetSession \/ \E t \in Titles : RenameSession(t)
      PROVE  RunsInv'
    <2>1. /\ chat' = chat /\ live' = live
          /\ "evicted" \in disturbed => "evicted" \in disturbed'
        BY <1>9 DEF CancelChat, ResetSession, RenameSession, Notes
    <2>2. \A b \in Agents : agents'[b].lock = agents[b].lock /\ agents'[b].used = agents[b].used
        <3>1. CASE CancelChat
            BY <3>1, Cancelled
        <3>2. CASE ResetSession
            BY <1>1, <3>2, Emptied
        <3>3. CASE \E t \in Titles : RenameSession(t)
            BY <3>3 DEF RenameSession
        <3> QED
            BY <1>9, <3>1, <3>2, <3>3
    <2>3. LocksStand /\ LiveFits /\ Evicts
        BY <2>1, <2>2 DEF LocksStand, LiveFits, Evicts
    <2> QED
        BY <2>1, <2>3, RunsMove
<1>10. CASE UNCHANGED sessionVars
    <2>1. LocksStand /\ LiveFits /\ Evicts /\ chat' = chat
        BY <1>10 DEF sessionVars, LocksStand, LiveFits, Evicts
    <2> QED
        BY <2>1, RunsMove
<1> QED
    BY <1>3, <1>4, <1>5, <1>6, <1>7, <1>8, <1>9, <1>10
    DEF SessionNext, ChatGoesOn, ChatAnswers, SeesCancel

-----------------------------------------------------------------------------
(* Who may be stopped.                                                     *)

StopFits(d) ==
    /\ Running(d)' /\ agents'[chat'[d].agent].cancel => d \in asked'
    /\ "stopped" \in {chat'[d].pc, chat'[d].next} => d \in asked'

\* A step that sets the event of an agent under a run asks for that run.
EventsStand == \A d \in Chatters :
    Running(d) /\ chat'[d] = chat[d] =>
        (agents'[chat[d].agent].cancel =>
            agents[chat[d].agent].cancel \/ d \in asked')

LEMMA StopsMove ==
    ASSUME StopsInv, EventsStand, asked \subseteq asked',
           \A d \in Chatters : chat'[d] = chat[d] \/ StopFits(d)
    PROVE  StopsInv'
<1>1. ASSUME NEW d \in Chatters, chat'[d] = chat[d] PROVE StopFits(d)
    BY <1>1, Unmoved DEF StopsInv, EventsStand, StopFits
<1>2. \A d \in Chatters : StopFits(d)
    BY <1>1
<1> QED
    BY <1>2 DEF StopsInv, StopFits

LEMMA StopsKept ==
    ASSUME SessionTypeOK, RunsInv, StopsInv, [SessionNext]_sessionVars
    PROVE  StopsInv'
<1>1. \A d \in Chatters : Running(d) =>
         chat[d].agent \in Agents /\ agents[chat[d].agent].used
    BY DEF RunsInv, Running, InProgress, RunPhase
<1>2. ASSUME NEW a \in Agents, NEW expired \in BOOLEAN, GetOrCreate(a, expired)
      PROVE  EventsStand
    BY <1>1, <1>2, Got DEF EventsStand
<1>3. ASSUME NEW c \in Chatters, NEW a \in Agents, NEW expired \in BOOLEAN,
             NEW target \in BOOLEAN, Arrives(c, a, expired, target)
      PROVE  StopsInv'
    <2>1. EventsStand /\ asked' = asked
        BY <1>2, <1>3 DEF Arrives
    <2>2. /\ Others(c)
          /\ \/ chat'[c].pc = "locking" /\ chat'[c].next = chat[c].next
             \/ chat'[c].pc = "saving" /\ chat'[c].next = "locking"
        BY <1>3, Arrived
    <2>3. StopFits(c)
        BY <2>1, <2>2 DEF StopFits, StopsInv, Running, RunPhase
    <2> QED
        BY <2>1, <2>2, <2>3, StopsMove DEF Others
<1>4. ASSUME NEW a \in Agents, NEW expired \in BOOLEAN, OpensSession(a, expired)
      PROVE  StopsInv'
    BY <1>2, <1>4, StopsMove DEF OpensSession
<1>5. ASSUME NEW c \in Chatters, Writes(c) PROVE StopsInv'
    <2>1. /\ Others(c) /\ chat[c].pc = "saving" /\ chat'[c].pc = chat[c].next
          /\ chat'[c].agent = chat[c].agent /\ chat'[c].next = "new"
          /\ chat[c].next # "saving"
        BY <1>5, Written, Records DEF SessionTypeOK
    <2>2. Running(c)' => Running(c)
        BY <2>1 DEF Running
    <2>3. UNCHANGED <<agents, asked>>
        BY <1>5 DEF Writes
    <2>4. EventsStand /\ StopFits(c)
        BY <2>1, <2>2, <2>3 DEF EventsStand, StopFits, StopsInv
    <2> QED
        BY <2>1, <2>3, <2>4, StopsMove DEF Others
<1>6. ASSUME NEW c \in Chatters, Enters(c) PROVE StopsInv'
    <2>1. PICK a \in Agents :
             /\ a = chat[c].agent /\ chat[c].pc = "locking" /\ Others(c)
             /\ \A b \in Agents \ {a} : agents'[b] = agents[b]
             /\ ~agents'[a].cancel /\ chat'[c].agent = a
             /\ chat'[c].pc = "saving" /\ chat'[c].next = "working"
        BY <1>6, Entered
    <2>2. EventsStand
        BY <1>1, <2>1 DEF EventsStand
    <2>3. StopFits(c)
        BY <2>1 DEF StopFits
    <2> QED
        BY <1>6, <2>1, <2>2, <2>3, StopsMove DEF Others, Enters
<1>7. ASSUME NEW c \in Chatters, NEW pc \in {"answered", "stopped"}, Ends(c, pc),
             pc = "stopped" => agents[chat[c].agent].cancel
      PROVE  StopsInv'
    <2>1. PICK a \in Agents :
             /\ a = chat[c].agent /\ chat[c].pc = "working" /\ Others(c)
             /\ \A b \in Agents \ {a} : agents'[b] = agents[b]
             /\ agents'[a].cancel = agents[a].cancel /\ chat'[c].agent = a
             /\ \/ chat'[c].pc = "saving" /\ chat'[c].next = pc
                \/ chat'[c].pc = pc /\ chat'[c].next = chat[c].next
        BY <1>7, Ended
    <2>2. Running(c) /\ asked' = asked
        BY <1>7, <2>1 DEF Running, RunPhase, Ends
    <2>3. \A b \in Agents : agents'[b].cancel = agents[b].cancel
        BY <2>1
    <2>4. EventsStand
        BY <1>1, <2>3 DEF EventsStand
    <2>5. pc = "stopped" => c \in asked
        BY <1>7, <2>2 DEF StopsInv
    <2>6. StopFits(c)
        BY <2>1, <2>2, <2>3, <2>5 DEF StopFits, StopsInv
    <2> QED
        BY <2>1, <2>2, <2>4, <2>6, StopsMove DEF Others
<1>8. ASSUME NEW c \in Chatters, Releases(c) PROVE StopsInv'
    <2>1. PICK a \in Agents :
             /\ Others(c) /\ chat'[c].pc = "done" /\ chat'[c].next = "new"
             /\ \A b \in Agents \ {a} : agents'[b] = agents[b]
             /\ agents'[a].cancel = agents[a].cancel
        BY <1>8, Released
    <2>2. EventsStand
        BY <1>1, <2>1 DEF EventsStand
    <2>3. StopFits(c)
        BY <2>1 DEF StopFits, Running, RunPhase
    <2> QED
        BY <1>8, <2>1, <2>2, <2>3, StopsMove DEF Others, Releases
<1>9. CASE CancelChat
    <2>1. /\ chat' = chat /\ asked' = asked \cup {c \in Chatters : Running(c)}
        BY <1>9 DEF CancelChat
    <2>2. EventsStand
        BY <2>1 DEF EventsStand
    <2> QED
        BY <2>1, <2>2, StopsMove
<1>10. CASE ResetSession
    <2>1. chat' = chat /\ asked' = asked
        BY <1>10 DEF ResetSession
    <2>2. \A b \in Agents : agents'[b].cancel = agents[b].cancel
        BY <1>10, Emptied, SessionAssumption
    <2>3. EventsStand
        BY <1>1, <2>2 DEF EventsStand
    <2> QED
        BY <2>1, <2>3, StopsMove
<1>11. CASE UNCHANGED sessionVars \/ \E t \in Titles : RenameSession(t)
    <2>1. UNCHANGED <<chat, asked, agents>>
        BY <1>11 DEF sessionVars, RenameSession
    <2>2. EventsStand
        BY <2>1 DEF EventsStand
    <2> QED
        BY <2>1, <2>2, StopsMove
<1> QED
    BY <1>3, <1>4, <1>5, <1>6, <1>7, <1>8, <1>9, <1>10, <1>11
    DEF SessionNext, ChatGoesOn, ChatAnswers, SeesCancel

-----------------------------------------------------------------------------
(* What the row holds.                                                     *)

\* A run whose chat did not move keeps its run id.
RunIdsStand == \A d \in Chatters :
    Running(d) /\ chat'[d] = chat[d] /\ agents[chat[d].agent].hasRun =>
        agents'[chat[d].agent].hasRun

LEMMA RunIdsMove ==
    ASSUME RunIdsInv, RunIdsStand,
           \A d \in Chatters :
              chat'[d] = chat[d] \/ (Running(d)' => agents'[chat'[d].agent].hasRun)
    PROVE  RunIdsInv'
<1>1. ASSUME NEW d \in Chatters PROVE Running(d)' => agents'[chat'[d].agent].hasRun
    BY Unmoved DEF RunIdsInv, RunIdsStand
<1> QED
    BY <1>1 DEF RunIdsInv

\* A chat arrives, or the session is opened: the row serves a new agent.
LEMMA RowOpened ==
    ASSUME SessionTypeOK, RunsInv, TitlesInv, MessagesInv, RunIdsInv,
           disturbed = {}, disturbed' = {}, sessionRow' = sessionRow, title' = title,
           NEW a \in Agents, NEW expired \in BOOLEAN, GetOrCreate(a, expired),
           \/ chat' = chat
           \/ \E c \in Chatters :
                 /\ Others(c) /\ chat[c].pc = "new"
                 /\ \/ chat'[c].pc = "locking"
                    \/ /\ chat'[c].pc = "saving" /\ chat'[c].next = "locking"
                       /\ chat'[c].copy.title = sessionRow.title
                       /\ chat'[c].copy.messages = agents'[a].messages
    PROVE  TitlesInv' /\ MessagesInv' /\ RunIdsInv'
<1>1. None \notin Agents
    BY SessionAssumption
<1>2. /\ live' = a
      /\ \A b \in Agents \ {a} : agents'[b] = agents[b]
      /\ \/ ~expired /\ live = a /\ agents' = agents
         \/ /\ expired \/ live = None
            /\ ~agents[a].used /\ agents'[a].messages = sessionRow.messages
      /\ expired => \A d \in Chatters : ~InProgress(d)
    BY Got
<1>3. live = None => \A d \in Chatters : ~InProgress(d)
    BY <1>1 DEF RunsInv
<1>4. \A d \in Chatters : IsSaving(d) => InProgress(d)
    BY DEF IsSaving, InProgress
<1>5. \A d \in Chatters : Running(d) => chat[d].agent \in Agents /\ agents[chat[d].agent].used
    BY DEF RunsInv, Running, RunPhase, InProgress
<1>6. RunIdsStand
    BY <1>2, <1>5 DEF RunIdsStand
<1>7. CASE chat' = chat
    <2>1. MessagesInv'
        BY <1>1, <1>2, <1>3, <1>4, <1>7 DEF MessagesInv, IsSaving
    <2>2. RunIdsInv'
        BY <1>6, <1>7, RunIdsMove
    <2> QED
        BY <1>7, <2>1, <2>2 DEF TitlesInv, IsSaving
<1>8. ASSUME NEW c \in Chatters, Others(c), chat[c].pc = "new",
             \/ chat'[c].pc = "locking"
             \/ /\ chat'[c].pc = "saving" /\ chat'[c].next = "locking"
                /\ chat'[c].copy.title = sessionRow.title
                /\ chat'[c].copy.messages = agents'[a].messages
      PROVE  TitlesInv' /\ MessagesInv' /\ RunIdsInv'
    <2>1. ~IsSaving(c) /\ ~Running(c)'
        BY <1>8 DEF IsSaving, Running, RunPhase
    <2>2. \A d \in Chatters \ {c} : IsSaving(d)' <=> IsSaving(d)
        BY <1>8 DEF Others, IsSaving
    <2>3. TitlesInv'
        BY <1>8, <2>2 DEF TitlesInv, IsSaving, Others
    <2>4. RunIdsInv'
        BY <1>6, <1>8, <2>1, RunIdsMove DEF Others
    <2>5. CASE live = a /\ agents' = agents
        <3>1. (\A d \in Chatters : ~IsSaving(d)') =>
                 sessionRow'.messages = agents'[a].messages
            BY <1>1, <2>1, <2>2, <2>5 DEF MessagesInv
        <3>2. ASSUME NEW d \in Chatters, IsSaving(d)',
                     \A e \in Chatters \ {d} : ~IsSaving(e)'
              PROVE  chat'[d].copy.messages = agents'[a].messages
            <4>1. CASE d = c
                BY <1>8, <3>2, <4>1 DEF IsSaving
            <4>2. CASE d # c
                BY <1>1, <1>8, <2>1, <2>2, <2>5, <3>2, <4>2 DEF MessagesInv, Others
            <4> QED
                BY <4>1, <4>2
        <3> QED
            BY <1>2, <2>3, <2>4, <3>1, <3>2 DEF MessagesInv, IsSaving
    <2>6. CASE agents'[a].messages = sessionRow.messages /\ \A d \in Chatters : ~InProgress(d)
        <3>1. \A d \in Chatters \ {c} : ~IsSaving(d)'
            BY <1>4, <2>2, <2>6
        <3>2. MessagesInv'
            BY <1>2, <1>8, <2>6, <3>1 DEF MessagesInv, IsSaving
        <3> QED
            BY <2>3, <2>4, <3>2
    <2> QED
        BY <1>2, <1>3, <2>5, <2>6
<1> QED
    BY <1>7, <1>8

\* A chat appends a message to the live agent and starts to save.
LEMMA RowToSave ==
    ASSUME SessionTypeOK, RunsInv, TitlesInv, MessagesInv, RunIdsInv,
           disturbed = {}, live' = live, sessionRow' = sessionRow, title' = title,
           NEW c \in Chatters, NEW a \in Agents, InProgress(c), chat[c].agent = a,
           Others(c), ~IsSaving(c), chat'[c].pc = "saving", chat'[c].agent = a,
           chat'[c].copy.title = sessionRow.title,
           chat'[c].copy.messages = agents'[a].messages, agents'[a].hasRun,
           \A b \in Agents \ {a} : agents'[b] = agents[b]
    PROVE  TitlesInv' /\ MessagesInv' /\ RunIdsInv'
<1>1. live = a
    BY DEF RunsInv
<1>2. \A d \in Chatters \ {c} : IsSaving(d)' <=> IsSaving(d)
    BY DEF Others, IsSaving
<1>3. IsSaving(c)'
    BY DEF IsSaving
<1>4. TitlesInv'
    BY <1>2 DEF TitlesInv, Others, IsSaving
<1>5. \A d \in Chatters :
         IsSaving(d)' /\ (\A e \in Chatters \ {d} : ~IsSaving(e)') => d = c
    BY <1>3
<1>6. MessagesInv'
    BY <1>1, <1>3, <1>5 DEF MessagesInv
<1>7. RunIdsStand
    BY DEF RunIdsStand, RunsInv, Running, RunPhase, InProgress
<1>8. RunIdsInv'
    BY <1>7, RunIdsMove DEF Others
<1> QED
    BY <1>4, <1>6, <1>8

LEMMA RowKept ==
    ASSUME SessionTypeOK, RunsInv, RowInv, [SessionNext]_sessionVars
    PROVE  RowInv'
<1>1. disturbed \subseteq disturbed'
    <2>1. CASE \E what, when : Notes(what, when)
        BY <2>1 DEF Notes
    <2>2. CASE UNCHANGED disturbed
        BY <2>2
    <2>3. CASE UNCHANGED sessionVars
        BY <2>3 DEF sessionVars
    <2>4. CASE \E c \in Chatters :
                 \/ \E a \in Agents, expired, target \in BOOLEAN :
                      Arrives(c, a, expired, target)
                 \/ Writes(c)
        BY <2>1, <2>4 DEF Arrives, GetOrCreate, Writes
    <2>5. CASE \E c \in Chatters : \/ Enters(c) \/ ChatAnswers(c)
                                  \/ Releases(c) \/ SeesCancel(c)
        BY <2>2, <2>5 DEF Enters, Ends, ChatAnswers, SeesCancel, Releases
    <2>6. CASE \/ \E a \in Agents, expired \in BOOLEAN : OpensSession(a, expired)
               \/ ResetSession
               \/ \E t \in Titles : RenameSession(t)
        BY <2>1, <2>6 DEF OpensSession, GetOrCreate, ResetSession, RenameSession
    <2>7. CASE CancelChat
        BY <2>2, <2>7 DEF CancelChat
    <2> QED
        BY <2>3, <2>4, <2>5, <2>6, <2>7 DEF SessionNext, ChatGoesOn
<1> SUFFICES ASSUME disturbed' = {} PROVE TitlesInv' /\ MessagesInv' /\ RunIdsInv'
    BY DEF RowInv
<1>2. disturbed = {} /\ TitlesInv /\ MessagesInv /\ RunIdsInv
    BY <1>1 DEF RowInv
<1>3. \A d \in Chatters : Running(d) => chat[d].agent \in Agents /\ InProgress(d)
    BY DEF RunsInv, Running, RunPhase, InProgress
<1>4. ASSUME NEW c \in Chatters, NEW a \in Agents, NEW expired \in BOOLEAN,
             NEW target \in BOOLEAN, Arrives(c, a, expired, target)
      PROVE  TitlesInv' /\ MessagesInv' /\ RunIdsInv'
    <2>1. GetOrCreate(a, expired) /\ sessionRow' = sessionRow /\ title' = title
        BY <1>4 DEF Arrives
    <2>2. /\ Others(c) /\ chat[c].pc = "new"
          /\ \/ chat'[c].pc = "locking"
             \/ /\ chat'[c].pc = "saving" /\ chat'[c].next = "locking"
                /\ chat'[c].copy.title = sessionRow.title
                /\ chat'[c].copy.messages = agents'[a].messages
        BY <1>4, Arrived
    <2> QED
        BY <1>2, <2>1, <2>2, RowOpened
<1>5. ASSUME NEW a \in Agents, NEW expired \in BOOLEAN, OpensSession(a, expired)
      PROVE  TitlesInv' /\ MessagesInv' /\ RunIdsInv'
    <2>1. GetOrCreate(a, expired) /\ UNCHANGED <<sessionRow, chat, title>>
        BY <1>5 DEF OpensSession
    <2> QED
        BY <1>2, <2>1, RowOpened
<1>6. ASSUME NEW c \in Chatters, Writes(c)
      PROVE  TitlesInv' /\ MessagesInv' /\ RunIdsInv'
    <2>1. /\ Others(c) /\ chat[c].pc = "saving" /\ chat'[c].pc = chat[c].next
          /\ chat'[c].next = "new" /\ chat'[c].agent = chat[c].agent
          /\ chat[c].next # "saving"
          /\ sessionRow'.title = chat[c].copy.title
          /\ sessionRow'.messages = chat[c].copy.messages
          /\ \A d \in Chatters \ {c} : ~IsSaving(d)
        BY <1>6, Written, Records DEF SessionTypeOK
    <2>2. UNCHANGED <<live, agents, title>>
        BY <1>6 DEF Writes
    <2>3. IsSaving(c) /\ \A d \in Chatters : ~IsSaving(d)'
        BY <2>1 DEF IsSaving, Others
    <2>4. TitlesInv' /\ MessagesInv'
        BY <1>2, <2>1, <2>2, <2>3 DEF TitlesInv, MessagesInv
    <2>5. Running(c)' => Running(c)
        BY <2>1 DEF Running
    <2>6. RunIdsStand
        BY <2>2 DEF RunIdsStand
    <2>7. Running(c)' => agents'[chat'[c].agent].hasRun
        BY <1>2, <2>1, <2>2, <2>5 DEF RunIdsInv
    <2> QED
        BY <1>2, <2>1, <2>4, <2>6, <2>7, RunIdsMove DEF Others
<1>7. ASSUME NEW c \in Chatters, Enters(c)
      PROVE  TitlesInv' /\ MessagesInv' /\ RunIdsInv'
    <2>1. PICK a \in Agents :
             /\ a = chat[c].agent /\ chat[c].pc = "locking" /\ Others(c)
             /\ \A b \in Agents \ {a} : agents'[b] = agents[b]
             /\ agents'[a].hasRun /\ chat'[c].pc = "saving" /\ chat'[c].agent = a
             /\ chat'[c].copy.title = sessionRow.title
             /\ chat'[c].copy.messages = agents'[a].messages
        BY <1>7, Entered
    <2>2. UNCHANGED <<live, sessionRow, title>>
        BY <1>7 DEF Enters
    <2>3. InProgress(c) /\ ~IsSaving(c)
        BY <2>1 DEF InProgress, IsSaving
    <2> QED
        BY <1>2, <2>1, <2>2, <2>3, RowToSave
<1>8. ASSUME NEW c \in Chatters, NEW pc \in {"answered", "stopped"}, Ends(c, pc)
      PROVE  TitlesInv' /\ MessagesInv' /\ RunIdsInv'
    <2>1. PICK a \in Agents :
             /\ a = chat[c].agent /\ chat[c].pc = "working" /\ Others(c)
             /\ \A b \in Agents \ {a} : agents'[b] = agents[b]
             /\ agents'[a].hasRun = agents[a].hasRun /\ chat'[c].agent = a
             /\ agents[a].hasRun =>
                  /\ chat'[c].pc = "saving"
                  /\ chat'[c].copy.title = sessionRow.title
                  /\ chat'[c].copy.messages = agents'[a].messages
        BY <1>8, Ended
    <2>2. UNCHANGED <<live, sessionRow, title>>
        BY <1>8 DEF Ends
    <2>3. InProgress(c) /\ Running(c) /\ ~IsSaving(c)
        BY <2>1 DEF InProgress, Running, RunPhase, IsSaving
    <2>4. agents[a].hasRun
        BY <1>2, <2>1, <2>3 DEF RunIdsInv
    <2> QED
        BY <1>2, <2>1, <2>2, <2>3, <2>4, RowToSave
<1>9. ASSUME NEW c \in Chatters, Releases(c)
      PROVE  TitlesInv' /\ MessagesInv' /\ RunIdsInv'
    <2>1. PICK a \in Agents :
             /\ a = chat[c].agent /\ chat[c].pc \in {"answered", "stopped"}
             /\ Others(c) /\ chat'[c].pc = "done" /\ chat'[c].next = "new"
             /\ \A b \in Agents \ {a} : agents'[b] = agents[b]
             /\ agents'[a].messages = agents[a].messages
             /\ agents'[a].hasRun = agents[a].hasRun
        BY <1>9, Released
    <2>2. UNCHANGED <<live, sessionRow, title>>
        BY <1>9 DEF Releases
    <2>3. /\ \A d \in Chatters : IsSaving(d)' <=> IsSaving(d)
          /\ ~IsSaving(c) /\ ~Running(c)'
        BY <2>1 DEF IsSaving, Others, Running, RunPhase
    <2>4. \A b \in Agents : /\ agents'[b].messages = agents[b].messages
                            /\ agents'[b].hasRun = agents[b].hasRun
        BY <2>1
    <2>5. TitlesInv'
        BY <1>2, <2>1, <2>2, <2>3 DEF TitlesInv, Others
    <2>6. live # None => live \in Agents
        BY DEF RunsInv
    <2>7. MessagesInv'
        BY <1>2, <2>1, <2>2, <2>3, <2>4, <2>6 DEF MessagesInv, Others
    <2>8. RunIdsStand
        BY <1>3, <2>4 DEF RunIdsStand
    <2> QED
        BY <1>2, <2>1, <2>3, <2>5, <2>7, <2>8, RunIdsMove DEF Others
<1>10. CASE CancelChat
    <2>1. UNCHANGED <<chat, live, sessionRow, title>>
        BY <1>10 DEF CancelChat
    <2>2. \A b \in Agents : /\ agents'[b].messages = agents[b].messages
                            /\ agents'[b].hasRun = agents[b].hasRun
        BY <1>10, Cancelled
    <2>3. live # None => live \in Agents
        BY DEF RunsInv
    <2>4. TitlesInv' /\ MessagesInv'
        BY <1>2, <2>1, <2>2, <2>3 DEF TitlesInv, MessagesInv, IsSaving
    <2>5. RunIdsStand
        BY <1>3, <2>2 DEF RunIdsStand
    <2> QED
        BY <1>2, <2>1, <2>4, <2>5, RunIdsMove
<1>11. CASE ResetSession
    <2>1. UNCHANGED <<chat, live>> /\ title' = None
        BY <1>11 DEF ResetSession
    <2>2. /\ sessionRow'.title = None /\ sessionRow'.messages = <<>>
          /\ live # None => agents'[live].messages = <<>>
          /\ \A c \in Chatters : ~InProgress(c)
        BY <1>11, Emptied
    <2>3. \A c \in Chatters : ~IsSaving(c)' /\ ~Running(c)'
        BY <2>1, <2>2 DEF InProgress, IsSaving, Running, RunPhase
    <2> QED
        BY <2>1, <2>2, <2>3 DEF TitlesInv, MessagesInv, RunIdsInv
<1>12. ASSUME NEW t \in Titles, RenameSession(t)
       PROVE  TitlesInv' /\ MessagesInv' /\ RunIdsInv'
    <2>1. /\ sessionRow'.title = t /\ sessionRow'.messages = sessionRow.messages
          /\ \A c \in Chatters : ~IsSaving(c)
        BY <1>12, Renamed
    <2>2. UNCHANGED <<chat, live, agents>> /\ title' = t
        BY <1>12 DEF RenameSession
    <2>3. \A c \in Chatters : ~IsSaving(c)'
        BY <2>1, <2>2 DEF IsSaving
    <2>4. RunIdsStand
        BY <2>2 DEF RunIdsStand
    <2>5. TitlesInv' /\ MessagesInv'
        BY <1>2, <2>1, <2>2, <2>3 DEF TitlesInv, MessagesInv
    <2> QED
        BY <1>2, <2>2, <2>4, <2>5, RunIdsMove
<1>13. CASE UNCHANGED sessionVars
    BY <1>2, <1>13
    DEF sessionVars, TitlesInv, MessagesInv, RunIdsInv, IsSaving, Running
<1> QED
    BY <1>4, <1>5, <1>6, <1>7, <1>8, <1>9, <1>10, <1>11, <1>12, <1>13
    DEF SessionNext, ChatGoesOn, ChatAnswers, SeesCancel

-----------------------------------------------------------------------------
(* The theorems.                                                           *)

\* The inductive invariant of the session manager.
THEOREM SessionCorrect == SessionSpec => []SessionInv
<1>1. SessionInv /\ [SessionNext]_sessionVars => SessionInv'
    BY SessionTypes, RunsKept, StopsKept, RowKept DEF SessionInv
<1> QED
    BY Initial, <1>1, PTL DEF SessionSpec

\* However many chats, agents and requests: unless get_or_create evicts a
\* live agent under a chat in progress, run_lock lets one chat of the session
\* run at a time.
THEOREM ChatsRunAlone == SessionSpec => []SessionRunsAlone
<1>1. SessionInv => SessionRunsAlone
    <2> SUFFICES ASSUME SessionInv, NEW c \in Chatters, NEW d \in Chatters,
                        Running(c), Running(d), c # d, "evicted" \notin disturbed
                 PROVE  FALSE
        BY DEF SessionRunsAlone
    <2>1. InProgress(c) /\ InProgress(d)
        BY DEF Running, RunPhase, InProgress
    <2>2. chat[c].agent = live /\ chat[d].agent = live
        BY <2>1 DEF SessionInv, RunsInv
    <2> QED
        BY <2>2 DEF SessionInv, RunsInv
<1> QED
    BY SessionCorrect, <1>1, PTL

\* The cancel_event that stops a chat was set while that chat ran: clearing
\* the event under run_lock before the run leaves no stale request behind.
THEOREM StopsWereAskedFor == SessionSpec => []StaleCancelStopsNobody
<1>1. SessionInv => StaleCancelStopsNobody
    BY DEF SessionInv, StopsInv, StaleCancelStopsNobody
<1> QED
    BY SessionCorrect, <1>1, PTL

\* At rest the sessions row holds what the live agent and the user hold:
\* eviction, restoration, renaming and resets lose nothing unless a save
\* overlapped another change or a chat lost its agent or its run.
THEOREM RowsFollow == SessionSpec => []RowFollowsAgent
<1>1. SessionInv => RowFollowsAgent
    BY DEF SessionInv, RowInv, TitlesInv, MessagesInv, RowFollowsAgent, IsSaving, InProgress
<1> QED
    BY SessionCorrect, <1>1, PTL
=============================================================================
