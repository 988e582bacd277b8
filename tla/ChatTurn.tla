------------------------------ MODULE ChatTurn ------------------------------
(***************************************************************************)
(* The callers of ChatHistory: the chat, regenerate and edit endpoints of  *)
(* routers/chat.py with the prepare_* and persist_* functions of           *)
(* chat_service.py, and the WebSocket chat.  A client has at most one turn *)
(* streaming; its next turn may start while the appends of the last one    *)
(* are still queued.                                                       *)
(***************************************************************************)
EXTENDS ChatHistory

CONSTANTS Clients,
          Endpoints  \* bound: the kinds of turn that clients start with each message

VARIABLES turn,    \* the turn each client is streaming
          turnOf,  \* history: the first message of the chat or edit turn of m
          editOf   \* history: the user message an edit m replaces

turnVars == <<turn, turnOf, editOf>>
allVars == <<vars, turnVars>>

TurnKind == {"chat", "edit", "regenerate", "socket"}

ASSUME ChatTurnAssumption == Endpoints \in [MessageIds -> SUBSET TurnKind]

\* user: the message the turn answers; last: last_message_id, the tail of the
\* chain inside the turn.
Turn == [kind : TurnKind \cup {"none"}, thread : Threads \cup {Null}, user : RowIds \cup {Null},
         last : RowIds \cup {Null}]

NoTurn == [kind |-> "none", thread |-> Null, user |-> Null, last |-> Null]

TurnTypeOK ==
    /\ turn \in [Clients -> Turn]
    /\ turnOf \in [MessageIds -> MessageIds \cup {Null}]
    /\ editOf \in [MessageIds -> RowIds \cup {Null}]
    /\ \A c \in Clients : turn[c].kind \in {"chat", "edit"} =>
           /\ turn[c].user \in MessageIds
           /\ turn[c].last \in MessageIds
           /\ req[turn[c].user].role = "user"

TurnInit ==
    /\ Init
    /\ turn = [c \in Clients |-> NoTurn]
    /\ turnOf = [m \in MessageIds |-> Null]
    /\ editOf = [m \in MessageIds |-> Null]

-----------------------------------------------------------------------------
UserRows(t) == Users(ThreadRows(rows, t))

\* get_latest_message_id: the newest committed row, either of two that share
\* their created_at, or None.
Newest(R) == {r.id : r \in {x \in R : \A y \in R : y.at <= x.at}}

LatestMessageIds(t) ==
    IF ThreadRows(rows, t) = {} THEN {Null} ELSE Newest(ThreadRows(rows, t))

Starts(c, m, t, kind) ==
    /\ turn[c].kind = "none"
    /\ kind \in Endpoints[m]
    /\ turn' = [turn EXCEPT ![c] = [kind |-> kind, thread |-> t, user |-> m, last |-> m]]

\* prepare_chat on a live thread: the parent is read now, the append queued.
SendChat(c, t, m) ==
    /\ threadState[t] = "live"
    /\ \E p \in LatestMessageIds(t) :
           Submit(m, [thread |-> t, role |-> "user", parent |-> p])
    /\ Starts(c, m, t, "chat")
    /\ turnOf' = [turnOf EXCEPT ![m] = m]
    /\ UNCHANGED editOf

\* _handle_chat_message of the WebSocket: no parent ids.
SendSocket(c, t, m) ==
    /\ threadState[t] = "live"
    /\ Submit(m, [thread |-> t, role |-> "user", parent |-> Null])
    /\ Starts(c, m, t, "socket")
    /\ UNCHANGED <<turnOf, editOf>>

\* As if an edit hung from the message it replaces, for comparison.
NoSibling(i) == i

Sibling(i) == parentOf[i]

\* prepare_edit: a sibling of the stored user message i.
SendEdit(c, t, i, m) ==
    /\ i \in Ids(UserRows(t))
    /\ Submit(m, [thread |-> t, role |-> "user", parent |-> Sibling(i)])
    /\ Starts(c, m, t, "edit")
    /\ turnOf' = [turnOf EXCEPT ![m] = m]
    /\ editOf' = [editOf EXCEPT ![m] = i]

\* prepare_regeneration: answers the stored user message i again.
Regenerate(c, t, i) ==
    /\ i \in Ids(UserRows(t))
    /\ Starts(c, i, t, "regenerate")
    /\ UNCHANGED <<vars, turnOf, editOf>>

\* A worker event: only the chat endpoint stores it, chained to the tail.
ToolResult(c, m) ==
    /\ turn[c].kind = "chat"
    /\ Submit(m, [thread |-> turn[c].thread, role |-> "tool", parent |-> turn[c].last])
    /\ turn' = [turn EXCEPT ![c].last = m]
    /\ turnOf' = [turnOf EXCEPT ![m] = turn[c].user]
    /\ UNCHANGED editOf

\* As if an answer named no parent, for comparison.
UnchainedParent(c) == Null

ReplyParent(c) ==
    CASE turn[c].kind = "chat" -> turn[c].last
      [] turn[c].kind = "socket" -> Null
      [] OTHER -> turn[c].user

\* The stream ended with an answer: persist_assistant_message.
Reply(c, m) ==
    /\ turn[c].kind # "none"
    /\ Submit(m, [thread |-> turn[c].thread, role |-> "assistant", parent |-> ReplyParent(c)])
    /\ turn' = [turn EXCEPT ![c] = NoTurn]
    /\ turnOf' = [turnOf EXCEPT ![m] = IF turn[c].kind \in {"chat", "edit"}
                                       THEN turn[c].user ELSE Null]
    /\ UNCHANGED editOf

\* The client went away (GeneratorExit), or the answer is empty.
EndWithoutReply(c) ==
    /\ turn[c].kind # "none"
    /\ turn' = [turn EXCEPT ![c] = NoTurn]
    /\ UNCHANGED <<vars, turnOf, editOf>>

ClientStep(c) ==
    \/ \E m \in MessageIds, t \in Threads :
           \/ SendChat(c, t, m)
           \/ SendSocket(c, t, m)
           \/ \E i \in MessageIds : SendEdit(c, t, i, m)
    \/ \E t \in Threads, i \in MessageIds : Regenerate(c, t, i)
    \/ \E m \in MessageIds : ToolResult(c, m) \/ Reply(c, m)
    \/ EndWithoutReply(c)

RestartAll ==
    /\ Restart
    /\ turn' = [c \in Clients |-> NoTurn]
    /\ UNCHANGED <<turnOf, editOf>>

TurnNext ==
    \/ \E c \in Clients : ClientStep(c)
    \/ (ServiceStep \/ \E t \in Threads : EnsureThread(t)) /\ UNCHANGED turnVars
    \/ RestartAll

\* No client has to send anything.
TurnSpec == TurnInit /\ [][TurnNext]_allVars

-----------------------------------------------------------------------------
(* Properties *)

\* A stored row of a chat or edit turn has all of its turn behind it: when
\* the answer or a tool row was stored, so were the user message and every
\* tool row sent before it.  A gap would leave the tree view a chain that
\* hangs in the air.
TurnHasNoGap ==
    /\ TurnTypeOK
    /\ \A m, k \in MessageIds :
          /\ fate[m] = "stored"
          /\ turnOf[m] # Null
          /\ turnOf[k] = turnOf[m]
          /\ k < m
          => fate[k] = "stored"

\* An edited user message is a sibling of the one it replaces: while both are
\* stored they hang from the same parent, also when a compaction took that
\* parent away between the edit and its write.
EditIsSibling ==
    \A m \in MessageIds :
        editOf[m] # Null /\ {m, editOf[m]} \subseteq Ids(rows)
            => parentOf[m] = parentOf[editOf[m]]

\* The window of a thread reaches WINDOW_ROUNDS user messages only by the
\* commit of an append whose summarisation failed: two appends that commit one
\* after the other never slip past the threshold together.
Overflows(R, t) == Cardinality(Users(Window(ThreadRows(R, t)))) >= WINDOW_ROUNDS

WindowOverflowsOnFailure ==
    [][\A t \in Threads : Overflows(rows', t) /\ ~Overflows(rows, t) =>
           \E w \in Workers : worker[w].pc = "commit" /\ ~worker[w].ok
                              /\ NeedsCompaction(worker[w].view)]_rows

\* While summarisation fails the window is kept all the same: it grows by
\* failures only, and no row leaves it but by a summary, the trim of the older
\* half, or a deletion.
WindowKept == WindowOverflowsOnFailure /\ NoRowLost

\* chat_history_service.py:172-180: a message is dropped when its thread cannot
\* be found, and its id can be the parent_id of a subsequent message at once;
\* chat_service.py:474-476: every assistant message chains to the user message
\* that triggered it.  Then an answer whose parent was stored is stored too.
ReplyKept ==
    [][\A m \in MessageIds :
           /\ fate[m] = "pending" /\ fate'[m] = "dropped"
           /\ req[m].role = "assistant"
           /\ threadState[req[m].thread] = "live"
           => req[m].parent \in MessageIds /\ fate[req[m].parent] # "stored"]_fate

\* chat_service.py:207-208 and routers/chat.py:110: a turn chains
\* user -> tool -> ... -> assistant_final -> next_user.  Then a chat message
\* sent right after the answer of the thread's last turn hangs from it.
NextUserChains ==
    \A m \in MessageIds \ {1} :
        /\ turnOf[m] = m /\ editOf[m] = Null
        /\ {m - 1, m} \subseteq Ids(rows)
        /\ req[m - 1].role = "assistant" /\ turnOf[m - 1] # Null
        => parentOf[m] = m - 1
=============================================================================
