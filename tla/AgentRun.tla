------------------------------ MODULE AgentRun ------------------------------
(***************************************************************************)
(* A run of the agent for a question, in a thread with a past: the nodes   *)
(* of the graph (react_graph.py), the executors around it (stream_workflow *)
(* for the chat, run_workflow for an automation), and the caller that      *)
(* takes the events: the SSE response pulls them, the WebSocket takes them *)
(* from a bounded queue that the producer thread never waits for.          *)
(***************************************************************************)
EXTENDS AgentGraph

CONSTANTS Batch,      \* STREAM_TOKEN_BATCH_SIZE, in pieces
          QueueSize,  \* the maxsize of _event_queue
          Pasts,      \* bound: the message rows the thread may have
          Shown,      \* bound: what the chat's client may show of a thread
          Callers,    \* bound: the callers that occur
          MaxFaults,  \* bound: failures and disconnections
          MaxLost     \* bound: events of a turn that the queue refuses

ASSUME AgentRunAssumption ==
    /\ {Batch, QueueSize} \subseteq Nat \ {0}
    /\ {MaxFaults, MaxLost} \subseteq Nat
    /\ Pasts \cup Shown \subseteq Seq({m \in Message : m.turn = 0 /\ m.calls = 0})
    /\ Callers \subseteq {"chat", "edit", "socket", "automation"}

VARIABLES messages, node, fits, draft,      \* the graph state and the message the LLM writes
          stored, vetted,                   \* the texts that post_process and the guardrail took
          caller, past,
          buffer, hasTools, tokens,         \* _msg_buffer, _msg_has_tools, the tokens yielded
          queue, lost, socket, sent,        \* the queue, the events it refused, the reply
          faults

graph == <<messages, node, fits, draft, stored, vetted>>
request == <<caller, past>>
stream == <<buffer, hasTools, tokens>>
delivery == <<queue, lost, socket, sent>>
vars == <<graph, request, stream, delivery, faults>>

SSE == {"chat", "edit"}

Running == {"input_guardrail", "planner", "agent", "llm", "tools", "post_process",
            "output_guardrail", "guardrail_reject", "END", "final"}

EventTypes == {"token", "note", "final", "error", "end"}

\* A piece of text is named by its message and its place in it.
Piece == (Nat \ {0}) \X (Nat \ {0})
Pieces(i) == [k \in 1..messages[i].text |-> <<i, k>>]

\* The history that a caller gives to create_initial_state: the chat's client sends
\* the texts it shows, an edit or a regeneration takes the rows before the message,
\* so the results of tools come without the calls they answer, which are not
\* stored; the others send none.
Histories(c) ==
    CASE c = "chat" -> Shown
      [] c = "edit" -> Pasts
      [] OTHER -> {<<>>}

TypeOK ==
    /\ messages \in Seq(Message) /\ past \in Histories(caller)
    /\ node \in Running \cup {"START", "error", "closing", "off"}
    /\ fits \in BOOLEAN /\ hasTools \in BOOLEAN
    /\ draft \in [text : 0..MaxPieces, calls : 0..MaxCalls]
    /\ {stored, vetted} \subseteq 0..Len(messages)
    /\ caller \in Callers
    /\ {buffer, tokens, sent} \subseteq Seq(Piece)
    /\ queue \in Seq([type : EventTypes, pieces : Seq(Piece)]) /\ Len(queue) <= QueueSize
    /\ lost \in Seq(EventTypes) /\ Len(lost) <= MaxLost
    /\ socket \in {"idle", "serving"}
    /\ faults \in 0..MaxFaults
    \* The executor also flushes when a message starts and when a tool message
    \* arrives; it never has anything left to flush then.
    /\ node = "agent" => buffer = <<>>
    /\ hasTools => buffer = <<>>

Empty == [text |-> 0, calls |-> 0]

Init ==
    /\ caller \in Callers /\ past \in Histories(caller)
    /\ messages = <<>> /\ node = "START" /\ fits \in BOOLEAN /\ draft = Empty
    /\ stored = 0 /\ vetted = 0
    /\ buffer = <<>> /\ hasTools = FALSE /\ tokens = <<>>
    /\ queue = <<>> /\ lost = <<>> /\ socket = "idle" /\ sent = <<>>
    /\ faults = 0

-----------------------------------------------------------------------------
(* The caller *)

Goto(n) == node' = n

\* What the caller makes of an event: the answer of the final event counts only
\* if no token came before it.
Received(e) ==
    CASE e.type = "token" -> sent \o e.pieces
      [] e.type = "final" /\ sent = <<>> -> e.pieces
      [] OTHER -> sent

\* put_nowait on a full queue raises in the event loop: the event is gone.
Enqueue(e) ==
    /\ UNCHANGED <<socket, sent>>
    /\ IF Len(queue) < QueueSize
       THEN queue' = Append(queue, e) /\ UNCHANGED lost
       ELSE Len(lost) < MaxLost /\ lost' = Append(lost, e.type) /\ UNCHANGED queue

\* run_workflow has no events but its result.
Emit(type, pieces) ==
    LET e == [type |-> type, pieces |-> pieces]
    IN  CASE caller = "socket" -> Enqueue(e)
          [] caller \in SSE \/ (caller = "automation" /\ type = "final") ->
                /\ sent' = Received(e)
                /\ UNCHANGED <<queue, lost, socket>>
          [] OTHER -> UNCHANGED delivery

\* The checkpoints of the thread have been deleted.
Start ==
    /\ node = "START"
    /\ messages' = Append(past, Human(1))
    /\ Goto("input_guardrail")
    /\ socket' = IF caller = "socket" THEN "serving" ELSE "idle"
    /\ UNCHANGED <<fits, draft, stored, vetted, request, stream, queue, lost, sent, faults>>

\* The WebSocket handler takes an event; after the end mark it persists the reply
\* and waits for the next message.
Send ==
    /\ socket = "serving"
    /\ queue # <<>>
    /\ queue' = Tail(queue)
    /\ IF Head(queue).type = "end"
       THEN socket' = "idle" /\ UNCHANGED sent
       ELSE sent' = Received(Head(queue)) /\ UNCHANGED socket
    /\ UNCHANGED <<graph, request, stream, lost, faults>>

-----------------------------------------------------------------------------
(* The nodes of the graph *)

\* A node whose messages the executor does not stream.
Silent == UNCHANGED <<request, stream, delivery, faults>>

InputGuardrail ==
    /\ node = "input_guardrail"
    /\ Goto(IF fits THEN "planner" ELSE "guardrail_reject")
    /\ UNCHANGED <<messages, fits, draft, stored, vetted>> /\ Silent

\* Its instruction only shapes the prompt, and it fails open.
Planner ==
    /\ node = "planner"
    /\ Goto("agent")
    /\ UNCHANGED <<messages, fits, draft, stored, vetted>> /\ Silent

\* The agent node calls the LLM with the context; the chunks of a new message follow.
CallModel ==
    /\ node = "agent"
    /\ Goto("llm")
    /\ buffer' = <<>> /\ hasTools' = FALSE
    /\ UNCHANGED <<messages, fits, draft, stored, vetted, tokens>>
    /\ UNCHANGED <<request, delivery, faults>>

\* A piece is buffered, and the buffer is flushed once it is long enough: before
\* the message is known to have no tool calls.
TextChunk ==
    LET held == Append(buffer, <<Len(messages) + 1, draft.text + 1>>)
    IN  /\ node = "llm"
        /\ draft.text < MaxPieces
        /\ draft' = [draft EXCEPT !.text = @ + 1]
        /\ IF hasTools \/ caller = "automation" THEN UNCHANGED <<buffer, tokens, delivery>>
           ELSE IF Len(held) < Batch THEN buffer' = held /\ UNCHANGED <<tokens, delivery>>
           ELSE /\ buffer' = <<>>
                /\ tokens' = tokens \o held
                /\ Emit("token", held)
        /\ UNCHANGED <<messages, node, fits, stored, vetted, hasTools>>
        /\ UNCHANGED <<request, faults>>

ToolCallChunk ==
    /\ node = "llm"
    /\ draft.calls = 0
    /\ \E n \in 1..MaxCalls : draft' = [draft EXCEPT !.calls = n]
    /\ hasTools' = (caller # "automation")
    /\ buffer' = <<>>
    /\ Emit("note", <<>>)
    /\ UNCHANGED <<messages, node, fits, stored, vetted, tokens>>
    /\ UNCHANGED <<request, faults>>

Respond ==
    /\ node = "llm"
    /\ messages' = Append(messages, AI(1, draft.text, draft.calls))
    /\ draft' = Empty
    /\ Goto(IF ShouldContinue(messages') THEN "tools" ELSE "post_process")
    /\ UNCHANGED <<fits, stored, vetted>> /\ Silent

\* The results of a round reach the caller as worker events.
Tools ==
    /\ node = "tools"
    /\ \E r \in ToolResults(messages) : messages' = messages \o r
    /\ Goto("agent")
    /\ buffer' = <<>> /\ hasTools' = FALSE
    /\ Emit("note", <<>>)
    /\ UNCHANGED <<fits, draft, stored, vetted, tokens>>
    /\ UNCHANGED <<request, faults>>

\* The text is remembered before the output guardrail has seen it.
PostProcess ==
    /\ node = "post_process"
    /\ stored' = Spoken(messages)
    /\ Goto("output_guardrail")
    /\ UNCHANGED <<messages, fits, draft, vetted>> /\ Silent

\* The patterns match the text or not.
OutputGuardrail ==
    /\ node = "output_guardrail"
    /\ \E passed \in (IF Spoken(messages) = 0 THEN {TRUE} ELSE BOOLEAN) :
          /\ vetted' = IF passed THEN Spoken(messages) ELSE 0
          /\ Goto(IF passed THEN "END" ELSE "guardrail_reject")
    /\ UNCHANGED <<messages, fits, draft, stored>> /\ Silent

GuardrailReject ==
    /\ node = "guardrail_reject"
    /\ messages' = Append(messages, AI(1, 1, 0))
    /\ Goto("END")
    /\ UNCHANGED <<fits, draft, stored, vetted>> /\ Silent

-----------------------------------------------------------------------------
(* The end of a run *)

\* As if what did not fill a batch were left in the buffer, for comparison.
FlushNothing ==
    /\ node = "END"
    /\ Goto("final")
    /\ UNCHANGED <<messages, fits, draft, stored, vetted, request, stream, delivery, faults>>

FlushRest ==
    /\ node = "END"
    /\ Goto("final")
    /\ IF buffer # <<>> /\ ~hasTools
       THEN tokens' = tokens \o buffer /\ buffer' = <<>> /\ Emit("token", buffer)
       ELSE UNCHANGED <<tokens, buffer, delivery>>
    /\ UNCHANGED <<messages, fits, draft, stored, vetted, hasTools>>
    /\ UNCHANGED <<request, faults>>

\* As if the producer put no end mark, for comparison.
OverWithoutEnd == Goto("off")

\* The WebSocket's producer still has to put the end mark; the others are done.
RunIsOver == Goto(IF caller = "socket" THEN "closing" ELSE "off")

Result == IF tokens # <<>> THEN tokens
          ELSE IF Answer(messages) = 0 THEN <<>> ELSE Pieces(Answer(messages))

Final ==
    /\ node = "final"
    /\ Emit("final", Result)
    /\ RunIsOver
    /\ UNCHANGED <<messages, fits, draft, stored, vetted, request, stream, faults>>

\* The LLM, a node or the checkpointer raises; the text in the buffer is dropped.
RunFails ==
    /\ node \in Running
    /\ faults < MaxFaults
    /\ faults' = faults + 1
    /\ Goto("error")
    /\ draft' = Empty /\ buffer' = <<>> /\ hasTools' = FALSE
    /\ UNCHANGED <<messages, fits, stored, vetted, request, tokens, delivery>>

\* What was streamed is persisted all the same.
Error ==
    /\ node = "error"
    /\ Emit("error", <<>>)
    /\ RunIsOver
    /\ UNCHANGED <<messages, fits, draft, stored, vetted, request, stream, faults>>

PutEnd ==
    /\ node = "closing"
    /\ Emit("end", <<>>)
    /\ Goto("off")
    /\ UNCHANGED <<messages, fits, draft, stored, vetted, request, stream, faults>>

\* The SSE client goes away: the generator is closed and nothing is persisted.
Disconnect ==
    /\ caller \in SSE
    /\ node \in Running
    /\ faults < MaxFaults
    /\ faults' = faults + 1
    /\ Goto("off")
    /\ draft' = Empty /\ buffer' = <<>> /\ hasTools' = FALSE
    /\ UNCHANGED <<messages, fits, stored, vetted, request, tokens, delivery>>

-----------------------------------------------------------------------------
RunStep ==
    \/ Start \/ InputGuardrail \/ Planner \/ CallModel \/ TextChunk \/ ToolCallChunk \/ Respond
    \/ Tools \/ PostProcess \/ OutputGuardrail \/ GuardrailReject
    \/ FlushRest \/ Final \/ Error \/ PutEnd

Next ==
    \/ RunStep \/ Send \/ RunFails \/ Disconnect

Spec == Init /\ [][Next]_vars

\* The LLM client has a timeout, the tools return or raise, the thread of the run
\* and the event loop keep running.
FairSpec == Spec /\ WF_vars(RunStep) /\ WF_vars(Send)

-----------------------------------------------------------------------------
(* Properties *)

\* The LLM is never given a tool call without its results, nor a result of this
\* turn without its call (the provider refuses both): whatever is trimmed, however
\* many calls ran in parallel, and after tools that raised.
CallsAnswered ==
    node = "agent" =>
        LET C == Context(messages)
        IN  /\ \A i \in C : Cardinality(Answers(messages, i) \cap C) = messages[i].calls
            /\ \A j \in C : messages[j].kind = "tool" /\ messages[j].turn = 1 =>
                  \E i \in C : j \in Answers(messages, i)

\* As long as the messages since the question fit the context, the LLM sees the
\* question and every result of the turn; after that it sees nothing at all.
QuestionInContext ==
    node = "agent" =>
        LET q == Question(messages)
        IN  IF Len(messages) - q < MaxContext
            THEN q..Len(messages) \subseteq Context(messages)
            ELSE Context(messages) = {}

\* The next piece of the same message, or the first one of a later message.
Follows(p, r) == r = <<p[1], p[2] + 1>> \/ (r[1] > p[1] /\ r[2] = 1)

\* Pieces as the model spoke them: of a message that went on to call a tool, the
\* end may be missing.
AsSpoken(s) == /\ s # <<>> => s[1][2] = 1
               /\ \A n \in 1..Len(s) - 1 : Follows(s[n], s[n + 1])

\* The WebSocket client has been sent pieces in the order in which the model spoke
\* them, none twice and none left out of a message, unless the queue refused
\* some.  When its turn is over it has all that was flushed, and if the run did
\* not fail, the answer up to its last piece, whether that filled a batch or not.
SocketInOrder ==
    /\ TypeOK
    /\ caller = "socket" /\ tokens # <<>> /\ "token" \notin ToSet(lost) =>
          /\ IsPrefix(sent, tokens) /\ AsSpoken(sent)
          /\ socket = "idle" =>
                /\ sent = tokens
                /\ stored # 0 /\ messages[stored].calls = 0 /\ faults = 0 =>
                      Last(sent) = <<stored, messages[stored].text>>

\* Every turn comes to its end, for the WebSocket unless the end mark did not fit
\* the queue: then its handler waits for ever.
TurnEnds ==
    (node \notin {"START", "off"} \/ socket = "serving")
        ~> (node = "off" /\ (socket = "idle" \/ "end" \in ToSet(lost)))
=============================================================================
