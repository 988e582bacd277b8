----------------------------- MODULE AgentGraph -----------------------------
(***************************************************************************)
(* What the nodes of the ReAct graph compute from the message list: the    *)
(* context the model is given, the routing after it has answered, the      *)
(* messages of the tool node, and the texts the nodes after the loop read. *)
(***************************************************************************)
EXTENDS Integers, Sequences, SequencesExt, FiniteSets, FiniteSetsExt

CONSTANTS MaxContext,  \* MAX_CONTEXT_MESSAGES
          MaxRounds,   \* MAX_TOOL_ROUNDS
          Window,      \* CIRCUIT_BREAKER_WINDOW
          Contents,    \* what a tool may return
          ToolError,   \* what the fallback returns instead
          MaxCalls,    \* bound: parallel tool calls of one message
          MaxPieces    \* bound: pieces of text of one message

ASSUME AgentGraphAssumption ==
    /\ {MaxContext, MaxRounds, Window, MaxCalls, MaxPieces} \subseteq Nat \ {0}
    /\ ToolError \in Contents

\* A message of the graph state: whether it is of this turn (1) or of the past (0),
\* its pieces of text, the tool calls of an AI message, the content of a tool message.
Message == [kind : {"human", "ai", "tool"}, turn : {0, 1}, text : Nat, calls : Nat,
            content : Contents]

Human(t) == [kind |-> "human", turn |-> t, text |-> 1, calls |-> 0, content |-> ToolError]
AI(t, text, calls) ==
    [kind |-> "ai", turn |-> t, text |-> text, calls |-> calls, content |-> ToolError]
Tool(t, c) == [kind |-> "tool", turn |-> t, text |-> 1, calls |-> 0, content |-> c]

Of(ms, kind) == {i \in DOMAIN ms : ms[i].kind = kind}

\* The last human message: the question of the turn.
Question(ms) == Max(Of(ms, "human"))

-----------------------------------------------------------------------------
(* The context: trim_messages_with_integrity. *)

\* As if one message more fitted, and any length had to be cut, for comparison.
TrimmedLate(ms) ==
    LET starts == {i \in Of(ms, "human") : i >= Len(ms) - MaxContext}
    IN  IF starts = {} THEN {} ELSE Min(starts)..Len(ms)

\* trim_messages(strategy "last", start_on "human"): the longest run of at most
\* MaxContext messages at the end that starts with a human message, or nothing.
\* The list ends with a human or a tool message whenever the agent is called.
Trimmed(ms) ==
    IF Len(ms) <= MaxContext THEN DOMAIN ms
    ELSE LET starts == {i \in Of(ms, "human") : i > Len(ms) - MaxContext}
         IN  IF starts = {} THEN {} ELSE Min(starts)..Len(ms)

\* The tool messages that answer the calls of message i.
Answers(ms, i) == {j \in Of(ms, "tool") : i < j /\ j <= i + ms[i].calls /\
                                           \A k \in i + 1..j : ms[k].kind = "tool"}

Context(ms) == LET kept == Trimmed(ms)
               IN  kept \cup UNION {Answers(ms, i) : i \in kept}

-----------------------------------------------------------------------------
(* should_continue *)

\* The last Window tool messages, of this turn or of the past, are the same.
CircuitBroken(ms) ==
    LET last == {i \in Of(ms, "tool") : Cardinality({j \in Of(ms, "tool") : j >= i}) <= Window}
    IN  /\ Cardinality(last) = Window
        /\ \A i, j \in last : ms[i].content = ms[j].content

\* It counts messages: a round of parallel calls counts more than once.
ToolCount(ms) == Cardinality({i \in Of(ms, "tool") : i > Question(ms)})

MaxRoundsReached(ms) == ToolCount(ms) >= MaxRounds

WantsTools(ms) == Last(ms).kind = "ai" /\ Last(ms).calls > 0

ShouldContinue(ms) == WantsTools(ms) /\ ~CircuitBroken(ms) /\ ~MaxRoundsReached(ms)

\* As if one error message answered all the calls, for comparison.
OneErrorForAll(ms) ==
    {[k \in 1..Last(ms).calls |-> Tool(Last(ms).turn, f[k])] :
        f \in [1..Last(ms).calls -> Contents \ {ToolError}]}
    \cup {<<Tool(Last(ms).turn, ToolError)>>}

\* The answers of the tool node to the calls of the last message: one for each
\* call, or an error for all of them when one of the tools raises.
ToolResults(ms) ==
    {[k \in 1..Last(ms).calls |-> Tool(Last(ms).turn, f[k])] :
        f \in [1..Last(ms).calls -> Contents \ {ToolError}]
              \cup {[k \in 1..Last(ms).calls |-> ToolError]}}

-----------------------------------------------------------------------------
(* The texts read after the loop; 0 when there is none. *)

LastOf(S) == Max(S \cup {0})

\* post_process and output_guardrail: the last AI message that has text.
Spoken(ms) == LastOf({i \in Of(ms, "ai") : ms[i].text > 0})

\* The executor: the last AI message that has text and no tool calls.  If the
\* loop was cut it is a message of an earlier turn.
Answer(ms) == LastOf({i \in Of(ms, "ai") : ms[i].text > 0 /\ ms[i].calls = 0})
=============================================================================
