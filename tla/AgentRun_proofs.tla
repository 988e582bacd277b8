--------------------------- MODULE AgentRun_proofs ---------------------------
(***************************************************************************)
(* For every context length, window, batch, queue and history: the model   *)
(* is never given a call without its results, it sees the question, and    *)
(* the WebSocket client is sent what the model spoke, in order.            *)
(***************************************************************************)
EXTENDS AgentRun, TLAPS, FiniteSetTheorems, WellFoundedInduction, SequenceTheorems

LEMMA Parameters ==
    /\ MaxContext \in Nat \ {0} /\ MaxRounds \in Nat \ {0} /\ Window \in Nat \ {0}
    /\ MaxCalls \in Nat \ {0} /\ MaxPieces \in Nat \ {0}
    /\ Batch \in Nat \ {0} /\ QueueSize \in Nat \ {0} /\ MaxFaults \in Nat /\ MaxLost \in Nat
    /\ ToolError \in Contents
BY AgentGraphAssumption, AgentRunAssumption

-----------------------------------------------------------------------------
(* The least and the greatest of a set of positions *)

LEMMA LeastExists ==
    ASSUME NEW S \in SUBSET Nat, S # {}
    PROVE  \E m \in S : \A n \in S : m <= n
<1>1. IsWellFoundedOn(OpToRel(<, Nat), Nat)
  BY NatLessThanWellFounded
<1>2. PICK m \in S : \A n \in S : ~ (<<n, m>> \in OpToRel(<, Nat))
  BY <1>1, WFMin
<1>3. \A n \in S : ~(n < m)
  BY <1>2 DEF OpToRel
<1> QED  BY <1>3

LEMMA MinInSet ==
    ASSUME NEW S \in SUBSET Nat, S # {}
    PROVE  Min(S) \in S /\ \A n \in S : Min(S) <= n
BY LeastExists DEF Min

LEMMA MaxInSet ==
    ASSUME NEW N \in Nat, NEW S \in SUBSET (0..N), S # {}
    PROVE  Max(S) \in S /\ \A n \in S : n <= Max(S)
<1> DEFINE T == {N - i : i \in S}
<1>1. \A i \in S : N - i \in Nat
  OBVIOUS
<1>2. T \subseteq Nat /\ T # {}
  BY <1>1
<1>3. PICK t \in T : \A u \in T : t <= u
  BY <1>2, LeastExists
<1>4. PICK m \in S : t = N - m
  OBVIOUS
<1>5. \A i \in S : N - i \in T
  OBVIOUS
<1>6. \A i \in S : N - m <= N - i
  BY <1>3, <1>4, <1>5
<1>7. \A i \in S : m >= i
  BY <1>6
<1> QED  BY <1>7 DEF Max

LEMMA LastOfBounded ==
    ASSUME NEW N \in Nat, NEW S \in SUBSET (1..N)
    PROVE  LastOf(S) \in 0..N /\ (LastOf(S) # 0 => LastOf(S) \in S)
<1>1. S \cup {0} \in SUBSET (0..N) /\ S \cup {0} # {}
  OBVIOUS
<1> QED  BY <1>1, MaxInSet DEF LastOf

-----------------------------------------------------------------------------
(* Messages *)

LEMMA MessagesTyped ==
    /\ Human(1) \in Message
    /\ \A text \in Nat, calls \in Nat : AI(1, text, calls) \in Message
    /\ \A c \in Contents, t \in {0, 1} : Tool(t, c) \in Message
BY Parameters DEF Message, Human, AI, Tool

LEMMA HistoriesTyped ==
    ASSUME NEW c \in Callers, NEW p \in Histories(c)
    PROVE  /\ p \in Seq(Message)
           /\ \A i \in 1..Len(p) : p[i].turn = 0 /\ p[i].calls = 0
<1> DEFINE Row == {m \in Message : m.turn = 0 /\ m.calls = 0}
<1>1. p \in Seq(Row)
  <2>1. Pasts \cup Shown \subseteq Seq(Row)
    BY AgentRunAssumption
  <2> HIDE DEF Row
  <2>2. Histories(c) = Shown \/ Histories(c) = Pasts \/ Histories(c) = {<<>>}
    BY DEF Histories
  <2>3. p \in Shown \/ p \in Pasts \/ p = <<>>
    BY <2>2
  <2>4. <<>> \in Seq(Row)
    OBVIOUS
  <2> QED  BY <2>1, <2>3, <2>4
<1>2. Len(p) \in Nat /\ \A i \in 1..Len(p) : p[i] \in Row
  <2> HIDE DEF Row
  <2> QED  BY <1>1
<1>3. p \in Seq(Message)
  <2>1. \A i \in 1..Len(p) : p[i] \in Message
    BY <1>2
  <2>2. p = [i \in 1..Len(p) |-> p[i]]
    <3> HIDE DEF Row
    <3> QED  BY <1>1
  <2> QED  BY <1>2, <2>1, <2>2
<1> QED  BY <1>2, <1>3

LEMMA ResultsAreTools ==
    ASSUME NEW ms \in Seq(Message), ms # <<>>, NEW r \in ToolResults(ms)
    PROVE  /\ r \in Seq(Message) /\ Len(r) = Last(ms).calls
           /\ \A k \in 1..Len(r) : r[k].kind = "tool" /\ r[k].calls = 0
<1> DEFINE n == Last(ms).calls
           t == Last(ms).turn
<1>1. n \in Nat /\ t \in {0, 1}
  <2>1. Last(ms) \in Message
    BY DEF Last
  <2> QED  BY <2>1 DEF Message
<1> HIDE DEF n, t
<1>2. PICK f \in [1..n -> Contents] : r = [k \in 1..n |-> Tool(t, f[k])]
  BY Parameters DEF ToolResults, n, t
<1>3. \A k \in 1..n : r[k] = Tool(t, f[k]) /\ r[k] \in Message
  BY <1>1, <1>2, MessagesTyped
<1>4. r \in [1..n -> Message]
  BY <1>2, <1>3
<1>5. r \in Seq(Message) /\ Len(r) = n
  BY <1>1, <1>4
<1>6. \A k \in 1..n : r[k].kind = "tool" /\ r[k].calls = 0
  <2>1. \A c : Tool(t, c).kind = "tool" /\ Tool(t, c).calls = 0
    BY DEF Tool
  <2> QED  BY <1>3, <2>1
<1> QED  BY <1>5, <1>6 DEF n

-----------------------------------------------------------------------------
(* The context *)

\* What trim_messages keeps is a run of messages at the end, which starts with
\* a human message unless nothing was cut.
LEMMA KeptIsSuffix ==
    ASSUME NEW ms \in Seq(Message)
    PROVE  \E m \in 1..Len(ms) + 1 :
              /\ Trimmed(ms) = m..Len(ms)
              /\ m \in 2..Len(ms) => ms[m].kind = "human"
<1> DEFINE starts == {i \in Of(ms, "human") : i > Len(ms) - MaxContext}
<1>1. Of(ms, "human") \subseteq 1..Len(ms) /\ Len(ms) \in Nat
  BY DEF Of
<1>2. starts \in SUBSET Nat /\ starts \subseteq 1..Len(ms)
  BY <1>1
<1>3. CASE Len(ms) <= MaxContext
  BY <1>3 DEF Trimmed
<1>4. CASE Len(ms) > MaxContext /\ starts = {}
  <2>1. Trimmed(ms) = {}
    BY <1>1, <1>4, Parameters DEF Trimmed
  <2> QED  BY <1>1, <2>1
<1>5. CASE Len(ms) > MaxContext /\ starts # {}
  <2>1. Trimmed(ms) = Min(starts)..Len(ms)
    BY <1>1, <1>5, Parameters DEF Trimmed
  <2>2. Min(starts) \in starts
    BY <1>2, <1>5, MinInSet
  <2>3. PICK m \in starts : Trimmed(ms) = m..Len(ms)
    BY <2>1, <2>2
  <2>4. ms[m].kind = "human" /\ m \in 1..Len(ms)
    BY <1>2 DEF Of
  <2> QED  BY <1>1, <2>3, <2>4
<1> QED  BY <1>1, <1>3, <1>4, <1>5, Parameters

\* The first n messages have their calls answered, and every result of the turn
\* follows the message that called for it.
Answered(ms, n) ==
    /\ \A i \in 1..n : /\ i + ms[i].calls <= Len(ms)
                       /\ \A k \in i + 1..i + ms[i].calls : ms[k].kind = "tool"
    /\ \A j \in DOMAIN ms : ms[j].kind = "tool" /\ ms[j].turn = 1 =>
          \E i \in DOMAIN ms : j \in Answers(ms, i)

LEMMA AnswersOfAnswered ==
    ASSUME NEW ms \in Seq(Message), NEW i \in DOMAIN ms,
           i + ms[i].calls <= Len(ms),
           \A k \in i + 1..i + ms[i].calls : ms[k].kind = "tool"
    PROVE  Answers(ms, i) = i + 1..i + ms[i].calls
<1>1. i \in 1..Len(ms) /\ Len(ms) \in Nat /\ ms[i].calls \in Nat
  <2>1. ms[i] \in Message
    OBVIOUS
  <2> QED  BY <2>1 DEF Message
<1> DEFINE n == ms[i].calls
<1>2. n \in Nat /\ i + n <= Len(ms) /\ \A k \in i + 1..i + n : ms[k].kind = "tool"
  BY <1>1
<1>3. Answers(ms, i) = {j \in Of(ms, "tool") : i < j /\ j <= i + n /\ \A k \in i + 1..j : ms[k].kind = "tool"}
  BY DEF Answers
<1> HIDE DEF n
<1>4. \A j \in i + 1..i + n : j \in Of(ms, "tool")
  BY <1>1, <1>2 DEF Of
<1>5. Of(ms, "tool") \subseteq 1..Len(ms)
  BY DEF Of
<1>6. \A j \in Answers(ms, i) : j \in i + 1..i + n
  BY <1>1, <1>2, <1>3, <1>5
<1>7. \A j \in i + 1..i + n : j \in Answers(ms, i)
  BY <1>1, <1>2, <1>3, <1>4
<1>8. Answers(ms, i) = i + 1..i + n
  BY <1>6, <1>7
<1> QED  BY <1>8 DEF n

\* Whatever is trimmed, a context has all the results of its calls and the calls
\* of all its results.
LEMMA ContextAnswered ==
    ASSUME NEW ms \in Seq(Message), Answered(ms, Len(ms))
    PROVE  LET C == Context(ms)
           IN  /\ \A i \in C : Cardinality(Answers(ms, i) \cap C) = ms[i].calls
               /\ \A j \in C : ms[j].kind = "tool" /\ ms[j].turn = 1 =>
                     \E i \in C : j \in Answers(ms, i)
<1> DEFINE C == Context(ms)
           K == Trimmed(ms)
<1>1. PICK m \in 1..Len(ms) + 1 : K = m..Len(ms) /\ (m \in 2..Len(ms) => ms[m].kind = "human")
  BY KeptIsSuffix
<1>2. Len(ms) \in Nat /\ DOMAIN ms = 1..Len(ms)
  OBVIOUS
<1>3. C = K \cup UNION {Answers(ms, i) : i \in K}
  BY DEF Context
<1>4. \A i \in DOMAIN ms : ms[i].calls \in Nat /\ Answers(ms, i) = i + 1..i + ms[i].calls
  <2> SUFFICES ASSUME NEW i \in DOMAIN ms
               PROVE  ms[i].calls \in Nat /\ Answers(ms, i) = i + 1..i + ms[i].calls
    OBVIOUS
  <2>1. ms[i] \in Message
    OBVIOUS
  <2> QED  BY <1>2, <2>1, AnswersOfAnswered DEF Answered, Message
<1>5. \A i \in DOMAIN ms : i + ms[i].calls <= Len(ms)
  BY <1>2 DEF Answered
<1> HIDE DEF C, K
\* The results of a kept message are kept: what is kept goes to the end.
<1>6. C = K
  <2>1. \A i \in K : Answers(ms, i) \subseteq K
    <3> SUFFICES ASSUME NEW i \in K, NEW j \in Answers(ms, i) PROVE j \in K
      OBVIOUS
    <3>1. i \in DOMAIN ms /\ i \in m..Len(ms) /\ m \in Nat
      BY <1>1, <1>2
    <3>2. j \in i + 1..i + ms[i].calls /\ ms[i].calls \in Nat /\ i + ms[i].calls <= Len(ms)
      BY <1>4, <1>5, <3>1
    <3> QED  BY <1>1, <1>2, <3>1, <3>2
  <2> QED  BY <1>3, <2>1
<1>7. ASSUME NEW i \in C
      PROVE  Cardinality(Answers(ms, i) \cap C) = ms[i].calls
  <2>1. i \in DOMAIN ms
    BY <1>1, <1>2, <1>6
  <2>4. Answers(ms, i) \subseteq C
    BY <1>3, <1>6
  <2>2. Answers(ms, i) \cap C = i + 1..i + ms[i].calls /\ ms[i].calls \in Nat /\ i \in Nat
    BY <1>2, <1>4, <2>1, <2>4
  <2>3. Cardinality(i + 1..i + ms[i].calls) = ms[i].calls
    <3>1. ms[i].calls \in Nat /\ i + 1 \in Int /\ i + ms[i].calls \in Int
      BY <2>2
    <3>2. Cardinality(i + 1..i + ms[i].calls)
            = IF i + 1 > i + ms[i].calls THEN 0 ELSE (i + ms[i].calls) - (i + 1) + 1
      BY <3>1, FS_Interval
    <3> QED  BY <2>2, <3>2
  <2> QED  BY <2>2, <2>3
<1>8. ASSUME NEW j \in C, ms[j].kind = "tool", ms[j].turn = 1
      PROVE  \E i \in C : j \in Answers(ms, i)
  <2>1. j \in m..Len(ms) /\ m \in Nat /\ m >= 1 /\ j \in DOMAIN ms
    BY <1>1, <1>2, <1>6, <1>8
  <2>2. PICK i \in DOMAIN ms : j \in Answers(ms, i)
    BY <1>8, <2>1 DEF Answered
  <2>3. i < j /\ \A k \in i + 1..j : ms[k].kind = "tool"
    BY <2>2 DEF Answers
  <2>4. i >= m
    BY <1>1, <1>2, <2>1, <2>3
  <2> QED  BY <1>1, <1>2, <1>6, <2>2, <2>4
<1> QED  BY <1>7, <1>8 DEF C

\* The question is kept as long as the messages since it fit.
LEMMA ContextHasQuestion ==
    ASSUME NEW ms \in Seq(Message), Of(ms, "human") # {}
    PROVE  LET q == Question(ms)
           IN  IF Len(ms) - q < MaxContext
               THEN q..Len(ms) \subseteq Context(ms)
               ELSE Context(ms) = {}
<1> DEFINE q == Question(ms)
           starts == {i \in Of(ms, "human") : i > Len(ms) - MaxContext}
<1>1. Len(ms) \in Nat /\ Of(ms, "human") \in SUBSET (0..Len(ms)) /\ 0 \notin Of(ms, "human")
  BY DEF Of
<1>2. q \in Of(ms, "human") /\ \A i \in Of(ms, "human") : i <= q
  BY <1>1, MaxInSet DEF Question
<1>3. q \in 1..Len(ms)
  BY <1>1, <1>2
<1>4. Trimmed(ms) \subseteq Context(ms) /\ (Trimmed(ms) = {} => Context(ms) = {})
  BY DEF Context
<1>5. MaxContext \in Nat \ {0}
  BY Parameters
<1>6. starts \subseteq Nat /\ DOMAIN ms = 1..Len(ms)
  BY <1>1
<1> HIDE DEF q
<1>7. CASE Len(ms) <= MaxContext
  <2>1. Len(ms) - q < MaxContext /\ Trimmed(ms) = 1..Len(ms)
    BY <1>1, <1>3, <1>5, <1>6, <1>7 DEF Trimmed
  <2> QED  BY <1>3, <1>4, <2>1 DEF q
<1>8. CASE Len(ms) > MaxContext /\ Len(ms) - q < MaxContext
  <2>1. q \in starts
    BY <1>1, <1>2, <1>3, <1>5, <1>8
  <2>2. Trimmed(ms) = Min(starts)..Len(ms)
    BY <1>1, <1>5, <1>8, <2>1 DEF Trimmed
  <2>3. Min(starts) \in Nat /\ Min(starts) <= q
    BY <1>6, <2>1, MinInSet
  <2>4. PICK lo \in Nat : lo <= q /\ Trimmed(ms) = lo..Len(ms)
    BY <2>2, <2>3
  <2>5. q..Len(ms) \subseteq Trimmed(ms)
    BY <1>1, <1>3, <2>4
  <2> QED  BY <1>4, <1>8, <2>5 DEF q
<1>9. CASE ~(Len(ms) - q < MaxContext)
  <2>1. starts = {} /\ Len(ms) > MaxContext
    BY <1>1, <1>2, <1>3, <1>5, <1>9
  <2>2. Trimmed(ms) = {}
    BY <1>1, <1>5, <2>1 DEF Trimmed
  <2> QED  BY <1>4, <1>9, <2>2 DEF q
<1> QED  BY <1>1, <1>3, <1>5, <1>7, <1>8, <1>9

-----------------------------------------------------------------------------
(* Types *)

Nodes == Running \cup {"START", "error", "closing", "off"}
Event == [type : EventTypes, pieces : Seq(Piece)]

GraphTyped ==
    /\ messages \in Seq(Message) /\ node \in Nodes /\ fits \in BOOLEAN
    /\ draft \in [text : 0..MaxPieces, calls : 0..MaxCalls]
    /\ stored \in 0..Len(messages) /\ vetted \in 0..Len(messages)
    /\ node = "START" <=> messages = <<>>

RequestTyped == caller \in Callers /\ past \in Histories(caller) /\ faults \in 0..MaxFaults

\* Nothing is buffered before the first call of the model.
StreamTyped ==
    /\ hasTools \in BOOLEAN /\ buffer \in Seq(Piece) /\ tokens \in Seq(Piece)
    /\ node \in {"START", "input_guardrail", "planner", "agent"} => buffer = <<>>
    /\ hasTools => buffer = <<>>

DeliveryTyped ==
    /\ sent \in Seq(Piece)
    /\ queue \in Seq(Event) /\ Len(queue) <= QueueSize
    /\ lost \in Seq(EventTypes) /\ Len(lost) <= MaxLost
    /\ socket \in {"idle", "serving"}

Typed == GraphTyped /\ RequestTyped /\ StreamTyped /\ DeliveryTyped

LEMMA TypedImpliesTypeOK == Typed => TypeOK
BY DEF Typed, GraphTyped, RequestTyped, StreamTyped, DeliveryTyped, TypeOK, Nodes, Event

LEMMA InitTyped == Init => Typed
<1> SUFFICES ASSUME Init PROVE Typed
  OBVIOUS
<1>1. GraphTyped
  <2>1. messages = <<>> /\ stored = 0 /\ vetted = 0 /\ node = "START" /\ fits \in BOOLEAN
    BY DEF Init
  <2>2. draft \in [text : 0..MaxPieces, calls : 0..MaxCalls]
    BY Parameters DEF Init, Empty
  <2>3. messages \in Seq(Message) /\ Len(messages) = 0
    BY <2>1
  <2> QED  BY <2>1, <2>2, <2>3 DEF GraphTyped, Nodes
<1>2. RequestTyped
  BY Parameters DEF Init, RequestTyped
<1>3. StreamTyped /\ DeliveryTyped
  <2>1. buffer = <<>> /\ tokens = <<>> /\ hasTools = FALSE /\ sent = <<>> /\ queue = <<>>
        /\ lost = <<>> /\ socket = "idle"
    BY DEF Init
  <2>2. StreamTyped
    <3>1. buffer \in Seq(Piece) /\ tokens \in Seq(Piece)
      BY <2>1
    <3>2. hasTools \in BOOLEAN
      BY <2>1, Zenon
    <3> QED  BY <2>1, <3>1, <3>2, Zenon DEF StreamTyped
  <2>3. DeliveryTyped
    BY <2>1, Parameters DEF DeliveryTyped
  <2> QED  BY <2>2, <2>3
<1> QED  BY <1>1, <1>2, <1>3 DEF Typed

LEMMA ReceivedTyped ==
    ASSUME DeliveryTyped, NEW e \in Event
    PROVE  Received(e) \in Seq(Piece)
<1>1. e.pieces \in Seq(Piece) /\ sent \in Seq(Piece)
  BY DEF DeliveryTyped, Event
<1> QED  BY <1>1 DEF Received

LEMMA EmitTyped ==
    ASSUME Typed, NEW type \in EventTypes, NEW pieces \in Seq(Piece), Emit(type, pieces)
    PROVE  DeliveryTyped' /\ UNCHANGED socket
<1> DEFINE e == [type |-> type, pieces |-> pieces]
<1>1. e \in Event
  BY DEF Event
<1>2. e.type = type
  OBVIOUS
<1> HIDE DEF e
<1>3. CASE Enqueue(e)
  <2>1. CASE Len(queue) < QueueSize
    <3>1. UNCHANGED <<socket, sent, lost>> /\ queue' = Append(queue, e)
      BY <1>3, <2>1 DEF Enqueue
    <3>2. queue \in Seq(Event)
      BY DEF Typed, DeliveryTyped
    <3>3. queue' \in Seq(Event) /\ Len(queue') = Len(queue) + 1 /\ Len(queue) \in Nat
      BY <1>1, <3>1, <3>2
    <3>4. Len(queue') <= QueueSize
      BY <2>1, <3>3, Parameters
    <3> QED  BY <3>1, <3>3, <3>4 DEF Typed, DeliveryTyped
  <2>2. CASE ~(Len(queue) < QueueSize)
    BY <1>2, <1>3, <2>2, Parameters DEF Enqueue, Typed, DeliveryTyped
  <2> QED  BY <2>1, <2>2
<1>4. CASE sent' = Received(e) /\ UNCHANGED <<queue, lost, socket>>
  BY <1>1, <1>4, ReceivedTyped DEF Typed, DeliveryTyped
<1>5. CASE UNCHANGED delivery
  BY <1>5 DEF delivery, Typed, DeliveryTyped
<1> QED  BY <1>3, <1>4, <1>5 DEF Emit, e

LEMMA SendTyped ==
    ASSUME Typed, Send
    PROVE  Typed'
<1>1. UNCHANGED <<messages, node, fits, draft, stored, vetted, caller, past, buffer, hasTools,
                  tokens, lost, faults>>
  BY DEF Send, graph, request, stream
<1>2. queue \in Seq(Event) /\ queue # <<>> /\ queue' = Tail(queue) /\ Len(queue) <= QueueSize
  BY DEF Send, Typed, DeliveryTyped
<1>3. Head(queue) \in Event /\ queue' \in Seq(Event) /\ Len(queue') <= QueueSize
  BY <1>2, Parameters
<1>4. sent' \in Seq(Piece) /\ socket' \in {"idle", "serving"}
  BY <1>3, ReceivedTyped DEF Send, Typed, DeliveryTyped
<1> QED
  BY <1>1, <1>3, <1>4 DEF Typed, GraphTyped, RequestTyped, StreamTyped, DeliveryTyped

LEMMA SpokenBounded ==
    ASSUME NEW ms \in Seq(Message)
    PROVE  Spoken(ms) \in 0..Len(ms) /\ Answer(ms) \in 0..Len(ms)
<1>1. Len(ms) \in Nat /\ Of(ms, "ai") \subseteq 1..Len(ms)
  BY DEF Of
<1>2. /\ {i \in Of(ms, "ai") : ms[i].text > 0} \in SUBSET (1..Len(ms))
      /\ {i \in Of(ms, "ai") : ms[i].text > 0 /\ ms[i].calls = 0} \in SUBSET (1..Len(ms))
  BY <1>1
<1> QED  BY <1>1, <1>2, LastOfBounded DEF Spoken, Answer

LEMMA GraphKept ==
    ASSUME Typed, [Next]_vars
    PROVE  GraphTyped'
<1> USE DEF Typed, GraphTyped
<1>1. messages \in Seq(Message) /\ Len(messages) \in Nat
  OBVIOUS
<1>2. Empty \in [text : 0..MaxPieces, calls : 0..MaxCalls]
  BY Parameters DEF Empty
<1>3. CASE Start
  <2>1. messages' \in Seq(Message) /\ Len(messages') \in Nat /\ messages' # <<>>
    BY <1>3, HistoriesTyped, MessagesTyped DEF Start, RequestTyped
  <2>2. stored = 0 /\ vetted = 0
    BY <1>3 DEF Start
  <2>3. node' = "input_guardrail" /\ UNCHANGED <<fits, draft, stored, vetted>>
    BY <1>3 DEF Start, Goto
  <2> QED  BY <2>1, <2>2, <2>3 DEF Nodes, Running
<1>4. ASSUME UNCHANGED <<messages, stored, vetted, fits>>, node' \in Nodes,
             node = "START" <=> node' = "START",
             draft' \in [text : 0..MaxPieces, calls : 0..MaxCalls]
      PROVE  GraphTyped'
  BY <1>4
<1>5. CASE InputGuardrail \/ Planner \/ CallModel \/ FlushRest \/ Final \/ Error \/ PutEnd \/ Send
  <2>1. UNCHANGED <<messages, stored, vetted, fits, draft>>
    BY <1>5 DEF InputGuardrail, Planner, CallModel, FlushRest, Final, Error, PutEnd, Send, graph
  <2>2. node' \in Nodes /\ (node = "START" <=> node' = "START")
    BY <1>5 DEF InputGuardrail, Planner, CallModel, FlushRest, Final, Error, PutEnd, Send, graph,
                Goto, RunIsOver, Nodes, Running
  <2> QED  BY <1>4, <2>1, <2>2
<1>6. CASE RunFails \/ Disconnect
  <2>1. UNCHANGED <<messages, stored, vetted, fits>> /\ draft' = Empty
    BY <1>6 DEF RunFails, Disconnect
  <2>2. node' \in Nodes /\ node # "START" /\ node' # "START"
    BY <1>6 DEF RunFails, Disconnect, Goto, Nodes, Running
  <2> QED  BY <1>2, <1>4, <2>1, <2>2
<1>7. CASE TextChunk \/ ToolCallChunk
  <2>1. UNCHANGED <<messages, stored, vetted, fits, node>>
    BY <1>7 DEF TextChunk, ToolCallChunk
  <2>2. draft' \in [text : 0..MaxPieces, calls : 0..MaxCalls]
    <3>1. CASE TextChunk
      <4>1. draft.text < MaxPieces /\ draft' = [draft EXCEPT !.text = @ + 1]
        BY <3>1 DEF TextChunk
      <4>2. draft \in [text : 0..MaxPieces, calls : 0..MaxCalls]
        OBVIOUS
      <4>3. draft.text + 1 \in 0..MaxPieces
        BY <4>1, <4>2, Parameters
      <4> HIDE DEF GraphTyped, TypeOK, Typed
      <4> QED  BY <4>1, <4>2, <4>3
    <3>2. CASE ToolCallChunk
      BY <3>2, Parameters DEF ToolCallChunk
    <3> QED  BY <1>7, <3>1, <3>2
  <2> QED  BY <1>4, <2>1, <2>2
<1>8. CASE Respond
  <2>1. draft.text \in Nat /\ draft.calls \in Nat
    OBVIOUS
  <2>2. AI(1, draft.text, draft.calls) \in Message
    BY <2>1, MessagesTyped
  <2>3. messages' \in Seq(Message) /\ Len(messages') = Len(messages) + 1 /\ messages' # <<>>
    BY <1>1, <1>8, <2>2 DEF Respond
  <2>4. draft' = Empty /\ UNCHANGED <<fits, stored, vetted>> /\ node' \in {"tools", "post_process"}
    BY <1>8 DEF Respond, Goto
  <2> QED  BY <1>1, <1>2, <2>3, <2>4 DEF Nodes, Running
<1>9. CASE Tools
  <2>1. UNCHANGED <<fits, draft, stored, vetted>> /\ node' = "agent"
    BY <1>9 DEF Tools, Goto
  <2>2. PICK r \in ToolResults(messages) : messages' = messages \o r
    BY <1>9 DEF Tools
  <2>3. messages # <<>> /\ r \in Seq(Message)
    BY <1>9, <2>2, ResultsAreTools DEF Tools
  <2>4. messages' \in Seq(Message) /\ Len(messages') >= Len(messages) /\ messages' # <<>>
    BY <1>1, <2>2, <2>3
  <2>5. Len(messages') \in Nat
    BY <2>4
  <2> QED  BY <1>1, <2>1, <2>4, <2>5 DEF Nodes, Running
<1>10. CASE PostProcess \/ OutputGuardrail
  <2>1. stored' \in 0..Len(messages) /\ vetted' \in 0..Len(messages)
    <3>1. Spoken(messages) \in 0..Len(messages) /\ 0 \in 0..Len(messages)
      BY <1>1, SpokenBounded
    <3>2. stored' = stored \/ stored' = Spoken(messages)
      BY <1>10 DEF PostProcess, OutputGuardrail
    <3>3. vetted' = vetted \/ vetted' = Spoken(messages) \/ vetted' = 0
      BY <1>10 DEF PostProcess, OutputGuardrail
    <3> QED  BY <3>1, <3>2, <3>3
  <2>2. UNCHANGED <<messages, fits, draft>> /\ node # "START"
        /\ node' \in {"output_guardrail", "END", "guardrail_reject"}
    BY <1>10 DEF PostProcess, OutputGuardrail, Goto
  <2> QED  BY <2>1, <2>2 DEF Nodes, Running
<1>11. CASE GuardrailReject
  <2>1. messages' \in Seq(Message) /\ Len(messages') = Len(messages) + 1 /\ messages' # <<>>
    BY <1>1, <1>11, MessagesTyped DEF GuardrailReject
  <2>2. node' = "END" /\ UNCHANGED <<fits, draft, stored, vetted>>
    BY <1>11 DEF GuardrailReject, Goto
  <2> QED  BY <1>1, <2>1, <2>2 DEF Nodes, Running
<1>12. CASE UNCHANGED vars
  BY <1>12 DEF vars, graph
<1> QED
  BY <1>3, <1>5, <1>6, <1>7, <1>8, <1>9, <1>10, <1>11, <1>12 DEF Next, RunStep

LEMMA StreamKept ==
    ASSUME Typed, [Next]_vars
    PROVE  StreamTyped'
<1> USE DEF Typed, StreamTyped
<1>1. \A i \in Nat \ {0}, k \in Nat \ {0} : <<i, k>> \in Piece
  BY DEF Piece
<1>7. buffer \in Seq(Piece) /\ tokens \in Seq(Piece)
  BY Zenon
<1>8. <<>> \in Seq(Piece) /\ tokens \o buffer \in Seq(Piece)
  BY <1>7
<1>2. CASE TextChunk
  <2> DEFINE held == Append(buffer, <<Len(messages) + 1, draft.text + 1>>)
  <2>1. Len(messages) + 1 \in Nat \ {0} /\ draft.text + 1 \in Nat \ {0}
    BY DEF GraphTyped
  <2>2. held \in Seq(Piece) /\ tokens \o held \in Seq(Piece)
    BY <1>1, <2>1
  <2>3. node = "llm" /\ UNCHANGED <<node, hasTools>>
    BY <1>2 DEF TextChunk
  <2>4. CASE hasTools \/ caller = "automation"
    <3>1. UNCHANGED <<buffer, tokens>>
      BY <1>2, <2>4 DEF TextChunk
    <3> QED  BY <2>3, <3>1
  <2>5. CASE ~(hasTools \/ caller = "automation")
    <3>1. \/ buffer' = held /\ UNCHANGED tokens
          \/ buffer' = <<>> /\ tokens' = tokens \o held
      BY <1>2, <2>5 DEF TextChunk
    <3>2. buffer' \in Seq(Piece) /\ tokens' \in Seq(Piece)
      BY <1>7, <1>8, <2>2, <3>1, Zenon
    <3>3. ~hasTools' /\ hasTools' \in BOOLEAN
      BY <2>3, <2>5, Zenon
    <3>4. node' \notin {"START", "input_guardrail", "planner", "agent"}
      BY <2>3
    <3> QED  BY <3>2, <3>3, <3>4, Zenon
  <2> QED  BY <2>4, <2>5
<1>3. CASE CallModel \/ ToolCallChunk \/ Tools \/ RunFails \/ Disconnect
  <2>1. buffer' = <<>> /\ UNCHANGED tokens /\ hasTools' \in BOOLEAN
    BY <1>3 DEF CallModel, ToolCallChunk, Tools, RunFails, Disconnect
  <2> QED  BY <2>1
<1>4. CASE FlushRest
  <2>1. node' = "final" /\ UNCHANGED hasTools
    BY <1>4 DEF FlushRest, Goto
  <2>2. \/ tokens' = tokens \o buffer /\ buffer' = <<>>
        \/ UNCHANGED <<tokens, buffer>>
    BY <1>4 DEF FlushRest
  <2>3. buffer' \in Seq(Piece) /\ tokens' \in Seq(Piece)
    BY <1>7, <1>8, <2>2, Zenon
  <2>4. hasTools' \in BOOLEAN /\ (hasTools' => buffer' = <<>>)
    BY <2>1, <2>2, Zenon
  <2>5. node' \notin {"START", "input_guardrail", "planner", "agent"}
    BY <2>1
  <2> QED  BY <2>3, <2>4, <2>5, Zenon
<1>5. CASE \/ Start \/ InputGuardrail \/ Planner \/ Respond \/ PostProcess \/ OutputGuardrail
           \/ GuardrailReject \/ Final \/ Error \/ PutEnd \/ Send
  <2>1. UNCHANGED <<buffer, hasTools, tokens>>
    BY <1>5 DEF Start, InputGuardrail, Planner, Respond, PostProcess, OutputGuardrail,
                GuardrailReject, Final, Error, PutEnd, Send, Silent, stream
  <2>2. \/ node' = node
        \/ node' \notin {"START", "input_guardrail", "planner", "agent"}
        \/ node \in {"START", "input_guardrail", "planner"}
    BY <1>5 DEF Start, InputGuardrail, Planner, Respond, PostProcess, OutputGuardrail,
                GuardrailReject, Final, Error, PutEnd, Send, Silent, graph, Goto, RunIsOver
  <2> QED  BY <2>1, <2>2
<1>6. CASE UNCHANGED vars
  BY <1>6 DEF vars, graph, stream
<1> QED  BY <1>2, <1>3, <1>4, <1>5, <1>6 DEF Next, RunStep

LEMMA RestKept ==
    ASSUME Typed, [Next]_vars
    PROVE  RequestTyped'
<1> USE DEF Typed, RequestTyped
<1>1. UNCHANGED <<caller, past>>
  BY DEF Next, RunStep, Start, InputGuardrail, Planner, CallModel, TextChunk, ToolCallChunk, Respond,
         Tools, PostProcess, OutputGuardrail, GuardrailReject, FlushRest, Final, Error, PutEnd, Send,
         RunFails, Disconnect, Silent, request, vars
<1>2. faults' = faults \/ (faults < MaxFaults /\ faults' = faults + 1)
  BY DEF Next, RunStep, Start, InputGuardrail, Planner, CallModel, TextChunk, ToolCallChunk, Respond,
         Tools, PostProcess, OutputGuardrail, GuardrailReject, FlushRest, Final, Error, PutEnd, Send,
         RunFails, Disconnect, Silent, vars
<1>3. faults' \in 0..MaxFaults
  BY <1>2, Parameters
<1> QED  BY <1>1, <1>3 DEF Histories

LEMMA ResultTyped ==
    ASSUME Typed
    PROVE  Result \in Seq(Piece)
<1>1. Answer(messages) \in 0..Len(messages) /\ Len(messages) \in Nat
  BY SpokenBounded DEF Typed, GraphTyped
<1>2. CASE tokens # <<>> \/ Answer(messages) = 0
  BY <1>2 DEF Result, Typed, StreamTyped
<1>3. CASE tokens = <<>> /\ Answer(messages) # 0
  <2> DEFINE i == Answer(messages)
             n == messages[i].text
  <2>1. i \in 1..Len(messages) /\ i \in Nat \ {0}
    BY <1>1, <1>3
  <2>2. messages[i] \in Message
    BY <2>1 DEF Typed, GraphTyped
  <2>3. n \in Nat
    BY <2>2 DEF Message
  <2>4. Result = [k \in 1..n |-> <<i, k>>]
    BY <1>3 DEF Result, Pieces
  <2> HIDE DEF i, n
  <2>5. \A k \in 1..n : <<i, k>> \in Piece
    BY <2>1, <2>3 DEF Piece
  <2> QED  BY <2>3, <2>4, <2>5
<1> QED  BY <1>2, <1>3

LEMMA DeliveryKept ==
    ASSUME Typed, [Next]_vars
    PROVE  DeliveryTyped'
<1>1. ASSUME UNCHANGED delivery PROVE DeliveryTyped'
  BY <1>1 DEF Typed, DeliveryTyped, delivery
<1>2. {"token", "note", "final", "error", "end"} \subseteq EventTypes /\ <<>> \in Seq(Piece)
  BY DEF EventTypes
<1>3. CASE Start
  <2>1. UNCHANGED <<queue, lost, sent>> /\ socket' \in {"idle", "serving"}
    BY <1>3 DEF Start
  <2> QED  BY <2>1 DEF Typed, DeliveryTyped
<1>4. CASE TextChunk
  <2> DEFINE held == Append(buffer, <<Len(messages) + 1, draft.text + 1>>)
  <2>1. held \in Seq(Piece)
    <3>1. <<Len(messages) + 1, draft.text + 1>> \in Piece
      BY DEF Typed, GraphTyped, Piece
    <3> QED  BY <3>1 DEF Typed, StreamTyped
  <2>2. UNCHANGED delivery \/ Emit("token", held)
    BY <1>4 DEF TextChunk
  <2> QED  BY <1>1, <1>2, <2>1, <2>2, EmitTyped
<1>5. CASE ToolCallChunk \/ Tools
  BY <1>2, <1>5, EmitTyped DEF ToolCallChunk, Tools
<1>6. CASE FlushRest
  <2>1. UNCHANGED delivery \/ Emit("token", buffer)
    BY <1>6 DEF FlushRest
  <2>2. buffer \in Seq(Piece)
    BY DEF Typed, StreamTyped
  <2> QED  BY <1>1, <1>2, <2>1, <2>2, EmitTyped
<1>7. CASE Final
  <2>1. Result \in Seq(Piece)
    BY ResultTyped
  <2> QED  BY <1>2, <1>7, <2>1, EmitTyped DEF Final
<1>8. CASE Error \/ PutEnd
  BY <1>2, <1>8, EmitTyped DEF Error, PutEnd
<1>9. CASE Send
  BY <1>9, SendTyped DEF Typed
<1>10. CASE \/ InputGuardrail \/ Planner \/ CallModel \/ Respond \/ PostProcess \/ OutputGuardrail
            \/ GuardrailReject \/ RunFails \/ Disconnect
  BY <1>1, <1>10 DEF InputGuardrail, Planner, CallModel, Respond, PostProcess, OutputGuardrail,
                     GuardrailReject, RunFails, Disconnect, Silent
<1>11. CASE UNCHANGED vars
  BY <1>1, <1>11 DEF vars
<1> QED  BY <1>3, <1>4, <1>5, <1>6, <1>7, <1>8, <1>9, <1>10, <1>11 DEF Next, RunStep

LEMMA StepTyped == Typed /\ [Next]_vars => Typed'
<1> SUFFICES ASSUME Typed, [Next]_vars PROVE Typed'
  OBVIOUS
<1> QED  BY GraphKept, StreamKept, RestKept, DeliveryKept DEF Typed

-----------------------------------------------------------------------------
(* Calls and their results *)

CallsSound ==
    /\ node \in {"input_guardrail", "planner", "agent", "llm"} => Answered(messages, Len(messages))
    /\ node = "tools" => Answered(messages, Len(messages) - 1) /\ Last(messages).kind = "ai"

\* Messages that follow leave what was answered.
LEMMA AnsweredGrows ==
    ASSUME NEW ms \in Seq(Message), NEW more \in Seq(Message), NEW n \in Nat, n <= Len(ms),
           Answered(ms, n),
           Len(ms) <= Len(more), \A i \in 1..Len(ms) : more[i] = ms[i],
           \A j \in Len(ms) + 1..Len(more) : more[j].kind = "tool" =>
              \E i \in DOMAIN more : j \in Answers(more, i)
    PROVE  Answered(more, n)
<1>1. /\ DOMAIN ms = 1..Len(ms) /\ DOMAIN more = 1..Len(more)
      /\ Len(ms) \in Nat /\ Len(more) \in Nat
  OBVIOUS
<1>2. \A i \in DOMAIN ms : ms[i].calls \in Nat
  <2>1. \A i \in DOMAIN ms : ms[i] \in Message
    OBVIOUS
  <2> QED  BY <2>1 DEF Message
<1>3. ASSUME NEW i \in 1..n
      PROVE  /\ i + more[i].calls <= Len(more)
             /\ \A k \in i + 1..i + more[i].calls : more[k].kind = "tool"
  <2>1. i \in 1..Len(ms) /\ more[i] = ms[i] /\ i + ms[i].calls <= Len(ms)
        /\ \A k \in i + 1..i + ms[i].calls : ms[k].kind = "tool"
    BY <1>1 DEF Answered
  <2>2. \A k \in i + 1..i + ms[i].calls : k \in 1..Len(ms)
    BY <1>1, <1>2, <2>1
  <2> QED  BY <1>1, <1>2, <2>1, <2>2
<1>4. ASSUME NEW i \in DOMAIN ms, NEW j \in Answers(ms, i)
      PROVE  j \in Answers(more, i)
  <2>1. j \in 1..Len(ms) /\ ms[j].kind = "tool" /\ i < j /\ j <= i + ms[i].calls
        /\ \A k \in i + 1..j : ms[k].kind = "tool"
    BY <1>1 DEF Answers, Of
  <2>2. \A k \in i + 1..j : more[k] = ms[k]
    BY <1>1, <2>1
  <2>3. more[i] = ms[i] /\ more[j] = ms[j] /\ j \in DOMAIN more
    BY <1>1, <2>1
  <2> QED  BY <2>1, <2>2, <2>3 DEF Answers, Of
<1>5. ASSUME NEW j \in DOMAIN more, more[j].kind = "tool", more[j].turn = 1
      PROVE  \E i \in DOMAIN more : j \in Answers(more, i)
  <2>1. CASE j \in 1..Len(ms)
    <3>1. PICK i \in DOMAIN ms : j \in Answers(ms, i)
      BY <1>1, <1>5, <2>1 DEF Answered
    <3> QED  BY <1>1, <1>4, <3>1
  <2>2. CASE j \notin 1..Len(ms)
    BY <1>1, <1>5, <2>2
  <2> QED  BY <2>1, <2>2
<1> QED  BY <1>3, <1>5 DEF Answered

\* A turn starts without calls: the rows of the past store none.
LEMMA StartAnswered ==
    ASSUME NEW p \in Seq(Message), \A i \in 1..Len(p) : p[i].turn = 0 /\ p[i].calls = 0
    PROVE  LET ms == Append(p, Human(1)) IN Answered(ms, Len(ms))
<1> DEFINE ms == Append(p, Human(1))
<1>1. /\ ms \in Seq(Message) /\ Len(ms) = Len(p) + 1 /\ Len(p) \in Nat
      /\ \A i \in 1..Len(p) : ms[i] = p[i]
      /\ ms[Len(p) + 1] = Human(1)
  BY MessagesTyped
<1> HIDE DEF ms
<1>2. Human(1).kind = "human" /\ Human(1).calls = 0
  BY DEF Human
<1>3. \A i \in 1..Len(ms) : i \in 1..Len(p) \/ i = Len(p) + 1
  BY <1>1
<1>4. \A i \in 1..Len(ms) : ms[i].calls = 0 /\ (ms[i].turn = 0 \/ ms[i].kind = "human")
  BY <1>1, <1>2, <1>3
<1>5. \A i \in 1..Len(ms) : i + ms[i].calls <= Len(ms) /\ i + 1..i + ms[i].calls = {}
  BY <1>1, <1>4
<1>6. \A j \in DOMAIN ms : ~(ms[j].kind = "tool" /\ ms[j].turn = 1)
  BY <1>1, <1>4
<1>7. Answered(ms, Len(ms))
  BY <1>5, <1>6 DEF Answered
<1> QED  BY <1>7 DEF ms

\* The tool node answers the calls of the last message.
LEMMA ToolsAnswer ==
    ASSUME NEW ms \in Seq(Message), ms # <<>>, Answered(ms, Len(ms) - 1), NEW r \in ToolResults(ms)
    PROVE  LET more == ms \o r IN Answered(more, Len(more))
<1> DEFINE more == ms \o r
           last == Len(ms)
<1>1. r \in Seq(Message) /\ Len(r) = ms[last].calls
      /\ \A k \in 1..Len(r) : r[k].kind = "tool" /\ r[k].calls = 0
  BY ResultsAreTools DEF Last
<1>2. last \in Nat \ {0} /\ Len(r) \in Nat
  BY <1>1
<1>3. /\ more \in Seq(Message) /\ Len(more) = last + Len(r)
      /\ \A i \in 1..last : more[i] = ms[i]
      /\ \A i \in last + 1..Len(more) : more[i] = r[i - last]
  BY <1>1
<1> HIDE DEF more, last
<1>4. \A i \in last + 1..Len(more) : more[i].kind = "tool" /\ more[i].calls = 0
  <2>1. \A i \in last + 1..Len(more) : i - last \in 1..Len(r)
    BY <1>2, <1>3
  <2> QED  BY <1>1, <1>3, <2>1
<1>5. more[last].calls = Len(r) /\ last \in DOMAIN more /\ last + more[last].calls = Len(more)
  <2>1. last \in 1..last /\ more[last] = ms[last]
    BY <1>2, <1>3
  <2>2. last \in DOMAIN more
    BY <1>2, <1>3
  <2> QED  BY <1>1, <1>3, <2>1, <2>2
<1>6. Answers(more, last) = last + 1..Len(more)
  <2>1. last + more[last].calls <= Len(more)
        /\ \A k \in last + 1..last + more[last].calls : more[k].kind = "tool"
    BY <1>2, <1>3, <1>4, <1>5
  <2> QED  BY <1>3, <1>5, <2>1, AnswersOfAnswered
<1>7. Answered(more, last - 1)
  <2>1. Answered(ms, last - 1) /\ last - 1 \in Nat /\ last - 1 <= Len(ms) /\ Len(ms) <= Len(more)
    BY <1>2, <1>3 DEF last
  <2>2. \A j \in Len(ms) + 1..Len(more) : \E i \in DOMAIN more : j \in Answers(more, i)
    BY <1>5, <1>6 DEF last
  <2>3. \A i \in 1..Len(ms) : more[i] = ms[i]
    BY <1>3 DEF last
  <2> QED  BY <1>3, <2>1, <2>2, <2>3, AnsweredGrows
<1>8. ASSUME NEW i \in 1..Len(more)
      PROVE  /\ i + more[i].calls <= Len(more)
             /\ \A k \in i + 1..i + more[i].calls : more[k].kind = "tool"
  <2>1. CASE i \in 1..last - 1
    BY <1>7, <2>1 DEF Answered
  <2>2. CASE i = last
    BY <1>4, <1>5, <2>2
  <2>3. CASE i \in last + 1..Len(more)
    BY <1>2, <1>3, <1>4, <2>3
  <2> QED  BY <1>2, <1>3, <2>1, <2>2, <2>3
<1>9. Answered(more, Len(more))
  BY <1>7, <1>8 DEF Answered
<1> QED  BY <1>9 DEF more

LEMMA StepKeepsCalls ==
    ASSUME Typed, CallsSound, [Next]_vars
    PROVE  CallsSound'
<1>1. messages \in Seq(Message) /\ Len(messages) \in Nat /\ (node = "START" <=> messages = <<>>)
  BY DEF Typed, GraphTyped
<1>2. CASE Start
  <2>1. Answered(messages', Len(messages'))
    BY <1>2, HistoriesTyped, StartAnswered DEF Start, Typed, RequestTyped
  <2>2. node' = "input_guardrail"
    BY <1>2 DEF Start, Goto
  <2> QED  BY <2>1, <2>2 DEF CallsSound
<1>3. CASE Respond
  <2> DEFINE m == AI(1, draft.text, draft.calls)
  <2>1. messages' = Append(messages, m) /\ node = "llm"
    BY <1>3 DEF Respond
  <2>2. m \in Message /\ m.kind = "ai"
    <3>1. draft.text \in Nat /\ draft.calls \in Nat
      BY DEF Typed, GraphTyped
    <3>2. m \in Message
      BY <3>1, MessagesTyped
    <3> QED  BY <3>2 DEF AI
  <2> HIDE DEF m
  <2>3. /\ messages' \in Seq(Message) /\ Len(messages') = Len(messages) + 1
        /\ \A i \in 1..Len(messages) : messages'[i] = messages[i]
        /\ messages'[Len(messages) + 1] = m
    BY <1>1, <2>1, <2>2
  <2>4. Answered(messages, Len(messages))
    BY <2>1 DEF CallsSound
  <2>5. \A j \in Len(messages) + 1..Len(messages') : messages'[j].kind # "tool"
    BY <1>1, <2>2, <2>3
  <2>6. Len(messages) <= Len(messages') /\ Len(messages) = Len(messages') - 1
    BY <1>1, <2>3
  <2>7. Answered(messages', Len(messages))
    BY <1>1, <2>3, <2>4, <2>5, <2>6, AnsweredGrows
  <2>8. Last(messages').kind = "ai"
    BY <2>2, <2>3 DEF Last
  <2>9. node' \in {"tools", "post_process"}
    BY <1>3 DEF Respond, Goto
  <2> QED  BY <2>6, <2>7, <2>8, <2>9 DEF CallsSound
<1>4. CASE Tools
  <2>1. PICK r \in ToolResults(messages) : messages' = messages \o r
    BY <1>4 DEF Tools
  <2>2. node = "tools" /\ node' = "agent" /\ messages # <<>>
    BY <1>1, <1>4 DEF Tools, Goto
  <2>3. Answered(messages, Len(messages) - 1)
    BY <2>2 DEF CallsSound
  <2>4. Answered(messages', Len(messages'))
    BY <1>1, <2>1, <2>2, <2>3, ToolsAnswer
  <2> QED  BY <2>2, <2>4 DEF CallsSound
<1>5. CASE \/ PostProcess \/ OutputGuardrail \/ GuardrailReject \/ FlushRest \/ Final \/ Error
           \/ PutEnd \/ RunFails \/ Disconnect
  <2>1. node' \in {"output_guardrail", "END", "guardrail_reject", "final", "closing", "off", "error"}
    BY <1>5 DEF PostProcess, OutputGuardrail, GuardrailReject, FlushRest, Final, Error, PutEnd, RunFails,
                Disconnect, Goto, RunIsOver
  <2> QED  BY <2>1 DEF CallsSound
<1>6. CASE InputGuardrail \/ Planner \/ CallModel \/ TextChunk \/ ToolCallChunk \/ Send
  <2>1. UNCHANGED messages
    BY <1>6 DEF InputGuardrail, Planner, CallModel, TextChunk, ToolCallChunk, Send, graph
  <2>2. \/ node' = node
        \/ node' = "guardrail_reject"
        \/ node \in {"input_guardrail", "planner", "agent"} /\ node' \in {"planner", "agent", "llm"}
    BY <1>6 DEF InputGuardrail, Planner, CallModel, TextChunk, ToolCallChunk, Send, graph, Goto
  <2> QED  BY <2>1, <2>2 DEF CallsSound
<1>7. CASE UNCHANGED vars
  BY <1>7 DEF vars, graph, CallsSound
<1> QED  BY <1>2, <1>3, <1>4, <1>5, <1>6, <1>7 DEF Next, RunStep

\* Once a run has started, there is a question.
Asked == node # "START" => Of(messages, "human") # {}

LEMMA StepKeepsQuestion ==
    ASSUME Typed, Asked, [Next]_vars
    PROVE  Asked'
<1>1. messages \in Seq(Message) /\ Len(messages) \in Nat
  BY DEF Typed, GraphTyped
<1>2. ASSUME NEW ms \in Seq(Message), NEW i \in 1..Len(ms), ms[i].kind = "human"
      PROVE  Of(ms, "human") # {}
  BY <1>2 DEF Of
<1>3. CASE Start
  <2>1. messages' = Append(past, Human(1)) /\ past \in Seq(Message)
    BY <1>3, HistoriesTyped DEF Start, Typed, RequestTyped
  <2>2. messages' \in Seq(Message) /\ Len(messages') \in 1..Len(messages')
        /\ messages'[Len(messages')] = Human(1)
    BY <2>1, MessagesTyped
  <2>3. Human(1).kind = "human"
    BY DEF Human
  <2> QED  BY <1>2, <2>2, <2>3 DEF Asked
<1>4. ASSUME NEW r \in Seq(Message), messages' = messages \o r, node # "START"
      PROVE  Asked'
  <2>1. PICK i \in 1..Len(messages) : messages[i].kind = "human"
    BY <1>1, <1>4 DEF Asked, Of
  <2>2. messages' \in Seq(Message) /\ i \in 1..Len(messages') /\ messages'[i] = messages[i]
    BY <1>1, <1>4
  <2> QED  BY <1>2, <2>1, <2>2 DEF Asked
<1>5. CASE Respond \/ GuardrailReject
  <2>1. draft.text \in Nat /\ draft.calls \in Nat /\ 0 \in Nat /\ 1 \in Nat
    BY DEF Typed, GraphTyped
  <2>2. PICK m \in Message : messages' = Append(messages, m) /\ node # "START"
    BY <1>5, <2>1, MessagesTyped DEF Respond, GuardrailReject
  <2>3. messages' = messages \o <<m>> /\ <<m>> \in Seq(Message)
    BY <1>1, <2>2
  <2> QED  BY <1>4, <2>2, <2>3
<1>6. CASE Tools
  <2>1. PICK r \in ToolResults(messages) : messages' = messages \o r
    BY <1>6 DEF Tools
  <2>2. messages # <<>> /\ node # "START"
    BY <1>6 DEF Tools, Typed, GraphTyped
  <2> QED  BY <1>1, <1>4, <2>1, <2>2, ResultsAreTools
<1>7. CASE \/ InputGuardrail \/ Planner \/ CallModel \/ TextChunk \/ ToolCallChunk \/ PostProcess
           \/ OutputGuardrail \/ FlushRest \/ Final \/ Error \/ PutEnd \/ RunFails \/ Disconnect
  <2>1. UNCHANGED messages /\ node # "START"
    BY <1>7 DEF InputGuardrail, Planner, CallModel, TextChunk, ToolCallChunk, PostProcess,
                OutputGuardrail, FlushRest, Final, Error, PutEnd, RunFails, Disconnect, Running
  <2> QED  BY <2>1 DEF Asked
<1>8. CASE Send \/ UNCHANGED vars
  BY <1>8 DEF Send, vars, graph, Asked
<1> QED  BY <1>3, <1>5, <1>6, <1>7, <1>8 DEF Next, RunStep

-----------------------------------------------------------------------------
(* The tokens on their way to the WebSocket client *)

\* The pieces are the tokens from a + 1 to b.
Part(toks, pieces, a, b) ==
    /\ Len(pieces) = b - a
    /\ \A i \in 1..Len(pieces) : pieces[i] = toks[a + i]

\* f cuts the tokens at the events of a queue: those before f[0] have been sent,
\* those from f[k - 1] to f[k] are in event k.
Cut(f, toks, q, s) ==
    /\ Part(toks, s, 0, f[0])
    /\ f[Len(q)] = Len(toks)
    /\ \A k \in 1..Len(q) :
          /\ f[k - 1] <= f[k]
          /\ q[k].type = "token" => Part(toks, q[k].pieces, f[k - 1], f[k])
          /\ q[k].type # "token" => f[k] = f[k - 1]
          /\ q[k].type = "final" => f[k - 1] = Len(toks)

Splits(toks, q, s) == \E f \in [0..Len(q) -> 0..Len(toks)] : Cut(f, toks, q, s)

\* Without tokens, the text of the final event is sent instead of them.
Streaming == /\ caller = "socket" /\ "token" \notin ToSet(lost)
             /\ tokens # <<>> \/ node \notin {"closing", "off"}

\* The final event and the end mark come last, and the handler waits for the
\* next message only after it has taken the mark.
MarksLast ==
    /\ \A k \in 1..Len(queue) :
          /\ queue[k].type = "final" => node \in {"closing", "off"}
          /\ queue[k].type = "end" => node = "off" /\ k = Len(queue)
    /\ socket = "idle" /\ node # "START" => node = "off" /\ queue = <<>>
    /\ node = "START" => tokens = <<>>

SocketSound == /\ Streaming => Splits(tokens, queue, sent)
               /\ caller = "socket" => MarksLast

LEMMA InitSocket == Init => SocketSound
<1> SUFFICES ASSUME Init PROVE SocketSound
  OBVIOUS
<1>1. tokens = <<>> /\ queue = <<>> /\ sent = <<>> /\ node = "START"
  BY DEF Init
<1>2. Len(tokens) = 0 /\ Len(queue) = 0 /\ Len(sent) = 0
  BY <1>1
<1>3. MarksLast
  BY <1>1, <1>2 DEF MarksLast
<1>4. Splits(tokens, queue, sent)
  <2> DEFINE f == [k \in 0..0 |-> 0]
  <2>1. f \in [0..Len(queue) -> 0..Len(tokens)] /\ f[0] = 0
    BY <1>2
  <2> HIDE DEF f
  <2>2. Cut(f, tokens, queue, sent)
    BY <1>2, <2>1 DEF Cut, Part
  <2> QED  BY <2>1, <2>2 DEF Splits
<1> QED  BY <1>3, <1>4 DEF SocketSound

\* An event at the end of the queue takes the new tokens, if it has any.
LEMMA SplitsGrow ==
    ASSUME NEW toks \in Seq(Piece), NEW q \in Seq(Event), NEW s \in Seq(Piece), Splits(toks, q, s),
           NEW e \in Event, NEW more \in Seq(Piece),
           \/ /\ e.type = "token" /\ more = toks \o e.pieces
              /\ \A k \in 1..Len(q) : q[k].type # "final"
           \/ e.type # "token" /\ more = toks
    PROVE  Splits(more, Append(q, e), s)
<1> DEFINE n == Len(q)
           w == Append(q, e)
           g(f) == [k \in 0..n + 1 |-> IF k \in 0..n THEN f[k] ELSE Len(more)]
<1>1. n \in Nat /\ Len(w) = n + 1 /\ (\A k \in 1..n : w[k] = q[k]) /\ w[n + 1] = e
  OBVIOUS
<1>2. Len(toks) \in Nat /\ Len(s) \in Nat /\ e.pieces \in Seq(Piece) /\ Len(e.pieces) \in Nat
  BY DEF Event
<1>3. /\ Len(more) \in Nat /\ Len(toks) <= Len(more)
      /\ \A i \in 1..Len(toks) : more[i] = toks[i]
  BY <1>2
<1>4. PICK f \in [0..n -> 0..Len(toks)] : Cut(f, toks, q, s)
  BY DEF Splits
<1>5. f[n] = Len(toks)
  BY <1>4 DEF Cut
<1> HIDE DEF n
<1>6. PICK h : /\ h \in [0..n + 1 -> 0..Len(more)]
               /\ \A k \in 0..n : h[k] = f[k]
               /\ h[n + 1] = Len(more)
  <2>1. \A k \in 0..n : f[k] \in 0..Len(more)
    BY <1>2, <1>3
  <2>2. /\ g(f) \in [0..n + 1 -> 0..Len(more)]
        /\ \A k \in 0..n : g(f)[k] = f[k]
        /\ g(f)[n + 1] = Len(more)
    BY <1>1, <1>3, <2>1
  <2> QED  BY <2>2
<1>7. ASSUME NEW pieces, Len(pieces) \in Nat, NEW a \in 0..Len(toks), NEW b \in 0..Len(toks),
             Part(toks, pieces, a, b)
      PROVE  Part(more, pieces, a, b)
  <2>1. \A i \in 1..Len(pieces) : a + i \in 1..Len(toks)
    BY <1>2, <1>7 DEF Part
  <2> QED  BY <1>3, <1>7, <2>1 DEF Part
<1>8. Part(more, s, 0, h[0])
  <2>1. Part(toks, s, 0, f[0]) /\ f[0] \in 0..Len(toks) /\ 0 \in 0..Len(toks) /\ h[0] = f[0]
    BY <1>1, <1>2, <1>4, <1>6 DEF Cut
  <2> QED  BY <1>2, <1>7, <2>1
<1>9. ASSUME NEW k \in 1..n
      PROVE  /\ h[k - 1] <= h[k]
             /\ w[k].type = "token" => Part(more, w[k].pieces, h[k - 1], h[k])
             /\ w[k].type # "token" => h[k] = h[k - 1]
             /\ w[k].type = "final" => h[k - 1] = Len(more)
  <2>1. /\ k \in 0..n /\ k - 1 \in 0..n /\ h[k] = f[k] /\ h[k - 1] = f[k - 1] /\ w[k] = q[k]
        /\ f[k] \in 0..Len(toks) /\ f[k - 1] \in 0..Len(toks)
    BY <1>1, <1>6
  <2>2. k \in 1..Len(q)
    BY DEF n
  <2>3. /\ f[k - 1] <= f[k]
        /\ q[k].type = "token" => Part(toks, q[k].pieces, f[k - 1], f[k])
        /\ q[k].type # "token" => f[k] = f[k - 1]
        /\ q[k].type = "final" => f[k - 1] = Len(toks)
    BY <1>4, <2>2 DEF Cut
  <2>4. q[k].type = "final" => more = toks
    BY <2>2
  <2>5. q[k] \in Event
    BY <2>2
  <2>6. q[k].pieces \in Seq(Piece)
    BY <2>5 DEF Event
  <2>7. Len(q[k].pieces) \in Nat
    BY <2>6
  <2>8. q[k].type = "token" => Part(more, q[k].pieces, f[k - 1], f[k])
    BY <1>7, <2>1, <2>3, <2>7
  <2> QED  BY <2>1, <2>3, <2>4, <2>8
<1>10. /\ h[n] <= h[n + 1]
       /\ e.type = "token" => Part(more, e.pieces, h[n], h[n + 1])
       /\ e.type # "token" => h[n + 1] = h[n]
       /\ e.type = "final" => h[n] = Len(more)
  <2>1. h[n] = Len(toks) /\ h[n + 1] = Len(more)
    <3>1. n \in 0..n
      BY <1>1
    <3> QED  BY <1>5, <1>6, <3>1
  <2>2. CASE e.type = "token"
    <3>1. more = toks \o e.pieces
      BY <2>2
    <3>2. Len(more) = Len(toks) + Len(e.pieces)
          /\ \A i \in 1..Len(e.pieces) : more[Len(toks) + i] = e.pieces[i]
      BY <1>2, <3>1
    <3>3. Part(more, e.pieces, Len(toks), Len(more))
      BY <1>2, <3>2 DEF Part
    <3> QED  BY <1>2, <1>3, <2>1, <2>2, <3>3
  <2>3. CASE e.type # "token"
    BY <1>2, <2>1, <2>3
  <2> QED  BY <2>2, <2>3
<1> HIDE DEF n, w, g
<1>11. Cut(h, more, w, s)
  <2>1. \A k \in 1..Len(w) : k \in 1..n \/ k = n + 1
    BY <1>1
  <2>2. ASSUME NEW k \in 1..Len(w)
        PROVE  /\ h[k - 1] <= h[k]
               /\ w[k].type = "token" => Part(more, w[k].pieces, h[k - 1], h[k])
               /\ w[k].type # "token" => h[k] = h[k - 1]
               /\ w[k].type = "final" => h[k - 1] = Len(more)
    <3>1. CASE k \in 1..n
      BY <1>9, <3>1
    <3>2. CASE k = n + 1
      <4>1. w[k] = e /\ k - 1 = n
        BY <1>1, <3>2
      <4> QED  BY <1>10, <3>2, <4>1
    <3> QED  BY <2>1, <3>1, <3>2
  <2>3. h[Len(w)] = Len(more)
    BY <1>1, <1>6
  <2> QED  BY <1>8, <2>2, <2>3 DEF Cut
<1>12. h \in [0..Len(w) -> 0..Len(more)]
  BY <1>1, <1>6
<1> QED  BY <1>11, <1>12 DEF Splits, w

\* What the caller makes of the first event of the queue.
Taken(s, e) == CASE e.type = "token" -> s \o e.pieces
                 [] e.type = "final" /\ s = <<>> -> e.pieces
                 [] OTHER -> s

LEMMA SplitsShrink ==
    ASSUME NEW toks \in Seq(Piece), NEW q \in Seq(Event), NEW s \in Seq(Piece), Splits(toks, q, s),
           q # <<>>, toks # <<>> \/ Head(q).type # "final"
    PROVE  Splits(toks, Tail(q), Taken(s, Head(q)))
<1> DEFINE n == Len(q)
           w == Tail(q)
           e == Head(q)
           t == Taken(s, e)
<1>1. n \in Nat \ {0} /\ Len(w) = n - 1 /\ (\A k \in 1..n - 1 : w[k] = q[k + 1]) /\ e = q[1] /\ e \in Event
  OBVIOUS
<1>2. Len(toks) \in Nat /\ Len(s) \in Nat
  OBVIOUS
<1>3. e.pieces \in Seq(Piece) /\ Len(e.pieces) \in Nat
  <2>1. e.pieces \in Seq(Piece)
    BY <1>1 DEF Event
  <2> QED  BY <2>1
<1>4. PICK f \in [0..n -> 0..Len(toks)] : Cut(f, toks, q, s)
  BY DEF Splits
<1> HIDE DEF n, w, e, t
<1>5. PICK h : /\ h \in [0..n - 1 -> 0..Len(toks)]
               /\ \A k \in 0..n - 1 : h[k] = f[k + 1]
  <2> DEFINE g == [k \in 0..n - 1 |-> f[k + 1]]
  <2>1. \A k \in 0..n - 1 : k + 1 \in 0..n
    BY <1>1
  <2>2. g \in [0..n - 1 -> 0..Len(toks)] /\ \A k \in 0..n - 1 : g[k] = f[k + 1]
    BY <2>1
  <2> QED  BY <2>2
<1>6. /\ f[0] \in 0..Len(toks) /\ f[1] \in 0..Len(toks) /\ f[0] <= f[1] /\ h[0] = f[1]
      /\ Part(toks, s, 0, f[0])
      /\ e.type = "token" => Part(toks, e.pieces, f[0], f[1])
      /\ e.type # "token" => f[1] = f[0]
      /\ e.type = "final" => f[0] = Len(toks)
  <2>1. 1 \in 1..n /\ 1 - 1 = 0 /\ 0 \in 0..n - 1 /\ 0 \in 0..n /\ 1 \in 0..n
    BY <1>1
  <2> QED  BY <1>1, <1>4, <1>5, <2>1 DEF Cut, n
<1>7. Part(toks, t, 0, h[0])
  <2>1. CASE e.type = "token"
    <3>1. t = s \o e.pieces
      BY <2>1 DEF t, Taken
    <3>2. Len(s) = f[0] /\ Len(e.pieces) = f[1] - f[0]
          /\ (\A i \in 1..Len(s) : s[i] = toks[i])
          /\ (\A i \in 1..Len(e.pieces) : e.pieces[i] = toks[f[0] + i])
      BY <1>2, <1>6, <2>1 DEF Part
    <3>3. /\ Len(t) = Len(s) + Len(e.pieces)
          /\ \A i \in 1..Len(s) : t[i] = s[i]
          /\ \A i \in 1..Len(e.pieces) : t[Len(s) + i] = e.pieces[i]
      BY <1>2, <1>3, <3>1
    <3>4. \A i \in 1..f[1] : t[i] = toks[i]
      <4> SUFFICES ASSUME NEW i \in 1..f[1] PROVE t[i] = toks[i]
        OBVIOUS
      <4>1. CASE i \in 1..Len(s)
        BY <3>2, <3>3, <4>1
      <4>2. CASE i \notin 1..Len(s)
        <5>1. PICK k \in 1..Len(e.pieces) : i = Len(s) + k
          <6>1. i - Len(s) \in 1..Len(e.pieces) /\ i = Len(s) + (i - Len(s))
            BY <1>2, <1>3, <1>6, <3>2, <4>2
          <6> QED  BY <6>1
        <5>2. t[i] = e.pieces[k]
          BY <3>3, <5>1
        <5>3. e.pieces[k] = toks[i]
          BY <3>2, <5>1
        <5> QED  BY <5>2, <5>3
      <4> QED  BY <4>1, <4>2
    <3>5. Len(t) = f[1] - 0 /\ \A i \in 1..Len(t) : t[i] = toks[0 + i]
      BY <1>2, <1>3, <1>6, <3>2, <3>3, <3>4
    <3> QED  BY <1>6, <3>5 DEF Part
  <2>2. CASE e.type # "token"
    <3>1. Len(s) = f[0]
      BY <1>2, <1>6 DEF Part
    <3>2. e.type = "final" => s # <<>>
      <4>1. e.type = "final" => toks # <<>>
        BY DEF e
      <4> QED  BY <1>2, <1>6, <3>1, <4>1
    <3>3. t = s
      BY <2>2, <3>2 DEF t, Taken
    <3> QED  BY <1>6, <2>2, <3>3
  <2> QED  BY <2>1, <2>2
<1>8. h[Len(w)] = Len(toks)
  <2>1. f[n] = Len(toks) /\ Len(w) \in 0..n - 1 /\ Len(w) + 1 = n
    BY <1>1, <1>4 DEF Cut, n
  <2> QED  BY <1>5, <2>1
<1>9. ASSUME NEW k \in 1..Len(w)
      PROVE  /\ h[k - 1] <= h[k]
             /\ w[k].type = "token" => Part(toks, w[k].pieces, h[k - 1], h[k])
             /\ w[k].type # "token" => h[k] = h[k - 1]
             /\ w[k].type = "final" => h[k - 1] = Len(toks)
  <2>1. /\ k + 1 \in 1..n /\ k + 1 - 1 = k /\ k - 1 \in 0..n - 1 /\ k \in 0..n - 1 /\ k - 1 + 1 = k
        /\ w[k] = q[k + 1]
    BY <1>1
  <2>2. h[k - 1] = f[k] /\ h[k] = f[k + 1]
    BY <1>5, <2>1
  <2> QED  BY <1>4, <2>1, <2>2 DEF Cut, n
<1>10. Cut(h, toks, w, t)
  BY <1>7, <1>8, <1>9 DEF Cut
<1>11. h \in [0..Len(w) -> 0..Len(toks)]
  BY <1>1, <1>5
<1> QED  BY <1>10, <1>11 DEF Splits, w, t, e

\* A step of the run that puts nothing into the queue ...
Quiet == /\ UNCHANGED <<caller, tokens, queue, lost, socket, sent>>
         /\ {node, node'} \cap {"START", "closing", "off"} = {}

\* ... and one that puts an event.
Emits(type, pieces) ==
    /\ type \in EventTypes /\ pieces \in Seq(Piece) /\ Emit(type, pieces)
    /\ UNCHANGED caller
    /\ node \notin {"START", "off"} /\ node' # "START" /\ (node = "closing" => node' = "off")
    /\ \/ type = "token" /\ tokens' = tokens \o pieces /\ node # "closing"
       \/ type # "token" /\ UNCHANGED tokens
    /\ type = "final" => node' = "closing"
    /\ type = "end" => node' = "off"

LEMMA QuietKeepsSocket ==
    ASSUME SocketSound, Quiet
    PROVE  SocketSound'
<1>1. UNCHANGED <<caller, tokens, queue, lost, socket, sent>>
  BY DEF Quiet
<1>2. node \notin {"START", "closing", "off"} /\ node' \notin {"START", "closing", "off"}
  BY DEF Quiet
<1>3. (Streaming => Splits(tokens, queue, sent))'
  <2>1. Streaming' => Streaming
    BY <1>1, <1>2 DEF Streaming
  <2>2. Splits(tokens, queue, sent)' = Splits(tokens, queue, sent)
    BY <1>1
  <2> QED  BY <2>1, <2>2 DEF SocketSound
<1>4. (caller = "socket" => MarksLast)'
  BY <1>1, <1>2 DEF SocketSound, MarksLast
<1> QED  BY <1>3, <1>4 DEF SocketSound

LEMMA EmitKeepsSocket ==
    ASSUME Typed, SocketSound, caller = "socket", NEW type, NEW pieces, Emits(type, pieces)
    PROVE  SocketSound'
<1> DEFINE e == [type |-> type, pieces |-> pieces]
<1>1. e \in Event /\ e.type = type /\ e.pieces = pieces
  BY DEF Emits, Event
<1> HIDE DEF e
<1>2. Enqueue(e)
  <2>1. Emit(type, pieces)
    BY DEF Emits
  <2> QED  BY <2>1 DEF Emit, SSE, e
<1>3. /\ queue \in Seq(Event) /\ Len(queue) \in Nat /\ lost \in Seq(EventTypes)
      /\ tokens \in Seq(Piece) /\ sent \in Seq(Piece)
  BY DEF Typed, DeliveryTyped, StreamTyped
<1>4. MarksLast
  BY DEF SocketSound
<1>5. UNCHANGED <<socket, sent, caller>> /\ socket = "serving"
  BY <1>2, <1>4 DEF Enqueue, Emits, MarksLast, Typed, DeliveryTyped
<1>6. \A k \in 1..Len(queue) : queue[k].type # "end" /\ (queue[k].type = "final" => node = "closing")
  BY <1>4 DEF MarksLast, Emits
<1>7. CASE Len(queue) < QueueSize
  <2>1. queue' = Append(queue, e) /\ UNCHANGED lost
    BY <1>2, <1>7 DEF Enqueue
  <2>2. /\ Len(queue') = Len(queue) + 1 /\ queue'[Len(queue) + 1] = e
        /\ \A k \in 1..Len(queue) : queue'[k] = queue[k]
    BY <1>1, <1>3, <2>1
  <2>3. \A k \in 1..Len(queue') : k \in 1..Len(queue) \/ k = Len(queue')
    BY <1>3, <2>2
  <2>4. MarksLast'
    <3>1. ASSUME NEW k \in 1..Len(queue')
          PROVE  /\ queue'[k].type = "final" => node' \in {"closing", "off"}
                 /\ queue'[k].type = "end" => node' = "off" /\ k = Len(queue')
      <4>1. CASE k \in 1..Len(queue)
        BY <1>6, <2>2, <4>1 DEF Emits
      <4>2. CASE k = Len(queue')
        BY <1>1, <2>2, <4>2 DEF Emits
      <4> QED  BY <2>3, <4>1, <4>2
    <3>2. socket' = "serving" /\ node' # "START"
      BY <1>5 DEF Emits
    <3> QED  BY <3>1, <3>2 DEF MarksLast
  <2>5. ASSUME Streaming' PROVE Splits(tokens, queue, sent)'
    <3>1. Streaming
      BY <1>5, <2>1, <2>5 DEF Streaming, Emits
    <3>2. Splits(tokens, queue, sent)
      BY <3>1 DEF SocketSound
    <3>3. \/ /\ e.type = "token" /\ tokens' = tokens \o e.pieces
             /\ \A k \in 1..Len(queue) : queue[k].type # "final"
          \/ e.type # "token" /\ tokens' = tokens
      BY <1>1, <1>6 DEF Emits
    <3>4. tokens' \in Seq(Piece)
      <4>1. tokens' = tokens \o e.pieces \/ tokens' = tokens
        BY <3>3
      <4>2. e.pieces \in Seq(Piece)
        BY <1>1 DEF Emits
      <4>3. tokens \o e.pieces \in Seq(Piece)
        BY <1>3, <4>2, ConcatProperties
      <4> QED  BY <1>3, <4>1, <4>3, Zenon
    <3>5. Splits(tokens', Append(queue, e), sent)
      BY <1>1, <1>3, <3>2, <3>3, <3>4, SplitsGrow
    <3> QED  BY <1>5, <2>1, <3>5
  <2> QED  BY <2>4, <2>5 DEF SocketSound
<1>8. CASE ~(Len(queue) < QueueSize)
  <2>1. lost' = Append(lost, type) /\ UNCHANGED queue
    BY <1>1, <1>2, <1>8 DEF Enqueue
  <2>2. /\ type \in ToSet(lost')
        /\ \A x \in ToSet(lost) : x \in ToSet(lost')
    <3>1. type \in EventTypes
      BY DEF Emits
    <3>2. Len(lost) \in Nat /\ DOMAIN lost = 1..Len(lost) /\ DOMAIN lost' = 1..Len(lost) + 1
          /\ lost'[Len(lost) + 1] = type /\ \A i \in 1..Len(lost) : lost'[i] = lost[i]
      BY <1>3, <2>1, <3>1
    <3>3. \A i \in DOMAIN lost : i \in DOMAIN lost' /\ lost[i] = lost'[i]
      BY <3>2
    <3> QED  BY <3>2, <3>3 DEF ToSet
  <2>3. MarksLast'
    BY <1>5, <1>6, <2>1 DEF MarksLast, Emits
  <2>4. ASSUME Streaming' PROVE Splits(tokens, queue, sent)'
    <3>1. type # "token" /\ UNCHANGED tokens
      BY <2>2, <2>4 DEF Streaming, Emits
    <3>2. Streaming
      BY <1>5, <2>2, <2>4, <3>1 DEF Streaming, Emits
    <3>3. Splits(tokens, queue, sent)
      BY <3>2 DEF SocketSound
    <3> QED  BY <1>5, <2>1, <3>1, <3>3
  <2> QED  BY <2>3, <2>4 DEF SocketSound
<1> QED  BY <1>7, <1>8

LEMMA SendKeepsSocket ==
    ASSUME Typed, SocketSound, caller = "socket", Send
    PROVE  SocketSound'
<1> DEFINE e == Head(queue)
<1>1. /\ UNCHANGED <<node, caller, tokens, lost>>
      /\ socket = "serving" /\ queue # <<>> /\ queue' = Tail(queue)
  BY DEF Send, graph, request, stream
<1>2. /\ queue \in Seq(Event) /\ Len(queue) \in Nat \ {0} /\ e = queue[1] /\ 1 \in 1..Len(queue)
      /\ Len(queue') = Len(queue) - 1 /\ \A k \in 1..Len(queue') : queue'[k] = queue[k + 1]
      /\ tokens \in Seq(Piece) /\ sent \in Seq(Piece)
  BY <1>1 DEF Typed, DeliveryTyped, StreamTyped
<1> HIDE DEF e
<1>3. MarksLast
  BY DEF SocketSound
<1>4. \/ e.type = "end" /\ socket' = "idle" /\ UNCHANGED sent
      \/ e.type # "end" /\ socket' = socket /\ sent' = Received(e)
  BY DEF Send, e
<1>5. sent' = Taken(sent, e)
  BY <1>4 DEF Received, Taken
<1>6. MarksLast'
  <2>1. ASSUME NEW k \in 1..Len(queue')
        PROVE  /\ queue'[k].type = "final" => node' \in {"closing", "off"}
               /\ queue'[k].type = "end" => node' = "off" /\ k = Len(queue')
    <3>1. k + 1 \in 1..Len(queue) /\ queue'[k] = queue[k + 1] /\ (k + 1 = Len(queue) => k = Len(queue'))
      BY <1>2
    <3> QED  BY <1>1, <1>3, <3>1 DEF MarksLast
  <2>2. socket' = "idle" => node' = "off" /\ queue' = <<>>
    <3> SUFFICES ASSUME socket' = "idle" PROVE node' = "off" /\ queue' = <<>>
      OBVIOUS
    <3>1. e.type = "end"
      BY <1>1, <1>4
    <3>2. node = "off" /\ Len(queue) = 1
      BY <1>2, <1>3, <3>1 DEF MarksLast
    <3>3. queue' \in Seq(Event) /\ Len(queue') = 0
      BY <1>1, <1>2, <3>2
    <3> QED  BY <1>1, <3>2, <3>3
  <2>3. node' = "START" => tokens' = <<>>
    BY <1>1, <1>3 DEF MarksLast
  <2> QED  BY <2>1, <2>2, <2>3 DEF MarksLast
<1>7. ASSUME Streaming' PROVE Splits(tokens, queue, sent)'
  <2>1. Streaming
    BY <1>1, <1>7 DEF Streaming
  <2>2. Splits(tokens, queue, sent)
    BY <2>1 DEF SocketSound
  <2>3. tokens # <<>> \/ e.type # "final"
    BY <1>2, <1>3, <2>1 DEF MarksLast, Streaming
  <2>4. Splits(tokens, Tail(queue), Taken(sent, e))
    BY <1>1, <1>2, <2>2, <2>3, SplitsShrink DEF e
  <2> QED  BY <1>1, <1>5, <2>4
<1> QED  BY <1>6, <1>7 DEF SocketSound

LEMMA StepKeepsSocket ==
    ASSUME Typed, SocketSound, [Next]_vars
    PROVE  SocketSound'
<1>1. UNCHANGED caller
  BY DEF Next, RunStep, Start, InputGuardrail, Planner, CallModel, TextChunk, ToolCallChunk, Respond,
         Tools, PostProcess, OutputGuardrail, GuardrailReject, FlushRest, Final, Error, PutEnd, Send,
         RunFails, Disconnect, Silent, request, vars
<1>2. CASE caller # "socket"
  BY <1>1, <1>2 DEF SocketSound, Streaming
<1>3. CASE caller = "socket"
  <2>1. <<>> \in Seq(Piece) /\ {"token", "note", "final", "error", "end"} \subseteq EventTypes
    BY DEF EventTypes
  <2>2. CASE Start
    <3>1. UNCHANGED <<caller, tokens, queue, lost, sent>> /\ node = "START" /\ node' = "input_guardrail"
          /\ socket' = "serving"
      BY <1>3, <2>2 DEF Start, request, stream, Goto
    <3>2. MarksLast'
      BY <1>3, <3>1 DEF SocketSound, MarksLast
    <3>3. (Streaming => Splits(tokens, queue, sent))'
      BY <3>1 DEF SocketSound, Streaming
    <3> QED  BY <3>2, <3>3 DEF SocketSound
  <2>3. CASE \/ InputGuardrail \/ Planner \/ CallModel \/ Respond \/ PostProcess \/ OutputGuardrail
             \/ GuardrailReject \/ RunFails
    <3>1. Quiet
      BY <2>3 DEF Quiet, InputGuardrail, Planner, CallModel, Respond, PostProcess, OutputGuardrail,
                  GuardrailReject, RunFails, Silent, Goto, request, stream, delivery, Running
    <3> QED  BY <3>1, QuietKeepsSocket
  <2>4. CASE TextChunk
    <3> DEFINE held == Append(buffer, <<Len(messages) + 1, draft.text + 1>>)
    <3>1. held \in Seq(Piece)
      <4>1. <<Len(messages) + 1, draft.text + 1>> \in Piece
        BY DEF Typed, GraphTyped, Piece
      <4> QED  BY <4>1 DEF Typed, StreamTyped
    <3>2. node = "llm" /\ UNCHANGED <<caller, node>>
      BY <2>4 DEF TextChunk, request
    <3>3. \/ UNCHANGED <<tokens, delivery>>
          \/ tokens' = tokens \o held /\ Emit("token", held)
      BY <2>4 DEF TextChunk
    <3>4. Quiet \/ Emits("token", held)
      BY <2>1, <3>1, <3>2, <3>3 DEF Quiet, Emits, delivery
    <3> QED  BY <1>3, <3>4, QuietKeepsSocket, EmitKeepsSocket
  <2>5. CASE ToolCallChunk \/ Tools
    <3>1. Emits("note", <<>>)
      BY <2>1, <2>5 DEF Emits, ToolCallChunk, Tools, Goto, request
    <3> QED  BY <1>3, <3>1, EmitKeepsSocket
  <2>6. CASE FlushRest
    <3>1. node = "END" /\ node' = "final" /\ UNCHANGED caller
      BY <2>6 DEF FlushRest, Goto, request
    <3>2. \/ UNCHANGED <<tokens, delivery>>
          \/ tokens' = tokens \o buffer /\ Emit("token", buffer)
      BY <2>6 DEF FlushRest
    <3>3. buffer \in Seq(Piece)
      BY DEF Typed, StreamTyped
    <3>4. Quiet \/ Emits("token", buffer)
      BY <2>1, <3>1, <3>2, <3>3 DEF Quiet, Emits, delivery
    <3> QED  BY <1>3, <3>4, QuietKeepsSocket, EmitKeepsSocket
  <2>7. CASE Final
    <3>1. Result \in Seq(Piece)
      BY ResultTyped
    <3>2. Emits("final", Result)
      BY <1>3, <2>1, <2>7, <3>1 DEF Emits, Final, RunIsOver, Goto, request, stream
    <3> QED  BY <1>3, <3>2, EmitKeepsSocket
  <2>8. CASE Error
    <3>1. Emits("error", <<>>)
      BY <1>3, <2>1, <2>8 DEF Emits, Error, RunIsOver, Goto, request, stream
    <3> QED  BY <1>3, <3>1, EmitKeepsSocket
  <2>9. CASE PutEnd
    <3>1. Emits("end", <<>>)
      BY <2>1, <2>9 DEF Emits, PutEnd, Goto, request, stream
    <3> QED  BY <1>3, <3>1, EmitKeepsSocket
  <2>10. CASE Send
    BY <1>3, <2>10, SendKeepsSocket
  <2>11. CASE Disconnect
    BY <1>3, <2>11 DEF Disconnect, SSE
  <2>12. CASE UNCHANGED vars
    BY <2>12 DEF vars, graph, request, stream, delivery, SocketSound, Streaming, MarksLast
  <2> QED
    BY <2>2, <2>3, <2>4, <2>5, <2>6, <2>7, <2>8, <2>9, <2>10, <2>11, <2>12 DEF Next, RunStep
<1> QED  BY <1>2, <1>3

-----------------------------------------------------------------------------
(* The pieces as the model spoke them *)

Streamed == tokens \o buffer

\* Without an answer yet, every message of the model calls tools.
Calling(n) == \A i \in 1..n : messages[i].kind = "ai" => messages[i].calls > 0

\* The answer i has been streamed up to its last piece.
StreamedUpTo(i) == messages[i].calls = 0 /\ messages[i].text > 0 =>
                      Streamed # <<>> /\ Last(Streamed) = <<i, messages[i].text>>

Asking == {"START", "input_guardrail", "planner", "agent", "llm", "tools"}

\* What has been streamed before the loop ends is of the messages so far, and
\* ends with what the message being written has so far.
Writing ==
    /\ node # "llm" => draft = Empty
    /\ node \in Asking =>
          /\ stored = 0 /\ Calling(Len(messages))
          /\ \A n \in 1..Len(Streamed) : Streamed[n][1] <= Len(messages) + (IF node = "llm" THEN 1 ELSE 0)
    /\ node = "llm" => (hasTools <=> draft.calls > 0)
    /\ node = "llm" /\ ~hasTools =>
          IF draft.text = 0 THEN \A n \in 1..Len(Streamed) : Streamed[n][1] <= Len(messages)
          ELSE Streamed # <<>> /\ Last(Streamed) = <<Len(messages) + 1, draft.text>>

Answering ==
    /\ node = "post_process" => /\ stored = 0 /\ messages # <<>> /\ Calling(Len(messages) - 1)
                                /\ StreamedUpTo(Len(messages))
    /\ stored # 0 /\ faults = 0 => messages[stored].text > 0 /\ StreamedUpTo(stored)
    /\ node \in {"final", "error", "closing", "off"} => buffer = <<>>

SpeechSound == caller = "socket" => AsSpoken(Streamed) /\ Writing /\ Answering

LEMMA StreamedTyped ==
    ASSUME Typed
    PROVE  /\ tokens \in Seq(Piece) /\ buffer \in Seq(Piece) /\ Streamed \in Seq(Piece)
           /\ Len(tokens) \in Nat /\ Len(Streamed) \in Nat /\ Len(tokens) <= Len(Streamed)
           /\ \A n \in 1..Len(tokens) : n \in 1..Len(Streamed) /\ tokens[n] = Streamed[n]
           /\ buffer = <<>> => Streamed = tokens
           /\ \A n \in 1..Len(Streamed) : Streamed[n] \in Piece
<1>1. tokens \in Seq(Piece) /\ buffer \in Seq(Piece)
  BY DEF Typed, StreamTyped
<1> QED BY <1>1 DEF Streamed

LEMMA PrefixAsSpoken ==
    ASSUME NEW s \in Seq(Piece), AsSpoken(s), NEW r \in Seq(Piece), Len(r) <= Len(s),
           \A n \in 1..Len(r) : r[n] = s[n]
    PROVE  AsSpoken(r)
<1>1. Len(r) \in Nat /\ Len(s) \in Nat /\ (r # <<>> => Len(r) >= 1)
  OBVIOUS
<1>2. r # <<>> => r[1][2] = 1
  BY <1>1 DEF AsSpoken
<1>3. ASSUME NEW n \in 1..Len(r) - 1 PROVE Follows(r[n], r[n + 1])
  <2>1. n \in 1..Len(r) /\ n + 1 \in 1..Len(r) /\ n \in 1..Len(s) - 1
    BY <1>1
  <2> QED BY <2>1 DEF AsSpoken
<1> QED BY <1>2, <1>3 DEF AsSpoken

LEMMA NextAsSpoken ==
    ASSUME NEW s \in Seq(Piece), AsSpoken(s), NEW p \in Piece,
           IF s = <<>> THEN p[2] = 1 ELSE Follows(Last(s), p)
    PROVE  AsSpoken(Append(s, p))
<1> DEFINE r == Append(s, p)
<1>1. /\ Len(s) \in Nat /\ Len(r) = Len(s) + 1 /\ r[Len(s) + 1] = p /\ (s # <<>> => Len(s) >= 1)
      /\ \A n \in 1..Len(s) : r[n] = s[n]
  OBVIOUS
<1> HIDE DEF r
<1>2. r[1][2] = 1
  <2>1. CASE s = <<>>
    <3>1. Len(s) = 0
      BY <2>1
    <3> QED BY <1>1, <2>1, <3>1
  <2>2. CASE s # <<>>
    BY <1>1, <2>2 DEF AsSpoken
  <2> QED BY <2>1, <2>2
<1>3. ASSUME NEW n \in 1..Len(r) - 1 PROVE Follows(r[n], r[n + 1])
  <2>1. CASE n \in 1..Len(s) - 1
    <3>1. n \in 1..Len(s) /\ n + 1 \in 1..Len(s)
      BY <1>1, <2>1
    <3> QED BY <1>1, <2>1, <3>1 DEF AsSpoken
  <2>2. CASE n = Len(s)
    <3>1. s # <<>> /\ r[n] = Last(s) /\ r[n + 1] = p
      BY <1>1, <2>2 DEF Last
    <3> QED BY <3>1
  <2> QED BY <1>1, <2>1, <2>2
<1> QED BY <1>2, <1>3 DEF AsSpoken, r

LEMMA InitSpeech == Init => SpeechSound
<1> SUFFICES ASSUME Init PROVE SpeechSound
  OBVIOUS
<1>1. tokens = <<>> /\ buffer = <<>> /\ messages = <<>> /\ node = "START" /\ draft = Empty /\ stored = 0
  BY DEF Init
<1>2. Streamed = <<>> /\ Len(Streamed) = 0 /\ Len(messages) = 0
  BY <1>1 DEF Streamed
<1> QED BY <1>1, <1>2 DEF SpeechSound, AsSpoken, Writing, Answering, Calling

\* A step that streams no new piece: the buffer stays, or is dropped.
LEMMA StreamedKept ==
    ASSUME Typed, Typed', AsSpoken(Streamed), UNCHANGED tokens, buffer' = buffer \/ buffer' = <<>>
    PROVE  /\ AsSpoken(Streamed)'
           /\ Len(Streamed') <= Len(Streamed)
           /\ \A n \in 1..Len(Streamed') : n \in 1..Len(Streamed) /\ Streamed'[n] = Streamed[n]
           /\ buffer' = buffer => Streamed' = Streamed
<1>1. CASE buffer' = buffer
  <2>1. Streamed' = Streamed
    BY <1>1 DEF Streamed
  <2> QED BY <2>1, StreamedTyped
<1>2. CASE buffer' = <<>>
  <2>1. Streamed' = tokens
    BY <1>2, StreamedTyped DEF Streamed
  <2>2. AsSpoken(tokens)
    BY StreamedTyped, PrefixAsSpoken
  <2>3. buffer' = buffer => Streamed' = Streamed
    BY DEF Streamed
  <2> QED BY <2>1, <2>2, <2>3, StreamedTyped
<1> QED BY <1>1, <1>2

\* A step that leaves the answer as it was streamed.
LEMMA AnswerKept ==
    ASSUME Typed, SpeechSound, caller = "socket", Typed',
           Streamed' = Streamed, UNCHANGED stored, faults' = 0 => faults = 0,
           \A i \in 1..Len(messages) : messages'[i] = messages[i]
    PROVE  stored' # 0 /\ faults' = 0 => messages'[stored'].text > 0 /\ StreamedUpTo(stored)'
<1> SUFFICES ASSUME stored # 0, faults = 0
             PROVE  messages'[stored].text > 0 /\ StreamedUpTo(stored)'
  OBVIOUS
<1>1. stored \in 1..Len(messages)
  BY DEF Typed, GraphTyped
<1>2. messages'[stored] = messages[stored]
  BY <1>1
<1>3. messages[stored].text > 0 /\ StreamedUpTo(stored)
  BY DEF SpeechSound, Answering
<1> QED BY <1>2, <1>3 DEF StreamedUpTo

\* A piece goes to the buffer, which may be flushed.
LEMMA ChunkSpoken ==
    ASSUME Typed, SpeechSound, caller = "socket", Typed', TextChunk
    PROVE  SpeechSound'
<1> DEFINE p == <<Len(messages) + 1, draft.text + 1>>
<1>1. /\ node = "llm" /\ node' = "llm" /\ draft' = [draft EXCEPT !.text = draft.text + 1]
      /\ UNCHANGED <<messages, stored, hasTools, caller, faults>>
  BY DEF TextChunk, request
<1>2. draft.text \in Nat /\ draft.calls \in Nat /\ Len(messages) \in Nat /\ p \in Piece
      /\ draft'.text = draft.text + 1 /\ draft'.calls = draft.calls
  BY <1>1 DEF Typed, GraphTyped, Piece
<1>3. AsSpoken(Streamed) /\ Writing /\ Answering /\ stored = 0
  BY <1>1 DEF SpeechSound, Writing, Asking
<1>4. \A n \in 1..Len(Streamed) : Streamed[n][1] <= Len(messages) + 1
  BY <1>1, <1>3 DEF Writing, Asking
<1>5. CASE hasTools
  <2>1. Streamed' = Streamed
    BY <1>5 DEF TextChunk, Streamed
  <2> QED BY <1>1, <1>2, <1>3, <1>5, <2>1 DEF SpeechSound, Writing, Answering, Asking, Calling
<1>6. CASE ~hasTools
  <2>1. Streamed' = Append(Streamed, p)
    <3>1. \/ buffer' = Append(buffer, p) /\ UNCHANGED tokens
          \/ buffer' = <<>> /\ tokens' = tokens \o Append(buffer, p)
      BY <1>6 DEF TextChunk
    <3> HIDE DEF p
    <3>2. tokens \o Append(buffer, p) = Append(tokens \o buffer, p)
      BY <1>2, StreamedTyped
    <3>3. (tokens \o Append(buffer, p)) \o <<>> = tokens \o Append(buffer, p)
      <4>1. tokens \o Append(buffer, p) \in Seq(Piece)
        BY <1>2, StreamedTyped
      <4> HIDE DEF p
      <4> QED BY <4>1
    <3> QED BY <3>1, <3>2, <3>3 DEF Streamed
  <2>2. /\ Len(Streamed') = Len(Streamed) + 1 /\ Streamed'[Len(Streamed) + 1] = p
        /\ \A n \in 1..Len(Streamed) : Streamed'[n] = Streamed[n]
        /\ Streamed' # <<>> /\ Last(Streamed') = p
    <3> HIDE DEF p
    <3>1. Streamed \in Seq(Piece) /\ p \in Piece
      BY <1>2, StreamedTyped
    <3>2. \A s \in Seq(Piece) : LET r == Append(s, p) IN
            /\ Len(r) = Len(s) + 1 /\ r[Len(s) + 1] = p /\ r # <<>> /\ r[Len(r)] = p
            /\ \A n \in 1..Len(s) : r[n] = s[n]
      BY <3>1
    <3> QED BY <2>1, <3>1, <3>2 DEF Last
  <2>3. IF Streamed = <<>> THEN p[2] = 1 ELSE Follows(Last(Streamed), p)
    <3>1. CASE draft.text = 0
      <4>1. \A n \in 1..Len(Streamed) : Streamed[n][1] <= Len(messages)
        BY <1>1, <1>3, <1>6, <3>1 DEF Writing
      <4>2. Streamed # <<>> => Last(Streamed)[1] \in Nat /\ Last(Streamed)[1] <= Len(messages)
        <5>1. Streamed # <<>> => Len(Streamed) \in 1..Len(Streamed)
          BY StreamedTyped
        <5>2. \A n \in 1..Len(Streamed) : Streamed[n][1] \in Nat
          BY StreamedTyped DEF Piece
        <5> QED BY <4>1, <5>1, <5>2 DEF Last
      <4>3. p[1] = Len(messages) + 1 /\ p[2] = 1
        BY <3>1
      <4> QED BY <1>2, <4>2, <4>3 DEF Follows
    <3>2. CASE draft.text # 0
      <4>1. Streamed # <<>> /\ Last(Streamed) = <<Len(messages) + 1, draft.text>>
        BY <1>1, <1>3, <1>6, <3>2 DEF Writing
      <4> QED BY <4>1 DEF Follows
    <3> QED BY <3>1, <3>2
  <2>4. AsSpoken(Streamed')
    <3> HIDE DEF p
    <3> QED BY <1>2, <1>3, <2>1, <2>3, StreamedTyped, NextAsSpoken
  <2>5. \A n \in 1..Len(Streamed') : Streamed'[n][1] <= Len(messages) + 1
    <3>1. ASSUME NEW n \in 1..Len(Streamed') PROVE Streamed'[n][1] <= Len(messages) + 1
      <4>1. n \in 1..Len(Streamed) \/ n = Len(Streamed) + 1
        BY <2>2, StreamedTyped
      <4>2. p[1] = Len(messages) + 1
        OBVIOUS
      <4> QED BY <1>2, <1>4, <2>2, <4>1, <4>2
    <3> QED BY <3>1
  <2>6. (AsSpoken(Streamed))'
    BY <2>4 DEF AsSpoken, Follows
  <2>7. Writing'
    <3>1. draft'.text # 0 /\ Last(Streamed') = <<Len(messages') + 1, draft'.text>>
      BY <1>1, <1>2, <2>2
    <3> QED BY <1>1, <1>2, <1>3, <1>6, <2>2, <2>5, <3>1 DEF Writing, Asking, Calling, Last
  <2>8. Answering'
    BY <1>1, <1>3 DEF Answering
  <2> QED BY <2>6, <2>7, <2>8 DEF SpeechSound
<1> QED BY <1>5, <1>6

\* The model is asked, and starts a new message.
LEMMA AskSpoken ==
    ASSUME Typed, SpeechSound, caller = "socket", Typed',
           Start \/ InputGuardrail \/ Planner \/ CallModel \/ Tools \/ ToolCallChunk
    PROVE  SpeechSound'
<1>1. /\ node \in Asking /\ node' \in Asking \cup {"guardrail_reject"} /\ UNCHANGED <<stored, caller, faults, tokens>>
      /\ buffer' = buffer \/ buffer' = <<>>
  BY DEF Start, InputGuardrail, Planner, CallModel, Tools, ToolCallChunk, Goto, request, stream, Silent, Asking
<1>2. stored = 0 /\ AsSpoken(Streamed) /\ Writing /\ Answering /\ Len(messages) \in Nat
  BY <1>1 DEF SpeechSound, Writing, Typed, GraphTyped
<1>3. /\ AsSpoken(Streamed)'
      /\ \A n \in 1..Len(Streamed') : n \in 1..Len(Streamed) /\ Streamed'[n] = Streamed[n]
  BY <1>1, <1>2, StreamedKept
<1>4. Answering'
  BY <1>1, <1>2 DEF Answering, Asking
<1>5. \A n \in 1..Len(Streamed) : Streamed[n][1] \in Nat
  BY StreamedTyped DEF Piece
<1>6. CASE Start
  <2>1. node = "START" /\ node' = "input_guardrail" /\ UNCHANGED draft /\ messages' = Append(past, Human(1))
    BY <1>6 DEF Start, Goto
  <2>2. past = <<>>
    BY DEF Typed, RequestTyped, Histories
  <2>3. Len(messages') = 1 /\ messages'[1].kind = "human" /\ Len(messages) = 0
    BY <2>1, <2>2 DEF Human, Typed, GraphTyped
  <2>4. \A n \in 1..Len(Streamed') : Streamed'[n][1] <= 1
    BY <1>2, <1>3, <1>5, <2>1, <2>3 DEF Writing, Asking
  <2>5. Writing'
    BY <1>1, <1>2, <2>1, <2>3, <2>4 DEF Writing, Calling
  <2> QED BY <1>1, <1>3, <1>4, <2>5 DEF SpeechSound
<1>7. CASE InputGuardrail \/ Planner
  <2>1. node # "llm" /\ node' # "llm" /\ UNCHANGED <<messages, draft>>
    BY <1>7 DEF InputGuardrail, Planner, Goto
  <2>2. Writing'
    BY <1>1, <1>2, <1>3, <2>1 DEF Writing, Calling
  <2> QED BY <1>1, <1>3, <1>4, <2>2 DEF SpeechSound
<1>8. CASE CallModel
  <2>1. node = "agent" /\ node' = "llm" /\ UNCHANGED <<messages, draft>> /\ ~hasTools'
    BY <1>8 DEF CallModel, Goto
  <2>2. draft' = Empty /\ draft'.text = 0 /\ ~(draft'.calls > 0)
    BY <1>2, <2>1 DEF Writing, Empty
  <2>3. \A n \in 1..Len(Streamed') : Streamed'[n][1] <= Len(messages) /\ Streamed'[n][1] <= Len(messages) + 1
    BY <1>1, <1>2, <1>3, <1>5, <2>1 DEF Writing
  <2>4. Writing'
    BY <1>1, <1>2, <2>1, <2>2, <2>3 DEF Writing, Calling
  <2> QED BY <1>1, <1>3, <1>4, <2>4 DEF SpeechSound
<1>9. CASE Tools
  <2>1. node = "tools" /\ node' = "agent" /\ UNCHANGED draft
    BY <1>9 DEF Tools, Goto
  <2>2. PICK r \in ToolResults(messages) : messages' = messages \o r
    BY <1>9 DEF Tools
  <2>3. messages \in Seq(Message) /\ messages # <<>>
    BY <2>1 DEF Typed, GraphTyped
  <2>4. r \in Seq(Message) /\ \A k \in 1..Len(r) : r[k].kind = "tool"
    BY <2>3, ResultsAreTools
  <2>5. /\ Len(messages') \in Nat /\ Len(messages) <= Len(messages')
        /\ \A i \in 1..Len(messages') : \/ i \in 1..Len(messages) /\ messages'[i] = messages[i]
                                        \/ messages'[i].kind = "tool"
    <3>1. Len(messages') = Len(messages) + Len(r) /\ Len(r) \in Nat
      BY <2>2, <2>3, <2>4
    <3>2. ASSUME NEW i \in 1..Len(messages')
          PROVE  \/ i \in 1..Len(messages) /\ messages'[i] = messages[i]
                 \/ i - Len(messages) \in 1..Len(r) /\ messages'[i] = r[i - Len(messages)]
      BY <1>2, <2>2, <2>3, <2>4, <3>1
    <3> QED BY <1>2, <2>4, <3>1, <3>2
  <2>6. \A n \in 1..Len(Streamed') : Streamed'[n][1] <= Len(messages')
    BY <1>1, <1>2, <1>3, <1>5, <2>1, <2>5 DEF Writing
  <2>7. Calling(Len(messages))'
    BY <1>1, <1>2, <2>5 DEF Writing, Calling
  <2>8. Writing'
    BY <1>1, <1>2, <2>1, <2>5, <2>6, <2>7 DEF Writing
  <2> QED BY <1>1, <1>3, <1>4, <2>8 DEF SpeechSound
<1>10. CASE ToolCallChunk
  <2>1. /\ node = "llm" /\ node' = "llm" /\ UNCHANGED messages /\ hasTools'
        /\ \E n \in 1..MaxCalls : draft' = [draft EXCEPT !.calls = n]
    BY <1>10 DEF ToolCallChunk
  <2>2. draft'.calls > 0
    BY <2>1 DEF Typed, GraphTyped
  <2>3. Writing'
    BY <1>1, <1>2, <1>3, <2>1, <2>2 DEF Writing, Calling, Asking
  <2> QED BY <1>1, <1>3, <1>4, <2>3 DEF SpeechSound
<1> QED BY <1>6, <1>7, <1>8, <1>9, <1>10

\* The message is complete: it calls tools, or is the answer.
LEMMA RespondSpoken ==
    ASSUME Typed, SpeechSound, caller = "socket", Typed', Respond
    PROVE  SpeechSound'
<1> DEFINE a == AI(1, draft.text, draft.calls)
<1>1. /\ node = "llm" /\ messages' = Append(messages, a) /\ draft' = Empty
      /\ node' = IF ShouldContinue(messages') THEN "tools" ELSE "post_process"
      /\ UNCHANGED <<stored, caller, faults, tokens, buffer, hasTools>>
  BY DEF Respond, Silent, request, stream, Goto
<1>2. stored = 0 /\ AsSpoken(Streamed) /\ Writing /\ Answering /\ Len(messages) \in Nat
      /\ messages \in Seq(Message) /\ draft.text \in Nat /\ draft.calls \in Nat /\ hasTools \in BOOLEAN
  BY <1>1 DEF SpeechSound, Writing, Asking, Typed, GraphTyped, StreamTyped
<1>3. a.kind = "ai" /\ a.text = draft.text /\ a.calls = draft.calls
  BY DEF AI
<1> HIDE DEF a
<1>4. /\ Len(messages') = Len(messages) + 1 /\ messages'[Len(messages')] = a /\ messages' # <<>>
      /\ \A i \in 1..Len(messages) : messages'[i] = messages[i]
  BY <1>1, <1>2
<1>5. Streamed' = Streamed
  BY <1>1 DEF Streamed
<1>6. (AsSpoken(Streamed))'
  BY <1>2, <1>5 DEF AsSpoken, Follows
<1>7. Calling(Len(messages)) /\ \A n \in 1..Len(Streamed) : Streamed[n][1] <= Len(messages) + 1
  BY <1>1, <1>2 DEF Writing, Asking
<1>8. \A i \in 1..Len(messages') : i \in 1..Len(messages) \/ i = Len(messages')
  BY <1>2, <1>4
<1>9. CASE ShouldContinue(messages')
  <2>1. node' = "tools" /\ a.calls > 0
    BY <1>1, <1>4, <1>9 DEF ShouldContinue, WantsTools, Last
  <2>2. Calling(Len(messages))'
    BY <1>4, <1>7, <1>8, <2>1 DEF Calling
  <2>3. Writing'
    BY <1>1, <1>2, <1>4, <1>5, <1>7, <2>1, <2>2 DEF Writing
  <2>4. Answering'
    BY <1>1, <1>2, <2>1 DEF Answering
  <2> QED BY <1>1, <1>6, <2>3, <2>4 DEF SpeechSound
<1>10. CASE ~ShouldContinue(messages')
  <2>1. node' = "post_process"
    BY <1>1, <1>10
  <2>2. Writing'
    BY <1>1, <2>1 DEF Writing, Asking
  <2>3. StreamedUpTo(Len(messages))'
    <3>1. CASE a.calls = 0 /\ a.text > 0
      <4>1. ~hasTools /\ draft.text # 0
        BY <1>1, <1>2, <1>3, <3>1 DEF Writing
      <4>2. Streamed # <<>> /\ Last(Streamed) = <<Len(messages) + 1, draft.text>>
        BY <1>1, <1>2, <4>1 DEF Writing
      <4> QED BY <1>3, <1>4, <1>5, <4>2 DEF StreamedUpTo, Last
    <3>2. CASE ~(a.calls = 0 /\ a.text > 0)
      BY <1>4, <3>2 DEF StreamedUpTo
    <3> QED BY <3>1, <3>2
  <2>4. \A i \in 1..Len(messages') - 1 : messages'[i].kind = "ai" => messages'[i].calls > 0
    BY <1>2, <1>4, <1>7 DEF Calling
  <2>5. Answering'
    BY <1>1, <1>2, <1>4, <2>1, <2>3, <2>4 DEF Answering, Calling
  <2> QED BY <1>1, <1>6, <2>2, <2>5 DEF SpeechSound
<1> QED BY <1>9, <1>10

\* The nodes after the loop, the end of the run and the client.
LEMMA EndSpoken ==
    ASSUME Typed, SpeechSound, caller = "socket", Typed',
           \/ PostProcess \/ OutputGuardrail \/ GuardrailReject \/ FlushRest \/ Final \/ Error
           \/ PutEnd \/ RunFails \/ Send \/ UNCHANGED vars
    PROVE  SpeechSound'
<1>1. AsSpoken(Streamed) /\ Writing /\ Answering
  BY DEF SpeechSound
<1>2. messages \in Seq(Message) /\ Len(messages) \in Nat /\ stored \in 0..Len(messages)
  BY DEF Typed, GraphTyped
<1>3. CASE Send \/ UNCHANGED vars
  <2>1. UNCHANGED <<messages, node, draft, stored, caller, buffer, hasTools, tokens, faults>>
    BY <1>3 DEF Send, vars, graph, request, stream
  <2>2. UNCHANGED Streamed
    BY <2>1 DEF Streamed
  <2> QED BY <2>1, <2>2 DEF SpeechSound, AsSpoken, Follows, Writing, Answering, Calling, StreamedUpTo
<1>4. CASE RunFails
  <2>1. /\ node' = "error" /\ draft' = Empty /\ faults' = faults + 1 /\ buffer' = <<>>
        /\ UNCHANGED <<messages, stored, caller, tokens>>
    BY <1>4 DEF RunFails, Goto, request
  <2>2. (AsSpoken(Streamed))'
    BY <1>1, <2>1, StreamedKept
  <2>3. faults' # 0
    BY <2>1 DEF Typed, RequestTyped
  <2>4. Writing' /\ Answering'
    BY <2>1, <2>3 DEF Writing, Answering, Asking
  <2> QED BY <2>2, <2>4 DEF SpeechSound
<1>5. CASE PostProcess
  <2>1. /\ node = "post_process" /\ node' = "output_guardrail" /\ stored' = Spoken(messages)
        /\ UNCHANGED <<messages, draft, caller, buffer, hasTools, tokens, faults>>
    BY <1>5 DEF PostProcess, Goto, Silent, request, stream
  <2>2. UNCHANGED Streamed
    BY <2>1 DEF Streamed
  <2>3. Calling(Len(messages) - 1) /\ StreamedUpTo(Len(messages))
    BY <1>1, <2>1 DEF Answering
  <2>4. stored' # 0 => stored' \in 1..Len(messages) /\ messages[stored'].kind = "ai" /\ messages[stored'].text > 0
    <3> DEFINE S == {i \in Of(messages, "ai") : messages[i].text > 0}
    <3>1. S \in SUBSET (1..Len(messages))
      BY <1>2 DEF Of
    <3>2. stored' # 0 => stored' \in S
      <4>1. stored' = LastOf(S)
        BY <2>1 DEF Spoken
      <4> HIDE DEF S
      <4> QED BY <1>2, <3>1, <4>1, LastOfBounded
    <3> QED BY <3>1, <3>2 DEF Of
  <2>5. ASSUME stored' # 0 PROVE StreamedUpTo(stored')
    <3>1. CASE messages[stored'].calls > 0
      BY <3>1 DEF StreamedUpTo
    <3>2. CASE ~(messages[stored'].calls > 0)
      <4>1. ~(stored' \in 1..Len(messages) - 1)
        BY <2>3, <2>4, <2>5, <3>2 DEF Calling
      <4>2. stored' = Len(messages)
        BY <1>2, <2>4, <2>5, <4>1
      <4> QED BY <2>3, <4>2
    <3> QED BY <3>1, <3>2
  <2>6. Answering'
    BY <2>1, <2>2, <2>4, <2>5 DEF Answering, StreamedUpTo
  <2>7. Writing'
    BY <1>1, <2>1 DEF Writing, Asking
  <2>8. (AsSpoken(Streamed))'
    BY <1>1, <2>2 DEF AsSpoken, Follows
  <2> QED BY <2>6, <2>7, <2>8 DEF SpeechSound
<1>6. CASE OutputGuardrail \/ GuardrailReject \/ FlushRest \/ Final \/ Error \/ PutEnd
  <2>1. /\ node \in {"output_guardrail", "guardrail_reject", "END", "final", "error", "closing"}
        /\ node' \in {"guardrail_reject", "END", "final", "closing", "off"}
        /\ node' \in {"final", "closing", "off"} /\ node # "END" => buffer' = buffer
           /\ node \in {"final", "error", "closing"}
        /\ UNCHANGED <<draft, stored, caller, faults>>
    BY <1>6 DEF OutputGuardrail, GuardrailReject, FlushRest, Final, Error, PutEnd, Goto, RunIsOver, Silent,
                request, stream
  <2>2. /\ messages' \in Seq(Message) /\ \A i \in 1..Len(messages) : messages'[i] = messages[i]
    <3>1. messages' = messages \/ messages' = Append(messages, AI(1, 1, 0))
      BY <1>6 DEF OutputGuardrail, GuardrailReject, FlushRest, Final, Error, PutEnd
    <3> QED BY <1>2, <3>1, MessagesTyped
  <2>3. Streamed' = Streamed /\ (node = "END" => buffer' = <<>>)
    <3>1. CASE FlushRest
      <4>1. hasTools => buffer = <<>>
        BY DEF Typed, StreamTyped
      <4>2. \/ tokens' = tokens \o buffer /\ buffer' = <<>>
            \/ UNCHANGED <<tokens, buffer>> /\ buffer = <<>>
        BY <3>1, <4>1 DEF FlushRest
      <4>3. (tokens \o buffer) \o <<>> = tokens \o buffer
        <5>1. tokens \o buffer \in Seq(Piece)
          BY StreamedTyped
        <5> QED BY <5>1
      <4> QED BY <4>2, <4>3 DEF Streamed
    <3>2. CASE ~FlushRest
      BY <1>6, <3>2 DEF OutputGuardrail, GuardrailReject, Final, Error, PutEnd, Silent, stream, Streamed
    <3> QED BY <3>1, <3>2
  <2>4. (AsSpoken(Streamed))'
    BY <1>1, <2>3 DEF AsSpoken, Follows
  <2>5. Writing'
    BY <1>1, <2>1 DEF Writing, Asking
  <2>6. stored' # 0 /\ faults' = 0 => messages'[stored'].text > 0 /\ StreamedUpTo(stored)'
    BY <2>1, <2>2, <2>3, AnswerKept
  <2>7. node' \in {"final", "error", "closing", "off"} => buffer' = <<>>
    BY <1>1, <2>1, <2>3 DEF Answering
  <2>8. Answering'
    BY <2>1, <2>6, <2>7 DEF Answering
  <2> QED BY <2>4, <2>5, <2>8 DEF SpeechSound
<1> QED BY <1>3, <1>4, <1>5, <1>6

LEMMA StepKeepsSpeech ==
    ASSUME Typed, SpeechSound, [Next]_vars
    PROVE  SpeechSound'
<1>1. Typed'
  BY StepTyped
<1>2. UNCHANGED caller
  BY DEF Next, RunStep, Start, InputGuardrail, Planner, CallModel, TextChunk, ToolCallChunk, Respond,
         Tools, PostProcess, OutputGuardrail, GuardrailReject, FlushRest, Final, Error, PutEnd, Send,
         RunFails, Disconnect, Silent, request, vars
<1>3. CASE caller # "socket"
  BY <1>2, <1>3 DEF SpeechSound
<1>4. CASE caller = "socket"
  <2>1. ~Disconnect
    BY <1>4 DEF Disconnect, SSE
  <2> QED BY <1>1, <1>4, <2>1, ChunkSpoken, AskSpoken, RespondSpoken, EndSpoken DEF Next, RunStep
<1> QED BY <1>3, <1>4

LEMMA SocketSoundImplies ==
    ASSUME Typed, SocketSound, SpeechSound
    PROVE  SocketInOrder
<1> SUFFICES ASSUME caller = "socket", tokens # <<>>, "token" \notin ToSet(lost)
             PROVE  /\ IsPrefix(sent, tokens) /\ AsSpoken(sent)
                    /\ socket = "idle" =>
                          /\ sent = tokens
                          /\ stored # 0 /\ messages[stored].calls = 0 /\ faults = 0 =>
                                Last(sent) = <<stored, messages[stored].text>>
  BY TypedImpliesTypeOK DEF SocketInOrder
<1>1. tokens \in Seq(Piece) /\ sent \in Seq(Piece) /\ Len(tokens) \in Nat /\ Len(sent) \in Nat
  BY DEF Typed, DeliveryTyped, StreamTyped
<1>2. PICK f \in [0..Len(queue) -> 0..Len(tokens)] : Cut(f, tokens, queue, sent)
  BY DEF SocketSound, Streaming, Splits
<1>3. Len(queue) \in Nat
  BY DEF Typed, DeliveryTyped
<1>4. f[0] \in 0..Len(tokens) /\ Len(sent) = f[0] /\ \A i \in 1..Len(sent) : sent[i] = tokens[i]
  <2>1. f[0] \in 0..Len(tokens) /\ Part(tokens, sent, 0, f[0])
    BY <1>2, <1>3 DEF Cut
  <2> QED  BY <1>1, <2>1 DEF Part
<1>5. IsPrefix(sent, tokens)
  <2>1. Len(sent) <= Len(tokens)
    BY <1>1, <1>4
  <2>2. SubSeq(sent, 1, Len(sent)) = SubSeq(tokens, 1, Len(sent))
    BY <1>1, <1>4, <2>1
  <2> QED  BY <2>1, <2>2 DEF IsPrefix
<1>6. ASSUME socket = "idle" PROVE sent = tokens
  <2>1. queue = <<>>
    BY <1>6 DEF SocketSound, MarksLast
  <2>2. f[0] = Len(tokens)
    BY <1>2, <2>1 DEF Cut
  <2> QED  BY <1>1, <1>4, <2>2
<1>7. AsSpoken(sent)
  <2>1. AsSpoken(tokens)
    BY StreamedTyped, PrefixAsSpoken DEF SpeechSound
  <2> QED BY <1>1, <1>4, <2>1, PrefixAsSpoken
<1>8. ASSUME socket = "idle", stored # 0, messages[stored].calls = 0, faults = 0
      PROVE  Last(sent) = <<stored, messages[stored].text>>
  <2>1. node = "off"
    BY <1>8 DEF SocketSound, MarksLast
  <2>2. Streamed = sent
    BY <1>6, <1>8, <2>1, StreamedTyped DEF SpeechSound, Answering
  <2> QED BY <1>8, <2>2 DEF SpeechSound, Answering, StreamedUpTo
<1> QED  BY <1>5, <1>6, <1>7, <1>8

-----------------------------------------------------------------------------
IInv == Typed /\ CallsSound /\ Asked /\ SocketSound /\ SpeechSound

LEMMA InvHolds == Spec => []IInv
<1>1. Init => IInv
  <2>1. Init => node = "START"
    BY DEF Init
  <2> QED  BY <2>1, InitTyped, InitSocket, InitSpeech DEF IInv, CallsSound, Asked
<1>2. IInv /\ [Next]_vars => IInv'
  BY StepTyped, StepKeepsCalls, StepKeepsQuestion, StepKeepsSocket, StepKeepsSpeech DEF IInv
<1> QED  BY <1>1, <1>2, PTL DEF Spec

\* Every call of the model, however much of the conversation was trimmed and
\* whatever the tools did, has its results, and every result of the turn its
\* call: trim_messages_with_integrity over what react_graph.py builds.
THEOREM CallsAreAnswered == Spec => []CallsAnswered
<1>1. IInv => CallsAnswered
  <2> SUFFICES ASSUME IInv, node = "agent"
               PROVE  LET C == Context(messages)
                      IN  /\ \A i \in C : Cardinality(Answers(messages, i) \cap C) = messages[i].calls
                          /\ \A j \in C : messages[j].kind = "tool" /\ messages[j].turn = 1 =>
                                \E i \in C : j \in Answers(messages, i)
    BY DEF CallsAnswered
  <2>1. messages \in Seq(Message) /\ Answered(messages, Len(messages))
    BY DEF IInv, Typed, GraphTyped, CallsSound
  <2> QED  BY <2>1, ContextAnswered
<1> QED  BY <1>1, InvHolds, PTL

\* The model is given the question and what followed it as long as that fits the
\* context, and nothing once it does not.
THEOREM QuestionIsSeen == Spec => []QuestionInContext
<1>1. IInv => QuestionInContext
  <2>1. IInv /\ node = "agent" => messages \in Seq(Message) /\ Of(messages, "human") # {}
    BY DEF IInv, Typed, GraphTyped, Asked
  <2> QED  BY <2>1, ContextHasQuestion DEF QuestionInContext
<1> QED  BY <1>1, InvHolds, PTL

\* The WebSocket client is sent the pieces in the order in which the model spoke
\* them, each once, and by the time the turn is over all that was flushed, the
\* answer of a run that did not fail up to its last piece, for batches of any
\* size and through a queue of any size that refused no token.
THEOREM SocketIsOrdered == Spec => []SocketInOrder
<1>1. IInv => SocketInOrder
  BY SocketSoundImplies DEF IInv
<1> QED  BY <1>1, InvHolds, PTL
=============================================================================
