---------------------------- MODULE MessageTable ----------------------------
(***************************************************************************)
(* The message table of chat_history_service.py as a set of rows, and the  *)
(* arithmetic of _compact_if_needed on the rows of one thread.             *)
(*                                                                         *)
(* A row keeps what the service decides on: its id, thread, role and       *)
(* created_at.  A summary is the assistant row whose content starts with   *)
(* SUMMARY_PREFIX; its text is abstracted to the ids of the messages it    *)
(* was made from, the field covers.                                        *)
(***************************************************************************)
EXTENDS Naturals, FiniteSets

CONSTANTS Threads,        \* thread ids
          MaxMessages,    \* bound: messages that are ever submitted
          WINDOW_ROUNDS,  \* CHAT_HISTORY_WINDOW_ROUNDS
          Null

MessageIds == 1 .. MaxMessages
RowIds == 1 .. (2 * MaxMessages)

ASSUME MessageTableAssumption ==
    /\ MaxMessages \in Nat
    /\ WINDOW_ROUNDS \in Nat \ {0}
    /\ Null \notin RowIds

MessageRole == {"user", "assistant", "tool"}

Row == [id : RowIds, thread : Threads, role : MessageRole \cup {"summary"},
        at : Nat, covers : SUBSET RowIds]

Request == [thread : Threads, role : MessageRole, parent : RowIds \cup {Null}]

\* A compaction writes at most one summary, named after the message whose
\* append ran it.
SummaryId(m) == MaxMessages + m

Ids(R) == {r.id : r \in R}
ThreadRows(R, t) == {r \in R : r.thread = t}
Users(R) == {r \in R : r.role = "user"}
Before(R, r) == {q \in R : q.at < r.at}

-----------------------------------------------------------------------------
\* The rows after the last summary: created_at strictly later than it.
Window(R) == {r \in R : \A s \in R : s.role = "summary" => r.at > s.at}

NeedsCompaction(R) == Cardinality(Users(Window(R))) >= WINDOW_ROUNDS

\* The oldest rows of the window up to and including its user message number
\* WINDOW_ROUNDS.
Selected(R) ==
    {r \in Window(R) : Cardinality(Users(Before(Window(R), r))) < WINDOW_ROUNDS}

\* As if the whole window went, for comparison.
TrimAll(R) == IF Cardinality(Window(R)) > 3 * WINDOW_ROUNDS THEN Window(R) ELSE {}

\* What a failed summarisation deletes: the older half of the selection, once
\* the window is longer than three times WINDOW_ROUNDS.
Trimmed(R) ==
    IF Cardinality(Window(R)) > 3 * WINDOW_ROUNDS
    THEN LET S == Selected(R)
         IN  {r \in S : Cardinality(Before(S, r)) < Cardinality(S) \div 2}
    ELSE {}

\* As if the told rows were kept beside their summary, for comparison.
DeletedUnlessSummarised(R, ok) ==
    IF NeedsCompaction(R) /\ ~ok THEN Trimmed(R) ELSE {}

\* The rows _compact_if_needed deletes and adds, for the rows R it read, when
\* summarising gave a text (ok) or not.
Deleted(R, ok) ==
    IF ~NeedsCompaction(R) THEN {}
    ELSE IF ok THEN Selected(R) ELSE Trimmed(R)

Added(R, ok, m, t, now) ==
    IF NeedsCompaction(R) /\ ok
    THEN {[id |-> SummaryId(m), thread |-> t, role |-> "summary", at |-> now,
           covers |-> Ids(Selected(R))]}
    ELSE {}

MessageRow(m, q, now) ==
    [id |-> m, thread |-> q.thread, role |-> q.role, at |-> now, covers |-> {}]

\* parent_id is ON DELETE SET NULL.
SetNull(parentOf, dead) ==
    [i \in RowIds |-> IF parentOf[i] \in dead THEN Null ELSE parentOf[i]]
=============================================================================
