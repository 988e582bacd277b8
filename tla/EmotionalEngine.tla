--------------------------- MODULE EmotionalEngine ---------------------------
(***************************************************************************)
(* services/emotional_engine.py: the emotional_state row of one user and   *)
(* the relationship events beside it.  An answered turn records an         *)
(* interaction, the client sends headpats, and every reader creates the    *)
(* row if it is missing.  A transaction reads the row without a lock and   *)
(* writes the columns it changed, its first flush locks the row.           *)
(*                                                                         *)
(* Time passes in half days and is kept as ages, 4 standing for 48 hours   *)
(* and more.  energy starts at 1.0 and nothing lowers it (decay_energy has *)
(* no caller), so the overrides for a low energy are left out.             *)
(***************************************************************************)
EXTENDS Integers, Sequences

CONSTANTS Requests,        \* the slots of concurrent transactions
          MaxAffinity,     \* MAX_AFFINITY, 1000
          Week,            \* days between two milestones of the streak, 7
          MaxMoodHistory,  \* MAX_MOOD_HISTORY, 20
          MaxCalls,        \* bound: transactions in a behaviour
          MaxFaults,       \* bound: failed statements, commits and restarts
          Absent, Null

VARIABLES state,    \* the committed row, Absent at first
          lock,     \* the transaction that has inserted or updated the row, or Null
          tx,
          calls, faults,
          ledger,   \* history: what the committed events add up to
          count,    \* history: committed interactions
          crossed   \* history: the pairs of operations that have overwritten each other

vars == <<state, lock, tx, calls, faults, ledger, count, crossed>>

Mood == {"happy", "neutral", "sad", "excited", "frustrated", "tired"}
Sentiment == {"positive", "negative", "neutral", "grateful"}
Ages == 0..4
LongAbsence == 4

State == [mood : Mood, affinity : 0..MaxAffinity, streak_days : Nat, interaction_count : Nat,
          last : Ages \cup {Null}, history : Seq(Mood \X Mood)]

\* interact and headpat write; look commits and peek only closes its session.
Writers == {"interact", "headpat"}
Operations == Writers \cup {"look", "peek"}
Idle == [op |-> "idle"]

\* copy is the row as it was read, stale the writers that have committed since.
Transaction == [op : Operations, sentiment : Sentiment, copy : State \cup {Absent}, age : Ages,
                stale : SUBSET Writers, pc : {"insert", "flush", "end"}]

EmotionAssumption ==
    /\ MaxAffinity \in Nat /\ Week \in Nat \ {0} /\ MaxMoodHistory \in Nat
    /\ Null \notin Requests \cup Ages /\ Absent \notin State

Init ==
    /\ state = Absent
    /\ lock = Null
    /\ tx = [r \in Requests |-> Idle]
    /\ calls = 0 /\ faults = 0
    /\ ledger = [affinity |-> 0, mood |-> "neutral"]
    /\ count = 0
    /\ crossed = {}

-----------------------------------------------------------------------------
(* The state machine of moods *)

\* MOOD_TRANSITIONS: the next mood and the change of affinity.
MoodTransition(mood, sentiment) ==
    CASE sentiment = "positive" ->
           (CASE mood = "happy" -> <<"happy", 3>> [] mood = "neutral" -> <<"happy", 2>>
              [] mood = "sad" -> <<"neutral", 3>> [] mood = "excited" -> <<"excited", 2>>
              [] mood = "frustrated" -> <<"neutral", 4>> [] mood = "tired" -> <<"neutral", 2>>)
      [] sentiment = "negative" ->
           (CASE mood = "happy" -> <<"neutral", -1>> [] mood = "neutral" -> <<"sad", -2>>
              [] mood = "sad" -> <<"sad", -3>> [] mood = "excited" -> <<"neutral", -2>>
              [] mood = "frustrated" -> <<"frustrated", -3>> [] mood = "tired" -> <<"sad", -2>>)
      [] sentiment = "neutral" ->
           (CASE mood \in {"sad", "tired"} -> <<mood, 0>> [] mood = "happy" -> <<"happy", 1>>
              [] OTHER -> <<"neutral", 1>>)
      [] sentiment = "grateful" ->
           (CASE mood = "happy" -> <<"excited", 5>> [] mood = "neutral" -> <<"happy", 4>>
              [] mood = "excited" -> <<"excited", 4>> [] mood = "tired" -> <<"happy", 3>>
              [] OTHER -> <<"happy", 5>>)

Clamped(affinity) ==
    IF affinity < 0 THEN 0 ELSE IF affinity > MaxAffinity THEN MaxAffinity ELSE affinity

Logged(history, from, to) ==
    IF from = to THEN history
    ELSE LET h == Append(history, <<from, to>>)
         IN  SubSeq(h, Len(h) - (IF Len(h) < MaxMoodHistory THEN Len(h) ELSE MaxMoodHistory) + 1,
                    Len(h))

\* What a relationship event, with its change of affinity and mood_after, adds
\* to those before.
Replay(l, delta, mood) == [affinity |-> Clamped(l.affinity + delta), mood |-> mood]

-----------------------------------------------------------------------------
(* What a transaction makes of the row it has read *)

NoChange(row) == [row |-> row, ledger |-> ledger, dirty |-> {}]

\* The changed columns are the dirty ones, also if a later change takes them back.
Then(done, row, replayed) ==
    [row |-> row, ledger |-> replayed,
     dirty |-> done.dirty \cup {c \in DOMAIN row : row[c] # done.row[c]}]

AbsenceCheck(done) ==
    LET row == done.row
    IN  IF row.last = LongAbsence
        THEN Then(done,
                  [row EXCEPT !.mood = "sad", !.affinity = Clamped(@ - 5), !.streak_days = 0],
                  Replay(done.ledger, -5, "sad"))
        ELSE done

StreakUpdate(done) ==
    LET row == done.row
        streak == IF row.last = Null \/ row.last \div 2 > 1 THEN 1
                  ELSE row.streak_days + row.last \div 2
        milestone == row.last # Null /\ row.last \div 2 = 1 /\ streak % Week = 0
        bonus == IF 2 * (streak \div Week) < 10 THEN 2 * (streak \div Week) ELSE 10
    IN  Then(done,
             [row EXCEPT !.streak_days = streak,
                         !.affinity = IF milestone THEN Clamped(@ + bonus) ELSE @],
             IF milestone THEN Replay(done.ledger, bonus, row.mood) ELSE done.ledger)

MoodUpdate(done, sentiment) ==
    LET row == done.row
        next == MoodTransition(row.mood, sentiment)
    IN  Then(done,
             [row EXCEPT !.mood = next[1], !.affinity = Clamped(@ + next[2]),
                         !.history = Logged(@, row.mood, next[1]),
                         !.interaction_count = @ + 1, !.last = 0],
             IF next[2] # 0 THEN Replay(done.ledger, next[2], next[1]) ELSE done.ledger)

RecordInteraction(row, sentiment) ==
    LET done == MoodUpdate(StreakUpdate(AbsenceCheck(NoChange(row))), sentiment)
    IN  [done EXCEPT !.dirty = @ \cup {"last"}]

RecordHeadpat(row) ==
    Then(NoChange(row),
         [row EXCEPT !.mood = "happy", !.affinity = Clamped(@ + 5),
                     !.history = Logged(@, row.mood, "happy")],
         Replay(ledger, 5, "happy"))

Result(t) ==
    CASE t.op = "interact" -> RecordInteraction(t.copy, t.sentiment)
      [] t.op = "headpat" -> RecordHeadpat(t.copy)
      [] OTHER -> NoChange(t.copy)

-----------------------------------------------------------------------------
(* Transactions *)

NewState == [mood |-> "neutral", affinity |-> 0, streak_days |-> 0, interaction_count |-> 0,
             last |-> Null, history |-> <<>>]

AfterRead(op) == IF op \in Writers THEN "flush" ELSE "end"

\* get_or_create reads the committed row.
Read(r, op, s) ==
    /\ tx[r] = Idle /\ calls < MaxCalls
    /\ op = "interact" \/ s = "neutral"
    /\ calls' = calls + 1
    /\ tx' = [tx EXCEPT ![r] =
           [op |-> op, sentiment |-> s, copy |-> state, age |-> 0, stale |-> {},
            pc |-> IF state = Absent THEN "insert" ELSE AfterRead(op)]]
    /\ UNCHANGED <<state, lock, faults, ledger, count, crossed>>

Ends(r) ==
    /\ tx' = [tx EXCEPT ![r] = Idle]
    /\ lock' = IF lock = r THEN Null ELSE lock

\* The unique constraint makes a second INSERT wait for the first and fail
\* if that commits; the interaction or the request is then lost.
Insert(r) ==
    /\ tx[r] # Idle /\ tx[r].pc = "insert" /\ lock = Null
    /\ IF state = Absent
       THEN /\ lock' = r
            /\ tx' = [tx EXCEPT ![r].copy = NewState, ![r].age = 0, ![r].pc = AfterRead(tx[r].op)]
       ELSE Ends(r)
    /\ UNCHANGED <<state, calls, faults, ledger, count, crossed>>

Flush(r) ==
    /\ tx[r] # Idle /\ tx[r].pc = "flush" /\ lock \in {Null, r}
    /\ lock' = r
    /\ tx' = [tx EXCEPT ![r].pc = "end"]
    /\ UNCHANGED <<state, calls, faults, ledger, count, crossed>>

\* An UPDATE of every column, for comparison.
AllColumns(row, done, age) == [done.row EXCEPT !.last = IF @ = Null THEN Null ELSE age]

\* The row after the UPDATE of the dirty columns; what was read as now is by
\* now as old as the transaction.
Merged(row, done, age) ==
    IF row = Absent THEN [done.row EXCEPT !.last = IF @ = Null THEN Null ELSE age]
    ELSE [c \in DOMAIN row |-> IF c \notin done.dirty THEN row[c]
                               ELSE IF c = "last" THEN age ELSE done.row[c]]

\* get_db, get_db_context; other transactions now hold an old copy.
Commit(r) ==
    LET t == tx[r]
        done == Result(t)
    IN  /\ t # Idle /\ t.pc = "end" /\ t.op # "peek"
        /\ lock' = IF lock = r THEN Null ELSE lock
        /\ state' = IF lock = r THEN Merged(state, done, t.age) ELSE state
        /\ ledger' = done.ledger
        /\ count' = IF t.op = "interact" THEN count + 1 ELSE count
        /\ crossed' = crossed \cup {{t.op, op} : op \in t.stale}
        /\ tx' = [q \in Requests |->
                    IF q = r THEN Idle
                    ELSE IF t.op \in Writers /\ tx[q] # Idle /\ tx[q].pc = "flush"
                    THEN [tx[q] EXCEPT !.stale = @ \cup {t.op}] ELSE tx[q]]
        /\ UNCHANGED <<calls, faults>>

\* adaptive_session closes its session without a commit.
Close(r) ==
    /\ tx[r] # Idle /\ tx[r].pc = "end" /\ tx[r].op = "peek"
    /\ Ends(r)
    /\ UNCHANGED <<state, calls, faults, ledger, count, crossed>>

Rollback(r) ==
    /\ tx[r] # Idle /\ faults < MaxFaults
    /\ faults' = faults + 1
    /\ Ends(r)
    /\ UNCHANGED <<state, calls, ledger, count, crossed>>

Older(age) == IF age = LongAbsence THEN age ELSE age + 1

\* Half a day passes; no transaction stays open for as long as two.
HalfDay ==
    /\ state # Absent /\ state.last \notin {Null, LongAbsence}
    /\ \A r \in Requests : tx[r] # Idle => tx[r].age = 0 /\ tx[r].copy # Absent
    /\ state' = [state EXCEPT !.last = Older(@)]
    /\ tx' = [r \in Requests |-> IF tx[r] = Idle THEN Idle ELSE [tx[r] EXCEPT !.age = Older(@)]]
    /\ UNCHANGED <<lock, calls, faults, ledger, count, crossed>>

Next ==
    \/ \E r \in Requests :
        \/ \E op \in Operations, s \in Sentiment : Read(r, op, s)
        \/ Insert(r) \/ Flush(r) \/ Commit(r) \/ Close(r) \/ Rollback(r)
    \/ HalfDay

Spec == Init /\ [][Next]_vars

-----------------------------------------------------------------------------
(* Properties *)

TypeOK ==
    /\ state \in State \cup {Absent}
    /\ lock \in Requests \cup {Null}
    /\ tx \in [Requests -> Transaction \cup {Idle}]
    /\ ledger \in [affinity : 0..MaxAffinity, mood : Mood]
    /\ count \in Nat
    /\ crossed \in SUBSET (SUBSET Writers)

\* The row is what its relationship events add up to: replaying the committed
\* events, with the bounds of the affinity, gives the affinity and the mood,
\* and every committed interaction is counted, over creations, roll backs,
\* absences and milestones.  An update may be lost only to another one that
\* read the same row, and a headpat never takes away an interaction or a day
\* of the streak, since it does not write those columns.
StateFollowsEvents ==
    /\ TypeOK
    /\ state # Absent =>
        /\ crossed = {} => state.affinity = ledger.affinity /\ state.mood = ledger.mood
        /\ {"interact"} \notin crossed =>
              /\ state.interaction_count = count
              /\ state.streak_days <= count
    /\ state = Absent => count = 0
=============================================================================
