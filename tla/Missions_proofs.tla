--------------------------- MODULE Missions_proofs ---------------------------
(***************************************************************************)
(* Missions for every number of missions, requests and steps: the type     *)
(* invariant, progress follows the steps, toggles are not overwritten, and *)
(* the cached statistics are honest.                                       *)
(***************************************************************************)
EXTENDS Missions, TLAPS, FiniteSetTheorems

-----------------------------------------------------------------------------
(* Progress *)

\* The rounded percentage of a part is between 0 and 100, and 100 for the whole.
LEMMA RatioBounds ==
    ASSUME NEW k \in Nat, NEW n \in Nat \ {0}, k <= n
    PROVE  /\ RoundedRatio(100 * k, n) \in 0..100
           /\ k = n => RoundedRatio(100 * k, n) = 100
<1> DEFINE p == 100 * k
           low == p \div n
           m == p % n
<1>1. p \in Nat /\ p <= 100 * n /\ (k = n => p = 100 * n)
  OBVIOUS
<1> HIDE DEF p
<1>2. low \in Int /\ m \in 0..n - 1 /\ p = n * low + m
  BY <1>1
<1> HIDE DEF low, m
<1>3. low >= 0
  <2> SUFFICES ASSUME low <= -1 PROVE FALSE
    BY <1>2
  <2>1. n * low <= n * (-1)
    BY <1>2
  <2> QED  BY <1>1, <1>2, <2>1
<1>4. low <= 100
  <2> SUFFICES ASSUME low >= 101 PROVE FALSE
    BY <1>2
  <2>1. n * low >= n * 101
    BY <1>2
  <2> QED  BY <1>1, <1>2, <2>1
<1>5. low = 100 => m = 0
  BY <1>1, <1>2
<1>6. k = n => low = 100
  <2> SUFFICES ASSUME k = n, low <= 99 PROVE FALSE
    BY <1>2, <1>4
  <2>1. n * low <= n * 99
    BY <1>2
  <2> QED  BY <1>1, <1>2, <2>1
<1>7. RoundedRatio(p, n) = IF 2 * m > n \/ (2 * m = n /\ low % 2 = 1) THEN low + 1 ELSE low
  BY DEF RoundedRatio, low, m
<1>8. RoundedRatio(p, n) \in 0..100 /\ (k = n => RoundedRatio(p, n) = 100)
  BY <1>2, <1>3, <1>4, <1>5, <1>6, <1>7
<1> QED  BY <1>8 DEF p

LEMMA StepListLength ==
    ASSUME NEW s \in StepLists
    PROVE  \E n \in Nat : /\ s \in [1..n -> BOOLEAN] /\ Len(s) = n /\ DOMAIN s = 1..n
                          /\ (s = <<>> <=> n = 0) /\ n <= MaxSteps
<1>1. PICK n \in 0..MaxSteps : s \in [1..n -> BOOLEAN]
  BY DEF StepLists
<1>2. s \in Seq(BOOLEAN)
  BY <1>1, MissionsAssumption
<1>3. Len(s) = n
  BY <1>1, <1>2, MissionsAssumption
<1> QED  BY <1>1, <1>2, <1>3, MissionsAssumption

LEMMA ProgressType ==
    ASSUME NEW s \in StepLists
    PROVE  /\ ComputeProgress(s) \in 0..100
           /\ s # <<>> /\ DoneSteps(s) = DOMAIN s => ComputeProgress(s) = 100
<1>1. PICK n \in Nat : Len(s) = n /\ DOMAIN s = 1..n /\ (s = <<>> <=> n = 0)
  BY StepListLength
<1>2. IsFiniteSet(1..n) /\ Cardinality(1..n) = n
  BY FS_Interval
<1>3. DoneSteps(s) \subseteq 1..n
  BY <1>1 DEF DoneSteps
<1>4. Cardinality(DoneSteps(s)) \in Nat /\ Cardinality(DoneSteps(s)) <= n
  BY <1>2, <1>3, FS_Subset, FS_CardinalityType
<1>5. CASE s = <<>>
  <2>1. ComputeProgress(s) = 0
    BY <1>5 DEF ComputeProgress
  <2> QED  BY <1>5, <2>1
<1>6. CASE s # <<>>
  <2>1. ComputeProgress(s) = RoundedRatio(100 * Cardinality(DoneSteps(s)), n)
    BY <1>1, <1>6 DEF ComputeProgress
  <2>2. n \in Nat \ {0}
    BY <1>1, <1>6
  <2>3. /\ ComputeProgress(s) \in 0..100
        /\ Cardinality(DoneSteps(s)) = n => ComputeProgress(s) = 100
    BY <1>4, <2>1, <2>2, RatioBounds
  <2> QED  BY <1>1, <1>2, <2>3
<1> QED  BY <1>5, <1>6

\* complete_mission ticks every step.
LEMMA AllTicked ==
    ASSUME NEW s \in StepLists
    PROVE  LET d == [i \in DOMAIN s |-> TRUE]
           IN  d \in StepLists /\ (d # <<>> => ComputeProgress(d) = 100)
<1> DEFINE d == [i \in DOMAIN s |-> TRUE]
<1>1. PICK n \in Nat : DOMAIN s = 1..n /\ n <= MaxSteps
  BY StepListLength
<1>2. d \in [1..n -> BOOLEAN] /\ n \in 0..MaxSteps
  BY <1>1, MissionsAssumption
<1>3. d \in StepLists
  BY <1>2 DEF StepLists
<1>4. DoneSteps(d) = DOMAIN d
  BY DEF DoneSteps
<1> QED  BY <1>3, <1>4, ProgressType

LEMMA FlipType ==
    ASSUME NEW s \in StepLists, NEW i \in DOMAIN s
    PROVE  Flip(s, i) \in StepLists
<1>1. PICK n \in 0..MaxSteps : s \in [1..n -> BOOLEAN]
  BY DEF StepLists
<1>2. Flip(s, i) \in [1..n -> BOOLEAN]
  BY <1>1 DEF Flip
<1> QED  BY <1>1, <1>2 DEF StepLists

-----------------------------------------------------------------------------
(* The domain rules *)

\* What a refused request may leave in the object: a status it may change to.
Follows(old, new) ==
    /\ new.steps = old.steps /\ new.progress = old.progress
    /\ new.status = old.status \/ IsValidTransition(old.status, new.status)

\* What the rules make of a loaded row.
SoundOutcome(old, o) ==
    /\ o.sets \subseteq Columns
    /\ \/ o.verdict = "write" /\ o.new = Deleted
       \/ o.verdict = "write" /\ o.new \in Row /\ InSync(o.new)
       \/ o.verdict = "error" /\ o.new \in Row /\ Follows(old, o.new)

LEMMA FollowedInSync ==
    ASSUME NEW old \in Row, NEW new \in Row, Follows(old, new), InSync(old)
    PROVE  InSync(new)
BY DEF Follows, InSync, IsValidTransition, AllowedTransitions, Row, Statuses

LEMMA TransitionType ==
    ASSUME NEW s \in Statuses, NEW t, IsValidTransition(s, t)
    PROVE  t \in Statuses
BY DEF Statuses, IsValidTransition, AllowedTransitions

LEMMA RejectedSound ==
    ASSUME NEW old \in Row
    PROVE  SoundOutcome(old, Rejected(old, old))
BY DEF SoundOutcome, Rejected, Follows, Row

LEMMA CompletedSound ==
    ASSUME NEW old \in Row
    PROVE  SoundOutcome(old, Completed(old))
<1>1. CASE ~IsValidTransition(old.status, "completed")
  BY <1>1, RejectedSound DEF Completed
<1>2. CASE IsValidTransition(old.status, "completed")
  <2> DEFINE d == [i \in DOMAIN old.steps |-> TRUE]
             new == [status |-> "completed", progress |-> 100, steps |-> d]
  <2>1. d \in StepLists /\ (d # <<>> => ComputeProgress(d) = 100)
    BY AllTicked DEF Row
  <2>2. Completed(old) = [verdict |-> "write", new |-> new, sets |-> {}]
    BY <1>2 DEF Completed, Accepted
  <2> HIDE DEF d
  <2>3. new \in Row /\ InSync(new)
    BY <2>1 DEF Row, Statuses, InSync
  <2> QED  BY <2>2, <2>3 DEF SoundOutcome
<1> QED  BY <1>1, <1>2

\* An update computes the progress after it assigned the steps.
LEMMA ReplacedSound ==
    ASSUME NEW old \in Row, NEW b \in Body, Restatused(old, b).status \in Statuses
    PROVE  Replaced(old, b) \in Row /\ InSync(Replaced(old, b))
<1> DEFINE steps == IF b.steps = Null THEN old.steps ELSE b.steps
           base == Restatused(old, b)
           new == [base EXCEPT !.steps = steps, !.progress = ComputeProgress(steps)]
<1>1. base \in Row
  BY DEF Restatused, Row
<1>2. steps \in StepLists /\ ComputeProgress(steps) \in 0..100
  <2>1. steps \in StepLists
    BY DEF Body, Row
  <2> QED  BY <2>1, ProgressType
<1>3. Replaced(old, b) = AutoCompleted(new)
  BY DEF Replaced
<1> HIDE DEF base, steps
<1>4. new \in Row /\ new.progress = ComputeProgress(new.steps)
  BY <1>1, <1>2 DEF Row
<1> HIDE DEF new
<1>5. AutoCompleted(new) \in Row /\ InSync(AutoCompleted(new))
  BY <1>4 DEF AutoCompleted, InSync, Row, Statuses
<1> QED  BY <1>3, <1>5

LEMMA UpdatedSound ==
    ASSUME NEW old \in Row, NEW b \in Body
    PROVE  SoundOutcome(old, Updated(old, b))
<1> DEFINE new == Restatused(old, b)
           fields == b.steps # Null \/ b.other # "none"
           sets == (IF b.steps # Null THEN {"steps"} ELSE {})
                   \cup (IF b.other # "none" THEN {"other"} ELSE {})
<1>1. CASE new.status # old.status /\ ~IsValidTransition(old.status, new.status)
  BY <1>1, RejectedSound DEF Updated
<1>2. CASE b.status = Null /\ ~fields
  BY <1>2, RejectedSound DEF Updated
<1>3. CASE /\ new.status = old.status \/ IsValidTransition(old.status, new.status)
           /\ ~(b.status = Null /\ ~fields)
  <2>1. new \in Row /\ Follows(old, new)
    <3>1. old.status \in Statuses /\ new.status \in Statuses
      BY <1>3, TransitionType DEF Row
    <3>2. new \in Row /\ new.steps = old.steps /\ new.progress = old.progress
      BY <3>1 DEF Restatused, Row
    <3> QED  BY <1>3, <3>2 DEF Follows
  <2>2. Updated(old, b) = IF (new.status = "archived" /\ fields) \/ b.other = "empty"
                          THEN Rejected(old, new) ELSE Accepted(Replaced(old, b), sets)
    BY <1>3 DEF Updated
  <2>3. SoundOutcome(old, Rejected(old, new))
    BY <2>1 DEF SoundOutcome, Rejected
  <2>4. Replaced(old, b) \in Row /\ InSync(Replaced(old, b))
    BY <2>1, ReplacedSound DEF Row
  <2>5. SoundOutcome(old, Accepted(Replaced(old, b), sets))
    BY <2>4 DEF SoundOutcome, Accepted, Columns
  <2> QED  BY <2>2, <2>3, <2>5
<1> QED  BY <1>1, <1>2, <1>3

\* A toggle that is not refused outright flips its step.
LEMMA ToggledSound ==
    ASSUME NEW old \in Row, NEW i \in Nat
    PROVE  /\ SoundOutcome(old, Toggled(old, i))
           /\ \/ Toggled(old, i) = Rejected(old, old)
              \/ /\ Toggled(old, i).verdict = "write" /\ Toggled(old, i).sets = {"steps"}
                 /\ Toggled(old, i).new \in Row
                 /\ Toggled(old, i).new.steps = Flip(old.steps, i)
<1>1. CASE old.status \notin {"active", "completed"} \/ i \notin DOMAIN old.steps
  BY <1>1, RejectedSound DEF Toggled
<1>2. CASE old.status \in {"active", "completed"} /\ i \in DOMAIN old.steps
  <2> DEFINE steps == Flip(old.steps, i)
             new == [old EXCEPT !.steps = steps, !.progress = ComputeProgress(steps)]
             done == IF new.progress = 100 /\ new.status = "active"
                     THEN [new EXCEPT !.status = "completed"] ELSE new
  <2>1. steps \in StepLists /\ ComputeProgress(steps) \in 0..100
    BY <1>2, FlipType, ProgressType DEF Row
  <2>2. Toggled(old, i) = Accepted(Reopened(done), {"steps"})
    BY <1>2 DEF Toggled
  <2> HIDE DEF steps
  <2>3. new \in Row /\ new.progress = ComputeProgress(new.steps) /\ new.steps = steps
    BY <2>1 DEF Row
  <2> HIDE DEF new
  <2>4. done \in Row /\ done.progress = ComputeProgress(done.steps) /\ done.steps = steps
    BY <2>3 DEF Row, Statuses
  <2> HIDE DEF done
  <2>5. Reopened(done) \in Row /\ InSync(Reopened(done)) /\ Reopened(done).steps = steps
    BY <2>4 DEF Reopened, Row, Statuses, InSync
  <2> QED  BY <2>2, <2>5 DEF SoundOutcome, Accepted, Columns, steps
<1> QED  BY <1>1, <1>2

LEMMA OutcomeSound ==
    ASSUME NEW old \in Row, NEW c \in Calls, c.op # "create"
    PROVE  /\ SoundOutcome(old, Outcome(c, old))
           /\ c.op = "toggle" =>
                 \/ Outcome(c, old) = Rejected(old, old)
                 \/ /\ Outcome(c, old).verdict = "write" /\ Outcome(c, old).sets = {"steps"}
                    /\ Outcome(c, old).new \in Row
                    /\ Outcome(c, old).new.steps = Flip(old.steps, c.index)
<1>1. c \in Call /\ old \notin {Absent, Deleted}
  BY MissionsAssumption
<1>2. CASE c.op = "complete"
  BY <1>1, <1>2, CompletedSound DEF Outcome
<1>3. CASE c.op = "update"
  <2>1. c.body \in Body
    BY <1>1, <1>3 DEF Call
  <2> QED  BY <1>1, <1>3, <2>1, UpdatedSound DEF Outcome
<1>4. CASE c.op = "toggle"
  <2>1. c.index \in Nat
    BY <1>1, <1>4, MissionsAssumption DEF Call
  <2>2. Outcome(c, old) = Toggled(old, c.index)
    BY <1>1, <1>4 DEF Outcome
  <2> QED  BY <2>1, <2>2, ToggledSound
<1>5. CASE c.op = "delete"
  BY <1>1, <1>5 DEF Outcome, SoundOutcome, Accepted
<1>6. c.op \in {"complete", "update", "toggle", "delete"}
  BY <1>1 DEF Call
<1> QED  BY <1>2, <1>3, <1>4, <1>5, <1>6

-----------------------------------------------------------------------------
(* The invariant *)

MissionOf(r) == req[r].mission
Old(r) == req[r].seen
New(r) == req[r].new
Unwritten(r, c) == c \notin req[r].written

\* The object a request works on is a legal successor of the row it loaded.
CopySound(r) ==
    /\ Old(r) \in Row \cup {Absent}
    /\ \/ New(r) = Deleted /\ req[r].written = Columns /\ req[r].verdict = "write"
       \/ New(r) \in Row /\ req[r].verdict = "write" /\ InSync(New(r))
       \/ New(r) \in Row /\ req[r].verdict = "error" /\ Old(r) \in Row
             /\ Follows(Old(r), New(r)) /\ req[r].written # {}
    /\ Old(r) = Absent => New(r) \in Row /\ req[r].written = Columns
    /\ New(r) \in Row =>
          /\ Unwritten(r, "status") => New(r).status = Old(r).status
          /\ Unwritten(r, "steps") => New(r).steps = Old(r).steps
          /\ Unwritten(r, "progress") => New(r).progress = Old(r).progress
    /\ req[r].pc = "flushed" => req[r].verdict = "write"

CopiesSound == \A r \in Requests : req[r] # Idle => CopySound(r)

\* A flushed statement keeps the row lock, and its row is there.
WriterHolds(r) == holder[MissionOf(r)] = r /\ row[MissionOf(r)] # Deleted

WritersHold ==
    \A r \in Requests :
        req[r] # Idle /\ req[r].pc = "flushed" /\ req[r].written # {} => WriterHolds(r)

\* A toggle works under the lock on the row as it is.
ToggleCurrent(r) ==
    /\ holder[MissionOf(r)] = r /\ row[MissionOf(r)] = Old(r)
    /\ Old(r) \in Row /\ New(r) \in Row
    /\ "steps" \in req[r].written
    /\ New(r).steps = Flip(Old(r).steps, req[r].call.index)

TogglesCurrent ==
    \A r \in Requests : req[r] # Idle /\ req[r].call.op = "toggle" => ToggleCurrent(r)

RowsInSync == \A m \in MissionIds : row[m] \in Row /\ ~raced[m] => InSync(row[m])

\* While the cached statistics are not in doubt nothing is flushed, and the
\* counts of a reader that no commit disturbed are those of the table.
StatsSound ==
    /\ cache # Null /\ ~doubt => ~Uncommitted /\ cache = CountAll
    /\ reader.pc = "counting" /\ ~reader.doubt =>
          reader.got.total = CountAll.total /\ reader.got.active = CountAll.active

RowInv == TypeOK /\ CopiesSound /\ WritersHold /\ TogglesCurrent /\ RowsInSync

LEMMA BusyIsNotIdle == \A q : q.pc \in {"loaded", "flushed"} => q # Idle
BY DEF Idle

LEMMA BusyRequest ==
    ASSUME TypeOK, NEW r \in Requests, req[r] # Idle
    PROVE  /\ req[r] \in Busy /\ req[r].pc \in {"loaded", "flushed"} /\ MissionOf(r) \in MissionIds
           /\ req[r].written \subseteq Columns /\ r # Null
BY MissionsAssumption DEF TypeOK, Busy, MissionOf

LEMMA IdleRequest == Idle.pc = "idle"
BY DEF Idle

\* A request begins: only its own slot and, perhaps, a free row lock change.
LEMMA RequestBegins ==
    ASSUME RowInv, NEW r \in Requests, req[r] = Idle, NEW q \in Busy, req' = [req EXCEPT ![r] = q],
           UNCHANGED <<row, raced>>, cache' \in Counts \cup {Null}, reader' \in Reader, doubt' \in BOOLEAN,
           \/ holder' = holder
           \/ /\ holder' = [holder EXCEPT ![q.mission] = r]
              /\ \A s \in Requests : req[s] # Idle /\ MissionOf(s) = q.mission => holder[q.mission] # s,
           CopySound(r)',
           q.pc = "flushed" /\ q.written # {} => WriterHolds(r)',
           q.call.op = "toggle" => ToggleCurrent(r)'
    PROVE  RowInv'
<1>1. /\ req'[r] = q /\ q # Idle /\ \A s \in Requests : s # r => req'[s] = req[s]
      /\ q.mission \in MissionIds /\ r # Null
  <2>1. q.pc \in {"loaded", "flushed"} /\ q.mission \in MissionIds
    BY DEF Busy
  <2> QED  BY <2>1, BusyIsNotIdle, MissionsAssumption DEF RowInv, TypeOK
<1>2. TypeOK'
  <2>1. /\ row' \in [MissionIds -> Row \cup {Absent, Deleted}]
        /\ holder' \in [MissionIds -> Requests \cup {Null}]
        /\ req' \in [Requests -> Busy \cup {Idle}] /\ raced' \in [MissionIds -> BOOLEAN]
    BY <1>1 DEF RowInv, TypeOK
  <2>2. \A m \in MissionIds : holder'[m] # Null => req'[holder'[m]] # Idle /\ req'[holder'[m]].mission = m
    <3> SUFFICES ASSUME NEW m \in MissionIds, holder'[m] # Null
                 PROVE  req'[holder'[m]] # Idle /\ req'[holder'[m]].mission = m
      OBVIOUS
    <3>1. CASE holder'[m] = holder[m]
      <4>1. holder[m] \in Requests /\ req[holder[m]] # Idle /\ req[holder[m]].mission = m
        BY <3>1 DEF RowInv, TypeOK
      <4> QED  BY <1>1, <3>1, <4>1
    <3>2. CASE holder'[m] # holder[m]
      <4>1. m = q.mission /\ holder'[m] = r
        BY <1>1, <3>2 DEF RowInv, TypeOK
      <4> QED  BY <1>1, <4>1
    <3> QED  BY <3>1, <3>2
  <2> QED  BY <2>1, <2>2 DEF TypeOK
<1>3. CopiesSound'
  BY <1>1 DEF RowInv, CopiesSound, CopySound, Old, New, Unwritten
\* The lock of another request stays with it.
<1>4. \A s \in Requests : s # r /\ req[s] # Idle /\ holder[MissionOf(s)] = s
          => holder'[MissionOf(s)] = s /\ MissionOf(s)' = MissionOf(s)
  <2> SUFFICES ASSUME NEW s \in Requests, s # r, req[s] # Idle, holder[MissionOf(s)] = s
               PROVE  holder'[MissionOf(s)] = s /\ MissionOf(s)' = MissionOf(s)
    OBVIOUS
  <2>1. MissionOf(s) \in MissionIds /\ MissionOf(s)' = MissionOf(s)
    BY <1>1, BusyRequest DEF RowInv, MissionOf
  <2>2. holder \in [MissionIds -> Requests \cup {Null}]
    BY DEF RowInv, TypeOK
  <2> QED  BY <2>1, <2>2
<1>5. WritersHold'
  <2> SUFFICES ASSUME NEW s \in Requests, (req[s] # Idle /\ req[s].pc = "flushed" /\ req[s].written # {})'
               PROVE  WriterHolds(s)'
    BY DEF WritersHold
  <2>1. CASE s = r
    BY <1>1, <2>1
  <2>2. CASE s # r
    <3>1. req[s] # Idle /\ WriterHolds(s)
      BY <1>1, <2>2 DEF RowInv, WritersHold
    <3> QED  BY <1>4, <2>2, <3>1 DEF WriterHolds
  <2> QED  BY <2>1, <2>2
<1>6. TogglesCurrent'
  <2> SUFFICES ASSUME NEW s \in Requests, (req[s] # Idle /\ req[s].call.op = "toggle")'
               PROVE  ToggleCurrent(s)'
    BY DEF TogglesCurrent
  <2>1. CASE s = r
    BY <1>1, <2>1
  <2>2. CASE s # r
    <3>1. req'[s] = req[s] /\ req[s] # Idle /\ ToggleCurrent(s)
      BY <1>1, <2>2 DEF RowInv, TogglesCurrent
    <3>2. holder'[MissionOf(s)] = s /\ MissionOf(s)' = MissionOf(s)
      BY <1>4, <2>2, <3>1 DEF ToggleCurrent
    <3> QED  BY <3>1, <3>2 DEF ToggleCurrent, Old, New
  <2> QED  BY <2>1, <2>2
<1>7. RowsInSync'
  BY DEF RowInv, RowsInSync
<1> QED  BY <1>2, <1>3, <1>5, <1>6, <1>7 DEF RowInv

\* A request ends: it wrote its own row at most, and only under a lock that no
\* other request holds.
LEMMA RequestEnds ==
    ASSUME RowInv, NEW r \in Requests, req[r] # Idle, Ended(r),
           NEW x \in Row \cup {Absent, Deleted}, NEW d \in BOOLEAN,
           row' = [row EXCEPT ![MissionOf(r)] = x], raced' = [raced EXCEPT ![MissionOf(r)] = d],
           x = row[MissionOf(r)] \/ holder[MissionOf(r)] \in {Null, r},
           x \in Row /\ ~d => InSync(x),
           cache' \in Counts \cup {Null}, reader' \in Reader, doubt' \in BOOLEAN
    PROVE  RowInv'
<1> DEFINE m == MissionOf(r)
<1>1. /\ m \in MissionIds /\ row'[m] = x /\ raced'[m] = d
      /\ \A k \in MissionIds : k # m => row'[k] = row[k] /\ raced'[k] = raced[k]
  BY BusyRequest DEF RowInv, TypeOK
<1>2. /\ \A k \in MissionIds : holder'[k] = IF holder[k] = r THEN Null ELSE holder[k]
      /\ req'[r] = Idle /\ \A s \in Requests : s # r => req'[s] = req[s]
  BY DEF RowInv, TypeOK, Ended
<1>3. TypeOK'
  <2>1. row' \in [MissionIds -> Row \cup {Absent, Deleted}] /\ raced' \in [MissionIds -> BOOLEAN]
    BY DEF RowInv, TypeOK
  <2>2. holder' \in [MissionIds -> Requests \cup {Null}] /\ req' \in [Requests -> Busy \cup {Idle}]
    BY DEF RowInv, TypeOK, Ended
  <2>3. \A k \in MissionIds : holder'[k] # Null => req'[holder'[k]] # Idle /\ req'[holder'[k]].mission = k
    BY <1>2 DEF RowInv, TypeOK
  <2> QED  BY <2>1, <2>2, <2>3 DEF TypeOK
<1>4. CopiesSound'
  BY <1>2 DEF RowInv, CopiesSound, CopySound, Old, New, Unwritten
\* Whoever else holds the lock of a row finds it unchanged.
<1>5. ASSUME NEW s \in Requests, req[s] # Idle, s # r, holder[MissionOf(s)] = s
      PROVE  /\ MissionOf(s)' = MissionOf(s) /\ holder'[MissionOf(s)] = s
             /\ row'[MissionOf(s)] = row[MissionOf(s)]
  <2>1. MissionOf(s) \in MissionIds /\ s # Null /\ MissionOf(s)' = MissionOf(s)
    BY <1>2, <1>5, BusyRequest DEF RowInv, MissionOf
  <2> QED  BY <1>1, <1>2, <1>5, <2>1
<1>6. WritersHold'
  <2> SUFFICES ASSUME NEW s \in Requests, (req[s] # Idle /\ req[s].pc = "flushed" /\ req[s].written # {})'
               PROVE  WriterHolds(s)'
    BY DEF WritersHold
  <2>1. s # r /\ req'[s] = req[s] /\ req[s] # Idle /\ WriterHolds(s)
    BY <1>2 DEF RowInv, WritersHold
  <2> QED  BY <1>5, <2>1 DEF WriterHolds
<1>7. TogglesCurrent'
  <2> SUFFICES ASSUME NEW s \in Requests, (req[s] # Idle /\ req[s].call.op = "toggle")'
               PROVE  ToggleCurrent(s)'
    BY DEF TogglesCurrent
  <2>1. s # r /\ req'[s] = req[s] /\ req[s] # Idle /\ ToggleCurrent(s)
    BY <1>2 DEF RowInv, TogglesCurrent
  <2>2. MissionOf(s)' = MissionOf(s) /\ holder'[MissionOf(s)] = s /\ row'[MissionOf(s)] = row[MissionOf(s)]
    BY <1>5, <2>1 DEF ToggleCurrent
  <2> QED  BY <2>1, <2>2 DEF ToggleCurrent, Old, New
<1>8. RowsInSync'
  BY <1>1 DEF RowInv, RowsInSync
<1> QED  BY <1>3, <1>4, <1>6, <1>7, <1>8 DEF RowInv

LEMMA RollsBack ==
    ASSUME RowInv, NEW r \in Requests, req[r] # Idle, Ended(r),
           UNCHANGED <<row, raced, cache, reader, doubt>>
    PROVE  RowInv'
<1> DEFINE m == MissionOf(r)
<1>1. m \in MissionIds
  BY BusyRequest DEF RowInv
<1>2. /\ row[m] \in Row \cup {Absent, Deleted} /\ raced[m] \in BOOLEAN
      /\ row' = [row EXCEPT ![m] = row[m]] /\ raced' = [raced EXCEPT ![m] = raced[m]]
      /\ cache' \in Counts \cup {Null} /\ reader' \in Reader /\ doubt' \in BOOLEAN
  BY <1>1 DEF RowInv, TypeOK
<1>3. row[m] \in Row /\ ~raced[m] => InSync(row[m])
  BY <1>1 DEF RowInv, RowsInSync
<1> HIDE DEF m
<1> QED  BY <1>2, <1>3, RequestEnds DEF m

\* The commit of a flushed request, or of the dirty object that a refused tool
\* call leaves behind.
Commits(r) ==
    /\ req[r] # Idle
    /\ \/ req[r].pc = "flushed"
       \/ req[r].verdict = "error" /\ LockFree(r, MissionOf(r)) /\ RowThere(r)
    /\ CommitRow(r)

LEMMA CommitWrites ==
    ASSUME RowInv, NEW r \in Requests, Commits(r)
    PROVE  LET m == MissionOf(r)
           IN  /\ Stored(r) \in Row \cup {Absent, Deleted}
               /\ Stored(r) = row[m] \/ holder[m] \in {Null, r}
               /\ Stored(r) \in Row /\ ~raced'[m] => InSync(Stored(r))
<1> DEFINE m == MissionOf(r)
           o == Old(r)
           n == New(r)
           W == req[r].written
<1>1. /\ m \in MissionIds /\ CopySound(r) /\ W \subseteq Columns /\ row[m] \in Row \cup {Absent, Deleted}
      /\ raced[m] \in BOOLEAN
  BY BusyRequest DEF Commits, RowInv, TypeOK, CopiesSound
<1>2. raced'[m] = IF row[m] = o THEN raced[m] /\ req[r].verdict # "write"
                  ELSE raced[m] \/ Stored(r) # row[m]
  BY <1>1 DEF Commits, CommitRow, RowInv, TypeOK, MissionOf, Old
<1>3. /\ Absent \notin Row /\ Deleted \notin Row /\ Absent # Deleted
      /\ \A y \in Row : y # Absent /\ y # Deleted
  BY MissionsAssumption
<1>4. row[m] \in Row /\ ~raced[m] => InSync(row[m])
  BY <1>1 DEF RowInv, RowsInSync
<1>5. CASE W = {}
  <2>1. Stored(r) = row[m]
    BY <1>5 DEF Stored, MissionOf
  <2>2. n \in Row /\ req[r].verdict = "write" /\ InSync(n) /\ o \in Row
    BY <1>1, <1>5 DEF CopySound, Columns
  <2>3. n.status = o.status /\ n.steps = o.steps /\ n.progress = o.progress
    BY <1>1, <1>5, <2>2 DEF CopySound, Unwritten
  <2>4. InSync(o)
    BY <2>2, <2>3 DEF InSync
  <2> QED  BY <1>1, <1>2, <1>4, <2>1, <2>4
<1>6. CASE W # {}
  <2>1. row[m] # Deleted /\ holder[m] \in {Null, r}
    BY <1>6 DEF Commits, RowInv, WritersHold, WriterHolds, RowThere, LockFree, MissionOf
  <2>2. CASE n = Deleted
    <3>1. Stored(r) = Deleted
      BY <1>6, <2>2 DEF Stored, New
    <3> QED  BY <1>3, <2>1, <3>1
  <2>3. CASE row[m] = Absent /\ n \in Row
    <3>1. Stored(r) = n
      BY <1>6, <2>3 DEF Stored, MissionOf, New
    <3>2. ~raced'[m] => o = Absent
      BY <1>2, <1>3, <2>3, <3>1
    <3>3. o = Absent => InSync(n)
      BY <1>1, <1>3, <2>3 DEF CopySound
    <3> QED  BY <2>1, <2>3, <3>1, <3>2, <3>3
  <2>4. CASE row[m] \in Row /\ n \in Row
    <3> DEFINE x == Stored(r)
    <3>1. /\ x \in Row
          /\ x.status = IF "status" \in W THEN n.status ELSE row[m].status
          /\ x.steps = IF "steps" \in W THEN n.steps ELSE row[m].steps
          /\ x.progress = IF "progress" \in W THEN n.progress ELSE row[m].progress
      BY <1>3, <1>6, <2>4 DEF Stored, Row, MissionOf, New
    <3> HIDE DEF x
    <3>2. ASSUME ~raced'[m]
          PROVE  InSync(x)
      <4>1. CASE row[m] = o
        <5>1. x.status = n.status /\ x.steps = n.steps /\ x.progress = n.progress
          BY <1>1, <2>4, <3>1, <4>1 DEF CopySound, Unwritten
        <5>2. InSync(n)
          <6>1. CASE req[r].verdict = "write"
            BY <1>1, <1>3, <2>4, <6>1 DEF CopySound
          <6>2. CASE req[r].verdict # "write"
            <7>1. Follows(o, n)
              BY <1>1, <1>3, <2>4, <6>2 DEF CopySound
            <7>2. InSync(o)
              BY <1>2, <1>4, <2>4, <3>2, <4>1, <6>2
            <7> QED  BY <2>4, <4>1, <7>1, <7>2, FollowedInSync
          <6> QED  BY <6>1, <6>2
        <5> QED  BY <5>1, <5>2 DEF InSync
      <4>2. CASE row[m] # o
        BY <1>2, <1>4, <2>4, <3>2, <4>2 DEF x
      <4> QED  BY <4>1, <4>2
    <3> QED  BY <2>1, <3>1, <3>2 DEF x
  <2>5. n = Deleted \/ n \in Row
    BY <1>1 DEF CopySound
  <2> QED  BY <1>1, <2>1, <2>2, <2>3, <2>4, <2>5
<1> QED  BY <1>5, <1>6

LEMMA CommitKeeps ==
    ASSUME RowInv, NEW r \in Requests, Commits(r), doubt' \in BOOLEAN
    PROVE  RowInv'
<1> DEFINE m == MissionOf(r)
           d == IF row[m] = Old(r) THEN raced[m] /\ req[r].verdict # "write"
                ELSE raced[m] \/ Stored(r) # row[m]
<1>1. m \in MissionIds /\ req[r] # Idle /\ Ended(r) /\ raced[m] \in BOOLEAN
  BY BusyRequest DEF Commits, CommitRow, RowInv, TypeOK
<1>2. row' = [row EXCEPT ![m] = Stored(r)] /\ row'[m] = Stored(r)
  BY <1>1 DEF Commits, CommitRow, MissionOf, RowInv, TypeOK
<1>3. raced' = [raced EXCEPT ![m] = d] /\ d \in BOOLEAN /\ raced'[m] = d
  BY <1>1, <1>2 DEF Commits, CommitRow, MissionOf, Old, RowInv, TypeOK
<1>4. cache' \in Counts \cup {Null} /\ reader' \in Reader
  <2>1. reader' = [reader EXCEPT !.doubt = reader.pc # "idle"] /\ UNCHANGED cache
    BY DEF Commits, CommitRow
  <2> QED  BY <2>1 DEF RowInv, TypeOK, Reader
<1>5. /\ Stored(r) \in Row \cup {Absent, Deleted}
      /\ Stored(r) = row[m] \/ holder[m] \in {Null, r}
      /\ Stored(r) \in Row /\ ~d => InSync(Stored(r))
  BY <1>3, CommitWrites
<1> HIDE DEF m, d
<1> QED  BY <1>1, <1>2, <1>3, <1>4, <1>5, RequestEnds DEF m

-----------------------------------------------------------------------------
(* The steps *)

LEMMA InvalidationType ==
    ASSUME TypeOK, InvalidateCache
    PROVE  cache' \in Counts \cup {Null} /\ doubt' \in BOOLEAN
BY DEF TypeOK, InvalidateCache

LEMMA CreateKeeps ==
    ASSUME RowInv, NEW r \in Requests, NEW m \in MissionIds, CreateMission(r, m)
    PROVE  RowInv'
<1>1. PICK c \in Calls :
          /\ c.op = "create"
          /\ req[r] = Idle
          /\ row[m] = Absent
          /\ \A s \in Requests : req[s] # Idle => req[s].mission # m
          /\ req' = [req EXCEPT ![r] =
                       [pc |-> "flushed", call |-> c, mission |-> m, seen |-> Absent,
                        new |-> [status |-> c.body.status, steps |-> c.body.steps,
                                 progress |-> ComputeProgress(c.body.steps)],
                        written |-> Columns, verdict |-> "write"]]
          /\ holder' = [holder EXCEPT ![m] = r]
          /\ InvalidateCache
          /\ UNCHANGED <<row, raced, reader>>
  BY DEF CreateMission
<1> DEFINE n == [status |-> c.body.status, steps |-> c.body.steps,
                 progress |-> ComputeProgress(c.body.steps)]
           q == [pc |-> "flushed", call |-> c, mission |-> m, seen |-> Absent, new |-> n,
                 written |-> Columns, verdict |-> "write"]
<1>2. c.body.status \in Statuses /\ c.body.steps \in StepLists
  BY <1>1, MissionsAssumption DEF Call, NewBody
<1>3. n \in Row /\ InSync(n)
  BY <1>2, ProgressType DEF Row, InSync
<1> HIDE DEF n
<1>4. q \in Busy
  BY <1>3 DEF Busy
<1>5. req' = [req EXCEPT ![r] = q] /\ req'[r] = q
  BY <1>1 DEF RowInv, TypeOK, n
<1>6. CopySound(r)'
  BY <1>3, <1>5 DEF CopySound, Old, New, Unwritten, Columns
<1>7. WriterHolds(r)'
  BY <1>1, <1>5, MissionsAssumption DEF WriterHolds, MissionOf, RowInv, TypeOK
<1>8. cache' \in Counts \cup {Null} /\ doubt' \in BOOLEAN /\ reader' \in Reader
  BY <1>1, InvalidationType DEF RowInv, TypeOK
<1>9. /\ holder' = [holder EXCEPT ![q.mission] = r]
      /\ \A s \in Requests : req[s] # Idle /\ MissionOf(s) = q.mission => holder[q.mission] # s
  BY <1>1 DEF MissionOf
<1>10. q.call.op # "toggle"
  BY <1>1
<1> HIDE DEF q
<1> QED  BY <1>1, <1>4, <1>5, <1>6, <1>7, <1>8, <1>9, <1>10, RequestBegins

LEMMA LoadKeeps ==
    ASSUME RowInv, NEW r \in Requests, NEW m \in MissionIds, NEW c \in Calls, Load(r, m, c)
    PROVE  RowInv'
<1> DEFINE o == Outcome(c, row[m])
           W == Changed(row[m], o)
           q == [pc |-> "loaded", call |-> c, mission |-> m, seen |-> row[m], new |-> o.new,
                 written |-> W, verdict |-> o.verdict]
<1>1. /\ req[r] = Idle /\ row[m] # Absent /\ c.op # "create" /\ HasEffect(row[m], o)
      /\ c.op = "toggle" => holder[m] = Null
      /\ req' = [req EXCEPT ![r] = q]
      /\ holder' = IF c.op = "toggle" THEN [holder EXCEPT ![m] = r] ELSE holder
      /\ UNCHANGED <<row, raced, cache, reader, doubt>>
  BY DEF Load, Locks
<1>2. req'[r] = q
  BY <1>1 DEF RowInv, TypeOK
<1>3. row[m] \in Row
  <2> SUFFICES ASSUME row[m] = Deleted PROVE FALSE
    BY <1>1 DEF RowInv, TypeOK
  <2>1. o = [verdict |-> "error", new |-> Deleted, sets |-> {}]
    BY DEF Outcome, Rejected
  <2>2. Changed(Deleted, o) = {} /\ HasEffect(Deleted, o)
    BY <1>1 DEF Changed
  <2> HIDE DEF o
  <2>3. o.verdict = "error"
    BY <2>1
  <2> QED  BY <2>2, <2>3 DEF HasEffect
<1>4. /\ SoundOutcome(row[m], o)
      /\ c.op = "toggle" =>
             \/ o = Rejected(row[m], row[m])
             \/ /\ o.verdict = "write" /\ o.sets = {"steps"} /\ o.new \in Row
                /\ o.new.steps = Flip(row[m].steps, c.index)
  BY <1>1, <1>3, OutcomeSound
<1>5. Absent \notin Row /\ Deleted \notin Row /\ Absent # Deleted
  BY MissionsAssumption
<1> HIDE DEF o
<1>6. /\ o.new = Deleted => W = Columns
      /\ o.new \in Row => W = o.sets \cup {x \in {"status", "steps", "progress"} : o.new[x] # row[m][x]}
  BY <1>3, <1>5 DEF Changed
<1>7. o.verdict = "error" => W # {}
  BY <1>1 DEF HasEffect
<1>8. /\ o.new \in Row =>
            /\ "status" \notin W => o.new.status = row[m].status
            /\ "steps" \notin W => o.new.steps = row[m].steps
            /\ "progress" \notin W => o.new.progress = row[m].progress
  BY <1>6
<1>9. W \subseteq Columns
  BY <1>4, <1>5, <1>6 DEF SoundOutcome, Columns
<1> HIDE DEF W
<1>10. q \in Busy
  BY <1>3, <1>4, <1>9 DEF Busy, SoundOutcome
<1>11. CopySound(r)'
  BY <1>2, <1>3, <1>4, <1>5, <1>6, <1>7, <1>8 DEF CopySound, SoundOutcome, Old, New, Unwritten
<1>12. ASSUME c.op = "toggle" PROVE ToggleCurrent(r)'
  <2>1. holder'[m] = r
    BY <1>1, <1>12 DEF RowInv, TypeOK
  <2>2. o # Rejected(row[m], row[m])
    <3> SUFFICES ASSUME o = Rejected(row[m], row[m]) PROVE FALSE
      OBVIOUS
    <3>1. o.verdict = "error" /\ o.new = row[m] /\ o.sets = {}
      BY DEF Rejected
    <3> QED  BY <1>3, <1>6, <1>7, <3>1
  <2>3. /\ o.new \in Row /\ o.new.steps = Flip(row[m].steps, c.index) /\ "steps" \in W
    BY <1>4, <1>6, <1>12, <2>2
  <2> QED  BY <1>1, <1>2, <1>3, <2>1, <2>3 DEF ToggleCurrent, MissionOf, Old, New
<1>13. \/ holder' = holder
       \/ /\ holder' = [holder EXCEPT ![q.mission] = r]
          /\ \A s \in Requests : req[s] # Idle /\ MissionOf(s) = q.mission => holder[q.mission] # s
  BY <1>1, MissionsAssumption
<1>14. q.pc # "flushed" /\ q.call = c
  OBVIOUS
<1>15. cache' \in Counts \cup {Null} /\ doubt' \in BOOLEAN /\ reader' \in Reader
  BY <1>1 DEF RowInv, TypeOK
<1> HIDE DEF q
<1> QED  BY <1>1, <1>10, <1>11, <1>12, <1>13, <1>14, <1>15, RequestBegins

LEMMA FlushKeeps ==
    ASSUME RowInv, NEW r \in Requests, Flush(r), req[r] # Idle
    PROVE  RowInv'
<1> DEFINE m == MissionOf(r)
<1>1. /\ req[r] \in Busy /\ m \in MissionIds /\ r # Null /\ req[r].verdict = "write"
      /\ req' = [req EXCEPT ![r].pc = "flushed"]
      /\ req[r].written # {} => holder[m] \in {Null, r} /\ row[m] # Deleted
      /\ holder' = IF req[r].written # {} THEN [holder EXCEPT ![m] = r] ELSE holder
      /\ UNCHANGED <<row, raced, reader>> /\ InvalidateCache
  BY BusyRequest DEF Flush, LockFree, RowThere, RowInv, MissionOf
<1>2. /\ \A s \in Requests : s # r => req'[s] = req[s]
      /\ req'[r] = [req[r] EXCEPT !.pc = "flushed"]
  BY <1>1 DEF RowInv, TypeOK
<1>3. /\ req'[r] \in Busy /\ req'[r].pc = "flushed" /\ req'[r] # Idle
      /\ req'[r].mission = m /\ req'[r].seen = Old(r) /\ req'[r].new = New(r)
      /\ req'[r].written = req[r].written /\ req'[r].verdict = "write" /\ req'[r].call = req[r].call
  <2>1. /\ req'[r] \in Busy /\ req'[r].pc = "flushed"
        /\ req'[r].mission = m /\ req'[r].seen = Old(r) /\ req'[r].new = New(r)
        /\ req'[r].written = req[r].written /\ req'[r].verdict = "write" /\ req'[r].call = req[r].call
    BY <1>1, <1>2 DEF Busy, MissionOf, Old, New
  <2> QED  BY <2>1, BusyIsNotIdle
<1>4. \A k \in MissionIds : holder'[k] = holder[k] \/ (k = m /\ holder'[k] = r /\ holder[k] \in {Null, r})
  BY <1>1 DEF RowInv, TypeOK
<1>5. TypeOK'
  <2>1. /\ holder' \in [MissionIds -> Requests \cup {Null}] /\ req' \in [Requests -> Busy \cup {Idle}]
        /\ cache' \in Counts \cup {Null} /\ doubt' \in BOOLEAN
    BY <1>1, <1>2, <1>3, InvalidationType DEF RowInv, TypeOK
  <2>2. \A k \in MissionIds : holder'[k] # Null => req'[holder'[k]] # Idle /\ req'[holder'[k]].mission = k
    <3> SUFFICES ASSUME NEW k \in MissionIds, holder'[k] # Null
                 PROVE  req'[holder'[k]] # Idle /\ req'[holder'[k]].mission = k
      OBVIOUS
    <3>1. CASE holder'[k] = holder[k]
      <4>1. holder[k] \in Requests /\ req[holder[k]] # Idle /\ req[holder[k]].mission = k
        BY <3>1 DEF RowInv, TypeOK
      <4> QED  BY <1>2, <1>3, <3>1, <4>1 DEF MissionOf
    <3>2. CASE k = m /\ holder'[k] = r
      BY <1>3, <3>2
    <3> QED  BY <1>4, <3>1, <3>2
  <2> QED  BY <1>1, <2>1, <2>2 DEF RowInv, TypeOK
<1>6. CopiesSound'
  <2> SUFFICES ASSUME NEW s \in Requests, req'[s] # Idle PROVE CopySound(s)'
    BY DEF CopiesSound
  <2>1. CASE s = r
    <3>1. CopySound(r)
      BY <2>1 DEF RowInv, CopiesSound
    <3> QED  BY <1>1, <1>3, <2>1, <3>1 DEF CopySound, Old, New, Unwritten
  <2>2. CASE s # r
    BY <1>2, <2>2 DEF RowInv, CopiesSound, CopySound, Old, New, Unwritten
  <2> QED  BY <2>1, <2>2
<1>7. \A s \in Requests : req[s] # Idle /\ holder[MissionOf(s)] = s => holder'[MissionOf(s)] = s /\ MissionOf(s)' = MissionOf(s)
  <2> SUFFICES ASSUME NEW s \in Requests, req[s] # Idle, holder[MissionOf(s)] = s
               PROVE  holder'[MissionOf(s)] = s /\ MissionOf(s)' = MissionOf(s)
    OBVIOUS
  <2>1. MissionOf(s) \in MissionIds /\ s # Null
    BY BusyRequest DEF RowInv
  <2>2. MissionOf(s)' = MissionOf(s)
    BY <1>2, <1>3 DEF MissionOf
  <2> QED  BY <1>4, <2>1, <2>2
<1>8. WritersHold'
  <2> SUFFICES ASSUME NEW s \in Requests, (req[s] # Idle /\ req[s].pc = "flushed" /\ req[s].written # {})'
               PROVE  WriterHolds(s)'
    BY DEF WritersHold
  <2>1. CASE s = r
    <3>1. holder'[m] = r /\ row'[m] # Deleted /\ MissionOf(r)' = m
      BY <1>1, <1>3, <2>1 DEF MissionOf, RowInv, TypeOK
    <3> QED  BY <2>1, <3>1 DEF WriterHolds
  <2>2. CASE s # r
    <3>1. req[s] # Idle /\ WriterHolds(s)
      BY <1>2, <2>2 DEF RowInv, WritersHold
    <3> QED  BY <1>1, <1>7, <3>1 DEF WriterHolds
  <2> QED  BY <2>1, <2>2
<1>9. TogglesCurrent'
  <2> SUFFICES ASSUME NEW s \in Requests, (req[s] # Idle /\ req[s].call.op = "toggle")'
               PROVE  ToggleCurrent(s)'
    BY DEF TogglesCurrent
  <2>1. /\ req[s] # Idle /\ req'[s].call = req[s].call /\ req'[s].seen = Old(s)
        /\ req'[s].new = New(s) /\ req'[s].written = req[s].written
    BY <1>2, <1>3 DEF Old, New
  <2>2. ToggleCurrent(s)
    BY <2>1 DEF RowInv, TogglesCurrent
  <2>3. holder'[MissionOf(s)] = s /\ MissionOf(s)' = MissionOf(s)
    BY <1>7, <2>1, <2>2 DEF ToggleCurrent
  <2> QED  BY <1>1, <2>1, <2>2, <2>3 DEF ToggleCurrent, Old, New
<1>10. RowsInSync'
  BY <1>1 DEF RowInv, RowsInSync
<1> QED  BY <1>5, <1>6, <1>8, <1>9, <1>10 DEF RowInv

LEMMA CountType ==
    /\ CountAll \in Counts
    /\ \A s : CountByStatus(s) \in Nat
<1>1. \A S : IsFiniteSet(Rows(S)) /\ Cardinality(Rows(S)) \in Nat
  <2> SUFFICES ASSUME NEW S PROVE IsFiniteSet(Rows(S)) /\ Cardinality(Rows(S)) \in Nat
    OBVIOUS
  <2>1. Rows(S) \subseteq MissionIds
    BY DEF Rows
  <2> QED  BY <2>1, FS_Subset, FS_CardinalityType, MissionsAssumption
<1> QED  BY <1>1 DEF CountAll, CountByStatus, Counts

LEMMA StatsStepKeeps ==
    ASSUME RowInv, GetStats \/ StoreStats \/ Expire
    PROVE  RowInv'
<1>1. UNCHANGED <<row, holder, raced, req>>
  BY DEF GetStats, StoreStats, Expire, dbVars
<1>2. cache' \in Counts \cup {Null} /\ reader' \in Reader /\ doubt' \in BOOLEAN
  <2>1. cache \in Counts \cup {Null} /\ reader \in Reader /\ doubt \in BOOLEAN
    BY DEF RowInv, TypeOK
  <2>2. CASE GetStats
    <3>1. [CountAll EXCEPT !.completed = 0] \in Counts
      BY CountType DEF Counts
    <3> QED  BY <2>1, <2>2, <3>1 DEF GetStats, Reader
  <2>3. CASE StoreStats
    <3>1. [reader.got EXCEPT !.completed = CountByStatus("completed")] \in Counts
      BY <2>1, CountType DEF Counts, Reader
    <3>2. NoReader \in Reader
      BY DEF NoReader, Reader, Counts
    <3> QED  BY <2>1, <2>3, <3>1, <3>2 DEF StoreStats, Uncommitted, Reader
  <2>4. CASE Expire
    BY <2>1, <2>4 DEF Expire
  <2> QED  BY <2>2, <2>3, <2>4
<1>3. TypeOK'
  BY <1>1, <1>2 DEF RowInv, TypeOK
<1>4. CopiesSound' /\ WritersHold' /\ TogglesCurrent' /\ RowsInSync'
  BY <1>1 DEF RowInv, CopiesSound, CopySound, WritersHold, WriterHolds, TogglesCurrent, ToggleCurrent,
             RowsInSync, Old, New, Unwritten, MissionOf
<1> QED  BY <1>3, <1>4 DEF RowInv

LEMMA NextKeeps == RowInv /\ [Next]_vars => RowInv'
<1> SUFFICES ASSUME RowInv, [Next]_vars PROVE RowInv'
  OBVIOUS
<1>1. \A r \in Requests : req[r].pc \in {"loaded", "flushed"} => req[r] # Idle
  BY BusyIsNotIdle
<1>2. ASSUME NEW r \in Requests, NEW m \in MissionIds, CreateMission(r, m) PROVE RowInv'
  BY <1>2, CreateKeeps
<1>3. ASSUME NEW r \in Requests, NEW m \in MissionIds, NEW c \in Calls, Load(r, m, c) PROVE RowInv'
  BY <1>3, LoadKeeps
<1>4. ASSUME NEW r \in Requests, Flush(r) PROVE RowInv'
  BY <1>1, <1>4, FlushKeeps DEF Flush
<1>5. ASSUME NEW r \in Requests, FlushFails(r) \/ Fail(r) PROVE RowInv'
  BY <1>1, <1>5, RollsBack DEF FlushFails, Fail
<1>6. ASSUME NEW r \in Requests, Commit(r) PROVE RowInv'
  <2>1. Commits(r) /\ doubt' \in BOOLEAN
    BY <1>1, <1>6 DEF Commit, Commits, RowInv, TypeOK
  <2> QED  BY <2>1, CommitKeeps
<1>7. ASSUME NEW r \in Requests, Leave(r) PROVE RowInv'
  <2>1. req[r] # Idle /\ req[r].verdict = "error"
    BY <1>1, <1>7 DEF Leave
  <2>2. CASE Ended(r) /\ UNCHANGED <<row, raced, cache, reader, doubt>>
    BY <2>1, <2>2, RollsBack
  <2>3. CASE RowThere(r) /\ LockFree(r, req[r].mission) /\ CommitRow(r) /\ doubt' = (cache # Null)
    <3>1. Commits(r) /\ doubt' \in BOOLEAN
      BY <2>1, <2>3 DEF Commits, MissionOf
    <3> QED  BY <3>1, CommitKeeps
  <2> QED  BY <1>7, <2>2, <2>3 DEF Leave
<1>8. CASE GetStats \/ StoreStats \/ Expire
  BY <1>8, StatsStepKeeps
<1>9. CASE UNCHANGED vars
  <2>1. UNCHANGED <<row, holder, req, cache, reader, doubt, raced>>
    BY <1>9 DEF vars
  <2> QED  BY <2>1 DEF RowInv, TypeOK, CopiesSound, CopySound, WritersHold, WriterHolds, TogglesCurrent,
                       ToggleCurrent, RowsInSync, Old, New, Unwritten, MissionOf
<1> QED  BY <1>2, <1>3, <1>4, <1>5, <1>6, <1>7, <1>8, <1>9 DEF Next, RequestStep

LEMMA InitKeeps == Init => RowInv
<1> SUFFICES ASSUME Init PROVE RowInv
  OBVIOUS
<1>1. TypeOK
  <2>1. NoReader \in Reader
    BY DEF NoReader, Reader, Counts
  <2> QED  BY <2>1 DEF Init, TypeOK
<1>2. CopiesSound /\ WritersHold /\ TogglesCurrent
  BY DEF Init, CopiesSound, WritersHold, TogglesCurrent
<1>3. RowsInSync
  BY MissionsAssumption DEF Init, RowsInSync
<1> QED  BY <1>1, <1>2, <1>3 DEF RowInv

-----------------------------------------------------------------------------
(* The statistics *)

LEMMA StatsSteps ==
    ASSUME RowInv, StatsSound, Next
    PROVE  StatsSound'
<1> USE DEF StatsSound
<1>1. UNCHANGED row => CountAll' = CountAll
  BY DEF CountAll, CountByStatus, Rows
<1>2. \A r \in Requests : req[r].pc \in {"loaded", "flushed"} => req[r] # Idle
  BY BusyIsNotIdle
\* A request that takes or frees its slot without a flush adds nothing to commit.
<1>3. ASSUME NEW r \in Requests, NEW q, q = Idle \/ q.pc # "flushed", req' = [req EXCEPT ![r] = q],
             UNCHANGED <<row, cache, reader, doubt>>
      PROVE  StatsSound'
  <2>1. \A s \in Requests : req'[s] # Idle /\ req'[s].pc = "flushed" => req[s] # Idle /\ req[s].pc = "flushed"
    BY <1>3 DEF RowInv, TypeOK
  <2>2. Uncommitted' => Uncommitted
    BY <2>1 DEF Uncommitted
  <2> QED  BY <1>1, <1>3, <2>2
<1>4. ASSUME InvalidateCache, UNCHANGED <<row, reader>>
      PROVE  StatsSound'
  BY <1>1, <1>4 DEF InvalidateCache
<1>5. ASSUME NEW r \in Requests, CommitRow(r), cache = Null \/ doubt'
      PROVE  StatsSound'
  <2>1. reader' = [reader EXCEPT !.doubt = reader.pc # "idle"] /\ cache' = cache
    BY <1>5 DEF CommitRow
  <2>2. reader'.pc = reader.pc /\ reader'.doubt = (reader.pc # "idle")
    BY <2>1 DEF RowInv, TypeOK, Reader
  <2> QED  BY <1>5, <2>1, <2>2
<1>6. CASE \E r \in Requests, m \in MissionIds : CreateMission(r, m)
  BY <1>4, <1>6 DEF CreateMission
<1>7. ASSUME NEW r \in Requests, NEW m \in MissionIds, NEW c \in Calls, Load(r, m, c)
      PROVE  StatsSound'
  <2> DEFINE q == [pc |-> "loaded", call |-> c, mission |-> m, seen |-> row[m],
                   new |-> Outcome(c, row[m]).new, written |-> Changed(row[m], Outcome(c, row[m])),
                   verdict |-> Outcome(c, row[m]).verdict]
  <2>1. req' = [req EXCEPT ![r] = q] /\ UNCHANGED <<row, cache, reader, doubt>> /\ q.pc # "flushed"
    BY <1>7 DEF Load
  <2> HIDE DEF q
  <2> QED  BY <1>3, <2>1
<1>8. ASSUME NEW r \in Requests, Flush(r) PROVE StatsSound'
  BY <1>4, <1>8 DEF Flush
<1>9. ASSUME NEW r \in Requests, Ended(r), UNCHANGED <<row, cache, reader, doubt>> PROVE StatsSound'
  BY <1>3, <1>9 DEF Ended
<1>10. ASSUME NEW r \in Requests, Commit(r) PROVE StatsSound'
  <2>1. Uncommitted /\ CommitRow(r) /\ UNCHANGED doubt
    BY <1>2, <1>10 DEF Commit, Uncommitted
  <2> QED  BY <1>5, <2>1
<1>11. ASSUME NEW r \in Requests, FlushFails(r) \/ Fail(r) PROVE StatsSound'
  BY <1>9, <1>11 DEF FlushFails, Fail
<1>12. ASSUME NEW r \in Requests, Leave(r) PROVE StatsSound'
  BY <1>5, <1>9, <1>12 DEF Leave
<1>13. CASE GetStats
  <2>1. reader'.got.total = CountAll.total /\ reader'.got.active = CountAll.active
    BY <1>13 DEF GetStats, CountAll
  <2> QED  BY <1>1, <1>13, <2>1 DEF GetStats, dbVars
<1>14. CASE StoreStats
  <2>1. cache' = [reader.got EXCEPT !.completed = CountByStatus("completed")] /\ reader.pc = "counting"
        /\ doubt' = (reader.doubt \/ Uncommitted) /\ reader'.pc = "idle" /\ UNCHANGED <<row, req>>
    BY <1>14 DEF StoreStats, NoReader, dbVars
  <2>2. Uncommitted' = Uncommitted
    BY <2>1 DEF Uncommitted
  <2>3. ~reader.doubt => cache' = CountAll
    <3>1. reader.got \in Counts
      BY DEF RowInv, TypeOK, Reader
    <3> QED  BY <2>1, <3>1 DEF CountAll, Counts
  <2> QED  BY <1>1, <2>1, <2>2, <2>3
<1>15. CASE Expire
  BY <1>1, <1>15 DEF Expire, dbVars
<1> QED
  BY <1>6, <1>7, <1>8, <1>10, <1>11, <1>12, <1>13, <1>14, <1>15 DEF Next, RequestStep

LEMMA StatsKeep == RowInv /\ StatsSound /\ [Next]_vars => StatsSound'
<1> SUFFICES ASSUME RowInv, StatsSound, UNCHANGED vars PROVE StatsSound'
  BY StatsSteps
<1>1. UNCHANGED <<row, holder, req, cache, reader, doubt, raced>>
  BY DEF vars
<1> QED  BY <1>1 DEF StatsSound, Uncommitted, CountAll, CountByStatus, Rows

LEMMA InitStats == Init => StatsSound
BY DEF Init, StatsSound, NoReader

-----------------------------------------------------------------------------
(* The theorems *)

LEMMA Inductive == Spec => [](RowInv /\ StatsSound)
BY InitKeeps, NextKeeps, InitStats, StatsKeep, PTL DEF Spec

\* The statistics of get_stats that are cached, and not in doubt, are those of
\* the committed rows: a request that has flushed dropped the entry first, and
\* no reader that a commit disturbed stores its counts undoubted.
THEOREM StatsAreHonest == Spec => []StatsHonest
<1>1. StatsSound => StatsHonest
  BY DEF StatsSound, StatsHonest
<1> QED  BY <1>1, Inductive, PTL

\* progress is the rounded share of the steps, or 100 for a mission completed
\* without steps, in every row whose last writer had a fresh copy: each rule of
\* MissionService leaves it so, and a refused tool call changes the status only.
THEOREM ProgressIsComputed == Spec => []ProgressFollowsSteps
<1>1. RowInv => ProgressFollowsSteps
  BY DEF RowInv, RowsInSync, ProgressFollowsSteps
<1> QED  BY <1>1, Inductive, PTL

\* find_by_id_for_update serialises a toggle with every other writer of the
\* row: at its commit the row is still the one it loaded.
LEMMA ToggleCommits ==
    ASSUME RowInv, NEW r \in Requests, Commit(r), req[r].call.op = "toggle"
    PROVE  row'[MissionOf(r)].steps = Flip(row[MissionOf(r)].steps, req[r].call.index)
<1> DEFINE m == MissionOf(r)
<1>1. req[r].pc = "flushed" /\ req[r] # Idle /\ CommitRow(r)
  BY BusyIsNotIdle DEF Commit
<1>2. ToggleCurrent(r) /\ m \in MissionIds
  BY <1>1, BusyRequest DEF RowInv, TogglesCurrent
<1>3. row'[m] = Stored(r)
  BY <1>1, <1>2 DEF CommitRow, MissionOf, RowInv, TypeOK
<1>4. /\ row[m] \in Row /\ New(r) \in Row /\ "steps" \in req[r].written
      /\ row[m] # Absent /\ New(r) # Deleted
  BY <1>2, MissionsAssumption DEF ToggleCurrent
<1>5. Stored(r).steps = New(r).steps
  BY <1>4 DEF Stored, Row, MissionOf, New
<1> QED  BY <1>2, <1>3, <1>5 DEF ToggleCurrent

\* No toggle overwrites another writer's steps, whichever requests run at once.
THEOREM TogglesAreKept == Spec => TogglesKept
<1>1. Spec => [][Next]_vars
  BY PTL DEF Spec
<1>2. RowInv /\ [Next]_vars =>
         [\A r \in Requests : Commit(r) /\ req[r].call.op = "toggle" =>
             LET m == req[r].mission
             IN  row'[m].steps = Flip(row[m].steps, req[r].call.index)]_vars
  BY ToggleCommits DEF MissionOf
<1> QED  BY <1>1, <1>2, Inductive, PTL DEF TogglesKept
=============================================================================
