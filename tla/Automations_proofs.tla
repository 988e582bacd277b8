------------------------- MODULE Automations_proofs -------------------------
(***************************************************************************)
(* For every set of automations and callers and every bound: the types of  *)
(* Automations, that a run never undoes an edit of the user, and that      *)
(* run_count is exact and a due time is run once, unless runs of one       *)
(* automation overlapped.                                                  *)
(***************************************************************************)
EXTENDS Automations, TLAPS

\* What _execute has set on the object it works on.
Outcome(old, new) ==
    /\ new.cron = old.cron
    /\ new.max = old.max
    /\ new.count = old.count + 1
    /\ new.enabled # old.enabled =>
          ~new.enabled /\ old.max \in Nat /\ new.count >= old.max

Working(x) == run[x].pc \in {"flush", "commit"}

WorkFollowsCopy == \A x \in Runners : Working(x) => Outcome(run[x].copy, run[x].new)

\* The row lock keeps the row alive until the commit.
LockedRowExists == \A x \in Runners : run[x].pc = "commit" => row[run[x].auto] \in Automation

NoneBeforeCreation == \A a \in Autos : row[a] = Absent => committed[a] = 0

\* A pass works on automations that have been created.
TodoWasCreated == \A a \in Autos : todo[a] # Null => row[a] # Absent

IInv == /\ TypeOK /\ WorkFollowsCopy /\ LockedRowExists
        /\ NoneBeforeCreation /\ TodoWasCreated /\ RunCountExact
-----------------------------------------------------------------------------
LEMMA GetNextTyped ==
    ASSUME NEW c \in Crons, NEW now \in Nat
    PROVE  GetNext(c, now) \in Nat
<1>1. c \in Nat /\ c > 0
  BY AutomationsAssumption
<1>2. now \div c \in Nat
  BY <1>1
<1> QED  BY <1>1, <1>2 DEF GetNext

LEMMA FinishedTyped ==
    ASSUME NEW old \in Automation, NEW now \in Nat
    PROVE  /\ Finished(old, now) \in Automation
           /\ Outcome(old, Finished(old, now))
<1>1. GetNext(old.cron, now) \in Nat
  BY GetNextTyped DEF Automation
<1> DEFINE stops == old.max # Null /\ old.count + 1 >= old.max
           e == IF stops THEN FALSE ELSE old.enabled
<1>2. e \in BOOLEAN /\ (e # old.enabled => ~e /\ stops)
  <2>1. CASE stops
    BY <2>1
  <2>2. CASE ~stops
    BY <2>2 DEF Automation
  <2> QED  BY <2>1, <2>2
<1>3. stops => old.max \in Nat
  BY DEF Automation
<1>4. Finished(old, now) = [old EXCEPT !.next = GetNext(old.cron, now), !.count = @ + 1, !.enabled = e]
  BY DEF Finished
<1> HIDE DEF e
<1> DEFINE next == GetNext(old.cron, now)
           count == old.count + 1
<1>5. e \in BOOLEAN /\ next \in Nat /\ count \in Nat
  BY <1>1, <1>2 DEF Automation
<1>6. Finished(old, now) = [old EXCEPT !.next = next, !.count = count, !.enabled = e]
  BY <1>4
<1> HIDE DEF next, count
<1>7. Finished(old, now) \in Automation
  BY <1>5, <1>6 DEF Automation
<1> USE DEF next, count
<1>8. /\ Finished(old, now).cron = old.cron /\ Finished(old, now).max = old.max
      /\ Finished(old, now).count = old.count + 1 /\ Finished(old, now).enabled = e
  BY <1>4 DEF Automation
<1> QED  BY <1>2, <1>3, <1>7, <1>8 DEF Outcome

LEMMA MergedTyped ==
    ASSUME NEW now \in Automation, NEW copy \in Automation, NEW new \in Automation, Outcome(copy, new)
    PROVE  LET m == Merged(now, copy, new)
           IN  /\ m \in Automation
               /\ m.cron = now.cron /\ m.max = now.max
               /\ m.count = new.count
               /\ m.enabled # now.enabled => ~m.enabled /\ copy.max \in Nat /\ m.count >= copy.max
BY DEF Merged, Automation, Outcome

\* Who holds the lock of a row, seen from the row and from the run.
LEMMA LockFacts ==
    ASSUME TypeOK, NEW a \in Autos, NEW x \in Runners
    PROVE  /\ holder[a] = Null => ~(run[x].auto = a /\ run[x].pc = "commit")
           /\ holder[a] = x <=> run[x].auto = a /\ run[x].pc = "commit"
BY AutomationsAssumption DEF TypeOK

LEMMA RowsApart ==
    /\ Absent \notin Automation /\ Deleted \notin Automation /\ Null \notin Automation
    /\ Expired \notin Automation /\ Absent # Deleted /\ Null \notin Autos
    /\ Null \notin Runners /\ Null \notin Nat
BY AutomationsAssumption

LEMMA InitInv == Init => IInv
<1> SUFFICES ASSUME Init PROVE IInv
  OBVIOUS
<1>1. TypeOK
  <2>1. clock \in 0..MaxTime /\ calls \in 0..MaxManual /\ faults \in 0..MaxFaults
    BY AutomationsAssumption DEF Init
  <2>2. \A a \in Autos, x \in Runners : holder[a] = x <=> run[x].auto = a /\ run[x].pc = "commit"
    BY RowsApart DEF Init, NoRun
  <2>3. row \in [Autos -> Automation \cup {Absent, Deleted}]
    BY DEF Init
  <2>4. run \in [Runners -> Run \cup {NoRun}]
    BY DEF Init
  <2>5. /\ holder \in [Autos -> Runners \cup {Null}]
        /\ todo \in [Autos -> Automation \cup {Expired, Null}]
        /\ inPass \in BOOLEAN /\ committed \in [Autos -> Nat]
        /\ fired \in [Autos -> SUBSET Nat] /\ crossed \in [Autos -> BOOLEAN]
    BY DEF Init
  <2> QED  BY <2>1, <2>2, <2>3, <2>4, <2>5 DEF TypeOK
<1>2. WorkFollowsCopy /\ LockedRowExists
  BY DEF Init, NoRun, WorkFollowsCopy, Working, LockedRowExists
<1>3. NoneBeforeCreation /\ TodoWasCreated /\ RunCountExact
  BY RowsApart DEF Init, NoneBeforeCreation, TodoWasCreated, RunCountExact
<1> QED  BY <1>1, <1>2, <1>3 DEF IInv

-----------------------------------------------------------------------------
\* An edit of the user: one row that no run has locked changes, to a row with
\* the same count, to a new one, or to none.
EditOf(a, new) ==
    /\ row' = [row EXCEPT ![a] = new]
    /\ \/ row[a] = Absent /\ new \in Automation /\ new.count = 0
       \/ holder[a] = Null /\ row[a] \in Automation
          /\ \/ new \in Automation /\ new.count = row[a].count
             \/ new = Deleted
    /\ UNCHANGED <<holder, run, todo, inPass, bounds, history>>

LEMMA EditKeepsInv ==
    ASSUME IInv, NEW a \in Autos, NEW new, EditOf(a, new)
    PROVE  IInv'
<1> USE DEF IInv, bounds, history
<1>1. row' \in [Autos -> Automation \cup {Absent, Deleted}]
  BY DEF TypeOK, EditOf
<1>2. TypeOK'
  BY <1>1 DEF TypeOK, EditOf
<1>3. WorkFollowsCopy'
  BY DEF WorkFollowsCopy, Working, EditOf
<1>4. LockedRowExists'
  <2> SUFFICES ASSUME NEW x \in Runners, run[x].pc = "commit"
               PROVE  row'[run[x].auto] \in Automation
    BY DEF LockedRowExists, EditOf
  <2>1. run[x].auto \in Autos /\ row[run[x].auto] \in Automation
    BY DEF LockedRowExists, TypeOK, Run, NoRun
  <2>2. CASE run[x].auto # a
    BY <2>1, <2>2 DEF TypeOK, EditOf
  <2>3. CASE run[x].auto = a
    BY <2>1, <2>3, LockFacts, RowsApart DEF TypeOK, EditOf
  <2> QED  BY <2>2, <2>3
<1>5. NoneBeforeCreation' /\ TodoWasCreated' /\ RunCountExact'
  BY RowsApart DEF NoneBeforeCreation, TodoWasCreated, RunCountExact, TypeOK, EditOf
<1> QED  BY <1>2, <1>3, <1>4, <1>5

LEMMA CreateKeepsInv ==
    ASSUME IInv, NEW a \in Autos, CreateAutomation(a)
    PROVE  IInv'
<1>1. PICK b \in Bodies :
        /\ b.auto = a
        /\ row' = [row EXCEPT ![a] = [enabled |-> TRUE, cron |-> b.cron, max |-> b.max,
                                      next |-> GetNext(b.cron, clock), count |-> 0]]
  BY DEF CreateAutomation
<1> DEFINE next == GetNext(b.cron, clock)
           new == [enabled |-> TRUE, cron |-> b.cron, max |-> b.max, next |-> next, count |-> 0]
<1>2. b.cron \in Crons /\ b.max \in (Nat \ {0}) \cup {Null} /\ clock \in Nat
  BY AutomationsAssumption DEF IInv, TypeOK
<1>3. next \in Nat
  BY <1>2, GetNextTyped
<1>4. new \in Automation /\ new.count = 0
  <2> HIDE DEF next
  <2> QED  BY <1>2, <1>3 DEF Automation
<1>5. EditOf(a, new)
  BY <1>1, <1>4 DEF CreateAutomation, EditOf
<1> QED  BY <1>5, EditKeepsInv

LEMMA SetEnabledKeepsInv ==
    ASSUME IInv, NEW a \in Autos, SetEnabled(a)
    PROVE  IInv'
<1> DEFINE new == [row[a] EXCEPT !.enabled = ~@]
<1>1. new \in Automation /\ new.count = row[a].count
  BY DEF SetEnabled, Editable, Automation
<1>2. EditOf(a, new)
  BY <1>1 DEF SetEnabled, Editable, EditOf
<1> QED  BY <1>2, EditKeepsInv

LEMMA SetCronKeepsInv ==
    ASSUME IInv, NEW a \in Autos, NEW c \in Crons, SetCron(a, c)
    PROVE  IInv'
<1> DEFINE next == GetNext(c, clock)
           new == [row[a] EXCEPT !.cron = c, !.next = next]
<1>1. next \in Nat
  BY GetNextTyped, AutomationsAssumption DEF IInv, TypeOK
<1>2. new \in Automation /\ new.count = row[a].count
  <2> HIDE DEF next
  <2> QED  BY <1>1 DEF SetCron, Editable, Automation
<1>3. EditOf(a, new)
  BY <1>2 DEF SetCron, Editable, EditOf
<1> QED  BY <1>3, EditKeepsInv

LEMMA DeleteKeepsInv ==
    ASSUME IInv, NEW a \in Autos, DeleteAutomation(a)
    PROVE  IInv'
<1>1. EditOf(a, Deleted)
  BY DEF DeleteAutomation, Editable, EditOf
<1> QED  BY <1>1, EditKeepsInv

-----------------------------------------------------------------------------
\* A step of runs: the rows and the history stay, and the runs that are at
\* their commit, with their locks, are those of before, less some.
RunsMove ==
    /\ run' \in [Runners -> Run \cup {NoRun}]
    /\ holder' \in [Autos -> Runners \cup {Null}]
    /\ \A a \in Autos, x \in Runners :
          holder'[a] = x <=> run'[x].auto = a /\ run'[x].pc = "commit"
    /\ todo' \in [Autos -> Automation \cup {Expired, Null}]
    /\ \A a \in Autos : todo'[a] # Null => row[a] # Absent
    /\ inPass' \in BOOLEAN
    /\ clock' \in 0..MaxTime /\ calls' \in 0..MaxManual /\ faults' \in 0..MaxFaults
    /\ \A x \in Runners : run'[x].pc \in {"flush", "commit"} =>
          Outcome(run'[x].copy, run'[x].new)
    /\ \A x \in Runners : run'[x].pc = "commit" => row[run'[x].auto] \in Automation
    /\ UNCHANGED <<row, history>>

LEMMA RunsMoveKeepsInv == IInv /\ RunsMove => IInv'
<1> SUFFICES ASSUME IInv, RunsMove PROVE IInv'
  OBVIOUS
<1>1. TypeOK'
  BY DEF IInv, TypeOK, RunsMove, history
<1>2. WorkFollowsCopy' /\ LockedRowExists'
  BY DEF WorkFollowsCopy, Working, LockedRowExists, RunsMove
<1>3. NoneBeforeCreation' /\ TodoWasCreated' /\ RunCountExact'
  BY DEF IInv, NoneBeforeCreation, TodoWasCreated, RunCountExact, RunsMove, history
<1> QED  BY <1>1, <1>2, <1>3 DEF IInv

LEMMA BoundsTyped ==
    ASSUME TypeOK
    PROVE  /\ clock \in Nat
           /\ calls < MaxManual => calls + 1 \in 0..MaxManual
           /\ faults < MaxFaults => faults + 1 \in 0..MaxFaults
           /\ clock < MaxTime => clock + 1 \in 0..MaxTime
BY AutomationsAssumption DEF TypeOK

LEMMA StartedKeepsInv ==
    ASSUME IInv, NEW x \in Runners, NEW a \in Autos, NEW copy \in Automation,
           run[x] = NoRun, Started(x, a, copy),
           todo' \in [Autos -> Automation \cup {Expired, Null}], inPass' \in BOOLEAN,
           \A b \in Autos : todo'[b] # Null => row[b] # Absent,
           calls' \in 0..MaxManual, UNCHANGED <<row, holder, clock, faults, history>>
    PROVE  IInv'
<1> DEFINE due == (x = Scheduler /\ copy.next <= clock)
           new == [pc |-> "agent", auto |-> a, copy |-> copy, new |-> copy, due |-> due]
<1>1. due \in BOOLEAN
  OBVIOUS
<1>2. run' = [run EXCEPT ![x] = new]
  BY DEF Started
<1> HIDE DEF due
<1>3. new \in Run /\ new.pc = "agent"
  BY <1>1 DEF Run
<1> HIDE DEF new
<1>4. run' \in [Runners -> Run \cup {NoRun}]
  BY <1>2, <1>3 DEF IInv, TypeOK
<1>5. \A b \in Autos, y \in Runners : holder'[b] = y <=> run'[y].auto = b /\ run'[y].pc = "commit"
  BY <1>2, <1>3 DEF IInv, TypeOK, NoRun
<1>6. \A y \in Runners : /\ run'[y].pc \in {"flush", "commit"} => Outcome(run'[y].copy, run'[y].new)
                         /\ run'[y].pc = "commit" => row[run'[y].auto] \in Automation
  BY <1>2, <1>3 DEF IInv, TypeOK, WorkFollowsCopy, Working, LockedRowExists
<1>7. RunsMove
  BY <1>4, <1>5, <1>6 DEF IInv, TypeOK, RunsMove
<1> QED  BY <1>7, RunsMoveKeepsInv

LEMMA RunNowKeepsInv ==
    ASSUME IInv, NEW x \in Runners, NEW a \in Autos, RunNow(x, a)
    PROVE  IInv'
BY StartedKeepsInv, BoundsTyped DEF RunNow, IInv, TypeOK, TodoWasCreated

LEMMA GetDueKeepsInv ==
    ASSUME IInv, GetDueAutomations
    PROVE  IInv'
<1>1. /\ todo' \in [Autos -> Automation \cup {Expired, Null}]
      /\ \A b \in Autos : todo'[b] # Null => row[b] # Absent
  BY RowsApart DEF GetDueAutomations, Due
<1>2. RunsMove
  BY <1>1 DEF IInv, TypeOK, WorkFollowsCopy, Working, LockedRowExists, GetDueAutomations,
              RunsMove, bounds, history
<1> QED  BY <1>2, RunsMoveKeepsInv

LEMMA ExecuteDueKeepsInv ==
    ASSUME IInv, NEW a \in Autos, ExecuteDue(a)
    PROVE  IInv'
<1>1. CASE todo[a] = Expired /\ row[a] = Deleted
  <2>1. /\ todo' = [b \in Autos |-> Null] /\ inPass' = FALSE
        /\ UNCHANGED <<row, holder, run, bounds, history>>
    BY <1>1 DEF ExecuteDue
  <2>2. RunsMove
    BY <2>1 DEF IInv, TypeOK, WorkFollowsCopy, Working, LockedRowExists, RunsMove, bounds, history
  <2> QED  BY <2>2, RunsMoveKeepsInv
<1>2. CASE ~(todo[a] = Expired /\ row[a] = Deleted)
  <2> DEFINE copy == IF todo[a] = Expired THEN row[a] ELSE todo[a]
  <2>1. /\ Started(Scheduler, a, copy)
        /\ todo' = [todo EXCEPT ![a] = Null]
        /\ UNCHANGED <<inPass, row, holder, bounds, history>>
        /\ run[Scheduler] = NoRun
    BY <1>2 DEF ExecuteDue
  <2>2. copy \in Automation
    BY <1>2 DEF ExecuteDue, Waiting, IInv, TypeOK, TodoWasCreated
  <2>3. Scheduler \in Runners
    BY DEF Runners
  <2> HIDE DEF copy
  <2> QED  BY <2>1, <2>2, <2>3, StartedKeepsInv DEF IInv, TypeOK, TodoWasCreated, bounds
<1> QED  BY <1>1, <1>2

-----------------------------------------------------------------------------
LEMMA AgentReturnsKeepsInv ==
    ASSUME IInv, NEW x \in Runners, AgentReturns(x)
    PROVE  IInv'
<1> DEFINE done == Finished(run[x].copy, clock)
           new == [run[x] EXCEPT !.pc = "flush", !.new = done]
<1>1. run[x] \in Run /\ run[x].copy \in Automation /\ clock \in Nat
  BY BoundsTyped DEF IInv, TypeOK, AgentReturns, NoRun, Run
<1>2. done \in Automation /\ Outcome(run[x].copy, done)
  BY <1>1, FinishedTyped
<1>3. run' = [run EXCEPT ![x] = new]
  <2>1. run \in [Runners -> Run \cup {NoRun}]
    BY DEF IInv, TypeOK
  <2> QED  BY <2>1 DEF AgentReturns
<1> HIDE DEF done
<1>4. /\ new \in Run /\ new.pc = "flush" /\ new.copy = run[x].copy /\ new.new = done
  BY <1>1, <1>2 DEF Run
<1> HIDE DEF new
<1>5. run' \in [Runners -> Run \cup {NoRun}]
  BY <1>3, <1>4 DEF IInv, TypeOK
<1>6. \A b \in Autos, y \in Runners : holder'[b] = y <=> run'[y].auto = b /\ run'[y].pc = "commit"
  BY <1>3, <1>4 DEF IInv, TypeOK, AgentReturns
<1>7. \A y \in Runners : /\ run'[y].pc \in {"flush", "commit"} => Outcome(run'[y].copy, run'[y].new)
                         /\ run'[y].pc = "commit" => row[run'[y].auto] \in Automation
  BY <1>2, <1>3, <1>4 DEF IInv, TypeOK, WorkFollowsCopy, Working, LockedRowExists
<1>8. RunsMove
  BY <1>5, <1>6, <1>7 DEF IInv, TypeOK, TodoWasCreated, RunsMove, AgentReturns, bounds
<1> QED  BY <1>8, RunsMoveKeepsInv

LEMMA FlushKeepsInv ==
    ASSUME IInv, NEW x \in Runners, Flush(x)
    PROVE  IInv'
<1> DEFINE a == run[x].auto
           new == [run[x] EXCEPT !.pc = "commit"]
<1>1. run[x] \in Run /\ a \in Autos
  BY DEF IInv, TypeOK, Flush, NoRun, Run
<1>2. run' = [run EXCEPT ![x] = new] /\ holder' = [holder EXCEPT ![a] = x]
  BY DEF Flush, IInv, TypeOK
<1>3. /\ new \in Run /\ new.pc = "commit" /\ new.auto = a
      /\ new.copy = run[x].copy /\ new.new = run[x].new
  BY <1>1 DEF Run
<1>4. Outcome(new.copy, new.new) /\ row[a] \in Automation
  BY <1>3 DEF IInv, WorkFollowsCopy, Working, Flush
<1> HIDE DEF new
<1>5. run' \in [Runners -> Run \cup {NoRun}] /\ holder' \in [Autos -> Runners \cup {Null}]
  BY <1>1, <1>2, <1>3 DEF IInv, TypeOK
<1>6. ASSUME NEW b \in Autos, NEW y \in Runners
      PROVE  holder'[b] = y <=> run'[y].auto = b /\ run'[y].pc = "commit"
  <2>1. holder[b] = y <=> run[y].auto = b /\ run[y].pc = "commit"
    BY DEF IInv, TypeOK
  <2>2. holder[a] = Null /\ Null \notin Runners /\ run[x].pc = "flush"
    BY RowsApart DEF Flush
  <2>3. \A z \in Runners : ~(run[z].auto = a /\ run[z].pc = "commit")
    BY <1>1, <2>2, LockFacts DEF IInv
  <2>4. CASE y = x
    BY <1>1, <1>2, <1>3, <2>1, <2>2, <2>4 DEF IInv, TypeOK
  <2>5. CASE y # x
    BY <1>1, <1>2, <2>1, <2>2, <2>3, <2>5 DEF IInv, TypeOK
  <2> QED  BY <2>4, <2>5
<1>7. \A y \in Runners : /\ run'[y].pc \in {"flush", "commit"} => Outcome(run'[y].copy, run'[y].new)
                         /\ run'[y].pc = "commit" => row[run'[y].auto] \in Automation
  BY <1>2, <1>3, <1>4 DEF IInv, TypeOK, WorkFollowsCopy, Working, LockedRowExists
<1>8. RunsMove
  BY <1>5, <1>6, <1>7 DEF IInv, TypeOK, TodoWasCreated, RunsMove, Flush, bounds
<1> QED  BY <1>8, RunsMoveKeepsInv

\* A run that is over has released its lock.
LEMMA ReleasedFacts ==
    ASSUME TypeOK, NEW x \in Runners, holder' = Released(x), run' = [run EXCEPT ![x] = NoRun]
    PROVE  /\ holder' \in [Autos -> Runners \cup {Null}]
           /\ run' \in [Runners -> Run \cup {NoRun}]
           /\ \A b \in Autos, y \in Runners :
                 holder'[b] = y <=> run'[y].auto = b /\ run'[y].pc = "commit"
<1>1. holder' \in [Autos -> Runners \cup {Null}] /\ run' \in [Runners -> Run \cup {NoRun}]
  BY DEF TypeOK, Released
<1>2. ASSUME NEW b \in Autos, NEW y \in Runners
      PROVE  holder'[b] = y <=> run'[y].auto = b /\ run'[y].pc = "commit"
  <2>1. holder[b] = y <=> run[y].auto = b /\ run[y].pc = "commit"
    BY DEF TypeOK
  <2>2. holder'[b] = IF holder[b] = x THEN Null ELSE holder[b]
    BY DEF Released
  <2>3. CASE y = x
    BY <2>2, <2>3, RowsApart DEF TypeOK, NoRun
  <2>4. CASE y # x
    BY <2>1, <2>2, <2>4, RowsApart DEF TypeOK
  <2> QED  BY <2>3, <2>4
<1> QED  BY <1>1, <1>2

LEMMA RollBackKeepsInv ==
    ASSUME IInv, NEW x \in Runners, RollBack(x), faults' \in 0..MaxFaults
    PROVE  IInv'
<1>1. holder' = Released(x) /\ run' = [run EXCEPT ![x] = NoRun]
  BY DEF RollBack
<1>2. /\ todo' \in [Autos -> Automation \cup {Expired, Null}]
      /\ \A b \in Autos : todo'[b] # Null => row[b] # Absent
  BY DEF RollBack, IInv, TypeOK, TodoWasCreated
<1>3. inPass' \in BOOLEAN
  BY DEF RollBack, PassEnds, IInv, TypeOK
<1>4. \A y \in Runners : /\ run'[y].pc \in {"flush", "commit"} => Outcome(run'[y].copy, run'[y].new)
                         /\ run'[y].pc = "commit" => row[run'[y].auto] \in Automation
  BY <1>1 DEF IInv, TypeOK, NoRun, WorkFollowsCopy, Working, LockedRowExists
<1>5. RunsMove
  BY <1>1, <1>2, <1>3, <1>4, ReleasedFacts DEF IInv, TypeOK, RunsMove, RollBack
<1> QED  BY <1>5, RunsMoveKeepsInv

LEMMA FailuresKeepInv ==
    ASSUME IInv, NEW x \in Runners, FlushFails(x) \/ RunFails(x)
    PROVE  IInv'
BY RollBackKeepsInv, BoundsTyped DEF FlushFails, RunFails, IInv, TypeOK

LEMMA RestartKeepsInv ==
    ASSUME IInv, Restart
    PROVE  IInv'
<1>1. \A b \in Autos, y \in Runners : holder'[b] = y <=> run'[y].auto = b /\ run'[y].pc = "commit"
  BY RowsApart DEF Restart, NoRun
<1>2. RunsMove
  BY <1>1, BoundsTyped DEF IInv, TypeOK, NoRun, RunsMove, Restart
<1> QED  BY <1>2, RunsMoveKeepsInv

LEMMA TickKeepsInv ==
    ASSUME IInv, Tick
    PROVE  IInv'
<1>1. RunsMove
  BY BoundsTyped DEF IInv, TypeOK, WorkFollowsCopy, Working, LockedRowExists, TodoWasCreated,
                     RunsMove, Tick
<1> QED  BY <1>1, RunsMoveKeepsInv

-----------------------------------------------------------------------------
\* The commit merges the columns that the run changed into the row.
LEMMA CommitMerges ==
    ASSUME IInv, NEW x \in Runners, Commit(x)
    PROVE  LET a == run[x].auto
               m == Merged(row[a], run[x].copy, run[x].new)
           IN  /\ a \in Autos /\ row' = [row EXCEPT ![a] = m]
               /\ row[a] \in Automation /\ m \in Automation
               /\ m.cron = row[a].cron /\ m.max = row[a].max
               /\ m.count = run[x].copy.count + 1
               /\ m.enabled # row[a].enabled =>
                     ~m.enabled /\ run[x].copy.max \in Nat /\ m.count >= run[x].copy.max
<1> DEFINE a == run[x].auto
<1>1. run[x].pc = "commit"
  BY DEF Commit
<1>2. /\ a \in Autos /\ run[x].copy \in Automation /\ run[x].new \in Automation
      /\ run[x].copy.count \in Nat
  BY <1>1 DEF IInv, TypeOK, NoRun, Run, Automation
<1>3. row[a] \in Automation /\ Outcome(run[x].copy, run[x].new)
  BY <1>1 DEF IInv, LockedRowExists, WorkFollowsCopy, Working
<1> QED  BY <1>2, <1>3, MergedTyped DEF Commit, Outcome

LEMMA CommitKeepsInv ==
    ASSUME IInv, NEW x \in Runners, Commit(x)
    PROVE  IInv'
<1> DEFINE a == run[x].auto
           m == Merged(row[a], run[x].copy, run[x].new)
<1>1. /\ a \in Autos /\ row' = [row EXCEPT ![a] = m]
      /\ row[a] \in Automation /\ m \in Automation /\ m.count = run[x].copy.count + 1
  BY CommitMerges
<1>2. run[x].pc = "commit" /\ run[x] \in Run
  BY DEF Commit, IInv, TypeOK, NoRun
<1>3. /\ run' = [run EXCEPT ![x] = NoRun] /\ holder' = Released(x)
      /\ committed' = [committed EXCEPT ![a] = @ + 1]
      /\ crossed' = [crossed EXCEPT ![a] = @ \/ row[a].count # run[x].copy.count]
      /\ UNCHANGED <<todo, bounds>>
  BY DEF Commit
<1> HIDE DEF m
<1>4. row' \in [Autos -> Automation \cup {Absent, Deleted}]
  BY <1>1 DEF IInv, TypeOK
<1>5. inPass' \in BOOLEAN
  BY DEF Commit, PassEnds, IInv, TypeOK
<1>6. fired' \in [Autos -> SUBSET Nat]
  BY <1>1, <1>2 DEF Commit, IInv, TypeOK, Run, Automation
<1>7. committed' \in [Autos -> Nat]
  BY <1>1, <1>3 DEF IInv, TypeOK
<1>8. crossed' \in [Autos -> BOOLEAN]
  <2> DEFINE c == crossed[a] \/ row[a].count # run[x].copy.count
  <2>1. c \in BOOLEAN
    OBVIOUS
  <2>2. crossed' = [crossed EXCEPT ![a] = c]
    BY <1>3
  <2> HIDE DEF c
  <2> QED  BY <2>1, <2>2 DEF IInv, TypeOK
<1>9. TypeOK'
  BY <1>3, <1>4, <1>5, <1>6, <1>7, <1>8, ReleasedFacts DEF IInv, TypeOK, bounds
<1>10. WorkFollowsCopy'
  BY <1>3 DEF IInv, TypeOK, WorkFollowsCopy, Working, NoRun
<1>11. LockedRowExists'
  <2> SUFFICES ASSUME NEW y \in Runners, run'[y].pc = "commit"
               PROVE  row'[run'[y].auto] \in Automation
    BY DEF LockedRowExists
  <2>1. y # x /\ run'[y] = run[y] /\ row[run[y].auto] \in Automation /\ run[y].auto \in Autos
    BY <1>3 DEF IInv, TypeOK, NoRun, Run, LockedRowExists
  <2> QED  BY <1>1, <2>1 DEF IInv, TypeOK
<1>12. NoneBeforeCreation' /\ TodoWasCreated'
  BY <1>1, <1>3, RowsApart DEF IInv, TypeOK, NoneBeforeCreation, TodoWasCreated, bounds
<1>13. RunCountExact'
  <2> SUFFICES ASSUME NEW b \in Autos, row'[b] \in Automation, ~crossed'[b]
               PROVE  row'[b].count = committed'[b]
    BY DEF RunCountExact
  <2>1. CASE b # a
    BY <1>1, <1>3, <2>1 DEF IInv, TypeOK, RunCountExact
  <2>2. CASE b = a
    <3>1. ~crossed[a] /\ row[a].count = run[x].copy.count
      <4> DEFINE c == crossed[a] \/ row[a].count # run[x].copy.count
      <4>1. crossed' = [crossed EXCEPT ![a] = c]
        BY <1>3
      <4>2. ~c
        <5> HIDE DEF c
        <5> QED  BY <1>1, <2>2, <4>1 DEF IInv, TypeOK
      <4> QED  BY <4>2
    <3>2. row[a].count = committed[a]
      BY <1>1, <3>1 DEF IInv, RunCountExact
    <3> QED  BY <1>1, <1>3, <2>2, <3>1, <3>2 DEF IInv, TypeOK
  <2> QED  BY <2>1, <2>2
<1> QED  BY <1>9, <1>10, <1>11, <1>12, <1>13 DEF IInv

-----------------------------------------------------------------------------
LEMMA NextInv == IInv /\ [Next]_vars => IInv'
<1> SUFFICES ASSUME IInv, [Next]_vars PROVE IInv'
  OBVIOUS
<1>1. ASSUME NEW a \in Autos, UserStep(a) PROVE IInv'
  <2>1. ASSUME NEW x \in Manual, RunNow(x, a) PROVE IInv'
    BY <2>1, RunNowKeepsInv DEF Runners
  <2> QED  BY <1>1, <2>1, CreateKeepsInv, SetEnabledKeepsInv, DeleteKeepsInv, SetCronKeepsInv DEF UserStep
<1>2. ASSUME NEW x \in Runners, RunStep(x) PROVE IInv'
  BY <1>2, AgentReturnsKeepsInv, FlushKeepsInv, FailuresKeepInv, CommitKeepsInv DEF RunStep
<1>3. CASE SchedulerStep
  BY <1>2, <1>3, GetDueKeepsInv, ExecuteDueKeepsInv DEF SchedulerStep, Runners
<1>4. ASSUME NEW x \in Runners, RunFails(x) PROVE IInv'
  BY <1>4, FailuresKeepInv
<1>5. CASE UNCHANGED vars
  BY <1>5 DEF vars, IInv, TypeOK, WorkFollowsCopy, Working, LockedRowExists,
              NoneBeforeCreation, TodoWasCreated, RunCountExact
<1> QED  BY <1>1, <1>2, <1>3, <1>4, <1>5, RestartKeepsInv, TickKeepsInv DEF Next, Runners

LEMMA Inductive == Spec => []IInv
BY InitInv, NextInv, PTL DEF Spec

-----------------------------------------------------------------------------
(* Due times *)

\* Nothing the scheduler has run is due from next on, for whoever saw the
\* automation after count runs, as long as no two of its runs crossed.
Ahead(a, count, next) ==
    row[a] \in Automation /\ ~crossed[a] =>
        /\ count <= row[a].count
        /\ count = row[a].count => \A f \in fired[a] : f < next

FiredInPast == \A a \in Autos : \A f \in fired[a] : f <= clock /\ row[a] # Absent

RowsAhead == \A a \in Autos : row[a] \in Automation => Ahead(a, row[a].count, row[a].next)

TodoAhead == \A a \in Autos : todo[a] \in Automation => Ahead(a, todo[a].count, todo[a].next)

\* A run knows the due time it serves, and sets one that is later.
RunAhead(r) ==
    /\ row[r.auto] # Absent
    /\ Ahead(r.auto, r.copy.count, r.copy.next)
    /\ r.due => r.copy.next <= clock
    /\ r.pc \in {"flush", "commit"} =>
          /\ Ahead(r.auto, r.copy.count, r.new.next)
          /\ r.due => r.copy.next < r.new.next

RunsAhead == \A x \in Runners : run[x] # NoRun => RunAhead(run[x])

DueInv == FiredInPast /\ RowsAhead /\ TodoAhead /\ RunsAhead

LEMMA GetNextIsLater ==
    ASSUME NEW c \in Crons, NEW now \in Nat
    PROVE  GetNext(c, now) \in Nat /\ now < GetNext(c, now)
<1>1. c \in Nat /\ c > 0
  BY AutomationsAssumption
<1> DEFINE q == now \div c
<1>2. q \in Nat /\ now = c * q + (now % c) /\ now % c < c /\ now % c \in Nat
  BY <1>1
<1> HIDE DEF q
<1>3. now < (q + 1) * c
  BY <1>1, <1>2
<1> QED  BY <1>3, GetNextTyped DEF GetNext, q

LEMMA InitDue == Init => DueInv
BY RowsApart DEF Init, DueInv, FiredInPast, RowsAhead, TodoAhead, RunsAhead, NoRun

\* An edit leaves the due time, or moves it into the future.
LEMMA EditKeepsDue ==
    ASSUME IInv, DueInv, NEW a \in Autos, NEW new, EditOf(a, new),
           new \in Automation => clock < new.next \/ (row[a] \in Automation /\ new.next = row[a].next)
    PROVE  DueInv'
<1> USE DEF EditOf, bounds, history
<1>1. /\ row \in [Autos -> Automation \cup {Absent, Deleted}] /\ row' = [row EXCEPT ![a] = new]
      /\ UNCHANGED <<run, todo, clock, fired, crossed>>
      /\ new \in Automation \cup {Deleted}
      /\ clock \in Nat /\ fired \in [Autos -> SUBSET Nat]
  BY BoundsTyped DEF IInv, TypeOK
<1>2. FiredInPast'
  BY <1>1, RowsApart DEF DueInv, FiredInPast
<1>3. ASSUME NEW b \in Autos, NEW count \in Nat, NEW next \in Nat, row[b] # Absent, Ahead(b, count, next)
      PROVE  Ahead(b, count, next)'
  BY <1>1, <1>3, RowsApart DEF Ahead
<1>4. RowsAhead'
  <2> SUFFICES ASSUME NEW b \in Autos, row'[b] \in Automation
               PROVE  Ahead(b, row[b].count, row[b].next)'
    BY DEF RowsAhead
  <2>1. CASE b # a
    BY <1>1, <1>3, <2>1, RowsApart DEF DueInv, RowsAhead, Automation
  <2>2. CASE b = a
    <3>1. row'[a] = new /\ new \in Automation /\ new.count \in Nat /\ new.next \in Nat
      BY <1>1, <2>2 DEF Automation
    <3>2. CASE clock < new.next
      <4>1. \A f \in fired[a] : f < new.next
        BY <1>1, <3>1, <3>2 DEF DueInv, FiredInPast
      <4> QED  BY <1>1, <2>2, <3>1, <4>1 DEF Ahead
    <3>3. CASE row[a] \in Automation /\ new.next = row[a].next
      <4>1. ~crossed[a] => \A f \in fired[a] : f < new.next
        BY <3>3 DEF DueInv, RowsAhead, Ahead, Automation
      <4> QED  BY <1>1, <2>2, <3>1, <4>1 DEF Ahead
    <3> QED  BY <3>1, <3>2, <3>3
  <2> QED  BY <2>1, <2>2
<1>5. TodoAhead'
  BY <1>1, <1>3, RowsApart DEF DueInv, TodoAhead, IInv, TodoWasCreated, Automation
<1>6. RunsAhead'
  <2> SUFFICES ASSUME NEW x \in Runners, run[x] # NoRun PROVE RunAhead(run[x])'
    BY <1>1 DEF RunsAhead
  <2>1. /\ run[x] \in Run /\ RunAhead(run[x])
        /\ run[x].auto \in Autos /\ run[x].copy.count \in Nat
        /\ run[x].copy.next \in Nat /\ run[x].new.next \in Nat
    BY DEF IInv, TypeOK, Run, Automation, DueInv, RunsAhead
  <2> QED  BY <1>1, <1>3, <2>1, RowsApart DEF RunAhead
<1> QED  BY <1>2, <1>4, <1>5, <1>6 DEF DueInv

LEMMA UserKeepsDue ==
    ASSUME IInv, DueInv, NEW a \in Autos,
           CreateAutomation(a) \/ SetEnabled(a) \/ DeleteAutomation(a) \/ \E c \in Crons : SetCron(a, c)
    PROVE  DueInv'
<1>1. CASE CreateAutomation(a)
  <2>1. PICK b \in Bodies :
          /\ b.auto = a
          /\ row' = [row EXCEPT ![a] = [enabled |-> TRUE, cron |-> b.cron, max |-> b.max,
                                        next |-> GetNext(b.cron, clock), count |-> 0]]
    BY <1>1 DEF CreateAutomation
  <2> DEFINE next == GetNext(b.cron, clock)
             new == [enabled |-> TRUE, cron |-> b.cron, max |-> b.max, next |-> next, count |-> 0]
  <2>2. b.cron \in Crons /\ b.max \in (Nat \ {0}) \cup {Null} /\ clock \in Nat
    BY AutomationsAssumption DEF IInv, TypeOK
  <2>3. next \in Nat /\ clock < next
    BY <2>2, GetNextIsLater
  <2>4. new \in Automation /\ new.count = 0 /\ clock < new.next
    <3> HIDE DEF next
    <3> QED  BY <2>2, <2>3 DEF Automation
  <2>5. EditOf(a, new)
    BY <1>1, <2>1, <2>4 DEF CreateAutomation, EditOf
  <2> QED  BY <2>4, <2>5, EditKeepsDue
<1>2. CASE SetEnabled(a)
  <2> DEFINE new == [row[a] EXCEPT !.enabled = ~@]
  <2>1. new \in Automation /\ new.count = row[a].count /\ new.next = row[a].next
    BY <1>2 DEF SetEnabled, Editable, Automation
  <2>2. EditOf(a, new) /\ row[a] \in Automation
    BY <1>2, <2>1 DEF SetEnabled, Editable, EditOf
  <2> QED  BY <2>1, <2>2, EditKeepsDue
<1>3. CASE DeleteAutomation(a)
  <2>1. EditOf(a, Deleted)
    BY <1>3 DEF DeleteAutomation, Editable, EditOf
  <2> QED  BY <2>1, EditKeepsDue, RowsApart
<1>4. ASSUME NEW c \in Crons, SetCron(a, c)
      PROVE  DueInv'
  <2> DEFINE next == GetNext(c, clock)
             new == [row[a] EXCEPT !.cron = c, !.next = next]
  <2>1. next \in Nat /\ clock < next
    BY GetNextIsLater, AutomationsAssumption DEF IInv, TypeOK
  <2>2. new \in Automation /\ new.count = row[a].count /\ clock < new.next
    <3> HIDE DEF next
    <3> QED  BY <1>4, <2>1 DEF SetCron, Editable, Automation
  <2>3. EditOf(a, new)
    BY <1>4, <2>2 DEF SetCron, Editable, EditOf
  <2> QED  BY <2>2, <2>3, EditKeepsDue
<1> QED  BY <1>1, <1>2, <1>3, <1>4

\* A step that leaves rows and history: the runs go on, start from a row or from
\* a copy of the pass, or end, and the pass takes copies of rows.
LEMMA MovesKeepDue ==
    ASSUME IInv, DueInv, IInv', UNCHANGED <<row, history>>, clock <= clock',
           \A x \in Runners : run'[x] # NoRun => run'[x] = run[x] \/ RunAhead(run'[x]),
           \A a \in Autos : todo'[a] \in Automation => todo'[a] = todo[a] \/ todo'[a] = row[a]
    PROVE  DueInv'
<1>1. /\ row' = row /\ crossed' = crossed /\ fired' = fired
      /\ clock \in Nat /\ clock' \in Nat /\ fired \in [Autos -> SUBSET Nat]
  BY AutomationsAssumption DEF history, IInv, TypeOK
<1>2. FiredInPast'
  BY <1>1 DEF DueInv, FiredInPast
<1>3. \A a, c, n : Ahead(a, c, n)' = Ahead(a, c, n)
  BY <1>1 DEF Ahead
<1>4. RowsAhead' /\ TodoAhead'
  BY <1>1 DEF DueInv, RowsAhead, TodoAhead, Ahead
<1>5. RunsAhead'
  <2> SUFFICES ASSUME NEW x \in Runners, run'[x] # NoRun PROVE RunAhead(run[x])'
    BY DEF RunsAhead
  <2>1. RunAhead(run'[x])
    BY DEF DueInv, RunsAhead
  <2>2. run'[x] \in Run /\ run'[x].copy.next \in Nat
    BY DEF IInv, TypeOK, Run, Automation
  <2> QED  BY <1>1, <2>1, <2>2 DEF RunAhead, Ahead
<1> QED  BY <1>2, <1>4, <1>5 DEF DueInv

LEMMA StartKeepsDue ==
    ASSUME IInv, DueInv, IInv', NEW x \in Runners, NEW a \in Autos, NEW copy \in Automation,
           Started(x, a, copy), row[a] # Absent, Ahead(a, copy.count, copy.next),
           UNCHANGED <<row, clock, history>>,
           \A b \in Autos : todo'[b] = Null \/ todo'[b] = todo[b]
    PROVE  DueInv'
<1> DEFINE due == (x = Scheduler /\ copy.next <= clock)
           new == [pc |-> "agent", auto |-> a, copy |-> copy, new |-> copy, due |-> due]
<1>1. run' = [run EXCEPT ![x] = new]
  BY DEF Started
<1>2. due => copy.next <= clock
  OBVIOUS
<1> HIDE DEF due
<1>3. RunAhead(new)
  BY <1>2 DEF RunAhead
<1> HIDE DEF new
<1>4. \A y \in Runners : run'[y] # NoRun => run'[y] = run[y] \/ RunAhead(run'[y])
  BY <1>1, <1>3 DEF IInv, TypeOK
<1>5. clock <= clock'
  BY BoundsTyped DEF IInv
<1> QED  BY <1>4, <1>5, MovesKeepDue, RowsApart

LEMMA AgentReturnsKeepsDue ==
    ASSUME IInv, DueInv, IInv', NEW x \in Runners, AgentReturns(x)
    PROVE  DueInv'
<1> DEFINE done == Finished(run[x].copy, clock)
           next == GetNext(run[x].copy.cron, clock)
           new == [run[x] EXCEPT !.pc = "flush", !.new = done]
<1>1. /\ run[x] \in Run /\ run[x] # NoRun /\ run[x].copy \in Automation /\ clock \in Nat
      /\ run[x].auto \in Autos /\ run[x].copy.next \in Nat /\ run[x].copy.cron \in Crons
  BY BoundsTyped DEF IInv, TypeOK, AgentReturns, NoRun, Run, Automation
<1>2. next \in Nat /\ clock < next
  BY <1>1, GetNextIsLater
<1>3. done.next = next
  <2> DEFINE old == run[x].copy
             count == old.count + 1
             e == IF old.max # Null /\ old.count + 1 >= old.max THEN FALSE ELSE old.enabled
  <2>1. done = [old EXCEPT !.next = next, !.count = count, !.enabled = e]
    BY <1>1 DEF Finished, Automation
  <2> HIDE DEF next, count, e
  <2> QED  BY <1>1, <2>1 DEF Automation
<1>4. run' = [run EXCEPT ![x] = new] /\ UNCHANGED <<row, todo, bounds, history>>
  <2>1. run \in [Runners -> Run \cup {NoRun}]
    BY DEF IInv, TypeOK
  <2>2. run' = [run EXCEPT ![x] = new]
    BY <2>1 DEF AgentReturns
  <2> QED  BY <2>2 DEF AgentReturns
<1> HIDE DEF done, next
<1>5. /\ new.pc = "flush" /\ new.auto = run[x].auto /\ new.copy = run[x].copy
      /\ new.due = run[x].due /\ new.new = done
  BY <1>1 DEF Run
<1> HIDE DEF new
<1>6. RunAhead(run[x])
  BY <1>1 DEF DueInv, RunsAhead
<1>7. \A f \in fired[run[x].auto] : f \in Nat /\ f <= clock
  BY <1>1 DEF DueInv, FiredInPast, IInv, TypeOK
<1>8. RunAhead(new)
  BY <1>1, <1>2, <1>3, <1>5, <1>6, <1>7 DEF RunAhead, Ahead
<1>9. \A y \in Runners : run'[y] # NoRun => run'[y] = run[y] \/ RunAhead(run'[y])
  BY <1>4, <1>8 DEF IInv, TypeOK
<1>10. clock <= clock' /\ todo' = todo
  BY <1>1, <1>4 DEF bounds
<1> QED  BY <1>4, <1>9, <1>10, MovesKeepDue

LEMMA FlushKeepsDue ==
    ASSUME IInv, DueInv, IInv', NEW x \in Runners, Flush(x)
    PROVE  DueInv'
<1> DEFINE new == [run[x] EXCEPT !.pc = "commit"]
<1>1. run[x] \in Run /\ run[x] # NoRun /\ run[x].pc = "flush" /\ clock \in Nat
  BY BoundsTyped DEF IInv, TypeOK, Flush, NoRun, Run
<1>2. run' = [run EXCEPT ![x] = new] /\ UNCHANGED <<row, todo, inPass, bounds, history>>
  BY DEF Flush, IInv, TypeOK
<1>3. /\ new.pc = "commit" /\ new.auto = run[x].auto /\ new.copy = run[x].copy
      /\ new.due = run[x].due /\ new.new = run[x].new
  BY <1>1 DEF Run
<1> HIDE DEF new
<1>4. RunAhead(new)
  BY <1>1, <1>3 DEF DueInv, RunsAhead, RunAhead
<1>5. \A y \in Runners : run'[y] # NoRun => run'[y] = run[y] \/ RunAhead(run'[y])
  BY <1>2, <1>4 DEF IInv, TypeOK
<1>6. clock <= clock' /\ todo' = todo
  BY <1>1, <1>2 DEF bounds
<1> QED  BY <1>2, <1>5, <1>6, MovesKeepDue

LEMMA RollBackKeepsDue ==
    ASSUME IInv, DueInv, IInv', NEW x \in Runners, RollBack(x)
    PROVE  DueInv'
<1>1. /\ \A y \in Runners : run'[y] = NoRun \/ run'[y] = run[y]
      /\ UNCHANGED <<row, clock, history>> /\ clock <= clock'
  BY BoundsTyped DEF RollBack, IInv, TypeOK
<1>2. \A a \in Autos : todo'[a] \in Automation => todo'[a] = todo[a]
  BY RowsApart DEF RollBack
<1> QED  BY <1>1, <1>2, MovesKeepDue

LEMMA SchedulerKeepsDue ==
    ASSUME IInv, DueInv, IInv', GetDueAutomations \/ \E a \in Autos : ExecuteDue(a)
    PROVE  DueInv'
<1> USE BoundsTyped
<1>1. CASE GetDueAutomations
  <2>1. /\ \A a \in Autos : todo'[a] \in Automation => todo'[a] = row[a]
        /\ UNCHANGED <<row, run, clock, history>> /\ clock <= clock'
    BY <1>1, RowsApart DEF GetDueAutomations, bounds, IInv
  <2> QED  BY <2>1, MovesKeepDue
<1>2. ASSUME NEW a \in Autos, ExecuteDue(a), todo[a] = Expired /\ row[a] = Deleted
      PROVE  DueInv'
  <2>1. /\ \A b \in Autos : todo'[b] \notin Automation
        /\ UNCHANGED <<row, run, clock, history>> /\ clock <= clock'
    BY <1>2, RowsApart DEF ExecuteDue, bounds, IInv
  <2> QED  BY <2>1, MovesKeepDue
<1>3. ASSUME NEW a \in Autos, ExecuteDue(a), ~(todo[a] = Expired /\ row[a] = Deleted)
      PROVE  DueInv'
  <2> DEFINE copy == IF todo[a] = Expired THEN row[a] ELSE todo[a]
  <2>1. /\ Started(Scheduler, a, copy) /\ row[a] # Absent /\ copy \in Automation
        /\ UNCHANGED <<row, clock, history>> /\ Scheduler \in Runners
        /\ \A b \in Autos : todo'[b] = Null \/ todo'[b] = todo[b]
    BY <1>3 DEF ExecuteDue, Waiting, IInv, TypeOK, TodoWasCreated, bounds, Runners
  <2>2. Ahead(a, copy.count, copy.next)
    BY <2>1 DEF DueInv, RowsAhead, TodoAhead
  <2> HIDE DEF copy
  <2> QED  BY <2>1, <2>2, StartKeepsDue
<1> QED  BY <1>1, <1>2, <1>3

\* The commit of a run that no other run crossed: what it saw is the row, its due
\* time has not been run before, and the row is due later than that.
LEMMA CommitAdvances ==
    ASSUME IInv, DueInv, NEW x \in Runners, Commit(x)
    PROVE  LET a == run[x].auto
               r == run[x]
           IN  /\ a \in Autos /\ r \in Run /\ row[a] \in Automation /\ row'[a] \in Automation
               /\ row'[a].count = r.copy.count + 1
               /\ row'[a].next \in {row[a].next, r.new.next}
               /\ r.new.next # r.copy.next => row'[a].next = r.new.next
               /\ crossed'[a] <=> crossed[a] \/ row[a].count # r.copy.count
               /\ fired'[a] = fired[a] \cup (IF r.due THEN {r.copy.next} ELSE {})
               /\ \A b \in Autos : b # a => /\ row'[b] = row[b] /\ crossed'[b] = crossed[b]
                                            /\ fired'[b] = fired[b]
<1> DEFINE a == run[x].auto
           r == run[x]
           m == Merged(row[a], r.copy, r.new)
           c == crossed[a] \/ row[a].count # r.copy.count
<1>1. /\ a \in Autos /\ row' = [row EXCEPT ![a] = m]
      /\ row[a] \in Automation /\ m \in Automation /\ m.count = r.copy.count + 1
  BY CommitMerges
<1>2. r \in Run
  BY DEF Commit, IInv, TypeOK, NoRun
<1>3. m.next = IF r.new.next # r.copy.next THEN r.new.next ELSE row[a].next
  BY <1>1 DEF Merged, Automation
<1> HIDE DEF m
<1>4. row'[a] = m /\ \A b \in Autos : b # a => row'[b] = row[b]
  BY <1>1 DEF IInv, TypeOK
<1>5. fired'[a] = fired[a] \cup (IF r.due THEN {r.copy.next} ELSE {})
      /\ \A b \in Autos : b # a => fired'[b] = fired[b]
  BY <1>1 DEF Commit, IInv, TypeOK
<1>6. crossed' = [crossed EXCEPT ![a] = c]
  BY DEF Commit
<1>7. /\ crossed'[a] = c
      /\ \A b \in Autos : b # a => crossed'[b] = crossed[b]
  <2> HIDE DEF c
  <2> QED  BY <1>1, <1>6 DEF IInv, TypeOK
<1> QED  BY <1>1, <1>2, <1>3, <1>4, <1>5, <1>7

LEMMA CommitKeepsDue ==
    ASSUME IInv, DueInv, IInv', NEW x \in Runners, Commit(x)
    PROVE  DueInv'
<1>0. PICK a \in Autos : a = run[x].auto
  BY CommitAdvances
<1> DEFINE r == run[x]
<1>1. /\ r \in Run /\ row[a] \in Automation /\ row'[a] \in Automation
      /\ row'[a].count = r.copy.count + 1
      /\ row'[a].next \in {row[a].next, r.new.next}
      /\ r.new.next # r.copy.next => row'[a].next = r.new.next
      /\ crossed'[a] <=> crossed[a] \/ row[a].count # r.copy.count
      /\ fired'[a] = fired[a] \cup (IF r.due THEN {r.copy.next} ELSE {})
      /\ \A b \in Autos : b # a => /\ row'[b] = row[b] /\ crossed'[b] = crossed[b]
                                   /\ fired'[b] = fired[b]
  BY <1>0, CommitAdvances
<1>2. /\ r.pc = "commit" /\ r # NoRun /\ r.auto = a /\ UNCHANGED <<todo, clock>>
      /\ run' = [run EXCEPT ![x] = NoRun]
      /\ clock \in Nat /\ r.copy.count \in Nat /\ r.copy.next \in Nat /\ r.new.next \in Nat
      /\ row[a].next \in Nat /\ row[a].count \in Nat
  BY <1>0, <1>1, BoundsTyped DEF Commit, NoRun, bounds, IInv, Run, Automation
<1>3. RunAhead(r)
  BY <1>2 DEF DueInv, RunsAhead
<1>4. \A b \in Autos : fired[b] \subseteq Nat
  BY DEF IInv, TypeOK
<1>5. FiredInPast'
  <2>1. \A f \in fired'[a] : f <= clock
    BY <1>1, <1>2, <1>3 DEF DueInv, FiredInPast, RunAhead
  <2> QED  BY <1>1, <1>2, <2>1, RowsApart DEF DueInv, FiredInPast
<1>6. Ahead(a, row[a].count, row[a].next)'
  <2> SUFFICES ASSUME ~crossed[a], row[a].count = r.copy.count, NEW f \in fired'[a]
               PROVE  f < row'[a].next
    BY <1>1, <1>2 DEF Ahead
  <2>1. \A g \in fired[a] : g < row[a].next /\ g < r.new.next
    BY <1>1, <1>2, <1>3 DEF DueInv, RowsAhead, Ahead, RunAhead
  <2>2. r.due => r.copy.next < r.new.next
    BY <1>2, <1>3 DEF RunAhead
  <2>3. CASE f \in fired[a]
    BY <1>1, <2>1, <2>3
  <2>4. CASE r.due /\ f = r.copy.next
    BY <1>1, <1>2, <2>2, <2>4
  <2> QED  BY <1>1, <2>3, <2>4
<1>7. RowsAhead'
  BY <1>1, <1>6 DEF DueInv, RowsAhead, Ahead
\* Whoever saw the row before this run is behind it now.
<1>8. ASSUME NEW b \in Autos, NEW count \in Nat, NEW next \in Nat, Ahead(b, count, next)
      PROVE  Ahead(b, count, next)'
  <2>1. CASE b # a
    BY <1>1, <1>8, <2>1 DEF Ahead
  <2>2. CASE b = a
    BY <1>1, <1>2, <1>8, <2>2 DEF Ahead
  <2> QED  BY <2>1, <2>2
<1>9. TodoAhead'
  BY <1>2, <1>8 DEF DueInv, TodoAhead, Automation
<1>10. RunsAhead'
  <2> SUFFICES ASSUME NEW y \in Runners, run'[y] # NoRun PROVE RunAhead(run[y])'
    BY DEF RunsAhead
  <2>1. run'[y] = run[y] /\ run[y] # NoRun
    BY <1>2 DEF IInv, TypeOK
  <2>2. /\ run[y] \in Run /\ RunAhead(run[y])
        /\ run[y].auto \in Autos /\ run[y].copy.count \in Nat
        /\ run[y].copy.next \in Nat /\ run[y].new.next \in Nat
    BY <2>1 DEF IInv, TypeOK, Run, Automation, DueInv, RunsAhead
  <2>3. row'[run[y].auto] # Absent
    BY <1>1, <2>2, RowsApart DEF RunAhead
  <2> QED  BY <1>2, <1>8, <2>1, <2>2, <2>3 DEF RunAhead
<1> QED  BY <1>5, <1>7, <1>9, <1>10 DEF DueInv

LEMMA NextDue == IInv /\ DueInv /\ IInv' /\ [Next]_vars => DueInv'
<1> SUFFICES ASSUME IInv, DueInv, IInv', [Next]_vars PROVE DueInv'
  OBVIOUS
<1>1. ASSUME NEW a \in Autos, UserStep(a) PROVE DueInv'
  <2>1. ASSUME NEW x \in Manual, RunNow(x, a) PROVE DueInv'
    <3>1. /\ Started(x, a, row[a]) /\ row[a] \in Automation /\ UNCHANGED <<row, clock, history, todo>>
          /\ x \in Runners
      BY <2>1 DEF RunNow, Runners
    <3>2. Ahead(a, row[a].count, row[a].next) /\ row[a] # Absent
      BY <3>1, RowsApart DEF DueInv, RowsAhead
    <3> QED  BY <3>1, <3>2, StartKeepsDue
  <2> QED  BY <1>1, <2>1, UserKeepsDue DEF UserStep
<1>2. ASSUME NEW x \in Runners, RunStep(x) PROVE DueInv'
  BY <1>2, AgentReturnsKeepsDue, FlushKeepsDue, RollBackKeepsDue, CommitKeepsDue DEF RunStep, FlushFails
<1>3. CASE SchedulerStep
  BY <1>2, <1>3, SchedulerKeepsDue DEF SchedulerStep, Runners
<1>4. ASSUME NEW x \in Runners, RunFails(x) PROVE DueInv'
  BY <1>4, RollBackKeepsDue DEF RunFails
<1>5. CASE Restart
  <2>1. /\ \A x \in Runners : run'[x] = NoRun
        /\ \A a \in Autos : todo'[a] \notin Automation
        /\ UNCHANGED <<row, clock, history>> /\ clock <= clock'
    BY <1>5, RowsApart, BoundsTyped DEF Restart, IInv
  <2> QED  BY <2>1, MovesKeepDue
<1>6. CASE Tick
  <2>1. UNCHANGED <<row, run, todo, history>> /\ clock <= clock'
    BY <1>6, BoundsTyped DEF Tick, IInv
  <2> QED  BY <2>1, MovesKeepDue
<1>7. CASE UNCHANGED vars
  <2>1. UNCHANGED <<row, run, todo, history>> /\ clock <= clock'
    BY <1>7, BoundsTyped DEF vars, history, IInv
  <2> QED  BY <2>1, MovesKeepDue
<1> QED  BY <1>1, <1>2, <1>3, <1>4, <1>5, <1>6, <1>7 DEF Next, Runners

LEMMA DueInductive == Spec => [](IInv /\ DueInv)
<1>1. Init => IInv /\ DueInv
  BY InitInv, InitDue
<1>2. IInv /\ DueInv /\ [Next]_vars => (IInv /\ DueInv)'
  BY NextInv, NextDue
<1> QED  BY <1>1, <1>2, PTL DEF Spec

-----------------------------------------------------------------------------
(* The theorems *)

\* Rows, copies, locks and counters have their types, and the lock of a row is
\* held by the one run that has flushed it.
THEOREM TypesCorrect == Spec => []TypeOK
BY Inductive, PTL DEF IInv

\* run_count is exact: it counts the runs that committed, however edits, calls
\* of run_now, rollbacks and restarts interleave, as long as no two runs of
\* the automation crossed.
THEOREM CountIsExact == Spec => []RunCountExact
BY Inductive, PTL DEF IInv

\* A run that commits never undoes what the user edited while the agent was
\* working on the copy it had loaded.
THEOREM RunsKeepEdits == Spec => EditsKept
<1> DEFINE Kept == \A x \in Runners : Commit(x) =>
                      LET a == run[x].auto
                      IN  /\ row'[a].cron = row[a].cron
                          /\ row'[a].max = row[a].max
                          /\ row'[a].enabled # row[a].enabled =>
                                /\ ~row'[a].enabled
                                /\ row'[a].count >= run[x].copy.max
<1>1. IInv /\ [Next]_vars => [Kept]_vars
  <2> SUFFICES ASSUME IInv, NEW x \in Runners, Commit(x)
               PROVE  LET a == run[x].auto
                      IN  /\ row'[a].cron = row[a].cron
                          /\ row'[a].max = row[a].max
                          /\ row'[a].enabled # row[a].enabled =>
                                /\ ~row'[a].enabled
                                /\ row'[a].count >= run[x].copy.max
    OBVIOUS
  <2> DEFINE m == Merged(row[run[x].auto], run[x].copy, run[x].new)
  <2>1. row'[run[x].auto] = m
    BY CommitMerges DEF IInv, TypeOK
  <2> QED  BY <2>1, CommitMerges
<1> QED  BY <1>1, Inductive, PTL DEF Spec, EditsKept

\* The scheduler commits a run for a due time once, whatever users edit and
\* whichever runs fail, unless two runs of the automation crossed.
THEOREM DueTimesRunOnce == Spec => DueTimeRunOnce
<1> DEFINE Once == \A x \in Runners : Commit(x) /\ run[x].due =>
                      run[x].copy.next \notin fired[run[x].auto] \/ crossed'[run[x].auto]
<1>1. IInv /\ DueInv /\ [Next]_vars => [Once]_vars
  <2> SUFFICES ASSUME IInv, DueInv, NEW x \in Runners, Commit(x), run[x].due, ~crossed'[run[x].auto]
               PROVE  run[x].copy.next \notin fired[run[x].auto]
    OBVIOUS
  <2> DEFINE a == run[x].auto
  <2>1. /\ a \in Autos /\ row[a] \in Automation /\ ~crossed[a] /\ row[a].count = run[x].copy.count
        /\ run[x] \in Run
    BY CommitAdvances
  <2>2. RunAhead(run[x])
    BY DEF Commit, NoRun, DueInv, RunsAhead
  <2>3. \A f \in fired[a] : f < run[x].copy.next
    BY <2>1, <2>2 DEF RunAhead, Ahead
  <2>4. run[x].copy.next \in Nat
    BY <2>1 DEF Run, Automation
  <2> QED  BY <2>3, <2>4
<1> QED  BY <1>1, DueInductive, PTL DEF Spec, DueTimeRunOnce
=============================================================================
