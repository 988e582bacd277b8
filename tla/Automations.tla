---------------------------- MODULE Automations ----------------------------
(***************************************************************************)
(* AutomationService: automations that a user edits, the scheduler thread  *)
(* that runs the due ones in one session per pass, and run_now of the API  *)
(* and of the agent's tool.  A run works on the copy of the row that its   *)
(* session loaded (expire_on_commit is off): the agent runs for minutes,   *)
(* then the changed columns are written (flush: the row lock), the result  *)
(* is delivered, and the transaction commits.  Nothing claims an           *)
(* automation, so runs of one automation may overlap.                      *)
(***************************************************************************)
EXTENDS Integers, FiniteSets

CONSTANTS Autos, Manual, Scheduler,
          Crons,      \* periods: cron c fires at the multiples of c
          MaxTime,    \* bound: the clock
          MaxManual,  \* bound: calls of run_now
          MaxFaults,  \* bound: restarts and failed transactions
          Bodies,     \* bound: the automations that are created
          Edited,     \* bound: the automations that are edited or run by hand
          Absent, Deleted, Expired, Null

VARIABLES row,       \* the committed automations
          holder,    \* the runner that holds the row lock
          run,       \* the run in progress of each runner
          todo,      \* the copies the scheduler's pass has still to run
          inPass, clock, calls, faults,
          committed, \* history: runs of each automation that committed
          fired,     \* history: the due times the scheduler has run and committed
          crossed    \* history: another run committed between load and commit of a run

vars == <<row, holder, run, todo, inPass, clock, calls, faults, committed, fired, crossed>>
history == <<committed, fired, crossed>>
bounds == <<clock, calls, faults>>

Runners == Manual \cup {Scheduler}

Automation == [enabled : BOOLEAN, cron : Crons, next : Nat, count : Nat,
               max : (Nat \ {0}) \cup {Null}]

ASSUME AutomationsAssumption ==
    /\ Crons \subseteq Nat \ {0}
    /\ {MaxTime, MaxManual, MaxFaults} \subseteq Nat
    /\ Bodies \subseteq [auto : Autos, cron : Crons, max : (Nat \ {0}) \cup {Null}]
    /\ Edited \subseteq Autos
    /\ Null \notin Autos \cup Nat \cup Runners
    /\ Scheduler \notin Manual
    /\ {Absent, Deleted, Expired, Null} \cap Automation = {}
    /\ Absent # Deleted

NoRun == [pc |-> "idle", auto |-> Null, copy |-> Null, new |-> Null, due |-> FALSE]
Run == [pc : {"agent", "flush", "commit"}, auto : Autos,
        copy : Automation, new : Automation, due : BOOLEAN]

TypeOK ==
    /\ row \in [Autos -> Automation \cup {Absent, Deleted}]
    /\ holder \in [Autos -> Runners \cup {Null}]
    /\ run \in [Runners -> Run \cup {NoRun}]
    /\ todo \in [Autos -> Automation \cup {Expired, Null}]
    /\ inPass \in BOOLEAN
    /\ clock \in 0..MaxTime /\ calls \in 0..MaxManual /\ faults \in 0..MaxFaults
    /\ committed \in [Autos -> Nat]
    /\ fired \in [Autos -> SUBSET Nat]
    /\ crossed \in [Autos -> BOOLEAN]
    \* A row lock belongs to the run that has flushed.
    /\ \A a \in Autos, x \in Runners :
          holder[a] = x <=> run[x].auto = a /\ run[x].pc = "commit"

Init ==
    /\ row = [a \in Autos |-> Absent]
    /\ holder = [a \in Autos |-> Null]
    /\ run = [x \in Runners |-> NoRun]
    /\ todo = [a \in Autos |-> Null]
    /\ inPass = FALSE
    /\ clock = 0 /\ calls = 0 /\ faults = 0
    /\ committed = [a \in Autos |-> 0]
    /\ fired = [a \in Autos |-> {}]
    /\ crossed = [a \in Autos |-> FALSE]

-----------------------------------------------------------------------------
(* The user's edits: short transactions that write only the columns sent,  *)
(* so each is one step.  They wait for a run that has flushed.             *)

\* As if a firing of this very moment were the next, for comparison.
GetNextOrNow(cron, now) == ((now + cron - 1) \div cron) * cron

\* croniter(...).get_next: the first firing after now.
GetNext(cron, now) == (now \div cron + 1) * cron

CreateAutomation(a) ==
    /\ row[a] = Absent
    /\ \E b \in Bodies :
          /\ b.auto = a
          /\ row' = [row EXCEPT ![a] = [enabled |-> TRUE, cron |-> b.cron, max |-> b.max,
                                        next |-> GetNext(b.cron, clock), count |-> 0]]
    /\ UNCHANGED <<holder, run, todo, inPass, bounds, history>>

Editable(a) == a \in Edited /\ row[a] \in Automation /\ holder[a] = Null

SetEnabled(a) ==
    /\ Editable(a)
    /\ row' = [row EXCEPT ![a].enabled = ~@]
    /\ UNCHANGED <<holder, run, todo, inPass, bounds, history>>

SetCron(a, c) ==
    /\ Editable(a)
    /\ row' = [row EXCEPT ![a].cron = c, ![a].next = GetNext(c, clock)]
    /\ UNCHANGED <<holder, run, todo, inPass, bounds, history>>

DeleteAutomation(a) ==
    /\ Editable(a)
    /\ row' = [row EXCEPT ![a] = Deleted]
    /\ UNCHANGED <<holder, run, todo, inPass, bounds, history>>

-----------------------------------------------------------------------------
(* A run: _execute and the commit that follows it. *)

Started(x, a, copy) ==
    run' = [run EXCEPT ![x] = [pc |-> "agent", auto |-> a, copy |-> copy, new |-> copy,
                               due |-> x = Scheduler /\ copy.next <= clock]]

\* run_now: neither enabled nor max_runs is looked at.
RunNow(x, a) ==
    /\ x \in Manual
    /\ a \in Edited
    /\ run[x] = NoRun
    /\ row[a] \in Automation
    /\ calls < MaxManual
    /\ calls' = calls + 1
    /\ Started(x, a, row[a])
    /\ UNCHANGED <<row, holder, todo, inPass, clock, faults, history>>

Due == {a \in Autos : row[a] \in Automation /\ row[a].enabled /\ row[a].next <= clock}

\* One query loads every due automation into the session of the pass.
GetDueAutomations ==
    /\ ~inPass
    /\ Due # {}
    /\ inPass' = TRUE
    /\ todo' = [a \in Autos |-> IF a \in Due THEN row[a] ELSE Null]
    /\ UNCHANGED <<row, holder, run, bounds, history>>

Waiting == {a \in Autos : todo[a] # Null}

\* As if a pass never came to its end, for comparison.
PassGoesOn(rest) == inPass' = TRUE

PassEnds(rest) == inPass' = (\E a \in Autos : rest[a] # Null)

\* The loop takes the next copy, whatever has happened to the row since.  An
\* object that a rollback expired is loaded again: it may have become disabled
\* or due later, and is run all the same; if its row was deleted the error
\* escapes the loop.
ExecuteDue(a) ==
    /\ run[Scheduler] = NoRun
    /\ a \in Waiting
    /\ IF todo[a] = Expired /\ row[a] = Deleted
       THEN /\ todo' = [b \in Autos |-> Null]
            /\ inPass' = FALSE
            /\ UNCHANGED run
       ELSE /\ Started(Scheduler, a, IF todo[a] = Expired THEN row[a] ELSE todo[a])
            /\ todo' = [todo EXCEPT ![a] = Null]
            /\ UNCHANGED inPass
    /\ UNCHANGED <<row, holder, bounds, history>>

\* As if only limited automations were counted, for comparison.
CountedIfLimited(old, now) ==
    [old EXCEPT !.next = GetNext(old.cron, now),
                !.count = IF old.max = Null THEN @ ELSE @ + 1,
                !.enabled = IF old.max # Null /\ old.count + 1 >= old.max THEN FALSE ELSE @]

\* run_workflow has returned, with an answer or with the text of its error.
Finished(old, now) ==
    [old EXCEPT !.next = GetNext(old.cron, now), !.count = @ + 1,
                !.enabled = IF old.max # Null /\ old.count + 1 >= old.max THEN FALSE ELSE @]

AgentReturns(x) ==
    /\ run[x].pc = "agent"
    /\ run' = [run EXCEPT ![x].pc = "flush", ![x].new = Finished(run[x].copy, clock)]
    /\ UNCHANGED <<row, holder, todo, inPass, bounds, history>>

\* The row lock, then the delivery: to a note in the same transaction, or to a
\* chat thread in another one; its errors are swallowed.
Flush(x) ==
    LET a == run[x].auto
    IN  /\ run[x].pc = "flush"
        /\ holder[a] = Null
        /\ row[a] \in Automation
        /\ holder' = [holder EXCEPT ![a] = x]
        /\ run' = [run EXCEPT ![x].pc = "commit"]
        /\ UNCHANGED <<row, todo, inPass, bounds, history>>

Released(x) == [a \in Autos |-> IF holder[a] = x THEN Null ELSE holder[a]]

\* As if the whole copy were written back, for comparison.
AllColumns(now, copy, new) == new

\* The columns that differ from the copy.
Merged(now, copy, new) == [c \in DOMAIN now |-> IF new[c] # copy[c] THEN new[c] ELSE now[c]]

Commit(x) ==
    LET a == run[x].auto
        r == run[x]
    IN  /\ r.pc = "commit"
        /\ row' = [row EXCEPT ![a] = Merged(row[a], r.copy, r.new)]
        /\ holder' = Released(x)
        /\ run' = [run EXCEPT ![x] = NoRun]
        /\ IF x = Scheduler THEN PassEnds(todo) ELSE UNCHANGED inPass
        /\ committed' = [committed EXCEPT ![a] = @ + 1]
        /\ fired' = IF r.due THEN [fired EXCEPT ![a] = @ \cup {r.copy.next}] ELSE fired
        /\ crossed' = [crossed EXCEPT ![a] = @ \/ row[a].count # r.copy.count]
        /\ UNCHANGED <<todo, bounds>>

\* The session rolls back, which expires the other objects of the pass; the
\* warning of the scheduler names the automation, and that loads it again.
RollBack(x) ==
    /\ holder' = Released(x)
    /\ run' = [run EXCEPT ![x] = NoRun]
    /\ todo' = IF x # Scheduler THEN todo
               ELSE [a \in Autos |-> IF todo[a] = Null \/ row[run[x].auto] = Deleted
                                     THEN Null ELSE Expired]
    /\ IF x = Scheduler THEN PassEnds(todo') ELSE UNCHANGED inPass
    /\ UNCHANGED <<row, clock, calls, history>>

\* The UPDATE finds no row: StaleDataError.
FlushFails(x) ==
    /\ run[x].pc = "flush"
    /\ row[run[x].auto] = Deleted
    /\ RollBack(x)
    /\ UNCHANGED faults

\* A database error: also the one that note delivery swallows, since the
\* broken transaction refuses the flush that follows.
RunFails(x) ==
    /\ run[x] # NoRun
    /\ faults < MaxFaults
    /\ faults' = faults + 1
    /\ RollBack(x)

Restart ==
    /\ faults < MaxFaults
    /\ faults' = faults + 1
    /\ run' = [x \in Runners |-> NoRun]
    /\ holder' = [a \in Autos |-> Null]
    /\ todo' = [a \in Autos |-> Null]
    /\ inPass' = FALSE
    /\ UNCHANGED <<row, clock, calls, history>>

Tick ==
    /\ clock < MaxTime
    /\ clock' = clock + 1
    /\ UNCHANGED <<row, holder, run, todo, inPass, calls, faults, history>>

-----------------------------------------------------------------------------
RunStep(x) == AgentReturns(x) \/ Flush(x) \/ FlushFails(x) \/ Commit(x)

SchedulerStep ==
    GetDueAutomations \/ (\E a \in Autos : ExecuteDue(a)) \/ RunStep(Scheduler)

UserStep(a) ==
    \/ CreateAutomation(a) \/ SetEnabled(a) \/ DeleteAutomation(a)
    \/ \E c \in Crons : SetCron(a, c)
    \/ \E x \in Manual : RunNow(x, a)

Next ==
    \/ \E a \in Autos : UserStep(a)
    \/ SchedulerStep
    \/ \E x \in Manual : RunStep(x)
    \/ \E x \in Runners : RunFails(x)
    \/ Restart \/ Tick

Spec == Init /\ [][Next]_vars

\* The loop of the scheduler thread never stops while the process lives, the
\* workflow returns (the client has timeouts and the graph a step limit), and
\* PostgreSQL serves the waiters of a row lock in turn.
FairSpec ==
    /\ Spec
    /\ SF_vars(SchedulerStep)
    /\ \A x \in Manual : SF_vars(RunStep(x))

-----------------------------------------------------------------------------
(* Properties *)

\* A run never undoes an edit that the user made while the agent was working:
\* the cron expression and the limit stay, and enabled changes only to FALSE,
\* when the limit is reached.
EditsKept ==
    [][\A x \in Runners : Commit(x) =>
          LET a == run[x].auto
          IN  /\ row'[a].cron = row[a].cron
              /\ row'[a].max = row[a].max
              /\ row'[a].enabled # row[a].enabled =>
                    /\ ~row'[a].enabled
                    /\ row'[a].count >= run[x].copy.max]_vars

\* run_count is the number of runs that committed, unless runs of one
\* automation overlapped and one count was lost.
RunCountExact ==
    \A a \in Autos : row[a] \in Automation /\ ~crossed[a] => row[a].count = committed[a]

\* The scheduler runs a due time once: it runs it again only if the first run
\* did not commit, or another run of the automation overlapped with one.  (A
\* run that a rollback of the pass made start before its time is not counted.)
DueTimeRunOnce ==
    [][\A x \in Runners : Commit(x) /\ run[x].due =>
          run[x].copy.next \notin fired[run[x].auto] \/ crossed'[run[x].auto]]_vars

\* No due automation is forgotten: it is run, or its user disables, delays or
\* deletes it, also when other automations of the pass fail or disappear.
DueIsServed == \A a \in Autos : a \in Due ~> a \notin Due
=============================================================================
