---------------------------- MODULE ChatHistory ----------------------------
(***************************************************************************)
(* ChatHistoryService: append_message_async hands each message to an       *)
(* executor of two threads; a task is one READ COMMITTED transaction that  *)
(* touches its thread row, inserts the message, reads the window, asks the *)
(* LLM for a summary when the window is full, and commits.  Threads are    *)
(* deleted by hard_delete_thread while appends are in flight.              *)
(*                                                                         *)
(* The Redis copies of the window and the summary are written by these     *)
(* operations and read by none of them, so they are not state here.        *)
(***************************************************************************)
EXTENDS MessageTable, Sequences

CONSTANTS Workers,      \* the threads of _EXECUTOR
          CallerRoles,  \* the roles of the messages submitted
          Deletable,    \* the threads a user may delete
          MaxFaults,    \* bound: failed database statements
          CanRestart    \* bound: whether the process may restart

ASSUME ChatHistoryAssumption ==
    /\ MaxFaults \in Nat
    /\ CanRestart \in BOOLEAN
    /\ Null \notin Workers
    /\ CallerRoles \subseteq MessageRole
    /\ Deletable \subseteq Threads

VARIABLES threadState, req, fate, rows, parentOf, clock,  \* see MessageLog
          queue,   \* the executor's FIFO of submitted tasks
          worker,  \* what each executor thread is doing
          lock,    \* who holds the row lock of each thread row
          del,     \* the hard_delete_thread in flight on each thread
          faults

logVars == <<threadState, req, fate, rows, parentOf, clock>>
vars == <<logVars, queue, worker, lock, del, faults>>

Fate == {"none", "pending", "stored", "dropped"}

\* dequeued -> found (thread read, the transaction has its timestamp) ->
\* touched (thread row updated, its lock held) -> summarise (inserted, the
\* window read and full) -> commit.
Pc == {"idle", "dequeued", "found", "touched", "summarise", "commit"}

Task == [pc : Pc, msg : MessageIds \cup {Null}, at : Nat,
         view : SUBSET Row, ok : BOOLEAN]

Idle == [pc |-> "idle", msg |-> Null, at |-> 0, view |-> {}, ok |-> FALSE]

NoDelete == [pc |-> "none", todo |-> {}, done |-> {}]

TypeOK ==
    /\ threadState \in [Threads -> {"new", "live", "deleted"}]
    /\ req \in [MessageIds -> Request \cup {Null}]
    /\ fate \in [MessageIds -> Fate]
    /\ rows \in SUBSET Row
    /\ parentOf \in [RowIds -> RowIds \cup {Null}]
    /\ clock \in Nat
    /\ queue \in Seq(MessageIds)
    /\ worker \in [Workers -> Task]
    /\ lock \in [Threads -> Workers \cup {Null}]
    /\ del \in [Threads -> [pc : {"none", "rows"}, todo : SUBSET RowIds,
                            done : SUBSET RowIds]]
    /\ faults \in 0 .. MaxFaults

Init ==
    /\ threadState = [t \in Threads |-> "new"]
    /\ req = [m \in MessageIds |-> Null]
    /\ fate = [m \in MessageIds |-> "none"]
    /\ rows = {}
    /\ parentOf = [i \in RowIds |-> Null]
    /\ clock = 0
    /\ queue = <<>>
    /\ worker = [w \in Workers |-> Idle]
    /\ lock = [t \in Threads |-> Null]
    /\ del = [t \in Threads |-> NoDelete]
    /\ faults = 0

-----------------------------------------------------------------------------
\* Callers

\* A request without a usable thread_id gets a fresh thread, committed before
\* ensure_thread returns.
EnsureThread(t) ==
    /\ threadState[t] = "new"
    /\ threadState' = [threadState EXCEPT ![t] = "live"]
    /\ UNCHANGED <<req, fate, rows, parentOf, clock, queue, worker, lock, del, faults>>

\* append_message_async: m is the next pre-generated id, and the call returns
\* as soon as the task is queued.
Submit(m, q) ==
    /\ fate[m] = "none"
    /\ \A k \in MessageIds : k < m => fate[k] # "none"
    /\ threadState[q.thread] # "new"
    /\ req' = [req EXCEPT ![m] = q]
    /\ fate' = [fate EXCEPT ![m] = "pending"]
    /\ queue' = Append(queue, m)
    /\ UNCHANGED <<threadState, rows, parentOf, clock, worker, lock, del, faults>>

\* A parent is an id the caller was given: that of an earlier message of the
\* thread, stored or not, or that of a stored summary.
KnownIds(t) ==
    {m \in MessageIds : fate[m] # "none" /\ req[m].thread = t}
        \cup Ids(ThreadRows(rows, t))

AppendMessageAsync(m) ==
    \E t \in Threads, role \in CallerRoles :
        \E p \in KnownIds(t) \cup {Null} :
            Submit(m, [thread |-> t, role |-> role, parent |-> p])

-----------------------------------------------------------------------------
\* The executor's tasks

ThreadOf(w) == req[worker[w].msg].thread
ParentOf(w) == req[worker[w].msg].parent
OwnRow(w) == MessageRow(worker[w].msg, req[worker[w].msg], worker[w].at)
Dead(w) == Deleted(worker[w].view, worker[w].ok)

Released(w) == [t \in Threads |-> IF lock[t] = w THEN Null ELSE lock[t]]

\* The task ends: its locks go with its transaction.
Settle(w, f) ==
    /\ fate' = [fate EXCEPT ![worker[w].msg] = f]
    /\ worker' = [worker EXCEPT ![w] = Idle]
    /\ lock' = Released(w)

\* Rolled back, and the exception swallowed by _task.
Abort(w) ==
    /\ Settle(w, "dropped")
    /\ UNCHANGED <<threadState, req, rows, parentOf, queue, del>>

\* The rows a commit deletes, and those whose parent_id it sets to NULL.
Rewritten(w) ==
    Ids(Dead(w)) \cup {i \in RowIds : parentOf[i] \in Ids(Dead(w))}

\* Rows a hard delete has already deleted stay locked until it ends.
WaitsForDelete(w) ==
    \/ /\ worker[w].pc = "touched"
       /\ ParentOf(w) \in del[ThreadOf(w)].done
    \/ /\ worker[w].pc = "commit"
       /\ Rewritten(w) \cap del[ThreadOf(w)].done # {}

Dequeue(w) ==
    /\ worker[w].pc = "idle"
    /\ queue # <<>>
    /\ worker' = [worker EXCEPT ![w].pc = "dequeued", ![w].msg = Head(queue)]
    /\ queue' = Tail(queue)
    /\ UNCHANGED <<logVars, lock, del, faults>>

\* find_by_id is the first statement, so created_at, the start time of the
\* transaction, is fixed here.  The message of a missing thread is dropped.
Begin(w) ==
    /\ worker[w].pc = "dequeued"
    /\ UNCHANGED faults
    /\ IF threadState[ThreadOf(w)] = "live"
       THEN /\ clock' = clock + 1
            /\ worker' = [worker EXCEPT ![w].pc = "found", ![w].at = clock + 1]
            /\ UNCHANGED <<threadState, req, fate, rows, parentOf, queue, lock, del>>
       ELSE Abort(w) /\ UNCHANGED clock

\* As if no statement waited for a row, for comparison.
LockIgnored(t) == TRUE

LockFree(t) == lock[t] = Null

\* As if the flush of updated_at were left to the commit, for comparison.
TouchKeepsNoLock(t, w) == lock

TouchLock(t, w) == [lock EXCEPT ![t] = w]

\* As if nobody looked whether the UPDATE found its row, for comparison.
TouchAnyThread(t) == TRUE

ThreadFound(t) == threadState[t] = "live"

\* flush of updated_at: UPDATE of the thread row, which waits for whoever
\* holds its lock and fails (StaleDataError) when the row is gone.
Touch(w) ==
    /\ worker[w].pc = "found"
    /\ LockFree(ThreadOf(w))
    /\ UNCHANGED <<clock, faults>>
    /\ IF ThreadFound(ThreadOf(w))
       THEN /\ worker' = [worker EXCEPT ![w].pc = "touched"]
            /\ lock' = TouchLock(ThreadOf(w), w)
            /\ UNCHANGED <<threadState, req, fate, rows, parentOf, queue, del>>
       ELSE Abort(w)

\* The foreign key of parent_id, checked against committed rows.
ParentStored(w) == ParentOf(w) = Null \/ ParentOf(w) \in Ids(rows)

\* INSERT of the message, then the read of _compact_if_needed.
Insert(w) ==
    LET R == ThreadRows(rows, ThreadOf(w)) \cup {OwnRow(w)}
    IN  /\ worker[w].pc = "touched"
        /\ ~WaitsForDelete(w)
        /\ UNCHANGED <<clock, faults>>
        /\ IF ParentStored(w)
           THEN /\ worker' = [worker EXCEPT
                       ![w].pc = IF NeedsCompaction(R) THEN "summarise" ELSE "commit",
                       ![w].view = R]
                /\ UNCHANGED <<threadState, req, fate, rows, parentOf, queue, lock, del>>
           ELSE Abort(w)

\* The LLM answers, or there is no model, it fails or it answers nothing.
Summarise(w) ==
    /\ worker[w].pc = "summarise"
    /\ \E ok \in BOOLEAN :
           worker' = [worker EXCEPT ![w].pc = "commit", ![w].ok = ok]
    /\ UNCHANGED <<logVars, queue, lock, del, faults>>

SummaryOf(w) ==
    Added(worker[w].view, worker[w].ok, worker[w].msg, ThreadOf(w), worker[w].at)

\* The summary's INSERT, the deletes and COMMIT.
Commit(w) ==
    /\ worker[w].pc = "commit"
    /\ ~WaitsForDelete(w)
    /\ rows' = (rows \cup {OwnRow(w)} \cup SummaryOf(w)) \ Dead(w)
    /\ parentOf' = SetNull([parentOf EXCEPT ![worker[w].msg] = ParentOf(w)],
                           Ids(Dead(w)))
    /\ Settle(w, "stored")
    /\ UNCHANGED <<threadState, req, clock, queue, del, faults>>

WorkerStep(w) ==
    Dequeue(w) \/ Begin(w) \/ Touch(w) \/ Insert(w) \/ Summarise(w) \/ Commit(w)

-----------------------------------------------------------------------------
\* hard_delete_thread: the ORM cascade deletes the rows it read one by one,
\* then the thread row, whose delete cascades to the rows it did not read.

BeginDelete(t) ==
    /\ threadState[t] = "live"
    /\ del[t].pc = "none"
    /\ del' = [del EXCEPT ![t] = [pc |-> "rows", todo |-> Ids(ThreadRows(rows, t)),
                                  done |-> {}]]
    /\ UNCHANGED <<logVars, queue, worker, lock, faults>>

\* The parent of a row that is inserted and not committed is locked.
KeyShared(i) ==
    \E w \in Workers : worker[w].pc \in {"summarise", "commit"} /\ ParentOf(w) = i

DeleteRow(t, i) ==
    /\ i \in del[t].todo
    /\ ~KeyShared(i)
    /\ del' = [del EXCEPT ![t].todo = @ \ {i}, ![t].done = @ \cup {i}]
    /\ UNCHANGED <<logVars, queue, worker, lock, faults>>

DeleteThread(t) ==
    /\ del[t].pc = "rows"
    /\ del[t].todo = {}
    /\ LockFree(t)
    /\ threadState' = [threadState EXCEPT ![t] = "deleted"]
    /\ rows' = rows \ ThreadRows(rows, t)
    /\ parentOf' = SetNull(parentOf, Ids(ThreadRows(rows, t)))
    /\ del' = [del EXCEPT ![t] = NoDelete]
    /\ UNCHANGED <<req, fate, clock, queue, worker, lock, faults>>

DeleteWaits(t) == \A i \in del[t].todo : KeyShared(i)

\* As if the database broke no deadlock, for comparison.
NoDeadlockDetection(w, t) == FALSE

\* An append waits for a row the delete holds and the delete for the thread
\* row, or a parent, the append holds: PostgreSQL aborts one of the two.
Deadlocked(w, t) ==
    /\ lock[t] = w
    /\ del[t].pc = "rows"
    /\ WaitsForDelete(w)
    /\ DeleteWaits(t)

AbortAppend(w) ==
    /\ \E t \in Threads : Deadlocked(w, t)
    /\ Abort(w)
    /\ UNCHANGED <<clock, faults>>

AbortDelete(t) ==
    /\ \E w \in Workers : Deadlocked(w, t)
    /\ del' = [del EXCEPT ![t] = NoDelete]
    /\ UNCHANGED <<logVars, queue, worker, lock, faults>>

DeleteStep(t) == DeleteThread(t) \/ \E i \in RowIds : DeleteRow(t, i)

DeadlockStep == (\E w \in Workers : AbortAppend(w)) \/ \E t \in Threads : AbortDelete(t)

-----------------------------------------------------------------------------
\* A statement of the task fails: the context manager rolls back.
DbFault(w) ==
    /\ faults < MaxFaults
    /\ worker[w].pc # "idle"
    /\ faults' = faults + 1
    /\ UNCHANGED clock
    /\ Abort(w)

\* The process restarts: the queue and the open transactions are gone.
Restart ==
    /\ CanRestart
    /\ fate' = [m \in MessageIds |-> IF fate[m] = "pending" THEN "dropped" ELSE fate[m]]
    /\ queue' = <<>>
    /\ worker' = [w \in Workers |-> Idle]
    /\ lock' = [t \in Threads |-> Null]
    /\ del' = [t \in Threads |-> NoDelete]
    /\ UNCHANGED <<threadState, req, rows, parentOf, clock, faults>>

ServiceStep ==
    \/ \E w \in Workers : WorkerStep(w) \/ DbFault(w)
    \/ \E t \in Deletable : BeginDelete(t)
    \/ \E t \in Threads : DeleteStep(t)
    \/ DeadlockStep

CallerStep ==
    \/ \E t \in Threads : EnsureThread(t)
    \/ \E m \in MessageIds : AppendMessageAsync(m)

Next == CallerStep \/ ServiceStep \/ Restart

\* Executor threads run whatever is queued and an LLM call returns (the client
\* has a timeout).  PostgreSQL queues the waiters of a lock, so whoever waits
\* for one that is released again and again gets it, and it breaks deadlocks.
Fairness ==
    /\ \A w \in Workers : SF_vars(WorkerStep(w))
    /\ \A t \in Threads : SF_vars(DeleteStep(t))
    /\ WF_vars(DeadlockStep)

Spec == Init /\ [][Next]_vars

FairSpec == Spec /\ Fairness

-----------------------------------------------------------------------------
(* Properties *)

\* The rows a task read for its compaction are still the rows of its thread
\* when it deletes some of them: no other task and no delete changes the
\* thread between _compact_if_needed's SELECT and the commit, although the
\* LLM call lies in between.
ReadStable ==
    \A w \in Workers :
        worker[w].pc \in {"summarise", "commit"} =>
            worker[w].view = ThreadRows(rows, ThreadOf(w)) \cup {OwnRow(w)}

\* Each task implements one atomic append-and-compact, each drop and each
\* deletion its abstract counterpart.
Log == INSTANCE MessageLog WITH rows <- rows, fate <- fate, parentOf <- parentOf
ImplementsLog == Log!LogSpec

\* A message is in one place: it is not stored beside a summary that already
\* tells it, and no two summaries tell it twice.
ToldOnce ==
    \A s \in rows : s.role = "summary" =>
        /\ s.covers \cap Ids(rows) = {}
        /\ \A u \in rows : u.role = "summary" /\ u # s => u.covers \cap s.covers = {}

\* hard_delete_thread is final: an append that was in flight never brings a
\* row of the deleted thread back.
DeletedStaysEmpty ==
    \A t \in Threads : threadState[t] # "live" => ThreadRows(rows, t) = {}

\* A row leaves the table only with its thread, into a summary stored in the
\* same step, or, from the older half of a window longer than three times
\* WINDOW_ROUNDS (380; the docstring, 347-349, says two times), by the trim
\* after a failed summarisation.
Excused(r) ==
    \/ threadState'[r.thread] = "deleted"
    \/ \E s \in rows' : r.id \in s.covers
    \/ \E w \in Workers :
          LET W == Window(worker[w].view)
          IN  /\ worker[w].pc = "commit"
              /\ ~worker[w].ok
              /\ Cardinality(W) > 3 * WINDOW_ROUNDS
              /\ r \in W
              /\ 2 * Cardinality(Before(W, r)) < Cardinality(W)

NoRowLost == [][\A r \in rows \ rows' : Excused(r)]_rows

\* Every accepted append is settled, whatever its siblings, compactions,
\* deletions and deadlocks do.
AppendSettles ==
    \A m \in MessageIds : fate[m] = "pending" ~> fate[m] \in {"stored", "dropped"}

\* A hard delete that has begun ends: it never waits for an append for ever.
DeleteEnds == \A t \in Threads : del[t].pc = "rows" ~> del[t].pc = "none"

\* Appends and deletions never wait for each other for ever.
WritesSettle == AppendSettles /\ DeleteEnds
=============================================================================
