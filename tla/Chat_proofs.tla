---------------------------- MODULE Chat_proofs ----------------------------
(***************************************************************************)
(* For every set of threads and workers and every bound: the types of      *)
(* ChatHistory, and with them that the rows a compaction read are still    *)
(* there when it commits, and that a deleted thread stays empty; then that *)
(* ChatHistory implements MessageLog, and what follows for the rows of the *)
(* table.  For these the invariant adds to IInv where a pending message is *)
(* and that the ids of rows and of summaries come from appends that        *)
(* committed (TableInv), and that the parent a foreign key found is still  *)
(* there when the append commits (ParentInv).                              *)
(*                                                                         *)
(* Then the turns of any number of clients over any number of executor     *)
(* threads: a turn is stored without a gap, an edit is a sibling of what   *)
(* it replaces, and the window is kept.                                    *)
(***************************************************************************)
EXTENDS ChatTurn, TLAPS, FiniteSetTheorems

\* A message that is queued or worked on has its request.
Accepted ==
    /\ \A m \in MessageIds : fate[m] # "none" => req[m] \in Request
    /\ \A i \in DOMAIN queue : fate[queue[i]] # "none"
    /\ \A w \in Workers : worker[w].pc # "idle" =>
           worker[w].msg \in MessageIds /\ fate[worker[w].msg] # "none"

\* A task that has touched its thread holds its lock, and the thread is live:
\* what the compaction's reads and the thread's deletion both rely on.
Holds(w) == worker[w].pc \in {"touched", "summarise", "commit"}

HoldsLock ==
    \A w \in Workers :
        Holds(w) => lock[ThreadOf(w)] = w /\ threadState[ThreadOf(w)] = "live"

IInv == TypeOK /\ Accepted /\ HoldsLock /\ ReadStable /\ DeletedStaysEmpty
-----------------------------------------------------------------------------
\* The rows a compaction deletes and adds are rows of the thread it read.

LEMMA IdsTyped ==
    ASSUME NEW R \in SUBSET Row
    PROVE  Ids(R) \in SUBSET RowIds
BY DEF Ids, Row

LEMMA MessageIdIsRowId == MessageIds \subseteq RowIds
BY MessageTableAssumption DEF MessageIds, RowIds

LEMMA DeletedWereRead ==
    ASSUME NEW R, NEW ok
    PROVE  Deleted(R, ok) \subseteq R
<1>1. Selected(R) \subseteq R
  BY DEF Selected, Window
<1>2. Trimmed(R) \subseteq Selected(R)
  BY DEF Trimmed
<1> QED  BY <1>1, <1>2 DEF Deleted

LEMMA AddedTyped ==
    ASSUME NEW R \in SUBSET Row, NEW ok, NEW m \in MessageIds, NEW t \in Threads,
           NEW now \in Nat
    PROVE  /\ Added(R, ok, m, t, now) \in SUBSET Row
           /\ \A r \in Added(R, ok, m, t, now) : r.thread = t
<1>1. SummaryId(m) \in RowIds
  BY MessageTableAssumption DEF SummaryId, MessageIds, RowIds
<1>2. Selected(R) \in SUBSET Row
  BY DEF Selected, Window
<1>3. Ids(Selected(R)) \in SUBSET RowIds
  BY <1>2, IdsTyped
<1> QED  BY <1>1, <1>3 DEF Added, Row

LEMMA MessageRowTyped ==
    ASSUME NEW m \in MessageIds, NEW q \in Request, NEW now \in Nat
    PROVE  MessageRow(m, q, now) \in Row /\ MessageRow(m, q, now).thread = q.thread
BY MessageIdIsRowId DEF MessageRow, Row, Request

LEMMA SetNullTyped ==
    ASSUME NEW f \in [RowIds -> RowIds \cup {Null}], NEW dead
    PROVE  SetNull(f, dead) \in [RowIds -> RowIds \cup {Null}]
BY DEF SetNull

LEMMA NullIsNoRequest == Null \notin MessageIds
BY MessageIdIsRowId, MessageTableAssumption

-----------------------------------------------------------------------------
LEMMA InitInv == Init => IInv
<1> SUFFICES ASSUME Init PROVE IInv
  OBVIOUS
<1>1. TypeOK
  BY ChatHistoryAssumption DEF Init, TypeOK, Fate, Task, Idle, Pc, NoDelete, Row
<1>2. Accepted /\ HoldsLock /\ ReadStable
  BY DEF Init, Idle, Accepted, HoldsLock, Holds, ReadStable
<1>3. DeletedStaysEmpty
  BY DEF Init, DeletedStaysEmpty, ThreadRows
<1> QED  BY <1>1, <1>2, <1>3 DEF IInv

\* The facts about the task of a busy worker that every step uses.
LEMMA BusyTask ==
    ASSUME IInv, NEW w \in Workers, worker[w].pc # "idle"
    PROVE  /\ worker[w].msg \in MessageIds
           /\ fate[worker[w].msg] # "none"
           /\ req[worker[w].msg] \in Request
           /\ ThreadOf(w) \in Threads
           /\ ParentOf(w) \in RowIds \cup {Null}
           /\ OwnRow(w) \in Row
           /\ OwnRow(w).thread = ThreadOf(w)
<1>1. worker[w].msg \in MessageIds /\ fate[worker[w].msg] # "none"
  BY DEF IInv, Accepted
<1>2. req[worker[w].msg] \in Request
  BY <1>1 DEF IInv, Accepted
<1>3. worker[w].at \in Nat
  BY DEF IInv, TypeOK, Task
<1>4. OwnRow(w) \in Row /\ OwnRow(w).thread = ThreadOf(w)
  BY <1>1, <1>2, <1>3, MessageRowTyped DEF OwnRow, ThreadOf
<1> QED  BY <1>1, <1>2, <1>4 DEF Request, ThreadOf, ParentOf

LEMMA SubmitInv ==
    ASSUME IInv, NEW m \in MessageIds, NEW q \in Request, Submit(m, q)
    PROVE  IInv'
<1> USE DEF IInv
<1>1. TypeOK'
  BY DEF TypeOK, Submit, Fate
<1>2. Accepted'
  <2>1. \A k \in MessageIds : fate'[k] # "none" => req'[k] \in Request
    BY DEF TypeOK, Submit, Accepted
  <2>2. \A i \in DOMAIN queue' : fate'[queue'[i]] # "none"
    <3> SUFFICES ASSUME NEW i \in DOMAIN queue' PROVE fate'[queue'[i]] # "none"
      OBVIOUS
    <3>1. queue \in Seq(MessageIds) /\ queue' = Append(queue, m)
      BY DEF TypeOK, Submit
    <3>2. CASE i = Len(queue) + 1
      BY <3>1, <3>2 DEF Submit, TypeOK
    <3>3. CASE i # Len(queue) + 1
      <4>1. i \in DOMAIN queue /\ queue'[i] = queue[i]
        BY <3>1, <3>3
      <4>2. fate[queue[i]] # "none" /\ queue[i] \in MessageIds
        BY <3>1, <4>1 DEF Accepted
      <4> QED  BY <4>1, <4>2 DEF Submit, TypeOK
    <3> QED  BY <3>2, <3>3
  <2>3. \A w \in Workers : worker'[w].pc # "idle" =>
            worker'[w].msg \in MessageIds /\ fate'[worker'[w].msg] # "none"
    BY DEF TypeOK, Submit, Accepted
  <2> QED  BY <2>1, <2>2, <2>3 DEF Accepted
<1>3. \A w \in Workers : worker[w].pc # "idle" =>
          ThreadOf(w)' = ThreadOf(w) /\ OwnRow(w)' = OwnRow(w)
  <2> SUFFICES ASSUME NEW w \in Workers, worker[w].pc # "idle"
               PROVE  ThreadOf(w)' = ThreadOf(w) /\ OwnRow(w)' = OwnRow(w)
    OBVIOUS
  <2>1. worker[w].msg \in MessageIds /\ worker[w].msg # m
    BY BusyTask DEF Submit
  <2> QED  BY <2>1 DEF Submit, ThreadOf, OwnRow, TypeOK
<1>4. HoldsLock'
  BY <1>3 DEF HoldsLock, Holds, Submit
<1>5. ReadStable'
  BY <1>3 DEF ReadStable, Submit
<1>6. DeletedStaysEmpty'
  BY DEF DeletedStaysEmpty, Submit
<1> QED  BY <1>1, <1>2, <1>4, <1>5, <1>6

LEMMA AppendInv ==
    ASSUME IInv, NEW m \in MessageIds, AppendMessageAsync(m)
    PROVE  IInv'
<1> PICK t \in Threads, role \in CallerRoles :
        \E p \in KnownIds(t) \cup {Null} :
            Submit(m, [thread |-> t, role |-> role, parent |-> p])
  BY DEF AppendMessageAsync
<1>1. PICK p \in KnownIds(t) \cup {Null} :
          Submit(m, [thread |-> t, role |-> role, parent |-> p])
  OBVIOUS
<1>2. KnownIds(t) \subseteq RowIds
  <2>1. ThreadRows(rows, t) \in SUBSET Row
    BY DEF IInv, TypeOK, ThreadRows
  <2> QED  BY <2>1, IdsTyped, MessageIdIsRowId DEF KnownIds
<1>3. [thread |-> t, role |-> role, parent |-> p] \in Request
  BY <1>2, ChatHistoryAssumption DEF Request
<1> QED  BY <1>1, <1>3, SubmitInv

\* The task of one worker changes and nothing else that the others rely on.
LEMMA OthersKeepTask ==
    ASSUME IInv, NEW w \in Workers, req' = req,
           \A v \in Workers \ {w} : worker'[v] = worker[v]
    PROVE  \A v \in Workers \ {w} :
               /\ ThreadOf(v)' = ThreadOf(v)
               /\ OwnRow(v)' = OwnRow(v)
BY DEF ThreadOf, OwnRow

LEMMA SettleTyped ==
    ASSUME IInv, NEW w \in Workers, worker[w].pc # "idle",
           NEW f \in {"stored", "dropped"}, Settle(w, f), UNCHANGED <<req, queue>>
    PROVE  /\ fate' \in [MessageIds -> Fate]
           /\ worker' \in [Workers -> Task]
           /\ worker'[w] = Idle
           /\ \A v \in Workers \ {w} : worker'[v] = worker[v]
           /\ lock' \in [Threads -> Workers \cup {Null}]
           /\ Accepted'
<1>1. worker[w].msg \in MessageIds
  BY BusyTask
<1>2. fate' \in [MessageIds -> Fate]
  BY <1>1 DEF IInv, TypeOK, Settle, Fate
<1>3. Idle \in Task
  BY DEF Idle, Task, Pc, Row
<1>4. worker' \in [Workers -> Task] /\ worker'[w] = Idle
      /\ \A v \in Workers \ {w} : worker'[v] = worker[v]
  BY <1>3 DEF IInv, TypeOK, Settle
<1>5. lock' \in [Threads -> Workers \cup {Null}]
  BY DEF IInv, TypeOK, Settle, Released
<1>6. \A m \in MessageIds : fate'[m] # "none" <=> fate[m] # "none"
  BY <1>1, BusyTask DEF IInv, TypeOK, Settle
<1>7. \A i \in DOMAIN queue : queue[i] \in MessageIds
  BY DEF IInv, TypeOK
<1>8. Accepted'
  <2>1. \A m \in MessageIds : fate'[m] # "none" => req'[m] \in Request
    BY <1>6 DEF IInv, Accepted
  <2>2. \A i \in DOMAIN queue' : fate'[queue'[i]] # "none"
    BY <1>6, <1>7 DEF IInv, Accepted
  <2>3. \A v \in Workers : worker'[v].pc # "idle" =>
            worker'[v].msg \in MessageIds /\ fate'[worker'[v].msg] # "none"
    BY <1>4, <1>6 DEF IInv, Accepted, Idle
  <2> QED  BY <2>1, <2>2, <2>3 DEF Accepted
<1> QED  BY <1>2, <1>4, <1>5, <1>8

LEMMA SettleKeepsLocks ==
    ASSUME IInv, NEW w \in Workers, worker[w].pc # "idle",
           NEW f \in {"stored", "dropped"}, Settle(w, f),
           UNCHANGED <<req, queue, threadState>>
    PROVE  HoldsLock'
<1> SUFFICES ASSUME NEW v \in Workers, Holds(v)'
             PROVE  lock'[ThreadOf(v)'] = v /\ threadState[ThreadOf(v)'] = "live"
  BY DEF HoldsLock
<1>1. v # w
  BY SettleTyped DEF Holds, Idle
<1>2. Holds(v) /\ ThreadOf(v)' = ThreadOf(v)
  BY <1>1, SettleTyped DEF Holds, ThreadOf
<1>3. ThreadOf(v) \in Threads
  BY <1>2, BusyTask DEF Holds
<1>4. lock[ThreadOf(v)] = v /\ threadState[ThreadOf(v)] = "live"
  BY <1>2 DEF IInv, HoldsLock
<1> QED  BY <1>1, <1>2, <1>3, <1>4 DEF Settle, Released

LEMMA AbortInv ==
    ASSUME IInv, NEW w \in Workers, worker[w].pc # "idle", Abort(w),
           UNCHANGED clock, faults' \in 0 .. MaxFaults
    PROVE  IInv'
<1>1. Settle(w, "dropped") /\ UNCHANGED <<threadState, req, rows, parentOf, queue, del>>
  BY DEF Abort
<1>2. TypeOK'
  BY <1>1, SettleTyped DEF IInv, TypeOK
<1>3. Accepted' /\ HoldsLock'
  BY <1>1, SettleTyped, SettleKeepsLocks
<1>4. ReadStable'
  <2>1. worker'[w] = Idle /\ \A v \in Workers \ {w} : worker'[v] = worker[v]
    BY <1>1, SettleTyped
  <2>2. \A v \in Workers \ {w} : ThreadOf(v)' = ThreadOf(v) /\ OwnRow(v)' = OwnRow(v)
    BY <1>1, <2>1, OthersKeepTask
  <2> QED  BY <1>1, <2>1, <2>2 DEF IInv, ReadStable, Idle
<1>5. DeletedStaysEmpty'
  BY <1>1 DEF IInv, DeletedStaysEmpty
<1> QED  BY <1>2, <1>3, <1>4, <1>5 DEF IInv

-----------------------------------------------------------------------------
\* The steps of an executor thread.

LEMMA TaskReplaced ==
    ASSUME TypeOK, NEW w \in Workers, NEW new \in Task,
           worker' = [worker EXCEPT ![w] = new]
    PROVE  /\ worker' \in [Workers -> Task]
           /\ worker'[w] = new
           /\ \A v \in Workers \ {w} : worker'[v] = worker[v]
BY DEF TypeOK

LEMMA DequeueInv == ASSUME IInv, NEW w \in Workers, Dequeue(w) PROVE IInv'
<1> USE DEF IInv
<1>1. /\ queue \in Seq(MessageIds) /\ queue # <<>>
      /\ queue' = Tail(queue)
      /\ worker' = [worker EXCEPT ![w].pc = "dequeued", ![w].msg = Head(queue)]
      /\ UNCHANGED <<logVars, lock, del, faults>>
  BY DEF Dequeue, TypeOK
<1>2. Head(queue) \in MessageIds /\ Head(queue) = queue[1] /\ 1 \in DOMAIN queue
  BY <1>1
<1> DEFINE new == [worker[w] EXCEPT !.pc = "dequeued", !.msg = Head(queue)]
<1>3. new \in Task /\ new.pc = "dequeued" /\ new.msg = Head(queue)
  <2>1. worker[w] \in Task /\ "dequeued" \in Pc
    BY DEF TypeOK, Pc
  <2> QED  BY <1>2, <2>1 DEF Task
<1>4. worker' = [worker EXCEPT ![w] = new]
  BY <1>1
<1> HIDE DEF new
<1>5. /\ worker' \in [Workers -> Task]
      /\ worker'[w].pc = "dequeued" /\ worker'[w].msg = Head(queue)
      /\ \A v \in Workers \ {w} : worker'[v] = worker[v]
  BY <1>3, <1>4, TaskReplaced
<1>6. TypeOK'
  BY <1>1, <1>5 DEF TypeOK, logVars
<1>7. Accepted'
  <2>1. \A m \in MessageIds : fate'[m] # "none" => req'[m] \in Request
    BY <1>1 DEF Accepted, logVars
  <2>2. \A i \in DOMAIN queue' : i + 1 \in DOMAIN queue /\ queue'[i] = queue[i + 1]
    BY <1>1
  <2>3. \A i \in DOMAIN queue' : fate'[queue'[i]] # "none"
    BY <1>1, <2>2 DEF Accepted, logVars
  <2>4. \A v \in Workers : worker'[v].pc # "idle" =>
            worker'[v].msg \in MessageIds /\ fate'[worker'[v].msg] # "none"
    BY <1>1, <1>2, <1>5 DEF Accepted, logVars
  <2> QED  BY <2>1, <2>3, <2>4 DEF Accepted
<1>8. \A v \in Workers \ {w} : ThreadOf(v)' = ThreadOf(v) /\ OwnRow(v)' = OwnRow(v)
  BY <1>1, <1>5, OthersKeepTask DEF logVars
<1>9. HoldsLock' /\ ReadStable' /\ DeletedStaysEmpty'
  BY <1>1, <1>5, <1>8 DEF HoldsLock, Holds, ReadStable, DeletedStaysEmpty, logVars
<1> QED  BY <1>6, <1>7, <1>9

\* A step that moves the task of w on, without ending it or touching the table.
LEMMA MoveOn ==
    ASSUME IInv, NEW w \in Workers, worker[w].pc # "idle",
           worker' \in [Workers -> Task],
           \A v \in Workers \ {w} : worker'[v] = worker[v],
           worker'[w].msg = worker[w].msg,
           UNCHANGED <<threadState, req, fate, rows, parentOf, queue, del, faults>>
    PROVE  /\ Accepted'
           /\ \A v \in Workers : ThreadOf(v)' = ThreadOf(v)
           /\ \A v \in Workers \ {w} : OwnRow(v)' = OwnRow(v)
           /\ DeletedStaysEmpty'
<1>1. Accepted'
  <2>1. \A v \in Workers : worker'[v].pc # "idle" =>
            worker'[v].msg \in MessageIds /\ fate'[worker'[v].msg] # "none"
    BY BusyTask DEF IInv, Accepted
  <2> QED  BY <2>1 DEF IInv, Accepted
<1>2. \A v \in Workers : ThreadOf(v)' = ThreadOf(v)
  BY DEF ThreadOf
<1>3. \A v \in Workers \ {w} : OwnRow(v)' = OwnRow(v)
  BY DEF OwnRow
<1>4. DeletedStaysEmpty'
  BY DEF IInv, DeletedStaysEmpty
<1> QED  BY <1>1, <1>2, <1>3, <1>4

LEMMA BeginInv == ASSUME IInv, NEW w \in Workers, Begin(w) PROVE IInv'
<1>1. worker[w].pc = "dequeued"
  BY DEF Begin
<1>2. CASE threadState[ThreadOf(w)] = "live"
  <2>1. /\ clock' = clock + 1
        /\ worker' = [worker EXCEPT ![w].pc = "found", ![w].at = clock + 1]
        /\ UNCHANGED <<threadState, req, fate, rows, parentOf, queue, lock, del, faults>>
    BY <1>2 DEF Begin
  <2>2. /\ worker' \in [Workers -> Task] /\ clock' \in Nat
        /\ worker'[w].pc = "found" /\ worker'[w].msg = worker[w].msg
        /\ \A v \in Workers \ {w} : worker'[v] = worker[v]
    <3> DEFINE new == [worker[w] EXCEPT !.pc = "found", !.at = clock + 1]
    <3>1. worker[w] \in Task /\ "found" \in Pc /\ clock + 1 \in Nat
      BY DEF IInv, TypeOK, Pc
    <3>2. new \in Task /\ new.pc = "found" /\ new.msg = worker[w].msg
      BY <3>1 DEF Task
    <3>3. worker' = [worker EXCEPT ![w] = new]
      BY <2>1
    <3> HIDE DEF new
    <3> QED  BY <2>1, <3>1, <3>2, <3>3, TaskReplaced DEF IInv
  <2>3. TypeOK'
    BY <2>1, <2>2 DEF IInv, TypeOK
  <2>4. /\ Accepted'
        /\ \A v \in Workers : ThreadOf(v)' = ThreadOf(v)
        /\ \A v \in Workers \ {w} : OwnRow(v)' = OwnRow(v)
        /\ DeletedStaysEmpty'
    BY <1>1, <2>1, <2>2, MoveOn
  <2>5. HoldsLock'
    BY <2>1, <2>2, <2>4 DEF IInv, HoldsLock, Holds
  <2>6. ReadStable'
    BY <2>1, <2>2, <2>4 DEF IInv, ReadStable
  <2> QED  BY <2>3, <2>4, <2>5, <2>6 DEF IInv
<1>3. CASE threadState[ThreadOf(w)] # "live"
  <2>1. Abort(w) /\ UNCHANGED <<clock, faults>>
    BY <1>3 DEF Begin
  <2>2. faults' \in 0 .. MaxFaults
    BY <2>1 DEF IInv, TypeOK
  <2> QED  BY <1>1, <2>1, <2>2, AbortInv
<1> QED  BY <1>2, <1>3

LEMMA TouchInv == ASSUME IInv, NEW w \in Workers, Touch(w) PROVE IInv'
<1>1. worker[w].pc = "found" /\ lock[ThreadOf(w)] = Null
  BY DEF Touch, LockFree
<1>2. CASE threadState[ThreadOf(w)] = "live"
  <2>1. /\ worker' = [worker EXCEPT ![w].pc = "touched"]
        /\ lock' = [lock EXCEPT ![ThreadOf(w)] = w]
        /\ UNCHANGED <<threadState, req, fate, rows, parentOf, clock, queue, del, faults>>
    BY <1>2 DEF Touch, ThreadFound, TouchLock
  <2>2. /\ worker' \in [Workers -> Task]
        /\ worker'[w].pc = "touched" /\ worker'[w].msg = worker[w].msg
        /\ \A v \in Workers \ {w} : worker'[v] = worker[v]
        /\ lock' \in [Threads -> Workers \cup {Null}]
    <3> DEFINE new == [worker[w] EXCEPT !.pc = "touched"]
    <3>1. worker[w] \in Task /\ "touched" \in Pc
      BY DEF IInv, TypeOK, Pc
    <3>2. new \in Task /\ new.pc = "touched" /\ new.msg = worker[w].msg
      BY <3>1 DEF Task
    <3>3. worker' = [worker EXCEPT ![w] = new]
      BY <2>1
    <3> HIDE DEF new
    <3>4. lock' \in [Threads -> Workers \cup {Null}]
      BY <2>1 DEF IInv, TypeOK
    <3> QED  BY <3>2, <3>3, <3>4, TaskReplaced DEF IInv
  <2>3. TypeOK'
    BY <2>1, <2>2 DEF IInv, TypeOK
  <2>4. /\ Accepted'
        /\ \A v \in Workers : ThreadOf(v)' = ThreadOf(v)
        /\ \A v \in Workers \ {w} : OwnRow(v)' = OwnRow(v)
        /\ DeletedStaysEmpty'
    BY <1>1, <2>1, <2>2, MoveOn
  <2>5. HoldsLock'
    <3> SUFFICES ASSUME NEW v \in Workers, Holds(v)'
                 PROVE  lock'[ThreadOf(v)] = v /\ threadState[ThreadOf(v)] = "live"
      BY <2>1, <2>4 DEF HoldsLock
    <3>1. CASE v = w
      <4>1. ThreadOf(w) \in Threads
        BY <1>1, BusyTask
      <4> QED  BY <1>2, <2>1, <3>1, <4>1 DEF IInv, TypeOK
    <3>2. CASE v # w
      <4>1. lock[ThreadOf(v)] = v /\ threadState[ThreadOf(v)] = "live"
        BY <2>2, <3>2 DEF IInv, HoldsLock, Holds
      <4>2. v # Null
        BY ChatHistoryAssumption
      <4>3. ThreadOf(v) # ThreadOf(w)
        BY <1>1, <4>1, <4>2
      <4> QED  BY <2>1, <4>1, <4>3 DEF IInv, TypeOK
    <3> QED  BY <3>1, <3>2
  <2>6. ReadStable'
    BY <2>1, <2>2, <2>4 DEF IInv, ReadStable
  <2> QED  BY <2>3, <2>4, <2>5, <2>6 DEF IInv
<1>3. CASE threadState[ThreadOf(w)] # "live"
  <2>1. Abort(w) /\ UNCHANGED <<clock, faults>>
    BY <1>3 DEF Touch, ThreadFound
  <2>2. faults' \in 0 .. MaxFaults
    BY <2>1 DEF IInv, TypeOK
  <2> QED  BY <1>1, <2>1, <2>2, AbortInv
<1> QED  BY <1>2, <1>3

LEMMA InsertInv == ASSUME IInv, NEW w \in Workers, Insert(w) PROVE IInv'
<1> DEFINE R == ThreadRows(rows, ThreadOf(w)) \cup {OwnRow(w)}
<1>1. worker[w].pc = "touched"
  BY DEF Insert
<1>2. CASE ParentStored(w)
  <2> DEFINE next == IF NeedsCompaction(R) THEN "summarise" ELSE "commit"
             new  == [worker[w] EXCEPT !.pc = next, !.view = R]
  <2>1. /\ worker' = [worker EXCEPT ![w] = new]
        /\ UNCHANGED <<threadState, req, fate, rows, parentOf, clock, queue, lock, del, faults>>
    BY <1>2 DEF Insert
  <2>2. new \in Task /\ new.pc = next /\ new.msg = worker[w].msg
        /\ new.at = worker[w].at /\ new.view = R
    <3>1. worker[w] \in Task /\ next \in Pc
      BY DEF IInv, TypeOK, Pc
    <3>2. R \in SUBSET Row
      BY <1>1, BusyTask DEF IInv, TypeOK, ThreadRows
    <3> HIDE DEF next, R
    <3> QED  BY <3>1, <3>2 DEF Task
  <2>3. next \in {"summarise", "commit"}
    OBVIOUS
  <2> HIDE DEF new, next, R
  <2>4. /\ worker' \in [Workers -> Task] /\ worker'[w] = new
        /\ \A v \in Workers \ {w} : worker'[v] = worker[v]
    BY <2>1, <2>2, TaskReplaced DEF IInv
  <2>5. TypeOK'
    BY <2>1, <2>4 DEF IInv, TypeOK
  <2>6. /\ Accepted'
        /\ \A v \in Workers : ThreadOf(v)' = ThreadOf(v)
        /\ \A v \in Workers \ {w} : OwnRow(v)' = OwnRow(v)
        /\ DeletedStaysEmpty'
    BY <1>1, <2>1, <2>2, <2>4, MoveOn
  <2>7. HoldsLock'
    BY <1>1, <2>1, <2>2, <2>3, <2>4, <2>6 DEF IInv, HoldsLock, Holds
  <2>8. OwnRow(w)' = OwnRow(w)
    BY <2>1, <2>2, <2>4 DEF OwnRow
  <2>9. ReadStable'
    BY <2>1, <2>2, <2>4, <2>6, <2>8 DEF IInv, ReadStable, R
  <2> QED  BY <2>5, <2>6, <2>7, <2>9 DEF IInv
<1>3. CASE ~ParentStored(w)
  <2>1. Abort(w) /\ UNCHANGED <<clock, faults>>
    BY <1>3 DEF Insert
  <2>2. faults' \in 0 .. MaxFaults
    BY <2>1 DEF IInv, TypeOK
  <2> QED  BY <1>1, <2>1, <2>2, AbortInv
<1> QED  BY <1>2, <1>3

LEMMA SummariseInv == ASSUME IInv, NEW w \in Workers, Summarise(w) PROVE IInv'
<1>1. PICK ok \in BOOLEAN :
          worker' = [worker EXCEPT ![w] = [worker[w] EXCEPT !.pc = "commit", !.ok = ok]]
  BY DEF Summarise
<1>2. /\ worker[w].pc = "summarise"
      /\ UNCHANGED <<threadState, req, fate, rows, parentOf, clock, queue, lock, del, faults>>
  BY DEF Summarise, logVars
<1> DEFINE new == [worker[w] EXCEPT !.pc = "commit", !.ok = ok]
<1>3. new \in Task /\ new.pc = "commit" /\ new.msg = worker[w].msg
      /\ new.at = worker[w].at /\ new.view = worker[w].view
  <2>1. worker[w] \in Task /\ "commit" \in Pc
    BY DEF IInv, TypeOK, Pc
  <2> QED  BY <2>1 DEF Task
<1> HIDE DEF new
<1>4. /\ worker' \in [Workers -> Task] /\ worker'[w] = new
      /\ \A v \in Workers \ {w} : worker'[v] = worker[v]
  BY <1>1, <1>3, TaskReplaced DEF IInv, new
<1>5. TypeOK'
  BY <1>2, <1>4 DEF IInv, TypeOK
<1>6. /\ Accepted'
      /\ \A v \in Workers : ThreadOf(v)' = ThreadOf(v)
      /\ \A v \in Workers \ {w} : OwnRow(v)' = OwnRow(v)
      /\ DeletedStaysEmpty'
  BY <1>2, <1>3, <1>4, MoveOn
<1>7. HoldsLock'
  BY <1>2, <1>3, <1>4, <1>6 DEF IInv, HoldsLock, Holds
<1>8. OwnRow(w)' = OwnRow(w)
  BY <1>2, <1>3, <1>4 DEF OwnRow
<1>9. ReadStable'
  BY <1>2, <1>3, <1>4, <1>6, <1>8 DEF IInv, ReadStable
<1> QED  BY <1>5, <1>6, <1>7, <1>9 DEF IInv

\* The commit adds and deletes rows of the task's own thread only.
LEMMA CommitIsLocal ==
    ASSUME IInv, NEW w \in Workers, Commit(w)
    PROVE  /\ rows' \in SUBSET Row
           /\ \A r \in rows' : r \in rows \/ r.thread = ThreadOf(w)
           /\ \A r \in rows : r \in rows' \/ r.thread = ThreadOf(w)
<1>1. worker[w].pc = "commit" /\ worker[w].pc # "idle"
  BY DEF Commit
<1>2. worker[w].view = ThreadRows(rows, ThreadOf(w)) \cup {OwnRow(w)}
  BY <1>1 DEF IInv, ReadStable
<1>3. OwnRow(w) \in Row /\ OwnRow(w).thread = ThreadOf(w)
  BY <1>1, BusyTask
<1>4. SummaryOf(w) \in SUBSET Row /\ \A r \in SummaryOf(w) : r.thread = ThreadOf(w)
  <2>1. /\ worker[w].view \in SUBSET Row /\ worker[w].msg \in MessageIds
        /\ ThreadOf(w) \in Threads /\ worker[w].at \in Nat
    BY <1>1, BusyTask DEF IInv, TypeOK, Task
  <2> QED  BY <2>1, AddedTyped DEF SummaryOf
<1>5. \A r \in Dead(w) : r.thread = ThreadOf(w)
  BY <1>2, <1>3, DeletedWereRead DEF Dead, ThreadRows
<1>6. rows' = (rows \cup {OwnRow(w)} \cup SummaryOf(w)) \ Dead(w)
  BY DEF Commit
<1> QED  BY <1>3, <1>4, <1>5, <1>6 DEF IInv, TypeOK

LEMMA CommitInv == ASSUME IInv, NEW w \in Workers, Commit(w) PROVE IInv'
<1>1. /\ worker[w].pc = "commit" /\ worker[w].pc # "idle"
      /\ Settle(w, "stored")
      /\ UNCHANGED <<threadState, req, clock, queue, del, faults>>
  BY DEF Commit
<1>2. /\ worker' \in [Workers -> Task] /\ worker'[w] = Idle
      /\ \A v \in Workers \ {w} : worker'[v] = worker[v]
  BY <1>1, SettleTyped
<1>3. parentOf' \in [RowIds -> RowIds \cup {Null}]
  <2>1. ParentOf(w) \in RowIds \cup {Null}
    BY <1>1, BusyTask
  <2>2. [parentOf EXCEPT ![worker[w].msg] = ParentOf(w)] \in [RowIds -> RowIds \cup {Null}]
    BY <2>1 DEF IInv, TypeOK
  <2> QED  BY <2>2, SetNullTyped DEF Commit
<1>4. TypeOK'
  BY <1>1, <1>3, CommitIsLocal, SettleTyped DEF IInv, TypeOK
<1>5. Accepted' /\ HoldsLock'
  BY <1>1, SettleTyped, SettleKeepsLocks
<1>6. ReadStable'
  <2> SUFFICES ASSUME NEW v \in Workers, worker'[v].pc \in {"summarise", "commit"}
               PROVE  worker'[v].view = ThreadRows(rows', ThreadOf(v)') \cup {OwnRow(v)'}
    BY DEF ReadStable
  <2>1. v # w
    BY <1>2 DEF Idle
  <2>2. worker'[v] = worker[v] /\ ThreadOf(v)' = ThreadOf(v) /\ OwnRow(v)' = OwnRow(v)
    BY <1>1, <1>2, <2>1, OthersKeepTask
  <2>3. ThreadOf(v) # ThreadOf(w)
    BY <1>1, <2>1, <2>2 DEF IInv, HoldsLock, Holds
  <2>4. ThreadRows(rows', ThreadOf(v)) = ThreadRows(rows, ThreadOf(v))
    BY <2>3, CommitIsLocal DEF ThreadRows
  <2> QED  BY <2>2, <2>4 DEF IInv, ReadStable
<1>7. DeletedStaysEmpty'
  <2>1. threadState[ThreadOf(w)] = "live"
    BY <1>1 DEF IInv, HoldsLock, Holds
  <2> QED  BY <1>1, <2>1, CommitIsLocal DEF IInv, DeletedStaysEmpty, ThreadRows
<1> QED  BY <1>4, <1>5, <1>6, <1>7 DEF IInv

LEMMA WorkerInv == ASSUME IInv, NEW w \in Workers, WorkerStep(w) PROVE IInv'
<1>1. CASE Dequeue(w)  BY <1>1, DequeueInv
<1>2. CASE Begin(w)  BY <1>2, BeginInv
<1>3. CASE Touch(w)  BY <1>3, TouchInv
<1>4. CASE Insert(w)  BY <1>4, InsertInv
<1>5. CASE Summarise(w)  BY <1>5, SummariseInv
<1>6. CASE Commit(w)  BY <1>6, CommitInv
<1> QED  BY <1>1, <1>2, <1>3, <1>4, <1>5, <1>6 DEF WorkerStep

-----------------------------------------------------------------------------
\* The steps of hard_delete_thread, of the callers and of the environment.

\* A step that changes only what a deletion has in hand.
LEMMA DelOnly ==
    ASSUME IInv,
           del' \in [Threads -> [pc : {"none", "rows"}, todo : SUBSET RowIds,
                                 done : SUBSET RowIds]],
           UNCHANGED <<logVars, queue, worker, lock, faults>>
    PROVE  IInv'
<1>1. TypeOK'
  BY DEF IInv, TypeOK, logVars
<1>2. Accepted' /\ DeletedStaysEmpty'
  BY DEF IInv, Accepted, DeletedStaysEmpty, logVars
<1>3. \A v \in Workers : ThreadOf(v)' = ThreadOf(v) /\ OwnRow(v)' = OwnRow(v)
  BY DEF ThreadOf, OwnRow, logVars
<1>4. HoldsLock' /\ ReadStable'
  BY <1>3 DEF IInv, HoldsLock, Holds, ReadStable, logVars
<1> QED  BY <1>1, <1>2, <1>4 DEF IInv

LEMMA BeginDeleteInv == ASSUME IInv, NEW t \in Threads, BeginDelete(t) PROVE IInv'
<1>1. Ids(ThreadRows(rows, t)) \in SUBSET RowIds
  BY IdsTyped DEF IInv, TypeOK, ThreadRows
<1> QED  BY <1>1, DelOnly DEF BeginDelete, IInv, TypeOK

LEMMA DeleteRowInv ==
    ASSUME IInv, NEW t \in Threads, NEW i \in RowIds, DeleteRow(t, i)
    PROVE  IInv'
<1> DEFINE new == [del[t] EXCEPT !.todo = @ \ {i}, !.done = @ \cup {i}]
<1>1. del[t] \in [pc : {"none", "rows"}, todo : SUBSET RowIds, done : SUBSET RowIds]
  BY DEF IInv, TypeOK
<1>2. new \in [pc : {"none", "rows"}, todo : SUBSET RowIds, done : SUBSET RowIds]
  BY <1>1
<1>3. del' = [del EXCEPT ![t] = new]
  BY DEF DeleteRow
<1> HIDE DEF new
<1>4. del' \in [Threads -> [pc : {"none", "rows"}, todo : SUBSET RowIds, done : SUBSET RowIds]]
  BY <1>2, <1>3 DEF IInv, TypeOK
<1> QED  BY <1>4, DelOnly DEF DeleteRow

LEMMA AbortDeleteInv == ASSUME IInv, NEW t \in Threads, AbortDelete(t) PROVE IInv'
BY DelOnly DEF AbortDelete, NoDelete, IInv, TypeOK

LEMMA DeleteThreadInv == ASSUME IInv, NEW t \in Threads, DeleteThread(t) PROVE IInv'
<1>1. /\ threadState' = [threadState EXCEPT ![t] = "deleted"]
      /\ rows' = rows \ ThreadRows(rows, t)
      /\ parentOf' = SetNull(parentOf, Ids(ThreadRows(rows, t)))
      /\ del' = [del EXCEPT ![t] = NoDelete]
      /\ UNCHANGED <<req, fate, clock, queue, worker, lock, faults>>
      /\ lock[t] = Null
  BY DEF DeleteThread, LockFree
<1>2. TypeOK'
  BY <1>1, SetNullTyped DEF IInv, TypeOK, NoDelete
<1>3. Accepted'
  BY <1>1 DEF IInv, Accepted
<1>4. \A v \in Workers : ThreadOf(v)' = ThreadOf(v) /\ OwnRow(v)' = OwnRow(v)
  BY <1>1 DEF ThreadOf, OwnRow
<1>5. \A v \in Workers : Holds(v) => ThreadOf(v) # t /\ ThreadOf(v) \in Threads
  BY <1>1, BusyTask, ChatHistoryAssumption DEF IInv, HoldsLock, Holds
<1>6. HoldsLock'
  BY <1>1, <1>4, <1>5 DEF IInv, TypeOK, HoldsLock, Holds
<1>7. \A u : u # t => ThreadRows(rows', u) = ThreadRows(rows, u)
  BY <1>1 DEF ThreadRows
<1>8. ReadStable'
  <2> SUFFICES ASSUME NEW v \in Workers, worker[v].pc \in {"summarise", "commit"}
               PROVE  worker[v].view = ThreadRows(rows', ThreadOf(v)) \cup {OwnRow(v)}
    BY <1>1, <1>4 DEF ReadStable
  <2>1. ThreadOf(v) # t
    BY <1>5 DEF Holds
  <2> QED  BY <1>7, <2>1 DEF IInv, ReadStable
<1>9. DeletedStaysEmpty'
  <2> SUFFICES ASSUME NEW u \in Threads, threadState'[u] # "live"
               PROVE  ThreadRows(rows', u) = {}
    BY DEF DeletedStaysEmpty
  <2>1. CASE u = t
    BY <1>1, <2>1 DEF ThreadRows
  <2>2. CASE u # t
    BY <1>1, <1>7, <2>2 DEF IInv, TypeOK, DeletedStaysEmpty
  <2> QED  BY <2>1, <2>2
<1> QED  BY <1>2, <1>3, <1>6, <1>8, <1>9 DEF IInv

LEMMA EnsureThreadInv == ASSUME IInv, NEW t \in Threads, EnsureThread(t) PROVE IInv'
<1>1. TypeOK'
  BY DEF EnsureThread, IInv, TypeOK
<1>2. Accepted'
  BY DEF EnsureThread, IInv, Accepted
<1>3. \A v \in Workers : ThreadOf(v)' = ThreadOf(v) /\ OwnRow(v)' = OwnRow(v)
  BY DEF EnsureThread, ThreadOf, OwnRow
<1>4. HoldsLock'
  BY <1>3 DEF EnsureThread, IInv, TypeOK, HoldsLock, Holds
<1>5. ReadStable'
  BY <1>3 DEF EnsureThread, IInv, ReadStable
<1>6. DeletedStaysEmpty'
  BY DEF EnsureThread, IInv, TypeOK, DeletedStaysEmpty
<1> QED  BY <1>1, <1>2, <1>4, <1>5, <1>6 DEF IInv

LEMMA RestartInv == ASSUME IInv, Restart PROVE IInv'
<1>1. /\ queue' = <<>>
      /\ worker' = [w \in Workers |-> Idle]
      /\ fate' = [m \in MessageIds |-> IF fate[m] = "pending" THEN "dropped" ELSE fate[m]]
      /\ lock' = [t \in Threads |-> Null]
      /\ del' = [t \in Threads |-> NoDelete]
      /\ UNCHANGED <<threadState, req, rows, parentOf, clock, faults>>
  BY DEF Restart
<1>2. Idle \in Task
  BY DEF Idle, Task, Pc, Row
<1>3. TypeOK'
  BY <1>1, <1>2 DEF IInv, TypeOK, Fate, NoDelete
<1>4. Accepted'
  BY <1>1 DEF IInv, TypeOK, Accepted, Idle
<1>5. HoldsLock' /\ ReadStable' /\ DeletedStaysEmpty'
  BY <1>1 DEF IInv, HoldsLock, Holds, ReadStable, DeletedStaysEmpty, Idle
<1> QED  BY <1>3, <1>4, <1>5 DEF IInv

LEMMA NextInv == IInv /\ [Next]_vars => IInv'
<1> SUFFICES ASSUME IInv, [Next]_vars PROVE IInv'
  OBVIOUS
<1>1. CASE CallerStep
  BY <1>1, EnsureThreadInv, AppendInv DEF CallerStep
<1>2. CASE ServiceStep
  <2>1. ASSUME NEW w \in Workers, WorkerStep(w) PROVE IInv'
    BY <2>1, WorkerInv
  <2>2. ASSUME NEW w \in Workers, DbFault(w) \/ AbortAppend(w) PROVE IInv'
    <3>1. worker[w].pc # "idle"
      BY <2>2 DEF DbFault, AbortAppend, Deadlocked, WaitsForDelete
    <3>2. Abort(w) /\ UNCHANGED clock
      BY <2>2 DEF DbFault, AbortAppend
    <3>3. faults' \in 0 .. MaxFaults
      BY <2>2, ChatHistoryAssumption DEF DbFault, AbortAppend, IInv, TypeOK
    <3> QED  BY <3>1, <3>2, <3>3, AbortInv
  <2>3. ASSUME NEW t \in Deletable, BeginDelete(t) PROVE IInv'
    BY <2>3, BeginDeleteInv, ChatHistoryAssumption
  <2>4. ASSUME NEW t \in Threads, DeleteStep(t) \/ AbortDelete(t) PROVE IInv'
    BY <2>4, DeleteRowInv, DeleteThreadInv, AbortDeleteInv DEF DeleteStep
  <2> QED  BY <1>2, <2>1, <2>2, <2>3, <2>4 DEF ServiceStep, DeadlockStep
<1>3. CASE Restart
  BY <1>3, RestartInv
<1>4. CASE UNCHANGED vars
  <2>1. del' \in [Threads -> [pc : {"none", "rows"}, todo : SUBSET RowIds,
                              done : SUBSET RowIds]]
        /\ UNCHANGED <<logVars, queue, worker, lock, faults>>
    BY <1>4 DEF vars, IInv, TypeOK
  <2> QED  BY <2>1, DelOnly
<1> QED  BY <1>1, <1>2, <1>3, <1>4 DEF Next

-----------------------------------------------------------------------------
(* The theorems *)

THEOREM Inductive == Spec => []IInv
BY InitInv, NextInv, PTL DEF Spec

\* Every variable keeps its type, whatever the numbers of threads, workers,
\* messages, faults and rounds: a compaction of append_message_async writes
\* summaries under row ids of their own, and a deletion leaves no parent_id
\* outside the table's ids.
THEOREM TypeCorrect == Spec => []TypeOK
BY Inductive, PTL DEF IInv

\* The row lock that the flush of updated_at takes covers the whole of
\* _compact_if_needed: the rows it selected are those of its thread when it
\* deletes them, with any number of executor threads and chat threads.
THEOREM ReadsStayValid == Spec => []ReadStable
BY Inductive, PTL DEF IInv

\* hard_delete_thread is final, however many appends to the thread are queued
\* or running when it commits.
THEOREM DeletionIsFinal == Spec => []DeletedStaysEmpty
BY Inductive, PTL DEF IInv

-----------------------------------------------------------------------------
(* The table as a log of messages *)

\* A summary is named after the message whose append wrote it.
Namesake(i) == IF i \in MessageIds THEN i ELSE i - MaxMessages

\* A pending message is in one place: once in the queue, or with one worker.
InOnePlace ==
    /\ \A i \in DOMAIN queue : fate[queue[i]] = "pending"
    /\ \A i, j \in DOMAIN queue : queue[i] = queue[j] => i = j
    /\ \A w \in Workers : worker[w].pc # "idle" => 
          /\ fate[worker[w].msg] = "pending"
          /\ \A i \in DOMAIN queue : queue[i] # worker[w].msg
          /\ \A v \in Workers : worker[v].pc # "idle" /\ worker[v].msg = worker[w].msg => v = w

\* The rows of the table and those a summary tells were written by an append
\* that committed.
NamedAfterStored ==
    \A r \in rows : \A i \in {r.id} \cup r.covers : fate[Namesake(i)] = "stored"

UniqueIds == \A r, s \in rows : r.id = s.id => r = s

StampedInPast == \A w \in Workers : worker[w].pc \notin {"idle", "dequeued"} => worker[w].at \in 1 .. clock

TableInv == InOnePlace /\ NamedAfterStored /\ UniqueIds /\ ToldOnce /\ IsFiniteSet(rows) /\ StampedInPast

RowsOfRequests == \A r \in rows : r.thread = req[Namesake(r.id)].thread

ParentInThread ==
    \A m \in MessageIds : fate[m] # "none" /\ req[m].parent # Null =>
        /\ fate[Namesake(req[m].parent)] # "none"
        /\ req[Namesake(req[m].parent)].thread = req[m].thread

ParentKept ==
    \A w \in Workers : worker[w].pc \in {"summarise", "commit"} => ParentStored(w)

LogInv == TableInv /\ RowsOfRequests /\ ParentInThread /\ ParentKept
-----------------------------------------------------------------------------
LEMMA NamesakeIsMessage == \A i \in RowIds : Namesake(i) \in MessageIds
BY MessageTableAssumption DEF Namesake, RowIds, MessageIds

LEMMA NamesakeOf ==
    ASSUME NEW m \in MessageIds
    PROVE  /\ Namesake(m) = m /\ Namesake(SummaryId(m)) = m
           /\ SummaryId(m) \notin MessageIds /\ SummaryId(m) \in RowIds /\ m \in RowIds
BY MessageTableAssumption DEF Namesake, SummaryId, RowIds, MessageIds

-----------------------------------------------------------------------------
(* A message is in one place *)

LEMMA SubmitOnePlace ==
    ASSUME IInv, InOnePlace, NEW m \in MessageIds, NEW q \in Request, Submit(m, q)
    PROVE  InOnePlace'
<1> USE DEF InOnePlace
<1>1. /\ queue \in Seq(MessageIds) /\ queue' = Append(queue, m)
      /\ fate \in [MessageIds -> Fate]
      /\ fate' = [fate EXCEPT ![m] = "pending"]
      /\ fate[m] = "none" /\ UNCHANGED worker
  BY DEF IInv, TypeOK, Submit
<1>2. \A i \in DOMAIN queue : queue[i] \in MessageIds /\ queue[i] # m
  BY <1>1
<1>3. \A i \in DOMAIN queue' : 
          \/ i \in DOMAIN queue /\ queue'[i] = queue[i]
          \/ i \notin DOMAIN queue /\ i = Len(queue) + 1 /\ queue'[i] = m
  BY <1>1
<1>4. \A i \in DOMAIN queue' : fate'[queue'[i]] = "pending"
  BY <1>1, <1>2, <1>3
<1>5. \A i, j \in DOMAIN queue' : queue'[i] = queue'[j] => i = j
  BY <1>2, <1>3
<1>6. \A w \in Workers : worker[w].pc # "idle" =>
          worker[w].msg \in MessageIds /\ worker[w].msg # m
  BY <1>1, BusyTask
<1>7. \A w \in Workers : worker'[w].pc # "idle" =>
          /\ fate'[worker'[w].msg] = "pending"
          /\ \A i \in DOMAIN queue' : queue'[i] # worker'[w].msg
          /\ \A v \in Workers : worker'[v].pc # "idle" /\ worker'[v].msg = worker'[w].msg => v = w
  BY <1>1, <1>3, <1>6
<1> QED  BY <1>4, <1>5, <1>7

LEMMA DequeueOnePlace ==
    ASSUME IInv, InOnePlace, NEW w \in Workers, Dequeue(w)
    PROVE  InOnePlace'
<1> USE DEF InOnePlace
<1>1. /\ queue \in Seq(MessageIds) /\ queue # <<>> /\ queue' = Tail(queue)
      /\ UNCHANGED fate
      /\ worker[w].pc = "idle"
      /\ worker' = [worker EXCEPT ![w].pc = "dequeued", ![w].msg = Head(queue)]
  BY DEF IInv, TypeOK, Dequeue, logVars
<1>2. Head(queue) = queue[1] /\ 1 \in DOMAIN queue
  BY <1>1
<1>3. worker \in [Workers -> Task] /\ worker[w] \in Task
  BY DEF IInv, TypeOK
<1>4. /\ worker'[w].pc = "dequeued" /\ worker'[w].msg = queue[1]
      /\ \A v \in Workers \ {w} : worker'[v] = worker[v]
  BY <1>1, <1>2, <1>3 DEF Task
<1>5. \A i \in DOMAIN queue' : i \in Nat /\ i + 1 \in DOMAIN queue /\ i + 1 # 1 /\ queue'[i] = queue[i + 1]
  BY <1>1
<1>6. \A i \in DOMAIN queue' : fate'[queue'[i]] = "pending" /\ queue'[i] # queue[1]
  BY <1>1, <1>2, <1>5
<1>7. \A i, j \in DOMAIN queue' : queue'[i] = queue'[j] => i = j
  <2> SUFFICES ASSUME NEW i \in DOMAIN queue', NEW j \in DOMAIN queue', queue'[i] = queue'[j]
               PROVE  i = j
    OBVIOUS
  <2>1. i + 1 = j + 1
    BY <1>5
  <2> QED  BY <1>5, <2>1
<1>8. ASSUME NEW v \in Workers, worker'[v].pc # "idle"
      PROVE  /\ fate'[worker'[v].msg] = "pending"
             /\ \A i \in DOMAIN queue' : queue'[i] # worker'[v].msg
             /\ \A x \in Workers : worker'[x].pc # "idle" /\ worker'[x].msg = worker'[v].msg => x = v
  <2>1. \A x \in Workers \ {w} : worker'[x].pc # "idle" => 
            worker'[x].msg = worker[x].msg /\ worker[x].pc # "idle" /\ queue[1] # worker[x].msg
    BY <1>2, <1>4
  <2>2. CASE v = w
    <3>1. worker'[v].msg = queue[1]
      BY <1>4, <2>2
    <3>2. fate'[queue[1]] = "pending"
      BY <1>1, <1>2
    <3>3. \A i \in DOMAIN queue' : queue'[i] # queue[1]
      BY <1>6
    <3>4. \A x \in Workers : worker'[x].pc # "idle" /\ worker'[x].msg = queue[1] => x = v
      BY <2>1, <2>2
    <3> QED  BY <3>1, <3>2, <3>3, <3>4
  <2>3. CASE v # w
    <3>1. worker'[v] = worker[v] /\ worker[v].pc # "idle"
      BY <1>4, <1>8, <2>3
    <3>2. fate'[worker[v].msg] = "pending"
      BY <1>1, <3>1
    <3>3. \A i \in DOMAIN queue' : queue'[i] # worker[v].msg
      BY <1>5, <3>1
    <3>4. \A x \in Workers : worker'[x].pc # "idle" /\ worker'[x].msg = worker[v].msg => x = v
      BY <1>2, <1>4, <3>1
    <3> QED  BY <3>1, <3>2, <3>3, <3>4
  <2> QED  BY <2>2, <2>3
<1> QED  BY <1>6, <1>7, <1>8

\* A task that only moves on, and steps of nobody's task.
LEMMA MoveOnePlace ==
    ASSUME InOnePlace, UNCHANGED <<fate, queue>>,
           \A v \in Workers : worker'[v].pc # "idle" => 
               worker[v].pc # "idle" /\ worker'[v].msg = worker[v].msg
    PROVE  InOnePlace'
BY DEF InOnePlace

LEMMA SettleOnePlace ==
    ASSUME IInv, InOnePlace, NEW w \in Workers, worker[w].pc # "idle",
           NEW f \in {"stored", "dropped"}, Settle(w, f), UNCHANGED <<req, queue>>
    PROVE  InOnePlace' 
<1> USE DEF InOnePlace
<1> DEFINE m == worker[w].msg
<1>1. /\ fate \in [MessageIds -> Fate] /\ fate' = [fate EXCEPT ![m] = f] /\ m \in MessageIds
      /\ worker'[w] = Idle /\ \A v \in Workers \ {w} : worker'[v] = worker[v]
  BY BusyTask, SettleTyped DEF IInv, TypeOK, Settle
<1>2. \A i \in DOMAIN queue : queue[i] \in MessageIds /\ queue[i] # m
  BY DEF IInv, TypeOK
<1>3. \A i \in DOMAIN queue' : fate'[queue'[i]] = "pending"
  BY <1>1, <1>2
<1>4. \A v \in Workers : worker'[v].pc # "idle" => v # w /\ worker'[v] = worker[v]
  BY <1>1 DEF Idle
<1>5. \A v \in Workers : worker'[v].pc # "idle" => worker[v].msg \in MessageIds /\ worker[v].msg # m
  BY <1>4, BusyTask
<1> HIDE DEF m
<1> QED  BY <1>1, <1>3, <1>4, <1>5

LEMMA RestartOnePlace ==
    ASSUME Restart
    PROVE  InOnePlace'
BY DEF Restart, InOnePlace, Idle

-----------------------------------------------------------------------------
(* The table: what is stored, and what summaries tell of it *)

RowsInv == NamedAfterStored /\ UniqueIds /\ ToldOnce /\ IsFiniteSet(rows)

\* Steps that store nothing.
LEMMA RowsKept ==
    ASSUME TypeOK, RowsInv, rows' \subseteq rows,
           \A m \in MessageIds : fate[m] = "stored" => fate'[m] = "stored"
    PROVE  RowsInv'
<1> USE DEF RowsInv
<1>1. \A r \in rows : {r.id} \cup r.covers \subseteq RowIds
  BY DEF TypeOK, Row
<1>2. NamedAfterStored'
  BY <1>1, NamesakeIsMessage DEF NamedAfterStored
<1>3. UniqueIds'
  BY DEF UniqueIds
<1>4. ToldOnce'
  BY DEF ToldOnce, Ids
<1>5. IsFiniteSet(rows')
  BY FS_Subset
<1> QED  BY <1>2, <1>3, <1>4, <1>5

\* The ids that a commit brings are new to the table and to its summaries.
LEMMA CommitIsFresh ==
    ASSUME IInv, InOnePlace, RowsInv, NEW w \in Workers, Commit(w)
    PROVE  /\ worker[w].msg \in MessageIds
           /\ fate[worker[w].msg] = "pending"
           /\ \A r \in rows : \A i \in {r.id} \cup r.covers :
                 i \in RowIds /\ Namesake(i) # worker[w].msg
                 /\ i # worker[w].msg /\ i # SummaryId(worker[w].msg)
<1>1. worker[w].pc # "idle" /\ worker[w].msg \in MessageIds /\ fate[worker[w].msg] = "pending"
  BY BusyTask DEF Commit, InOnePlace
<1>2. \A r \in rows : \A i \in {r.id} \cup r.covers : i \in RowIds /\ fate[Namesake(i)] = "stored"
  BY DEF IInv, TypeOK, Row, RowsInv, NamedAfterStored
<1> QED  BY <1>1, <1>2, NamesakeOf

\* What a commit adds and deletes, told row by row.
LEMMA CommitAdds ==
    ASSUME IInv, NEW w \in Workers, Commit(w)
    PROVE  /\ OwnRow(w).id = worker[w].msg /\ OwnRow(w).covers = {} /\ OwnRow(w).role # "summary"
           /\ Dead(w) \subseteq rows \cup {OwnRow(w)}
           /\ \A s \in SummaryOf(w) : /\ s.id = SummaryId(worker[w].msg)
                                      /\ s.role = "summary"
                                      /\ s.covers = Ids(Dead(w))
           /\ \A s, u \in SummaryOf(w) : s = u
           /\ IsFiniteSet(SummaryOf(w))
           /\ rows' = (rows \cup {OwnRow(w)} \cup SummaryOf(w)) \ Dead(w)
<1>1. worker[w].pc = "commit" /\ worker[w].pc # "idle"
  BY DEF Commit
<1>2. worker[w].view = ThreadRows(rows, ThreadOf(w)) \cup {OwnRow(w)}
  BY <1>1 DEF IInv, ReadStable
<1>3. Dead(w) \subseteq rows \cup {OwnRow(w)}
  BY <1>2, DeletedWereRead DEF Dead, ThreadRows
<1>4. OwnRow(w).role # "summary"
  BY <1>1, BusyTask DEF OwnRow, MessageRow, Request, MessageRole
<1>5. OwnRow(w).id = worker[w].msg /\ OwnRow(w).covers = {}
  BY DEF OwnRow, MessageRow
<1>6. \A s \in SummaryOf(w) : /\ s.id = SummaryId(worker[w].msg)
                              /\ s.role = "summary"
                              /\ s.covers = Ids(Dead(w))
  BY DEF SummaryOf, Added, Dead, Deleted
<1>7. \A s, u \in SummaryOf(w) : s = u
  BY DEF SummaryOf, Added
<1>8. IsFiniteSet(SummaryOf(w))
  <2>1. CASE SummaryOf(w) = {}
    BY <2>1, FS_EmptySet
  <2>2. CASE SummaryOf(w) # {}
    <3>1. PICK s : SummaryOf(w) = {s}
      BY <1>7, <2>2
    <3> QED  BY <3>1, FS_Singleton
  <2> QED  BY <2>1, <2>2
<1> QED  BY <1>3, <1>4, <1>5, <1>6, <1>7, <1>8 DEF Commit

LEMMA CommitRows ==
    ASSUME IInv, InOnePlace, RowsInv, NEW w \in Workers, Commit(w)
    PROVE  RowsInv'
<1> DEFINE m == worker[w].msg
           own == OwnRow(w)
           S == SummaryOf(w)
           D == Dead(w)
<1>1. /\ m \in MessageIds
      /\ \A r \in rows : \A i \in {r.id} \cup r.covers :
            i \in RowIds /\ Namesake(i) # m /\ i # m /\ i # SummaryId(m)
  BY CommitIsFresh
<1>2. /\ own.id = m /\ own.covers = {} /\ own.role # "summary"
      /\ D \subseteq rows \cup {own}
      /\ \A s \in S : s.id = SummaryId(m) /\ s.role = "summary" /\ s.covers = Ids(D)
      /\ \A s, u \in S : s = u
      /\ IsFiniteSet(S)
      /\ rows' = (rows \cup {own} \cup S) \ D
  BY CommitAdds
<1>3. /\ fate \in [MessageIds -> Fate] /\ fate' = [fate EXCEPT ![m] = "stored"]
  BY DEF IInv, TypeOK, Commit, Settle
<1> HIDE DEF m, own, S, D
<1>4. SummaryId(m) # m /\ Namesake(m) = m /\ Namesake(SummaryId(m)) = m
  BY <1>1, NamesakeOf
<1>5. \A i \in Ids(D) : i = m \/ i \in Ids(rows)
  BY <1>2 DEF Ids
<1>6. NamedAfterStored'
  <2> SUFFICES ASSUME NEW r \in rows', NEW i \in {r.id} \cup r.covers
               PROVE  fate'[Namesake(i)] = "stored"
    BY DEF NamedAfterStored
  <2>1. \A j \in Ids(rows) : j \in RowIds /\ fate[Namesake(j)] = "stored"
    BY <1>1 DEF RowsInv, NamedAfterStored, Ids
  <2>2. CASE r \in rows
    <3>1. i \in RowIds /\ fate[Namesake(i)] = "stored"
      BY <1>1, <2>2 DEF RowsInv, NamedAfterStored
    <3> QED  BY <1>3, <3>1, NamesakeIsMessage
  <2>3. CASE r = own
    BY <1>1, <1>2, <1>3, <1>4, <2>3
  <2>4. CASE r \in S
    <3>1. i = SummaryId(m) \/ i = m \/ i \in Ids(rows)
      BY <1>2, <1>5, <2>4
    <3> QED  BY <1>1, <1>3, <1>4, <2>1, <3>1, NamesakeIsMessage
  <2> QED  BY <1>2, <2>2, <2>3, <2>4
<1>7. UniqueIds'
  BY <1>1, <1>2, <1>4 DEF RowsInv, UniqueIds
<1>8. ToldOnce'
  <2>1. ASSUME NEW s \in rows', s.role = "summary"
        PROVE  s.covers \cap Ids(rows') = {}
    <3> SUFFICES ASSUME NEW r \in rows', r.id \in s.covers
                 PROVE  FALSE
      BY DEF Ids
    <3>1. CASE s \in rows
      BY <1>1, <1>2, <2>1, <3>1 DEF RowsInv, ToldOnce, Ids
    <3>2. CASE s \in S
      <4>1. PICK d \in D : d.id = r.id
        BY <1>2, <3>2 DEF Ids
      <4>2. d # r
        BY <1>2
      <4> QED  BY <1>1, <1>2, <1>4, <4>1, <4>2 DEF RowsInv, UniqueIds
    <3> QED  BY <1>2, <2>1, <3>1, <3>2
  <2>2. ASSUME NEW s \in rows', NEW u \in rows', s.role = "summary", u.role = "summary", u # s
        PROVE  u.covers \cap s.covers = {}
    <3>1. CASE s \in rows /\ u \in rows
      BY <2>2, <3>1 DEF RowsInv, ToldOnce
    <3>2. ASSUME NEW x \in rows, x.role = "summary", NEW y \in S
          PROVE  x.covers \cap y.covers = {}
      BY <1>1, <1>2, <1>5, <3>2 DEF RowsInv, ToldOnce
    <3> QED  BY <1>2, <2>2, <3>1, <3>2
  <2> QED  BY <2>1, <2>2 DEF ToldOnce
<1>9. IsFiniteSet(rows')
  <2>1. IsFiniteSet(rows \cup {own})
    BY FS_AddElement DEF RowsInv
  <2>2. IsFiniteSet(rows \cup {own} \cup S)
    BY <1>2, <2>1, FS_Union
  <2> QED  BY <1>2, <2>2, FS_Subset
<1> QED  BY <1>6, <1>7, <1>8, <1>9 DEF RowsInv

-----------------------------------------------------------------------------
(* The steps of ChatHistory and of its callers *)

LEMMA SubmitTable ==
    ASSUME IInv, TableInv, NEW m \in MessageIds, NEW q \in Request, Submit(m, q)
    PROVE  TableInv'
<1>1. InOnePlace'
  BY SubmitOnePlace DEF TableInv
<1>2. \A k \in MessageIds : fate[k] = "stored" => fate'[k] = "stored"
  BY DEF Submit, IInv, TypeOK
<1>3. RowsInv'
  BY <1>2, RowsKept DEF TableInv, RowsInv, IInv, Submit
<1>4. StampedInPast'
  BY DEF TableInv, StampedInPast, Submit
<1> QED  BY <1>1, <1>3, <1>4 DEF TableInv, RowsInv

\* A task ends without storing anything.
LEMMA AbortTable ==
    ASSUME IInv, TableInv, NEW w \in Workers, worker[w].pc # "idle", Abort(w), UNCHANGED clock
    PROVE  TableInv'
<1>1. Settle(w, "dropped") /\ UNCHANGED <<threadState, req, rows, parentOf, queue, del>>
  BY DEF Abort
<1>2. InOnePlace'
  BY <1>1, SettleOnePlace DEF TableInv
<1>3. fate \in [MessageIds -> Fate] /\ fate[worker[w].msg] = "pending"
  BY DEF IInv, TypeOK, TableInv, InOnePlace
<1>4. \A k \in MessageIds : fate[k] = "stored" => fate'[k] = "stored"
  BY <1>1, <1>3 DEF Settle
<1>5. RowsInv'
  BY <1>1, <1>4, RowsKept DEF TableInv, RowsInv, IInv
<1>6. StampedInPast'
  <2>1. worker'[w] = Idle /\ \A v \in Workers \ {w} : worker'[v] = worker[v]
    BY <1>1, SettleTyped
  <2> QED  BY <2>1 DEF TableInv, StampedInPast, Idle
<1> QED  BY <1>2, <1>5, <1>6 DEF TableInv, RowsInv

\* A task moves on, or no task does.
LEMMA MoveTable ==
    ASSUME IInv, TableInv, UNCHANGED <<fate, queue>>, rows' \subseteq rows,
           clock' \in Nat, clock <= clock',
           \A v \in Workers :
               \/ worker'[v] = worker[v]
               \/ /\ worker[v].pc # "idle" /\ worker'[v].msg = worker[v].msg
                  /\ worker'[v].at = worker[v].at /\ worker[v].pc # "dequeued"
               \/ /\ worker[v].pc # "idle" /\ worker'[v].msg = worker[v].msg
                  /\ worker'[v].at \in 1 .. clock'
    PROVE  TableInv'
<1>1. InOnePlace'
  BY MoveOnePlace DEF TableInv
<1>2. RowsInv'
  BY RowsKept DEF TableInv, RowsInv, IInv
<1>3. StampedInPast'
  BY DEF TableInv, StampedInPast, IInv, TypeOK
<1> QED  BY <1>1, <1>2, <1>3 DEF TableInv, RowsInv

LEMMA TaskOf ==
    ASSUME IInv, NEW w \in Workers
    PROVE  worker \in [Workers -> Task] /\ worker[w] \in Task /\ clock \in Nat
BY DEF IInv, TypeOK

LEMMA WorkerTable ==
    ASSUME IInv, TableInv, NEW w \in Workers, WorkerStep(w)
    PROVE  TableInv'
<1>1. CASE Dequeue(w)
  <2>1. InOnePlace'
    BY <1>1, DequeueOnePlace DEF TableInv
  <2>2. RowsInv'
    BY <1>1, RowsKept DEF Dequeue, logVars, TableInv, RowsInv, IInv
  <2>3. /\ worker'[w].pc = "dequeued" /\ UNCHANGED clock
        /\ \A v \in Workers \ {w} : worker'[v] = worker[v]
    BY <1>1, TaskOf DEF Dequeue, logVars, Task
  <2>4. StampedInPast'
    BY <2>3 DEF StampedInPast, TableInv
  <2> QED  BY <2>1, <2>2, <2>4 DEF TableInv, RowsInv
<1>2. CASE Begin(w)
  <2>1. CASE threadState[ThreadOf(w)] = "live"
    <3>1. /\ UNCHANGED <<fate, queue, rows>> /\ clock' = clock + 1
          /\ worker[w].pc # "idle"
          /\ worker' = [worker EXCEPT ![w].pc = "found", ![w].at = clock + 1]
      BY <1>2, <2>1 DEF Begin
    <3>2. /\ worker'[w].msg = worker[w].msg /\ worker'[w].at = clock + 1
          /\ \A v \in Workers \ {w} : worker'[v] = worker[v]
      BY <3>1, TaskOf DEF Task
    <3>3. clock' \in Nat /\ clock <= clock' /\ worker'[w].at \in 1 .. clock'
      BY <3>1, <3>2, TaskOf
    <3> QED  BY <3>1, <3>2, <3>3, MoveTable
  <2>2. CASE threadState[ThreadOf(w)] # "live"
    BY <1>2, <2>2, AbortTable DEF Begin
  <2> QED  BY <2>1, <2>2
<1>3. CASE Touch(w)
  <2>1. CASE ThreadFound(ThreadOf(w))
    <3>1. /\ UNCHANGED <<fate, queue, rows, clock>> /\ worker[w].pc = "found"
          /\ worker' = [worker EXCEPT ![w].pc = "touched"]
      BY <1>3, <2>1 DEF Touch
    <3>2. /\ worker'[w].msg = worker[w].msg /\ worker'[w].at = worker[w].at
          /\ \A v \in Workers \ {w} : worker'[v] = worker[v]
      BY <3>1, TaskOf DEF Task
    <3> QED  BY <3>1, <3>2, TaskOf, MoveTable
  <2>2. CASE ~ThreadFound(ThreadOf(w))
    BY <1>3, <2>2, AbortTable DEF Touch
  <2> QED  BY <2>1, <2>2
<1>4. CASE Insert(w)
  <2>1. CASE ParentStored(w)
    <3> DEFINE R == ThreadRows(rows, ThreadOf(w)) \cup {OwnRow(w)}
               pc == IF NeedsCompaction(R) THEN "summarise" ELSE "commit"
    <3>1. /\ UNCHANGED <<fate, queue, rows, clock>> /\ worker[w].pc = "touched"
          /\ worker' = [worker EXCEPT ![w].pc = pc, ![w].view = R]
      BY <1>4, <2>1 DEF Insert
    <3> HIDE DEF R, pc
    <3>2. /\ worker'[w].msg = worker[w].msg /\ worker'[w].at = worker[w].at
          /\ \A v \in Workers \ {w} : worker'[v] = worker[v]
      BY <3>1, TaskOf DEF Task
    <3> QED  BY <3>1, <3>2, TaskOf, MoveTable
  <2>2. CASE ~ParentStored(w)
    BY <1>4, <2>2, AbortTable DEF Insert
  <2> QED  BY <2>1, <2>2
<1>5. CASE Summarise(w)
  <2>1. PICK ok \in BOOLEAN : worker' = [worker EXCEPT ![w].pc = "commit", ![w].ok = ok]
    BY <1>5 DEF Summarise
  <2>2. UNCHANGED <<fate, queue, rows, clock>> /\ worker[w].pc = "summarise"
    BY <1>5 DEF Summarise, logVars
  <2>3. /\ worker'[w].msg = worker[w].msg /\ worker'[w].at = worker[w].at
        /\ \A v \in Workers \ {w} : worker'[v] = worker[v]
    BY <2>1, TaskOf DEF Task
  <2> QED  BY <2>2, <2>3, TaskOf, MoveTable
<1>6. CASE Commit(w)
  <2>1. worker[w].pc # "idle" /\ Settle(w, "stored") /\ UNCHANGED <<req, queue, clock>>
    BY <1>6 DEF Commit
  <2>2. InOnePlace'
    BY <2>1, SettleOnePlace DEF TableInv
  <2>3. RowsInv'
    BY <1>6, CommitRows DEF TableInv, RowsInv
  <2>4. worker'[w] = Idle /\ \A v \in Workers \ {w} : worker'[v] = worker[v]
    BY <2>1, SettleTyped
  <2>5. StampedInPast'
    BY <2>1, <2>4 DEF TableInv, StampedInPast, Idle
  <2> QED  BY <2>2, <2>3, <2>5 DEF TableInv, RowsInv
<1> QED  BY <1>1, <1>2, <1>3, <1>4, <1>5, <1>6 DEF WorkerStep

LEMMA ServiceTable ==
    ASSUME IInv, TableInv, ServiceStep
    PROVE  TableInv'
<1>1. ASSUME NEW w \in Workers, DbFault(w) \/ AbortAppend(w)
      PROVE  TableInv'
  <2>1. worker[w].pc # "idle" /\ Abort(w) /\ UNCHANGED clock
    BY <1>1 DEF DbFault, AbortAppend, Deadlocked, WaitsForDelete
  <2> QED  BY <2>1, AbortTable
<1>2. ASSUME NEW t \in Threads, BeginDelete(t) \/ DeleteStep(t) \/ AbortDelete(t)
      PROVE  TableInv'
  <2>1. UNCHANGED <<fate, queue, worker, clock>> /\ rows' \subseteq rows
    BY <1>2 DEF BeginDelete, DeleteStep, DeleteThread, DeleteRow, AbortDelete, logVars
  <2>2. clock \in Nat
    BY DEF IInv, TypeOK
  <2> QED  BY <2>1, <2>2, MoveTable
<1> QED  BY <1>1, <1>2, WorkerTable, ChatHistoryAssumption DEF ServiceStep, DeadlockStep

LEMMA EnsureThreadTable ==
    ASSUME IInv, TableInv, NEW t \in Threads, EnsureThread(t)
    PROVE  TableInv'
<1>1. UNCHANGED <<fate, queue, worker, clock, rows>> /\ clock \in Nat
  BY DEF EnsureThread, IInv, TypeOK
<1> QED  BY <1>1, MoveTable

LEMMA RestartTable ==
    ASSUME IInv, TableInv, Restart
    PROVE  TableInv'
<1>1. InOnePlace'
  BY RestartOnePlace
<1>2. \A k \in MessageIds : fate[k] = "stored" => fate'[k] = "stored"
  BY DEF Restart
<1>3. RowsInv'
  BY <1>2, RowsKept DEF TableInv, RowsInv, IInv, Restart
<1>4. StampedInPast'
  BY DEF Restart, StampedInPast, Idle
<1> QED  BY <1>1, <1>3, <1>4 DEF TableInv, RowsInv

LEMMA StutterTable ==
    ASSUME IInv, TableInv, UNCHANGED vars
    PROVE  TableInv'
<1>1. UNCHANGED <<fate, queue, worker, clock, rows>> /\ clock \in Nat
  BY DEF vars, logVars, IInv, TypeOK
<1> QED  BY <1>1, MoveTable

LEMMA InitTable == Init => TableInv
<1> SUFFICES ASSUME Init PROVE TableInv
  OBVIOUS
<1>1. InOnePlace /\ StampedInPast
  BY DEF Init, Idle, InOnePlace, StampedInPast
<1>2. NamedAfterStored /\ UniqueIds /\ ToldOnce
  BY DEF Init, NamedAfterStored, UniqueIds, ToldOnce
<1>3. IsFiniteSet(rows)
  BY FS_EmptySet DEF Init
<1> QED  BY <1>1, <1>2, <1>3 DEF TableInv

-----------------------------------------------------------------------------
(* Parents: what the foreign key saw at the INSERT holds at the commit *)

ParentInv == RowsOfRequests /\ ParentInThread /\ ParentKept

\* The row that is the parent of a message is of its thread.
LEMMA ParentRow ==
    ASSUME IInv, TableInv, ParentInv, NEW w \in Workers, worker[w].pc # "idle",
           NEW r \in rows, r.id = ParentOf(w)
    PROVE  r.thread = ThreadOf(w)
<1>1. worker[w].msg \in MessageIds /\ fate[worker[w].msg] # "none"
  BY BusyTask
<1>2. r.id \in RowIds /\ r.id # Null
  BY MessageTableAssumption DEF IInv, TypeOK, Row
<1> QED  BY <1>1, <1>2 DEF ParentInv, ParentInThread, RowsOfRequests, ParentOf, ThreadOf

LEMMA SubmitParents ==
    ASSUME IInv, TableInv, ParentInv, NEW m \in MessageIds, NEW q \in Request, Submit(m, q),
           q.parent # Null => /\ fate[Namesake(q.parent)] # "none"
                              /\ req[Namesake(q.parent)].thread = q.thread
    PROVE  ParentInv'
<1> USE DEF ParentInv
<1> DEFINE t == q.thread
           p == q.parent
<1>2. /\ req \in [MessageIds -> Request \cup {Null}] /\ fate \in [MessageIds -> Fate]
      /\ fate[m] = "none" /\ fate' = [fate EXCEPT ![m] = "pending"]
      /\ req' = [req EXCEPT ![m] = q]
      /\ UNCHANGED <<rows, worker>>
  BY DEF Submit, IInv, TypeOK
<1>3. \A r \in rows : /\ r.id \in RowIds /\ Namesake(r.id) \in MessageIds
                      /\ fate[Namesake(r.id)] = "stored"
  BY NamesakeIsMessage DEF IInv, TypeOK, Row, TableInv, NamedAfterStored
<1>4. RowsOfRequests'
  BY <1>2, <1>3 DEF RowsOfRequests
<1>5. p # Null => /\ p \in RowIds /\ fate[Namesake(p)] # "none"
                  /\ req[Namesake(p)].thread = t
  BY DEF Request
<1>6. ParentInThread'
  <2> SUFFICES ASSUME NEW k \in MessageIds, fate'[k] # "none", req'[k].parent # Null
               PROVE  /\ fate'[Namesake(req'[k].parent)] # "none"
                      /\ req'[Namesake(req'[k].parent)].thread = req'[k].thread
    BY DEF ParentInThread
  <2>1. CASE k = m
    BY <1>2, <1>5, <2>1, NamesakeIsMessage
  <2>2. CASE k # m
    <3>1. /\ req'[k] = req[k] /\ fate[k] # "none" /\ req[k] \in Request
      BY <1>2, <2>2 DEF IInv, Accepted
    <3>2. req[k].parent \in RowIds
      BY <3>1 DEF Request
    <3>3. /\ Namesake(req[k].parent) \in MessageIds /\ fate[Namesake(req[k].parent)] # "none"
          /\ req[Namesake(req[k].parent)].thread = req[k].thread
      BY <3>1, <3>2, NamesakeIsMessage DEF ParentInThread
    <3> QED  BY <1>2, <3>1, <3>3
  <2> QED  BY <2>1, <2>2
<1>7. ParentKept'
  <2> SUFFICES ASSUME NEW w \in Workers, worker[w].pc \in {"summarise", "commit"}
               PROVE  ParentStored(w)'
    BY <1>2 DEF ParentKept
  <2>1. worker[w].msg \in MessageIds /\ worker[w].msg # m
    BY <1>2, BusyTask
  <2>2. ParentOf(w)' = ParentOf(w)
    BY <1>2, <2>1 DEF ParentOf
  <2> QED  BY <1>2, <2>2 DEF ParentKept, ParentStored
<1> QED  BY <1>4, <1>6, <1>7

\* All other steps leave the requests alone.
LEMMA RequestsKeepParents ==
    ASSUME IInv, ParentInv, UNCHANGED req,
           \A k \in MessageIds : fate[k] # "none" <=> fate'[k] # "none"
    PROVE  ParentInThread'
<1> SUFFICES ASSUME NEW k \in MessageIds, fate[k] # "none", req[k].parent # Null
             PROVE  fate'[Namesake(req[k].parent)] # "none"
  BY DEF ParentInThread, ParentInv
<1>1. req[k].parent \in RowIds
  BY DEF IInv, Accepted, Request
<1> QED  BY <1>1, NamesakeIsMessage DEF ParentInThread, ParentInv

LEMMA FatesKept ==
    ASSUME IInv, ServiceStep \/ Restart \/ UNCHANGED vars \/ \E t \in Threads : EnsureThread(t)
    PROVE  /\ UNCHANGED req
           /\ \A k \in MessageIds : fate[k] # "none" <=> fate'[k] # "none"
<1> DEFINE Good == /\ UNCHANGED req
                   /\ \A k \in MessageIds : fate[k] # "none" <=> fate'[k] # "none"
<1>1. fate \in [MessageIds -> Fate]
  BY DEF IInv, TypeOK
<1>2. ASSUME NEW w \in Workers, worker[w].pc # "idle", NEW f \in {"stored", "dropped"},
             Settle(w, f), UNCHANGED req
      PROVE  Good
  <2>1. worker[w].msg \in MessageIds /\ fate[worker[w].msg] # "none"
    BY <1>2, BusyTask
  <2> QED  BY <1>1, <1>2, <2>1 DEF Settle
<1>3. ASSUME NEW w \in Workers, worker[w].pc # "idle", Abort(w)
      PROVE  Good
  BY <1>2, <1>3 DEF Abort
<1>4. CASE UNCHANGED <<req, fate>>
  BY <1>4
<1>5. ASSUME NEW w \in Workers, WorkerStep(w)
      PROVE  Good
  <2>1. CASE Dequeue(w) \/ Summarise(w)
    BY <1>4, <2>1 DEF Dequeue, Summarise, logVars
  <2>2. CASE Begin(w)
    BY <1>3, <1>4, <2>2 DEF Begin
  <2>3. CASE Touch(w)
    BY <1>3, <1>4, <2>3 DEF Touch
  <2>4. CASE Insert(w)
    BY <1>3, <1>4, <2>4 DEF Insert
  <2>5. CASE Commit(w)
    BY <1>2, <2>5 DEF Commit
  <2> QED  BY <1>5, <2>1, <2>2, <2>3, <2>4, <2>5 DEF WorkerStep
<1>6. ASSUME NEW w \in Workers, DbFault(w) \/ AbortAppend(w)
      PROVE  Good
  <2>1. worker[w].pc # "idle" /\ Abort(w)
    BY <1>6 DEF DbFault, AbortAppend, Deadlocked, WaitsForDelete
  <2> QED  BY <1>3, <2>1
<1>7. ASSUME NEW t, BeginDelete(t) \/ DeleteStep(t) \/ AbortDelete(t)
      PROVE  Good
  BY <1>4, <1>7 DEF BeginDelete, DeleteStep, DeleteThread, DeleteRow, AbortDelete, logVars
<1>8. CASE Restart
  BY <1>1, <1>8 DEF Restart
<1>9. CASE UNCHANGED vars \/ \E t \in Threads : EnsureThread(t)
  BY <1>4, <1>9 DEF vars, logVars, EnsureThread
<1>10. CASE ServiceStep
  BY <1>5, <1>6, <1>7, <1>10 DEF ServiceStep, DeadlockStep
<1> QED  BY <1>8, <1>9, <1>10

\* A step that takes no row that a task still needs as a parent.
LEMMA RowsKeepParents ==
    ASSUME IInv, TableInv, ParentInv, UNCHANGED req,
           \A k \in MessageIds : fate[k] # "none" <=> fate'[k] # "none",
           \A r \in rows' : r \in rows \/ r.thread = req[Namesake(r.id)].thread,
           \A w \in Workers : worker'[w].pc \in {"summarise", "commit"} =>
              /\ worker[w].pc # "idle" /\ worker'[w].msg = worker[w].msg
              /\ ParentStored(w)
              /\ \A r \in rows : r.thread = ThreadOf(w) => r \in rows'
    PROVE  ParentInv'
<1>1. RowsOfRequests'
  BY DEF ParentInv, RowsOfRequests
<1>2. ParentInThread'
  BY RequestsKeepParents
<1>3. ParentKept'
  <2> SUFFICES ASSUME NEW w \in Workers, worker'[w].pc \in {"summarise", "commit"},
                      ParentOf(w) # Null
               PROVE  ParentOf(w)' \in Ids(rows')
    BY DEF ParentKept, ParentStored, ParentOf
  <2>1. PICK r \in rows : r.id = ParentOf(w)
    BY DEF ParentStored, Ids
  <2>2. r.thread = ThreadOf(w)
    BY <2>1, ParentRow
  <2> QED  BY <2>1, <2>2 DEF Ids, ParentOf
<1> QED  BY <1>1, <1>2, <1>3 DEF ParentInv

LEMMA WorkerParents ==
    ASSUME IInv, TableInv, ParentInv, NEW w \in Workers, WorkerStep(w)
    PROVE  ParentInv'
<1>1. /\ UNCHANGED req
      /\ \A k \in MessageIds : fate[k] # "none" <=> fate'[k] # "none"
  BY FatesKept DEF ServiceStep
<1>2. \A v \in Workers : worker[v].pc \in {"summarise", "commit"} => ParentStored(v)
  BY DEF ParentInv, ParentKept
<1>3. CASE Insert(w) /\ ParentStored(w)
  <2> DEFINE R == ThreadRows(rows, ThreadOf(w)) \cup {OwnRow(w)}
             pc == IF NeedsCompaction(R) THEN "summarise" ELSE "commit"
  <2>1. /\ worker[w].pc = "touched" /\ UNCHANGED rows
        /\ worker' = [worker EXCEPT ![w].pc = pc, ![w].view = R]
    BY <1>3 DEF Insert
  <2> HIDE DEF R, pc
  <2>2. worker'[w].msg = worker[w].msg /\ \A v \in Workers \ {w} : worker'[v] = worker[v]
    BY <2>1, TaskOf DEF Task
  <2>3. \A v \in Workers : worker'[v].pc \in {"summarise", "commit"} =>
            worker[v].pc # "idle" /\ worker'[v].msg = worker[v].msg /\ ParentStored(v)
    BY <1>2, <1>3, <2>1, <2>2
  <2> QED  BY <1>1, <2>1, <2>3, RowsKeepParents
<1>4. CASE Commit(w)
  <2>1. worker[w].pc = "commit" /\ Settle(w, "stored") /\ UNCHANGED <<req, queue>>
    BY <1>4 DEF Commit
  <2>2. worker'[w] = Idle /\ \A v \in Workers \ {w} : worker'[v] = worker[v]
    BY <2>1, SettleTyped
  <2>3. \A v \in Workers : worker'[v].pc \in {"summarise", "commit"} =>
            /\ worker[v].pc # "idle" /\ worker'[v].msg = worker[v].msg
            /\ ParentStored(v)
            /\ \A r \in rows : r.thread = ThreadOf(v) => r \in rows'
    <3> SUFFICES ASSUME NEW v \in Workers, worker'[v].pc \in {"summarise", "commit"}
                 PROVE  /\ worker[v].pc # "idle" /\ worker'[v].msg = worker[v].msg
                        /\ ParentStored(v)
                        /\ \A r \in rows : r.thread = ThreadOf(v) => r \in rows'
      OBVIOUS
    <3>1. v # w /\ worker'[v] = worker[v]
      BY <2>2 DEF Idle
    <3>2. ThreadOf(v) # ThreadOf(w)
      BY <2>1, <3>1 DEF IInv, HoldsLock, Holds
    <3> QED  BY <1>2, <1>4, <3>1, <3>2, CommitIsLocal
  <2>4. \A r \in rows' : r \in rows \/ r.thread = req[Namesake(r.id)].thread
    <3>1. /\ worker[w].msg \in MessageIds /\ OwnRow(w).thread = ThreadOf(w)
          /\ OwnRow(w).id = worker[w].msg
      BY <1>4, <2>1, BusyTask, CommitAdds
    <3>2. \A r \in SummaryOf(w) : r.thread = ThreadOf(w) /\ r.id = SummaryId(worker[w].msg)
      BY DEF SummaryOf, Added
    <3>3. rows' = (rows \cup {OwnRow(w)} \cup SummaryOf(w)) \ Dead(w)
      BY <1>4 DEF Commit
    <3> QED  BY <3>1, <3>2, <3>3, NamesakeOf DEF ThreadOf
  <2> QED  BY <1>1, <2>3, <2>4, RowsKeepParents
<1>5. CASE ~(Insert(w) /\ ParentStored(w)) /\ ~Commit(w)
  <2>1. ASSUME worker[w].pc # "idle", Abort(w)
        PROVE  /\ UNCHANGED rows
               /\ worker'[w] = Idle /\ \A v \in Workers \ {w} : worker'[v] = worker[v]
    BY <2>1, SettleTyped DEF Abort
  <2>2. UNCHANGED rows /\ \A v \in Workers \ {w} : worker'[v] = worker[v]
    <3>1. CASE Dequeue(w) \/ Begin(w) \/ Touch(w)
      BY <2>1, <3>1, TaskOf DEF Dequeue, Begin, Touch, logVars
    <3>2. CASE Insert(w) \/ Summarise(w)
      BY <1>5, <2>1, <3>2, TaskOf DEF Insert, Summarise, logVars
    <3> QED  BY <1>5, <2>1, <3>1, <3>2, TaskOf DEF WorkerStep
  <2>3. worker'[w].pc \in {"summarise", "commit"} =>
            worker[w].pc \in {"summarise", "commit"} /\ worker'[w].msg = worker[w].msg
    BY <1>5, <2>1, TaskOf DEF WorkerStep, Dequeue, Begin, Touch, Insert, Summarise, Task, Idle
  <2>4. \A v \in Workers : worker'[v].pc \in {"summarise", "commit"} =>
            worker[v].pc # "idle" /\ worker'[v].msg = worker[v].msg /\ ParentStored(v)
    BY <1>2, <2>2, <2>3
  <2> QED  BY <1>1, <2>2, <2>4, RowsKeepParents
<1> QED  BY <1>3, <1>4, <1>5

\* Every other step of the service, and the steps of its environment.
LEMMA ServiceParents ==
    ASSUME IInv, TableInv, ParentInv,
           ServiceStep \/ Restart \/ UNCHANGED vars \/ \E t \in Threads : EnsureThread(t)
    PROVE  ParentInv'
<1>1. /\ UNCHANGED req
      /\ \A k \in MessageIds : fate[k] # "none" <=> fate'[k] # "none"
  BY FatesKept
<1>2. \A v \in Workers : worker[v].pc \in {"summarise", "commit"} => ParentStored(v)
  BY DEF ParentInv, ParentKept
<1>3. ASSUME NEW w \in Workers, DbFault(w) \/ AbortAppend(w)
      PROVE  ParentInv'
  <2>1. worker[w].pc # "idle" /\ Abort(w)
    BY <1>3 DEF DbFault, AbortAppend, Deadlocked, WaitsForDelete
  <2>2. /\ UNCHANGED rows
        /\ worker'[w] = Idle /\ \A v \in Workers \ {w} : worker'[v] = worker[v]
    BY <2>1, SettleTyped DEF Abort
  <2>3. \A v \in Workers : worker'[v].pc \in {"summarise", "commit"} =>
            worker[v].pc # "idle" /\ worker'[v].msg = worker[v].msg /\ ParentStored(v)
    BY <1>2, <2>2 DEF Idle
  <2> QED  BY <1>1, <2>2, <2>3, RowsKeepParents
<1>4. ASSUME NEW t \in Threads, DeleteThread(t)
      PROVE  ParentInv'
  <2>1. /\ rows' = rows \ ThreadRows(rows, t) /\ lock[t] = Null /\ UNCHANGED worker
    BY <1>4 DEF DeleteThread, LockFree
  <2>2. \A v \in Workers : worker'[v].pc \in {"summarise", "commit"} =>
            /\ worker[v].pc # "idle" /\ worker'[v].msg = worker[v].msg
            /\ ParentStored(v)
            /\ \A r \in rows : r.thread = ThreadOf(v) => r \in rows'
    <3> SUFFICES ASSUME NEW v \in Workers, worker[v].pc \in {"summarise", "commit"}
                 PROVE  /\ ParentStored(v)
                        /\ \A r \in rows : r.thread = ThreadOf(v) => r \in rows'
      BY <2>1
    <3>1. ThreadOf(v) # t
      BY <2>1, ChatHistoryAssumption DEF IInv, HoldsLock, Holds
    <3> QED  BY <1>2, <2>1, <3>1 DEF ThreadRows
  <2> QED  BY <1>1, <2>1, <2>2, RowsKeepParents
<1>5. CASE UNCHANGED <<rows, worker>>
  BY <1>1, <1>2, <1>5, RowsKeepParents
<1>6. ASSUME NEW t, NEW i, BeginDelete(t) \/ DeleteRow(t, i) \/ AbortDelete(t)
      PROVE  ParentInv'
  BY <1>5, <1>6 DEF BeginDelete, DeleteRow, AbortDelete, logVars
<1>7. CASE Restart
  BY <1>1, <1>7, RowsKeepParents DEF Restart, Idle
<1>8. CASE UNCHANGED vars \/ \E t \in Threads : EnsureThread(t)
  BY <1>5, <1>8 DEF vars, logVars, EnsureThread
<1>9. CASE ServiceStep
  BY <1>3, <1>4, <1>6, <1>9, WorkerParents DEF ServiceStep, DeadlockStep, DeleteStep
<1> QED  BY <1>7, <1>8, <1>9

-----------------------------------------------------------------------------
(* The invariant of the table *)

LEMMA InitLogInv == Init => LogInv
<1> SUFFICES ASSUME Init PROVE LogInv
  OBVIOUS
<1>1. TableInv
  BY InitTable
<1>2. RowsOfRequests /\ ParentInThread /\ ParentKept
  BY DEF Init, RowsOfRequests, ParentInThread, ParentKept, Idle
<1> QED  BY <1>1, <1>2 DEF LogInv

\* What a request may name as its parent.
LEMMA KnownParent ==
    ASSUME IInv, TableInv, ParentInv, NEW t \in Threads, NEW p \in KnownIds(t)
    PROVE  p \in RowIds /\ fate[Namesake(p)] # "none" /\ req[Namesake(p)].thread = t
<1>1. CASE p \in MessageIds /\ fate[p] # "none" /\ req[p].thread = t
  BY <1>1, NamesakeOf
<1>2. CASE p \in Ids(ThreadRows(rows, t))
  <2>1. PICK r \in rows : r.id = p /\ r.thread = t
    BY <1>2 DEF Ids, ThreadRows
  <2>2. p \in RowIds /\ fate[Namesake(p)] = "stored"
    BY <2>1 DEF IInv, TypeOK, Row, TableInv, NamedAfterStored
  <2> QED  BY <2>1, <2>2 DEF ParentInv, RowsOfRequests
<1> QED  BY <1>1, <1>2 DEF KnownIds

LEMMA RequestOfAppend ==
    ASSUME IInv, TableInv, ParentInv, NEW m \in MessageIds, AppendMessageAsync(m)
    PROVE  \E q \in Request :
               /\ Submit(m, q)
               /\ q.parent # Null => /\ fate[Namesake(q.parent)] # "none"
                                     /\ req[Namesake(q.parent)].thread = q.thread
<1> PICK t \in Threads, role \in CallerRoles :
        \E p \in KnownIds(t) \cup {Null} :
            Submit(m, [thread |-> t, role |-> role, parent |-> p])
  BY DEF AppendMessageAsync
<1>1. PICK p \in KnownIds(t) \cup {Null} :
          Submit(m, [thread |-> t, role |-> role, parent |-> p])
  OBVIOUS
<1> DEFINE q == [thread |-> t, role |-> role, parent |-> p]
<1>2. p # Null => p \in RowIds /\ fate[Namesake(p)] # "none" /\ req[Namesake(p)].thread = t
  BY KnownParent
<1>3. q \in Request /\ q.parent = p /\ q.thread = t
  BY <1>2, ChatHistoryAssumption DEF Request
<1> HIDE DEF q
<1>4. Submit(m, q)
  BY <1>1 DEF q
<1> QED  BY <1>2, <1>3, <1>4

LEMMA NextLogInv == IInv /\ LogInv /\ [Next]_vars => LogInv'
<1> SUFFICES ASSUME IInv, LogInv, [Next]_vars PROVE TableInv' /\ ParentInv'
  BY DEF LogInv, ParentInv
<1>1. TableInv /\ ParentInv
  BY DEF LogInv, ParentInv
<1>2. ASSUME NEW m \in MessageIds, AppendMessageAsync(m)
      PROVE  TableInv' /\ ParentInv'
  <2>1. PICK q \in Request :
            /\ Submit(m, q)
            /\ q.parent # Null => /\ fate[Namesake(q.parent)] # "none"
                                  /\ req[Namesake(q.parent)].thread = q.thread
    BY <1>1, <1>2, RequestOfAppend
  <2> QED  BY <1>1, <2>1, SubmitTable, SubmitParents
<1>3. ASSUME NEW t \in Threads, EnsureThread(t)
      PROVE  TableInv' /\ ParentInv'
  BY <1>1, <1>3, EnsureThreadTable, ServiceParents
<1>4. CASE ServiceStep
  BY <1>1, <1>4, ServiceTable, ServiceParents
<1>5. CASE Restart
  BY <1>1, <1>5, RestartTable, ServiceParents
<1>6. CASE UNCHANGED vars
  BY <1>1, <1>6, StutterTable, ServiceParents
<1> QED  BY <1>2, <1>3, <1>4, <1>5, <1>6 DEF Next, CallerStep


-----------------------------------------------------------------------------
(* The refinement of MessageLog *)

\* A task's message and the instant of its row are ones of the log.
LEMMA TaskOfLog ==
    ASSUME IInv, LogInv, NEW w \in Workers, worker[w].pc \notin {"idle", "dequeued"}
    PROVE  /\ worker[w].msg \in MessageIds /\ fate[worker[w].msg] = "pending"
           /\ worker[w].at \in 1 .. clock /\ worker[w].ok \in BOOLEAN
BY BusyTask, TaskOf DEF LogInv, TableInv, InOnePlace, StampedInPast, Task

LEMMA DropIsLog ==
    ASSUME IInv, LogInv, NEW w \in Workers, worker[w].pc # "idle", Abort(w), UNCHANGED clock
    PROVE  Log!NextLog
<1> DEFINE m == worker[w].msg
<1>1. /\ m \in MessageIds /\ fate[m] = "pending" /\ fate \in [MessageIds -> Fate]
  BY BusyTask DEF LogInv, TableInv, InOnePlace, IInv, TypeOK
<1>2. /\ fate' = [fate EXCEPT ![m] = "dropped"]
      /\ UNCHANGED <<threadState, req, rows, parentOf, clock>>
  BY DEF Abort, Settle
<1> HIDE DEF m
<1>3. fate' = [k \in MessageIds |-> IF k \in {m} THEN "dropped" ELSE fate[k]]
  BY <1>1, <1>2
<1>4. Log!Drop({m})
  BY <1>1, <1>2, <1>3 DEF Log!Drop, MessageIds, Log!MessageIds
<1> QED  BY <1>1, <1>4 DEF Log!NextLog, MessageIds, Log!MessageIds

\* The operators of the table are the same in MessageLog as in ChatHistory.
LEMMA SameCardinality == \A S : Log!Cardinality(S) = Cardinality(S)
BY DEF Log!Cardinality, Cardinality

LEMMA SameWindow ==
    ASSUME NEW R
    PROVE  /\ Log!Ids(R) = Ids(R) /\ Log!Users(R) = Users(R)
           /\ Log!Window(R) = Window(R)
           /\ \A r : Log!Before(R, r) = Before(R, r)
BY DEF Log!Ids, Ids, Log!Users, Users, Log!Window, Window, Log!Before, Before

LEMMA SameCompaction ==
    ASSUME NEW R
    PROVE  /\ Log!NeedsCompaction(R) <=> NeedsCompaction(R)
           /\ Log!Selected(R) = Selected(R)
           /\ Log!Trimmed(R) = Trimmed(R)
<1>1. Log!NeedsCompaction(R) <=> NeedsCompaction(R)
  BY SameCardinality, SameWindow DEF Log!NeedsCompaction, NeedsCompaction
<1>2. Log!Selected(R) = Selected(R)
  BY SameCardinality, SameWindow DEF Log!Selected, Selected
<1>3. Log!Trimmed(R) = Trimmed(R)
  <2>1. \A S, r : Log!Cardinality(Log!Before(S, r)) = Cardinality(Before(S, r))
    BY SameCardinality, SameWindow
  <2>2. \A S : Log!Cardinality(S) \div 2 = Cardinality(S) \div 2
    BY SameCardinality
  <2> QED  BY <1>2, <2>1, <2>2, SameCardinality, SameWindow DEF Log!Trimmed, Trimmed
<1> QED  BY <1>1, <1>2, <1>3

\* The commit of a task is Store, with the rows of its own step.
LEMMA StoreIsLog ==
    ASSUME IInv, LogInv, NEW w \in Workers, Commit(w)
    PROVE  Log!NextLog
<1> DEFINE m == worker[w].msg
<1>1. /\ worker[w].pc = "commit" /\ UNCHANGED <<threadState, req, clock>>
      /\ fate' = [fate EXCEPT ![m] = "stored"]
      /\ rows' = (rows \cup {OwnRow(w)} \cup SummaryOf(w)) \ Dead(w)
      /\ parentOf' = SetNull([parentOf EXCEPT ![m] = ParentOf(w)], Ids(Dead(w)))
  BY DEF Commit, Settle
<1>2. m \in MessageIds /\ fate[m] = "pending" /\ worker[w].at \in 1 .. clock /\ worker[w].ok \in BOOLEAN
  BY <1>1, TaskOfLog
<1>3. worker[w].view = ThreadRows(rows, ThreadOf(w)) \cup {OwnRow(w)}
  BY <1>1 DEF IInv, ReadStable
<1>4. threadState[ThreadOf(w)] = "live" /\ ParentStored(w)
  BY <1>1 DEF IInv, HoldsLock, Holds, LogInv, ParentKept
<1>5. Log!Store(m, worker[w].at, worker[w].ok)
  <2> DEFINE now == worker[w].at
             ok == worker[w].ok
             R == ThreadRows(rows, req[m].thread) \cup {MessageRow(m, req[m], now)}
  <2>1. /\ OwnRow(w) = MessageRow(m, req[m], now) /\ R = worker[w].view
        /\ SummaryOf(w) = Added(R, ok, m, req[m].thread, now) /\ Dead(w) = Deleted(R, ok)
    BY <1>3 DEF OwnRow, ThreadOf, SummaryOf, Dead
  <2>3. /\ Log!MessageRow(m, req[m], now) = MessageRow(m, req[m], now)
        /\ Log!ThreadRows(rows, req[m].thread) = ThreadRows(rows, req[m].thread)
    BY DEF Log!MessageRow, MessageRow, Log!ThreadRows, ThreadRows
  <2>4. /\ Log!Deleted(R, ok) = Deleted(R, ok)
        /\ Log!Added(R, ok, m, req[m].thread, now) = Added(R, ok, m, req[m].thread, now)
    BY SameWindow, SameCompaction DEF Log!Deleted, Deleted, Log!Added, Added, Log!SummaryId, SummaryId
  <2>5. /\ Log!Ids(rows) = Ids(rows) /\ Log!Ids(Dead(w)) = Ids(Dead(w))
        /\ Log!SetNull([parentOf EXCEPT ![m] = ParentOf(w)], Ids(Dead(w)))
             = SetNull([parentOf EXCEPT ![m] = ParentOf(w)], Ids(Dead(w)))
    BY DEF Log!Ids, Ids, Log!SetNull, SetNull, Log!RowIds, RowIds
  <2> HIDE DEF R, now, ok, m
  <2>6. /\ fate[m] = "pending" /\ threadState[req[m].thread] = "live"
        /\ req[m].parent = Null \/ req[m].parent \in Ids(rows)
        /\ ParentOf(w) = req[m].parent
    BY <1>2, <1>4 DEF ParentStored, ParentOf, ThreadOf, m
  <2> DEFINE LR == Log!ThreadRows(rows, req[m].thread) \cup {Log!MessageRow(m, req[m], now)}
  <2>7. LR = R
    BY <2>3 DEF R
  <2> HIDE DEF LR
  <2>8. rows' = (rows \cup {Log!MessageRow(m, req[m], now)}
                     \cup Log!Added(LR, ok, m, req[m].thread, now)) \ Log!Deleted(LR, ok)
    BY <1>1, <2>1, <2>3, <2>4, <2>7
  <2>9. parentOf' = Log!SetNull([parentOf EXCEPT ![m] = req[m].parent], Log!Ids(Log!Deleted(LR, ok)))
    BY <1>1, <2>1, <2>4, <2>5, <2>6, <2>7
  <2> QED  BY <1>1, <2>5, <2>6, <2>8, <2>9 DEF Log!Store, LR, now, ok
<1> HIDE DEF m
<1> QED  BY <1>2, <1>5 DEF Log!NextLog, MessageIds, Log!MessageIds

LEMMA DeletionIsLog ==
    ASSUME IInv, LogInv, NEW t \in Threads, DeleteThread(t), threadState[t] = "live"
    PROVE  Log!NextLog
<1>1. /\ threadState' = [threadState EXCEPT ![t] = "deleted"]
      /\ rows' = rows \ ThreadRows(rows, t)
      /\ parentOf' = SetNull(parentOf, Ids(ThreadRows(rows, t)))
      /\ UNCHANGED <<req, fate, clock>>
  BY DEF DeleteThread
<1>2. /\ Log!ThreadRows(rows, t) = ThreadRows(rows, t)
      /\ Log!Ids(ThreadRows(rows, t)) = Ids(ThreadRows(rows, t))
  BY DEF Log!ThreadRows, ThreadRows, Log!Ids, Ids
<1>3. Log!SetNull(parentOf, Ids(ThreadRows(rows, t))) = SetNull(parentOf, Ids(ThreadRows(rows, t)))
  BY DEF Log!SetNull, SetNull, Log!RowIds, RowIds
<1>4. Log!DeleteThread(t)
  BY <1>1, <1>2, <1>3 DEF Log!DeleteThread
<1> QED  BY <1>4 DEF Log!NextLog

LEMMA RestartIsLog == ASSUME IInv, Restart PROVE Log!NextLog
<1> DEFINE M == {m \in MessageIds : fate[m] = "pending"}
<1>1. Log!Drop(M)
  <2>1. fate' = [m \in MessageIds |-> IF m \in M THEN "dropped" ELSE fate[m]]
    BY DEF Restart
  <2> QED  BY <2>1 DEF Restart, Log!Drop, MessageIds, Log!MessageIds
<1>2. M \in SUBSET MessageIds
  OBVIOUS
<1> HIDE DEF M
<1> QED  BY <1>1, <1>2 DEF Log!NextLog, MessageIds, Log!MessageIds

LEMMA CallerIsLog ==
    ASSUME IInv, NEW m \in MessageIds, NEW q \in Request, Submit(m, q)
    PROVE  Log!NextLog
<1>1. Log!Submit(m, q)
  BY DEF Submit, Log!Submit
<1>2. q \in Log!Request
  BY DEF Request, Log!Request, MessageRole, Log!MessageRole, RowIds, Log!RowIds
<1> QED  BY <1>1, <1>2 DEF Log!NextLog, MessageIds, Log!MessageIds

LEMMA WorkerIsLog ==
    ASSUME IInv, LogInv, NEW w \in Workers, WorkerStep(w)
    PROVE  Log!NextLog \/ UNCHANGED logVars
<1>1. ASSUME worker[w].pc # "idle", Abort(w), UNCHANGED clock
      PROVE  Log!NextLog
  BY <1>1, DropIsLog
<1>2. CASE Begin(w)
  <2>1. CASE threadState[ThreadOf(w)] = "live"
    BY <1>2, <2>1 DEF Begin, Log!NextLog, Log!Tick
  <2>2. CASE threadState[ThreadOf(w)] # "live"
    BY <1>1, <1>2, <2>2 DEF Begin
  <2> QED  BY <2>1, <2>2
<1>3. CASE Touch(w)
  BY <1>1, <1>3 DEF Touch, logVars
<1>4. CASE Insert(w)
  BY <1>1, <1>4 DEF Insert, logVars
<1>5. CASE Dequeue(w) \/ Summarise(w)
  BY <1>5 DEF Dequeue, Summarise
<1>6. CASE Commit(w)
  BY <1>6, StoreIsLog
<1> QED  BY <1>2, <1>3, <1>4, <1>5, <1>6 DEF WorkerStep

\* A deletion is in flight for a live thread only.
DeletesLive == \A t \in Threads : del[t].pc = "rows" => threadState[t] = "live"

LEMMA NextDeletesLive ==
    IInv /\ DeletesLive /\ [Next]_vars => DeletesLive'
<1> SUFFICES ASSUME IInv, DeletesLive, [Next]_vars PROVE DeletesLive'
  OBVIOUS
<1> USE DEF DeletesLive
<1>1. CASE UNCHANGED <<threadState, del>>
  BY <1>1
<1>2. ASSUME NEW t \in Threads, EnsureThread(t) PROVE DeletesLive'
  BY <1>2 DEF EnsureThread, IInv, TypeOK
<1>3. ASSUME NEW t \in Threads, BeginDelete(t) PROVE DeletesLive'
  BY <1>3 DEF BeginDelete, IInv, TypeOK, logVars
<1>4. ASSUME NEW t \in Threads, DeleteThread(t) PROVE DeletesLive'
  BY <1>4 DEF DeleteThread, IInv, TypeOK, NoDelete
<1>5. ASSUME NEW t \in Threads, NEW i \in RowIds, DeleteRow(t, i) PROVE DeletesLive'
  <2>1. \A u \in Threads : del'[u].pc = del[u].pc
    BY <1>5 DEF DeleteRow, IInv, TypeOK
  <2> QED  BY <1>5, <2>1 DEF DeleteRow, logVars
<1>6. ASSUME NEW t \in Threads, AbortDelete(t) PROVE DeletesLive'
  BY <1>6 DEF AbortDelete, IInv, TypeOK, NoDelete, logVars
<1>7. CASE Restart
  BY <1>7 DEF Restart, NoDelete
<1>8. ASSUME NEW w \in Workers, WorkerStep(w) \/ DbFault(w) \/ AbortAppend(w) PROVE DeletesLive'
  BY <1>1, <1>8 DEF WorkerStep, Dequeue, Begin, Touch, Insert, Summarise, Commit,
                    DbFault, AbortAppend, Abort, logVars
<1>9. ASSUME NEW m \in MessageIds, AppendMessageAsync(m) PROVE DeletesLive'
  BY <1>1, <1>9 DEF AppendMessageAsync, Submit
<1>10. CASE UNCHANGED vars
  BY <1>1, <1>10 DEF vars, logVars
<1> QED
  BY <1>2, <1>3, <1>4, <1>5, <1>6, <1>7, <1>8, <1>9, <1>10, ChatHistoryAssumption
  DEF Next, CallerStep, ServiceStep, DeadlockStep, DeleteStep

LEMMA NextIsLog ==
    IInv /\ LogInv /\ DeletesLive /\ [Next]_vars => [Log!NextLog]_logVars
<1> SUFFICES ASSUME IInv, LogInv, DeletesLive, [Next]_vars
             PROVE  Log!NextLog \/ UNCHANGED logVars
  OBVIOUS
<1>1. ASSUME NEW m \in MessageIds, AppendMessageAsync(m)
      PROVE  Log!NextLog
  <2>1. PICK q \in Request : Submit(m, q)
    BY <1>1, RequestOfAppend DEF LogInv, ParentInv
  <2> QED  BY <2>1, CallerIsLog
<1>2. ASSUME NEW t \in Threads, EnsureThread(t)
      PROVE  Log!NextLog
  <2>1. Log!CreateThread(t)
    BY <1>2 DEF EnsureThread, Log!CreateThread
  <2> QED  BY <2>1 DEF Log!NextLog
<1>3. ASSUME NEW w \in Workers, DbFault(w) \/ AbortAppend(w)
      PROVE  Log!NextLog
  <2>1. worker[w].pc # "idle" /\ Abort(w) /\ UNCHANGED clock
    BY <1>3 DEF DbFault, AbortAppend, Deadlocked, WaitsForDelete
  <2> QED  BY <2>1, DropIsLog
<1>4. ASSUME NEW t \in Threads, DeleteThread(t)
      PROVE  Log!NextLog
  BY <1>4, DeletionIsLog DEF DeleteThread, DeletesLive
<1>5. ASSUME NEW t, NEW i, BeginDelete(t) \/ DeleteRow(t, i) \/ AbortDelete(t)
      PROVE  UNCHANGED logVars
  BY <1>5 DEF BeginDelete, DeleteRow, AbortDelete
<1>6. CASE UNCHANGED vars
  BY <1>6 DEF vars
<1> QED
  BY <1>1, <1>2, <1>3, <1>4, <1>5, <1>6, WorkerIsLog, RestartIsLog
  DEF Next, CallerStep, ServiceStep, DeadlockStep, DeleteStep

-----------------------------------------------------------------------------
(* What a failed summarisation deletes *)

LEMMA TrimIsOlderHalf ==
    ASSUME NEW R \in SUBSET Row, IsFiniteSet(R), NEW r \in Trimmed(R)
    PROVE  /\ Cardinality(Window(R)) > 3 * WINDOW_ROUNDS
           /\ r \in Window(R)
           /\ 2 * Cardinality(Before(Window(R), r)) < Cardinality(Window(R))
<1> DEFINE W == Window(R)
           S == Selected(R)
<1>1. /\ Cardinality(W) > 3 * WINDOW_ROUNDS
      /\ r \in S /\ Cardinality(Before(S, r)) < Cardinality(S) \div 2
  BY DEF Trimmed
<1>2. W \subseteq R /\ S = {q \in W : Cardinality(Users(Before(W, q))) < WINDOW_ROUNDS}
  BY DEF Window, Selected
<1> HIDE DEF W, S
<1>3. \A q \in W : q.at \in Nat
  BY <1>2 DEF Row
<1>4. IsFiniteSet(W) /\ S \subseteq W
  BY <1>2, FS_Subset
<1>5. IsFiniteSet(S) /\ Cardinality(S) \in Nat /\ Cardinality(W) \in Nat
      /\ Cardinality(S) <= Cardinality(W)
  BY <1>4, FS_Subset, FS_CardinalityType
<1>6. ASSUME NEW q \in W, q.at < r.at
      PROVE  q \in S
  <2>1. Users(Before(W, q)) \subseteq Users(Before(W, r))
    BY <1>1, <1>2, <1>3, <1>6 DEF Users, Before
  <2>2. IsFiniteSet(Users(Before(W, r)))
    <3>1. Users(Before(W, r)) \subseteq W
      BY DEF Users, Before
    <3> QED  BY <1>4, <3>1, FS_Subset
  <2>3. /\ Cardinality(Users(Before(W, q))) \in Nat /\ Cardinality(Users(Before(W, r))) \in Nat
        /\ Cardinality(Users(Before(W, q))) <= Cardinality(Users(Before(W, r)))
    BY <2>1, <2>2, FS_Subset, FS_CardinalityType
  <2> QED  BY <1>1, <1>2, <2>3, MessageTableAssumption
<1>7. Before(W, r) = Before(S, r)
  BY <1>4, <1>6 DEF Before
<1>8. Cardinality(Before(S, r)) \in Nat
  <2>1. Before(S, r) \subseteq S
    BY DEF Before
  <2> QED  BY <1>5, <2>1, FS_Subset, FS_CardinalityType
<1>9. 2 * Cardinality(Before(W, r)) < Cardinality(W)
  <2> DEFINE x == Cardinality(Before(W, r))
             n == Cardinality(S)
             k == Cardinality(W)
  <2>1. x \in Nat /\ n \in Nat /\ k \in Nat /\ n <= k /\ x < n \div 2
    BY <1>1, <1>5, <1>7, <1>8
  <2> HIDE DEF x, n, k
  <2>2. 2 * x < k
    BY <2>1
  <2> QED  BY <2>2 DEF x, k
<1> QED  BY <1>1, <1>4, <1>9 DEF W

\* The step of one executor thread.
LEMMA CommitExcuses ==
    ASSUME IInv, TableInv, NEW w \in Workers, Commit(w), NEW r \in rows \ rows'
    PROVE  Excused(r)
<1>1. /\ worker[w].pc = "commit" /\ r \in Dead(w)
      /\ rows' = (rows \cup {OwnRow(w)} \cup SummaryOf(w)) \ Dead(w)
  BY DEF Commit
<1> DEFINE R == worker[w].view
<1>2. R \in SUBSET Row /\ IsFiniteSet(R)
  <2>1. R = ThreadRows(rows, ThreadOf(w)) \cup {OwnRow(w)}
    BY <1>1 DEF IInv, ReadStable
  <2>2. IsFiniteSet(ThreadRows(rows, ThreadOf(w)))
    BY FS_Subset DEF TableInv, ThreadRows
  <2>3. IsFiniteSet(R)
    BY <2>1, <2>2, FS_AddElement
  <2> QED  BY <2>3 DEF IInv, TypeOK, Task
<1>3. CASE worker[w].ok
  <2> DEFINE s == [id |-> SummaryId(worker[w].msg), thread |-> ThreadOf(w), role |-> "summary",
                   at |-> worker[w].at, covers |-> Ids(Selected(R))]
  <2>1. s \in SummaryOf(w) /\ Dead(w) = Selected(R)
    BY <1>1, <1>3 DEF Dead, Deleted, SummaryOf, Added
  <2>2. r.id \in s.covers
    BY <1>1, <2>1 DEF Ids
  <2>3. s.id = SummaryId(worker[w].msg)
    OBVIOUS
  <2> HIDE DEF s
  <2>4. s \notin Dead(w)
    <3>1. /\ worker[w].msg \in MessageIds
          /\ \A q \in rows : q.id # SummaryId(worker[w].msg)
      BY CommitIsFresh DEF TableInv, RowsInv
    <3>2. Dead(w) \subseteq rows \cup {OwnRow(w)} /\ OwnRow(w).id = worker[w].msg
      BY CommitAdds
    <3> QED  BY <2>3, <3>1, <3>2, NamesakeOf
  <2>5. s \in rows'
    BY <1>1, <2>1, <2>4
  <2> QED  BY <2>2, <2>5 DEF Excused
<1>4. CASE ~worker[w].ok
  <2>1. r \in Trimmed(R)
    BY <1>1, <1>4 DEF Dead, Deleted
  <2>2. /\ Cardinality(Window(R)) > 3 * WINDOW_ROUNDS /\ r \in Window(R)
        /\ 2 * Cardinality(Before(Window(R), r)) < Cardinality(Window(R))
    BY <1>2, <2>1, TrimIsOlderHalf
  <2> QED  BY <1>1, <1>4, <2>2 DEF Excused
<1> QED  BY <1>3, <1>4

LEMMA RowsExcused ==
    ASSUME IInv, TableInv, NEW r \in rows \ rows',
           (\E w \in Workers : Commit(w)) \/ \E t \in Threads : DeleteThread(t)
    PROVE  Excused(r)
<1>1. ASSUME NEW t \in Threads, DeleteThread(t)
      PROVE  Excused(r)
  <2>1. r.thread = t /\ threadState' = [threadState EXCEPT ![t] = "deleted"]
    BY <1>1 DEF DeleteThread, ThreadRows
  <2> QED  BY <2>1 DEF Excused, IInv, TypeOK
<1> QED  BY <1>1, CommitExcuses

\* Only commits and deletions of threads write to the table.
LEMMA RowsWritten ==
    ASSUME ServiceStep \/ Restart \/ \E t \in Threads : EnsureThread(t)
    PROVE  \/ UNCHANGED rows
           \/ \E w \in Workers : Commit(w)
           \/ \E t \in Threads : DeleteThread(t)
BY DEF ServiceStep, DeadlockStep, DeleteStep, WorkerStep, EnsureThread, Dequeue, Begin, Touch,
       Insert, Summarise, DbFault, AbortAppend, Abort, BeginDelete, DeleteRow, AbortDelete,
       Restart, logVars

LEMMA StepExcuses ==
    IInv /\ LogInv /\ [Next]_vars => [\A r \in rows \ rows' : Excused(r)]_rows
<1> SUFFICES ASSUME IInv, LogInv, [Next]_vars, NEW r \in rows \ rows'
             PROVE  Excused(r)
  OBVIOUS
<1>1. (\E w \in Workers : Commit(w)) \/ \E t \in Threads : DeleteThread(t)
  BY RowsWritten DEF Next, CallerStep, AppendMessageAsync, Submit, vars, logVars
<1> QED  BY <1>1, RowsExcused DEF LogInv

-----------------------------------------------------------------------------
(* The theorems *)

LEMMA InitDeletesLive == Init => DeletesLive
BY DEF Init, DeletesLive, NoDelete

LEMMA InitIsLog == Init => Log!InitLog
BY DEF Init, Log!InitLog, MessageIds, Log!MessageIds, RowIds, Log!RowIds

LEMMA LogInductive == Spec => [](IInv /\ LogInv /\ DeletesLive)
BY InitInv, InitLogInv, InitDeletesLive, NextInv, NextLogInv, NextDeletesLive, PTL DEF Spec

\* A message that a summary of _compact_if_needed tells is in the table no
\* more, and no other summary tells it: the ids of a commit are fresh, because
\* the message it stores was pending until then.
THEOREM ToldOnceHolds == Spec => []ToldOnce
<1>1. LogInv => ToldOnce
  BY DEF LogInv, TableInv
<1> QED  BY <1>1, LogInductive, PTL

\* append_message_async with its executor, transactions and locks implements
\* one atomic append-and-compact: the commit is computed on the rows and the
\* parent as they are at the commit, because nobody else changes the thread
\* while its row lock is held.
THEOREM LogImplemented == Spec => ImplementsLog
<1>1. Spec => [][Next]_vars
  BY PTL DEF Spec
<1>2. Spec => Init
  BY PTL DEF Spec
<1> QED
  BY <1>1, <1>2, LogInductive, InitIsLog, NextIsLog, PTL DEF ImplementsLog, Log!LogSpec, logVars, Log!logVars

\* A row leaves the table only with its thread, into the summary stored by the
\* same commit, or as one of the older half of an overlong window whose
\* summary failed.
THEOREM RowsAccounted == Spec => NoRowLost
<1>1. Spec => [][Next]_vars
  BY PTL DEF Spec
<1> QED  BY <1>1, LogInductive, StepExcuses, PTL DEF NoRowLost

-----------------------------------------------------------------------------
(* The turns *)

\* Ids are handed out in order.
IdsInOrder == \A k, m \in MessageIds : k < m /\ fate[m] # "none" => fate[k] # "none"

Chained(c) == turn[c].kind \in {"chat", "edit"}

\* What a streaming turn knows: its thread, the message it answers and the
\* last one it sent.
TurnsKnown ==
    /\ turn \in [Clients -> Turn]
    /\ \A c \in Clients : turn[c].kind # "none" =>
           /\ turn[c].thread \in Threads
           /\ \A m \in {turn[c].user, turn[c].last} :
                 /\ m \in MessageIds /\ fate[m] # "none"
                 /\ req[m].thread = turn[c].thread

\* The chain of a streaming turn ends with its last message.
TurnsAtTail ==
    \A c \in Clients : Chained(c) =>
        /\ req[turn[c].user].role = "user"
        /\ turnOf[turn[c].user] = turn[c].user /\ turnOf[turn[c].last] = turn[c].user
        /\ \A k \in MessageIds : turnOf[k] = turn[c].user => k <= turn[c].last
        /\ turn[c].kind = "edit" => turn[c].last = turn[c].user

TurnsApart ==
    \A c, d \in Clients : Chained(c) /\ Chained(d) /\ turn[c].user = turn[d].user => c = d

\* Every message of a turn but its first hangs from the one before it.
TurnsChained ==
    /\ turnOf \in [MessageIds -> MessageIds \cup {Null}]
    /\ \A m \in MessageIds : turnOf[m] # Null =>
          /\ fate[m] # "none" /\ turnOf[m] <= m
          /\ m # turnOf[m] =>
                /\ req[m].parent \in MessageIds
                /\ turnOf[req[m].parent] = turnOf[m]
                /\ \A k \in MessageIds : turnOf[k] = turnOf[m] /\ k < m => k <= req[m].parent

NoGap ==
    \A m, k \in MessageIds :
        fate[m] = "stored" /\ turnOf[m] # Null /\ turnOf[k] = turnOf[m] /\ k < m
            => fate[k] = "stored"

\* The parent_id of a row is the requested one or NULL, and it was stored.
ParentsRequested ==
    \A i \in RowIds : parentOf[i] # Null =>
        /\ i \in MessageIds /\ fate[i] = "stored"
        /\ parentOf[i] = req[i].parent
        /\ fate[Namesake(parentOf[i])] = "stored"

\* An edit was sent for a stored message and asked for that message's parent.
EditsKnown ==
    /\ editOf \in [MessageIds -> RowIds \cup {Null}]
    /\ \A m \in MessageIds : editOf[m] # Null =>
          /\ editOf[m] \in MessageIds /\ editOf[m] # m /\ fate[editOf[m]] = "stored"
          /\ fate[m] # "none"
          /\ req[m].parent # Null => fate[Namesake(req[m].parent)] = "stored"

\* The parent of the message an edit replaces is the one the edit asked for,
\* or that row is gone.
EditsAim ==
    \A m \in MessageIds :
        editOf[m] # Null /\ fate[m] = "pending" /\ editOf[m] \in Ids(rows) =>
            \/ parentOf[editOf[m]] = req[m].parent
            \/ parentOf[editOf[m]] = Null /\ req[m].parent \notin Ids(rows)

TurnInv ==
    /\ IInv /\ TableInv /\ ParentInv
    /\ IdsInOrder /\ TurnsKnown /\ TurnsAtTail /\ TurnsApart /\ TurnsChained /\ NoGap
    /\ ParentsRequested /\ EditsKnown /\ EditsAim /\ EditIsSibling
-----------------------------------------------------------------------------
(* A message is submitted *)

\* A new message is later than all others, and no turn and no edit knows it.
LEMMA NewMessage ==
    ASSUME TurnInv, NEW m \in MessageIds, NEW q \in Request, Submit(m, q)
    PROVE  /\ fate' = [fate EXCEPT ![m] = "pending"] /\ req' = [req EXCEPT ![m] = q]
           /\ fate \in [MessageIds -> Fate] /\ req \in [MessageIds -> Request \cup {Null}]
           /\ fate[m] = "none" /\ UNCHANGED <<rows, parentOf>>
           /\ fate'[m] = "pending" /\ req'[m] = q
           /\ \A k \in MessageIds : k # m => fate'[k] = fate[k] /\ req'[k] = req[k]
           /\ \A k \in MessageIds : fate[k] # "none" => k < m /\ fate'[k] = fate[k] /\ req'[k] = req[k]
           /\ turnOf[m] = Null /\ editOf[m] = Null
           /\ \A k \in MessageIds : turnOf[k] # m /\ editOf[k] # m
           /\ m # Null /\ m \in Nat
<1>1. /\ fate' = [fate EXCEPT ![m] = "pending"] /\ req' = [req EXCEPT ![m] = q]
      /\ fate \in [MessageIds -> Fate] /\ req \in [MessageIds -> Request \cup {Null}]
      /\ fate[m] = "none" /\ UNCHANGED <<rows, parentOf>>
  BY DEF Submit, TurnInv, IInv, TypeOK
<1>2. m # Null /\ m \in Nat /\ \A k \in MessageIds : k \in Nat
  BY NullIsNoRequest, MessageTableAssumption DEF MessageIds
<1>3. \A k \in MessageIds : fate[k] # "none" => k < m
  BY <1>1, <1>2 DEF TurnInv, IdsInOrder
<1>4. turnOf[m] = Null /\ \A k \in MessageIds : turnOf[k] # m
  BY <1>1, <1>2, <1>3 DEF TurnInv, TurnsChained
<1>5. editOf[m] = Null /\ \A k \in MessageIds : editOf[k] # m
  BY <1>1, <1>2 DEF TurnInv, EditsKnown
<1> QED  BY <1>1, <1>2, <1>3, <1>4, <1>5

LEMMA SubmitBase ==
    ASSUME TurnInv, NEW m \in MessageIds, NEW q \in Request, Submit(m, q),
           q.parent # Null => /\ fate[Namesake(q.parent)] # "none"
                              /\ req[Namesake(q.parent)].thread = q.thread
    PROVE  IInv' /\ TableInv' /\ ParentInv' /\ IdsInOrder' /\ ParentsRequested'
<1>1. IInv' /\ TableInv' /\ ParentInv'
  BY SubmitInv, SubmitTable, SubmitParents DEF TurnInv
<1>2. IdsInOrder'
  <2>1. \A k \in MessageIds : k < m => fate[k] # "none"
    BY DEF Submit
  <2>2. \A k \in MessageIds : fate'[k] # "none" <=> k = m \/ fate[k] # "none"
    BY NewMessage
  <2> QED  BY <2>1, <2>2 DEF TurnInv, IdsInOrder
<1>3. ParentsRequested'
  <2> SUFFICES ASSUME NEW i \in RowIds, parentOf[i] # Null
               PROVE  /\ i \in MessageIds /\ fate'[i] = "stored"
                      /\ parentOf[i] = req'[i].parent
                      /\ fate'[Namesake(parentOf[i])] = "stored"
    BY NewMessage DEF ParentsRequested
  <2>1. /\ i \in MessageIds /\ fate[i] = "stored"
        /\ parentOf[i] = req[i].parent
        /\ fate[Namesake(parentOf[i])] = "stored"
    BY DEF TurnInv, ParentsRequested
  <2>2. parentOf[i] \in RowIds
    BY DEF TurnInv, IInv, TypeOK
  <2> QED  BY <2>1, <2>2, NewMessage, NamesakeIsMessage
<1> QED  BY <1>1, <1>2, <1>3

\* The first message of a turn, one that joins a turn at its tail, and one of
\* no turn.
LEMMA SubmitChained ==
    ASSUME TurnInv, NEW m \in MessageIds, NEW q \in Request, Submit(m, q),
           NEW u \in MessageIds \cup {Null}, turnOf' = [turnOf EXCEPT ![m] = u],
           u \in {m, Null} \/ \E c \in Clients :
               Chained(c) /\ u = turn[c].user /\ q.parent = turn[c].last
    PROVE  TurnsChained' /\ NoGap'
<1>1. turnOf \in [MessageIds -> MessageIds \cup {Null}] /\ turnOf'[m] = u
      /\ \A k \in MessageIds : k # m => turnOf'[k] = turnOf[k]
  BY DEF TurnInv, TurnsChained
<1>2. u = m \/ u = Null \/ /\ q.parent \in MessageIds /\ turnOf[q.parent] = u /\ u < m
                           /\ q.parent # m
                           /\ \A k \in MessageIds : turnOf[k] = u => k <= q.parent
  <2> SUFFICES ASSUME NEW c \in Clients, Chained(c), u = turn[c].user, q.parent = turn[c].last
               PROVE  /\ q.parent \in MessageIds /\ turnOf[q.parent] = u /\ u < m
                      /\ q.parent # m
                      /\ \A k \in MessageIds : turnOf[k] = u => k <= q.parent
    OBVIOUS
  <2>1. /\ u \in MessageIds /\ fate[u] # "none"
        /\ q.parent \in MessageIds /\ fate[q.parent] # "none"
    BY DEF TurnInv, TurnsKnown, Chained
  <2>2. turnOf[q.parent] = u /\ \A k \in MessageIds : turnOf[k] = u => k <= q.parent
    BY DEF TurnInv, TurnsAtTail
  <2> QED  BY <2>1, <2>2, NewMessage
<1>3. \A k \in MessageIds : turnOf[k] # Null => k < m /\ turnOf[k] # m /\ k # m
  BY NewMessage DEF TurnInv, TurnsChained
<1>4. TurnsChained'
  <2> SUFFICES ASSUME NEW k \in MessageIds, turnOf'[k] # Null
               PROVE  /\ fate'[k] # "none" /\ turnOf'[k] <= k
                      /\ k # turnOf'[k] =>
                            /\ req'[k].parent \in MessageIds
                            /\ turnOf'[req'[k].parent] = turnOf'[k]
                            /\ \A j \in MessageIds : turnOf'[j] = turnOf'[k] /\ j < k => j <= req'[k].parent
    BY <1>1 DEF TurnsChained
  <2>1. CASE k = m
    <3>1. fate'[m] # "none" /\ req'[m] = q /\ u <= m
      <4>1. u = m \/ (u \in MessageIds /\ u < m)
        BY <1>1, <1>2, <2>1
      <4> QED  BY <4>1, NewMessage DEF MessageIds
    <3>2. m # u => /\ q.parent \in MessageIds
                   /\ turnOf'[q.parent] = u
                   /\ \A j \in MessageIds : turnOf'[j] = u /\ j < m => j <= q.parent
      BY <1>1, <1>2, <2>1, NewMessage
    <3> QED  BY <1>1, <2>1, <3>1, <3>2
  <2>2. CASE k # m
    <3>1. turnOf[k] # Null /\ turnOf'[k] = turnOf[k] /\ fate[k] # "none" /\ k < m /\ turnOf[k] <= k
      BY <1>1, <1>3, <2>2 DEF TurnInv, TurnsChained
    <3>2. fate'[k] # "none" /\ req'[k] = req[k]
      BY <3>1, NewMessage
    <3>3. ASSUME k # turnOf[k]
          PROVE  /\ req[k].parent \in MessageIds
                 /\ turnOf'[req[k].parent] = turnOf[k]
                 /\ \A j \in MessageIds : turnOf'[j] = turnOf[k] /\ j < k => j <= req[k].parent
      <4>1. /\ req[k].parent \in MessageIds /\ turnOf[req[k].parent] = turnOf[k]
            /\ \A j \in MessageIds : turnOf[j] = turnOf[k] /\ j < k => j <= req[k].parent
        BY <3>1, <3>3 DEF TurnInv, TurnsChained
      <4>2. req[k].parent # m
        BY <3>1, <4>1, <1>3
      <4>3. \A j \in MessageIds : j < k => j # m
        BY <3>1, NewMessage DEF MessageIds
      <4> QED  BY <1>1, <4>1, <4>2, <4>3
    <3> QED  BY <3>1, <3>2, <3>3
  <2> QED  BY <2>1, <2>2
<1>5. NoGap'
  <2> SUFFICES ASSUME NEW j \in MessageIds, NEW k \in MessageIds, fate'[j] = "stored",
                      turnOf'[j] # Null, turnOf'[k] = turnOf'[j], k < j
               PROVE  fate'[k] = "stored"
    BY DEF NoGap
  <2>1. j # m /\ fate[j] = "stored" /\ turnOf[j] = turnOf'[j] /\ j < m
    BY <1>1, NewMessage
  <2>2. k # m
    BY <2>1, NewMessage DEF MessageIds
  <2> QED  BY <1>1, <2>1, <2>2, NewMessage DEF TurnInv, NoGap
<1> QED  BY <1>4, <1>5

\* Which messages of its clients a submission leaves as they are.
LEMMA SubmitKeepsTurns ==
    ASSUME TurnInv, NEW m \in MessageIds, NEW q \in Request, Submit(m, q),
           NEW c \in Clients, turn[c].kind # "none"
    PROVE  /\ turn[c].thread \in Threads
           /\ \A k \in {turn[c].user, turn[c].last} :
                 /\ k \in MessageIds /\ k # m /\ k < m /\ fate'[k] # "none" /\ req'[k] = req[k]
                 /\ req'[k].thread = turn[c].thread
<1>1. /\ turn[c].thread \in Threads
      /\ \A k \in {turn[c].user, turn[c].last} :
            k \in MessageIds /\ fate[k] # "none" /\ req[k].thread = turn[c].thread
  BY DEF TurnInv, TurnsKnown
<1> QED  BY <1>1, NewMessage

\* The client c starts the turn new with message m of request q, which belongs
\* to the chat or edit turn u or to none; goes on with m; ends its turn.
Begins(c, m, q, new, u) ==
    /\ turn[c].kind = "none" /\ new.thread = q.thread /\ new.user = m /\ new.last = m
    /\ new.kind \in {"chat", "edit"} => u = m /\ q.role = "user"
    /\ new.kind \notin {"chat", "edit"} => u = Null

GoesOn(c, m, q, new, u) ==
    /\ turn[c].kind = "chat" /\ u = turn[c].user /\ q.parent = turn[c].last
    /\ new.kind = "chat" /\ new.thread = turn[c].thread
    /\ new.user = turn[c].user /\ new.last = m /\ q.thread = turn[c].thread

Ends(c, q, new, u) ==
    /\ turn[c].kind # "none" /\ new = NoTurn
    /\ u = IF Chained(c) THEN turn[c].user ELSE Null
    /\ Chained(c) => q.parent = turn[c].last

LEMMA SubmitTurns ==
    ASSUME TurnInv, NEW m \in MessageIds, NEW q \in Request, Submit(m, q),
           NEW c \in Clients, NEW new \in Turn, turn' = [turn EXCEPT ![c] = new],
           NEW u \in MessageIds \cup {Null}, turnOf' = [turnOf EXCEPT ![m] = u],
           Begins(c, m, q, new, u) \/ GoesOn(c, m, q, new, u) \/ Ends(c, q, new, u)
    PROVE  TurnsKnown' /\ TurnsAtTail' /\ TurnsApart'
<1> USE DEF Begins, GoesOn, Ends
<1>1. /\ turn \in [Clients -> Turn] /\ turn' \in [Clients -> Turn] /\ turn'[c] = new
      /\ \A d \in Clients : d # c => turn'[d] = turn[d]
  BY DEF TurnInv, TurnsKnown
<1>2. /\ turnOf'[m] = u /\ \A k \in MessageIds : k # m => turnOf'[k] = turnOf[k]
  BY DEF TurnInv, TurnsChained
<1>3. fate'[m] # "none" /\ req'[m] = q /\ q.thread \in Threads /\ m \in Nat
  BY NewMessage DEF Request
<1>4. TurnsKnown'
  <2> SUFFICES ASSUME NEW d \in Clients, turn'[d].kind # "none"
               PROVE  /\ turn'[d].thread \in Threads
                      /\ \A k \in {turn'[d].user, turn'[d].last} :
                            /\ k \in MessageIds /\ fate'[k] # "none"
                            /\ req'[k].thread = turn'[d].thread
    BY <1>1 DEF TurnsKnown
  <2>1. CASE d # c
    BY <1>1, <2>1, SubmitKeepsTurns
  <2>2. CASE d = c
    <3>1. CASE turn[c].kind = "none"
      BY <1>1, <1>3, <2>2, <3>1
    <3>2. CASE turn[c].kind = "chat" /\ new.kind = "chat"
      <4>1. /\ turn[c].thread \in Threads /\ turn[c].user \in MessageIds
            /\ fate'[turn[c].user] # "none" /\ req'[turn[c].user].thread = turn[c].thread
        BY <3>2, SubmitKeepsTurns
      <4> QED  BY <1>1, <1>3, <2>2, <3>2, <4>1 DEF NoTurn
    <3> QED  BY <1>1, <2>2, <3>1, <3>2 DEF NoTurn
  <2> QED  BY <2>1, <2>2
<1>5. ASSUME NEW d \in Clients, Chained(d), d # c
      PROVE  /\ turn[d].user # m /\ turn[d].user # u
             /\ turn[d].user \in MessageIds /\ turn[d].last \in MessageIds /\ turn[d].last # m
             /\ req'[turn[d].user] = req[turn[d].user]
  <2>1. /\ turn[d].user # m /\ turn[d].last # m /\ turn[d].user \in MessageIds
        /\ turn[d].last \in MessageIds /\ req'[turn[d].user] = req[turn[d].user]
    BY <1>5, SubmitKeepsTurns DEF Chained
  <2>2. u # turn[d].user
    <3>1. u = m \/ u = Null \/ (Chained(c) /\ u = turn[c].user)
      BY DEF Chained, Turn
    <3>2. Chained(c) => turn[c].user # turn[d].user
      BY <1>5 DEF TurnInv, TurnsApart
    <3> QED  BY <2>1, <3>1, <3>2, NullIsNoRequest
  <2> QED  BY <2>1, <2>2
<1>6. TurnsAtTail'
  <2> SUFFICES ASSUME NEW d \in Clients, turn'[d].kind \in {"chat", "edit"}
               PROVE  /\ req'[turn'[d].user].role = "user"
                      /\ turnOf'[turn'[d].user] = turn'[d].user
                      /\ turnOf'[turn'[d].last] = turn'[d].user
                      /\ \A k \in MessageIds : turnOf'[k] = turn'[d].user => k <= turn'[d].last
                      /\ turn'[d].kind = "edit" => turn'[d].last = turn'[d].user
    BY DEF TurnsAtTail, Chained
  <2>1. CASE d # c
    <3>1. turn'[d] = turn[d] /\ Chained(d)
      BY <1>1, <2>1 DEF Chained
    <3>2. /\ req[turn[d].user].role = "user"
          /\ turnOf[turn[d].user] = turn[d].user /\ turnOf[turn[d].last] = turn[d].user
          /\ \A k \in MessageIds : turnOf[k] = turn[d].user => k <= turn[d].last
          /\ turn[d].kind = "edit" => turn[d].last = turn[d].user
      BY <3>1 DEF TurnInv, TurnsAtTail
    <3> QED  BY <1>2, <1>5, <2>1, <3>1, <3>2
  <2>2. CASE d = c /\ turn[c].kind = "none"
    <3>1. u = m /\ q.role = "user" /\ turn'[d].user = m /\ turn'[d].last = m
      BY <1>1, <2>2
    <3>2. \A k \in MessageIds : turnOf'[k] = m => k <= m
      BY <1>2, <1>3, NewMessage
    <3> QED  BY <1>2, <1>3, <3>1, <3>2
  <2>3. CASE d = c /\ turn[c].kind # "none"
    <3>1. /\ turn[c].kind = "chat" /\ u = turn[c].user /\ new.kind = "chat"
          /\ new.user = turn[c].user /\ new.last = m
      BY <1>1, <2>3 DEF NoTurn
    <3>2. /\ u \in MessageIds /\ u # m /\ req'[u] = req[u]
          /\ turn[c].last < m /\ turn[c].last \in MessageIds
      BY <3>1, SubmitKeepsTurns
    <3>3. /\ req[u].role = "user" /\ turnOf[u] = u
          /\ \A k \in MessageIds : turnOf[k] = u => k <= turn[c].last
      BY <3>1 DEF TurnInv, TurnsAtTail, Chained
    <3>4. \A k \in MessageIds : turnOf'[k] = u => k <= m
      BY <1>2, <1>3, <3>2, <3>3 DEF MessageIds
    <3> QED  BY <1>1, <1>2, <2>3, <3>1, <3>2, <3>3, <3>4
  <2> QED  BY <2>1, <2>2, <2>3
<1>7. TurnsApart'
  <2> SUFFICES ASSUME NEW d \in Clients, turn'[d].kind \in {"chat", "edit"}, d # c,
                      turn'[c].kind \in {"chat", "edit"}
               PROVE  turn'[d].user # turn'[c].user
    BY <1>1 DEF TurnInv, TurnsApart, Chained
  <2>1. turn'[d] = turn[d] /\ Chained(d)
    BY <1>1 DEF Chained
  <2>2. turn'[c].user = m \/ turn'[c].user = u
    BY <1>1 DEF NoTurn
  <2> QED  BY <1>5, <2>1, <2>2
<1> QED  BY <1>4, <1>6, <1>7

\* What a submission leaves of the edits, and what a new edit adds.
LEMMA SubmitEdits ==
    ASSUME TurnInv, NEW m \in MessageIds, NEW q \in Request, Submit(m, q),
           \/ UNCHANGED editOf
           \/ \E i \in MessageIds : /\ i \in Ids(rows) /\ q.parent = parentOf[i]
                                    /\ editOf' = [editOf EXCEPT ![m] = i]
    PROVE  EditsKnown' /\ EditsAim' /\ EditIsSibling'
<1>1. /\ m \notin Ids(rows) /\ \A i \in MessageIds : i \in Ids(rows) => fate[i] = "stored"
  <2>1. \A r \in rows : fate[Namesake(r.id)] = "stored"
    BY DEF TurnInv, TableInv, NamedAfterStored
  <2> QED  BY <2>1, NewMessage, NamesakeOf DEF Ids
<1>2. /\ editOf \in [MessageIds -> RowIds \cup {Null}] /\ editOf[m] = Null
      /\ \A k \in MessageIds : k # m => editOf'[k] = editOf[k]
      /\ editOf' \in [MessageIds -> RowIds \cup {Null}]
  BY NewMessage, MessageIdIsRowId DEF TurnInv, EditsKnown
<1>3. \A k \in MessageIds : fate[k] = "stored" => fate'[k] = "stored" /\ req'[k] = req[k] /\ k # m
  BY NewMessage
<1>4. editOf'[m] # Null => /\ editOf'[m] \in MessageIds /\ editOf'[m] \in Ids(rows)
                          /\ fate[editOf'[m]] = "stored" /\ q.parent = parentOf[editOf'[m]]
  BY <1>1, <1>2
<1>5. EditsKnown'
  <2> SUFFICES ASSUME NEW k \in MessageIds, editOf'[k] # Null
               PROVE  /\ editOf'[k] \in MessageIds /\ editOf'[k] # k /\ fate'[editOf'[k]] = "stored"
                      /\ fate'[k] # "none"
                      /\ req'[k].parent # Null => fate'[Namesake(req'[k].parent)] = "stored"
    BY <1>2 DEF EditsKnown
  <2>1. CASE k = m
    <3>1. parentOf[editOf'[m]] # Null => /\ fate[Namesake(parentOf[editOf'[m]])] = "stored"
                                        /\ parentOf[editOf'[m]] \in RowIds
      BY <1>4, <2>1, MessageIdIsRowId DEF TurnInv, ParentsRequested, IInv, TypeOK
    <3> QED  BY <1>3, <1>4, <2>1, <3>1, NewMessage, NamesakeIsMessage
  <2>2. CASE k # m
    <3>1. /\ editOf'[k] = editOf[k] /\ editOf[k] \in MessageIds /\ editOf[k] # k
          /\ fate[editOf[k]] = "stored" /\ fate[k] # "none"
          /\ req[k].parent # Null => fate[Namesake(req[k].parent)] = "stored"
      BY <1>2, <2>2 DEF TurnInv, EditsKnown
    <3>2. req'[k] = req[k] /\ req[k].parent \in RowIds \cup {Null}
      BY <3>1, NewMessage DEF TurnInv, IInv, Accepted, Request
    <3> QED  BY <1>3, <3>1, <3>2, NewMessage, NamesakeIsMessage
  <2> QED  BY <2>1, <2>2
<1>6. EditsAim'
  <2> SUFFICES ASSUME NEW k \in MessageIds, editOf'[k] # Null, fate'[k] = "pending",
                      editOf'[k] \in Ids(rows)
               PROVE  \/ parentOf[editOf'[k]] = req'[k].parent
                      \/ parentOf[editOf'[k]] = Null /\ req'[k].parent \notin Ids(rows)
    BY NewMessage DEF EditsAim
  <2>1. CASE k = m
    BY <1>4, <2>1, NewMessage
  <2>2. CASE k # m
    BY <1>2, <2>2, NewMessage DEF TurnInv, EditsAim
  <2> QED  BY <2>1, <2>2
<1>7. EditIsSibling'
  <2> SUFFICES ASSUME NEW k \in MessageIds, editOf'[k] # Null, {k, editOf'[k]} \subseteq Ids(rows)
               PROVE  parentOf[k] = parentOf[editOf'[k]]
    BY NewMessage DEF EditIsSibling
  <2> QED  BY <1>1, <1>2 DEF TurnInv, EditIsSibling
<1> QED  BY <1>5, <1>6, <1>7

-----------------------------------------------------------------------------
(* The steps of the clients *)

LEMMA StoredParent ==
    ASSUME TurnInv, NEW t \in Threads, NEW r \in rows, r.thread = t
    PROVE  r.id \in RowIds /\ fate[Namesake(r.id)] # "none" /\ req[Namesake(r.id)].thread = t
<1>1. r.id \in RowIds /\ fate[Namesake(r.id)] = "stored"
  BY DEF TurnInv, IInv, TypeOK, Row, TableInv, NamedAfterStored
<1> QED  BY <1>1 DEF TurnInv, ParentInv, RowsOfRequests

LEMMA TurnAdvances ==
    ASSUME TurnInv, NEW c \in Clients, NEW m \in MessageIds, NEW q \in Request, Submit(m, q),
           q.parent # Null => /\ fate[Namesake(q.parent)] # "none"
                              /\ req[Namesake(q.parent)].thread = q.thread,
           NEW new \in Turn, turn' = [turn EXCEPT ![c] = new],
           NEW u \in MessageIds \cup {Null}, turnOf' = [turnOf EXCEPT ![m] = u],
           Begins(c, m, q, new, u) \/ GoesOn(c, m, q, new, u) \/ Ends(c, q, new, u),
           \/ UNCHANGED editOf
           \/ \E i \in MessageIds : /\ i \in Ids(rows) /\ q.parent = parentOf[i]
                                    /\ editOf' = [editOf EXCEPT ![m] = i]
    PROVE  TurnInv'
<1>1. IInv' /\ TableInv' /\ ParentInv' /\ IdsInOrder' /\ ParentsRequested'
  BY SubmitBase
<1>2. u \in {m, Null} \/ \E d \in Clients :
          Chained(d) /\ u = turn[d].user /\ q.parent = turn[d].last
  BY DEF Begins, GoesOn, Ends, Chained
<1>3. TurnsChained' /\ NoGap'
  BY <1>2, SubmitChained
<1>4. TurnsKnown' /\ TurnsAtTail' /\ TurnsApart'
  BY SubmitTurns
<1>5. EditsKnown' /\ EditsAim' /\ EditIsSibling'
  BY SubmitEdits
<1> QED  BY <1>1, <1>3, <1>4, <1>5 DEF TurnInv

LEMMA StartedTurn ==
    ASSUME TurnInv, NEW c \in Clients, NEW m \in MessageIds, NEW t \in Threads,
           NEW kind \in TurnKind, Starts(c, m, t, kind)
    PROVE  \E new \in Turn : /\ turn' = [turn EXCEPT ![c] = new] /\ turn[c].kind = "none"
                             /\ new.kind = kind /\ new.thread = t /\ new.user = m /\ new.last = m
<1> DEFINE new == [kind |-> kind, thread |-> t, user |-> m, last |-> m]
<1>1. /\ turn' = [turn EXCEPT ![c] = new] /\ turn[c].kind = "none"
      /\ new.kind = kind /\ new.thread = t /\ new.user = m /\ new.last = m
  BY DEF Starts
<1>2. new \in Turn
  BY MessageIdIsRowId DEF Turn
<1> QED  BY <1>1, <1>2

LEMMA SendChatTurn ==
    ASSUME TurnInv, NEW c \in Clients, NEW t \in Threads, NEW m \in MessageIds, SendChat(c, t, m)
    PROVE  TurnInv'
<1>1. PICK p \in LatestMessageIds(t) : Submit(m, [thread |-> t, role |-> "user", parent |-> p])
  BY DEF SendChat
<1> DEFINE q == [thread |-> t, role |-> "user", parent |-> p]
<1>2. p # Null => p \in RowIds /\ fate[Namesake(p)] # "none" /\ req[Namesake(p)].thread = t
  BY StoredParent DEF LatestMessageIds, Newest, ThreadRows
<1>3. q \in Request /\ q.thread = t /\ q.parent = p /\ q.role = "user"
  BY <1>2 DEF Request, MessageRole
<1>4. PICK new \in Turn : /\ turn' = [turn EXCEPT ![c] = new] /\ turn[c].kind = "none"
                          /\ new.kind = "chat" /\ new.thread = t /\ new.user = m /\ new.last = m
  BY StartedTurn DEF SendChat, TurnKind
<1>5. Submit(m, q)
  BY <1>1
<1> HIDE DEF q
<1>6. Begins(c, m, q, new, m) /\ turnOf' = [turnOf EXCEPT ![m] = m] /\ UNCHANGED editOf
  BY <1>3, <1>4 DEF Begins, SendChat
<1> QED  BY <1>2, <1>3, <1>4, <1>5, <1>6, TurnAdvances

LEMMA SendSocketTurn ==
    ASSUME TurnInv, NEW c \in Clients, NEW t \in Threads, NEW m \in MessageIds, SendSocket(c, t, m)
    PROVE  TurnInv'
<1> DEFINE q == [thread |-> t, role |-> "user", parent |-> Null]
<1>1. Submit(m, q) /\ UNCHANGED <<turnOf, editOf>>
  BY DEF SendSocket
<1>2. q \in Request /\ q.thread = t /\ q.parent = Null
  BY DEF Request, MessageRole
<1>3. PICK new \in Turn : /\ turn' = [turn EXCEPT ![c] = new] /\ turn[c].kind = "none"
                          /\ new.kind = "socket" /\ new.thread = t /\ new.user = m /\ new.last = m
  BY StartedTurn DEF SendSocket, TurnKind
<1> HIDE DEF q
<1>4. turnOf' = [turnOf EXCEPT ![m] = Null]
  BY <1>1, <1>2, NewMessage DEF TurnInv, TurnsChained
<1>5. Begins(c, m, q, new, Null)
  BY <1>2, <1>3 DEF Begins
<1> QED  BY <1>1, <1>2, <1>3, <1>4, <1>5, TurnAdvances

LEMMA SendEditTurn ==
    ASSUME TurnInv, NEW c \in Clients, NEW t \in Threads, NEW i \in MessageIds,
           NEW m \in MessageIds, SendEdit(c, t, i, m)
    PROVE  TurnInv'
<1> DEFINE q == [thread |-> t, role |-> "user", parent |-> parentOf[i]]
<1>1. Submit(m, q) /\ turnOf' = [turnOf EXCEPT ![m] = m] /\ editOf' = [editOf EXCEPT ![m] = i]
  BY DEF SendEdit, Sibling
<1>2. PICK r \in rows : r.id = i /\ r.thread = t
  BY DEF SendEdit, UserRows, Users, ThreadRows, Ids
<1>3. i \in Ids(rows) /\ i \in RowIds /\ fate[i] # "none" /\ req[i].thread = t
  BY <1>2, StoredParent, NamesakeOf DEF Ids
<1>4. parentOf[i] \in RowIds \cup {Null}
  BY <1>3 DEF TurnInv, IInv, TypeOK
<1>5. parentOf[i] # Null => /\ fate[Namesake(parentOf[i])] # "none"
                            /\ req[Namesake(parentOf[i])].thread = t
  <2> HAVE parentOf[i] # Null
  <2>1. parentOf[i] = req[i].parent
    BY <1>3 DEF TurnInv, ParentsRequested
  <2> QED  BY <1>3, <2>1 DEF TurnInv, ParentInv, ParentInThread
<1>6. q \in Request /\ q.thread = t /\ q.parent = parentOf[i] /\ q.role = "user"
  BY <1>4 DEF Request, MessageRole
<1>7. PICK new \in Turn : /\ turn' = [turn EXCEPT ![c] = new] /\ turn[c].kind = "none"
                          /\ new.kind = "edit" /\ new.thread = t /\ new.user = m /\ new.last = m
  BY StartedTurn DEF SendEdit, TurnKind
<1> HIDE DEF q
<1>8. Begins(c, m, q, new, m)
  BY <1>6, <1>7 DEF Begins
<1> QED  BY <1>1, <1>3, <1>5, <1>6, <1>7, <1>8, TurnAdvances

LEMMA ToolResultTurn ==
    ASSUME TurnInv, NEW c \in Clients, NEW m \in MessageIds, ToolResult(c, m)
    PROVE  TurnInv'
<1> DEFINE q == [thread |-> turn[c].thread, role |-> "tool", parent |-> turn[c].last]
           new == [turn[c] EXCEPT !.last = m]
<1>1. /\ Submit(m, q) /\ turn[c].kind = "chat" /\ UNCHANGED editOf
      /\ turn' = [turn EXCEPT ![c] = new] /\ turnOf' = [turnOf EXCEPT ![m] = turn[c].user]
  BY DEF ToolResult
<1>2. /\ turn[c] \in Turn /\ turn[c].thread \in Threads
      /\ turn[c].user \in MessageIds /\ turn[c].last \in MessageIds
      /\ fate[turn[c].last] # "none" /\ req[turn[c].last].thread = turn[c].thread
  BY <1>1 DEF TurnInv, TurnsKnown
<1>3. /\ q \in Request /\ q.thread = turn[c].thread /\ q.parent = turn[c].last
      /\ Namesake(turn[c].last) = turn[c].last
  BY <1>2, NamesakeOf DEF Request, MessageRole
<1>4. /\ new \in Turn /\ new.kind = turn[c].kind /\ new.thread = turn[c].thread
      /\ new.user = turn[c].user /\ new.last = m
  BY <1>2, MessageIdIsRowId DEF Turn
<1> HIDE DEF q, new
<1>5. GoesOn(c, m, q, new, turn[c].user)
  BY <1>1, <1>3, <1>4 DEF GoesOn
<1> QED  BY <1>1, <1>2, <1>3, <1>4, <1>5, TurnAdvances

LEMMA ReplyTurn ==
    ASSUME TurnInv, NEW c \in Clients, NEW m \in MessageIds, Reply(c, m)
    PROVE  TurnInv'
<1> DEFINE q == [thread |-> turn[c].thread, role |-> "assistant", parent |-> ReplyParent(c)]
           u == IF Chained(c) THEN turn[c].user ELSE Null
<1>1. /\ Submit(m, q) /\ turn[c].kind # "none" /\ UNCHANGED editOf
      /\ turn' = [turn EXCEPT ![c] = NoTurn] /\ turnOf' = [turnOf EXCEPT ![m] = u]
  BY DEF Reply, Chained
<1>2. /\ turn[c] \in Turn /\ turn[c].thread \in Threads
      /\ \A k \in {turn[c].user, turn[c].last} :
            /\ k \in MessageIds /\ k \in RowIds /\ Namesake(k) = k
            /\ fate[k] # "none" /\ req[k].thread = turn[c].thread
  BY <1>1, NamesakeOf DEF TurnInv, TurnsKnown
<1>3. ReplyParent(c) \in {turn[c].user, turn[c].last, Null}
  BY DEF ReplyParent
<1>4. Chained(c) => ReplyParent(c) = turn[c].last
  BY DEF ReplyParent, Chained, TurnInv, TurnsAtTail
<1>5. q \in Request /\ q.thread = turn[c].thread /\ q.parent = ReplyParent(c)
  BY <1>2, <1>3 DEF Request, MessageRole
<1>6. NoTurn \in Turn /\ u \in MessageIds \cup {Null}
  BY <1>2 DEF NoTurn, Turn
<1>7. q.parent # Null => /\ fate[Namesake(q.parent)] # "none"
                         /\ req[Namesake(q.parent)].thread = q.thread
  BY <1>2, <1>3, <1>5
<1>8. Chained(c) => q.parent = turn[c].last
  BY <1>4, <1>5
<1> HIDE DEF q
<1>9. Ends(c, q, NoTurn, u)
  BY <1>1, <1>8 DEF Ends
<1> HIDE DEF u
<1> QED  BY <1>1, <1>5, <1>6, <1>7, <1>9, TurnAdvances

\* A turn that begins or ends without a message of its own.
LEMMA QuietTurn ==
    ASSUME TurnInv, NEW c \in Clients, NEW new \in Turn, turn' = [turn EXCEPT ![c] = new],
           UNCHANGED <<vars, turnOf, editOf>>, new.kind \notin {"chat", "edit"},
           new.kind # "none" =>
               /\ new.thread \in Threads /\ new.user \in MessageIds /\ new.last = new.user
               /\ fate[new.user] # "none" /\ req[new.user].thread = new.thread
    PROVE  TurnInv'
<1>1. /\ turn' \in [Clients -> Turn] /\ turn'[c] = new
      /\ \A d \in Clients : d # c => turn'[d] = turn[d]
  BY DEF TurnInv, TurnsKnown
<1>2. UNCHANGED <<threadState, req, fate, rows, parentOf, clock, queue, worker, lock, del,
                  faults, turnOf, editOf>>
  BY DEF vars, logVars
<1>3. IInv' /\ TableInv' /\ ParentInv'
  <2>1. IInv' /\ TableInv'
    BY NextInv, StutterTable DEF TurnInv
  <2> QED  BY <2>1, ServiceParents DEF TurnInv
<1>4. TurnsKnown'
  BY <1>1, <1>2 DEF TurnInv, TurnsKnown
<1>5. TurnsAtTail' /\ TurnsApart'
  BY <1>1, <1>2 DEF TurnInv, TurnsAtTail, TurnsApart, Chained
<1>6. IdsInOrder' /\ TurnsChained' /\ NoGap'
  BY <1>2 DEF TurnInv, IdsInOrder, TurnsChained, NoGap
<1>7. ParentsRequested' /\ EditsKnown' /\ EditsAim' /\ EditIsSibling'
  BY <1>2 DEF TurnInv, ParentsRequested, EditsKnown, EditsAim, EditIsSibling
<1> QED  BY <1>3, <1>4, <1>5, <1>6, <1>7 DEF TurnInv

LEMMA ClientInv ==
    ASSUME TurnInv, NEW c \in Clients, ClientStep(c)
    PROVE  TurnInv'
<1>1. ASSUME NEW t \in Threads, NEW i \in MessageIds, Regenerate(c, t, i)
      PROVE  TurnInv'
  <2>1. PICK new \in Turn : /\ turn' = [turn EXCEPT ![c] = new]
                            /\ new.kind = "regenerate" /\ new.thread = t
                            /\ new.user = i /\ new.last = i
    BY <1>1, StartedTurn DEF Regenerate, TurnKind
  <2>2. PICK r \in rows : r.id = i /\ r.thread = t
    BY <1>1 DEF Regenerate, UserRows, Users, ThreadRows, Ids
  <2>3. fate[i] # "none" /\ req[i].thread = t
    BY <2>2, StoredParent, NamesakeOf
  <2>4. UNCHANGED <<vars, turnOf, editOf>>
    BY <1>1 DEF Regenerate
  <2> QED  BY <2>1, <2>3, <2>4, QuietTurn
<1>2. CASE EndWithoutReply(c)
  <2>1. NoTurn \in Turn /\ NoTurn.kind = "none"
    BY DEF NoTurn, Turn
  <2> QED  BY <1>2, <2>1, QuietTurn DEF EndWithoutReply
<1> QED
  BY <1>1, <1>2, SendChatTurn, SendSocketTurn, SendEditTurn, ToolResultTurn, ReplyTurn DEF ClientStep

-----------------------------------------------------------------------------
(* The steps of the service *)

\* A message is stored by the commit of its task, and stays stored.
LEMMA StoredByCommit ==
    ASSUME IInv, TableInv, ServiceStep \/ Restart \/ \E t \in Threads : EnsureThread(t),
           NEW k \in MessageIds
    PROVE  /\ fate[k] = "stored" => fate'[k] = "stored"
           /\ fate'[k] = "pending" => fate[k] = "pending"
           /\ fate'[k] = "stored" => fate[k] = "stored" \/ \E w \in Workers : Commit(w) /\ worker[w].msg = k
<1> DEFINE Good == /\ fate[k] = "stored" => fate'[k] = "stored"
                   /\ fate'[k] = "pending" => fate[k] = "pending"
                   /\ fate'[k] = "stored" => fate[k] = "stored"
                                             \/ \E w \in Workers : Commit(w) /\ worker[w].msg = k
<1>1. fate \in [MessageIds -> Fate]
  BY DEF IInv, TypeOK
<1>2. ASSUME NEW w \in Workers, worker[w].pc # "idle", Abort(w)
      PROVE  Good
  <2>1. fate[worker[w].msg] = "pending" /\ fate' = [fate EXCEPT ![worker[w].msg] = "dropped"]
    BY <1>2 DEF Abort, Settle, TableInv, InOnePlace
  <2> QED  BY <1>1, <2>1
<1>3. CASE UNCHANGED fate
  BY <1>3
<1>4. ASSUME NEW w \in Workers, Commit(w)
      PROVE  Good
  <2>1. fate' = [fate EXCEPT ![worker[w].msg] = "stored"]
    BY <1>4 DEF Commit, Settle
  <2> QED  BY <1>1, <1>4, <2>1
<1>5. ASSUME NEW w \in Workers, WorkerStep(w)
      PROVE  Good
  <2>1. CASE Dequeue(w) \/ Summarise(w)
    BY <1>3, <2>1 DEF Dequeue, Summarise, logVars
  <2>2. CASE Begin(w)
    BY <1>2, <1>3, <2>2 DEF Begin
  <2>3. CASE Touch(w)
    BY <1>2, <1>3, <2>3 DEF Touch
  <2>4. CASE Insert(w)
    BY <1>2, <1>3, <2>4 DEF Insert
  <2> QED  BY <1>4, <1>5, <2>1, <2>2, <2>3, <2>4 DEF WorkerStep
<1>6. ASSUME NEW w \in Workers, DbFault(w) \/ AbortAppend(w)
      PROVE  Good
  <2>1. worker[w].pc # "idle" /\ Abort(w)
    BY <1>6 DEF DbFault, AbortAppend, Deadlocked, WaitsForDelete
  <2> QED  BY <1>2, <2>1
<1>7. ASSUME NEW t, BeginDelete(t) \/ DeleteStep(t) \/ AbortDelete(t) \/ EnsureThread(t)
      PROVE  Good
  BY <1>3, <1>7 DEF BeginDelete, DeleteStep, DeleteThread, DeleteRow, AbortDelete, EnsureThread, logVars
<1>8. CASE Restart
  BY <1>1, <1>8 DEF Restart
<1>9. CASE ServiceStep
  BY <1>5, <1>6, <1>7, <1>9 DEF ServiceStep, DeadlockStep
<1> QED  BY <1>7, <1>8, <1>9

LEMMA ParentsWritten ==
    ASSUME ServiceStep \/ Restart \/ \E t \in Threads : EnsureThread(t)
    PROVE  \/ UNCHANGED <<rows, parentOf>>
           \/ \E w \in Workers : Commit(w)
           \/ \E t \in Threads : DeleteThread(t)
BY DEF ServiceStep, DeadlockStep, DeleteStep, WorkerStep, EnsureThread, Dequeue, Begin, Touch,
       Insert, Summarise, DbFault, AbortAppend, Abort, BeginDelete, DeleteRow, AbortDelete,
       Restart, logVars

\* What becomes of the parents, and of the ids, of the rows that stay.  gone
\* are the rows that left the table, and m the message stored, if any.
RowsChanged(gone, m, p) ==
    /\ Ids(rows') \cap gone = {}
    /\ \A i \in Ids(rows') : i \in Ids(rows) \/ (m # Null /\ i \in {m, SummaryId(m)})
    /\ \A i \in RowIds :
          parentOf'[i] = LET b == IF i = m THEN p ELSE parentOf[i]
                         IN  IF b \in gone THEN Null ELSE b

LEMMA CommitChanges ==
    ASSUME TurnInv, NEW w \in Workers, Commit(w)
    PROVE  RowsChanged(Ids(Dead(w)), worker[w].msg, ParentOf(w))
<1> DEFINE m == worker[w].msg
           own == OwnRow(w)
           S == SummaryOf(w)
           D == Dead(w)
<1>1. /\ m \in MessageIds
      /\ \A r \in rows : r.id # m /\ r.id # SummaryId(m)
  BY CommitIsFresh DEF TurnInv, TableInv, RowsInv
<1>2. /\ own.id = m /\ D \subseteq rows \cup {own}
      /\ \A s \in S : s.id = SummaryId(m)
      /\ rows' = (rows \cup {own} \cup S) \ D
  BY CommitAdds DEF TurnInv
<1>3. SummaryId(m) # m /\ m # Null /\ m \in RowIds
  BY <1>1, NamesakeOf, NullIsNoRequest
<1>4. parentOf' = SetNull([parentOf EXCEPT ![m] = ParentOf(w)], Ids(D))
      /\ parentOf \in [RowIds -> RowIds \cup {Null}]
  BY DEF Commit, TurnInv, IInv, TypeOK
<1> HIDE DEF m, own, S, D
<1>5. ASSUME NEW r \in rows', NEW d \in D, r.id = d.id
      PROVE  FALSE
  <2>1. r # d
    BY <1>2
  <2> QED  BY <1>1, <1>2, <1>3, <1>5, <2>1 DEF TurnInv, TableInv, UniqueIds
<1>6. Ids(rows') \cap Ids(D) = {}
  BY <1>5 DEF Ids
<1>7. \A i \in Ids(rows') : i \in Ids(rows) \/ (m # Null /\ i \in {m, SummaryId(m)})
  BY <1>2, <1>3 DEF Ids
<1>8. \A i \in RowIds :
          parentOf'[i] = LET b == IF i = m THEN ParentOf(w) ELSE parentOf[i]
                         IN  IF b \in Ids(D) THEN Null ELSE b
  BY <1>3, <1>4 DEF SetNull
<1> QED  BY <1>6, <1>7, <1>8 DEF RowsChanged, m, D

LEMMA DeletionChanges ==
    ASSUME TurnInv, NEW t \in Threads, DeleteThread(t)
    PROVE  RowsChanged(Ids(ThreadRows(rows, t)), Null, Null)
<1>1. /\ rows' = rows \ ThreadRows(rows, t)
      /\ parentOf' = SetNull(parentOf, Ids(ThreadRows(rows, t)))
  BY DEF DeleteThread
<1>2. Ids(rows') \cap Ids(ThreadRows(rows, t)) = {} /\ \A i \in Ids(rows') : i \in Ids(rows)
  BY <1>1 DEF Ids, ThreadRows, TurnInv, TableInv, UniqueIds
<1>3. \A i \in RowIds : parentOf'[i] = IF parentOf[i] \in Ids(ThreadRows(rows, t)) THEN Null ELSE parentOf[i]
  BY <1>1 DEF SetNull
<1> QED  BY <1>2, <1>3, MessageTableAssumption DEF RowsChanged

\* A pending edit still aims at the parent of what it replaces, and a stored
\* one is its sibling, when rows leave the table and one message enters it.
LEMMA ChangedEdits ==
    ASSUME TurnInv, NEW gone, NEW m \in MessageIds \cup {Null}, NEW p, RowsChanged(gone, m, p),
           m # Null => fate[m] = "pending" /\ p = req[m].parent /\ (p = Null \/ p \in Ids(rows)),
           UNCHANGED <<req, editOf>>,
           \A k \in MessageIds : fate'[k] = "pending" => fate[k] = "pending" /\ k # m
    PROVE  EditsAim' /\ EditIsSibling'
<1>1. ASSUME NEW i \in MessageIds, fate[i] # "pending"
      PROVE  /\ i \in RowIds
             /\ i \in Ids(rows') => i \in Ids(rows)
             /\ parentOf'[i] = IF parentOf[i] \in gone THEN Null ELSE parentOf[i]
  <2>1. i \in RowIds /\ i # Null /\ i # m
    BY <1>1, NamesakeOf, NullIsNoRequest
  <2>2. m # Null => i # SummaryId(m)
    BY <1>1, NamesakeOf
  <2> QED  BY <2>1, <2>2 DEF RowsChanged
<1>2. \A k \in MessageIds : editOf[k] # Null =>
          /\ editOf[k] \in MessageIds /\ fate[editOf[k]] = "stored" /\ editOf[k] # k
          /\ req[k].parent # Null => fate[Namesake(req[k].parent)] = "stored"
  BY DEF TurnInv, EditsKnown
<1>3. EditsAim'
  <2> SUFFICES ASSUME NEW k \in MessageIds, editOf[k] # Null, fate[k] = "pending",
                      editOf[k] \in Ids(rows')
               PROVE  \/ parentOf'[editOf[k]] = req[k].parent
                      \/ parentOf'[editOf[k]] = Null /\ req[k].parent \notin Ids(rows')
    BY DEF EditsAim
  <2> DEFINE i == editOf[k]
             a == req[k].parent
  <2>1. /\ i \in Ids(rows)
        /\ parentOf'[i] = IF parentOf[i] \in gone THEN Null ELSE parentOf[i]
    BY <1>1, <1>2
  <2>2. parentOf[i] = a \/ (parentOf[i] = Null /\ a \notin Ids(rows))
    BY <2>1 DEF TurnInv, EditsAim
  <2>3. CASE parentOf[i] = a
    BY <2>1, <2>3 DEF RowsChanged
  <2>4. CASE parentOf[i] = Null /\ a \notin Ids(rows)
    <3>1. a \notin Ids(rows')
      <4> SUFFICES ASSUME a \in Ids(rows') PROVE FALSE
        OBVIOUS
      <4>1. m \in MessageIds /\ a \in {m, SummaryId(m)}
        BY <2>4 DEF RowsChanged
      <4>2. Namesake(m) = m /\ Namesake(SummaryId(m)) = m /\ {m, SummaryId(m)} \subseteq RowIds
        BY <4>1, NamesakeOf
      <4>3. a # Null /\ Namesake(a) = m
        BY <4>1, <4>2, MessageTableAssumption
      <4> QED  BY <1>2, <4>1, <4>3, NullIsNoRequest
    <3> QED  BY <2>1, <2>4, <3>1
  <2> QED  BY <2>2, <2>3, <2>4
<1>4. EditIsSibling'
  <2> SUFFICES ASSUME NEW k \in MessageIds, editOf[k] # Null, k \in Ids(rows'), editOf[k] \in Ids(rows')
               PROVE  parentOf'[k] = parentOf'[editOf[k]]
    BY DEF EditIsSibling
  <2> DEFINE i == editOf[k]
  <2>1. /\ i \in Ids(rows)
        /\ parentOf'[i] = IF parentOf[i] \in gone THEN Null ELSE parentOf[i]
    BY <1>1, <1>2
  <2>2. CASE k = m
    <3>1. parentOf[i] = p
      BY <2>1, <2>2, NullIsNoRequest DEF TurnInv, EditsAim
    <3>2. parentOf'[k] = IF p \in gone THEN Null ELSE p
      BY <2>2, MessageIdIsRowId DEF RowsChanged
    <3> QED  BY <2>1, <3>1, <3>2
  <2>3. CASE k # m
    <3>1. k \in Ids(rows) /\ k \in RowIds
      BY <2>3, NamesakeOf DEF RowsChanged
    <3>2. parentOf'[k] = IF parentOf[k] \in gone THEN Null ELSE parentOf[k]
      BY <2>3, <3>1 DEF RowsChanged
    <3>3. parentOf[k] = parentOf[i]
      BY <2>1, <3>1 DEF TurnInv, EditIsSibling
    <3> QED  BY <2>1, <3>2, <3>3
  <2> QED  BY <2>2, <2>3
<1> QED  BY <1>3, <1>4

\* The window of a thread, counted by its user messages.
LEMMA CommitKeepsWindow ==
    ASSUME TurnInv, NEW w \in Workers, Commit(w), NEW t \in Threads,
           Overflows(rows', t), ~Overflows(rows, t)
    PROVE  ~worker[w].ok /\ NeedsCompaction(worker[w].view)
<1> DEFINE T == ThreadRows(rows, t)
           T1 == ThreadRows(rows', t)
           V == worker[w].view
           own == OwnRow(w)
<1>1. /\ worker[w].pc = "commit" /\ worker[w].pc # "idle"
      /\ rows' = (rows \cup {own} \cup SummaryOf(w)) \ Dead(w)
  BY DEF Commit
<1>2. own \in Row /\ own.thread = ThreadOf(w) /\ own.role # "summary"
  BY <1>1, BusyTask, CommitAdds DEF TurnInv
<1>3. rows \in SUBSET Row /\ IsFiniteSet(rows)
  BY DEF TurnInv, IInv, TypeOK, TableInv
<1>4. t = ThreadOf(w)
  <2>1. t # ThreadOf(w) => T1 = T
    BY CommitIsLocal DEF TurnInv, ThreadRows
  <2> QED  BY <2>1 DEF Overflows
<1>5. V = T \cup {own}
  BY <1>1, <1>4 DEF TurnInv, IInv, ReadStable
<1>6. V \subseteq Row /\ V \subseteq rows \cup {own} /\ \A r \in V : r.thread = t /\ r.at \in Nat
  BY <1>2, <1>3, <1>4, <1>5 DEF ThreadRows, Row
<1>7. Dead(w) \subseteq V
  BY DeletedWereRead DEF Dead
<1>8. \A r \in SummaryOf(w) : r.thread = t /\ r.role = "summary"
  BY <1>4 DEF SummaryOf, Added
<1>9. T1 = (V \cup SummaryOf(w)) \ Dead(w)
  BY <1>1, <1>2, <1>4, <1>5, <1>8 DEF ThreadRows
<1>10. /\ IsFiniteSet(Users(Window(T))) /\ Cardinality(Users(Window(T))) < WINDOW_ROUNDS
       /\ Cardinality(Users(Window(T))) \in Nat
  <2>1. Users(Window(T)) \subseteq rows
    BY DEF Users, Window, ThreadRows
  <2>2. IsFiniteSet(Users(Window(T))) /\ Cardinality(Users(Window(T))) \in Nat
    BY <1>3, <2>1, FS_Subset, FS_CardinalityType
  <2> QED  BY <2>2, MessageTableAssumption DEF Overflows
<1>11. ASSUME NeedsCompaction(V), worker[w].ok
       PROVE  FALSE
  <2> DEFINE s == [id |-> SummaryId(worker[w].msg), thread |-> ThreadOf(w), role |-> "summary",
                   at |-> worker[w].at, covers |-> Ids(Selected(V))]
  <2>1. SummaryOf(w) = {s} /\ Dead(w) = Selected(V) /\ s.role = "summary"
    BY <1>11 DEF SummaryOf, Added, Dead, Deleted
  <2> HIDE DEF s
  <2>2. \A r \in Window(V) : r \in V /\ r.role # "summary"
    BY <1>6 DEF Window
  <2>3. Selected(V) \subseteq Window(V)
    BY DEF Selected
  <2>4. \A r \in V : r.role = "summary" => r \in T1
    BY <1>9, <2>1, <2>2, <2>3
  <2>5. \A r \in Window(T1) : r \in Window(V) /\ r \notin Selected(V)
    <3> SUFFICES ASSUME NEW r \in Window(T1)
                 PROVE  r \in Window(V) /\ r \notin Selected(V)
      OBVIOUS
    <3>1. r \in T1 /\ \A x \in T1 : x.role = "summary" => r.at > x.at
      BY DEF Window
    <3>2. r \in V
      <4>1. r # s
        <5> SUFFICES ASSUME r = s PROVE FALSE
          OBVIOUS
        <5>1. s.at > s.at
          BY <2>1, <3>1
        <5>2. s.at \in Nat
          <6>1. worker[w].at \in Nat
            BY DEF TurnInv, IInv, TypeOK, Task
          <6> QED  BY <6>1 DEF s
        <5> QED  BY <5>1, <5>2
      <4> QED  BY <1>9, <2>1, <3>1, <4>1
    <3>3. r \in Window(V)
      BY <2>4, <3>1, <3>2 DEF Window
    <3> QED  BY <1>9, <2>1, <3>1, <3>3
  <2> DEFINE U == Users(Window(V))
  <2>6. IsFiniteSet(U) /\ Cardinality(U) \in Nat /\ Cardinality(U) <= WINDOW_ROUNDS
    <3>1. U \subseteq Users(Window(T)) \cup {own}
      BY <1>5 DEF Users, Window
    <3>2. /\ IsFiniteSet(Users(Window(T)) \cup {own})
          /\ Cardinality(Users(Window(T)) \cup {own}) <= Cardinality(Users(Window(T))) + 1
          /\ Cardinality(Users(Window(T)) \cup {own}) \in Nat
      <4> DEFINE X == Users(Window(T))
      <4>1. IsFiniteSet(X) /\ Cardinality(X) \in Nat
        BY <1>10
      <4> HIDE DEF X
      <4>2. /\ IsFiniteSet(X \cup {own})
            /\ \/ Cardinality(X \cup {own}) = Cardinality(X)
               \/ Cardinality(X \cup {own}) = Cardinality(X) + 1
        BY <4>1, FS_AddElement
      <4>3. /\ IsFiniteSet(X \cup {own})
            /\ Cardinality(X \cup {own}) <= Cardinality(X) + 1
            /\ Cardinality(X \cup {own}) \in Nat
        BY <4>1, <4>2
      <4> QED  BY <4>3 DEF X
    <3>3. /\ IsFiniteSet(U) /\ Cardinality(U) \in Nat
          /\ Cardinality(U) <= Cardinality(Users(Window(T)) \cup {own})
      BY <3>1, <3>2, FS_Subset, FS_CardinalityType
    <3> QED  BY <1>10, <3>2, <3>3, MessageTableAssumption
  <2>7. \A r \in U : r \in Selected(V)
    <3> SUFFICES ASSUME NEW r \in U PROVE r \in Selected(V)
      OBVIOUS
    <3> DEFINE B == Users(Before(Window(V), r))
    <3>1. r \in Window(V) /\ r.at \in Nat
      BY <1>6, <2>2 DEF Users
    <3>2. B \subseteq U \ {r}
      BY <3>1 DEF Users, Before
    <3>3. IsFiniteSet(U \ {r}) /\ Cardinality(U \ {r}) = Cardinality(U) - 1
      BY <2>6, FS_RemoveElement
    <3>4. Cardinality(B) <= Cardinality(U \ {r}) /\ Cardinality(B) \in Nat
      BY <3>2, <3>3, FS_Subset, FS_CardinalityType
    <3>5. Cardinality(B) < WINDOW_ROUNDS
      BY <2>6, <3>3, <3>4, MessageTableAssumption
    <3> QED  BY <3>1, <3>5 DEF Selected
  <2>8. Users(Window(T1)) = {}
    BY <2>5, <2>7 DEF Users
  <2> QED  BY <2>8, FS_EmptySet, MessageTableAssumption DEF Overflows
<1>12. ASSUME ~NeedsCompaction(V)
       PROVE  FALSE
  <2>1. SummaryOf(w) = {} /\ Dead(w) = {}
    BY <1>12 DEF SummaryOf, Added, Dead, Deleted
  <2>2. T1 = V
    BY <1>9, <2>1
  <2> QED  BY <1>12, <2>2 DEF Overflows, NeedsCompaction
<1> QED  BY <1>11, <1>12

LEMMA WindowStep ==
    ASSUME TurnInv, ServiceStep \/ Restart \/ \E t \in Threads : EnsureThread(t),
           NEW t \in Threads, Overflows(rows', t), ~Overflows(rows, t)
    PROVE  \E w \in Workers : worker[w].pc = "commit" /\ ~worker[w].ok
                              /\ NeedsCompaction(worker[w].view)
<1>1. ASSUME NEW u \in Threads, DeleteThread(u)
      PROVE  FALSE
  <2>1. rows' = rows \ ThreadRows(rows, u)
    BY <1>1 DEF DeleteThread
  <2>2. CASE u = t
    <3>1. Users(Window(ThreadRows(rows', t))) = {}
      BY <2>1, <2>2 DEF Users, Window, ThreadRows
    <3> QED  BY <3>1, FS_EmptySet, MessageTableAssumption DEF Overflows
  <2>3. CASE u # t
    <3>1. ThreadRows(rows', t) = ThreadRows(rows, t)
      BY <2>1, <2>3 DEF ThreadRows
    <3> QED  BY <3>1 DEF Overflows
  <2> QED  BY <2>2, <2>3
<1>2. PICK w \in Workers : Commit(w)
  BY <1>1, RowsWritten
<1> QED  BY <1>2, CommitKeepsWindow DEF Commit

LEMMA ServiceChains ==
    ASSUME TurnInv, ServiceStep \/ Restart \/ \E t \in Threads : EnsureThread(t),
           UNCHANGED <<turnOf, editOf>>
    PROVE  /\ IdsInOrder' /\ TurnsChained' /\ NoGap'
           /\ ParentsRequested' /\ EditsKnown' /\ EditsAim' /\ EditIsSibling'
<1>1. UNCHANGED req /\ \A k \in MessageIds : fate[k] # "none" <=> fate'[k] # "none"
  BY FatesKept DEF TurnInv
<1>2. \A k \in MessageIds :
          /\ fate[k] = "stored" => fate'[k] = "stored"
          /\ fate'[k] = "pending" => fate[k] = "pending"
          /\ fate'[k] = "stored" => fate[k] = "stored" \/ \E w \in Workers : Commit(w) /\ worker[w].msg = k
  BY StoredByCommit DEF TurnInv
<1>3. IdsInOrder' /\ TurnsChained'
  BY <1>1 DEF TurnInv, IdsInOrder, TurnsChained
\* The parent of a message that commits is stored.
<1>4. ASSUME NEW w \in Workers, Commit(w)
      PROVE  /\ worker[w].msg \in MessageIds /\ fate[worker[w].msg] = "pending"
             /\ ParentOf(w) = req[worker[w].msg].parent /\ fate'[worker[w].msg] = "stored"
             /\ ParentOf(w) = Null \/ ParentOf(w) \in Ids(rows)
             /\ ParentOf(w) # Null => ParentOf(w) \in RowIds /\ fate[Namesake(ParentOf(w))] = "stored"
  <2>1. worker[w].pc = "commit" /\ fate' = [fate EXCEPT ![worker[w].msg] = "stored"]
    BY <1>4 DEF Commit, Settle
  <2>2. ParentOf(w) = Null \/ ParentOf(w) \in Ids(rows)
    BY <2>1 DEF TurnInv, ParentInv, ParentKept, ParentStored
  <2>3. \A i \in Ids(rows) : i \in RowIds /\ fate[Namesake(i)] = "stored"
    BY DEF TurnInv, IInv, TypeOK, Row, TableInv, NamedAfterStored, Ids
  <2>4. worker[w].msg \in MessageIds /\ fate[worker[w].msg] = "pending" /\ fate'[worker[w].msg] = "stored"
    BY <2>1, BusyTask DEF TurnInv, TableInv, InOnePlace, IInv, TypeOK
  <2> QED  BY <2>2, <2>3, <2>4 DEF ParentOf
<1>5. NoGap'
  <2> SUFFICES ASSUME NEW m \in MessageIds, NEW k \in MessageIds, fate'[m] = "stored",
                      turnOf[m] # Null, turnOf[k] = turnOf[m], k < m
               PROVE  fate'[k] = "stored"
    BY DEF NoGap
  <2>1. CASE fate[m] = "stored"
    BY <1>2, <2>1 DEF TurnInv, NoGap
  <2>2. CASE fate[m] # "stored"
    <3>1. PICK w \in Workers : Commit(w) /\ worker[w].msg = m
      BY <1>2, <2>2
    <3>2. m # turnOf[m]
      BY NullIsNoRequest DEF TurnInv, TurnsChained, MessageIds
    <3> DEFINE p == req[m].parent
    <3>3. /\ p \in MessageIds /\ turnOf[p] = turnOf[m] /\ k <= p
      BY <3>2 DEF TurnInv, TurnsChained
    <3>4. fate[p] = "stored"
      BY <1>4, <3>1, <3>3, NullIsNoRequest, NamesakeOf
    <3>5. k = p \/ k < p
      BY <3>3 DEF MessageIds
    <3>6. fate[k] = "stored"
      BY <3>3, <3>4, <3>5 DEF TurnInv, NoGap
    <3> QED  BY <1>2, <3>6
  <2> QED  BY <2>1, <2>2
<1>6. ParentsRequested'
  <2> SUFFICES ASSUME NEW i \in RowIds, parentOf'[i] # Null
               PROVE  /\ i \in MessageIds /\ fate'[i] = "stored"
                      /\ parentOf'[i] = req[i].parent
                      /\ fate'[Namesake(parentOf'[i])] = "stored"
    BY <1>1 DEF ParentsRequested
  <2>1. CASE parentOf'[i] = parentOf[i]
    <3>1. /\ i \in MessageIds /\ fate[i] = "stored" /\ parentOf[i] = req[i].parent
          /\ fate[Namesake(parentOf[i])] = "stored" /\ parentOf[i] \in RowIds
      BY <2>1 DEF TurnInv, ParentsRequested, IInv, TypeOK
    <3> QED  BY <1>2, <2>1, <3>1, NamesakeIsMessage
  <2>2. CASE parentOf'[i] # parentOf[i]
    <3>1. ASSUME NEW t \in Threads, DeleteThread(t)
          PROVE  FALSE
      BY <2>2, <3>1, DeletionChanges, MessageTableAssumption DEF RowsChanged
    <3>2. PICK w \in Workers : Commit(w)
      BY <2>2, <3>1, ParentsWritten
    <3>3. i = worker[w].msg /\ parentOf'[i] = ParentOf(w)
      BY <2>2, <3>2, CommitChanges DEF RowsChanged
    <3> QED  BY <1>2, <1>4, <3>2, <3>3, NamesakeIsMessage
  <2> QED  BY <2>1, <2>2
<1>7. EditsKnown'
  <2>1. \A k \in MessageIds : fate[k] # "none" => req[k].parent \in RowIds \cup {Null}
    BY DEF TurnInv, IInv, Accepted, Request
  <2> QED  BY <1>1, <1>2, <2>1, NamesakeIsMessage DEF TurnInv, EditsKnown
<1>8. EditsAim' /\ EditIsSibling'
  <2>1. ASSUME NEW w \in Workers, Commit(w)
        PROVE  EditsAim' /\ EditIsSibling'
    <3>1. RowsChanged(Ids(Dead(w)), worker[w].msg, ParentOf(w))
      BY <2>1, CommitChanges
    <3>2. \A k \in MessageIds : fate'[k] = "pending" => fate[k] = "pending" /\ k # worker[w].msg
      BY <1>2, <1>4, <2>1
    <3> QED  BY <1>1, <1>4, <2>1, <3>1, <3>2, ChangedEdits
  <2>2. ASSUME NEW t \in Threads, DeleteThread(t)
        PROVE  EditsAim' /\ EditIsSibling'
    <3>1. RowsChanged(Ids(ThreadRows(rows, t)), Null, Null)
      BY <2>2, DeletionChanges
    <3>2. \A k \in MessageIds : fate'[k] = "pending" => fate[k] = "pending" /\ k # Null
      BY <1>2, NullIsNoRequest
    <3> QED  BY <1>1, <3>1, <3>2, ChangedEdits
  <2>3. CASE UNCHANGED <<rows, parentOf>>
    BY <1>1, <1>2, <2>3 DEF TurnInv, EditsAim, EditIsSibling
  <2> QED  BY <2>1, <2>2, <2>3, ParentsWritten
<1> QED  BY <1>3, <1>5, <1>6, <1>7, <1>8

LEMMA ServiceTurn ==
    ASSUME TurnInv, ServiceStep \/ Restart \/ \E t \in Threads : EnsureThread(t),
           turn' \in {turn, [c \in Clients |-> NoTurn]}, UNCHANGED <<turnOf, editOf>>
    PROVE  TurnInv'
<1>1. UNCHANGED req /\ \A k \in MessageIds : fate[k] # "none" <=> fate'[k] # "none"
  BY FatesKept DEF TurnInv
<1>2. IInv' /\ TableInv' /\ ParentInv'
  BY NextInv, ServiceTable, RestartTable, EnsureThreadTable, ServiceParents
  DEF TurnInv, Next, CallerStep
<1>3. /\ turn' \in [Clients -> Turn]
      /\ \A c \in Clients : turn'[c] = turn[c] \/ turn'[c] = NoTurn
  BY DEF TurnInv, TurnsKnown, NoTurn, Turn
<1>4. TurnsKnown'
  BY <1>1, <1>3 DEF TurnInv, TurnsKnown, NoTurn
<1>5. TurnsAtTail' /\ TurnsApart'
  BY <1>1, <1>3 DEF TurnInv, TurnsAtTail, TurnsApart, Chained, NoTurn
<1> QED  BY <1>2, <1>4, <1>5, ServiceChains DEF TurnInv

LEMMA NextTurnInv == TurnInv /\ [TurnNext]_allVars => TurnInv'
<1> SUFFICES ASSUME TurnInv, [TurnNext]_allVars PROVE TurnInv'
  OBVIOUS
<1>1. ASSUME NEW c \in Clients, ClientStep(c) PROVE TurnInv'
  BY <1>1, ClientInv
<1>2. CASE (ServiceStep \/ \E t \in Threads : EnsureThread(t)) /\ UNCHANGED turnVars
  BY <1>2, ServiceTurn DEF turnVars
<1>3. CASE RestartAll
  BY <1>3, ServiceTurn DEF RestartAll
<1>4. CASE UNCHANGED allVars
  <2>1. UNCHANGED <<vars, turn, turnOf, editOf>>
    BY <1>4 DEF allVars, turnVars
  <2>2. UNCHANGED <<threadState, req, fate, rows, parentOf, clock, queue, worker, lock, del, faults>>
    BY <2>1 DEF vars, logVars
  <2>3. IInv' /\ TableInv' /\ ParentInv'
    BY <2>1, NextInv, StutterTable, ServiceParents DEF TurnInv
  <2>4. TurnsKnown' /\ TurnsAtTail' /\ TurnsApart'
    BY <2>1, <2>2 DEF TurnInv, TurnsKnown, TurnsAtTail, TurnsApart, Chained
  <2>5. IdsInOrder' /\ TurnsChained' /\ NoGap'
    BY <2>1, <2>2 DEF TurnInv, IdsInOrder, TurnsChained, NoGap
  <2>6. ParentsRequested' /\ EditsKnown' /\ EditsAim' /\ EditIsSibling'
    BY <2>1, <2>2 DEF TurnInv, ParentsRequested, EditsKnown, EditsAim, EditIsSibling
  <2> QED  BY <2>3, <2>4, <2>5, <2>6 DEF TurnInv
<1> QED  BY <1>1, <1>2, <1>3, <1>4 DEF TurnNext

LEMMA InitTurnInv == TurnInit => TurnInv
<1> SUFFICES ASSUME TurnInit PROVE TurnInv
  OBVIOUS
<1>1. Init /\ turn = [c \in Clients |-> NoTurn] /\ turnOf = [m \in MessageIds |-> Null]
      /\ editOf = [m \in MessageIds |-> Null]
  BY DEF TurnInit
<1>2. IInv /\ TableInv /\ ParentInv
  BY <1>1, InitInv, InitLogInv DEF LogInv, ParentInv
<1>3. IdsInOrder /\ TurnsKnown /\ TurnsAtTail /\ TurnsApart
  BY <1>1 DEF Init, IdsInOrder, TurnsKnown, TurnsAtTail, TurnsApart, Chained, NoTurn, Turn
<1>4. TurnsChained /\ NoGap /\ EditsKnown /\ EditsAim /\ EditIsSibling
  BY <1>1 DEF TurnsChained, NoGap, EditsKnown, EditsAim, EditIsSibling
<1>5. ParentsRequested
  BY <1>1 DEF Init, ParentsRequested
<1> QED  BY <1>2, <1>3, <1>4, <1>5 DEF TurnInv

-----------------------------------------------------------------------------
(* The theorems *)

LEMMA TurnInductive == TurnSpec => []TurnInv
BY InitTurnInv, NextTurnInv, PTL DEF TurnSpec

\* A stored row of a chat or edit turn has its whole turn behind it, however
\* many executor threads there are and whichever appends fail: each message
\* names the one before it as its parent_id, whose foreign key refuses it
\* until that one is stored.
THEOREM TurnsStoredWhole == TurnSpec => []TurnHasNoGap
<1>1. TurnInv => TurnTypeOK
  BY DEF TurnInv, TurnsKnown, TurnsChained, TurnsAtTail, EditsKnown, Chained, TurnTypeOK
<1>2. TurnInv => TurnHasNoGap
  BY <1>1 DEF TurnInv, NoGap, TurnHasNoGap
<1> QED  BY <1>2, TurnInductive, PTL

\* prepare_edit hangs the edited message from the parent of the message it
\* replaces, and the two stay siblings through every compaction and deletion.
THEOREM EditsStaySiblings == TurnSpec => []EditIsSibling
<1>1. TurnInv => EditIsSibling
  BY DEF TurnInv
<1> QED  BY <1>1, TurnInductive, PTL

\* What a client does writes no row.
LEMMA ClientWritesNoRow == ASSUME NEW c \in Clients, ClientStep(c) PROVE UNCHANGED rows
BY DEF ClientStep, SendChat, SendSocket, SendEdit, Regenerate, ToolResult, Reply,
       EndWithoutReply, Submit, vars, logVars

LEMMA RowsByService ==
    ASSUME [TurnNext]_allVars
    PROVE  UNCHANGED rows \/ ServiceStep \/ Restart \/ \E t \in Threads : EnsureThread(t)
BY ClientWritesNoRow DEF TurnNext, RestartAll, allVars, vars, logVars

\* The window of a thread grows to WINDOW_ROUNDS user messages only when the
\* summarisation of its append failed, and even then no row is lost without a
\* summary, a trim or a deletion that accounts for it.
THEOREM WindowsAreKept == TurnSpec => WindowKept
<1>1. TurnInv /\ [TurnNext]_allVars =>
         [\A t \in Threads : Overflows(rows', t) /\ ~Overflows(rows, t) =>
              \E w \in Workers : worker[w].pc = "commit" /\ ~worker[w].ok
                                 /\ NeedsCompaction(worker[w].view)]_rows
  BY RowsByService, WindowStep
<1>2. TurnInv /\ [TurnNext]_allVars => [\A r \in rows \ rows' : Excused(r)]_rows
  BY RowsByService, RowsWritten, RowsExcused DEF TurnInv
<1> QED
  BY <1>1, <1>2, TurnInductive, PTL DEF TurnSpec, WindowKept, WindowOverflowsOnFailure, NoRowLost
=============================================================================
