------------------------------ MODULE Missions ------------------------------
(***************************************************************************)
(* MissionService with its two callers, the REST endpoints and the agent's *)
(* tools, over PostgreSQL READ COMMITTED, and the cached statistics.       *)
(*                                                                         *)
(* A request loads the row (complete, update and delete without a lock,    *)
(* toggle with FOR UPDATE), computes the new object in memory, writes the  *)
(* columns that changed (flush: the row lock), invalidates the cache and   *)
(* commits later: get_db commits after the response has been sent.         *)
(***************************************************************************)
EXTENDS Integers, Sequences, FiniteSets

CONSTANTS MissionIds, Requests,
          MaxSteps,    \* bound: steps of a mission
          Calls,       \* bound: the calls that clients and the agent make
          CacheFaults, \* whether Redis may refuse an invalidation
          Absent, Deleted, Null

VARIABLES row,      \* the committed row of each mission
          holder,   \* the request that holds the row lock
          req,      \* the request in progress in each slot
          cache,    \* the cached statistics, or Null
          reader,   \* the get_stats request
          doubt,    \* history: the cached entry raced with a commit
          raced     \* history: the row was last written from a stale copy

dbVars == <<row, holder, raced>>
vars == <<row, holder, req, cache, reader, doubt, raced>>

Statuses == {"draft", "active", "completed", "archived"}
StepLists == UNION {[1..n -> BOOLEAN] : n \in 0..MaxSteps}
Row == [status : Statuses, steps : StepLists, progress : 0..100]

\* The body of an update: Null is a field that was not sent; other stands for
\* the remaining fields, "empty" for a title of blanks.  In a create every
\* field has a default.
Body == [status : Statuses \cup {Null}, steps : StepLists \cup {Null},
         other : {"none", "field", "empty"}]
NewBody == [status : Statuses, steps : StepLists, other : {"none", "field", "empty"}]

Call ==      [op : {"create"}, via : {"rest", "tool"}, body : NewBody]
        \cup [op : {"update"}, via : {"rest", "tool"}, body : Body]
        \cup [op : {"toggle"}, via : {"rest", "tool"}, index : 1..MaxSteps + 1]
        \cup [op : {"complete"}, via : {"tool"}]
        \cup [op : {"delete"}, via : {"rest", "tool"}]

ASSUME MissionsAssumption ==
    /\ MaxSteps \in Nat
    /\ CacheFaults \in BOOLEAN
    /\ Calls \subseteq Call
    /\ Null \notin Requests
    /\ IsFiniteSet(MissionIds)
    /\ {Absent, Deleted} \cap Row = {} /\ Absent # Deleted

Columns == {"status", "steps", "progress", "other"}

\* verdict: "write" goes on to the flush, "error" is a MissionDomainError.
\* written: the columns of the UPDATE.
Idle == [pc |-> "idle"]
Busy == [pc : {"loaded", "flushed"}, call : Calls, mission : MissionIds, seen : Row \cup {Absent, Deleted},
         new : Row \cup {Absent, Deleted}, written : SUBSET Columns,
         verdict : {"write", "error"}]

Counts == [total : Nat, active : Nat, completed : Nat]
Reader == [pc : {"idle", "counting"}, got : Counts, doubt : BOOLEAN]

TypeOK ==
    /\ row \in [MissionIds -> Row \cup {Absent, Deleted}]
    /\ holder \in [MissionIds -> Requests \cup {Null}]
    /\ req \in [Requests -> Busy \cup {Idle}]
    /\ cache \in Counts \cup {Null}
    /\ reader \in Reader
    /\ doubt \in BOOLEAN
    /\ raced \in [MissionIds -> BOOLEAN]
    /\ \A m \in MissionIds : holder[m] # Null => /\ req[holder[m]] # Idle
                                                 /\ req[holder[m]].mission = m

NoReader == [pc |-> "idle", got |-> [total |-> 0, active |-> 0, completed |-> 0], doubt |-> FALSE]

Init ==
    /\ row = [m \in MissionIds |-> Absent]
    /\ holder = [m \in MissionIds |-> Null]
    /\ req = [r \in Requests |-> Idle]
    /\ cache = Null
    /\ reader = NoReader
    /\ doubt = FALSE
    /\ raced = [m \in MissionIds |-> FALSE]

-----------------------------------------------------------------------------
(* The domain rules, as functions of the loaded row. *)

AllowedTransitions ==
    [draft     |-> {"active", "archived"},
     active    |-> {"completed", "archived"},
     completed |-> {"archived"},
     archived  |-> {}]

IsValidTransition(current, target) ==
    current # target /\ target \in AllowedTransitions[current]

\* round() of Python: to the nearest, ties to the even neighbour.
RoundedRatio(p, q) ==
    LET low == p \div q
        rest == 2 * (p % q)
    IN  IF rest > q \/ (rest = q /\ low % 2 = 1) THEN low + 1 ELSE low

DoneSteps(steps) == {i \in DOMAIN steps : steps[i]}

ComputeProgress(steps) ==
    IF steps = <<>> THEN 0
    ELSE RoundedRatio(100 * Cardinality(DoneSteps(steps)), Len(steps))

Rejected(old, new) == [verdict |-> "error", new |-> new, sets |-> {}]
Accepted(new, sets) == [verdict |-> "write", new |-> new, sets |-> sets]

Completed(old) ==
    IF ~IsValidTransition(old.status, "completed") THEN Rejected(old, old)
    ELSE Accepted([status |-> "completed", progress |-> 100,
                   steps |-> [i \in DOMAIN old.steps |-> TRUE]], {})

\* The status is assigned before the later checks can still reject the body.
Restatused(old, b) ==
    IF b.status = Null THEN old ELSE [old EXCEPT !.status = b.status]

AutoCompleted(new) ==
    IF new.steps # <<>> /\ new.progress = 100 /\ new.status = "active"
    THEN [new EXCEPT !.status = "completed"]
    ELSE new

\* As if new steps left the progress alone, for comparison.
ReplacedWithoutProgress(old, b) ==
    [Restatused(old, b) EXCEPT !.steps = IF b.steps = Null THEN @ ELSE b.steps]

Replaced(old, b) ==
    LET steps == IF b.steps = Null THEN old.steps ELSE b.steps
    IN  AutoCompleted([Restatused(old, b) EXCEPT
                          !.steps = steps, !.progress = ComputeProgress(steps)])

Updated(old, b) ==
    LET new == Restatused(old, b)
        fields == b.steps # Null \/ b.other # "none"
    IN  CASE b.status = Null /\ ~fields -> Rejected(old, old)
          [] new.status # old.status /\ ~IsValidTransition(old.status, new.status) -> Rejected(old, old)
          [] OTHER ->
                IF (new.status = "archived" /\ fields) \/ b.other = "empty"
                THEN Rejected(old, new)
                ELSE Accepted(Replaced(old, b),
                              (IF b.steps # Null THEN {"steps"} ELSE {})
                              \cup (IF b.other # "none" THEN {"other"} ELSE {}))

Reopened(new) ==
    IF new.progress < 100 /\ new.status = "completed"
    THEN [new EXCEPT !.status = "active"]
    ELSE new

Flip(steps, i) == [steps EXCEPT ![i] = ~steps[i]]

Toggled(old, i) ==
    IF old.status \notin {"active", "completed"} \/ i \notin DOMAIN old.steps
    THEN Rejected(old, old)
    ELSE LET steps == Flip(old.steps, i)
             new == [old EXCEPT !.steps = steps, !.progress = ComputeProgress(steps)]
             done == IF new.progress = 100 /\ new.status = "active"
                     THEN [new EXCEPT !.status = "completed"] ELSE new
         IN  Accepted(Reopened(done), {"steps"})

Outcome(c, old) ==
    IF old \in {Absent, Deleted} THEN Rejected(old, old)
    ELSE CASE c.op = "complete" -> Completed(old)
           [] c.op = "update" -> Updated(old, c.body)
           [] c.op = "toggle" -> Toggled(old, c.index)
           [] c.op = "delete" -> Accepted(Deleted, {})

\* The attributes with a net change, and those that were flagged as modified;
\* a DELETE concerns them all.
Changed(old, o) ==
    IF old = Deleted THEN {}
    ELSE IF o.new = Deleted THEN Columns
    ELSE o.sets \cup {c \in {"status", "steps", "progress"} : o.new[c] # old[c]}

-----------------------------------------------------------------------------
(* Requests. *)

LockFree(r, m) == holder[m] \in {Null, r}

\* As if a mutation left the cache alone, for comparison.
InvalidationForgotten == UNCHANGED <<cache, doubt>>

\* The cache loses its entry, if Redis answers, although the change is
\* committed only later.
InvalidateCache ==
    \/ cache' = Null /\ doubt' = FALSE
    \/ CacheFaults /\ cache # Null /\ doubt' = TRUE /\ UNCHANGED cache

\* INSERT and flush of create_mission.
CreateMission(r, m) ==
    \E c \in Calls :
        /\ c.op = "create"
        /\ req[r] = Idle
        /\ row[m] = Absent
        /\ \A s \in Requests : req[s] # Idle => req[s].mission # m
        /\ c.body.other # "empty"
        /\ c.via = "tool" => c.body.status = "active" /\ DoneSteps(c.body.steps) = {}
        /\ LET new == [status |-> c.body.status, steps |-> c.body.steps,
                       progress |-> ComputeProgress(c.body.steps)]
           IN  req' = [req EXCEPT ![r] =
                          [pc |-> "flushed", call |-> c, mission |-> m, seen |-> Absent,
                           new |-> new, written |-> Columns, verdict |-> "write"]]
        /\ holder' = [holder EXCEPT ![m] = r]
        /\ InvalidateCache
        /\ UNCHANGED <<row, raced, reader>>

\* A call that is refused with no attribute assigned, or that finds a completed
\* mission completed, ends at once and has no effect: it is left out.
HasEffect(old, o) == o.verdict = "write" \/ Changed(old, o) # {}

\* As if toggle_step read like the others, for comparison.
LocksNothing(c) == FALSE

\* find_by_id_for_update
Locks(c) == c.op = "toggle"

\* find_by_id, or find_by_id_for_update, and the rules applied to the object.
Load(r, m, c) ==
    /\ req[r] = Idle
    /\ row[m] # Absent
    /\ c.op # "create"
    /\ Locks(c) => holder[m] = Null
    /\ LET o == Outcome(c, row[m])
       IN  /\ req' = [req EXCEPT ![r] =
                      [pc |-> "loaded", call |-> c, mission |-> m, seen |-> row[m], new |-> o.new,
                       written |-> Changed(row[m], o), verdict |-> o.verdict]]
           /\ HasEffect(row[m], o)
    /\ holder' = IF Locks(c) THEN [holder EXCEPT ![m] = r] ELSE holder
    /\ UNCHANGED <<row, raced, cache, reader, doubt>>

\* Whether the statement of r, if there is one, finds its row.
RowThere(r) == req[r].written = {} \/ row[req[r].mission] # Deleted

Ended(r) ==
    /\ req' = [req EXCEPT ![r] = Idle]
    /\ holder' = [m \in MissionIds |-> IF holder[m] = r THEN Null ELSE holder[m]]

\* flush(), the UPDATE or DELETE with the row lock, and _invalidate_cache.
Flush(r) ==
    /\ req[r].pc = "loaded"
    /\ req[r].verdict = "write"
    /\ req[r].written # {} => LockFree(r, req[r].mission)
    /\ RowThere(r)
    /\ req' = [req EXCEPT ![r].pc = "flushed"]
    /\ holder' = IF req[r].written # {}
                 THEN [holder EXCEPT ![req[r].mission] = r] ELSE holder
    /\ InvalidateCache
    /\ UNCHANGED <<row, raced, reader>>

\* The UPDATE matches no row: StaleDataError.  The DELETE counts none: 404.
FlushFails(r) ==
    /\ req[r].pc = "loaded"
    /\ req[r].verdict = "write"
    /\ LockFree(r, req[r].mission)
    /\ ~RowThere(r)
    /\ Ended(r)
    /\ UNCHANGED <<row, raced, cache, reader, doubt>>

Stored(r) ==
    LET m == req[r].mission
        q == req[r]
    IN  IF q.written = {} THEN row[m]
        ELSE IF q.new = Deleted \/ row[m] = Absent THEN q.new
        ELSE [c \in DOMAIN row[m] |-> IF c \in q.written THEN q.new[c] ELSE row[m][c]]

\* The invalidation of a successful request was done at its flush.
CommitRow(r) ==
    LET m == req[r].mission
    IN  /\ row' = [row EXCEPT ![m] = Stored(r)]
        /\ raced' = [raced EXCEPT ![m] = IF row[m] = req[r].seen
                                         THEN @ /\ req[r].verdict # "write"
                                         ELSE @ \/ row'[m] # row[m]]
        /\ Ended(r)
        /\ reader' = [reader EXCEPT !.doubt = reader.pc # "idle"]
        /\ UNCHANGED <<cache>>

Commit(r) ==
    /\ req[r].pc = "flushed"
    /\ CommitRow(r)
    /\ UNCHANGED doubt

\* The session of a request that was refused after an assignment: get_db rolls
\* back on the HTTPException, the session of a tool commits what is dirty.
Leave(r) ==
    /\ req[r].pc = "loaded"
    /\ req[r].verdict = "error"
    /\ IF req[r].call.via = "rest" \/ ~RowThere(r)
       THEN Ended(r) /\ UNCHANGED <<row, raced, cache, reader, doubt>>
       ELSE LockFree(r, req[r].mission) /\ CommitRow(r) /\ doubt' = (cache # Null)

\* A statement fails, the answer cannot be validated, or the process stops:
\* the transaction rolls back.
Fail(r) ==
    /\ req[r] # Idle
    /\ Ended(r)
    /\ UNCHANGED <<row, raced, cache, reader, doubt>>

-----------------------------------------------------------------------------
(* get_stats: a cache miss counts in separate statements, then stores. *)

Rows(S) == {m \in MissionIds : row[m] \in Row /\ row[m].status \in S}

CountByStatus(s) == Cardinality(Rows({s}))

CountAll == [total |-> Cardinality(Rows(Statuses)),
             active |-> CountByStatus("active"), completed |-> CountByStatus("completed")]

\* A change that is flushed and not committed yet will not be counted.
Uncommitted == \E r \in Requests : req[r] # Idle /\ req[r].pc = "flushed"

GetStats ==
    /\ reader.pc = "idle"
    /\ cache = Null
    /\ reader' = [pc |-> "counting", doubt |-> FALSE,
                  got |-> [CountAll EXCEPT !.completed = 0]]
    /\ UNCHANGED <<dbVars, req, cache, doubt>>

StoreStats ==
    /\ reader.pc = "counting"
    /\ cache' = [reader.got EXCEPT !.completed = CountByStatus("completed")]
    /\ doubt' = (reader.doubt \/ Uncommitted)
    /\ reader' = NoReader
    /\ UNCHANGED <<dbVars, req>>

\* The entry reaches its TTL.
Expire ==
    /\ cache # Null
    /\ cache' = Null
    /\ doubt' = FALSE
    /\ UNCHANGED <<dbVars, req, reader>>

-----------------------------------------------------------------------------
RequestStep(r) == Flush(r) \/ FlushFails(r) \/ Commit(r) \/ Leave(r)

Next ==
    \/ \E r \in Requests :
          \/ \E m \in MissionIds : CreateMission(r, m) \/ \E c \in Calls : Load(r, m, c)
          \/ RequestStep(r)
          \/ Fail(r)
    \/ GetStats \/ StoreStats \/ Expire

Spec == Init /\ [][Next]_vars

-----------------------------------------------------------------------------
(* Properties *)

\* The cached statistics are those of the committed missions, unless a commit
\* fell between the first count and the store, the entry was stored between
\* the flush and the commit of a request, Redis refused an invalidation, or a
\* rejected tool call committed its status without invalidating.
StatsHonest == cache # Null /\ ~doubt => cache = CountAll

InSync(x) ==
    \/ x.progress = ComputeProgress(x.steps)
    \/ x.progress = 100 /\ x.steps = <<>> /\ x.status \in {"completed", "archived"}

\* progress is the share of the steps that are done, or 100 for a mission that
\* was completed without steps, unless the last writer of the row had loaded
\* it before another request committed.  The next request that works on a
\* fresh copy repairs the skew.
ProgressFollowsSteps ==
    /\ TypeOK
    /\ \A m \in MissionIds : row[m] \in Row /\ ~raced[m] => InSync(row[m])

\* A toggle flips its step in the row as it is when the toggle commits: with
\* FOR UPDATE no concurrent toggle, update or completion is overwritten.
TogglesKept ==
    [][\A r \in Requests : Commit(r) /\ req[r].call.op = "toggle" =>
          LET m == req[r].mission
          IN  row'[m].steps = Flip(row[m].steps, req[r].call.index)]_vars
=============================================================================
