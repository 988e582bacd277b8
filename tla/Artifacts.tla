------------------------------ MODULE Artifacts -------------------------------
(***************************************************************************)
(* ArtifactService over PostgreSQL READ COMMITTED: files that users keep,  *)
(* each in a thread and with the version it was made from.  A request is   *)
(* one or two statements, committed by get_db only after its response, so  *)
(* clients use ids that are not committed yet.  Nothing but the foreign    *)
(* keys relates the statements of different requests.                      *)
(*                                                                         *)
(* A statement takes all its row locks in one step.  The deadlocks of      *)
(* PostgreSQL that this leaves out end like the statements that fail here. *)
(***************************************************************************)
EXTENDS Integers, Sequences

CONSTANTS Artifacts,    \* the ids
          Owner,        \* the user who makes the artifact of an id
          Threads, Requests, Absent, Deleted, Null,
          MaxRequests,  \* bound: requests
          MaxFaults     \* bound: statements or commits that fail

VARIABLES row,          \* the committed row of each id
          gone,         \* the threads whose deletion has committed
          req,          \* the request in progress in each slot
          requests, faults,
          early         \* history: made while the parent was no row of the user

vars == <<row, gone, req, requests, faults, early>>

Row == [thread : Threads \cup {Null}, parent : Artifacts \cup {Null}, version : 1 .. MaxRequests]

Idle == [pc |-> "idle"]

Request ==
    [pc : {"insert", "commit"}, op : {"create"}, id : Artifacts, row : Row]
    \cup [pc : {"update", "commit"}, op : {"update"}, id : Artifacts]
    \cup [pc : {"delete", "commit"}, op : {"delete"}, id : Artifacts]
    \cup [pc : {"delete", "commit"}, op : {"thread"}, thread : Threads]
    \cup [pc : {"walk"}, op : {"history"}, user : {Owner[i] : i \in Artifacts},
          id : Artifacts \cup {Null}, visited : SUBSET Artifacts,
          walk : Seq([id : Artifacts, version : 1 .. MaxRequests])]

ArtifactsAssumption ==
    /\ MaxRequests \in Nat
    /\ Null \notin Artifacts \cup Threads
    /\ {Absent, Deleted} \cap Row = {} /\ Absent # Deleted

Init ==
    /\ row = [i \in Artifacts |-> Absent]
    /\ gone = {}
    /\ req = [r \in Requests |-> Idle]
    /\ requests = 0 /\ faults = 0
    /\ early = {}

At(r, op, pc) == req[r].pc = pc /\ req[r].op = op
Busy(op, pc) == {r \in Requests : req[r].pc = pc /\ req[r].op = op}
Goes(r, pc) == req' = [req EXCEPT ![r].pc = pc]
Ends(r) == req' = [req EXCEPT ![r] = Idle]

Stored == {i \in Artifacts : row[i] \notin {Absent, Deleted}}
Children(i) == {c \in Stored : row[c].parent = i}
InThread(t) == {i \in Stored : row[i].thread = t}

-----------------------------------------------------------------------------
(* Row locks, by what the open transactions have done *)

\* Rows that a transaction has deleted, and those it has rewritten: by an
\* UPDATE, or by ON DELETE SET NULL for a parent that it has deleted.
DeletedBy(r) == IF At(r, "delete", "commit") THEN {req[r].id} \cap Stored
                ELSE IF At(r, "thread", "commit") THEN InThread(req[r].thread) ELSE {}
RewrittenBy(r) == UNION {Children(i) : i \in DeletedBy(r)}
                  \cup (IF At(r, "update", "commit") THEN {req[r].id} ELSE {})

\* Rows and threads that an INSERT refers to: key-share locked.
ReferredBy(r) == IF At(r, "create", "commit") THEN {req[r].row.parent, req[r].row.thread} \ {Null} ELSE {}

ThreadsDeletedBy(r) == IF At(r, "thread", "commit") THEN {req[r].thread} ELSE {}

BeingDeleted == UNION {DeletedBy(r) \cup ThreadsDeletedBy(r) : r \in Requests}
BeingRewritten == UNION {RewrittenBy(r) : r \in Requests}
Referred == UNION {ReferredBy(r) : r \in Requests}

\* A DELETE of these waits for nobody, and neither does the SET NULL behind it.
Deletable(I) ==
    /\ I \cap (BeingDeleted \cup BeingRewritten \cup Referred) = {}
    /\ UNION {Children(i) : i \in I} \cap (BeingDeleted \cup BeingRewritten) = {}

-----------------------------------------------------------------------------
(* create_artifact *)

\* Ids a client may know: those of responses, committed or not.
Known == {i \in Artifacts : row[i] # Absent \/ \E r \in Busy("create", "commit") : req[r].id = i}

\* find_by_id: a committed row of the user.
Found(i, u) == i \in Stored /\ Owner[i] = u

Version(i, u) == IF i # Null /\ Found(i, u) THEN row[i].version + 1 ELSE 1

CreateArtifact(r, i, t, p) ==
    /\ req[r].pc = "idle" /\ requests < MaxRequests
    /\ row[i] = Absent
    /\ \A q \in Busy("create", "insert") \cup Busy("create", "commit") : req[q].id # i
    /\ requests' = requests + 1
    /\ req' = [req EXCEPT ![r] =
                 [pc |-> "insert", op |-> "create", id |-> i,
                  row |-> [thread |-> t, parent |-> p, version |-> Version(p, Owner[i])]]]
    /\ early' = IF p # Null /\ ~Found(p, Owner[i]) THEN early \cup {i} ELSE early
    /\ UNCHANGED <<row, gone, faults>>

\* The foreign keys: a row that is being deleted is waited for, one that is not
\* committed, or has been deleted, fails the statement.
InsertArtifact(r) ==
    LET new == req[r].row
    IN  /\ At(r, "create", "insert")
        /\ {new.parent, new.thread} \cap BeingDeleted = {}
        /\ IF new.parent \in Stored \cup {Null} /\ new.thread \notin gone
           THEN Goes(r, "commit") ELSE Ends(r)
        /\ UNCHANGED <<row, gone, requests, faults, early>>

CommitArtifact(r) ==
    /\ At(r, "create", "commit")
    /\ row' = [row EXCEPT ![req[r].id] = req[r].row]
    /\ Ends(r)
    /\ UNCHANGED <<gone, requests, faults, early>>

-----------------------------------------------------------------------------
(* update_artifact: name, content, language or type, which nothing here reads *)

UpdateArtifact(r, i) ==
    /\ req[r].pc = "idle" /\ requests < MaxRequests /\ i \in Stored
    /\ requests' = requests + 1
    /\ req' = [req EXCEPT ![r] = [pc |-> "update", op |-> "update", id |-> i]]
    /\ UNCHANGED <<row, gone, faults, early>>

\* A row that was deleted since it was read ends the request with an error.
FlushUpdate(r) ==
    /\ At(r, "update", "update")
    /\ req[r].id \notin BeingDeleted \cup BeingRewritten
    /\ IF req[r].id \in Stored THEN Goes(r, "commit") ELSE Ends(r)
    /\ UNCHANGED <<row, gone, requests, faults, early>>

CommitUpdate(r) ==
    /\ At(r, "update", "commit")
    /\ Ends(r)
    /\ UNCHANGED <<row, gone, requests, faults, early>>

-----------------------------------------------------------------------------
(* delete_artifact, and the deletion of a thread, which cascades *)

DeleteArtifact(r, i) ==
    /\ req[r].pc = "idle" /\ requests < MaxRequests /\ i \in Stored
    /\ requests' = requests + 1
    /\ req' = [req EXCEPT ![r] = [pc |-> "delete", op |-> "delete", id |-> i]]
    /\ UNCHANGED <<row, gone, faults, early>>

DeleteThread(r, t) ==
    /\ req[r].pc = "idle" /\ requests < MaxRequests /\ t \notin gone
    /\ requests' = requests + 1
    /\ req' = [req EXCEPT ![r] = [pc |-> "delete", op |-> "thread", thread |-> t]]
    /\ UNCHANGED <<row, gone, faults, early>>

ExecuteDelete(r) ==
    /\ At(r, "delete", "delete")
    /\ Deletable({req[r].id})
    /\ Goes(r, "commit")
    /\ UNCHANGED <<row, gone, requests, faults, early>>

ExecuteDeleteThread(r) ==
    /\ At(r, "thread", "delete")
    /\ req[r].thread \notin BeingDeleted \cup Referred
    /\ Deletable(InThread(req[r].thread))
    /\ Goes(r, "commit")
    /\ UNCHANGED <<row, gone, requests, faults, early>>

\* As if parent_id were a plain column, which a deletion leaves, for comparison.
KeepsParent(x, I) == x

\* ON DELETE SET NULL.
WithoutParent(x, I) == IF x.parent \in I THEN [x EXCEPT !.parent = Null] ELSE x

CommitDelete(r) ==
    /\ At(r, "delete", "commit") \/ At(r, "thread", "commit")
    /\ row' = [i \in Artifacts |->
                 IF i \in DeletedBy(r) THEN Deleted
                 ELSE IF i \in Stored THEN WithoutParent(row[i], DeletedBy(r)) ELSE row[i]]
    /\ gone' = gone \cup ThreadsDeletedBy(r)
    /\ Ends(r)
    /\ UNCHANGED <<requests, faults, early>>

-----------------------------------------------------------------------------
(* get_version_history: one query for each step of the walk *)

StartHistory(r, i) ==
    /\ req[r].pc = "idle" /\ requests < MaxRequests /\ i \in Stored
    /\ requests' = requests + 1
    /\ req' = [req EXCEPT ![r] = [pc |-> "walk", op |-> "history", user |-> Owner[i],
                                  id |-> i, visited |-> {}, walk |-> <<>>]]
    /\ UNCHANGED <<row, gone, faults, early>>

\* The walk stays until the next request of its slot.
WalkHistory(r) ==
    LET q == req[r]
    IN  /\ At(r, "history", "walk")
        /\ req' = [req EXCEPT ![r] =
                     IF q.id \in q.visited \cup {Null} THEN Idle
                     ELSE IF ~Found(q.id, q.user) THEN Idle
                     ELSE [q EXCEPT !.visited = @ \cup {q.id},
                                    !.walk = Append(@, [id |-> q.id, version |-> row[q.id].version]),
                                    !.id = row[q.id].parent]]
        /\ UNCHANGED <<row, gone, requests, faults, early>>

-----------------------------------------------------------------------------
\* A statement or a commit fails: nothing of the request stays.
Fail(r) ==
    /\ req[r].pc # "idle" /\ faults < MaxFaults
    /\ faults' = faults + 1
    /\ Ends(r)
    /\ UNCHANGED <<row, gone, requests, early>>

Next ==
    \E r \in Requests :
       \/ \E i \in Artifacts, t \in Threads \cup {Null}, p \in Known \cup {Null} :
             CreateArtifact(r, i, t, p)
       \/ \E i \in Artifacts : UpdateArtifact(r, i) \/ DeleteArtifact(r, i) \/ StartHistory(r, i)
       \/ \E t \in Threads : DeleteThread(r, t)
       \/ InsertArtifact(r) \/ CommitArtifact(r) \/ FlushUpdate(r) \/ CommitUpdate(r)
       \/ ExecuteDelete(r) \/ ExecuteDeleteThread(r) \/ CommitDelete(r)
       \/ WalkHistory(r) \/ Fail(r)

Spec == Init /\ [][Next]_vars

-----------------------------------------------------------------------------
(* Properties *)

TypeOK ==
    /\ row \in [Artifacts -> Row \cup {Absent, Deleted}]
    /\ gone \in SUBSET Threads /\ early \in SUBSET Artifacts
    /\ req \in [Requests -> Request \cup {Idle}]
    /\ requests \in 0 .. MaxRequests

\* The artifacts form histories, whatever is created, deleted and cascaded
\* meanwhile: a parent and a thread that a row names exist, a row is the next
\* version of its parent unless the parent was not there, or another user's,
\* when the version was computed, and a walk through a history that changes
\* under it never returns to a row, and counts down to an early one by ones.
ArtifactsFormHistories ==
    /\ TypeOK
    /\ \A i \in Stored :
          /\ row[i].thread \notin gone
          /\ row[i].parent # Null =>
                /\ row[i].parent \in Stored
                /\ i \notin early => row[i].version = row[row[i].parent].version + 1
    /\ \A r \in Requests : At(r, "history", "walk") =>
          LET w == req[r].walk
          IN  /\ req[r].id \notin req[r].visited
              /\ \A n \in 2 .. Len(w) : w[n - 1].id \notin early => w[n - 1].version = w[n].version + 1
=============================================================================
