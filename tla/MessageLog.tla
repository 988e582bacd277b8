----------------------------- MODULE MessageLog -----------------------------
(***************************************************************************)
(* What chat persistence promises, with no executor, transaction or lock:  *)
(* every message that was submitted is stored once or dropped, storing a   *)
(* message and compacting its thread is one step computed on the rows as   *)
(* they are at that step, and deleting a thread removes its rows for good. *)
(* ChatHistory implements this specification.                              *)
(***************************************************************************)
EXTENDS MessageTable

VARIABLES threadState,  \* "new", "live" or "deleted"
          req,          \* the request behind each message id
          fate,         \* "none", "pending", "stored" or "dropped"
          rows,         \* the committed rows
          parentOf,     \* parent_id of each row
          clock         \* now() of the database

logVars == <<threadState, req, fate, rows, parentOf, clock>>

InitLog ==
    /\ threadState = [t \in Threads |-> "new"]
    /\ req = [m \in MessageIds |-> Null]
    /\ fate = [m \in MessageIds |-> "none"]
    /\ rows = {}
    /\ parentOf = [i \in RowIds |-> Null]
    /\ clock = 0

CreateThread(t) ==
    /\ threadState[t] = "new"
    /\ threadState' = [threadState EXCEPT ![t] = "live"]
    /\ UNCHANGED <<req, fate, rows, parentOf, clock>>

Submit(m, q) ==
    /\ fate[m] = "none"
    /\ fate' = [fate EXCEPT ![m] = "pending"]
    /\ req' = [req EXCEPT ![m] = q]
    /\ UNCHANGED <<threadState, rows, parentOf, clock>>

Tick ==
    /\ clock' = clock + 1
    /\ UNCHANGED <<threadState, req, fate, rows, parentOf>>

\* Append message m stamped now, and compact with the rows of this very step.
Store(m, now, ok) ==
    LET q    == req[m]
        new  == MessageRow(m, q, now)
        R    == ThreadRows(rows, q.thread) \cup {new}
        dead == Deleted(R, ok)
    IN  /\ fate[m] = "pending"
        /\ threadState[q.thread] = "live"
        /\ q.parent = Null \/ q.parent \in Ids(rows)
        /\ fate' = [fate EXCEPT ![m] = "stored"]
        /\ rows' = (rows \cup {new} \cup Added(R, ok, m, q.thread, now)) \ dead
        /\ parentOf' = SetNull([parentOf EXCEPT ![m] = q.parent], Ids(dead))
        /\ UNCHANGED <<threadState, req, clock>>

\* One message is lost, or, in a restart, every pending one.
Drop(M) ==
    /\ \A m \in M : fate[m] = "pending"
    /\ fate' = [m \in MessageIds |-> IF m \in M THEN "dropped" ELSE fate[m]]
    /\ UNCHANGED <<threadState, req, rows, parentOf, clock>>

DeleteThread(t) ==
    /\ threadState[t] = "live"
    /\ threadState' = [threadState EXCEPT ![t] = "deleted"]
    /\ rows' = rows \ ThreadRows(rows, t)
    /\ parentOf' = SetNull(parentOf, Ids(ThreadRows(rows, t)))
    /\ UNCHANGED <<req, fate, clock>>

NextLog ==
    \/ \E t \in Threads : CreateThread(t) \/ DeleteThread(t)
    \/ \E m \in MessageIds, q \in Request : Submit(m, q)
    \/ \E m \in MessageIds, now \in 1 .. clock, ok \in BOOLEAN : Store(m, now, ok)
    \/ \E M \in SUBSET MessageIds : Drop(M)
    \/ Tick

LogSpec == InitLog /\ [][NextLog]_logVars
=============================================================================
