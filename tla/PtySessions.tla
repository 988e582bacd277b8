----------------------------- MODULE PtySessions -----------------------------
(***************************************************************************)
(* The shell sessions of infrastructure/os_control/pty_session.py behind   *)
(* services/os_control_service.py.  Calls run on threads of the pool, on   *)
(* the agent's thread and, for the deletion, on the event loop, and no lock *)
(* guards the two dictionaries of PTYSessionManager: threads may switch     *)
(* between any two steps below.  The time stamps of _last_activity matter  *)
(* by their order only, so the dictionary is the sequence of its keys, the  *)
(* least recent first, and idle keys are a prefix of it.                    *)
(***************************************************************************)
EXTENDS Naturals, Sequences, FiniteSets, SequencesExt

CONSTANTS Users, Calls, Dirs, Home, Null,
          MaxSessions,   \* max_sessions, 50 in the code
          MaxCalls       \* bound: calls in a behaviour

VARIABLES
    sessions,   \* _sessions: the session object of each user, Null if none
    activity,   \* _last_activity: its keys in the order of their stamps
    dir,        \* working_directory of every session object made so far
    call,       \* the calls in progress
    calls,      \* their number so far
    reported,   \* the working_directory in the last response each user got
    excused,    \* history: users whose session was closed or whose calls overlapped
    raced       \* history: two calls met in the dictionaries

vars == <<sessions, activity, dir, call, calls, reported, excused, raced>>

Idle == [pc |-> "idle"]

\* left are the ids a call still has to close, then is what it does after that.
ShellCall ==
    [pc : {"scan", "sweep", "find", "look", "drop", "forget", "touch", "take", "insert", "stamp",
           "begin", "running", "cd"},
     op : {"shell"}, user : Users, wd : Dirs \cup {Null}, size : Nat, left : Seq(Users),
     then : {"find", "insert"}, obj : Nat \cup {Null}, at : Dirs \cup {Null}]

CloseCall ==
    [pc : {"look", "drop", "forget"}, op : {"close"}, user : Users, left : Seq(Users), then : {"idle"}]

PtyAssumption ==
    /\ MaxSessions \in Nat \ {0} /\ IsFiniteSet(Users) /\ Home \in Dirs
    /\ Null \notin Users \cup Dirs \cup Nat

Open == {u \in Users : sessions[u] # Null}

\* Calls that work on the command, outside of the manager.
Executing == {"begin", "running", "cd"}

Init ==
    /\ sessions = [u \in Users |-> Null]
    /\ activity = <<>>
    /\ dir = <<>>
    /\ call = [k \in Calls |-> Idle]
    /\ calls = 0
    /\ reported = [u \in Users |-> Null]
    /\ excused = {}
    /\ raced = FALSE

Active(u) == {k \in Calls : call[k] # Idle /\ call[k].op = "shell" /\ call[k].user = u}

\* The ids whose dictionary entries a call has looked at and not yet settled.
Handles(k) ==
    IF call[k].pc \in {"touch", "take", "insert", "stamp"} THEN {call[k].user}
    ELSE IF call[k].pc \in {"look", "drop", "forget"}
    THEN ToSet(call[k].left) \cup IF call[k].then = "insert" THEN {call[k].user} ELSE {}
    ELSE {}

Meets(k, ids) == \E j \in Calls \ {k} : ids \cap Handles(j) # {}

Moved(k, pc) == call' = [call EXCEPT ![k].pc = pc]

----------------------------------------------------------------------------
(* Calls *)

ExecuteShell(k, u, w) ==
    /\ call[k] = Idle /\ calls < MaxCalls
    /\ call' = [call EXCEPT ![k] =
           [pc |-> "scan", op |-> "shell", user |-> u, wd |-> w, size |-> 0, left |-> <<>>,
            then |-> "find", obj |-> Null, at |-> Null]]
    /\ calls' = calls + 1
    /\ excused' = IF Active(u) = {} THEN excused ELSE excused \cup {u}
    /\ UNCHANGED <<sessions, activity, dir, reported, raced>>

CloseShellSession(k, u) ==
    /\ call[k] = Idle /\ calls < MaxCalls
    /\ call' = [call EXCEPT ![k] =
           [pc |-> "look", op |-> "close", user |-> u, left |-> <<u>>, then |-> "idle"]]
    /\ calls' = calls + 1
    /\ raced' = (raced \/ Meets(k, {u}))
    /\ UNCHANGED <<sessions, activity, dir, reported, excused>>

\* RuntimeError and KeyError of the dictionaries end a call.
Fails(k) ==
    /\ call' = [call EXCEPT ![k] = Idle]
    /\ UNCHANGED <<sessions, activity, dir, calls, reported, excused, raced>>

----------------------------------------------------------------------------
(* get_or_create *)

\* The comprehension over _last_activity begins ...
Scan(k) ==
    /\ call[k].pc = "scan"
    /\ call' = [call EXCEPT ![k].pc = "sweep", ![k].size = Len(activity)]
    /\ UNCHANGED <<sessions, activity, dir, calls, reported, excused, raced>>

\* ... and raises when the dictionary changed its size meanwhile.  A command
\* ends long before its session counts as idle.
Sweep(k) ==
    /\ call[k].pc = "sweep"
    /\ IF Len(activity) # call[k].size
       THEN Fails(k)
       ELSE \E n \in 0..Len(activity) :
              /\ \A i \in 1..n : \A j \in Active(activity[i]) :
                    call[j].pc \notin Executing \cup {"take"}
              /\ call' = [call EXCEPT ![k].pc = "look", ![k].left = SubSeq(activity, 1, n)]
              /\ raced' = (raced \/ Meets(k, ToSet(SubSeq(activity, 1, n))))
              /\ UNCHANGED <<sessions, activity, dir, calls, reported, excused>>

\* close_session, for each id that a cleanup, an eviction or a DELETE closes.
Look(k) ==
    /\ call[k].pc = "look"
    /\ IF call[k].left = <<>>
       THEN IF call[k].then = "idle" THEN call' = [call EXCEPT ![k] = Idle]
            ELSE Moved(k, call[k].then)
       ELSE IF sessions[Head(call[k].left)] # Null
       THEN Moved(k, "drop")
       ELSE call' = [call EXCEPT ![k].left = Tail(@)]
    /\ UNCHANGED <<sessions, activity, dir, calls, reported, excused, raced>>

Drop(k) ==
    /\ call[k].pc = "drop"
    /\ LET id == Head(call[k].left) IN
       IF sessions[id] = Null
       THEN Fails(k)
       ELSE /\ sessions' = [sessions EXCEPT ![id] = Null]
            /\ excused' = excused \cup {id}
            /\ Moved(k, "forget")
            /\ UNCHANGED <<activity, dir, calls, reported, raced>>

Forgotten(id) ==
    IF id \in ToSet(activity)
    THEN RemoveAt(activity, CHOOSE i \in DOMAIN activity : activity[i] = id)
    ELSE activity

Forget(k) ==
    /\ call[k].pc = "forget"
    /\ activity' = Forgotten(Head(call[k].left))
    /\ call' = [call EXCEPT ![k].pc = "look", ![k].left = Tail(@)]
    /\ UNCHANGED <<sessions, dir, calls, reported, excused, raced>>

Full == Cardinality(Open) >= MaxSessions

\* As if every command made a session of its own, for comparison.
NeverFound(u) == FALSE

Found(u) == sessions[u] # Null

\* The session of the user, or a new one, for which the least recent goes.
Find(k) ==
    /\ call[k].pc = "find"
    /\ LET u == call[k].user
           creating == \E j \in Calls \ {k} :
                          \/ call[j].pc \in {"insert", "stamp"}
                          \/ call[j].pc \in {"look", "drop", "forget"} /\ call[j].then = "insert"
           evicts == ~Found(u) /\ Full /\ activity # <<>>
       IN
       /\ call' = [call EXCEPT ![k] =
              IF Found(u) THEN [@ EXCEPT !.pc = "touch"]
              ELSE IF evicts
              THEN [@ EXCEPT !.pc = "look", !.left = <<Head(activity)>>, !.then = "insert"]
              ELSE [@ EXCEPT !.pc = "insert"]]
       /\ raced' = \/ raced
                   \/ ~Found(u) /\ creating
                   \/ Meets(k, {u})
                   \/ evicts /\ (sessions[Head(activity)] = Null \/ Meets(k, {Head(activity)}))
    /\ UNCHANGED <<sessions, activity, dir, calls, reported, excused>>

Stamped(u) == Append(Forgotten(u), u)

Touch(k) ==
    /\ call[k].pc = "touch"
    /\ activity' = Stamped(call[k].user)
    /\ Moved(k, "take")
    /\ UNCHANGED <<sessions, dir, calls, reported, excused, raced>>

Take(k) ==
    /\ call[k].pc = "take"
    /\ IF sessions[call[k].user] = Null
       THEN Fails(k)
       ELSE /\ call' = [call EXCEPT ![k].pc = "begin", ![k].obj = sessions[call[k].user]]
            /\ UNCHANGED <<sessions, activity, dir, calls, reported, excused, raced>>

\* PTYSession starts in the directory of the call that creates it.
Insert(k) ==
    /\ call[k].pc = "insert"
    /\ dir' = Append(dir, IF call[k].wd = Null THEN Home ELSE call[k].wd)
    /\ sessions' = [sessions EXCEPT ![call[k].user] = Len(dir')]
    /\ call' = [call EXCEPT ![k].pc = "stamp", ![k].obj = Len(dir')]
    /\ UNCHANGED <<activity, calls, reported, excused, raced>>

Stamp(k) ==
    /\ call[k].pc = "stamp"
    /\ activity' = Stamped(call[k].user)
    /\ Moved(k, "begin")
    /\ UNCHANGED <<sessions, dir, calls, reported, excused, raced>>

----------------------------------------------------------------------------
(* PTYSession.execute *)

Begin(k) ==
    /\ call[k].pc = "begin"
    /\ call' = [call EXCEPT ![k].pc = "running",
                            ![k].at = IF call[k].wd = Null THEN dir[call[k].obj] ELSE call[k].wd]
    /\ UNCHANGED <<sessions, activity, dir, calls, reported, excused, raced>>

\* The response names the directory of the session object.
Answers(k, d) ==
    /\ dir' = [dir EXCEPT ![call[k].obj] = d]
    /\ reported' = [reported EXCEPT ![call[k].user] = d]
    /\ excused' = IF Active(call[k].user) = {k} /\ sessions[call[k].user] = call[k].obj
                  THEN excused \ {call[k].user} ELSE excused
    /\ call' = [call EXCEPT ![k] = Idle]
    /\ UNCHANGED <<sessions, activity, calls, raced>>

\* A command without "cd ", a time out or an exception leave the directory.
Finish(k) == call[k].pc = "running" /\ Answers(k, dir[call[k].obj])

ContainsCd(k) ==
    /\ call[k].pc = "running"
    /\ Moved(k, "cd")
    /\ UNCHANGED <<sessions, activity, dir, calls, reported, excused, raced>>

\* _update_working_directory runs the whole command again, followed by pwd:
\* the second run ends in d, or fails or is too slow, which changes nothing.
UpdateWorkingDirectory(k) ==
    /\ call[k].pc = "cd"
    /\ \E d \in Dirs : Answers(k, d)

UpdateFails(k) == call[k].pc = "cd" /\ Answers(k, dir[call[k].obj])

----------------------------------------------------------------------------
Step(k) ==
    \/ Scan(k) \/ Sweep(k) \/ Look(k) \/ Drop(k) \/ Forget(k)
    \/ Find(k) \/ Touch(k) \/ Take(k) \/ Insert(k) \/ Stamp(k)
    \/ Begin(k) \/ Finish(k) \/ ContainsCd(k) \/ UpdateWorkingDirectory(k) \/ UpdateFails(k)

Next ==
    \E k \in Calls :
        \/ \E u \in Users : \/ \E w \in Dirs \cup {Null} : ExecuteShell(k, u, w)
                            \/ CloseShellSession(k, u)
        \/ Step(k)

Spec == Init /\ [][Next]_vars

----------------------------------------------------------------------------
(* Properties *)

TypeOK ==
    /\ sessions \in [Users -> (1..Len(dir)) \cup {Null}]
    /\ activity \in Seq(Users) /\ dir \in Seq(Dirs)
    /\ call \in [Calls -> ShellCall \cup CloseCall \cup {Idle}]
    /\ reported \in [Users -> Dirs \cup {Null}]
    /\ excused \in SUBSET Users /\ raced \in BOOLEAN

InManager(k) == call[k].pc \notin Executing \cup {"idle", "scan", "sweep", "find"}

\* However calls that create, evict, expire and close sessions interleave,
\* there are never more sessions than max_sessions, and when no call is inside
\* the manager, every session has its time stamp and every stamp its session,
\* also after calls that ended in a KeyError or RuntimeError.  A stamp without
\* a session would be evicted in vain for ever, a session without a stamp
\* would never expire.  Excepted are two creations at once, two calls that
\* settle the entries of one user, and an eviction of an id whose session
\* another call has already dropped.
SessionsAccounted ==
    /\ TypeOK
    /\ ~raced =>
        /\ Cardinality(Open) <= MaxSessions
        /\ (\A k \in Calls : ~InManager(k)) => Open = ToSet(activity)

\* A command starts in the directory that the last response reported to its
\* user, unless the call names another one, the session was closed, expired or
\* evicted since, or commands of the user overlapped.
DirectoryCarries ==
    [][\A k \in Calls :
         (/\ call[k].pc = "begin" /\ call'[k].pc = "running" /\ call[k].wd = Null
          /\ call[k].user \notin excused /\ reported[call[k].user] # Null)
            => call'[k].at = reported[call[k].user]]_vars
=============================================================================
