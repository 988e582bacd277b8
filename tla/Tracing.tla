------------------------------- MODULE Tracing -------------------------------
(***************************************************************************)
(* infrastructure/telemetry/phoenix.py: one tracer per process.  A chat    *)
(* writes its user's choice to the process environment and resets the      *)
(* initialised flag; its workflow then asks whether tracing is on, which   *)
(* registers the tracer under a lock the first time.  The answer decides   *)
(* on the metadata of the workflow's traces only: with a tracer registered *)
(* LangChain is instrumented, in the project of the registration and until *)
(* the process ends, whatever later chats choose.                          *)
(***************************************************************************)
EXTENDS Integers

CONSTANTS Chats, Projects, Null,
          MaxChats,   \* bound: chats in a behaviour
          MaxFaults   \* bound: registrations that fail

VARIABLES enabled,       \* PHOENIX_ENABLED
          project,       \* PHOENIX_PROJECT_NAME
          initialized,   \* _initialized
          registered,    \* _otel_registered: the project of the tracer provider, or Null
          lock,          \* who holds _init_lock
          chat,          \* the chats in progress
          registrations, \* history: tracer providers registered
          chats, faults

TracingAssumption == Null \notin Chats /\ Null \notin BOOLEAN /\ Null # "ai-agent"

vars == <<enabled, project, initialized, registered, lock, chat, registrations, chats, faults>>

Idle == [pc |-> "idle"]

Init ==
    /\ enabled \in BOOLEAN
    /\ project = Null
    /\ initialized = FALSE
    /\ registered = Null
    /\ lock = Null
    /\ chat = [c \in Chats |-> Idle]
    /\ registrations = 0 /\ chats = 0 /\ faults = 0

At(c, pc) == chat[c].pc = pc

Goes(c, pc) == chat' = [chat EXCEPT ![c].pc = pc]

InProgress == {c \in Chats : chat[c] # Idle}

\* A chat of a user who traces to p, or does not trace.
Start(c, on, p) ==
    /\ At(c, "idle") /\ chats < MaxChats
    /\ chats' = chats + 1
    /\ chat' = [chat EXCEPT ![c] = [pc |-> "switch", on |-> on, project |-> p, met |-> FALSE,
                                    failed |-> FALSE, told |-> FALSE]]
    /\ UNCHANGED <<enabled, project, initialized, registered, lock, registrations, faults>>

\* Regenerations, edits and automations apply nobody's settings.
StartWithoutSettings(c) ==
    /\ At(c, "idle") /\ chats < MaxChats
    /\ chats' = chats + 1
    /\ chat' = [chat EXCEPT ![c] = [pc |-> "ask", on |-> Null, project |-> Null, met |-> FALSE,
                                    failed |-> FALSE, told |-> FALSE]]
    /\ UNCHANGED <<enabled, project, initialized, registered, lock, registrations, faults>>

\* The chats c meets by writing, and whether it meets one that initialises.
Meets(c, next) ==
    chat' = [d \in Chats |->
        IF d = c THEN [next EXCEPT !.met = @ \/ \E e \in InProgress \ {c} : chat[e].pc \in {"register", "done"}]
        ELSE IF d \in InProgress THEN [chat[d] EXCEPT !.met = TRUE] ELSE chat[d]]

\* apply_user_phoenix_settings: the switch, ...
Switch(c) ==
    /\ At(c, "switch")
    /\ enabled' = chat[c].on
    /\ Meets(c, [chat[c] EXCEPT !.pc = IF chat[c].on /\ chat[c].project # Null THEN "project" ELSE "reset"])
    /\ UNCHANGED <<project, initialized, registered, lock, registrations, chats, faults>>

\* ... the project, ...
SetProject(c) ==
    /\ At(c, "project")
    /\ project' = chat[c].project
    /\ Meets(c, [chat[c] EXCEPT !.pc = "reset"])
    /\ UNCHANGED <<enabled, initialized, registered, lock, registrations, chats, faults>>

\* ... and re-initialisation at the next question.
Reset(c) ==
    /\ At(c, "reset")
    /\ initialized' = FALSE
    /\ Meets(c, [chat[c] EXCEPT !.pc = "ask"])
    /\ UNCHANGED <<enabled, project, registered, lock, registrations, chats, faults>>

\* tracing_enabled, when no initialisation is due.
Ask(c) ==
    /\ At(c, "ask")
    /\ IF initialized
       THEN chat' = [chat EXCEPT ![c].pc = "running", ![c].told = enabled]
       ELSE Goes(c, "wait")
    /\ UNCHANGED <<enabled, project, initialized, registered, lock, registrations, chats, faults>>

\* _ensure_initialized takes the lock and looks again.
Acquire(c) ==
    /\ At(c, "wait") /\ lock = Null
    /\ IF initialized
       THEN Goes(c, "told") /\ UNCHANGED lock
       ELSE lock' = c /\ Goes(c, IF enabled THEN "register" ELSE "done")
    /\ UNCHANGED <<enabled, project, initialized, registered, registrations, chats, faults>>

Registers == registered = Null

Register(c) ==
    /\ At(c, "register")
    /\ IF Registers
       THEN /\ registered' = IF project = Null THEN "ai-agent" ELSE project
            /\ registrations' = registrations + 1
       ELSE UNCHANGED <<registered, registrations>>
    /\ Goes(c, "done")
    /\ UNCHANGED <<enabled, project, initialized, lock, chats, faults>>

\* phoenix.otel cannot be imported or reached; the flag is set all the same.
RegisterFails(c) ==
    /\ At(c, "register") /\ Registers /\ faults < MaxFaults
    /\ faults' = faults + 1
    /\ chat' = [d \in Chats |->
          IF d = c THEN [chat[c] EXCEPT !.pc = "done", !.failed = TRUE]
          ELSE IF d \in InProgress THEN [chat[d] EXCEPT !.failed = TRUE] ELSE chat[d]]
    /\ UNCHANGED <<enabled, project, initialized, registered, lock, registrations, chats>>

SetInitialized(c) ==
    /\ At(c, "done")
    /\ initialized' = TRUE
    /\ lock' = Null
    /\ Goes(c, "told")
    /\ UNCHANGED <<enabled, project, registered, registrations, chats, faults>>

\* tracing_enabled reads the environment after the initialisation.
Told(c) ==
    /\ At(c, "told")
    /\ chat' = [chat EXCEPT ![c].pc = "running", ![c].told = enabled]
    /\ UNCHANGED <<enabled, project, initialized, registered, lock, registrations, chats, faults>>

Finish(c) ==
    /\ At(c, "running")
    /\ chat' = [chat EXCEPT ![c] = Idle]
    /\ UNCHANGED <<enabled, project, initialized, registered, lock, registrations, chats, faults>>

Next ==
    \E c \in Chats :
        \/ \E on \in BOOLEAN, p \in Projects \cup {Null} : Start(c, on, p)
        \/ StartWithoutSettings(c)
        \/ Switch(c) \/ SetProject(c) \/ Reset(c) \/ Ask(c) \/ Acquire(c)
        \/ Register(c) \/ RegisterFails(c) \/ SetInitialized(c) \/ Told(c) \/ Finish(c)

Spec == Init /\ [][Next]_vars

-----------------------------------------------------------------------------
(* Properties *)

TypeOK ==
    /\ enabled \in BOOLEAN /\ initialized \in BOOLEAN
    /\ registered \in Projects \cup {"ai-agent", Null}
    /\ lock \in Chats \cup {Null}

\* At most one tracer provider is ever registered, whatever chats initialise at
\* the same time.  A chat whose settings no other chat disturbs is told what
\* they say, and when they switch tracing on, a provider is registered unless
\* its registration failed, in this initialisation.  That says nothing of the
\* project of its traces, nor that none are made when it is switched off: the
\* provider of the first chat stays (phoenix.py:66-73).
ChatToldAsSet ==
    /\ TypeOK
    /\ registrations <= 1
    /\ \A c \in InProgress :
          At(c, "running") /\ chat[c].on # Null /\ ~chat[c].met =>
              /\ chat[c].told = chat[c].on
              /\ chat[c].told /\ ~chat[c].failed => registered # Null
=============================================================================
