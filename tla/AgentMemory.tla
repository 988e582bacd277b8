------------------------------ MODULE AgentMemory ----------------------------
(***************************************************************************)
(* Long-term memory of the agent: a run of the graph recalls, stores and   *)
(* forgets memories of its user in a store that it opens for itself, and   *)
(* leaves a daemon thread behind that stores the turn as an episode and    *)
(* then updates the emotional state.  The store outlives the process; the  *)
(* runs, the daemon threads and the cached embedding model do not.         *)
(***************************************************************************)
EXTENDS Integers, FiniteSets

CONSTANTS Runs,          \* runs of the graph, each with the daemon thread it leaves
          Owner,         \* the user of each conversation
          Threads,       \* conversations
          Null,
          ForgetLimit,   \* the most memories a forget asks for (3 in the code)
          MaxRuns,       \* bound: runs of the graph
          MaxKeys,       \* bound: memories ever written
          MaxFaults      \* bound: failures of the model loader and of Postgres, and restarts

VARIABLES memories,   \* [key, user, kind, thread, indexed]
          threads,    \* the conversations that exist
          loaded,     \* _embeddings_cache holds the model
          run,        \* the run of each member of Runs, while it lasts
          job,        \* the daemon thread it left behind, while it lasts
          keys,       \* keys handed out (uuid4)
          started, faults,
          told,       \* history: keys the user was told are remembered
          unstored,   \* history: keys whose put failed
          forgotten,  \* history: keys a forget deleted
          counted,    \* history: memories that forgets reported
          crossed,    \* history: two forgets of one user overlapped, or a restart cut one off
          answered,   \* history: answers worth an episode
          episodes,   \* history: what was put for them, [answer, key]
          cut         \* history: answers whose put failed or whose thread a restart took

MemoryAssumption == Null \notin Threads

vars == <<memories, threads, loaded, run, job, keys, started, faults,
          told, unstored, forgotten, counted, crossed, answered, episodes, cut>>

answers == <<answered, episodes, cut>>

Owners == {Owner[t] : t \in Threads}

Idle == [pc |-> "idle"]

Init ==
    /\ memories = {} /\ threads = Threads
    /\ loaded = FALSE
    /\ run = [r \in Runs |-> Idle]
    /\ job = [r \in Runs |-> Idle]
    /\ keys = 0 /\ started = 0 /\ faults = 0
    /\ told = {} /\ unstored = {} /\ forgotten = {}
    /\ counted = 0 /\ crossed = FALSE
    /\ answered = 0 /\ episodes = {} /\ cut = {}

Fault == faults < MaxFaults /\ faults' = faults + 1

OfUser(u) == {m \in memories : m.user = u}

\* With an index the query joins the vectors: a memory put without one is not
\* found.  Without an index the query is ignored.
Visible(u, semantic) == {m \in OfUser(u) : semantic => m.indexed}

\* The store's ranking is the embedding model's: any of the visible ones, as many
\* as the limit allows.  Nothing is too far away to be found.
Found(u, semantic, limit) ==
    LET all == Visible(u, semantic)
    IN  {s \in SUBSET all : Cardinality(s) = IF Cardinality(all) < limit THEN Cardinality(all) ELSE limit}

\* memory_store_context: the model is loaded once per process; without it the
\* store works without an index.
Opens(semantic) ==
    \/ loaded /\ semantic /\ UNCHANGED <<loaded, faults>>
    \/ ~loaded /\ semantic /\ loaded' = TRUE /\ UNCHANGED faults
    \/ ~loaded /\ ~semantic /\ Fault /\ UNCHANGED loaded

Memory(key, u, kind, t, semantic) ==
    [key |-> key, user |-> u, kind |-> kind, thread |-> t, indexed |-> semantic]

-----------------------------------------------------------------------------
(* A run *)

StartRun(r, t) ==
    /\ run[r].pc = "idle" /\ job[r].pc = "idle" /\ started < MaxRuns /\ t \in threads
    /\ started' = started + 1
    /\ run' = [run EXCEPT ![r] = [pc |-> "open", thread |-> t, user |-> Owner[t]]]
    /\ UNCHANGED <<memories, threads, loaded, job, keys, faults, told, unstored, forgotten, counted, crossed, answers>>

\* The run holds its store until it ends, then recalls for the prompt.
OpenStore(r, semantic) ==
    /\ run[r].pc = "open"
    /\ Opens(semantic)
    /\ run' = [run EXCEPT ![r] = [pc |-> "agent", thread |-> run[r].thread, user |-> run[r].user,
                                  semantic |-> semantic]]
    /\ UNCHANGED <<memories, threads, job, keys, started, told, unstored, forgotten, counted, crossed, answers>>

\* "Memory store context failed": the run fails, and leaves no daemon thread.
OpenFails(r) ==
    /\ run[r].pc = "open" /\ Fault
    /\ run' = [run EXCEPT ![r] = Idle]
    /\ UNCHANGED <<memories, threads, loaded, job, keys, started, told, unstored, forgotten, counted, crossed, answers>>

\* A new key for every memory; the thread's name is used for it instead, for
\* comparison, so that a later memory of the thread takes the place of an earlier.
Replaces(m) == {x \in memories : x.thread = m.thread /\ x.kind = m.kind}

Replaced(m) == {x \in memories : x.key = m.key}

Puts(m) == memories' = (memories \ Replaced(m)) \cup {m}

\* store_memory of the tools: the failure of the put is swallowed, and the user
\* is told either way.
StoreTool(r) ==
    LET q == run[r]
    IN  /\ q.pc = "agent" /\ keys < MaxKeys
        /\ keys' = keys + 1
        /\ told' = told \cup {keys}
        /\ \/ Puts(Memory(keys, q.user, "explicit", Null, q.semantic)) /\ UNCHANGED <<unstored, faults>>
           \/ Fault /\ unstored' = unstored \cup {keys} /\ UNCHANGED memories
        /\ UNCHANGED <<threads, loaded, run, job, started, forgotten, counted, crossed, answers>>

\* forget_memory: what the search returned is deleted one by one.
ForgetSearch(r) ==
    LET q == run[r]
    IN  /\ q.pc = "agent"
        /\ \E s \in Found(q.user, q.semantic, ForgetLimit) :
              /\ s # {}
              /\ run' = [run EXCEPT ![r] = [pc |-> "forget", thread |-> q.thread, user |-> q.user,
                                            semantic |-> q.semantic, matches |-> {m.key : m \in s}, deleted |-> 0]]
        /\ crossed' = (crossed \/ \E o \in Runs : run[o].pc = "forget" /\ run[o].user = q.user)
        /\ UNCHANGED <<memories, threads, loaded, job, keys, started, faults,
                       told, unstored, forgotten, counted, answers>>

\* Deleting a key that is gone already succeeds as well.
ForgetOne(r, key) ==
    LET q == run[r]
    IN  /\ q.pc = "forget" /\ key \in q.matches
        /\ \/ /\ memories' = {m \in memories : ~(m.user = q.user /\ m.key = key)}
              /\ forgotten' = forgotten \cup {key}
              /\ run' = [run EXCEPT ![r].matches = @ \ {key}, ![r].deleted = @ + 1]
              /\ UNCHANGED faults
           \/ /\ Fault
              /\ run' = [run EXCEPT ![r].matches = @ \ {key}]
              /\ UNCHANGED <<memories, forgotten>>
        /\ UNCHANGED <<threads, loaded, job, keys, started, told, unstored, counted, crossed, answers>>

Forgotten(r) ==
    LET q == run[r]
    IN  /\ q.pc = "forget" /\ q.matches = {}
        /\ run' = [run EXCEPT ![r] = [pc |-> "agent", thread |-> q.thread, user |-> q.user,
                                      semantic |-> q.semantic]]
        /\ counted' = counted + q.deleted
        /\ UNCHANGED <<memories, threads, loaded, job, keys, started, faults, told, unstored, forgotten, crossed, answers>>

\* post_process starts the daemon thread when there is an answer; a short answer
\* is not worth an episode.
EndRun(r) ==
    LET q == run[r]
    IN  /\ q.pc = "agent"
        /\ run' = [run EXCEPT ![r] = Idle]
        /\ \E pc \in {"idle", "open", "feel"} :
              /\ answered' = IF pc = "open" THEN answered + 1 ELSE answered
              /\ job' = [job EXCEPT ![r] = IF pc = "idle" THEN Idle
                                           ELSE [pc |-> pc, thread |-> q.thread, user |-> q.user, answer |-> answered']]
        /\ UNCHANGED <<memories, threads, loaded, keys, started, faults,
                       told, unstored, forgotten, counted, crossed, episodes, cut>>

-----------------------------------------------------------------------------
(* The daemon thread: an episode, then the emotional state *)

\* The context's own failure and the put's are both swallowed.
JobStores(r) ==
    LET j == job[r]
    IN  /\ j.pc = "open"
        /\ \/ /\ keys < MaxKeys
              /\ keys' = keys + 1
              /\ \E semantic \in BOOLEAN :
                    /\ Opens(semantic)
                    /\ Puts(Memory(keys, j.user, "episodic", j.thread, semantic))
              /\ episodes' = episodes \cup {[answer |-> j.answer, key |-> keys]}
              /\ UNCHANGED cut
           \/ /\ Fault
              /\ cut' = cut \cup {j.answer}
              /\ UNCHANGED <<memories, loaded, keys, episodes>>
        /\ job' = [job EXCEPT ![r].pc = "feel"]
        /\ UNCHANGED <<threads, run, started, told, unstored, forgotten, counted, crossed, answered>>

\* record_interaction in a transaction of its own (the emotional state is
\* modelled in EmotionalEngine), whether the episode was stored or not.
JobFeels(r) ==
    /\ job[r].pc = "feel"
    /\ job' = [job EXCEPT ![r] = Idle]
    /\ UNCHANGED <<memories, threads, loaded, run, keys, started, faults,
                   told, unstored, forgotten, counted, crossed, answers>>

Storing == {r \in Runs : job[r].pc = "open"}

-----------------------------------------------------------------------------
(* What happens meanwhile *)

\* delete_thread leaves the memories of the thread in the store.
DeleteThread(t) ==
    /\ t \in threads
    /\ threads' = threads \ {t}
    /\ UNCHANGED <<memories, loaded, run, job, keys, started, faults,
                   told, unstored, forgotten, counted, crossed, answers>>

Restart ==
    /\ Fault
    /\ loaded' = FALSE
    /\ run' = [r \in Runs |-> Idle]
    /\ job' = [r \in Runs |-> Idle]
    /\ crossed' = (crossed \/ \E r \in Runs : run[r].pc = "forget")
    /\ cut' = cut \cup {job[r].answer : r \in Storing}
    /\ UNCHANGED <<memories, threads, keys, started, told, unstored, forgotten, counted, answered, episodes>>

Next ==
    \/ \E r \in Runs :
          \/ \E t \in Threads : StartRun(r, t)
          \/ \E semantic \in BOOLEAN : OpenStore(r, semantic)
          \/ OpenFails(r) \/ StoreTool(r) \/ ForgetSearch(r)
          \/ \E key \in 0 .. MaxKeys : ForgetOne(r, key)
          \/ Forgotten(r) \/ EndRun(r) \/ JobStores(r) \/ JobFeels(r)
    \/ \E t \in Threads : DeleteThread(t)
    \/ Restart

Spec == Init /\ [][Next]_vars

-----------------------------------------------------------------------------
(* Properties *)

\* What the forgets in progress have deleted so far, each deletion with its number.
Deletions == UNION {{r} \X (1 .. run[r].deleted) : r \in {r \in Runs : run[r].pc = "forget"}}

InFlight == Cardinality(Deletions)

Keys == {m.key : m \in memories}

TypeOK ==
    /\ \A m \in memories :
          /\ m.key \in 0 .. (keys - 1) /\ m.user \in Owners /\ m.indexed \in BOOLEAN
          /\ m.kind = "episodic" <=> m.thread # Null
    /\ Cardinality(memories) = Cardinality(Keys)
    /\ threads \subseteq Threads /\ loaded \in BOOLEAN

\* Even when runs and daemon threads of one user write and forget at the same
\* time, what the user was told is remembered stays in the store until a forget
\* deletes it, unless its put failed; nothing that was deleted comes back; an
\* answer worth an episode has one, which stays in the same way, once its daemon
\* thread has passed the put, unless that failed or a restart took the thread;
\* and the forgets report as many memories as are gone, unless two of one user
\* overlapped or a restart cut one off.
MemoriesKept ==
    /\ TypeOK
    /\ told \subseteq Keys \cup forgotten \cup unstored
    /\ Keys \cup forgotten \cup unstored = 0 .. (keys - 1)
    /\ Keys \cap (forgotten \cup unstored) = {}
    /\ \A n \in 1 .. answered :
          \/ n \in cut
          \/ \E r \in Storing : job[r].answer = n
          \/ \E k \in Keys \cup forgotten : [answer |-> n, key |-> k] \in episodes
    /\ crossed \/ Cardinality(forgotten) = counted + InFlight
=============================================================================
