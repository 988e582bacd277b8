------------------------------- MODULE WebTools ------------------------------
(***************************************************************************)
(* web_search and web_extract: one object per tool and process, used from  *)
(* many threads.  A call looks into the Redis cache, skips what was asked  *)
(* before, consumes the call budget, waits for its slot, and asks Tavily.  *)
(* Budget, seen queries, slots and the time window are guarded by one lock *)
(* per tool, taken anew for each of them.                                  *)
(***************************************************************************)
EXTENDS Integers, FiniteSets, Sequences

CONSTANTS Threads,         \* the threads that call a tool
          Queries,         \* normalised queries, or sorted sets of URLs
          Null,
          CallLimit,       \* WEB_SEARCH_MAX_CALLS, WEB_EXTRACT_MAX_CALLS
          Enforced,        \* TAVILY_ENFORCE_WINDOW_LIMIT
          MaxSearches,     \* TAVILY_MAX_SEARCHES
          WindowLength,    \* TAVILY_WINDOW_SECONDS, in units of time
          Interval,        \* _min_request_interval, in units of time
          MaxTime,         \* bound: the time that passes
          MaxCalls,        \* bound: calls in a behaviour
          MaxFaults        \* bound: failures of Redis and of Tavily

Tools == {"search", "extract"}

VARIABLES budget,    \* _run_budget: the calls consumed and the queries seen
          window,    \* _window_start and _search_count of the search tool
          lastSlot,  \* _last_search_time, _last_extract_time
          wrapper,   \* the tools whose Tavily wrapper exists
          cache,     \* the answers that Redis holds
          call,      \* the call of each thread
          now, calls, faults,
          slots,     \* history: the slots reserved, in order
          sent       \* history: the requests sent to Tavily, and in which window

WebAssumption ==
    /\ IsFiniteSet(Threads) /\ Null \notin Nat
    /\ CallLimit \in Nat /\ MaxSearches \in Nat
    /\ WindowLength \in Nat /\ Interval \in Nat /\ MaxTime \in Nat

vars == <<budget, window, lastSlot, wrapper, cache, call, now, calls, faults, slots, sent>>

Idle == [pc |-> "idle"]

Init ==
    /\ budget = [t \in Tools |-> [count |-> 0, seen |-> {}]]
    /\ window = [start |-> 0, count |-> 0]
    /\ lastSlot = [t \in Tools |-> -Interval]
    /\ wrapper = {}
    /\ cache = {}
    /\ call = [k \in Threads |-> Idle]
    /\ now = 0 /\ calls = 0 /\ faults = 0
    /\ slots = [t \in Tools |-> <<>>]
    /\ sent = [t \in Tools |-> <<>>]

At(k, pc) == call[k].pc = pc

Goes(k, pc) == call' = [call EXCEPT ![k].pc = pc]

\* A call ends with an answer, "skipped", "limit_reached" or "no_results": the
\* model sees which, and whoever asked goes on.
Ends(k) == call' = [call EXCEPT ![k] = Idle]

-----------------------------------------------------------------------------
(* The state a tool guards with its lock *)

\* _should_skip_duplicate looks and marks in one step.
Duplicate(t, q) == q \in budget[t].seen

\* _consume_call.
Allowed(t) == budget[t].count < CallLimit

\* _rate_limit reserves the slot, so that others queue behind it.
Slot(t) == IF now - lastSlot[t] < Interval THEN lastSlot[t] + Interval ELSE now

\* As if a slot were only noted once its sleep is over, for comparison.
ReservedNothing(t) == lastSlot[t]

Reserved(t) == Slot(t)

\* _check_search_limit: a new window, or the one that is open.
Window == IF now - window.start > WindowLength THEN [start |-> now, count |-> 0] ELSE window

Key(k) == [tool |-> call[k].tool, query |-> call[k].query]

-----------------------------------------------------------------------------
(* The steps of a call *)

Call(k, t, q) ==
    /\ At(k, "idle") /\ calls < MaxCalls
    /\ calls' = calls + 1
    /\ call' = [call EXCEPT ![k] = [pc |-> "cache", tool |-> t, query |-> q, slot |-> 0, window |-> Null]]
    /\ UNCHANGED <<budget, window, lastSlot, wrapper, cache, now, faults, slots, sent>>

\* get_web_cache, get_extract_cache.
ReadCache(k) ==
    /\ At(k, "cache")
    /\ IF Key(k) \in cache THEN Ends(k) ELSE Goes(k, "dedupe")
    /\ UNCHANGED <<budget, window, lastSlot, wrapper, cache, now, calls, faults, slots, sent>>

\* Redis fails: the call goes on as after a miss.
CacheUnavailable(k) ==
    /\ At(k, "cache") /\ faults < MaxFaults
    /\ faults' = faults + 1
    /\ Goes(k, "dedupe")
    /\ UNCHANGED <<budget, window, lastSlot, wrapper, cache, now, calls, slots, sent>>

SkipDuplicate(k) ==
    LET t == call[k].tool
        q == call[k].query
    IN  /\ At(k, "dedupe")
        /\ IF Duplicate(t, q)
           THEN Ends(k) /\ UNCHANGED budget
           ELSE /\ budget' = [budget EXCEPT ![t].seen = @ \cup {q}]
                /\ Goes(k, "consume")
        /\ UNCHANGED <<window, lastSlot, wrapper, cache, now, calls, faults, slots, sent>>

ConsumeCall(k) ==
    LET t == call[k].tool
    IN  /\ At(k, "consume")
        /\ IF Allowed(t)
           THEN budget' = [budget EXCEPT ![t].count = @ + 1] /\ Goes(k, "reserve")
           ELSE Ends(k) /\ UNCHANGED budget
        /\ UNCHANGED <<window, lastSlot, wrapper, cache, now, calls, faults, slots, sent>>

Reserve(k) ==
    LET t == call[k].tool
    IN  /\ At(k, "reserve")
        /\ lastSlot' = [lastSlot EXCEPT ![t] = Reserved(t)]
        /\ slots' = [slots EXCEPT ![t] = Append(@, Slot(t))]
        /\ call' = [call EXCEPT ![k].pc = "sleep", ![k].slot = Slot(t)]
        /\ UNCHANGED <<budget, window, wrapper, cache, now, calls, faults, sent>>

\* After the sleep: only the search tool has a window, and only if enforced.
CheckSearchLimit(k) ==
    /\ At(k, "sleep") /\ now >= call[k].slot
    /\ IF call[k].tool = "search" /\ Enforced
       THEN IF Window.count >= MaxSearches
            THEN window' = Window /\ Ends(k)
            ELSE /\ window' = [Window EXCEPT !.count = @ + 1]
                 /\ call' = [call EXCEPT ![k].pc = "wrapper", ![k].window = Window.start]
       ELSE Goes(k, "wrapper") /\ UNCHANGED window
    /\ UNCHANGED <<budget, lastSlot, wrapper, cache, now, calls, faults, slots, sent>>

\* The wrapper is made once, under the lock.
MakeWrapper(k) ==
    /\ At(k, "wrapper")
    /\ wrapper' = wrapper \cup {call[k].tool}
    /\ Goes(k, "send")
    /\ UNCHANGED <<budget, window, lastSlot, cache, now, calls, faults, slots, sent>>

WrapperFails(k) ==
    /\ At(k, "wrapper") /\ call[k].tool \notin wrapper /\ faults < MaxFaults
    /\ faults' = faults + 1
    /\ Ends(k)
    /\ UNCHANGED <<budget, window, lastSlot, wrapper, cache, now, calls, slots, sent>>

\* The request, and its answer.
Send(k) ==
    LET t == call[k].tool
    IN  /\ At(k, "send")
        /\ sent' = [sent EXCEPT ![t] = Append(@, [query |-> call[k].query, window |-> call[k].window])]
        /\ Goes(k, "store")
        /\ UNCHANGED <<budget, window, lastSlot, wrapper, cache, now, calls, faults, slots>>

\* The request fails: "no_results", and the query stays among the seen ones.
SendFails(k) ==
    LET t == call[k].tool
    IN  /\ At(k, "send") /\ faults < MaxFaults
        /\ faults' = faults + 1
        /\ sent' = [sent EXCEPT ![t] = Append(@, [query |-> call[k].query, window |-> call[k].window])]
        /\ Ends(k)
        /\ UNCHANGED <<budget, window, lastSlot, wrapper, cache, now, calls, slots>>

\* set_web_cache, set_extract_cache; the sources of the answer were captured.
Store(k) ==
    /\ At(k, "store")
    /\ cache' = cache \cup {Key(k)}
    /\ Ends(k)
    /\ UNCHANGED <<budget, window, lastSlot, wrapper, now, calls, faults, slots, sent>>

StoreFails(k) ==
    /\ At(k, "store") /\ faults < MaxFaults
    /\ faults' = faults + 1
    /\ Ends(k)
    /\ UNCHANGED <<budget, window, lastSlot, wrapper, cache, now, calls, slots, sent>>

\* The TTL of an answer.
Expire(key) ==
    /\ cache' = cache \ {key}
    /\ UNCHANGED <<budget, window, lastSlot, wrapper, call, now, calls, faults, slots, sent>>

Tick ==
    /\ now < MaxTime
    /\ now' = now + 1
    /\ UNCHANGED <<budget, window, lastSlot, wrapper, cache, call, calls, faults, slots, sent>>

Next ==
    \/ \E k \in Threads :
          \/ \E t \in Tools, q \in Queries : Call(k, t, q)
          \/ ReadCache(k) \/ CacheUnavailable(k)
          \/ SkipDuplicate(k) \/ ConsumeCall(k) \/ Reserve(k) \/ CheckSearchLimit(k)
          \/ MakeWrapper(k) \/ WrapperFails(k)
          \/ Send(k) \/ SendFails(k) \/ Store(k) \/ StoreFails(k)
    \/ \E key \in cache : Expire(key)
    \/ Tick

Spec == Init /\ [][Next]_vars

-----------------------------------------------------------------------------
(* Properties *)

TypeOK ==
    /\ budget \in [Tools -> [count : 0..CallLimit, seen : SUBSET Queries]]
    /\ window \in [start : 0..now, count : 0..MaxSearches]
    /\ wrapper \subseteq Tools
    /\ cache \subseteq [tool : Tools, query : Queries]
    /\ now \in 0..MaxTime

InWindow(w) == {i \in DOMAIN sent["search"] : sent["search"][i].window = w}

\* However many threads use a tool: it sends at most as many requests as its
\* budget, none of them twice, although the look into the cache, the mark and
\* the budget are separate steps; the slots of its requests are an interval
\* apart; and no window has more searches than its limit.  A cached answer is
\* one that Tavily gave.
WebCallsBounded ==
    /\ TypeOK
    /\ \A t \in Tools :
          /\ Len(sent[t]) <= CallLimit
          /\ \A i, j \in DOMAIN sent[t] : i # j => sent[t][i].query # sent[t][j].query
          /\ \A i \in 2..Len(slots[t]) : slots[t][i] - slots[t][i - 1] >= Interval
    /\ Enforced => \A w \in 0..MaxTime : Cardinality(InWindow(w)) <= MaxSearches
    /\ \A key \in cache : \E i \in DOMAIN sent[key.tool] : sent[key.tool][i].query = key.query
=============================================================================
