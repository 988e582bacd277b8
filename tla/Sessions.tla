------------------------------ MODULE Sessions -------------------------------
(***************************************************************************)
(* infrastructure/security/auth.py and rate_limiter.py with the routes     *)
(* that use them (routers/auth.py, core/dependencies.py, the handshake of  *)
(* routers/websocket.py): tokens that carry their expiry, a blacklist of   *)
(* revoked ones in Redis, and a request counter per action in Redis.       *)
(*                                                                         *)
(* Time runs in half seconds, because an expiry and a Redis lifetime are   *)
(* whole seconds while the clock is not: a token expires at its lifetime   *)
(* after its creation truncated to a second, and its blacklist entry lives *)
(* for the truncated rest.                                                 *)
(***************************************************************************)
EXTENDS Integers, Sequences

CONSTANTS Requests, Sockets, Null,
          AccessSeconds, RefreshSeconds,  \* lifetimes of tokens
          MaxRequests, Window,            \* the limiter: requests per window of seconds
          MaxTokens,  \* bound: tokens issued
          MaxCalls,   \* bound: requests that the limiter counts
          MaxTime,    \* bound: the clock
          MaxFaults   \* bound: calls that Redis does not answer

Actions == {"login", "refresh"}
Second == 2

VARIABLES now,
          tokens,      \* the tokens issued, in order
          blacklist,   \* entries in Redis: token -> when Redis drops it
          rate,        \* counters in Redis: action -> [count, until]
          request,     \* the requests in progress
          socket,      \* the chat sockets
          connections, \* WebSocketManager._connections
          revoked,     \* history: tokens that revoke_token reported and could store
          leaked,      \* history: the life left to revoked tokens when a check accepted them
                       \* though Redis answered
          arrivals,    \* history: the counted requests of the last window, per action:
                       \* [call, at, place, ok], place being what INCR returned
          blind,       \* history: a limiter check of the last window did not reach Redis
          calls, faults

SessionsAssumption ==
    /\ AccessSeconds \in Nat /\ RefreshSeconds \in Nat
    /\ MaxRequests \in Nat /\ Window \in Nat

vars == <<now, tokens, blacklist, rate, request, socket, connections, revoked, leaked, arrivals,
          blind, calls, faults>>

Idle == [pc |-> "idle"]

Init ==
    /\ now \in 0 .. Second - 1
    /\ tokens = <<>>
    /\ blacklist = [i \in {} |-> 0]
    /\ rate = [a \in Actions |-> [count |-> 0, until |-> 0]]
    /\ request = [q \in Requests |-> Idle]
    /\ socket = [s \in Sockets |-> "new"]
    /\ connections = {}
    /\ revoked = {}
    /\ leaked = {}
    /\ arrivals = [a \in Actions |-> {}]
    /\ blind = FALSE
    /\ calls = 0 /\ faults = 0

----------------------------------------------------------------------------
\* Tokens

Lifetime(kind) == (IF kind = "access" THEN AccessSeconds ELSE RefreshSeconds) * Second

ToSecond(t) == (t \div Second) * Second

Token(kind, from) == [kind |-> kind, from |-> from, exp |-> ToSecond(now + Lifetime(kind))]

Issued == 1 .. Len(tokens)

Expired(i) == tokens[i].exp <= now

Blacklisted(i) == i \in DOMAIN blacklist /\ now < blacklist[i]

\* What verify_token says of i: Redis not answering counts as not revoked.
Verifies(i, reached) == ~Expired(i) /\ (reached => ~Blacklisted(i))

\* A call to Redis that is answered, or a fault.
Asks(reached) == \/ reached /\ UNCHANGED faults
                 \/ ~reached /\ faults < MaxFaults /\ faults' = faults + 1

\* As if every token were kept there for as long as an access token, for comparison.
RemainingOfAccess(i) == AccessSeconds

\* How long revoke_token keeps i on the blacklist, in seconds.
Remaining(i) == (tokens[i].exp - now) \div Second

Accepts(i, reached) ==
    leaked' = IF reached /\ i \in revoked THEN leaked \cup {tokens[i].exp - now} ELSE leaked

----------------------------------------------------------------------------
\* The rate limiter

Current(a) == IF now < rate[a].until THEN rate[a].count ELSE 0

Counted(a) == [count |-> Current(a) + 1, until |-> now + Window * Second]

Recent(a) == {r \in arrivals[a] : r.at > now - Window * Second}

Admitted(a) == {r \in Recent(a) : r.ok}

\* RedisRateLimiter.check of a request for a: whether it may go on.
Limit(a, ok) ==
    /\ calls < MaxCalls /\ calls' = calls + 1
    /\ \/ /\ rate' = [rate EXCEPT ![a] = Counted(a)]
          /\ ok = (Counted(a).count <= MaxRequests)
          /\ arrivals' = [arrivals EXCEPT ![a] = Recent(a) \cup
                            {[call |-> calls', at |-> now, place |-> Counted(a).count, ok |-> ok]}]
          /\ UNCHANGED <<blind, faults>>
       \/ /\ ok
          /\ faults < MaxFaults /\ faults' = faults + 1
          /\ blind' = TRUE
          /\ UNCHANGED <<rate, arrivals>>

----------------------------------------------------------------------------
\* Requests

Login ==
    /\ Len(tokens) + 2 <= MaxTokens
    /\ \E ok \in BOOLEAN : 
         /\ Limit("login", ok)
         /\ tokens' = IF ok THEN tokens \o <<Token("access", Null), Token("refresh", Null)>>
                      ELSE tokens
    /\ UNCHANGED <<now, blacklist, request, socket, connections, revoked, leaked>>

StartRefresh(q, i) ==
    /\ request[q] = Idle /\ Len(tokens) < MaxTokens
    /\ \E ok \in BOOLEAN :
         /\ Limit("refresh", ok)
         /\ request' = IF ok THEN [request EXCEPT ![q] = [pc |-> "verify", token |-> i]]
                       ELSE request
    /\ UNCHANGED <<now, tokens, blacklist, socket, connections, revoked, leaked>>

VerifyRefresh(q) ==
    /\ request[q].pc = "verify"
    /\ LET i == request[q].token IN
       \E reached \in BOOLEAN :
         /\ Asks(reached)
         /\ IF Verifies(i, reached) /\ tokens[i].kind = "refresh"
            THEN /\ request' = [request EXCEPT ![q] = [pc |-> "create", token |-> i]]
                 /\ Accepts(i, reached)
            ELSE request' = [request EXCEPT ![q] = Idle] /\ UNCHANGED leaked
    /\ UNCHANGED <<now, tokens, blacklist, rate, socket, connections, revoked, arrivals, blind, calls>>

\* The refresh token stays valid; it is not rotated.
CreateAccess(q) ==
    /\ request[q].pc = "create"
    /\ IF Len(tokens) < MaxTokens
       THEN tokens' = Append(tokens, Token("access", request[q].token))
       ELSE UNCHANGED tokens
    /\ request' = [request EXCEPT ![q] = Idle]
    /\ UNCHANGED <<now, blacklist, rate, socket, connections, revoked, leaked, arrivals, blind, faults, calls>>

\* get_current_user_token, for a route that only needs the user.
Use(i) ==
    /\ tokens[i].kind = "access"
    /\ \E reached \in BOOLEAN :
         /\ Asks(reached)
         /\ Verifies(i, reached)
         /\ Accepts(i, reached)
    /\ UNCHANGED <<now, tokens, blacklist, rate, request, socket, connections, revoked, arrivals,
                   blind, calls>>

\* A logout authorised by i that names the tokens of `named`, in this order.
StartLogout(q, i, named) ==
    /\ request[q] = Idle
    /\ tokens[i].kind = "access"
    /\ \E reached \in BOOLEAN :
         /\ Asks(reached)
         /\ Verifies(i, reached)
         /\ Accepts(i, reached)
    /\ request' = [request EXCEPT ![q] = [pc |-> "revoke", named |-> named]]
    /\ UNCHANGED <<now, tokens, blacklist, rate, socket, connections, revoked, arrivals, blind, calls>>

Named == {<<>>} \cup {<<i>> : i \in Issued} \cup {n \in Issued \X Issued : n[1] # n[2]}

\* One revoke_token call: an expired token, or one in its last second, is not stored.
Revoke(q) ==
    /\ request[q].pc = "revoke"
    /\ IF request[q].named = <<>>
       THEN /\ request' = [request EXCEPT ![q] = Idle]
            /\ UNCHANGED <<blacklist, revoked, faults>>
       ELSE LET i == Head(request[q].named) IN
            /\ request' = [request EXCEPT ![q].named = Tail(@)]
            /\ IF Expired(i) \/ Remaining(i) <= 0
               THEN UNCHANGED <<blacklist, revoked, faults>>
               ELSE \E reached \in BOOLEAN :
                    /\ Asks(reached)
                    /\ blacklist' = IF reached
                                    THEN [j \in DOMAIN blacklist \cup {i} |->
                                            IF j = i THEN now + Remaining(i) * Second
                                            ELSE blacklist[j]]
                                    ELSE blacklist
                    /\ revoked' = IF reached THEN revoked \cup {i} ELSE revoked
    /\ UNCHANGED <<now, tokens, rate, socket, connections, leaked, arrivals, blind, calls>>

----------------------------------------------------------------------------
\* Sockets

\* The first message: a token, of either kind, or nothing usable in time.
Authenticate(s, i) ==
    /\ socket[s] = "new"
    /\ \E reached \in BOOLEAN :
         /\ Asks(reached)
         /\ IF Verifies(i, reached)
            THEN /\ socket' = [socket EXCEPT ![s] = "open"]
                 /\ connections' = connections \cup {s}
                 /\ Accepts(i, reached)
            ELSE /\ socket' = [socket EXCEPT ![s] = "closed"]
                 /\ UNCHANGED <<connections, leaked>>
    /\ UNCHANGED <<now, tokens, blacklist, rate, request, revoked, arrivals, blind, calls>>

NoAuthentication(s) ==
    /\ socket[s] = "new"
    /\ socket' = [socket EXCEPT ![s] = "closed"]
    /\ UNCHANGED <<now, tokens, blacklist, rate, request, connections, revoked, leaked, arrivals,
                   blind, faults, calls>>

\* The client leaves: the handler's finally takes the socket off the list.
Disconnect(s) ==
    /\ socket[s] = "open"
    /\ socket' = [socket EXCEPT ![s] = "closed"]
    /\ connections' = connections \ {s}
    /\ UNCHANGED <<now, tokens, blacklist, rate, request, revoked, leaked, arrivals, blind, faults, calls>>

\* The window of the history moves with the clock.
Tick ==
    /\ now < MaxTime
    /\ now' = now + 1
    /\ arrivals' = [a \in Actions |-> {r \in arrivals[a] : r.at > now' - Window * Second}]
    /\ UNCHANGED <<tokens, blacklist, rate, request, socket, connections, revoked, leaked, blind,
                   faults, calls>>

Next ==
    \/ Login
    \/ \E q \in Requests, i \in Issued : StartRefresh(q, i)
    \/ \E q \in Requests : VerifyRefresh(q) \/ CreateAccess(q) \/ Revoke(q)
    \/ \E q \in Requests, i \in Issued, named \in Named : StartLogout(q, i, named)
    \/ \E i \in Issued : Use(i)
    \/ \E s \in Sockets, i \in Issued : Authenticate(s, i)
    \/ \E s \in Sockets : NoAuthentication(s) \/ Disconnect(s)
    \/ Tick

Spec == Init /\ [][Next]_vars

----------------------------------------------------------------------------
TypeOK ==
    /\ now \in Nat
    /\ tokens \in Seq([kind : {"access", "refresh"}, from : Nat \cup {Null}, exp : Nat])
    /\ DOMAIN blacklist \subseteq Issued /\ revoked \subseteq Issued
    /\ request \in [Requests -> {Idle} \cup [pc : {"verify", "create"}, token : Issued]
                                     \cup [pc : {"revoke"}, named : Seq(Issued)]]
    /\ socket \in [Sockets -> {"new", "open", "closed"}]
    /\ connections = {s \in Sockets : socket[s] = "open"}
    /\ rate \in [Actions -> [count : Nat, until : Nat]]

\* A token that a logout stored on the blacklist is accepted by no check that
\* reached Redis, on a route, in a refresh or in a socket's handshake, until
\* the last second of its life: its entry must not be dropped before that,
\* though entry and token each round their lifetime down (auth.py:239-276).
\* And while Redis answers, the requests for an action that were admitted in any
\* window have places of their own among MaxRequests (rate_limiter.py:20-46).
RevokedStaysOut ==
    /\ TypeOK
    /\ \A left \in leaked : left < Second
    /\ ~blind => \A a \in Actions : \A r, s \in Admitted(a) :
                    r.place \in 1 .. MaxRequests /\ (r # s => r.place # s.place)
=============================================================================
