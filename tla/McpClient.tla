------------------------------ MODULE McpClient ------------------------------
(***************************************************************************)
(* infrastructure/mcp/client.py and registry.py with routers/mcp.py: the   *)
(* configured tool servers, the sessions to them and the tools each one    *)
(* announced.  A connect awaits the transport, then the session, then the  *)
(* tools; nothing serialises it with another connect or a disconnect.  The *)
(* server process (or the far end) is external: it may refuse or not       *)
(* answer.                                                                 *)
(***************************************************************************)
EXTENDS Integers, FiniteSets

CONSTANTS Requests, Servers, Null,
          MaxConnections, \* bound: connections opened
          MaxRequests,    \* bound: requests
          MaxFaults       \* bound: calls to a server that fail

VARIABLES servers,   \* MCPServerRegistry._servers: the configured ones
          sessions,  \* _sessions: server -> connection, Null when it has none
          tools,     \* _tools: server -> the connection that listed them, 0 after a
                     \* listing that failed, Null when it has none
          open,      \* connections whose process or stream is alive: connection -> server
          exited,    \* connections whose session was closed
          request,   \* the requests in progress
          disturbed, \* history: servers with a fault or with requests that overlapped
          connections, requests, faults

vars == <<servers, sessions, tools, open, exited, request, disturbed, connections, requests, faults>>

Idle == [pc |-> "idle"]

\* A connect, whose connection is Null until its transport is open, and a
\* disconnect, of its own or for a server that is to be removed.
Request ==
    [pc : {"open", "initialize", "list"}, server : Servers, connection : 1 .. connections \cup {Null}]
    \cup [pc : {"close"}, server : Servers, connection : 1 .. connections, remove : BOOLEAN]

McpAssumption == Null \notin Nat

Init ==
    /\ servers = {}
    /\ sessions = [s \in Servers |-> Null]
    /\ tools = [s \in Servers |-> Null]
    /\ open = [c \in {} |-> Null]
    /\ exited = {}
    /\ request = [q \in Requests |-> Idle]
    /\ disturbed = {}
    /\ connections = 0 /\ requests = 0 /\ faults = 0

At(q, pc) == request[q].pc = pc

Busy(s) == \E q \in Requests : request[q] # Idle /\ request[q].server = s

\* A request on s begins at pc; it disturbs s when another one is under way.
Begins(q, s, pc) ==
    /\ request' = [request EXCEPT ![q] = [pc |-> pc, server |-> s, connection |-> Null]]
    /\ disturbed' = IF Busy(s) THEN disturbed \cup {s} ELSE disturbed

Ends(q) == request' = [request EXCEPT ![q] = Idle]

Receives ==
    /\ requests < MaxRequests
    /\ requests' = requests + 1

Fault(s) ==
    /\ faults < MaxFaults /\ faults' = faults + 1
    /\ disturbed' = disturbed \cup {s}

----------------------------------------------------------------------------
\* Adding a server replaces its configuration and leaves a session alone.
AddServer(s) ==
    /\ Receives
    /\ servers' = servers \cup {s}
    /\ UNCHANGED <<sessions, tools, open, exited, request, disturbed, connections, faults>>

\* connect: one that finds a session is done.
Connect(q, s) ==
    /\ request[q] = Idle /\ Receives /\ s \in servers
    /\ IF sessions[s] # Null THEN UNCHANGED <<request, disturbed>>
       ELSE connections < MaxConnections /\ Begins(q, s, "open")
    /\ UNCHANGED <<servers, sessions, tools, open, exited, connections, faults>>

\* stdio_client or sse_client, then the session's initialize.
OpenTransport(q) ==
    /\ At(q, "open") /\ connections < MaxConnections
    /\ connections' = connections + 1
    /\ open' = [c \in DOMAIN open \cup {connections'} |->
                  IF c = connections' THEN request[q].server ELSE open[c]]
    /\ request' = [request EXCEPT ![q] = [pc |-> "initialize", server |-> request[q].server,
                                                  connection |-> connections']]
    /\ UNCHANGED <<servers, sessions, tools, exited, disturbed, requests, faults>>

TransportFails(q) ==
    /\ At(q, "open")
    /\ Fault(request[q].server)
    /\ Ends(q)
    /\ UNCHANGED <<servers, sessions, tools, open, exited, connections, requests>>

Initialize(q) ==
    /\ At(q, "initialize")
    /\ sessions' = [sessions EXCEPT ![request[q].server] = request[q].connection]
    /\ request' = [request EXCEPT ![q].pc = "list"]
    /\ UNCHANGED <<servers, tools, open, exited, disturbed, connections, requests, faults>>

\* The transport that was entered is left open.
InitializeFails(q) ==
    /\ At(q, "initialize")
    /\ Fault(request[q].server)
    /\ Ends(q)
    /\ UNCHANGED <<servers, sessions, tools, open, exited, connections, requests>>

Usable == DOMAIN open \ exited

\* _discover_tools, on the connection whose session it read before it waited.
Listed(q) ==
    LET s == request[q].server  c == request[q].connection IN
    /\ At(q, "list")
    /\ \/ /\ c \in Usable
          /\ tools' = [tools EXCEPT ![s] = c]
          /\ UNCHANGED <<disturbed, faults>>
       \/ /\ c \in Usable
          /\ tools' = [tools EXCEPT ![s] = 0]
          /\ Fault(s)
       \/ /\ c \notin Usable
          /\ tools' = [tools EXCEPT ![s] = 0]
          /\ UNCHANGED <<disturbed, faults>>
    /\ Ends(q)
    /\ UNCHANGED <<servers, sessions, open, exited, connections, requests>>

----------------------------------------------------------------------------
\* disconnect: the session is popped, closed, and then the tools are popped.
\* remove_server runs it when the server is connected, then drops the
\* configuration; without a session there is nothing to wait for.
Leaves(s, remove) == IF remove THEN servers \ {s} ELSE servers

Disconnect(q, s, remove) ==
    /\ request[q] = Idle /\ Receives
    /\ IF sessions[s] # Null
       THEN /\ sessions' = [sessions EXCEPT ![s] = Null]
            /\ request' = [request EXCEPT ![q] = [pc |-> "close", server |-> s, remove |-> remove,
                                                  connection |-> sessions[s]]]
            /\ disturbed' = IF Busy(s) THEN disturbed \cup {s} ELSE disturbed
            /\ UNCHANGED <<servers, tools>>
       ELSE /\ tools' = IF remove THEN tools ELSE [tools EXCEPT ![s] = Null]
            /\ servers' = Leaves(s, remove)
            /\ disturbed' = IF Busy(s) THEN disturbed \cup {s} ELSE disturbed
            /\ UNCHANGED <<sessions, request>>
    /\ UNCHANGED <<open, exited, connections, faults>>

\* As if a disconnect left the tools, for comparison.
ToolsKept(s) == tools

WithoutTools(s) == [tools EXCEPT ![s] = Null]

\* The session's exit, which may fail; the failure is swallowed.  The context of
\* its transport was entered by the connect, is kept nowhere and is not exited:
\* the process or the stream stays until the server ends by itself.
Close(q) ==
    LET s == request[q].server IN
    /\ At(q, "close")
    /\ \/ exited' = exited \cup {request[q].connection} /\ UNCHANGED <<disturbed, faults>>
       \/ Fault(s) /\ UNCHANGED exited
    /\ tools' = WithoutTools(s)
    /\ servers' = Leaves(s, request[q].remove)
    /\ Ends(q)
    /\ UNCHANGED <<sessions, open, connections, requests>>

\* A server that ends by itself: its session, if any, stays registered.
ServerExits(c) ==
    /\ c \in DOMAIN open
    /\ IF c \in exited THEN UNCHANGED <<disturbed, faults>> ELSE Fault(open[c])
    /\ open' = [d \in DOMAIN open \ {c} |-> open[d]]
    /\ UNCHANGED <<servers, sessions, tools, exited, request, connections, requests>>

Next ==
    \/ \E s \in Servers : AddServer(s)
    \/ \E q \in Requests, s \in Servers : Connect(q, s)
    \/ \E q \in Requests, s \in Servers, remove \in BOOLEAN : Disconnect(q, s, remove)
    \/ \E q \in Requests :
         \/ OpenTransport(q) \/ TransportFails(q) \/ Initialize(q) \/ InitializeFails(q)
         \/ Listed(q) \/ Close(q)
    \/ \E c \in DOMAIN open : ServerExits(c)

Spec == Init /\ [][Next]_vars

----------------------------------------------------------------------------
TypeOK ==
    /\ servers \subseteq Servers /\ disturbed \subseteq Servers
    /\ connections \in Nat
    /\ sessions \in [Servers -> 1 .. connections \cup {Null}]
    /\ tools \in [Servers -> 0 .. connections \cup {Null}]
    /\ open \in [DOMAIN open -> Servers] /\ DOMAIN open \cup exited \subseteq 1 .. connections
    /\ request \in [Requests -> Request \cup {Idle}]

\* Requests to one server wait for it between their steps, and nothing orders
\* them (client.py:52-149, 190-199).  As long as they did not overlap and the
\* server answered, a server at rest has the tools of the session it is
\* registered with, or neither, and that session is the only one which is not
\* closed.  Nothing is said of the transports of the closed ones, which stay.
ToolsOfTheSession ==
    /\ TypeOK
    /\ \A s \in Servers \ disturbed : ~Busy(s) =>
         /\ tools[s] = sessions[s]
         /\ {c \in Usable : open[c] = s} = {sessions[s]} \ {Null}
=============================================================================
