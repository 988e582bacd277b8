--------------------------- MODULE Platform_proofs ---------------------------
(***************************************************************************)
(* The parts around the chat, for every set of callers, servers, accounts  *)
(* and tokens and every bound: the MCP client, the speech engines, the     *)
(* control of the desktop with its browsers, the accounts, the             *)
(* sessions, the web tools, the model settings, the tracing and the        *)
(* agent's memory.  Each part gives the inductive invariant of one         *)
(* component, shows that each of its actions and each step of the others   *)
(* preserves it, and ends with its theorem.                                *)
(***************************************************************************)
EXTENDS Platform, Sequences, FiniteSetTheorems, FunctionTheorems,
        SequenceTheorems, WellFoundedInduction, NaturalsInduction, TLAPS

-----------------------------------------------------------------------------
(* Connections to tool servers *)

USE McpAssumed DEF Mcp!McpAssumption

\* The requests on a server, and the usable connections to it.
RequestsOn(s) == {q \in Calls : mcpRequest[q].pc # "idle" /\ mcpRequest[q].server = s}

ConnectionsTo(s) == {c \in DOMAIN open \ exited : open[c] = s}

\* What a connect has made of the server, and what a disconnect has left of it.
Handles(q, s) ==
    LET c == mcpRequest[q].connection
    IN  /\ mcpRequest[q].pc = "open" => sessions[s] = Null /\ tools[s] = Null /\ ConnectionsTo(s) = {}
        /\ mcpRequest[q].pc = "initialize" =>
               c # Null /\ sessions[s] = Null /\ tools[s] = Null /\ ConnectionsTo(s) = {c}
        /\ mcpRequest[q].pc = "list" =>
               c # Null /\ sessions[s] = c /\ tools[s] = Null /\ ConnectionsTo(s) = {c}
        /\ mcpRequest[q].pc = "close" => sessions[s] = Null /\ tools[s] = c /\ ConnectionsTo(s) = {c}

\* A server that was not disturbed has at most one request, and is at rest or as
\* this request has left it.
InOrder(s) ==
    /\ RequestsOn(s) = {} => tools[s] = sessions[s] /\ ConnectionsTo(s) = {sessions[s]} \ {Null}
    /\ \A q \in RequestsOn(s) : RequestsOn(s) = {q} /\ Handles(q, s)

\* A connection that is alive and in use leads to the server it is used for.
LeadsHome ==
    /\ \A s \in Servers : sessions[s] \in DOMAIN open => open[sessions[s]] = s
    /\ \A q \in Calls :
          mcpRequest[q].pc # "idle" /\ mcpRequest[q].connection \in DOMAIN open =>
              open[mcpRequest[q].connection] = mcpRequest[q].server

McpInv == Mcp!TypeOK /\ LeadsHome /\ \A s \in Servers \ disturbed : InOrder(s)

LEMMA McpIdle ==
    ASSUME Mcp!TypeOK, NEW q \in Calls
    PROVE  mcpRequest[q] # Mcp!Idle <=> mcpRequest[q].pc # "idle"
BY DEF Mcp!TypeOK, Mcp!Request, Mcp!Idle

LEMMA McpBusy ==
    ASSUME Mcp!TypeOK, NEW s \in Servers
    PROVE  Mcp!Busy(s) <=> RequestsOn(s) # {}
BY McpIdle DEF Mcp!Busy, RequestsOn

LEMMA McpTyped == Mcp!TypeOK /\ Mcp!Next => Mcp!TypeOK'
<1> SUFFICES ASSUME Mcp!TypeOK, Mcp!Next PROVE Mcp!TypeOK'
  OBVIOUS
<1> USE DEF Mcp!TypeOK, Mcp!Idle, Mcp!At, Mcp!Ends, Mcp!Fault, Mcp!Receives, Mcp!Begins
<1>1. ASSUME NEW q \in Calls, mcpRequest[q] # Mcp!Idle
      PROVE  /\ mcpRequest[q] \in Mcp!Request /\ mcpRequest[q].server \in Servers
             /\ mcpRequest[q].connection \in 1 .. opened \cup {Null}
             /\ mcpRequest[q].pc \in {"open", "initialize", "list", "close"}
             /\ mcpRequest[q].pc = "close" => mcpRequest[q].remove \in BOOLEAN /\ mcpRequest[q].connection \in 1 .. opened
             /\ mcpRequest[q].pc # "close" =>
                   mcpRequest[q] = [pc |-> mcpRequest[q].pc, server |-> mcpRequest[q].server,
                                    connection |-> mcpRequest[q].connection]
  BY <1>1 DEF Mcp!Request
<1>2. ASSUME opened' = opened \/ opened' = opened + 1
      PROVE  /\ opened' \in Nat /\ 1 .. opened \subseteq 1 .. opened' /\ 0 .. opened \subseteq 0 .. opened'
             /\ \A q \in Calls : mcpRequest[q] \in (Mcp!Request \cup {Mcp!Idle})'
  BY <1>2 DEF Mcp!Request
<1>3. ASSUME NEW s \in Servers, Mcp!AddServer(s) PROVE Mcp!TypeOK'
  BY <1>3 DEF Mcp!AddServer, Mcp!Request
<1>4. ASSUME NEW q \in Calls, NEW s \in Servers, Mcp!Connect(q, s) PROVE Mcp!TypeOK'
  BY <1>4 DEF Mcp!Connect, Mcp!Request
<1>5. ASSUME NEW q \in Calls, NEW s \in Servers, NEW remove \in BOOLEAN, Mcp!Disconnect(q, s, remove)
      PROVE  Mcp!TypeOK'
  BY <1>5 DEF Mcp!Disconnect, Mcp!Request, Mcp!Leaves
<1>6. ASSUME NEW q \in Calls, Mcp!OpenTransport(q) PROVE Mcp!TypeOK'
  <2> DEFINE x == mcpRequest[q]
  <2>1. opened' = opened + 1 /\ opened' \in 1 .. opened' /\ x # Mcp!Idle
    BY <1>6 DEF Mcp!OpenTransport
  <2>2. mcpRequest' = [mcpRequest EXCEPT ![q] = [pc |-> "initialize", server |-> x.server, connection |-> opened']]
    BY <1>6 DEF Mcp!OpenTransport
  <2>3. [pc |-> "initialize", server |-> x.server, connection |-> opened'] \in Mcp!Request'
    BY <1>1, <2>1 DEF Mcp!Request
  <2>4. mcpRequest' \in [Calls -> (Mcp!Request \cup {Mcp!Idle})']
    BY <1>2, <2>1, <2>2, <2>3
  <2>5. open' \in [DOMAIN open' -> Servers] /\ DOMAIN open' \cup exited' \subseteq 1 .. opened'
    BY <1>1, <1>2, <1>6, <2>1 DEF Mcp!OpenTransport
  <2> QED BY <1>2, <1>6, <2>1, <2>4, <2>5 DEF Mcp!OpenTransport
<1>7. ASSUME NEW q \in Calls, Mcp!TransportFails(q) \/ Mcp!InitializeFails(q) PROVE Mcp!TypeOK'
  BY <1>1, <1>7 DEF Mcp!TransportFails, Mcp!InitializeFails, Mcp!Request
<1>8. ASSUME NEW q \in Calls, Mcp!Initialize(q) PROVE Mcp!TypeOK'
  <2> DEFINE x == mcpRequest[q]
  <2>1. x # Mcp!Idle /\ opened' = opened
    BY <1>8 DEF Mcp!Initialize
  <2>2. mcpRequest' = [mcpRequest EXCEPT ![q] = [pc |-> "list", server |-> x.server, connection |-> x.connection]]
    <3>1. PICK w \in Servers, k \in 1 .. opened \cup {Null} : x = [pc |-> "initialize", server |-> w, connection |-> k]
      BY <1>1, <1>8, <2>1 DEF Mcp!Initialize
    <3>2. mcpRequest' = [mcpRequest EXCEPT ![q] = [x EXCEPT !.pc = "list"]]
      BY <1>8 DEF Mcp!Initialize
    <3>3. x.server = w /\ x.connection = k
      BY <3>1
    <3>4. [x EXCEPT !.pc = "list"] = [pc |-> "list", server |-> w, connection |-> k]
      BY <3>1
    <3> HIDE DEF x
    <3> QED BY <3>2, <3>3, <3>4
  <2>3. mcpRequest' \in [Calls -> (Mcp!Request \cup {Mcp!Idle})']
    BY <1>1, <1>2, <2>1, <2>2 DEF Mcp!Request
  <2> QED BY <1>1, <1>8, <2>1, <2>3 DEF Mcp!Initialize
<1>9. ASSUME NEW q \in Calls, Mcp!Listed(q) PROVE Mcp!TypeOK'
  <2>1. mcpRequest[q] # Mcp!Idle /\ opened' = opened
    BY <1>9 DEF Mcp!Listed
  <2>2. mcpRequest[q].connection \in Mcp!Usable => mcpRequest[q].connection \in 0 .. opened
    BY DEF Mcp!Usable
  <2>3. tools' \in [Servers -> 0 .. opened \cup {Null}]
    BY <1>1, <1>9, <2>1, <2>2 DEF Mcp!Listed
  <2> QED BY <1>1, <1>9, <2>1, <2>3 DEF Mcp!Listed, Mcp!Request
<1>10. ASSUME NEW q \in Calls, Mcp!Close(q) PROVE Mcp!TypeOK'
  BY <1>1, <1>10 DEF Mcp!Close, Mcp!Request, Mcp!WithoutTools, Mcp!Leaves
<1>11. ASSUME NEW c \in DOMAIN open, Mcp!ServerExits(c) PROVE Mcp!TypeOK'
  BY <1>11 DEF Mcp!ServerExits, Mcp!Request
<1> QED BY <1>3, <1>4, <1>5, <1>6, <1>7, <1>8, <1>9, <1>10, <1>11 DEF Mcp!Next

\* A step of one request leaves other servers alone, and its own in order if it
\* was alone there.
LEMMA RequestKeeps ==
    ASSUME McpInv, NEW q \in Calls, NEW s \in Servers,
           mcpRequest[q].pc = "idle" \/ mcpRequest[q].server = s,
           mcpRequest'[q].pc = "idle" \/ mcpRequest'[q].server = s,
           \A p \in Calls \ {q} : mcpRequest'[p] = mcpRequest[p],
           \A t \in Servers \ {s} : /\ sessions'[t] = sessions[t] /\ tools'[t] = tools[t]
                                    /\ ConnectionsTo(t)' = ConnectionsTo(t),
           disturbed \subseteq disturbed',
           s \notin disturbed' =>
               /\ RequestsOn(s) \subseteq {q}
               /\ mcpRequest'[q].pc = "idle" =>
                     tools'[s] = sessions'[s] /\ ConnectionsTo(s)' = {sessions'[s]} \ {Null}
               /\ mcpRequest'[q].pc # "idle" => Handles(q, s)'
    PROVE  \A t \in Servers \ disturbed' : InOrder(t)'
<1> SUFFICES ASSUME NEW t \in Servers \ disturbed' PROVE InOrder(t)'
  OBVIOUS
<1>1. CASE t # s
  <2>1. InOrder(t) /\ sessions'[t] = sessions[t] /\ tools'[t] = tools[t] /\ ConnectionsTo(t)' = ConnectionsTo(t)
    BY <1>1 DEF McpInv
  <2>2. RequestsOn(t)' = RequestsOn(t) /\ q \notin RequestsOn(t)
    BY <1>1 DEF RequestsOn
  <2>3. \A p \in RequestsOn(t) : Handles(p, t) => Handles(p, t)'
    BY <2>1, <2>2 DEF Handles, RequestsOn
  <2> QED BY <2>1, <2>2, <2>3 DEF InOrder
<1>2. CASE t = s
  <2>1. mcpRequest'[q].pc = "idle" => RequestsOn(s)' = {}
    BY <1>2 DEF RequestsOn
  <2>2. mcpRequest'[q].pc # "idle" => RequestsOn(s)' = {q}
    BY <1>2 DEF RequestsOn
  <2> QED BY <1>2, <2>1, <2>2 DEF InOrder
<1> QED BY <1>1, <1>2

\* A request that starts on an undisturbed server starts on one at rest, and one
\* that is under way is the only one there.
LEMMA RequestAlone ==
    ASSUME McpInv, NEW q \in Calls, NEW s \in Servers \ disturbed
    PROVE  /\ ~Mcp!Busy(s) => RequestsOn(s) = {} /\ tools[s] = sessions[s] /\ ConnectionsTo(s) = {sessions[s]} \ {Null}
           /\ mcpRequest[q].pc # "idle" /\ mcpRequest[q].server = s => RequestsOn(s) = {q} /\ Handles(q, s)
<1>1. InOrder(s) /\ Mcp!TypeOK
  BY DEF McpInv
<1>2. ~Mcp!Busy(s) => RequestsOn(s) = {}
  BY <1>1, McpBusy
<1>3. mcpRequest[q].pc # "idle" /\ mcpRequest[q].server = s => q \in RequestsOn(s)
  BY DEF RequestsOn
<1> QED BY <1>1, <1>2, <1>3 DEF InOrder

LEMMA ConnectKeeps ==
    McpInv => \A q \in Calls, s \in Servers : Mcp!Connect(q, s) => \A t \in Servers \ disturbed' : InOrder(t)'
<1> SUFFICES ASSUME McpInv, NEW q \in Calls, NEW s \in Servers, Mcp!Connect(q, s)
             PROVE  \A t \in Servers \ disturbed' : InOrder(t)'
  OBVIOUS
<1>1. Mcp!TypeOK /\ mcpRequest[q] = Mcp!Idle /\ mcpRequest[q].pc = "idle"
  BY DEF McpInv, Mcp!Connect, Mcp!Idle
<1>2. UNCHANGED <<sessions, tools, open, exited>>
  BY DEF Mcp!Connect
<1>3. CASE sessions[s] # Null
  <2>1. UNCHANGED <<mcpRequest, disturbed>>
    BY <1>3 DEF Mcp!Connect
  <2> QED BY <1>2, <2>1 DEF McpInv, InOrder, RequestsOn, ConnectionsTo, Handles
<1>4. CASE sessions[s] = Null
  <2>1. /\ mcpRequest' = [mcpRequest EXCEPT ![q] = [pc |-> "open", server |-> s, connection |-> Null]]
        /\ disturbed' = IF Mcp!Busy(s) THEN disturbed \cup {s} ELSE disturbed
    BY <1>4 DEF Mcp!Connect, Mcp!Begins
  <2>2. mcpRequest'[q].pc = "open" /\ mcpRequest'[q].server = s
    BY <1>1, <2>1 DEF Mcp!TypeOK
  <2>3. s \notin disturbed' => RequestsOn(s) = {} /\ tools[s] = Null /\ ConnectionsTo(s) = {}
    BY <1>4, <2>1, RequestAlone
  <2>4. s \notin disturbed' => Handles(q, s)'
    BY <1>2, <1>4, <2>2, <2>3 DEF Handles, ConnectionsTo
  <2>5. /\ \A p \in Calls \ {q} : mcpRequest'[p] = mcpRequest[p]
        /\ \A t \in Servers : ConnectionsTo(t)' = ConnectionsTo(t)
    BY <1>1, <1>2, <2>1 DEF Mcp!TypeOK, ConnectionsTo
  <2> QED BY <1>1, <1>2, <2>1, <2>2, <2>3, <2>4, <2>5, RequestKeeps
<1> QED BY <1>3, <1>4

LEMMA DisconnectKeeps ==
    McpInv => \A q \in Calls, s \in Servers, remove \in BOOLEAN :
        Mcp!Disconnect(q, s, remove) => \A t \in Servers \ disturbed' : InOrder(t)'
<1> SUFFICES ASSUME McpInv, NEW q \in Calls, NEW s \in Servers, NEW remove \in BOOLEAN,
                    Mcp!Disconnect(q, s, remove)
             PROVE  \A t \in Servers \ disturbed' : InOrder(t)'
  OBVIOUS
<1>1. Mcp!TypeOK /\ mcpRequest[q] = Mcp!Idle /\ mcpRequest[q].pc = "idle"
  BY DEF McpInv, Mcp!Disconnect, Mcp!Idle
<1>2. /\ disturbed' = IF Mcp!Busy(s) THEN disturbed \cup {s} ELSE disturbed
      /\ \A t \in Servers : ConnectionsTo(t)' = ConnectionsTo(t)
  BY DEF Mcp!Disconnect, ConnectionsTo
<1>3. s \notin disturbed' =>
          RequestsOn(s) = {} /\ tools[s] = sessions[s] /\ ConnectionsTo(s) = {sessions[s]} \ {Null}
  BY <1>2, RequestAlone
<1>4. CASE sessions[s] # Null
  <2>1. /\ sessions' = [sessions EXCEPT ![s] = Null] /\ tools' = tools
        /\ mcpRequest' = [mcpRequest EXCEPT ![q] = [pc |-> "close", server |-> s, remove |-> remove,
                                                    connection |-> sessions[s]]]
    BY <1>4 DEF Mcp!Disconnect
  <2>2. mcpRequest'[q].pc = "close" /\ mcpRequest'[q].server = s /\ mcpRequest'[q].connection = sessions[s]
    BY <1>1, <2>1 DEF Mcp!TypeOK
  <2>3. s \notin disturbed' => Handles(q, s)'
    BY <1>1, <1>2, <1>3, <1>4, <2>1, <2>2 DEF Handles, Mcp!TypeOK
  <2>4. /\ \A p \in Calls \ {q} : mcpRequest'[p] = mcpRequest[p]
        /\ \A t \in Servers \ {s} : sessions'[t] = sessions[t] /\ tools'[t] = tools[t]
    BY <1>1, <2>1 DEF Mcp!TypeOK
  <2> QED BY <1>1, <1>2, <1>3, <2>2, <2>3, <2>4, RequestKeeps
<1>5. CASE sessions[s] = Null
  <2>1. /\ UNCHANGED <<sessions, mcpRequest>>
        /\ tools' = IF remove THEN tools ELSE [tools EXCEPT ![s] = Null]
    BY <1>5 DEF Mcp!Disconnect
  <2>2. \A t \in Servers \ {s} : tools'[t] = tools[t]
    BY <1>1, <2>1 DEF Mcp!TypeOK
  <2>3. s \notin disturbed' => tools'[s] = sessions'[s] /\ ConnectionsTo(s)' = {sessions'[s]} \ {Null}
    BY <1>1, <1>2, <1>3, <1>5, <2>1 DEF Mcp!TypeOK
  <2> QED BY <1>1, <1>2, <1>3, <2>1, <2>2, <2>3, RequestKeeps
<1> QED BY <1>4, <1>5

LEMMA TransportKeeps ==
    McpInv => \A q \in Calls : Mcp!OpenTransport(q) => \A t \in Servers \ disturbed' : InOrder(t)'
<1> SUFFICES ASSUME McpInv, NEW q \in Calls, Mcp!OpenTransport(q)
             PROVE  \A t \in Servers \ disturbed' : InOrder(t)'
  OBVIOUS
<1> PICK s \in Servers : s = mcpRequest[q].server
  BY DEF McpInv, Mcp!OpenTransport, Mcp!TypeOK, Mcp!At, Mcp!Request, Mcp!Idle
<1>1. /\ Mcp!TypeOK /\ mcpRequest[q].pc = "open" /\ s \in Servers
      /\ opened' = opened + 1 /\ opened' \notin DOMAIN open \cup exited
  BY DEF McpInv, Mcp!OpenTransport, Mcp!TypeOK, Mcp!At, Mcp!Request, Mcp!Idle
<1>2. /\ mcpRequest' = [mcpRequest EXCEPT ![q] = [pc |-> "initialize", server |-> s, connection |-> opened']]
      /\ UNCHANGED <<sessions, tools, exited, disturbed>>
      /\ DOMAIN open' = DOMAIN open \cup {opened'} /\ open'[opened'] = s
      /\ \A c \in DOMAIN open : open'[c] = open[c]
  BY <1>1 DEF Mcp!OpenTransport
<1>3. /\ ConnectionsTo(s)' = ConnectionsTo(s) \cup {opened'}
      /\ \A t \in Servers \ {s} : ConnectionsTo(t)' = ConnectionsTo(t)
  BY <1>1, <1>2 DEF ConnectionsTo
<1>4. /\ mcpRequest'[q].pc = "initialize" /\ mcpRequest'[q].server = s /\ mcpRequest'[q].connection = opened'
      /\ \A p \in Calls \ {q} : mcpRequest'[p] = mcpRequest[p]
  <2>1. mcpRequest[q] \in [pc : {"open", "initialize", "list"}, server : Servers, connection : 1 .. opened \cup {Null}]
    BY <1>1 DEF Mcp!TypeOK, Mcp!Request, Mcp!Idle
  <2> QED BY <1>1, <1>2, <2>1 DEF Mcp!TypeOK
<1>5. s \notin disturbed' => RequestsOn(s) = {q} /\ Handles(q, s)
  BY <1>1, <1>2, RequestAlone
<1>6. s \notin disturbed' => Handles(q, s)'
  BY <1>1, <1>2, <1>3, <1>4, <1>5 DEF Handles, Mcp!TypeOK
<1>7. mcpRequest[q].server = s
  OBVIOUS
<1> QED BY <1>1, <1>2, <1>3, <1>4, <1>5, <1>6, <1>7, RequestKeeps

LEMMA InitializeKeeps ==
    McpInv => \A q \in Calls : Mcp!Initialize(q) => \A t \in Servers \ disturbed' : InOrder(t)'
<1> SUFFICES ASSUME McpInv, NEW q \in Calls, Mcp!Initialize(q)
             PROVE  \A t \in Servers \ disturbed' : InOrder(t)'
  OBVIOUS
<1> PICK s \in Servers : s = mcpRequest[q].server
  BY DEF McpInv, Mcp!Initialize, Mcp!TypeOK, Mcp!At, Mcp!Request, Mcp!Idle
<1>1. Mcp!TypeOK /\ mcpRequest[q].pc = "initialize" /\ s \in Servers
  BY DEF McpInv, Mcp!Initialize, Mcp!TypeOK, Mcp!At, Mcp!Request, Mcp!Idle
<1>2. /\ mcpRequest' = [mcpRequest EXCEPT ![q].pc = "list"]
      /\ sessions' = [sessions EXCEPT ![s] = mcpRequest[q].connection]
      /\ UNCHANGED <<tools, disturbed, open, exited>>
  BY <1>1 DEF Mcp!Initialize
<1>3. /\ mcpRequest'[q].pc = "list" /\ mcpRequest'[q].server = s
      /\ mcpRequest'[q].connection = mcpRequest[q].connection
      /\ \A p \in Calls \ {q} : mcpRequest'[p] = mcpRequest[p]
  <2>1. mcpRequest[q] \in [pc : {"open", "initialize", "list"}, server : Servers, connection : 1 .. opened \cup {Null}]
    BY <1>1 DEF Mcp!TypeOK, Mcp!Request, Mcp!Idle
  <2> QED BY <1>1, <1>2, <2>1 DEF Mcp!TypeOK
<1>4. /\ sessions'[s] = mcpRequest[q].connection /\ \A t \in Servers \ {s} : sessions'[t] = sessions[t]
      /\ \A t \in Servers : ConnectionsTo(t)' = ConnectionsTo(t)
  BY <1>1, <1>2 DEF Mcp!TypeOK, ConnectionsTo
<1>5. s \notin disturbed' => RequestsOn(s) = {q} /\ Handles(q, s)
  BY <1>1, <1>2, RequestAlone
<1>6. mcpRequest[q].server = s
  OBVIOUS
<1>7. s \notin disturbed' => Handles(q, s)'
  BY <1>1, <1>2, <1>3, <1>4, <1>5 DEF Handles, Mcp!TypeOK
<1> QED BY <1>1, <1>2, <1>3, <1>4, <1>5, <1>6, <1>7, RequestKeeps

LEMMA ListedKeeps ==
    McpInv => \A q \in Calls : Mcp!Listed(q) => \A t \in Servers \ disturbed' : InOrder(t)'
<1> SUFFICES ASSUME McpInv, NEW q \in Calls, Mcp!Listed(q)
             PROVE  \A t \in Servers \ disturbed' : InOrder(t)'
  OBVIOUS
<1> PICK s \in Servers : s = mcpRequest[q].server
  BY DEF McpInv, Mcp!Listed, Mcp!TypeOK, Mcp!At, Mcp!Request, Mcp!Idle
<1>1. Mcp!TypeOK /\ mcpRequest[q].pc = "list"
  BY DEF McpInv, Mcp!Listed, Mcp!At
<1>2. /\ mcpRequest' = [mcpRequest EXCEPT ![q] = Mcp!Idle]
      /\ \/ tools' = [tools EXCEPT ![s] = mcpRequest[q].connection] /\ disturbed' = disturbed
         \/ tools' = [tools EXCEPT ![s] = 0] /\ mcpRequest[q].connection \notin DOMAIN open \ exited /\ disturbed' = disturbed
         \/ tools' = [tools EXCEPT ![s] = 0] /\ disturbed' = disturbed \cup {s}
      /\ UNCHANGED <<sessions, open, exited>>
  BY DEF Mcp!Listed, Mcp!Usable, Mcp!Ends, Mcp!Fault
<1>3. mcpRequest'[q].pc = "idle" /\ \A p \in Calls \ {q} : mcpRequest'[p] = mcpRequest[p]
  BY <1>1, <1>2 DEF Mcp!TypeOK, Mcp!Idle
<1>4. /\ \A t \in Servers \ {s} : tools'[t] = tools[t]
      /\ \A t \in Servers : ConnectionsTo(t)' = ConnectionsTo(t)
      /\ disturbed \subseteq disturbed'
  BY <1>1, <1>2 DEF Mcp!TypeOK, ConnectionsTo
<1>5. s \notin disturbed' => RequestsOn(s) = {q} /\ Handles(q, s)
  BY <1>1, <1>4, RequestAlone
<1>6. s \notin disturbed' => tools'[s] = sessions'[s] /\ ConnectionsTo(s)' = {sessions'[s]} \ {Null}
  <2> SUFFICES ASSUME s \notin disturbed'
               PROVE  tools'[s] = sessions'[s] /\ ConnectionsTo(s)' = {sessions'[s]} \ {Null}
    OBVIOUS
  <2>1. /\ mcpRequest[q].connection # Null /\ sessions[s] = mcpRequest[q].connection
        /\ ConnectionsTo(s) = {mcpRequest[q].connection}
    BY <1>1, <1>5 DEF Handles
  <2>2. mcpRequest[q].connection \in DOMAIN open \ exited
    BY <2>1 DEF ConnectionsTo
  <2>3. tools'[s] = mcpRequest[q].connection
    BY <1>1, <1>2, <2>2 DEF Mcp!TypeOK
  <2> QED BY <1>2, <1>4, <2>1, <2>3
<1> QED BY <1>1, <1>2, <1>3, <1>4, <1>5, <1>6, RequestKeeps

LEMMA CloseKeeps ==
    McpInv => \A q \in Calls : Mcp!Close(q) => \A t \in Servers \ disturbed' : InOrder(t)'
<1> SUFFICES ASSUME McpInv, NEW q \in Calls, Mcp!Close(q)
             PROVE  \A t \in Servers \ disturbed' : InOrder(t)'
  OBVIOUS
<1> PICK s \in Servers : s = mcpRequest[q].server
  BY DEF McpInv, Mcp!Close, Mcp!TypeOK, Mcp!At, Mcp!Request, Mcp!Idle
<1>1. Mcp!TypeOK /\ mcpRequest[q].pc = "close"
  BY DEF McpInv, Mcp!Close, Mcp!At
<1>2. /\ mcpRequest' = [mcpRequest EXCEPT ![q] = Mcp!Idle]
      /\ tools' = [tools EXCEPT ![s] = Null]
      /\ UNCHANGED sessions
      /\ UNCHANGED open
      /\ \/ exited' = exited /\ disturbed' = disturbed \cup {s}
         \/ exited' = exited \cup {mcpRequest[q].connection} /\ disturbed' = disturbed
  BY DEF Mcp!Close, Mcp!Ends, Mcp!Fault, Mcp!WithoutTools
<1>3. mcpRequest'[q].pc = "idle" /\ \A p \in Calls \ {q} : mcpRequest'[p] = mcpRequest[p]
  BY <1>1, <1>2 DEF Mcp!TypeOK, Mcp!Idle
<1>4. tools'[s] = Null /\ (\A t \in Servers \ {s} : tools'[t] = tools[t]) /\ disturbed \subseteq disturbed'
  BY <1>1, <1>2 DEF Mcp!TypeOK
<1>5. s \notin disturbed' => RequestsOn(s) = {q} /\ Handles(q, s)
  BY <1>1, <1>4, RequestAlone
<1>6. s \notin disturbed' => tools'[s] = sessions'[s] /\ ConnectionsTo(s)' = {sessions'[s]} \ {Null}
  <2> SUFFICES ASSUME s \notin disturbed'
               PROVE  tools'[s] = sessions'[s] /\ ConnectionsTo(s)' = {sessions'[s]} \ {Null}
    OBVIOUS
  <2>1. sessions[s] = Null /\ ConnectionsTo(s) = {mcpRequest[q].connection}
    BY <1>1, <1>5 DEF Handles
  <2>2. UNCHANGED open /\ exited' = exited \cup {mcpRequest[q].connection}
    BY <1>2
  <2>3. ConnectionsTo(s)' = {}
    BY <2>1, <2>2 DEF ConnectionsTo
  <2> QED BY <1>2, <1>4, <2>1, <2>3
<1>7. \A t \in Servers \ {s} : ConnectionsTo(t)' = ConnectionsTo(t)
  <2>1. \A t \in Servers \ {s} : mcpRequest[q].connection \notin ConnectionsTo(t)
    BY <1>1 DEF McpInv, LeadsHome, ConnectionsTo
  <2> QED BY <1>2, <2>1 DEF ConnectionsTo
<1> QED BY <1>1, <1>2, <1>3, <1>4, <1>5, <1>6, <1>7, RequestKeeps

\* A failure, or the end of a server by itself, disturbs the server it is at.
LEMMA FailureKeeps ==
    McpInv => \A q \in Calls :
        Mcp!TransportFails(q) \/ Mcp!InitializeFails(q) => \A t \in Servers \ disturbed' : InOrder(t)'
<1> SUFFICES ASSUME McpInv, NEW q \in Calls, Mcp!TransportFails(q) \/ Mcp!InitializeFails(q)
             PROVE  \A t \in Servers \ disturbed' : InOrder(t)'
  OBVIOUS
<1> PICK s \in Servers : s = mcpRequest[q].server
  BY DEF McpInv, Mcp!TransportFails, Mcp!InitializeFails, Mcp!TypeOK, Mcp!At, Mcp!Request, Mcp!Idle
<1>1. Mcp!TypeOK /\ disturbed' = disturbed \cup {s} /\ UNCHANGED <<sessions, tools, open, exited>>
      /\ mcpRequest' = [mcpRequest EXCEPT ![q] = Mcp!Idle]
  BY DEF McpInv, Mcp!TransportFails, Mcp!InitializeFails, Mcp!Fault, Mcp!Ends
<1>2. mcpRequest'[q].pc = "idle" /\ \A p \in Calls \ {q} : mcpRequest'[p] = mcpRequest[p]
  BY <1>1 DEF Mcp!TypeOK, Mcp!Idle
<1>3. \A t \in Servers : ConnectionsTo(t)' = ConnectionsTo(t)
  BY <1>1 DEF ConnectionsTo
<1> QED BY <1>1, <1>2, <1>3, RequestKeeps

LEMMA ExitKeeps ==
    McpInv => \A c \in DOMAIN open : Mcp!ServerExits(c) => \A t \in Servers \ disturbed' : InOrder(t)'
<1> SUFFICES ASSUME McpInv, NEW c \in DOMAIN open, Mcp!ServerExits(c), NEW t \in Servers, t \notin disturbed'
             PROVE  InOrder(t)'
  OBVIOUS
<1>1. /\ disturbed' = IF c \in exited THEN disturbed ELSE disturbed \cup {open[c]}
      /\ UNCHANGED <<sessions, tools, exited, mcpRequest>>
      /\ open' = [d \in DOMAIN open \ {c} |-> open[d]]
  BY DEF Mcp!ServerExits, Mcp!Fault
<1>2. ConnectionsTo(t)' = ConnectionsTo(t) /\ RequestsOn(t)' = RequestsOn(t) /\ InOrder(t)
  BY <1>1 DEF ConnectionsTo, RequestsOn, McpInv
<1>3. \A q \in RequestsOn(t) : Handles(q, t) => Handles(q, t)'
  BY <1>1, <1>2 DEF Handles
<1> QED BY <1>1, <1>2, <1>3 DEF InOrder

LEMMA AddKeeps ==
    McpInv => \A s \in Servers : Mcp!AddServer(s) => \A t \in Servers \ disturbed' : InOrder(t)'
BY DEF Mcp!AddServer, McpInv, InOrder, RequestsOn, ConnectionsTo, Handles

LEMMA HomesKept == Mcp!TypeOK /\ LeadsHome /\ Mcp!Next => LeadsHome'
<1> SUFFICES ASSUME Mcp!TypeOK, LeadsHome, Mcp!Next PROVE LeadsHome'
  OBVIOUS
<1> USE DEF Mcp!TypeOK, Mcp!Idle, Mcp!At, Mcp!Ends, Mcp!Begins
<1>1. ASSUME NEW s \in Servers, Mcp!AddServer(s) PROVE LeadsHome'
  BY <1>1 DEF Mcp!AddServer, LeadsHome
<1>2. ASSUME NEW q \in Calls, NEW s \in Servers, Mcp!Connect(q, s) PROVE LeadsHome'
  BY <1>2 DEF Mcp!Connect, LeadsHome, Mcp!McpAssumption
<1>3. ASSUME NEW q \in Calls, NEW s \in Servers, NEW remove \in BOOLEAN, Mcp!Disconnect(q, s, remove)
      PROVE  LeadsHome'
  BY <1>3 DEF Mcp!Disconnect, LeadsHome
<1>4. ASSUME NEW q \in Calls, Mcp!OpenTransport(q) PROVE LeadsHome'
  <2>1. opened' = opened + 1 /\ opened' \notin DOMAIN open /\ UNCHANGED sessions
        /\ DOMAIN open' = DOMAIN open \cup {opened'} /\ open'[opened'] = mcpRequest[q].server
        /\ \A c \in DOMAIN open : open'[c] = open[c]
    BY <1>4 DEF Mcp!OpenTransport
  <2>2. \A s \in Servers : sessions[s] # opened'
    BY <2>1
  <2>3. mcpRequest'[q].connection = opened' /\ mcpRequest'[q].server = mcpRequest[q].server
    BY <1>4, <2>1 DEF Mcp!OpenTransport
  <2>4. \A p \in Calls \ {q} : mcpRequest'[p] = mcpRequest[p]
    BY <1>4 DEF Mcp!OpenTransport
  <2>5. \A p \in Calls : mcpRequest[p].pc # "idle" => mcpRequest[p].connection # opened'
    BY <2>1 DEF Mcp!Request
  <2> QED BY <2>1, <2>2, <2>3, <2>4, <2>5 DEF LeadsHome
<1>5. ASSUME NEW q \in Calls, Mcp!TransportFails(q) \/ Mcp!InitializeFails(q) PROVE LeadsHome'
  BY <1>5 DEF Mcp!TransportFails, Mcp!InitializeFails, LeadsHome
<1>6. ASSUME NEW q \in Calls, Mcp!Initialize(q) PROVE LeadsHome'
  <2>1. mcpRequest[q].pc = "initialize" /\ mcpRequest[q].server \in Servers /\ open' = open
        /\ sessions' = [sessions EXCEPT ![mcpRequest[q].server] = mcpRequest[q].connection]
    BY <1>6 DEF Mcp!Initialize, Mcp!Request
  <2>2. mcpRequest'[q].connection = mcpRequest[q].connection /\ mcpRequest'[q].server = mcpRequest[q].server
    <3>1. mcpRequest[q] \in [pc : {"open", "initialize", "list"}, server : Servers, connection : 1 .. opened \cup {Null}]
      BY <2>1 DEF Mcp!Request
    <3> QED BY <1>6, <3>1 DEF Mcp!Initialize
  <2>3. \A p \in Calls \ {q} : mcpRequest'[p] = mcpRequest[p]
    BY <1>6 DEF Mcp!Initialize
  <2> QED BY <2>1, <2>2, <2>3 DEF LeadsHome
<1>7. ASSUME NEW q \in Calls, Mcp!Listed(q) PROVE LeadsHome'
  BY <1>7 DEF Mcp!Listed, LeadsHome
<1>8. ASSUME NEW q \in Calls, Mcp!Close(q) PROVE LeadsHome'
  <2>1. UNCHANGED <<sessions, open>>
    BY <1>8 DEF Mcp!Close
  <2>2. mcpRequest' = [mcpRequest EXCEPT ![q] = [pc |-> "idle"]]
    BY <1>8 DEF Mcp!Close
  <2> QED BY <2>1, <2>2 DEF LeadsHome
<1>9. ASSUME NEW c \in DOMAIN open, Mcp!ServerExits(c) PROVE LeadsHome'
  BY <1>9 DEF Mcp!ServerExits, LeadsHome
<1> QED BY <1>1, <1>2, <1>3, <1>4, <1>5, <1>6, <1>7, <1>8, <1>9 DEF Mcp!Next

LEMMA McpStep == McpInv /\ Mcp!Next => McpInv'
<1> SUFFICES ASSUME McpInv, Mcp!Next PROVE McpInv'
  OBVIOUS
<1>1. Mcp!TypeOK' /\ LeadsHome'
  BY McpTyped, HomesKept DEF McpInv
<1>2. \A t \in Servers \ disturbed' : InOrder(t)'
  BY AddKeeps, ConnectKeeps, DisconnectKeeps, TransportKeeps, InitializeKeeps, ListedKeeps, CloseKeeps,
     FailureKeeps, ExitKeeps
  DEF Mcp!Next
<1> QED BY <1>1, <1>2 DEF McpInv

LEMMA McpInitially == Mcp!Init => McpInv
<1> SUFFICES ASSUME Mcp!Init PROVE McpInv
  OBVIOUS
<1>1. Mcp!TypeOK
  BY DEF Mcp!Init, Mcp!TypeOK, Mcp!Idle
<1>2. LeadsHome /\ \A s \in Servers : RequestsOn(s) = {} /\ tools[s] = sessions[s] /\ sessions[s] = Null
                                       /\ ConnectionsTo(s) = {}
  BY DEF Mcp!Init, LeadsHome, RequestsOn, ConnectionsTo, Mcp!Idle
<1> QED BY <1>1, <1>2 DEF McpInv, InOrder

LEMMA McpStutter == McpInv /\ UNCHANGED mcpVars => McpInv'
BY DEF McpInv, mcpVars, Mcp!TypeOK, Mcp!Request, LeadsHome, InOrder, Handles, RequestsOn, ConnectionsTo

\* As long as its requests did not overlap and it answered, a tool server at
\* rest has the tools of the session it is registered with, or neither, and no
\* other session to it is open.
THEOREM ToolsAreTheSessions == PlatformSpec => []ToolsOfTheSession
<1>1. PlatformInit => McpInv
  BY McpInitially DEF PlatformInit
<1>2. McpInv /\ [PlatformNext]_platformVars => McpInv'
  <2>1. UNCHANGED platformVars => UNCHANGED mcpVars
    BY DEF platformVars, mcpVars
  <2> QED BY <2>1, McpStep, McpStutter DEF PlatformNext
<1>3. McpInv => ToolsOfTheSession
  <2> SUFFICES ASSUME McpInv PROVE ToolsOfTheSession
    OBVIOUS
  <2>1. \A s \in Servers \ disturbed : ~Mcp!Busy(s) =>
           tools[s] = sessions[s] /\ ConnectionsTo(s) = {sessions[s]} \ {Null}
    BY McpBusy DEF McpInv, InOrder
  <2> QED BY <2>1 DEF McpInv, ToolsOfTheSession, Mcp!ToolsOfTheSession, Mcp!Usable, ConnectionsTo
<1> QED BY <1>1, <1>2, <1>3, PTL DEF PlatformSpec

HIDE McpAssumed DEF Mcp!McpAssumption

-----------------------------------------------------------------------------
(* The cloned voice *)

USE SpeechAssumed DEF Voice!SpeechAssumption

Done(e) == e.initialized \/ e.failed

\* An engine has loaded its model once it is done, or while the thread that
\* holds its lock is past the load.
EngineSound(e) ==
    /\ e.loads <= 1
    /\ e.loads = 1 => Done(e) \/ (e.lock # Null /\ speech[e.lock].pc \in {"reference", "prompt"})
    /\ ~(e.initialized /\ e.failed)
    /\ e.initialized => e.model /\ e.prompt

\* A thread past the lock of its engine holds it, and stands where the engine is.
CallSound(k) ==
    LET i == speech[k].engine
    IN  /\ speech[k].pc \in Voice!Locked \cup {"available", "lock", "plain", "voice"} => i \in 1 .. Len(engines)
        /\ speech[k].pc = "take" => engine # Null
        /\ speech[k].pc \in Voice!Locked => engines[i].lock = k
        /\ speech[k].pc = "load" => ~Done(engines[i]) /\ engines[i].loads = 0
        /\ speech[k].pc \in {"reference", "prompt"} => ~Done(engines[i]) /\ engines[i].model
        /\ speech[k].pc = "check" => Done(engines[i])
        /\ speech[k].pc = "generate" => engines[i].initialized
        /\ speech[k].pc = "plain" /\ ~speech[k].excused => engines[i].failed

\* Only the thread under it holds a lock.
LockSound(i) ==
    LET k == engines[i].lock
    IN  k # Null => speech[k].pc \in Voice!Locked /\ speech[k].engine = i

VoiceInv ==
    /\ Voice!TypeOK
    /\ \A i \in 1 .. Len(engines) : EngineSound(engines[i]) /\ LockSound(i)
    /\ \A k \in Calls : CallSound(k)
    /\ engine = Null <=> Len(engines) = 0
    /\ ~engineRaced => Len(engines) <= 1

\* What the engine of a thread under its lock, and the thread, have become.
Fits(k, e, g) ==
    /\ e.lock \in {k, Null} /\ (e.lock = k <=> g.pc \in Voice!Locked)
    /\ e.loads <= 1 /\ (e.loads = 1 => Done(e) \/ g.pc \in {"reference", "prompt"})
    /\ ~(e.initialized /\ e.failed)
    /\ e.initialized => e.model /\ e.prompt
    /\ g.pc \in Voice!Locked \cup {"plain", "voice"}
    /\ g.pc = "load" => ~Done(e) /\ e.loads = 0
    /\ g.pc \in {"reference", "prompt"} => ~Done(e) /\ e.model
    /\ g.pc = "check" => Done(e)
    /\ g.pc = "generate" => e.initialized
    /\ g.pc = "plain" /\ ~g.excused => e.failed

\* A step of a thread that has, takes or gives back the lock of its engine.
LEMMA EngineStep ==
    ASSUME VoiceInv, NEW k \in Calls, NEW i \in 1 .. Len(engines), NEW e \in Voice!Engine, NEW g \in Voice!Generation,
           speech[k].engine = i, engines[i].lock \in {k, Null},
           engines[i].failed => e.failed,
           engines' \in Seq(Voice!Engine), Len(engines') = Len(engines), engines'[i] = e,
           \A j \in 1 .. Len(engines) \ {i} : engines'[j] = engines[j],
           speech' = [speech EXCEPT ![k] = g], g.engine = i,
           UNCHANGED <<engine, reference, engineRaced>>,
           Fits(k, e, g)
    PROVE  VoiceInv'
<1>1. Voice!TypeOK /\ Voice!TypeOK'
  BY DEF VoiceInv, Voice!TypeOK, Voice!Generation
<1>2. speech'[k] = g /\ \A p \in Calls \ {k} : speech'[p] = speech[p]
  BY <1>1 DEF Voice!TypeOK
<1>3. \A p \in Calls \ {k} : speech[p].engine = i => speech[p].pc \notin Voice!Locked
  BY DEF VoiceInv, CallSound
<1>4. ASSUME NEW j \in 1 .. Len(engines) \ {i}, engines[j].lock # Null
      PROVE  engines[j].lock \in Calls \ {k} /\ speech[engines[j].lock].pc \in Voice!Locked /\ speech[engines[j].lock].engine = j
  <2>1. engines[j] \in Voice!Engine /\ LockSound(j)
    BY <1>1 DEF Voice!TypeOK, VoiceInv
  <2> QED BY <1>4, <2>1 DEF LockSound, Voice!Engine
<1>5. ASSUME NEW j \in 1 .. Len(engines)' PROVE EngineSound(engines[j])' /\ LockSound(j)'
  <2>1. CASE j = i
    BY <1>2, <2>1 DEF EngineSound, LockSound, Fits, Voice!Engine, Done
  <2>2. CASE j # i
    <3>1. engines'[j] = engines[j] /\ EngineSound(engines[j]) /\ LockSound(j)
      BY <2>2 DEF VoiceInv
    <3>2. engines[j].lock # Null => speech'[engines[j].lock] = speech[engines[j].lock]
      BY <1>2, <1>4, <2>2
    <3> QED BY <3>1, <3>2 DEF EngineSound, LockSound, Done
  <2> QED BY <2>1, <2>2
<1>6. ASSUME NEW p \in Calls PROVE CallSound(p)'
  <2>1. CASE p = k
    BY <1>1, <1>2, <2>1 DEF CallSound, Fits, Voice!TypeOK, Voice!Locked
  <2>2. CASE p # k
    <3>1. speech'[p] = speech[p] /\ CallSound(p)
      BY <1>2, <2>2 DEF VoiceInv
    <3>2. CASE speech[p].engine = i
      BY <1>3, <2>2, <3>1, <3>2 DEF CallSound, Voice!Locked
    <3>3. CASE speech[p].engine # i
      <4>1. speech[p].pc \in Voice!Locked \cup {"available", "lock", "plain", "voice"} =>
               engines'[speech[p].engine] = engines[speech[p].engine]
        BY <3>1, <3>3 DEF CallSound
      <4> QED BY <3>1, <4>1 DEF CallSound, Voice!Locked
    <3> QED BY <3>2, <3>3
  <2> QED BY <2>1, <2>2
<1> QED BY <1>1, <1>5, <1>6 DEF VoiceInv

\* A step of a thread that has no lock, before and after.
LEMMA ThreadStep ==
    ASSUME VoiceInv, NEW k \in Calls, NEW g \in Voice!Generation,
           speech[k].pc \notin Voice!Locked, g.pc \notin Voice!Locked,
           speech' = [speech EXCEPT ![k] = g],
           UNCHANGED <<engine, engines, reference, engineRaced>>,
           g.pc \in {"available", "lock", "plain"} => g.engine \in 1 .. Len(engines),
           g.pc = "take" => engine # Null, g.pc # "voice",
           g.pc = "plain" /\ ~g.excused => engines[g.engine].failed
    PROVE  VoiceInv'
<1>1. Voice!TypeOK /\ Voice!TypeOK'
  BY DEF VoiceInv, Voice!TypeOK, Voice!Generation
<1>2. speech'[k] = g /\ \A p \in Calls \ {k} : speech'[p] = speech[p]
  BY <1>1 DEF Voice!TypeOK
<1>3. ASSUME NEW j \in 1 .. Len(engines)' PROVE EngineSound(engines[j])' /\ LockSound(j)'
  <2>1. engines[j] \in Voice!Engine /\ EngineSound(engines[j]) /\ LockSound(j)
    BY <1>1 DEF VoiceInv, Voice!TypeOK
  <2>2. engines[j].lock # Null => speech'[engines[j].lock] = speech[engines[j].lock]
    BY <1>2, <2>1 DEF LockSound, Voice!Engine
  <2> QED BY <2>1, <2>2 DEF EngineSound, LockSound, Done
<1>4. ASSUME NEW p \in Calls PROVE CallSound(p)'
  <2>1. CASE p = k
    BY <1>2, <2>1 DEF CallSound, Voice!Locked
  <2>2. CASE p # k
    BY <1>2, <2>2 DEF VoiceInv, CallSound
  <2> QED BY <2>1, <2>2
<1> QED BY <1>1, <1>3, <1>4 DEF VoiceInv

\* The generation of a thread, and its engine when it has one.
LEMMA Generations ==
    ASSUME VoiceInv, NEW k \in Calls
    PROVE  /\ speech[k] \in Voice!Generation
           /\ speech[k].pc \in {"available", "lock"} \cup Voice!Locked =>
                 /\ speech[k].engine \in 1 .. Len(engines) /\ engines[speech[k].engine] \in Voice!Engine
                 /\ EngineSound(engines[speech[k].engine]) /\ LockSound(speech[k].engine)
           /\ CallSound(k)
<1>1. Voice!TypeOK /\ CallSound(k)
  BY DEF VoiceInv
<1> QED BY <1>1 DEF Voice!TypeOK, VoiceInv, CallSound

LEMMA Synthesizes == VoiceInv => \A k \in Calls : Voice!Synthesize(k) => VoiceInv'
<1> SUFFICES ASSUME VoiceInv, NEW k \in Calls, Voice!Synthesize(k) PROVE VoiceInv'
  OBVIOUS
<1> DEFINE g == [Voice!Idle EXCEPT !.pc = IF engine = Null THEN "make" ELSE "take"]
<1>1. g \in Voice!Generation /\ g.pc = (IF engine = Null THEN "make" ELSE "take")
  BY DEF Voice!Idle, Voice!Generation
<1>2. speech[k].pc \notin Voice!Locked /\ speech' = [speech EXCEPT ![k] = g]
      /\ UNCHANGED <<engine, engines, reference, engineRaced>>
  BY DEF Voice!Synthesize, Voice!Locked
<1> HIDE DEF g
<1> QED BY <1>1, <1>2, ThreadStep DEF Voice!Locked

LEMMA MakesEngine == VoiceInv => \A k \in Calls : Voice!MakeEngine(k) => VoiceInv'
<1> SUFFICES ASSUME VoiceInv, NEW k \in Calls, Voice!MakeEngine(k) PROVE VoiceInv'
  OBVIOUS
<1>1. Voice!TypeOK /\ Voice!NewEngine \in Voice!Engine
  BY DEF VoiceInv, Voice!NewEngine, Voice!Engine
<1>2. /\ engines' = Append(engines, Voice!NewEngine) /\ engine' = Len(engines) + 1
      /\ engineRaced' = (engineRaced \/ engine # Null) /\ speech[k].pc = "make"
      /\ speech' = [speech EXCEPT ![k].pc = "take"] /\ reference' = reference
  BY DEF Voice!MakeEngine, Voice!At, Voice!Goes
<1>3. /\ engines' \in Seq(Voice!Engine) /\ Len(engines') = Len(engines) + 1
      /\ engines'[Len(engines) + 1] = Voice!NewEngine /\ Len(engines) \in Nat
      /\ \A j \in 1 .. Len(engines) : engines'[j] = engines[j]
  BY <1>1, <1>2 DEF Voice!TypeOK
<1>4. /\ speech'[k].pc = "take" /\ speech'[k].engine = speech[k].engine
      /\ speech'[k].excused = speech[k].excused /\ speech'[k] \in Voice!Generation'
      /\ \A p \in Calls \ {k} : speech'[p] = speech[p]
  BY <1>1, <1>2, <1>3 DEF Voice!TypeOK, Voice!Generation
<1>5. Voice!TypeOK'
  <2>1. \A p \in Calls : speech'[p] \in Voice!Generation'
    BY <1>1, <1>3, <1>4 DEF Voice!TypeOK, Voice!Generation
  <2>2. speech' \in [Calls -> Voice!Generation']
    BY <1>1, <1>2, <2>1 DEF Voice!TypeOK
  <2>3. engineRaced' \in BOOLEAN
    BY <1>2
  <2> QED BY <1>1, <1>2, <1>3, <2>2, <2>3 DEF Voice!TypeOK
<1>6. ASSUME NEW j \in 1 .. Len(engines)' PROVE EngineSound(engines[j])' /\ LockSound(j)'
  <2>1. CASE j = Len(engines) + 1
    BY <1>3, <2>1 DEF EngineSound, LockSound, Voice!NewEngine
  <2>2. CASE j # Len(engines) + 1
    <3>1. /\ engines'[j] = engines[j] /\ engines[j] \in Voice!Engine
          /\ EngineSound(engines[j]) /\ LockSound(j)
      BY <1>1, <1>3, <2>2 DEF VoiceInv, Voice!TypeOK
    <3>2. engines[j].lock # Null => engines[j].lock \in Calls /\ speech'[engines[j].lock] = speech[engines[j].lock]
      BY <1>2, <1>4, <3>1 DEF LockSound, Voice!Engine, Voice!Locked
    <3> QED BY <3>1, <3>2 DEF EngineSound, LockSound, Done
  <2> QED BY <2>1, <2>2
<1>7. ASSUME NEW p \in Calls PROVE CallSound(p)'
  <2>1. CASE p = k
    BY <1>2, <1>3, <1>4, <2>1 DEF CallSound, Voice!Locked
  <2>2. CASE p # k
    BY <1>2, <1>3, <1>4, <2>2 DEF VoiceInv, CallSound, Voice!Locked
  <2> QED BY <2>1, <2>2
<1>8. engineRaced' \/ Len(engines') <= 1
  <2>1. engine = Null => Len(engines') <= 1
    BY <1>3 DEF VoiceInv
  <2>2. engine # Null => engineRaced'
    BY <1>2, Zenon
  <2> QED BY <2>1, <2>2
<1> QED BY <1>2, <1>3, <1>5, <1>6, <1>7, <1>8 DEF VoiceInv

LEMMA TakesEngine == VoiceInv => \A k \in Calls : Voice!TakeEngine(k) => VoiceInv'
<1> SUFFICES ASSUME VoiceInv, NEW k \in Calls, Voice!TakeEngine(k) PROVE VoiceInv'
  OBVIOUS
<1> DEFINE g == [pc |-> "available", engine |-> engine, excused |-> FALSE]
<1>1. speech[k].pc = "take" /\ engine \in 1 .. Len(engines)
  BY DEF Voice!TakeEngine, Voice!At, VoiceInv, CallSound, Voice!TypeOK
<1>2. g \in Voice!Generation /\ g.pc = "available" /\ g.engine = engine
  BY <1>1 DEF Voice!Generation
<1>3. speech' = [speech EXCEPT ![k] = g] /\ UNCHANGED <<engine, engines, reference, engineRaced>>
  BY DEF Voice!TakeEngine
<1> HIDE DEF g
<1> QED BY <1>1, <1>2, <1>3, ThreadStep DEF Voice!Locked

LEMMA AsksAvailable == VoiceInv => \A k \in Calls : Voice!IsAvailable(k) => VoiceInv'
<1> SUFFICES ASSUME VoiceInv, NEW k \in Calls, Voice!IsAvailable(k) PROVE VoiceInv'
  OBVIOUS
<1> PICK c \in Voice!Generation : c = speech[k]
  BY Generations
<1>1. c.pc = "available" /\ c.engine \in 1 .. Len(engines) /\ engines[c.engine] \in Voice!Engine
  BY Generations DEF Voice!IsAvailable, Voice!At
<1>2. UNCHANGED <<engine, engines, reference, engineRaced>>
  BY DEF Voice!IsAvailable
<1>3. CASE speech' = [speech EXCEPT ![k].pc = "lock"]
  <2> DEFINE g == [c EXCEPT !.pc = "lock"]
  <2>1. g \in Voice!Generation /\ g.pc = "lock" /\ g.engine = c.engine
    BY DEF Voice!Generation
  <2>2. speech' = [speech EXCEPT ![k] = g]
    BY <1>3
  <2> HIDE DEF g
  <2> QED BY <1>1, <1>2, <2>1, <2>2, ThreadStep DEF Voice!Locked
<1>4. CASE speech' = [speech EXCEPT ![k].pc = "plain", ![k].excused = ~engines[c.engine].failed]
  <2> DEFINE g == [c EXCEPT !.pc = "plain", !.excused = ~engines[c.engine].failed]
  <2>1. /\ g \in Voice!Generation /\ g.pc = "plain" /\ g.engine = c.engine
        /\ ~g.excused => engines[c.engine].failed
    BY <1>1 DEF Voice!Generation, Voice!Engine
  <2>2. speech' = [speech EXCEPT ![k] = g]
    BY <1>4 DEF VoiceInv, Voice!TypeOK
  <2> HIDE DEF g
  <2> QED BY <1>1, <1>2, <2>1, <2>2, ThreadStep DEF Voice!Locked
<1> QED BY <1>3, <1>4 DEF Voice!IsAvailable, Voice!Goes, Voice!Mine

\* Under the lock, one action after the other.
LEMMA Acquires == VoiceInv => \A k \in Calls : Voice!Acquire(k) => VoiceInv'
<1> SUFFICES ASSUME VoiceInv, NEW k \in Calls, Voice!Acquire(k) PROVE VoiceInv'
  OBVIOUS
<1> PICK c \in Voice!Generation : c = speech[k]
  BY Generations
<1> PICK e \in Voice!Engine : e = engines[c.engine]
  BY Generations DEF Voice!Acquire, Voice!At
<1>1. c.pc = "lock" /\ c.engine \in 1 .. Len(engines) /\ EngineSound(e) /\ e.lock = Null
  BY Generations DEF Voice!Acquire, Voice!At, Voice!Mine
<1> DEFINE f == [e EXCEPT !.lock = k]
           g == [c EXCEPT !.pc = IF Done(e) THEN "check" ELSE "load"]
<1>2. f \in Voice!Engine /\ f.lock = k /\ f.loads = e.loads /\ f.initialized = e.initialized /\ f.failed = e.failed
      /\ f.model = e.model /\ f.prompt = e.prompt
  BY DEF Voice!Engine
<1>3. g \in Voice!Generation /\ g.pc = (IF Done(e) THEN "check" ELSE "load") /\ g.engine = c.engine
  BY DEF Voice!Generation, Voice!Locked
<1>4. engines' = [engines EXCEPT ![c.engine] = f] /\ speech' = [speech EXCEPT ![k] = g]
      /\ UNCHANGED <<engine, reference, engineRaced>>
  BY DEF Voice!Acquire, Voice!Sets, Voice!Goes, Voice!Mine, Voice!Settled, Done
<1>5. e.loads = 1 => Done(e)
  BY <1>1 DEF EngineSound
<1>6. Fits(k, f, g)
  <2>1. Done(f) <=> Done(e)
    BY <1>2 DEF Done
  <2>2. e.loads \in Nat
    BY DEF Voice!Engine
  <2> QED BY <1>1, <1>2, <1>3, <1>5, <2>1, <2>2 DEF Fits, EngineSound, Voice!Locked
<1> HIDE DEF f, g
<1>7. /\ engines' \in Seq(Voice!Engine) /\ Len(engines') = Len(engines) /\ engines'[c.engine] = f
      /\ \A j \in 1 .. Len(engines) \ {c.engine} : engines'[j] = engines[j]
  BY <1>1, <1>2, <1>4, ExceptSeq DEF VoiceInv, Voice!TypeOK
<1> QED BY <1>1, <1>2, <1>3, <1>4, <1>6, <1>7, EngineStep

\* A thread under the lock of its engine.
LEMMA UnderLock ==
    ASSUME VoiceInv, NEW k \in Calls, speech[k].pc \in Voice!Locked
    PROVE  \E i \in 1 .. Len(engines) : \E e \in Voice!Engine, c \in Voice!Generation :
              /\ c = speech[k] /\ i = c.engine /\ e = engines[i]
              /\ e.lock = k /\ EngineSound(e) /\ e.loads \in Nat
              /\ ~Done(e) /\ c.pc \notin {"reference", "prompt"} => e.loads = 0
              /\ c.pc = "load" => ~Done(e) /\ e.loads = 0
              /\ c.pc \in {"reference", "prompt"} => ~Done(e) /\ e.model
              /\ c.pc = "check" => Done(e)
              /\ c.pc = "generate" => e.initialized
<1> DEFINE c == speech[k]
           i == speech[k].engine
           e == engines[speech[k].engine]
<1>1. c \in Voice!Generation /\ i \in 1 .. Len(engines) /\ e \in Voice!Engine /\ EngineSound(e) /\ CallSound(k)
  BY Generations
<1>2. /\ e.lock = k /\ e.loads \in Nat
      /\ c.pc = "load" => ~Done(e) /\ e.loads = 0
      /\ c.pc \in {"reference", "prompt"} => ~Done(e) /\ e.model
      /\ c.pc = "check" => Done(e)
      /\ c.pc = "generate" => e.initialized
  BY <1>1 DEF CallSound, Voice!Engine
<1>3. ~Done(e) /\ c.pc \notin {"reference", "prompt"} => e.loads = 0
  BY <1>1, <1>2 DEF EngineSound
<1> QED BY <1>1, <1>2, <1>3

LEMMA Loads == VoiceInv => \A k \in Calls : Voice!LoadModel(k) \/ Voice!LoadFails(k) => VoiceInv'
<1> SUFFICES ASSUME VoiceInv, NEW k \in Calls, Voice!LoadModel(k) \/ Voice!LoadFails(k) PROVE VoiceInv'
  OBVIOUS
<1>1. speech[k].pc = "load" /\ "load" \in Voice!Locked
  BY DEF Voice!LoadModel, Voice!LoadFails, Voice!At, Voice!Locked
<1> PICK i \in 1 .. Len(engines), e \in Voice!Engine, c \in Voice!Generation :
         /\ c = speech[k] /\ i = c.engine /\ e = engines[i]
         /\ e.lock = k /\ EngineSound(e) /\ ~Done(e) /\ e.loads = 0
  BY <1>1, UnderLock
<1>2. CASE Voice!LoadModel(k)
  <2> DEFINE f == [e EXCEPT !.model = TRUE, !.loads = 1]
             g == [c EXCEPT !.pc = "reference"]
  <2>1. f \in Voice!Engine /\ f.lock = k /\ f.loads = 1 /\ f.initialized = e.initialized /\ f.failed = e.failed
        /\ f.model /\ f.prompt = e.prompt
    BY DEF Voice!Engine
  <2>2. g \in Voice!Generation /\ g.pc = "reference" /\ g.engine = i
    BY DEF Voice!Generation, Voice!Locked
  <2>3. engines' = [engines EXCEPT ![i] = f] /\ speech' = [speech EXCEPT ![k] = g]
        /\ UNCHANGED <<engine, reference, engineRaced>>
    <3>1. Voice!Mine(k) = e /\ e.loads + 1 = 1
      BY DEF Voice!Mine
    <3>2. engines' = [engines EXCEPT ![i] = f]
      BY <1>2, <3>1 DEF Voice!LoadModel, Voice!Sets
    <3>3. speech' = [speech EXCEPT ![k] = g]
      BY <1>2 DEF Voice!LoadModel, Voice!Goes
    <3> QED BY <1>2, <3>2, <3>3 DEF Voice!LoadModel
  <2>4. Fits(k, f, g)
    BY <2>1, <2>2 DEF Fits, Done, Voice!Locked
  <2> HIDE DEF f, g
  <2>5. /\ engines' \in Seq(Voice!Engine) /\ Len(engines') = Len(engines) /\ engines'[i] = f
        /\ \A j \in 1 .. Len(engines) \ {i} : engines'[j] = engines[j]
    BY <2>1, <2>3, ExceptSeq DEF VoiceInv, Voice!TypeOK
  <2>6. engines[i].failed => f.failed
    BY <2>1
  <2> QED BY <2>1, <2>2, <2>3, <2>4, <2>5, <2>6, EngineStep
<1>3. CASE Voice!LoadFails(k)
  <2> DEFINE f == [e EXCEPT !.failed = TRUE, !.loads = 1]
             g == [c EXCEPT !.pc = "check"]
  <2>1. f \in Voice!Engine /\ f.lock = k /\ f.loads = 1 /\ f.initialized = e.initialized /\ f.failed
    BY DEF Voice!Engine
  <2>2. g \in Voice!Generation /\ g.pc = "check" /\ g.engine = i
    BY DEF Voice!Generation, Voice!Locked
  <2>3. engines' = [engines EXCEPT ![i] = f] /\ speech' = [speech EXCEPT ![k] = g]
        /\ UNCHANGED <<engine, reference, engineRaced>>
    <3>1. Voice!Mine(k) = e /\ e.loads + 1 = 1
      BY DEF Voice!Mine
    <3>2. engines' = [engines EXCEPT ![i] = f]
      BY <1>3, <3>1 DEF Voice!LoadFails, Voice!Sets
    <3>3. speech' = [speech EXCEPT ![k] = g]
      BY <1>3 DEF Voice!LoadFails, Voice!Goes
    <3> QED BY <1>3, <3>2, <3>3 DEF Voice!LoadFails
  <2>4. Fits(k, f, g)
    BY <2>1, <2>2 DEF Fits, Done, Voice!Locked
  <2> HIDE DEF f, g
  <2>5. /\ engines' \in Seq(Voice!Engine) /\ Len(engines') = Len(engines) /\ engines'[i] = f
        /\ \A j \in 1 .. Len(engines) \ {i} : engines'[j] = engines[j]
    BY <2>1, <2>3, ExceptSeq DEF VoiceInv, Voice!TypeOK
  <2> QED BY <2>1, <2>2, <2>3, <2>4, <2>5, EngineStep
<1> QED BY <1>2, <1>3

LEMMA FindsReference == VoiceInv => \A k \in Calls : Voice!FindReference(k) => VoiceInv'
<1> SUFFICES ASSUME VoiceInv, NEW k \in Calls, Voice!FindReference(k) PROVE VoiceInv'
  OBVIOUS
<1>1. speech[k].pc = "reference" /\ "reference" \in Voice!Locked
  BY DEF Voice!FindReference, Voice!At, Voice!Locked
<1> PICK i \in 1 .. Len(engines), e \in Voice!Engine, c \in Voice!Generation :
         /\ c = speech[k] /\ i = c.engine /\ e = engines[i]
         /\ e.lock = k /\ EngineSound(e) /\ ~Done(e) /\ e.model
  BY <1>1, UnderLock
<1>2. CASE reference
  <2> DEFINE g == [c EXCEPT !.pc = "prompt"]
  <2>1. g \in Voice!Generation /\ g.pc = "prompt" /\ g.engine = i
    BY DEF Voice!Generation, Voice!Locked
  <2>2. speech' = [speech EXCEPT ![k] = g] /\ UNCHANGED <<engines, engine, reference, engineRaced>>
    BY <1>2 DEF Voice!FindReference, Voice!Goes
  <2>3. Fits(k, e, g)
    BY <2>1 DEF Fits, Done, Voice!Locked, EngineSound
  <2> HIDE DEF g
  <2> QED BY <2>1, <2>2, <2>3, EngineStep DEF VoiceInv, Voice!TypeOK
<1>3. CASE ~reference
  <2> DEFINE f == [e EXCEPT !.failed = TRUE]
             g == [c EXCEPT !.pc = "check"]
  <2>1. f \in Voice!Engine /\ f.lock = k /\ f.loads = e.loads /\ f.initialized = e.initialized /\ f.failed
    BY DEF Voice!Engine
  <2>2. g \in Voice!Generation /\ g.pc = "check" /\ g.engine = i
    BY DEF Voice!Generation, Voice!Locked
  <2>3. engines' = [engines EXCEPT ![i] = f] /\ speech' = [speech EXCEPT ![k] = g]
        /\ UNCHANGED <<engine, reference, engineRaced>>
    BY <1>3 DEF Voice!FindReference, Voice!Sets, Voice!Goes, Voice!Mine
  <2>4. Fits(k, f, g)
    BY <2>1, <2>2 DEF Fits, Done, Voice!Locked, EngineSound
  <2> HIDE DEF f, g
  <2>5. /\ engines' \in Seq(Voice!Engine) /\ Len(engines') = Len(engines) /\ engines'[i] = f
        /\ \A j \in 1 .. Len(engines) \ {i} : engines'[j] = engines[j]
    BY <2>1, <2>3, ExceptSeq DEF VoiceInv, Voice!TypeOK
  <2> QED BY <2>1, <2>2, <2>3, <2>4, <2>5, EngineStep
<1> QED BY <1>2, <1>3

LEMMA Prompts == VoiceInv => \A k \in Calls : Voice!CreatePrompt(k) \/ Voice!PromptFails(k) => VoiceInv'
<1> SUFFICES ASSUME VoiceInv, NEW k \in Calls, Voice!CreatePrompt(k) \/ Voice!PromptFails(k) PROVE VoiceInv'
  OBVIOUS
<1>1. speech[k].pc = "prompt" /\ "prompt" \in Voice!Locked
  BY DEF Voice!CreatePrompt, Voice!PromptFails, Voice!At, Voice!Locked
<1> PICK i \in 1 .. Len(engines), e \in Voice!Engine, c \in Voice!Generation :
         /\ c = speech[k] /\ i = c.engine /\ e = engines[i]
         /\ e.lock = k /\ EngineSound(e) /\ ~Done(e) /\ e.model
  BY <1>1, UnderLock
<1> PICK f \in Voice!Engine :
         /\ f.lock = k /\ f.loads = e.loads /\ f.model /\ Done(f) /\ engines' = [engines EXCEPT ![i] = f]
         /\ f.initialized => f.prompt /\ ~f.failed
  <2>1. CASE Voice!CreatePrompt(k)
    <3> DEFINE f == [e EXCEPT !.prompt = TRUE, !.initialized = TRUE]
    <3>1. f \in Voice!Engine /\ f.lock = k /\ f.loads = e.loads /\ f.model = e.model /\ f.initialized /\ f.prompt
          /\ f.failed = e.failed
      BY DEF Voice!Engine
    <3>2. engines' = [engines EXCEPT ![i] = f]
      BY <2>1 DEF Voice!CreatePrompt, Voice!Sets, Voice!Mine
    <3> HIDE DEF f
    <3>3. f.model /\ Done(f) /\ ~f.failed
      BY <3>1 DEF Done
    <3> QED BY <3>1, <3>2, <3>3
  <2>2. CASE Voice!PromptFails(k)
    <3> DEFINE f == [e EXCEPT !.failed = TRUE]
    <3>1. f \in Voice!Engine /\ f.lock = k /\ f.loads = e.loads /\ f.model = e.model /\ f.failed
          /\ f.initialized = e.initialized
      BY DEF Voice!Engine
    <3>2. engines' = [engines EXCEPT ![i] = f]
      BY <2>2 DEF Voice!PromptFails, Voice!Sets, Voice!Mine
    <3> HIDE DEF f
    <3>3. f.model /\ Done(f) /\ ~f.initialized
      BY <3>1 DEF Done
    <3> QED BY <3>1, <3>2, <3>3
  <2> QED BY <2>1, <2>2
<1> DEFINE g == [c EXCEPT !.pc = "check"]
<1>2. g \in Voice!Generation /\ g.pc = "check" /\ g.engine = i
  BY DEF Voice!Generation, Voice!Locked
<1>3. speech' = [speech EXCEPT ![k] = g] /\ UNCHANGED <<engine, reference, engineRaced>>
  BY DEF Voice!CreatePrompt, Voice!PromptFails, Voice!Goes
<1>4. Fits(k, f, g)
  BY <1>2 DEF Fits, Voice!Locked, EngineSound
<1>5. engines[i].failed => f.failed
  BY DEF Done
<1> HIDE DEF g
<1>6. /\ engines' \in Seq(Voice!Engine) /\ Len(engines') = Len(engines) /\ engines'[i] = f
      /\ \A j \in 1 .. Len(engines) \ {i} : engines'[j] = engines[j]
  BY ExceptSeq DEF VoiceInv, Voice!TypeOK
<1> QED BY <1>2, <1>3, <1>4, <1>5, <1>6, EngineStep

\* Giving the lock back: with the voice, or for the plain one.
LEMMA Releases ==
    ASSUME VoiceInv, NEW k \in Calls, speech[k].pc \in {"check", "generate"}, NEW g \in Voice!Generation,
           g.engine = speech[k].engine, g.pc \in {"voice", "plain"},
           g.pc = "plain" /\ ~g.excused => engines[speech[k].engine].failed,
           speech' = [speech EXCEPT ![k] = g], UNCHANGED <<engine, reference, engineRaced>>,
           engines' = [engines EXCEPT ![speech[k].engine] = [engines[speech[k].engine] EXCEPT !.lock = Null]]
    PROVE  VoiceInv'
<1>1. speech[k].pc \in Voice!Locked
  BY DEF Voice!Locked
<1> PICK i \in 1 .. Len(engines), e \in Voice!Engine, c \in Voice!Generation :
         /\ c = speech[k] /\ i = c.engine /\ e = engines[i]
         /\ e.lock = k /\ EngineSound(e) /\ e.loads \in Nat
         /\ ~Done(e) /\ c.pc \notin {"reference", "prompt"} => e.loads = 0
  BY <1>1, UnderLock
<1> DEFINE f == [e EXCEPT !.lock = Null]
<1>2. f \in Voice!Engine /\ f.lock = Null /\ f.loads = e.loads /\ f.initialized = e.initialized /\ f.failed = e.failed
      /\ f.model = e.model /\ f.prompt = e.prompt
  BY DEF Voice!Engine
<1>3. engines' = [engines EXCEPT ![i] = f]
  OBVIOUS
<1>4. Fits(k, f, g)
  BY <1>2 DEF Fits, Done, EngineSound, Voice!Locked
<1> HIDE DEF f
<1>5. /\ engines' \in Seq(Voice!Engine) /\ Len(engines') = Len(engines) /\ engines'[i] = f
      /\ \A j \in 1 .. Len(engines) \ {i} : engines'[j] = engines[j]
  BY <1>2, <1>3, ExceptSeq DEF VoiceInv, Voice!TypeOK
<1> QED BY <1>2, <1>4, <1>5, EngineStep

LEMMA Checks == VoiceInv => \A k \in Calls : Voice!CheckEngine(k) => VoiceInv'
<1> SUFFICES ASSUME VoiceInv, NEW k \in Calls, Voice!CheckEngine(k) PROVE VoiceInv'
  OBVIOUS
<1>1. speech[k].pc = "check" /\ "check" \in Voice!Locked
  BY DEF Voice!CheckEngine, Voice!At, Voice!Locked
<1> PICK i \in 1 .. Len(engines), e \in Voice!Engine, c \in Voice!Generation :
         /\ c = speech[k] /\ i = c.engine /\ e = engines[i]
         /\ e.lock = k /\ EngineSound(e) /\ Done(e) /\ c.pc = "check"
  BY <1>1, UnderLock
<1>2. CASE ~e.initialized \/ ~e.model
  <2> DEFINE g == [c EXCEPT !.pc = "plain"]
  <2>1. g \in Voice!Generation /\ g.pc = "plain" /\ g.engine = i
    BY DEF Voice!Generation, Voice!Locked
  <2>2. e.failed
    BY <1>2 DEF EngineSound, Done
  <2>3. speech' = [speech EXCEPT ![k] = g] /\ UNCHANGED <<engine, reference, engineRaced>>
        /\ engines' = [engines EXCEPT ![speech[k].engine] = [engines[speech[k].engine] EXCEPT !.lock = Null]]
    BY <1>2 DEF Voice!CheckEngine, Voice!Goes, Voice!Sets, Voice!Mine
  <2> HIDE DEF g
  <2> QED BY <1>1, <2>1, <2>2, <2>3, Releases
<1>3. CASE ~(~e.initialized \/ ~e.model)
  <2> DEFINE g == [c EXCEPT !.pc = "generate"]
  <2>1. g \in Voice!Generation /\ g.pc = "generate" /\ g.engine = i
    BY DEF Voice!Generation, Voice!Locked
  <2>2. speech' = [speech EXCEPT ![k] = g] /\ UNCHANGED <<engines, engine, reference, engineRaced>>
    BY <1>3 DEF Voice!CheckEngine, Voice!Goes, Voice!Mine
  <2>3. Fits(k, e, g)
    BY <1>3, <2>1 DEF Fits, Done, Voice!Locked, EngineSound
  <2> HIDE DEF g
  <2> QED BY <2>1, <2>2, <2>3, EngineStep DEF VoiceInv, Voice!TypeOK
<1> QED BY <1>2, <1>3

LEMMA Generates == VoiceInv => \A k \in Calls : Voice!Generate(k) \/ Voice!GenerateFails(k) => VoiceInv'
<1> SUFFICES ASSUME VoiceInv, NEW k \in Calls, Voice!Generate(k) \/ Voice!GenerateFails(k) PROVE VoiceInv'
  OBVIOUS
<1> PICK c \in Voice!Generation : c = speech[k]
  BY Generations
<1>1. /\ c.pc = "generate" /\ UNCHANGED <<engine, reference, engineRaced>>
      /\ engines' = [engines EXCEPT ![speech[k].engine] = [engines[speech[k].engine] EXCEPT !.lock = Null]]
  BY DEF Voice!Generate, Voice!GenerateFails, Voice!At, Voice!Sets, Voice!Mine
<1>2. CASE Voice!Generate(k)
  <2> DEFINE g == [c EXCEPT !.pc = "voice"]
  <2>1. g \in Voice!Generation /\ g.pc = "voice" /\ g.engine = c.engine
    BY DEF Voice!Generation, Voice!Locked
  <2>2. speech' = [speech EXCEPT ![k] = g]
    BY <1>2 DEF Voice!Generate, Voice!Goes
  <2> HIDE DEF g
  <2> QED BY <1>1, <2>1, <2>2, Releases
<1>3. CASE Voice!GenerateFails(k)
  <2> DEFINE g == [c EXCEPT !.pc = "plain", !.excused = TRUE]
  <2>1. g \in Voice!Generation /\ g.pc = "plain" /\ g.engine = c.engine /\ g.excused
    BY DEF Voice!Generation, Voice!Locked
  <2>2. speech' = [speech EXCEPT ![k] = g]
    BY <1>3 DEF Voice!GenerateFails, VoiceInv, Voice!TypeOK
  <2> HIDE DEF g
  <2> QED BY <1>1, <2>1, <2>2, Releases
<1> QED BY <1>2, <1>3

LEMMA VoiceMeanwhile == VoiceInv /\ (Voice!MoveReference \/ Voice!Restart) => VoiceInv'
<1> SUFFICES ASSUME VoiceInv, Voice!MoveReference \/ Voice!Restart PROVE VoiceInv'
  OBVIOUS
<1>1. CASE Voice!MoveReference
  <2>0. reference' \in BOOLEAN
    BY <1>1, Zenon DEF Voice!MoveReference
  <2>1. Voice!TypeOK'
    BY <1>1, <2>0 DEF Voice!MoveReference, VoiceInv, Voice!TypeOK, Voice!Generation
  <2>2. engines' = engines /\ engine' = engine /\ speech' = speech
    BY <1>1 DEF Voice!MoveReference
  <2>3. (\A i \in 1 .. Len(engines) : EngineSound(engines[i]) /\ LockSound(i))'
    BY <2>2 DEF VoiceInv, EngineSound, LockSound, Done
  <2>4. \A k \in Calls : CallSound(k)'
    BY <2>2 DEF VoiceInv, CallSound, Done
  <2>5. (engine = Null <=> Len(engines) = 0)' /\ (~engineRaced => Len(engines) <= 1)'
    BY <1>1, <2>2 DEF VoiceInv, Voice!MoveReference
  <2> QED BY <2>1, <2>3, <2>4, <2>5 DEF VoiceInv
<1>2. CASE Voice!Restart
  <2>1. engine' = Null /\ engines' = <<>> /\ Len(engines') = 0 /\ speech' = [k \in Calls |-> Voice!Idle]
    BY <1>2 DEF Voice!Restart
  <2>2. Voice!TypeOK'
    <3>1. engines' \in Seq(Voice!Engine) /\ engine' \in (1 .. Len(engines')) \cup {Null}
      BY <2>1
    <3>2. (reference \in BOOLEAN)' /\ (engineRaced \in BOOLEAN)'
      BY <1>2 DEF Voice!Restart, VoiceInv, Voice!TypeOK
    <3>3. Voice!Idle \in Voice!Generation'
      BY DEF Voice!Generation, Voice!Idle
    <3> QED BY <2>1, <3>1, <3>2, <3>3 DEF Voice!TypeOK
  <2>3. \A k \in Calls : CallSound(k)'
    BY <2>1 DEF CallSound, Voice!Idle, Voice!Locked
  <2> QED BY <2>1, <2>2, <2>3 DEF VoiceInv
<1> QED BY <1>1, <1>2

LEMMA VoiceStep == VoiceInv /\ Voice!Next => VoiceInv'
<1> SUFFICES ASSUME VoiceInv, Voice!Next PROVE VoiceInv'
  OBVIOUS
<1>1. ASSUME NEW k \in Calls,
             \/ Voice!Synthesize(k) \/ Voice!MakeEngine(k) \/ Voice!TakeEngine(k) \/ Voice!IsAvailable(k)
             \/ Voice!Acquire(k) \/ Voice!LoadModel(k) \/ Voice!LoadFails(k) \/ Voice!FindReference(k)
             \/ Voice!CreatePrompt(k) \/ Voice!PromptFails(k) \/ Voice!CheckEngine(k)
             \/ Voice!Generate(k) \/ Voice!GenerateFails(k)
      PROVE  VoiceInv'
  BY <1>1, Synthesizes, MakesEngine, TakesEngine, AsksAvailable, Acquires, Loads, FindsReference, Prompts,
     Checks, Generates
<1>2. CASE Voice!MoveReference \/ Voice!Restart
  BY <1>2, VoiceMeanwhile
<1>3. CASE ~(Voice!MoveReference \/ Voice!Restart)
  <2>1. PICK k \in Calls :
             \/ Voice!Synthesize(k) \/ Voice!MakeEngine(k) \/ Voice!TakeEngine(k) \/ Voice!IsAvailable(k)
             \/ Voice!Acquire(k) \/ Voice!LoadModel(k) \/ Voice!LoadFails(k) \/ Voice!FindReference(k)
             \/ Voice!CreatePrompt(k) \/ Voice!PromptFails(k) \/ Voice!CheckEngine(k)
             \/ Voice!Generate(k) \/ Voice!GenerateFails(k)
    BY <1>3, Zenon DEF Voice!Next
  <2> QED BY <1>1, <2>1
<1> QED BY <1>2, <1>3

LEMMA VoiceInitially == Voice!Init => VoiceInv
<1> SUFFICES ASSUME Voice!Init PROVE VoiceInv
  OBVIOUS
<1>1. engine = Null /\ engines = <<>> /\ Len(engines) = 0 /\ speech = [k \in Calls |-> Voice!Idle]
  BY DEF Voice!Init
<1>2. Voice!TypeOK
  <2>1. engines \in Seq(Voice!Engine) /\ engine \in (1 .. Len(engines)) \cup {Null}
    BY <1>1
  <2>2. reference \in BOOLEAN /\ engineRaced \in BOOLEAN
    BY DEF Voice!Init
  <2>3. Voice!Idle \in Voice!Generation
    BY DEF Voice!Generation, Voice!Idle
  <2> QED BY <1>1, <2>1, <2>2, <2>3 DEF Voice!TypeOK
<1>3. \A k \in Calls : CallSound(k)
  BY <1>1 DEF CallSound, Voice!Idle, Voice!Locked
<1> QED BY <1>1, <1>2, <1>3 DEF VoiceInv

LEMMA VoiceStutter == VoiceInv /\ UNCHANGED voiceVars => VoiceInv'
<1> SUFFICES ASSUME VoiceInv, UNCHANGED voiceVars PROVE VoiceInv'
  OBVIOUS
<1>1. Voice!TypeOK'
  BY DEF VoiceInv, voiceVars, Voice!TypeOK, Voice!Generation
<1> QED BY <1>1 DEF VoiceInv, voiceVars, EngineSound, LockSound, CallSound, Done

\* However many generations ask for it at once, each engine of the cloned voice
\* loads its model once, one thread at a time uses it, and the plain voice is
\* only for an engine that failed or a reference that was missing.
THEOREM VoiceLoadsOnce == PlatformSpec => []VoiceLoadedOnce
<1>1. PlatformInit => VoiceInv
  BY VoiceInitially DEF PlatformInit
<1>2. VoiceInv /\ [PlatformNext]_platformVars => VoiceInv'
  <2>1. UNCHANGED platformVars => UNCHANGED voiceVars
    BY DEF platformVars, voiceVars
  <2> QED BY <2>1, VoiceStep, VoiceStutter DEF PlatformNext
<1>3. VoiceInv => VoiceLoadedOnce
  <2> SUFFICES ASSUME VoiceInv PROVE VoiceLoadedOnce
    OBVIOUS
  <2>1. DOMAIN engines = 1 .. Len(engines)
    BY DEF VoiceInv, Voice!TypeOK
  <2>2. \A i \in DOMAIN engines :
           /\ engines[i].loads <= 1 /\ ~(engines[i].initialized /\ engines[i].failed)
           /\ engines[i].initialized => engines[i].model /\ engines[i].prompt
    BY <2>1 DEF VoiceInv, EngineSound
  <2>3. ASSUME NEW j \in Calls, NEW k \in Calls, speech[j].pc = "generate"
        PROVE  /\ engines[speech[j].engine].initialized /\ engines[speech[j].engine].lock = j
               /\ j # k /\ speech[k].pc = "generate" => speech[j].engine # speech[k].engine
    BY <2>3 DEF VoiceInv, CallSound, Voice!Locked
  <2>4. \A k \in Calls : speech[k].pc = "plain" /\ ~speech[k].excused => engines[speech[k].engine].failed
    BY DEF VoiceInv, CallSound
  <2> QED BY <2>2, <2>3, <2>4 DEF VoiceInv, VoiceLoadedOnce, Voice!VoiceLoadedOnce, Voice!At, Voice!Mine
<1> QED BY <1>1, <1>2, <1>3, PTL DEF PlatformSpec

HIDE SpeechAssumed DEF Voice!SpeechAssumption

-----------------------------------------------------------------------------
(* The desktop and the shell *)

USE OsAssumed DEF Os!OsAssumption

BrowserSteps == {"create", "fetch", "check", "start", "launch", "page", "act"}

BrowserRecord == [pc : BrowserSteps, launch : Os!Action, of : Os!Action \cup {Null}]

PointRecord == [pc : {"move", "press"}, place : Places, met : BOOLEAN]

ControllerRecord ==
    [playwright : Os!Action \cup {Null}, browser : Os!Action \cup {Null}, page : Os!Action \cup {Null},
     initialized : BOOLEAN]

Browses(t) == action[t].pc \in BrowserSteps

Starts(t) == action[t].pc \in {"start", "launch", "page"}

Points(t) == action[t].pc \in {"move", "press"}

OsTypes ==
    /\ DOMAIN action = Calls
    /\ \A t \in Calls : action[t] = Os!Idle \/ action[t] \in BrowserRecord \/ action[t] \in PointRecord
    /\ controller \in [Os!Action -> ControllerRecord]
    /\ DOMAIN maker \subseteq Os!Action /\ DOMAIN running \subseteq Os!Action /\ launched \subseteq DOMAIN running
    /\ \A c \in Os!Action : {controller[c].browser, controller[c].page} \subseteq launched \cup {Null}

\* An action has a number of its own, which is new when it begins.
ActionsCounted ==
    /\ part = "os" =>
          /\ calls \in Nat
          /\ \A n \in DOMAIN maker \cup DOMAIN running : n <= calls
          /\ \A t \in Calls : Browses(t) => action[t].launch <= calls
    /\ \A s, t \in Calls : Browses(s) /\ Browses(t) /\ action[s].launch = action[t].launch => s = t

\* A thread makes a controller only while there is none, and so only once.
ControllersMade ==
    /\ service \in DOMAIN maker \cup {Null} /\ (service = Null => DOMAIN maker = {})
    /\ \A c, d \in DOMAIN maker : maker[c] = maker[d] => c = d
    /\ \A t \in Calls :
          /\ action[t].pc = "create" =>
                action[t].launch \notin DOMAIN maker /\ \A c \in DOMAIN maker : maker[c] # t
          /\ action[t].pc = "fetch" => service # Null
          /\ action[t].pc \in {"check", "start", "launch", "page", "act"} => action[t].of \in DOMAIN maker

\* A thread runs one driver at most, and a launch works with some driver and
\* some browser that were started.
DriversStarted ==
    /\ \A l, k \in DOMAIN running : running[l] = running[k] => l = k
    /\ \A t \in Calls :
          /\ action[t].pc \in {"create", "fetch", "check", "start"} => action[t].launch \notin DOMAIN running
          /\ action[t].pc \in {"launch", "page"} =>
                action[t].launch \in DOMAIN running /\ running[action[t].launch] = t
          /\ action[t].pc = "launch" => controller[action[t].of].playwright \in DOMAIN running
          /\ action[t].pc = "page" => controller[action[t].of].browser \in DOMAIN running

\* Launches of one controller that overlap have met; one that met no other has
\* the controller for itself, which had no page before.
LaunchesMeet ==
    /\ \A s, t \in Calls : s # t /\ Starts(s) /\ Starts(t) /\ action[s].of = action[t].of => action[s].launch \in met
    /\ \A t \in Calls : Starts(t) =>
          /\ controller[action[t].of].page \in met \cup {Null}
          /\ action[t].pc # "start" /\ action[t].launch \notin met =>
                controller[action[t].of].playwright = action[t].launch

PagesOpened ==
    /\ \A c \in Os!Action : controller[c].page # Null =>
          /\ controller[c].initialized
          /\ controller[c].page \notin met =>
                controller[c].browser = controller[c].page /\ controller[c].playwright = controller[c].page
    /\ \A l \in launched :
          \/ l \in failed \cup met
          \/ \E t \in Calls : action[t].pc = "page" /\ action[t].launch = l
          \/ \E c \in DOMAIN maker : controller[c].page = l

PointerMoved ==
    /\ ~missed
    /\ \A s, t \in Calls : Points(s) /\ Points(t) /\ ~action[t].met => s = t
    /\ \A t \in Calls : action[t].pc = "press" /\ ~action[t].met => pointer = action[t].place

OsInv == /\ OsTypes /\ ActionsCounted /\ ControllersMade /\ DriversStarted
         /\ LaunchesMeet /\ PagesOpened /\ PointerMoved

LEMMA ActionNumbers == Os!Action \subseteq Nat /\ Null \notin Os!Action
BY DEF Os!Action

LEMMA RecordOf ==
  ASSUME OsTypes, NEW t \in Calls
  PROVE  /\ Browses(t) =>
              /\ action[t] \in BrowserRecord
              /\ action[t].launch \in Os!Action /\ action[t].of \in Os!Action \cup {Null}
              /\ \A p \in BrowserSteps :
                    LET a == [action[t] EXCEPT !.pc = p]
                    IN  a \in BrowserRecord /\ a.pc = p /\ a.launch = action[t].launch /\ a.of = action[t].of
         /\ Points(t) =>
              /\ action[t] \in PointRecord
              /\ [action[t] EXCEPT !.pc = "press"] \in PointRecord
         /\ ~(Browses(t) /\ Points(t))
         /\ Browses(t) \/ Points(t) => action[t].pc # "idle"
<1>1. action[t] = Os!Idle \/ action[t] \in BrowserRecord \/ action[t] \in PointRecord
  BY DEF OsTypes
<1>2. CASE action[t] = Os!Idle
  BY <1>2 DEF Os!Idle, Browses, BrowserSteps, Points
<1>3. CASE action[t] \in BrowserRecord
  <2>1. Browses(t) /\ ~Points(t) /\ action[t].pc # "idle"
    BY <1>3 DEF BrowserRecord, BrowserSteps, Browses, Points
  <2> QED BY <1>3, <2>1 DEF BrowserRecord
<1>4. CASE action[t] \in PointRecord
  <2>1. Points(t) /\ ~Browses(t) /\ action[t].pc # "idle"
    BY <1>4 DEF PointRecord, BrowserSteps, Browses, Points
  <2> QED BY <1>4, <2>1 DEF PointRecord
<1> QED BY <1>1, <1>2, <1>3, <1>4

\* A thread's action becomes another one.
LEMMA TurnOf ==
  ASSUME OsTypes, NEW t \in Calls, NEW a, a = Os!Idle \/ a \in BrowserRecord \/ a \in PointRecord,
         action' = [action EXCEPT ![t] = a]
  PROVE  /\ DOMAIN action' = Calls /\ action'[t] = a
         /\ \A s \in Calls \ {t} : action'[s] = action[s]
         /\ \A s \in Calls : action'[s] = Os!Idle \/ action'[s] \in BrowserRecord \/ action'[s] \in PointRecord
BY DEF OsTypes

\* A browser action goes on to its next step.
LEMMA StepOf ==
  ASSUME OsTypes, NEW t \in Calls, Browses(t), NEW p \in BrowserSteps, Os!Goes(t, p)
  PROVE  /\ DOMAIN action' = Calls
         /\ action'[t].pc = p /\ action'[t].launch = action[t].launch /\ action'[t].of = action[t].of
         /\ \A s \in Calls \ {t} : action'[s] = action[s]
         /\ \A s \in Calls : action'[s] = Os!Idle \/ action'[s] \in BrowserRecord \/ action'[s] \in PointRecord
<1> DEFINE a == [action[t] EXCEPT !.pc = p]
<1>1. a \in BrowserRecord /\ a.pc = p /\ a.launch = action[t].launch /\ a.of = action[t].of
  BY RecordOf
<1>2. action' = [action EXCEPT ![t] = a]
  BY DEF Os!Goes
<1> HIDE DEF a
<1> QED BY <1>1, <1>2, TurnOf

\* A step that leaves the pointer, and begins or ends no action at it.
LEMMA PointerKept ==
  ASSUME PointerMoved, UNCHANGED <<pointer, missed>>,
         \A s \in Calls : Points(s)' => Points(s) /\ action'[s] = action[s]
  PROVE  PointerMoved'
BY DEF PointerMoved, Points

\* A step that leaves the browsers, though browser actions may end in it.
LEMMA BrowsersKept ==
  ASSUME OsInv, UNCHANGED <<part, service, maker, controller, running, launched, met>>,
         failed \subseteq failed', calls' \in {calls, calls + 1},
         \A s \in Calls : Browses(s)' => action'[s] = action[s],
         \A s \in Calls : action[s].pc = "page" => action'[s] = action[s] \/ action[s].launch \in failed'
  PROVE  ActionsCounted' /\ ControllersMade' /\ DriversStarted' /\ LaunchesMeet' /\ PagesOpened'
<1>1. \A s \in Calls : Browses(s)' => Browses(s) /\ action'[s] = action[s]
  BY DEF Browses
<1>2. ActionsCounted'
  <2>1. part = "os" => calls' \in Nat /\ \A n \in Nat : n <= calls => n <= calls'
    BY DEF OsInv, ActionsCounted
  <2>2. \A n \in DOMAIN maker \cup DOMAIN running : n \in Nat
    BY ActionNumbers DEF OsInv, OsTypes
  <2>3. \A s \in Calls : Browses(s) => action[s].launch \in Nat
    BY RecordOf, ActionNumbers DEF OsInv
  <2>4. part' = "os" => /\ \A n \in DOMAIN maker' \cup DOMAIN running' : n <= calls'
                        /\ \A s \in Calls : Browses(s)' => action'[s].launch <= calls'
    BY <1>1, <2>1, <2>2, <2>3 DEF OsInv, ActionsCounted
  <2>5. \A s, u \in Calls : Browses(s)' /\ Browses(u)' /\ action'[s].launch = action'[u].launch => s = u
    BY <1>1 DEF OsInv, ActionsCounted
  <2> QED BY <2>1, <2>4, <2>5 DEF ActionsCounted
<1>3. ControllersMade'
  BY <1>1 DEF OsInv, ControllersMade, Browses, BrowserSteps
<1>4. DriversStarted'
  BY <1>1 DEF OsInv, DriversStarted, Browses, BrowserSteps
<1>5. LaunchesMeet'
  <2>1. \A s \in Calls : Starts(s)' => Starts(s) /\ action'[s] = action[s]
    BY <1>1 DEF Starts, Browses, BrowserSteps
  <2> QED BY <2>1 DEF OsInv, LaunchesMeet
<1>6. PagesOpened'
  BY DEF OsInv, PagesOpened
<1> QED BY <1>2, <1>3, <1>4, <1>5, <1>6

\* A step that leaves the controllers keeps their types with those of the actions.
LEMMA TypesOf ==
  ASSUME OsTypes, UNCHANGED <<controller, running, launched>>,
         DOMAIN action' = Calls, DOMAIN maker' \subseteq Os!Action,
         \A s \in Calls : action'[s] = Os!Idle \/ action'[s] \in BrowserRecord \/ action'[s] \in PointRecord
  PROVE  OsTypes'
BY DEF OsTypes

-----------------------------------------------------------------------------
(* The ends of browser actions, the desktop and the shell *)

LEMMA EndStep ==
  ASSUME OsInv, part = "os", UNCHANGED part, NEW t \in Calls, Os!Act(t) \/ Os!LaunchFails(t)
  PROVE  OsInv'
<1>1. /\ action' = [action EXCEPT ![t] = Os!Idle]
      /\ UNCHANGED <<service, maker, controller, running, launched, pointer, missed, met, calls>>
  BY DEF Os!Act, Os!LaunchFails, Os!Ends, Os!browsers, Os!desktop
<1>2. /\ DOMAIN action' = Calls /\ action'[t] = Os!Idle
      /\ \A s \in Calls \ {t} : action'[s] = action[s]
      /\ \A s \in Calls : action'[s] = Os!Idle \/ action'[s] \in BrowserRecord \/ action'[s] \in PointRecord
  BY <1>1, TurnOf DEF OsInv
<1>3. failed \subseteq failed' /\ (action[t].pc = "page" => action[t].launch \in failed')
  BY DEF Os!Act, Os!LaunchFails, Os!At
<1>4. ~Browses(t)' /\ ~Points(t)'
  BY <1>2 DEF Os!Idle, Browses, BrowserSteps, Points
<1>5. OsTypes'
  BY <1>1, <1>2, TypesOf DEF OsInv, OsTypes
<1>6. PointerMoved'
  <2>1. \A s \in Calls : Points(s)' => Points(s) /\ action'[s] = action[s]
    BY <1>2, <1>4 DEF Points
  <2> QED BY <1>1, <2>1, PointerKept DEF OsInv
<1>7. \A s \in Calls : Browses(s)' => action'[s] = action[s]
  BY <1>2, <1>4
<1>8. \A s \in Calls : action[s].pc = "page" => action'[s] = action[s] \/ action[s].launch \in failed'
  BY <1>2, <1>3
<1> QED BY <1>1, <1>3, <1>5, <1>6, <1>7, <1>8, BrowsersKept DEF OsInv

LEMMA GuiStep ==
  ASSUME OsInv, part = "os", UNCHANGED part, NEW t \in Calls, NEW place \in Places, Os!GuiAction(t, place)
  PROVE  OsInv'
<1>1. /\ action[t] = Os!Idle /\ calls' = calls + 1
      /\ action' = [u \in Calls |->
             IF u = t THEN [pc |-> "move", place |-> place, met |-> Os!GuiActive # {}]
             ELSE IF u \in Os!GuiActive THEN [action[u] EXCEPT !.met = TRUE] ELSE action[u]]
      /\ UNCHANGED <<service, maker, controller, running, launched, pointer, missed, failed, met>>
  BY DEF Os!GuiAction, Os!Begins, Os!browsers, Os!desktop
<1>2. \A u \in Calls : u \in Os!GuiActive <=> Points(u)
  BY DEF Os!GuiActive, Points
<1>3. ~Points(t) /\ ~Browses(t)
  BY <1>1 DEF Os!Idle, Points, Browses, BrowserSteps
<1>4. \A u \in Calls : Points(u) =>
         LET a == [action[u] EXCEPT !.met = TRUE]
         IN  a \in PointRecord /\ a.pc = action[u].pc /\ a.place = action[u].place /\ a.met
  BY RecordOf DEF OsInv, PointRecord
<1>5. action'[t] \in PointRecord /\ action'[t].pc = "move" /\ (action'[t].met <=> Os!GuiActive # {})
  BY <1>1 DEF PointRecord
<1>6. \A u \in Calls \ {t} : Points(u) =>
         /\ action'[u] \in PointRecord /\ action'[u].pc = action[u].pc /\ action'[u].place = action[u].place
         /\ action'[u].met
  BY <1>1, <1>2, <1>4
<1>7. \A u \in Calls \ {t} : ~Points(u) => action'[u] = action[u]
  BY <1>1, <1>2
<1>8. OsTypes'
  <2>1. \A u \in Calls : action'[u] = Os!Idle \/ action'[u] \in BrowserRecord \/ action'[u] \in PointRecord
    BY <1>5, <1>6, <1>7 DEF OsInv, OsTypes
  <2>2. DOMAIN action' = Calls /\ DOMAIN maker' \subseteq Os!Action
    BY <1>1 DEF OsInv, OsTypes
  <2> QED BY <1>1, <2>1, <2>2, TypesOf DEF OsInv
<1>9. \A u \in Calls : Points(u)' => u = t \/ (Points(u) /\ action'[u].met)
  BY <1>6, <1>7 DEF Points
<1>10. PointerMoved'
  <2>1. ASSUME NEW u \in Calls, NEW v \in Calls, Points(u)', Points(v)', ~action'[u].met PROVE u = v
    <3>1. u = t /\ Os!GuiActive = {}
      BY <1>5, <1>9, <2>1
    <3> QED BY <1>2, <1>9, <2>1, <3>1
  <2>2. \A u \in Calls : action'[u].pc = "press" => action'[u].met
    BY <1>5, <1>9 DEF Points
  <2> QED BY <1>1, <2>1, <2>2 DEF OsInv, PointerMoved
<1>11. \A u \in Calls : Browses(u)' => action'[u] = action[u]
  <2>1. ~Browses(t)'
    BY <1>5 DEF Browses, BrowserSteps
  <2>2. \A u \in Calls \ {t} : Points(u) => ~Browses(u)'
    BY <1>6 DEF Browses, BrowserSteps, Points
  <2> QED BY <1>7, <2>1, <2>2
<1>12. \A u \in Calls : action[u].pc = "page" => action'[u] = action[u]
  BY <1>3, <1>7 DEF Points, Browses, BrowserSteps
<1> QED BY <1>1, <1>8, <1>10, <1>11, <1>12, BrowsersKept DEF OsInv

LEMMA PointerStep ==
  ASSUME OsInv, part = "os", UNCHANGED part, NEW t \in Calls, Os!MovePointer(t) \/ Os!PressThere(t)
  PROVE  OsInv'
<1>1. /\ Points(t) /\ ~Browses(t)
      /\ UNCHANGED <<service, maker, controller, running, launched, failed, met, calls>>
  BY RecordOf DEF OsInv, Os!MovePointer, Os!PressThere, Os!At, Os!browsers, Os!desktop, Points
<1>2. PICK a : action' = [action EXCEPT ![t] = a] /\ (a = Os!Idle \/ a \in PointRecord)
             /\ (Os!MovePointer(t) => a = [action[t] EXCEPT !.pc = "press"])
             /\ (Os!PressThere(t) => a = Os!Idle)
  <2>1. CASE Os!MovePointer(t)
    BY <1>1, <2>1, RecordOf DEF OsInv, Os!MovePointer, Os!PressThere, Os!Goes, Os!At
  <2>2. CASE Os!PressThere(t)
    BY <2>2 DEF Os!MovePointer, Os!PressThere, Os!Ends, Os!At
  <2> QED BY <2>1, <2>2
<1>3. /\ DOMAIN action' = Calls /\ action'[t] = a
      /\ \A s \in Calls \ {t} : action'[s] = action[s]
      /\ \A s \in Calls : action'[s] = Os!Idle \/ action'[s] \in BrowserRecord \/ action'[s] \in PointRecord
  BY <1>2, TurnOf DEF OsInv
<1>4. OsTypes'
  BY <1>1, <1>3, TypesOf DEF OsInv, OsTypes
<1>5. PointerMoved'
  <2>1. CASE Os!MovePointer(t)
    <3>1. /\ pointer' = action[t].place /\ missed' = missed
          /\ a.pc = "press" /\ a.place = action[t].place /\ a.met = action[t].met
      BY <1>1, <1>2, <2>1, RecordOf DEF OsInv, Os!MovePointer, PointRecord
    <3>2. \A s \in Calls : Points(s)' => Points(s) /\ action'[s].met = action[s].met
      BY <1>1, <1>3, <3>1 DEF Points
    <3>3. ASSUME NEW s \in Calls, action'[s].pc = "press", ~action'[s].met
          PROVE  pointer' = action'[s].place
      <4>1. Points(s)' /\ Points(t)
        BY <1>1, <3>3 DEF Points
      <4>2. s = t
        BY <3>2, <3>3, <4>1 DEF OsInv, PointerMoved
      <4> QED BY <1>3, <3>1, <4>2
    <3> QED BY <3>1, <3>2, <3>3 DEF OsInv, PointerMoved
  <2>2. CASE Os!PressThere(t)
    <3>1. pointer' = pointer /\ action[t].pc = "press" /\ a = Os!Idle
      BY <1>2, <2>2 DEF Os!PressThere, Os!At
    <3>2. ~missed'
      <4>1. ~missed /\ (~action[t].met => pointer = action[t].place)
        BY <3>1 DEF OsInv, PointerMoved
      <4>2. missed' = (missed \/ (~action[t].met /\ pointer # action[t].place))
        BY <2>2 DEF Os!PressThere
      <4>3. ~(missed \/ (~action[t].met /\ pointer # action[t].place))
        BY <4>1
      <4> QED BY <4>2, <4>3
    <3>3. \A s \in Calls : Points(s)' => Points(s) /\ action'[s] = action[s]
      BY <1>3, <3>1 DEF Points, Os!Idle
    <3>4. \A s \in Calls : action'[s].pc = "press" => action[s].pc = "press" /\ action'[s] = action[s]
      BY <3>3 DEF Points
    <3> QED BY <3>1, <3>2, <3>3, <3>4 DEF OsInv, PointerMoved
  <2> QED BY <2>1, <2>2
<1>6. \A s \in Calls : Browses(s)' => action'[s] = action[s]
  <2>1. ~Browses(t)'
    BY <1>2, <1>3 DEF Browses, BrowserSteps, Os!Idle, PointRecord
  <2> QED BY <1>3, <2>1
<1>7. \A s \in Calls : action[s].pc = "page" => action'[s] = action[s]
  BY <1>1, <1>3 DEF Browses, BrowserSteps
<1> QED BY <1>1, <1>4, <1>5, <1>6, <1>7, BrowsersKept DEF OsInv

LEMMA ShellStep ==
  ASSUME OsInv, part = "os", UNCHANGED part, NEW t \in Calls, Os!Shell(t)
  PROVE  OsInv'
<1>1. /\ calls' = calls + 1
      /\ UNCHANGED <<service, maker, controller, running, launched, pointer, missed, action, failed, met>>
  BY DEF Os!Shell, Os!Begins, Os!browsers, Os!desktop
<1>2. OsTypes'
  BY <1>1, TypesOf DEF OsInv, OsTypes
<1>3. PointerMoved'
  BY <1>1, PointerKept DEF OsInv, Points
<1> QED BY <1>1, <1>2, <1>3, BrowsersKept DEF OsInv, Browses

-----------------------------------------------------------------------------
(* The browsers *)

LEMMA BeginStep ==
  ASSUME OsInv, part = "os", UNCHANGED part, NEW t \in Calls, Os!BrowserAction(t)
  PROVE  OsInv'
<1>1. PICK a : /\ action' = [action EXCEPT ![t] = a]
               /\ a = [pc |-> IF service = Null THEN "create" ELSE "fetch", launch |-> calls + 1, of |-> Null]
  BY DEF Os!BrowserAction
<1>2. /\ action[t] = Os!Idle /\ calls < MaxActions /\ calls' = calls + 1
      /\ UNCHANGED <<service, maker, controller, running, launched, pointer, missed, failed, met>>
  BY DEF Os!BrowserAction, Os!Begins, Os!browsers, Os!desktop
<1>3. calls \in Nat /\ calls + 1 \in Os!Action
  BY <1>2 DEF OsInv, ActionsCounted, Os!Action
<1>4. a \in BrowserRecord /\ a.launch = calls + 1 /\ a.pc = IF service = Null THEN "create" ELSE "fetch"
  BY <1>1, <1>3 DEF BrowserRecord, BrowserSteps
<1>5. /\ DOMAIN action' = Calls /\ action'[t] = a
      /\ \A s \in Calls \ {t} : action'[s] = action[s]
      /\ \A s \in Calls : action'[s] = Os!Idle \/ action'[s] \in BrowserRecord \/ action'[s] \in PointRecord
  BY <1>1, <1>4, TurnOf DEF OsInv
<1>6. OsTypes'
  BY <1>2, <1>5, TypesOf DEF OsInv, OsTypes
<1>7. /\ \A n \in DOMAIN maker \cup DOMAIN running : n \in Nat /\ n <= calls
      /\ \A s \in Calls : Browses(s) => action[s].launch \in Nat /\ action[s].launch <= calls
  BY RecordOf, ActionNumbers DEF OsInv, ActionsCounted, OsTypes
<1>8. /\ \A s \in Calls : Browses(s)' => s = t \/ (Browses(s) /\ action'[s] = action[s])
      /\ ~Starts(t)' /\ ~Points(t)'
  BY <1>4, <1>5 DEF Browses, Starts, Points
<1>9. ActionsCounted'
  <2>1. \A n \in Nat : n <= calls => n <= calls' /\ n # calls + 1
    BY <1>2, <1>3
  <2>2. \A s \in Calls : Browses(s)' => action'[s].launch <= calls'
    BY <1>2, <1>3, <1>4, <1>5, <1>7, <1>8, <2>1
  <2>3. \A s, u \in Calls : Browses(s)' /\ Browses(u)' /\ action'[s].launch = action'[u].launch => s = u
    BY <1>4, <1>5, <1>7, <1>8, <2>1 DEF OsInv, ActionsCounted
  <2> QED BY <1>2, <1>3, <1>7, <2>1, <2>2, <2>3 DEF ActionsCounted
<1>10. a.launch \notin DOMAIN maker /\ a.launch \notin DOMAIN running
  BY <1>3, <1>4, <1>7
<1>11. ControllersMade'
  BY <1>2, <1>4, <1>5, <1>10 DEF OsInv, ControllersMade
<1>12. DriversStarted'
  BY <1>2, <1>4, <1>5, <1>10 DEF OsInv, DriversStarted
<1>13. LaunchesMeet'
  <2>1. \A s \in Calls : Starts(s)' => Starts(s) /\ action'[s] = action[s]
    BY <1>5, <1>8 DEF Starts
  <2> QED BY <1>2, <2>1 DEF OsInv, LaunchesMeet
<1>14. PagesOpened'
  <2>1. \A s \in Calls : action[s].pc = "page" => action'[s] = action[s]
    BY <1>2, <1>5 DEF Os!Idle
  <2> QED BY <1>2, <2>1 DEF OsInv, PagesOpened
<1>15. PointerMoved'
  <2>1. \A s \in Calls : Points(s)' => Points(s) /\ action'[s] = action[s]
    BY <1>5, <1>8 DEF Points
  <2> QED BY <1>2, <2>1, PointerKept DEF OsInv
<1> QED BY <1>6, <1>9, <1>11, <1>12, <1>13, <1>14, <1>15 DEF OsInv

LEMMA CreateStep ==
  ASSUME OsInv, part = "os", UNCHANGED part, NEW t \in Calls, Os!CreateController(t)
  PROVE  OsInv'
<1> DEFINE l == action[t].launch
<1>1. /\ action[t].pc = "create" /\ service' = l
      /\ maker' = [c \in DOMAIN maker \cup {l} |-> IF c = l THEN t ELSE maker[c]]
      /\ UNCHANGED <<controller, running, launched, pointer, missed, failed, met, calls>>
  BY DEF Os!CreateController, Os!At, Os!browsers, Os!desktop
<1>2. Browses(t) /\ l \in Os!Action /\ Os!Goes(t, "fetch") /\ "fetch" \in BrowserSteps
  BY <1>1, RecordOf, ActionNumbers DEF OsInv, Browses, BrowserSteps, Os!CreateController
<1>3. /\ DOMAIN action' = Calls
      /\ action'[t].pc = "fetch" /\ action'[t].launch = l /\ action'[t].of = action[t].of
      /\ \A s \in Calls \ {t} : action'[s] = action[s]
      /\ \A s \in Calls : action'[s] = Os!Idle \/ action'[s] \in BrowserRecord \/ action'[s] \in PointRecord
  BY <1>2, StepOf DEF OsInv
<1>4. l \notin DOMAIN maker /\ \A c \in DOMAIN maker : maker[c] # t
  BY <1>1 DEF OsInv, ControllersMade
<1> HIDE DEF l
<1>5. DOMAIN maker' = DOMAIN maker \cup {l} /\ maker'[l] = t /\ \A c \in DOMAIN maker : maker'[c] = maker[c]
  BY <1>1, <1>4
<1>6. OsTypes'
  BY <1>1, <1>2, <1>3, <1>5, TypesOf DEF OsInv, OsTypes
<1>7. \A s \in Calls : Browses(s)' <=> Browses(s)
  BY <1>2, <1>3 DEF Browses
<1>8. \A s \in Calls : Browses(s) => action'[s].launch = action[s].launch /\ action'[s].of = action[s].of
  BY <1>3 DEF l
<1>9. ActionsCounted'
  BY <1>1, <1>2, <1>5, <1>7, <1>8 DEF OsInv, ActionsCounted, l
<1>10. ControllersMade'
  <2>1. service' \in DOMAIN maker' /\ service' # Null
    BY <1>1, <1>2, <1>5, ActionNumbers
  <2>2. \A c, d \in DOMAIN maker' : maker'[c] = maker'[d] => c = d
    BY <1>4, <1>5 DEF OsInv, ControllersMade
  <2>3. ASSUME NEW s \in Calls, action'[s].pc = "create"
        PROVE  action'[s].launch \notin DOMAIN maker' /\ \A c \in DOMAIN maker' : maker'[c] # s
    <3>1. s # t /\ action'[s] = action[s] /\ Browses(s)
      BY <1>3, <2>3 DEF Browses, BrowserSteps
    <3>2. action[s].launch # l
      BY <1>2, <3>1 DEF OsInv, ActionsCounted, l
    <3> QED BY <1>5, <2>3, <3>1, <3>2 DEF OsInv, ControllersMade
  <2>4. \A s \in Calls : action'[s].pc \in {"check", "start", "launch", "page", "act"} => action'[s].of \in DOMAIN maker'
    BY <1>3, <1>5 DEF OsInv, ControllersMade
  <2> QED BY <2>1, <2>2, <2>3, <2>4 DEF ControllersMade
<1>11. \A s \in Calls : Starts(s)' => Starts(s) /\ action'[s] = action[s]
  BY <1>3 DEF Starts
<1>12. DriversStarted'
  BY <1>1, <1>3 DEF OsInv, DriversStarted, l
<1>13. LaunchesMeet'
  BY <1>1, <1>11 DEF OsInv, LaunchesMeet
<1>14. \A s \in Calls : action[s].pc = "page" => action'[s] = action[s]
  BY <1>1, <1>3
<1>15. PagesOpened'
  BY <1>1, <1>5, <1>14 DEF OsInv, PagesOpened
<1>16. \A s \in Calls : Points(s)' => Points(s) /\ action'[s] = action[s]
  BY <1>3 DEF Points
<1>17. PointerMoved'
  BY <1>1, <1>16, PointerKept DEF OsInv
<1> QED BY <1>6, <1>9, <1>10, <1>12, <1>13, <1>15, <1>17 DEF OsInv

LEMMA FetchStep ==
  ASSUME OsInv, part = "os", UNCHANGED part, NEW t \in Calls, Os!FetchController(t)
  PROVE  OsInv'
<1>1. PICK a : /\ action' = [action EXCEPT ![t] = a]
               /\ a = [action[t] EXCEPT !.pc = "check", !.of = service]
  BY DEF Os!FetchController
<1>2. /\ action[t].pc = "fetch"
      /\ UNCHANGED <<service, maker, controller, running, launched, pointer, missed, failed, met, calls>>
  BY DEF Os!FetchController, Os!At, Os!browsers, Os!desktop
<1>3. service \in DOMAIN maker /\ service \in Os!Action
  BY <1>2 DEF OsInv, ControllersMade, OsTypes
<1>4. Browses(t) /\ action[t] \in BrowserRecord
  BY <1>2, RecordOf DEF OsInv, Browses, BrowserSteps
<1>5. a \in BrowserRecord /\ a.pc = "check" /\ a.launch = action[t].launch /\ a.of = service
  BY <1>1, <1>3, <1>4 DEF BrowserRecord, BrowserSteps
<1>6. /\ DOMAIN action' = Calls /\ action'[t] = a
      /\ \A s \in Calls \ {t} : action'[s] = action[s]
      /\ \A s \in Calls : action'[s] = Os!Idle \/ action'[s] \in BrowserRecord \/ action'[s] \in PointRecord
  BY <1>1, <1>5, TurnOf DEF OsInv
<1>7. OsTypes'
  BY <1>2, <1>6, TypesOf DEF OsInv, OsTypes
<1>8. \A s \in Calls : Browses(s)' => Browses(s) /\ action'[s].launch = action[s].launch
  BY <1>4, <1>5, <1>6 DEF Browses
<1>9. ActionsCounted'
  BY <1>2, <1>8 DEF OsInv, ActionsCounted
<1>10. ControllersMade'
  BY <1>2, <1>3, <1>5, <1>6 DEF OsInv, ControllersMade
<1>11. DriversStarted'
  BY <1>2, <1>5, <1>6 DEF OsInv, DriversStarted
<1>12. LaunchesMeet'
  <2>1. \A s \in Calls : Starts(s)' => Starts(s) /\ action'[s] = action[s]
    BY <1>5, <1>6 DEF Starts
  <2> QED BY <1>2, <2>1 DEF OsInv, LaunchesMeet
<1>13. PagesOpened'
  <2>1. \A s \in Calls : action[s].pc = "page" => action'[s] = action[s]
    BY <1>2, <1>6
  <2> QED BY <1>2, <2>1 DEF OsInv, PagesOpened
<1>14. PointerMoved'
  <2>1. \A s \in Calls : Points(s)' => Points(s) /\ action'[s] = action[s]
    BY <1>5, <1>6 DEF Points
  <2> QED BY <1>2, <2>1, PointerKept DEF OsInv
<1> QED BY <1>7, <1>9, <1>10, <1>11, <1>12, <1>13, <1>14 DEF OsInv

LEMMA EnsureStep ==
  ASSUME OsInv, part = "os", UNCHANGED part, NEW t \in Calls, Os!EnsureBrowser(t)
  PROVE  OsInv'
<1> DEFINE c == action[t].of
           others == Os!Launching(c)
           p == IF Os!NeedsBrowser(c) THEN "start" ELSE "act"
<1>1. /\ Os!Goes(t, p) /\ p \in {"start", "act"} /\ (p = "start" => Os!NeedsBrowser(c))
      /\ met' = IF p = "act" \/ others = {} THEN met ELSE met \cup {action[o].launch : o \in others \cup {t}}
  <2>1. CASE Os!NeedsBrowser(c)
    BY <2>1 DEF Os!EnsureBrowser
  <2>2. CASE ~Os!NeedsBrowser(c)
    BY <2>2 DEF Os!EnsureBrowser
  <2> QED BY <2>1, <2>2
<1>2. /\ action[t].pc = "check"
      /\ UNCHANGED <<service, maker, controller, running, launched, pointer, missed, failed, calls>>
  BY DEF Os!EnsureBrowser, Os!At, Os!browsers, Os!desktop
<1>3. Browses(t) /\ p \in BrowserSteps
  BY <1>2 DEF Browses, BrowserSteps
<1>4. /\ DOMAIN action' = Calls
      /\ action'[t].pc = p /\ action'[t].launch = action[t].launch /\ action'[t].of = c
      /\ \A s \in Calls \ {t} : action'[s] = action[s]
      /\ \A s \in Calls : action'[s] = Os!Idle \/ action'[s] \in BrowserRecord \/ action'[s] \in PointRecord
  BY <1>1, <1>3, StepOf DEF OsInv
<1>5. c \in DOMAIN maker /\ c \in Os!Action
  BY <1>2 DEF OsInv, ControllersMade, OsTypes
<1>6. \A s \in Calls : s \in others <=> Starts(s) /\ action[s].of = c
  BY DEF Os!Launching, Starts
<1> HIDE DEF c, others, p
<1>7. met \subseteq met' /\ ~Starts(t)
  BY <1>1, <1>2 DEF Starts
<1>8. OsTypes'
  BY <1>2, <1>4, TypesOf DEF OsInv, OsTypes
<1>9. \A s \in Calls : Browses(s)' => Browses(s) /\ action'[s].launch = action[s].launch
  BY <1>3, <1>4 DEF Browses
<1>10. ActionsCounted'
  BY <1>2, <1>9 DEF OsInv, ActionsCounted
<1>11. ControllersMade'
  BY <1>1, <1>2, <1>4, <1>5 DEF OsInv, ControllersMade
<1>12. DriversStarted'
  BY <1>1, <1>2, <1>4 DEF OsInv, DriversStarted
<1>13. \A s \in Calls \ {t} : Starts(s)' => Starts(s) /\ action'[s] = action[s]
  BY <1>4 DEF Starts
<1>14. Starts(t)' => p = "start" /\ Os!NeedsBrowser(c)
  BY <1>1, <1>4 DEF Starts
<1>15. ASSUME NEW s \in Calls \ {t}, Starts(t)', Starts(s), action[s].of = c
       PROVE  action[s].launch \in met' /\ action[t].launch \in met'
  BY <1>1, <1>6, <1>14, <1>15
<1>16. LaunchesMeet'
  <2>1. ASSUME NEW s \in Calls, NEW u \in Calls, s # u, Starts(s)', Starts(u)', action'[s].of = action'[u].of
        PROVE  action'[s].launch \in met'
    <3>1. CASE s = t
      BY <1>4, <1>13, <1>15, <2>1, <3>1
    <3>2. CASE u = t
      BY <1>4, <1>13, <1>15, <2>1, <3>2
    <3>3. CASE s # t /\ u # t
      BY <1>7, <1>13, <2>1, <3>3 DEF OsInv, LaunchesMeet
    <3> QED BY <3>1, <3>2, <3>3
  <2>2. ASSUME NEW s \in Calls, Starts(s)'
        PROVE  /\ controller'[action'[s].of].page \in met' \cup {Null}
               /\ action'[s].pc # "start" /\ action'[s].launch \notin met' =>
                     controller'[action'[s].of].playwright = action'[s].launch
    <3>1. CASE s = t
      <4>1. action'[t].pc = "start" /\ action'[t].of = c /\ Os!NeedsBrowser(c)
        BY <1>4, <1>14, <2>2, <3>1
      <4>2. controller[c].page = Null
        BY <1>5, <4>1 DEF OsInv, PagesOpened, Os!NeedsBrowser
      <4> QED BY <1>2, <3>1, <4>1, <4>2
    <3>2. CASE s # t
      BY <1>2, <1>7, <1>13, <2>2, <3>2 DEF OsInv, LaunchesMeet
    <3> QED BY <3>1, <3>2
  <2> QED BY <2>1, <2>2 DEF LaunchesMeet
<1>17. PagesOpened'
  <2>1. \A s \in Calls : action[s].pc = "page" => action'[s] = action[s]
    BY <1>2, <1>4
  <2> QED BY <1>2, <1>7, <2>1 DEF OsInv, PagesOpened
<1>18. PointerMoved'
  <2>1. \A s \in Calls : Points(s)' => Points(s) /\ action'[s] = action[s]
    BY <1>1, <1>4 DEF Points
  <2> QED BY <1>2, <2>1, PointerKept DEF OsInv
<1> QED BY <1>8, <1>10, <1>11, <1>12, <1>16, <1>17, <1>18 DEF OsInv

\* A controller's launch that met no other is the only one of its controller.
LEMMA LaunchAlone ==
  ASSUME OsInv, NEW s \in Calls, NEW t \in Calls, s # t, Starts(s), Starts(t), action[s].of = action[t].of
  PROVE  action[s].launch \in met /\ action[t].launch \in met
BY DEF OsInv, LaunchesMeet

\* A launch goes on, and changes its own controller only.
LEMMA LaunchOf ==
  ASSUME OsInv, part = "os", UNCHANGED part, NEW t \in Calls, NEW p \in {"launch", "page", "act"},
         action[t].pc \in {"start", "launch", "page"}, Os!Goes(t, p),
         UNCHANGED <<service, maker, pointer, missed, failed, met, calls>>
  PROVE  /\ action[t].of \in DOMAIN maker /\ action[t].of \in Os!Action /\ action[t].launch \in Os!Action
         /\ Browses(t) /\ Starts(t)
         /\ DOMAIN action' = Calls
         /\ action'[t].pc = p /\ action'[t].launch = action[t].launch /\ action'[t].of = action[t].of
         /\ \A s \in Calls \ {t} : action'[s] = action[s]
         /\ \A s \in Calls : action'[s] = Os!Idle \/ action'[s] \in BrowserRecord \/ action'[s] \in PointRecord
         /\ \A s \in Calls : Starts(s)' => Starts(s)
         /\ \A s \in Calls : Browses(s)' => Browses(s) /\ action'[s].launch = action[s].launch
         /\ ControllersMade' /\ PointerMoved'
<1>1. Browses(t) /\ Starts(t) /\ p \in BrowserSteps
  BY DEF Browses, Starts, BrowserSteps
<1>2. /\ DOMAIN action' = Calls
      /\ action'[t].pc = p /\ action'[t].launch = action[t].launch /\ action'[t].of = action[t].of
      /\ \A s \in Calls \ {t} : action'[s] = action[s]
      /\ \A s \in Calls : action'[s] = Os!Idle \/ action'[s] \in BrowserRecord \/ action'[s] \in PointRecord
  BY <1>1, StepOf DEF OsInv
<1>3. action[t].of \in DOMAIN maker /\ action[t].of \in Os!Action
  BY DEF OsInv, ControllersMade, OsTypes
<1>4. action[t].launch \in Os!Action
  BY <1>1, RecordOf DEF OsInv
<1>5. \A s \in Calls : Starts(s)' => Starts(s)
  BY <1>1, <1>2 DEF Starts
<1>6. \A s \in Calls : Browses(s)' => Browses(s) /\ action'[s].launch = action[s].launch
  BY <1>1, <1>2 DEF Browses
<1>7. ControllersMade'
  BY <1>2, <1>3 DEF OsInv, ControllersMade
<1>8. PointerMoved'
  <2>1. \A s \in Calls : Points(s)' => Points(s) /\ action'[s] = action[s]
    BY <1>2 DEF Points
  <2> QED BY <2>1, PointerKept DEF OsInv
<1> QED BY <1>1, <1>2, <1>3, <1>4, <1>5, <1>6, <1>7, <1>8

LEMMA StartStep ==
  ASSUME OsInv, part = "os", UNCHANGED part, NEW t \in Calls, Os!StartPlaywright(t)
  PROVE  OsInv'
<1> DEFINE l == action[t].launch
           c == action[t].of
<1>1. /\ action[t].pc = "start" /\ Os!Goes(t, "launch")
      /\ controller' = [controller EXCEPT ![c].playwright = l]
      /\ running' = [x \in DOMAIN running \cup {l} |-> IF x = l THEN t ELSE running[x]]
      /\ \A k \in DOMAIN running : running[k] # t
      /\ UNCHANGED <<service, maker, launched, pointer, missed, failed, met, calls>>
  BY DEF Os!StartPlaywright, Os!At, Os!Runs, Os!desktop
<1>2. /\ c \in DOMAIN maker /\ c \in Os!Action /\ l \in Os!Action
      /\ Browses(t) /\ Starts(t)
      /\ DOMAIN action' = Calls
      /\ action'[t].pc = "launch" /\ action'[t].launch = l /\ action'[t].of = c
      /\ \A s \in Calls \ {t} : action'[s] = action[s]
      /\ \A s \in Calls : action'[s] = Os!Idle \/ action'[s] \in BrowserRecord \/ action'[s] \in PointRecord
      /\ \A s \in Calls : Starts(s)' => Starts(s)
      /\ \A s \in Calls : Browses(s)' => Browses(s) /\ action'[s].launch = action[s].launch
      /\ ControllersMade' /\ PointerMoved'
  BY <1>1, LaunchOf
<1>3. l \notin DOMAIN running
  BY <1>1 DEF OsInv, DriversStarted
<1>4. \A s \in Calls \ {t} : Starts(s) /\ action[s].of = c => action[s].launch \in met /\ l \in met
  BY <1>2, LaunchAlone
<1>5. controller[c].page \in met \cup {Null} /\ (controller[c].page # Null => controller[c].initialized)
  BY <1>2 DEF OsInv, LaunchesMeet, PagesOpened
<1>6. \A s, u \in Calls : Browses(s) /\ Browses(u) /\ action[s].launch = action[u].launch => s = u
  BY DEF OsInv, ActionsCounted
<1>7. part = "os" => calls \in Nat /\ l <= calls
  BY <1>2 DEF OsInv, ActionsCounted
<1> HIDE DEF l, c
<1>8. /\ DOMAIN controller' = Os!Action /\ \A d \in Os!Action \ {c} : controller'[d] = controller[d]
      /\ controller'[c] \in ControllerRecord /\ controller'[c].playwright = l
      /\ controller'[c].browser = controller[c].browser /\ controller'[c].page = controller[c].page
      /\ controller'[c].initialized = controller[c].initialized
      /\ controller' \in [Os!Action -> ControllerRecord]
  BY <1>1, <1>2 DEF OsInv, OsTypes, ControllerRecord
<1>9. /\ DOMAIN running' = DOMAIN running \cup {l} /\ running'[l] = t
      /\ \A x \in DOMAIN running : running'[x] = running[x]
  BY <1>1, <1>3
<1>10. OsTypes'
  BY <1>1, <1>2, <1>8, <1>9 DEF OsInv, OsTypes
<1>11. ActionsCounted'
  BY <1>1, <1>2, <1>6, <1>7, <1>9 DEF OsInv, ActionsCounted
<1>12. DriversStarted'
  <2>1. \A k, m \in DOMAIN running' : running'[k] = running'[m] => k = m
    BY <1>1, <1>9 DEF OsInv, DriversStarted
  <2>2. ASSUME NEW s \in Calls, action'[s].pc \in {"create", "fetch", "check", "start"}
        PROVE  action'[s].launch \notin DOMAIN running'
    <3>1. s # t /\ action'[s] = action[s] /\ Browses(s)
      BY <1>2, <2>2 DEF Browses, BrowserSteps
    <3>2. action[s].launch # l
      BY <1>2, <1>6, <3>1 DEF l
    <3> QED BY <1>9, <2>2, <3>1, <3>2 DEF OsInv, DriversStarted
  <2>3. ASSUME NEW s \in Calls, action'[s].pc \in {"launch", "page"}
        PROVE  action'[s].launch \in DOMAIN running' /\ running'[action'[s].launch] = s
    BY <1>2, <1>9, <2>3 DEF OsInv, DriversStarted
  <2>4. ASSUME NEW s \in Calls, action'[s].pc = "launch"
        PROVE  controller'[action'[s].of].playwright \in DOMAIN running'
    <3>1. CASE s = t
      BY <1>2, <1>8, <1>9, <3>1
    <3>2. CASE s # t
      <4>1. action[s].pc = "launch" /\ action'[s] = action[s] /\ action[s].of \in Os!Action
        BY <1>2, <2>4, <3>2 DEF OsInv, ControllersMade, OsTypes
      <4> QED BY <1>8, <1>9, <4>1 DEF OsInv, DriversStarted
    <3> QED BY <3>1, <3>2
  <2>5. ASSUME NEW s \in Calls, action'[s].pc = "page"
        PROVE  controller'[action'[s].of].browser \in DOMAIN running'
    <3>1. s # t /\ action[s].pc = "page" /\ action'[s] = action[s]
      BY <1>2, <2>5
    <3>2. action[s].of \in Os!Action
      BY <3>1 DEF OsInv, ControllersMade, OsTypes
    <3> QED BY <1>8, <1>9, <3>1, <3>2 DEF OsInv, DriversStarted
  <2> QED BY <2>1, <2>2, <2>3, <2>4, <2>5 DEF DriversStarted
<1>13. LaunchesMeet'
  <2>1. \A s, u \in Calls : s # u /\ Starts(s)' /\ Starts(u)' /\ action'[s].of = action'[u].of => action'[s].launch \in met'
    BY <1>1, <1>2, <1>4 DEF OsInv, LaunchesMeet, l, c
  <2>2. ASSUME NEW s \in Calls, Starts(s)'
        PROVE  /\ controller'[action'[s].of].page \in met' \cup {Null}
               /\ action'[s].pc # "start" /\ action'[s].launch \notin met' =>
                     controller'[action'[s].of].playwright = action'[s].launch
    <3>1. CASE s = t
      BY <1>1, <1>2, <1>5, <1>8, <3>1
    <3>2. CASE s # t
      <4>1. Starts(s) /\ action'[s] = action[s] /\ action[s].of \in Os!Action
        BY <1>2, <2>2, <3>2 DEF OsInv, ControllersMade, OsTypes, Starts
      <4> QED BY <1>1, <1>4, <1>8, <3>2, <4>1 DEF OsInv, LaunchesMeet
    <3> QED BY <3>1, <3>2
  <2> QED BY <2>1, <2>2 DEF LaunchesMeet
<1>14. PagesOpened'
  <2>1. \A s \in Calls : action[s].pc = "page" => action'[s] = action[s]
    BY <1>1, <1>2
  <2>2. \A d \in DOMAIN maker : d \in Os!Action
    BY DEF OsInv, OsTypes
  <2>3. \A d \in Os!Action : controller'[d].page # Null =>
          /\ controller'[d].initialized
          /\ controller'[d].page \notin met' =>
                controller'[d].browser = controller'[d].page /\ controller'[d].playwright = controller'[d].page
    BY <1>1, <1>5, <1>8 DEF OsInv, PagesOpened
  <2>4. \A d \in Os!Action : controller'[d].page = controller[d].page
    BY <1>8
  <2> QED BY <1>1, <2>1, <2>2, <2>3, <2>4 DEF OsInv, PagesOpened
<1> QED BY <1>2, <1>10, <1>11, <1>12, <1>13, <1>14 DEF OsInv

LEMMA ChromiumStep ==
  ASSUME OsInv, part = "os", UNCHANGED part, NEW t \in Calls, Os!LaunchChromium(t)
  PROVE  OsInv'
<1> DEFINE l == action[t].launch
           c == action[t].of
<1>1. /\ action[t].pc = "launch" /\ Os!Goes(t, "page")
      /\ controller' = [controller EXCEPT ![c].browser = l]
      /\ launched' = launched \cup {l}
      /\ UNCHANGED <<service, maker, running, pointer, missed, failed, met, calls>>
  BY DEF Os!LaunchChromium, Os!At, Os!desktop
<1>2. /\ c \in DOMAIN maker /\ c \in Os!Action /\ l \in Os!Action
      /\ Browses(t) /\ Starts(t)
      /\ DOMAIN action' = Calls
      /\ action'[t].pc = "page" /\ action'[t].launch = l /\ action'[t].of = c
      /\ \A s \in Calls \ {t} : action'[s] = action[s]
      /\ \A s \in Calls : action'[s] = Os!Idle \/ action'[s] \in BrowserRecord \/ action'[s] \in PointRecord
      /\ \A s \in Calls : Starts(s)' => Starts(s)
      /\ \A s \in Calls : Browses(s)' => Browses(s) /\ action'[s].launch = action[s].launch
      /\ ControllersMade' /\ PointerMoved'
  BY <1>1, LaunchOf
<1>3. l \in DOMAIN running
  BY <1>1 DEF OsInv, DriversStarted
<1>4. controller[c].page \in met \cup {Null}
  BY <1>2 DEF OsInv, LaunchesMeet
<1> HIDE DEF l, c
<1>5. /\ DOMAIN controller' = Os!Action /\ \A d \in Os!Action \ {c} : controller'[d] = controller[d]
      /\ controller'[c] \in ControllerRecord /\ controller'[c].browser = l
      /\ controller'[c].playwright = controller[c].playwright /\ controller'[c].page = controller[c].page
      /\ controller'[c].initialized = controller[c].initialized
      /\ controller' \in [Os!Action -> ControllerRecord]
  BY <1>1, <1>2 DEF OsInv, OsTypes, ControllerRecord
<1>6. /\ \A d \in Os!Action : /\ controller'[d].page = controller[d].page
                              /\ controller'[d].playwright = controller[d].playwright
                              /\ controller'[d].initialized = controller[d].initialized
                              /\ controller'[d].browser \in {controller[d].browser, l}
  BY <1>5
<1>7. OsTypes'
  BY <1>1, <1>2, <1>3, <1>5, <1>6 DEF OsInv, OsTypes
<1>8. ActionsCounted'
  BY <1>1, <1>2 DEF OsInv, ActionsCounted
<1>9. DriversStarted'
  <2>1. ASSUME NEW s \in Calls, action'[s].pc \in {"create", "fetch", "check", "start"}
        PROVE  action'[s].launch \notin DOMAIN running'
    BY <1>1, <1>2, <2>1 DEF OsInv, DriversStarted
  <2>2. ASSUME NEW s \in Calls, action'[s].pc \in {"launch", "page"}
        PROVE  action'[s].launch \in DOMAIN running' /\ running'[action'[s].launch] = s
    BY <1>1, <1>2, <2>2 DEF OsInv, DriversStarted, l
  <2>3. ASSUME NEW s \in Calls, action'[s].pc = "launch"
        PROVE  controller'[action'[s].of].playwright \in DOMAIN running'
    <3>1. action[s].pc = "launch" /\ action'[s] = action[s]
      BY <1>2, <2>3
    <3>2. action[s].of \in Os!Action
      BY <3>1 DEF OsInv, ControllersMade, OsTypes
    <3> QED BY <1>1, <1>6, <3>1, <3>2 DEF OsInv, DriversStarted
  <2>4. ASSUME NEW s \in Calls, action'[s].pc = "page"
        PROVE  controller'[action'[s].of].browser \in DOMAIN running'
    <3>1. CASE s = t
      BY <1>1, <1>2, <1>3, <1>5, <3>1
    <3>2. CASE s # t
      <4>1. action[s].pc = "page" /\ action'[s] = action[s] /\ action[s].of \in Os!Action
        BY <1>2, <2>4, <3>2 DEF OsInv, ControllersMade, OsTypes
      <4> QED BY <1>1, <1>3, <1>6, <4>1 DEF OsInv, DriversStarted
    <3> QED BY <3>1, <3>2
  <2>5. \A k, m \in DOMAIN running' : running'[k] = running'[m] => k = m
    BY <1>1 DEF OsInv, DriversStarted
  <2> QED BY <2>1, <2>2, <2>3, <2>4, <2>5 DEF DriversStarted
<1>10. LaunchesMeet'
  <2>1. \A s, u \in Calls : s # u /\ Starts(s)' /\ Starts(u)' /\ action'[s].of = action'[u].of => action'[s].launch \in met'
    BY <1>1, <1>2 DEF OsInv, LaunchesMeet, l, c
  <2>2. ASSUME NEW s \in Calls, Starts(s)'
        PROVE  /\ controller'[action'[s].of].page \in met' \cup {Null}
               /\ action'[s].pc # "start" /\ action'[s].launch \notin met' =>
                     controller'[action'[s].of].playwright = action'[s].launch
    <3>1. /\ Starts(s) /\ action'[s].launch = action[s].launch /\ action'[s].of = action[s].of
          /\ action'[s].pc # "start" => action[s].pc # "start"
      BY <1>1, <1>2, <2>2 DEF l, c
    <3>2. action[s].of \in Os!Action
      BY <3>1 DEF OsInv, ControllersMade, OsTypes, Starts
    <3> QED BY <1>1, <1>6, <3>1, <3>2 DEF OsInv, LaunchesMeet
  <2> QED BY <2>1, <2>2 DEF LaunchesMeet
<1>11. PagesOpened'
  <2>1. \A s \in Calls : action[s].pc = "page" => action'[s] = action[s]
    BY <1>1, <1>2
  <2>2. \A d \in DOMAIN maker : d \in Os!Action
    BY DEF OsInv, OsTypes
  <2>3. \A d \in Os!Action : controller'[d].page # Null =>
          /\ controller'[d].initialized
          /\ controller'[d].page \notin met' =>
                controller'[d].browser = controller'[d].page /\ controller'[d].playwright = controller'[d].page
    BY <1>1, <1>4, <1>5 DEF OsInv, PagesOpened
  <2>4. action'[t].pc = "page" /\ action'[t].launch = l
    BY <1>2
  <2> QED BY <1>1, <1>6, <2>1, <2>2, <2>3, <2>4 DEF OsInv, PagesOpened
<1> QED BY <1>2, <1>7, <1>8, <1>9, <1>10, <1>11 DEF OsInv

LEMMA PageStep ==
  ASSUME OsInv, part = "os", UNCHANGED part, NEW t \in Calls, Os!NewPage(t)
  PROVE  OsInv'
<1> DEFINE l == action[t].launch
           c == action[t].of
           r == [controller[c] EXCEPT !.page = controller[c].browser, !.initialized = TRUE]
<1>1. /\ action[t].pc = "page" /\ Os!Goes(t, "act")
      /\ running[controller[c].browser] = t
      /\ controller' = [controller EXCEPT ![c] = r]
      /\ UNCHANGED <<service, maker, running, launched, pointer, missed, failed, met, calls>>
  BY DEF Os!NewPage, Os!At, Os!Mine, Os!desktop
<1>2. /\ c \in DOMAIN maker /\ c \in Os!Action /\ l \in Os!Action
      /\ Browses(t) /\ Starts(t)
      /\ DOMAIN action' = Calls
      /\ action'[t].pc = "act" /\ action'[t].launch = l /\ action'[t].of = c
      /\ \A s \in Calls \ {t} : action'[s] = action[s]
      /\ \A s \in Calls : action'[s] = Os!Idle \/ action'[s] \in BrowserRecord \/ action'[s] \in PointRecord
      /\ \A s \in Calls : Starts(s)' => Starts(s)
      /\ \A s \in Calls : Browses(s)' => Browses(s) /\ action'[s].launch = action[s].launch
      /\ ControllersMade' /\ PointerMoved'
  BY <1>1, LaunchOf
<1>3. controller[c].browser = l
  BY <1>1 DEF OsInv, DriversStarted
<1>4. /\ controller[c].page \in met \cup {Null} /\ (l \notin met => controller[c].playwright = l)
      /\ l \in launched
  BY <1>1, <1>2, <1>3, ActionNumbers DEF OsInv, LaunchesMeet, OsTypes
<1>5. \A s \in Calls \ {t} : Starts(s) /\ action[s].of = c => l \in met
  BY <1>2, LaunchAlone
<1>13. r \in ControllerRecord /\ r.page = controller[c].browser /\ r.browser = controller[c].browser
         /\ r.playwright = controller[c].playwright /\ r.initialized
  BY <1>2 DEF OsInv, OsTypes, ControllerRecord
<1> HIDE DEF l, c, r
<1>6. /\ DOMAIN controller' = Os!Action /\ \A d \in Os!Action \ {c} : controller'[d] = controller[d]
      /\ controller'[c] \in ControllerRecord /\ controller'[c].browser = l /\ controller'[c].page = l
      /\ controller'[c].playwright = controller[c].playwright /\ controller'[c].initialized
      /\ controller' \in [Os!Action -> ControllerRecord]
  BY <1>1, <1>2, <1>3, <1>13 DEF OsInv, OsTypes
<1>7. OsTypes'
  BY <1>1, <1>2, <1>4, <1>6 DEF OsInv, OsTypes
<1>8. ActionsCounted'
  BY <1>1, <1>2 DEF OsInv, ActionsCounted
<1>9. \A s \in Calls : Starts(s)' => s # t /\ Starts(s) /\ action'[s] = action[s] /\ action[s].of \in Os!Action
  BY <1>2 DEF Starts, OsInv, ControllersMade, OsTypes
<1>10. DriversStarted'
  <2>1. \A d \in Os!Action : /\ controller'[d].playwright = controller[d].playwright
                             /\ controller'[d].browser = controller[d].browser
    BY <1>3, <1>6
  <2>2. ASSUME NEW s \in Calls, action'[s].pc \in {"create", "fetch", "check", "start"}
        PROVE  action'[s].launch \notin DOMAIN running'
    BY <1>1, <1>2, <2>2 DEF OsInv, DriversStarted
  <2>3. ASSUME NEW s \in Calls, action'[s].pc \in {"launch", "page"}
        PROVE  action'[s].launch \in DOMAIN running' /\ running'[action'[s].launch] = s
    BY <1>1, <1>2, <2>3 DEF OsInv, DriversStarted
  <2>4. \A s \in Calls : action'[s].pc = "launch" => controller'[action'[s].of].playwright \in DOMAIN running'
    BY <1>1, <1>9, <2>1 DEF OsInv, DriversStarted, Starts
  <2>5. \A s \in Calls : action'[s].pc = "page" => controller'[action'[s].of].browser \in DOMAIN running'
    BY <1>1, <1>9, <2>1 DEF OsInv, DriversStarted, Starts
  <2>6. \A k, m \in DOMAIN running' : running'[k] = running'[m] => k = m
    BY <1>1 DEF OsInv, DriversStarted
  <2> QED BY <2>2, <2>3, <2>4, <2>5, <2>6 DEF DriversStarted
<1>11. LaunchesMeet'
  <2>1. \A s, u \in Calls : s # u /\ Starts(s)' /\ Starts(u)' /\ action'[s].of = action'[u].of => action'[s].launch \in met'
    BY <1>1, <1>9 DEF OsInv, LaunchesMeet
  <2>2. ASSUME NEW s \in Calls, Starts(s)'
        PROVE  /\ controller'[action'[s].of].page \in met' \cup {Null}
               /\ action'[s].pc # "start" /\ action'[s].launch \notin met' =>
                     controller'[action'[s].of].playwright = action'[s].launch
    <3>1. s # t /\ Starts(s) /\ action'[s] = action[s] /\ action[s].of \in Os!Action
      BY <1>9, <2>2
    <3>2. CASE action[s].of = c
      BY <1>1, <1>5, <1>6, <3>1, <3>2 DEF OsInv, LaunchesMeet
    <3>3. CASE action[s].of # c
      BY <1>1, <1>6, <3>1, <3>3 DEF OsInv, LaunchesMeet
    <3> QED BY <3>2, <3>3
  <2> QED BY <2>1, <2>2 DEF LaunchesMeet
<1>12. PagesOpened'
  <2>1. \A d \in Os!Action : controller'[d].page # Null =>
          /\ controller'[d].initialized
          /\ controller'[d].page \notin met' =>
                controller'[d].browser = controller'[d].page /\ controller'[d].playwright = controller'[d].page
    BY <1>1, <1>4, <1>6 DEF OsInv, PagesOpened
  <2>2. ASSUME NEW k \in launched'
        PROVE  \/ k \in failed' \cup met'
               \/ \E s \in Calls : action'[s].pc = "page" /\ action'[s].launch = k
               \/ \E d \in DOMAIN maker' : controller'[d].page = k
    <3>1. k # Null
      BY <1>1, <2>2, ActionNumbers DEF OsInv, OsTypes
    <3>2. CASE k \in failed \cup met
      BY <1>1, <3>2
    <3>3. CASE \E s \in Calls : action[s].pc = "page" /\ action[s].launch = k
      BY <1>1, <1>2, <1>6, <3>3 DEF l
    <3>4. ASSUME NEW d \in DOMAIN maker, controller[d].page = k
          PROVE  k \in met \/ controller'[d].page = k
      BY <1>4, <1>6, <3>1, <3>4 DEF OsInv, OsTypes
    <3> QED BY <1>1, <2>2, <3>2, <3>3, <3>4 DEF OsInv, PagesOpened
  <2> QED BY <2>1, <2>2 DEF PagesOpened
<1> QED BY <1>2, <1>7, <1>8, <1>10, <1>11, <1>12 DEF OsInv

-----------------------------------------------------------------------------
(* All steps *)

LEMMA OsInitially == PlatformInit => OsInv
<1> SUFFICES ASSUME PlatformInit PROVE OsInv
  OBVIOUS
<1>1. Os!Init /\ calls = 0
  BY DEF PlatformInit, Os!Init
<1>2. /\ action = [t \in Calls |-> Os!Idle] /\ controller = [c \in Os!Action |-> Os!NewController]
      /\ service = Null /\ maker = [c \in {} |-> Null] /\ running = [x \in {} |-> Null]
      /\ launched = {} /\ met = {} /\ missed = FALSE
  BY <1>1 DEF Os!Init
<1>3. \A t \in Calls : action[t].pc = "idle"
  BY <1>2 DEF Os!Idle
<1>4. \A c \in Os!Action : /\ controller[c] \in ControllerRecord /\ controller[c].page = Null
                           /\ controller[c].browser = Null
  BY <1>2 DEF Os!NewController, ControllerRecord
<1>5. OsTypes
  BY <1>2, <1>4 DEF OsTypes
<1>6. \A t \in Calls : ~Browses(t) /\ ~Starts(t) /\ ~Points(t)
  BY <1>3 DEF Browses, BrowserSteps, Starts, Points
<1>7. ActionsCounted
  BY <1>1, <1>2, <1>6 DEF ActionsCounted
<1>8. ControllersMade
  BY <1>2, <1>3 DEF ControllersMade
<1>9. DriversStarted
  BY <1>2, <1>3 DEF DriversStarted
<1>10. LaunchesMeet
  BY <1>6 DEF LaunchesMeet
<1>11. PagesOpened
  BY <1>2, <1>4 DEF PagesOpened
<1>12. PointerMoved
  BY <1>2, <1>3, <1>6 DEF PointerMoved
<1> QED BY <1>5, <1>7, <1>8, <1>9, <1>10, <1>11, <1>12 DEF OsInv

LEMMA OsStep == OsInv /\ part = "os" /\ UNCHANGED part /\ Os!Next => OsInv'
<1> SUFFICES ASSUME OsInv, part = "os", UNCHANGED part, NEW t \in Calls,
                    \/ Os!BrowserAction(t) \/ Os!CreateController(t) \/ Os!FetchController(t)
                    \/ Os!EnsureBrowser(t) \/ Os!StartPlaywright(t) \/ Os!LaunchChromium(t)
                    \/ Os!NewPage(t) \/ Os!LaunchFails(t) \/ Os!Act(t)
                    \/ \E place \in Places : Os!GuiAction(t, place)
                    \/ Os!MovePointer(t) \/ Os!PressThere(t)
                    \/ \E c \in Commands : Os!ExecuteShellCommand(t, c) \/ Os!ExecuteShell(t, c)
             PROVE  OsInv'
  BY DEF Os!Next
<1>1. CASE \E c \in Commands : Os!ExecuteShellCommand(t, c) \/ Os!ExecuteShell(t, c)
  <2>1. Os!Shell(t)
    BY <1>1 DEF Os!ExecuteShellCommand, Os!ExecuteShell
  <2> QED BY <2>1, ShellStep
<1> QED BY <1>1, BeginStep, CreateStep, FetchStep, EnsureStep, StartStep, ChromiumStep, PageStep,
           EndStep, GuiStep, PointerStep

LEMMA OsStutter == OsInv /\ UNCHANGED <<part, osVars>> /\ (part = "os" => UNCHANGED calls) => OsInv'
<1> SUFFICES ASSUME OsInv, UNCHANGED <<part, osVars>>, part = "os" => UNCHANGED calls PROVE OsInv'
  OBVIOUS
<1>1. UNCHANGED <<service, controller, maker, running, launched, pointer, action, failed, met, missed>>
  BY DEF osVars
<1>2. OsTypes'
  BY <1>1 DEF OsInv, OsTypes
<1>3. ActionsCounted'
  BY <1>1 DEF OsInv, ActionsCounted, Browses
<1>4. ControllersMade' /\ DriversStarted'
  BY <1>1 DEF OsInv, ControllersMade, DriversStarted
<1>5. LaunchesMeet' /\ PagesOpened'
  BY <1>1 DEF OsInv, LaunchesMeet, PagesOpened, Starts
<1>6. PointerMoved'
  BY <1>1, PointerKept DEF OsInv, Points
<1> QED BY <1>2, <1>3, <1>4, <1>5, <1>6 DEF OsInv

\* No thread makes a second controller of the browser or runs a second driver,
\* however first uses overlap and launches fail; a browser that is no
\* controller's page was left by a launch that failed or that another one of its
\* controller overlapped, and the objects of the others belong together; a GUI
\* action that met no other takes effect where it was asked to.
THEOREM ControlsStayAccounted == PlatformSpec => []ControlsAccounted
<1>1. PlatformInit => OsInv
  BY OsInitially
<1>2. OsInv /\ [PlatformNext]_platformVars => OsInv'
  <2>1. UNCHANGED platformVars => UNCHANGED osVars /\ UNCHANGED part /\ UNCHANGED calls
    BY DEF platformVars, osVars, vars
  <2>2. PlatformNext => \/ part = "os" /\ Os!Next /\ UNCHANGED part
                        \/ part # "os" /\ UNCHANGED osVars /\ UNCHANGED part
    BY DEF PlatformNext
  <2> QED BY <2>1, <2>2, OsStep, OsStutter
<1>3. OsInv => ControlsAccounted
  <2> SUFFICES ASSUME OsInv PROVE ControlsAccounted
    OBVIOUS
  <2>1. Os!TypeOK
    BY DEF OsInv, OsTypes, ControllersMade, Os!TypeOK
  <2>2. \A c, d \in DOMAIN maker : maker[c] = maker[d] => c = d
    BY DEF OsInv, ControllersMade
  <2>3. \A l, k \in DOMAIN running : running[l] = running[k] => l = k
    BY DEF OsInv, DriversStarted
  <2>4. \A l \in launched \ (failed \cup met \cup Os!InProgress) : \E c \in DOMAIN maker : controller[c].page = l
    BY DEF OsInv, PagesOpened, Os!InProgress
  <2>5. \A c \in DOMAIN maker :
           controller[c].page # Null /\ controller[c].page \notin met =>
              /\ controller[c].browser = controller[c].page /\ controller[c].playwright = controller[c].page
              /\ controller[c].initialized
    BY DEF OsInv, OsTypes, PagesOpened
  <2>6. ~missed
    BY DEF OsInv, PointerMoved
  <2> QED BY <2>1, <2>2, <2>3, <2>4, <2>5, <2>6 DEF ControlsAccounted, Os!ControlsAccounted
<1> QED BY <1>1, <1>2, <1>3, PTL DEF PlatformSpec

HIDE OsAssumed DEF Os!OsAssumption

-----------------------------------------------------------------------------
(* Accounts *)

USE AccountsAssumed DEF Account!AccountsAssumption

\* Requests and the history are about accounts that are there.
AccountsThere ==
    /\ strayed \subseteq Identities
    /\ \A i \in Identities : home[i] # Null => home[i] \in Account!Accounts
    /\ \A q \in Calls : req[q].pc \in {"link", "info"} => req[q].id \in Account!Accounts

OwnNames ==
    \A a, b \in Account!Accounts : a # b => user[a].name # user[b].name /\ user[a].email # user[b].email

WayIn(w) == w.password = TRUE \/ w.link # Null

WaysIn ==
    /\ \A a \in Account!Accounts : WayIn(user[a])
    /\ \A q \in Calls : req[q].pc = "create" => req[q].password = TRUE \/ req[q].by # Null

\* While no write came between, an identity is linked to its home alone, and to
\* no account while a sign-in of it is about to create or to link one.
LinkKept(i) ==
    /\ i \notin strayed
    /\ \A a \in Account!FindByOAuth(i) : home[i] = a
    /\ \A q \in Calls : req[q].pc \in {"create", "link"} /\ req[q].by = i => Account!FindByOAuth(i) = {}

AccountInv ==
    /\ Account!TypeOK /\ AccountsThere /\ OwnNames /\ WaysIn
    /\ \A i \in Identities \ signInCrossed : LinkKept(i)

\* A request that has only read: what it will write, and perhaps a home.
LEMMA RequestReads ==
  ASSUME AccountInv, NEW q \in Calls, NEW r \in Account!Request, req' = [req EXCEPT ![q] = r],
         UNCHANGED <<user, created, signInCrossed>>,
         strayed' \subseteq Identities, \A i \in Identities \ signInCrossed : i \notin strayed',
         home' \in [Identities -> Account!Ids \cup {Null}],
         \A i \in Identities : home'[i] = home[i] \/ home'[i] \in Account!FindByOAuth(i),
         r.pc \in {"link", "info"} => r.id \in Account!Accounts,
         r.pc = "create" => r.password = TRUE \/ r.by # Null,
         r.pc \in {"create", "link"} /\ r.by # Null => Account!FindByOAuth(r.by) = {}
  PROVE  AccountInv'
<1>1. Account!Accounts' = Account!Accounts /\ \A i : Account!FindByOAuth(i)' = Account!FindByOAuth(i)
  BY DEF Account!Accounts, Account!FindByOAuth
<1>2. \A o \in Calls : req'[o] = req[o] \/ req'[o] = r
  BY DEF AccountInv, Account!TypeOK
<1>3. Account!TypeOK'
  BY <1>1 DEF AccountInv, Account!TypeOK
<1>4. AccountsThere'
  <2>1. \A i : Account!FindByOAuth(i) \subseteq Account!Accounts
    BY DEF Account!FindByOAuth
  <2>2. \A i \in Identities : home'[i] # Null => home'[i] \in Account!Accounts
    BY <2>1 DEF AccountInv, AccountsThere
  <2>3. \A o \in Calls : req'[o].pc \in {"link", "info"} => req'[o].id \in Account!Accounts
    BY <1>2 DEF AccountInv, AccountsThere
  <2> QED BY <1>1, <2>2, <2>3 DEF AccountsThere
<1>5. OwnNames'
  BY <1>1 DEF AccountInv, OwnNames
<1>6. WaysIn'
  <2>1. \A a \in Account!Accounts' : WayIn(user'[a])
    BY <1>1 DEF AccountInv, WaysIn
  <2>2. \A o \in Calls : req'[o].pc = "create" => req'[o].password = TRUE \/ req'[o].by # Null
    BY <1>2 DEF AccountInv, WaysIn
  <2> QED BY <2>1, <2>2 DEF WaysIn
<1>7. \A i \in Identities \ signInCrossed' : LinkKept(i)'
  <2> SUFFICES ASSUME NEW i \in Identities \ signInCrossed' PROVE LinkKept(i)'
    OBVIOUS
  <2>1. LinkKept(i) /\ i \notin strayed' /\ i # Null
    BY DEF AccountInv
  <2>2. \A a \in Account!FindByOAuth(i) : home'[i] = a
    BY <2>1 DEF LinkKept
  <2>3. \A o \in Calls : req'[o].pc \in {"create", "link"} /\ req'[o].by = i => Account!FindByOAuth(i) = {}
    BY <1>2, <2>1 DEF LinkKept
  <2> QED BY <1>1, <2>1, <2>2, <2>3 DEF LinkKept
<1> QED BY <1>3, <1>4, <1>5, <1>6, <1>7 DEF AccountInv

\* A request that writes the row w of one account.
LEMMA RequestWrites ==
  ASSUME AccountInv, NEW q \in Calls, NEW id \in Account!Ids, NEW w \in Account!Account,
         req' = [req EXCEPT ![q] = Account!Idle], user' = [user EXCEPT ![id] = w],
         UNCHANGED strayed, signInCrossed \subseteq signInCrossed',
         created' \in Account!Ids, id \in 1 .. created', 1 .. created' = 1 .. created \cup {id},
         \A a \in Account!Accounts \ {id} : user[a].name # w.name /\ user[a].email # w.email,
         WayIn(w),
         home' = home \/ (w.link # Null /\ home' = [home EXCEPT ![w.link] = id]),
         w.link # Null /\ w.link \notin signInCrossed' =>
            \/ home' = home /\ id \in Account!FindByOAuth(w.link)
            \/ /\ home' = [home EXCEPT ![w.link] = id] /\ Account!FindByOAuth(w.link) = {}
               /\ \A o \in Calls \ {q} : req[o].pc \in {"create", "link"} => req[o].by # w.link
  PROVE  AccountInv'
<1>1. /\ \A a \in Account!Ids : user'[a] = IF a = id THEN w ELSE user[a]
      /\ user' \in [Account!Ids -> Account!Account \cup {Null}]
      /\ w.link \in Identities \cup {Null} /\ w # Null
  BY DEF AccountInv, Account!TypeOK, Account!Account
<1>2. Account!Accounts' = Account!Accounts \cup {id}
  BY <1>1 DEF Account!Accounts
<1>3. /\ \A o \in Calls : req'[o] = IF o = q THEN Account!Idle ELSE req[o]
      /\ req' \in [Calls -> Account!Request]
  BY DEF AccountInv, Account!TypeOK, Account!Request
<1>4. /\ home' \in [Identities -> Account!Ids \cup {Null}]
      /\ \A i \in Identities : home'[i] = home[i] \/ (home'[i] = id /\ i = w.link)
  BY <1>1 DEF AccountInv, Account!TypeOK
<1>5. Account!TypeOK'
  <2>1. Account!Accounts' = 1 .. created'
    BY <1>2 DEF AccountInv, Account!TypeOK
  <2> QED BY <1>1, <1>3, <1>4, <2>1 DEF Account!TypeOK
<1>6. AccountsThere'
  <2>1. \A i \in Identities : home'[i] # Null => home'[i] \in Account!Accounts'
    BY <1>2, <1>4 DEF AccountInv, AccountsThere
  <2>2. \A o \in Calls : req'[o].pc \in {"link", "info"} => req'[o].id \in Account!Accounts'
    BY <1>2, <1>3 DEF AccountInv, AccountsThere, Account!Idle
  <2> QED BY <2>1, <2>2 DEF AccountInv, AccountsThere
<1>7. OwnNames'
  <2> SUFFICES ASSUME NEW a \in Account!Accounts', NEW b \in Account!Accounts', a # b
               PROVE  user'[a].name # user'[b].name /\ user'[a].email # user'[b].email
    BY DEF OwnNames
  <2>1. a \in Account!Ids /\ b \in Account!Ids
    BY DEF Account!Accounts
  <2>2. \A c, d \in Account!Accounts : c # d => user[c].name # user[d].name /\ user[c].email # user[d].email
    BY DEF AccountInv, OwnNames
  <2>3. CASE a = id
    BY <1>1, <1>2, <2>1, <2>3
  <2>4. CASE b = id
    BY <1>1, <1>2, <2>1, <2>4
  <2>5. CASE a # id /\ b # id
    BY <1>1, <1>2, <2>1, <2>2, <2>5
  <2> QED BY <2>3, <2>4, <2>5
<1>8. WaysIn'
  <2>1. \A a \in Account!Accounts' : WayIn(user'[a])
    <3> SUFFICES ASSUME NEW a \in Account!Accounts' PROVE WayIn(user'[a])
      OBVIOUS
    <3>1. a \in Account!Ids
      BY DEF Account!Accounts
    <3> QED BY <1>1, <1>2, <3>1 DEF AccountInv, WaysIn
  <2>2. \A o \in Calls : req'[o].pc = "create" => req'[o].password = TRUE \/ req'[o].by # Null
    BY <1>3 DEF AccountInv, WaysIn, Account!Idle
  <2> QED BY <2>1, <2>2 DEF WaysIn
<1>9. \A i \in Identities \ signInCrossed' : LinkKept(i)'
  <2> SUFFICES ASSUME NEW i \in Identities \ signInCrossed' PROVE LinkKept(i)'
    OBVIOUS
  <2>1. LinkKept(i) /\ i # Null
    BY DEF AccountInv
  <2>2. \A o \in Calls : req'[o].pc \in {"create", "link"} => req'[o] = req[o] /\ o # q
    BY <1>3 DEF Account!Idle
  <2>3. CASE i # w.link
    <3>1. Account!FindByOAuth(i)' \subseteq Account!FindByOAuth(i)
      BY <1>1, <2>3 DEF Account!FindByOAuth, Account!Accounts
    <3>2. home'[i] = home[i]
      BY <1>4, <2>3
    <3> QED BY <2>1, <2>2, <3>1, <3>2 DEF LinkKept
  <2>4. CASE i = w.link /\ home' = home /\ id \in Account!FindByOAuth(i)
    <3>1. Account!FindByOAuth(i)' = Account!FindByOAuth(i)
      BY <1>1, <2>4 DEF Account!FindByOAuth, Account!Accounts
    <3> QED BY <2>1, <2>2, <2>4, <3>1 DEF LinkKept
  <2>5. ASSUME i = w.link, home' = [home EXCEPT ![i] = id], Account!FindByOAuth(i) = {},
               \A o \in Calls \ {q} : req[o].pc \in {"create", "link"} => req[o].by # i
        PROVE  LinkKept(i)'
    <3>1. \A a \in Account!FindByOAuth(i)' : a = id
      BY <1>1, <2>5 DEF Account!FindByOAuth, Account!Accounts
    <3>2. home'[i] = id
      BY <2>5 DEF AccountInv, Account!TypeOK
    <3> QED BY <2>1, <2>2, <2>5, <3>1, <3>2 DEF LinkKept
  <2> QED BY <2>1, <2>3, <2>4, <2>5
<1> QED BY <1>5, <1>6, <1>7, <1>8, <1>9 DEF AccountInv

\* There are more names than accounts, so that one is free, and a first one.
LEMMA NameFree == AccountInv => Account!UniqueName \in Account!Names
<1> SUFFICES ASSUME AccountInv PROVE Account!UniqueName \in Account!Names
  OBVIOUS
<1> DEFINE Taken == {user[a].name : a \in Account!Accounts}
           Free == {n \in Account!Names : n \notin Taken}
<1>1. Account!Accounts = 1 .. created /\ created \in Nat /\ created <= MaxAccounts
  BY DEF AccountInv, Account!TypeOK, Account!Ids
<1>2. IsFiniteSet(1 .. created) /\ Cardinality(1 .. created) = created
  BY <1>1, FS_Interval
<1>3. IsFiniteSet(Taken) /\ Cardinality(Taken) <= created
  <2>1. PICK f : f = [a \in Account!Accounts |-> user[a].name]
    OBVIOUS
  <2>2. f \in [1 .. created -> Taken] /\ \A n \in Taken : \E a \in 1 .. created : f[a] = n
    BY <1>1, <2>1
  <2>3. f \in Surjection(1 .. created, Taken)
    BY <2>2 DEF Surjection
  <2> HIDE DEF Taken
  <2> QED BY <1>2, <2>3, FS_Surjection
<1>4. IsFiniteSet(Account!Names) /\ Cardinality(Account!Names) = MaxAccounts + 1
  BY FS_Interval DEF Account!Names
<1>5. Free # {}
  <2> SUFFICES ASSUME Account!Names \subseteq Taken PROVE FALSE
    OBVIOUS
  <2>1. Cardinality(Account!Names) <= Cardinality(Taken)
    BY <1>3, FS_Subset
  <2>2. Cardinality(Taken) \in Nat
    BY <1>3, FS_CardinalityType
  <2> HIDE DEF Taken
  <2> QED BY <1>1, <1>3, <1>4, <2>1, <2>2
<1>6. \A n \in Free : n \in Nat /\ n \in Account!Names
  BY DEF Account!Names
<1>7. \A n : Account!NameTaken(n, Null) <=> n \in Taken
  BY DEF Account!NameTaken, Account!Accounts, Account!Ids
<1>8. \A n \in Account!Names : n \in Free <=> ~Account!NameTaken(n, Null)
  BY <1>7
<1> HIDE DEF Free, Taken
<1>9. IsWellFoundedOn(OpToRel(<, Nat), Nat)
  BY NatLessThanWellFounded
<1>10. PICK n \in Free : \A m \in Free : ~(<<m, n>> \in OpToRel(<, Nat))
  BY <1>5, <1>6, <1>9, WFMin
<1>11. \A m \in Free : ~(m < n)
  BY <1>6, <1>10 DEF OpToRel
<1>12. \A m \in 0 .. (n - 1) : Account!NameTaken(m, Null)
  <2> SUFFICES ASSUME NEW m \in 0 .. (n - 1) PROVE Account!NameTaken(m, Null)
    OBVIOUS
  <2>1. m \in Account!Names /\ m < n
    BY <1>6 DEF Account!Names
  <2> QED BY <1>8, <1>11, <2>1
<1>13. n \in Account!Names /\ ~Account!NameTaken(n, Null)
  BY <1>6, <1>8
<1> QED BY <1>12, <1>13, Zenon DEF Account!UniqueName

\* The account of a sign-in is the home of its identity, while that can be found.
LEMMA NoStray ==
  ASSUME AccountInv, NEW i \in Identities \ signInCrossed, NEW a \in Account!OAuthFirst(i)
  PROVE  ~Account!Stray(i, a)
<1> SUFFICES ASSUME home[i] # Null, a # home[i],
                    user[home[i]].link = i \/ user[home[i]].email = EmailOf[i]
             PROVE  FALSE
  BY DEF Account!Stray
<1>1. home[i] \in Account!Accounts /\ LinkKept(i)
  BY DEF AccountInv, AccountsThere
<1>2. Account!FindByOAuth(i) = {}
  BY <1>1 DEF Account!OAuthFirst, LinkKept
<1>3. user[home[i]].email = EmailOf[i]
  BY <1>1, <1>2 DEF Account!FindByOAuth
<1>4. a \in Account!Accounts /\ user[a].email = EmailOf[i]
  BY <1>2 DEF Account!OAuthFirst, Account!FindByEmail
<1> QED BY <1>1, <1>3, <1>4 DEF AccountInv, OwnNames

LEMMA Reads ==
  ASSUME AccountInv, NEW q \in Calls, NEW n \in 0 .. 1, NEW e \in Emails,
         Account!Register(q, n, e) \/ \E a \in Account!Ids : Account!ChangeInfo(q, a, n, e)
  PROVE  AccountInv'
<1>1. n \in Account!Names
  BY DEF Account!Names
<1>2. UNCHANGED <<user, created, home, strayed, signInCrossed>>
  BY DEF Account!Register, Account!ChangeInfo
<1>3. CASE Account!Register(q, n, e)
  <2> DEFINE r == [pc |-> "create", name |-> n, email |-> e, password |-> TRUE, by |-> Null]
  <2>1. req' = [req EXCEPT ![q] = r]
    BY <1>3 DEF Account!Register, Account!Begins
  <2>2. r \in Account!Request
    BY <1>1 DEF Account!Request
  <2>3. r.pc = "create" /\ r.password = TRUE /\ r.by = Null
    OBVIOUS
  <2> HIDE DEF r
  <2>4. strayed' \subseteq Identities /\ home' \in [Identities -> Account!Ids \cup {Null}]
        /\ \A i \in Identities \ signInCrossed : i \notin strayed'
    BY <1>2 DEF AccountInv, AccountsThere, Account!TypeOK, LinkKept
  <2> QED BY <1>2, <2>1, <2>2, <2>3, <2>4, RequestReads
<1>4. ASSUME NEW a \in Account!Ids, Account!ChangeInfo(q, a, n, e) PROVE AccountInv'
  <2> DEFINE r == [pc |-> "info", id |-> a, name |-> n, email |-> e, by |-> Null]
  <2>1. req' = [req EXCEPT ![q] = r] /\ a \in Account!Accounts
    BY <1>4 DEF Account!ChangeInfo, Account!Begins
  <2>2. r \in Account!Request
    BY <1>1 DEF Account!Request
  <2>3. r.pc = "info" /\ r.id = a
    OBVIOUS
  <2> HIDE DEF r
  <2>4. strayed' \subseteq Identities /\ home' \in [Identities -> Account!Ids \cup {Null}]
        /\ \A i \in Identities \ signInCrossed : i \notin strayed'
    BY <1>2 DEF AccountInv, AccountsThere, Account!TypeOK, LinkKept
  <2> QED BY <1>2, <2>1, <2>2, <2>3, <2>4, RequestReads
<1> QED BY <1>3, <1>4

LEMMA SignsIn == ASSUME AccountInv, NEW q \in Calls, NEW i \in Identities, Account!SignIn(q, i) PROVE AccountInv'
<1>1. UNCHANGED <<user, created, signInCrossed>>
  BY DEF Account!SignIn
<1>2. strayed \subseteq Identities /\ home \in [Identities -> Account!Ids \cup {Null}]
      /\ \A j \in Identities \ signInCrossed : j \notin strayed
  BY DEF AccountInv, AccountsThere, Account!TypeOK, LinkKept
<1>3. CASE Account!OAuthFirst(i) = {}
  <2> DEFINE r == [pc |-> "create", name |-> Account!UniqueName, email |-> EmailOf[i], password |-> FALSE, by |-> i]
  <2>1. req' = [req EXCEPT ![q] = r] /\ UNCHANGED <<home, strayed>>
    BY <1>3 DEF Account!SignIn, Account!Begins
  <2>2. r \in Account!Request
    BY NameFree DEF Account!Request
  <2>3. r.pc = "create" /\ r.by = i /\ i # Null
    OBVIOUS
  <2>4. Account!FindByOAuth(i) = {}
    BY <1>3 DEF Account!OAuthFirst
  <2> HIDE DEF r
  <2> QED BY <1>1, <1>2, <2>1, <2>2, <2>3, <2>4, RequestReads
<1>4. CASE Account!OAuthFirst(i) # {}
  <2>1. PICK a \in Account!OAuthFirst(i) :
          /\ strayed' = IF Account!Stray(i, a) THEN strayed \cup {i} ELSE strayed
          /\ IF user[a].link = i
             THEN Account!Begins(q, Account!Idle) /\ home' = [home EXCEPT ![i] = a]
             ELSE Account!Begins(q, [pc |-> "link", id |-> a, by |-> i]) /\ UNCHANGED home
    BY <1>4 DEF Account!SignIn
  <2>2. a \in Account!Accounts
    BY DEF Account!OAuthFirst, Account!FindByOAuth, Account!FindByEmail
  <2>3. strayed' \subseteq Identities /\ \A j \in Identities \ signInCrossed : j \notin strayed'
    BY <1>2, <2>1, NoStray
  <2>4. CASE user[a].link = i
    <3>1. req' = [req EXCEPT ![q] = Account!Idle] /\ home' = [home EXCEPT ![i] = a]
      BY <2>1, <2>4 DEF Account!Begins
    <3>2. Account!Idle \in Account!Request /\ Account!Idle.pc = "idle"
      BY DEF Account!Idle, Account!Request
    <3>3. a \in Account!FindByOAuth(i) /\ a \in Account!Ids
      BY <2>2, <2>4 DEF Account!FindByOAuth, Account!Accounts
    <3>4. /\ home' \in [Identities -> Account!Ids \cup {Null}]
          /\ \A j \in Identities : home'[j] = home[j] \/ home'[j] \in Account!FindByOAuth(j)
      BY <1>2, <3>1, <3>3
    <3> QED BY <1>1, <2>3, <3>1, <3>2, <3>4, RequestReads
  <2>5. CASE user[a].link # i
    <3> DEFINE r == [pc |-> "link", id |-> a, by |-> i]
    <3>1. req' = [req EXCEPT ![q] = r] /\ UNCHANGED home
      BY <2>1, <2>5 DEF Account!Begins
    <3>2. r \in Account!Request /\ r.pc = "link" /\ r.id = a /\ r.by = i
      BY <2>2 DEF Account!Request, Account!Accounts
    <3>3. Account!FindByOAuth(i) = {}
      BY <2>5 DEF Account!OAuthFirst, Account!FindByOAuth
    <3> HIDE DEF r
    <3> QED BY <1>1, <1>2, <2>2, <2>3, <3>1, <3>2, <3>3, RequestReads
  <2> QED BY <2>4, <2>5
<1> QED BY <1>3, <1>4

\* A request that ends without having written.
LEMMA NothingWritten ==
  ASSUME AccountInv, NEW q \in Calls,
         Account!ExchangeFails(q) \/ Account!Refused(q) \/ Account!CommitFails(q)
  PROVE  AccountInv'
<1>1. req' = [req EXCEPT ![q] = Account!Idle] /\ UNCHANGED <<user, created, home, strayed, signInCrossed>>
  BY DEF Account!ExchangeFails, Account!Refused, Account!CommitFails, Account!Begins, Account!Ends
<1>2. Account!Idle \in Account!Request /\ Account!Idle.pc = "idle"
  BY DEF Account!Idle, Account!Request
<1>3. strayed' \subseteq Identities /\ home' \in [Identities -> Account!Ids \cup {Null}]
      /\ \A i \in Identities \ signInCrossed : i \notin strayed'
  BY <1>1 DEF AccountInv, AccountsThere, Account!TypeOK, LinkKept
<1> QED BY <1>1, <1>2, <1>3, RequestReads

LEMMA Creates == ASSUME AccountInv, NEW q \in Calls, Account!CommitCreate(q) PROVE AccountInv'
<1> PICK r : r = req[q]
  OBVIOUS
<1> PICK id : id = created + 1
  OBVIOUS
<1>1. /\ r.pc = "create" /\ id \in Account!Ids /\ created' = id /\ created \in Nat
      /\ 1 .. created' = 1 .. created \cup {id} /\ id \in 1 .. created'
      /\ Account!Accounts = 1 .. created /\ r \in Account!Request
  BY DEF Account!CommitCreate, AccountInv, Account!TypeOK, Account!Ids
<1>2. /\ r.name \in Account!Names /\ r.email \in Emails /\ r.password \in BOOLEAN /\ r.by \in Identities \cup {Null}
  BY <1>1 DEF Account!Request, Account!Idle
<1> DEFINE w == [name |-> r.name, email |-> r.email, password |-> r.password, link |-> r.by, role |-> "user"]
<1>3. /\ req' = [req EXCEPT ![q] = Account!Idle] /\ user' = [user EXCEPT ![id] = w]
      /\ strayed' = strayed /\ signInCrossed \subseteq signInCrossed'
  BY DEF Account!CommitCreate, Account!Ends
<1>4. w \in Account!Account
  BY <1>2 DEF Account!Account
<1>5. w.link = r.by /\ w.name = r.name /\ w.email = r.email /\ w.password = r.password
  OBVIOUS
<1> HIDE DEF w
<1>6. \A a \in Account!Accounts \ {id} : user[a].name # w.name /\ user[a].email # w.email
  <2>1. ~Account!NameTaken(r.name, Null) /\ ~Account!EmailTaken(r.email, Null)
    BY DEF Account!CommitCreate
  <2>2. Null \notin Account!Accounts
    BY DEF Account!Accounts, Account!Ids
  <2> QED BY <1>5, <2>1, <2>2 DEF Account!NameTaken, Account!EmailTaken
<1>7. WayIn(w)
  BY <1>1, <1>5 DEF AccountInv, WaysIn, WayIn
<1>8. home' = IF r.by = Null THEN home ELSE [home EXCEPT ![r.by] = id]
  BY DEF Account!CommitCreate
<1>9. home' = home \/ (w.link # Null /\ home' = [home EXCEPT ![w.link] = id])
  BY <1>5, <1>8
<1>10. ASSUME r.by # Null, r.by \notin signInCrossed'
       PROVE  /\ home' = [home EXCEPT ![r.by] = id] /\ Account!FindByOAuth(r.by) = {}
              /\ \A o \in Calls \ {q} : req[o].pc \in {"create", "link"} => req[o].by # r.by
  <2>1. home' = [home EXCEPT ![r.by] = id]
    BY <1>8, <1>10
  <2>2. LinkKept(r.by)
    BY <1>2, <1>3, <1>10 DEF AccountInv
  <2>3. Account!FindByOAuth(r.by) = {}
    BY <1>1, <2>2 DEF LinkKept
  <2>4. r.by \notin Account!Overlapped(q, r.email, r.by)
    BY <1>10 DEF Account!CommitCreate
  <2>5. \A o \in Calls \ {q} : req[o].pc \in {"create", "link"} => req[o].by # r.by
    BY <1>2, <1>10, <2>4 DEF Account!Overlapped
  <2> QED BY <2>1, <2>3, <2>5
<1>11. w.link # Null /\ w.link \notin signInCrossed' =>
         \/ home' = home /\ id \in Account!FindByOAuth(w.link)
         \/ /\ home' = [home EXCEPT ![w.link] = id] /\ Account!FindByOAuth(w.link) = {}
            /\ \A o \in Calls \ {q} : req[o].pc \in {"create", "link"} => req[o].by # w.link
  BY <1>5, <1>10
<1>12. created' \in Account!Ids /\ strayed' = strayed
  BY <1>1, <1>3
<1> QED BY <1>1, <1>3, <1>4, <1>6, <1>7, <1>9, <1>11, <1>12, RequestWrites

LEMMA Links == ASSUME AccountInv, NEW q \in Calls, Account!CommitLink(q) PROVE AccountInv'
<1> PICK r : r = req[q]
  OBVIOUS
<1> PICK id : id = r.id
  OBVIOUS
<1> PICK v : v = user[id]
  OBVIOUS
<1>1. /\ r.pc = "link" /\ id \in Account!Accounts /\ id \in Account!Ids /\ r \in Account!Request /\ r.by \in Identities
      /\ Account!Accounts = 1 .. created /\ created \in Account!Ids \cup {0}
  BY DEF Account!CommitLink, AccountInv, AccountsThere, Account!TypeOK, Account!Accounts, Account!Request, Account!Idle
<1>2. v \in Account!Account
  BY <1>1 DEF AccountInv, Account!TypeOK, Account!Accounts
<1> DEFINE w == [v EXCEPT !.link = r.by]
<1>3. /\ req' = [req EXCEPT ![q] = Account!Idle] /\ user' = [user EXCEPT ![id] = w]
      /\ strayed' = strayed /\ signInCrossed \subseteq signInCrossed' /\ home' = [home EXCEPT ![r.by] = id]
      /\ created' = created
  BY DEF Account!CommitLink, Account!Ends
<1>4. w \in Account!Account /\ w.link = r.by /\ w.name = v.name /\ w.email = v.email
  BY <1>1, <1>2 DEF Account!Account
<1> HIDE DEF w
<1>5. created' \in Account!Ids /\ id \in 1 .. created' /\ 1 .. created' = 1 .. created \cup {id}
  BY <1>1, <1>3
<1>6. \A a \in Account!Accounts \ {id} : user[a].name # w.name /\ user[a].email # w.email
  BY <1>1, <1>4 DEF AccountInv, OwnNames
<1>7. w.link # Null /\ WayIn(w)
  BY <1>1, <1>4 DEF WayIn
<1>8. ASSUME r.by \notin signInCrossed'
      PROVE  /\ Account!FindByOAuth(r.by) = {}
             /\ \A o \in Calls \ {q} : req[o].pc \in {"create", "link"} => req[o].by # r.by
  <2>1. LinkKept(r.by)
    BY <1>1, <1>3, <1>8 DEF AccountInv
  <2>2. Account!FindByOAuth(r.by) = {}
    BY <1>1, <2>1 DEF LinkKept
  <2>3. r.by \notin Account!Overlapped(q, user[id].email, r.by)
    BY <1>8 DEF Account!CommitLink
  <2>4. \A o \in Calls \ {q} : req[o].pc \in {"create", "link"} => req[o].by # r.by
    BY <1>1, <2>3 DEF Account!Overlapped
  <2> QED BY <2>2, <2>4
<1>9. w.link # Null /\ w.link \notin signInCrossed' =>
         \/ home' = home /\ id \in Account!FindByOAuth(w.link)
         \/ /\ home' = [home EXCEPT ![w.link] = id] /\ Account!FindByOAuth(w.link) = {}
            /\ \A o \in Calls \ {q} : req[o].pc \in {"create", "link"} => req[o].by # w.link
  BY <1>3, <1>4, <1>8
<1>10. home' = home \/ (w.link # Null /\ home' = [home EXCEPT ![w.link] = id])
  BY <1>3, <1>4, <1>7
<1> QED BY <1>1, <1>3, <1>4, <1>5, <1>6, <1>7, <1>9, <1>10, RequestWrites

\* A write that leaves the link of its account.
LEMMA LinkStays ==
  ASSUME AccountInv, NEW q \in Calls, NEW id \in Account!Accounts, NEW w \in Account!Account,
         req' = [req EXCEPT ![q] = Account!Idle], user' = [user EXCEPT ![id] = w],
         UNCHANGED <<created, home, strayed>>, signInCrossed \subseteq signInCrossed',
         \A a \in Account!Accounts \ {id} : user[a].name # w.name /\ user[a].email # w.email,
         w.link = user[id].link, w.password = TRUE \/ w.password = user[id].password
  PROVE  AccountInv'
<1>1. Account!Accounts = 1 .. created /\ created \in Account!Ids \cup {0} /\ id \in Account!Ids
  BY DEF AccountInv, Account!TypeOK, Account!Accounts
<1>2. created' \in Account!Ids /\ id \in 1 .. created' /\ 1 .. created' = 1 .. created \cup {id}
  BY <1>1
<1>3. WayIn(w)
  BY DEF AccountInv, WaysIn, WayIn
<1>4. id \in Account!FindByOAuth(w.link)
  BY DEF Account!FindByOAuth
<1>5. w.link # Null /\ w.link \notin signInCrossed' =>
         \/ home' = home /\ id \in Account!FindByOAuth(w.link)
         \/ /\ home' = [home EXCEPT ![w.link] = id] /\ Account!FindByOAuth(w.link) = {}
            /\ \A o \in Calls \ {q} : req[o].pc \in {"create", "link"} => req[o].by # w.link
  BY <1>4
<1>6. strayed' = strayed /\ (home' = home \/ (w.link # Null /\ home' = [home EXCEPT ![w.link] = id]))
  OBVIOUS
<1> QED BY <1>1, <1>2, <1>3, <1>5, <1>6, RequestWrites

LEMMA Informs == ASSUME AccountInv, NEW q \in Calls, Account!CommitInfo(q) PROVE AccountInv'
<1> PICK r : r = req[q]
  OBVIOUS
<1> PICK id : id = r.id
  OBVIOUS
<1> PICK v : v = user[id]
  OBVIOUS
<1>1. /\ r.pc = "info" /\ id \in Account!Accounts /\ r.name \in Account!Names /\ r.email \in Emails
  BY DEF Account!CommitInfo, AccountInv, AccountsThere, Account!TypeOK, Account!Request, Account!Idle
<1>2. v \in Account!Account
  BY <1>1 DEF AccountInv, Account!TypeOK, Account!Accounts
<1> DEFINE w == [v EXCEPT !.name = r.name, !.email = r.email]
<1>3. /\ req' = [req EXCEPT ![q] = Account!Idle] /\ user' = [user EXCEPT ![id] = w]
      /\ UNCHANGED <<created, home, strayed>> /\ signInCrossed \subseteq signInCrossed'
  BY DEF Account!CommitInfo, Account!Ends
<1>4. w \in Account!Account /\ w.name = r.name /\ w.email = r.email /\ w.link = v.link /\ w.password = v.password
  BY <1>1, <1>2 DEF Account!Account
<1> HIDE DEF w
<1>5. \A a \in Account!Accounts \ {id} : user[a].name # w.name /\ user[a].email # w.email
  BY <1>4 DEF Account!CommitInfo, Account!NameTaken, Account!EmailTaken
<1> QED BY <1>1, <1>3, <1>4, <1>5, LinkStays

LEMMA Administers ==
  ASSUME AccountInv, NEW q \in Calls, NEW a \in Account!Ids,
         Account!ResetPassword(q, a) \/ \E role \in {"user", "admin"} : Account!UpdateRole(q, a, role)
  PROVE  AccountInv'
<1> PICK v : v = user[a]
  OBVIOUS
<1>1. /\ a \in Account!Accounts /\ req' = [req EXCEPT ![q] = Account!Idle]
      /\ UNCHANGED <<created, home, strayed, signInCrossed>>
  BY DEF Account!ResetPassword, Account!UpdateRole, Account!Begins
<1>2. v \in Account!Account
  BY <1>1 DEF AccountInv, Account!TypeOK, Account!Accounts
<1>3. PICK w \in Account!Account :
         /\ user' = [user EXCEPT ![a] = w]
         /\ w.name = v.name /\ w.email = v.email /\ w.link = v.link
         /\ w.password = TRUE \/ w.password = v.password
  <2>1. CASE Account!ResetPassword(q, a)
    <3> DEFINE w == [v EXCEPT !.password = TRUE]
    <3>1. w \in Account!Account /\ w.name = v.name /\ w.email = v.email /\ w.link = v.link /\ w.password = TRUE
      BY <1>2 DEF Account!Account
    <3>2. user' = [user EXCEPT ![a] = w]
      BY <2>1 DEF Account!ResetPassword
    <3> HIDE DEF w
    <3> QED BY <3>1, <3>2
  <2>2. ASSUME NEW role \in {"user", "admin"}, Account!UpdateRole(q, a, role)
        PROVE  \E w \in Account!Account :
                  /\ user' = [user EXCEPT ![a] = w]
                  /\ w.name = v.name /\ w.email = v.email /\ w.link = v.link
                  /\ w.password = TRUE \/ w.password = v.password
    <3> DEFINE w == [v EXCEPT !.role = role]
    <3>1. w \in Account!Account /\ w.name = v.name /\ w.email = v.email /\ w.link = v.link /\ w.password = v.password
      BY <1>2 DEF Account!Account
    <3>2. user' = [user EXCEPT ![a] = w]
      BY <2>2 DEF Account!UpdateRole
    <3> HIDE DEF w
    <3> QED BY <3>1, <3>2
  <2> QED BY <2>1, <2>2
<1>4. \A b \in Account!Accounts \ {a} : user[b].name # w.name /\ user[b].email # w.email
  BY <1>1, <1>3 DEF AccountInv, OwnNames
<1> QED BY <1>1, <1>3, <1>4, LinkStays

LEMMA AccountStep == AccountInv /\ Account!Next => AccountInv'
<1> SUFFICES ASSUME AccountInv, Account!Next PROVE AccountInv'
  OBVIOUS
<1>1. ASSUME NEW q \in Calls,
             \/ \E n \in 0 .. 1, e \in Emails :
                   Account!Register(q, n, e) \/ \E a \in Account!Ids : Account!ChangeInfo(q, a, n, e)
             \/ \E i \in Identities : Account!SignIn(q, i)
             \/ Account!ExchangeFails(q)
             \/ Account!CommitCreate(q) \/ Account!CommitLink(q) \/ Account!CommitInfo(q)
             \/ Account!Refused(q) \/ Account!CommitFails(q)
             \/ \E a \in Account!Ids : \/ Account!ResetPassword(q, a)
                                       \/ \E role \in {"user", "admin"} : Account!UpdateRole(q, a, role)
      PROVE  AccountInv'
  BY <1>1, Reads, SignsIn, NothingWritten, Creates, Links, Informs, Administers
<1> QED BY <1>1 DEF Account!Next

LEMMA AccountInitially == Account!Init => AccountInv
<1> SUFFICES ASSUME Account!Init PROVE AccountInv
  OBVIOUS
<1>1. Account!Accounts = {} /\ \A i : Account!FindByOAuth(i) = {}
  BY DEF Account!Init, Account!Accounts, Account!FindByOAuth
<1>2. Account!TypeOK
  BY <1>1 DEF Account!Init, Account!TypeOK, Account!Request, Account!Idle
<1>3. AccountsThere /\ OwnNames /\ WaysIn /\ \A i \in Identities : LinkKept(i)
  BY <1>1 DEF Account!Init, AccountsThere, OwnNames, WaysIn, LinkKept, Account!Idle
<1> QED BY <1>2, <1>3 DEF AccountInv

LEMMA AccountStutter == AccountInv /\ UNCHANGED accountVars => AccountInv'
<1> SUFFICES ASSUME AccountInv, UNCHANGED accountVars PROVE AccountInv'
  OBVIOUS
<1>1. /\ user' = user /\ created' = created /\ req' = req /\ home' = home /\ strayed' = strayed
      /\ signInCrossed' = signInCrossed
  BY DEF accountVars
<1>2. Account!Accounts' = Account!Accounts /\ \A i : Account!FindByOAuth(i)' = Account!FindByOAuth(i)
  BY <1>1 DEF Account!Accounts, Account!FindByOAuth
<1>3. Account!TypeOK'
  BY <1>1, <1>2 DEF AccountInv, Account!TypeOK
<1> QED BY <1>1, <1>2, <1>3 DEF AccountInv, AccountsThere, OwnNames, WaysIn, LinkKept

\* However names, e-mails and links change, names and e-mails stay unique, every
\* account has a way in, and an identity keeps the account it was signed in to,
\* unless a write to it fell into one of its sign-ins.
THEOREM IdentitiesKeepAccounts == PlatformSpec => []IdentityKeepsAccount
<1>1. PlatformInit => AccountInv
  BY AccountInitially DEF PlatformInit
<1>2. AccountInv /\ [PlatformNext]_platformVars => AccountInv'
  <2>1. UNCHANGED platformVars => UNCHANGED accountVars
    BY DEF platformVars, accountVars
  <2> QED BY <2>1, AccountStep, AccountStutter DEF PlatformNext
<1>3. AccountInv => IdentityKeepsAccount
  <2> SUFFICES ASSUME AccountInv PROVE IdentityKeepsAccount
    OBVIOUS
  <2>1. \A a \in Account!Accounts : user[a].password \/ user[a].link # Null
    BY DEF AccountInv, WaysIn, WayIn
  <2>2. strayed \subseteq signInCrossed
    BY DEF AccountInv, AccountsThere, LinkKept
  <2>4. \A i \in Identities \ signInCrossed : \A a, b \in Account!FindByOAuth(i) : a = b
    BY DEF AccountInv, LinkKept
  <2>5. \A a, b \in Account!Accounts : a # b => user[a].name # user[b].name /\ user[a].email # user[b].email
    BY DEF AccountInv, OwnNames
  <2>6. Account!TypeOK
    BY DEF AccountInv
  <2> QED BY <2>1, <2>2, <2>4, <2>5, <2>6 DEF IdentityKeepsAccount, Account!IdentityKeepsAccount
<1> QED BY <1>1, <1>2, <1>3, PTL DEF PlatformSpec

HIDE AccountsAssumed DEF Account!AccountsAssumption

-----------------------------------------------------------------------------
(* Tokens and the rate limiter *)

USE SessionsAssumed DEF Session!SessionsAssumption

\* The entry of a revoked token outlives it, but for its last second.
EntryLasts(i) ==
    /\ i \in DOMAIN blacklist
    /\ blacklist[i] \in Int /\ tokens[i].exp - blacklist[i] < Session!Second

\* The requests of the history were counted by the counter that lives, which
\* will outlast the window of each.
PlacesTaken(a) ==
    /\ \A r \in arrivals[a] :
          /\ r.at \in Nat /\ r.at <= clock /\ r.at + LimitSeconds * Session!Second <= rate[a].until
          /\ r.place \in 1 .. rate[a].count
          /\ r.ok => r.place <= MaxRequests
    /\ \A r, s \in arrivals[a] : r # s => r.place # s.place

SessionInv ==
    /\ Session!TypeOK
    /\ DOMAIN arrivals = Session!Actions
    /\ \A i \in revoked : EntryLasts(i)
    /\ \A left \in leaked : left < Session!Second
    /\ \A a \in Session!Actions : PlacesTaken(a)

SessionToken == [kind : {"access", "refresh"}, from : Nat \cup {Null}, exp : Nat]

\* A step that issues tokens or none leaves those that were issued.
TokensStay ==
    /\ tokens' \in Seq(SessionToken) /\ Len(tokens) <= Len(tokens')
    /\ \A i \in Session!Issued : tokens'[i] = tokens[i]

LEMMA IssuedStay == ASSUME SessionInv, TokensStay PROVE Session!Issued \subseteq Session!Issued'
BY DEF SessionInv, Session!TypeOK, Session!Issued, TokensStay

Idles(r) ==
    r \in {Session!Idle} \cup [pc : {"verify", "create"}, token : Session!Issued]
                         \cup [pc : {"revoke"}, named : Seq(Session!Issued)]

LEMMA SeqWider == ASSUME NEW S, NEW T, S \subseteq T, NEW s \in Seq(S) PROVE s \in Seq(T)
OBVIOUS

LEMMA IdlesStay == ASSUME SessionInv, TokensStay, NEW r, Idles(r) PROVE Idles(r)'
<1>1. Session!Issued \subseteq Session!Issued'
  BY IssuedStay
<1>2. \A s \in Seq(Session!Issued) : s \in Seq(Session!Issued')
  BY <1>1, SeqWider
<1>3. CASE r = Session!Idle
  BY <1>3 DEF Idles, Session!Idle
<1>4. CASE r \in [pc : {"verify", "create"}, token : Session!Issued]
  BY <1>1, <1>4 DEF Idles
<1>5. CASE r \in [pc : {"revoke"}, named : Seq(Session!Issued)]
  <2>1. r \in [pc : {"revoke"}, named : Seq(Session!Issued')]
    BY <1>2, <1>5
  <2> QED BY <2>1 DEF Idles
<1> QED BY <1>3, <1>4, <1>5 DEF Idles

\* The requests of a step in which q may have become r.
LEMMA RequestsTyped ==
  ASSUME SessionInv, TokensStay, NEW q \in SessionRequests, NEW r, Idles(r)',
         request' = request \/ request' = [request EXCEPT ![q] = r]
  PROVE  (request \in [SessionRequests -> {Session!Idle} \cup [pc : {"verify", "create"}, token : Session!Issued]
                                             \cup [pc : {"revoke"}, named : Seq(Session!Issued)]])'
<1>1. \A p \in SessionRequests : Idles(request[p])
  BY DEF SessionInv, Session!TypeOK, Idles
<1>2. \A p \in SessionRequests : request'[p] = r \/ request'[p] = request[p]
  BY DEF SessionInv, Session!TypeOK
<1>3. \A p \in SessionRequests : Idles(request[p])'
  <2> SUFFICES ASSUME NEW p \in SessionRequests PROVE Idles(request[p])'
    OBVIOUS
  <2> PICK o : o = request[p]
    OBVIOUS
  <2>1. Idles(o)'
    BY <1>1, IdlesStay
  <2> QED BY <1>2, <2>1 DEF Idles
<1>4. \E S : request' \in [SessionRequests -> S]
  <2>1. PICK S : request \in [SessionRequests -> S]
    BY DEF SessionInv, Session!TypeOK
  <2>2. request' \in [SessionRequests -> S \cup {r}]
    BY <2>1
  <2> QED BY <2>2
<1> QED BY <1>3, <1>4 DEF Idles

LEMMA RequestsStay ==
  ASSUME SessionInv, TokensStay, UNCHANGED request
  PROVE  (request \in [SessionRequests -> {Session!Idle} \cup [pc : {"verify", "create"}, token : Session!Issued]
                                             \cup [pc : {"revoke"}, named : Seq(Session!Issued)]])'
<1>1. \A p \in SessionRequests : Idles(request[p])
  BY DEF SessionInv, Session!TypeOK, Idles
<1>2. \A p \in SessionRequests : Idles(request[p])'
  <2> SUFFICES ASSUME NEW p \in SessionRequests PROVE Idles(request[p])'
    OBVIOUS
  <2> PICK o : o = request[p]
    OBVIOUS
  <2>1. Idles(o)'
    BY <1>1, IdlesStay
  <2> QED BY <2>1 DEF Idles
<1>3. \E S : request' \in [SessionRequests -> S]
  BY DEF SessionInv, Session!TypeOK
<1> QED BY <1>2, <1>3 DEF Idles

\* What the limiter leaves is a counter and its history.
RateTyped == rate \in [Session!Actions -> [count : Nat, until : Nat]]

LEMMA Limits ==
  ASSUME SessionInv, NEW a \in Session!Actions, NEW ok, Session!Limit(a, ok), UNCHANGED clock
  PROVE  RateTyped' /\ DOMAIN arrivals' = Session!Actions /\ \A b \in Session!Actions : PlacesTaken(b)'
<1>1. CASE UNCHANGED <<rate, arrivals>>
  BY <1>1 DEF SessionInv, Session!TypeOK, RateTyped, PlacesTaken
<1>2. CASE ~UNCHANGED <<rate, arrivals>>
  <2> PICK c : c = Session!Current(a)
    OBVIOUS
  <2> PICK lasts : lasts = LimitSeconds * Session!Second
    OBVIOUS
  <2> PICK u : u = clock + lasts
    OBVIOUS
  <2> PICK n : n = [call |-> calls', at |-> clock, place |-> c + 1, ok |-> ok]
    OBVIOUS
  <2>1. clock \in Nat /\ c \in Nat /\ u \in Nat /\ lasts \in Nat /\ c <= rate[a].count
    BY DEF SessionInv, Session!TypeOK, Session!Current, Session!Second
  <2>2. /\ rate' = [rate EXCEPT ![a] = [count |-> c + 1, until |-> u]]
        /\ arrivals' = [arrivals EXCEPT ![a] = Session!Recent(a) \cup {n}]
        /\ ok => c + 1 <= MaxRequests
    BY <1>2 DEF Session!Limit, Session!Counted
  <2>3. RateTyped'
    BY <2>1, <2>2 DEF SessionInv, Session!TypeOK, RateTyped
  <2>4. /\ rate'[a].count = c + 1 /\ rate'[a].until = u /\ arrivals'[a] = Session!Recent(a) \cup {n}
        /\ \A b \in Session!Actions : b # a => rate'[b] = rate[b] /\ arrivals'[b] = arrivals[b]
    BY <2>2 DEF SessionInv, Session!TypeOK
  <2>5. \A r \in Session!Recent(a) :
           /\ r \in arrivals[a] /\ r.at \in Nat /\ r.at <= clock /\ r.at + lasts <= u
           /\ r.place \in 1 .. c /\ (r.ok => r.place <= MaxRequests)
    <3> SUFFICES ASSUME NEW r \in Session!Recent(a)
                 PROVE  /\ r \in arrivals[a] /\ r.at \in Nat /\ r.at <= clock /\ r.at + lasts <= u
                        /\ r.place \in 1 .. c /\ (r.ok => r.place <= MaxRequests)
      OBVIOUS
    <3>1. r \in arrivals[a] /\ r.at > clock - lasts
      BY DEF Session!Recent
    <3>2. /\ r.at \in Nat /\ r.at <= clock /\ r.at + lasts <= rate[a].until
          /\ r.place \in 1 .. rate[a].count /\ (r.ok => r.place <= MaxRequests)
      BY <3>1 DEF SessionInv, PlacesTaken
    <3>3. rate[a].until \in Nat
      BY DEF SessionInv, Session!TypeOK, Session!Second
    <3>4. clock < rate[a].until
      BY <2>1, <3>1, <3>2, <3>3
    <3>5. c = rate[a].count
      BY <3>4 DEF Session!Current
    <3>6. r.at + lasts <= u
      BY <2>1, <3>2, <3>3
    <3> QED BY <3>1, <3>2, <3>5, <3>6
  <2>6. PlacesTaken(a)'
    <3>1. n.at = clock /\ n.place = c + 1 /\ (n.ok => c + 1 <= MaxRequests)
      BY <2>2
    <3>3. \A r \in arrivals'[a] :
             /\ r.at \in Nat /\ r.at <= clock /\ r.at + lasts <= u
             /\ r.place \in 1 .. c + 1 /\ (r.ok => r.place <= MaxRequests)
      BY <2>1, <2>4, <2>5, <3>1
    <3>4. \A r, s \in arrivals'[a] : r # s => r.place # s.place
      <4> SUFFICES ASSUME NEW r \in arrivals'[a], NEW s \in arrivals'[a], r # s PROVE r.place # s.place
        OBVIOUS
      <4>1. CASE r \in Session!Recent(a) /\ s \in Session!Recent(a)
        BY <2>5, <4>1 DEF SessionInv, PlacesTaken
      <4>2. CASE r = n \/ s = n
        BY <2>1, <2>4, <2>5, <3>1, <4>2
      <4> QED BY <2>4, <4>1, <4>2
    <3> QED BY <2>1, <2>4, <3>3, <3>4 DEF PlacesTaken
  <2>7. \A b \in Session!Actions : b # a => PlacesTaken(b)'
    BY <2>4 DEF SessionInv, PlacesTaken
  <2>8. DOMAIN arrivals' = Session!Actions
    BY <2>2 DEF SessionInv
  <2> QED BY <2>3, <2>6, <2>7, <2>8
<1> QED BY <1>1, <1>2

\* The parts of the invariant that a step with no tokens and no limiter keeps.
LEMMA SessionSteps ==
  ASSUME SessionInv, UNCHANGED clock, TokensStay,
         (request \in [SessionRequests -> {Session!Idle} \cup [pc : {"verify", "create"}, token : Session!Issued]
                                             \cup [pc : {"revoke"}, named : Seq(Session!Issued)]])',
         \/ UNCHANGED <<blacklist, revoked>>
         \/ \E i \in Session!Issued :
               /\ DOMAIN blacklist' = DOMAIN blacklist \cup {i} /\ revoked' = revoked \cup {i}
               /\ blacklist'[i] \in Int /\ tokens[i].exp - blacklist'[i] < Session!Second
               /\ \A j \in DOMAIN blacklist : j # i => blacklist'[j] = blacklist[j],
         \/ UNCHANGED <<socket, connections>>
         \/ \E s \in Sockets :
               \/ socket' = [socket EXCEPT ![s] = "open"] /\ connections' = connections \cup {s}
               \/ socket' = [socket EXCEPT ![s] = "closed"] /\ connections' = connections \ {s},
         \/ UNCHANGED <<rate, arrivals>>
         \/ RateTyped' /\ DOMAIN arrivals' = Session!Actions /\ \A b \in Session!Actions : PlacesTaken(b)',
         \A left \in leaked' : left < Session!Second
  PROVE  SessionInv'
<1>1. Session!Issued \subseteq Session!Issued' /\ \A i \in Session!Issued : tokens'[i] = tokens[i]
  BY IssuedStay DEF TokensStay
<1>2. RateTyped' /\ DOMAIN arrivals' = Session!Actions /\ \A b \in Session!Actions : PlacesTaken(b)'
  BY DEF SessionInv, Session!TypeOK, RateTyped, PlacesTaken
<1>3. DOMAIN blacklist' \subseteq Session!Issued' /\ revoked' \subseteq Session!Issued' /\ \A i \in revoked' : EntryLasts(i)'
  <2>0. DOMAIN blacklist \subseteq Session!Issued /\ revoked \subseteq Session!Issued
        /\ \A i \in revoked : EntryLasts(i)
    BY DEF SessionInv, Session!TypeOK
  <2>1. CASE UNCHANGED <<blacklist, revoked>>
    BY <1>1, <2>0, <2>1 DEF EntryLasts
  <2>2. CASE ~UNCHANGED <<blacklist, revoked>>
    <3>1. PICK i \in Session!Issued :
             /\ DOMAIN blacklist' = DOMAIN blacklist \cup {i} /\ revoked' = revoked \cup {i}
             /\ blacklist'[i] \in Int /\ tokens[i].exp - blacklist'[i] < Session!Second
             /\ \A j \in DOMAIN blacklist : j # i => blacklist'[j] = blacklist[j]
      BY <2>2
    <3>2. \A j \in revoked' : EntryLasts(j)'
      <4> SUFFICES ASSUME NEW j \in revoked' PROVE EntryLasts(j)'
        OBVIOUS
      <4>1. CASE j = i
        BY <1>1, <3>1, <4>1 DEF EntryLasts
      <4>2. CASE j # i
        BY <1>1, <2>0, <3>1, <4>2 DEF EntryLasts
      <4> QED BY <4>1, <4>2
    <3> QED BY <1>1, <2>0, <3>1, <3>2
  <2> QED BY <2>1, <2>2
<1>4. /\ (socket \in [Sockets -> {"new", "open", "closed"}])'
      /\ (connections = {s \in Sockets : socket[s] = "open"})'
  <2>1. CASE UNCHANGED <<socket, connections>>
    BY <2>1 DEF SessionInv, Session!TypeOK
  <2>2. ASSUME NEW s \in Sockets, socket' = [socket EXCEPT ![s] = "open"], connections' = connections \cup {s}
        PROVE  /\ (socket \in [Sockets -> {"new", "open", "closed"}])'
               /\ (connections = {t \in Sockets : socket[t] = "open"})'
    BY <2>2 DEF SessionInv, Session!TypeOK
  <2>3. ASSUME NEW s \in Sockets, socket' = [socket EXCEPT ![s] = "closed"], connections' = connections \ {s}
        PROVE  /\ (socket \in [Sockets -> {"new", "open", "closed"}])'
               /\ (connections = {t \in Sockets : socket[t] = "open"})'
    BY <2>3 DEF SessionInv, Session!TypeOK
  <2> QED BY <2>1, <2>2, <2>3
<1>5. Session!TypeOK'
  <2>1. clock' \in Nat /\ tokens' \in Seq(SessionToken)
    BY DEF SessionInv, Session!TypeOK, TokensStay
  <2> QED BY <1>2, <1>3, <1>4, <2>1 DEF Session!TypeOK, RateTyped, SessionToken
<1> QED BY <1>2, <1>3, <1>5 DEF SessionInv

LEMMA TokenTyped == ASSUME SessionInv, NEW i \in Session!Issued PROVE tokens[i] \in SessionToken
<1>1. tokens \in Seq(SessionToken)
  BY DEF SessionInv, Session!TypeOK, SessionToken
<1> QED BY <1>1, ElementOfSeq DEF Session!Issued

\* What a request under way names.
LEMMA RequestNames ==
  ASSUME SessionInv, NEW q \in SessionRequests
  PROVE  /\ request[q].pc \in {"verify", "create"} => request[q].token \in Session!Issued
         /\ request[q].pc = "revoke" => /\ request[q] \in [pc : {"revoke"}, named : Seq(Session!Issued)]
                                       /\ request[q].named \in Seq(Session!Issued)
<1>1. \/ request[q] = Session!Idle
      \/ request[q] \in [pc : {"verify", "create"}, token : Session!Issued]
      \/ request[q] \in [pc : {"revoke"}, named : Seq(Session!Issued)]
  BY DEF SessionInv, Session!TypeOK
<1> QED BY <1>1 DEF Session!Idle

\* An accepted token that was revoked is in its last second.
LEMMA AcceptsLate ==
  ASSUME SessionInv, NEW i \in Session!Issued, NEW reached, Session!Verifies(i, reached), Session!Accepts(i, reached)
  PROVE  \A left \in leaked' : left < Session!Second
<1>1. CASE reached /\ i \in revoked
  <2>1. i \in DOMAIN blacklist /\ blacklist[i] \in Int /\ tokens[i].exp - blacklist[i] < Session!Second
    BY <1>1 DEF SessionInv, EntryLasts
  <2>2. clock \in Nat /\ tokens[i].exp \in Nat
    BY TokenTyped DEF SessionInv, Session!TypeOK, SessionToken
  <2>3. ~(clock < blacklist[i])
    BY <1>1, <2>1 DEF Session!Verifies, Session!Blacklisted
  <2>4. tokens[i].exp - clock < Session!Second
    BY <2>1, <2>2, <2>3 DEF Session!Second
  <2>5. leaked' = leaked \cup {tokens[i].exp - clock}
    BY <1>1 DEF Session!Accepts
  <2> QED BY <2>4, <2>5 DEF SessionInv
<1>2. CASE ~(reached /\ i \in revoked)
  BY <1>2 DEF Session!Accepts, SessionInv
<1> QED BY <1>1, <1>2

LEMMA NewToken ==
  ASSUME SessionInv, NEW kind \in {"access", "refresh"}, NEW from \in Nat \cup {Null}
  PROVE  Session!Token(kind, from) \in SessionToken
<1>1. Session!Lifetime(kind) \in Nat /\ clock \in Nat
  BY DEF Session!Lifetime, Session!Second, SessionInv, Session!TypeOK
<1>2. Session!ToSecond(clock + Session!Lifetime(kind)) \in Nat
  BY <1>1 DEF Session!ToSecond, Session!Second
<1> QED BY <1>2 DEF Session!Token, SessionToken

LEMMA NoNewToken == ASSUME SessionInv, UNCHANGED tokens PROVE TokensStay
BY DEF SessionInv, Session!TypeOK, TokensStay, SessionToken

LEMMA LogsIn == ASSUME SessionInv, Session!Login PROVE SessionInv'
<1>1. PICK ok \in BOOLEAN :
        /\ Session!Limit("login", ok)
        /\ tokens' = IF ok THEN tokens \o <<Session!Token("access", Null), Session!Token("refresh", Null)>> ELSE tokens
  BY DEF Session!Login
<1>2. UNCHANGED <<clock, blacklist, request, socket, connections, revoked, leaked>>
  BY DEF Session!Login
<1>3. TokensStay
  <2> PICK a, b : a = Session!Token("access", Null) /\ b = Session!Token("refresh", Null)
    OBVIOUS
  <2>1. a \in SessionToken /\ b \in SessionToken
    BY NewToken
  <2>2. tokens \in Seq(SessionToken)
    BY DEF SessionInv, Session!TypeOK, SessionToken
  <2>3. CASE tokens' = tokens
    BY <2>3, NoNewToken
  <2>4. CASE tokens' = tokens \o <<a, b>>
    BY <2>1, <2>2, <2>4 DEF TokensStay, Session!Issued
  <2> QED BY <1>1, <2>3, <2>4
<1>4. "login" \in Session!Actions
  BY DEF Session!Actions
<1>5. RateTyped' /\ DOMAIN arrivals' = Session!Actions /\ \A b \in Session!Actions : PlacesTaken(b)'
  BY <1>1, <1>2, <1>4, Limits
<1>6. \A left \in leaked' : left < Session!Second
  BY <1>2 DEF SessionInv
<1> QED BY <1>2, <1>3, <1>5, <1>6, RequestsStay, SessionSteps

LEMMA Refreshes ==
  ASSUME SessionInv, NEW q \in SessionRequests, NEW i \in Session!Issued, Session!StartRefresh(q, i)
  PROVE  SessionInv'
<1>1. PICK ok \in BOOLEAN :
        /\ Session!Limit("refresh", ok)
        /\ request' = IF ok THEN [request EXCEPT ![q] = [pc |-> "verify", token |-> i]] ELSE request
  BY DEF Session!StartRefresh
<1>2. UNCHANGED <<clock, tokens, blacklist, socket, connections, revoked, leaked>>
  BY DEF Session!StartRefresh
<1>3. TokensStay
  BY <1>2, NoNewToken
<1>4. "refresh" \in Session!Actions
  BY DEF Session!Actions
<1>5. RateTyped' /\ DOMAIN arrivals' = Session!Actions /\ \A b \in Session!Actions : PlacesTaken(b)'
  BY <1>1, <1>2, <1>4, Limits
<1>6. \A left \in leaked' : left < Session!Second
  BY <1>2 DEF SessionInv
<1> PICK r : r = [pc |-> "verify", token |-> i]
  OBVIOUS
<1>7. Idles(r) /\ (request' = request \/ request' = [request EXCEPT ![q] = r])
  BY <1>1 DEF Idles
<1>8. Idles(r)'
  BY <1>3, <1>7, IdlesStay
<1>9. (request \in [SessionRequests -> {Session!Idle} \cup [pc : {"verify", "create"}, token : Session!Issued]
                                             \cup [pc : {"revoke"}, named : Seq(Session!Issued)]])'
  BY <1>3, <1>7, <1>8, RequestsTyped
<1> QED BY <1>2, <1>3, <1>5, <1>6, <1>9, SessionSteps

\* A step of one request that neither issues nor revokes.
LEMMA RequestSteps ==
  ASSUME SessionInv, NEW q \in SessionRequests, NEW r, Idles(r), request' = [request EXCEPT ![q] = r],
         UNCHANGED <<clock, tokens, blacklist, rate, socket, connections, revoked, arrivals>>,
         \A left \in leaked' : left < Session!Second
  PROVE  SessionInv'
<1>1. TokensStay
  BY NoNewToken
<1>2. Idles(r)'
  BY <1>1, IdlesStay
<1> QED BY <1>1, <1>2, RequestsTyped, SessionSteps

LEMMA IdleIdles == Idles(Session!Idle)
BY DEF Idles

LEMMA VerifiesRefresh == ASSUME SessionInv, NEW q \in SessionRequests, Session!VerifyRefresh(q) PROVE SessionInv'
<1> PICK i : i = request[q].token
  OBVIOUS
<1>1. request[q].pc = "verify" /\ UNCHANGED <<clock, tokens, blacklist, rate, socket, connections, revoked, arrivals>>
  BY DEF Session!VerifyRefresh
<1>2. i \in Session!Issued
  BY <1>1, RequestNames
<1>3. PICK reached \in BOOLEAN :
        IF Session!Verifies(i, reached) /\ tokens[i].kind = "refresh"
        THEN /\ request' = [request EXCEPT ![q] = [pc |-> "create", token |-> i]]
             /\ Session!Accepts(i, reached)
        ELSE request' = [request EXCEPT ![q] = Session!Idle] /\ UNCHANGED leaked
  BY DEF Session!VerifyRefresh
<1>4. CASE Session!Verifies(i, reached) /\ tokens[i].kind = "refresh"
  <2> PICK r : r = [pc |-> "create", token |-> i]
    OBVIOUS
  <2>1. Idles(r)
    BY <1>2 DEF Idles
  <2>2. request' = [request EXCEPT ![q] = r] /\ Session!Accepts(i, reached)
    BY <1>3, <1>4
  <2>3. \A left \in leaked' : left < Session!Second
    BY <1>2, <1>4, <2>2, AcceptsLate
  <2> QED BY <1>1, <2>1, <2>2, <2>3, RequestSteps
<1>5. CASE ~(Session!Verifies(i, reached) /\ tokens[i].kind = "refresh")
  <2>1. request' = [request EXCEPT ![q] = Session!Idle] /\ UNCHANGED leaked
    BY <1>3, <1>5
  <2>2. \A left \in leaked' : left < Session!Second
    BY <2>1 DEF SessionInv
  <2> QED BY <1>1, <2>1, <2>2, IdleIdles, RequestSteps
<1> QED BY <1>4, <1>5

LEMMA CreatesAccess == ASSUME SessionInv, NEW q \in SessionRequests, Session!CreateAccess(q) PROVE SessionInv'
<1> PICK i : i = request[q].token
  OBVIOUS
<1>1. /\ request[q].pc = "create" /\ request' = [request EXCEPT ![q] = Session!Idle]
      /\ UNCHANGED <<clock, blacklist, rate, socket, connections, revoked, leaked, arrivals>>
  BY DEF Session!CreateAccess
<1>2. i \in Session!Issued
  BY <1>1, RequestNames
<1>3. TokensStay
  <2> PICK a : a = Session!Token("access", i)
    OBVIOUS
  <2>1. a \in SessionToken
    BY <1>2, NewToken DEF Session!Issued
  <2>2. tokens \in Seq(SessionToken)
    BY DEF SessionInv, Session!TypeOK, SessionToken
  <2>3. CASE tokens' = tokens
    BY <2>3, NoNewToken
  <2>4. CASE tokens' = Append(tokens, a)
    BY <2>1, <2>2, <2>4 DEF TokensStay, Session!Issued
  <2> QED BY <2>3, <2>4 DEF Session!CreateAccess
<1>4. Idles(Session!Idle)'
  BY <1>3, IdleIdles, IdlesStay
<1>5. \A left \in leaked' : left < Session!Second
  BY <1>1 DEF SessionInv
<1>6. (request \in [SessionRequests -> {Session!Idle} \cup [pc : {"verify", "create"}, token : Session!Issued]
                                             \cup [pc : {"revoke"}, named : Seq(Session!Issued)]])'
  BY <1>1, <1>3, <1>4, RequestsTyped
<1> QED BY <1>1, <1>3, <1>5, <1>6, SessionSteps

LEMMA UsesToken == ASSUME SessionInv, NEW i \in Session!Issued, Session!Use(i) PROVE SessionInv'
<1>1. UNCHANGED <<clock, tokens, blacklist, rate, request, socket, connections, revoked, arrivals>>
  BY DEF Session!Use
<1>2. \A left \in leaked' : left < Session!Second
  BY AcceptsLate DEF Session!Use
<1>3. TokensStay
  BY <1>1, NoNewToken
<1> QED BY <1>1, <1>2, <1>3, RequestsStay, SessionSteps

LEMMA NamedIssued == ASSUME NEW named \in Session!Named PROVE named \in Seq(Session!Issued)
<1> PICK S : S = Session!Issued
  OBVIOUS
<1>1. \/ named = <<>>
      \/ \E i \in S : named = <<i>>
      \/ named \in S \X S
  BY DEF Session!Named
<1>2. ASSUME NEW i \in S, named = <<i>> PROVE named \in Seq(S)
  BY <1>2
<1>3. CASE named \in S \X S
  <2>1. PICK i, j \in S : named = <<i, j>>
    BY <1>3
  <2> QED BY <2>1
<1>4. CASE named = <<>>
  BY <1>4
<1> QED BY <1>1, <1>2, <1>3, <1>4

LEMMA StartsLogout ==
  ASSUME SessionInv, NEW q \in SessionRequests, NEW i \in Session!Issued, NEW named \in Session!Named,
         Session!StartLogout(q, i, named)
  PROVE  SessionInv'
<1> PICK r : r = [pc |-> "revoke", named |-> named]
  OBVIOUS
<1>1. /\ UNCHANGED <<clock, tokens, blacklist, rate, socket, connections, revoked, arrivals>>
      /\ request' = [request EXCEPT ![q] = r]
  BY DEF Session!StartLogout
<1>2. \A left \in leaked' : left < Session!Second
  BY AcceptsLate DEF Session!StartLogout
<1>3. Idles(r)
  BY NamedIssued DEF Idles
<1> QED BY <1>1, <1>2, <1>3, RequestSteps

\* The entry of a token lasts until less than a second before its end.
LEMMA RemainingLasts ==
  ASSUME NEW e \in Nat, NEW n \in Nat
  PROVE  n + ((e - n) \div 2) * 2 \in Int /\ e - (n + ((e - n) \div 2) * 2) < 2
OBVIOUS

LEMMA RevokesToken == ASSUME SessionInv, NEW q \in SessionRequests, Session!Revoke(q) PROVE SessionInv'
<1> PICK c : c = request[q]
  OBVIOUS
<1>1. /\ c.pc = "revoke" /\ UNCHANGED <<clock, tokens, rate, socket, connections, leaked, arrivals>>
      /\ c \in [pc : {"revoke"}, named : Seq(Session!Issued)] /\ c.named \in Seq(Session!Issued)
  BY RequestNames DEF Session!Revoke
<1>2. TokensStay
  BY <1>1, NoNewToken
<1>3. \A left \in leaked' : left < Session!Second
  BY <1>1 DEF SessionInv
<1>4. CASE c.named = <<>>
  <2>1. request' = [request EXCEPT ![q] = Session!Idle] /\ UNCHANGED <<blacklist, revoked>>
    BY <1>4 DEF Session!Revoke
  <2> QED BY <1>1, <1>3, <2>1, IdleIdles, RequestSteps
<1>5. CASE c.named # <<>>
  <2> PICK i : i = Head(c.named)
    OBVIOUS
  <2>1. i \in Session!Issued /\ Tail(c.named) \in Seq(Session!Issued)
    BY <1>1, <1>5, HeadTailProperties
  <2> DEFINE r == [c EXCEPT !.named = Tail(c.named)]
  <2>2. r \in [pc : {"revoke"}, named : Seq(Session!Issued)]
    BY <1>1, <2>1
  <2>3. request' = [request EXCEPT ![q] = r]
    BY <1>5 DEF Session!Revoke
  <2> HIDE DEF r
  <2>4. Idles(r)' /\ Idles(r)
    BY <1>2, <2>2, IdlesStay DEF Idles
  <2>5. (request \in [SessionRequests -> {Session!Idle} \cup [pc : {"verify", "create"}, token : Session!Issued]
                                             \cup [pc : {"revoke"}, named : Seq(Session!Issued)]])'
    <3> PICK g : g = r
      OBVIOUS
    <3> QED BY <1>2, <2>3, <2>4, RequestsTyped
  <2>6. CASE UNCHANGED <<blacklist, revoked>>
    BY <1>1, <1>2, <1>3, <2>5, <2>6, SessionSteps
  <2>7. CASE ~UNCHANGED <<blacklist, revoked>>
    <3>1. PICK reached \in BOOLEAN :
            /\ blacklist' = IF reached
                            THEN [j \in DOMAIN blacklist \cup {i} |->
                                    IF j = i THEN clock + Session!Remaining(i) * Session!Second ELSE blacklist[j]]
                            ELSE blacklist
            /\ revoked' = IF reached THEN revoked \cup {i} ELSE revoked
      BY <1>5, <2>7 DEF Session!Revoke
    <3>2. /\ DOMAIN blacklist' = DOMAIN blacklist \cup {i} /\ revoked' = revoked \cup {i}
          /\ blacklist'[i] = clock + Session!Remaining(i) * Session!Second
          /\ \A j \in DOMAIN blacklist : j # i => blacklist'[j] = blacklist[j]
      BY <2>7, <3>1
    <3>3. clock \in Nat /\ tokens[i].exp \in Nat
      BY <2>1, TokenTyped DEF SessionInv, Session!TypeOK, SessionToken
    <3>4. blacklist'[i] \in Int /\ tokens[i].exp - blacklist'[i] < Session!Second
      BY <3>2, <3>3, RemainingLasts DEF Session!Remaining, Session!Second
    <3>5. \E k \in Session!Issued :
               /\ DOMAIN blacklist' = DOMAIN blacklist \cup {k} /\ revoked' = revoked \cup {k}
               /\ blacklist'[k] \in Int /\ tokens[k].exp - blacklist'[k] < Session!Second
               /\ \A j \in DOMAIN blacklist : j # k => blacklist'[j] = blacklist[j]
      BY <2>1, <3>2, <3>4
    <3> QED BY <1>1, <1>2, <1>3, <2>5, <3>5, SessionSteps
  <2> QED BY <2>6, <2>7
<1> QED BY <1>4, <1>5

LEMMA SocketSteps ==
  ASSUME SessionInv, NEW s \in Sockets,
         Session!NoAuthentication(s) \/ Session!Disconnect(s) \/ \E i \in Session!Issued : Session!Authenticate(s, i)
  PROVE  SessionInv'
<1>1. UNCHANGED <<clock, tokens, blacklist, rate, request, revoked, arrivals>>
  BY DEF Session!NoAuthentication, Session!Disconnect, Session!Authenticate
<1>2. TokensStay
  BY <1>1, NoNewToken
<1>3. \A left \in leaked' : left < Session!Second
  <2>1. ASSUME NEW i \in Session!Issued, Session!Authenticate(s, i) PROVE \A left \in leaked' : left < Session!Second
    <3>1. PICK reached \in BOOLEAN :
            IF Session!Verifies(i, reached) THEN Session!Accepts(i, reached) ELSE UNCHANGED leaked
      BY <2>1 DEF Session!Authenticate
    <3>2. CASE Session!Verifies(i, reached)
      BY <3>1, <3>2, AcceptsLate
    <3>3. CASE ~Session!Verifies(i, reached)
      BY <3>1, <3>3 DEF SessionInv
    <3> QED BY <3>2, <3>3
  <2>2. CASE Session!NoAuthentication(s) \/ Session!Disconnect(s)
    BY <2>2 DEF Session!NoAuthentication, Session!Disconnect, SessionInv
  <2> QED BY <2>1, <2>2
<1>4. \/ socket' = [socket EXCEPT ![s] = "open"] /\ connections' = connections \cup {s}
      \/ socket' = [socket EXCEPT ![s] = "closed"] /\ connections' = connections \ {s}
  <2>1. socket[s] # "open" => s \notin connections
    BY DEF SessionInv, Session!TypeOK
  <2>2. s \notin connections => connections \ {s} = connections
    OBVIOUS
  <2> QED BY <2>1, <2>2 DEF Session!NoAuthentication, Session!Disconnect, Session!Authenticate
<1> QED BY <1>1, <1>2, <1>3, <1>4, RequestsStay, SessionSteps

LEMMA Ticks == ASSUME SessionInv, Session!Tick PROVE SessionInv'
<1>1. /\ clock' = clock + 1 /\ clock \in Nat
      /\ UNCHANGED <<tokens, blacklist, rate, request, socket, connections, revoked, leaked>>
      /\ arrivals' = [a \in Session!Actions |-> {r \in arrivals[a] : r.at > clock' - LimitSeconds * Session!Second}]
  BY DEF Session!Tick, SessionInv, Session!TypeOK
<1>2. Session!TypeOK'
  <2>1. clock' \in Nat
    BY <1>1
  <2> QED BY <1>1, <2>1 DEF SessionInv, Session!TypeOK, Session!Issued
<1>3. \A a \in Session!Actions : PlacesTaken(a)'
  <2> SUFFICES ASSUME NEW a \in Session!Actions PROVE PlacesTaken(a)'
    OBVIOUS
  <2>1. arrivals'[a] \subseteq arrivals[a] /\ rate'[a] = rate[a]
    BY <1>1
  <2>2. PlacesTaken(a)
    BY DEF SessionInv
  <2> QED BY <1>1, <2>1, <2>2 DEF PlacesTaken
<1>4. \A i \in revoked' : EntryLasts(i)'
  BY <1>1 DEF SessionInv, EntryLasts
<1> QED BY <1>1, <1>2, <1>3, <1>4 DEF SessionInv

LEMMA SessionStep == SessionInv /\ Session!Next => SessionInv'
<1> SUFFICES ASSUME SessionInv, Session!Next PROVE SessionInv'
  OBVIOUS
<1>1. ASSUME NEW q \in SessionRequests,
             \/ \E i \in Session!Issued : Session!StartRefresh(q, i)
             \/ Session!VerifyRefresh(q) \/ Session!CreateAccess(q) \/ Session!Revoke(q)
             \/ \E i \in Session!Issued, named \in Session!Named : Session!StartLogout(q, i, named)
      PROVE  SessionInv'
  BY <1>1, Refreshes, VerifiesRefresh, CreatesAccess, RevokesToken, StartsLogout
<1>2. ASSUME NEW i \in Session!Issued, Session!Use(i) PROVE SessionInv'
  BY <1>2, UsesToken
<1>3. ASSUME NEW s \in Sockets,
             Session!NoAuthentication(s) \/ Session!Disconnect(s) \/ \E i \in Session!Issued : Session!Authenticate(s, i)
      PROVE  SessionInv'
  BY <1>3, SocketSteps
<1> QED BY <1>1, <1>2, <1>3, LogsIn, Ticks DEF Session!Next

LEMMA SessionInitially == Session!Init => SessionInv
<1> SUFFICES ASSUME Session!Init PROVE SessionInv
  OBVIOUS
<1>1. /\ tokens = <<>> /\ DOMAIN blacklist = {} /\ revoked = {} /\ leaked = {} /\ clock \in Nat
      /\ DOMAIN arrivals = Session!Actions /\ \A a \in Session!Actions : arrivals[a] = {}
  BY DEF Session!Init, Session!Second
<1>2. Session!TypeOK
  BY <1>1 DEF Session!Init, Session!TypeOK, Session!Issued
<1> QED BY <1>1, <1>2 DEF SessionInv, PlacesTaken

LEMMA SessionStutter == SessionInv /\ UNCHANGED sessionVars => SessionInv'
<1> SUFFICES ASSUME SessionInv, UNCHANGED sessionVars PROVE SessionInv'
  OBVIOUS
<1>1. UNCHANGED <<clock, tokens, blacklist, rate, request, socket, connections, revoked, leaked, arrivals>>
  BY DEF sessionVars
<1>2. Session!TypeOK'
  BY <1>1 DEF SessionInv, Session!TypeOK, Session!Issued
<1> QED BY <1>1, <1>2 DEF SessionInv, PlacesTaken, EntryLasts

\* A token that a logout stored is let in by no check that reached Redis, but in
\* the last second of its life; and what the limiter admits in a window has
\* places of its own among MaxRequests.
THEOREM RevokedTokensStayOut == PlatformSpec => []RevokedStaysOut
<1>1. PlatformInit => SessionInv
  BY SessionInitially DEF PlatformInit
<1>2. SessionInv /\ [PlatformNext]_platformVars => SessionInv'
  <2>1. UNCHANGED platformVars => UNCHANGED sessionVars
    BY DEF platformVars, sessionVars
  <2> QED BY <2>1, SessionStep, SessionStutter DEF PlatformNext
<1>3. SessionInv => RevokedStaysOut
  <2> SUFFICES ASSUME SessionInv PROVE RevokedStaysOut
    OBVIOUS
  <2>1. ASSUME NEW a \in Session!Actions, NEW r \in Session!Admitted(a), NEW s \in Session!Admitted(a)
        PROVE  r.place \in 1 .. MaxRequests /\ (r # s => r.place # s.place)
    <3>1. r \in arrivals[a] /\ s \in arrivals[a] /\ r.ok
      BY DEF Session!Admitted, Session!Recent
    <3>2. rate[a].count \in Nat
      BY DEF SessionInv, Session!TypeOK
    <3> QED BY <3>1, <3>2 DEF SessionInv, PlacesTaken
  <2> QED BY <2>1 DEF SessionInv, RevokedStaysOut, Session!RevokedStaysOut
<1> QED BY <1>1, <1>2, <1>3, PTL DEF PlatformSpec

HIDE SessionsAssumed DEF Session!SessionsAssumption

-----------------------------------------------------------------------------
(* Web tools *)

USE WebAssumed DEF Web!WebAssumption

Spans == 0 .. MaxTime

\* A call before and after its slot.
WebCall ==
    [pc : {"cache", "dedupe", "consume", "reserve", "sleep"}, tool : Web!Tools, query : Queries,
     slot : Int, window : {Null}]
    \cup [pc : {"wrapper", "send", "store"}, tool : Web!Tools, query : Queries, slot : Int,
          window : Spans \cup {Null}]
    \cup {Web!Idle}

WebTypes ==
    /\ Web!TypeOK
    /\ lastSlot \in [Web!Tools -> Int]
    /\ webCall \in [Calls -> WebCall]
    /\ slots \in [Web!Tools -> Seq(Int)]
    /\ sent \in [Web!Tools -> Seq([query : Queries, window : Spans \cup {Null}])]

\* A call whose query is marked and not sent yet.
Marks(c, t, q) == c.pc \in {"consume", "reserve", "sleep", "wrapper", "send"} /\ c.tool = t /\ c.query = q

Pays(c, t) == c.pc \in {"reserve", "sleep", "wrapper", "send"} /\ c.tool = t

SearchesIn(c, w) == c.pc \in {"wrapper", "send"} /\ c.tool = "search" /\ c.window = w

\* A query is marked by one call, and only before it is sent.
QueriesApart ==
    \A t \in Web!Tools :
      /\ \A i \in DOMAIN sent[t] : sent[t][i].query \in budget[t].seen
      /\ \A i, j \in DOMAIN sent[t] : i # j => sent[t][i].query # sent[t][j].query
      /\ \A k \in Calls, q \in Queries : Marks(webCall[k], t, q) =>
           /\ q \in budget[t].seen
           /\ \A i \in DOMAIN sent[t] : sent[t][i].query # q
           /\ \A l \in Calls : Marks(webCall[l], t, q) => l = k

SlotsSpaced ==
    \A t \in Web!Tools :
      /\ slots[t] # <<>> => slots[t][Len(slots[t])] = lastSlot[t]
      /\ \A i \in 2 .. Len(slots[t]) : slots[t][i] - slots[t][i - 1] >= Interval

\* The calls that are paid for and have not sent their request.
Paid(t) == {k \in Calls : Pays(webCall[k], t)}

CallsPaid == \A t \in Web!Tools : Len(sent[t]) + Cardinality(Paid(t)) <= budget[t].count

SearchingIn(w) == {k \in Calls : SearchesIn(webCall[k], w)}

SearchesCounted ==
    Enforced =>
      /\ \A i \in DOMAIN sent["search"] : sent["search"][i].window \in 0 .. window.start
      /\ \A k \in Calls, w \in Spans : SearchesIn(webCall[k], w) => w <= window.start
      /\ \A k \in Calls : ~SearchesIn(webCall[k], Null)
      /\ \A w \in 0 .. window.start :
           Cardinality(Web!InWindow(w)) + Cardinality(SearchingIn(w))
             <= IF w = window.start THEN window.count ELSE MaxWebSearches

Told(t, q) == \E i \in DOMAIN sent[t] : sent[t][i].query = q

AnswersTold ==
    /\ \A key \in cache : Told(key.tool, key.query)
    /\ \A k \in Calls : webCall[k].pc = "store" => Told(webCall[k].tool, webCall[k].query)

WebInv ==
    /\ WebTypes /\ QueriesApart /\ SlotsSpaced /\ CallsPaid /\ SearchesCounted /\ AnswersTold

LEMMA WebFinite ==
  /\ IsFiniteSet(Calls)
  /\ \A S : Web!Cardinality(S) = Cardinality(S)
BY DEF Web!IsFiniteSet, IsFiniteSet, Web!Cardinality, Cardinality

LEMMA CallTypes ==
  ASSUME NEW c \in WebCall
  PROVE  /\ c.pc \in {"idle", "cache", "dedupe", "consume", "reserve", "sleep", "wrapper", "send", "store"}
         /\ c.pc # "idle" => c.tool \in Web!Tools /\ c.query \in Queries /\ c.slot \in Int
         /\ c.pc \in {"cache", "dedupe", "consume", "reserve", "sleep"} => c.window = Null
         /\ c.pc \in {"wrapper", "send", "store"} => c.window \in Spans \cup {Null}
BY DEF WebCall, Web!Idle

\* What a step does to the sets that are counted.
LEMMA PaidFinite == \A t : IsFiniteSet(Paid(t)) /\ Cardinality(Paid(t)) \in Nat
<1> TAKE t
<1>1. Paid(t) \in SUBSET Calls
  BY DEF Paid
<1>2. IsFiniteSet(Paid(t))
  BY <1>1, WebFinite, FS_Subset
<1> QED BY <1>2, FS_CardinalityType

LEMMA SearchingFinite == \A w : IsFiniteSet(SearchingIn(w)) /\ Cardinality(SearchingIn(w)) \in Nat
<1> TAKE w
<1>1. SearchingIn(w) \in SUBSET Calls
  BY DEF SearchingIn
<1>2. IsFiniteSet(SearchingIn(w))
  BY <1>1, WebFinite, FS_Subset
<1> QED BY <1>2, FS_CardinalityType

LEMMA InWindowFinite ==
  ASSUME WebTypes PROVE \A w : IsFiniteSet(Web!InWindow(w)) /\ Cardinality(Web!InWindow(w)) \in Nat
<1> TAKE w
<1>1. Len(sent["search"]) \in Nat /\ DOMAIN sent["search"] = 1 .. Len(sent["search"])
  BY DEF WebTypes, Web!Tools
<1>2. Web!InWindow(w) \in SUBSET (1 .. Len(sent["search"]))
  BY <1>1 DEF Web!InWindow
<1>3. IsFiniteSet(1 .. Len(sent["search"]))
  BY <1>1, FS_Interval
<1>4. IsFiniteSet(Web!InWindow(w))
  BY <1>2, <1>3, FS_Subset
<1> QED BY <1>4, FS_CardinalityType

LEMMA PaidChanges ==
  ASSUME WebTypes, NEW k \in Calls, NEW c, webCall' = [webCall EXCEPT ![k] = c], NEW t
  PROVE  /\ Cardinality(Paid(t))' \in Nat
         /\ Pays(c, t) => /\ Cardinality(Paid(t))' <= Cardinality(Paid(t)) + 1
                          /\ Pays(webCall[k], t) => Cardinality(Paid(t))' = Cardinality(Paid(t))
         /\ ~Pays(c, t) => /\ Cardinality(Paid(t))' <= Cardinality(Paid(t))
                           /\ Pays(webCall[k], t) => Cardinality(Paid(t))' = Cardinality(Paid(t)) - 1
<1>1. webCall'[k] = c /\ \A l \in Calls \ {k} : webCall'[l] = webCall[l]
  BY DEF WebTypes
<1>2. ASSUME Pays(c, t) PROVE Paid(t)' = Paid(t) \cup {k}
  BY <1>1, <1>2 DEF Paid
<1>3. ASSUME ~Pays(c, t) PROVE Paid(t)' = Paid(t) \ {k}
  BY <1>1, <1>3 DEF Paid
<1>4. Pays(webCall[k], t) <=> k \in Paid(t)
  BY DEF Paid
<1>5. /\ Cardinality(Paid(t) \cup {k}) = IF k \in Paid(t) THEN Cardinality(Paid(t)) ELSE Cardinality(Paid(t)) + 1
      /\ Cardinality(Paid(t) \ {k}) = IF k \in Paid(t) THEN Cardinality(Paid(t)) - 1 ELSE Cardinality(Paid(t))
  BY PaidFinite, FS_AddElement, FS_RemoveElement
<1>6. Cardinality(Paid(t)) \in Nat
  BY PaidFinite
<1>9. Cardinality(Paid(t) \cup {k}) \in Nat /\ Cardinality(Paid(t) \ {k}) \in Nat
  BY PaidFinite, FS_AddElement, FS_RemoveElement, FS_CardinalityType
<1>7. ASSUME Pays(c, t) PROVE Cardinality(Paid(t))' = IF k \in Paid(t) THEN Cardinality(Paid(t)) ELSE Cardinality(Paid(t)) + 1
  BY <1>2, <1>5, <1>7
<1>8. ASSUME ~Pays(c, t) PROVE Cardinality(Paid(t))' = IF k \in Paid(t) THEN Cardinality(Paid(t)) - 1 ELSE Cardinality(Paid(t))
  BY <1>3, <1>5, <1>8
<1>10. Cardinality(Paid(t))' \in Nat
  BY <1>2, <1>3, <1>9
<1> QED BY <1>4, <1>6, <1>7, <1>8, <1>10

LEMMA SearchingChanges ==
  ASSUME WebTypes, NEW k \in Calls, NEW c, webCall' = [webCall EXCEPT ![k] = c], NEW w
  PROVE  /\ Cardinality(SearchingIn(w))' \in Nat
         /\ SearchesIn(c, w) =>
              /\ Cardinality(SearchingIn(w))' <= Cardinality(SearchingIn(w)) + 1
              /\ SearchesIn(webCall[k], w) => Cardinality(SearchingIn(w))' = Cardinality(SearchingIn(w))
         /\ ~SearchesIn(c, w) =>
              /\ Cardinality(SearchingIn(w))' <= Cardinality(SearchingIn(w))
              /\ SearchesIn(webCall[k], w) => Cardinality(SearchingIn(w))' = Cardinality(SearchingIn(w)) - 1
<1>1. webCall'[k] = c /\ \A l \in Calls \ {k} : webCall'[l] = webCall[l]
  BY DEF WebTypes
<1>2. ASSUME SearchesIn(c, w) PROVE SearchingIn(w)' = SearchingIn(w) \cup {k}
  BY <1>1, <1>2 DEF SearchingIn
<1>3. ASSUME ~SearchesIn(c, w) PROVE SearchingIn(w)' = SearchingIn(w) \ {k}
  BY <1>1, <1>3 DEF SearchingIn
<1>4. SearchesIn(webCall[k], w) <=> k \in SearchingIn(w)
  BY DEF SearchingIn
<1>5. /\ Cardinality(SearchingIn(w) \cup {k})
           = IF k \in SearchingIn(w) THEN Cardinality(SearchingIn(w)) ELSE Cardinality(SearchingIn(w)) + 1
      /\ Cardinality(SearchingIn(w) \ {k})
           = IF k \in SearchingIn(w) THEN Cardinality(SearchingIn(w)) - 1 ELSE Cardinality(SearchingIn(w))
  BY SearchingFinite, FS_AddElement, FS_RemoveElement
<1>6. Cardinality(SearchingIn(w)) \in Nat
  BY SearchingFinite
<1>9. Cardinality(SearchingIn(w) \cup {k}) \in Nat /\ Cardinality(SearchingIn(w) \ {k}) \in Nat
  BY SearchingFinite, FS_AddElement, FS_RemoveElement, FS_CardinalityType
<1>7. ASSUME SearchesIn(c, w) PROVE Cardinality(SearchingIn(w))' = IF k \in SearchingIn(w) THEN Cardinality(SearchingIn(w)) ELSE Cardinality(SearchingIn(w)) + 1
  BY <1>2, <1>5, <1>7
<1>8. ASSUME ~SearchesIn(c, w) PROVE Cardinality(SearchingIn(w))' = IF k \in SearchingIn(w) THEN Cardinality(SearchingIn(w)) - 1 ELSE Cardinality(SearchingIn(w))
  BY <1>3, <1>5, <1>8
<1>10. Cardinality(SearchingIn(w))' \in Nat
  BY <1>2, <1>3, <1>9
<1> QED BY <1>4, <1>6, <1>7, <1>8, <1>10

-----------------------------------------------------------------------------
(* What leaves each part of the invariant alone *)

LEMMA ApartStays ==
  ASSUME WebInv, NEW k \in Calls, NEW c \in WebCall, webCall' = [webCall EXCEPT ![k] = c], UNCHANGED sent,
         \A t \in Web!Tools : budget'[t].seen = budget[t].seen,
         \A t \in Web!Tools, q \in Queries : Marks(c, t, q) => Marks(webCall[k], t, q)
  PROVE  QueriesApart'
<1>1. webCall'[k] = c /\ \A l \in Calls \ {k} : webCall'[l] = webCall[l]
  BY DEF WebInv, WebTypes
<1>2. \A l \in Calls, t \in Web!Tools, q \in Queries : Marks(webCall'[l], t, q) => Marks(webCall[l], t, q)
  BY <1>1
<1> SUFFICES ASSUME NEW t \in Web!Tools
             PROVE  (/\ \A i \in DOMAIN sent[t] : sent[t][i].query \in budget[t].seen
                     /\ \A i, j \in DOMAIN sent[t] : i # j => sent[t][i].query # sent[t][j].query
                     /\ \A m \in Calls, q \in Queries : Marks(webCall[m], t, q) =>
                          /\ q \in budget[t].seen
                          /\ \A i \in DOMAIN sent[t] : sent[t][i].query # q
                          /\ \A l \in Calls : Marks(webCall[l], t, q) => l = m)'
  BY DEF QueriesApart
<1>3. \A m \in Calls, q \in Queries : Marks(webCall'[m], t, q) =>
         /\ q \in budget'[t].seen
         /\ \A i \in DOMAIN sent[t] : sent[t][i].query # q
         /\ \A l \in Calls : Marks(webCall'[l], t, q) => l = m
  BY <1>2 DEF WebInv, QueriesApart
<1> QED BY <1>3 DEF WebInv, QueriesApart

LEMMA PaidStays ==
  ASSUME WebInv, NEW k \in Calls, NEW c, webCall' = [webCall EXCEPT ![k] = c], UNCHANGED sent,
         \A t \in Web!Tools : budget'[t].count = budget[t].count,
         \A t \in Web!Tools : Pays(c, t) => Pays(webCall[k], t)
  PROVE  CallsPaid'
<1> SUFFICES ASSUME NEW t \in Web!Tools
             PROVE  Len(sent[t]) + Cardinality(Paid(t))' <= budget[t].count
  BY DEF CallsPaid
<1>1. WebTypes /\ Len(sent[t]) + Cardinality(Paid(t)) <= budget[t].count
  BY DEF WebInv, CallsPaid
<1>2. Cardinality(Paid(t)) \in Nat /\ Len(sent[t]) \in Nat /\ budget[t].count \in Int
  BY <1>1, PaidFinite DEF WebTypes, Web!TypeOK
<1>3. /\ Cardinality(Paid(t))' \in Nat
      /\ ~Pays(c, t) => Cardinality(Paid(t))' <= Cardinality(Paid(t))
      /\ Pays(c, t) /\ Pays(webCall[k], t) => Cardinality(Paid(t))' = Cardinality(Paid(t))
  BY <1>1, PaidChanges
<1>4. Cardinality(Paid(t))' <= Cardinality(Paid(t))
  BY <1>2, <1>3
<1> QED BY <1>1, <1>2, <1>3, <1>4

LEMMA CountedStays ==
  ASSUME WebInv, NEW k \in Calls, NEW c, webCall' = [webCall EXCEPT ![k] = c], UNCHANGED <<sent, window>>,
         Enforced => \A w : SearchesIn(c, w) => SearchesIn(webCall[k], w)
  PROVE  SearchesCounted'
<1> SUFFICES ASSUME Enforced
             PROVE  (/\ \A i \in DOMAIN sent["search"] : sent["search"][i].window \in 0 .. window.start
                     /\ \A m \in Calls, w \in Spans : SearchesIn(webCall[m], w) => w <= window.start
                     /\ \A m \in Calls : ~SearchesIn(webCall[m], Null)
                     /\ \A w \in 0 .. window.start :
                          Cardinality(Web!InWindow(w)) + Cardinality(SearchingIn(w))
                            <= IF w = window.start THEN window.count ELSE MaxWebSearches)'
  BY DEF SearchesCounted
<1>1. webCall'[k] = c /\ \A l \in Calls \ {k} : webCall'[l] = webCall[l]
  BY DEF WebInv, WebTypes
<1>2. \A l \in Calls : \A w : SearchesIn(webCall'[l], w) => SearchesIn(webCall[l], w)
  BY <1>1
<1>3. ASSUME NEW w \in 0 .. window.start
      PROVE  Cardinality(Web!InWindow(w))' + Cardinality(SearchingIn(w))'
               <= IF w = window.start THEN window.count ELSE MaxWebSearches
  <2>1. Web!InWindow(w)' = Web!InWindow(w)
    BY DEF Web!InWindow
  <2>2. Cardinality(SearchingIn(w)) \in Nat /\ Cardinality(Web!InWindow(w)) \in Nat
    BY SearchingFinite, InWindowFinite DEF WebInv
  <2>3. /\ Cardinality(SearchingIn(w))' \in Nat
        /\ ~SearchesIn(c, w) => Cardinality(SearchingIn(w))' <= Cardinality(SearchingIn(w))
        /\ SearchesIn(c, w) /\ SearchesIn(webCall[k], w) => Cardinality(SearchingIn(w))' = Cardinality(SearchingIn(w))
    BY SearchingChanges DEF WebInv
  <2>6. Cardinality(SearchingIn(w))' <= Cardinality(SearchingIn(w))
    BY <2>2, <2>3
  <2>4. window.count \in Int /\ MaxWebSearches \in Int
    BY DEF WebInv, WebTypes, Web!TypeOK
  <2>5. Cardinality(Web!InWindow(w)) + Cardinality(SearchingIn(w))
          <= IF w = window.start THEN window.count ELSE MaxWebSearches
    BY DEF WebInv, SearchesCounted
  <2> QED BY <2>1, <2>2, <2>3, <2>4, <2>5, <2>6
<1>4. /\ \A i \in DOMAIN sent["search"] : sent["search"][i].window \in 0 .. window.start
      /\ \A m \in Calls, w \in Spans : SearchesIn(webCall'[m], w) => w <= window.start
      /\ \A m \in Calls : ~SearchesIn(webCall'[m], Null)
  BY <1>2 DEF WebInv, SearchesCounted
<1> QED BY <1>3, <1>4

LEMMA ToldStays ==
  ASSUME WebInv, NEW k \in Calls, NEW c, webCall' = [webCall EXCEPT ![k] = c], UNCHANGED sent,
         cache' \subseteq cache,
         c.pc = "store" => Told(c.tool, c.query)
  PROVE  AnswersTold'
<1>1. webCall'[k] = c /\ \A l \in Calls \ {k} : webCall'[l] = webCall[l]
  BY DEF WebInv, WebTypes
<1>2. \A t, q : Told(t, q)' <=> Told(t, q)
  BY DEF Told
<1> QED BY <1>1, <1>2 DEF WebInv, AnswersTold

LEMMA SpacedStays == ASSUME WebInv, UNCHANGED <<slots, lastSlot>> PROVE SlotsSpaced'
BY DEF WebInv, SlotsSpaced

\* A call that goes on or ends without taking anything.
LEMMA WebStays ==
  ASSUME WebInv, NEW k \in Calls, NEW c \in WebCall, webCall' = [webCall EXCEPT ![k] = c], cache' \subseteq cache,
         UNCHANGED <<sent, window, slots, lastSlot, budget, now>>, wrapper' \subseteq Web!Tools,
         \A t \in Web!Tools, q \in Queries : Marks(c, t, q) => Marks(webCall[k], t, q),
         \A t \in Web!Tools : Pays(c, t) => Pays(webCall[k], t),
         Enforced => \A w : SearchesIn(c, w) => SearchesIn(webCall[k], w),
         c.pc = "store" => Told(c.tool, c.query)
  PROVE  WebInv'
<1>1. WebTypes'
  BY DEF WebInv, WebTypes, Web!TypeOK
<1>2. QueriesApart' /\ CallsPaid'
  BY ApartStays, PaidStays
<1>3. SearchesCounted' /\ AnswersTold' /\ SlotsSpaced'
  BY CountedStays, ToldStays, SpacedStays
<1> QED BY <1>1, <1>2, <1>3 DEF WebInv

-----------------------------------------------------------------------------
(* The steps of a call *)

LEMMA CallsWeb ==
  ASSUME WebInv, NEW k \in Calls, NEW t \in Web!Tools, NEW q \in Queries, Web!Call(k, t, q) PROVE WebInv'
<1> DEFINE c == [pc |-> "cache", tool |-> t, query |-> q, slot |-> 0, window |-> Null]
<1>1. c \in WebCall /\ ~(c.pc \in {"consume", "reserve", "sleep", "wrapper", "send", "store"})
  BY DEF WebCall
<1>2. webCall' = [webCall EXCEPT ![k] = c]
  BY DEF Web!Call
<1> HIDE DEF c
<1> QED BY <1>1, <1>2, WebStays DEF Web!Call, Marks, Pays, SearchesIn, WebInv, WebTypes, Web!TypeOK

LEMMA EndsWeb ==
  ASSUME WebInv, NEW k \in Calls, Web!Ends(k), cache' \subseteq cache,
         UNCHANGED <<sent, window, slots, lastSlot, budget, now, wrapper>>
  PROVE  WebInv'
<1>1. Web!Idle \in WebCall /\ Web!Idle.pc = "idle"
  BY DEF WebCall, Web!Idle
<1> QED BY <1>1, WebStays DEF Web!Ends, Marks, Pays, SearchesIn, WebInv, WebTypes, Web!TypeOK

\* The next step of a call, which keeps what else it carries.
LEMMA GoesWeb ==
  ASSUME WebInv, NEW k \in Calls, webCall[k].pc # "idle", NEW pc, Web!Goes(k, pc)
  PROVE  /\ webCall' = [webCall EXCEPT ![k] = [webCall[k] EXCEPT !.pc = pc]]
         /\ [webCall[k] EXCEPT !.pc = pc].pc = pc
         /\ [webCall[k] EXCEPT !.pc = pc].tool = webCall[k].tool
         /\ [webCall[k] EXCEPT !.pc = pc].query = webCall[k].query
         /\ [webCall[k] EXCEPT !.pc = pc].slot = webCall[k].slot
         /\ [webCall[k] EXCEPT !.pc = pc].window = webCall[k].window
         /\ pc \in {"cache", "dedupe", "consume", "reserve", "sleep"} /\ webCall[k].window = Null
              => [webCall[k] EXCEPT !.pc = pc] \in WebCall
         /\ pc \in {"wrapper", "send", "store"} => [webCall[k] EXCEPT !.pc = pc] \in WebCall
<1>1. webCall[k] \in WebCall \ {Web!Idle}
  BY DEF WebInv, WebTypes, Web!Idle
<1>2. webCall' = [webCall EXCEPT ![k] = [webCall[k] EXCEPT !.pc = pc]]
  BY DEF Web!Goes, WebInv, WebTypes
<1> PICK c : c = webCall[k]
  OBVIOUS
<1>3. c \in WebCall \ {Web!Idle}
  BY <1>1
<1>4. ASSUME pc \in {"cache", "dedupe", "consume", "reserve", "sleep"}, c.window = Null
      PROVE  [c EXCEPT !.pc = pc] \in WebCall
  BY <1>3, <1>4 DEF WebCall
<1>5. ASSUME pc \in {"wrapper", "send", "store"} PROVE [c EXCEPT !.pc = pc] \in WebCall
  BY <1>3, <1>5 DEF WebCall
<1>6. /\ [c EXCEPT !.pc = pc].pc = pc
      /\ [c EXCEPT !.pc = pc].tool = c.tool /\ [c EXCEPT !.pc = pc].query = c.query
      /\ [c EXCEPT !.pc = pc].slot = c.slot /\ [c EXCEPT !.pc = pc].window = c.window
  BY <1>3 DEF WebCall
<1> QED BY <1>2, <1>4, <1>5, <1>6

LEMMA GoesOn ==
  ASSUME WebInv, NEW k \in Calls, NEW pc, Web!Goes(k, pc), wrapper' \subseteq Web!Tools,
         UNCHANGED <<sent, window, slots, lastSlot, budget, now, cache>>,
         \/ webCall[k].pc = "cache" /\ pc = "dedupe"
         \/ webCall[k].pc = "wrapper" /\ pc = "send"
         \/ webCall[k].pc = "sleep" /\ pc = "wrapper" /\ ~(webCall[k].tool = "search" /\ Enforced)
  PROVE  WebInv'
<1>1. webCall[k] \in WebCall /\ webCall[k].pc # "idle"
  BY DEF WebInv, WebTypes
<1> PICK c : c = [webCall[k] EXCEPT !.pc = pc]
  OBVIOUS
<1>2. webCall[k].pc = "cache" => webCall[k].window = Null
  BY <1>1, CallTypes
<1>3. /\ webCall' = [webCall EXCEPT ![k] = c]
      /\ c.pc = pc /\ c.tool = webCall[k].tool /\ c.query = webCall[k].query /\ c.window = webCall[k].window
      /\ c \in WebCall
  BY <1>1, <1>2, GoesWeb
<1>4. \A t \in Web!Tools, q \in Queries : Marks(c, t, q) => Marks(webCall[k], t, q)
  BY <1>3 DEF Marks
<1>5. \A t \in Web!Tools : Pays(c, t) => Pays(webCall[k], t)
  BY <1>3 DEF Pays
<1>6. Enforced => \A w : SearchesIn(c, w) => SearchesIn(webCall[k], w)
  BY <1>3 DEF SearchesIn
<1>7. c.pc # "store"
  BY <1>3
<1> QED BY <1>3, <1>4, <1>5, <1>6, <1>7, WebStays

LEMMA PassesWeb ==
  ASSUME WebInv, NEW k \in Calls,
         \/ Web!ReadCache(k) \/ Web!CacheUnavailable(k) \/ Web!MakeWrapper(k) \/ Web!WrapperFails(k)
         \/ Web!StoreFails(k)
  PROVE  WebInv'
<1>1. webCall[k].pc # "idle" => webCall[k].tool \in Web!Tools
  BY CallTypes DEF WebInv, WebTypes
<1>2. wrapper \subseteq Web!Tools
  BY DEF WebInv, WebTypes, Web!TypeOK
<1>3. CASE Web!ReadCache(k)
  BY <1>2, <1>3, GoesOn, EndsWeb DEF Web!ReadCache, Web!At
<1>4. CASE Web!CacheUnavailable(k)
  BY <1>2, <1>4, GoesOn DEF Web!CacheUnavailable, Web!At
<1>5. CASE Web!MakeWrapper(k)
  <2>1. wrapper' \subseteq Web!Tools
    BY <1>1, <1>2, <1>5 DEF Web!MakeWrapper, Web!At
  <2> QED BY <1>5, <2>1, GoesOn DEF Web!MakeWrapper, Web!At
<1>6. CASE Web!WrapperFails(k)
  BY <1>6, EndsWeb DEF Web!WrapperFails
<1>7. CASE Web!StoreFails(k)
  BY <1>7, EndsWeb DEF Web!StoreFails
<1> QED BY <1>3, <1>4, <1>5, <1>6, <1>7

\* The answer of a request that was sent.
LEMMA StoresWeb == ASSUME WebInv, NEW k \in Calls, Web!Store(k) PROVE WebInv'
<1>1. webCall[k].pc = "store" /\ webCall[k].tool \in Web!Tools /\ webCall[k].query \in Queries
  BY CallTypes DEF WebInv, WebTypes, Web!Store, Web!At
<1>2. webCall' = [webCall EXCEPT ![k] = Web!Idle]
  BY DEF Web!Store, Web!Ends
<1>3. Web!Idle \in WebCall /\ Web!Idle.pc = "idle"
  BY DEF WebCall, Web!Idle
<1>4. ~Pays(Web!Idle, "search") /\ (\A t, q : ~Marks(Web!Idle, t, q)) /\ (\A t : ~Pays(Web!Idle, t))
      /\ \A w : ~SearchesIn(Web!Idle, w)
  BY <1>3 DEF Marks, Pays, SearchesIn
<1>5. UNCHANGED <<budget, window, lastSlot, wrapper, now, slots, sent>>
  BY DEF Web!Store
<1>6. QueriesApart' /\ CallsPaid' /\ SearchesCounted' /\ SlotsSpaced'
  BY <1>2, <1>3, <1>4, <1>5, ApartStays, PaidStays, CountedStays, SpacedStays
<1>7. cache' = cache \cup {[tool |-> webCall[k].tool, query |-> webCall[k].query]}
  BY DEF Web!Store, Web!Key
<1>8. WebTypes'
  <2>1. webCall' \in [Calls -> WebCall]
    BY <1>2, <1>3 DEF WebInv, WebTypes
  <2>2. cache' \subseteq [tool : Web!Tools, query : Queries]
    BY <1>1, <1>7 DEF WebInv, WebTypes, Web!TypeOK
  <2> QED BY <1>5, <2>1, <2>2 DEF WebInv, WebTypes, Web!TypeOK
<1>9. AnswersTold'
  <2>1. Told(webCall[k].tool, webCall[k].query) /\ \A key \in cache : Told(key.tool, key.query)
    BY <1>1 DEF WebInv, AnswersTold
  <2>2. \A t, q : Told(t, q)' <=> Told(t, q)
    BY <1>5 DEF Told
  <2>3. \A key \in cache' : Told(key.tool, key.query)'
    BY <1>7, <2>1, <2>2
  <2>4. webCall'[k] = Web!Idle /\ \A l \in Calls \ {k} : webCall'[l] = webCall[l]
    BY <1>2 DEF WebInv, WebTypes
  <2>5. ASSUME NEW l \in Calls, webCall'[l].pc = "store" PROVE Told(webCall[l].tool, webCall[l].query)'
    <3>1. webCall'[l] = webCall[l] /\ Told(webCall[l].tool, webCall[l].query)
      BY <1>3, <2>4, <2>5 DEF WebInv, AnswersTold
    <3> QED BY <2>2, <3>1
  <2> QED BY <2>3, <2>5 DEF AnswersTold
<1> QED BY <1>6, <1>8, <1>9 DEF WebInv

LEMMA WebMeanwhile ==
  ASSUME WebInv, Web!Tick \/ \E key \in cache : Web!Expire(key)
  PROVE  WebInv'
<1>1. /\ cache' \subseteq cache /\ now' \in 0 .. MaxTime /\ now <= now'
      /\ UNCHANGED <<budget, window, lastSlot, wrapper, webCall, slots, sent>>
  BY DEF Web!Tick, Web!Expire, WebInv, WebTypes, Web!TypeOK
<1>2. WebTypes'
  <2>1. window \in [start : 0 .. now, count : 0 .. MaxWebSearches] /\ now \in Int
    BY DEF WebInv, WebTypes, Web!TypeOK
  <2>2. window' \in [start : 0 .. now', count : 0 .. MaxWebSearches]
    BY <1>1, <2>1
  <2>3. cache' \subseteq [tool : Web!Tools, query : Queries]
    BY <1>1 DEF WebInv, WebTypes, Web!TypeOK
  <2> QED BY <1>1, <2>2, <2>3 DEF WebInv, WebTypes, Web!TypeOK
<1>3. QueriesApart' /\ SlotsSpaced' /\ AnswersTold'
  BY <1>1 DEF WebInv, QueriesApart, SlotsSpaced, AnswersTold, Told
<1>4. CallsPaid' /\ SearchesCounted'
  BY <1>1 DEF WebInv, CallsPaid, SearchesCounted, Paid, SearchingIn, Web!InWindow
<1> QED BY <1>2, <1>3, <1>4 DEF WebInv

\* The mark is the call's own: nobody has asked, or is about to ask, the same.
LEMMA SkipsWeb == ASSUME WebInv, NEW k \in Calls, Web!SkipDuplicate(k) PROVE WebInv'
<1> PICK t, q : t = webCall[k].tool /\ q = webCall[k].query
  OBVIOUS
<1>1. webCall[k].pc = "dedupe" /\ t \in Web!Tools /\ q \in Queries /\ webCall[k].window = Null
  BY CallTypes DEF WebInv, WebTypes, Web!SkipDuplicate, Web!At
<1>2. UNCHANGED <<window, lastSlot, wrapper, cache, now, slots, sent>>
  BY DEF Web!SkipDuplicate
<1>3. ASSUME Web!Duplicate(t, q) PROVE WebInv'
  <2>1. Web!Ends(k) /\ UNCHANGED budget
    BY <1>3 DEF Web!SkipDuplicate
  <2> QED BY <1>2, <2>1, EndsWeb
<1>4. ASSUME ~Web!Duplicate(t, q) PROVE WebInv'
  <2>1. budget' = [budget EXCEPT ![t].seen = @ \cup {q}] /\ Web!Goes(k, "consume")
    BY <1>4 DEF Web!SkipDuplicate
  <2> PICK c : c = [webCall[k] EXCEPT !.pc = "consume"]
    OBVIOUS
  <2>2. /\ webCall' = [webCall EXCEPT ![k] = c] /\ c \in WebCall
        /\ c.pc = "consume" /\ c.tool = t /\ c.query = q
    BY <1>1, <2>1, GoesWeb
  <2>3. q \notin budget[t].seen
    BY <1>4 DEF Web!Duplicate
  <2>4. /\ budget' \in [Web!Tools -> [count : 0 .. CallLimit, seen : SUBSET Queries]]
        /\ \A s \in Web!Tools : budget'[s].count = budget[s].count /\ budget[s].seen \subseteq budget'[s].seen
        /\ q \in budget'[t].seen
    <3>1. budget \in [Web!Tools -> [count : 0 .. CallLimit, seen : SUBSET Queries]]
      BY DEF WebInv, WebTypes, Web!TypeOK
    <3> PICK b : b = [budget[t] EXCEPT !.seen = @ \cup {q}]
      OBVIOUS
    <3>2. /\ b \in [count : 0 .. CallLimit, seen : SUBSET Queries]
          /\ b.count = budget[t].count /\ b.seen = budget[t].seen \cup {q}
      BY <1>1, <3>1
    <3>3. budget' = [budget EXCEPT ![t] = b]
      BY <1>1, <2>1, <3>1
    <3>4. budget'[t] = b /\ \A s \in Web!Tools \ {t} : budget'[s] = budget[s]
      BY <1>1, <3>1, <3>3
    <3> QED BY <1>1, <3>1, <3>2, <3>3, <3>4
  <2>5. WebTypes'
    <3>1. webCall' \in [Calls -> WebCall]
      BY <2>2 DEF WebInv, WebTypes
    <3> QED BY <1>2, <2>4, <3>1 DEF WebInv, WebTypes, Web!TypeOK
  <2>6. \A s \in Web!Tools : ~Pays(c, s) /\ \A w : ~SearchesIn(c, w)
    BY <2>2 DEF Pays, SearchesIn
  <2>7. CallsPaid' /\ SearchesCounted' /\ AnswersTold' /\ SlotsSpaced'
    <3>1. \A w : ~SearchesIn(c, w)
      BY <2>2 DEF SearchesIn
    <3> QED BY <1>2, <2>2, <2>4, <2>6, <3>1, PaidStays, CountedStays, ToldStays, SpacedStays
  <2>8. QueriesApart'
    <3>1. webCall'[k] = c /\ \A l \in Calls \ {k} : webCall'[l] = webCall[l]
      BY <2>2 DEF WebInv, WebTypes
    <3>2. \A s \in Web!Tools, p \in Queries : Marks(c, s, p) => s = t /\ p = q
      BY <2>2 DEF Marks
    <3> SUFFICES ASSUME NEW s \in Web!Tools
                 PROVE  (/\ \A i \in DOMAIN sent[s] : sent[s][i].query \in budget[s].seen
                         /\ \A i, j \in DOMAIN sent[s] : i # j => sent[s][i].query # sent[s][j].query
                         /\ \A m \in Calls, p \in Queries : Marks(webCall[m], s, p) =>
                              /\ p \in budget[s].seen
                              /\ \A i \in DOMAIN sent[s] : sent[s][i].query # p
                              /\ \A l \in Calls : Marks(webCall[l], s, p) => l = m)'
      BY DEF QueriesApart
    <3>3. /\ \A i \in DOMAIN sent[s] : sent[s][i].query \in budget[s].seen
          /\ \A i, j \in DOMAIN sent[s] : i # j => sent[s][i].query # sent[s][j].query
          /\ \A m \in Calls, p \in Queries : Marks(webCall[m], s, p) =>
               /\ p \in budget[s].seen
               /\ \A i \in DOMAIN sent[s] : sent[s][i].query # p
               /\ \A l \in Calls : Marks(webCall[l], s, p) => l = m
      BY DEF WebInv, QueriesApart
    <3>4. ASSUME NEW m \in Calls, NEW p \in Queries, Marks(webCall'[m], s, p)
          PROVE  /\ p \in budget'[s].seen
                 /\ \A i \in DOMAIN sent[s] : sent[s][i].query # p
                 /\ \A l \in Calls : Marks(webCall'[l], s, p) => l = m
      <4>1. CASE m = k
        <5>1. s = t /\ p = q
          BY <3>1, <3>2, <3>4, <4>1
        <5>2. \A l \in Calls \ {k} : ~Marks(webCall[l], s, p)
          BY <2>3, <3>3, <5>1
        <5>3. \A i \in DOMAIN sent[s] : sent[s][i].query # p
          BY <2>3, <3>3, <5>1
        <5> QED BY <2>4, <3>1, <4>1, <5>1, <5>2, <5>3
      <4>2. CASE m # k
        <5>1. Marks(webCall[m], s, p)
          BY <3>1, <3>4, <4>2
        <5>2. p \in budget[s].seen
          BY <3>3, <5>1
        <5>3. ~Marks(c, s, p)
          BY <2>3, <3>2, <5>2
        <5> QED BY <2>4, <3>1, <3>3, <5>1, <5>2, <5>3
      <4> QED BY <4>1, <4>2
    <3> QED BY <1>2, <2>4, <3>3, <3>4
  <2> QED BY <2>5, <2>7, <2>8 DEF WebInv
<1> QED BY <1>3, <1>4

LEMMA ConsumesWeb == ASSUME WebInv, NEW k \in Calls, Web!ConsumeCall(k) PROVE WebInv'
<1> PICK t : t = webCall[k].tool
  OBVIOUS
<1>1. webCall[k].pc = "consume" /\ t \in Web!Tools /\ webCall[k].query \in Queries /\ webCall[k].window = Null
  BY CallTypes DEF WebInv, WebTypes, Web!ConsumeCall, Web!At
<1>2. UNCHANGED <<window, lastSlot, wrapper, cache, now, slots, sent>>
  BY DEF Web!ConsumeCall
<1>3. ASSUME ~Web!Allowed(t) PROVE WebInv'
  <2>1. Web!Ends(k) /\ UNCHANGED budget
    BY <1>3 DEF Web!ConsumeCall
  <2> QED BY <1>2, <2>1, EndsWeb
<1>4. ASSUME Web!Allowed(t) PROVE WebInv'
  <2>1. budget' = [budget EXCEPT ![t].count = @ + 1] /\ Web!Goes(k, "reserve")
    BY <1>4 DEF Web!ConsumeCall
  <2> PICK c : c = [webCall[k] EXCEPT !.pc = "reserve"]
    OBVIOUS
  <2>2. /\ webCall' = [webCall EXCEPT ![k] = c] /\ c \in WebCall
        /\ c.pc = "reserve" /\ c.tool = t /\ c.query = webCall[k].query
    BY <1>1, <2>1, GoesWeb
  <2>3. budget[t].count < CallLimit /\ budget \in [Web!Tools -> [count : 0 .. CallLimit, seen : SUBSET Queries]]
    BY <1>4 DEF Web!Allowed, WebInv, WebTypes, Web!TypeOK
  <2>4. /\ budget' \in [Web!Tools -> [count : 0 .. CallLimit, seen : SUBSET Queries]]
        /\ budget'[t].count = budget[t].count + 1
        /\ \A s \in Web!Tools \ {t} : budget'[s].count = budget[s].count
        /\ \A s \in Web!Tools : budget'[s].seen = budget[s].seen
    BY <1>1, <2>1, <2>3
  <2>5. WebTypes'
    <3>1. webCall' \in [Calls -> WebCall]
      BY <2>2 DEF WebInv, WebTypes
    <3> QED BY <1>2, <2>4, <3>1 DEF WebInv, WebTypes, Web!TypeOK
  <2>6. /\ \A s \in Web!Tools, q \in Queries : Marks(c, s, q) => Marks(webCall[k], s, q)
        /\ \A w : ~SearchesIn(c, w)
        /\ \A s : Pays(c, s) => s = t
    BY <1>1, <2>2 DEF Marks, SearchesIn, Pays
  <2>7. QueriesApart' /\ SearchesCounted' /\ AnswersTold' /\ SlotsSpaced'
    BY <1>2, <2>2, <2>4, <2>6, ApartStays, CountedStays, ToldStays, SpacedStays
  <2>8. CallsPaid'
    <3> SUFFICES ASSUME NEW s \in Web!Tools
                 PROVE  Len(sent'[s]) + Cardinality(Paid(s))' <= budget'[s].count
      BY DEF CallsPaid
    <3>1. Len(sent[s]) + Cardinality(Paid(s)) <= budget[s].count /\ Len(sent[s]) \in Nat /\ budget[s].count \in Int
      BY <2>3 DEF WebInv, CallsPaid, WebTypes
    <3>2. Cardinality(Paid(s)) \in Nat
      BY PaidFinite
    <3>3. /\ Cardinality(Paid(s))' \in Nat
          /\ Pays(c, s) => Cardinality(Paid(s))' <= Cardinality(Paid(s)) + 1
          /\ ~Pays(c, s) => Cardinality(Paid(s))' <= Cardinality(Paid(s))
      BY <2>2, PaidChanges DEF WebInv
    <3>4. CASE s = t
      <4>1. Cardinality(Paid(s))' <= Cardinality(Paid(s)) + 1
        BY <3>2, <3>3
      <4>2. budget'[s].count = budget[s].count + 1 /\ sent' = sent
        BY <1>2, <2>4, <3>4
      <4> QED BY <3>1, <3>2, <3>3, <4>1, <4>2
    <3>5. CASE s # t
      <4>1. Cardinality(Paid(s))' <= Cardinality(Paid(s))
        BY <2>6, <3>3, <3>5
      <4> QED BY <1>2, <2>4, <3>1, <3>2, <3>3, <3>5, <4>1
    <3> QED BY <3>4, <3>5
  <2> QED BY <2>5, <2>7, <2>8 DEF WebInv
<1> QED BY <1>3, <1>4

\* The slots are kept in the order they were reserved.
LEMMA ReservesWeb == ASSUME WebInv, NEW k \in Calls, Web!Reserve(k) PROVE WebInv'
<1> PICK t : t = webCall[k].tool
  OBVIOUS
<1> PICK at : at = Web!Slot(t)
  OBVIOUS
<1>1. /\ webCall[k].pc = "reserve" /\ t \in Web!Tools /\ webCall[k].query \in Queries /\ webCall[k].window = Null
      /\ webCall[k] \in WebCall
  BY CallTypes DEF WebInv, WebTypes, Web!Reserve, Web!At
<1>2. UNCHANGED <<budget, window, wrapper, cache, now, sent>>
  BY DEF Web!Reserve
<1>3. lastSlot \in [Web!Tools -> Int] /\ slots \in [Web!Tools -> Seq(Int)] /\ now \in Int
  BY DEF WebInv, WebTypes, Web!TypeOK
<1>4. lastSlot' = [lastSlot EXCEPT ![t] = at] /\ slots' = [slots EXCEPT ![t] = Append(@, at)]
  BY DEF Web!Reserve, Web!Reserved
<1>5. at \in Int /\ at - lastSlot[t] >= Interval
  BY <1>1, <1>3 DEF Web!Slot
<1>c. PICK c : c = [webCall[k] EXCEPT !.pc = "sleep", !.slot = at]
  OBVIOUS
<1>6. webCall' = [webCall EXCEPT ![k] = c]
  BY <1>c DEF Web!Reserve, WebInv, WebTypes
<1>7. c \in WebCall /\ c.pc = "sleep" /\ c.tool = t /\ c.query = webCall[k].query
  <2> PICK d : d = webCall[k]
    OBVIOUS
  <2>1. d \in [pc : {"cache", "dedupe", "consume", "reserve", "sleep"}, tool : Web!Tools, query : Queries,
               slot : Int, window : {Null}]
    BY <1>1 DEF WebCall, Web!Idle
  <2>2. c = [d EXCEPT !.pc = "sleep", !.slot = at]
    BY <1>c
  <2>3. c \in [pc : {"cache", "dedupe", "consume", "reserve", "sleep"}, tool : Web!Tools, query : Queries,
               slot : Int, window : {Null}]
    BY <1>5, <2>1, <2>2
  <2>4. c.pc = "sleep" /\ c.tool = d.tool /\ c.query = d.query
    BY <2>1, <2>2
  <2> QED BY <2>3, <2>4 DEF WebCall
<1>8. slots'[t] = Append(slots[t], at) /\ \A s \in Web!Tools \ {t} : slots'[s] = slots[s] /\ lastSlot'[s] = lastSlot[s]
  BY <1>1, <1>3, <1>4
<1>9. WebTypes'
  <2>1. webCall' \in [Calls -> WebCall]
    BY <1>6, <1>7 DEF WebInv, WebTypes
  <2>2. lastSlot' \in [Web!Tools -> Int]
    BY <1>1, <1>3, <1>4, <1>5
  <2>3. Append(slots[t], at) \in Seq(Int)
    BY <1>1, <1>3, <1>5, AppendProperties
  <2>4. slots' \in [Web!Tools -> Seq(Int)]
    BY <1>1, <1>3, <1>4, <2>3
  <2> QED BY <1>2, <2>1, <2>2, <2>4 DEF WebInv, WebTypes, Web!TypeOK
<1>10. QueriesApart' /\ CallsPaid' /\ SearchesCounted' /\ AnswersTold'
  <2>1. /\ \A s \in Web!Tools, q \in Queries : Marks(c, s, q) => Marks(webCall[k], s, q)
        /\ \A w : ~SearchesIn(c, w)
        /\ \A s : Pays(c, s) => Pays(webCall[k], s)
    BY <1>1, <1>7 DEF Marks, SearchesIn, Pays
  <2> QED BY <1>2, <1>6, <1>7, <2>1, ApartStays, PaidStays, CountedStays, ToldStays
<1>11. SlotsSpaced'
  <2> SUFFICES ASSUME NEW s \in Web!Tools
               PROVE  (/\ slots[s] # <<>> => slots[s][Len(slots[s])] = lastSlot[s]
                       /\ \A i \in 2 .. Len(slots[s]) : slots[s][i] - slots[s][i - 1] >= Interval)'
    BY DEF SlotsSpaced
  <2>1. /\ slots[s] # <<>> => slots[s][Len(slots[s])] = lastSlot[s]
        /\ \A i \in 2 .. Len(slots[s]) : slots[s][i] - slots[s][i - 1] >= Interval
    BY DEF WebInv, SlotsSpaced
  <2>2. CASE s # t
    BY <1>8, <2>1, <2>2
  <2>3. CASE s = t
    <3> PICK n : n = Len(slots[t])
      OBVIOUS
    <3>1. slots[t] \in Seq(Int) /\ n \in Nat
      BY <1>1, <1>3
    <3>6. n \in Int
      BY <3>1
    <3>2. /\ Len(slots'[t]) = n + 1 /\ slots'[t][n + 1] = at
          /\ \A i \in 1 .. n : slots'[t][i] = slots[t][i]
      BY <1>5, <1>8, <3>1, AppendProperties
    <3>3. lastSlot'[t] = at
      BY <1>1, <1>3, <1>4
    <3>4. ASSUME NEW i \in 2 .. (n + 1) PROVE slots'[t][i] - slots'[t][i - 1] >= Interval
      <4>1. CASE i \in 2 .. n
        <5>1. i \in 1 .. n /\ i - 1 \in 1 .. n
          BY <3>6, <4>1
        <5> QED BY <2>1, <2>3, <3>2, <4>1, <5>1
      <4>2. CASE i = n + 1
        <5>1. n >= 1 /\ n \in 1 .. n
          BY <3>1, <3>4, <4>2
        <5>2. slots'[t][i] = at /\ slots'[t][i - 1] = slots[t][n]
          BY <3>1, <3>2, <4>2, <5>1
        <5>3. slots[t][n] = lastSlot[t]
          BY <2>1, <2>3, <3>1, <5>1, EmptySeq
        <5> QED BY <1>5, <5>2, <5>3
      <4>3. i \in 2 .. n \/ i = n + 1
        BY <3>6
      <4> QED BY <4>1, <4>2, <4>3
    <3> QED BY <2>3, <3>2, <3>3, <3>4
  <2> QED BY <2>2, <2>3
<1> QED BY <1>9, <1>10, <1>11 DEF WebInv

\* The search is counted in the window that it will name when it is sent.
LEMMA Counts ==
  ASSUME WebInv, Enforced, NEW k \in Calls, NEW c \in WebCall, webCall' = [webCall EXCEPT ![k] = c],
         webCall[k].pc = "sleep", webCall[k].tool = "search", NEW w, w = Web!Window, NEW n \in {0, 1},
         window' = [w EXCEPT !.count = @ + n], w.count + n <= MaxWebSearches,
         n = 0 => c.pc = "idle",
         n = 1 => c.pc = "wrapper" /\ c.tool = "search" /\ c.query = webCall[k].query /\ c.window = w.start,
         UNCHANGED <<budget, lastSlot, wrapper, cache, now, slots, sent>>
  PROVE  WebInv'
<1>1. /\ window \in [start : 0 .. now, count : 0 .. MaxWebSearches] /\ now \in Spans
      /\ window.start \in Int /\ window.count \in Int /\ now \in Int
  BY DEF WebInv, WebTypes, Web!TypeOK, Spans
<1>2. /\ w \in [start : 0 .. now, count : 0 .. MaxWebSearches]
      /\ w = window \/ (window.start < w.start /\ w.count = 0)
  BY <1>1 DEF Web!Window, Spans
<1>3. w.start \in Spans /\ w.start \in Int /\ w.count \in Int /\ w.start >= window.start
  BY <1>1, <1>2 DEF Spans
<1>4. /\ window' \in [start : 0 .. now, count : 0 .. MaxWebSearches]
      /\ window'.start = w.start /\ window'.count = w.count + n
  BY <1>2, <1>3
<1>5. WebTypes'
  <2>1. webCall' \in [Calls -> WebCall]
    BY DEF WebInv, WebTypes
  <2> QED BY <1>4, <2>1 DEF WebInv, WebTypes, Web!TypeOK
<1>6. QueriesApart' /\ CallsPaid' /\ AnswersTold' /\ SlotsSpaced'
  <2>1. /\ \A t \in Web!Tools, q \in Queries : Marks(c, t, q) => Marks(webCall[k], t, q)
        /\ \A t : Pays(c, t) => Pays(webCall[k], t)
        /\ c.pc # "store"
    BY DEF Marks, Pays
  <2> QED BY <2>1, ApartStays, PaidStays, ToldStays, SpacedStays
<1>7. SearchesCounted'
  <2>1. webCall'[k] = c /\ \A l \in Calls \ {k} : webCall'[l] = webCall[l]
    BY DEF WebInv, WebTypes
  <2>2. \A v : SearchesIn(c, v) => n = 1 /\ v = w.start
    BY DEF SearchesIn
  <2>3. \A i \in DOMAIN sent'["search"] : sent'["search"][i].window \in 0 .. window'.start
    BY <1>1, <1>3, <1>4 DEF WebInv, SearchesCounted
  <2>4. \A m \in Calls, v \in Spans : SearchesIn(webCall'[m], v) => v <= window'.start
    <3> SUFFICES ASSUME NEW m \in Calls, NEW v \in Spans, SearchesIn(webCall'[m], v) PROVE v <= window'.start
      OBVIOUS
    <3>1. v \in Int
      BY DEF Spans
    <3>2. CASE m = k
      BY <1>3, <1>4, <2>1, <2>2, <3>1, <3>2
    <3>3. CASE m # k
      <4>1. v <= window.start
        BY <2>1, <3>3 DEF WebInv, SearchesCounted
      <4> QED BY <1>1, <1>3, <1>4, <3>1, <4>1
    <3> QED BY <3>2, <3>3
  <2>5. \A m \in Calls : ~SearchesIn(webCall'[m], Null)
    <3>1. w.start # Null
      BY <1>3 DEF Spans
    <3> QED BY <2>1, <2>2, <3>1 DEF WebInv, SearchesCounted
  <2>6. ASSUME NEW v \in 0 .. window'.start
        PROVE  Cardinality(Web!InWindow(v))' + Cardinality(SearchingIn(v))'
                 <= IF v = window'.start THEN window'.count ELSE MaxWebSearches
    <3>0. v \in Int /\ v <= w.start /\ v >= 0
      BY <1>3, <1>4, <2>6
    <3>1. Web!InWindow(v)' = Web!InWindow(v)
      BY DEF Web!InWindow
    <3>2. Cardinality(SearchingIn(v)) \in Nat /\ Cardinality(Web!InWindow(v)) \in Nat
      BY SearchingFinite, InWindowFinite DEF WebInv
    <3>3. /\ Cardinality(SearchingIn(v))' \in Nat
          /\ SearchesIn(c, v) => Cardinality(SearchingIn(v))' <= Cardinality(SearchingIn(v)) + 1
          /\ ~SearchesIn(c, v) => Cardinality(SearchingIn(v))' <= Cardinality(SearchingIn(v))
      BY SearchingChanges DEF WebInv
    <3>4. Cardinality(SearchingIn(v))' <= Cardinality(SearchingIn(v)) + (IF v = w.start THEN n ELSE 0)
      BY <2>2, <3>2, <3>3
    <3>5. ASSUME v <= window.start
          PROVE  Cardinality(Web!InWindow(v)) + Cardinality(SearchingIn(v))
                   <= IF v = window.start THEN window.count ELSE MaxWebSearches
      <4>1. v \in 0 .. window.start
        BY <1>1, <3>0, <3>5
      <4> QED BY <4>1 DEF WebInv, SearchesCounted
    <3>6. ASSUME window.start < v PROVE Cardinality(Web!InWindow(v)) = 0 /\ Cardinality(SearchingIn(v)) = 0
      <4>1. v \in Spans
        BY <1>3, <3>0 DEF Spans
      <4>2. \A i \in DOMAIN sent["search"] : sent["search"][i].window # v
        BY <1>1, <3>0, <3>6 DEF WebInv, SearchesCounted
      <4>3. \A m \in Calls : ~SearchesIn(webCall[m], v)
        BY <1>1, <3>0, <3>6, <4>1 DEF WebInv, SearchesCounted
      <4>4. Web!InWindow(v) = {} /\ SearchingIn(v) = {}
        BY <4>2, <4>3 DEF Web!InWindow, SearchingIn
      <4> QED BY <4>4, FS_EmptySet
    <3>7. CASE v = w.start
      <4>1. Cardinality(Web!InWindow(v)) + Cardinality(SearchingIn(v)) <= w.count
        BY <1>1, <1>2, <1>3, <3>2, <3>5, <3>6, <3>7
      <4> QED BY <1>3, <1>4, <3>1, <3>2, <3>3, <3>4, <3>7, <4>1
    <3>8. CASE v # w.start
      <4>1. Cardinality(Web!InWindow(v)) + Cardinality(SearchingIn(v)) <= MaxWebSearches
        <5>1. window.count <= MaxWebSearches /\ 0 <= MaxWebSearches
          BY <1>1
        <5> QED BY <1>1, <3>0, <3>2, <3>5, <3>6, <5>1
      <4>2. Cardinality(SearchingIn(v))' <= Cardinality(SearchingIn(v))
        BY <2>2, <3>3, <3>8
      <4>3. v # window'.start
        BY <1>4, <3>8
      <4> QED BY <3>1, <3>2, <3>3, <4>1, <4>2, <4>3
    <3> QED BY <3>7, <3>8
  <2> QED BY <2>3, <2>4, <2>5, <2>6 DEF SearchesCounted
<1> QED BY <1>5, <1>6, <1>7 DEF WebInv

LEMMA ChecksWeb == ASSUME WebInv, NEW k \in Calls, Web!CheckSearchLimit(k) PROVE WebInv'
<1>1. /\ webCall[k].pc = "sleep" /\ webCall[k].tool \in Web!Tools /\ webCall[k].query \in Queries
      /\ webCall[k].window = Null /\ webCall[k] \in WebCall /\ webCall \in [Calls -> WebCall]
  BY CallTypes DEF WebInv, WebTypes, Web!CheckSearchLimit, Web!At
<1>2. UNCHANGED <<budget, lastSlot, wrapper, cache, now, slots, sent>>
  BY DEF Web!CheckSearchLimit
<1>3. ASSUME ~(webCall[k].tool = "search" /\ Enforced) PROVE WebInv'
  <2>1. Web!Goes(k, "wrapper") /\ UNCHANGED window
    BY <1>3 DEF Web!CheckSearchLimit
  <2>2. wrapper' \subseteq Web!Tools
    BY <1>2 DEF WebInv, WebTypes, Web!TypeOK
  <2> QED BY <1>1, <1>2, <1>3, <2>1, <2>2, GoesOn
<1>4. ASSUME webCall[k].tool = "search", Enforced PROVE WebInv'
  <2>0. PICK w : w = Web!Window
    OBVIOUS
  <2>1. w \in [start : 0 .. now, count : 0 .. MaxWebSearches] /\ now \in Spans
    BY <2>0 DEF Web!Window, WebInv, WebTypes, Web!TypeOK, Spans
  <2>2. ASSUME w.count >= MaxWebSearches PROVE WebInv'
    <3>1. window' = w /\ Web!Ends(k)
      BY <1>4, <2>0, <2>2 DEF Web!CheckSearchLimit
    <3>2. window' = [w EXCEPT !.count = @ + 0] /\ w.count + 0 <= MaxWebSearches
      BY <2>1, <3>1
    <3>3. Web!Idle \in WebCall /\ Web!Idle.pc = "idle" /\ webCall' = [webCall EXCEPT ![k] = Web!Idle]
      BY <3>1 DEF WebCall, Web!Idle, Web!Ends
    <3>4. 0 \in {0, 1} /\ 0 # 1
      OBVIOUS
    <3> QED BY <1>1, <1>2, <1>4, <2>0, <3>2, <3>3, <3>4, Counts
  <2>3. ASSUME ~(w.count >= MaxWebSearches) PROVE WebInv'
    <3>1. window' = [w EXCEPT !.count = @ + 1]
      BY <1>4, <2>0, <2>3 DEF Web!CheckSearchLimit
    <3> PICK d, c : d = webCall[k] /\ c = [d EXCEPT !.pc = "wrapper", !.window = w.start]
      OBVIOUS
    <3>2. webCall' = [webCall EXCEPT ![k] = c]
      BY <1>1, <1>4, <2>0, <2>3 DEF Web!CheckSearchLimit
    <3>3. d \in [pc : {"cache", "dedupe", "consume", "reserve", "sleep"}, tool : Web!Tools, query : Queries,
                 slot : Int, window : {Null}]
      BY <1>1 DEF WebCall, Web!Idle
    <3>4. w.start \in Spans
      BY <2>1 DEF Spans
    <3>5. c \in [pc : {"wrapper", "send", "store"}, tool : Web!Tools, query : Queries, slot : Int,
                 window : Spans \cup {Null}]
      BY <3>3, <3>4
    <3>6. c.pc = "wrapper" /\ c.tool = "search" /\ c.query = webCall[k].query /\ c.window = w.start
      BY <1>4, <3>3
    <3>7. c \in WebCall
      BY <3>5 DEF WebCall
    <3>8. w.count + 1 <= MaxWebSearches
      BY <2>1, <2>3
    <3>9. 1 \in {0, 1} /\ 1 # 0
      OBVIOUS
    <3> QED BY <1>1, <1>2, <1>4, <2>0, <3>1, <3>2, <3>6, <3>7, <3>8, <3>9, Counts
  <2> QED BY <2>2, <2>3
<1> QED BY <1>3, <1>4

\* A request is sent: its query, which was marked, was not sent before.
LEMMA Sends ==
  ASSUME WebInv, NEW k \in Calls, NEW t, t = webCall[k].tool, NEW q, q = webCall[k].query, webCall[k].pc = "send",
         NEW c \in WebCall, webCall' = [webCall EXCEPT ![k] = c],
         c.pc = "idle" \/ (c.pc = "store" /\ c.tool = t /\ c.query = q),
         NEW r, r = [query |-> q, window |-> webCall[k].window], sent' = [sent EXCEPT ![t] = Append(@, r)],
         UNCHANGED <<budget, window, lastSlot, wrapper, cache, now, slots>>
  PROVE  WebInv'
<1>1. /\ t \in Web!Tools /\ q \in Queries /\ webCall[k].window \in Spans \cup {Null}
      /\ sent \in [Web!Tools -> Seq([query : Queries, window : Spans \cup {Null}])]
  BY CallTypes DEF WebInv, WebTypes
<1>2. r \in [query : Queries, window : Spans \cup {Null}] /\ r.query = q /\ r.window = webCall[k].window
  BY <1>1
<1>3. PICK n : n = Len(sent[t])
  OBVIOUS
<1>4. n \in Nat /\ n \in Int /\ sent[t] \in Seq([query : Queries, window : Spans \cup {Null}])
      /\ DOMAIN sent[t] = 1 .. n
  <2>1. sent[t] \in Seq([query : Queries, window : Spans \cup {Null}])
    BY <1>1
  <2>2. Len(sent[t]) \in Nat /\ DOMAIN sent[t] = 1 .. Len(sent[t])
    BY <2>1
  <2> QED BY <1>3, <2>1, <2>2
<1>5. /\ sent'[t] = Append(sent[t], r) /\ \A s \in Web!Tools \ {t} : sent'[s] = sent[s]
      /\ sent'[t] \in Seq([query : Queries, window : Spans \cup {Null}])
  BY <1>1, <1>2, AppendProperties
<1>6. /\ Len(sent'[t]) = n + 1 /\ DOMAIN sent'[t] = 1 .. (n + 1) /\ sent'[t][n + 1] = r
      /\ \A i \in 1 .. n : sent'[t][i] = sent[t][i]
  BY <1>1, <1>2, <1>3, <1>4, <1>5, AppendProperties
<1>7. webCall'[k] = c /\ \A l \in Calls \ {k} : webCall'[l] = webCall[l]
  BY DEF WebInv, WebTypes
<1>8. (\A s, p : ~Marks(c, s, p)) /\ (\A s : ~Pays(c, s)) /\ (\A w : ~SearchesIn(c, w))
  BY DEF Marks, Pays, SearchesIn
<1>9. WebTypes'
  <2>1. webCall' \in [Calls -> WebCall]
    BY DEF WebInv, WebTypes
  <2>2. sent' \in [Web!Tools -> Seq([query : Queries, window : Spans \cup {Null}])]
    BY <1>1, <1>5
  <2> QED BY <2>1, <2>2 DEF WebInv, WebTypes, Web!TypeOK
<1>10. \A i \in 1 .. (n + 1) : i \in 1 .. n \/ i = n + 1
  BY <1>4
<1>11. QueriesApart'
  <2>1. Marks(webCall[k], t, q)
    BY DEF Marks
  <2> SUFFICES ASSUME NEW s \in Web!Tools
               PROVE  (/\ \A i \in DOMAIN sent[s] : sent[s][i].query \in budget[s].seen
                       /\ \A i, j \in DOMAIN sent[s] : i # j => sent[s][i].query # sent[s][j].query
                       /\ \A m \in Calls, p \in Queries : Marks(webCall[m], s, p) =>
                            /\ p \in budget[s].seen
                            /\ \A i \in DOMAIN sent[s] : sent[s][i].query # p
                            /\ \A l \in Calls : Marks(webCall[l], s, p) => l = m)'
    BY DEF QueriesApart
  <2>2. /\ \A i \in DOMAIN sent[s] : sent[s][i].query \in budget[s].seen
        /\ \A i, j \in DOMAIN sent[s] : i # j => sent[s][i].query # sent[s][j].query
        /\ \A m \in Calls, p \in Queries : Marks(webCall[m], s, p) =>
             /\ p \in budget[s].seen
             /\ \A i \in DOMAIN sent[s] : sent[s][i].query # p
             /\ \A l \in Calls : Marks(webCall[l], s, p) => l = m
    BY DEF WebInv, QueriesApart
  <2>3. CASE s # t
    BY <1>5, <1>7, <1>8, <2>2, <2>3
  <2>4. CASE s = t
    <3>1. q \in budget[t].seen /\ (\A i \in 1 .. n : sent[t][i].query # q)
          /\ \A l \in Calls : Marks(webCall[l], t, q) => l = k
      BY <1>1, <1>4, <2>1, <2>2, <2>4
    <3>2. \A i \in DOMAIN sent'[t] : sent'[t][i].query \in budget'[t].seen
      BY <1>2, <1>4, <1>6, <1>10, <2>2, <2>4, <3>1
    <3>3. \A i, j \in DOMAIN sent'[t] : i # j => sent'[t][i].query # sent'[t][j].query
      BY <1>2, <1>4, <1>6, <1>10, <2>2, <2>4, <3>1
    <3>4. ASSUME NEW m \in Calls, NEW p \in Queries, Marks(webCall'[m], t, p)
          PROVE  /\ p \in budget'[t].seen
                 /\ \A i \in DOMAIN sent'[t] : sent'[t][i].query # p
                 /\ \A l \in Calls : Marks(webCall'[l], t, p) => l = m
      <4>1. m # k /\ Marks(webCall[m], t, p)
        BY <1>7, <1>8, <3>4
      <4>2. p # q
        BY <3>1, <4>1
      <4>3. \A l \in Calls : Marks(webCall'[l], t, p) => l = m
        BY <1>7, <1>8, <2>2, <2>4, <4>1
      <4>4. \A i \in DOMAIN sent'[t] : sent'[t][i].query # p
        BY <1>2, <1>4, <1>6, <1>10, <2>2, <2>4, <4>1, <4>2
      <4>5. p \in budget'[t].seen
        BY <2>2, <2>4, <4>1
      <4> QED BY <4>3, <4>4, <4>5
    <3> QED BY <2>4, <3>2, <3>3, <3>4
  <2> QED BY <2>3, <2>4
<1>12. CallsPaid'
  <2> SUFFICES ASSUME NEW s \in Web!Tools
               PROVE  Len(sent'[s]) + Cardinality(Paid(s))' <= budget'[s].count
    BY DEF CallsPaid
  <2>1. Len(sent[s]) + Cardinality(Paid(s)) <= budget[s].count /\ Len(sent[s]) \in Nat /\ budget[s].count \in Int
    BY DEF WebInv, CallsPaid, WebTypes, Web!TypeOK
  <2>2. Cardinality(Paid(s)) \in Nat
    BY PaidFinite
  <2>3. /\ Cardinality(Paid(s))' \in Nat /\ Cardinality(Paid(s))' <= Cardinality(Paid(s))
        /\ Pays(webCall[k], s) => Cardinality(Paid(s))' = Cardinality(Paid(s)) - 1
    BY <1>8, PaidChanges DEF WebInv
  <2>4. CASE s = t
    <3>1. Pays(webCall[k], s)
      BY <2>4 DEF Pays
    <3>2. Cardinality(Paid(s))' = Cardinality(Paid(s)) - 1
      BY <2>3, <3>1
    <3>3. Len(sent'[s]) = Len(sent[s]) + 1 /\ budget' = budget
      BY <1>3, <1>6, <2>4
    <3> QED BY <2>1, <2>2, <3>2, <3>3
  <2>5. CASE s # t
    <3>1. Len(sent'[s]) = Len(sent[s]) /\ budget'[s].count = budget[s].count
      BY <1>5, <2>5
    <3>2. Cardinality(Paid(s))' <= Cardinality(Paid(s)) /\ Cardinality(Paid(s))' \in Nat
      BY <2>3
    <3> QED BY <2>1, <2>2, <3>1, <3>2
  <2> QED BY <2>4, <2>5
<1>13. SlotsSpaced'
  BY SpacedStays
<1>14. AnswersTold'
  <2>1. ASSUME NEW s \in Web!Tools, NEW p, Told(s, p) PROVE Told(s, p)'
    <3>1. PICK i \in DOMAIN sent[s] : sent[s][i].query = p
      BY <2>1 DEF Told
    <3>2. i \in DOMAIN sent'[s] /\ sent'[s][i] = sent[s][i]
      BY <1>4, <1>5, <1>6, <3>1
    <3> QED BY <3>1, <3>2 DEF Told
  <2>2. Told(t, q)'
    <3>1. n + 1 \in DOMAIN sent'[t] /\ sent'[t][n + 1].query = q
      BY <1>2, <1>4, <1>6
    <3> QED BY <3>1 DEF Told
  <2>3. \A key \in cache : key.tool \in Web!Tools
    BY DEF WebInv, WebTypes, Web!TypeOK
  <2>4. \A key \in cache' : Told(key.tool, key.query)'
    BY <2>1, <2>3 DEF WebInv, AnswersTold
  <2>5. ASSUME NEW l \in Calls, webCall'[l].pc = "store" PROVE Told(webCall[l].tool, webCall[l].query)'
    <3>1. CASE l = k
      BY <1>7, <2>2, <2>5, <3>1
    <3>2. CASE l # k
      <4>1. webCall'[l] = webCall[l] /\ Told(webCall[l].tool, webCall[l].query)
        BY <1>7, <2>5, <3>2 DEF WebInv, AnswersTold
      <4>2. webCall[l].tool \in Web!Tools
        BY <2>5, <4>1, CallTypes DEF WebInv, WebTypes
      <4>3. PICK s, p : s = webCall[l].tool /\ p = webCall[l].query
        OBVIOUS
      <4>4. Told(s, p)'
        BY <2>1, <4>1, <4>2, <4>3
      <4> QED BY <4>1, <4>3, <4>4
    <3> QED BY <3>1, <3>2
  <2> QED BY <2>4, <2>5 DEF AnswersTold
<1>15. SearchesCounted'
  <2> SUFFICES ASSUME Enforced PROVE SearchesCounted'
    BY DEF SearchesCounted
  <2>1. "search" \in Web!Tools
    BY DEF Web!Tools
  <2>2. /\ window.start \in Int /\ window.start \in 0 .. now /\ now \in 0 .. MaxTime
        /\ window.count \in Int /\ window' = window
    BY DEF WebInv, WebTypes, Web!TypeOK
  <2>3. \A m \in Calls : \A w : SearchesIn(webCall'[m], w) => SearchesIn(webCall[m], w)
    BY <1>7, <1>8
  <2>4. /\ \A m \in Calls, w \in Spans : SearchesIn(webCall'[m], w) => w <= window'.start
        /\ \A m \in Calls : ~SearchesIn(webCall'[m], Null)
    BY <2>2, <2>3 DEF WebInv, SearchesCounted
  <2>5. ASSUME t = "search"
        PROVE  r.window \in 0 .. window.start /\ SearchesIn(webCall[k], r.window)
    <3>1. SearchesIn(webCall[k], webCall[k].window)
      BY <2>5 DEF SearchesIn
    <3>2. webCall[k].window \in Spans
      BY <1>1, <3>1 DEF WebInv, SearchesCounted
    <3>3. webCall[k].window <= window.start
      BY <3>1, <3>2 DEF WebInv, SearchesCounted
    <3> QED BY <1>2, <2>2, <3>1, <3>2, <3>3 DEF Spans
  <2>6. \A i \in DOMAIN sent'["search"] : sent'["search"][i].window \in 0 .. window'.start
    <3>1. \A i \in DOMAIN sent["search"] : sent["search"][i].window \in 0 .. window.start
      BY DEF WebInv, SearchesCounted
    <3>2. CASE t = "search"
      BY <1>4, <1>6, <1>10, <2>2, <2>5, <3>1, <3>2
    <3>3. CASE t # "search"
      BY <1>5, <2>1, <2>2, <3>1, <3>3
    <3> QED BY <3>2, <3>3
  <2>7. ASSUME NEW w \in 0 .. window.start
        PROVE  Cardinality(Web!InWindow(w))' + Cardinality(SearchingIn(w))'
                 <= IF w = window.start THEN window.count ELSE MaxWebSearches
    <3>1. Cardinality(SearchingIn(w)) \in Nat /\ Cardinality(Web!InWindow(w)) \in Nat /\ IsFiniteSet(Web!InWindow(w))
      BY SearchingFinite, InWindowFinite DEF WebInv
    <3>2. /\ Cardinality(SearchingIn(w))' \in Nat /\ Cardinality(SearchingIn(w))' <= Cardinality(SearchingIn(w))
          /\ SearchesIn(webCall[k], w) => Cardinality(SearchingIn(w))' = Cardinality(SearchingIn(w)) - 1
      BY <1>8, SearchingChanges DEF WebInv
    <3>3. Cardinality(Web!InWindow(w)) + Cardinality(SearchingIn(w))
            <= IF w = window.start THEN window.count ELSE MaxWebSearches
      BY DEF WebInv, SearchesCounted
    <3>4. CASE t = "search" /\ r.window = w
      <4>1. Web!InWindow(w)' = Web!InWindow(w) \cup {n + 1}
        BY <1>4, <1>6, <1>10, <3>4 DEF Web!InWindow
      <4>2. n + 1 \notin Web!InWindow(w)
        BY <1>4, <3>4 DEF Web!InWindow
      <4>3. Cardinality(Web!InWindow(w))' = Cardinality(Web!InWindow(w)) + 1
        BY <3>1, <4>1, <4>2, FS_AddElement
      <4>4. Cardinality(SearchingIn(w))' = Cardinality(SearchingIn(w)) - 1
        BY <2>5, <3>2, <3>4
      <4> QED BY <3>1, <3>3, <4>3, <4>4
    <3>5. CASE ~(t = "search" /\ r.window = w)
      <4>1. Web!InWindow(w)' = Web!InWindow(w)
        <5>1. CASE t = "search"
          BY <1>4, <1>6, <1>10, <3>5, <5>1 DEF Web!InWindow
        <5>2. CASE t # "search"
          BY <1>5, <2>1, <5>2 DEF Web!InWindow
        <5> QED BY <5>1, <5>2
      <4> QED BY <2>2, <3>1, <3>2, <3>3, <4>1
    <3> QED BY <3>4, <3>5
  <2> QED BY <2>2, <2>4, <2>6, <2>7 DEF SearchesCounted
<1> QED BY <1>9, <1>11, <1>12, <1>13, <1>14, <1>15 DEF WebInv

LEMMA SendsWeb == ASSUME WebInv, NEW k \in Calls, Web!Send(k) \/ Web!SendFails(k) PROVE WebInv'
<1>1. webCall[k].pc = "send" /\ webCall[k] \in WebCall
  BY DEF WebInv, WebTypes, Web!Send, Web!SendFails, Web!At
<1>2. CASE Web!Send(k)
  <2> PICK c : c = [webCall[k] EXCEPT !.pc = "store"]
    OBVIOUS
  <2>1. /\ webCall' = [webCall EXCEPT ![k] = c] /\ c \in WebCall
        /\ c.pc = "store" /\ c.tool = webCall[k].tool /\ c.query = webCall[k].query
    BY <1>1, <1>2, GoesWeb DEF Web!Send
  <2> QED BY <1>1, <1>2, <2>1, Sends DEF Web!Send
<1>3. CASE Web!SendFails(k)
  <2>1. Web!Idle \in WebCall /\ Web!Idle.pc = "idle" /\ webCall' = [webCall EXCEPT ![k] = Web!Idle]
    BY <1>3 DEF WebCall, Web!Idle, Web!SendFails, Web!Ends
  <2> QED BY <1>1, <1>3, <2>1, Sends DEF Web!SendFails
<1> QED BY <1>2, <1>3

-----------------------------------------------------------------------------

LEMMA WebStep == WebInv /\ Web!Next => WebInv'
<1> SUFFICES ASSUME WebInv, Web!Next PROVE WebInv'
  OBVIOUS
<1>1. CASE Web!Tick \/ \E key \in cache : Web!Expire(key)
  BY <1>1, WebMeanwhile
<1>2. ASSUME NEW k \in Calls,
             \/ \E t \in Web!Tools, q \in Queries : Web!Call(k, t, q)
             \/ Web!ReadCache(k) \/ Web!CacheUnavailable(k)
             \/ Web!SkipDuplicate(k) \/ Web!ConsumeCall(k) \/ Web!Reserve(k) \/ Web!CheckSearchLimit(k)
             \/ Web!MakeWrapper(k) \/ Web!WrapperFails(k)
             \/ Web!Send(k) \/ Web!SendFails(k) \/ Web!Store(k) \/ Web!StoreFails(k)
      PROVE  WebInv'
  BY <1>2, CallsWeb, PassesWeb, SkipsWeb, ConsumesWeb, ReservesWeb, ChecksWeb, SendsWeb, StoresWeb
<1> QED BY <1>1, <1>2 DEF Web!Next

LEMMA WebInitially == Web!Init => WebInv
<1> SUFFICES ASSUME Web!Init PROVE WebInv
  OBVIOUS
<1>1. Web!Idle \in WebCall /\ Web!Idle.pc = "idle" /\ webCall = [k \in Calls |-> Web!Idle]
  BY DEF WebCall, Web!Idle, Web!Init
<1>2. \A t \in Web!Tools : sent[t] = <<>> /\ slots[t] = <<>> /\ Len(sent[t]) = 0 /\ DOMAIN sent[t] = {}
  BY DEF Web!Init
<1>3. WebTypes
  <2>1. <<>> \in Seq(Int) /\ <<>> \in Seq([query : Queries, window : Spans \cup {Null}])
    OBVIOUS
  <2> QED BY <1>1, <2>1 DEF WebTypes, Web!TypeOK, Web!Init
<1>4. \A k \in Calls : webCall[k].pc = "idle"
  BY <1>1
<1>5. QueriesApart /\ SlotsSpaced /\ AnswersTold
  BY <1>2, <1>4 DEF QueriesApart, SlotsSpaced, AnswersTold, Marks, Web!Init
<1>6. CallsPaid
  <2>1. \A t : Paid(t) = {}
    BY <1>4 DEF Paid, Pays
  <2>2. \A t \in Web!Tools : Cardinality(Paid(t)) = 0
    BY <2>1, FS_EmptySet
  <2>3. \A t \in Web!Tools : Len(sent[t]) = 0 /\ budget[t].count = 0
    BY <1>2 DEF Web!Init
  <2> QED BY <2>2, <2>3 DEF CallsPaid
<1>7. SearchesCounted
  <2>1. "search" \in Web!Tools
    BY DEF Web!Tools
  <2>2. \A w : SearchingIn(w) = {} /\ Web!InWindow(w) = {}
    BY <1>2, <1>4, <2>1 DEF SearchingIn, SearchesIn, Web!InWindow
  <2>3. \A w : Cardinality(SearchingIn(w)) = 0 /\ Cardinality(Web!InWindow(w)) = 0
    BY <2>2, FS_EmptySet
  <2>4. (\A k \in Calls : \A w : ~SearchesIn(webCall[k], w)) /\ window.start = 0 /\ window.count = 0
    BY <1>4 DEF SearchesIn, Web!Init
  <2>5. DOMAIN sent["search"] = {}
    BY <1>2, <2>1
  <2> QED BY <2>3, <2>4, <2>5 DEF SearchesCounted
<1> QED BY <1>3, <1>5, <1>6, <1>7 DEF WebInv

LEMMA WebStutter == WebInv /\ UNCHANGED webVars => WebInv'
<1> SUFFICES ASSUME WebInv, UNCHANGED webVars PROVE WebInv'
  OBVIOUS
<1>1. /\ budget' = budget /\ window' = window /\ lastSlot' = lastSlot /\ wrapper' = wrapper /\ cache' = cache
      /\ webCall' = webCall /\ now' = now /\ slots' = slots /\ sent' = sent
  BY DEF webVars
<1>2. QueriesApart' /\ SlotsSpaced' /\ AnswersTold'
  BY <1>1 DEF WebInv, QueriesApart, SlotsSpaced, AnswersTold, Told
<1>4. WebTypes'
  BY <1>1 DEF WebInv, WebTypes, Web!TypeOK
<1>3. CallsPaid' /\ SearchesCounted'
  BY <1>1 DEF WebInv, CallsPaid, SearchesCounted, Paid, SearchingIn, Web!InWindow
<1> QED BY <1>2, <1>3, <1>4 DEF WebInv

\* The requests of a tool stay within its budget, none is sent twice, their
\* slots are an interval apart, no window has more searches than its limit, and
\* the cache holds answers of requests that were sent.
THEOREM WebStaysBounded == PlatformSpec => []WebCallsBounded
<1>1. PlatformInit => WebInv
  BY WebInitially DEF PlatformInit
<1>2. WebInv /\ [PlatformNext]_platformVars => WebInv'
  <2>1. UNCHANGED platformVars => UNCHANGED webVars
    BY DEF platformVars, webVars
  <2> QED BY <2>1, WebStep, WebStutter DEF PlatformNext
<1>3. WebInv => WebCallsBounded
  <2> SUFFICES ASSUME WebInv PROVE WebCallsBounded
    OBVIOUS
  <2>1. \A t \in Web!Tools : Len(sent[t]) <= CallLimit
    <3> TAKE t \in Web!Tools
    <3>1. Len(sent[t]) + Cardinality(Paid(t)) <= budget[t].count /\ Len(sent[t]) \in Nat
          /\ budget[t].count \in 0 .. CallLimit
      BY DEF WebInv, CallsPaid, WebTypes, Web!TypeOK
    <3>2. Cardinality(Paid(t)) \in Nat
      BY PaidFinite
    <3> QED BY <3>1, <3>2
  <2>2. \A t \in Web!Tools : \A i, j \in DOMAIN sent[t] : i # j => sent[t][i].query # sent[t][j].query
    BY DEF WebInv, QueriesApart
  <2>3. \A t \in Web!Tools : \A i \in 2 .. Len(slots[t]) : slots[t][i] - slots[t][i - 1] >= Interval
    BY DEF WebInv, SlotsSpaced
  <2>4. ASSUME Enforced, NEW w \in 0 .. MaxTime PROVE Web!Cardinality(Web!InWindow(w)) <= MaxWebSearches
    <3>1. /\ window.start \in Int /\ window.start >= 0 /\ window.count \in Int /\ window.count <= MaxWebSearches
      BY DEF WebInv, WebTypes, Web!TypeOK
    <3>2. Cardinality(Web!InWindow(w)) \in Nat /\ Cardinality(SearchingIn(w)) \in Nat
      BY InWindowFinite, SearchingFinite DEF WebInv
    <3>3. CASE w <= window.start
      <4>1. w \in 0 .. window.start
        BY <3>1, <3>3
      <4>2. Cardinality(Web!InWindow(w)) + Cardinality(SearchingIn(w))
              <= IF w = window.start THEN window.count ELSE MaxWebSearches
        BY <2>4, <4>1 DEF WebInv, SearchesCounted
      <4>3. Cardinality(Web!InWindow(w)) <= MaxWebSearches
        BY <3>1, <3>2, <4>2
      <4> QED BY <4>3, WebFinite
    <3>4. CASE ~(w <= window.start)
      <4>1. \A i \in DOMAIN sent["search"] : sent["search"][i].window # w
        BY <2>4, <3>1, <3>4 DEF WebInv, SearchesCounted
      <4>2. Web!InWindow(w) = {}
        BY <4>1 DEF Web!InWindow
      <4>3. Cardinality(Web!InWindow(w)) = 0
        BY <4>2, FS_EmptySet
      <4> QED BY <4>3, WebFinite
    <3> QED BY <3>3, <3>4
  <2>5. \A key \in cache : \E i \in DOMAIN sent[key.tool] : sent[key.tool][i].query = key.query
    BY DEF WebInv, AnswersTold, Told
  <2>6. Web!TypeOK
    BY DEF WebInv, WebTypes
  <2> QED BY <2>1, <2>2, <2>3, <2>4, <2>5, <2>6 DEF WebCallsBounded, Web!WebCallsBounded
<1> QED BY <1>1, <1>2, <1>3, PTL DEF PlatformSpec

HIDE WebAssumed DEF Web!WebAssumption

-----------------------------------------------------------------------------
(* Model settings *)


Partial == [key : Users \cup {"env"}, params : Params \cup {Null}]

Work ==
    [pc : {"load", "select", "key", "name", "config", "params", "reset", "check", "build", "fields", "assign",
           "bind", "running"},
     user : Users \cup {Null}, row : Row \cup {Null}, override : Params \cup {Null}, met : BOOLEAN,
     key : Users \cup {"env", Null}, model : Hub \cup {Null}, fields : Partial \cup Client \cup {Null}]

\* What a call is sure of at its step.
WorkSound(r) ==
    /\ r \in Work
    /\ r.pc \in {"load", "select", "key", "name"} \/ r.row # Null => r.user \in Users
    /\ r.pc = "load" => r.row = Null
    /\ r.pc \in {"select", "key", "name"} => r.row # Null
    /\ r.pc \in {"params", "reset", "fields", "assign"} => r.model \in Hub
    /\ r.pc \in {"fields", "assign"} => r.fields \in Partial

ModelTypes ==
    /\ TypeOK
    /\ DOMAIN call = Calls
    /\ \A c \in Calls : call[c] = Idle \/ WorkSound(call[c])

\* Wanted, of a call's record.
WantedModel(r) == ModelOf[r.row.model]

WantedKey(r) == Resolve(r.user, r.row.keys, ProviderOf[WantedModel(r)])

WantedParams(r) == IF r.override # Null THEN r.override ELSE r.row.params

Wants(r) == [model |-> WantedModel(r), key |-> WantedKey(r), params |-> WantedParams(r)]

\* The model is configured as w says, and its client is the one of w, or will be.
Ready(w) ==
    /\ selected = w.model
    /\ config[w.model] = [key |-> w.key, params |-> w.params]
    /\ llm[w.model] # Null => llm[w.model] = w
    /\ \A d \in Calls : call[d].pc \in {"fields", "assign"} /\ call[d].model = w.model =>
         /\ call[d].fields.key = w.key
         /\ call[d].pc = "assign" => call[d].fields = [key |-> w.key, params |-> w.params]

OnTheWay(r) ==
    /\ r.pc \in {"key", "name"} /\ WantedModel(r) # Null => selected = WantedModel(r)
    /\ r.pc = "name" /\ WantedModel(r) # Null => r.key = WantedKey(r)
    /\ r.pc \notin {"load", "select", "key", "name"} => WantedModel(r) \in Hub
    /\ r.pc \in {"config", "params", "reset"} => selected = WantedModel(r)
    /\ r.pc = "config" => r.key = WantedKey(r)
    /\ r.pc \in {"params", "reset"} => r.model = WantedModel(r) /\ config[r.model].key = WantedKey(r)
    /\ r.pc = "reset" => config[r.model].params = WantedParams(r)
    /\ r.pc \in {"check", "build", "fields", "assign", "bind"} => Ready(Wants(r))
    /\ r.pc = "running" => r.fields = Wants(r)

Undisturbed(r) == r.pc # "idle" /\ r.met = FALSE /\ r.row # Null

ModelInv ==
    /\ ModelTypes
    /\ \A c \in Calls : Undisturbed(call[c]) => OnTheWay(call[c])

LEMMA NullApart == Null \notin Hub /\ Null \notin Params /\ Null \notin Users /\ Null \notin Row /\ Null # "env"
BY ModelsRegistered

LEMMA OverridesAreParams == Overrides \subseteq Params \cup {Null}
BY ModelsRegistered

\* What a chat may ask for: no key only where the environment has none.
Requested ==
    {w \in [model : Hub, key : Users \cup {"env", Null}, params : Params] :
        w.key = Null => ProviderOf[w.model] \notin EnvKeys}

LEMMA WantsRequested ==
    ASSUME NEW r, WorkSound(r), Undisturbed(r), WantedModel(r) \in Hub
    PROVE  Wants(r) \in Requested /\ r.user \in Users /\ r.row \in Row
<1>1. r.user \in Users /\ r.row \in Row /\ r.override \in Params \cup {Null}
  BY DEF WorkSound, Work, Undisturbed
<1>2. ProviderOf[WantedModel(r)] \in Providers
  BY ModelsRegistered
<1>3. WantedParams(r) \in Params
  BY <1>1 DEF WantedParams, Row
<1>4. /\ WantedKey(r) \in Users \cup {"env", Null}
      /\ WantedKey(r) = Null => ProviderOf[WantedModel(r)] \notin EnvKeys
  BY <1>1, <1>2, NullApart DEF WantedKey, Resolve
<1> QED BY <1>1, <1>3, <1>4 DEF Wants, Requested

\* A step of one call that leaves the others as they are.
LEMMA Proceeds ==
    ASSUME ModelInv, NEW c \in Calls, NEW r, r = Idle \/ WorkSound(r), TypeOK',
           call' = [call EXCEPT ![c] = r], selected' = selected, config' = config,
           \A w \in Requested : Ready(w) => Ready(w)',
           Undisturbed(r) => OnTheWay(r)'
    PROVE  ModelInv'
<1>1. DOMAIN call' = Calls /\ call'[c] = r /\ \A d \in Calls \ {c} : call'[d] = call[d]
  BY DEF ModelInv, ModelTypes
<1>2. ASSUME NEW d \in Calls PROVE call'[d] = Idle \/ WorkSound(call'[d])
  BY <1>1 DEF ModelInv, ModelTypes
<1>3. ASSUME NEW d \in Calls, Undisturbed(call'[d]) PROVE OnTheWay(call[d])'
  <2>1. CASE d = c
    <3>1. OnTheWay(r)' /\ call'[d] = r
      BY <1>1, <1>3, <2>1
    <3> QED BY <3>1 DEF OnTheWay
  <2>2. CASE d # c
    <3>1. call'[d] = call[d] /\ Undisturbed(call[d]) /\ WorkSound(call[d]) /\ OnTheWay(call[d])
      BY <1>1, <1>3, <2>2 DEF ModelInv, ModelTypes, Undisturbed, Idle
    <3>2. call[d].pc \in {"check", "build", "fields", "assign", "bind"} => Ready(Wants(call[d]))'
      BY <3>1, WantsRequested DEF OnTheWay
    <3>3. OnTheWay(call[d])
      BY <3>1
    <3>4. config' = config /\ selected' = selected
      OBVIOUS
    <3> QED BY <3>1, <3>2, <3>3, <3>4 DEF OnTheWay
  <2> QED BY <2>1, <2>2
<1> QED BY <1>1, <1>2, <1>3 DEF ModelInv, ModelTypes

\* A write of the shared state, which every other chat has then met.
LEMMA WritesOver ==
    ASSUME ModelInv, NEW c \in Calls, NEW r, WorkSound(r), TypeOK', Writes(c, r),
           Undisturbed(r) => OnTheWay(r)'
    PROVE  ModelInv'
<1>1. DOMAIN call' = Calls /\ call'[c] = r
  BY DEF Writes
<1>2. ASSUME NEW d \in Calls \ {c}
      PROVE  (call'[d] = Idle \/ WorkSound(call'[d])) /\ ~Undisturbed(call'[d])
  <2>1. CASE d \in Chats
    <3>1. call'[d] = [call[d] EXCEPT !.met = TRUE] /\ WorkSound(call[d])
      BY <1>2, <2>1 DEF Writes, Chats, ModelInv, ModelTypes
    <3>2. call[d] \in Work /\ call'[d] \in Work
      BY <3>1 DEF WorkSound, Work
    <3>3. /\ call'[d].pc = call[d].pc /\ call'[d].user = call[d].user /\ call'[d].row = call[d].row
          /\ call'[d].model = call[d].model /\ call'[d].fields = call[d].fields /\ call'[d].met = TRUE
      BY <3>1, <3>2 DEF Work
    <3>4. WorkSound(call'[d])
      BY <3>1, <3>2, <3>3 DEF WorkSound
    <3> QED BY <3>3, <3>4 DEF Undisturbed
  <2>2. CASE d \notin Chats
    <3>1. call'[d] = call[d] /\ (call[d] = Idle \/ (WorkSound(call[d]) /\ call[d].user = Null))
      BY <1>2, <2>2 DEF Writes, Chats, ModelInv, ModelTypes
    <3>2. ~Undisturbed(call[d])
      BY <3>1, NullApart DEF Undisturbed, WorkSound, Idle
    <3> QED BY <3>1, <3>2
  <2> QED BY <2>1, <2>2
<1> QED BY <1>1, <1>2 DEF ModelInv, ModelTypes

\* A call in progress, and what it may count on.
LEMMA AtWork ==
    ASSUME ModelInv, NEW c \in Calls, call[c].pc # "idle"
    PROVE  /\ WorkSound(call[c]) /\ call[c] \in Work /\ TypeOK
           /\ Undisturbed(call[c]) => OnTheWay(call[c])
BY DEF ModelInv, ModelTypes, WorkSound, Idle

LEMMA OneCall ==
    ASSUME ModelInv, NEW c \in Calls, NEW r, call' = [call EXCEPT ![c] = r]
    PROVE  call'[c] = r /\ \A d \in Calls \ {c} : call'[d] = call[d]
BY DEF ModelInv, ModelTypes

LEMMA ReadyKept ==
    ASSUME ModelInv, NEW c \in Calls, NEW r, r.pc \notin {"fields", "assign"},
           call' = [call EXCEPT ![c] = r], UNCHANGED <<selected, config, llm>>
    PROVE  \A w : Ready(w) => Ready(w)'
<1>1. call'[c] = r /\ \A d \in Calls \ {c} : call'[d] = call[d]
  BY OneCall
<1> QED BY <1>1 DEF Ready

\* A step that leaves the model and its client alone.
LEMMA CallGoesOn ==
    ASSUME ModelInv, NEW c \in Calls, NEW r, r = Idle \/ WorkSound(r), r.pc \notin {"fields", "assign"},
           call' = [call EXCEPT ![c] = r], UNCHANGED <<settings, selected, config, llm>>,
           Undisturbed(r) => OnTheWay(r)'
    PROVE  ModelInv'
<1>1. TypeOK'
  <2>1. TypeOK
    BY DEF ModelInv, ModelTypes
  <2> QED BY <2>1 DEF TypeOK
<1>2. \A w \in Requested : Ready(w) => Ready(w)'
  BY ReadyKept
<1> QED BY <1>1, <1>2, Proceeds

LEMMA EndOfCall == ASSUME ModelInv, NEW c \in Calls, Ends(c), UNCHANGED <<settings, selected, config, llm>> PROVE ModelInv'
<1>1. Idle.pc \notin {"fields", "assign"} /\ ~Undisturbed(Idle)
  BY DEF Idle, Undisturbed
<1> QED BY <1>1, CallGoesOn DEF Ends

LEMMA StartSteps ==
    ASSUME ModelInv, NEW c \in Calls, (\E u \in Users, o \in Overrides : StartChat(c, u, o)) \/ StartOther(c)
    PROVE  ModelInv'
<1>1. ASSUME NEW u \in Users, NEW o \in Overrides, StartChat(c, u, o) PROVE ModelInv'
  <2> DEFINE r == [pc |-> "load", user |-> u, row |-> Null, override |-> o, met |-> FALSE,
                   key |-> Null, model |-> Null, fields |-> Null]
  <2>1. WorkSound(r)
    BY NullApart, OverridesAreParams DEF WorkSound, Work
  <2>2. call' = [call EXCEPT ![c] = r] /\ UNCHANGED <<settings, selected, config, llm>>
    BY <1>1 DEF StartChat
  <2>3. r.pc \notin {"fields", "assign"} /\ ~Undisturbed(r)
    BY DEF Undisturbed
  <2> HIDE DEF r
  <2> QED BY <2>1, <2>2, <2>3, CallGoesOn
<1>2. ASSUME StartOther(c) PROVE ModelInv'
  <2> DEFINE r == [pc |-> "check", user |-> Null, row |-> Null, override |-> Null, met |-> FALSE,
                   key |-> Null, model |-> Null, fields |-> Null]
  <2>1. WorkSound(r)
    BY DEF WorkSound, Work
  <2>2. call' = [call EXCEPT ![c] = r] /\ UNCHANGED <<settings, selected, config, llm>>
    BY <1>2 DEF StartOther
  <2>3. r.pc \notin {"fields", "assign"} /\ ~Undisturbed(r)
    BY DEF Undisturbed
  <2> HIDE DEF r
  <2> QED BY <2>1, <2>2, <2>3, CallGoesOn
<1> QED BY <1>1, <1>2

LEMMA LoadSteps == ASSUME ModelInv, NEW c \in Calls, LoadSettings(c) \/ LoadFails(c) PROVE ModelInv'
<1> call[c].pc = "load"
  BY DEF LoadSettings, LoadFails, At
<1>1. WorkSound(call[c]) /\ call[c] \in Work /\ TypeOK /\ call[c].user \in Users /\ call[c].row = Null
  BY AtWork DEF WorkSound
<1>2. CASE LoadSettings(c)
  <2>1. PICK r : r = [call[c] EXCEPT !.row = settings[call[c].user], !.pc = "select"]
    OBVIOUS
  <2>2. r \in Work /\ r.pc = "select" /\ r.user = call[c].user /\ r.row \in Row
    BY <1>1, <2>1 DEF Work, TypeOK
  <2>3. WorkSound(r)
    BY <1>1, <2>2, NullApart DEF WorkSound
  <2>4. OnTheWay(r)'
    BY <2>2 DEF OnTheWay
  <2>5. call' = [call EXCEPT ![c] = r] /\ UNCHANGED <<settings, selected, config, llm>>
    BY <1>2, <2>1 DEF LoadSettings, ModelInv, ModelTypes
  <2> QED BY <2>2, <2>3, <2>4, <2>5, CallGoesOn
<1>3. CASE LoadFails(c)
  <2>1. PICK r : r = [call[c] EXCEPT !.pc = "config"]
    OBVIOUS
  <2>2. r \in Work /\ r.pc = "config" /\ r.row = Null
    BY <1>1, <2>1 DEF Work
  <2>3. WorkSound(r) /\ ~Undisturbed(r)
    BY <2>2 DEF WorkSound, Undisturbed
  <2>5. call' = [call EXCEPT ![c] = r] /\ UNCHANGED <<settings, selected, config, llm>>
    BY <1>3, <2>1 DEF LoadFails, Goes, ModelInv, ModelTypes
  <2> QED BY <2>2, <2>3, <2>5, CallGoesOn
<1> QED BY <1>2, <1>3

\* The model of a row is registered or not.
LEMMA ModelsOfRows == ASSUME NEW row_ \in Row PROVE ModelOf[row_.model] \in Hub \cup {Null}
BY ModelsRegistered DEF Row

LEMMA SelectStep == ASSUME ModelInv, NEW c \in Calls, SelectModel(c) PROVE ModelInv'
<1> call[c].pc = "select"
  BY DEF SelectModel, At
<1>1. WorkSound(call[c]) /\ call[c] \in Work /\ TypeOK /\ call[c].user \in Users /\ call[c].row \in Row
  BY AtWork DEF WorkSound, Work
<1>2. PICK r : r = [call[c] EXCEPT !.pc = "key"]
  OBVIOUS
<1>3. r \in Work /\ r.pc = "key" /\ r.user = call[c].user /\ r.row = call[c].row /\ r.row # Null
  BY <1>1, <1>2, NullApart DEF Work
<1>4. WorkSound(r)
  BY <1>1, <1>3 DEF WorkSound
<1>5. CASE WantedModel(call[c]) = Null
  <2>1. call' = [call EXCEPT ![c] = r] /\ UNCHANGED <<settings, selected, config, llm>>
    BY <1>2, <1>5 DEF SelectModel, Goes, WantedModel
  <2>2. WantedModel(r) = Null
    BY <1>3, <1>5 DEF WantedModel
  <2>3. OnTheWay(r)'
    BY <1>3, <2>2 DEF OnTheWay, WantedModel
  <2> QED BY <1>3, <1>4, <2>1, <2>3, CallGoesOn
<1>6. CASE WantedModel(call[c]) # Null
  <2>1. /\ selected' = WantedModel(call[c]) /\ Writes(c, r)
        /\ UNCHANGED <<settings, config, llm>>
    BY <1>2, <1>6 DEF SelectModel, WantedModel
  <2>2. WantedModel(call[c]) \in Hub /\ WantedModel(r) = WantedModel(call[c])
    BY <1>1, <1>3, <1>6, ModelsOfRows DEF WantedModel
  <2>3. TypeOK'
    BY <1>1, <2>1, <2>2 DEF TypeOK
  <2>4. OnTheWay(r)'
    BY <1>3, <2>1, <2>2 DEF OnTheWay, WantedModel
  <2> QED BY <1>4, <2>1, <2>3, <2>4, WritesOver
<1> QED BY <1>5, <1>6

LEMMA ResolveStep == ASSUME ModelInv, NEW c \in Calls, ResolveKey(c) PROVE ModelInv'
<1> call[c].pc = "key"
  BY DEF ResolveKey, At
<1>1. /\ WorkSound(call[c]) /\ call[c] \in Work /\ TypeOK /\ call[c].user \in Users /\ call[c].row \in Row
      /\ Undisturbed(call[c]) => OnTheWay(call[c])
  BY AtWork DEF WorkSound, Work
<1>2. PICK k : k = Resolve(call[c].user, call[c].row.keys, ProviderOf[selected])
  OBVIOUS
<1>3. k \in Users \cup {"env", Null}
  BY <1>1, <1>2 DEF Resolve
<1>4. PICK r : r = [call[c] EXCEPT !.key = k, !.pc = "name"]
  OBVIOUS
<1>5. /\ r \in Work /\ r.pc = "name" /\ r.user = call[c].user /\ r.row = call[c].row /\ r.key = k
      /\ r.met = call[c].met
  BY <1>1, <1>3, <1>4 DEF Work
<1>6. WorkSound(r)
  BY <1>1, <1>5 DEF WorkSound
<1>7. call' = [call EXCEPT ![c] = r] /\ UNCHANGED <<settings, selected, config, llm>>
  BY <1>2, <1>4 DEF ResolveKey, ModelInv, ModelTypes
<1>8. ASSUME Undisturbed(r) PROVE OnTheWay(r)'
  <2>1. OnTheWay(call[c]) /\ WantedModel(r) = WantedModel(call[c])
    BY <1>1, <1>5, <1>8 DEF Undisturbed, WantedModel
  <2>2. WantedModel(r) # Null => selected = WantedModel(r) /\ r.key = WantedKey(r)
    BY <1>2, <1>5, <2>1 DEF OnTheWay, WantedKey
  <2> QED BY <1>5, <1>7, <2>2 DEF OnTheWay, WantedModel, WantedKey
<1> QED BY <1>5, <1>6, <1>7, <1>8, CallGoesOn

LEMMA NameStep == ASSUME ModelInv, NEW c \in Calls, SetModel(c) PROVE ModelInv'
<1> call[c].pc = "name"
  BY DEF SetModel, At
<1>1. /\ WorkSound(call[c]) /\ call[c] \in Work /\ TypeOK /\ call[c].user \in Users /\ call[c].row \in Row
      /\ Undisturbed(call[c]) => OnTheWay(call[c])
  BY AtWork DEF WorkSound, Work
<1>2. CASE WantedModel(call[c]) = Null
  BY <1>2, EndOfCall DEF SetModel, WantedModel
<1>3. CASE WantedModel(call[c]) # Null
  <2>1. PICK r : r = [call[c] EXCEPT !.pc = "config"]
    OBVIOUS
  <2>2. /\ r \in Work /\ r.pc = "config" /\ r.user = call[c].user /\ r.row = call[c].row /\ r.key = call[c].key
        /\ r.met = call[c].met
    BY <1>1, <2>1 DEF Work
  <2>3. WorkSound(r)
    BY <1>1, <2>2 DEF WorkSound
  <2>4. /\ selected' = WantedModel(call[c]) /\ Writes(c, r)
        /\ UNCHANGED <<settings, config, llm>>
    BY <1>3, <2>1 DEF SetModel, WantedModel
  <2>5. WantedModel(call[c]) \in Hub /\ WantedModel(r) = WantedModel(call[c]) /\ WantedKey(r) = WantedKey(call[c])
    BY <1>1, <2>2, <1>3, ModelsOfRows DEF WantedModel, WantedKey
  <2>6. TypeOK'
    BY <1>1, <2>4, <2>5 DEF TypeOK
  <2>7. ASSUME Undisturbed(r) PROVE OnTheWay(r)'
    <3>1. OnTheWay(call[c])
      BY <1>1, <2>2, <2>7 DEF Undisturbed
    <3>2. r.key = WantedKey(r) /\ selected' = WantedModel(r) /\ WantedModel(r) \in Hub
      BY <1>3, <2>2, <2>4, <2>5, <3>1 DEF OnTheWay
    <3> QED BY <2>2, <3>2 DEF OnTheWay, WantedModel, WantedKey
  <2> QED BY <2>3, <2>4, <2>6, <2>7, WritesOver
<1> QED BY <1>2, <1>3

LEMMA ConfigStep == ASSUME ModelInv, NEW c \in Calls, SetUserKey(c) PROVE ModelInv'
<1> call[c].pc = "config"
  BY DEF SetUserKey, At
<1>1. /\ WorkSound(call[c]) /\ call[c] \in Work /\ TypeOK
      /\ Undisturbed(call[c]) => OnTheWay(call[c])
  BY AtWork
<1>2. CASE Configures(c)
  <2>1. PICK r : r = [call[c] EXCEPT !.pc = "params", !.model = selected, !.key = Null, !.met = @ \/ Building(c)]
    OBVIOUS
  <2>2. /\ r.pc = "params" /\ r.user = call[c].user /\ r.row = call[c].row
        /\ r.model = selected /\ r.fields = call[c].fields
    BY <1>1, <2>1 DEF Work
  <2>3. r \in Work /\ (r.met = FALSE => call[c].met = FALSE)
    <3>1. (call[c].met \/ Building(c)) \in BOOLEAN
      BY <1>1 DEF Work, Building
    <3>2. r.met = (call[c].met \/ Building(c))
      BY <1>1, <2>1 DEF Work
    <3>3. r \in Work
      <4>1. PICK b : b = (call[c].met \/ Building(c))
        OBVIOUS
      <4>2. r = [call[c] EXCEPT !.pc = "params", !.model = selected, !.key = Null, !.met = b]
        BY <2>1, <4>1
      <4>3. b \in BOOLEAN /\ selected \in Hub
        BY <1>1, <3>1, <4>1 DEF TypeOK
      <4>4. call[c] \in Work
        BY <1>1
      <4> QED BY <4>2, <4>3, <4>4 DEF Work
    <3>4. call[c].met \in BOOLEAN
      BY <1>1 DEF Work
    <3> QED BY <3>2, <3>3, <3>4
  <2>4. WorkSound(r)
    BY <1>1, <2>2, <2>3 DEF WorkSound, TypeOK
  <2>5. /\ config' = [config EXCEPT ![selected].key = call[c].key] /\ Writes(c, r)
        /\ UNCHANGED <<settings, selected, llm>>
    BY <1>2, <2>1 DEF SetUserKey
  <2>6. TypeOK' /\ config'[selected].key = call[c].key
    BY <1>1, <2>5 DEF TypeOK, Fields, Work
  <2>7. ASSUME Undisturbed(r) PROVE OnTheWay(r)'
    <3>1. OnTheWay(call[c])
      BY <1>1, <2>2, <2>3, <2>7 DEF Undisturbed
    <3>2. WantedModel(r) = WantedModel(call[c]) /\ WantedKey(r) = WantedKey(call[c])
      BY <2>2 DEF WantedModel, WantedKey
    <3>3. /\ WantedModel(r) \in Hub /\ selected' = WantedModel(r) /\ r.model = WantedModel(r)
          /\ config'[r.model].key = WantedKey(r)
      BY <2>2, <2>5, <2>6, <3>1, <3>2 DEF OnTheWay
    <3> QED BY <2>2, <3>3 DEF OnTheWay, WantedModel, WantedKey
  <2> QED BY <2>4, <2>5, <2>6, <2>7, WritesOver
<1>3. CASE ~Configures(c)
  <2>1. PICK r : r = [call[c] EXCEPT !.pc = "check"]
    OBVIOUS
  <2>2. r \in Work /\ r.pc = "check" /\ r.row = call[c].row /\ r.user = call[c].user
    BY <1>1, <2>1 DEF Work
  <2>3. WorkSound(r)
    BY <1>1, <2>2 DEF WorkSound
  <2>4. call[c].row = Null
    <3>1. ChatParams(c) = Null
      BY <1>3 DEF Configures
    <3>2. call[c].row \in Row \cup {Null}
      BY <1>1 DEF Work
    <3> QED BY <3>1, <3>2, NullApart DEF ChatParams, Row
  <2>5. ~Undisturbed(r)
    BY <2>2, <2>4 DEF Undisturbed
  <2>6. call' = [call EXCEPT ![c] = r] /\ UNCHANGED <<settings, selected, config, llm>>
    BY <1>3, <2>1 DEF SetUserKey, Goes
  <2> QED BY <2>2, <2>3, <2>5, <2>6, CallGoesOn
<1> QED BY <1>2, <1>3

LEMMA ParamsStep == ASSUME ModelInv, NEW c \in Calls, SetUserParams(c) PROVE ModelInv'
<1> call[c].pc = "params"
  BY DEF SetUserParams, At
<1>1. /\ WorkSound(call[c]) /\ call[c] \in Work /\ TypeOK /\ call[c].model \in Hub
      /\ Undisturbed(call[c]) => OnTheWay(call[c])
  BY AtWork DEF WorkSound
<1>2. PICK r : r = [call[c] EXCEPT !.pc = "reset", !.met = @ \/ Building(c)]
  OBVIOUS
<1>3. /\ r.pc = "reset" /\ r.user = call[c].user /\ r.row = call[c].row
      /\ r.model = call[c].model /\ r.fields = call[c].fields /\ r.override = call[c].override
  BY <1>1, <1>2 DEF Work
<1>4. r \in Work /\ (r.met = FALSE => call[c].met = FALSE)
  <2>1. (call[c].met \/ Building(c)) \in BOOLEAN
    BY <1>1 DEF Work, Building
  <2>2. r.met = (call[c].met \/ Building(c))
    BY <1>1, <1>2 DEF Work
  <2>3. r \in Work
    BY <1>1, <1>2, <2>1 DEF Work
  <2>4. call[c].met \in BOOLEAN
    BY <1>1 DEF Work
  <2> QED BY <2>2, <2>3, <2>4
<1>5. WorkSound(r)
  BY <1>1, <1>3, <1>4 DEF WorkSound
<1>6. /\ config' = [config EXCEPT ![call[c].model].params = ChatParams(c)] /\ Writes(c, r)
      /\ UNCHANGED <<settings, selected, llm>>
  BY <1>2 DEF SetUserParams
<1>7. ChatParams(c) \in Params \cup {Null}
  BY <1>1 DEF ChatParams, Work, Row
<1>8. /\ TypeOK' /\ config'[call[c].model].params = ChatParams(c)
      /\ config'[call[c].model].key = config[call[c].model].key
  BY <1>1, <1>6, <1>7 DEF TypeOK, Fields
<1>9. ASSUME Undisturbed(r) PROVE OnTheWay(r)'
  <2>1. OnTheWay(call[c]) /\ call[c].row # Null
    BY <1>1, <1>3, <1>4, <1>9 DEF Undisturbed
  <2>2. WantedModel(r) = WantedModel(call[c]) /\ WantedKey(r) = WantedKey(call[c]) /\ WantedParams(r) = ChatParams(c)
    BY <1>3, <2>1 DEF WantedModel, WantedKey, WantedParams, ChatParams
  <2>3. /\ WantedModel(r) \in Hub /\ selected' = WantedModel(r) /\ r.model = WantedModel(r)
        /\ config'[r.model].key = WantedKey(r) /\ config'[r.model].params = WantedParams(r)
    BY <1>3, <1>6, <1>8, <2>1, <2>2 DEF OnTheWay
  <2> QED BY <1>3, <2>3 DEF OnTheWay, WantedModel, WantedKey, WantedParams
<1> QED BY <1>5, <1>6, <1>8, <1>9, WritesOver

LEMMA DropStep == ASSUME ModelInv, NEW c \in Calls, DropClient(c) PROVE ModelInv'
<1> call[c].pc = "reset"
  BY DEF DropClient, At
<1>1. /\ WorkSound(call[c]) /\ call[c] \in Work /\ TypeOK /\ call[c].model \in Hub
      /\ Undisturbed(call[c]) => OnTheWay(call[c])
  BY AtWork DEF WorkSound
<1>2. PICK r : r = [call[c] EXCEPT !.pc = "check", !.model = Null, !.met = @ \/ Building(c)]
  OBVIOUS
<1>3. /\ r.pc = "check" /\ r.user = call[c].user /\ r.row = call[c].row
      /\ r.fields = call[c].fields /\ r.override = call[c].override
  BY <1>1, <1>2 DEF Work
<1>4. r \in Work /\ (r.met = FALSE => call[c].met = FALSE /\ ~Building(c))
  <2>1. Building(c) \in BOOLEAN /\ call[c].met \in BOOLEAN /\ (call[c].met \/ Building(c)) \in BOOLEAN
    BY <1>1 DEF Work, Building
  <2>2. r.met = (call[c].met \/ Building(c))
    BY <1>1, <1>2 DEF Work
  <2>3. r \in Work
    BY <1>1, <1>2, <2>1 DEF Work
  <2> QED BY <2>1, <2>2, <2>3
<1>5. WorkSound(r)
  BY <1>1, <1>3, <1>4 DEF WorkSound
<1>6. /\ llm' = [llm EXCEPT ![call[c].model] = Null] /\ Writes(c, r)
      /\ UNCHANGED <<settings, selected, config>>
  BY <1>2 DEF DropClient
<1>7. TypeOK' /\ llm'[call[c].model] = Null
  BY <1>1, <1>6 DEF TypeOK
<1>8. ASSUME Undisturbed(r) PROVE OnTheWay(r)'
  <2>1. OnTheWay(call[c]) /\ ~Building(c)
    BY <1>1, <1>3, <1>4, <1>8 DEF Undisturbed
  <2>2. WantedModel(r) = WantedModel(call[c]) /\ WantedKey(r) = WantedKey(call[c]) /\ WantedParams(r) = WantedParams(call[c])
    BY <1>3 DEF WantedModel, WantedKey, WantedParams
  <2>3. /\ WantedModel(r) \in Hub /\ selected' = WantedModel(r) /\ call[c].model = WantedModel(r)
        /\ config'[call[c].model].key = WantedKey(r) /\ config'[call[c].model].params = WantedParams(r)
    BY <1>6, <2>1, <2>2 DEF OnTheWay
  <2>4. config'[WantedModel(r)] = [key |-> WantedKey(r), params |-> WantedParams(r)]
    BY <1>1, <1>6, <2>3 DEF TypeOK, Fields
  <2>5. \A d \in Calls : call'[d].pc \notin {"fields", "assign"}
    <3> TAKE d \in Calls
    <3>1. CASE d = c
      BY <1>3, <1>6, <3>1 DEF Writes
    <3>2. CASE d # c
      <4>1. call[d].pc \notin {"fields", "assign"}
        BY <2>1, <3>2 DEF Building
      <4>2. CASE d \notin Chats
        BY <1>6, <3>2, <4>1, <4>2 DEF Writes
      <4>3. CASE d \in Chats
        <5>1. call'[d] = [call[d] EXCEPT !.met = TRUE] /\ call[d] \in Work
          BY <1>6, <3>2, <4>3 DEF Writes, Chats, ModelInv, ModelTypes, WorkSound
        <5> QED BY <4>1, <5>1 DEF Work
      <4> QED BY <4>2, <4>3
    <3> QED BY <3>1, <3>2
  <2>6. Ready(Wants(r))'
    BY <1>7, <2>3, <2>4, <2>5 DEF Ready, Wants, WantedModel, WantedKey, WantedParams
  <2> QED BY <1>3, <2>3, <2>6 DEF OnTheWay, WantedModel
<1> QED BY <1>5, <1>6, <1>7, <1>8, WritesOver

LEMMA CheckStep == ASSUME ModelInv, NEW c \in Calls, CheckClient(c) PROVE ModelInv'
<1> call[c].pc = "check"
  BY DEF CheckClient, At
<1>1. /\ WorkSound(call[c]) /\ call[c] \in Work /\ TypeOK
      /\ Undisturbed(call[c]) => OnTheWay(call[c])
  BY AtWork
<1>2. PICK pc : pc = IF llm[selected] # Null THEN "bind" ELSE "build"
  OBVIOUS
<1>3. PICK r : r = [call[c] EXCEPT !.pc = pc]
  OBVIOUS
<1>4. /\ r \in Work /\ r.pc \in {"bind", "build"} /\ r.user = call[c].user /\ r.row = call[c].row
      /\ r.override = call[c].override /\ r.met = call[c].met
  BY <1>1, <1>2, <1>3 DEF Work
<1>5. WorkSound(r)
  BY <1>1, <1>4 DEF WorkSound
<1>6. call' = [call EXCEPT ![c] = r] /\ UNCHANGED <<settings, selected, config, llm>>
  BY <1>2, <1>3 DEF CheckClient, Goes
<1>7. ASSUME Undisturbed(r) PROVE OnTheWay(r)'
  <2>1. OnTheWay(call[c])
    BY <1>1, <1>4, <1>7 DEF Undisturbed
  <2>2. Wants(r) = Wants(call[c]) /\ WantedModel(r) = WantedModel(call[c])
    BY <1>4 DEF Wants, WantedModel, WantedKey, WantedParams
  <2>3. Ready(Wants(r)) /\ WantedModel(r) \in Hub
    BY <2>1, <2>2 DEF OnTheWay
  <2>4. Ready(Wants(r))'
    <3>1. \A w : Ready(w) => Ready(w)'
      BY <1>4, <1>6, ReadyKept
    <3>2. PICK w : w = Wants(r)
      OBVIOUS
    <3>3. Ready(w)'
      BY <2>3, <3>1, <3>2
    <3> QED BY <3>2, <3>3 DEF Ready, Wants, WantedModel, WantedKey, WantedParams
  <2> QED BY <1>4, <2>3, <2>4 DEF OnTheWay, WantedModel
<1> QED BY <1>4, <1>5, <1>6, <1>7, CallGoesOn

\* What the model's user key or the environment gives a call whose model is ready.
LEMMA KeyOfReady == ASSUME NEW w \in Requested, Ready(w), CheckApiKey(selected) # Null PROVE CheckApiKey(selected) = w.key
BY DEF Requested, Ready, CheckApiKey

LEMMA BuildStep == ASSUME ModelInv, NEW c \in Calls, BuildKey(c) PROVE ModelInv'
<1> call[c].pc = "build"
  BY DEF BuildKey, At
<1>1. /\ WorkSound(call[c]) /\ call[c] \in Work /\ TypeOK
      /\ Undisturbed(call[c]) => OnTheWay(call[c])
  BY AtWork
<1>2. CASE CheckApiKey(selected) = Null
  BY <1>2, EndOfCall DEF BuildKey
<1>3. CASE CheckApiKey(selected) # Null
  <2>1. PICK f : f = [key |-> CheckApiKey(selected), params |-> Null]
    OBVIOUS
  <2>2. f \in Partial /\ f.key = CheckApiKey(selected)
    BY <1>1, <1>3, <2>1 DEF Partial, CheckApiKey, TypeOK, Fields
  <2>3. PICK r : r = [call[c] EXCEPT !.model = selected, !.pc = "fields", !.fields = f]
    OBVIOUS
  <2>4. /\ r \in Work /\ r.pc = "fields" /\ r.user = call[c].user /\ r.row = call[c].row
        /\ r.override = call[c].override /\ r.met = call[c].met /\ r.model = selected /\ r.fields = f
    BY <1>1, <2>2, <2>3 DEF Work, TypeOK
  <2>5. WorkSound(r)
    BY <1>1, <2>2, <2>4 DEF WorkSound, TypeOK
  <2>6. call' = [call EXCEPT ![c] = r] /\ UNCHANGED <<settings, selected, config, llm>>
    BY <1>3, <2>1, <2>3 DEF BuildKey, ModelInv, ModelTypes
  <2>7. TypeOK'
    BY <1>1, <2>6 DEF TypeOK
  <2>8. ASSUME NEW w \in Requested, Ready(w) PROVE Ready(w)'
    <3>1. f.key = w.key
      BY <1>3, <2>2, <2>8, KeyOfReady
    <3>2. call'[c] = r /\ \A d \in Calls \ {c} : call'[d] = call[d]
      BY <2>6, OneCall
    <3> QED BY <2>4, <2>6, <2>8, <3>1, <3>2 DEF Ready
  <2>9. ASSUME Undisturbed(r) PROVE OnTheWay(r)'
    <3>1. OnTheWay(call[c]) /\ Undisturbed(call[c])
      BY <1>1, <2>4, <2>9 DEF Undisturbed
    <3>2. Wants(r) = Wants(call[c]) /\ WantedModel(r) = WantedModel(call[c])
      BY <2>4 DEF Wants, WantedModel, WantedKey, WantedParams
    <3>3. Ready(Wants(r)) /\ WantedModel(r) \in Hub
      BY <3>1, <3>2 DEF OnTheWay
    <3>4. PICK w : w = Wants(r)
      OBVIOUS
    <3>5. Ready(w)'
      BY <2>5, <2>8, <2>9, <3>3, <3>4, WantsRequested
    <3> QED BY Zenon, <2>4, <3>3, <3>4, <3>5 DEF OnTheWay, Ready, Wants, WantedModel, WantedKey, WantedParams
  <2> QED BY <2>5, <2>6, <2>7, <2>8, <2>9, Proceeds
<1> QED BY <1>2, <1>3

LEMMA FieldsStep == ASSUME ModelInv, NEW c \in Calls, BuildParams(c) PROVE ModelInv'
<1> call[c].pc = "fields"
  BY DEF BuildParams, At
<1>1. /\ WorkSound(call[c]) /\ call[c] \in Work /\ TypeOK /\ call[c].model \in Hub /\ call[c].fields \in Partial
      /\ Undisturbed(call[c]) => OnTheWay(call[c])
  BY AtWork DEF WorkSound
<1>2. PICK f : f = [call[c].fields EXCEPT !.params = config[call[c].model].params]
  OBVIOUS
<1>3. f \in Partial /\ f.key = call[c].fields.key /\ f.params = config[call[c].model].params
  BY <1>1, <1>2 DEF Partial, TypeOK, Fields
<1>4. PICK r : r = [call[c] EXCEPT !.fields = f, !.pc = "assign"]
  OBVIOUS
<1>5. /\ r \in Work /\ r.pc = "assign" /\ r.user = call[c].user /\ r.row = call[c].row
      /\ r.override = call[c].override /\ r.met = call[c].met /\ r.model = call[c].model /\ r.fields = f
  BY <1>1, <1>3, <1>4 DEF Work
<1>6. WorkSound(r)
  BY <1>1, <1>3, <1>5 DEF WorkSound
<1>7. call' = [call EXCEPT ![c] = r] /\ UNCHANGED <<settings, selected, config, llm>>
  <2>1. call' = [call EXCEPT ![c].fields.params = config[call[c].model].params, ![c].pc = "assign"]
        /\ UNCHANGED <<settings, selected, config, llm>>
    BY DEF BuildParams
  <2>2. DOMAIN call = Calls
    BY DEF ModelInv, ModelTypes
  <2> QED BY <1>2, <1>4, <2>1, <2>2
<1>8. TypeOK'
  BY <1>1, <1>7 DEF TypeOK
<1>9. ASSUME NEW w \in Requested, Ready(w) PROVE Ready(w)'
  <2>1. call'[c] = r /\ \A d \in Calls \ {c} : call'[d] = call[d]
    BY <1>7, OneCall
  <2>2. r.model = w.model => r.fields.key = w.key /\ r.fields.params = w.params
    <3>1. r.model = w.model => call[c].model = w.model /\ call[c].fields.key = w.key
      BY Zenon, <1>5, <1>9 DEF Ready
    <3>2. config[w.model].params = w.params
      BY <1>9 DEF Ready
    <3> QED BY <1>3, <1>5, <3>1, <3>2
  <2>3. r.model = w.model => r.fields = [key |-> w.key, params |-> w.params]
    BY <1>3, <1>5, <2>2 DEF Partial
  <2> QED BY <1>7, <1>9, <2>1, <2>2, <2>3 DEF Ready
<1>10. ASSUME Undisturbed(r) PROVE OnTheWay(r)'
  <2>1. OnTheWay(call[c]) /\ Undisturbed(call[c])
    BY <1>1, <1>5, <1>10 DEF Undisturbed
  <2>2. Wants(r) = Wants(call[c]) /\ WantedModel(r) = WantedModel(call[c])
    BY <1>5 DEF Wants, WantedModel, WantedKey, WantedParams
  <2>3. Ready(Wants(r)) /\ WantedModel(r) \in Hub
    BY <2>1, <2>2 DEF OnTheWay
  <2>4. PICK w : w = Wants(r)
    OBVIOUS
  <2>5. Ready(w)'
    BY <1>6, <1>9, <1>10, <2>3, <2>4, WantsRequested
  <2> QED BY Zenon, <1>5, <2>3, <2>4, <2>5 DEF OnTheWay, Ready, Wants, WantedModel, WantedKey, WantedParams
<1> QED BY <1>6, <1>7, <1>8, <1>9, <1>10, Proceeds

LEMMA AssignStep == ASSUME ModelInv, NEW c \in Calls, AssignClient(c) PROVE ModelInv'
<1> call[c].pc = "assign"
  BY DEF AssignClient, At
<1>1. /\ WorkSound(call[c]) /\ call[c] \in Work /\ TypeOK /\ call[c].model \in Hub /\ call[c].fields \in Partial
      /\ Undisturbed(call[c]) => OnTheWay(call[c])
  BY AtWork DEF WorkSound
<1>2. PICK r : r = [call[c] EXCEPT !.pc = "bind", !.model = Null, !.fields = Null]
  OBVIOUS
<1>3. /\ r \in Work /\ r.pc = "bind" /\ r.user = call[c].user /\ r.row = call[c].row
      /\ r.override = call[c].override /\ r.met = call[c].met
  BY <1>1, <1>2 DEF Work
<1>4. WorkSound(r)
  BY <1>1, <1>3 DEF WorkSound
<1>5. PICK client : client = [model |-> call[c].model, key |-> call[c].fields.key, params |-> call[c].fields.params]
  OBVIOUS
<1>6. client \in Client
  BY <1>1, <1>5 DEF Client, Partial
<1>7. /\ call' = [call EXCEPT ![c] = r] /\ llm' = [llm EXCEPT ![call[c].model] = client]
      /\ UNCHANGED <<settings, selected, config>>
  BY <1>2, <1>5 DEF AssignClient, ModelInv, ModelTypes
<1>8. TypeOK'
  BY <1>1, <1>6, <1>7 DEF TypeOK
<1>9. ASSUME NEW w \in Requested, Ready(w) PROVE Ready(w)'
  <2>1. call'[c] = r /\ \A d \in Calls \ {c} : call'[d] = call[d]
    BY <1>7, OneCall
  <2>2. call[c].model = w.model => client = w
    <3>1. ASSUME call[c].model = w.model PROVE client = w
      <4>1. call[c].fields = [key |-> w.key, params |-> w.params]
        BY <1>9, <3>1 DEF Ready
      <4>2. client = [model |-> w.model, key |-> w.key, params |-> w.params]
        BY <1>5, <3>1, <4>1
      <4> QED BY <4>2 DEF Requested
    <3> QED BY <3>1
  <2>3. llm'[w.model] # Null => llm'[w.model] = w
    <3>1. w.model \in Hub /\ DOMAIN llm = Hub
      BY <1>1 DEF Requested, TypeOK
    <3>2. llm[w.model] # Null => llm[w.model] = w
      BY Zenon, <1>9 DEF Ready
    <3> QED BY <1>7, <2>2, <3>1, <3>2
  <2> QED BY <1>3, <1>7, <1>9, <2>1, <2>3 DEF Ready
<1>10. ASSUME Undisturbed(r) PROVE OnTheWay(r)'
  <2>1. OnTheWay(call[c]) /\ Undisturbed(call[c])
    BY <1>1, <1>3, <1>10 DEF Undisturbed
  <2>2. Wants(r) = Wants(call[c]) /\ WantedModel(r) = WantedModel(call[c])
    BY <1>3 DEF Wants, WantedModel, WantedKey, WantedParams
  <2>3. Ready(Wants(r)) /\ WantedModel(r) \in Hub
    BY <2>1, <2>2 DEF OnTheWay
  <2>4. PICK w : w = Wants(r)
    OBVIOUS
  <2>5. Ready(w)'
    BY <1>4, <1>9, <1>10, <2>3, <2>4, WantsRequested
  <2> QED BY Zenon, <1>3, <2>3, <2>4, <2>5 DEF OnTheWay, Ready, Wants, WantedModel, WantedKey, WantedParams
<1> QED BY <1>4, <1>7, <1>8, <1>9, <1>10, Proceeds

LEMMA BindStep == ASSUME ModelInv, NEW c \in Calls, BindClient(c) PROVE ModelInv'
<1> call[c].pc = "bind"
  BY DEF BindClient, At
<1>1. /\ WorkSound(call[c]) /\ call[c] \in Work /\ TypeOK
      /\ Undisturbed(call[c]) => OnTheWay(call[c])
  BY AtWork
<1>2. CASE llm[selected] = Null
  BY <1>2, EndOfCall DEF BindClient
<1>3. CASE llm[selected] # Null
  <2>1. llm[selected] \in Client
    BY <1>1, <1>3 DEF TypeOK
  <2>2. PICK r : r = [call[c] EXCEPT !.pc = "running", !.fields = llm[selected], !.model = Null]
    OBVIOUS
  <2>3. /\ r \in Work /\ r.pc = "running" /\ r.user = call[c].user /\ r.row = call[c].row
        /\ r.override = call[c].override /\ r.met = call[c].met /\ r.fields = llm[selected]
    BY <1>1, <2>1, <2>2 DEF Work
  <2>4. WorkSound(r)
    BY <1>1, <2>3 DEF WorkSound
  <2>5. call' = [call EXCEPT ![c] = r] /\ UNCHANGED <<settings, selected, config, llm>>
    BY <1>3, <2>2 DEF BindClient, ModelInv, ModelTypes
  <2>6. ASSUME Undisturbed(r) PROVE OnTheWay(r)'
    <3>1. OnTheWay(call[c]) /\ Undisturbed(call[c])
      BY <1>1, <2>3, <2>6 DEF Undisturbed
    <3>2. Wants(r) = Wants(call[c]) /\ WantedModel(r) = WantedModel(call[c]) /\ Wants(r).model = WantedModel(r)
      BY <2>3 DEF Wants, WantedModel, WantedKey, WantedParams
    <3>3. Ready(Wants(r)) /\ WantedModel(r) \in Hub
      BY <3>1, <3>2 DEF OnTheWay
    <3>4. r.fields = Wants(r)
      BY <1>3, <2>3, <3>3 DEF Ready
    <3> QED BY <2>3, <3>3, <3>4 DEF OnTheWay, Wants, WantedModel, WantedKey, WantedParams
  <2> QED BY <2>3, <2>4, <2>5, <2>6, CallGoesOn
<1> QED BY <1>2, <1>3

LEMMA SettingsStep == ASSUME ModelInv, NEW u \in Users, NEW body \in Bodies, UpdateSettings(u, body) PROVE ModelInv'
<1>1. settings[u] \in Row
  BY DEF ModelInv, ModelTypes, TypeOK
<1>2. PICK s : s = settings[u]
  OBVIOUS
<1>3. Updated(s, body) \in Row
  <2>1. (IF "model" \in DOMAIN body THEN body.model ELSE s.model) \in Names
    BY <1>1, <1>2, ModelsRegistered DEF Row
  <2>2. (IF "params" \in DOMAIN body THEN body.params ELSE s.params) \in Params
    BY <1>1, <1>2, ModelsRegistered DEF Row
  <2>3. \A p \in Providers : (IF p \in DOMAIN body THEN body[p] ELSE s.keys[p]) \in {Null, "own", "lost"}
    BY <1>1, <1>2, ModelsRegistered DEF Row
  <2> QED BY <2>1, <2>2, <2>3 DEF Updated, Row
<1>4. settings' = [settings EXCEPT ![u] = Updated(s, body)] /\ UNCHANGED <<selected, config, llm, call>>
  BY <1>2 DEF UpdateSettings
<1>5. TypeOK'
  <2>1. TypeOK
    BY Zenon DEF ModelInv, ModelTypes
  <2> QED BY <1>3, <1>4, <2>1 DEF TypeOK
<1>6. \A c \in Calls : Undisturbed(call'[c]) => OnTheWay(call[c])'
  <2> SUFFICES ASSUME NEW c \in Calls, Undisturbed(call'[c]) PROVE OnTheWay(call[c])'
    OBVIOUS
  <2>1. OnTheWay(call[c])
    BY <1>4 DEF ModelInv
  <2> QED BY <1>4, <2>1 DEF OnTheWay, Ready, Wants, WantedModel, WantedKey, WantedParams
<1> QED BY <1>4, <1>5, <1>6 DEF ModelInv, ModelTypes

LEMMA ModelStep == ModelInv /\ Next => ModelInv'
<1> SUFFICES ASSUME ModelInv, Next PROVE ModelInv'
  OBVIOUS
<1>1. ASSUME NEW u \in Users, NEW body \in Bodies, UpdateSettings(u, body) PROVE ModelInv'
  BY <1>1, SettingsStep
<1>2. ASSUME NEW c \in Calls,
             \/ \E u \in Users, override \in Overrides : StartChat(c, u, override)
             \/ StartOther(c)
             \/ LoadSettings(c) \/ LoadFails(c) \/ SelectModel(c) \/ ResolveKey(c) \/ SetModel(c)
             \/ SetUserKey(c) \/ SetUserParams(c) \/ DropClient(c)
             \/ CheckClient(c) \/ BuildKey(c) \/ BuildParams(c) \/ AssignClient(c)
             \/ BindClient(c) \/ Finish(c)
      PROVE  ModelInv'
  <2>1. Finish(c) => ModelInv'
    BY EndOfCall DEF Finish
  <2> QED BY <1>2, <2>1, StartSteps, LoadSteps, SelectStep, ResolveStep, NameStep, ConfigStep, ParamsStep, DropStep,
             CheckStep, BuildStep, FieldsStep, AssignStep, BindStep
<1> QED BY <1>1, <1>2 DEF Next

LEMMA ModelInitially == Init => ModelInv
<1> SUFFICES ASSUME Init PROVE ModelInv
  OBVIOUS
<1>1. TypeOK
  BY ModelsRegistered DEF Init, TypeOK, Fields
<1>2. \A c \in Calls : call[c] = Idle /\ ~Undisturbed(call[c])
  BY DEF Init, Undisturbed, Idle
<1> QED BY <1>1, <1>2 DEF Init, ModelInv, ModelTypes

LEMMA ModelStutter == ModelInv /\ UNCHANGED <<settings, selected, config, llm, call>> => ModelInv'
<1> SUFFICES ASSUME ModelInv, UNCHANGED <<settings, selected, config, llm, call>> PROVE ModelInv'
  OBVIOUS
<1>1. TypeOK'
  <2>1. TypeOK
    BY Zenon DEF ModelInv, ModelTypes
  <2> QED BY <2>1 DEF TypeOK
<1>2. \A c \in Calls : Undisturbed(call'[c]) => OnTheWay(call[c])'
  <2> SUFFICES ASSUME NEW c \in Calls, Undisturbed(call'[c]) PROVE OnTheWay(call[c])'
    OBVIOUS
  <2>1. OnTheWay(call[c])
    BY DEF ModelInv
  <2> QED BY <2>1 DEF OnTheWay, Ready, Wants, WantedModel, WantedKey, WantedParams
<1> QED BY <1>1, <1>2 DEF ModelInv, ModelTypes

LEMMA ModelSound == ModelInv => ChatUsesItsSettings
<1> SUFFICES ASSUME ModelInv PROVE ChatUsesItsSettings
  OBVIOUS
<1>1. TypeOK
  BY DEF ModelInv, ModelTypes
<1>2. ASSUME NEW c \in Chats, At(c, "running"), ~call[c].met, call[c].row # Null PROVE call[c].fields = Wanted(c)
  <2>1. WorkSound(call[c]) /\ c \in Calls /\ call[c].pc = "running"
    BY <1>2 DEF Chats, ModelInv, ModelTypes, At
  <2>2. Undisturbed(call[c])
    <3>1. call[c].met \in BOOLEAN
      BY <2>1 DEF WorkSound, Work
    <3> QED BY <1>2, <2>1, <3>1 DEF Undisturbed
  <2>3. call[c].fields = Wants(call[c])
    BY <2>1, <2>2 DEF ModelInv, OnTheWay
  <2> QED BY <1>2, <2>3 DEF Wanted, Wants, WantedModel, WantedKey, WantedParams, ChatParams
<1> QED BY <1>1, <1>2 DEF ChatUsesItsSettings


-----------------------------------------------------------------------------
(* Tracing *)

USE TracingAssumed DEF Trace!TracingAssumption

Held == {"register", "done"}

Late == {"ask", "wait", "register", "done", "told", "running"}

Setting == {"switch", "project", "reset"}

\* Only a chat with settings writes them.
TracedChat ==
    {r \in [pc : Setting \cup Late, on : BOOLEAN \cup {Null}, project : Projects \cup {Null},
            met : BOOLEAN, failed : BOOLEAN, told : BOOLEAN] : r.pc \in Setting => r.on \in BOOLEAN}

TraceTypes ==
    /\ Trace!TypeOK
    /\ project \in Projects \cup {Null}
    /\ DOMAIN chat = Calls
    /\ \A c \in Calls : chat[c] = Trace!Idle \/ chat[c] \in TracedChat

Alone(r) == r.pc # "idle" /\ r.on # Null /\ r.met = FALSE

\* A chat that has asked for tracing and for an initialisation, which has not failed.
Hopes(r) == r.pc \in Late /\ r.on = TRUE /\ r.failed = FALSE

\* The switch stays as a chat left it; an initialisation after its reset
\* registers a tracer where it asked for one.
TraceSound(r) ==
    /\ r.pc # "switch" => enabled = r.on
    /\ r.pc = "told" => initialized = TRUE
    /\ Hopes(r) /\ (initialized = TRUE \/ \E e \in Calls : chat[e].pc = "done") => registered # Null
    /\ r.pc = "running" => r.told = r.on /\ (Hopes(r) => registered # Null)

TraceInv ==
    /\ TraceTypes
    /\ registrations = IF registered = Null THEN 0 ELSE 1
    /\ \A c \in Calls : chat[c].pc \in Held => lock = c
    /\ \A c \in Calls : Alone(chat[c]) => TraceSound(chat[c])

LEMMA ChatOf ==
    ASSUME TraceInv, NEW c \in Calls, chat[c].pc # "idle"
    PROVE  chat[c] \in TracedChat /\ Trace!TypeOK /\ (Alone(chat[c]) => TraceSound(chat[c]))
BY DEF TraceInv, TraceTypes, Trace!Idle

\* A step of one chat that leaves the others' records and the switch as they are.
LEMMA TraceProceeds ==
    ASSUME TraceInv, NEW c \in Calls, NEW r, r = Trace!Idle \/ r \in TracedChat, chat' = [chat EXCEPT ![c] = r],
           Trace!TypeOK', UNCHANGED <<enabled, project>>,
           registrations' = IF registered' = Null THEN 0 ELSE 1,
           registered # Null => registered' # Null,
           initialized = TRUE => initialized' = TRUE,
           r.pc \in Held => lock' = c,
           \A d \in Calls \ {c} : chat[d].pc \in Held => lock' = d,
           \A d \in Calls \ {c} : Alone(chat[d]) /\ Hopes(chat[d]) /\ (initialized' = TRUE \/ r.pc = "done") =>
             registered' # Null,
           Alone(r) => TraceSound(r)'
    PROVE  TraceInv'
<1>1. DOMAIN chat' = Calls /\ chat'[c] = r /\ \A d \in Calls \ {c} : chat'[d] = chat[d]
  BY DEF TraceInv, TraceTypes
<1>2. TraceTypes'
  BY <1>1 DEF TraceInv, TraceTypes
<1>3. \A d \in Calls : chat'[d].pc \in Held => lock' = d
  BY <1>1
<1>4. ASSUME NEW d \in Calls, Alone(chat'[d]) PROVE TraceSound(chat[d])'
  <2>1. CASE d = c
    <3>1. TraceSound(r)' /\ chat'[d] = r
      BY <1>1, <1>4, <2>1
    <3> QED BY <3>1 DEF TraceSound
  <2>2. CASE d # c
    <3>1. chat'[d] = chat[d] /\ TraceSound(chat[d])
      BY <1>1, <1>4, <2>2 DEF TraceInv
    <3>2. /\ chat[d].pc # "switch" => enabled' = chat[d].on
          /\ chat[d].pc = "told" => initialized' = TRUE
          /\ chat[d].pc = "running" => chat[d].told = chat[d].on /\ (Hopes(chat[d]) => registered' # Null)
      BY <3>1 DEF TraceSound
    <3>3. ASSUME Hopes(chat[d]), initialized' = TRUE \/ \E e \in Calls : chat'[e].pc = "done"
          PROVE  registered' # Null
      <4>1. CASE initialized' = TRUE \/ r.pc = "done"
        BY <1>4, <2>2, <3>1, <3>3, <4>1
      <4>2. CASE \E e \in Calls \ {c} : chat[e].pc = "done"
        BY <3>1, <3>3, <4>2 DEF TraceSound
      <4> QED BY <1>1, <3>3, <4>1, <4>2
    <3> QED BY <3>1, <3>2, <3>3 DEF TraceSound
  <2> QED BY <2>1, <2>2
<1> QED BY <1>2, <1>3, <1>4 DEF TraceInv

\* A write of the switch, the project or the flag, which every other chat has then met.
LEMMA TraceWrites ==
    ASSUME TraceInv, NEW c \in Calls, NEW next, next \in TracedChat, next.pc \notin Held, chat[c].pc # "idle",
           Trace!Meets(c, next), Trace!TypeOK', project' \in Projects \cup {Null},
           UNCHANGED <<registrations, registered, lock>>,
           Alone(next) /\ next.pc # "switch" => enabled' = next.on,
           next.pc \in Late => next.pc = "ask" /\ initialized' = FALSE
    PROVE  TraceInv'
<1>1. PICK b : b = (next.met \/ \E e \in Trace!InProgress \ {c} : chat[e].pc \in {"register", "done"})
  OBVIOUS
<1>2. b \in BOOLEAN
  <2>1. next.met \in BOOLEAN
    BY DEF TracedChat
  <2> QED BY <1>1, <2>1
<1>3. PICK r : r = [next EXCEPT !.met = b]
  OBVIOUS
<1>4. /\ r \in TracedChat /\ r.pc = next.pc /\ r.on = next.on /\ r.met = b /\ r.failed = next.failed
      /\ r.told = next.told
  BY <1>2, <1>3 DEF TracedChat
<1>5. DOMAIN chat' = Calls /\ chat'[c] = r
  BY <1>1, <1>3 DEF Trace!Meets
<1>6. ASSUME NEW d \in Calls \ {c}
      PROVE  /\ chat'[d] = Trace!Idle \/ chat'[d] \in TracedChat
             /\ ~Alone(chat'[d]) /\ chat'[d].pc = chat[d].pc
  <2>1. CASE chat[d] = Trace!Idle
    <3>1. chat'[d] = chat[d]
      BY <1>6, <2>1 DEF Trace!Meets, Trace!InProgress
    <3> QED BY <2>1, <3>1 DEF Alone, Trace!Idle
  <2>2. CASE chat[d] # Trace!Idle
    <3>1. chat[d] \in TracedChat /\ chat'[d] = [chat[d] EXCEPT !.met = TRUE]
      BY <1>6, <2>2 DEF Trace!Meets, Trace!InProgress, TraceInv, TraceTypes
    <3>2. chat'[d] \in TracedChat /\ chat'[d].met = TRUE /\ chat'[d].pc = chat[d].pc
      BY <3>1 DEF TracedChat
    <3> QED BY <3>2 DEF Alone
  <2> QED BY <2>1, <2>2
<1>7. TraceTypes'
  BY <1>4, <1>5, <1>6 DEF TraceTypes
<1>8. \A d \in Calls : chat'[d].pc \in Held => lock' = d
  BY <1>4, <1>5, <1>6 DEF TraceInv
<1>9. ASSUME Alone(r) PROVE TraceSound(r)'
  <2>1. ~(\E e \in Trace!InProgress \ {c} : chat[e].pc \in {"register", "done"})
    BY <1>1, <1>2, <1>4, <1>9, Zenon DEF Alone
  <2>2. \A e \in Calls : chat'[e].pc # "done"
    <3> TAKE e \in Calls
    <3>1. CASE e = c
      BY <1>4, <1>5, <3>1 DEF Held
    <3>2. CASE e # c
      BY <1>6, <2>1, <3>2 DEF Trace!InProgress, Trace!Idle
    <3> QED BY <3>1, <3>2
  <2>4. next.met = FALSE
    <3>1. next.met \in BOOLEAN
      BY DEF TracedChat
    <3>2. b = FALSE
      BY <1>4, <1>9 DEF Alone
    <3> QED BY <1>1, <3>1, <3>2
  <2>3. /\ r.pc # "switch" => enabled' = r.on
        /\ r.pc \in Late => r.pc = "ask" /\ initialized' = FALSE
    BY <1>4, <1>9, <2>4 DEF Alone
  <2> QED BY <2>2, <2>3 DEF TraceSound, Hopes, Late
<1>10. ASSUME NEW d \in Calls, Alone(chat'[d]) PROVE TraceSound(chat[d])'
  <2>1. d = c
    BY <1>6, <1>10
  <2>2. TraceSound(r)' /\ chat'[d] = r
    BY <1>5, <1>9, <1>10, <2>1
  <2> QED BY <2>2 DEF TraceSound
<1> QED BY <1>7, <1>8, <1>10 DEF TraceInv

\* A step of one chat on its own record.
LEMMA TraceGoes ==
    ASSUME TraceInv, NEW c \in Calls, NEW r, r = Trace!Idle \/ r \in TracedChat, chat' = [chat EXCEPT ![c] = r],
           r.pc \notin Held,
           UNCHANGED <<enabled, project, initialized, registered, lock, registrations>>,
           Alone(r) => TraceSound(r)'
    PROVE  TraceInv'
<1>1. Trace!TypeOK'
  BY DEF TraceInv, TraceTypes, Trace!TypeOK
<1>2. registrations' = IF registered' = Null THEN 0 ELSE 1
  BY DEF TraceInv
<1>3. \A d \in Calls \ {c} : chat[d].pc \in Held => lock' = d
  BY DEF TraceInv
<1>4. \A d \in Calls \ {c} : Alone(chat[d]) /\ Hopes(chat[d]) /\ (initialized' = TRUE \/ r.pc = "done") =>
        registered' # Null
  BY DEF TraceInv, TraceSound, Held
<1>5. registered # Null => registered' # Null
  OBVIOUS
<1>6. initialized = TRUE => initialized' = TRUE
  OBVIOUS
<1> QED BY <1>1, <1>2, <1>3, <1>4, <1>5, <1>6, TraceProceeds

LEMMA TraceStarts ==
    ASSUME TraceInv, NEW c \in Calls,
           (\E on \in BOOLEAN, p \in Projects \cup {Null} : Trace!Start(c, on, p)) \/ Trace!StartWithoutSettings(c)
    PROVE  TraceInv'
<1>1. ASSUME NEW on \in BOOLEAN, NEW p \in Projects \cup {Null}, Trace!Start(c, on, p) PROVE TraceInv'
  <2>1. PICK r : r = [pc |-> "switch", on |-> on, project |-> p, met |-> FALSE, failed |-> FALSE, told |-> FALSE]
    OBVIOUS
  <2>2. r \in TracedChat /\ r.pc = "switch"
    BY <2>1 DEF TracedChat, Setting
  <2>3. chat' = [chat EXCEPT ![c] = r] /\ UNCHANGED <<enabled, project, initialized, registered, lock, registrations>>
    BY <1>1, <2>1 DEF Trace!Start
  <2>4. TraceSound(r)' /\ r.pc \notin Held
    BY <2>2 DEF TraceSound, Hopes, Late, Held
  <2> QED BY <2>2, <2>3, <2>4, TraceGoes
<1>2. ASSUME Trace!StartWithoutSettings(c) PROVE TraceInv'
  <2>1. PICK r : r = [pc |-> "ask", on |-> Null, project |-> Null, met |-> FALSE, failed |-> FALSE, told |-> FALSE]
    OBVIOUS
  <2>2. r \in TracedChat /\ r.pc = "ask" /\ r.on = Null
    BY <2>1 DEF TracedChat, Setting, Late
  <2>3. chat' = [chat EXCEPT ![c] = r] /\ UNCHANGED <<enabled, project, initialized, registered, lock, registrations>>
    BY <1>2, <2>1 DEF Trace!StartWithoutSettings
  <2>4. ~Alone(r) /\ r.pc \notin Held
    BY <2>2 DEF Alone, Held
  <2> QED BY <2>2, <2>3, <2>4, TraceGoes
<1> QED BY <1>1, <1>2

LEMMA TraceSets ==
    ASSUME TraceInv, NEW c \in Calls, Trace!Switch(c) \/ Trace!SetProject(c) \/ Trace!Reset(c)
    PROVE  TraceInv'
<1> chat[c].pc \in Setting
  BY DEF Trace!Switch, Trace!SetProject, Trace!Reset, Trace!At, Setting
<1>1. /\ chat[c] \in TracedChat /\ Trace!TypeOK /\ (Alone(chat[c]) => TraceSound(chat[c]))
      /\ chat[c].pc # "idle" /\ chat[c].on \in BOOLEAN /\ project \in Projects \cup {Null}
  BY ChatOf DEF Setting, TracedChat, TraceInv, TraceTypes
<1>3. CASE Trace!Switch(c)
  <2>1. PICK pc : pc = IF chat[c].on /\ chat[c].project # Null THEN "project" ELSE "reset"
    OBVIOUS
  <2>2. PICK n : n = [chat[c] EXCEPT !.pc = pc]
    OBVIOUS
  <2>3. n \in TracedChat /\ n.pc \in {"project", "reset"} /\ n.on = chat[c].on
    BY <1>1, <2>1, <2>2 DEF TracedChat, Setting
  <2>4. Trace!Meets(c, n) /\ enabled' = n.on /\ UNCHANGED <<project, initialized, registered, lock, registrations>>
    BY <1>3, <2>1, <2>2, <2>3 DEF Trace!Switch
  <2>5. Trace!TypeOK' /\ project' \in Projects \cup {Null}
    BY <1>1, <2>3, <2>4 DEF Trace!TypeOK
  <2>6. n.pc \notin Held /\ n.pc \notin Late
    BY <2>3 DEF Held, Late
  <2> QED BY <1>1, <2>3, <2>4, <2>5, <2>6, TraceWrites
<1>4. CASE Trace!SetProject(c)
  <2>2. PICK n : n = [chat[c] EXCEPT !.pc = "reset"]
    OBVIOUS
  <2>3. /\ n \in TracedChat /\ n.pc = "reset" /\ n.on = chat[c].on /\ n.met = chat[c].met
        /\ chat[c].project \in Projects \cup {Null} /\ chat[c].pc = "project"
    BY <1>1, <1>4, <2>2 DEF TracedChat, Setting, Trace!SetProject, Trace!At
  <2>4. /\ Trace!Meets(c, n) /\ project' = chat[c].project
        /\ UNCHANGED <<enabled, initialized, registered, lock, registrations>>
    BY <1>4, <2>2 DEF Trace!SetProject
  <2>5. Trace!TypeOK' /\ project' \in Projects \cup {Null}
    BY <1>1, <2>3, <2>4 DEF Trace!TypeOK
  <2>6. n.pc \notin Held /\ n.pc \notin Late
    BY <2>3 DEF Held, Late
  <2>7. Alone(n) /\ n.pc # "switch" => enabled' = n.on
    BY <1>1, <2>3, <2>4 DEF Alone, TraceSound
  <2> QED BY <1>1, <2>3, <2>4, <2>5, <2>6, <2>7, TraceWrites
<1>5. CASE Trace!Reset(c)
  <2>2. PICK n : n = [chat[c] EXCEPT !.pc = "ask"]
    OBVIOUS
  <2>3. /\ n \in TracedChat /\ n.pc = "ask" /\ n.on = chat[c].on /\ n.met = chat[c].met /\ chat[c].pc = "reset"
    BY <1>1, <1>5, <2>2 DEF TracedChat, Setting, Late, Trace!Reset, Trace!At
  <2>4. /\ Trace!Meets(c, n) /\ initialized' = FALSE
        /\ UNCHANGED <<enabled, project, registered, lock, registrations>>
    BY <1>5, <2>2 DEF Trace!Reset
  <2>5. Trace!TypeOK' /\ project' \in Projects \cup {Null}
    BY <1>1, <2>3, <2>4 DEF Trace!TypeOK
  <2>6. n.pc \notin Held
    BY <2>3 DEF Held
  <2>7. Alone(n) /\ n.pc # "switch" => enabled' = n.on
    BY <1>1, <2>3, <2>4 DEF Alone, TraceSound
  <2> QED BY <1>1, <2>3, <2>4, <2>5, <2>6, <2>7, TraceWrites
<1> QED BY <1>3, <1>4, <1>5

LEMMA TraceAsks ==
    ASSUME TraceInv, NEW c \in Calls, Trace!Ask(c) \/ Trace!Told(c)
    PROVE  TraceInv'
<1> chat[c].pc \in {"ask", "told"}
  BY DEF Trace!Ask, Trace!Told, Trace!At
<1>1. /\ chat[c] \in TracedChat /\ Trace!TypeOK /\ (Alone(chat[c]) => TraceSound(chat[c]))
  BY ChatOf
<1>2. CASE chat[c].pc = "ask" /\ ~initialized
  <2>1. PICK r : r = [chat[c] EXCEPT !.pc = "wait"]
    OBVIOUS
  <2>2. /\ r \in TracedChat /\ r.pc = "wait" /\ r.on = chat[c].on /\ r.met = chat[c].met /\ r.failed = chat[c].failed
    BY <1>1, <2>1 DEF TracedChat, Setting, Late
  <2>3. chat' = [chat EXCEPT ![c] = r] /\ UNCHANGED <<enabled, project, initialized, registered, lock, registrations>>
    BY <1>2, <2>1 DEF Trace!Ask, Trace!Told, Trace!At, Trace!Goes, TraceInv, TraceTypes
  <2>4. ASSUME Alone(r) PROVE TraceSound(r)'
    <3>1. TraceSound(chat[c])
      BY <1>1, <1>2, <2>2, <2>4 DEF Alone
    <3>2. \A e \in Calls : chat'[e].pc = "done" => chat[e].pc = "done"
      BY <2>2, <2>3 DEF TraceInv, TraceTypes
    <3> QED BY <1>2, <2>2, <2>3, <3>1, <3>2 DEF TraceSound, Hopes, Late
  <2>5. r.pc \notin Held
    BY <2>2 DEF Held
  <2> QED BY <2>2, <2>3, <2>4, <2>5, TraceGoes
<1>3. CASE chat[c].pc = "told" \/ initialized
  <2>1. PICK r : r = [chat[c] EXCEPT !.pc = "running", !.told = enabled]
    OBVIOUS
  <2>2. /\ r \in TracedChat /\ r.pc = "running" /\ r.on = chat[c].on /\ r.met = chat[c].met /\ r.failed = chat[c].failed
        /\ r.told = enabled
    BY <1>1, <2>1 DEF TracedChat, Setting, Late, Trace!TypeOK
  <2>3. chat' = [chat EXCEPT ![c] = r] /\ UNCHANGED <<enabled, project, initialized, registered, lock, registrations>>
    BY <1>3, <2>1 DEF Trace!Ask, Trace!Told, Trace!At, TraceInv, TraceTypes
  <2>4. ASSUME Alone(r) PROVE TraceSound(r)'
    <3>1. TraceSound(chat[c])
      BY <1>1, <2>2, <2>4 DEF Alone
    <3>2. initialized = TRUE
      BY <1>1, <1>3, <3>1 DEF TraceSound, Trace!TypeOK
    <3>3. Hopes(r) => registered # Null
      BY <2>2, <3>1, <3>2 DEF TraceSound, Hopes, Late
    <3>4. enabled = r.on
      BY <2>2, <3>1 DEF TraceSound
    <3> QED BY <2>2, <2>3, <3>3, <3>4 DEF TraceSound
  <2>5. r.pc \notin Held
    BY <2>2 DEF Held
  <2> QED BY <2>2, <2>3, <2>4, <2>5, TraceGoes
<1> QED BY <1>2, <1>3

LEMMA TraceAcquires ==
    ASSUME TraceInv, NEW c \in Calls, Trace!Acquire(c)
    PROVE  TraceInv'
<1> chat[c].pc = "wait" /\ lock = Null
  BY DEF Trace!Acquire, Trace!At
<1>1. /\ chat[c] \in TracedChat /\ Trace!TypeOK /\ (Alone(chat[c]) => TraceSound(chat[c]))
  BY ChatOf
<1>2. \A d \in Calls : chat[d].pc \notin Held
  BY DEF TraceInv
<1>3. CASE initialized
  <2>1. PICK r : r = [chat[c] EXCEPT !.pc = "told"]
    OBVIOUS
  <2>2. /\ r \in TracedChat /\ r.pc = "told" /\ r.on = chat[c].on /\ r.met = chat[c].met /\ r.failed = chat[c].failed
    BY <1>1, <2>1 DEF TracedChat, Setting, Late
  <2>3. chat' = [chat EXCEPT ![c] = r] /\ UNCHANGED <<enabled, project, initialized, registered, lock, registrations>>
    BY <1>3, <2>1 DEF Trace!Acquire, Trace!Goes, TraceInv, TraceTypes
  <2>4. ASSUME Alone(r) PROVE TraceSound(r)'
    <3>1. TraceSound(chat[c])
      BY <1>1, <2>2, <2>4 DEF Alone
    <3>2. initialized = TRUE
      BY <1>1, <1>3 DEF Trace!TypeOK
    <3> QED BY <2>2, <2>3, <3>1, <3>2 DEF TraceSound, Hopes, Late
  <2>5. r.pc \notin Held
    BY <2>2 DEF Held
  <2> QED BY <2>2, <2>3, <2>4, <2>5, TraceGoes
<1>4. CASE ~initialized
  <2>1. PICK pc : pc = IF enabled THEN "register" ELSE "done"
    OBVIOUS
  <2>2. PICK r : r = [chat[c] EXCEPT !.pc = pc]
    OBVIOUS
  <2>3. /\ r \in TracedChat /\ r.pc = pc /\ r.pc \in Held /\ r.on = chat[c].on /\ r.met = chat[c].met
        /\ r.failed = chat[c].failed
    BY <1>1, <2>1, <2>2 DEF TracedChat, Setting, Late, Held
  <2>4. /\ chat' = [chat EXCEPT ![c] = r] /\ lock' = c
        /\ UNCHANGED <<enabled, project, initialized, registered, registrations>>
    BY <1>4, <2>1, <2>2 DEF Trace!Acquire, Trace!Goes
  <2>5. Trace!TypeOK'
    BY <1>1, <2>4 DEF Trace!TypeOK
  <2>6. r.pc = "done" => enabled = FALSE
    BY <1>1, <2>1, <2>3 DEF Trace!TypeOK
  <2>7. initialized = FALSE
    BY <1>1, <1>4 DEF Trace!TypeOK
  <2>8. ASSUME NEW d \in Calls \ {c}, Alone(chat[d]), Hopes(chat[d]), initialized' = TRUE \/ r.pc = "done"
        PROVE  registered' # Null
    BY <2>4, <2>6, <2>7, <2>8 DEF TraceInv, TraceSound, Hopes, Late
  <2>9. ASSUME Alone(r) PROVE TraceSound(r)'
    <3>1. TraceSound(chat[c])
      BY <1>1, <2>3, <2>9 DEF Alone
    <3>2. enabled = r.on
      BY <2>3, <3>1 DEF TraceSound
    <3>3. r.on = TRUE => r.pc # "done"
      BY <2>6, <3>2
    <3>4. \A e \in Calls : chat'[e].pc = "done" => e = c /\ r.pc = "done"
      BY <1>2, <2>4 DEF Held, TraceInv, TraceTypes
    <3> QED BY <2>3, <2>4, <2>7, <3>2, <3>3, <3>4 DEF TraceSound, Hopes, Held
  <2>10. registrations' = IF registered' = Null THEN 0 ELSE 1
    BY <2>4 DEF TraceInv
  <2> QED BY <1>2, <2>3, <2>4, <2>5, <2>8, <2>9, <2>10, TraceProceeds
<1> QED BY <1>3, <1>4

LEMMA TraceRegisters ==
    ASSUME TraceInv, NEW c \in Calls, Trace!Register(c)
    PROVE  TraceInv'
<1> chat[c].pc = "register"
  BY DEF Trace!Register, Trace!At
<1>1. /\ chat[c] \in TracedChat /\ Trace!TypeOK /\ (Alone(chat[c]) => TraceSound(chat[c]))
      /\ project \in Projects \cup {Null}
  BY ChatOf DEF TraceInv, TraceTypes
<1>2. PICK r : r = [chat[c] EXCEPT !.pc = "done"]
  OBVIOUS
<1>3. /\ r \in TracedChat /\ r.pc = "done" /\ r.on = chat[c].on /\ r.met = chat[c].met
  BY <1>1, <1>2 DEF TracedChat, Setting, Late
<1>4. chat' = [chat EXCEPT ![c] = r] /\ UNCHANGED <<enabled, project, initialized, lock>>
  BY <1>2 DEF Trace!Register, Trace!Goes
<1>5. registered' # Null /\ registered' \in Projects \cup {"ai-agent", Null} /\ registrations' = 1
  <2>1. CASE registered = Null
    BY <1>1, <2>1 DEF Trace!Register, Trace!Registers, TraceInv
  <2>2. CASE registered # Null
    BY <1>1, <2>2 DEF Trace!Register, Trace!Registers, TraceInv, Trace!TypeOK
  <2> QED BY <2>1, <2>2
<1>6. Trace!TypeOK'
  BY <1>1, <1>4, <1>5 DEF Trace!TypeOK
<1>7. \A d \in Calls : chat[d].pc \in Held => lock' = d
  BY <1>4 DEF TraceInv
<1>8. ASSUME Alone(r) PROVE TraceSound(r)'
  <2>1. TraceSound(chat[c])
    BY <1>1, <1>3, <1>8 DEF Alone
  <2> QED BY <1>3, <1>4, <1>5, <2>1 DEF TraceSound
<1> QED BY <1>3, <1>4, <1>5, <1>6, <1>7, <1>8, TraceProceeds DEF Held

LEMMA TraceFails ==
    ASSUME TraceInv, NEW c \in Calls, Trace!RegisterFails(c)
    PROVE  TraceInv'
<1> chat[c].pc = "register"
  BY DEF Trace!RegisterFails, Trace!At
<1>1. /\ chat[c] \in TracedChat /\ Trace!TypeOK /\ project \in Projects \cup {Null}
  BY ChatOf DEF TraceInv, TraceTypes
<1>2. UNCHANGED <<enabled, project, initialized, registered, lock, registrations>>
  BY DEF Trace!RegisterFails
<1>3. DOMAIN chat' = Calls /\ chat'[c] = [chat[c] EXCEPT !.pc = "done", !.failed = TRUE]
  BY DEF Trace!RegisterFails
<1>4. /\ chat'[c] \in TracedChat /\ chat'[c].pc = "done" /\ chat'[c].on = chat[c].on /\ chat'[c].met = chat[c].met
      /\ chat'[c].failed = TRUE
  BY <1>1, <1>3 DEF TracedChat, Setting, Late
<1>5. ASSUME NEW d \in Calls \ {c}
      PROVE  \/ chat[d] = Trace!Idle /\ chat'[d] = Trace!Idle
             \/ /\ chat'[d] \in TracedChat /\ chat'[d].pc = chat[d].pc /\ chat'[d].on = chat[d].on
                /\ chat'[d].met = chat[d].met /\ chat'[d].told = chat[d].told /\ chat'[d].failed = TRUE
  <2>1. CASE chat[d] = Trace!Idle
    BY <1>5, <2>1 DEF Trace!RegisterFails, Trace!InProgress
  <2>2. CASE chat[d] # Trace!Idle
    <3>1. chat'[d] = [chat[d] EXCEPT !.failed = TRUE] /\ chat[d] \in TracedChat
      BY <1>5, <2>2 DEF Trace!RegisterFails, Trace!InProgress, TraceInv, TraceTypes
    <3> QED BY <3>1 DEF TracedChat
  <2> QED BY <2>1, <2>2
<1>6. TraceTypes'
  BY <1>1, <1>2, <1>3, <1>4, <1>5 DEF TraceTypes, Trace!TypeOK
<1>7. \A d \in Calls : chat'[d].pc \in Held => lock' = d
  BY <1>2, <1>4, <1>5 DEF TraceInv, Held, Trace!Idle
<1>8. ASSUME NEW d \in Calls, Alone(chat'[d]) PROVE TraceSound(chat[d])'
  <2>1. chat'[d].failed = TRUE /\ chat'[d].on = chat[d].on
    <3>1. CASE d = c
      BY <1>4, <3>1
    <3>2. CASE d # c
      <4>1. chat'[d] # Trace!Idle
        BY <1>8 DEF Alone, Trace!Idle
      <4> QED BY <1>5, <3>2, <4>1
    <3> QED BY <3>1, <3>2
  <2>2. TraceSound(chat[d])
    <3>1. CASE d = c
      BY <1>4, <1>8, <3>1 DEF Alone, TraceInv
    <3>2. CASE d # c
      <4>1. chat'[d].pc # "idle"
        BY <1>8 DEF Alone
      <4> QED BY <1>5, <1>8, <3>2, <4>1 DEF Alone, TraceInv, Trace!Idle
    <3> QED BY <3>1, <3>2
  <2>3. CASE d = c
    BY <1>2, <1>4, <2>1, <2>2, <2>3 DEF TraceSound, Hopes
  <2>4. CASE d # c
    <3>1. chat'[d].pc = chat[d].pc /\ chat'[d].told = chat[d].told
      BY <1>5, <1>8, <2>4 DEF Alone, Trace!Idle
    <3> QED BY <1>2, <2>1, <2>2, <3>1 DEF TraceSound, Hopes
  <2> QED BY <2>3, <2>4
<1> QED BY <1>2, <1>6, <1>7, <1>8 DEF TraceInv

LEMMA TraceInitializes ==
    ASSUME TraceInv, NEW c \in Calls, Trace!SetInitialized(c)
    PROVE  TraceInv'
<1> chat[c].pc = "done"
  BY DEF Trace!SetInitialized, Trace!At
<1>1. /\ chat[c] \in TracedChat /\ Trace!TypeOK /\ (Alone(chat[c]) => TraceSound(chat[c]))
  BY ChatOf
<1>2. PICK r : r = [chat[c] EXCEPT !.pc = "told"]
  OBVIOUS
<1>3. /\ r \in TracedChat /\ r.pc = "told" /\ r.on = chat[c].on /\ r.met = chat[c].met /\ r.failed = chat[c].failed
  BY <1>1, <1>2 DEF TracedChat, Setting, Late
<1>4. /\ chat' = [chat EXCEPT ![c] = r] /\ initialized' = TRUE /\ lock' = Null
      /\ UNCHANGED <<enabled, project, registered, registrations>>
  BY <1>2 DEF Trace!SetInitialized, Trace!Goes
<1>5. Trace!TypeOK'
  BY <1>1, <1>4 DEF Trace!TypeOK
<1>6. \A d \in Calls \ {c} : chat[d].pc \notin Held
  BY DEF TraceInv, Held
<1>7. \A d \in Calls : Alone(chat[d]) /\ Hopes(chat[d]) => registered # Null
  BY DEF TraceInv, TraceSound
<1>8. ASSUME Alone(r) PROVE TraceSound(r)'
  <2>1. TraceSound(chat[c]) /\ Alone(chat[c])
    BY <1>1, <1>3, <1>8 DEF Alone
  <2>2. Hopes(r) => Hopes(chat[c])
    BY <1>3 DEF Hopes, Late
  <2> QED BY <1>3, <1>4, <1>7, <2>1, <2>2 DEF TraceSound
<1>9. registrations' = IF registered' = Null THEN 0 ELSE 1
  BY <1>4 DEF TraceInv
<1>10. r.pc \notin Held
  BY <1>3 DEF Held
<1> QED BY <1>3, <1>4, <1>5, <1>6, <1>7, <1>8, <1>9, <1>10, TraceProceeds

LEMMA TraceStep == TraceInv /\ Trace!Next => TraceInv'
<1> SUFFICES ASSUME TraceInv, Trace!Next PROVE TraceInv'
  OBVIOUS
<1>1. ASSUME NEW c \in Calls,
             \/ \E on \in BOOLEAN, p \in Projects \cup {Null} : Trace!Start(c, on, p)
             \/ Trace!StartWithoutSettings(c)
             \/ Trace!Switch(c) \/ Trace!SetProject(c) \/ Trace!Reset(c) \/ Trace!Ask(c) \/ Trace!Acquire(c)
             \/ Trace!Register(c) \/ Trace!RegisterFails(c) \/ Trace!SetInitialized(c) \/ Trace!Told(c)
             \/ Trace!Finish(c)
      PROVE  TraceInv'
  <2>1. ASSUME Trace!Finish(c) PROVE TraceInv'
    <3>1. /\ chat' = [chat EXCEPT ![c] = Trace!Idle]
          /\ UNCHANGED <<enabled, project, initialized, registered, lock, registrations>>
      BY <2>1 DEF Trace!Finish
    <3>2. Trace!Idle.pc \notin Held /\ ~Alone(Trace!Idle)
      BY DEF Trace!Idle, Held, Alone
    <3> QED BY <3>1, <3>2, TraceGoes
  <2> QED BY <1>1, <2>1, TraceStarts, TraceSets, TraceAsks, TraceAcquires, TraceRegisters, TraceFails, TraceInitializes
<1> QED BY <1>1 DEF Trace!Next

LEMMA TraceInitially == Trace!Init => TraceInv
<1> SUFFICES ASSUME Trace!Init PROVE TraceInv
  OBVIOUS
<1>1. \A c \in Calls : chat[c] = Trace!Idle /\ ~Alone(chat[c]) /\ chat[c].pc \notin Held
  BY DEF Trace!Init, Trace!Idle, Alone, Held
<1>2. TraceTypes
  BY <1>1 DEF Trace!Init, TraceTypes, Trace!TypeOK
<1>3. registrations = IF registered = Null THEN 0 ELSE 1
  BY DEF Trace!Init
<1> QED BY <1>1, <1>2, <1>3 DEF TraceInv

LEMMA TraceStutter == TraceInv /\ UNCHANGED traceVars => TraceInv'
<1> SUFFICES ASSUME TraceInv, UNCHANGED traceVars PROVE TraceInv'
  OBVIOUS
<1>1. /\ enabled' = enabled /\ project' = project /\ initialized' = initialized /\ registered' = registered
      /\ lock' = lock /\ chat' = chat /\ registrations' = registrations
  BY DEF traceVars
<1>2. TraceTypes'
  BY <1>1 DEF TraceInv, TraceTypes, Trace!TypeOK
<1>3. \A c \in Calls : Alone(chat'[c]) => TraceSound(chat[c])'
  BY <1>1 DEF TraceInv, TraceSound
<1> QED BY <1>1, <1>2, <1>3 DEF TraceInv

LEMMA TraceIsSound == TraceInv => Trace!ChatToldAsSet
<1> SUFFICES ASSUME TraceInv PROVE Trace!ChatToldAsSet
  OBVIOUS
<1>1. Trace!TypeOK /\ registrations <= 1
  BY DEF TraceInv, TraceTypes
<1>2. ASSUME NEW c \in Trace!InProgress, Trace!At(c, "running"), chat[c].on # Null, ~chat[c].met
      PROVE  /\ chat[c].told = chat[c].on
             /\ chat[c].told /\ ~chat[c].failed => registered # Null
  <2>1. chat[c] \in TracedChat /\ c \in Calls /\ chat[c].pc = "running"
    BY <1>2 DEF Trace!InProgress, Trace!At, TraceInv, TraceTypes
  <2>2. chat[c].met \in BOOLEAN /\ chat[c].failed \in BOOLEAN /\ chat[c].told \in BOOLEAN
    BY <2>1 DEF TracedChat
  <2>3. Alone(chat[c])
    BY <1>2, <2>1, <2>2 DEF Alone
  <2>4. chat[c].told = chat[c].on /\ (Hopes(chat[c]) => registered # Null)
    BY <2>1, <2>3 DEF TraceInv, TraceSound
  <2>5. ASSUME chat[c].told, ~chat[c].failed PROVE registered # Null
    <3>1. chat[c].on = TRUE /\ chat[c].failed = FALSE
      BY <2>2, <2>4, <2>5
    <3> QED BY <2>1, <2>4, <3>1 DEF Hopes, Late
  <2> QED BY <2>4, <2>5
<1> QED BY <1>1, <1>2 DEF Trace!ChatToldAsSet

\* A chat whose steps meet no other's runs on the model, the key and the
\* parameters of its settings and is told to trace as they say, and no second
\* tracer is registered.
THEOREM ChatsRunAsSet == PlatformSpec => []ChatRunsAsSet
<1>1. PlatformInit => ModelInv /\ TraceInv
  BY ModelInitially, TraceInitially DEF PlatformInit
<1>2. ModelInv /\ TraceInv /\ [PlatformNext]_platformVars => ModelInv' /\ TraceInv'
  <2>1. UNCHANGED platformVars => UNCHANGED <<settings, selected, config, llm, call>> /\ UNCHANGED traceVars
    BY DEF platformVars, vars
  <2>2. UNCHANGED settingsVars => UNCHANGED <<settings, selected, config, llm, call>>
    BY DEF settingsVars
  <2> QED BY <2>1, <2>2, ModelStep, ModelStutter, TraceStep, TraceStutter DEF PlatformNext
<1>3. ModelInv /\ TraceInv => ChatRunsAsSet
  BY ModelSound, TraceIsSound DEF ChatRunsAsSet
<1> QED BY <1>1, <1>2, <1>3, PTL DEF PlatformSpec

HIDE TracingAssumed DEF Trace!TracingAssumption

-----------------------------------------------------------------------------
(* The agent's memory *)

USE MemoryAssumed DEF Memory!MemoryAssumption

Kept ==
    [key : Nat, user : Memory!Owners, kind : {"explicit", "episodic"}, thread : Conversations \cup {Null},
     indexed : BOOLEAN]

RunRecord ==
    [pc : {"open"}, thread : Conversations, user : Memory!Owners]
    \cup [pc : {"agent"}, thread : Conversations, user : Memory!Owners, semantic : BOOLEAN]
    \cup [pc : {"forget"}, thread : Conversations, user : Memory!Owners, semantic : BOOLEAN,
          matches : SUBSET Nat, deleted : Nat]
    \cup {Memory!Idle}

JobRecord ==
    [pc : {"open", "feel"}, thread : Conversations, user : Memory!Owners, answer : Nat] \cup {Memory!Idle}

KeepTypes ==
    /\ memories \subseteq Kept /\ threads \subseteq Conversations /\ loaded \in BOOLEAN
    /\ run \in [Calls -> RunRecord] /\ job \in [Calls -> JobRecord]
    /\ keys \in Nat /\ counted \in Nat /\ answered \in Nat /\ forgetCrossed \in BOOLEAN

\* A memory has a key of its own, and a thread when it is an episode.
KeysApart ==
    /\ \A m \in memories : m.key < keys /\ (m.kind = "episodic" <=> m.thread # Null)
    /\ \A m, n \in memories : m.key = n.key => m = n

\* Every key that was handed out is in the store, forgotten or was never stored.
KeysSettled ==
    /\ told \subseteq Memory!Keys \cup forgotten \cup unstored
    /\ Memory!Keys \cup forgotten \cup unstored = 0 .. (keys - 1)
    /\ Memory!Keys \cap (forgotten \cup unstored) = {}

Forgets(r) == run[r].pc = "forget"

\* A forget deletes memories of its user; as long as none has crossed another
\* of the same user, the ones it has matched are still there.
ForgetsMatch ==
    \A r \in Calls : Forgets(r) =>
        /\ \A k \in run[r].matches : k < keys /\ \A m \in memories : m.key = k => m.user = run[r].user
        /\ ~forgetCrossed =>
             /\ run[r].matches \subseteq Memory!Keys
             /\ \A o \in Calls \ {r} : Forgets(o) => run[o].user # run[r].user

ForgetsCounted ==
    /\ IsFiniteSet(Memory!Deletions)
    /\ ~forgetCrossed => Cardinality(forgotten) = counted + Cardinality(Memory!Deletions)

MemoryInv == KeepTypes /\ KeysApart /\ KeysSettled /\ ForgetsMatch /\ ForgetsCounted

LEMMA RunOf ==
    ASSUME KeepTypes, NEW r \in Calls
    PROVE  /\ run[r] \in RunRecord /\ job[r] \in JobRecord
           /\ run[r].pc # "idle" => run[r].thread \in Conversations /\ run[r].user \in Memory!Owners
           /\ run[r].pc \in {"agent", "forget"} => run[r].semantic \in BOOLEAN
           /\ Forgets(r) => run[r].matches \subseteq Nat /\ run[r].deleted \in Nat
           /\ job[r].pc # "idle" => job[r].thread \in Conversations /\ job[r].user \in Memory!Owners
<1>1. run[r] \in RunRecord /\ job[r] \in JobRecord
  BY DEF KeepTypes
<1>2. /\ run[r].pc # "idle" => run[r].thread \in Conversations /\ run[r].user \in Memory!Owners
      /\ run[r].pc \in {"agent", "forget"} => run[r].semantic \in BOOLEAN
      /\ Forgets(r) => run[r].matches \subseteq Nat /\ run[r].deleted \in Nat
  BY <1>1 DEF RunRecord, Memory!Idle, Forgets
<1>3. job[r].pc # "idle" => job[r].thread \in Conversations /\ job[r].user \in Memory!Owners
  BY <1>1 DEF JobRecord, Memory!Idle
<1> QED BY <1>1, <1>2, <1>3

\* A step that leaves the memories and the forgets as they are.
LEMMA QuietStep ==
    ASSUME MemoryInv, KeepTypes',
           UNCHANGED <<memories, keys, told, unstored, forgotten, counted, forgetCrossed>>,
           \A o \in Calls : run'[o] = run[o] \/ (run'[o].pc # "forget" /\ run[o].pc # "forget")
    PROVE  MemoryInv'
<1>1. KeysApart' /\ KeysSettled'
  BY DEF MemoryInv, KeysApart, KeysSettled, Memory!Keys
<1>2. ForgetsMatch'
  BY DEF MemoryInv, ForgetsMatch, Forgets, Memory!Keys
<1>3. Memory!Deletions' = Memory!Deletions
  BY DEF Memory!Deletions
<1>4. ForgetsCounted'
  BY <1>3 DEF MemoryInv, ForgetsCounted
<1> QED BY <1>1, <1>2, <1>4 DEF MemoryInv

\* A step that hands out a key, whose memory is put or not.
LEMMA PutStep ==
    ASSUME MemoryInv, KeepTypes', keys' = keys + 1, run' = run,
           UNCHANGED <<forgotten, counted, forgetCrossed>>,
           told' \in {told, told \cup {keys}},
           NEW m, m.key = keys, m.kind = "episodic" <=> m.thread # Null,
           \/ Memory!Puts(m) /\ unstored' = unstored
           \/ memories' = memories /\ unstored' = unstored \cup {keys}
    PROVE  MemoryInv'
<1>1. keys \in Nat /\ (\A x \in memories : x.key < keys /\ x.key \in Nat) /\ keys \notin Memory!Keys
  BY DEF MemoryInv, KeysApart, KeepTypes, Kept, Memory!Keys
<1>2. Memory!Replaced(m) = {}
  BY <1>1 DEF Memory!Replaced
<1>3. memories' = memories \cup {m} \/ memories' = memories
  BY <1>2 DEF Memory!Puts
<1>4. KeysApart'
  BY <1>1, <1>3 DEF MemoryInv, KeysApart
<1>5. KeysSettled'
  <2>1. (0 .. (keys' - 1)) = (0 .. (keys - 1)) \cup {keys} /\ keys \notin 0 .. (keys - 1)
    BY <1>1
  <2>2. \/ Memory!Keys' = Memory!Keys \cup {keys} /\ unstored' = unstored
        \/ Memory!Keys' = Memory!Keys /\ unstored' = unstored \cup {keys}
    BY <1>2 DEF Memory!Keys, Memory!Puts
  <2>3. Memory!Keys \cup forgotten \cup unstored = 0 .. (keys - 1)
    BY DEF MemoryInv, KeysSettled
  <2>4. keys \notin Memory!Keys \cup forgotten \cup unstored
    BY <2>1, <2>3
  <2> QED BY <2>1, <2>2, <2>3, <2>4 DEF MemoryInv, KeysSettled
<1>6. ForgetsMatch'
  <2> SUFFICES ASSUME NEW r \in Calls, Forgets(r)'
               PROVE  /\ \A k \in run'[r].matches : k < keys' /\ \A x \in memories' : x.key = k => x.user = run'[r].user
                      /\ ~forgetCrossed' =>
                           /\ run'[r].matches \subseteq Memory!Keys'
                           /\ \A o \in Calls \ {r} : Forgets(o)' => run'[o].user # run'[r].user
    BY DEF ForgetsMatch
  <2>1. Forgets(r) /\ run'[r] = run[r] /\ run[r].matches \subseteq Nat
    BY RunOf DEF Forgets, MemoryInv
  <2>2. Memory!Keys \subseteq Memory!Keys'
    BY <1>3 DEF Memory!Keys
  <2>3. ASSUME NEW k \in run'[r].matches
        PROVE  k < keys' /\ \A x \in memories' : x.key = k => x.user = run'[r].user
    <3>1. k \in Nat /\ k < keys /\ \A x \in memories : x.key = k => x.user = run[r].user
      BY <2>1, <2>3 DEF MemoryInv, ForgetsMatch
    <3> QED BY <1>1, <1>3, <2>1, <3>1
  <2> QED BY <2>1, <2>2, <2>3 DEF MemoryInv, ForgetsMatch, Forgets
<1>7. ForgetsCounted'
  <2>1. Memory!Deletions' = Memory!Deletions
    BY DEF Memory!Deletions
  <2> QED BY <2>1 DEF MemoryInv, ForgetsCounted
<1> QED BY <1>4, <1>5, <1>6, <1>7 DEF MemoryInv

\* What a step may do to the model's cache.
LEMMA OpensTyped == ASSUME KeepTypes, NEW semantic \in BOOLEAN, Memory!Opens(semantic) PROVE loaded' \in BOOLEAN
BY DEF KeepTypes, Memory!Opens

LEMMA RunSteps ==
    ASSUME MemoryInv, NEW r \in Calls,
           \/ \E t \in Conversations : Memory!StartRun(r, t)
           \/ \E semantic \in BOOLEAN : Memory!OpenStore(r, semantic)
           \/ Memory!OpenFails(r) \/ Memory!EndRun(r) \/ Memory!JobFeels(r)
    PROVE  MemoryInv'
<1>1. KeepTypes
  BY DEF MemoryInv
<1>2. ASSUME NEW t \in Conversations, Memory!StartRun(r, t) PROVE MemoryInv'
  <2>1. [pc |-> "open", thread |-> t, user |-> OwnerOf[t]] \in RunRecord
    BY DEF RunRecord, Memory!Owners
  <2>2. run' = [run EXCEPT ![r] = [pc |-> "open", thread |-> t, user |-> OwnerOf[t]]] /\ run[r].pc = "idle"
    BY <1>2 DEF Memory!StartRun
  <2>3. /\ UNCHANGED <<memories, keys, told, unstored, forgotten, counted, forgetCrossed>>
        /\ UNCHANGED <<threads, loaded, job, answered>>
    BY <1>2 DEF Memory!StartRun, Memory!answers
  <2>4. KeepTypes'
    BY <1>1, <2>1, <2>2, <2>3 DEF KeepTypes
  <2>5. \A o \in Calls : run'[o] = run[o] \/ (run'[o].pc # "forget" /\ run[o].pc # "forget")
    BY <1>1, <2>2 DEF KeepTypes
  <2> QED BY <2>3, <2>4, <2>5, QuietStep
<1>3. ASSUME NEW semantic \in BOOLEAN, Memory!OpenStore(r, semantic) PROVE MemoryInv'
  <2>1. PICK q : q = [pc |-> "agent", thread |-> run[r].thread, user |-> run[r].user, semantic |-> semantic]
    OBVIOUS
  <2>2. run' = [run EXCEPT ![r] = q] /\ run[r].pc = "open" /\ q.pc = "agent"
    BY <1>3, <2>1 DEF Memory!OpenStore
  <2>3. q \in RunRecord
    BY <1>1, <2>1, <2>2, RunOf DEF RunRecord
  <2>4. /\ UNCHANGED <<memories, keys, told, unstored, forgotten, counted, forgetCrossed>>
        /\ UNCHANGED <<threads, job, answered>> /\ loaded' \in BOOLEAN
    BY <1>1, <1>3, OpensTyped DEF Memory!OpenStore, Memory!answers
  <2>5. KeepTypes'
    BY <1>1, <2>2, <2>3, <2>4 DEF KeepTypes
  <2>6. \A o \in Calls : run'[o] = run[o] \/ (run'[o].pc # "forget" /\ run[o].pc # "forget")
    BY <1>1, <2>2 DEF KeepTypes
  <2> QED BY <2>4, <2>5, <2>6, QuietStep
<1>4. ASSUME Memory!OpenFails(r) \/ Memory!EndRun(r) PROVE MemoryInv'
  <2>1. run' = [run EXCEPT ![r] = Memory!Idle] /\ run[r].pc \in {"open", "agent"}
    BY <1>4 DEF Memory!OpenFails, Memory!EndRun
  <2>2. /\ UNCHANGED <<memories, keys, told, unstored, forgotten, counted, forgetCrossed>>
        /\ UNCHANGED <<threads, loaded>> /\ answered' \in {answered, answered + 1}
    BY <1>4 DEF Memory!OpenFails, Memory!EndRun, Memory!answers
  <2>3. job' \in [Calls -> JobRecord]
    <3>1. CASE Memory!OpenFails(r)
      BY <1>1, <3>1 DEF Memory!OpenFails, KeepTypes
    <3>2. CASE Memory!EndRun(r)
      <4>1. PICK pc \in {"idle", "open", "feel"} :
              job' = [job EXCEPT ![r] = IF pc = "idle" THEN Memory!Idle
                                        ELSE [pc |-> pc, thread |-> run[r].thread, user |-> run[r].user,
                                              answer |-> answered']]
        BY <3>2 DEF Memory!EndRun
      <4>2. (IF pc = "idle" THEN Memory!Idle
             ELSE [pc |-> pc, thread |-> run[r].thread, user |-> run[r].user, answer |-> answered']) \in JobRecord
        BY <1>1, <2>1, <2>2, RunOf DEF JobRecord, KeepTypes
      <4> QED BY <1>1, <4>1, <4>2 DEF KeepTypes
    <3> QED BY <1>4, <3>1, <3>2
  <2>4. Memory!Idle \in RunRecord /\ Memory!Idle.pc = "idle"
    BY DEF RunRecord, Memory!Idle
  <2>5. answered' \in Nat /\ run' \in [Calls -> RunRecord]
    BY <1>1, <2>1, <2>2, <2>4 DEF KeepTypes
  <2>6. KeepTypes'
    BY <1>1, <2>2, <2>3, <2>5 DEF KeepTypes
  <2>7. \A o \in Calls : run'[o] = run[o] \/ (run'[o].pc # "forget" /\ run[o].pc # "forget")
    BY <1>1, <2>1, <2>4 DEF KeepTypes
  <2> QED BY <2>2, <2>6, <2>7, QuietStep
<1>5. ASSUME Memory!JobFeels(r) PROVE MemoryInv'
  <2>1. /\ UNCHANGED <<memories, keys, told, unstored, forgotten, counted, forgetCrossed>>
        /\ UNCHANGED <<threads, loaded, run, answered>> /\ job' = [job EXCEPT ![r] = Memory!Idle]
    BY <1>5 DEF Memory!JobFeels, Memory!answers
  <2>2. KeepTypes'
    BY <1>1, <2>1 DEF KeepTypes, JobRecord
  <2> QED BY <2>1, <2>2, QuietStep
<1> QED BY <1>2, <1>3, <1>4, <1>5

LEMMA StoreSteps ==
    ASSUME MemoryInv, NEW r \in Calls, Memory!StoreTool(r) \/ Memory!JobStores(r)
    PROVE  MemoryInv'
<1>1. KeepTypes /\ keys \in Nat
  BY DEF MemoryInv, KeepTypes
<1>2. ASSUME NEW m \in Kept, Memory!Puts(m) PROVE memories' \subseteq Kept
  BY <1>1, <1>2 DEF Memory!Puts, KeepTypes
<1>3. ASSUME Memory!StoreTool(r) PROVE MemoryInv'
  <2>1. PICK m : m = Memory!Memory(keys, run[r].user, "explicit", Null, run[r].semantic)
    OBVIOUS
  <2>2. run[r].pc = "agent"
    BY <1>3 DEF Memory!StoreTool
  <2>3. m \in Kept /\ m.key = keys /\ m.kind = "explicit" /\ m.thread = Null
    BY <1>1, <2>1, <2>2, RunOf DEF Memory!Memory, Kept
  <2>4. /\ keys' = keys + 1 /\ run' = run /\ UNCHANGED <<forgotten, counted, forgetCrossed, threads, loaded, job, answered>>
        /\ told' = told \cup {keys}
        /\ \/ Memory!Puts(m) /\ unstored' = unstored
           \/ memories' = memories /\ unstored' = unstored \cup {keys}
    BY <1>3, <2>1 DEF Memory!StoreTool, Memory!answers
  <2>5. memories' \subseteq Kept
    BY <1>1, <1>2, <2>3, <2>4 DEF KeepTypes
  <2>6. KeepTypes'
    BY <1>1, <2>4, <2>5 DEF KeepTypes
  <2>7. m.kind = "episodic" <=> m.thread # Null
    BY <2>3
  <2> QED BY <2>3, <2>4, <2>6, <2>7, PutStep
<1>4. ASSUME Memory!JobStores(r) PROVE MemoryInv'
  <2>1. /\ UNCHANGED <<threads, run, told, unstored, forgotten, counted, forgetCrossed, answered>>
        /\ job' = [job EXCEPT ![r].pc = "feel"] /\ job[r].pc = "open"
    BY <1>4 DEF Memory!JobStores
  <2>2. job' \in [Calls -> JobRecord]
    <3>1. job[r] \in [pc : {"open", "feel"}, thread : Conversations, user : Memory!Owners, answer : Nat]
      BY <1>1, <2>1, RunOf DEF JobRecord, Memory!Idle
    <3>2. [job[r] EXCEPT !.pc = "feel"] \in JobRecord
      BY <3>1 DEF JobRecord
    <3> QED BY <1>1, <2>1, <3>2 DEF KeepTypes
  <2>3. CASE UNCHANGED <<memories, loaded, keys>>
    <3>1. KeepTypes'
      BY <1>1, <2>1, <2>2, <2>3 DEF KeepTypes
    <3> QED BY <2>1, <2>3, <3>1, QuietStep
  <2>4. CASE keys' = keys + 1 /\ \E semantic \in BOOLEAN :
               /\ Memory!Opens(semantic)
               /\ Memory!Puts(Memory!Memory(keys, job[r].user, "episodic", job[r].thread, semantic))
    <3>1. PICK semantic \in BOOLEAN :
               /\ Memory!Opens(semantic)
               /\ Memory!Puts(Memory!Memory(keys, job[r].user, "episodic", job[r].thread, semantic))
      BY <2>4
    <3>2. PICK m : m = Memory!Memory(keys, job[r].user, "episodic", job[r].thread, semantic)
      OBVIOUS
    <3>3. m \in Kept /\ m.key = keys /\ m.kind = "episodic" /\ m.thread \in Conversations
      BY <1>1, <2>1, <3>2, RunOf DEF Memory!Memory, Kept
    <3>4. memories' \subseteq Kept /\ loaded' \in BOOLEAN /\ Memory!Puts(m)
      BY <1>1, <1>2, <3>1, <3>2, <3>3, OpensTyped
    <3>5. KeepTypes'
      BY <1>1, <2>1, <2>2, <2>4, <3>4 DEF KeepTypes
    <3>6. m.kind = "episodic" <=> m.thread # Null
      BY <3>3
    <3>7. told' \in {told, told \cup {keys}} /\ keys' = keys + 1 /\ run' = run
          /\ UNCHANGED <<forgotten, counted, forgetCrossed>> /\ unstored' = unstored
      BY <2>1, <2>4
    <3> QED BY <3>3, <3>4, <3>5, <3>6, <3>7, PutStep
  <2> QED BY <1>4, <2>3, <2>4 DEF Memory!JobStores
<1> QED BY <1>3, <1>4

LEMMA ForgetSearchStep == ASSUME MemoryInv, NEW r \in Calls, Memory!ForgetSearch(r) PROVE MemoryInv'
<1>1. KeepTypes /\ run[r].pc = "agent"
  BY DEF MemoryInv, Memory!ForgetSearch
<1>2. PICK s \in Memory!Found(run[r].user, run[r].semantic, ForgetLimit) :
        run' = [run EXCEPT ![r] = [pc |-> "forget", thread |-> run[r].thread, user |-> run[r].user,
                                   semantic |-> run[r].semantic, matches |-> {m.key : m \in s}, deleted |-> 0]]
  BY DEF Memory!ForgetSearch
<1>3. \A m \in s : m \in memories /\ m.user = run[r].user
  BY DEF Memory!Found, Memory!Visible, Memory!OfUser
<1>4. PICK q : q = [pc |-> "forget", thread |-> run[r].thread, user |-> run[r].user,
                    semantic |-> run[r].semantic, matches |-> {m.key : m \in s}, deleted |-> 0]
  OBVIOUS
<1>5. q.pc = "forget" /\ q.user = run[r].user /\ q.matches = {m.key : m \in s} /\ q.deleted = 0
  BY <1>4
<1>6. \A m \in s : m.key \in Nat
  BY <1>1, <1>3 DEF KeepTypes, Kept
<1>7. q \in RunRecord
  <2>1. {m.key : m \in s} \in SUBSET Nat
    BY <1>6
  <2>2. run[r].thread \in Conversations /\ run[r].user \in Memory!Owners /\ run[r].semantic \in BOOLEAN
    BY <1>1, RunOf
  <2> QED BY <1>4, <2>1, <2>2 DEF RunRecord
<1>8. /\ run' = [run EXCEPT ![r] = q]
      /\ UNCHANGED <<memories, threads, loaded, job, keys, told, unstored, forgotten, counted, answered>>
      /\ forgetCrossed' = (forgetCrossed \/ \E o \in Calls : run[o].pc = "forget" /\ run[o].user = run[r].user)
  BY <1>2, <1>4 DEF Memory!ForgetSearch, Memory!answers
<1>9. run'[r] = q /\ \A o \in Calls \ {r} : run'[o] = run[o]
  BY <1>1, <1>8 DEF KeepTypes
<1>10. KeepTypes' /\ (~forgetCrossed' => ~forgetCrossed /\ \A o \in Calls : Forgets(o) => run[o].user # run[r].user)
  <2>1. forgetCrossed' \in BOOLEAN
    BY <1>1, <1>8 DEF KeepTypes
  <2>2. ~forgetCrossed' => ~forgetCrossed /\ \A o \in Calls : Forgets(o) => run[o].user # run[r].user
    BY <1>8 DEF Forgets
  <2> QED BY <1>1, <1>7, <1>8, <2>1, <2>2 DEF KeepTypes
<1>11. KeysApart' /\ KeysSettled'
  BY <1>8 DEF MemoryInv, KeysApart, KeysSettled, Memory!Keys
<1>12. ForgetsMatch'
  <2> SUFFICES ASSUME NEW o \in Calls, Forgets(o)'
               PROVE  /\ \A k \in run'[o].matches : k < keys /\ \A x \in memories : x.key = k => x.user = run'[o].user
                      /\ ~forgetCrossed' =>
                           /\ run'[o].matches \subseteq Memory!Keys
                           /\ \A p \in Calls \ {o} : Forgets(p)' => run'[p].user # run'[o].user
    BY <1>8 DEF ForgetsMatch, Memory!Keys
  <2>1. CASE o = r
    <3>1. ASSUME NEW k \in run'[o].matches
          PROVE  k < keys /\ k \in Memory!Keys /\ \A x \in memories : x.key = k => x.user = run'[o].user
      <4>1. PICK m \in s : k = m.key
        BY <1>5, <1>9, <2>1, <3>1
      <4> QED BY <1>3, <1>5, <1>9, <2>1, <4>1 DEF MemoryInv, KeysApart, Memory!Keys
    <3>2. ASSUME ~forgetCrossed', NEW p \in Calls \ {o}, Forgets(p)' PROVE run'[p].user # run'[o].user
      BY <1>5, <1>9, <1>10, <2>1, <3>2 DEF Forgets
    <3> QED BY <3>1, <3>2
  <2>2. CASE o # r
    <3>1. run'[o] = run[o] /\ Forgets(o)
      BY <1>9, <2>2 DEF Forgets
    <3>2. ASSUME ~forgetCrossed', NEW p \in Calls \ {o}, Forgets(p)' PROVE run'[p].user # run'[o].user
      BY <1>5, <1>9, <1>10, <3>1, <3>2 DEF Forgets, MemoryInv, ForgetsMatch
    <3> QED BY <1>10, <3>1, <3>2 DEF MemoryInv, ForgetsMatch
  <2> QED BY <2>1, <2>2
<1>13. Memory!Deletions' = Memory!Deletions
  <2>1. ASSUME NEW x, NEW o \in Calls, run'[o].pc = "forget", x \in {o} \X (1 .. run'[o].deleted) PROVE x \in Memory!Deletions
    <3>1. o # r
      BY <1>5, <1>9, <2>1
    <3> QED BY <1>9, <2>1, <3>1 DEF Memory!Deletions
  <2>2. ASSUME NEW x, NEW o \in Calls, run[o].pc = "forget", x \in {o} \X (1 .. run[o].deleted) PROVE x \in Memory!Deletions'
    <3>1. o # r
      BY <1>1, <2>2
    <3> QED BY <1>9, <2>2, <3>1 DEF Memory!Deletions
  <2> QED BY <2>1, <2>2 DEF Memory!Deletions
<1>14. ForgetsCounted'
  BY <1>8, <1>10, <1>13 DEF MemoryInv, ForgetsCounted
<1> QED BY <1>10, <1>11, <1>12, <1>14 DEF MemoryInv

\* A forget goes on with the matches that are left, whether it has deleted the one or not.
LEMMA ForgetGoesOn ==
    ASSUME KeepTypes, NEW r \in Calls, Forgets(r), NEW key, NEW n \in Nat,
           run' = [run EXCEPT ![r].matches = @ \ {key}, ![r].deleted = n]
    PROVE  /\ run' \in [Calls -> RunRecord] /\ \A o \in Calls \ {r} : run'[o] = run[o]
           /\ Forgets(r)' /\ run'[r].user = run[r].user /\ run'[r].deleted = n
           /\ run'[r].matches = run[r].matches \ {key}
<1>1. run[r] \in [pc : {"forget"}, thread : Conversations, user : Memory!Owners, semantic : BOOLEAN,
                  matches : SUBSET Nat, deleted : Nat]
  BY RunOf DEF RunRecord, Forgets, Memory!Idle
<1>2. PICK q : q = [run[r] EXCEPT !.matches = @ \ {key}, !.deleted = n]
  OBVIOUS
<1>3. /\ q \in RunRecord /\ q.pc = "forget" /\ q.user = run[r].user /\ q.deleted = n
      /\ q.matches = run[r].matches \ {key}
  BY <1>1, <1>2 DEF RunRecord
<1>4. run' = [run EXCEPT ![r] = q]
  BY <1>2 DEF KeepTypes
<1> QED BY <1>3, <1>4 DEF KeepTypes, Forgets

LEMMA ForgetOneStep == ASSUME MemoryInv, NEW r \in Calls, NEW key, Memory!ForgetOne(r, key) PROVE MemoryInv'
<1>1. KeepTypes /\ Forgets(r) /\ key \in run[r].matches /\ run[r].deleted \in Nat /\ key \in Nat
  BY RunOf DEF MemoryInv, Memory!ForgetOne, Forgets
<1>2. /\ UNCHANGED <<threads, loaded, job, keys, told, unstored, counted, forgetCrossed, answered>>
  BY DEF Memory!ForgetOne, Memory!answers
<1>3. key < keys /\ \A m \in memories : m.key = key => m.user = run[r].user
  BY <1>1 DEF MemoryInv, ForgetsMatch
<1>4. CASE memories' = memories /\ forgotten' = forgotten /\ run' = [run EXCEPT ![r].matches = @ \ {key}]
  <2>1. run' = [run EXCEPT ![r].matches = @ \ {key}, ![r].deleted = run[r].deleted]
    BY <1>1, <1>4 DEF KeepTypes, Forgets, RunRecord, Memory!Idle
  <2>2. /\ run' \in [Calls -> RunRecord] /\ \A o \in Calls \ {r} : run'[o] = run[o]
        /\ Forgets(r)' /\ run'[r].user = run[r].user /\ run'[r].deleted = run[r].deleted
        /\ run'[r].matches = run[r].matches \ {key}
    BY <1>1, <2>1, ForgetGoesOn
  <2>3. KeepTypes'
    BY <1>1, <1>2, <1>4, <2>2 DEF KeepTypes
  <2>4. KeysApart' /\ KeysSettled'
    BY <1>2, <1>4 DEF MemoryInv, KeysApart, KeysSettled, Memory!Keys
  <2>5. \A o \in Calls : (Forgets(o)' <=> Forgets(o)) /\ (Forgets(o) => run'[o].user = run[o].user
          /\ run'[o].matches \subseteq run[o].matches /\ run'[o].deleted = run[o].deleted)
    BY <1>1, <2>2 DEF Forgets
  <2>6. ForgetsMatch'
    BY <1>2, <1>4, <2>5 DEF MemoryInv, ForgetsMatch, Memory!Keys
  <2>7. Memory!Deletions' = Memory!Deletions
    BY <2>5 DEF Memory!Deletions, Forgets
  <2>8. ForgetsCounted'
    BY <1>2, <1>4, <2>7 DEF MemoryInv, ForgetsCounted
  <2> QED BY <2>3, <2>4, <2>6, <2>8 DEF MemoryInv
<1>5. CASE /\ memories' = {m \in memories : ~(m.user = run[r].user /\ m.key = key)}
           /\ forgotten' = forgotten \cup {key}
           /\ run' = [run EXCEPT ![r].matches = @ \ {key}, ![r].deleted = @ + 1]
  <2>1. run' = [run EXCEPT ![r].matches = @ \ {key}, ![r].deleted = run[r].deleted + 1]
    BY <1>1, <1>5 DEF KeepTypes
  <2>2. /\ run' \in [Calls -> RunRecord] /\ \A o \in Calls \ {r} : run'[o] = run[o]
        /\ Forgets(r)' /\ run'[r].user = run[r].user /\ run'[r].deleted = run[r].deleted + 1
        /\ run'[r].matches = run[r].matches \ {key}
    <3>1. PICK n \in Nat : n = run[r].deleted + 1
      BY <1>1
    <3>2. run' = [run EXCEPT ![r].matches = @ \ {key}, ![r].deleted = n]
      BY <2>1, <3>1
    <3>3. /\ run' \in [Calls -> RunRecord] /\ \A o \in Calls \ {r} : run'[o] = run[o]
          /\ Forgets(r)' /\ run'[r].user = run[r].user /\ run'[r].deleted = n
          /\ run'[r].matches = run[r].matches \ {key}
      BY <1>1, <3>2, ForgetGoesOn
    <3> QED BY <3>1, <3>3
  <2>3. KeepTypes'
    BY <1>1, <1>2, <1>5, <2>2 DEF KeepTypes
  <2>4. memories' = {m \in memories : m.key # key}
    BY <1>3, <1>5
  <2>5. Memory!Keys' = Memory!Keys \ {key}
    BY <2>4 DEF Memory!Keys
  <2>6. KeysApart'
    BY <1>2, <2>4 DEF MemoryInv, KeysApart
  <2>7. KeysSettled'
    <3>1. key \in 0 .. (keys - 1)
      BY <1>1, <1>3 DEF KeepTypes
    <3>2. /\ told \subseteq Memory!Keys \cup forgotten \cup unstored
          /\ Memory!Keys \cup forgotten \cup unstored = 0 .. (keys - 1)
          /\ Memory!Keys \cap (forgotten \cup unstored) = {}
      BY DEF MemoryInv, KeysSettled
    <3>3. Memory!Keys' \cup forgotten' \cup unstored' = 0 .. (keys - 1)
      BY <1>2, <1>5, <2>5, <3>1, <3>2
    <3>4. Memory!Keys' \cap (forgotten' \cup unstored') = {}
      BY <1>2, <1>5, <2>5, <3>2
    <3>5. told' \subseteq Memory!Keys' \cup forgotten' \cup unstored'
      BY <1>2, <1>5, <2>5, <3>2
    <3> QED BY <1>2, <3>3, <3>4, <3>5 DEF KeysSettled
  <2>8. ForgetsMatch'
    <3> SUFFICES ASSUME NEW o \in Calls, Forgets(o)'
                 PROVE  /\ \A k \in run'[o].matches : k < keys /\ \A x \in memories' : x.key = k => x.user = run'[o].user
                        /\ ~forgetCrossed =>
                             /\ run'[o].matches \subseteq Memory!Keys'
                             /\ \A p \in Calls \ {o} : Forgets(p)' => run'[p].user # run'[o].user
      BY <1>2 DEF ForgetsMatch
    <3>1. /\ Forgets(o) /\ run'[o].user = run[o].user /\ run'[o].matches \subseteq run[o].matches
          /\ o = r => key \notin run'[o].matches
      BY <1>1, <2>2 DEF Forgets
    <3>2. \A p \in Calls : Forgets(p)' => Forgets(p) /\ run'[p].user = run[p].user
      BY <1>1, <2>2 DEF Forgets
    <3>3. /\ \A k \in run[o].matches : k < keys /\ \A x \in memories : x.key = k => x.user = run[o].user
          /\ ~forgetCrossed => /\ run[o].matches \subseteq Memory!Keys
                              /\ \A p \in Calls \ {o} : Forgets(p) => run[p].user # run[o].user
      BY <3>1 DEF MemoryInv, ForgetsMatch
    <3>4. ASSUME ~forgetCrossed, NEW k \in run'[o].matches PROVE k \in Memory!Keys'
      <4>1. k \in run[o].matches /\ k \in Memory!Keys
        BY <3>1, <3>3, <3>4
      <4>2. CASE o = r
        BY <2>5, <3>1, <3>4, <4>1, <4>2
      <4>3. CASE o # r
        <5>1. run[r].user # run[o].user
          BY <1>1, <3>3, <3>4, <4>3
        <5>2. PICK m \in memories : m.key = k
          BY <4>1 DEF Memory!Keys
        <5>3. m.user = run[o].user
          BY <3>3, <4>1, <5>2
        <5> QED BY <1>3, <2>5, <4>1, <5>1, <5>2, <5>3
      <4> QED BY <4>2, <4>3
    <3> QED BY <2>4, <3>1, <3>2, <3>3, <3>4
  <2>9. Memory!Deletions' = Memory!Deletions \cup {<<r, run[r].deleted + 1>>} /\ <<r, run[r].deleted + 1>> \notin Memory!Deletions
    <3>1. 1 .. run'[r].deleted = (1 .. run[r].deleted) \cup {run[r].deleted + 1}
      BY <1>1, <2>2
    <3>2. run[r].pc = "forget" /\ run'[r].pc = "forget" /\ run[r].deleted + 1 \notin 1 .. run[r].deleted
      BY <1>1, <2>2 DEF Forgets
    <3>3. ASSUME NEW x \in Memory!Deletions' PROVE x \in Memory!Deletions \cup {<<r, run[r].deleted + 1>>}
      <4>1. PICK o \in Calls : run'[o].pc = "forget" /\ x \in {o} \X (1 .. run'[o].deleted)
        BY <3>3 DEF Memory!Deletions
      <4>2. CASE o = r
        <5>1. x \in {r} \X (1 .. run[r].deleted) \/ x = <<r, run[r].deleted + 1>>
          BY <3>1, <4>1, <4>2
        <5> QED BY <3>2, <5>1 DEF Memory!Deletions
      <4>3. CASE o # r
        BY <2>2, <4>1, <4>3 DEF Memory!Deletions
      <4> QED BY <4>2, <4>3
    <3>4. ASSUME NEW x \in Memory!Deletions PROVE x \in Memory!Deletions'
      <4>1. PICK o \in Calls : run[o].pc = "forget" /\ x \in {o} \X (1 .. run[o].deleted)
        BY <3>4 DEF Memory!Deletions
      <4>2. run'[o].pc = "forget" /\ x \in {o} \X (1 .. run'[o].deleted)
        BY <2>2, <3>1, <3>2, <4>1
      <4> QED BY <4>2 DEF Memory!Deletions
    <3>5. <<r, run[r].deleted + 1>> \in Memory!Deletions'
      <4>1. <<r, run[r].deleted + 1>> \in {r} \X (1 .. run'[r].deleted)
        BY <3>1
      <4> QED BY <3>2, <4>1 DEF Memory!Deletions
    <3>6. <<r, run[r].deleted + 1>> \notin Memory!Deletions
      BY <3>2 DEF Memory!Deletions
    <3> QED BY <3>3, <3>4, <3>5, <3>6
  <2>10. ForgetsCounted'
    <3>1. IsFiniteSet(Memory!Deletions)
      BY DEF MemoryInv, ForgetsCounted
    <3>2. /\ IsFiniteSet(Memory!Deletions')
          /\ Cardinality(Memory!Deletions') = Cardinality(Memory!Deletions) + 1
      BY <2>9, <3>1, FS_AddElement
    <3>3. ASSUME ~forgetCrossed PROVE Cardinality(forgotten') = counted + Cardinality(Memory!Deletions')
      <4>1. key \notin forgotten
        BY <1>1, <3>3 DEF MemoryInv, ForgetsMatch, KeysSettled
      <4>2. IsFiniteSet(0 .. (keys - 1)) /\ forgotten \in SUBSET (0 .. (keys - 1))
        <5>1. keys - 1 \in Int
          BY <1>1 DEF KeepTypes
        <5>2. forgotten \in SUBSET (0 .. (keys - 1))
          BY DEF MemoryInv, KeysSettled
        <5> QED BY <5>1, <5>2, FS_Interval
      <4>3. IsFiniteSet(forgotten)
        BY <4>2, FS_Subset
      <4>4. Cardinality(forgotten') = Cardinality(forgotten) + 1
        BY <1>5, <4>1, <4>3, FS_AddElement
      <4>5. Cardinality(forgotten) = counted + Cardinality(Memory!Deletions)
        BY <3>3 DEF MemoryInv, ForgetsCounted
      <4>6. Cardinality(Memory!Deletions) \in Nat /\ counted \in Nat
        BY <1>1, <3>1, FS_CardinalityType DEF KeepTypes
      <4> QED BY <3>2, <4>4, <4>5, <4>6
    <3> QED BY <1>2, <3>2, <3>3 DEF ForgetsCounted
  <2> QED BY <2>3, <2>6, <2>7, <2>8, <2>10 DEF MemoryInv
<1> QED BY <1>4, <1>5 DEF Memory!ForgetOne

LEMMA ForgottenStep == ASSUME MemoryInv, NEW r \in Calls, Memory!Forgotten(r) PROVE MemoryInv'
<1>1. KeepTypes /\ Forgets(r) /\ run[r].deleted \in Nat /\ counted \in Nat
  BY RunOf DEF MemoryInv, Memory!Forgotten, Forgets, KeepTypes
<1>2. PICK q : q = [pc |-> "agent", thread |-> run[r].thread, user |-> run[r].user, semantic |-> run[r].semantic]
  OBVIOUS
<1>3. run[r].thread \in Conversations /\ run[r].user \in Memory!Owners /\ run[r].semantic \in BOOLEAN
  BY <1>1, RunOf DEF Forgets
<1>4. q \in RunRecord /\ q.pc = "agent"
  BY <1>2, <1>3 DEF RunRecord
<1>5. /\ run' = [run EXCEPT ![r] = q] /\ counted' = counted + run[r].deleted
      /\ UNCHANGED <<memories, threads, loaded, job, keys, told, unstored, forgotten, forgetCrossed, answered>>
  BY <1>2 DEF Memory!Forgotten, Memory!answers
<1>6. run'[r] = q /\ \A o \in Calls \ {r} : run'[o] = run[o]
  BY <1>1, <1>5 DEF KeepTypes
<1>7. KeepTypes'
  BY <1>1, <1>4, <1>5 DEF KeepTypes
<1>8. KeysApart' /\ KeysSettled'
  BY <1>5 DEF MemoryInv, KeysApart, KeysSettled, Memory!Keys
<1>9. \A o \in Calls : Forgets(o)' => Forgets(o) /\ run'[o] = run[o]
  BY <1>4, <1>6 DEF Forgets
<1>10. ForgetsMatch'
  BY <1>5, <1>9 DEF MemoryInv, ForgetsMatch, Memory!Keys
<1>11. ForgetsCounted'
  <2>1. /\ Memory!Deletions = Memory!Deletions' \cup ({r} \X (1 .. run[r].deleted))
        /\ Memory!Deletions' \cap ({r} \X (1 .. run[r].deleted)) = {}
    <3>1. ASSUME NEW x \in Memory!Deletions
          PROVE  x \in Memory!Deletions' \/ x \in {r} \X (1 .. run[r].deleted)
      <4>1. PICK o \in Calls : run[o].pc = "forget" /\ x \in {o} \X (1 .. run[o].deleted)
        BY <3>1 DEF Memory!Deletions
      <4> QED BY <1>6, <4>1 DEF Memory!Deletions
    <3>2. ASSUME NEW x \in Memory!Deletions'
          PROVE  x \in Memory!Deletions /\ x \notin {r} \X (1 .. run[r].deleted)
      <4>1. PICK o \in Calls : run'[o].pc = "forget" /\ x \in {o} \X (1 .. run'[o].deleted)
        BY <3>2 DEF Memory!Deletions
      <4>2. o # r
        BY <1>4, <1>6, <4>1
      <4> QED BY <1>6, <4>1, <4>2 DEF Memory!Deletions
    <3>3. {r} \X (1 .. run[r].deleted) \subseteq Memory!Deletions
      BY <1>1 DEF Memory!Deletions, Forgets
    <3> QED BY <3>1, <3>2, <3>3
  <2>2. IsFiniteSet(Memory!Deletions)
    BY DEF MemoryInv, ForgetsCounted
  <2>3. IsFiniteSet(Memory!Deletions')
    BY <2>1, <2>2, FS_Subset
  <2>4. /\ IsFiniteSet({r} \X (1 .. run[r].deleted))
        /\ Cardinality({r} \X (1 .. run[r].deleted)) = run[r].deleted
    <3>1. IsFiniteSet({r}) /\ Cardinality({r}) = 1
      BY FS_Singleton
    <3>2. IsFiniteSet(1 .. run[r].deleted) /\ Cardinality(1 .. run[r].deleted) = run[r].deleted
      <4>1. \A n \in Nat : IsFiniteSet(1 .. n) /\ Cardinality(1 .. n) = IF 1 > n THEN 0 ELSE n - 1 + 1
        BY FS_Interval
      <4> QED BY <1>1, <4>1
    <3>3. /\ IsFiniteSet({r} \X (1 .. run[r].deleted))
          /\ Cardinality({r} \X (1 .. run[r].deleted)) = Cardinality({r}) * Cardinality(1 .. run[r].deleted)
      BY <3>1, <3>2, FS_Product
    <3> QED BY <1>1, <3>1, <3>2, <3>3
  <2>5. Cardinality(Memory!Deletions) = Cardinality(Memory!Deletions') + run[r].deleted
    <3>1. Cardinality(Memory!Deletions' \cap ({r} \X (1 .. run[r].deleted))) = 0
      BY <2>1, FS_EmptySet
    <3>2. Cardinality(Memory!Deletions) = Cardinality(Memory!Deletions') + Cardinality({r} \X (1 .. run[r].deleted))
                                          - Cardinality(Memory!Deletions' \cap ({r} \X (1 .. run[r].deleted)))
      BY <2>1, <2>3, <2>4, FS_Union
    <3>3. Cardinality(Memory!Deletions') \in Nat
      BY <2>3, FS_CardinalityType
    <3> QED BY <1>1, <2>4, <3>1, <3>2, <3>3
  <2>6. Cardinality(Memory!Deletions') \in Nat
    BY <2>3, FS_CardinalityType
  <2> QED BY <1>1, <1>5, <2>3, <2>5, <2>6 DEF MemoryInv, ForgetsCounted
<1> QED BY <1>7, <1>8, <1>10, <1>11 DEF MemoryInv

LEMMA MeanwhileSteps ==
    ASSUME MemoryInv, (\E t \in Conversations : Memory!DeleteThread(t)) \/ Memory!Restart
    PROVE  MemoryInv'
<1>1. KeepTypes
  BY DEF MemoryInv
<1>2. ASSUME NEW t \in Conversations, Memory!DeleteThread(t) PROVE MemoryInv'
  <2>1. /\ UNCHANGED <<memories, keys, told, unstored, forgotten, counted, forgetCrossed>>
        /\ UNCHANGED <<loaded, run, job, answered>> /\ threads' = threads \ {t}
    BY <1>2 DEF Memory!DeleteThread, Memory!answers
  <2>2. KeepTypes'
    BY <1>1, <2>1 DEF KeepTypes
  <2> QED BY <2>1, <2>2, QuietStep
<1>3. ASSUME Memory!Restart PROVE MemoryInv'
  <2>1. /\ run' = [r \in Calls |-> Memory!Idle] /\ job' = [r \in Calls |-> Memory!Idle] /\ loaded' = FALSE
        /\ forgetCrossed' = (forgetCrossed \/ \E r \in Calls : run[r].pc = "forget")
        /\ UNCHANGED <<memories, threads, keys, told, unstored, forgotten, counted, answered>>
    BY <1>3 DEF Memory!Restart
  <2>2. forgetCrossed' \in BOOLEAN
    BY <1>1, <2>1 DEF KeepTypes
  <2>3. KeepTypes'
    BY <1>1, <2>1, <2>2 DEF KeepTypes, RunRecord, JobRecord
  <2>4. \A r \in Calls : ~Forgets(r)'
    BY <2>1 DEF Forgets, Memory!Idle
  <2>5. KeysApart' /\ KeysSettled'
    BY <2>1 DEF MemoryInv, KeysApart, KeysSettled, Memory!Keys
  <2>6. ForgetsMatch'
    BY <2>4 DEF ForgetsMatch
  <2>7. Memory!Deletions' = {}
    BY <2>4 DEF Memory!Deletions, Forgets
  <2>8. ASSUME ~forgetCrossed' PROVE Cardinality(forgotten') = counted' + Cardinality(Memory!Deletions')
    <3>1. ~forgetCrossed /\ \A r \in Calls : run[r].pc # "forget"
      BY <2>1, <2>8
    <3>2. Memory!Deletions = {}
      BY <3>1 DEF Memory!Deletions
    <3> QED BY <2>1, <2>7, <3>1, <3>2 DEF MemoryInv, ForgetsCounted
  <2>9. ForgetsCounted'
    BY <2>7, <2>8, FS_EmptySet DEF ForgetsCounted
  <2> QED BY <2>3, <2>5, <2>6, <2>9 DEF MemoryInv
<1> QED BY <1>2, <1>3

LEMMA MemoryStep == MemoryInv /\ Memory!Next => MemoryInv'
<1> SUFFICES ASSUME MemoryInv, Memory!Next PROVE MemoryInv'
  OBVIOUS
<1>1. ASSUME NEW r \in Calls,
             \/ \E t \in Conversations : Memory!StartRun(r, t)
             \/ \E semantic \in BOOLEAN : Memory!OpenStore(r, semantic)
             \/ Memory!OpenFails(r) \/ Memory!StoreTool(r) \/ Memory!ForgetSearch(r)
             \/ \E key \in 0 .. MaxMemories : Memory!ForgetOne(r, key)
             \/ Memory!Forgotten(r) \/ Memory!EndRun(r) \/ Memory!JobStores(r) \/ Memory!JobFeels(r)
      PROVE  MemoryInv'
  BY <1>1, RunSteps, StoreSteps, ForgetSearchStep, ForgetOneStep, ForgottenStep
<1> QED BY <1>1, MeanwhileSteps DEF Memory!Next

LEMMA MemoryInitially == Memory!Init => MemoryInv
<1> SUFFICES ASSUME Memory!Init PROVE MemoryInv
  OBVIOUS
<1>1. KeepTypes
  BY DEF Memory!Init, KeepTypes, RunRecord, JobRecord
<1>2. memories = {} /\ keys = 0 /\ told = {} /\ unstored = {} /\ forgotten = {} /\ counted = 0
  BY DEF Memory!Init
<1>3. \A r \in Calls : ~Forgets(r)
  BY DEF Memory!Init, Memory!Idle, Forgets
<1>4. Memory!Deletions = {} /\ Memory!Keys = {}
  BY <1>2, <1>3 DEF Memory!Deletions, Memory!Keys, Forgets
<1>5. 0 .. (keys - 1) = {}
  BY <1>2
<1> QED BY <1>1, <1>2, <1>3, <1>4, <1>5, FS_EmptySet
        DEF MemoryInv, KeysApart, KeysSettled, ForgetsMatch, ForgetsCounted

LEMMA MemoryStutter == MemoryInv /\ UNCHANGED memoryVars => MemoryInv'
<1> SUFFICES ASSUME MemoryInv, UNCHANGED memoryVars PROVE MemoryInv'
  OBVIOUS
<1>1. /\ UNCHANGED <<memories, keys, told, unstored, forgotten, counted, forgetCrossed>>
      /\ UNCHANGED <<threads, loaded, run, job, answered>>
  BY DEF memoryVars
<1>2. KeepTypes'
  BY <1>1 DEF MemoryInv, KeepTypes
<1> QED BY <1>1, <1>2, QuietStep

LEMMA MemoryCardinality == \A S : Memory!Cardinality(S) = Cardinality(S)
BY DEF Memory!Cardinality, Memory!IsFiniteSet, Cardinality, IsFiniteSet

\* Keys that name one memory each are as many as the memories.
LEMMA OneKeyEach ==
    ASSUME KeepTypes, KeysApart
    PROVE  Cardinality(memories) = Cardinality(Memory!Keys)
<1>1. Memory!Keys \in SUBSET (0 .. (keys - 1)) /\ keys - 1 \in Int
  BY DEF KeepTypes, KeysApart, Kept, Memory!Keys
<1>2. IsFiniteSet(Memory!Keys)
  <2>1. IsFiniteSet(0 .. (keys - 1))
    BY <1>1, FS_Interval
  <2> QED BY <1>1, <2>1, FS_Subset
<1>3. PICK f : f = [m \in memories |-> m.key]
  OBVIOUS
<1>4. f \in Bijection(memories, Memory!Keys)
  <2>1. f \in [memories -> Memory!Keys]
    BY <1>3 DEF Memory!Keys
  <2>2. \A m, n \in memories : f[m] = f[n] => m = n
    BY <1>3 DEF KeysApart
  <2>3. \A k \in Memory!Keys : \E m \in memories : f[m] = k
    BY <1>3 DEF Memory!Keys
  <2> QED BY <2>1, <2>2, <2>3 DEF Bijection, Injection, Surjection, IsInjective
<1>5. ExistsBijection(memories, Memory!Keys)
  BY <1>4 DEF ExistsBijection
<1>6. ExistsBijection(Memory!Keys, memories)
  BY <1>5, Fun_ExistsBijSymmetric
<1> QED BY <1>2, <1>6, FS_Bijection

-----------------------------------------------------------------------------
\* A run has left no daemon thread yet; the number of an answer is in its thread
\* until the put, and then with a key whose put succeeded.
HasEpisode(n) ==
    \/ n \in cut
    \/ \E r \in Calls : job[r].pc = "open" /\ job[r].answer = n
    \/ \E k \in (0 .. (keys - 1)) \ unstored : [answer |-> n, key |-> k] \in episodes

EpisodesInv ==
    /\ \A r \in Calls : run[r].pc # "idle" => job[r].pc = "idle"
    /\ \A n \in 1 .. answered : HasEpisode(n)

\* A step of the runs and of the tools, which leaves the daemon threads alone.
LEMMA RunKeepsEpisodes ==
    ASSUME KeepTypes, EpisodesInv, UNCHANGED <<job, episodes, cut, answered>>,
           \A r \in Calls : run'[r].pc # "idle" => run[r].pc # "idle" \/ job[r].pc = "idle",
           keys' \in {keys, keys + 1}, unstored' \in {unstored, unstored \cup {keys}},
           keys' = keys => unstored' = unstored
    PROVE  EpisodesInv'
<1>1. (0 .. (keys - 1)) \ unstored \subseteq (0 .. (keys' - 1)) \ unstored'
  BY DEF KeepTypes
<1>2. \A n : HasEpisode(n) => HasEpisode(n)'
  BY <1>1 DEF HasEpisode
<1> QED BY <1>2 DEF EpisodesInv

LEMMA EndKeepsEpisodes ==
    ASSUME KeepTypes, EpisodesInv, NEW r \in Calls, Memory!EndRun(r)
    PROVE  EpisodesInv'
<1>1. /\ run[r].pc = "agent" /\ run' = [run EXCEPT ![r] = Memory!Idle]
      /\ UNCHANGED <<keys, unstored, episodes, cut>>
  BY DEF Memory!EndRun
<1>2. PICK pc \in {"idle", "open", "feel"} :
        /\ answered' = IF pc = "open" THEN answered + 1 ELSE answered
        /\ job' = [job EXCEPT ![r] = IF pc = "idle" THEN Memory!Idle
                                     ELSE [pc |-> pc, thread |-> run[r].thread, user |-> run[r].user,
                                           answer |-> answered']]
  BY DEF Memory!EndRun
<1>3. job[r].pc = "idle" /\ answered \in Nat
  BY <1>1 DEF EpisodesInv, KeepTypes
<1>4. /\ run'[r].pc = "idle"
      /\ \A o \in Calls \ {r} : run'[o] = run[o] /\ job'[o] = job[o]
  BY <1>1, <1>2 DEF KeepTypes, Memory!Idle
<1>5. \A n : HasEpisode(n) => HasEpisode(n)'
  BY <1>1, <1>3, <1>4 DEF HasEpisode
<1>6. ASSUME pc = "open", NEW n, n = answered + 1 PROVE HasEpisode(n)'
  <2>1. job'[r].pc = "open" /\ job'[r].answer = n
    BY <1>2, <1>6 DEF KeepTypes
  <2> QED BY <2>1 DEF HasEpisode
<1>7. \A n \in 1 .. answered' : HasEpisode(n)'
  <2> SUFFICES ASSUME NEW n \in 1 .. answered' PROVE HasEpisode(n)'
    OBVIOUS
  <2>1. n \in 1 .. answered \/ (pc = "open" /\ n = answered + 1)
    BY <1>2, <1>3
  <2> QED BY <1>5, <1>6, <2>1 DEF EpisodesInv
<1>8. \A o \in Calls : run'[o].pc # "idle" => job'[o].pc = "idle"
  BY <1>4 DEF EpisodesInv
<1> QED BY <1>7, <1>8 DEF EpisodesInv

LEMMA JobKeepsEpisodes ==
    ASSUME MemoryInv, EpisodesInv, NEW r \in Calls, Memory!JobStores(r)
    PROVE  EpisodesInv'
<1>1. KeepTypes /\ keys \in Nat /\ keys \notin unstored
  <2>1. keys \in Nat /\ unstored \subseteq 0 .. (keys - 1)
    BY DEF MemoryInv, KeepTypes, KeysSettled
  <2> QED BY <2>1 DEF MemoryInv
<1>2. /\ job[r].pc = "open" /\ job' = [job EXCEPT ![r].pc = "feel"]
      /\ UNCHANGED <<run, unstored, answered>>
  BY DEF Memory!JobStores
<1>3. \/ keys' = keys + 1 /\ episodes' = episodes \cup {[answer |-> job[r].answer, key |-> keys]} /\ cut' = cut
      \/ keys' = keys /\ episodes' = episodes /\ cut' = cut \cup {job[r].answer}
  BY DEF Memory!JobStores
<1>4. \A o \in Calls \ {r} : job'[o] = job[o]
  BY <1>1, <1>2 DEF KeepTypes
<1>5. run[r].pc = "idle"
  BY <1>2 DEF EpisodesInv
<1>6. ASSUME NEW n, n = job[r].answer PROVE HasEpisode(n)'
  <2>1. CASE keys' = keys + 1 /\ episodes' = episodes \cup {[answer |-> job[r].answer, key |-> keys]}
    <3>1. keys \in (0 .. (keys' - 1)) \ unstored'
      BY <1>1, <1>2, <2>1
    <3> QED BY <1>6, <2>1, <3>1 DEF HasEpisode
  <2>2. CASE cut' = cut \cup {job[r].answer}
    BY <1>6, <2>2 DEF HasEpisode
  <2> QED BY <1>3, <2>1, <2>2
<1>7. ASSUME NEW n, HasEpisode(n), n # job[r].answer PROVE HasEpisode(n)'
  <2>1. (0 .. (keys - 1)) \ unstored \subseteq (0 .. (keys' - 1)) \ unstored'
    BY <1>1, <1>2, <1>3
  <2>2. episodes \subseteq episodes' /\ cut \subseteq cut'
    BY <1>3
  <2> QED BY <1>4, <1>7, <2>1, <2>2 DEF HasEpisode
<1> QED BY <1>2, <1>4, <1>5, <1>6, <1>7 DEF EpisodesInv

LEMMA EpisodesStep == MemoryInv /\ EpisodesInv /\ Memory!Next => EpisodesInv'
<1> SUFFICES ASSUME MemoryInv, EpisodesInv, Memory!Next PROVE EpisodesInv'
  OBVIOUS
<1>1. KeepTypes
  BY DEF MemoryInv
<1>2. ASSUME NEW r \in Calls, NEW t \in Conversations, Memory!StartRun(r, t) PROVE EpisodesInv'
  BY <1>1, <1>2, RunKeepsEpisodes DEF Memory!StartRun, Memory!answers, KeepTypes
<1>3. ASSUME NEW r \in Calls, NEW semantic \in BOOLEAN, Memory!OpenStore(r, semantic) PROVE EpisodesInv'
  BY <1>1, <1>3, RunKeepsEpisodes DEF Memory!OpenStore, Memory!answers, KeepTypes
<1>4. ASSUME NEW r \in Calls, Memory!OpenFails(r) PROVE EpisodesInv'
  BY <1>1, <1>4, RunKeepsEpisodes DEF Memory!OpenFails, Memory!answers, Memory!Idle, KeepTypes
<1>5. ASSUME NEW r \in Calls, Memory!StoreTool(r) PROVE EpisodesInv'
  <2>1. /\ UNCHANGED <<job, episodes, cut, answered, run>> /\ keys' = keys + 1
        /\ unstored' \in {unstored, unstored \cup {keys}}
    BY <1>5 DEF Memory!StoreTool, Memory!answers
  <2>2. keys' # keys
    BY <1>1, <2>1 DEF KeepTypes
  <2> QED BY <1>1, <2>1, <2>2, RunKeepsEpisodes
<1>6. ASSUME NEW r \in Calls, Memory!ForgetSearch(r) PROVE EpisodesInv'
  <2>1. /\ UNCHANGED <<job, episodes, cut, answered, keys, unstored>> /\ run[r].pc = "agent"
        /\ \E q : run' = [run EXCEPT ![r] = q]
    BY <1>6 DEF Memory!ForgetSearch, Memory!answers
  <2> QED BY <1>1, <2>1, RunKeepsEpisodes DEF KeepTypes
<1>7. ASSUME NEW r \in Calls, NEW key, Memory!ForgetOne(r, key) PROVE EpisodesInv'
  <2>1. /\ UNCHANGED <<job, episodes, cut, answered, keys, unstored>> /\ run[r].pc = "forget"
        /\ \E q : run' = [run EXCEPT ![r] = q]
    BY <1>7 DEF Memory!ForgetOne, Memory!answers
  <2> QED BY <1>1, <2>1, RunKeepsEpisodes DEF KeepTypes
<1>8. ASSUME NEW r \in Calls, Memory!Forgotten(r) PROVE EpisodesInv'
  BY <1>1, <1>8, RunKeepsEpisodes DEF Memory!Forgotten, Memory!answers, KeepTypes
<1>9. ASSUME NEW r \in Calls, Memory!JobFeels(r) PROVE EpisodesInv'
  <2>1. /\ UNCHANGED <<episodes, cut, answered, keys, unstored, run>>
        /\ job[r].pc = "feel" /\ job' = [job EXCEPT ![r] = Memory!Idle]
    BY <1>9 DEF Memory!JobFeels, Memory!answers
  <2>2. job'[r].pc = "idle" /\ \A o \in Calls \ {r} : job'[o] = job[o]
    BY <1>1, <2>1 DEF KeepTypes, Memory!Idle
  <2>3. \A n : HasEpisode(n) => HasEpisode(n)'
    BY <2>1, <2>2 DEF HasEpisode
  <2> QED BY <2>1, <2>2, <2>3 DEF EpisodesInv
<1>10. ASSUME NEW t \in Conversations, Memory!DeleteThread(t) PROVE EpisodesInv'
  BY <1>1, <1>10, RunKeepsEpisodes DEF Memory!DeleteThread, Memory!answers
<1>11. ASSUME Memory!Restart PROVE EpisodesInv'
  <2>1. /\ run' = [r \in Calls |-> Memory!Idle] /\ UNCHANGED <<keys, unstored, answered, episodes>>
        /\ cut' = cut \cup {job[r].answer : r \in Memory!Storing}
    BY <1>11 DEF Memory!Restart
  <2>2. \A n : HasEpisode(n) => HasEpisode(n)'
    BY <2>1 DEF HasEpisode, Memory!Storing
  <2> QED BY <2>1, <2>2 DEF EpisodesInv, Memory!Idle
<1> QED
  BY <1>1, <1>2, <1>3, <1>4, <1>5, <1>6, <1>7, <1>8, <1>9, <1>10, <1>11,
     EndKeepsEpisodes, JobKeepsEpisodes DEF Memory!Next

LEMMA EpisodesInitially == Memory!Init => EpisodesInv
BY DEF Memory!Init, EpisodesInv, Memory!Idle

LEMMA EpisodesStutter == EpisodesInv /\ UNCHANGED memoryVars => EpisodesInv'
BY DEF memoryVars, EpisodesInv, HasEpisode

\* What a user was told is remembered is kept until it is forgotten, unless its
\* put failed; nothing deleted comes back; an episode that is due is stored and
\* kept likewise, unless its put failed or a restart took its thread; and the
\* forgets report what is gone, unless two of one user overlapped or a restart
\* cut one off.
THEOREM ToldMemoriesStay == PlatformSpec => []MemoriesKept
<1>1. PlatformInit => MemoryInv /\ EpisodesInv
  BY MemoryInitially, EpisodesInitially DEF PlatformInit
<1>2. MemoryInv /\ EpisodesInv /\ [PlatformNext]_platformVars => MemoryInv' /\ EpisodesInv'
  <2>1. UNCHANGED platformVars => UNCHANGED memoryVars
    BY DEF platformVars, memoryVars
  <2> QED BY <2>1, MemoryStep, MemoryStutter, EpisodesStep, EpisodesStutter DEF PlatformNext
<1>3. MemoryInv /\ EpisodesInv => MemoriesKept
  <2> SUFFICES ASSUME MemoryInv, EpisodesInv PROVE MemoriesKept
    OBVIOUS
  <2>1. KeepTypes /\ KeysApart
    BY DEF MemoryInv
  <2>2. Memory!TypeOK
    <3>1. Memory!Cardinality(memories) = Memory!Cardinality(Memory!Keys)
      BY <2>1, OneKeyEach, MemoryCardinality
    <3>2. ASSUME NEW m \in memories
          PROVE  /\ m.key \in 0 .. (keys - 1) /\ m.user \in Memory!Owners /\ m.indexed \in BOOLEAN
                 /\ m.kind = "episodic" <=> m.thread # Null
      BY <2>1 DEF KeepTypes, KeysApart, Kept
    <3> QED BY <2>1, <3>1, <3>2 DEF Memory!TypeOK, KeepTypes
  <2>3. ASSUME NEW n \in 1 .. answered
        PROVE  \/ n \in cut
               \/ \E r \in Memory!Storing : job[r].answer = n
               \/ \E k \in Memory!Keys \cup forgotten : [answer |-> n, key |-> k] \in episodes
    <3>1. HasEpisode(n)
      BY DEF EpisodesInv
    <3>2. (0 .. (keys - 1)) \ unstored \subseteq Memory!Keys \cup forgotten
      BY DEF MemoryInv, KeysSettled
    <3> QED BY <3>1, <3>2 DEF HasEpisode, Memory!Storing
  <2>4. forgetCrossed \/ Memory!Cardinality(forgotten) = counted + Memory!InFlight
    BY MemoryCardinality DEF MemoryInv, ForgetsCounted, Memory!InFlight
  <2> QED BY <2>2, <2>3, <2>4 DEF MemoriesKept, Memory!MemoriesKept, MemoryInv, KeysSettled
<1> QED BY <1>1, <1>2, <1>3, PTL DEF PlatformSpec

HIDE MemoryAssumed DEF Memory!MemoryAssumption
==============================================================================
