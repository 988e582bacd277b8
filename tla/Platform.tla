------------------------------ MODULE Platform -------------------------------
(***************************************************************************)
(* Nine parts around the services, which share neither rows nor locks:     *)
(* model settings, tracing, web tools, the agent's memory, accounts,       *)
(* sessions, MCP connections, the control of the desktop and the voice.    *)
(* Steps of different ones commute, so a behaviour exercises one of them.  *)
(***************************************************************************)
EXTENDS ModelSettings

CONSTANTS Projects, MaxChats,
          Queries, CallLimit, Enforced, MaxWebSearches, WindowLength, Interval, MaxTime, MaxWebCalls,
          Conversations, OwnerOf, ForgetLimit, MaxRuns, MaxMemories,
          Emails, Identities, EmailOf, MaxAccounts, MaxAccountCalls,
          SessionRequests, Sockets, AccessSeconds, RefreshSeconds, MaxRequests, LimitSeconds,
          MaxTokens, MaxSessionCalls, MaxSeconds,
          Servers, MaxConnections, MaxMcpCalls,
          Places, Commands, MaxActions,
          MaxSpeeches

VARIABLES part,
          enabled, project, initialized, registered, lock, chat, registrations,
          budget, window, lastSlot, wrapper, cache, webCall, now, slots, sent,
          memories, threads, loaded, run, job, keys, told, unstored, forgotten, counted, forgetCrossed,
          answered, episodes, cut,
          user, created, req, home, strayed, signInCrossed,
          clock, tokens, blacklist, rate, request, socket, connections, revoked, leaked, arrivals, blind,
          servers, sessions, tools, open, exited, mcpRequest, disturbed, opened,
          service, controller, maker, running, launched, pointer, action, ran, failed, met, missed,
          engine, engines, reference, speech, engineRaced

Trace == INSTANCE Tracing
    WITH Chats <- Calls, chats <- calls

Web == INSTANCE WebTools
    WITH Threads <- Calls, MaxSearches <- MaxWebSearches, MaxCalls <- MaxWebCalls, call <- webCall

Memory == INSTANCE AgentMemory
    WITH Runs <- Calls, Threads <- Conversations, Owner <- OwnerOf, MaxKeys <- MaxMemories,
         started <- calls, crossed <- forgetCrossed

Account == INSTANCE Accounts
    WITH Requests <- Calls, MaxRequests <- MaxAccountCalls, requests <- calls, crossed <- signInCrossed

Session == INSTANCE Sessions
    WITH Requests <- SessionRequests, Window <- LimitSeconds, MaxCalls <- MaxSessionCalls, MaxTime <- MaxSeconds, now <- clock

Mcp == INSTANCE McpClient
    WITH Requests <- Calls, MaxRequests <- MaxMcpCalls, request <- mcpRequest,
         connections <- opened, requests <- calls

Os == INSTANCE OsControl
    WITH Threads <- Calls, actions <- calls

Voice == INSTANCE Speech
    WITH Threads <- Calls, MaxCalls <- MaxSpeeches, call <- speech, raced <- engineRaced

ASSUME McpAssumed == Mcp!McpAssumption

ASSUME SpeechAssumed == Voice!SpeechAssumption

ASSUME AccountsAssumed == Account!AccountsAssumption

ASSUME SessionsAssumed == Session!SessionsAssumption

ASSUME OsAssumed == Os!OsAssumption

ASSUME MemoryAssumed == Memory!MemoryAssumption

ASSUME TracingAssumed == Trace!TracingAssumption

ASSUME WebAssumed == Web!WebAssumption

-----------------------------------------------------------------------------
(* One part at a time; the counters of calls and faults are common *)

settingsVars == <<settings, selected, config, llm, call, updates>>
traceVars == <<enabled, project, initialized, registered, lock, chat, registrations>>
webVars == <<budget, window, lastSlot, wrapper, cache, webCall, now, slots, sent>>
memoryVars == <<memories, threads, loaded, run, job, keys, told, unstored, forgotten, counted, forgetCrossed,
                answered, episodes, cut>>
accountVars == <<user, created, req, home, strayed, signInCrossed>>
sessionVars == <<clock, tokens, blacklist, rate, request, socket, connections, revoked, leaked, arrivals, blind>>
mcpVars == <<servers, sessions, tools, open, exited, mcpRequest, disturbed, opened>>
osVars == <<service, controller, maker, running, launched, pointer, action, ran, failed, met, missed>>
voiceVars == <<engine, engines, reference, speech, engineRaced>>

PlatformInit ==
    /\ part \in {"settings", "trace", "web", "memory", "account", "session", "mcp", "os", "voice"}
    /\ Init /\ Trace!Init /\ Web!Init /\ Memory!Init /\ Account!Init /\ Session!Init /\ Mcp!Init /\ Os!Init
    /\ Voice!Init
    /\ part = "trace" \/ ~enabled
    /\ part = "session" \/ clock = 0
    /\ part = "os" \/ pointer = CHOOSE l \in Places : TRUE

PlatformNext ==
    /\ \/ /\ part = "settings" /\ Next
          /\ UNCHANGED <<traceVars, webVars, memoryVars, accountVars, sessionVars, mcpVars, osVars, voiceVars>>
       \/ /\ part = "trace" /\ Trace!Next
          /\ UNCHANGED <<settingsVars, webVars, memoryVars, accountVars, sessionVars, mcpVars, osVars, voiceVars>>
       \/ /\ part = "web" /\ Web!Next
          /\ UNCHANGED <<settingsVars, traceVars, memoryVars, accountVars, sessionVars, mcpVars, osVars, voiceVars>>
       \/ /\ part = "memory" /\ Memory!Next
          /\ UNCHANGED <<settingsVars, traceVars, webVars, accountVars, sessionVars, mcpVars, osVars, voiceVars>>
       \/ /\ part = "account" /\ Account!Next
          /\ UNCHANGED <<settingsVars, traceVars, webVars, memoryVars, sessionVars, mcpVars, osVars, voiceVars>>
       \/ /\ part = "session" /\ Session!Next
          /\ UNCHANGED <<settingsVars, traceVars, webVars, memoryVars, accountVars, mcpVars, osVars, voiceVars>>
       \/ /\ part = "mcp" /\ Mcp!Next
          /\ UNCHANGED <<settingsVars, traceVars, webVars, memoryVars, accountVars, sessionVars, osVars, voiceVars>>
       \/ /\ part = "os" /\ Os!Next
          /\ UNCHANGED <<settingsVars, traceVars, webVars, memoryVars, accountVars, sessionVars, mcpVars, voiceVars>>
       \/ /\ part = "voice" /\ Voice!Next
          /\ UNCHANGED <<settingsVars, traceVars, webVars, memoryVars, accountVars, sessionVars, mcpVars, osVars>>
    /\ UNCHANGED part

platformVars == <<part, vars, traceVars, webVars, memoryVars, accountVars, sessionVars, mcpVars,
                  osVars, voiceVars>>

PlatformSpec == PlatformInit /\ [][PlatformNext]_platformVars

-----------------------------------------------------------------------------
(* The properties of the instances, under the names the run gives them *)

\* ModelSettings and Tracing: a chat runs with the settings and keys of its
\* user, and is told whether to trace as its user configured it.
ChatRunsAsSet == ChatUsesItsSettings /\ Trace!ChatToldAsSet

\* WebTools: calls, slots and searches of a window stay within their limits.
WebCallsBounded == Web!WebCallsBounded

\* AgentMemory: memories are lost only where someone forgot them, a put failed or a
\* restart took the thread that was to store them.
MemoriesKept == Memory!MemoriesKept

\* Accounts: a provider's identity keeps its account.
IdentityKeepsAccount == Account!IdentityKeepsAccount

\* Sessions: a revoked token stays out, and the limiter admits no more than it may.
RevokedStaysOut == Session!RevokedStaysOut

\* McpClient: a server at rest has the tools of the session it is registered with.
ToolsOfTheSession == Mcp!ToolsOfTheSession

\* OsControl: browsers and drivers are accounted for, GUI actions where they were
\* asked for.
ControlsAccounted == Os!ControlsAccounted

\* Speech: each engine of the cloned voice loads its model once.
VoiceLoadedOnce == Voice!VoiceLoadedOnce
=============================================================================
