---------------------------- MODULE ModelSettings ----------------------------
(***************************************************************************)
(* The language model of the process.  form.SELECTED_MODEL, the user       *)
(* configuration of every registered model and its client are global; a    *)
(* chat selects its model, resolves its user's key, configures the model   *)
(* and takes its client, in steps that run beside those of other chats.    *)
(* Background calls (automations, summaries, generated cards, sub-agents)  *)
(* take the client of whatever model is selected.                          *)
(***************************************************************************)
EXTENDS Integers, FiniteSets

CONSTANTS Users,
          Providers,    \* openai and openrouter
          Hub,          \* the registered models
          ProviderOf,   \* the client class of a model
          ModelOf,      \* model name -> model, Null for a name that is not registered
          Params,       \* temperature, max_tokens, top_p and the penalties, together
          Overrides,    \* the parameters that requests carry, or Null
          Default,      \* the model that register_all_models selects
          EnvKeys,      \* the providers with a key in the environment
          Saved,        \* the settings rows the users start from
          Bodies,       \* the updates of settings that clients send
          Calls,        \* the slots of concurrent calls
          Null,
          MaxCalls,     \* bound: calls in a behaviour
          MaxUpdates,   \* bound: updates of settings
          MaxFaults     \* bound: settings that cannot be loaded

VARIABLES settings,   \* the committed user_settings rows
          selected,   \* form.SELECTED_MODEL
          config,     \* model -> its _user_api_key and the other _user_ fields
          llm,        \* model -> its client
          call,       \* the calls in progress; met is history: a chat whose steps met those of
                      \* another chat, or a client under construction
          calls, updates, faults

vars == <<settings, selected, config, llm, call, calls, updates, faults>>

Names == DOMAIN ModelOf

\* A key column holds no key, the user's own, or one that no longer decrypts.
Row == [model : Names, params : Params, keys : [Providers -> {Null, "own", "lost"}]]

ASSUME ModelsRegistered ==
    /\ Default \in Hub /\ ProviderOf \in [Hub -> Providers]
    /\ \A name \in Names : ModelOf[name] \in Hub \cup {Null}
    /\ Saved \in [Users -> Row]
    /\ \A body \in Bodies : /\ "model" \in DOMAIN body => body.model \in Names
                            /\ "params" \in DOMAIN body => body.params \in Params
                            /\ \A p \in Providers \cap DOMAIN body : body[p] \in {Null, "own", "lost"}
    /\ Overrides \subseteq Params \cup {Null}
    /\ Null \notin Hub /\ Null \notin Params /\ Null \notin Users /\ Null \notin Row /\ Null # "env"

Fields == [key : Users \cup {"env", Null}, params : Params \cup {Null}]

Client == [model : Hub, key : Users \cup {"env"}, params : Params \cup {Null}]

Idle == [pc |-> "idle"]

Init ==
    /\ settings = Saved
    /\ selected = Default
    /\ config = [m \in Hub |-> [key |-> Null, params |-> Null]]
    /\ llm = [m \in Hub |-> Null]
    /\ call = [c \in Calls |-> Idle]
    /\ calls = 0 /\ updates = 0 /\ faults = 0

-----------------------------------------------------------------------------
(* Settings *)

\* The row after the fields of a body: an empty key clears its column, and a
\* key that cannot be encrypted leaves it, as if the body had none.
Updated(row, body) ==
    [model |-> IF "model" \in DOMAIN body THEN body.model ELSE row.model,
     params |-> IF "params" \in DOMAIN body THEN body.params ELSE row.params,
     keys |-> [p \in Providers |-> IF p \in DOMAIN body THEN body[p] ELSE row.keys[p]]]

\* PUT /settings, committed.
UpdateSettings(u, body) ==
    /\ updates < MaxUpdates
    /\ updates' = updates + 1
    /\ settings' = [settings EXCEPT ![u] = Updated(@, body)]
    /\ UNCHANGED <<selected, config, llm, call, calls, faults>>

\* ApiKeyResolver: the user's key if it decrypts, else the environment's.
Resolve(u, keys, provider) ==
    IF keys[provider] = "own" THEN u
    ELSE IF provider \in EnvKeys THEN "env" ELSE Null

-----------------------------------------------------------------------------
(* Calls *)

Goes(c, pc) == call' = [call EXCEPT ![c].pc = pc]

Ends(c) == call' = [call EXCEPT ![c] = Idle]

At(c, pc) == call[c].pc = pc

Chats == {c \in Calls : call[c] # Idle /\ call[c].user # Null}

\* A write of the shared state: c goes on as next, and meets the other chats.
Writes(c, next) ==
    call' = [d \in Calls |-> IF d = c THEN next
                             ELSE IF d \in Chats THEN [call[d] EXCEPT !.met = TRUE] ELSE call[d]]

\* chat_stream, regenerate and edit; only chat_stream takes parameters of its own.
StartChat(c, u, override) ==
    /\ At(c, "idle") /\ calls < MaxCalls
    /\ calls' = calls + 1
    /\ call' = [call EXCEPT ![c] = [pc |-> "load", user |-> u, row |-> Null, override |-> override, met |-> FALSE,
                                    key |-> Null, model |-> Null, fields |-> Null]]
    /\ UNCHANGED <<settings, selected, config, llm, updates, faults>>

\* A call that reads no settings: a run of an automation or a WebSocket, a summary.
StartOther(c) ==
    /\ At(c, "idle") /\ calls < MaxCalls
    /\ calls' = calls + 1
    /\ call' = [call EXCEPT ![c] = [pc |-> "check", user |-> Null, row |-> Null, override |-> Null, met |-> FALSE,
                                    key |-> Null, model |-> Null, fields |-> Null]]
    /\ UNCHANGED <<settings, selected, config, llm, updates, faults>>

LoadSettings(c) ==
    /\ At(c, "load")
    /\ call' = [call EXCEPT ![c].row = settings[call[c].user], ![c].pc = "select"]
    /\ UNCHANGED <<settings, selected, config, llm, calls, updates, faults>>

\* The chat goes on without settings.
LoadFails(c) ==
    /\ At(c, "load") /\ faults < MaxFaults
    /\ faults' = faults + 1
    /\ Goes(c, "config")
    /\ UNCHANGED <<settings, selected, config, llm, calls, updates>>

\* prepare_chat: form.set_model, its ValueError caught.
SelectModel(c) ==
    LET m == ModelOf[call[c].row.model]
    IN  /\ At(c, "select")
        /\ IF m = Null
           THEN Goes(c, "key") /\ UNCHANGED selected
           ELSE selected' = m /\ Writes(c, [call[c] EXCEPT !.pc = "key"])
        /\ UNCHANGED <<settings, config, llm, calls, updates, faults>>

\* The key of the provider of the model that is selected now.
ResolveKey(c) ==
    /\ At(c, "key")
    /\ call' = [call EXCEPT ![c].key = Resolve(call[c].user, call[c].row.keys, ProviderOf[selected]),
                            ![c].pc = "name"]
    /\ UNCHANGED <<settings, selected, config, llm, calls, updates, faults>>

\* stream_query: form.set_model again, whose ValueError ends the chat.
SetModel(c) ==
    LET m == ModelOf[call[c].row.model]
    IN  /\ At(c, "name")
        /\ IF m = Null
           THEN Ends(c) /\ UNCHANGED selected
           ELSE selected' = m /\ Writes(c, [call[c] EXCEPT !.pc = "config"])
        /\ UNCHANGED <<settings, config, llm, calls, updates, faults>>

ChatParams(c) ==
    IF call[c].override # Null THEN call[c].override
    ELSE IF call[c].row = Null THEN Null ELSE call[c].row.params

\* The configuration is kept unless there is a key, for comparison.
ConfiguresWithKey(c) == call[c].key # Null

Configures(c) == call[c].key # Null \/ ChatParams(c) # Null

\* Another call has read the configuration and not yet stored its client.
Building(c) == \E d \in Calls \ {c} : call[d].pc \in {"fields", "assign"}

\* set_user_config of the selected model: first the key, ...
SetUserKey(c) ==
    /\ At(c, "config")
    /\ IF Configures(c)
       THEN /\ config' = [config EXCEPT ![selected].key = call[c].key]
            /\ Writes(c, [call[c] EXCEPT !.pc = "params", !.model = selected, !.key = Null,
                                         !.met = @ \/ Building(c)])
       ELSE Goes(c, "check") /\ UNCHANGED config
    /\ UNCHANGED <<settings, selected, llm, calls, updates, faults>>

\* ... then the parameters ...
SetUserParams(c) ==
    /\ At(c, "params")
    /\ config' = [config EXCEPT ![call[c].model].params = ChatParams(c)]
    /\ Writes(c, [call[c] EXCEPT !.pc = "reset", !.met = @ \/ Building(c)])
    /\ UNCHANGED <<settings, selected, llm, calls, updates, faults>>

\* ... and the client is dropped.
DropClient(c) ==
    /\ At(c, "reset")
    /\ llm' = [llm EXCEPT ![call[c].model] = Null]
    /\ Writes(c, [call[c] EXCEPT !.pc = "check", !.model = Null, !.met = @ \/ Building(c)])
    /\ UNCHANGED <<settings, selected, config, calls, updates, faults>>

\* "if not form.SELECTED_MODEL.llm", in stream_query and in build_react_graph alike.
CheckClient(c) ==
    /\ At(c, "check")
    /\ Goes(c, IF llm[selected] # Null THEN "bind" ELSE "build")
    /\ UNCHANGED <<settings, selected, config, llm, calls, updates, faults>>

\* check_api_key: the model's user key, else the environment's, else the call fails.
CheckApiKey(m) ==
    IF config[m].key # Null THEN config[m].key
    ELSE IF ProviderOf[m] \in EnvKeys THEN "env" ELSE Null

\* setup of the model that is selected now.
BuildKey(c) ==
    /\ At(c, "build")
    /\ IF CheckApiKey(selected) = Null
       THEN Ends(c)
       ELSE call' = [call EXCEPT ![c].model = selected, ![c].pc = "fields",
                                 ![c].fields = [key |-> CheckApiKey(selected), params |-> Null]]
    /\ UNCHANGED <<settings, selected, config, llm, calls, updates, faults>>

BuildParams(c) ==
    /\ At(c, "fields")
    /\ call' = [call EXCEPT ![c].fields.params = config[call[c].model].params, ![c].pc = "assign"]
    /\ UNCHANGED <<settings, selected, config, llm, calls, updates, faults>>

AssignClient(c) ==
    LET built == call[c]
    IN  /\ At(c, "assign")
        /\ llm' = [llm EXCEPT ![built.model] = [model |-> built.model, key |-> built.fields.key,
                                                params |-> built.fields.params]]
        /\ call' = [call EXCEPT ![c].pc = "bind", ![c].model = Null, ![c].fields = Null]
        /\ UNCHANGED <<settings, selected, config, calls, updates, faults>>

\* llm = form.SELECTED_MODEL.llm, which binds the tools or, when it is None,
\* fails; the graph calls this client to its end.
BindClient(c) ==
    /\ At(c, "bind")
    /\ IF llm[selected] = Null
       THEN Ends(c)
       ELSE call' = [call EXCEPT ![c].pc = "running", ![c].fields = llm[selected], ![c].model = Null]
    /\ UNCHANGED <<settings, selected, config, llm, calls, updates, faults>>

Finish(c) ==
    /\ At(c, "running")
    /\ Ends(c)
    /\ UNCHANGED <<settings, selected, config, llm, calls, updates, faults>>

Next ==
    \/ \E u \in Users, body \in Bodies : UpdateSettings(u, body)
    \/ \E c \in Calls :
          \/ \E u \in Users, override \in Overrides : StartChat(c, u, override)
          \/ StartOther(c)
          \/ LoadSettings(c) \/ LoadFails(c) \/ SelectModel(c) \/ ResolveKey(c) \/ SetModel(c)
          \/ SetUserKey(c) \/ SetUserParams(c) \/ DropClient(c)
          \/ CheckClient(c) \/ BuildKey(c) \/ BuildParams(c) \/ AssignClient(c)
          \/ BindClient(c) \/ Finish(c)

Spec == Init /\ [][Next]_vars

-----------------------------------------------------------------------------
(* Properties *)

TypeOK ==
    /\ settings \in [Users -> Row]
    /\ selected \in Hub
    /\ config \in [Hub -> Fields]
    /\ llm \in [Hub -> Client \cup {Null}]

\* What a chat with these settings asks for.
Wanted(c) ==
    LET m == ModelOf[call[c].row.model]
    IN  [model |-> m, key |-> Resolve(call[c].user, call[c].row.keys, ProviderOf[m]),
         params |-> ChatParams(c)]

\* A chat runs on the model, the key and the parameters of the settings it
\* loaded, or does not run: nothing that earlier chats left in the process
\* reaches it, and a background call that builds a client between its steps
\* builds the one it wants.  Only a chat whose steps meet those of another, or
\* a client under construction when it configures the model, may get another.
ChatUsesItsSettings ==
    /\ TypeOK
    /\ \A c \in Chats :
          At(c, "running") /\ ~call[c].met /\ call[c].row # Null => call[c].fields = Wanted(c)
=============================================================================
