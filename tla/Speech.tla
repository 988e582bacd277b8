-------------------------------- MODULE Speech --------------------------------
(***************************************************************************)
(* infrastructure/tts/qwen3_engine.py and its caller in audio_service.py:  *)
(* the cloned voice, one lazily loaded engine per process.  Background     *)
(* generations on the threads of a pool ask for the engine without a lock, *)
(* ask it whether it is available, also without, and then take turns under *)
(* its lock, where the first one loads the model.  An engine that failed   *)
(* to load stays failed, and every later generation gets the plain voice.  *)
(***************************************************************************)
EXTENDS Integers, Sequences

CONSTANTS Threads, Null,
          MaxCalls,   \* bound: generations
          MaxFaults   \* bound: failures of the model, of the reference audio, and restarts

VARIABLES engine,     \* _engine: an index of engines, or Null
          engines,    \* the engine objects made since the start of the process
          reference,  \* the reference audio is there
          call,       \* the generation of each thread
          calls, faults,
          raced       \* history: two first calls each made an engine
                      \* (excused, in a call, is history too: why it got the plain voice)

vars == <<engine, engines, reference, call, calls, faults, raced>>

\* loads is history: how often from_pretrained was called.
NewEngine == [model |-> FALSE, prompt |-> FALSE, initialized |-> FALSE, failed |-> FALSE,
              lock |-> Null, loads |-> 0]

Idle == [pc |-> "idle", engine |-> Null, excused |-> FALSE]

Engine == [model : BOOLEAN, prompt : BOOLEAN, initialized : BOOLEAN, failed : BOOLEAN,
           lock : Threads \cup {Null}, loads : Nat]

\* Under the lock of an engine.
Locked == {"load", "reference", "prompt", "check", "generate"}

Generation == [pc : {"idle", "make", "take", "available", "lock", "voice", "plain"} \cup Locked,
               engine : 1 .. Len(engines) \cup {Null}, excused : BOOLEAN]

SpeechAssumption == Null \notin Threads \cup Nat

Init ==
    /\ engine = Null /\ engines = <<>>
    /\ reference = TRUE
    /\ call = [k \in Threads |-> Idle]
    /\ calls = 0 /\ faults = 0 /\ raced = FALSE

At(k, pc) == call[k].pc = pc
Goes(k, pc) == call' = [call EXCEPT ![k].pc = pc]
Mine(k) == engines[call[k].engine]
Sets(k, e) == engines' = [engines EXCEPT ![call[k].engine] = e]

-----------------------------------------------------------------------------
(* get_qwen3_engine *)

Synthesize(k) ==
    /\ call[k].pc \in {"idle", "voice", "plain"} /\ calls < MaxCalls
    /\ calls' = calls + 1
    /\ call' = [call EXCEPT ![k] = [Idle EXCEPT !.pc = IF engine = Null THEN "make" ELSE "take"]]
    /\ UNCHANGED <<engine, engines, reference, faults, raced>>

MakeEngine(k) ==
    /\ At(k, "make")
    /\ engines' = Append(engines, NewEngine)
    /\ engine' = Len(engines) + 1
    /\ raced' = (raced \/ engine # Null)
    /\ Goes(k, "take")
    /\ UNCHANGED <<reference, calls, faults>>

\* The name is read again: it may be the engine of another thread.
TakeEngine(k) ==
    /\ At(k, "take")
    /\ call' = [call EXCEPT ![k] = [pc |-> "available", engine |-> engine, excused |-> FALSE]]
    /\ UNCHANGED <<engine, engines, reference, calls, faults, raced>>

\* is_available, while another thread may be loading.
IsAvailable(k) ==
    /\ At(k, "available")
    /\ IF ~Mine(k).failed /\ (Mine(k).initialized \/ reference)
       THEN Goes(k, "lock")
       ELSE call' = [call EXCEPT ![k].pc = "plain", ![k].excused = ~Mine(k).failed]
    /\ UNCHANGED <<engine, engines, reference, calls, faults, raced>>

-----------------------------------------------------------------------------
(* synthesize, under the lock of the engine *)

\* The engine need not be loaded; as if a failure did not count, for comparison.
SettledIfReady(e) == e.initialized

Settled(e) == e.initialized \/ e.failed

Acquire(k) ==
    /\ At(k, "lock") /\ Mine(k).lock = Null
    /\ Sets(k, [Mine(k) EXCEPT !.lock = k])
    /\ Goes(k, IF Settled(Mine(k)) THEN "check" ELSE "load")
    /\ UNCHANGED <<engine, reference, calls, faults, raced>>

LoadModel(k) ==
    /\ At(k, "load")
    /\ Sets(k, [Mine(k) EXCEPT !.model = TRUE, !.loads = @ + 1])
    /\ Goes(k, "reference")
    /\ UNCHANGED <<engine, reference, calls, faults, raced>>

\* CUDA, an import or from_pretrained.
LoadFails(k) ==
    /\ At(k, "load") /\ faults < MaxFaults
    /\ faults' = faults + 1
    /\ Sets(k, [Mine(k) EXCEPT !.failed = TRUE, !.loads = @ + 1])
    /\ Goes(k, "check")
    /\ UNCHANGED <<engine, reference, calls, raced>>

\* The reference audio was there when is_available looked.
FindReference(k) ==
    /\ At(k, "reference")
    /\ IF reference
       THEN Goes(k, "prompt") /\ UNCHANGED engines
       ELSE Sets(k, [Mine(k) EXCEPT !.failed = TRUE]) /\ Goes(k, "check")
    /\ UNCHANGED <<engine, reference, calls, faults, raced>>

CreatePrompt(k) ==
    /\ At(k, "prompt")
    /\ Sets(k, [Mine(k) EXCEPT !.prompt = TRUE, !.initialized = TRUE])
    /\ Goes(k, "check")
    /\ UNCHANGED <<engine, reference, calls, faults, raced>>

PromptFails(k) ==
    /\ At(k, "prompt") /\ faults < MaxFaults
    /\ faults' = faults + 1
    /\ Sets(k, [Mine(k) EXCEPT !.failed = TRUE])
    /\ Goes(k, "check")
    /\ UNCHANGED <<engine, reference, calls, raced>>

CheckEngine(k) ==
    /\ At(k, "check")
    /\ IF ~Mine(k).initialized \/ ~Mine(k).model
       THEN Sets(k, [Mine(k) EXCEPT !.lock = Null]) /\ Goes(k, "plain")
       ELSE Goes(k, "generate") /\ UNCHANGED engines
    /\ UNCHANGED <<engine, reference, calls, faults, raced>>

Generate(k) ==
    /\ At(k, "generate")
    /\ Sets(k, [Mine(k) EXCEPT !.lock = Null])
    /\ Goes(k, "voice")
    /\ UNCHANGED <<engine, reference, calls, faults, raced>>

\* The caller falls back to edge-tts.
GenerateFails(k) ==
    /\ At(k, "generate") /\ faults < MaxFaults
    /\ faults' = faults + 1
    /\ Sets(k, [Mine(k) EXCEPT !.lock = Null])
    /\ call' = [call EXCEPT ![k].pc = "plain", ![k].excused = TRUE]
    /\ UNCHANGED <<engine, reference, calls, raced>>

-----------------------------------------------------------------------------
\* The file comes and goes with the operator of the server.
MoveReference ==
    /\ faults < MaxFaults
    /\ faults' = faults + 1
    /\ reference' = ~reference
    /\ UNCHANGED <<engine, engines, call, calls, raced>>

Restart ==
    /\ engine # Null /\ faults < MaxFaults
    /\ faults' = faults + 1
    /\ engine' = Null /\ engines' = <<>> /\ raced' = FALSE
    /\ call' = [k \in Threads |-> Idle]
    /\ UNCHANGED <<reference, calls>>

Next ==
    \/ \E k \in Threads :
          \/ Synthesize(k) \/ MakeEngine(k) \/ TakeEngine(k) \/ IsAvailable(k)
          \/ Acquire(k) \/ LoadModel(k) \/ LoadFails(k) \/ FindReference(k)
          \/ CreatePrompt(k) \/ PromptFails(k) \/ CheckEngine(k)
          \/ Generate(k) \/ GenerateFails(k)
    \/ MoveReference \/ Restart

Spec == Init /\ [][Next]_vars

-----------------------------------------------------------------------------
(* Properties *)

TypeOK ==
    /\ engines \in Seq(Engine)
    /\ engine \in (1 .. Len(engines)) \cup {Null}
    /\ call \in [Threads -> Generation]
    /\ reference \in BOOLEAN /\ raced \in BOOLEAN

\* However many generations ask for the engine at once, each engine loads its
\* model at most once, also when the load fails half-way; only one thread at a
\* time is past its lock, and it generates with the model and the prompt of a
\* finished load; a generation gets the plain voice only from an engine that has
\* failed, while the reference is missing, or if its own generation failed; and
\* there is a second engine, with a model of its own, only if two first calls
\* each found none.
VoiceLoadedOnce ==
    /\ TypeOK
    /\ \A i \in DOMAIN engines :
          /\ engines[i].loads <= 1
          /\ ~(engines[i].initialized /\ engines[i].failed)
          /\ engines[i].initialized => engines[i].model /\ engines[i].prompt
    /\ \A j, k \in Threads :
          At(j, "generate") =>
              /\ Mine(j).initialized /\ Mine(j).lock = j
              /\ j # k /\ At(k, "generate") => call[j].engine # call[k].engine
    /\ ~raced => Len(engines) <= 1
    /\ \A k \in Threads : At(k, "plain") /\ ~call[k].excused => Mine(k).failed
=============================================================================
