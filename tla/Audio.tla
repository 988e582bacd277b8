-------------------------------- MODULE Audio --------------------------------
(***************************************************************************)
(* AudioService: audio overviews and the background tasks that generate    *)
(* them.  create_overview submits the task to the thread pool before its   *)
(* request commits the row, the task writes its result with sessions of    *)
(* its own, and a deletion removes the audio file before it commits.       *)
(*                                                                         *)
(* Every UPDATE and DELETE here is committed in the next statement, so     *)
(* that row locks are held for no step of the model; an UPDATE that finds  *)
(* its row deleted (StaleDataError) has the outcome of a read that finds   *)
(* none.                                                                   *)
(***************************************************************************)
EXTENDS Integers, FiniteSets

CONSTANTS Overviews,  \* the ids of overviews
          Requests,   \* the slots of concurrent requests
          MaxFaults,  \* bound: failed statements and restarts
          Absent, Deleted, Null

VARIABLES row,      \* the committed overviews
          file,     \* the audio files of each overview in storage/audio
          task,     \* the generation task of each overview
          req,      \* the request in progress in each slot
          faults,
          stranded, \* history: the overviews whose task ended without a verdict
          strayed   \* history: the overviews whose file a known race has leaked or lost

vars == <<row, file, task, req, faults, stranded, strayed>>

AudioStatus == {"pending", "generating", "ready", "failed"}

\* Qwen3-TTS writes .wav, edge-tts .mp3.
Formats == {"wav", "mp3"}

Overview == [status : AudioStatus, path : Formats \cup {Null}]

Steps == {"queued", "content", "script", "qwen", "edge", "save", "failing"}
Task == [at : Steps \cup {"none", "done"}, audio : Formats \cup {Null}]

Idle == [op |-> "idle"]
Request == [op : {"create", "delete"}, overview : Overviews, path : Formats \cup {Null}]

AudioAssumption ==
    /\ MaxFaults \in Nat
    /\ Null \notin Formats
    /\ {Absent, Deleted} \cap Overview = {} /\ Absent # Deleted

TypeOK ==
    /\ row \in [Overviews -> Overview \cup {Absent, Deleted}]
    /\ file \in [Overviews -> SUBSET Formats]
    /\ task \in [Overviews -> Task]
    /\ req \in [Requests -> Request \cup {Idle}]
    /\ faults \in 0..MaxFaults
    /\ stranded \in SUBSET Overviews /\ strayed \in SUBSET Overviews

NoTask == [at |-> "none", audio |-> Null]

Init ==
    /\ row = [o \in Overviews |-> Absent]
    /\ file = [o \in Overviews |-> {}]
    /\ task = [o \in Overviews |-> NoTask]
    /\ req = [r \in Requests |-> Idle]
    /\ faults = 0 /\ stranded = {} /\ strayed = {}

-----------------------------------------------------------------------------
(* Helpers *)

Exists(o) == row[o] \in Overview
Busy(o) == \E r \in Requests : req[r] # Idle /\ req[r].overview = o
Working(o) == task[o].at \in Steps

\* The task looked for the row before the request has committed it.
MissUncommitted(o) == stranded' = IF row[o] = Absent THEN stranded \cup {o} ELSE stranded

Goto(o, at) == task' = [task EXCEPT ![o].at = at]

\* As if a deletion left the files, for comparison.
KeepFiles(o) == UNCHANGED file

\* os.remove
RemoveFile(o) == file' = [file EXCEPT ![o] = @ \ {row[o].path}]

\* Its OSError is swallowed: the deletion goes on and the file stays.
RemoveFails(o) ==
    /\ row[o].path \in file[o]
    /\ faults < MaxFaults
    /\ faults' = faults + 1
    /\ strayed' = strayed \cup {o}
    /\ UNCHANGED file

-----------------------------------------------------------------------------
(* The requests *)

\* create_overview: the INSERT is flushed, the task is submitted.
CreateOverview(r, o) ==
    /\ req[r] = Idle
    /\ row[o] = Absent /\ ~Busy(o)
    /\ req' = [req EXCEPT ![r] = [op |-> "create", overview |-> o, path |-> Null]]
    /\ Goto(o, "queued")
    /\ UNCHANGED <<row, file, faults, stranded, strayed>>

\* delete_overview: the file goes first, by the path that was read; the DELETE
\* is flushed by the commit of the session.
DeleteOverview(r, o) ==
    /\ req[r] = Idle
    /\ Exists(o)
    /\ req' = [req EXCEPT ![r] = [op |-> "delete", overview |-> o, path |-> row[o].path]]
    /\ \/ RemoveFile(o) /\ UNCHANGED <<faults, strayed>>
       \/ RemoveFails(o)
    /\ UNCHANGED <<row, task, stranded>>

Created == [status |-> "pending", path |-> Null]

Commit(r) ==
    LET o == req[r].overview
    IN  /\ req[r] # Idle
        /\ row' = [row EXCEPT ![o] = IF req[r].op = "create" THEN Created ELSE Deleted]
        /\ req' = [req EXCEPT ![r] = Idle]
        \* The path was read before the task stored it.
        /\ strayed' = IF req[r].op = "delete" /\ Exists(o) /\ row[o].path # req[r].path
                      THEN strayed \cup {o} ELSE strayed
        /\ UNCHANGED <<file, task, faults, stranded>>

\* The id of an overview that was not created is never used again.
RolledBack(rs) ==
    [o \in Overviews |-> IF \E r \in rs : req[r] # Idle /\ req[r].op = "create"
                                          /\ req[r].overview = o
                         THEN Deleted ELSE row[o]]

Unfiled(rs) == {o \in Overviews : \E r \in rs : req[r] # Idle /\ req[r].op = "delete"
                                                /\ req[r].overview = o /\ req[r].path # Null}

\* The commit fails: get_db rolls back, the file stays removed.
CommitFails(r) ==
    /\ req[r] # Idle
    /\ faults < MaxFaults
    /\ faults' = faults + 1
    /\ row' = RolledBack({r})
    /\ strayed' = strayed \cup Unfiled({r})
    /\ req' = [req EXCEPT ![r] = Idle]
    /\ UNCHANGED <<file, task, stranded>>

-----------------------------------------------------------------------------
(* _generate_async *)

\* The first session: the row is not there if it was deleted, or if the
\* request has not committed it yet.
MarkGenerating(o) ==
    /\ task[o].at = "queued"
    /\ IF Exists(o)
       THEN /\ row' = [row EXCEPT ![o].status = "generating"]
            /\ Goto(o, "content")
            /\ UNCHANGED stranded
       ELSE /\ Goto(o, "done")
            /\ MissUncommitted(o)
            /\ UNCHANGED row
    /\ UNCHANGED <<file, req, faults, strayed>>

\* As if a failed step just returned, for comparison.
AfterFailureNothing == "done"

\* A step without result returns, but through _mark_failed.
AfterFailure == "failing"

\* _fetch_source_content, _generate_script
Prepare(o) ==
    /\ \/ task[o].at = "content" /\ Goto(o, "script")
       \/ task[o].at = "script" /\ Goto(o, "qwen")
       \/ task[o].at \in {"content", "script"} /\ Goto(o, AfterFailure)
    /\ UNCHANGED <<row, file, req, faults, stranded, strayed>>

Write(o, format) == file' = [file EXCEPT ![o] = @ \cup {format}]

\* _synthesize_audio with Qwen3-TTS, and what follows its failure: edge-tts.
\* A file that fails half-way stays on disk.
SynthesizeQwen(o) ==
    /\ task[o].at = "qwen"
    /\ \/ Write(o, "wav") /\ task' = [task EXCEPT ![o] = [at |-> "save", audio |-> "wav"]]
                          /\ UNCHANGED strayed
       \/ UNCHANGED <<file, strayed>> /\ Goto(o, "edge")
       \/ Write(o, "wav") /\ Goto(o, "edge") /\ strayed' = strayed \cup {o}
    /\ UNCHANGED <<row, req, faults, stranded>>

SynthesizeEdge(o) ==
    /\ task[o].at = "edge"
    /\ \/ Write(o, "mp3") /\ task' = [task EXCEPT ![o] = [at |-> "save", audio |-> "mp3"]]
                          /\ UNCHANGED strayed
       \/ UNCHANGED <<file, strayed>> /\ Goto(o, AfterFailure)
       \/ Write(o, "mp3") /\ Goto(o, AfterFailure) /\ strayed' = strayed \cup {o}
    /\ UNCHANGED <<row, req, faults, stranded>>

\* The last session; a deleted overview leaves its file behind.
SaveResult(o) ==
    /\ task[o].at = "save"
    /\ IF Exists(o)
       THEN /\ row' = [row EXCEPT ![o] = [status |-> "ready", path |-> task[o].audio]]
            /\ UNCHANGED strayed
       ELSE /\ strayed' = strayed \cup {o}
            /\ UNCHANGED row
    /\ Goto(o, "done")
    /\ UNCHANGED <<file, req, faults, stranded>>

\* _mark_failed
MarkFailed(o) ==
    /\ task[o].at = "failing"
    /\ row' = IF Exists(o) THEN [row EXCEPT ![o].status = "failed"] ELSE row
    /\ Goto(o, "done")
    /\ MissUncommitted(o)
    /\ UNCHANGED <<file, req, faults, strayed>>

\* A session of the task fails.  _mark_failed swallows its own exceptions.
SessionFails(o) ==
    /\ task[o].at \in {"queued", "content", "save", "failing"}
    /\ faults < MaxFaults
    /\ faults' = faults + 1
    /\ Goto(o, IF task[o].at = "failing" THEN "done" ELSE AfterFailure)
    /\ stranded' = IF task[o].at = "failing" THEN stranded \cup {o} ELSE stranded
    /\ strayed' = IF task[o].at = "save" THEN strayed \cup {o} ELSE strayed
    /\ UNCHANGED <<row, file, req>>

\* The pool and its queue are in memory, and nothing resumes at the start.
Restart ==
    /\ faults < MaxFaults
    /\ faults' = faults + 1
    /\ row' = RolledBack(Requests)
    /\ stranded' = stranded \cup {o \in Overviews : Working(o)}
    /\ strayed' = strayed \cup Unfiled(Requests) \cup {o \in Overviews : task[o].at = "save"}
    /\ task' = [o \in Overviews |-> IF Working(o) THEN [task[o] EXCEPT !.at = "done"] ELSE task[o]]
    /\ req' = [r \in Requests |-> Idle]
    /\ UNCHANGED file

-----------------------------------------------------------------------------
TaskStep(o) ==
    \/ MarkGenerating(o) \/ Prepare(o)
    \/ SynthesizeQwen(o) \/ SynthesizeEdge(o)
    \/ SaveResult(o) \/ MarkFailed(o)

Next ==
    \/ \E r \in Requests :
          \/ \E o \in Overviews : CreateOverview(r, o) \/ DeleteOverview(r, o)
          \/ Commit(r) \/ CommitFails(r)
    \/ \E o \in Overviews : TaskStep(o) \/ SessionFails(o)
    \/ Restart

Spec == Init /\ [][Next]_vars

\* The pool runs what was submitted to it, and a request runs to its end.
Fairness ==
    /\ \A o \in Overviews : WF_vars(TaskStep(o))
    /\ \A r \in Requests : WF_vars(Commit(r))

FairSpec == Spec /\ Fairness

-----------------------------------------------------------------------------
(* Properties *)

\* Once neither a request nor its task works on an overview, its only file is
\* the one that its row names, and it is there if and only if the overview is
\* ready: unless a deletion read the path before the task stored it, could not
\* remove the file (delete_overview deletes the row all the same) or rolled
\* back, or a synthesis or a session failed after a file was begun.
FilesFollowRow ==
    /\ TypeOK
    /\ \A o \in Overviews : ~Busy(o) /\ ~Working(o) /\ o \notin strayed =>
          /\ file[o] = IF Exists(o) /\ row[o].status = "ready" THEN {row[o].path} ELSE {}
          /\ Exists(o) => (row[o].status = "ready") = (row[o].path # Null)

\* The client is told to poll until an overview is ready or failed.  It gets
\* there, or is deleted, unless the task ran before the request had committed
\* the row, a restart took the task, or the failure could not be stored.
Waiting(o) == Exists(o) /\ row[o].status \in {"pending", "generating"}
GenerationEnds == \A o \in Overviews : Waiting(o) ~> ~Waiting(o) \/ o \in stranded
=============================================================================
