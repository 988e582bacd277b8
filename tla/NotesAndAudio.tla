---------------------------- MODULE NotesAndAudio ----------------------------
(***************************************************************************)
(* Two kinds of rows that have a file on disk: notes and audio overviews.  *)
(* They share neither transactions nor locks, so that steps of the two     *)
(* commute and a behaviour exercises one of them.                          *)
(***************************************************************************)
EXTENDS Notes

CONSTANT Overviews

VARIABLES kind, overview, audioFile, task, audioReq, stranded, audioStrayed

Overview == INSTANCE Audio
    WITH row <- overview, file <- audioFile, req <- audioReq, strayed <- audioStrayed

ASSUME AudioAssumed == Overview!AudioAssumption

audioVars == <<overview, audioFile, task, audioReq, stranded, audioStrayed>>
noteVars == <<row, holder, links, file, vector, jobs, req, calls, strayed>>

-----------------------------------------------------------------------------
(* One kind at a time; the counter of faults is common *)

BothInit == kind \in {"note", "overview"} /\ Init /\ Overview!Init

BothNext ==
    /\ \/ kind = "note" /\ Next /\ UNCHANGED audioVars
       \/ kind = "overview" /\ Overview!Next /\ UNCHANGED noteVars
    /\ UNCHANGED kind

\* A task or request of the kind that is not exercised is never enabled.
BothSpec ==
    /\ BothInit /\ [][BothNext]_<<kind, vars, audioVars>>
    /\ \A r \in Requests : SF_vars(RequestStep(r))
    /\ Overview!Fairness

-----------------------------------------------------------------------------
(* The properties of the instance, under the names the run gives them *)

\* Audio: once no request works on an overview, its files are those its row names.
FilesFollowRow == Overview!FilesFollowRow

\* Audio: a generation ends with a verdict, unless its task was lost.
GenerationEnds == Overview!GenerationEnds
=============================================================================
