------------------------------ MODULE Knowledge ------------------------------
(***************************************************************************)
(* Documents of the knowledge base, the XP that uploads and chat messages  *)
(* earn, and the event loop that serves the requests of both.              *)
(*                                                                         *)
(* A document has a row in PostgreSQL and its chunks in Qdrant.  The row   *)
(* is visible when get_db commits, after the response; vectors are visible *)
(* at once.  An upload works in the thread pool, but starts and commits    *)
(* through the event loop; a chat prepares its turn, the award included,   *)
(* in the coroutine itself, and commits once its stream has been sent.     *)
(*                                                                         *)
(* One user; XP is the set of the awards it adds up.  A document is        *)
(* deleted by one request at a time (a second one would find nothing).     *)
(***************************************************************************)
EXTENDS Integers, FiniteSets

CONSTANTS Docs,        \* documents; each is uploaded once
          Chats,       \* chat requests of the user
          Formats,     \* the formats of the uploads
          MaxBatches,  \* bound: batches of chunks of a document
          MaxFaults,   \* bound: failed statements and restarts
          Absent, Deleted, Null

VARIABLES row,      \* the committed documents
          vectors,  \* the batches of each document in Qdrant
          profile,  \* the committed XP of the user, Null without a profile
          req,      \* the request that uploads a document or chats
          deletion, \* the step of the deletion of each document
          loop,     \* the chat that runs on the event loop, or Null
          faults,
          awarded,  \* history: the awards that were committed
          crossed,  \* history: those committed after another award had read
          strayed   \* history: documents whose vectors a failure left behind

vars == <<row, vectors, profile, req, deletion, loop, faults,
          awarded, crossed, strayed>>

Awards == Docs \cup Chats
Routes == {"upload", "url"}

\* A file without text is an error in these formats ...
Strict == {"txt", "md", "json", "csv"}
\* ... and a document without chunks in these.
Lenient == {"html", "pdf", "docx"}

\* Other requests see no document that is still being processed.
Document == [status : {"ready", "error"}, chunks : 0..MaxBatches]

ASSUME KnowledgeAssumption ==
    /\ MaxBatches \in Nat /\ MaxFaults \in Nat
    /\ Docs \cap Chats = {} /\ Null \notin Awards
    /\ \A S \in SUBSET Awards : S # Null
    /\ Formats \subseteq Strict \cup Lenient
    /\ {Absent, Deleted} \cap Document = {} /\ Absent # Deleted

Running == {"ingest", "read", "insert", "update", "commit"}
Request == [pc     : Running \cup {"idle", "done"},
            via    : Routes \cup {Null},
            form   : Formats \cup {Null},
            doc    : Document \cup {Null},          \* the row to commit
            xp     : (SUBSET Awards) \cup {Null},   \* profile.xp in its session
            broken : BOOLEAN]                       \* its flush has failed

Idle == [pc |-> "idle", via |-> Null, form |-> Null, doc |-> Null, xp |-> Null, broken |-> FALSE]
Done == [Idle EXCEPT !.pc = "done"]

Init ==
    /\ row = [d \in Docs |-> Absent]
    /\ vectors = [d \in Docs |-> 0]
    /\ profile \in {Null, {}}
    /\ req = [x \in Awards |-> Idle]
    /\ deletion = [d \in Docs |-> "none"]
    /\ loop = Null
    /\ faults = 0 /\ awarded = {} /\ crossed = {} /\ strayed = {}

-----------------------------------------------------------------------------
(* Helpers *)

Busy(x) == req[x].pc \in Running
Exists(d) == row[d] \in Document

\* The UPDATE or INSERT of the award was flushed and is not committed.
HoldsProfile(x) == req[x].pc = "commit" /\ req[x].xp # Null
ProfileFree(x) == \A y \in Awards \ {x} : ~HoldsProfile(y)

TypeOK ==
    /\ row \in [Docs -> Document \cup {Absent, Deleted}]
    /\ vectors \in [Docs -> 0..MaxBatches]
    /\ profile \in (SUBSET Awards) \cup {Null}
    /\ req \in [Awards -> Request]
    /\ deletion \in [Docs -> {"none", "purge", "commit"}]
    /\ loop \in Chats \cup {Null}
    /\ \A x \in Awards : HoldsProfile(x) => ProfileFree(x)
    /\ faults \in 0..MaxFaults
    /\ awarded \in SUBSET Awards /\ crossed \in SUBSET Awards
    /\ strayed \in SUBSET Docs

Fault == faults < MaxFaults /\ faults' = faults + 1

-----------------------------------------------------------------------------
(* Uploads: upload_document, ingest_url *)

\* create_document: the INSERT is flushed.
Upload(d, via, form) ==
    /\ loop = Null
    /\ req[d].pc = "idle"
    /\ req' = [req EXCEPT ![d] = [Idle EXCEPT !.pc = "ingest", !.via = via, !.form = form]]
    /\ UNCHANGED <<row, vectors, profile, deletion, loop, faults, awarded, crossed, strayed>>

\* add_document: the vectors of a batch are in the store at once.
AddBatch(d) ==
    /\ req[d].pc = "ingest"
    /\ vectors[d] < MaxBatches
    /\ vectors' = [vectors EXCEPT ![d] = @ + 1]
    /\ UNCHANGED <<row, profile, req, deletion, loop, faults, awarded, crossed, strayed>>

Ready(chunks) == [status |-> "ready", chunks |-> chunks]
Failed == [status |-> "error", chunks |-> 0]
Failing == [Idle EXCEPT !.pc = "commit", !.doc = Failed]

\* Without chunks an upload is ready, a URL is not.
Accepts(d) == vectors[d] > 0 \/ req[d].via = "upload"

\* mark_ready, and on to award_xp; a document that failed earns nothing.
Ingested(d) ==
    /\ req[d].pc = "ingest"
    /\ vectors[d] > 0 \/ req[d].form \in Lenient
    /\ req' = [req EXCEPT ![d] = IF Accepts(d)
                                 THEN [Idle EXCEPT !.pc = "read", !.doc = Ready(vectors[d])]
                                 ELSE Failing]
    /\ UNCHANGED <<row, vectors, profile, deletion, loop, faults, awarded, crossed, strayed>>

\* mark_error: the batches that were added stay.
IngestFails(d) ==
    /\ req[d].pc = "ingest"
    /\ req' = [req EXCEPT ![d] = Failing]
    /\ strayed' = IF vectors[d] > 0 THEN strayed \cup {d} ELSE strayed
    /\ UNCHANGED <<row, vectors, profile, deletion, loop, faults, awarded, crossed>>

-----------------------------------------------------------------------------
(* Chats: chat_stream calls prepare_chat in the coroutine *)

StartChat(c) ==
    /\ loop = Null
    /\ req[c].pc = "idle"
    /\ loop' = c
    /\ req' = [req EXCEPT ![c].pc = "read"]
    /\ UNCHANGED <<row, vectors, profile, deletion, faults, awarded, crossed, strayed>>

\* As if the stream ran on the event loop, for comparison.
LoopKept(x) == loop

\* The stream runs in the thread pool.
LoopAfter(x) == IF loop = x THEN Null ELSE loop

-----------------------------------------------------------------------------
(* award_xp, in the session of the request *)

\* find_by_user: a plain SELECT.
ReadProfile(x) ==
    /\ req[x].pc = "read"
    /\ req' = [req EXCEPT ![x].pc = IF profile = Null THEN "insert" ELSE "update",
                          ![x].xp = IF profile = Null THEN {} ELSE profile]
    /\ UNCHANGED <<row, vectors, profile, deletion, loop, faults, awarded, crossed, strayed>>

\* As if an award replaced what was there, for comparison.
RaisedFromZero(xp, x) == {x}

Raised(xp, x) == xp \cup {x}

\* profile.xp = old_xp + amount, flushed: PostgreSQL gives the row, or the
\* unique key of a new profile, to one transaction.
Award(x) ==
    /\ req[x].pc \in {"insert", "update"}
    /\ ProfileFree(x)
    /\ req[x].pc = "insert" => profile = Null
    /\ req' = [req EXCEPT ![x].pc = "commit", ![x].xp = Raised(@, x)]
    /\ loop' = LoopAfter(x)
    /\ UNCHANGED <<row, vectors, profile, deletion, faults, awarded, crossed, strayed>>

\* The exception is swallowed, but the session takes no more statements.
AwardBreaks(x) ==
    /\ req[x].pc \in {"insert", "update"}
    /\ ProfileFree(x)
    /\ \/ req[x].pc = "insert" /\ profile # Null /\ UNCHANGED faults
       \/ Fault
    /\ req' = [req EXCEPT ![x].pc = "commit", ![x].xp = Null, ![x].broken = TRUE]
    /\ loop' = LoopAfter(x)
    /\ UNCHANGED <<row, vectors, profile, deletion, awarded, crossed, strayed>>

-----------------------------------------------------------------------------
(* get_db, after the response *)

\* A document that was not committed leaves no row.
RolledBack(xs) == [d \in Docs |-> IF d \in xs THEN Deleted ELSE row[d]]

\* Awards that will overwrite the profile with an older value.
Stale == {x \in Awards : req[x].pc = "update"}

Commit(x) ==
    /\ req[x].pc = "commit" /\ ~req[x].broken
    /\ loop = Null
    /\ row' = IF x \in Docs THEN [row EXCEPT ![x] = req[x].doc] ELSE row
    /\ IF req[x].xp = Null
       THEN UNCHANGED <<profile, awarded, crossed>>
       ELSE /\ profile' = req[x].xp
            /\ awarded' = awarded \cup {x}
            /\ crossed' = IF Stale # {} THEN crossed \cup {x} ELSE crossed
    /\ req' = [req EXCEPT ![x] = Done]
    /\ UNCHANGED <<vectors, deletion, loop, faults, strayed>>

\* A broken session, a commit that fails, or a chat in the mode sql of a user
\* who is no admin, which is refused after its award.
RollBack(x) ==
    /\ req[x].pc = "commit"
    /\ loop = Null
    /\ \/ (req[x].broken \/ x \in Chats) /\ UNCHANGED faults
       \/ Fault
    /\ row' = RolledBack({x})
    /\ req' = [req EXCEPT ![x] = Done]
    /\ strayed' = IF x \in Docs THEN strayed \cup {x} ELSE strayed
    /\ UNCHANGED <<vectors, profile, deletion, loop, awarded, crossed>>

-----------------------------------------------------------------------------
(* delete_document *)

\* The DELETE is flushed.
DeleteDocument(d) ==
    /\ loop = Null
    /\ Exists(d) /\ deletion[d] = "none"
    /\ deletion' = [deletion EXCEPT ![d] = "purge"]
    /\ UNCHANGED <<row, vectors, profile, req, loop, faults, awarded, crossed, strayed>>

\* The payload of a chunk: QdrantVectorStore, given no other keys, puts the text
\* under the one and all of the chunk's metadata, document_id too, under the other.
PayloadKeys == {"page_content", "metadata"}

\* As if the filter named the key where the metadata is: the vectors would be
\* gone before the row is, for comparison.
MatchesMetadata(d) == 0

\* delete_document_vectors deletes the points with a payload key document_id of
\* that value: what is left of the document.
Purged(d) == IF "document_id" \in PayloadKeys THEN 0 ELSE vectors[d]

PurgeVectors(d) ==
    /\ deletion[d] = "purge"
    /\ vectors' = [vectors EXCEPT ![d] = Purged(d)]
    /\ deletion' = [deletion EXCEPT ![d] = "commit"]
    /\ UNCHANGED <<row, profile, req, loop, faults, awarded, crossed, strayed>>

\* The exception is logged, and the row goes all the same.
PurgeFails(d) ==
    /\ deletion[d] = "purge"
    /\ Fault
    /\ strayed' = strayed \cup {d}
    /\ deletion' = [deletion EXCEPT ![d] = "commit"]
    /\ UNCHANGED <<row, vectors, profile, req, loop, awarded, crossed>>

CommitDelete(d) ==
    /\ deletion[d] = "commit"
    /\ loop = Null
    /\ row' = [row EXCEPT ![d] = Deleted]
    /\ deletion' = [deletion EXCEPT ![d] = "none"]
    /\ UNCHANGED <<vectors, profile, req, loop, faults, awarded, crossed, strayed>>

\* The row stays, with the vectors that the purge left it.
CommitDeleteFails(d) ==
    /\ deletion[d] = "commit"
    /\ loop = Null
    /\ Fault
    /\ deletion' = [deletion EXCEPT ![d] = "none"]
    /\ UNCHANGED <<row, vectors, profile, req, loop, awarded, crossed, strayed>>

\* Nothing resumes: what was not committed is gone, the vectors stay as they are.
Restart ==
    /\ Fault
    /\ row' = RolledBack({d \in Docs : Busy(d)})
    /\ strayed' = strayed \cup {d \in Docs : Busy(d)}
    /\ req' = [x \in Awards |-> IF Busy(x) THEN Done ELSE req[x]]
    /\ deletion' = [d \in Docs |-> "none"]
    /\ loop' = Null
    /\ UNCHANGED <<vectors, profile, awarded, crossed>>

-----------------------------------------------------------------------------
RequestStep(x) ==
    \/ x \in Docs /\ (AddBatch(x) \/ Ingested(x) \/ IngestFails(x))
    \/ ReadProfile(x) \/ Award(x) \/ AwardBreaks(x)
    \/ Commit(x) \/ RollBack(x)

DeletionStep(d) ==
    \/ PurgeVectors(d) \/ PurgeFails(d)
    \/ CommitDelete(d) \/ CommitDeleteFails(d)

Next ==
    \/ \E d \in Docs, via \in Routes, form \in Formats : Upload(d, via, form)
    \/ \E c \in Chats : StartChat(c)
    \/ \E x \in Awards : RequestStep(x)
    \/ \E d \in Docs : DeleteDocument(d) \/ DeletionStep(d)
    \/ Restart

Spec == Init /\ [][Next]_vars

\* The event loop serves its callbacks in turn, PostgreSQL the waiters of a
\* lock, and the pool what was submitted to it.
FairSpec ==
    /\ Spec
    /\ \A x \in Awards : SF_vars(RequestStep(x))
    /\ \A d \in Docs : SF_vars(DeletionStep(d))

-----------------------------------------------------------------------------
(* Properties *)

\* The coroutine waits for a row whose holder commits through the event loop:
\* only a restart ends this.
Blocked ==
    /\ loop # Null
    /\ req[loop].pc \in {"insert", "update"}
    /\ ~ProfileFree(loop)

\* While a document has a row and no request works on it, the store has exactly
\* the chunks that the row counts if it is ready, and none if it failed, unless
\* its ingestion broke off between two batches: uploads whose transaction comes
\* later than their vectors, and deletions that fail after their purge, leave the
\* two together.  A document without a row has no chunks before its upload; what
\* its deletion or a roll-back of its row leaves in the store is not claimed gone.
VectorsFollowRow ==
    \A d \in Docs : ~Busy(d) /\ deletion[d] = "none" /\ row[d] # Deleted /\ d \notin strayed =>
        vectors[d] = IF Exists(d) /\ row[d].status = "ready" THEN row[d].chunks ELSE 0

\* The profile counts every award that was committed, and no other, except
\* that one which was committed after a second award had read the profile may
\* be overwritten by the second: award_xp takes no lock for its read.
XpExact ==
    LET counted == IF profile = Null THEN {} ELSE profile
    IN  awarded \ crossed \subseteq counted /\ counted \subseteq awarded

\* Every upload, chat and deletion ends, in whatever order their transactions
\* wait for the profile and for the event loop, unless the loop itself waits.
RequestsSettle ==
    /\ \A x \in Awards : Busy(x) ~> ~Busy(x) \/ Blocked
    /\ \A d \in Docs : deletion[d] # "none" ~> deletion[d] = "none" \/ Blocked

\* CODEBASE_UNDERSTAND.md says that the server offloads heavy or synchronous
\* work "without blocking the main event loop": the loop never waits for a row
\* lock that only it can release.
LoopNeverWaits == ~Blocked
=============================================================================
