-------------------------------- MODULE Notes --------------------------------
(***************************************************************************)
(* NoteService and NoteLinkService.sync_links_from_content with their two  *)
(* callers, the REST endpoints and the agent's tools.  A note lives in its *)
(* row, in a Markdown file, in the links parsed from its content and in an *)
(* embedding of Qdrant.  The file is written before the transaction        *)
(* commits, and the embedding by a task of the thread pool, from values    *)
(* that were captured before the commit; neither is ever rolled back.      *)
(***************************************************************************)
EXTENDS Integers, Sequences, FiniteSets

CONSTANTS NoteIds, Requests,
          Urls,        \* the URLs that a content may link to
          Contents,    \* the texts of notes; Blank is the one without letters
          Blank,
          LinksOf,     \* extract_links: the link texts of a content
          Calls,       \* bound: the calls that clients and the agent make
          MaxCalls,    \* bound: how many
          MaxCopies,   \* bound: link rows of one note with the same text
          MaxFaults,   \* bound: failed requests, failed tasks and restarts
          Absent, Deleted, Null

VARIABLES row,     \* the committed notes
          holder,  \* the request that holds the row lock
          links,   \* the committed link rows
          file,    \* the text of each note on disk, or Null
          vector,  \* the text that is embedded for each note, or Null
          jobs,    \* the embedding tasks of the thread pool
          req,     \* the request in progress in each slot
          calls, faults,
          strayed  \* history: the copies of a note that a known race has skewed

dbVars == <<row, holder, links>>
vars == <<row, holder, links, file, vector, jobs, req, calls, faults, strayed>>

\* [[title of n]] is written n; a note has its own title, or none.
LinkTexts == NoteIds \cup Urls
Note == [titled : BOOLEAN, content : Contents, pinned : BOOLEAN, done : BOOLEAN]
Columns == {"titled", "content", "pinned", "done"}
Link == [from : NoteIds, text : LinkTexts, target : NoteIds \cup {Null}, copy : 1..MaxCopies]

\* What is embedded: the title and the content.
Text == [titled : BOOLEAN, content : Contents]
Job == [note : NoteIds, text : Text \cup {Null}]

\* Null is a field that is not given; pinned stands for is_important too, and
\* done for the state of one todo.
Call ==      [op : {"create"}, via : {"rest", "tool"}, titled : BOOLEAN, content : Contents]
        \cup [op : {"update"}, via : {"rest", "tool"}, titled : BOOLEAN \cup {Null},
              content : Contents \cup {Null}, pinned : BOOLEAN \cup {Null}]
        \cup [op : {"toggle", "delete"}]

ASSUME NotesAssumption ==
    /\ Blank \in Contents
    /\ LinksOf \in [Contents -> SUBSET LinkTexts]
    /\ LinksOf[Blank] = {}
    /\ NoteIds \cap Urls = {}
    /\ Calls \subseteq Call
    /\ {MaxCalls, MaxCopies, MaxFaults} \subseteq Nat /\ MaxCalls <= MaxCopies
    /\ Null \notin NoteIds \cup Requests /\ Null \notin Contents /\ Null \notin BOOLEAN
    /\ Null \notin Text
    /\ {Absent, Deleted} \cap Note = {} /\ Absent # Deleted

Idle == [pc |-> "idle"]
Busy == [pc : {"loaded", "saved", "synced"}, call : Calls, note : NoteIds,
         seen : Note \cup {Absent}, new : Note \cup {Deleted},
         add : SUBSET Link, drop : SUBSET Link]

TypeOK ==
    /\ row \in [NoteIds -> Note \cup {Absent, Deleted}]
    /\ holder \in [NoteIds -> Requests \cup {Null}]
    /\ links \subseteq Link
    /\ file \in [NoteIds -> Contents \cup {Null}]
    /\ vector \in [NoteIds -> Text \cup {Null}]
    /\ jobs \in Seq(Job)
    /\ req \in [Requests -> Busy \cup {Idle}]
    /\ calls \in 0..MaxCalls /\ faults \in 0..MaxFaults
    /\ strayed \in [NoteIds -> SUBSET {"file", "vector", "links"}]
    /\ \A n \in NoteIds : holder[n] # Null => /\ req[holder[n]] # Idle
                                              /\ req[holder[n]].note = n

Init ==
    /\ row = [n \in NoteIds |-> Absent]
    /\ holder = [n \in NoteIds |-> Null]
    /\ links = {}
    /\ file = [n \in NoteIds |-> Null]
    /\ vector = [n \in NoteIds |-> Null]
    /\ jobs = <<>>
    /\ req = [r \in Requests |-> Idle]
    /\ calls = 0 /\ faults = 0
    /\ strayed = [n \in NoteIds |-> {}]

-----------------------------------------------------------------------------
(* Helpers *)

Exists(n) == row[n] \in Note

Stray(n, copies) == strayed' = [strayed EXCEPT ![n] = @ \cup copies]

\* The columns of the UPDATE: those whose value differs from the loaded one.
Written(q) ==
    IF q.seen = Absent \/ q.new = Deleted THEN Columns
    ELSE {c \in Columns : q.new[c] # q.seen[c]}

\* The object holds a value of one of these columns that another request has
\* replaced, or is about to replace, and that its own UPDATE does not write.
Stale(r, columns) ==
    LET q == req[r]
    IN  \E c \in columns \ Written(q) :
            \/ holder[q.note] \notin {Null, r}
            \/ ~Exists(q.note)
            \/ row[q.note][c] # q.seen[c]

TextOf(note) == [titled |-> note.titled, content |-> note.content]

\* _embed_note_async, _delete_note_embedding_async
Queue(n, text) == jobs' = Append(jobs, [note |-> n, text |-> text])

\* _save_note_to_disk
SaveFile(n, content) == file' = [file EXCEPT ![n] = content]

\* _delete_note_from_disk
RemoveFile(n) == file' = [file EXCEPT ![n] = Null]

Deleting(n, r) == \E q \in Requests \ {r} : req[q] # Idle /\ req[q].note = n /\ req[q].new = Deleted

Begin(r, n, c, pc, seen, new) ==
    /\ req[r] = Idle
    /\ calls < MaxCalls
    /\ calls' = calls + 1
    /\ req' = [req EXCEPT ![r] = [pc |-> pc, call |-> c, note |-> n, seen |-> seen,
                                  new |-> new, add |-> {}, drop |-> {}]]

-----------------------------------------------------------------------------
(* NoteService *)

\* create_note up to the file: the INSERT, flushed and visible to no other.
CreateNote(r, n, c) ==
    /\ c.op = "create"
    /\ row[n] = Absent
    /\ \A q \in Requests : req[q] # Idle => req[q].note # n
    /\ Begin(r, n, c, "saved", Absent,
             [titled |-> c.titled, content |-> c.content, pinned |-> FALSE, done |-> FALSE])
    /\ holder' = [holder EXCEPT ![n] = r]
    /\ SaveFile(n, c.content)
    /\ UNCHANGED <<row, links, vector, jobs, faults, strayed>>

Given(value, old) == IF value = Null THEN old ELSE value

\* The tool passes every field, and so also those it was not given.
Edited(old, c) ==
    [old EXCEPT !.content = Given(c.content, @), !.pinned = Given(c.pinned, @),
                !.titled = Given(c.titled, IF c.via = "tool" THEN FALSE ELSE @)]

\* update_note: find_by_id, without a lock, and the assignments.
LoadNote(r, n, c) ==
    /\ c.op = "update"
    /\ Exists(n)
    /\ Begin(r, n, c, "loaded", row[n], Edited(row[n], c))
    /\ UNCHANGED <<dbVars, file, vector, jobs, faults, strayed>>

\* content, pinned and is_important are NOT NULL.
NullWritten(c) == c.via = "tool" /\ Null \in {c.content, c.pinned}

\* The flush, with the row lock if a column has changed, and the file.
FlushNote(r) ==
    LET q == req[r]
        n == q.note
    IN  /\ q.pc = "loaded"
        /\ ~NullWritten(q.call)
        /\ Written(q) # {} => holder[n] = Null /\ Exists(n)
        /\ holder' = IF Written(q) # {} THEN [holder EXCEPT ![n] = r] ELSE holder
        /\ SaveFile(n, q.new.content)
        /\ IF Stale(r, {"content"}) THEN Stray(n, {"file"}) ELSE UNCHANGED strayed
        /\ req' = [req EXCEPT ![r].pc = "saved"]
        /\ UNCHANGED <<row, links, vector, jobs, calls, faults>>

\* toggle_todo: FOR UPDATE.  The list is copied, its dictionaries are not: the
\* value that the session remembers as the loaded one changes along with it.
ToggleTodo(r, n, c) ==
    LET toggled == [row[n] EXCEPT !.done = ~@]
    IN  /\ c.op = "toggle"
        /\ Exists(n)
        /\ holder[n] = Null
        /\ Begin(r, n, c, "synced", toggled, toggled)
        /\ holder' = [holder EXCEPT ![n] = r]
        /\ UNCHANGED <<row, links, file, vector, jobs, faults, strayed>>

\* delete_note: the DELETE waits for the row lock and for the transactions
\* that have inserted a link from or to the note (their foreign keys).
DeleteNote(r, n, c) ==
    /\ c.op = "delete"
    /\ Exists(n)
    /\ holder[n] = Null
    /\ \A q \in Requests : req[q] # Idle =>
          \A l \in req[q].add : n \notin {l.from, l.target}
    /\ Begin(r, n, c, "synced", row[n], Deleted)
    /\ holder' = [holder EXCEPT ![n] = r]
    /\ RemoveFile(n)
    /\ Queue(n, Null)
    /\ UNCHANGED <<row, links, vector, faults, strayed>>

-----------------------------------------------------------------------------
(* NoteLinkService.sync_links_from_content *)

Existing(n) == {l \in links : l.from = n}

\* A link by title is parsed without the id of its target.
Fingerprint(l) == <<l.text, l.target>>
ParsedFingerprints(content) == {<<t, Null>> : t \in LinksOf[content]}

\* As if the links that exist were created again, for comparison.
CreateAll(n, content) == LinksOf[content]

ToCreate(n, content) == {t \in LinksOf[content] : \A l \in Existing(n) : Fingerprint(l) # <<t, Null>>}

\* Rows with equal fingerprints share one entry of the dictionary, so that one
\* of them is deleted.  A content without links deletes all.
MayDrop(n, content, S) ==
    IF LinksOf[content] = {} THEN S = Existing(n)
    ELSE LET old == {l \in Existing(n) : Fingerprint(l) \notin ParsedFingerprints(content)}
         IN  /\ S \subseteq old
             /\ {Fingerprint(l) : l \in S} = {Fingerprint(l) : l \in old}
             /\ \A l, k \in S : Fingerprint(l) = Fingerprint(k) => l = k

\* _resolve_note_by_title: a titled note this session can see.
Resolved(q, t) ==
    IF \/ t = q.note /\ q.new.titled
       \/ t \in NoteIds \ {q.note} /\ Exists(t) /\ row[t].titled
    THEN t ELSE Null

UsedCopies(n, t) ==
    {l.copy : l \in {k \in links \cup UNION {req[q].add \cup req[q].drop :
                                             q \in {p \in Requests : req[p] # Idle}} :
                     k.from = n /\ k.text = t}}

NewLinks(q) ==
    {l \in [from : {q.note}, text : ToCreate(q.note, q.new.content),
            target : NoteIds \cup {Null}, copy : 1..MaxCopies] :
        /\ l.target = Resolved(q, l.text)
        /\ l.copy \notin UsedCopies(q.note, l.text)
        /\ \A k \in 1..l.copy - 1 : k \in UsedCopies(q.note, l.text)}

\* The tools build their link service without its second argument, and the
\* TypeError leaves them without one; an update syncs if content was sent.
Syncs(q) == q.call.via = "rest" /\ q.call.content # Null

\* A transaction in progress has synced the links of the same note.
Overlapped(r) ==
    \E q \in Requests \ {r} : /\ req[q] # Idle
                              /\ req[q].note = req[r].note
                              /\ req[q].add \cup req[q].drop # {}

Touched(S) == {l.from : l \in S} \cup ({l.target : l \in S} \ {Null})

\* The INSERT of a link takes a key share lock on the notes it refers to.
LinksFit(r, add) ==
    LET q == req[r]
    IN  \A n \in Touched(add) : ~Deleting(n, r) /\ (n # q.note \/ q.seen = Absent \/ Exists(n))

\* _sync_links and _embed_note_async
SyncAndEmbed(r) ==
    LET q == req[r]
        skewed == (IF Stale(r, {"content", "titled"}) THEN {"vector"} ELSE {})
                  \cup (IF Stale(r, {"content"}) THEN {"links"} ELSE {})
    IN  /\ q.pc = "saved"
        /\ Queue(q.note, TextOf(q.new))
        /\ IF Syncs(q)
           THEN /\ LinksFit(r, NewLinks(q))
                /\ \E S \in SUBSET Existing(q.note) :
                      /\ MayDrop(q.note, q.new.content, S)
                      /\ req' = [req EXCEPT ![r].pc = "synced", ![r].add = NewLinks(q), ![r].drop = S]
                /\ Stray(q.note, skewed \cup (IF Overlapped(r) THEN {"links"} ELSE {}))
           ELSE /\ req' = [req EXCEPT ![r].pc = "synced"]
                /\ Stray(q.note, skewed \cup (IF q.call.via = "tool" /\ "content" \in Written(q)
                                              THEN {"links"} ELSE {}))
        /\ UNCHANGED <<dbVars, file, vector, calls, faults>>

-----------------------------------------------------------------------------
(* The end of a request *)

\* As if the end of a request released no row, for comparison.
EndedKeepsLock(r) == req' = [req EXCEPT ![r] = Idle] /\ UNCHANGED holder

Ended(r) ==
    /\ req' = [req EXCEPT ![r] = Idle]
    /\ holder' = [n \in NoteIds |-> IF holder[n] = r THEN Null ELSE holder[n]]

Merged(now, q) == [c \in Columns |-> IF c \in Written(q) THEN q.new[c] ELSE now[c]]

SameRow(l, k) == l.from = k.from /\ l.text = k.text /\ l.copy = k.copy

\* CASCADE for the links of a deleted note, SET NULL for the links to it.
Unlinked(S, n) ==
    {IF l.target = n THEN [l EXCEPT !.target = Null] ELSE l : l \in {k \in S : k.from # n}}

Commit(r) ==
    LET q == req[r]
        n == q.note
    IN  /\ q.pc = "synced"
        /\ row' = [row EXCEPT ![n] = IF q.seen = Absent \/ q.new = Deleted THEN q.new
                                     ELSE IF Written(q) = {} THEN @ ELSE Merged(@, q)]
        /\ links' = IF q.new = Deleted THEN Unlinked(links, n)
                    ELSE {l \in links : \A k \in q.drop : ~SameRow(l, k)} \cup q.add
        /\ Ended(r)
        /\ UNCHANGED <<file, vector, jobs, calls, faults, strayed>>

\* What a rollback leaves behind.
LeftOver(q) ==
    CASE q.call.op = "toggle" \/ q.pc = "loaded" -> {}
      [] q.pc = "saved" -> {"file"}
      [] OTHER -> {"file", "vector"}

\* The id of a note that was not created is never used again.
RolledBack(q) == IF q.seen = Absent THEN [row EXCEPT ![q.note] = Deleted] ELSE row

RollBack(r) ==
    /\ Ended(r)
    /\ row' = RolledBack(req[r])
    /\ UNCHANGED <<links, file, vector, calls>>

\* IntegrityError, or an UPDATE that finds no row: StaleDataError.
FlushFails(r) ==
    /\ req[r].pc = "loaded"
    /\ \/ NullWritten(req[r].call)
       \/ Written(req[r]) # {} /\ row[req[r].note] = Deleted
    /\ RollBack(r)
    /\ UNCHANGED <<jobs, faults, strayed>>

\* The INSERT of a link waited for the transaction that was deleting one of its
\* notes, or found its own note gone.  The error is swallowed, the session
\* stays broken: the next use of an object raises, or the commit does, after
\* the embedding of a new note has been queued.
SyncFails(r) ==
    LET q == req[r]
    IN  /\ q.pc = "saved"
        /\ Syncs(q)
        /\ ~LinksFit(r, NewLinks(q))
        /\ RollBack(r)
        /\ Stray(q.note, {"file", "vector"})
        /\ \/ UNCHANGED jobs
           \/ q.seen = Absent /\ Queue(q.note, TextOf(q.new))
        /\ UNCHANGED faults

\* A statement or the commit fails.
Fail(r) ==
    /\ req[r] # Idle
    /\ faults < MaxFaults
    /\ faults' = faults + 1
    /\ RollBack(r)
    /\ Stray(req[r].note, LeftOver(req[r]))
    /\ UNCHANGED jobs

-----------------------------------------------------------------------------
(* The tasks of the thread pool, in whatever order they end. *)

Without(i) == SubSeq(jobs, 1, i - 1) \o SubSeq(jobs, i + 1, Len(jobs))

\* upsert_note embeds no blank text.
Embedded(text) == IF ~text.titled /\ text.content = Blank THEN Null ELSE text

\* upsert_note, delete_note
RunJob(i) ==
    LET n == jobs[i].note
        text == jobs[i].text
        skipped == text # Null /\ Embedded(text) = Null
        overtakes == \E j \in 1..i - 1 : jobs[j].note = n
    IN  /\ vector' = IF skipped THEN vector ELSE [vector EXCEPT ![n] = text]
        /\ IF overtakes \/ (skipped /\ vector[n] # Null)
           THEN Stray(n, {"vector"}) ELSE UNCHANGED strayed
        /\ jobs' = Without(i)
        /\ UNCHANGED <<dbVars, file, req, calls, faults>>

\* Qdrant or the embedding model fails: a warning in the log.
JobFails(i) ==
    /\ faults < MaxFaults
    /\ faults' = faults + 1
    /\ Stray(jobs[i].note, {"vector"})
    /\ jobs' = Without(i)
    /\ UNCHANGED <<dbVars, file, vector, req, calls>>

Pending(n) == \E i \in 1..Len(jobs) : jobs[i].note = n

\* What the end of the process skews.
Lost(n) ==
    (UNION {LeftOver(req[r]) : r \in {q \in Requests : req[q] # Idle /\ req[q].note = n}})
        \cup (IF Pending(n) THEN {"vector"} ELSE {})

Restart ==
    LET cut == {r \in Requests : req[r] # Idle}
    IN  /\ faults < MaxFaults
        /\ faults' = faults + 1
        /\ req' = [r \in Requests |-> Idle]
        /\ holder' = [n \in NoteIds |-> Null]
        /\ jobs' = <<>>
        /\ row' = [n \in NoteIds |-> IF \E r \in cut : req[r].note = n /\ req[r].seen = Absent
                                     THEN Deleted ELSE row[n]]
        /\ strayed' = [n \in NoteIds |-> strayed[n] \cup Lost(n)]
        /\ UNCHANGED <<links, file, vector, calls>>

-----------------------------------------------------------------------------
RequestStep(r) ==
    FlushNote(r) \/ FlushFails(r) \/ SyncAndEmbed(r) \/ SyncFails(r) \/ Commit(r)

Start(r, n, c) == CreateNote(r, n, c) \/ LoadNote(r, n, c) \/ ToggleTodo(r, n, c) \/ DeleteNote(r, n, c)

Next ==
    \/ \E r \in Requests :
          \/ \E n \in NoteIds, c \in Calls : Start(r, n, c)
          \/ RequestStep(r)
          \/ Fail(r)
    \/ \E i \in 1..Len(jobs) : RunJob(i) \/ JobFails(i)
    \/ Restart

Spec == Init /\ [][Next]_vars

\* A request runs to its end, and PostgreSQL serves the waiters of a lock in
\* turn.
FairSpec == Spec /\ \A r \in Requests : SF_vars(RequestStep(r))

-----------------------------------------------------------------------------
(* Properties *)

AtRest(n) == \A r \in Requests : req[r] # Idle => req[r].note # n

\* Once no request works on a note, its file holds the committed content, and
\* a deleted note has no file, unless a transaction rolled back after it had
\* written the file, or a request wrote a content that was no longer the
\* committed one.
FileFollowsNote ==
    \A n \in NoteIds : AtRest(n) /\ "file" \notin strayed[n] =>
        file[n] = IF Exists(n) THEN row[n].content ELSE Null

\* Once also its tasks have ended, the embedding is that of the committed text
\* and a deleted note has none, unless a task overtook an earlier one, failed
\* or found a blank text, its request rolled back or wrote a stale text, or the
\* process stopped.
VectorFollowsNote ==
    \A n \in NoteIds : AtRest(n) /\ ~Pending(n) /\ "vector" \notin strayed[n] =>
        vector[n] = IF Exists(n) THEN Embedded(TextOf(row[n])) ELSE Null

\* The link rows of a note are the links of its content, each once, although
\* titles are never matched with the rows they resolved to: unless a tool
\* wrote the content, two requests synced the links at the same time, or one
\* synced a content that was no longer the committed one.  No race at all leaves
\* a link from or to a deleted note.
LinksFollowContent ==
    /\ \A n \in NoteIds : AtRest(n) /\ Exists(n) /\ "links" \notin strayed[n] =>
          /\ {l.text : l \in Existing(n)} = LinksOf[row[n].content]
          /\ \A l, k \in Existing(n) : l.text = k.text => l = k
    /\ \A l \in links : \A n \in Touched({l}) : Exists(n)

\* The three copies of a note that live beside its row follow the row.
CopiesFollowNote == TypeOK /\ FileFollowsNote /\ VectorFollowsNote /\ LinksFollowContent

\* Every request ends, whatever it waits for: a row lock, or the foreign keys
\* of the links that others insert.
RequestsEnd == \A r \in Requests : req[r] # Idle ~> req[r] = Idle
=============================================================================
