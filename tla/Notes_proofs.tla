---------------------------- MODULE Notes_proofs ----------------------------
(***************************************************************************)
(* For every set of notes and requests and every bound: the file, the      *)
(* embedding and the links of a note follow its row, except after the      *)
(* races that the properties name.                                         *)
(***************************************************************************)
EXTENDS NotesAndAudio, TLAPS, FiniteSetTheorems, WellFoundedInduction


(* Requests *)

\* What a request has loaded and will store follows from its call, and a request
\* that changes columns keeps the row lock from its flush to its end.
Work(r) ==
    LET q == req[r]
        n == q.note
    IN  /\ q.call.op = "create" <=> q.seen = Absent
        /\ q.call.op = "delete" <=> q.new = Deleted
        /\ q.seen = Absent => row[n] = Absent /\ q.pc # "loaded" /\ q.new.content = q.call.content
        /\ q.seen # Absent => row[n] # Absent
        /\ q.call.op = "update" /\ q.call.content = Null => q.new.content = q.seen.content
        /\ q.call.op = "toggle" => q.new = q.seen
        /\ q.call.op \in {"toggle", "delete"} => q.pc = "synced" /\ q.add = {} /\ q.drop = {}
        /\ q.pc = "loaded" => holder[n] # r
        /\ q.pc # "loaded" /\ (Written(q) # {} \/ q.call.op = "toggle") => holder[n] = r
        /\ holder[n] = r /\ q.seen # Absent => Exists(n)
        /\ q.pc # "synced" => q.add = {} /\ q.drop = {}
        /\ \A l \in q.add \cup q.drop : l.from = n

WorkInv == \A r \in Requests : req[r] # Idle => Work(r)

\* The row that the commit of a request makes of a row.
Outcome(q, old) ==
    IF q.seen = Absent \/ q.new = Deleted THEN q.new
    ELSE IF Written(q) = {} THEN old ELSE Merged(old, q)

\* The row as the holder of its lock is going to leave it.
Final(n) == IF holder[n] = Null THEN row[n] ELSE Outcome(req[holder[n]], row[n])

-----------------------------------------------------------------------------
(* File and embedding *)

ContentOf(x) == IF x \in Note THEN x.content ELSE Null

FileInv == \A n \in NoteIds : "file" \notin strayed[n] => file[n] = ContentOf(Final(n))

\* The row whose text was queued last.
Queued(n) == IF holder[n] # Null /\ req[holder[n]].pc = "synced" THEN Final(n) ELSE row[n]

EmbeddingOf(x) == IF x \in Note THEN Embedded(TextOf(x)) ELSE Null
ResultOf(text) == IF text = Null THEN Null ELSE Embedded(text)

LastJob(i, n) == jobs[i].note = n /\ \A j \in i + 1..Len(jobs) : jobs[j].note # n

VectorInv ==
    \A n \in NoteIds : "vector" \notin strayed[n] =>
        /\ \A i \in 1..Len(jobs) : LastJob(i, n) => ResultOf(jobs[i].text) = EmbeddingOf(Queued(n))
        /\ ~Pending(n) => vector[n] = EmbeddingOf(Queued(n))

-----------------------------------------------------------------------------
(* Links *)

Matches(S, content) ==
    /\ {l.text : l \in S} = LinksOf[content]
    /\ \A l, k \in S : l.text = k.text => l = k

\* The links of its note as the commit of a request leaves them.
LinksAfter(q) == {l \in Existing(q.note) : \A k \in q.drop : ~SameRow(l, k)} \cup q.add

Relinks(q) == q.add \cup q.drop # {}

Committed(n) == Exists(n) => Matches(Existing(n), row[n].content)

\* A request whose commit follows writes a content together with its links.
Synced(r) ==
    LET q == req[r]
    IN  q.pc = "synced" /\ q.new # Deleted /\ (Exists(q.note) \/ q.seen = Absent) =>
            Matches(LinksAfter(q), Outcome(q, row[q.note]).content)

\* Beside a request that changes links there is none that writes the content, or
\* other links.
Alone(r) ==
    LET q == req[r]
    IN  Relinks(q) =>
            \A p \in Requests \ {r} :
                req[p] # Idle /\ req[p].note = q.note /\ req[p].pc = "synced" /\ req[p].new # Deleted =>
                    ~Relinks(req[p]) /\ "content" \notin Written(req[p])

LinksInv ==
    /\ \A n \in NoteIds : "links" \notin strayed[n] => Committed(n)
    /\ \A r \in Requests : req[r] # Idle /\ "links" \notin strayed[req[r].note] => Synced(r) /\ Alone(r)

\* The notes that a link row refers to exist, and the foreign keys of those that
\* are inserted keep them.
Anchored(r) ==
    LET q == req[r]
    IN  q.add # {} =>
            /\ Exists(q.note) \/ q.seen = Absent
            /\ \A n \in Touched(q.add) : ~Deleting(n, r) /\ (n = q.note \/ Exists(n))

KeysInv ==
    /\ \A l \in links : \A n \in Touched({l}) : Exists(n)
    /\ \A r \in Requests : req[r] # Idle => Anchored(r)

\* A call adds one link with a text, so the copies are never used up.
Unsynced == {r \in Requests : req[r] # Idle /\ req[r].pc # "synced"}

CopiesInv ==
    /\ IsFiniteSet(Unsynced)
    /\ \A n \in NoteIds, t \in LinkTexts :
          Cardinality(UsedCopies(n, t)) + Cardinality(Unsynced) <= calls

IInv == TypeOK /\ WorkInv /\ FileInv /\ VectorInv /\ LinksInv /\ KeysInv /\ CopiesInv
-----------------------------------------------------------------------------
(* Types *)

LEMMA Apart ==
    /\ Absent \notin Note /\ Deleted \notin Note /\ Absent # Deleted
    /\ Null \notin NoteIds /\ Null \notin Requests /\ Null \notin Contents
    /\ Null \notin BOOLEAN /\ Null \notin Text
    /\ Blank \in Contents /\ MaxCalls \in Nat /\ MaxCopies \in Nat /\ MaxFaults \in Nat
    /\ MaxCalls <= MaxCopies /\ Calls \subseteq Call
    /\ LinksOf \in [Contents -> SUBSET LinkTexts]
BY NotesAssumption

LEMMA IdleApart == Idle \notin Busy
BY DEF Idle, Busy

LEMMA BusyFacts ==
    ASSUME TypeOK, NEW r \in Requests, req[r] # Idle
    PROVE  /\ req[r] \in Busy /\ req[r].pc \in {"loaded", "saved", "synced"}
           /\ req[r].call \in Calls /\ req[r].call \in Call
           /\ req[r].call.op \in {"create", "update", "toggle", "delete"}
           /\ req[r].note \in NoteIds
           /\ req[r].seen \in Note \cup {Absent} /\ req[r].new \in Note \cup {Deleted}
           /\ req[r].add \subseteq Link /\ req[r].drop \subseteq Link
<1>1. req[r] \in Busy
  BY DEF TypeOK
<1>2. req[r].call \in Call
  BY <1>1, Apart DEF Busy
<1> QED  BY <1>1, <1>2 DEF Busy, Call

\* What is written of a row that was loaded.
LEMMA WrittenFacts ==
    ASSUME NEW q \in Busy
    PROVE  /\ Written(q) \subseteq Columns
           /\ q.seen = Absent \/ q.new = Deleted => Written(q) = Columns
           /\ q.seen \in Note /\ q.new \in Note =>
                 /\ "content" \in Written(q) <=> q.new.content # q.seen.content
                 /\ "titled" \in Written(q) <=> q.new.titled # q.seen.titled
                 /\ q.new = q.seen => Written(q) = {}
<1>1. "content" \in Columns /\ "titled" \in Columns
  BY DEF Columns
<1>2. CASE q.seen = Absent \/ q.new = Deleted
  BY <1>2, Apart DEF Written
<1>3. CASE ~(q.seen = Absent \/ q.new = Deleted)
  <2>1. Written(q) = {c \in Columns : q.new[c] # q.seen[c]}
    BY <1>3 DEF Written
  <2> QED  BY <1>1, <1>3, <2>1
<1> QED  BY <1>2, <1>3

LEMMA MergedFacts ==
    ASSUME NEW q \in Busy, NEW old \in Note, q.new \in Note
    PROVE  /\ Merged(old, q) \in Note
           /\ Merged(old, q).content = IF "content" \in Written(q) THEN q.new.content ELSE old.content
           /\ Merged(old, q).titled = IF "titled" \in Written(q) THEN q.new.titled ELSE old.titled
<1> DEFINE W == Written(q)
<1> HIDE DEF W
<1>1. Merged(old, q) = [c \in Columns |-> IF c \in W THEN q.new[c] ELSE old[c]]
  BY DEF Merged, W
<1>2. Merged(old, q) = [titled |-> IF "titled" \in W THEN q.new.titled ELSE old.titled,
                        content |-> IF "content" \in W THEN q.new.content ELSE old.content,
                        pinned |-> IF "pinned" \in W THEN q.new.pinned ELSE old.pinned,
                        done |-> IF "done" \in W THEN q.new.done ELSE old.done]
  BY <1>1 DEF Columns
<1>3. \A c \in {"titled", "pinned", "done"} : (IF c \in W THEN q.new[c] ELSE old[c]) \in BOOLEAN
  BY DEF Note
<1>4. (IF "content" \in W THEN q.new.content ELSE old.content) \in Contents
  BY DEF Note
<1> QED  BY <1>2, <1>3, <1>4 DEF W, Note

\* The outcome of a request that is at its commit.
LEMMA OutcomeFacts ==
    ASSUME NEW q \in Busy, NEW old \in Note \cup {Absent, Deleted}
    PROVE  /\ q.new = Deleted => Outcome(q, old) = Deleted
           /\ q.seen = Absent => Outcome(q, old) = q.new
           /\ Written(q) = {} => Outcome(q, old) = old
           /\ q.new \in Note /\ (q.seen = Absent \/ old \in Note) =>
                 /\ Outcome(q, old) \in Note
                 /\ Outcome(q, old).content =
                       IF "content" \in Written(q) THEN q.new.content ELSE old.content
                 /\ Outcome(q, old).titled =
                       IF "titled" \in Written(q) THEN q.new.titled ELSE old.titled
<1>1. "content" \in Columns /\ "titled" \in Columns
  BY DEF Columns
<1>2. CASE q.seen = Absent \/ q.new = Deleted
  BY <1>1, <1>2, WrittenFacts, Apart DEF Outcome
<1>3. CASE ~(q.seen = Absent \/ q.new = Deleted) /\ Written(q) = {}
  BY <1>3 DEF Outcome
<1>4. CASE ~(q.seen = Absent \/ q.new = Deleted) /\ Written(q) # {}
  <2>1. Outcome(q, old) = Merged(old, q)
    BY <1>4 DEF Outcome
  <2> QED  BY <1>4, <2>1, MergedFacts
<1> QED  BY <1>2, <1>3, <1>4

-----------------------------------------------------------------------------
(* Steps of requests *)

Begun(c, n, pc, seen, new) ==
    [pc |-> pc, call |-> c, note |-> n, seen |-> seen, new |-> new, add |-> {}, drop |-> {}]

\* A step of a request on a note leaves other requests and other notes, takes or
\* releases no lock but its own, and changes no row whose lock it lacks.
StepOf(r, n) ==
    /\ req' \in [Requests -> Busy \cup {Idle}]
    /\ \A p \in Requests \ {r} : req'[p] = req[p]
    /\ req[r] = Idle \/ req[r].note = n
    /\ req'[r] = Idle \/ req'[r].note = n
    /\ row' \in [NoteIds -> Note \cup {Absent, Deleted}]
    /\ row'[n] = row[n] \/ (holder[n] = r /\ row'[n] # Absent)
    /\ holder' \in [NoteIds -> Requests \cup {Null}]
    /\ \/ holder'[n] = holder[n]
       \/ holder[n] = Null /\ holder'[n] = r
       \/ holder[n] = r /\ holder'[n] = Null
    /\ holder'[n] = r => req'[r] # Idle
    /\ file' \in [NoteIds -> Contents \cup {Null}]
    /\ strayed' \in [NoteIds -> SUBSET {"file", "vector", "links"}]
    /\ strayed[n] \subseteq strayed'[n]
    /\ \A m \in NoteIds \ {n} : /\ row'[m] = row[m] /\ holder'[m] = holder[m]
                                /\ file'[m] = file[m] /\ strayed'[m] = strayed[m]

LEMMA StepTyped ==
    ASSUME TypeOK, NEW r \in Requests, NEW n \in NoteIds, StepOf(r, n),
           links' \subseteq Link, vector' \in [NoteIds -> Text \cup {Null}], jobs' \in Seq(Job),
           calls' \in 0..MaxCalls, faults' \in 0..MaxFaults
    PROVE  TypeOK'
<1>1. ASSUME NEW m \in NoteIds, holder'[m] # Null
      PROVE  req'[holder'[m]] # Idle /\ req'[holder'[m]].note = m
  <2>1. CASE holder'[m] = r /\ m = n
    BY <2>1 DEF StepOf
  <2>2. CASE holder'[m] # r
    BY <1>1, <2>2, Apart DEF StepOf, TypeOK
  <2>3. CASE holder'[m] = r /\ m # n
    BY <1>1, <2>3 DEF StepOf, TypeOK
  <2> QED  BY <2>1, <2>2, <2>3
<1> QED  BY <1>1 DEF TypeOK, StepOf

LEMMA BeginFacts ==
    ASSUME TypeOK, NEW r \in Requests, NEW n \in NoteIds, NEW c \in Calls,
           NEW pc \in {"loaded", "saved", "synced"}, NEW seen \in Note \cup {Absent},
           NEW new \in Note \cup {Deleted}, Begin(r, n, c, pc, seen, new)
    PROVE  LET q == Begun(c, n, pc, seen, new)
           IN  /\ req[r] = Idle /\ req' = [req EXCEPT ![r] = q] /\ q \in Busy /\ q # Idle
               /\ req'[r] = q /\ req' \in [Requests -> Busy \cup {Idle}]
               /\ \A p \in Requests \ {r} : req'[p] = req[p]
               /\ calls' = calls + 1 /\ calls' \in 0..MaxCalls
<1> DEFINE q == Begun(c, n, pc, seen, new)
<1>1. q \in Busy
  BY DEF Begun, Busy
<1>2. req[r] = Idle /\ req' = [req EXCEPT ![r] = q] /\ calls' = calls + 1 /\ calls < MaxCalls
  BY DEF Begin, Begun
<1> HIDE DEF q
<1>3. calls' \in 0..MaxCalls
  BY <1>2, Apart DEF TypeOK
<1> QED  BY <1>1, <1>2, <1>3, IdleApart DEF q, TypeOK

\* A new request, seen from its slot.
LEMMA StepOfBegin ==
    ASSUME TypeOK, NEW r \in Requests, NEW n \in NoteIds, req[r] = Idle, req'[r].note = n, req'[r] # Idle,
           req' \in [Requests -> Busy \cup {Idle}], \A p \in Requests \ {r} : req'[p] = req[p],
           holder' \in [NoteIds -> Requests \cup {Null}], file' \in [NoteIds -> Contents \cup {Null}],
           UNCHANGED <<row, strayed>>,
           holder'[n] = holder[n] \/ (holder[n] = Null /\ holder'[n] = r),
           \A m \in NoteIds \ {n} : holder'[m] = holder[m] /\ file'[m] = file[m]
    PROVE  StepOf(r, n)
<1>1. /\ row' = row /\ strayed' = strayed
      /\ row \in [NoteIds -> Note \cup {Absent, Deleted}]
      /\ strayed \in [NoteIds -> SUBSET {"file", "vector", "links"}]
  BY DEF TypeOK
<1>2. strayed[n] \subseteq strayed'[n]
  BY <1>1
<1>3. \A m \in NoteIds \ {n} : row'[m] = row[m] /\ holder'[m] = holder[m] /\ file'[m] = file[m] /\ strayed'[m] = strayed[m]
  BY <1>1
<1>4. row' \in [NoteIds -> Note \cup {Absent, Deleted}] /\ row'[n] = row[n]
  BY <1>1
<1>5. strayed' \in [NoteIds -> SUBSET {"file", "vector", "links"}]
  BY <1>1
<1>6. holder'[n] = r => req'[r] # Idle
  OBVIOUS
<1> HIDE DEF TypeOK
<1> QED  BY <1>2, <1>3, <1>4, <1>5, <1>6 DEF StepOf

LEMMA BegunNote == \A c, n, pc, seen, new : Begun(c, n, pc, seen, new).note = n
BY DEF Begun

LEMMA StrayFacts ==
    ASSUME TypeOK, NEW n \in NoteIds, NEW S \in SUBSET {"file", "vector", "links"}, Stray(n, S)
    PROVE  /\ strayed' \in [NoteIds -> SUBSET {"file", "vector", "links"}]
           /\ strayed'[n] = strayed[n] \cup S
           /\ \A m \in NoteIds \ {n} : strayed'[m] = strayed[m]
BY DEF Stray, TypeOK

LEMMA QueueTyped ==
    ASSUME TypeOK, NEW n \in NoteIds, NEW text \in Text \cup {Null}, Queue(n, text)
    PROVE  jobs' \in Seq(Job) /\ jobs' = Append(jobs, [note |-> n, text |-> text])
<1>1. [note |-> n, text |-> text] \in Job
  BY DEF Job
<1> QED  BY <1>1 DEF Queue, TypeOK

LEMMA TextTyped == \A x \in Note : TextOf(x) \in Text
BY DEF Note, Text, TextOf

LEMMA EditedFacts ==
    ASSUME NEW old \in Note, NEW c \in Call, c.op = "update"
    PROVE  /\ Edited(old, c) \in Note
           /\ c.content = Null => Edited(old, c).content = old.content
<1>1. c.content \in Contents \cup {Null} /\ c.pinned \in BOOLEAN \cup {Null} /\ c.titled \in BOOLEAN \cup {Null}
  BY DEF Call
<1> DEFINE content == Given(c.content, old.content)
           pinned == Given(c.pinned, old.pinned)
           titled == Given(c.titled, IF c.via = "tool" THEN FALSE ELSE old.titled)
<1>2. content \in Contents /\ (c.content = Null => content = old.content)
  BY <1>1 DEF Given, Note
<1>3. pinned \in BOOLEAN
  BY <1>1 DEF Given, Note
<1>4. titled \in BOOLEAN
  BY <1>1 DEF Given, Note
<1>5. Edited(old, c) = [old EXCEPT !.content = content, !.pinned = pinned, !.titled = titled]
  BY DEF Edited, Note
<1> HIDE DEF content, pinned, titled
<1> QED  BY <1>2, <1>3, <1>4, <1>5 DEF Note

LEMMA CreateStep ==
    ASSUME TypeOK, NEW r \in Requests, NEW n \in NoteIds, NEW c \in Calls, CreateNote(r, n, c)
    PROVE  LET new == [titled |-> c.titled, content |-> c.content, pinned |-> FALSE, done |-> FALSE]
           IN  /\ new \in Note /\ c.op = "create" /\ c.content \in Contents
               /\ req'[r] = Begun(c, n, "saved", Absent, new) /\ req[r] = Idle
               /\ row[n] = Absent /\ \A q \in Requests : req[q] # Idle => req[q].note # n
               /\ holder[n] = Null /\ holder'[n] = r /\ file'[n] = c.content
               /\ calls' = calls + 1 /\ UNCHANGED <<row, links, vector, jobs, faults, strayed>>
               /\ StepOf(r, n) /\ TypeOK'
<1> DEFINE new == [titled |-> c.titled, content |-> c.content, pinned |-> FALSE, done |-> FALSE]
<1>1. c \in Call /\ c.op = "create"
  BY Apart DEF CreateNote
<1>2. c.titled \in BOOLEAN /\ c.content \in Contents
  BY <1>1 DEF Call
<1>3. new \in Note
  BY <1>2 DEF Note
<1>4. /\ Begin(r, n, c, "saved", Absent, new) /\ holder' = [holder EXCEPT ![n] = r]
      /\ file' = [file EXCEPT ![n] = c.content] /\ row[n] = Absent
      /\ \A q \in Requests : req[q] # Idle => req[q].note # n
      /\ UNCHANGED <<row, links, vector, jobs, faults, strayed>>
  BY DEF CreateNote, SaveFile
<1> HIDE DEF new
<1>5. /\ req[r] = Idle /\ req'[r] = Begun(c, n, "saved", Absent, new) /\ req'[r] # Idle
      /\ req' \in [Requests -> Busy \cup {Idle}]
      /\ \A p \in Requests \ {r} : req'[p] = req[p]
      /\ calls' = calls + 1 /\ calls' \in 0..MaxCalls
  BY <1>3, <1>4, BeginFacts
<1>6. holder[n] = Null
  BY <1>4 DEF TypeOK
<1>7. /\ holder' \in [NoteIds -> Requests \cup {Null}] /\ holder'[n] = r
      /\ file' \in [NoteIds -> Contents \cup {Null}] /\ file'[n] = c.content
      /\ \A m \in NoteIds \ {n} : holder'[m] = holder[m] /\ file'[m] = file[m]
  BY <1>2, <1>4 DEF TypeOK
<1>8. StepOf(r, n)
  BY <1>4, <1>5, <1>6, <1>7, StepOfBegin, BegunNote DEF TypeOK
<1>9. TypeOK'
  BY <1>4, <1>5, <1>8, StepTyped DEF TypeOK
<1> QED  BY <1>1, <1>2, <1>3, <1>4, <1>5, <1>6, <1>7, <1>8, <1>9 DEF new

LEMMA LoadStep ==
    ASSUME TypeOK, NEW r \in Requests, NEW n \in NoteIds, NEW c \in Calls, LoadNote(r, n, c)
    PROVE  LET new == Edited(row[n], c)
           IN  /\ row[n] \in Note /\ new \in Note /\ c.op = "update"
               /\ c.content = Null => new.content = row[n].content
               /\ req'[r] = Begun(c, n, "loaded", row[n], new) /\ req[r] = Idle
               /\ calls' = calls + 1
               /\ UNCHANGED <<row, holder, links, file, vector, jobs, faults, strayed>>
               /\ StepOf(r, n) /\ TypeOK'
<1> DEFINE new == Edited(row[n], c)
<1>1. c \in Call /\ c.op = "update" /\ row[n] \in Note
  BY Apart DEF LoadNote, Exists
<1>2. new \in Note /\ (c.content = Null => new.content = row[n].content)
  BY <1>1, EditedFacts
<1>3. /\ Begin(r, n, c, "loaded", row[n], new)
      /\ UNCHANGED <<row, holder, links, file, vector, jobs, faults, strayed>>
  BY DEF LoadNote, dbVars
<1> HIDE DEF new
<1>4. /\ req[r] = Idle /\ req'[r] = Begun(c, n, "loaded", row[n], new) /\ req'[r] # Idle
      /\ req' \in [Requests -> Busy \cup {Idle}]
      /\ \A p \in Requests \ {r} : req'[p] = req[p]
      /\ calls' = calls + 1 /\ calls' \in 0..MaxCalls
  BY <1>1, <1>2, <1>3, BeginFacts
<1>5. StepOf(r, n)
  BY <1>3, <1>4, StepOfBegin, BegunNote DEF TypeOK
<1>6. TypeOK'
  BY <1>3, <1>4, <1>5, StepTyped DEF TypeOK
<1> QED  BY <1>1, <1>2, <1>3, <1>4, <1>5, <1>6 DEF new

LEMMA ToggleStep ==
    ASSUME TypeOK, NEW r \in Requests, NEW n \in NoteIds, NEW c \in Calls, ToggleTodo(r, n, c)
    PROVE  \E new \in Note :
               /\ row[n] \in Note /\ c.op = "toggle"
               /\ req'[r] = Begun(c, n, "synced", new, new) /\ req[r] = Idle
               /\ holder[n] = Null /\ holder'[n] = r
               /\ calls' = calls + 1
               /\ UNCHANGED <<row, links, file, vector, jobs, faults, strayed>>
               /\ StepOf(r, n) /\ TypeOK'
<1> DEFINE new == [row[n] EXCEPT !.done = ~@]
<1>1. c.op = "toggle" /\ row[n] \in Note /\ holder[n] = Null
  BY DEF ToggleTodo, Exists
<1>2. new \in Note
  BY <1>1 DEF Note
<1>3. /\ Begin(r, n, c, "synced", new, new) /\ holder' = [holder EXCEPT ![n] = r]
      /\ UNCHANGED <<row, links, file, vector, jobs, faults, strayed>>
  BY DEF ToggleTodo
<1> HIDE DEF new
<1>4. /\ req[r] = Idle /\ req'[r] = Begun(c, n, "synced", new, new) /\ req'[r] # Idle
      /\ req' \in [Requests -> Busy \cup {Idle}]
      /\ \A p \in Requests \ {r} : req'[p] = req[p]
      /\ calls' = calls + 1 /\ calls' \in 0..MaxCalls
  BY <1>2, <1>3, BeginFacts
<1>5. /\ holder' \in [NoteIds -> Requests \cup {Null}] /\ holder'[n] = r
      /\ \A m \in NoteIds \ {n} : holder'[m] = holder[m]
  BY <1>3 DEF TypeOK
<1>6. StepOf(r, n)
  BY <1>1, <1>3, <1>4, <1>5, StepOfBegin, BegunNote DEF TypeOK
<1>7. TypeOK'
  BY <1>3, <1>4, <1>6, StepTyped DEF TypeOK
<1> QED  BY <1>1, <1>2, <1>3, <1>4, <1>5, <1>6, <1>7

LEMMA DeleteStep ==
    ASSUME TypeOK, NEW r \in Requests, NEW n \in NoteIds, NEW c \in Calls, DeleteNote(r, n, c)
    PROVE  /\ row[n] \in Note /\ c.op = "delete"
           /\ req'[r] = Begun(c, n, "synced", row[n], Deleted) /\ req[r] = Idle
           /\ holder[n] = Null /\ holder'[n] = r /\ file'[n] = Null
           /\ \A q \in Requests : req[q] # Idle => \A l \in req[q].add : n \notin {l.from, l.target}
           /\ jobs' = Append(jobs, [note |-> n, text |-> Null])
           /\ calls' = calls + 1 /\ UNCHANGED <<row, links, vector, faults, strayed>>
           /\ StepOf(r, n) /\ TypeOK'
<1>1. /\ c.op = "delete" /\ row[n] \in Note /\ holder[n] = Null
      /\ \A q \in Requests : req[q] # Idle => \A l \in req[q].add : n \notin {l.from, l.target}
  BY DEF DeleteNote, Exists
<1>2. /\ Begin(r, n, c, "synced", row[n], Deleted) /\ holder' = [holder EXCEPT ![n] = r]
      /\ file' = [file EXCEPT ![n] = Null] /\ Queue(n, Null)
      /\ UNCHANGED <<row, links, vector, faults, strayed>>
  BY DEF DeleteNote, RemoveFile
<1>3. /\ req[r] = Idle /\ req'[r] = Begun(c, n, "synced", row[n], Deleted) /\ req'[r] # Idle
      /\ req' \in [Requests -> Busy \cup {Idle}]
      /\ \A p \in Requests \ {r} : req'[p] = req[p]
      /\ calls' = calls + 1 /\ calls' \in 0..MaxCalls
  BY <1>1, <1>2, BeginFacts
<1>4. /\ holder' \in [NoteIds -> Requests \cup {Null}] /\ holder'[n] = r
      /\ file' \in [NoteIds -> Contents \cup {Null}] /\ file'[n] = Null
      /\ \A m \in NoteIds \ {n} : holder'[m] = holder[m] /\ file'[m] = file[m]
  BY <1>2 DEF TypeOK
<1>5. jobs' \in Seq(Job) /\ jobs' = Append(jobs, [note |-> n, text |-> Null])
  BY <1>2, QueueTyped
<1>6. StepOf(r, n)
  BY <1>1, <1>2, <1>3, <1>4, StepOfBegin, BegunNote DEF TypeOK
<1>7. TypeOK'
  BY <1>2, <1>3, <1>5, <1>6, StepTyped DEF TypeOK
<1> QED  BY <1>1, <1>2, <1>3, <1>4, <1>5, <1>6, <1>7

-----------------------------------------------------------------------------
(* What the step of a request keeps *)

LEMMA HolderFacts ==
    ASSUME TypeOK, NEW m \in NoteIds, holder[m] # Null
    PROVE  holder[m] \in Requests /\ req[holder[m]] # Idle /\ req[holder[m]].note = m
BY DEF TypeOK

\* A lock that is not of this request stays, and so does its row.
LEMMA LocksKept ==
    ASSUME TypeOK, NEW r \in Requests, NEW n \in NoteIds, StepOf(r, n),
           NEW p \in Requests \ {r}, NEW m \in NoteIds
    PROVE  /\ holder'[m] = p <=> holder[m] = p
           /\ holder[m] = p => row'[m] = row[m]
           /\ row[m] # Absent => row'[m] # Absent
<1>1. CASE m = n
  BY <1>1, Apart DEF StepOf
<1>2. CASE m # n
  BY <1>2 DEF StepOf
<1> QED  BY <1>1, <1>2

LEMMA WorkKept ==
    ASSUME TypeOK, WorkInv, NEW r \in Requests, NEW n \in NoteIds, StepOf(r, n),
           req'[r] = Idle \/ Work(r)'
    PROVE  WorkInv'
<1> SUFFICES ASSUME NEW p \in Requests \ {r}, req[p] # Idle, req'[p] = req[p] PROVE Work(p)'
  BY DEF WorkInv, StepOf
<1>1. Work(p) /\ req[p].note \in NoteIds /\ req[p] \in Busy
  BY BusyFacts DEF WorkInv
<1>2. /\ holder'[req[p].note] = p <=> holder[req[p].note] = p
      /\ holder[req[p].note] = p => row'[req[p].note] = row[req[p].note]
      /\ row[req[p].note] # Absent => row'[req[p].note] # Absent
  BY <1>1, LocksKept
<1>3. req[p].seen = Absent => holder[req[p].note] = p
  <2>1. "content" \in Columns
    BY DEF Columns
  <2> QED  BY <1>1, <2>1, WrittenFacts DEF Work
<1> QED  BY <1>1, <1>2, <1>3 DEF Work, Exists

\* What lies ahead of another note is as before.
LEMMA OtherNotes ==
    ASSUME TypeOK, NEW r \in Requests, NEW n \in NoteIds, StepOf(r, n), NEW m \in NoteIds \ {n}
    PROVE  Final(m)' = Final(m) /\ Queued(m)' = Queued(m)
<1>1. row'[m] = row[m] /\ holder'[m] = holder[m]
  BY DEF StepOf
<1>2. CASE holder[m] = Null
  BY <1>1, <1>2 DEF Final, Queued
<1>3. CASE holder[m] # Null
  <2>1. holder[m] \in Requests /\ req[holder[m]] # Idle /\ req[holder[m]].note = m
    BY <1>3, HolderFacts
  <2>2. holder[m] # r
    BY <2>1 DEF StepOf
  <2>3. req'[holder[m]] = req[holder[m]]
    BY <2>1, <2>2 DEF StepOf
  <2>4. Outcome(req[holder[m]], row[m])' = Outcome(req[holder[m]], row[m])
    BY <1>1, <2>3
  <2> QED  BY <1>1, <2>3, <2>4 DEF Final, Queued
<1> QED  BY <1>2, <1>3

LEMMA FileKept ==
    ASSUME TypeOK, FileInv, NEW r \in Requests, NEW n \in NoteIds, StepOf(r, n),
           "file" \notin strayed'[n] => file'[n] = ContentOf(Final(n)')
    PROVE  FileInv'
<1> SUFFICES ASSUME NEW m \in NoteIds \ {n}, "file" \notin strayed'[m]
             PROVE  file'[m] = ContentOf(Final(m)')
  BY DEF FileInv
<1>1. file'[m] = file[m] /\ strayed'[m] = strayed[m] /\ Final(m)' = Final(m)
  BY OtherNotes DEF StepOf
<1> QED  BY <1>1 DEF FileInv

\* No task is queued for a note.
LEMMA VectorKept ==
    ASSUME TypeOK, VectorInv, NEW r \in Requests, NEW n \in NoteIds, StepOf(r, n),
           UNCHANGED <<jobs, vector>>,
           "vector" \notin strayed'[n] => EmbeddingOf(Queued(n)') = EmbeddingOf(Queued(n))
    PROVE  VectorInv'
<1> SUFFICES ASSUME NEW m \in NoteIds, "vector" \notin strayed'[m]
             PROVE  /\ \A i \in 1..Len(jobs) :
                           LastJob(i, m) => ResultOf(jobs[i].text) = EmbeddingOf(Queued(m)')
                    /\ ~Pending(m) => vector[m] = EmbeddingOf(Queued(m)')
  BY DEF VectorInv, LastJob, Pending
<1>1. EmbeddingOf(Queued(m)') = EmbeddingOf(Queued(m)) /\ "vector" \notin strayed[m]
  <2>1. CASE m = n
    BY <2>1 DEF StepOf
  <2>2. CASE m # n
    BY <2>2, OtherNotes DEF StepOf
  <2> QED  BY <2>1, <2>2
<1> QED  BY <1>1 DEF VectorInv

\* A task is queued for the note.
LEMMA VectorQueued ==
    ASSUME TypeOK, VectorInv, NEW r \in Requests, NEW n \in NoteIds, StepOf(r, n), UNCHANGED vector,
           NEW text, jobs' = Append(jobs, [note |-> n, text |-> text]),
           "vector" \notin strayed'[n] => ResultOf(text) = EmbeddingOf(Queued(n)')
    PROVE  VectorInv'
<1> DEFINE len == Len(jobs)
<1>1. /\ jobs \in Seq(Job) /\ len \in Nat /\ Len(jobs') = len + 1
      /\ \A i \in 1..len : jobs'[i] = jobs[i]
      /\ jobs'[len + 1] = [note |-> n, text |-> text]
  BY DEF TypeOK
<1>2. jobs'[len + 1].note = n /\ jobs'[len + 1].text = text
  BY <1>1
<1> HIDE DEF len
<1> SUFFICES ASSUME NEW m \in NoteIds, "vector" \notin strayed'[m]
             PROVE  /\ \A i \in 1..Len(jobs') :
                           LastJob(i, m)' => ResultOf(jobs'[i].text) = EmbeddingOf(Queued(m)')
                    /\ ~Pending(m)' => vector[m] = EmbeddingOf(Queued(m)')
  BY DEF VectorInv
<1>3. CASE m = n
  <2>1. Pending(n)'
    BY <1>1, <1>2 DEF Pending
  <2>2. ASSUME NEW i \in 1..len + 1, LastJob(i, n)' PROVE i = len + 1
    <3>1. i # len + 1 => len + 1 \in i + 1..len + 1
      BY <1>1
    <3> QED  BY <1>1, <1>2, <2>2, <3>1 DEF LastJob
  <2>3. \A i \in 1..Len(jobs') : LastJob(i, n)' => ResultOf(jobs'[i].text) = EmbeddingOf(Queued(n)')
    BY <1>1, <1>2, <1>3, <2>2
  <2> QED  BY <1>3, <2>1, <2>3
<1>4. CASE m # n
  <2>1. Queued(m)' = Queued(m) /\ "vector" \notin strayed[m]
    BY <1>4, OtherNotes DEF StepOf
  <2>2. ASSUME ~Pending(m)' PROVE ~Pending(m)
    BY <1>1, <2>2 DEF Pending, len
  <2>3. ASSUME NEW i \in 1..len + 1, LastJob(i, m)' PROVE i \in 1..len /\ LastJob(i, m)
    <3>1. i # len + 1
      BY <1>2, <1>4, <2>3 DEF LastJob
    <3>2. i \in 1..len
      BY <1>1, <3>1
    <3>3. \A j \in i + 1..len : j \in i + 1..len + 1 /\ j \in 1..len
      BY <1>1, <3>2
    <3> QED  BY <1>1, <2>3, <3>2, <3>3 DEF LastJob, len
  <2>4. ASSUME NEW i \in 1..Len(jobs'), LastJob(i, m)'
        PROVE  ResultOf(jobs'[i].text) = EmbeddingOf(Queued(m)')
    <3>1. i \in 1..len /\ LastJob(i, m)
      BY <1>1, <2>3, <2>4
    <3>2. ResultOf(jobs[i].text) = EmbeddingOf(Queued(m))
      BY <2>1, <3>1 DEF VectorInv, len
    <3> QED  BY <1>1, <2>1, <3>1, <3>2
  <2> QED  BY <2>1, <2>2, <2>4 DEF VectorInv
<1> QED  BY <1>3, <1>4

-----------------------------------------------------------------------------
(* A request moves on *)

Moved(q, pc, add, drop) == [q EXCEPT !.pc = pc, !.add = add, !.drop = drop]

LEMMA MovedFacts ==
    ASSUME NEW q \in Busy, NEW pc \in {"loaded", "saved", "synced"},
           NEW add \in SUBSET Link, NEW drop \in SUBSET Link
    PROVE  /\ Moved(q, pc, add, drop) \in Busy /\ Moved(q, pc, add, drop) # Idle
           /\ Moved(q, pc, add, drop).pc = pc
           /\ Moved(q, pc, add, drop).add = add /\ Moved(q, pc, add, drop).drop = drop
           /\ Moved(q, pc, add, drop).call = q.call /\ Moved(q, pc, add, drop).note = q.note
           /\ Moved(q, pc, add, drop).seen = q.seen /\ Moved(q, pc, add, drop).new = q.new
BY IdleApart DEF Moved, Busy

\* What a request writes depends on what it has loaded and on its new values.
LEMMA SameOutcome ==
    ASSUME NEW p, NEW q, p.seen = q.seen, p.new = q.new
    PROVE  Written(p) = Written(q) /\ \A old : Outcome(p, old) = Outcome(q, old)
<1>1. Written(p) = Written(q)
  BY DEF Written
<1> QED  BY <1>1 DEF Outcome, Merged

\* A request that moves on, seen from its note.
LEMMA StepOfMove ==
    ASSUME TypeOK, NEW r \in Requests, NEW n \in NoteIds, NEW q \in Busy, q # Idle, q.note = n,
           req[r] # Idle, req[r].note = n, req' = [req EXCEPT ![r] = q],
           holder' \in [NoteIds -> Requests \cup {Null}], file' \in [NoteIds -> Contents \cup {Null}],
           holder'[n] = holder[n] \/ (holder[n] = Null /\ holder'[n] = r),
           \A m \in NoteIds \ {n} : holder'[m] = holder[m] /\ file'[m] = file[m],
           NEW S \in SUBSET {"file", "vector", "links"}, Stray(n, S), UNCHANGED row
    PROVE  StepOf(r, n)
<1>1. /\ strayed' \in [NoteIds -> SUBSET {"file", "vector", "links"}]
      /\ strayed[n] \subseteq strayed'[n]
      /\ \A m \in NoteIds \ {n} : strayed'[m] = strayed[m]
  BY StrayFacts
<1>2. row' \in [NoteIds -> Note \cup {Absent, Deleted}] /\ row' = row
  BY DEF TypeOK
<1>3. /\ req' \in [Requests -> Busy \cup {Idle}] /\ req'[r] = q
      /\ \A p \in Requests \ {r} : req'[p] = req[p]
  BY DEF TypeOK
<1> HIDE DEF TypeOK
<1> QED  BY <1>1, <1>2, <1>3 DEF StepOf

LEMMA StrayNone == ASSUME TypeOK, NEW n \in NoteIds, UNCHANGED strayed PROVE Stray(n, {})
BY DEF TypeOK, Stray

LEMMA FlushStep ==
    ASSUME TypeOK, WorkInv, NEW r \in Requests, FlushNote(r)
    PROVE  \E q \in Busy, n \in NoteIds :
               /\ req[r] = q /\ q # Idle /\ q.note = n /\ q.pc = "loaded"
               /\ q.new \in Note /\ q.seen \in Note /\ q.add = {} /\ q.drop = {}
               /\ req'[r] = Moved(q, "saved", {}, {})
               /\ Written(q) = {} => holder'[n] = holder[n]
               /\ Written(q) # {} => holder[n] = Null /\ holder'[n] = r /\ Exists(n)
               /\ file'[n] = q.new.content
               /\ Stale(r, {"content"}) => "file" \in strayed'[n]
               /\ UNCHANGED <<row, links, vector, jobs, calls, faults>>
               /\ StepOf(r, n) /\ TypeOK'
<1>1. PICK q : q = req[r]
  OBVIOUS
<1>2. PICK n : n = req[r].note
  OBVIOUS
<1>3. q # Idle /\ q.pc = "loaded"
  BY <1>1 DEF FlushNote, Idle
<1>4. /\ q \in Busy /\ n \in NoteIds /\ q.note = n
      /\ q.call.op \in {"create", "update", "toggle", "delete"}
      /\ q.seen \in Note \cup {Absent} /\ q.new \in Note \cup {Deleted}
  BY <1>1, <1>2, <1>3, BusyFacts
<1>5. Work(r)
  BY <1>1, <1>3 DEF WorkInv
<1>6. q.new \in Note /\ q.seen \in Note /\ q.add = {} /\ q.drop = {}
  BY <1>1, <1>3, <1>4, <1>5 DEF Work
<1>7. q.new.content \in Contents
  BY <1>6 DEF Note
<1> DEFINE p == Moved(q, "saved", {}, {})
<1>8. p \in Busy /\ p # Idle /\ p.note = n
  BY <1>4, MovedFacts
<1>9. /\ Written(q) # {} => holder[n] = Null /\ Exists(n)
      /\ holder' = IF Written(q) # {} THEN [holder EXCEPT ![n] = r] ELSE holder
      /\ file' = [file EXCEPT ![n] = q.new.content]
      /\ IF Stale(r, {"content"}) THEN Stray(n, {"file"}) ELSE UNCHANGED strayed
      /\ req' = [req EXCEPT ![r].pc = "saved"]
      /\ UNCHANGED <<row, links, vector, jobs, calls, faults>>
  BY <1>1, <1>2 DEF FlushNote, SaveFile
<1>10. req' = [req EXCEPT ![r] = p]
  <2>1. [q EXCEPT !.pc = "saved"] = p
    BY <1>4, <1>6 DEF Moved, Busy
  <2>2. req' = [req EXCEPT ![r] = [q EXCEPT !.pc = "saved"]]
    BY <1>1, <1>9
  <2> QED  BY <2>1, <2>2
<1> HIDE DEF p
<1>11. /\ holder' \in [NoteIds -> Requests \cup {Null}]
       /\ Written(q) = {} => holder'[n] = holder[n]
       /\ Written(q) # {} => holder[n] = Null /\ holder'[n] = r /\ Exists(n)
       /\ \A m \in NoteIds \ {n} : holder'[m] = holder[m]
  BY <1>4, <1>9 DEF TypeOK
<1>12. /\ file' \in [NoteIds -> Contents \cup {Null}] /\ file'[n] = q.new.content
       /\ \A m \in NoteIds \ {n} : file'[m] = file[m]
  BY <1>4, <1>7, <1>9 DEF TypeOK
<1>13. PICK S \in SUBSET {"file", "vector", "links"} :
          Stray(n, S) /\ (Stale(r, {"content"}) => "file" \in S)
  BY <1>4, <1>9, StrayNone
<1>14. Stale(r, {"content"}) => "file" \in strayed'[n]
  BY <1>4, <1>13, StrayFacts
<1>15. StepOf(r, n)
  BY <1>1, <1>2, <1>3, <1>4, <1>8, <1>9, <1>10, <1>11, <1>12, <1>13, StepOfMove
<1>16. TypeOK'
  BY <1>4, <1>9, <1>15, StepTyped DEF TypeOK
<1>17. req'[r] = p
  BY <1>10 DEF TypeOK
<1> QED
  BY <1>1, <1>3, <1>4, <1>6, <1>9, <1>11, <1>12, <1>14, <1>15, <1>16, <1>17 DEF p

\* What a sync adds to and drops from the links of its note.
SyncOf(q, n, add, drop) ==
    /\ add = NewLinks(q) /\ drop \subseteq Existing(n) /\ MayDrop(n, q.new.content, drop)

LEMMA NewLinksTyped ==
    ASSUME NEW q \in Busy, q.new \in Note
    PROVE  /\ NewLinks(q) \subseteq Link
           /\ \A l \in NewLinks(q) : l.from = q.note
<1>1. q.note \in NoteIds /\ q.new.content \in Contents
  BY DEF Busy, Note
<1>2. ToCreate(q.note, q.new.content) \subseteq LinkTexts
  BY <1>1, Apart DEF ToCreate
<1> QED  BY <1>1, <1>2 DEF NewLinks, Link

\* The sync, with the link rows that it adds and drops.
SyncMove(r, q, n, add, drop) ==
    /\ req[r] = q /\ q # Idle /\ q.note = n /\ q.pc = "saved" /\ q.new \in Note
    /\ req'[r] = Moved(q, "synced", add, drop)
    /\ jobs' = Append(jobs, [note |-> n, text |-> TextOf(q.new)])
    /\ UNCHANGED <<row, holder, links, file, vector, calls, faults>>
    /\ Stale(r, {"content", "titled"}) => "vector" \in strayed'[n]
    /\ Stale(r, {"content"}) => "links" \in strayed'[n]
    /\ \A l \in add \cup drop : l.from = n
    /\ \/ /\ SyncOf(q, n, add, drop) /\ LinksFit(r, add)
          /\ Overlapped(r) => "links" \in strayed'[n]
       \/ /\ ~Syncs(q) /\ add = {} /\ drop = {}
          /\ q.call.via = "tool" /\ "content" \in Written(q) => "links" \in strayed'[n]
    /\ StepOf(r, n) /\ TypeOK'

LEMMA SyncStep ==
    ASSUME TypeOK, WorkInv, NEW r \in Requests, SyncAndEmbed(r)
    PROVE  \E q \in Busy, n \in NoteIds, add \in SUBSET Link, drop \in SUBSET Link :
               SyncMove(r, q, n, add, drop)
<1>1. PICK q : q = req[r]
  OBVIOUS
<1>2. PICK n : n = req[r].note
  OBVIOUS
<1>3. q # Idle /\ q.pc = "saved"
  BY <1>1 DEF SyncAndEmbed, Idle
<1>4. /\ q \in Busy /\ n \in NoteIds /\ q.note = n
      /\ q.call.op \in {"create", "update", "toggle", "delete"}
      /\ q.seen \in Note \cup {Absent} /\ q.new \in Note \cup {Deleted}
  BY <1>1, <1>2, <1>3, BusyFacts
<1>5. Work(r)
  BY <1>1, <1>3 DEF WorkInv
<1>6. q.new \in Note /\ q.add = {} /\ q.drop = {}
  BY <1>1, <1>3, <1>4, <1>5 DEF Work
<1> DEFINE skewed == (IF Stale(r, {"content", "titled"}) THEN {"vector"} ELSE {})
                     \cup (IF Stale(r, {"content"}) THEN {"links"} ELSE {})
           more == (IF Overlapped(r) THEN {"links"} ELSE {})
           tool == (IF q.call.via = "tool" /\ "content" \in Written(q) THEN {"links"} ELSE {})
<1>7. PICK add, drop, S :
         /\ add \in SUBSET Link /\ drop \in SUBSET Link /\ S \in SUBSET {"file", "vector", "links"}
         /\ req' = [req EXCEPT ![r] = Moved(q, "synced", add, drop)] /\ Stray(n, S)
         /\ Stale(r, {"content", "titled"}) => "vector" \in S
         /\ Stale(r, {"content"}) => "links" \in S
         /\ \A l \in add \cup drop : l.from = n
         /\ \/ /\ SyncOf(q, n, add, drop) /\ LinksFit(r, add)
               /\ Overlapped(r) => "links" \in S
            \/ /\ ~Syncs(q) /\ add = {} /\ drop = {}
               /\ q.call.via = "tool" /\ "content" \in Written(q) => "links" \in S
  <2>1. CASE Syncs(q)
    <3>1. /\ LinksFit(r, NewLinks(q)) /\ Stray(n, skewed \cup more)
          /\ \E S \in SUBSET Existing(n) :
                /\ MayDrop(n, q.new.content, S)
                /\ req' = [req EXCEPT ![r].pc = "synced", ![r].add = NewLinks(q), ![r].drop = S]
      BY <1>1, <1>2, <2>1 DEF SyncAndEmbed
    <3>2. PICK S \in SUBSET Existing(n) :
             /\ MayDrop(n, q.new.content, S)
             /\ req' = [req EXCEPT ![r].pc = "synced", ![r].add = NewLinks(q), ![r].drop = S]
      BY <3>1
    <3>3. req' = [req EXCEPT ![r] = Moved(q, "synced", NewLinks(q), S)]
      BY <1>1, <3>2 DEF Moved
    <3>4. NewLinks(q) \subseteq Link /\ \A l \in NewLinks(q) : l.from = n
      BY <1>4, <1>6, NewLinksTyped
    <3>5. S \subseteq Link /\ \A l \in S : l.from = n
      BY DEF Existing, TypeOK
    <3> DEFINE T == skewed \cup more
    <3>6. /\ T \in SUBSET {"file", "vector", "links"}
          /\ Stale(r, {"content", "titled"}) => "vector" \in T
          /\ Stale(r, {"content"}) => "links" \in T
          /\ Overlapped(r) => "links" \in T
      OBVIOUS
    <3>7. Stray(n, T) /\ SyncOf(q, n, NewLinks(q), S)
      BY <3>1, <3>2 DEF SyncOf
    <3> HIDE DEF T, skewed, more
    <3> QED  BY <3>1, <3>3, <3>4, <3>5, <3>6, <3>7
  <2>2. CASE ~Syncs(q)
    <3>1. /\ Stray(n, skewed \cup tool) /\ req' = [req EXCEPT ![r].pc = "synced"]
      BY <1>1, <1>2, <2>2 DEF SyncAndEmbed
    <3>2. [q EXCEPT !.pc = "synced"] = Moved(q, "synced", {}, {})
      BY <1>4, <1>6 DEF Moved, Busy
    <3>3. req' = [req EXCEPT ![r] = [q EXCEPT !.pc = "synced"]]
      BY <1>1, <3>1
    <3>4. req' = [req EXCEPT ![r] = Moved(q, "synced", {}, {})]
      BY <3>2, <3>3
    <3> DEFINE T == skewed \cup tool
    <3>5. /\ T \in SUBSET {"file", "vector", "links"}
          /\ Stale(r, {"content", "titled"}) => "vector" \in T
          /\ Stale(r, {"content"}) => "links" \in T
          /\ q.call.via = "tool" /\ "content" \in Written(q) => "links" \in T
      OBVIOUS
    <3>6. Stray(n, T)
      BY <3>1
    <3> HIDE DEF T, skewed, tool
    <3> QED  BY <2>2, <3>4, <3>5, <3>6
  <2> QED  BY <2>1, <2>2
<1> HIDE DEF skewed, more, tool
<1>8. /\ jobs' = Append(jobs, [note |-> n, text |-> TextOf(q.new)]) /\ jobs' \in Seq(Job)
  <2>1. Queue(n, TextOf(q.new))
    BY <1>1, <1>2 DEF SyncAndEmbed
  <2> QED  BY <1>4, <1>6, <2>1, QueueTyped, TextTyped
<1>9. UNCHANGED <<row, holder, links, file, vector, calls, faults>>
  BY DEF SyncAndEmbed, dbVars
<1> DEFINE p == Moved(q, "synced", add, drop)
<1>10. p \in Busy /\ p # Idle /\ p.note = n
  BY <1>4, <1>7, MovedFacts
<1>11. req' = [req EXCEPT ![r] = p]
  BY <1>7
<1> HIDE DEF p
<1>12. StepOf(r, n)
  BY <1>1, <1>2, <1>3, <1>4, <1>7, <1>9, <1>10, <1>11, StepOfMove DEF TypeOK
<1>13. TypeOK'
  BY <1>4, <1>8, <1>9, <1>12, StepTyped DEF TypeOK
<1>14. req'[r] = p
  BY <1>11 DEF TypeOK
<1>15. strayed'[n] = strayed[n] \cup S
  BY <1>4, <1>7, StrayFacts
<1> add \in SUBSET Link /\ drop \in SUBSET Link /\ q \in Busy /\ n \in NoteIds
  BY <1>4, <1>7
<1>17. /\ Stale(r, {"content", "titled"}) => "vector" \in strayed'[n]
       /\ Stale(r, {"content"}) => "links" \in strayed'[n]
       /\ \A l \in add \cup drop : l.from = n
       /\ \/ /\ SyncOf(q, n, add, drop) /\ LinksFit(r, add)
             /\ Overlapped(r) => "links" \in strayed'[n]
          \/ /\ ~Syncs(q) /\ add = {} /\ drop = {}
             /\ q.call.via = "tool" /\ "content" \in Written(q) => "links" \in strayed'[n]
  BY <1>7, <1>15
<1>18. req'[r] = Moved(q, "synced", add, drop)
  BY <1>14 DEF p
<1>19. SyncMove(r, q, n, add, drop)
  BY <1>1, <1>3, <1>4, <1>6, <1>8, <1>9, <1>12, <1>13, <1>17, <1>18 DEF SyncMove
<1> WITNESS q \in Busy, n \in NoteIds, add \in SUBSET Link, drop \in SUBSET Link
<1> QED  BY <1>19

-----------------------------------------------------------------------------
(* A request ends *)

LEMMA StepOfEnd ==
    ASSUME TypeOK, NEW r \in Requests, NEW n \in NoteIds, req[r] # Idle, req[r].note = n, Ended(r),
           NEW x \in Note \cup {Absent, Deleted}, row' = [row EXCEPT ![n] = x],
           x = row[n] \/ (holder[n] = r /\ x # Absent),
           NEW S \in SUBSET {"file", "vector", "links"}, Stray(n, S), UNCHANGED file
    PROVE  /\ StepOf(r, n) /\ req'[r] = Idle /\ row'[n] = x
           /\ holder'[n] = IF holder[n] = r THEN Null ELSE holder[n]
<1>1. /\ strayed' \in [NoteIds -> SUBSET {"file", "vector", "links"}]
      /\ strayed[n] \subseteq strayed'[n]
      /\ \A m \in NoteIds \ {n} : strayed'[m] = strayed[m]
  BY StrayFacts
<1>2. /\ row' \in [NoteIds -> Note \cup {Absent, Deleted}] /\ row'[n] = x
      /\ \A m \in NoteIds \ {n} : row'[m] = row[m]
  BY DEF TypeOK
<1>3. /\ req' \in [Requests -> Busy \cup {Idle}] /\ req'[r] = Idle
      /\ \A p \in Requests \ {r} : req'[p] = req[p]
  BY DEF TypeOK, Ended
<1>4. r # Null
  BY Apart
<1>5. /\ holder' \in [NoteIds -> Requests \cup {Null}]
      /\ holder'[n] = IF holder[n] = r THEN Null ELSE holder[n]
      /\ \A m \in NoteIds \ {n} : holder'[m] = holder[m]
  BY <1>4 DEF TypeOK, Ended
<1>6. file' = file /\ file' \in [NoteIds -> Contents \cup {Null}]
  BY DEF TypeOK
<1> HIDE DEF TypeOK
<1> QED  BY <1>1, <1>2, <1>3, <1>4, <1>5, <1>6 DEF StepOf

Abandon(r) == FlushFails(r) \/ SyncFails(r) \/ Fail(r)

\* A new note is locked until its request ends.
LEMMA NewNoteLocked ==
    ASSUME TypeOK, NEW r \in Requests, req[r] # Idle, Work(r), req[r].seen = Absent
    PROVE  holder[req[r].note] = r /\ row[req[r].note] = Absent
<1>1. "content" \in Columns /\ req[r] \in Busy
  BY BusyFacts DEF Columns
<1> QED  BY <1>1, WrittenFacts DEF Work

LEMMA AbandonStep ==
    ASSUME TypeOK, WorkInv, NEW r \in Requests, Abandon(r)
    PROVE  \E q \in Busy, n \in NoteIds :
               /\ req[r] = q /\ q # Idle /\ q.note = n /\ req'[r] = Idle
               /\ holder'[n] = IF holder[n] = r THEN Null ELSE holder[n]
               /\ q.seen = Absent => row[n] = Absent /\ row'[n] = Deleted
               /\ q.seen # Absent => row'[n] = row[n]
               /\ UNCHANGED <<links, file, vector, calls>>
               /\ \/ UNCHANGED jobs
                  \/ /\ "vector" \in strayed'[n]
                     /\ jobs' = Append(jobs, [note |-> n, text |-> TextOf(q.new)])
               /\ "file" \in strayed'[n] \/ q.call.op = "toggle" \/ q.pc = "loaded"
               /\ "vector" \in strayed'[n] \/ q.call.op = "toggle" \/ q.pc \in {"loaded", "saved"}
               /\ StepOf(r, n) /\ TypeOK'
<1>1. PICK q : q = req[r]
  OBVIOUS
<1>2. PICK n : n = req[r].note
  OBVIOUS
<1>3. q # Idle
  BY <1>1 DEF Abandon, FlushFails, SyncFails, Fail, Idle
<1>4. /\ q \in Busy /\ n \in NoteIds /\ q.note = n /\ q.pc \in {"loaded", "saved", "synced"}
      /\ q.seen \in Note \cup {Absent} /\ q.new \in Note \cup {Deleted}
  BY <1>1, <1>2, <1>3, BusyFacts
<1>5. Work(r)
  BY <1>1, <1>3 DEF WorkInv
<1>6. q.pc # "synced" => q.call.op \notin {"toggle", "delete"} /\ q.new \in Note
  BY <1>1, <1>4, <1>5 DEF Work
<1>7. PICK S \in SUBSET {"file", "vector", "links"} :
         /\ Stray(n, S)
         /\ "file" \in S \/ q.call.op = "toggle" \/ q.pc = "loaded"
         /\ "vector" \in S \/ q.call.op = "toggle" \/ q.pc \in {"loaded", "saved"}
         /\ jobs' \in Seq(Job) /\ faults' \in 0..MaxFaults
         /\ \/ UNCHANGED jobs
            \/ "vector" \in S /\ jobs' = Append(jobs, [note |-> n, text |-> TextOf(q.new)])
  <2>1. jobs \in Seq(Job) /\ faults \in 0..MaxFaults /\ MaxFaults \in Nat
    BY Apart DEF TypeOK
  <2>2. CASE FlushFails(r)
    <3>1. q.pc = "loaded" /\ UNCHANGED <<jobs, faults, strayed>>
      BY <1>1, <2>2 DEF FlushFails
    <3>2. Stray(n, {})
      BY <1>4, <3>1, StrayNone
    <3> QED  BY <2>1, <3>1, <3>2
  <2>3. CASE SyncFails(r)
    <3>1. /\ q.pc = "saved" /\ Stray(n, {"file", "vector"}) /\ UNCHANGED faults
          /\ UNCHANGED jobs \/ Queue(n, TextOf(q.new))
      BY <1>1, <1>2, <2>3 DEF SyncFails
    <3>2. UNCHANGED jobs \/ jobs' = Append(jobs, [note |-> n, text |-> TextOf(q.new)])
      BY <3>1 DEF Queue
    <3>3. jobs' \in Seq(Job)
      BY <1>4, <1>6, <2>1, <3>1, QueueTyped, TextTyped
    <3> QED  BY <2>1, <3>1, <3>2, <3>3
  <2>4. CASE Fail(r)
    <3>1. Stray(n, LeftOver(q)) /\ UNCHANGED jobs /\ faults < MaxFaults /\ faults' = faults + 1
      BY <1>1, <1>2, <2>4 DEF Fail
    <3>2. /\ LeftOver(q) \in SUBSET {"file", "vector", "links"}
          /\ "file" \in LeftOver(q) \/ q.call.op = "toggle" \/ q.pc = "loaded"
          /\ "vector" \in LeftOver(q) \/ q.call.op = "toggle" \/ q.pc \in {"loaded", "saved"}
      BY <1>4 DEF LeftOver
    <3> QED  BY <2>1, <3>1, <3>2
  <2> QED  BY <2>2, <2>3, <2>4 DEF Abandon
<1>8. RollBack(r)
  BY DEF Abandon, FlushFails, SyncFails, Fail
<1> DEFINE x == IF q.seen = Absent THEN Deleted ELSE row[n]
<1>9. /\ Ended(r) /\ UNCHANGED <<links, file, vector, calls>> /\ row' = [row EXCEPT ![n] = x]
  BY <1>1, <1>2, <1>4, <1>8 DEF RollBack, RolledBack, TypeOK
<1>10. x \in Note \cup {Absent, Deleted} /\ (x = row[n] \/ (holder[n] = r /\ x # Absent))
  BY <1>1, <1>2, <1>3, <1>4, <1>5, NewNoteLocked, Apart DEF TypeOK
<1> HIDE DEF x
<1>11. /\ StepOf(r, n) /\ req'[r] = Idle /\ row'[n] = x
       /\ holder'[n] = IF holder[n] = r THEN Null ELSE holder[n]
  BY <1>1, <1>2, <1>3, <1>4, <1>7, <1>9, <1>10, StepOfEnd
<1>12. TypeOK'
  BY <1>4, <1>7, <1>9, <1>11, StepTyped DEF TypeOK
<1>13. strayed'[n] = strayed[n] \cup S
  BY <1>4, <1>7, StrayFacts
<1>14. /\ "file" \in strayed'[n] \/ q.call.op = "toggle" \/ q.pc = "loaded"
       /\ "vector" \in strayed'[n] \/ q.call.op = "toggle" \/ q.pc \in {"loaded", "saved"}
       /\ \/ UNCHANGED jobs
          \/ /\ "vector" \in strayed'[n]
             /\ jobs' = Append(jobs, [note |-> n, text |-> TextOf(q.new)])
  BY <1>7, <1>13
<1>15. /\ q.seen = Absent => row[n] = Absent /\ row'[n] = Deleted
       /\ q.seen # Absent => row'[n] = row[n]
  BY <1>1, <1>2, <1>3, <1>5, <1>11, NewNoteLocked DEF x
<1> q \in Busy /\ n \in NoteIds
  BY <1>4
<1> WITNESS q \in Busy, n \in NoteIds
<1> QED  BY <1>1, <1>3, <1>4, <1>9, <1>11, <1>12, <1>14, <1>15

LEMMA UnlinkedTyped == ASSUME NEW S \in SUBSET Link, NEW n PROVE Unlinked(S, n) \subseteq Link
BY DEF Unlinked, Link

CommitMove(r, q, n) ==
    /\ req[r] = q /\ q # Idle /\ q.note = n /\ q.pc = "synced" /\ req'[r] = Idle
    /\ holder'[n] = IF holder[n] = r THEN Null ELSE holder[n]
    /\ row'[n] = Outcome(q, row[n])
    /\ holder[n] = r \/ (Written(q) = {} /\ Outcome(q, row[n]) = row[n] /\ q.new \in Note)
    /\ links' = IF q.new = Deleted THEN Unlinked(links, n)
                ELSE {l \in links : \A k \in q.drop : ~SameRow(l, k)} \cup q.add
    /\ UNCHANGED <<file, vector, jobs, calls, faults, strayed>>
    /\ StepOf(r, n) /\ TypeOK'

LEMMA CommitStep ==
    ASSUME TypeOK, WorkInv, NEW r \in Requests, Commit(r)
    PROVE  \E q \in Busy, n \in NoteIds : CommitMove(r, q, n)
<1>1. PICK q : q = req[r]
  OBVIOUS
<1>2. PICK n : n = req[r].note
  OBVIOUS
<1>3. q # Idle /\ q.pc = "synced"
  BY <1>1 DEF Commit, Idle
<1>4. /\ q \in Busy /\ n \in NoteIds /\ q.note = n /\ q.add \subseteq Link
      /\ q.seen \in Note \cup {Absent} /\ q.new \in Note \cup {Deleted}
  BY <1>1, <1>2, <1>3, BusyFacts
<1>5. Work(r)
  BY <1>1, <1>3 DEF WorkInv
<1> DEFINE x == Outcome(q, row[n])
<1>6. /\ Ended(r) /\ UNCHANGED <<file, vector, jobs, calls, faults, strayed>>
      /\ row' = [row EXCEPT ![n] = x]
      /\ links' = IF q.new = Deleted THEN Unlinked(links, n)
                  ELSE {l \in links : \A k \in q.drop : ~SameRow(l, k)} \cup q.add
  BY <1>1, <1>2, <1>4 DEF Commit, Outcome, TypeOK
<1>7. row[n] \in Note \cup {Absent, Deleted}
  BY <1>4 DEF TypeOK
<1>10. links' \subseteq Link
  <2>1. links \subseteq Link
    BY DEF TypeOK
  <2>2. CASE q.new = Deleted
    BY <1>6, <2>1, <2>2, UnlinkedTyped
  <2>3. CASE q.new # Deleted
    BY <1>4, <1>6, <2>1, <2>3
  <2> QED  BY <2>2, <2>3
<1>8. CASE holder[n] = r
  <2>1. q.new = Deleted => x = Deleted
    BY <1>4, <1>7, OutcomeFacts
  <2>2. q.new \in Note => x \in Note
    <3>1. q.seen = Absent \/ row[n] \in Note
      BY <1>1, <1>2, <1>5, <1>8 DEF Work, Exists
    <3> QED  BY <1>4, <1>7, <3>1, OutcomeFacts
  <2>3. x \in Note \cup {Absent, Deleted} /\ x # Absent
    BY <1>4, <2>1, <2>2, Apart
  <2> HIDE DEF x
  <2>4. Stray(n, {})
    BY <1>4, <1>6, StrayNone
  <2>5. /\ StepOf(r, n) /\ req'[r] = Idle /\ row'[n] = x
        /\ holder'[n] = IF holder[n] = r THEN Null ELSE holder[n]
    BY <1>1, <1>2, <1>3, <1>4, <1>6, <1>8, <2>3, <2>4, StepOfEnd
  <2>6. links' \subseteq Link
    BY <1>10
  <2>7. TypeOK'
    <3>1. vector' \in [NoteIds -> Text \cup {Null}] /\ jobs' \in Seq(Job)
      BY <1>6 DEF TypeOK
    <3>2. calls' \in 0..MaxCalls /\ faults' \in 0..MaxFaults
      BY <1>6 DEF TypeOK
    <3> QED  BY <1>4, <2>5, <2>6, <3>1, <3>2, StepTyped
  <2> q \in Busy /\ n \in NoteIds
    BY <1>4
  <2> WITNESS q \in Busy, n \in NoteIds
  <2> QED  BY <1>1, <1>3, <1>4, <1>6, <1>8, <2>5, <2>7 DEF x, CommitMove
<1>9. CASE holder[n] # r
  <2>1. Written(q) = {}
    BY <1>1, <1>2, <1>3, <1>5, <1>9 DEF Work
  <2>2. "content" \in Columns
    BY DEF Columns
  <2>3. q.new \in Note /\ x = row[n]
    BY <1>4, <1>7, <2>1, <2>2, WrittenFacts, OutcomeFacts
  <2> HIDE DEF x
  <2>4. Stray(n, {})
    BY <1>4, <1>6, StrayNone
  <2>5. /\ StepOf(r, n) /\ req'[r] = Idle /\ row'[n] = x
        /\ holder'[n] = IF holder[n] = r THEN Null ELSE holder[n]
    <3>1. x \in Note \cup {Absent, Deleted} /\ (x = row[n] \/ (holder[n] = r /\ x # Absent))
      BY <1>7, <2>3
    <3>2. req[r] # Idle /\ req[r].note = n /\ {} \in SUBSET {"file", "vector", "links"}
      BY <1>1, <1>2, <1>3
    <3> QED  BY <1>4, <1>6, <2>4, <3>1, <3>2, StepOfEnd
  <2>6. links' \subseteq Link
    BY <1>10
  <2>7. TypeOK'
    <3>1. vector' \in [NoteIds -> Text \cup {Null}] /\ jobs' \in Seq(Job)
      BY <1>6 DEF TypeOK
    <3>2. calls' \in 0..MaxCalls /\ faults' \in 0..MaxFaults
      BY <1>6 DEF TypeOK
    <3> QED  BY <1>4, <2>5, <2>6, <3>1, <3>2, StepTyped
  <2> q \in Busy /\ n \in NoteIds
    BY <1>4
  <2> WITNESS q \in Busy, n \in NoteIds
  <2> QED  BY <1>1, <1>3, <1>4, <1>6, <2>1, <2>3, <2>5, <2>7 DEF x, CommitMove
<1> QED  BY <1>8, <1>9

-----------------------------------------------------------------------------
(* Links, their keys and their copies while no link row changes *)

LEMMA StrayedGrows ==
    ASSUME TypeOK, NEW r \in Requests, NEW n \in NoteIds, StepOf(r, n), NEW m \in NoteIds
    PROVE  strayed[m] \subseteq strayed'[m]
BY DEF StepOf

LEMMA LinksKept ==
    ASSUME TypeOK, WorkInv, LinksInv, NEW r \in Requests, NEW n \in NoteIds, StepOf(r, n),
           UNCHANGED links, row'[n] = row[n] \/ row'[n] = Deleted,
           req'[r] # Idle /\ "links" \notin strayed'[n] =>
               /\ Synced(r)' /\ Alone(r)'
               /\ req'[r].pc = "synced" /\ req'[r].new # Deleted =>
                     \A p \in Requests \ {r} : req[p] # Idle /\ req[p].note = n /\ Relinks(req[p]) =>
                         ~Relinks(req'[r]) /\ "content" \notin Written(req'[r])
    PROVE  LinksInv'
<1>1. ASSUME NEW m \in NoteIds PROVE row'[m] = row[m] \/ (row'[m] = Deleted /\ m = n /\ holder[m] = r)
  BY DEF StepOf
<1>2. ASSUME NEW m \in NoteIds, "links" \notin strayed'[m] PROVE Committed(m)'
  <2>1. Committed(m)
    BY <1>2, StrayedGrows DEF LinksInv
  <2> QED  BY <1>1, <2>1, Apart DEF Committed, Exists, Existing
<1>3. ASSUME NEW p \in Requests \ {r}, req'[p] # Idle, "links" \notin strayed'[req'[p].note]
      PROVE  Synced(p)' /\ Alone(p)'
  <2>1. req'[p] = req[p] /\ req[p] # Idle
    BY <1>3 DEF StepOf
  <2>2. PICK q : q = req[p]
    OBVIOUS
  <2>3. q \in Busy /\ q.note \in NoteIds /\ req'[p] = q
    BY <2>1, <2>2, BusyFacts
  <2>4. Synced(p) /\ Alone(p) /\ Work(p)
    BY <1>3, <2>1, <2>2, <2>3, StrayedGrows DEF LinksInv, WorkInv
  <2>5. q.seen = Absent => holder[q.note] = p
    BY <2>1, <2>2, <2>4, NewNoteLocked
  <2>6. Synced(p)'
    <3>1. row'[q.note] = row[q.note] \/ (row'[q.note] = Deleted /\ q.seen # Absent)
      BY <1>1, <2>3, <2>5
    <3>2. CASE row'[q.note] = row[q.note]
      BY <2>2, <2>3, <2>4, <3>2 DEF Synced, Exists, LinksAfter, Existing
    <3>3. CASE row'[q.note] = Deleted /\ q.seen # Absent
      BY <2>3, <3>3, Apart DEF Synced, Exists
    <3> QED  BY <3>1, <3>2, <3>3
  <2>7. Alone(p)'
    <3> SUFFICES ASSUME Relinks(q), NEW o \in Requests \ {p}, req'[o] # Idle, req'[o].note = q.note,
                        req'[o].pc = "synced", req'[o].new # Deleted
                 PROVE  ~Relinks(req'[o]) /\ "content" \notin Written(req'[o])
      BY <2>3 DEF Alone
    <3>1. CASE o # r
      <4>1. req'[o] = req[o]
        BY <3>1 DEF StepOf
      <4> QED  BY <2>2, <2>4, <4>1 DEF Alone
    <3>2. CASE o = r
      <4>1. q.note = n
        BY <3>2 DEF StepOf
      <4> QED  BY <1>3, <2>1, <2>2, <2>3, <3>2, <4>1
    <3> QED  BY <3>1, <3>2
  <2> QED  BY <2>6, <2>7
<1>4. ASSUME req'[r] # Idle, "links" \notin strayed'[req'[r].note] PROVE Synced(r)' /\ Alone(r)'
  BY <1>4 DEF StepOf
<1> QED  BY <1>2, <1>3, <1>4 DEF LinksInv

LEMMA KeysKept ==
    ASSUME TypeOK, WorkInv, KeysInv, NEW r \in Requests, NEW n \in NoteIds, StepOf(r, n),
           UNCHANGED links, Exists(n) => row'[n] = row[n],
           req'[r] # Idle => Anchored(r)',
           req'[r] # Idle /\ req'[r].new = Deleted =>
               \A p \in Requests \ {r} : req[p] # Idle => n \notin Touched(req[p].add)
    PROVE  KeysInv'
<1>1. \A m \in NoteIds : Exists(m) => Exists(m)'
  BY DEF StepOf, Exists
<1>2. ASSUME NEW l \in links', NEW m \in Touched({l}) PROVE Exists(m)'
  <2>1. l \in Link /\ m \in NoteIds
    BY DEF TypeOK, Link, Touched
  <2> QED  BY <1>1, <2>1 DEF KeysInv
<1>3. ASSUME NEW p \in Requests \ {r}, req'[p] # Idle PROVE Anchored(p)'
  <2>1. req'[p] = req[p] /\ req[p] # Idle
    BY <1>3 DEF StepOf
  <2>2. PICK q : q = req[p]
    OBVIOUS
  <2>3. q \in Busy /\ q.note \in NoteIds /\ req'[p] = q /\ q.add \subseteq Link
    BY <2>1, <2>2, BusyFacts
  <2>4. Anchored(p)
    BY <2>1 DEF KeysInv
  <2> SUFFICES ASSUME q.add # {}
               PROVE  /\ Exists(q.note)' \/ q.seen = Absent
                      /\ \A m \in Touched(q.add) : ~Deleting(m, p)' /\ (m = q.note \/ Exists(m)')
    BY <2>3 DEF Anchored
  <2>5. Exists(q.note)' \/ q.seen = Absent
    BY <1>1, <2>2, <2>3, <2>4 DEF Anchored
  <2>6. ASSUME NEW m \in Touched(q.add) PROVE ~Deleting(m, p)' /\ (m = q.note \/ Exists(m)')
    <3>1. m \in NoteIds
      BY <2>3 DEF Link, Touched
    <3>2. ~Deleting(m, p) /\ (m = q.note \/ Exists(m))
      BY <2>2, <2>4, <2>6 DEF Anchored
    <3>3. ASSUME NEW o \in Requests \ {p}, req'[o] # Idle, req'[o].note = m, req'[o].new = Deleted
          PROVE  FALSE
      <4>1. CASE o # r
        <5>1. req'[o] = req[o]
          BY <4>1 DEF StepOf
        <5> QED  BY <3>2, <3>3, <5>1 DEF Deleting
      <4>2. CASE o = r
        <5>1. m = n
          BY <3>3, <4>2 DEF StepOf
        <5> QED  BY <2>1, <2>2, <2>6, <3>3, <4>2, <5>1
      <4> QED  BY <4>1, <4>2
    <3> QED  BY <1>1, <3>1, <3>2, <3>3 DEF Deleting
  <2> QED  BY <2>5, <2>6
<1> QED  BY <1>2, <1>3 DEF KeysInv

LinkRows == links \cup UNION {req[q].add \cup req[q].drop : q \in {p \in Requests : req[p] # Idle}}

LEMMA CopiesTyped ==
    ASSUME TypeOK, NEW n, NEW t
    PROVE  /\ UsedCopies(n, t) = {l.copy : l \in {k \in LinkRows : k.from = n /\ k.text = t}}
           /\ UsedCopies(n, t) \subseteq 1..MaxCopies /\ IsFiniteSet(UsedCopies(n, t))
           /\ Cardinality(UsedCopies(n, t)) \in Nat
<1>1. UsedCopies(n, t) = {l.copy : l \in {k \in LinkRows : k.from = n /\ k.text = t}}
  BY DEF UsedCopies, LinkRows
<1>2. LinkRows \subseteq Link
  <2>1. \A p \in Requests : req[p] # Idle => req[p].add \subseteq Link /\ req[p].drop \subseteq Link
    BY BusyFacts
  <2> QED  BY <2>1 DEF LinkRows, TypeOK
<1>3. UsedCopies(n, t) \subseteq 1..MaxCopies
  BY <1>1, <1>2 DEF Link
<1>4. IsFiniteSet(1..MaxCopies)
  BY FS_Interval, Apart
<1> QED  BY <1>1, <1>3, <1>4, FS_Subset, FS_CardinalityType

\* No new pair of a note and a text, and no more calls under way than calls.
LEMMA CopiesKept ==
    ASSUME TypeOK, TypeOK', CopiesInv,
           \A l \in LinkRows' : \E k \in LinkRows : SameRow(l, k),
           \/ Unsynced' \subseteq Unsynced /\ calls' = calls
           \/ \E r \in Requests : Unsynced' \subseteq Unsynced \cup {r} /\ calls' = calls + 1
    PROVE  CopiesInv'
<1>1. /\ IsFiniteSet(Unsynced) /\ Cardinality(Unsynced) \in Nat /\ calls \in Nat
      /\ \A n \in NoteIds, t \in LinkTexts :
            Cardinality(UsedCopies(n, t)) + Cardinality(Unsynced) <= calls
  BY FS_CardinalityType, Apart DEF CopiesInv, TypeOK
<1>2. /\ IsFiniteSet(Unsynced') /\ Cardinality(Unsynced') \in Nat
      /\ Cardinality(Unsynced') - calls' <= Cardinality(Unsynced) - calls
  <2>1. CASE Unsynced' \subseteq Unsynced /\ calls' = calls
    <3>1. IsFiniteSet(Unsynced') /\ Cardinality(Unsynced') <= Cardinality(Unsynced)
      BY <1>1, <2>1, FS_Subset
    <3> QED  BY <1>1, <2>1, <3>1, FS_CardinalityType
  <2>2. CASE \E r \in Requests : Unsynced' \subseteq Unsynced \cup {r} /\ calls' = calls + 1
    <3>1. PICK r \in Requests : Unsynced' \subseteq Unsynced \cup {r} /\ calls' = calls + 1
      BY <2>2
    <3>2. /\ IsFiniteSet(Unsynced \cup {r})
          /\ Cardinality(Unsynced \cup {r}) = Cardinality(Unsynced)
             \/ Cardinality(Unsynced \cup {r}) = Cardinality(Unsynced) + 1
      BY <1>1, FS_AddElement
    <3>3. IsFiniteSet(Unsynced') /\ Cardinality(Unsynced') <= Cardinality(Unsynced \cup {r})
      BY <3>1, <3>2, FS_Subset
    <3> QED  BY <1>1, <3>1, <3>2, <3>3, FS_CardinalityType
  <2> QED  BY <2>1, <2>2
<1>3. ASSUME NEW n \in NoteIds, NEW t \in LinkTexts
      PROVE  Cardinality(UsedCopies(n, t)') + Cardinality(Unsynced') <= calls'
  <2>1. UsedCopies(n, t)' \subseteq UsedCopies(n, t)
    <3>1. UsedCopies(n, t)' = {l.copy : l \in {k \in LinkRows' : k.from = n /\ k.text = t}}
      BY DEF UsedCopies, LinkRows
    <3>2. UsedCopies(n, t) = {l.copy : l \in {k \in LinkRows : k.from = n /\ k.text = t}}
      BY CopiesTyped
    <3> QED  BY <3>1, <3>2 DEF SameRow
  <2>2. /\ IsFiniteSet(UsedCopies(n, t)) /\ Cardinality(UsedCopies(n, t)) \in Nat
    BY CopiesTyped
  <2>3. /\ IsFiniteSet(UsedCopies(n, t)')
        /\ Cardinality(UsedCopies(n, t)') <= Cardinality(UsedCopies(n, t))
    BY <2>1, <2>2, FS_Subset
  <2>4. Cardinality(UsedCopies(n, t)') \in Nat
    BY <2>3, FS_CardinalityType
  <2>5. calls' \in Nat
    BY Apart DEF TypeOK
  <2> QED  BY <1>1, <1>2, <2>2, <2>3, <2>4, <2>5
<1> QED  BY <1>2, <1>3 DEF CopiesInv

-----------------------------------------------------------------------------
(* A call begins *)

\* A request without links adds no link row.
LEMMA RowsOfStep ==
    ASSUME TypeOK, NEW r \in Requests, NEW n \in NoteIds, StepOf(r, n), UNCHANGED links,
           req'[r] = Idle \/ (req'[r].add = {} /\ req'[r].drop = {})
    PROVE  \A l \in LinkRows' : \E k \in LinkRows : SameRow(l, k)
<1>1. ASSUME NEW p \in Requests, req'[p] # Idle, NEW l \in req'[p].add \cup req'[p].drop
      PROVE  p # r /\ req'[p] = req[p]
  BY <1>1 DEF StepOf
<1>2. LinkRows' \subseteq LinkRows
  BY <1>1 DEF LinkRows
<1> QED  BY <1>2 DEF SameRow

LEMMA UnsyncedOfStep ==
    ASSUME NEW r \in Requests, NEW n \in NoteIds, StepOf(r, n)
    PROVE  /\ Unsynced' \subseteq Unsynced \cup {r}
           /\ req'[r] = Idle \/ req'[r].pc = "synced" \/ r \in Unsynced => Unsynced' \subseteq Unsynced
BY DEF Unsynced, StepOf

\* What a call that begins does to links and locks.
LEMMA BeginKeeps ==
    ASSUME IInv, NEW r \in Requests, NEW n \in NoteIds, StepOf(r, n), TypeOK',
           NEW c \in Calls, NEW pc \in {"loaded", "saved", "synced"}, NEW seen \in Note \cup {Absent},
           NEW new \in Note \cup {Deleted},
           req[r] = Idle, req'[r] = Begun(c, n, pc, seen, new),
           calls' = calls + 1, UNCHANGED <<row, links>>,
           new = Deleted => \A p \in Requests : req[p] # Idle => n \notin Touched(req[p].add),
           pc = "synced" => new = Deleted \/ (seen \in Note /\ new = seen),
           Work(r)'
    PROVE  WorkInv' /\ LinksInv' /\ KeysInv' /\ CopiesInv'
<1> DEFINE q == Begun(c, n, pc, seen, new)
<1>1. /\ q.pc = pc /\ q.call = c /\ q.note = n /\ q.seen = seen /\ q.new = new
      /\ q.add = {} /\ q.drop = {} /\ q \in Busy
  BY DEF Begun, Busy
<1>2. req'[r] = q /\ q # Idle
  BY <1>1, IdleApart
<1> HIDE DEF q
<1>3. TypeOK /\ WorkInv /\ LinksInv /\ KeysInv /\ CopiesInv
  BY DEF IInv
<1>4. WorkInv'
  BY <1>3, WorkKept
<1>5. KeysInv'
  <2>1. Anchored(r)'
    BY <1>1, <1>2 DEF Anchored
  <2>2. Exists(n) => row'[n] = row[n]
    OBVIOUS
  <2> QED  BY <1>1, <1>2, <1>3, <2>1, <2>2, KeysKept
<1>6. CopiesInv'
  <2>1. \A l \in LinkRows' : \E k \in LinkRows : SameRow(l, k)
    BY <1>1, <1>2, <1>3, RowsOfStep
  <2>2. Unsynced' \subseteq Unsynced \cup {r}
    BY UnsyncedOfStep
  <2> QED  BY <1>3, <2>1, <2>2, CopiesKept
<1>7. LinksInv'
  <2>1. ~Relinks(q)
    BY <1>1 DEF Relinks
  <2>2. Alone(r)'
    BY <1>2, <2>1 DEF Alone
  <2>3. ASSUME pc = "synced", new # Deleted PROVE Written(q) = {}
    BY <1>1, <2>3, WrittenFacts, Apart
  <2>4. "links" \notin strayed'[n] => Synced(r)'
    <3> SUFFICES ASSUME "links" \notin strayed'[n], pc = "synced", new # Deleted,
                        Exists(n)' \/ seen = Absent
                 PROVE  Matches(LinksAfter(q)', Outcome(q, row'[n]).content)
      BY <1>1, <1>2 DEF Synced
    <3>1. Exists(n) /\ row'[n] = row[n]
      BY Apart DEF Exists
    <3>2. Committed(n)
      BY <1>3, StrayedGrows DEF LinksInv
    <3>3. LinksAfter(q)' = Existing(n)
      BY <1>1 DEF LinksAfter, Existing
    <3>4. Outcome(q, row'[n]) = row[n]
      BY <1>1, <2>3, <3>1, OutcomeFacts DEF Exists
    <3> QED  BY <3>1, <3>2, <3>3, <3>4 DEF Committed
  <2>5. row'[n] = row[n]
    OBVIOUS
  <2> QED  BY <1>1, <1>2, <1>3, <2>1, <2>2, <2>3, <2>4, <2>5, LinksKept
<1> QED  BY <1>4, <1>5, <1>6, <1>7

LEMMA CreateKeeps ==
    ASSUME IInv, NEW r \in Requests, NEW n \in NoteIds, NEW c \in Calls, CreateNote(r, n, c)
    PROVE  IInv'
<1>1. TypeOK /\ FileInv /\ VectorInv
  BY DEF IInv
<1>2. PICK new : new = [titled |-> c.titled, content |-> c.content, pinned |-> FALSE, done |-> FALSE]
  OBVIOUS
<1>3. /\ new \in Note /\ c.op = "create" /\ c.content \in Contents /\ new.content = c.content
      /\ req'[r] = Begun(c, n, "saved", Absent, new) /\ req[r] = Idle
      /\ row[n] = Absent /\ holder[n] = Null /\ holder'[n] = r /\ file'[n] = c.content
      /\ calls' = calls + 1 /\ UNCHANGED <<row, links, vector, jobs, faults, strayed>>
      /\ StepOf(r, n) /\ TypeOK'
  BY <1>1, <1>2, CreateStep
<1>4. PICK q : q = Begun(c, n, "saved", Absent, new)
  OBVIOUS
<1>5. /\ q.pc = "saved" /\ q.call = c /\ q.note = n /\ q.seen = Absent /\ q.new = new
      /\ q.add = {} /\ q.drop = {} /\ req'[r] = q /\ q \in Busy
  BY <1>3, <1>4 DEF Begun, Busy
<1>6. Work(r)'
  BY <1>3, <1>5, Apart DEF Work
<1>7. WorkInv' /\ LinksInv' /\ KeysInv' /\ CopiesInv'
  BY <1>3, <1>6, BeginKeeps, Apart
<1>8. FileInv'
  <2>1. Final(n)' = new
    BY <1>3, <1>5, OutcomeFacts, Apart DEF Final
  <2> QED  BY <1>1, <1>3, <2>1, FileKept DEF ContentOf
<1>9. VectorInv'
  <2>1. Queued(n)' = Queued(n)
    BY <1>3, <1>5 DEF Queued
  <2> QED  BY <1>1, <1>3, <2>1, VectorKept
<1> QED  BY <1>3, <1>7, <1>8, <1>9 DEF IInv

\* The step of a request that has no lock.
LEMMA SameFinal ==
    ASSUME TypeOK, NEW r \in Requests, NEW n \in NoteIds, StepOf(r, n),
           holder'[n] = holder[n], row'[n] = row[n], holder[n] # r
    PROVE  Final(n)' = Final(n) /\ Queued(n)' = Queued(n)
<1>1. CASE holder[n] = Null
  BY <1>1 DEF Final, Queued
<1>2. CASE holder[n] # Null
  <2>1. holder[n] \in Requests
    BY <1>2, HolderFacts
  <2>2. req'[holder[n]] = req[holder[n]]
    BY <2>1 DEF StepOf
  <2>3. Outcome(req[holder[n]], row[n])' = Outcome(req[holder[n]], row[n])
    BY <2>2
  <2> QED  BY <2>2, <2>3 DEF Final, Queued
<1> QED  BY <1>1, <1>2

LEMMA IdleHoldsNothing ==
    ASSUME TypeOK, NEW r \in Requests, req[r] = Idle, NEW n \in NoteIds
    PROVE  holder[n] # r
BY Apart DEF TypeOK

LEMMA LoadKeeps ==
    ASSUME IInv, NEW r \in Requests, NEW n \in NoteIds, NEW c \in Calls, LoadNote(r, n, c)
    PROVE  IInv'
<1>1. TypeOK /\ FileInv /\ VectorInv
  BY DEF IInv
<1>2. PICK new, seen : new = Edited(row[n], c) /\ seen = row[n]
  OBVIOUS
<1>3. /\ seen \in Note /\ new \in Note /\ c.op = "update"
      /\ c.content = Null => new.content = seen.content
      /\ req'[r] = Begun(c, n, "loaded", seen, new) /\ req[r] = Idle
      /\ calls' = calls + 1
      /\ UNCHANGED <<row, holder, links, file, vector, jobs, faults, strayed>>
      /\ StepOf(r, n) /\ TypeOK'
  BY <1>1, <1>2, LoadStep
<1>4. PICK q : q = Begun(c, n, "loaded", seen, new)
  OBVIOUS
<1>5. /\ q.pc = "loaded" /\ q.call = c /\ q.note = n /\ q.seen = seen /\ q.new = new
      /\ q.add = {} /\ q.drop = {} /\ req'[r] = q /\ q \in Busy
  BY <1>3, <1>4, Apart DEF Begun, Busy
<1>6. holder[n] # r
  BY <1>1, <1>3, IdleHoldsNothing
<1>7. Work(r)'
  BY <1>2, <1>3, <1>5, <1>6, Apart DEF Work, Exists
<1>8. WorkInv' /\ LinksInv' /\ KeysInv' /\ CopiesInv'
  BY <1>3, <1>7, BeginKeeps, Apart
<1>9. Final(n)' = Final(n) /\ Queued(n)' = Queued(n)
  BY <1>1, <1>3, <1>6, SameFinal
<1>10. FileInv'
  BY <1>1, <1>3, <1>9, FileKept DEF FileInv
<1>11. VectorInv'
  BY <1>1, <1>3, <1>9, VectorKept
<1> QED  BY <1>3, <1>8, <1>10, <1>11 DEF IInv

LEMMA ToggleKeeps ==
    ASSUME IInv, NEW r \in Requests, NEW n \in NoteIds, NEW c \in Calls, ToggleTodo(r, n, c)
    PROVE  IInv'
<1>1. TypeOK /\ FileInv /\ VectorInv
  BY DEF IInv
<1>2. PICK new \in Note :
         /\ row[n] \in Note /\ c.op = "toggle"
         /\ req'[r] = Begun(c, n, "synced", new, new) /\ req[r] = Idle
         /\ holder[n] = Null /\ holder'[n] = r
         /\ calls' = calls + 1
         /\ UNCHANGED <<row, links, file, vector, jobs, faults, strayed>>
         /\ StepOf(r, n) /\ TypeOK'
  BY <1>1, ToggleStep
<1>3. PICK q : q = Begun(c, n, "synced", new, new)
  OBVIOUS
<1>4. /\ q.pc = "synced" /\ q.call = c /\ q.note = n /\ q.seen = new /\ q.new = new
      /\ q.add = {} /\ q.drop = {} /\ req'[r] = q /\ q \in Busy
  BY <1>2, <1>3, Apart DEF Begun, Busy
<1>5. Work(r)'
  BY <1>2, <1>4, Apart DEF Work, Exists
<1>6. WorkInv' /\ LinksInv' /\ KeysInv' /\ CopiesInv'
  BY <1>2, <1>5, BeginKeeps, Apart
<1>7. Outcome(q, row[n]) = row[n]
  BY <1>2, <1>4, WrittenFacts, OutcomeFacts
<1>8. Final(n)' = Final(n) /\ Queued(n)' = Queued(n)
  BY <1>2, <1>4, <1>7, Apart DEF Final, Queued
<1>9. FileInv'
  BY <1>1, <1>2, <1>8, FileKept DEF FileInv
<1>10. VectorInv'
  BY <1>1, <1>2, <1>8, VectorKept
<1> QED  BY <1>2, <1>6, <1>9, <1>10 DEF IInv

LEMMA DeleteKeeps ==
    ASSUME IInv, NEW r \in Requests, NEW n \in NoteIds, NEW c \in Calls, DeleteNote(r, n, c)
    PROVE  IInv'
<1>1. TypeOK /\ FileInv /\ VectorInv
  BY DEF IInv
<1>2. PICK seen : seen = row[n]
  OBVIOUS
<1>3. /\ seen \in Note /\ c.op = "delete"
      /\ req'[r] = Begun(c, n, "synced", seen, Deleted) /\ req[r] = Idle
      /\ holder[n] = Null /\ holder'[n] = r /\ file'[n] = Null
      /\ \A p \in Requests : req[p] # Idle => \A l \in req[p].add : n \notin {l.from, l.target}
      /\ jobs' = Append(jobs, [note |-> n, text |-> Null])
      /\ calls' = calls + 1 /\ UNCHANGED <<row, links, vector, faults, strayed>>
      /\ StepOf(r, n) /\ TypeOK'
  BY <1>1, <1>2, DeleteStep
<1>4. PICK q : q = Begun(c, n, "synced", seen, Deleted)
  OBVIOUS
<1>5. /\ q.pc = "synced" /\ q.call = c /\ q.note = n /\ q.seen = seen /\ q.new = Deleted
      /\ q.add = {} /\ q.drop = {} /\ req'[r] = q /\ q \in Busy
  BY <1>3, <1>4, Apart DEF Begun, Busy
<1>6. Work(r)'
  BY <1>2, <1>3, <1>5, Apart DEF Work, Exists
<1>7. \A p \in Requests : req[p] # Idle => n \notin Touched(req[p].add)
  BY <1>3 DEF Touched
<1>8. WorkInv' /\ LinksInv' /\ KeysInv' /\ CopiesInv'
  BY <1>3, <1>6, <1>7, BeginKeeps, Apart
<1>9. Final(n)' = Deleted /\ Queued(n)' = Deleted
  BY <1>3, <1>5, Apart DEF Outcome, Final, Queued
<1>10. FileInv'
  BY <1>1, <1>3, <1>9, FileKept, Apart DEF ContentOf
<1>11. VectorInv'
  <2>1. ResultOf(Null) = EmbeddingOf(Deleted)
    BY Apart DEF ResultOf, EmbeddingOf
  <2> QED  BY <1>1, <1>3, <1>9, <2>1, VectorQueued
<1> QED  BY <1>3, <1>8, <1>10, <1>11 DEF IInv

-----------------------------------------------------------------------------
(* The flush and the sync *)

LEMMA NotStale ==
    ASSUME NEW r \in Requests, NEW q \in Busy, req[r] = q, NEW columns, ~Stale(r, columns),
           NEW c \in columns \ Written(q)
    PROVE  holder[q.note] \in {Null, r} /\ Exists(q.note) /\ row[q.note][c] = q.seen[c]
BY DEF Stale

\* The outcome of a request whose object is not stale has the content of the object.
LEMMA FreshContent ==
    ASSUME TypeOK, NEW r \in Requests, NEW q \in Busy, req[r] = q, q.new \in Note,
           ~Stale(r, {"content"}), q.seen = Absent \/ Exists(q.note) \/ "content" \notin Written(q)
    PROVE  /\ Outcome(q, row[q.note]) \in Note
           /\ Outcome(q, row[q.note]).content = q.new.content
<1>1. q.note \in NoteIds /\ q.seen \in Note \cup {Absent} /\ row[q.note] \in Note \cup {Absent, Deleted}
  BY DEF Busy, TypeOK
<1>2. "content" \in Columns
  BY DEF Columns
<1>3. CASE "content" \in Written(q)
  BY <1>1, <1>3, OutcomeFacts DEF Exists
<1>4. CASE "content" \notin Written(q)
  <2>1. Exists(q.note) /\ row[q.note].content = q.seen.content
    BY <1>4, NotStale
  <2>2. q.seen \in Note /\ q.new.content = q.seen.content
    BY <1>1, <1>2, <1>4, WrittenFacts, Apart
  <2> QED  BY <1>1, <1>4, <2>1, <2>2, OutcomeFacts DEF Exists
<1> QED  BY <1>3, <1>4

LEMMA FreshTitle ==
    ASSUME TypeOK, NEW r \in Requests, NEW q \in Busy, req[r] = q, q.new \in Note,
           ~Stale(r, {"content", "titled"}), q.seen = Absent \/ Exists(q.note) \/ "titled" \notin Written(q)
    PROVE  Outcome(q, row[q.note]).titled = q.new.titled
<1>1. q.note \in NoteIds /\ q.seen \in Note \cup {Absent} /\ row[q.note] \in Note \cup {Absent, Deleted}
  BY DEF Busy, TypeOK
<1>2. "titled" \in Columns
  BY DEF Columns
<1>3. CASE "titled" \in Written(q)
  BY <1>1, <1>3, OutcomeFacts DEF Exists
<1>4. CASE "titled" \notin Written(q)
  <2>1. Exists(q.note) /\ row[q.note].titled = q.seen.titled
    BY <1>4, NotStale
  <2>2. q.seen \in Note /\ q.new.titled = q.seen.titled
    BY <1>1, <1>2, <1>4, WrittenFacts, Apart
  <2> QED  BY <1>1, <1>4, <2>1, <2>2, OutcomeFacts DEF Exists
<1> QED  BY <1>3, <1>4

LEMMA FlushKeeps ==
    ASSUME IInv, NEW r \in Requests, FlushNote(r)
    PROVE  IInv'
<1>1. TypeOK /\ WorkInv /\ FileInv /\ VectorInv /\ LinksInv /\ KeysInv /\ CopiesInv
  BY DEF IInv
<1>2. PICK q \in Busy, n \in NoteIds :
         /\ req[r] = q /\ q # Idle /\ q.note = n /\ q.pc = "loaded"
         /\ q.new \in Note /\ q.seen \in Note /\ q.add = {} /\ q.drop = {}
         /\ req'[r] = Moved(q, "saved", {}, {})
         /\ Written(q) = {} => holder'[n] = holder[n]
         /\ Written(q) # {} => holder[n] = Null /\ holder'[n] = r /\ Exists(n)
         /\ file'[n] = q.new.content
         /\ Stale(r, {"content"}) => "file" \in strayed'[n]
         /\ UNCHANGED <<row, links, vector, jobs, calls, faults>>
         /\ StepOf(r, n) /\ TypeOK'
  BY <1>1, FlushStep
<1>3. PICK p : p = Moved(q, "saved", {}, {})
  OBVIOUS
<1>4. /\ p \in Busy /\ p # Idle /\ p.pc = "saved" /\ p.add = {} /\ p.drop = {} /\ req'[r] = p
      /\ p.call = q.call /\ p.note = n /\ p.seen = q.seen /\ p.new = q.new
  BY <1>2, <1>3, MovedFacts
<1>5. Written(p) = Written(q) /\ \A old : Outcome(p, old) = Outcome(q, old)
  BY <1>4, SameOutcome
<1>6. Work(r) /\ holder[n] # r
  BY <1>1, <1>2 DEF WorkInv, Work
<1>7. Work(r)'
  BY <1>2, <1>4, <1>5, <1>6, Apart DEF Work, Exists
<1>8. WorkInv'
  BY <1>1, <1>2, <1>7, WorkKept
<1>9. FileInv'
  <2> SUFFICES ASSUME "file" \notin strayed'[n] PROVE file'[n] = ContentOf(Final(n)')
    BY <1>1, <1>2, FileKept
  <2>1. ~Stale(r, {"content"})
    BY <1>2
  <2>2. "content" \notin Written(q) => holder[n] = Null /\ Exists(n)
    BY <1>2, <1>6, <2>1, NotStale
  <2>3. Outcome(q, row[n]) \in Note /\ Outcome(q, row[n]).content = q.new.content
    BY <1>1, <1>2, <2>1, FreshContent
  <2>4. Final(n)' = Outcome(q, row[n])
    <3>1. CASE Written(q) # {}
      BY <1>2, <1>4, <1>5, <3>1, Apart DEF Final
    <3>2. CASE Written(q) = {}
      <4>1. holder'[n] = Null /\ Outcome(q, row[n]) = row[n]
        BY <1>2, <2>2, <3>2, OutcomeFacts DEF TypeOK
      <4> QED  BY <1>2, <4>1 DEF Final
    <3> QED  BY <3>1, <3>2
  <2> QED  BY <1>2, <2>3, <2>4 DEF ContentOf
<1>10. VectorInv'
  <2>1. Queued(n)' = Queued(n)
    <3>1. CASE Written(q) # {}
      BY <1>2, <1>4, <3>1, Apart DEF Queued
    <3>2. CASE Written(q) = {}
      BY <1>1, <1>2, <1>6, <3>2, SameFinal
    <3> QED  BY <3>1, <3>2
  <2> QED  BY <1>1, <1>2, <2>1, VectorKept
<1>11. LinksInv'
  <2>1. Synced(r)' /\ Alone(r)'
    BY <1>4 DEF Synced, Alone, Relinks
  <2>2. row'[n] = row[n]
    BY <1>2
  <2> QED  BY <1>1, <1>2, <1>4, <2>1, <2>2, LinksKept
<1>12. KeysInv'
  <2>1. Anchored(r)' /\ p.new # Deleted
    BY <1>2, <1>4, Apart DEF Anchored
  <2>2. row'[n] = row[n]
    BY <1>2
  <2> QED  BY <1>1, <1>2, <1>4, <2>1, <2>2, KeysKept
<1>13. CopiesInv'
  <2>1. \A l \in LinkRows' : \E k \in LinkRows : SameRow(l, k)
    BY <1>1, <1>2, <1>4, RowsOfStep
  <2>2. r \in Unsynced
    BY <1>2 DEF Unsynced
  <2>3. Unsynced' \subseteq Unsynced
    BY <1>2, <2>2, UnsyncedOfStep
  <2> QED  BY <1>1, <1>2, <2>1, <2>3, CopiesKept
<1> QED  BY <1>2, <1>8, <1>9, <1>10, <1>11, <1>12, <1>13 DEF IInv

\* The links that a sync adds.
LEMMA FirstFree ==
    ASSUME NEW U \in SUBSET (1..MaxCopies), U # 1..MaxCopies
    PROVE  \E c \in 1..MaxCopies : c \notin U /\ \A k \in 1..c - 1 : k \in U
<1> DEFINE S == (1..MaxCopies) \ U
<1>1. S # {} /\ S \in SUBSET Nat /\ \A k \in S : k \in 1..MaxCopies /\ k \notin U
  <2>1. \A k \in 1..MaxCopies : k \in Nat
    BY Apart
  <2>2. \E k \in 1..MaxCopies : k \notin U
    OBVIOUS
  <2> QED  BY <2>1, <2>2
<1>2. \A k \in 1..MaxCopies : k \in U \/ k \in S
  OBVIOUS
<1> HIDE DEF S
<1>3. IsWellFoundedOn(OpToRel(<, Nat), Nat)
  BY NatLessThanWellFounded
<1>4. PICK c \in S : \A k \in S : ~ (<<k, c>> \in OpToRel(<, Nat))
  BY <1>1, <1>3, WFMin
<1>5. \A k \in S : ~(k < c)
  BY <1>1, <1>4 DEF OpToRel
<1>6. c \in 1..MaxCopies /\ c \notin U
  BY <1>1, <1>4
<1>7. ASSUME NEW k \in 1..c - 1 PROVE k \in U
  <2>1. k \in 1..MaxCopies /\ k < c
    BY <1>6, Apart
  <2> QED  BY <1>2, <1>5, <2>1
<1> QED  BY <1>6, <1>7

LEMMA NewLinksFacts ==
    ASSUME TypeOK, NEW q \in Busy, q.new \in Note,
           \A t \in LinkTexts : UsedCopies(q.note, t) # 1..MaxCopies
    PROVE  /\ {l.text : l \in NewLinks(q)} = ToCreate(q.note, q.new.content)
           /\ \A l, k \in NewLinks(q) : l.text = k.text => l = k
<1>1. PICK n, T : n = q.note /\ T = ToCreate(q.note, q.new.content)
  OBVIOUS
<1>2. n \in NoteIds /\ q.new.content \in Contents /\ T \subseteq LinkTexts
  BY <1>1, Apart DEF Busy, Note, ToCreate
<1>3. \A t : UsedCopies(n, t) \subseteq 1..MaxCopies
  BY CopiesTyped
<1>4. NewLinks(q) =
         {l \in [from : {n}, text : T, target : NoteIds \cup {Null}, copy : 1..MaxCopies] :
             /\ l.target = Resolved(q, l.text)
             /\ l.copy \notin UsedCopies(n, l.text)
             /\ \A k \in 1..l.copy - 1 : k \in UsedCopies(n, l.text)}
  BY <1>1 DEF NewLinks
<1>5. ASSUME NEW t \in T PROVE \E l \in NewLinks(q) : l.text = t
  <2>1. UsedCopies(n, t) \in SUBSET (1..MaxCopies) /\ UsedCopies(n, t) # 1..MaxCopies
    BY <1>1, <1>2, <1>3
  <2>2. PICK c \in 1..MaxCopies : c \notin UsedCopies(n, t) /\ \A k \in 1..c - 1 : k \in UsedCopies(n, t)
    BY <2>1, FirstFree
  <2>3. Resolved(q, t) \in NoteIds \cup {Null}
    BY <1>1, <1>2 DEF Resolved
  <2>4. PICK l : l = [from |-> n, text |-> t, target |-> Resolved(q, t), copy |-> c]
    OBVIOUS
  <2>5. /\ l \in [from : {n}, text : T, target : NoteIds \cup {Null}, copy : 1..MaxCopies]
        /\ l.text = t /\ l.copy = c /\ l.target = Resolved(q, t)
    BY <2>3, <2>4
  <2> QED  BY <1>4, <2>2, <2>5
<1>6. ASSUME NEW l \in NewLinks(q) PROVE l.text \in T
  BY <1>4
<1>7. ASSUME NEW l \in NewLinks(q), NEW k \in NewLinks(q), l.text = k.text PROVE l = k
  <2>1. l.copy \in 1..MaxCopies /\ k.copy \in 1..MaxCopies /\ MaxCopies \in Nat
    BY <1>4, Apart
  <2>2. ~(l.copy < k.copy) /\ ~(k.copy < l.copy)
    <3>1. l.copy < k.copy => l.copy \in 1..k.copy - 1
      BY <2>1
    <3>2. k.copy < l.copy => k.copy \in 1..l.copy - 1
      BY <2>1
    <3> QED  BY <1>4, <1>7, <3>1, <3>2
  <2>3. l.copy = k.copy
    BY <2>1, <2>2
  <2>4. /\ l \in [from : {n}, text : T, target : NoteIds \cup {Null}, copy : 1..MaxCopies]
        /\ k \in [from : {n}, text : T, target : NoteIds \cup {Null}, copy : 1..MaxCopies]
        /\ l.target = k.target
    BY <1>4, <1>7
  <2> QED  BY <1>7, <2>3, <2>4
<1> QED  BY <1>1, <1>5, <1>6, <1>7

LEMMA SyncMatches ==
    ASSUME TypeOK, NEW q \in Busy, q.new \in Note, NEW n \in NoteIds, n = q.note,
           NEW add, NEW drop, SyncOf(q, n, add, drop),
           \A l, k \in Existing(n) : l.text = k.text => l = k,
           \A t \in LinkTexts : UsedCopies(n, t) # 1..MaxCopies
    PROVE  Matches({l \in Existing(n) : \A k \in drop : ~SameRow(l, k)} \cup add, q.new.content)
<1>1. PICK content, L : content = q.new.content /\ L = LinksOf[content]
  OBVIOUS
<1>2. content \in Contents /\ L \subseteq LinkTexts
  BY <1>1, Apart DEF Note
<1> DEFINE Kept == {l \in Existing(n) : \A k \in drop : ~SameRow(l, k)}
<1>3. /\ add = NewLinks(q) /\ drop \subseteq Existing(n) /\ MayDrop(n, content, drop)
  BY <1>1 DEF SyncOf
<1>4. /\ {l.text : l \in add} = ToCreate(n, content)
      /\ \A l, k \in add : l.text = k.text => l = k
  BY <1>1, <1>3, NewLinksFacts
<1>5. \A l : Fingerprint(l) \in ParsedFingerprints(content) <=> l.text \in L /\ l.target = Null
  BY <1>1 DEF Fingerprint, ParsedFingerprints
<1>6. \A l \in Existing(n) : l \in Kept <=> l.text \in L /\ l.target = Null
  <2>1. CASE L = {}
    <3>1. drop = Existing(n)
      BY <1>1, <1>3, <2>1 DEF MayDrop
    <3> QED  BY <2>1, <3>1 DEF SameRow
  <2>2. CASE L # {}
    <3> DEFINE old == {l \in Existing(n) : Fingerprint(l) \notin ParsedFingerprints(content)}
    <3>1. drop \subseteq old /\ {Fingerprint(l) : l \in drop} = {Fingerprint(l) : l \in old}
      BY <1>1, <1>3, <2>2 DEF MayDrop
    <3>2. ASSUME NEW l \in old PROVE l \in drop
      <4>1. PICK k \in drop : Fingerprint(k) = Fingerprint(l)
        BY <3>1
      <4>2. k.text = l.text
        BY <4>1 DEF Fingerprint
      <4> QED  BY <1>3, <4>2
    <3>3. \A l \in Existing(n) : l \in Kept <=> l \notin drop
      BY <1>3 DEF SameRow
    <3>4. \A l \in Existing(n) : l \in drop <=> Fingerprint(l) \notin ParsedFingerprints(content)
      BY <3>1, <3>2
    <3> QED  BY <1>5, <3>3, <3>4
  <2> QED  BY <2>1, <2>2
<1>7. Kept \subseteq Existing(n)
  OBVIOUS
<1> HIDE DEF Kept
<1>8. \A t : t \in ToCreate(n, content) <=> t \in L /\ \A l \in Kept : l.text # t
  <2>1. \A t : t \in ToCreate(n, content) <=>
                  t \in L /\ \A l \in Existing(n) : ~(l.text = t /\ l.target = Null)
    BY <1>1 DEF ToCreate, Fingerprint
  <2> QED  BY <1>6, <1>7, <2>1
<1>9. {l.text : l \in Kept \cup add} = L
  <2>1. \A l \in Kept \cup add : l.text \in L
    BY <1>4, <1>6, <1>7, <1>8
  <2>2. \A t \in L : \E l \in Kept \cup add : l.text = t
    BY <1>4, <1>8
  <2> QED  BY <2>1, <2>2
<1>10. ASSUME NEW l \in Kept \cup add, NEW k \in Kept \cup add, l.text = k.text PROVE l = k
  <2>1. CASE l \in Kept /\ k \in Kept
    BY <1>7, <1>10, <2>1
  <2>2. CASE l \in add /\ k \in add
    BY <1>4, <1>10, <2>2
  <2>3. CASE (l \in Kept /\ k \in add) \/ (l \in add /\ k \in Kept)
    BY <1>4, <1>8, <1>10, <2>3
  <2> QED  BY <2>1, <2>2, <2>3
<1> QED  BY <1>1, <1>9, <1>10 DEF Matches, Kept

\* A saved request that does not sync leaves the content, or strays.
LEMMA UnsyncedContent ==
    ASSUME TypeOK, NEW r \in Requests, NEW q \in Busy, req[r] = q, q # Idle, Work(r), q.pc = "saved",
           ~Syncs(q), ~(q.call.via = "tool" /\ "content" \in Written(q))
    PROVE  "content" \notin Written(q) /\ q.seen \in Note
<1>1. q.call \in Call /\ q.seen \in Note \cup {Absent} /\ q.new \in Note \cup {Deleted}
  BY BusyFacts
<1>2. q.call.op \in {"create", "update"}
  BY <1>1 DEF Work, Call
<1>3. /\ q.call.via \in {"rest", "tool"}
      /\ q.call.op = "create" => q.call.content \in Contents
  BY <1>1, <1>2 DEF Call
<1>4. CASE "content" \notin Written(q)
  BY <1>1, <1>4, WrittenFacts DEF Columns
<1>5. CASE q.call.via # "tool"
  <2>1. q.call.content = Null /\ q.call.op = "update"
    BY <1>2, <1>3, <1>5, Apart DEF Syncs
  <2>2. q.seen \in Note /\ q.new \in Note /\ q.new.content = q.seen.content
    BY <1>1, <2>1 DEF Work
  <2> QED  BY <2>2, WrittenFacts
<1> QED  BY <1>4, <1>5

\* Links that a sync adds have one copy each, which none had.
LEMMA SyncCopies ==
    ASSUME TypeOK, TypeOK', CopiesInv, NEW r \in Requests, r \in Unsynced,
           NEW add, NEW drop \in SUBSET links,
           \A l, k \in add : l.text = k.text => l = k,
           LinkRows' \subseteq LinkRows \cup add \cup drop,
           Unsynced' \subseteq Unsynced \ {r}, UNCHANGED calls
    PROVE  CopiesInv'
<1>1. /\ IsFiniteSet(Unsynced) /\ Cardinality(Unsynced) \in Nat /\ calls \in Nat
      /\ \A n \in NoteIds, t \in LinkTexts :
            Cardinality(UsedCopies(n, t)) + Cardinality(Unsynced) <= calls
  BY FS_CardinalityType, Apart DEF CopiesInv, TypeOK
<1>2. IsFiniteSet(Unsynced \ {r}) /\ Cardinality(Unsynced \ {r}) = Cardinality(Unsynced) - 1
  BY <1>1, FS_RemoveElement
<1>3. /\ IsFiniteSet(Unsynced') /\ Cardinality(Unsynced') \in Nat
      /\ Cardinality(Unsynced') <= Cardinality(Unsynced) - 1
  BY <1>1, <1>2, FS_Subset, FS_CardinalityType
<1>4. ASSUME NEW n \in NoteIds, NEW t \in LinkTexts
      PROVE  Cardinality(UsedCopies(n, t)') + Cardinality(Unsynced') <= calls'
  <2> DEFINE U == UsedCopies(n, t)
  <2>1. U = {l.copy : l \in {k \in LinkRows : k.from = n /\ k.text = t}}
    BY CopiesTyped
  <2>2. UsedCopies(n, t)' = {l.copy : l \in {k \in LinkRows' : k.from = n /\ k.text = t}}
    BY DEF UsedCopies, LinkRows
  <2>3. IsFiniteSet(U) /\ Cardinality(U) \in Nat
    BY CopiesTyped
  <2>4. drop \subseteq LinkRows
    BY DEF LinkRows
  <2>5. \E c : UsedCopies(n, t)' \subseteq U \cup {c}
    <3>1. CASE \E l \in add : l.text = t
      <4>1. PICK l \in add : l.text = t
        BY <3>1
      <4>2. UsedCopies(n, t)' \subseteq U \cup {l.copy}
        BY <2>1, <2>2, <2>4, <4>1
      <4> QED  BY <4>2
    <3>2. CASE \A l \in add : l.text # t
      <4>1. UsedCopies(n, t)' \subseteq U
        BY <2>1, <2>2, <2>4, <3>2
      <4> QED  BY <4>1
    <3> QED  BY <3>1, <3>2
  <2>6. PICK c : UsedCopies(n, t)' \subseteq U \cup {c}
    BY <2>5
  <2> HIDE DEF U
  <2>7. /\ IsFiniteSet(U \cup {c})
        /\ Cardinality(U \cup {c}) = Cardinality(U) \/ Cardinality(U \cup {c}) = Cardinality(U) + 1
    BY <2>3, FS_AddElement
  <2>8. IsFiniteSet(UsedCopies(n, t)') /\ Cardinality(UsedCopies(n, t)') <= Cardinality(U \cup {c})
    BY <2>6, <2>7, FS_Subset
  <2>9. Cardinality(UsedCopies(n, t)') \in Nat
    BY <2>8, FS_CardinalityType
  <2>10. Cardinality(U) + Cardinality(Unsynced) <= calls
    BY <1>1 DEF U
  <2> QED  BY <1>1, <1>3, <2>3, <2>7, <2>8, <2>9, <2>10
<1> QED  BY <1>3, <1>4 DEF CopiesInv

LEMMA FreeCopy ==
    ASSUME TypeOK, CopiesInv, NEW r \in Unsynced, NEW n \in NoteIds, NEW t \in LinkTexts
    PROVE  UsedCopies(n, t) # 1..MaxCopies
<1>1. /\ IsFiniteSet(Unsynced) /\ Cardinality(Unsynced) \in Nat /\ calls \in 0..MaxCalls
      /\ Cardinality(UsedCopies(n, t)) + Cardinality(Unsynced) <= calls
  BY FS_CardinalityType DEF CopiesInv, TypeOK
<1>2. Cardinality(Unsynced) # 0
  BY <1>1, FS_EmptySet
<1>3. Cardinality(1..MaxCopies) = MaxCopies
  <2>1. Cardinality(1..MaxCopies) = IF 1 > MaxCopies THEN 0 ELSE MaxCopies - 1 + 1
    BY FS_Interval, Apart
  <2> QED  BY <2>1, Apart
<1>4. Cardinality(UsedCopies(n, t)) \in Nat
  BY CopiesTyped
<1> QED  BY <1>1, <1>2, <1>3, <1>4, Apart

LEMMA SyncedRequest ==
    ASSUME TypeOK, WorkInv, NEW r \in Requests, NEW q \in Busy, NEW n \in NoteIds,
           NEW add \in SUBSET Link, NEW drop \in SUBSET Link, SyncMove(r, q, n, add, drop)
    PROVE  \E p \in Busy :
              /\ req'[r] = p /\ p # Idle /\ p.pc = "synced" /\ p.add = add /\ p.drop = drop
              /\ p.call = q.call /\ p.note = n /\ p.seen = q.seen /\ p.new = q.new
              /\ Written(p) = Written(q) /\ \A old : Outcome(p, old) = Outcome(q, old)
              /\ Work(r) /\ Work(r)'
<1>1. PICK p : p = Moved(q, "synced", add, drop)
  OBVIOUS
<1>2. /\ req[r] = q /\ q # Idle /\ q.note = n /\ q.pc = "saved" /\ q.new \in Note
      /\ req'[r] = p /\ UNCHANGED <<row, holder>>
      /\ \A l \in add \cup drop : l.from = n
  BY <1>1 DEF SyncMove
<1>3. /\ p \in Busy /\ p # Idle /\ p.pc = "synced" /\ p.add = add /\ p.drop = drop
      /\ p.call = q.call /\ p.note = n /\ p.seen = q.seen /\ p.new = q.new
  BY <1>1, <1>2, MovedFacts
<1>4. Written(p) = Written(q) /\ \A old : Outcome(p, old) = Outcome(q, old)
  BY <1>3, SameOutcome
<1>5. Work(r)
  BY <1>2 DEF WorkInv
<1>6. Work(r)'
  BY <1>2, <1>3, <1>4, <1>5 DEF Work, Exists
<1> p \in Busy
  BY <1>3
<1> WITNESS p \in Busy
<1> QED  BY <1>2, <1>3, <1>4, <1>5, <1>6

LEMMA SyncKeepsText ==
    ASSUME IInv, NEW r \in Requests, NEW q \in Busy, NEW n \in NoteIds,
           NEW add \in SUBSET Link, NEW drop \in SUBSET Link, SyncMove(r, q, n, add, drop)
    PROVE  WorkInv' /\ FileInv' /\ VectorInv'
<1>1. TypeOK /\ WorkInv /\ FileInv /\ VectorInv
  BY DEF IInv
<1>2. /\ req[r] = q /\ q # Idle /\ q.note = n /\ q.pc = "saved" /\ q.new \in Note
      /\ jobs' = Append(jobs, [note |-> n, text |-> TextOf(q.new)])
      /\ UNCHANGED <<row, holder, file, vector>> /\ StepOf(r, n)
      /\ Stale(r, {"content", "titled"}) => "vector" \in strayed'[n]
  BY DEF SyncMove
<1>3. PICK p \in Busy :
         /\ req'[r] = p /\ p.pc = "synced"
         /\ \A old : Outcome(p, old) = Outcome(q, old)
         /\ Work(r) /\ Work(r)'
  BY <1>1, SyncedRequest
<1>4. WorkInv'
  BY <1>1, <1>2, <1>3, WorkKept
<1>5. holder[n] = r => Final(n) = Outcome(q, row[n]) /\ Final(n)' = Outcome(q, row[n])
  BY <1>2, <1>3, Apart DEF Final
<1>6. FileInv'
  <2>1. Final(n)' = Final(n)
    BY <1>1, <1>2, <1>5, SameFinal
  <2>2. "file" \notin strayed'[n] => file'[n] = ContentOf(Final(n)')
    BY <1>1, <1>2, <2>1, StrayedGrows DEF FileInv
  <2> QED  BY <1>1, <1>2, <2>2, FileKept
<1>7. VectorInv'
  <2> SUFFICES ASSUME "vector" \notin strayed'[n]
               PROVE  ResultOf(TextOf(q.new)) = EmbeddingOf(Queued(n)')
    BY <1>1, <1>2, VectorQueued
  <2>1. ~Stale(r, {"content", "titled"}) /\ ~Stale(r, {"content"})
    BY <1>2 DEF Stale
  <2>2. /\ Queued(n)' = Outcome(q, row[n])
        /\ q.seen = Absent \/ Exists(n)
    <3>1. CASE holder[n] = r
      <4>1. Queued(n)' = Final(n)'
        BY <1>2, <1>3, <3>1, Apart DEF Queued
      <4> QED  BY <1>2, <1>3, <1>5, <3>1, <4>1 DEF Work
    <3>2. CASE holder[n] # r
      <4>1. Written(q) = {} /\ "content" \in {"content"} \ Written(q)
        BY <1>2, <1>3, <3>2 DEF Work
      <4>2. holder[n] = Null /\ Exists(n)
        BY <1>2, <2>1, <3>2, <4>1, NotStale
      <4>3. Queued(n)' = row[n]
        BY <1>2, <4>2 DEF Queued
      <4>4. Outcome(q, row[n]) = row[n]
        BY <4>1, <4>2, OutcomeFacts DEF Exists
      <4> QED  BY <4>2, <4>3, <4>4
    <3> QED  BY <3>1, <3>2
  <2>3. PICK x : x = Outcome(q, row[n])
    OBVIOUS
  <2>4. x \in Note /\ x.content = q.new.content
    BY <1>1, <1>2, <2>1, <2>2, <2>3, FreshContent
  <2>5. x.titled = q.new.titled
    BY <1>1, <1>2, <2>1, <2>2, <2>3, FreshTitle
  <2>6. TextOf(x) = TextOf(q.new) /\ TextOf(q.new) # Null
    BY <1>2, <2>4, <2>5, TextTyped, Apart DEF TextOf
  <2> QED  BY <2>2, <2>3, <2>4, <2>6 DEF ResultOf, EmbeddingOf
<1> QED  BY <1>4, <1>6, <1>7

LEMMA SyncKeepsLinks ==
    ASSUME IInv, NEW r \in Requests, NEW q \in Busy, NEW n \in NoteIds,
           NEW add \in SUBSET Link, NEW drop \in SUBSET Link, SyncMove(r, q, n, add, drop)
    PROVE  LinksInv'
<1>1. TypeOK /\ WorkInv /\ LinksInv /\ KeysInv /\ CopiesInv
  BY DEF IInv
<1>2. /\ req[r] = q /\ q # Idle /\ q.note = n /\ q.pc = "saved" /\ q.new \in Note
      /\ UNCHANGED <<row, holder, links>> /\ StepOf(r, n)
      /\ Stale(r, {"content"}) => "links" \in strayed'[n]
      /\ \/ /\ SyncOf(q, n, add, drop)
            /\ Overlapped(r) => "links" \in strayed'[n]
         \/ /\ ~Syncs(q) /\ add = {} /\ drop = {}
            /\ q.call.via = "tool" /\ "content" \in Written(q) => "links" \in strayed'[n]
  BY DEF SyncMove
<1>3. PICK p \in Busy :
         /\ req'[r] = p /\ p.pc = "synced" /\ p.add = add /\ p.drop = drop
         /\ p.note = n /\ p.seen = q.seen /\ p.new = q.new
         /\ Written(p) = Written(q) /\ \A old : Outcome(p, old) = Outcome(q, old)
         /\ Work(r)
  BY <1>1, SyncedRequest
<1> SUFFICES ASSUME "links" \notin strayed'[n]
             PROVE  /\ Synced(r)' /\ Alone(r)'
                    /\ \A o \in Requests \ {r} : req[o] # Idle /\ req[o].note = n /\ Relinks(req[o]) =>
                          ~Relinks(p) /\ "content" \notin Written(p)
  <2>1. StepOf(r, n) /\ UNCHANGED links /\ row'[n] = row[n]
    BY <1>2
  <2>2. TypeOK /\ WorkInv /\ LinksInv /\ req'[r] = p
    BY <1>1, <1>3
  <2> QED  BY <2>1, <2>2, LinksKept
<1>4. ~Stale(r, {"content"}) /\ Committed(n)
  BY <1>1, <1>2, StrayedGrows DEF LinksInv
<1>5. LinksAfter(p)' = {l \in Existing(n) : \A k \in drop : ~SameRow(l, k)} \cup add
  BY <1>2, <1>3 DEF LinksAfter, Existing
<1>6. CASE ~Syncs(q) /\ add = {} /\ drop = {} /\ ~(q.call.via = "tool" /\ "content" \in Written(q))
  <2>1. ~Relinks(p)
    BY <1>3, <1>6 DEF Relinks
  <2>2. "content" \notin Written(q) /\ q.seen \in Note
    BY <1>1, <1>2, <1>3, <1>6, UnsyncedContent
  <2>3. Synced(r)'
    <3> SUFFICES ASSUME Exists(n) PROVE Matches(Existing(n), Outcome(q, row[n]).content)
      <4>1. LinksAfter(p)' = Existing(n)
        BY <1>5, <1>6
      <4>2. q.seen # Absent /\ (Exists(n)' <=> Exists(n)) /\ row'[n] = row[n]
        BY <1>2, <2>2, Apart DEF Exists
      <4> QED  BY <1>3, <4>1, <4>2 DEF Synced
    <3>1. Outcome(q, row[n]).content = row[n].content
      BY <1>2, <2>2, OutcomeFacts DEF Exists
    <3> QED  BY <1>4, <3>1 DEF Committed
  <2> QED  BY <1>3, <2>1, <2>2, <2>3 DEF Alone
<1>7. CASE SyncOf(q, n, add, drop) /\ ~Overlapped(r)
  <2>1. \A o \in Requests \ {r} : req[o] # Idle /\ req[o].note = n => ~Relinks(req[o])
    BY <1>2, <1>7 DEF Overlapped, Relinks
  <2>2. ASSUME NEW o \in Requests \ {r}, req[o] # Idle, req[o].note = n, req[o].pc = "synced",
               "content" \in Written(req[o])
        PROVE  FALSE
    <3>1. holder[n] = o
      BY <1>1, <2>2 DEF WorkInv, Work
    <3>2. "content" \notin Written(q)
      BY <1>2, <1>3, <3>1 DEF Work
    <3>3. holder[n] \in {Null, r}
      BY <1>2, <1>4, <3>2, NotStale
    <3> QED  BY <3>1, <3>3, Apart
  <2>3. Alone(r)'
    <3> SUFFICES ASSUME NEW o \in Requests \ {r}, req'[o] # Idle, req'[o].note = n, req'[o].pc = "synced"
                 PROVE  ~Relinks(req'[o]) /\ "content" \notin Written(req'[o])
      BY <1>3 DEF Alone
    <3>1. req'[o] = req[o]
      BY <1>2 DEF StepOf
    <3> QED  BY <2>1, <2>2, <3>1
  <2>4. Synced(r)'
    <3> SUFFICES ASSUME Exists(n) \/ q.seen = Absent
                 PROVE  Matches({l \in Existing(n) : \A k \in drop : ~SameRow(l, k)} \cup add,
                                Outcome(q, row[n]).content)
      BY <1>2, <1>3, <1>5 DEF Synced, Exists
    <3>1. \A l, k \in Existing(n) : l.text = k.text => l = k
      <4>1. CASE Exists(n)
        BY <1>4, <4>1 DEF Committed, Matches
      <4>2. CASE ~Exists(n)
        BY <1>1, <4>2 DEF KeysInv, Existing, Touched
      <4> QED  BY <4>1, <4>2
    <3>2. r \in Unsynced
      BY <1>2 DEF Unsynced
    <3>3. \A t \in LinkTexts : UsedCopies(n, t) # 1..MaxCopies
      BY <1>1, <3>2, FreeCopy
    <3>4. Matches({l \in Existing(n) : \A k \in drop : ~SameRow(l, k)} \cup add, q.new.content)
      <4>1. n = q.note /\ SyncOf(q, n, add, drop) /\ q.new \in Note
        BY <1>2, <1>7
      <4> QED  BY <1>1, <3>1, <3>3, <4>1, SyncMatches, Zenon
    <3>5. Outcome(q, row[n]).content = q.new.content
      BY <1>1, <1>2, <1>4, FreshContent
    <3> QED  BY <3>4, <3>5
  <2> QED  BY <2>1, <2>3, <2>4
<1> QED  BY <1>2, <1>6, <1>7

LEMMA SyncKeepsKeys ==
    ASSUME IInv, NEW r \in Requests, NEW q \in Busy, NEW n \in NoteIds,
           NEW add \in SUBSET Link, NEW drop \in SUBSET Link, SyncMove(r, q, n, add, drop)
    PROVE  KeysInv' /\ CopiesInv'
<1>1. TypeOK /\ WorkInv /\ KeysInv /\ CopiesInv
  BY DEF IInv
<1>2. /\ req[r] = q /\ q # Idle /\ q.note = n /\ q.pc = "saved" /\ q.new \in Note
      /\ UNCHANGED <<row, holder, links, calls>> /\ StepOf(r, n) /\ TypeOK'
      /\ \A l \in add \cup drop : l.from = n
      /\ (SyncOf(q, n, add, drop) /\ LinksFit(r, add)) \/ (add = {} /\ drop = {})
  BY DEF SyncMove
<1>3. PICK p \in Busy :
         /\ req'[r] = p /\ p # Idle /\ p.pc = "synced" /\ p.add = add /\ p.drop = drop
         /\ p.note = n /\ p.seen = q.seen /\ p.new = q.new
  BY <1>1, SyncedRequest
<1>4. r \in Unsynced /\ r \notin Unsynced'
  BY <1>2, <1>3 DEF Unsynced
<1>5. Unsynced' \subseteq Unsynced \ {r}
  BY <1>2, <1>3, <1>4, UnsyncedOfStep
<1>6. Anchored(r)'
  <2> SUFFICES ASSUME add # {}
               PROVE  /\ Exists(n) \/ q.seen = Absent
                      /\ \A m \in Touched(add) : ~Deleting(m, r)' /\ (m = n \/ Exists(m))
    BY <1>2, <1>3 DEF Anchored, Exists
  <2>1. SyncOf(q, n, add, drop) /\ LinksFit(r, add)
    BY <1>2
  <2>2. n \in Touched(add)
    BY <1>2 DEF Touched
  <2>3. Exists(n) \/ q.seen = Absent
    BY <1>2, <2>1, <2>2 DEF LinksFit
  <2>4. ASSUME NEW m \in Touched(add) PROVE ~Deleting(m, r)'
    <3>1. ~Deleting(m, r)
      BY <2>1 DEF LinksFit
    <3> QED  BY <1>2, <3>1 DEF Deleting, StepOf
  <2>5. ASSUME NEW m \in Touched(add) PROVE m = n \/ Exists(m)
    <3>1. \A l \in add : l.target = Resolved(q, l.text)
      BY <2>1 DEF SyncOf, NewLinks
    <3>2. \A l \in add : l.target = Null \/ l.target = n \/ Exists(l.target)
      BY <1>2, <3>1 DEF Resolved
    <3> QED  BY <1>2, <3>2 DEF Touched
  <2> QED  BY <2>3, <2>4, <2>5
<1>7. KeysInv'
  <2>1. Exists(n) => row'[n] = row[n]
    BY <1>2
  <2>2. p.new # Deleted
    BY <1>2, <1>3, Apart
  <2> QED  BY <1>1, <1>2, <1>3, <1>6, <2>1, <2>2, KeysKept
<1>8. CASE SyncOf(q, n, add, drop)
  <2>1. \A t \in LinkTexts : UsedCopies(n, t) # 1..MaxCopies
    BY <1>1, <1>4, FreeCopy
  <2>2. \A l, k \in add : l.text = k.text => l = k
    BY <1>1, <1>2, <1>8, <2>1, NewLinksFacts DEF SyncOf
  <2>3. drop \in SUBSET links
    BY <1>8 DEF SyncOf, Existing
  <2>4. LinkRows' \subseteq LinkRows \cup add \cup drop
    <3>1. \A o \in Requests \ {r} : req'[o] = req[o]
      BY <1>2 DEF StepOf
    <3> QED  BY <1>2, <1>3, <3>1 DEF LinkRows
  <2> QED  BY <1>1, <1>2, <1>4, <1>5, <1>7, <2>2, <2>3, <2>4, SyncCopies
<1>9. CASE add = {} /\ drop = {}
  <2>1. \A l \in LinkRows' : \E k \in LinkRows : SameRow(l, k)
    BY <1>1, <1>2, <1>3, <1>9, RowsOfStep
  <2> QED  BY <1>1, <1>2, <1>5, <1>7, <2>1, CopiesKept
<1> QED  BY <1>2, <1>8, <1>9

LEMMA SyncKeeps ==
    ASSUME IInv, NEW r \in Requests, SyncAndEmbed(r)
    PROVE  IInv'
<1>1. TypeOK /\ WorkInv
  BY DEF IInv
<1>2. PICK q \in Busy, n \in NoteIds, add \in SUBSET Link, drop \in SUBSET Link :
         SyncMove(r, q, n, add, drop)
  BY <1>1, SyncStep
<1>3. TypeOK'
  BY <1>2 DEF SyncMove
<1> QED
  BY <1>2, <1>3, SyncKeepsText, SyncKeepsLinks, SyncKeepsKeys DEF IInv

-----------------------------------------------------------------------------
(* A request that ends without its commit *)

LEMMA AbandonKeeps ==
    ASSUME IInv, NEW r \in Requests, Abandon(r)
    PROVE  IInv'
<1>1. TypeOK /\ WorkInv /\ FileInv /\ VectorInv /\ LinksInv /\ KeysInv /\ CopiesInv
  BY DEF IInv
<1>2. PICK q \in Busy, n \in NoteIds :
         /\ req[r] = q /\ q # Idle /\ q.note = n /\ req'[r] = Idle
         /\ holder'[n] = IF holder[n] = r THEN Null ELSE holder[n]
         /\ q.seen = Absent => row[n] = Absent /\ row'[n] = Deleted
         /\ q.seen # Absent => row'[n] = row[n]
         /\ UNCHANGED <<links, file, vector, calls>>
         /\ \/ UNCHANGED jobs
            \/ /\ "vector" \in strayed'[n]
               /\ jobs' = Append(jobs, [note |-> n, text |-> TextOf(q.new)])
         /\ "file" \in strayed'[n] \/ q.call.op = "toggle" \/ q.pc = "loaded"
         /\ "vector" \in strayed'[n] \/ q.call.op = "toggle" \/ q.pc \in {"loaded", "saved"}
         /\ StepOf(r, n) /\ TypeOK'
  BY <1>1, AbandonStep
<1>3. /\ Work(r) /\ q.seen \in Note \cup {Absent} /\ q.new \in Note \cup {Deleted}
      /\ row[n] \in Note \cup {Absent, Deleted}
  BY <1>1, <1>2, BusyFacts DEF WorkInv, TypeOK
<1>4. q.call.op = "toggle" => q.seen \in Note /\ Outcome(q, row[n]) = row[n]
  <2>1. q.call.op = "toggle" => q.seen \in Note /\ q.new = q.seen
    BY <1>2, <1>3 DEF Work
  <2> QED  BY <1>3, <2>1, WrittenFacts, OutcomeFacts
<1>5. q.pc = "loaded" => q.seen \in Note /\ holder[n] # r
  BY <1>2, <1>3 DEF Work
<1>6. q.seen = Absent => holder[n] = r
  BY <1>1, <1>2, <1>3, NewNoteLocked
<1>7. holder[n] # r => Final(n)' = Final(n) /\ Queued(n)' = Queued(n)
  BY <1>1, <1>2, <1>6, SameFinal
<1>8. holder[n] = r => /\ Final(n) = Outcome(q, row[n]) /\ Final(n)' = row'[n] /\ Queued(n)' = row'[n]
                       /\ Queued(n) = IF q.pc = "synced" THEN Outcome(q, row[n]) ELSE row[n]
  BY <1>2, Apart DEF Final, Queued
<1>9. FileInv'
  <2> SUFFICES ASSUME "file" \notin strayed'[n] PROVE file'[n] = ContentOf(Final(n)')
    BY <1>1, <1>2, FileKept
  <2>1. Final(n)' = Final(n)
    BY <1>2, <1>4, <1>5, <1>7, <1>8, Apart
  <2> QED  BY <1>1, <1>2, <2>1, StrayedGrows DEF FileInv
<1>10. VectorInv'
  <2>1. CASE UNCHANGED jobs
    <3> SUFFICES ASSUME "vector" \notin strayed'[n]
                 PROVE  EmbeddingOf(Queued(n)') = EmbeddingOf(Queued(n))
      BY <1>1, <1>2, <2>1, VectorKept
    <3>1. \/ Queued(n)' = Queued(n)
          \/ Queued(n)' = Deleted /\ Queued(n) = Absent
      BY <1>2, <1>4, <1>5, <1>7, <1>8, Apart
    <3> QED  BY <3>1, Apart DEF EmbeddingOf
  <2>2. CASE "vector" \in strayed'[n] /\ jobs' = Append(jobs, [note |-> n, text |-> TextOf(q.new)])
    BY <1>1, <1>2, <2>2, VectorQueued
  <2> QED  BY <1>2, <2>1, <2>2
<1>11. WorkInv'
  BY <1>1, <1>2, WorkKept
<1>12. LinksInv'
  <2>1. row'[n] = row[n] \/ row'[n] = Deleted
    BY <1>2
  <2> QED  BY <1>1, <1>2, <2>1, LinksKept
<1>13. KeysInv'
  <2>1. Exists(n) => row'[n] = row[n]
    BY <1>2, Apart DEF Exists
  <2> QED  BY <1>1, <1>2, <2>1, KeysKept
<1>14. CopiesInv'
  <2>1. \A l \in LinkRows' : \E k \in LinkRows : SameRow(l, k)
    BY <1>1, <1>2, RowsOfStep
  <2>2. Unsynced' \subseteq Unsynced
    BY <1>2, UnsyncedOfStep
  <2> QED  BY <1>1, <1>2, <2>1, <2>2, CopiesKept
<1> QED  BY <1>2, <1>9, <1>10, <1>11, <1>12, <1>13, <1>14 DEF IInv

-----------------------------------------------------------------------------
(* The commit *)

LEMMA CommitFacts ==
    ASSUME TypeOK, WorkInv, NEW r \in Requests, NEW q \in Busy, NEW n \in NoteIds, CommitMove(r, q, n)
    PROVE  /\ Work(r) /\ q.add \subseteq Link /\ \A l \in q.add \cup q.drop : l.from = n
           /\ q.seen \in Note \cup {Absent} /\ q.new \in Note \cup {Deleted}
           /\ row[n] \in Note \cup {Absent, Deleted}
           /\ q.new = Deleted => holder[n] = r /\ row'[n] = Deleted
           /\ q.new # Deleted => (Exists(n) \/ q.seen = Absent <=> Exists(n)')
           /\ q.new # Deleted => Existing(n)' = LinksAfter(q)
           /\ q.new # Deleted => \A m \in NoteIds \ {n} : Existing(m)' = Existing(m)
<1>1. /\ req[r] = q /\ q # Idle /\ q.note = n /\ row'[n] = Outcome(q, row[n])
      /\ holder[n] = r \/ (Written(q) = {} /\ Outcome(q, row[n]) = row[n] /\ q.new \in Note)
      /\ links' = IF q.new = Deleted THEN Unlinked(links, n)
                  ELSE {l \in links : \A k \in q.drop : ~SameRow(l, k)} \cup q.add
  BY DEF CommitMove
<1>2. /\ Work(r) /\ q.add \subseteq Link /\ q.seen \in Note \cup {Absent} /\ q.new \in Note \cup {Deleted}
      /\ row[n] \in Note \cup {Absent, Deleted}
  BY <1>1, BusyFacts DEF WorkInv, TypeOK
<1>3. \A l \in q.add \cup q.drop : l.from = n
  BY <1>1, <1>2 DEF Work
<1>4. q.new = Deleted => holder[n] = r /\ row'[n] = Deleted
  BY <1>1, <1>2, OutcomeFacts, Apart
<1>5. ASSUME q.new # Deleted PROVE Exists(n) \/ q.seen = Absent <=> Exists(n)'
  <2>1. Exists(n) \/ q.seen = Absent => Exists(n)'
    BY <1>1, <1>2, <1>5, OutcomeFacts DEF Exists
  <2>2. CASE holder[n] = r
    BY <1>1, <1>2, <2>1, <2>2 DEF Work
  <2>3. CASE holder[n] # r
    BY <1>1, <2>1, <2>3 DEF Exists
  <2> QED  BY <2>2, <2>3
<1>6. ASSUME q.new # Deleted PROVE Existing(n)' = LinksAfter(q)
  BY <1>1, <1>3, <1>6 DEF Existing, LinksAfter
<1>7. ASSUME q.new # Deleted, NEW m \in NoteIds \ {n} PROVE Existing(m)' = Existing(m)
  BY <1>1, <1>3, <1>7 DEF Existing, SameRow
<1> QED  BY <1>2, <1>3, <1>4, <1>5, <1>6, <1>7

LEMMA CommitKeepsText ==
    ASSUME IInv, NEW r \in Requests, NEW q \in Busy, NEW n \in NoteIds, CommitMove(r, q, n)
    PROVE  WorkInv' /\ FileInv' /\ VectorInv' /\ CopiesInv'
<1>1. TypeOK /\ WorkInv /\ FileInv /\ VectorInv /\ CopiesInv
  BY DEF IInv
<1>2. /\ req[r] = q /\ q # Idle /\ q.note = n /\ q.pc = "synced" /\ req'[r] = Idle
      /\ holder'[n] = IF holder[n] = r THEN Null ELSE holder[n]
      /\ row'[n] = Outcome(q, row[n])
      /\ holder[n] = r \/ Outcome(q, row[n]) = row[n]
      /\ links' = IF q.new = Deleted THEN Unlinked(links, n)
                  ELSE {l \in links : \A k \in q.drop : ~SameRow(l, k)} \cup q.add
      /\ UNCHANGED <<file, vector, jobs, calls, strayed>>
      /\ StepOf(r, n) /\ TypeOK'
  BY DEF CommitMove
<1>3. Final(n)' = Final(n) /\ Queued(n)' = Queued(n)
  <2>1. CASE holder[n] = r
    BY <1>2, <2>1, Apart DEF Final, Queued
  <2>2. CASE holder[n] # r
    BY <1>1, <1>2, <2>2, SameFinal
  <2> QED  BY <2>1, <2>2
<1>4. WorkInv'
  BY <1>1, <1>2, WorkKept
<1>5. FileInv'
  BY <1>1, <1>2, <1>3, FileKept DEF FileInv
<1>6. VectorInv'
  BY <1>1, <1>2, <1>3, VectorKept
<1>7. CopiesInv'
  <2>1. Unsynced' \subseteq Unsynced
    BY <1>2, UnsyncedOfStep
  <2>2. ASSUME NEW l \in links' PROVE \E k \in LinkRows : SameRow(l, k)
    <3>1. CASE q.new = Deleted
      <4>1. PICK k \in links : l = IF k.target = n THEN [k EXCEPT !.target = Null] ELSE k
        BY <1>2, <2>2, <3>1 DEF Unlinked
      <4>2. k \in Link
        BY <1>1 DEF TypeOK
      <4>3. SameRow(l, k)
        BY <4>1, <4>2 DEF SameRow, Link
      <4> QED  BY <4>3 DEF LinkRows
    <3>2. CASE q.new # Deleted
      <4>1. l \in LinkRows
        BY <1>2, <2>2, <3>2 DEF LinkRows
      <4> QED  BY <4>1 DEF SameRow
    <3> QED  BY <3>1, <3>2
  <2>3. ASSUME NEW p \in Requests, req'[p] # Idle, NEW l \in req'[p].add \cup req'[p].drop
        PROVE  l \in LinkRows
    <3>1. req'[p] = req[p]
      BY <1>2, <2>3 DEF StepOf
    <3> QED  BY <2>3, <3>1 DEF LinkRows
  <2>4. \A l \in LinkRows' : l \in links' \/ l \in LinkRows
    BY <2>3 DEF LinkRows
  <2>5. \A l \in LinkRows' : \E k \in LinkRows : SameRow(l, k)
    BY <2>2, <2>4 DEF SameRow
  <2> QED  BY <1>1, <1>2, <2>1, <2>5, CopiesKept
<1> QED  BY <1>4, <1>5, <1>6, <1>7

LEMMA CommitKeepsKeys ==
    ASSUME IInv, NEW r \in Requests, NEW q \in Busy, NEW n \in NoteIds, CommitMove(r, q, n)
    PROVE  KeysInv'
<1>1. TypeOK /\ WorkInv /\ KeysInv
  BY DEF IInv
<1>2. /\ req[r] = q /\ q # Idle /\ q.note = n /\ req'[r] = Idle /\ StepOf(r, n)
      /\ links' = IF q.new = Deleted THEN Unlinked(links, n)
                  ELSE {l \in links : \A k \in q.drop : ~SameRow(l, k)} \cup q.add
  BY DEF CommitMove
<1>3. /\ Work(r) /\ q.add \subseteq Link /\ \A l \in q.add : l.from = n
      /\ q.new # Deleted => (Exists(n) \/ q.seen = Absent <=> Exists(n)')
  BY <1>1, CommitFacts
<1>4. ASSUME NEW m \in NoteIds, Exists(m), m # n \/ q.new # Deleted PROVE Exists(m)'
  <2>1. CASE m = n
    BY <1>3, <1>4, <2>1
  <2>2. CASE m # n
    BY <1>2, <1>4, <2>2 DEF StepOf, Exists
  <2> QED  BY <2>1, <2>2
<1>5. ASSUME NEW l \in links', NEW m \in Touched({l}) PROVE Exists(m)'
  <2>1. links \subseteq Link
    BY <1>1 DEF TypeOK
  <2>2. CASE q.new = Deleted
    <3>1. PICK k \in links : k.from # n /\ l = IF k.target = n THEN [k EXCEPT !.target = Null] ELSE k
      BY <1>2, <1>5, <2>2 DEF Unlinked
    <3>2. k \in Link
      BY <2>1
    <3>3. l.from = k.from /\ (l.target = Null \/ (l.target = k.target /\ k.target # n))
      BY <3>1, <3>2 DEF Link
    <3>4. m # n /\ m \in Touched({k})
      BY <1>5, <3>1, <3>3 DEF Touched
    <3>5. m \in NoteIds /\ Exists(m)
      BY <1>1, <3>2, <3>4 DEF KeysInv, Touched, Link
    <3> QED  BY <1>4, <3>4, <3>5
  <2>3. CASE q.new # Deleted
    <3>1. CASE l \in links
      <4>1. m \in NoteIds /\ Exists(m)
        BY <1>1, <1>5, <2>1, <3>1 DEF KeysInv, Touched, Link
      <4> QED  BY <1>4, <2>3, <4>1
    <3>2. CASE l \in q.add
      <4>1. /\ Exists(n) \/ q.seen = Absent
            /\ m \in NoteIds /\ (m = n \/ Exists(m))
        <5>1. Anchored(r)
          BY <1>1, <1>2 DEF KeysInv
        <5>2. m \in Touched(q.add) /\ m \in NoteIds
          BY <1>3, <1>5, <3>2 DEF Touched, Link
        <5> QED  BY <1>2, <3>2, <5>1, <5>2 DEF Anchored
      <4> QED  BY <1>3, <1>4, <2>3, <4>1
    <3> QED  BY <1>2, <1>5, <2>3, <3>1, <3>2
  <2> QED  BY <2>2, <2>3
<1>6. ASSUME NEW p \in Requests, req'[p] # Idle PROVE Anchored(p)'
  <2>1. p # r /\ req'[p] = req[p] /\ req[p] # Idle
    BY <1>2, <1>6 DEF StepOf
  <2>2. PICK o : o = req[p]
    OBVIOUS
  <2>3. o \in Busy /\ o.note \in NoteIds /\ req'[p] = o /\ o.add \subseteq Link
    BY <1>1, <2>1, <2>2, BusyFacts
  <2>4. Anchored(p) /\ Work(p)
    BY <1>1, <2>1 DEF KeysInv, WorkInv
  <2> SUFFICES ASSUME o.add # {}
               PROVE  /\ Exists(o.note)' \/ o.seen = Absent
                      /\ \A m \in Touched(o.add) : ~Deleting(m, p)' /\ (m = o.note \/ Exists(m)')
    BY <2>3 DEF Anchored
  <2>5. o.note \in Touched(o.add)
    BY <2>2, <2>4 DEF Work, Touched
  <2>6. \A m \in Touched(o.add) : m \in NoteIds /\ ~Deleting(m, p) /\ (m = o.note \/ Exists(m))
    BY <2>2, <2>3, <2>4 DEF Anchored, Touched, Link
  <2>7. \A m \in Touched(o.add) : m # n \/ q.new # Deleted
    BY <1>2, <2>1, <2>6 DEF Deleting
  <2>8. Exists(o.note)' \/ o.seen = Absent
    <3>1. Exists(o.note) \/ o.seen = Absent
      BY <2>2, <2>4 DEF Anchored
    <3> QED  BY <1>4, <2>3, <2>5, <2>7, <3>1
  <2>9. ASSUME NEW m \in Touched(o.add) PROVE ~Deleting(m, p)'
    BY <1>2, <2>6 DEF Deleting, StepOf
  <2> QED  BY <1>4, <2>6, <2>7, <2>8, <2>9
<1> QED  BY <1>5, <1>6 DEF KeysInv

After(S, m, add, drop) == {l \in {k \in S : k.from = m} : \A k \in drop : ~SameRow(l, k)} \cup add

\* Beside the links of a deleted note, its deletion changes only targets.
LEMMA UnlinkedFacts ==
    ASSUME TypeOK, NEW n \in NoteIds, NEW m \in NoteIds, m # n, NEW add, NEW drop, NEW content,
           \A l \in add : l.target # n, Matches(After(links, m, add, drop), content)
    PROVE  Matches(After(Unlinked(links, n), m, add, drop), content)
<1> DEFINE Cut(l) == IF l.target = n THEN [l EXCEPT !.target = Null] ELSE l
           Old == {l \in {k \in links : k.from = m} : \A k \in drop : ~SameRow(l, k)}
           New == {l \in {k \in Unlinked(links, n) : k.from = m} : \A k \in drop : ~SameRow(l, k)}
<1>1. \A l \in links : /\ SameRow(Cut(l), l) /\ (l.target # n => Cut(l) = l)
  BY DEF TypeOK, Link, SameRow
<1>2. \A l : l \in Unlinked(links, n) <=> \E k \in links : k.from # n /\ l = Cut(k)
  BY DEF Unlinked
<1> HIDE DEF Cut
<1>3. \A l : l \in New <=> \E k \in Old : l = Cut(k)
  BY <1>1, <1>2 DEF SameRow
<1>4. \A k \in Old : k \in links /\ Cut(k).text = k.text
  BY <1>1 DEF SameRow
<1>5. /\ {l.text : l \in Old \cup add} = LinksOf[content]
      /\ \A l, k \in Old \cup add : l.text = k.text => l = k
  BY DEF Matches, After
<1> HIDE DEF Old, New
<1>6. \A l \in New \cup add : \E k \in Old \cup add : l.text = k.text
  BY <1>3, <1>4
<1>7. \A k \in Old \cup add : \E l \in New \cup add : l.text = k.text
  BY <1>3, <1>4
<1>8. {l.text : l \in New \cup add} = LinksOf[content]
  BY <1>5, <1>6, <1>7
<1>9. ASSUME NEW l \in New, NEW a \in add, l.text = a.text PROVE l = a
  <2>1. PICK k \in Old : l = Cut(k)
    BY <1>3
  <2>2. k = a
    BY <1>4, <1>5, <1>9, <2>1
  <2> QED  BY <1>1, <1>4, <2>1, <2>2
<1>10. \A l, k \in New : l.text = k.text => l = k
  BY <1>3, <1>4, <1>5
<1>11. \A l, k \in New \cup add : l.text = k.text => l = k
  BY <1>5, <1>9, <1>10
<1> QED  BY <1>8, <1>11 DEF Matches, After, New

LEMMA CommitKeepsLinks ==
    ASSUME IInv, NEW r \in Requests, NEW q \in Busy, NEW n \in NoteIds, CommitMove(r, q, n)
    PROVE  LinksInv'
<1>1. TypeOK /\ WorkInv /\ LinksInv /\ KeysInv
  BY DEF IInv
<1>2. /\ req[r] = q /\ q # Idle /\ q.note = n /\ q.pc = "synced" /\ req'[r] = Idle /\ StepOf(r, n)
      /\ row'[n] = Outcome(q, row[n]) /\ UNCHANGED strayed
      /\ holder[n] = r \/ (Written(q) = {} /\ Outcome(q, row[n]) = row[n] /\ q.new \in Note)
      /\ q.new = Deleted => links' = Unlinked(links, n)
  BY DEF CommitMove
<1>3. /\ Work(r) /\ q.seen \in Note \cup {Absent} /\ q.new \in Note \cup {Deleted}
      /\ row[n] \in Note \cup {Absent, Deleted}
      /\ q.new = Deleted => holder[n] = r /\ row'[n] = Deleted
      /\ q.new # Deleted => (Exists(n) \/ q.seen = Absent <=> Exists(n)')
      /\ q.new # Deleted => Existing(n)' = LinksAfter(q)
      /\ q.new # Deleted => \A m \in NoteIds \ {n} : Existing(m)' = Existing(m)
  BY <1>1, <1>2, CommitFacts
<1>4. q.new = Deleted => ~Exists(n)'
  BY <1>3, Apart DEF Exists
<1>5. \A m \in NoteIds \ {n} : row'[m] = row[m]
  BY <1>2 DEF StepOf
<1>6. ASSUME NEW m \in NoteIds, "links" \notin strayed'[m] PROVE Committed(m)'
  <2>1. Committed(m)
    BY <1>1, <1>2, <1>6 DEF LinksInv
  <2>2. CASE m = n
    <3> SUFFICES ASSUME Exists(n)' PROVE Matches(Existing(n)', row'[n].content)
      BY <2>2 DEF Committed
    <3>1. q.new # Deleted /\ (Exists(n) \/ q.seen = Absent)
      BY <1>3, <1>4
    <3>2. Synced(r)
      BY <1>1, <1>2, <1>6, <2>2 DEF LinksInv
    <3> QED  BY <1>2, <1>3, <3>1, <3>2 DEF Synced
  <2>3. CASE m # n
    <3> SUFFICES ASSUME Exists(m) PROVE Matches(Existing(m)', row[m].content)
      BY <1>5, <2>3 DEF Committed, Exists
    <3>1. Matches(Existing(m), row[m].content)
      BY <2>1 DEF Committed
    <3>2. CASE q.new = Deleted
      <4>1. Existing(m) = After(links, m, {}, {})
        BY DEF Existing, After
      <4>2. Existing(m)' = After(Unlinked(links, n), m, {}, {})
        BY <1>2, <3>2 DEF Existing, After
      <4> QED  BY <1>1, <2>3, <3>1, <4>1, <4>2, UnlinkedFacts
    <3>3. CASE q.new # Deleted
      BY <1>3, <2>3, <3>1, <3>3
    <3> QED  BY <3>2, <3>3
  <2> QED  BY <2>2, <2>3
<1>7. ASSUME NEW p \in Requests, req'[p] # Idle, "links" \notin strayed'[req'[p].note]
      PROVE  Synced(p)' /\ Alone(p)'
  <2>1. p # r /\ req'[p] = req[p] /\ req[p] # Idle
    BY <1>2, <1>7 DEF StepOf
  <2>2. PICK o : o = req[p]
    OBVIOUS
  <2>3. PICK m \in NoteIds : m = o.note
    BY <1>1, <2>1, <2>2, BusyFacts
  <2>4. /\ o \in Busy /\ req'[p] = o /\ o.note = m /\ o.seen \in Note \cup {Absent}
        /\ o.new \in Note \cup {Deleted}
    BY <1>1, <2>1, <2>2, <2>3, BusyFacts
  <2>5. Synced(p) /\ Alone(p) /\ Work(p) /\ Anchored(p) /\ "links" \notin strayed'[m]
    BY <1>1, <1>2, <1>7, <2>1, <2>2, <2>3 DEF LinksInv, WorkInv, KeysInv
  <2>6. Alone(p)'
    <3> SUFFICES ASSUME Relinks(o), NEW u \in Requests \ {p}, req'[u] # Idle, req'[u].note = m,
                        req'[u].pc = "synced", req'[u].new # Deleted
                 PROVE  ~Relinks(req'[u]) /\ "content" \notin Written(req'[u])
      BY <2>4 DEF Alone
    <3>1. req'[u] = req[u]
      BY <1>2 DEF StepOf
    <3> QED  BY <2>2, <2>4, <2>5, <3>1 DEF Alone
  <2>7. Synced(p)'
    <3> SUFFICES ASSUME o.pc = "synced", o.new # Deleted, Exists(m)' \/ o.seen = Absent
                 PROVE  Matches(LinksAfter(o)', Outcome(o, row'[m]).content)
      BY <2>4 DEF Synced
    <3>1. o.seen = Absent => holder[m] = p /\ row[m] = Absent
      BY <1>1, <2>1, <2>2, <2>4, <2>5, NewNoteLocked
    <3>2. LinksAfter(o)' = {l \in Existing(m)' : \A k \in o.drop : ~SameRow(l, k)} \cup o.add
      BY <2>4 DEF LinksAfter
    <3>3. LinksAfter(o) = {l \in Existing(m) : \A k \in o.drop : ~SameRow(l, k)} \cup o.add
      BY <2>4 DEF LinksAfter
    <3>4. CASE m # n
      <4>1. Matches(LinksAfter(o), Outcome(o, row[m]).content)
        BY <1>5, <2>2, <2>4, <2>5, <3>4 DEF Synced, Exists
      <4>2. row'[m] = row[m]
        BY <1>5, <3>4
      <4>3. CASE q.new # Deleted
        BY <1>3, <3>2, <3>3, <3>4, <4>1, <4>2, <4>3
      <4>4. CASE q.new = Deleted
        <5>1. \A l \in o.add : l.target # n
          <6>1. n \notin Touched(o.add)
            <7>1. Deleting(n, p)
              BY <1>2, <2>1, <4>4 DEF Deleting
            <7> QED  BY <2>2, <2>5, <7>1 DEF Anchored, Touched
          <6> QED  BY <6>1, Apart DEF Touched
        <5>2. LinksAfter(o) = After(links, m, o.add, o.drop)
          BY <3>3 DEF Existing, After
        <5>3. LinksAfter(o)' = After(Unlinked(links, n), m, o.add, o.drop)
          BY <1>2, <3>2, <4>4 DEF Existing, After
        <5> QED  BY <1>1, <3>4, <4>1, <4>2, <5>1, <5>2, <5>3, UnlinkedFacts
      <4> QED  BY <4>3, <4>4
    <3>5. CASE m = n
      <4>1. o.seen # Absent
        <5>1. SUFFICES ASSUME o.seen = Absent PROVE FALSE
          OBVIOUS
        <5>2. holder[n] # r /\ row[n] = Absent
          BY <2>1, <3>1, <3>5, <5>1
        <5>3. Written(q) = {} /\ q.seen = Absent
          BY <1>2, <1>3, <5>2 DEF Work
        <5> QED  BY <5>3, WrittenFacts DEF Columns
      <4>2. Exists(n)' /\ q.new # Deleted
        BY <1>4, <3>5, <4>1
      <4>3. Exists(n)
        <5>1. row[n] # Absent
          BY <2>2, <2>4, <2>5, <3>5, <4>1 DEF Work
        <5>2. q.seen # Absent
          BY <1>2, <1>3, <5>1 DEF Work
        <5> QED  BY <1>3, <4>2, <5>2
      <4>4. /\ Matches(LinksAfter(o), Outcome(o, row[n]).content)
            /\ Alone(r) /\ Committed(n)'
        BY <1>1, <1>2, <1>6, <2>2, <2>4, <2>5, <3>5, <4>3 DEF LinksInv, Synced
      <4>5. /\ row[n] \in Note /\ row'[n] \in Note /\ o.new \in Note /\ q.new \in Note
            /\ row'[n] = Outcome(q, row[n])
        BY <1>2, <1>3, <2>4, <4>2, <4>3 DEF Exists
      <4>6. /\ Outcome(o, row[n]).content = IF "content" \in Written(o) THEN o.new.content ELSE row[n].content
            /\ Outcome(o, row'[n]).content = IF "content" \in Written(o) THEN o.new.content ELSE row'[n].content
            /\ row'[n].content = IF "content" \in Written(q) THEN q.new.content ELSE row[n].content
        BY <2>4, <4>5, OutcomeFacts
      <4>7. ~Relinks(q) => Existing(n)' = Existing(n)
        BY <1>2, <1>3, <4>2 DEF LinksAfter, Relinks
      <4>8. CASE Relinks(o)
        <5>1. ~Relinks(q) /\ "content" \notin Written(q)
          BY <1>2, <2>1, <2>2, <2>4, <2>5, <3>5, <4>2, <4>8 DEF Alone
        <5> QED  BY <3>2, <3>3, <3>5, <4>4, <4>6, <4>7, <5>1
      <4>9. CASE ~Relinks(o) /\ "content" \notin Written(o)
        <5>1. LinksAfter(o)' = Existing(n)'
          BY <3>2, <3>5, <4>9 DEF Relinks
        <5>2. Matches(Existing(n)', row'[n].content)
          BY <4>2, <4>4 DEF Committed
        <5> QED  BY <3>5, <4>6, <4>9, <5>1, <5>2
      <4>10. CASE ~Relinks(o) /\ "content" \in Written(o)
        <5>1. holder[n] = p
          BY <2>2, <2>4, <2>5, <3>5, <4>10 DEF Work
        <5>2. ~Relinks(q)
          BY <1>2, <2>1, <2>2, <2>4, <3>5, <4>4, <4>10 DEF Alone
        <5>3. LinksAfter(o)' = LinksAfter(o)
          BY <3>2, <3>3, <3>5, <4>7, <5>2
        <5> QED  BY <3>5, <4>4, <4>6, <4>10, <5>3
      <4> QED  BY <4>8, <4>9, <4>10
    <3> QED  BY <3>4, <3>5
  <2> QED  BY <2>6, <2>7
<1> QED  BY <1>6, <1>7 DEF LinksInv

LEMMA CommitKeeps ==
    ASSUME IInv, NEW r \in Requests, Commit(r)
    PROVE  IInv'
<1>1. TypeOK /\ WorkInv
  BY DEF IInv
<1>2. PICK q \in Busy, n \in NoteIds : CommitMove(r, q, n)
  BY <1>1, CommitStep
<1>3. TypeOK'
  BY <1>2 DEF CommitMove
<1> QED
  BY <1>2, <1>3, CommitKeepsText, CommitKeepsKeys, CommitKeepsLinks DEF IInv

-----------------------------------------------------------------------------
(* The tasks *)

\* Neither rows, links and files nor requests change.
LEMMA RequestsKept ==
    ASSUME IInv, UNCHANGED <<row, holder, links, file, req, calls>>,
           \A n \in NoteIds : strayed[n] \subseteq strayed'[n]
    PROVE  /\ WorkInv' /\ FileInv' /\ LinksInv' /\ KeysInv' /\ CopiesInv'
           /\ \A n \in NoteIds : Queued(n)' = Queued(n)
<1>1. TypeOK /\ WorkInv /\ FileInv /\ LinksInv /\ KeysInv /\ CopiesInv
  BY DEF IInv
<1>2. \A n \in NoteIds : Final(n)' = Final(n)
  BY DEF Final, Outcome, Merged, Written
<1>3. \A n \in NoteIds : Queued(n)' = Queued(n)
  BY <1>2 DEF Queued
<1>4. WorkInv'
  BY <1>1 DEF WorkInv, Work, Exists, Written
<1>5. FileInv'
  BY <1>1, <1>2 DEF FileInv
<1>6. LinksInv'
  <2>1. \A n \in NoteIds : Committed(n)' <=> Committed(n)
    BY DEF Committed, Exists, Existing
  <2>2. \A r \in Requests : Synced(r)' <=> Synced(r)
    BY DEF Synced, Exists, LinksAfter, Existing, Outcome, Merged, Written
  <2>3. \A r \in Requests : Alone(r)' <=> Alone(r)
    BY DEF Alone
  <2>4. \A r \in Requests : req[r] # Idle => strayed[req[r].note] \subseteq strayed'[req[r].note]
    BY <1>1, BusyFacts
  <2> QED  BY <1>1, <2>1, <2>2, <2>3, <2>4 DEF LinksInv
<1>7. KeysInv'
  <2>1. \A r \in Requests : Anchored(r)' <=> Anchored(r)
    BY DEF Anchored, Exists, Deleting
  <2> QED  BY <1>1, <2>1 DEF KeysInv, Exists
<1>8. CopiesInv'
  <2>1. Unsynced' = Unsynced /\ \A n, t : UsedCopies(n, t)' = UsedCopies(n, t)
    BY DEF Unsynced, UsedCopies
  <2> QED  BY <1>1, <2>1 DEF CopiesInv
<1> QED  BY <1>3, <1>4, <1>5, <1>6, <1>7, <1>8

LEMMA WithoutFacts ==
    ASSUME TypeOK, NEW i \in 1..Len(jobs)
    PROVE  /\ Len(jobs) \in Nat /\ Without(i) \in Seq(Job) /\ Len(Without(i)) = Len(jobs) - 1
           /\ \A j \in 1..Len(jobs) - 1 : Without(i)[j] = IF j < i THEN jobs[j] ELSE jobs[j + 1]
<1>1. jobs \in Seq(Job) /\ Len(jobs) \in Nat
  BY DEF TypeOK
<1> DEFINE A == SubSeq(jobs, 1, i - 1)
           B == SubSeq(jobs, i + 1, Len(jobs))
<1>2. A \in Seq(Job) /\ Len(A) = i - 1 /\ \A j \in 1..i - 1 : A[j] = jobs[j]
  BY <1>1
<1>3. B \in Seq(Job) /\ Len(B) = Len(jobs) - i /\ \A j \in 1..Len(jobs) - i : B[j] = jobs[i + j]
  BY <1>1
<1>4. Without(i) = A \o B
  BY DEF Without
<1> HIDE DEF A, B
<1>5. A \o B \in Seq(Job) /\ Len(A \o B) = Len(jobs) - 1
  <2>1. A \in Seq(Job) /\ B \in Seq(Job)
    BY <1>2, <1>3
  <2>2. A \o B \in Seq(Job) /\ Len(A \o B) = Len(A) + Len(B)
    BY <2>1
  <2>3. Len(A) + Len(B) = Len(jobs) - 1
    BY <1>1, <1>2, <1>3
  <2> QED  BY <2>2, <2>3
<1>6. ASSUME NEW j \in 1..Len(jobs) - 1 PROVE (A \o B)[j] = IF j < i THEN jobs[j] ELSE jobs[j + 1]
  <2>1. CASE j < i
    BY <1>1, <1>2, <1>3, <2>1
  <2>2. CASE ~(j < i)
    <3>1. (A \o B)[j] = B[j - (i - 1)]
      BY <1>1, <1>2, <1>3, <2>2
    <3>2. j - (i - 1) \in 1..Len(jobs) - i /\ i + (j - (i - 1)) = j + 1
      BY <1>1, <2>2
    <3> QED  BY <1>3, <2>2, <3>1, <3>2
  <2> QED  BY <2>1, <2>2
<1> QED  BY <1>1, <1>4, <1>5, <1>6

\* A task that overtakes no other one of its note leaves the last ones.
LEMMA LastKept ==
    ASSUME TypeOK, NEW i \in 1..Len(jobs), jobs' = Without(i), NEW m \in NoteIds,
           m # jobs[i].note \/ \A j \in 1..i - 1 : jobs[j].note # m
    PROVE  /\ \A j \in 1..Len(jobs') :
                 LastJob(j, m)' => \E k \in 1..Len(jobs) : LastJob(k, m) /\ jobs[k].text = jobs'[j].text
           /\ ~Pending(m)' => ~Pending(m) \/ LastJob(i, m)
<1> DEFINE len == Len(jobs)
           Old(j) == IF j < i THEN j ELSE j + 1
<1>1. /\ len \in Nat /\ i \in 1..len /\ Len(jobs') = len - 1
      /\ \A j \in 1..len - 1 : jobs'[j] = IF j < i THEN jobs[j] ELSE jobs[j + 1]
  BY WithoutFacts
<1>2. m # jobs[i].note \/ \A j \in 1..i - 1 : jobs[j].note # m
  OBVIOUS
<1> HIDE DEF len
<1>3. \A j \in 1..len - 1 : Old(j) \in 1..len /\ Old(j) # i /\ jobs'[j] = jobs[Old(j)]
  BY <1>1
<1>4. \A k \in 1..len : k # i => \E j \in 1..len - 1 : k = Old(j)
  <2> SUFFICES ASSUME NEW k \in 1..len, k # i PROVE \E j \in 1..len - 1 : k = Old(j)
    OBVIOUS
  <2>1. CASE k < i
    <3>1. k \in 1..len - 1 /\ k = Old(k)
      BY <1>1, <2>1
    <3> QED  BY <3>1
  <2>2. CASE k > i
    <3>1. k - 1 \in 1..len - 1 /\ k = Old(k - 1)
      BY <1>1, <2>2
    <3> QED  BY <3>1
  <2> QED  BY <1>1, <2>1, <2>2
<1>5. \A j, k \in 1..len - 1 : Old(j) < Old(k) => j < k
  BY <1>1
<1> HIDE DEF Old
<1>6. ASSUME NEW j \in 1..len - 1, LastJob(j, m)' PROVE LastJob(Old(j), m)
  <2>1. jobs[Old(j)].note = m /\ Old(j) \in 1..len /\ Old(j) # i
    BY <1>3, <1>6 DEF LastJob
  <2>2. ASSUME NEW k \in Old(j) + 1..len PROVE jobs[k].note # m
    <3>1. k \in 1..len /\ Old(j) < k
      BY <1>1, <2>1
    <3>2. CASE k = i
      <4>1. Old(j) \in 1..i - 1
        BY <1>1, <2>1, <3>1, <3>2
      <4> QED  BY <1>2, <2>1, <3>2, <4>1
    <3>3. CASE k # i
      <4>1. PICK l \in 1..len - 1 : k = Old(l)
        BY <1>4, <3>1, <3>3
      <4>2. l \in j + 1..len - 1
        BY <1>1, <1>5, <3>1, <4>1
      <4>3. jobs'[l].note # m
        BY <1>1, <1>6, <4>2 DEF LastJob
      <4> QED  BY <1>3, <4>1, <4>3
    <3> QED  BY <3>2, <3>3
  <2> QED  BY <2>1, <2>2 DEF LastJob, len
<1>7. ASSUME ~Pending(m)' PROVE ~Pending(m) \/ LastJob(i, m)
  <2>1. ASSUME NEW k \in 1..len, k # i PROVE jobs[k].note # m
    <3>1. PICK j \in 1..len - 1 : k = Old(j)
      BY <1>4, <2>1
    <3>2. jobs'[j].note # m
      BY <1>1, <1>7 DEF Pending
    <3> QED  BY <1>3, <3>1, <3>2
  <2>2. \A k \in i + 1..len : k \in 1..len /\ k # i
    BY <1>1
  <2> QED  BY <2>1, <2>2 DEF Pending, LastJob, len
<1> QED  BY <1>1, <1>3, <1>6, <1>7 DEF len

LEMMA RunJobKeeps ==
    ASSUME IInv, NEW i \in 1..Len(jobs), RunJob(i)
    PROVE  IInv'
<1>1. TypeOK /\ VectorInv
  BY DEF IInv
<1>2. PICK n, text : n = jobs[i].note /\ text = jobs[i].text
  OBVIOUS
<1>3. n \in NoteIds /\ text \in Text \cup {Null} /\ jobs \in Seq(Job)
  <2>1. jobs[i] \in Job
    BY <1>1 DEF TypeOK
  <2> QED  BY <1>1, <1>2, <2>1 DEF Job, TypeOK
<1> DEFINE skipped == text # Null /\ Embedded(text) = Null
           overtakes == \E j \in 1..i - 1 : jobs[j].note = n
<1>4. /\ vector' = IF skipped THEN vector ELSE [vector EXCEPT ![n] = text]
      /\ IF overtakes \/ (skipped /\ vector[n] # Null) THEN Stray(n, {"vector"}) ELSE UNCHANGED strayed
      /\ jobs' = Without(i)
      /\ UNCHANGED <<row, holder, links, file, req, calls, faults>>
  BY <1>2 DEF RunJob, dbVars
<1>5. ~skipped => text = ResultOf(text)
  BY <1>3, Apart DEF Embedded, ResultOf
<1>6. skipped => ResultOf(text) = Null
  BY DEF ResultOf
<1> HIDE DEF skipped, overtakes
<1>7. PICK S \in SUBSET {"file", "vector", "links"} :
         Stray(n, S) /\ (overtakes \/ (skipped /\ vector[n] # Null) => "vector" \in S)
  BY <1>1, <1>3, <1>4, StrayNone
<1>8. /\ strayed' \in [NoteIds -> SUBSET {"file", "vector", "links"}]
      /\ strayed'[n] = strayed[n] \cup S
      /\ \A m \in NoteIds \ {n} : strayed'[m] = strayed[m]
  BY <1>1, <1>3, <1>7, StrayFacts
<1>9. /\ vector' \in [NoteIds -> Text \cup {Null}]
      /\ vector'[n] = IF skipped THEN vector[n] ELSE text
      /\ \A m \in NoteIds \ {n} : vector'[m] = vector[m]
  BY <1>1, <1>3, <1>4 DEF TypeOK
<1>10. jobs' \in Seq(Job)
  BY <1>1, <1>4, WithoutFacts
<1>11. TypeOK'
  BY <1>1, <1>4, <1>8, <1>9, <1>10 DEF TypeOK
<1>12. \A m \in NoteIds : strayed[m] \subseteq strayed'[m]
  BY <1>8
<1>13. /\ WorkInv' /\ FileInv' /\ LinksInv' /\ KeysInv' /\ CopiesInv'
       /\ \A m \in NoteIds : Queued(m)' = Queued(m)
  BY <1>4, <1>12, RequestsKept
<1>14. VectorInv'
  <2> SUFFICES ASSUME NEW m \in NoteIds, "vector" \notin strayed'[m]
               PROVE  /\ \A j \in 1..Len(jobs') :
                            LastJob(j, m)' => ResultOf(jobs'[j].text) = EmbeddingOf(Queued(m))
                      /\ ~Pending(m)' => vector'[m] = EmbeddingOf(Queued(m))
    BY <1>13 DEF VectorInv
  <2>1. /\ \A j \in 1..Len(jobs) : LastJob(j, m) => ResultOf(jobs[j].text) = EmbeddingOf(Queued(m))
        /\ ~Pending(m) => vector[m] = EmbeddingOf(Queued(m))
    BY <1>1, <1>12 DEF VectorInv
  <2>2. m = n => ~overtakes /\ ~(skipped /\ vector[n] # Null)
    BY <1>7, <1>8
  <2>3. m # jobs[i].note \/ \A j \in 1..i - 1 : jobs[j].note # m
    BY <1>2, <2>2 DEF overtakes
  <2>4. /\ \A j \in 1..Len(jobs') :
              LastJob(j, m)' => \E k \in 1..Len(jobs) : LastJob(k, m) /\ jobs[k].text = jobs'[j].text
        /\ ~Pending(m)' => ~Pending(m) \/ LastJob(i, m)
    BY <1>1, <1>4, <2>3, LastKept
  <2>5. ASSUME ~Pending(m)' PROVE vector'[m] = EmbeddingOf(Queued(m))
    <3>1. CASE m = n
      <4>1. LastJob(i, n)
        BY <1>2, <2>4, <2>5, <3>1 DEF Pending
      <4>2. ResultOf(text) = EmbeddingOf(Queued(n))
        BY <1>2, <2>1, <3>1, <4>1
      <4> QED  BY <1>5, <1>6, <1>9, <2>2, <3>1, <4>2
    <3>2. CASE m # n
      <4>1. ~Pending(m)
        BY <1>2, <2>4, <2>5, <3>2 DEF LastJob
      <4> QED  BY <1>9, <2>1, <3>2, <4>1
    <3> QED  BY <3>1, <3>2
  <2> QED  BY <2>1, <2>4, <2>5
<1> QED  BY <1>11, <1>13, <1>14 DEF IInv

LEMMA JobFailsKeeps ==
    ASSUME IInv, NEW i \in 1..Len(jobs), JobFails(i)
    PROVE  IInv'
<1>1. TypeOK /\ VectorInv
  BY DEF IInv
<1>2. PICK n : n = jobs[i].note
  OBVIOUS
<1>3. n \in NoteIds
  <2>1. jobs[i] \in Job
    BY <1>1 DEF TypeOK
  <2> QED  BY <1>2, <2>1 DEF Job
<1>4. /\ faults < MaxFaults /\ faults' = faults + 1 /\ Stray(n, {"vector"}) /\ jobs' = Without(i)
      /\ UNCHANGED <<row, holder, links, file, vector, req, calls>>
  BY <1>2 DEF JobFails, dbVars
<1>5. /\ strayed' \in [NoteIds -> SUBSET {"file", "vector", "links"}]
      /\ strayed'[n] = strayed[n] \cup {"vector"}
      /\ \A m \in NoteIds \ {n} : strayed'[m] = strayed[m]
  BY <1>1, <1>3, <1>4, StrayFacts
<1>6. jobs' \in Seq(Job)
  BY <1>1, <1>4, WithoutFacts
<1>7. faults' \in 0..MaxFaults
  BY <1>1, <1>4, Apart DEF TypeOK
<1>8. TypeOK'
  BY <1>1, <1>4, <1>5, <1>6, <1>7 DEF TypeOK
<1>9. \A m \in NoteIds : strayed[m] \subseteq strayed'[m]
  BY <1>5
<1>10. /\ WorkInv' /\ FileInv' /\ LinksInv' /\ KeysInv' /\ CopiesInv'
       /\ \A m \in NoteIds : Queued(m)' = Queued(m)
  BY <1>4, <1>9, RequestsKept
<1>11. VectorInv'
  <2> SUFFICES ASSUME NEW m \in NoteIds, "vector" \notin strayed'[m]
               PROVE  /\ \A j \in 1..Len(jobs') :
                            LastJob(j, m)' => ResultOf(jobs'[j].text) = EmbeddingOf(Queued(m))
                      /\ ~Pending(m)' => vector'[m] = EmbeddingOf(Queued(m))
    BY <1>10 DEF VectorInv
  <2>1. /\ \A j \in 1..Len(jobs) : LastJob(j, m) => ResultOf(jobs[j].text) = EmbeddingOf(Queued(m))
        /\ ~Pending(m) => vector[m] = EmbeddingOf(Queued(m))
    BY <1>1, <1>9 DEF VectorInv
  <2>2. m # jobs[i].note
    BY <1>2, <1>5
  <2>3. /\ \A j \in 1..Len(jobs') :
              LastJob(j, m)' => \E k \in 1..Len(jobs) : LastJob(k, m) /\ jobs[k].text = jobs'[j].text
        /\ ~Pending(m)' => ~Pending(m) \/ LastJob(i, m)
    BY <1>1, <1>4, <2>2, LastKept
  <2>4. ~LastJob(i, m)
    BY <2>2 DEF LastJob
  <2> QED  BY <1>4, <2>1, <2>3, <2>4
<1> QED  BY <1>8, <1>10, <1>11 DEF IInv

-----------------------------------------------------------------------------
(* The restart *)

LEMMA LostFacts ==
    ASSUME NEW n
    PROVE  /\ Lost(n) \subseteq {"file", "vector", "links"}
           /\ \A r \in Requests : req[r] # Idle /\ req[r].note = n => LeftOver(req[r]) \subseteq Lost(n)
           /\ Pending(n) => "vector" \in Lost(n)
<1> DEFINE T == {LeftOver(req[r]) : r \in {q \in Requests : req[q] # Idle /\ req[q].note = n}}
           Late == IF Pending(n) THEN {"vector"} ELSE {}
<1>1. Lost(n) = (UNION T) \cup Late
  BY DEF Lost
<1>2. \A q : LeftOver(q) \subseteq {"file", "vector", "links"}
  BY DEF LeftOver
<1>3. \A x \in T : x \subseteq {"file", "vector", "links"}
  BY <1>2
<1>4. \A r \in Requests : req[r] # Idle /\ req[r].note = n => LeftOver(req[r]) \in T
  OBVIOUS
<1>5. Late \subseteq {"vector"} /\ (Pending(n) => "vector" \in Late)
  OBVIOUS
<1> HIDE DEF T, Late
<1>6. UNION T \subseteq {"file", "vector", "links"} /\ \A x \in T : x \subseteq UNION T
  BY <1>3
<1>7. UNION T \subseteq Lost(n) /\ Late \subseteq Lost(n)
  BY <1>1
<1>8. Lost(n) \subseteq {"file", "vector", "links"}
  BY <1>1, <1>5, <1>6
<1>9. \A r \in Requests : req[r] # Idle /\ req[r].note = n => LeftOver(req[r]) \subseteq Lost(n)
  BY <1>4, <1>6, <1>7
<1>10. Pending(n) => "vector" \in Lost(n)
  BY <1>5, <1>7
<1> QED  BY <1>8, <1>9, <1>10

LEMMA RestartKeeps ==
    ASSUME IInv, Restart
    PROVE  IInv'
<1>1. TypeOK /\ WorkInv /\ FileInv /\ VectorInv /\ LinksInv /\ KeysInv /\ CopiesInv
  BY DEF IInv
<1> DEFINE Cut(n) == {r \in Requests : req[r] # Idle /\ req[r].note = n}
           New(n) == \E r \in Cut(n) : req[r].seen = Absent
<1>2. /\ faults < MaxFaults /\ faults' = faults + 1
      /\ req' = [r \in Requests |-> Idle] /\ holder' = [n \in NoteIds |-> Null] /\ jobs' = <<>>
      /\ \A n \in NoteIds : row'[n] = IF New(n) THEN Deleted ELSE row[n]
      /\ row' \in [NoteIds -> Note \cup {Absent, Deleted}]
      /\ UNCHANGED <<links, file, vector, calls>>
  <2>1. /\ faults < MaxFaults /\ faults' = faults + 1
        /\ req' = [r \in Requests |-> Idle] /\ holder' = [n \in NoteIds |-> Null] /\ jobs' = <<>>
        /\ row' = [n \in NoteIds |-> IF \E r \in {r \in Requests : req[r] # Idle} :
                                            req[r].note = n /\ req[r].seen = Absent
                                     THEN Deleted ELSE row[n]]
        /\ UNCHANGED <<links, file, vector, calls>>
    BY DEF Restart
  <2>2. \A n \in NoteIds : row'[n] = IF New(n) THEN Deleted ELSE row[n]
    BY <2>1
  <2>3. row' \in [NoteIds -> Note \cup {Absent, Deleted}]
    BY <1>1, <2>1 DEF TypeOK
  <2> QED  BY <2>1, <2>2, <2>3
<1>3. strayed' = [n \in NoteIds |-> strayed[n] \cup Lost(n)]
  BY DEF Restart
<1>4. ASSUME NEW n \in NoteIds
      PROVE  /\ Lost(n) \subseteq {"file", "vector", "links"}
             /\ \A r \in Cut(n) : LeftOver(req[r]) \subseteq Lost(n)
             /\ Pending(n) => "vector" \in Lost(n)
  BY LostFacts
<1>5. strayed' \in [NoteIds -> SUBSET {"file", "vector", "links"}]
  BY <1>1, <1>3, <1>4 DEF TypeOK
<1>6. \A n \in NoteIds : /\ strayed[n] \subseteq strayed'[n]
                         /\ \A r \in Cut(n) : LeftOver(req[r]) \subseteq strayed'[n]
                         /\ Pending(n) => "vector" \in strayed'[n]
  BY <1>3, <1>4
<1>7. \A n \in NoteIds, r \in Requests :
         r \in Cut(n) <=> req[r] # Idle /\ req[r].note = n
  OBVIOUS
<1> HIDE DEF Cut
<1>8. TypeOK'
  <2>1. req' \in [Requests -> Busy \cup {Idle}] /\ holder' \in [NoteIds -> Requests \cup {Null}]
    BY <1>2
  <2>2. jobs' \in Seq(Job) /\ \A n \in NoteIds : holder'[n] = Null
    BY <1>2
  <2>3. faults' \in 0..MaxFaults
    BY <1>1, <1>2, Apart DEF TypeOK
  <2> QED  BY <1>1, <1>2, <1>5, <2>1, <2>2, <2>3 DEF TypeOK
<1>9. ASSUME NEW n \in NoteIds, NEW r \in Requests, r \in Cut(n), req[r].seen = Absent
      PROVE  holder[n] = r /\ row[n] = Absent
  BY <1>1, <1>7, <1>9, NewNoteLocked DEF WorkInv
<1>10. \A n \in NoteIds : row'[n] = row[n] \/ (row'[n] = Deleted /\ row[n] = Absent)
  <2> SUFFICES ASSUME NEW n \in NoteIds, New(n) PROVE row[n] = Absent
    BY <1>2
  <2> QED  BY <1>7, <1>9 DEF Cut
<1>11. \A n \in NoteIds : Final(n)' = row'[n] /\ Queued(n)' = row'[n]
  BY <1>2 DEF Final, Queued
<1>12. ASSUME NEW n \in NoteIds, holder[n] # Null
       PROVE  /\ holder[n] \in Cut(n) /\ Work(holder[n]) /\ holder[n] \in Requests
              /\ req[holder[n]].call.op = "toggle" => Final(n) = row[n] /\ req[holder[n]].seen # Absent
  <2>1. PICK r : r = holder[n]
    OBVIOUS
  <2>2. r \in Requests /\ req[r] # Idle /\ req[r].note = n
    BY <1>1, <1>12, <2>1, HolderFacts
  <2>3. /\ req[r] \in Busy /\ req[r].seen \in Note \cup {Absent} /\ req[r].new \in Note \cup {Deleted}
        /\ row[n] \in Note \cup {Absent, Deleted} /\ Work(r)
    BY <1>1, <2>2, BusyFacts DEF WorkInv, TypeOK
  <2>4. ASSUME req[r].call.op = "toggle" PROVE Final(n) = row[n] /\ req[r].seen # Absent
    <3>1. req[r].seen \in Note /\ req[r].new = req[r].seen
      BY <2>3, <2>4 DEF Work
    <3>2. Outcome(req[r], row[n]) = row[n]
      BY <2>3, <3>1, WrittenFacts, OutcomeFacts
    <3> QED  BY <1>12, <2>1, <3>1, <3>2, Apart DEF Final
  <2> QED  BY <1>7, <2>1, <2>2, <2>3, <2>4
<1>13. FileInv'
  <2> SUFFICES ASSUME NEW n \in NoteIds, "file" \notin strayed'[n] PROVE file[n] = ContentOf(row'[n])
    BY <1>2, <1>11 DEF FileInv
  <2>1. file[n] = ContentOf(Final(n))
    BY <1>1, <1>6 DEF FileInv
  <2>2. Final(n) = row[n]
    <3>1. CASE holder[n] = Null
      BY <3>1 DEF Final
    <3>2. CASE holder[n] # Null
      <4>1. "file" \notin LeftOver(req[holder[n]])
        BY <1>6, <1>12, <3>2
      <4>2. req[holder[n]].pc \in {"loaded", "saved", "synced"} /\ req[holder[n]].note = n
        BY <1>1, <3>2, HolderFacts, BusyFacts
      <4>3. req[holder[n]].pc # "loaded"
        BY <1>12, <3>2, <4>2 DEF Work
      <4>4. req[holder[n]].call.op = "toggle"
        BY <4>1, <4>2, <4>3 DEF LeftOver
      <4> QED  BY <1>12, <3>2, <4>4
    <3> QED  BY <3>1, <3>2
  <2> QED  BY <1>10, <2>1, <2>2, Apart DEF ContentOf
<1>14. VectorInv'
  <2> SUFFICES ASSUME NEW n \in NoteIds, "vector" \notin strayed'[n] PROVE vector[n] = EmbeddingOf(row'[n])
    BY <1>2, <1>11 DEF VectorInv
  <2>1. vector[n] = EmbeddingOf(Queued(n))
    BY <1>1, <1>6 DEF VectorInv
  <2>2. Queued(n) = row[n]
    <3>1. CASE holder[n] = Null \/ req[holder[n]].pc # "synced"
      BY <3>1 DEF Queued
    <3>2. CASE holder[n] # Null /\ req[holder[n]].pc = "synced"
      <4>1. "vector" \notin LeftOver(req[holder[n]])
        BY <1>6, <1>12, <3>2
      <4>2. req[holder[n]].call.op = "toggle"
        BY <3>2, <4>1 DEF LeftOver
      <4> QED  BY <1>12, <3>2, <4>2 DEF Queued
    <3> QED  BY <3>1, <3>2
  <2> QED  BY <1>10, <2>1, <2>2, Apart DEF EmbeddingOf
<1>15. WorkInv'
  BY <1>2 DEF WorkInv
<1>16. LinksInv'
  <2>1. \A r \in Requests : req'[r] = Idle
    BY <1>2
  <2>2. ASSUME NEW n \in NoteIds, "links" \notin strayed'[n] PROVE Committed(n)'
    <3>1. Committed(n)
      BY <1>1, <1>6, <2>2 DEF LinksInv
    <3> QED  BY <1>2, <1>10, <3>1, Apart DEF Committed, Exists, Existing
  <2> QED  BY <2>1, <2>2 DEF LinksInv
<1>17. KeysInv'
  <2>1. \A r \in Requests : req'[r] = Idle
    BY <1>2
  <2>2. ASSUME NEW l \in links', NEW n \in Touched({l}) PROVE Exists(n)'
    <3>1. l \in Link /\ n \in NoteIds
      BY <1>8, <2>2 DEF TypeOK, Link, Touched
    <3>2. Exists(n)
      BY <1>1, <1>2, <2>2 DEF KeysInv
    <3> QED  BY <1>10, <3>1, <3>2, Apart DEF Exists
  <2> QED  BY <2>1, <2>2 DEF KeysInv
<1>18. CopiesInv'
  <2>1. \A r \in Requests : req'[r] = Idle
    BY <1>2
  <2>2. Unsynced' \subseteq Unsynced
    BY <2>1 DEF Unsynced
  <2>3. LinkRows' \subseteq LinkRows
    BY <1>2, <2>1 DEF LinkRows
  <2>4. \A l \in LinkRows' : \E k \in LinkRows : SameRow(l, k)
    BY <2>3 DEF SameRow
  <2> QED  BY <1>1, <1>2, <1>8, <2>2, <2>4, CopiesKept
<1> QED  BY <1>8, <1>13, <1>14, <1>15, <1>16, <1>17, <1>18 DEF IInv

-----------------------------------------------------------------------------
(* The theorem *)

LEMMA InitIInv == Init => IInv
<1> SUFFICES ASSUME Init PROVE IInv
  OBVIOUS
<1>1. /\ \A n \in NoteIds : /\ row[n] = Absent /\ holder[n] = Null /\ file[n] = Null /\ vector[n] = Null
                            /\ strayed[n] = {}
      /\ \A r \in Requests : req[r] = Idle
      /\ links = {} /\ jobs = <<>> /\ calls = 0
  BY DEF Init
<1>2. \A n \in NoteIds : Final(n) = Absent /\ Queued(n) = Absent /\ ~Exists(n)
  BY <1>1, Apart DEF Final, Queued, Exists
<1>3. TypeOK
  BY <1>1, Apart DEF Init, TypeOK
<1>4. WorkInv
  BY <1>1 DEF WorkInv
<1>5. FileInv
  BY <1>1, <1>2, Apart DEF FileInv, ContentOf
<1>6. VectorInv
  BY <1>1, <1>2, Apart DEF VectorInv, EmbeddingOf
<1>7. LinksInv
  BY <1>1, <1>2 DEF LinksInv, Committed
<1>8. KeysInv
  BY <1>1 DEF KeysInv
<1>9. CopiesInv
  <2>1. Unsynced = {} /\ \A n, t : UsedCopies(n, t) = {}
    BY <1>1 DEF Unsynced, UsedCopies
  <2>2. IsFiniteSet({}) /\ Cardinality({}) = 0
    BY FS_EmptySet
  <2>3. IsFiniteSet(Unsynced) /\ Cardinality(Unsynced) = 0
    BY <2>1, <2>2
  <2>4. \A n, t : Cardinality(UsedCopies(n, t)) = 0
    BY <2>1, <2>2
  <2> QED  BY <1>1, <2>3, <2>4 DEF CopiesInv
<1> QED  BY <1>3, <1>4, <1>5, <1>6, <1>7, <1>8, <1>9 DEF IInv

LEMMA NextIInv == IInv /\ [Next]_vars => IInv'
<1> SUFFICES ASSUME IInv, [Next]_vars PROVE IInv'
  OBVIOUS
<1>1. ASSUME NEW r \in Requests, NEW n \in NoteIds, NEW c \in Calls, Start(r, n, c) PROVE IInv'
  BY <1>1, CreateKeeps, LoadKeeps, ToggleKeeps, DeleteKeeps DEF Start
<1>2. ASSUME NEW r \in Requests, RequestStep(r) \/ Fail(r) PROVE IInv'
  BY <1>2, FlushKeeps, SyncKeeps, CommitKeeps, AbandonKeeps DEF RequestStep, Abandon
<1>3. ASSUME NEW i \in 1..Len(jobs), RunJob(i) \/ JobFails(i) PROVE IInv'
  BY <1>3, RunJobKeeps, JobFailsKeeps
<1>4. CASE Restart
  BY <1>4, RestartKeeps
<1>5. CASE UNCHANGED vars
  <2>1. UNCHANGED <<row, holder, links, file, vector, jobs, req, calls, faults, strayed>>
    BY <1>5 DEF vars
  <2>2. TypeOK'
    BY <2>1 DEF IInv, TypeOK
  <2>3. /\ WorkInv' /\ FileInv' /\ LinksInv' /\ KeysInv' /\ CopiesInv'
        /\ \A n \in NoteIds : Queued(n)' = Queued(n)
    BY <2>1, RequestsKept
  <2>4. VectorInv'
    BY <2>1, <2>3 DEF IInv, VectorInv, LastJob, Pending
  <2> QED  BY <2>2, <2>3, <2>4 DEF IInv
<1> QED  BY <1>1, <1>2, <1>3, <1>4, <1>5 DEF Next

\* At rest no request holds the row, so that what lies ahead of it is the row.
LEMMA IInvCopies == IInv => CopiesFollowNote
<1> SUFFICES ASSUME IInv PROVE CopiesFollowNote
  OBVIOUS
<1>1. TypeOK /\ FileInv /\ VectorInv /\ LinksInv /\ KeysInv
  BY DEF IInv
<1>2. ASSUME NEW n \in NoteIds, AtRest(n) PROVE Final(n) = row[n] /\ Queued(n) = row[n]
  <2>1. holder[n] = Null
    BY <1>1, <1>2, HolderFacts DEF AtRest
  <2> QED  BY <2>1 DEF Final, Queued
<1>3. FileFollowsNote
  BY <1>1, <1>2 DEF FileFollowsNote, FileInv, ContentOf, Exists
<1>4. VectorFollowsNote
  BY <1>1, <1>2 DEF VectorFollowsNote, VectorInv, EmbeddingOf, Exists
<1>5. LinksFollowContent
  BY <1>1 DEF LinksFollowContent, LinksInv, KeysInv, Committed, Matches
<1> QED  BY <1>1, <1>3, <1>4, <1>5 DEF CopiesFollowNote

\* The Markdown file, the embedding and the link rows of every note are those of
\* its committed row once its requests and tasks have ended, unless one of the
\* races, rollbacks or failures that strayed records has skewed the copy; and
\* whatever happens no link refers to a deleted note.
THEOREM NoteCopiesFollow == Spec => []CopiesFollowNote
<1>1. Spec => []IInv
  BY InitIInv, NextIInv, PTL DEF Spec
<1> QED  BY <1>1, IInvCopies, PTL

-----------------------------------------------------------------------------
(* Audio overviews *)

\* A request works on an overview.
WorksOn(r, o) == audioReq[r] # Overview!Idle /\ audioReq[r].overview = o

\* The file of an overview is already gone, its row is not yet.
BeingDeleted(o) == \E r \in Requests : WorksOn(r, o) /\ audioReq[r].op = "delete" /\ audioReq[r].path # Null

Ready(o) == Overview!Exists(o) /\ overview[o].status = "ready"

\* What the row of an overview says of its task and of its file.
RowKept(o) ==
    /\ Overview!Exists(o) =>
          /\ task[o].at # "none"
          /\ overview[o].status = "ready" <=> overview[o].path # Null
          /\ Overview!Working(o) => overview[o].path = Null
    /\ overview[o] = Absent =>
          /\ task[o].at \in {"none", "queued", "failing", "done"}
          /\ ~Overview!Busy(o) => task[o].at = "none"

\* The file by the step of the task: there is none before it is synthesised,
\* and the task knows it until the row does.
OverviewFile(o) ==
    /\ task[o].at = "save" => task[o].audio \in Overview!Formats /\ audioFile[o] = {task[o].audio}
    /\ task[o].at \notin {"save", "done"} => audioFile[o] = {}
    /\ task[o].at = "done" /\ Ready(o) => audioFile[o] = {overview[o].path} \/ BeingDeleted(o)
    /\ task[o].at = "done" /\ ~Ready(o) => audioFile[o] = {}

\* A creation is alone with its overview; a deletion that has removed a file
\* has removed the one of the row.
RequestKept(r, o) ==
    /\ audioReq[r].op = "create" =>
          overview[o] = Absent /\ task[o].at # "none" /\ \A q \in Requests : WorksOn(q, o) => q = r
    /\ audioReq[r].op = "delete" =>
          /\ overview[o] # Absent
          /\ audioReq[r].path # Null /\ Overview!Exists(o) =>
                overview[o].path = audioReq[r].path /\ audioFile[o] = {}

OverviewKept(o) == RowKept(o) /\ OverviewFile(o) /\ \A r \in Requests : WorksOn(r, o) => RequestKept(r, o)

OverviewsKept == \A o \in Overviews \ audioStrayed : OverviewKept(o)

USE AudioAssumed DEF Overview!AudioAssumption

AudioInv == Overview!TypeOK /\ OverviewsKept

LEMMA AudioTyped ==
    ASSUME Overview!TypeOK, Overview!Next
    PROVE  Overview!TypeOK'
<1> USE DEF Overview!TypeOK
<1> DEFINE Typed == Overview!TypeOK'
<1>1. \A o \in Overviews : /\ overview[o] \in Overview!Overview \cup {Absent, Deleted}
                          /\ audioFile[o] \in SUBSET Overview!Formats
                          /\ task[o] \in Overview!Task /\ task[o].audio \in Overview!Formats \cup {Null}
                          /\ overview[o] \in Overview!Overview => overview[o].path \in Overview!Formats \cup {Null}
  BY DEF Overview!Task, Overview!Exists, Overview!Overview
<1>2. \A o \in Overviews, at \in Overview!Steps \cup {"none", "done"} :
          Overview!Goto(o, at) => task' \in [Overviews -> Overview!Task]
  BY <1>1 DEF Overview!Goto, Overview!Task
<1>3. \A s \in SUBSET Requests : Overview!RolledBack(s) \in [Overviews -> Overview!Overview \cup {Absent, Deleted}]
  BY <1>1 DEF Overview!RolledBack
<1>4. \A s \in SUBSET Requests : Overview!Unfiled(s) \in SUBSET Overviews
  BY DEF Overview!Unfiled
<1>5. ASSUME NEW r \in Requests, NEW o \in Overviews, Overview!CreateOverview(r, o)
      PROVE  Typed
  <2>1. task' \in [Overviews -> Overview!Task]
    BY <1>2, <1>5 DEF Overview!CreateOverview, Overview!Steps
  <2>2. [op |-> "create", overview |-> o, path |-> Null] \in Overview!Request
    BY DEF Overview!Request
  <2> QED BY <1>5, <2>1, <2>2 DEF Overview!CreateOverview
<1>6. ASSUME NEW r \in Requests, NEW o \in Overviews, Overview!DeleteOverview(r, o)
      PROVE  Typed
  <2>1. [op |-> "delete", overview |-> o, path |-> overview[o].path] \in Overview!Request
    <3>1. overview[o].path \in Overview!Formats \cup {Null}
      <4>1. Overview!Exists(o)
        BY <1>6 DEF Overview!DeleteOverview
      <4>2. overview[o] \in Overview!Overview
        BY <4>1 DEF Overview!Exists
      <4> QED BY <4>2 DEF Overview!Overview
    <3> QED BY <3>1 DEF Overview!Request
  <2>2. audioFile' \in [Overviews -> SUBSET Overview!Formats]
    BY <1>1, <1>6 DEF Overview!DeleteOverview, Overview!RemoveFile, Overview!RemoveFails
  <2>3. faults' \in 0..MaxFaults /\ audioStrayed' \in SUBSET Overviews
    BY <1>6 DEF Overview!DeleteOverview, Overview!RemoveFails
  <2> QED BY <1>6, <2>1, <2>2, <2>3 DEF Overview!DeleteOverview
<1>7. ASSUME NEW r \in Requests, Overview!Commit(r)
      PROVE  Typed
  <2>1. audioReq[r].overview \in Overviews
    BY <1>7 DEF Overview!Commit, Overview!Request
  <2>2. Overview!Created \in Overview!Overview
    BY DEF Overview!Created, Overview!Overview, Overview!AudioStatus
  <2> QED BY <1>7, <2>1, <2>2 DEF Overview!Commit
<1>8. ASSUME NEW r \in Requests, Overview!CommitFails(r)
      PROVE  Typed
  BY <1>3, <1>4, <1>8 DEF Overview!CommitFails
<1>9. ASSUME NEW o \in Overviews, Overview!TaskStep(o) \/ Overview!SessionFails(o)
      PROVE  Typed
  <2>1. task' \in [Overviews -> Overview!Task]
    <3>1. \A f \in Overview!Formats : [at |-> "save", audio |-> f] \in Overview!Task
      BY DEF Overview!Task, Overview!Steps
    <3>2. /\ {"queued", "content", "script", "qwen", "edge", "save", "failing", "done"} \subseteq Overview!Steps \cup {"none", "done"}
          /\ {"wav", "mp3"} \subseteq Overview!Formats
      BY DEF Overview!Steps, Overview!Formats
    <3>3. (\E at \in {"content", "script", "qwen", "edge", "failing", "done"} : Overview!Goto(o, at))
          \/ \E f \in {"wav", "mp3"} : task' = [task EXCEPT ![o] = [at |-> "save", audio |-> f]]
      BY <1>9 DEF Overview!TaskStep, Overview!MarkGenerating, Overview!Prepare, Overview!SynthesizeQwen,
                  Overview!SynthesizeEdge, Overview!SaveResult, Overview!MarkFailed, Overview!SessionFails,
                  Overview!AfterFailure
    <3> QED BY <1>2, <3>1, <3>2, <3>3
  <2>2. overview' \in [Overviews -> Overview!Overview \cup {Absent, Deleted}]
    <3>1. \A s \in Overview!AudioStatus : Overview!Exists(o) => [overview[o] EXCEPT !.status = s] \in Overview!Overview
      BY DEF Overview!Exists, Overview!Overview
    <3>2. [status |-> "ready", path |-> task[o].audio] \in Overview!Overview
      BY <1>1 DEF Overview!Overview, Overview!AudioStatus, Overview!Task
    <3>3. "generating" \in Overview!AudioStatus /\ "failed" \in Overview!AudioStatus
      BY DEF Overview!AudioStatus
    <3> QED BY <1>9, <3>1, <3>2, <3>3 DEF Overview!TaskStep, Overview!MarkGenerating, Overview!Prepare,
                  Overview!SynthesizeQwen, Overview!SynthesizeEdge, Overview!SaveResult, Overview!MarkFailed,
                  Overview!SessionFails
  <2>3. audioFile' \in [Overviews -> SUBSET Overview!Formats]
    <3>1. \A f \in {"wav", "mp3"} : f \in Overview!Formats
      BY DEF Overview!Formats
    <3> QED BY <1>1, <1>9, <3>1 DEF Overview!TaskStep, Overview!MarkGenerating, Overview!Prepare,
                  Overview!SynthesizeQwen, Overview!SynthesizeEdge, Overview!SaveResult, Overview!MarkFailed,
                  Overview!SessionFails, Overview!Write
  <2>4. /\ audioReq' = audioReq /\ (faults' = faults \/ (faults < MaxFaults /\ faults' = faults + 1))
        /\ stranded' \in SUBSET Overviews /\ audioStrayed' \in SUBSET Overviews
    <3>1. CASE Overview!SessionFails(o)
      BY <3>1 DEF Overview!SessionFails
    <3>2. CASE Overview!TaskStep(o)
      <4>1. stranded' \in SUBSET Overviews
        BY <3>2 DEF Overview!TaskStep, Overview!MarkGenerating, Overview!Prepare, Overview!SynthesizeQwen,
                    Overview!SynthesizeEdge, Overview!SaveResult, Overview!MarkFailed, Overview!MissUncommitted
      <4>2. audioStrayed' \in SUBSET Overviews
        BY <3>2 DEF Overview!TaskStep, Overview!MarkGenerating, Overview!Prepare, Overview!SynthesizeQwen,
                    Overview!SynthesizeEdge, Overview!SaveResult, Overview!MarkFailed
      <4>3. audioReq' = audioReq /\ faults' = faults
        BY <3>2 DEF Overview!TaskStep, Overview!MarkGenerating, Overview!Prepare, Overview!SynthesizeQwen,
                    Overview!SynthesizeEdge, Overview!SaveResult, Overview!MarkFailed
      <4> QED BY <4>1, <4>2, <4>3
    <3> QED BY <1>9, <3>1, <3>2
  <2> QED BY <2>1, <2>2, <2>3, <2>4
<1>10. ASSUME Overview!Restart
       PROVE  Typed
  <2>1. task' \in [Overviews -> Overview!Task]
    <3>1. \A o \in Overviews : [task[o] EXCEPT !.at = "done"] \in Overview!Task
      BY <1>1 DEF Overview!Task
    <3> QED BY <1>1, <1>10, <3>1 DEF Overview!Restart
  <2> QED BY <1>3, <1>4, <1>10, <2>1 DEF Overview!Restart
<1> HIDE DEF Typed
<1> HIDE DEF Overview!TypeOK
<1>11. Typed
  BY <1>5, <1>6, <1>7, <1>8, <1>9, <1>10 DEF Overview!Next
<1> QED BY <1>11 DEF Typed

\* What the overview of a request is, and which requests are at work.
LEMMA WorksOnTyped ==
    ASSUME Overview!TypeOK, NEW r \in Requests, audioReq[r] # Overview!Idle
    PROVE  /\ audioReq[r].overview \in Overviews
           /\ audioReq[r].op \in {"create", "delete"}
           /\ audioReq[r].path \in Overview!Formats \cup {Null}
           /\ WorksOn(r, audioReq[r].overview)
<1>1. audioReq[r] \in Overview!Request
  BY DEF Overview!TypeOK
<1> QED BY <1>1 DEF Overview!Request, WorksOn

LEMMA BusyWorks == \A o : Overview!Busy(o) <=> \E r \in Requests : WorksOn(r, o)
  BY DEF Overview!Busy, WorksOn

LEMMA OverviewTyped ==
    ASSUME Overview!TypeOK, NEW o \in Overviews
    PROVE  /\ overview[o] \in Overview!Overview \cup {Absent, Deleted}
           /\ audioFile[o] \in SUBSET Overview!Formats
           /\ task[o].at \in Overview!Steps \cup {"none", "done"}
           /\ task[o].audio \in Overview!Formats \cup {Null}
           /\ Overview!Exists(o) <=> overview[o] \notin {Absent, Deleted}
           /\ Overview!Exists(o) => /\ overview[o].path \in Overview!Formats \cup {Null}
                                    /\ overview[o].status \in Overview!AudioStatus
<1>1. overview[o] \in Overview!Overview \cup {Absent, Deleted} /\ audioFile[o] \in SUBSET Overview!Formats
  BY DEF Overview!TypeOK
<1>2. task[o] \in Overview!Task
  BY DEF Overview!TypeOK
<1>3. task[o].at \in Overview!Steps \cup {"none", "done"} /\ task[o].audio \in Overview!Formats \cup {Null}
  BY <1>2 DEF Overview!Task
<1>4. ASSUME overview[o] \in Overview!Overview
      PROVE  overview[o].path \in Overview!Formats \cup {Null} /\ overview[o].status \in Overview!AudioStatus
  BY <1>4 DEF Overview!Overview
<1> QED BY <1>1, <1>3, <1>4 DEF Overview!Exists

\* What is kept of an overview depends on its own row, task, file and requests.
LEMMA OverviewUnchanged ==
    ASSUME NEW o \in Overviews, OverviewKept(o),
           overview'[o] = overview[o], task'[o] = task[o], audioFile'[o] = audioFile[o],
           \A r \in Requests : /\ WorksOn(r, o)' <=> WorksOn(r, o)
                               /\ WorksOn(r, o) => audioReq'[r] = audioReq[r]
    PROVE  OverviewKept(o)'
<1>1. /\ Overview!Exists(o)' <=> Overview!Exists(o)
      /\ Overview!Working(o)' <=> Overview!Working(o)
      /\ Overview!Busy(o)' <=> Overview!Busy(o)
      /\ BeingDeleted(o)' <=> BeingDeleted(o)
  <2>1. Overview!Busy(o)' <=> \E r \in Requests : WorksOn(r, o)'
    BY DEF Overview!Busy, WorksOn
  <2>2. Overview!Busy(o)' <=> Overview!Busy(o)
    BY <2>1, BusyWorks
  <2> QED BY <2>2 DEF Overview!Exists, Overview!Working, BeingDeleted
<1>2. Ready(o)' <=> Ready(o)
  BY <1>1 DEF Ready
<1>3. RowKept(o)'
  BY <1>1 DEF RowKept, OverviewKept
<1>4. OverviewFile(o)'
  BY <1>1, <1>2 DEF OverviewFile, OverviewKept
<1>5. ASSUME NEW r \in Requests, WorksOn(r, o)'
      PROVE  RequestKept(r, o)'
  BY <1>1, <1>5 DEF RequestKept, OverviewKept
<1> QED BY <1>3, <1>4, <1>5 DEF OverviewKept

\* A request of one overview is none of another.
LEMMA OtherOverviews ==
    ASSUME NEW o \in Overviews, NEW p \in Overviews \ {o}, OverviewKept(p),
           overview'[p] = overview[p], task'[p] = task[p], audioFile'[p] = audioFile[p],
           \/ audioReq' = audioReq
           \/ \E r \in Requests : /\ \A q \in Requests \ {r} : audioReq'[q] = audioReq[q]
                                  /\ ~WorksOn(r, p) /\ ~WorksOn(r, p)'
    PROVE  OverviewKept(p)'
<1>1. ASSUME NEW r \in Requests
      PROVE  /\ WorksOn(r, p)' <=> WorksOn(r, p)
             /\ WorksOn(r, p) => audioReq'[r] = audioReq[r]
  BY DEF WorksOn
<1> QED BY <1>1, OverviewUnchanged

LEMMA CreateKeepsOverviews ==
    ASSUME AudioInv, NEW r \in Requests, NEW o \in Overviews, Overview!CreateOverview(r, o)
    PROVE  OverviewsKept'
<1> USE DEF AudioInv
<1> SUFFICES ASSUME NEW p \in Overviews \ audioStrayed
             PROVE  OverviewKept(p)'
  BY DEF OverviewsKept, Overview!CreateOverview
<1>1. OverviewKept(p)
  BY DEF OverviewsKept
<1>2. /\ audioReq[r] = Overview!Idle /\ overview[o] = Absent /\ ~Overview!Busy(o)
      /\ audioReq' = [audioReq EXCEPT ![r] = [op |-> "create", overview |-> o, path |-> Null]]
      /\ task' = [task EXCEPT ![o].at = "queued"]
      /\ overview' = overview /\ audioFile' = audioFile
  BY DEF Overview!CreateOverview, Overview!Goto
<1>3. /\ audioReq'[r] = [op |-> "create", overview |-> o, path |-> Null]
      /\ \A q \in Requests \ {r} : audioReq'[q] = audioReq[q]
      /\ audioReq'[r] # Overview!Idle
  BY <1>2 DEF Overview!TypeOK, Overview!Idle
<1>4. CASE p # o
  <2>1. ~WorksOn(r, p) /\ ~WorksOn(r, p)'
    BY <1>2, <1>3, <1>4 DEF WorksOn
  <2>2. task'[p] = task[p]
    BY <1>2, <1>4 DEF Overview!TypeOK
  <2> QED BY <1>1, <1>2, <1>3, <1>4, <2>1, <2>2, OtherOverviews
<1>5. CASE p = o
  <2>1. task'[o].at = "queued"
    BY <1>2 DEF Overview!TypeOK, Overview!Task
  <2>2. WorksOn(r, o)' /\ \A q \in Requests : WorksOn(q, o)' => q = r
    BY <1>2, <1>3, BusyWorks DEF WorksOn
  <2>3. Overview!Busy(o)'
    BY <2>2 DEF WorksOn, Overview!Busy
  <2>4. ~Overview!Exists(o)' /\ task[o].at = "none"
    BY <1>1, <1>2, <1>5, OverviewTyped DEF OverviewKept, RowKept, Overview!Exists
  <2>5. RowKept(o)'
    BY <2>1, <2>3, <2>4 DEF RowKept
  <2>6. OverviewFile(o)'
    BY <1>1, <1>2, <1>5, <2>1, <2>4 DEF OverviewKept, OverviewFile
  <2>7. RequestKept(r, o)'
    BY <1>2, <1>3, <2>1, <2>2 DEF RequestKept
  <2> QED BY <1>5, <2>2, <2>5, <2>6, <2>7 DEF OverviewKept
<1> QED BY <1>4, <1>5

LEMMA DeleteKeepsOverviews ==
    ASSUME AudioInv, NEW r \in Requests, NEW o \in Overviews, Overview!DeleteOverview(r, o)
    PROVE  OverviewsKept'
<1> USE DEF AudioInv
<1> SUFFICES ASSUME NEW p \in Overviews \ audioStrayed'
             PROVE  OverviewKept(p)'
  BY DEF OverviewsKept
<1>1. OverviewKept(p)
  BY DEF OverviewsKept, Overview!DeleteOverview, Overview!RemoveFails
<1>2. /\ audioReq[r] = Overview!Idle /\ Overview!Exists(o)
      /\ audioReq' = [audioReq EXCEPT ![r] = [op |-> "delete", overview |-> o, path |-> overview[o].path]]
      /\ overview' = overview /\ task' = task
      /\ Overview!RemoveFile(o) \/ Overview!RemoveFails(o)
  BY DEF Overview!DeleteOverview
<1>6. \/ audioFile' = [audioFile EXCEPT ![o] = @ \ {overview[o].path}]
      \/ p # o /\ audioFile' = audioFile
  <2>1. CASE Overview!RemoveFile(o)
    BY <2>1 DEF Overview!RemoveFile
  <2>2. CASE Overview!RemoveFails(o)
    BY <2>2 DEF Overview!RemoveFails
  <2> QED BY <1>2, <2>1, <2>2
<1>3. /\ audioReq'[r] = [op |-> "delete", overview |-> o, path |-> overview[o].path]
      /\ \A q \in Requests \ {r} : audioReq'[q] = audioReq[q]
      /\ audioReq'[r] # Overview!Idle
  BY <1>2 DEF Overview!TypeOK, Overview!Idle
<1>4. CASE p # o
  <2>1. ~WorksOn(r, p) /\ ~WorksOn(r, p)'
    BY <1>2, <1>3, <1>4 DEF WorksOn
  <2>2. audioFile'[p] = audioFile[p]
    BY <1>4, <1>6 DEF Overview!TypeOK
  <2> QED BY <1>1, <1>2, <1>3, <1>4, <2>1, <2>2, OtherOverviews
<1>5. CASE p = o
  <2> DEFINE path == overview[o].path
  <2>1. audioFile'[o] = audioFile[o] \ {path}
    BY <1>5, <1>6 DEF Overview!TypeOK
  <2>2. /\ WorksOn(r, o)' /\ ~WorksOn(r, o)
        /\ \A q \in Requests \ {r} : (WorksOn(q, o)' <=> WorksOn(q, o)) /\ audioReq'[q] = audioReq[q]
    BY <1>2, <1>3 DEF WorksOn
  <2>3. /\ Overview!Exists(o)' <=> Overview!Exists(o)
        /\ Overview!Working(o)' <=> Overview!Working(o)
        /\ Ready(o)' <=> Ready(o)
        /\ overview[o] \notin {Absent, Deleted}
    BY <1>2, OverviewTyped DEF Overview!Exists, Overview!Working, Ready
  <2>4. /\ path \in Overview!Formats \cup {Null}
        /\ path = Null => audioFile'[o] = audioFile[o]
        /\ path # Null <=> overview[o].status = "ready"
        /\ path # Null => task[o].at = "done"
        /\ task[o].at # "none"
    BY <1>1, <1>2, <1>5, <2>1, OverviewTyped DEF OverviewKept, RowKept, Overview!Working
  <2>5. path # Null => audioFile'[o] = {} /\ BeingDeleted(o)'
    <3> SUFFICES ASSUME path # Null
                 PROVE  audioFile'[o] = {} /\ BeingDeleted(o)'
      OBVIOUS
    <3>1. BeingDeleted(o)'
      BY <1>3, <2>2 DEF BeingDeleted
    <3>2. audioFile[o] = {path} \/ BeingDeleted(o)
      BY <1>1, <1>2, <1>5, <2>4 DEF OverviewKept, OverviewFile, Ready
    <3>3. BeingDeleted(o) => audioFile[o] = {}
      BY <1>1, <1>2, <1>5 DEF BeingDeleted, OverviewKept, RequestKept
    <3> QED BY <2>1, <3>1, <3>2, <3>3
  <2>6. RowKept(o)'
    BY <1>1, <1>2, <1>5, <2>3 DEF OverviewKept, RowKept
  <2>7. OverviewFile(o)'
    BY <1>1, <1>2, <1>5, <2>3, <2>4, <2>5 DEF OverviewKept, OverviewFile, Ready
  <2>8. ASSUME NEW q \in Requests, WorksOn(q, o)'
        PROVE  RequestKept(q, o)'
    <3>1. CASE q = r
      BY <1>2, <1>3, <2>3, <2>5, <3>1 DEF RequestKept
    <3>2. CASE q # r
      <4>1. RequestKept(q, o) /\ audioReq'[q] = audioReq[q]
        BY <1>1, <1>5, <2>2, <2>8, <3>2 DEF OverviewKept
      <4>2. audioReq[q].op # "create"
        BY <2>3, <4>1 DEF RequestKept
      <4>3. audioFile[o] = {} => audioFile'[o] = {}
        BY <2>1
      <4> QED BY <1>2, <2>3, <4>1, <4>2, <4>3 DEF RequestKept
    <3> QED BY <3>1, <3>2
  <2> QED BY <1>5, <2>6, <2>7, <2>8 DEF OverviewKept
<1> QED BY <1>4, <1>5

LEMMA CommitKeepsOverviews ==
    ASSUME AudioInv, NEW r \in Requests, Overview!Commit(r)
    PROVE  OverviewsKept'
<1> USE DEF AudioInv
<1>0. PICK o \in Overviews : o = audioReq[r].overview
  BY WorksOnTyped DEF Overview!Commit
<1>1. WorksOn(r, o) /\ audioReq[r].op \in {"create", "delete"}
  BY <1>0, WorksOnTyped DEF Overview!Commit
<1>2. /\ overview' = [overview EXCEPT ![o] = IF audioReq[r].op = "create" THEN Overview!Created ELSE Deleted]
      /\ audioReq' = [audioReq EXCEPT ![r] = Overview!Idle]
      /\ audioFile' = audioFile /\ task' = task
      /\ audioStrayed \subseteq audioStrayed'
      /\ audioReq[r].op = "delete" /\ Overview!Exists(o) /\ overview[o].path # audioReq[r].path => o \in audioStrayed'
  BY <1>0 DEF Overview!Commit
<1> SUFFICES ASSUME NEW p \in Overviews \ audioStrayed'
             PROVE  OverviewKept(p)'
  BY DEF OverviewsKept
<1>3. OverviewKept(p)
  BY <1>2 DEF OverviewsKept
<1>4. audioReq'[r] = Overview!Idle /\ \A q \in Requests \ {r} : audioReq'[q] = audioReq[q]
  BY <1>2 DEF Overview!TypeOK
<1>5. CASE p # o
  <2>1. ~WorksOn(r, p) /\ ~WorksOn(r, p)'
    BY <1>0, <1>1, <1>4, <1>5 DEF WorksOn
  <2>2. overview'[p] = overview[p]
    BY <1>1, <1>2, <1>5 DEF Overview!TypeOK
  <2> QED BY <1>1, <1>2, <1>3, <1>4, <1>5, <2>1, <2>2, OtherOverviews
<1>6. CASE p = o
  <2>0. /\ overview'[o] = IF audioReq[r].op = "create" THEN Overview!Created ELSE Deleted
        /\ RowKept(o) /\ OverviewFile(o) /\ RequestKept(r, o)
    BY <1>1, <1>2, <1>3, <1>6 DEF Overview!TypeOK, OverviewKept
  <2>1. CASE audioReq[r].op = "create"
    <3>1. /\ overview'[o] = Overview!Created /\ overview[o] = Absent /\ task[o].at # "none"
          /\ \A q \in Requests : WorksOn(q, o) => q = r
      BY <2>0, <2>1 DEF RequestKept
    <3>2. \A q \in Requests : ~WorksOn(q, o)'
      BY <1>4, <3>1 DEF WorksOn
    <3>3. /\ Overview!Created \in Overview!Overview /\ Overview!Created.path = Null
          /\ Overview!Created.status = "pending" /\ Overview!Created # Absent
      BY DEF Overview!Created, Overview!Overview, Overview!AudioStatus
    <3>4. RowKept(o)'
      BY <1>2, <3>1, <3>3 DEF RowKept
    <3>5. ~Ready(o)' /\ ~Ready(o)
      BY <1>1, <3>1, <3>3, OverviewTyped DEF Ready
    <3>6. OverviewFile(o)'
      BY <1>2, <2>0, <3>5 DEF OverviewFile
    <3> QED BY <1>6, <3>2, <3>4, <3>6 DEF OverviewKept
  <2>2. CASE audioReq[r].op = "delete"
    <3>1. /\ overview'[o] = Deleted /\ Deleted # Absent /\ Deleted \notin Overview!Overview
          /\ overview[o] # Absent
          /\ Overview!Exists(o) => overview[o].path = audioReq[r].path
      BY <1>2, <1>6, <2>0, <2>2 DEF RequestKept
    <3>2. ~Overview!Exists(o)' /\ ~Ready(o)'
      BY <3>1 DEF Overview!Exists, Ready
    <3>3. Ready(o) => audioFile[o] = {}
      BY <2>0, <2>2, <3>1 DEF RequestKept, RowKept, Ready
    <3>4. OverviewFile(o)'
      BY <1>2, <2>0, <3>2, <3>3 DEF OverviewFile
    <3>5. ASSUME NEW q \in Requests, WorksOn(q, o)'
          PROVE  RequestKept(q, o)'
      <4>1. q # r /\ audioReq'[q] = audioReq[q] /\ WorksOn(q, o)
        BY <1>4, <3>5 DEF WorksOn
      <4>2. audioReq[q].op # "create"
        BY <1>3, <1>6, <3>1, <4>1 DEF OverviewKept, RequestKept
      <4> QED BY <3>1, <3>2, <4>1, <4>2 DEF RequestKept
    <3>6. RowKept(o)'
      BY <3>1, <3>2 DEF RowKept
    <3> QED BY <1>6, <3>4, <3>5, <3>6 DEF OverviewKept
  <2> QED BY <1>1, <2>1, <2>2
<1> QED BY <1>5, <1>6

\* Requests end without a commit: the rows that they have created are gone, and
\* so are the files of what they were deleting.
LEMMA RollbackKeeps ==
    ASSUME AudioInv, NEW rs \in SUBSET Requests, NEW p \in Overviews \ audioStrayed,
           p \notin Overview!Unfiled(rs),
           overview' = Overview!RolledBack(rs), audioFile' = audioFile,
           \A r \in Requests : audioReq'[r] = IF r \in rs THEN Overview!Idle ELSE audioReq[r],
           \/ task'[p] = task[p]
           \/ Overview!Working(p) /\ task[p].at # "save" /\ task'[p].at = "done"
    PROVE  OverviewKept(p)'
<1> USE DEF AudioInv
<1>1. OverviewKept(p)
  BY DEF OverviewsKept
<1>2. /\ overview'[p] = IF \E r \in rs : WorksOn(r, p) /\ audioReq[r].op = "create" THEN Deleted ELSE overview[p]
      /\ \A r \in rs : WorksOn(r, p) /\ audioReq[r].op = "delete" => audioReq[r].path = Null
  BY DEF Overview!RolledBack, Overview!Unfiled, WorksOn
<1>3. \A r \in Requests : WorksOn(r, p)' => r \notin rs /\ WorksOn(r, p) /\ audioReq'[r] = audioReq[r]
  BY DEF WorksOn
<1>4. \A r \in Requests \ rs : WorksOn(r, p) => WorksOn(r, p)' /\ audioReq'[r] = audioReq[r]
  BY DEF WorksOn
<1>5. RowKept(p) /\ OverviewFile(p) /\ \A r \in Requests : WorksOn(r, p) => RequestKept(r, p)
  BY <1>1 DEF OverviewKept
<1>6. CASE \E r \in rs : WorksOn(r, p) /\ audioReq[r].op = "create"
  <2>1. PICK r \in rs : WorksOn(r, p) /\ audioReq[r].op = "create"
    BY <1>6
  <2>2. overview[p] = Absent /\ \A q \in Requests : WorksOn(q, p) => q = r
    BY <1>5, <2>1 DEF RequestKept
  <2>3. \A q \in Requests : ~WorksOn(q, p)'
    BY <1>3, <2>1, <2>2
  <2>4. overview'[p] = Deleted /\ Deleted # Absent /\ Deleted \notin Overview!Overview /\ Absent \notin Overview!Overview
    BY <1>2, <1>6
  <2>5. ~Overview!Exists(p)' /\ ~Overview!Exists(p) /\ ~Ready(p)' /\ ~Ready(p)
    BY <2>2, <2>4 DEF Overview!Exists, Ready
  <2>6. RowKept(p)'
    BY <2>4, <2>5 DEF RowKept
  <2>7. OverviewFile(p)'
    BY <1>5, <2>5 DEF OverviewFile, Overview!Working, Overview!Steps
  <2> QED BY <2>3, <2>6, <2>7 DEF OverviewKept
<1>7. CASE ~\E r \in rs : WorksOn(r, p) /\ audioReq[r].op = "create"
  <2>1. overview'[p] = overview[p]
    BY <1>2, <1>7
  <2>2. /\ Overview!Exists(p)' <=> Overview!Exists(p)
        /\ Ready(p)' <=> Ready(p)
        /\ Overview!Working(p)' => Overview!Working(p) /\ task'[p] = task[p]
    BY <2>1 DEF Overview!Exists, Ready, Overview!Working, Overview!Steps
  <2>3. BeingDeleted(p) => BeingDeleted(p)'
    <3>1. ASSUME NEW r \in Requests, WorksOn(r, p), audioReq[r].op = "delete", audioReq[r].path # Null
          PROVE  BeingDeleted(p)'
      BY <1>2, <1>4, <3>1 DEF BeingDeleted
    <3> QED BY <3>1 DEF BeingDeleted
  <2>4. overview[p] = Absent /\ Overview!Busy(p) => Overview!Busy(p)'
    <3>1. ASSUME NEW r \in Requests, WorksOn(r, p), overview[p] = Absent
          PROVE  Overview!Busy(p)'
      <4>1. audioReq[r].op = "create"
        BY <1>5, <3>1, WorksOnTyped DEF RequestKept, WorksOn
      <4>2. WorksOn(r, p)'
        BY <1>4, <1>7, <3>1, <4>1
      <4> QED BY <4>2 DEF WorksOn, Overview!Busy
    <3> QED BY <3>1, BusyWorks
  <2>5. RowKept(p)'
    BY <1>5, <2>1, <2>2, <2>4 DEF RowKept, Overview!Working, Overview!Steps
  <2>6. OverviewFile(p)'
    <3>1. CASE task'[p] = task[p]
      BY <1>5, <2>1, <2>2, <2>3, <3>1 DEF OverviewFile
    <3>2. CASE Overview!Working(p) /\ task[p].at # "save" /\ task'[p].at = "done"
      <4>1. ~Ready(p) /\ task[p].at # "done"
        BY <1>5, <3>2 DEF RowKept, Ready, Overview!Working, Overview!Steps
      <4> QED BY <1>5, <2>2, <3>2, <4>1 DEF OverviewFile
    <3> QED BY <3>1, <3>2
  <2>7. ASSUME NEW q \in Requests, WorksOn(q, p)'
        PROVE  RequestKept(q, p)'
    <3>1. RequestKept(q, p) /\ audioReq'[q] = audioReq[q]
      BY <1>3, <1>5, <2>7
    <3>2. task[p].at # "none" => task'[p].at # "none"
      OBVIOUS
    <3> QED BY <1>3, <2>1, <2>2, <3>1, <3>2 DEF RequestKept
  <2> QED BY <2>5, <2>6, <2>7 DEF OverviewKept
<1> QED BY <1>6, <1>7

LEMMA CommitFailsKeepsOverviews ==
    ASSUME AudioInv, NEW r \in Requests, Overview!CommitFails(r)
    PROVE  OverviewsKept'
<1> SUFFICES ASSUME NEW p \in Overviews \ audioStrayed'
             PROVE  OverviewKept(p)'
  BY DEF OverviewsKept
<1>1. /\ overview' = Overview!RolledBack({r})
      /\ audioStrayed' = audioStrayed \cup Overview!Unfiled({r})
      /\ audioReq' = [audioReq EXCEPT ![r] = Overview!Idle]
      /\ audioFile' = audioFile /\ task' = task
  BY DEF Overview!CommitFails
<1>2. \A q \in Requests : audioReq'[q] = IF q \in {r} THEN Overview!Idle ELSE audioReq[q]
  BY <1>1 DEF AudioInv, Overview!TypeOK
<1> QED BY <1>1, <1>2, RollbackKeeps

LEMMA RestartKeepsOverviews ==
    ASSUME AudioInv, Overview!Restart
    PROVE  OverviewsKept'
<1> SUFFICES ASSUME NEW p \in Overviews \ audioStrayed'
             PROVE  OverviewKept(p)'
  BY DEF OverviewsKept
<1>1. /\ overview' = Overview!RolledBack(Requests)
      /\ p \notin audioStrayed /\ p \notin Overview!Unfiled(Requests) /\ task[p].at # "save"
      /\ audioReq' = [r \in Requests |-> Overview!Idle]
      /\ audioFile' = audioFile
      /\ task'[p] = IF Overview!Working(p) THEN [task[p] EXCEPT !.at = "done"] ELSE task[p]
  BY DEF Overview!Restart
<1>2. task[p] \in Overview!Task
  BY DEF AudioInv, Overview!TypeOK
<1>3. \/ task'[p] = task[p]
      \/ Overview!Working(p) /\ task[p].at # "save" /\ task'[p].at = "done"
  BY <1>1, <1>2 DEF Overview!Task
<1>4. \A r \in Requests : audioReq'[r] = IF r \in Requests THEN Overview!Idle ELSE audioReq[r]
  BY <1>1
<1> QED BY <1>1, <1>3, <1>4, RollbackKeeps

\* A step of a generation: no deletion has removed a file yet, and the creation
\* of the overview may be in progress.
LEMMA TaskStepKeeps ==
    ASSUME AudioInv, NEW o \in Overviews, Overview!Working(o),
           audioReq' = audioReq, audioStrayed \subseteq audioStrayed',
           \A p \in Overviews \ {o} : overview'[p] = overview[p] /\ task'[p] = task[p] /\ audioFile'[p] = audioFile[p],
           Overview!Exists(o)' <=> Overview!Exists(o),
           overview'[o] = Absent <=> overview[o] = Absent,
           task'[o].at # "none",
           o \notin audioStrayed' =>
              /\ Overview!Exists(o) => /\ overview'[o].status = "ready" <=> overview'[o].path # Null
                                       /\ task'[o].at \in Overview!Steps => overview'[o].path = Null
              /\ overview[o] = Absent => task'[o].at \in {"queued", "failing", "done"}
              /\ task'[o].at = "save" => task'[o].audio \in Overview!Formats /\ audioFile'[o] = {task'[o].audio}
              /\ task'[o].at \notin {"save", "done"} => audioFile'[o] = {}
              /\ task'[o].at = "done" => audioFile'[o] = IF Ready(o)' THEN {overview'[o].path} ELSE {}
    PROVE  OverviewsKept'
<1> SUFFICES ASSUME NEW p \in Overviews \ audioStrayed'
             PROVE  OverviewKept(p)'
  BY DEF OverviewsKept
<1>1. OverviewKept(p)
  BY DEF AudioInv, OverviewsKept
<1>2. CASE p # o
  BY <1>1, <1>2, OtherOverviews
<1>3. CASE p = o
  <2>1. \A r \in Requests : WorksOn(r, o)' <=> WorksOn(r, o)
    BY DEF WorksOn
  <2>2. Overview!Busy(o)' <=> Overview!Busy(o)
    BY DEF Overview!Busy
  <2>3. overview[o] = Absent => Overview!Busy(o)
    BY <1>1, <1>3 DEF OverviewKept, RowKept, Overview!Working, Overview!Steps
  <2>4. RowKept(o)'
    BY <1>3, <2>2, <2>3 DEF RowKept, Overview!Working
  <2>5. OverviewFile(o)'
    BY <1>3 DEF OverviewFile
  <2>6. ASSUME NEW r \in Requests, WorksOn(r, o)'
        PROVE  RequestKept(r, o)'
    <3>1. RequestKept(r, o)
      BY <1>1, <1>3, <2>1, <2>6 DEF OverviewKept
    <3>2. Overview!Exists(o) => overview[o].path = Null
      BY <1>1, <1>3 DEF OverviewKept, RowKept
    <3> QED BY <2>1, <3>1, <3>2 DEF RequestKept
  <2> QED BY <1>3, <2>4, <2>5, <2>6 DEF OverviewKept
<1> QED BY <1>2, <1>3

LEMMA WorkingFacts ==
    ASSUME AudioInv, NEW o \in Overviews, Overview!Working(o)
    PROVE  /\ task[o].at \notin {"none", "done"}
           /\ o \notin audioStrayed =>
              /\ Overview!Exists(o) => overview[o].path = Null /\ overview[o].status # "ready"
              /\ overview[o] = Absent => task[o].at \in {"queued", "failing"}
              /\ task[o].at # "save" => audioFile[o] = {}
              /\ task[o].at = "save" => task[o].audio \in Overview!Formats /\ audioFile[o] = {task[o].audio}
<1>1. task[o].at \notin {"none", "done"}
  BY DEF Overview!Working, Overview!Steps
<1>2. o \notin audioStrayed => RowKept(o) /\ OverviewFile(o)
  BY DEF AudioInv, OverviewsKept, OverviewKept
<1> QED BY <1>1, <1>2 DEF RowKept, OverviewFile

\* What Goto does to the task, and what the model changes in a row.
LEMMA GotoFacts ==
    ASSUME Overview!TypeOK, NEW o \in Overviews, NEW at, Overview!Goto(o, at)
    PROVE  task'[o].at = at /\ task'[o].audio = task[o].audio /\ \A p \in Overviews \ {o} : task'[p] = task[p]
<1>1. task[o] \in Overview!Task
  BY DEF Overview!TypeOK
<1>2. task'[o] = [task[o] EXCEPT !.at = at] /\ \A p \in Overviews \ {o} : task'[p] = task[p]
  BY DEF Overview!Goto, Overview!TypeOK
<1> QED BY <1>1, <1>2 DEF Overview!Task

LEMMA StatusFacts ==
    ASSUME Overview!TypeOK, NEW o \in Overviews, Overview!Exists(o), NEW s \in Overview!AudioStatus,
           overview' = [overview EXCEPT ![o].status = s]
    PROVE  /\ overview'[o] \in Overview!Overview
           /\ overview'[o].status = s /\ overview'[o].path = overview[o].path
           /\ \A p \in Overviews \ {o} : overview'[p] = overview[p]
           /\ Overview!Exists(o)' /\ overview'[o] # Absent /\ overview[o] # Absent
<1>1. overview[o] \in Overview!Overview
  BY DEF Overview!Exists
<1>2. overview'[o] = [overview[o] EXCEPT !.status = s] /\ \A p \in Overviews \ {o} : overview'[p] = overview[p]
  BY DEF Overview!TypeOK
<1>3. overview'[o] \in Overview!Overview /\ overview'[o].status = s /\ overview'[o].path = overview[o].path
  BY <1>1, <1>2 DEF Overview!Overview
<1> QED BY <1>1, <1>2, <1>3 DEF Overview!Exists

LEMMA MarkGeneratingKeeps ==
    ASSUME AudioInv, NEW o \in Overviews, Overview!MarkGenerating(o)
    PROVE  OverviewsKept'
<1> USE DEF AudioInv
<1>1. task[o].at = "queued" /\ Overview!Working(o)
  BY DEF Overview!MarkGenerating, Overview!Working, Overview!Steps
<1>2. audioFile' = audioFile /\ audioReq' = audioReq /\ audioStrayed' = audioStrayed
  BY DEF Overview!MarkGenerating
<1>3. CASE Overview!Exists(o)
  <2>1. overview' = [overview EXCEPT ![o].status = "generating"] /\ Overview!Goto(o, "content")
    BY <1>3 DEF Overview!MarkGenerating
  <2>2. task'[o].at = "content" /\ \A p \in Overviews \ {o} : task'[p] = task[p]
    BY <2>1, GotoFacts
  <2>3. /\ overview'[o].status = "generating" /\ overview'[o].path = overview[o].path
        /\ \A p \in Overviews \ {o} : overview'[p] = overview[p]
        /\ Overview!Exists(o)' /\ overview'[o] # Absent /\ overview[o] # Absent
    BY <1>3, <2>1, StatusFacts DEF Overview!AudioStatus
  <2> QED BY <1>1, <1>2, <1>3, <2>2, <2>3, WorkingFacts, TaskStepKeeps
<1>4. CASE ~Overview!Exists(o)
  <2>1. overview' = overview /\ Overview!Goto(o, "done")
    BY <1>4 DEF Overview!MarkGenerating
  <2>2. task'[o].at = "done" /\ \A p \in Overviews \ {o} : task'[p] = task[p]
    BY <2>1, GotoFacts
  <2>3. ~Overview!Exists(o)' /\ ~Ready(o)' /\ "done" \notin Overview!Steps
    BY <1>4, <2>1 DEF Ready, Overview!Exists, Overview!Steps
  <2> QED BY <1>1, <1>2, <1>4, <2>1, <2>2, <2>3, WorkingFacts, TaskStepKeeps
<1> QED BY <1>3, <1>4

LEMMA PrepareKeeps ==
    ASSUME AudioInv, NEW o \in Overviews, Overview!Prepare(o)
    PROVE  OverviewsKept'
<1> USE DEF AudioInv
<1>1. /\ Overview!Working(o) /\ task[o].at \in {"content", "script"}
      /\ audioFile' = audioFile /\ audioReq' = audioReq /\ audioStrayed' = audioStrayed /\ overview' = overview
  BY DEF Overview!Prepare, Overview!Working, Overview!Steps
<1>2. PICK at \in {"script", "qwen", "failing"} : Overview!Goto(o, at)
  BY DEF Overview!Prepare, Overview!AfterFailure
<1>3. task'[o].at = at /\ \A p \in Overviews \ {o} : task'[p] = task[p]
  BY <1>2, GotoFacts
<1>4. Overview!Exists(o)' <=> Overview!Exists(o)
  BY <1>1 DEF Overview!Exists
<1> QED BY <1>1, <1>3, <1>4, WorkingFacts, TaskStepKeeps

\* A synthesis, of either engine
LEMMA SynthesisKeeps ==
    ASSUME AudioInv, NEW o \in Overviews, task[o].at \in {"qwen", "edge"},
           NEW format \in Overview!Formats, NEW next \in {"edge", "failing"},
           overview' = overview, audioReq' = audioReq,
           \/ /\ Overview!Write(o, format)
              /\ task' = [task EXCEPT ![o] = [at |-> "save", audio |-> format]]
              /\ audioStrayed' = audioStrayed
           \/ audioFile' = audioFile /\ audioStrayed' = audioStrayed /\ Overview!Goto(o, next)
           \/ Overview!Write(o, format) /\ Overview!Goto(o, next) /\ audioStrayed' = audioStrayed \cup {o}
    PROVE  OverviewsKept'
<1> USE DEF AudioInv
<1>1. Overview!Working(o) /\ task[o].at # "save"
  BY DEF Overview!Working, Overview!Steps
<1>2. Overview!Exists(o)' <=> Overview!Exists(o)
  BY DEF Overview!Exists
<1>3. ASSUME Overview!Write(o, format)
      PROVE  audioFile'[o] = audioFile[o] \cup {format} /\ \A p \in Overviews \ {o} : audioFile'[p] = audioFile[p]
  BY <1>3 DEF Overview!Write, Overview!TypeOK
<1>4. CASE /\ Overview!Write(o, format)
           /\ task' = [task EXCEPT ![o] = [at |-> "save", audio |-> format]]
           /\ audioStrayed' = audioStrayed
  <2>1. /\ task'[o].at = "save" /\ task'[o].audio = format
        /\ \A p \in Overviews \ {o} : task'[p] = task[p]
    BY <1>4 DEF Overview!TypeOK
  <2>2. o \notin audioStrayed' => audioFile'[o] = {format} /\ overview[o] # Absent
    BY <1>1, <1>3, <1>4, WorkingFacts
  <2> QED BY <1>1, <1>2, <1>3, <1>4, <2>1, <2>2, WorkingFacts, TaskStepKeeps
<1>5. CASE audioFile' = audioFile /\ audioStrayed' = audioStrayed /\ Overview!Goto(o, next)
  <2>1. task'[o].at = next /\ \A p \in Overviews \ {o} : task'[p] = task[p]
    BY <1>5, GotoFacts
  <2> QED BY <1>1, <1>2, <1>5, <2>1, WorkingFacts, TaskStepKeeps
<1>6. CASE Overview!Write(o, format) /\ Overview!Goto(o, next) /\ audioStrayed' = audioStrayed \cup {o}
  <2>1. task'[o].at = next /\ \A p \in Overviews \ {o} : task'[p] = task[p]
    BY <1>6, GotoFacts
  <2> QED BY <1>1, <1>2, <1>3, <1>6, <2>1, TaskStepKeeps
<1> QED BY <1>4, <1>5, <1>6

LEMMA SaveResultKeeps ==
    ASSUME AudioInv, NEW o \in Overviews, Overview!SaveResult(o)
    PROVE  OverviewsKept'
<1> USE DEF AudioInv
<1>1. /\ task[o].at = "save" /\ Overview!Working(o)
      /\ audioFile' = audioFile /\ audioReq' = audioReq /\ Overview!Goto(o, "done")
  BY DEF Overview!SaveResult, Overview!Working, Overview!Steps
<1>2. task'[o].at = "done" /\ "done" \notin Overview!Steps /\ \A p \in Overviews \ {o} : task'[p] = task[p]
  BY <1>1, GotoFacts DEF Overview!Steps
<1>3. CASE Overview!Exists(o)
  <2>1. overview' = [overview EXCEPT ![o] = [status |-> "ready", path |-> task[o].audio]] /\ audioStrayed' = audioStrayed
    BY <1>3 DEF Overview!SaveResult
  <2>2. /\ overview'[o] = [status |-> "ready", path |-> task[o].audio]
        /\ \A p \in Overviews \ {o} : overview'[p] = overview[p]
    BY <2>1 DEF Overview!TypeOK
  <2>3. task[o].audio \in Overview!Formats \cup {Null}
    BY OverviewTyped
  <2>4. overview'[o] \in Overview!Overview
    BY <2>2, <2>3 DEF Overview!Overview, Overview!AudioStatus
  <2>5. Overview!Exists(o)' /\ Ready(o)' /\ overview'[o] # Absent /\ overview[o] # Absent
    BY <1>3, <2>2, <2>4 DEF Overview!Exists, Ready
  <2>6. o \notin audioStrayed' => audioFile'[o] = {overview'[o].path} /\ overview'[o].path # Null
    BY <1>1, <2>1, <2>2, WorkingFacts
  <2>7. overview'[o].status = "ready"
    BY <2>2
  <2> HIDE DEF AudioInv
  <2> QED BY <1>1, <1>2, <1>3, <2>1, <2>2, <2>5, <2>6, <2>7, TaskStepKeeps
<1>4. CASE ~Overview!Exists(o)
  <2>1. overview' = overview /\ audioStrayed' = audioStrayed \cup {o}
    BY <1>4 DEF Overview!SaveResult
  <2>2. ~Overview!Exists(o)'
    BY <1>4, <2>1 DEF Overview!Exists
  <2> QED BY <1>1, <1>2, <1>4, <2>1, <2>2, TaskStepKeeps
<1> QED BY <1>3, <1>4

LEMMA MarkFailedKeeps ==
    ASSUME AudioInv, NEW o \in Overviews, Overview!MarkFailed(o)
    PROVE  OverviewsKept'
<1> USE DEF AudioInv
<1>1. /\ task[o].at = "failing" /\ Overview!Working(o)
      /\ audioFile' = audioFile /\ audioReq' = audioReq /\ audioStrayed' = audioStrayed /\ Overview!Goto(o, "done")
  BY DEF Overview!MarkFailed, Overview!Working, Overview!Steps
<1>2. task'[o].at = "done" /\ "done" \notin Overview!Steps /\ \A p \in Overviews \ {o} : task'[p] = task[p]
  BY <1>1, GotoFacts DEF Overview!Steps
<1>3. CASE Overview!Exists(o)
  <2>1. overview' = [overview EXCEPT ![o].status = "failed"]
    BY <1>3 DEF Overview!MarkFailed
  <2>2. /\ overview'[o].status = "failed" /\ overview'[o].path = overview[o].path
        /\ \A p \in Overviews \ {o} : overview'[p] = overview[p]
        /\ Overview!Exists(o)' /\ overview'[o] # Absent /\ overview[o] # Absent
    BY <1>3, <2>1, StatusFacts DEF Overview!AudioStatus
  <2>3. ~Ready(o)'
    BY <2>2 DEF Ready
  <2> QED BY <1>1, <1>2, <1>3, <2>2, <2>3, WorkingFacts, TaskStepKeeps
<1>4. CASE ~Overview!Exists(o)
  <2>1. overview' = overview
    BY <1>4 DEF Overview!MarkFailed
  <2>2. ~Overview!Exists(o)' /\ ~Ready(o)'
    BY <1>4, <2>1 DEF Overview!Exists, Ready
  <2> QED BY <1>1, <1>2, <1>4, <2>1, <2>2, WorkingFacts, TaskStepKeeps
<1> QED BY <1>3, <1>4

LEMMA SessionFailsKeeps ==
    ASSUME AudioInv, NEW o \in Overviews, Overview!SessionFails(o)
    PROVE  OverviewsKept'
<1> USE DEF AudioInv
<1>1. /\ task[o].at \in {"queued", "content", "save", "failing"} /\ Overview!Working(o)
      /\ overview' = overview /\ audioFile' = audioFile /\ audioReq' = audioReq
      /\ audioStrayed' = IF task[o].at = "save" THEN audioStrayed \cup {o} ELSE audioStrayed
      /\ Overview!Goto(o, IF task[o].at = "failing" THEN "done" ELSE "failing")
  BY DEF Overview!SessionFails, Overview!AfterFailure, Overview!Working, Overview!Steps
<1>2. PICK at \in {"done", "failing"} : Overview!Goto(o, at)
  BY <1>1
<1>3. task'[o].at = at /\ "done" \notin Overview!Steps /\ \A p \in Overviews \ {o} : task'[p] = task[p]
  BY <1>2, GotoFacts DEF Overview!Steps
<1>4. Overview!Exists(o)' <=> Overview!Exists(o)
  BY <1>1 DEF Overview!Exists
<1>5. Ready(o)' <=> Ready(o)
  BY <1>1, <1>4 DEF Ready
<1>6. o \notin audioStrayed' => ~Ready(o)
  BY <1>1, WorkingFacts DEF Ready
<1> QED BY <1>1, <1>3, <1>4, <1>5, <1>6, WorkingFacts, TaskStepKeeps

-----------------------------------------------------------------------------
(* The invariant *)

LEMMA AudioInit == ASSUME Overview!Init PROVE AudioInv
<1> USE DEF Overview!Init
<1>1. Overview!TypeOK
  BY DEF Overview!TypeOK, Overview!NoTask, Overview!Task, Overview!Steps
<1>2. ASSUME NEW o \in Overviews
      PROVE  OverviewKept(o)
  <2>1. /\ overview[o] = Absent /\ task[o].at = "none" /\ audioFile[o] = {}
        /\ \A r \in Requests : ~WorksOn(r, o)
    BY DEF Overview!NoTask, WorksOn
  <2>2. ~Overview!Exists(o)
    BY <2>1 DEF Overview!Exists
  <2> QED BY <2>1, <2>2 DEF OverviewKept, RowKept, OverviewFile
<1> QED BY <1>1, <1>2 DEF AudioInv, OverviewsKept

LEMMA AudioStep == ASSUME AudioInv, Overview!Next PROVE AudioInv'
<1>1. Overview!TypeOK'
  BY AudioTyped DEF AudioInv
<1>2. ASSUME NEW r \in Requests, NEW o \in Overviews, Overview!CreateOverview(r, o)
      PROVE  OverviewsKept'
  BY <1>2, CreateKeepsOverviews
<1>3. ASSUME NEW r \in Requests, NEW o \in Overviews, Overview!DeleteOverview(r, o)
      PROVE  OverviewsKept'
  BY <1>3, DeleteKeepsOverviews
<1>4. ASSUME NEW r \in Requests, Overview!Commit(r) \/ Overview!CommitFails(r)
      PROVE  OverviewsKept'
  BY <1>4, CommitKeepsOverviews, CommitFailsKeepsOverviews
<1>5. ASSUME NEW o \in Overviews, Overview!TaskStep(o)
      PROVE  OverviewsKept'
  <2>1. CASE Overview!SynthesizeQwen(o)
    <3>1. "wav" \in Overview!Formats /\ "edge" \in {"edge", "failing"}
      BY DEF Overview!Formats
    <3> QED BY <2>1, <3>1, SynthesisKeeps DEF Overview!SynthesizeQwen
  <2>2. CASE Overview!SynthesizeEdge(o)
    <3>1. "mp3" \in Overview!Formats /\ "failing" \in {"edge", "failing"}
      BY DEF Overview!Formats
    <3> QED BY <2>2, <3>1, SynthesisKeeps DEF Overview!SynthesizeEdge, Overview!AfterFailure
  <2> QED BY <1>5, <2>1, <2>2, MarkGeneratingKeeps, PrepareKeeps, SaveResultKeeps, MarkFailedKeeps
          DEF Overview!TaskStep
<1>6. ASSUME NEW o \in Overviews, Overview!SessionFails(o)
      PROVE  OverviewsKept'
  BY <1>6, SessionFailsKeeps
<1>7. OverviewsKept'
  BY <1>2, <1>3, <1>4, <1>5, <1>6, RestartKeepsOverviews DEF Overview!Next
<1> QED BY <1>1, <1>7 DEF AudioInv

\* The counter of faults is shared with the notes.
LEMMA FaultsOfNotes ==
    ASSUME Next
    PROVE  faults' = faults \/ (faults < MaxFaults /\ faults' = faults + 1)
<1>1. ASSUME NEW r \in Requests, NEW n \in NoteIds, NEW c \in Calls, Start(r, n, c)
      PROVE  faults' = faults
  BY <1>1 DEF Start, CreateNote, LoadNote, ToggleTodo, DeleteNote
<1>2. ASSUME NEW r \in Requests, FlushNote(r) \/ FlushFails(r) \/ SyncAndEmbed(r)
      PROVE  faults' = faults
  BY <1>2 DEF FlushNote, FlushFails, SyncAndEmbed
<1>3. ASSUME NEW r \in Requests, SyncFails(r) \/ Commit(r)
      PROVE  faults' = faults
  BY <1>3 DEF SyncFails, Commit
<1>4. ASSUME NEW r \in Requests, Fail(r)
      PROVE  faults < MaxFaults /\ faults' = faults + 1
  BY <1>4 DEF Fail
<1>5. ASSUME NEW i \in 1..Len(jobs), RunJob(i) \/ JobFails(i)
      PROVE  faults' = faults \/ (faults < MaxFaults /\ faults' = faults + 1)
  BY <1>5 DEF RunJob, JobFails
<1>6. ASSUME Restart
      PROVE  faults < MaxFaults /\ faults' = faults + 1
  BY <1>6 DEF Restart
<1> QED BY <1>1, <1>2, <1>3, <1>4, <1>5, <1>6 DEF Next, RequestStep

LEMMA AudioUntouched ==
    ASSUME AudioInv, UNCHANGED audioVars, faults' \in 0..MaxFaults
    PROVE  AudioInv'
<1>1. Overview!TypeOK'
  BY DEF AudioInv, Overview!TypeOK, audioVars
<1>2. ASSUME NEW o \in Overviews, o \notin audioStrayed
      PROVE  OverviewKept(o)'
  <2>1. \A r \in Requests : WorksOn(r, o)' <=> WorksOn(r, o)
    BY DEF WorksOn, audioVars
  <2> QED BY <1>2, <2>1, OverviewUnchanged DEF AudioInv, OverviewsKept, audioVars
<1> QED BY <1>1, <1>2 DEF AudioInv, OverviewsKept, audioVars

\* Audio: once no request and no task works on an overview, its files are the
\* one that its row names, or none: the row is ready if and only if it is there.
THEOREM FilesFollowTheRow == BothSpec => []FilesFollowRow
<1>1. BothInit => AudioInv
  BY AudioInit DEF BothInit
<1>2. AudioInv /\ [BothNext]_<<kind, vars, audioVars>> => AudioInv'
  <2> SUFFICES ASSUME AudioInv, [BothNext]_<<kind, vars, audioVars>>
               PROVE  AudioInv'
    OBVIOUS
  <2>1. faults \in 0..MaxFaults /\ MaxFaults \in Nat
    BY DEF AudioInv, Overview!TypeOK
  <2>2. CASE Next /\ UNCHANGED audioVars
    <3>1. faults' \in 0..MaxFaults
      BY <2>1, <2>2, FaultsOfNotes
    <3> QED BY <2>2, <3>1, AudioUntouched
  <2>3. CASE Overview!Next
    BY <2>3, AudioStep
  <2>4. CASE UNCHANGED <<kind, vars, audioVars>>
    <3>1. faults' = faults /\ UNCHANGED audioVars
      BY <2>4 DEF vars
    <3> QED BY <2>1, <3>1, AudioUntouched
  <2> QED BY <2>2, <2>3, <2>4 DEF BothNext
<1>3. AudioInv => FilesFollowRow
  <2> SUFFICES ASSUME AudioInv, NEW o \in Overviews, ~Overview!Busy(o), ~Overview!Working(o), o \notin audioStrayed
               PROVE  /\ audioFile[o] = IF Overview!Exists(o) /\ overview[o].status = "ready" THEN {overview[o].path} ELSE {}
                      /\ Overview!Exists(o) => (overview[o].status = "ready") = (overview[o].path # Null)
    BY DEF AudioInv, FilesFollowRow, Overview!FilesFollowRow
  <2>1. RowKept(o) /\ OverviewFile(o)
    BY DEF AudioInv, OverviewsKept, OverviewKept
  <2>2. ~BeingDeleted(o)
    BY BusyWorks DEF BeingDeleted
  <2>3. task[o].at \in {"none", "done"}
    BY OverviewTyped DEF AudioInv, Overview!Working
  <2> QED BY <2>1, <2>2, <2>3 DEF RowKept, OverviewFile, Ready
<1> QED BY <1>1, <1>2, <1>3, PTL DEF BothSpec

HIDE AudioAssumed DEF Overview!AudioAssumption
=============================================================================
