--------------------------- MODULE Services_proofs ---------------------------
(***************************************************************************)
(* The six services, for every set of requests, rows and users and every   *)
(* bound: what each of them keeps while its calls overlap, fail and        *)
(* restart.  Each part gives the inductive invariant of one service, shows *)
(* that every action of that service and every step of the others          *)
(* preserves it, and ends with its theorems.                               *)
(***************************************************************************)
EXTENDS Services, TLAPS, SequenceTheorems, FiniteSetTheorems

-----------------------------------------------------------------------------
(* Artifacts *)

Creating(r) == fileReq[r].pc \in {"insert", "commit"} /\ fileReq[r].op = "create"
Deleting(r) == fileReq[r].pc \in {"delete", "commit"} /\ fileReq[r].op = "delete"

\* The committed rows.
RowsSound ==
    \A i \in Files!Stored :
        /\ file[i].thread \notin gone
        /\ file[i].version <= fileRequests
        /\ file[i].parent # Null =>
              /\ file[i].parent \in Files!Stored
              /\ i \notin early => file[i].version = file[file[i].parent].version + 1

\* An id is created once, and the version of a row on its way is that of its
\* parent plus one for as long as the parent is there.
CreationsSound ==
    \A r \in Requests : Creating(r) =>
        LET id == fileReq[r].id  new == fileReq[r].row
        IN  /\ file[id] = Absent
            /\ \A q \in Requests : Creating(q) /\ fileReq[q].id = id => q = r
            /\ new.version <= fileRequests
            /\ new.parent # Null /\ file[new.parent] = Absent => id \in early
            /\ new.parent \in Files!Stored /\ id \notin early => new.version = file[new.parent].version + 1

\* The foreign keys of an INSERT hold until its commit: nobody is deleting what
\* it refers to.
ReferencesHold ==
    \A r \in Requests : Files!At(r, "create", "commit") =>
        /\ fileReq[r].row.parent \in Files!Stored \cup {Null}
        /\ fileReq[r].row.thread \notin gone
        /\ \A q \in Requests : /\ fileReq[r].row.parent \notin Files!DeletedBy(q)
                               /\ fileReq[r].row.thread \notin Files!ThreadsDeletedBy(q)

DeletionsKnown == \A r \in Requests : Deleting(r) => file[fileReq[r].id] # Absent

\* What a walk has seen counts down to where it is.
WalkSound(x) ==
    /\ \A v \in x.visited \cup ({x.id} \ {Null}) : file[v] # Absent
    /\ \A n \in 2 .. Len(x.walk) :
          x.walk[n - 1].id \notin early => x.walk[n - 1].version = x.walk[n].version + 1
    /\ x.walk # <<>> /\ x.id \in Files!Stored /\ x.walk[Len(x.walk)].id \notin early =>
          x.walk[Len(x.walk)].version = file[x.id].version + 1

WalksSound == \A r \in Requests : Files!At(r, "history", "walk") => WalkSound(fileReq[r])

\* Rows are younger than their parents, and what a walk has visited is younger
\* than where it is.
Ranked(rank) ==
    /\ \A i \in Files!Stored : file[i].parent # Null => rank[file[i].parent] < rank[i]
    /\ \A r \in Requests : Files!At(r, "history", "walk") /\ fileReq[r].id # Null =>
          \A v \in fileReq[r].visited : rank[fileReq[r].id] < rank[v]

HistoriesRanked == \E rank \in [Artifacts -> Nat] : Ranked(rank)

FilesInv ==
    /\ Files!TypeOK
    /\ RowsSound /\ CreationsSound /\ ReferencesHold /\ DeletionsKnown /\ WalksSound
    /\ HistoriesRanked

-----------------------------------------------------------------------------
USE ArtifactsAssumed DEF Files!ArtifactsAssumption

LEMMA FilesInvGives == FilesInv => ArtifactsFormHistories
<1> SUFFICES ASSUME FilesInv PROVE ArtifactsFormHistories
  OBVIOUS
<1>1. Files!TypeOK
  BY DEF FilesInv
<1>2. ASSUME NEW i \in Files!Stored
      PROVE  /\ file[i].thread \notin gone
             /\ file[i].parent # Null =>
                /\ file[i].parent \in Files!Stored
                /\ i \notin early => file[i].version = file[file[i].parent].version + 1
  BY DEF FilesInv, RowsSound
<1>3. ASSUME NEW r \in Requests, Files!At(r, "history", "walk")
      PROVE  fileReq[r].id \notin fileReq[r].visited
  <2>1. PICK rank \in [Artifacts -> Nat] : Ranked(rank)
    BY DEF FilesInv, HistoriesRanked
  <2>2. fileReq[r].visited \subseteq Artifacts
    BY <1>1, <1>3 DEF Files!TypeOK, Files!At, Files!Request, Files!Idle
  <2>3. CASE fileReq[r].id = Null
    BY <2>2, <2>3
  <2>4. CASE fileReq[r].id # Null
    BY <2>1, <2>2, <2>4, <1>3 DEF Ranked
  <2> QED BY <2>3, <2>4
<1>4. ASSUME NEW r \in Requests, Files!At(r, "history", "walk")
      PROVE  \A n \in 2 .. Len(fileReq[r].walk) :
                fileReq[r].walk[n - 1].id \notin early =>
                   fileReq[r].walk[n - 1].version = fileReq[r].walk[n].version + 1
  BY <1>4 DEF FilesInv, WalksSound, WalkSound
<1> QED
  BY <1>1, <1>2, <1>3, <1>4 DEF ArtifactsFormHistories, Files!ArtifactsFormHistories

LEMMA FilesInitially == Files!Init => FilesInv
<1> SUFFICES ASSUME Files!Init PROVE FilesInv
  OBVIOUS
<1>1. Files!TypeOK
  BY DEF Files!Init, Files!TypeOK, Files!Idle
<1>2. Files!Stored = {}
  BY DEF Files!Init, Files!Stored
<1>3. \A r \in Requests : fileReq[r].pc = "idle"
  BY DEF Files!Init, Files!Idle
<1>4. HistoriesRanked
  <2> DEFINE zero == [i \in Artifacts |-> 0]
  <2>1. zero \in [Artifacts -> Nat] /\ Ranked(zero)
    BY <1>2, <1>3 DEF Ranked, Files!At
  <2> HIDE DEF zero
  <2> QED BY <2>1 DEF HistoriesRanked
<1> QED
  BY <1>1, <1>2, <1>3, <1>4 DEF FilesInv, RowsSound, CreationsSound, ReferencesHold, DeletionsKnown,
     WalksSound, Creating, Deleting, Files!At

LEMMA FilesStutter == FilesInv /\ UNCHANGED fileVars => FilesInv'
<1> SUFFICES ASSUME FilesInv, UNCHANGED fileVars PROVE FilesInv'
  OBVIOUS
<1> USE DEF fileVars, WalkSound
<1>1. /\ Files!Stored' = Files!Stored
      /\ \A r : Files!DeletedBy(r)' = Files!DeletedBy(r) /\ Files!ThreadsDeletedBy(r)' = Files!ThreadsDeletedBy(r)
  BY DEF Files!Stored, Files!DeletedBy, Files!ThreadsDeletedBy, Files!At, Files!InThread
<1>2. Files!TypeOK'
  BY DEF FilesInv, Files!TypeOK
<1>3. RowsSound' /\ CreationsSound' /\ DeletionsKnown'
  BY <1>1 DEF FilesInv, RowsSound, CreationsSound, DeletionsKnown, Creating, Deleting
<1>4. ReferencesHold'
  BY <1>1 DEF FilesInv, ReferencesHold, Files!At
<1>5. WalksSound'
  BY <1>1 DEF FilesInv, WalksSound, Files!At
<1>6. HistoriesRanked'
  BY <1>1 DEF FilesInv, HistoriesRanked, Ranked, Files!At
<1> QED
  BY <1>2, <1>3, <1>4, <1>5, <1>6 DEF FilesInv

\* A step of one request that leaves the rows alone and locks none: what it
\* must satisfy in its next state x.
LEMMA QuietFileStep ==
    ASSUME FilesInv, NEW r \in Requests, UNCHANGED <<file, gone, early>>,
           fileRequests' \in {fileRequests, fileRequests + 1}, fileRequests' <= MaxArtifactRequests,
           NEW x \in Files!Request \cup {Files!Idle},
           fileReq' = [fileReq EXCEPT ![r] = x],
           x.pc \in {"idle", "update", "delete", "walk"} \/ (x.pc = "commit" /\ x.op = "update"),
           x.pc = "delete" /\ x.op = "delete" => file[x.id] # Absent,
           x.pc = "walk" => WalkSound(x),
           x.pc = "walk" =>
              \A rank \in [Artifacts -> Nat] :
                 Ranked(rank) /\ x.id # Null => \A v \in x.visited : rank[x.id] < rank[v]
    PROVE  FilesInv'
<1> USE DEF FilesInv
<1>1. Files!Stored' = Files!Stored
  BY DEF Files!Stored
<1>2. fileReq \in [Requests -> Files!Request \cup {Files!Idle}] /\ fileRequests \in Nat
  BY DEF Files!TypeOK
<1>3. \A q \in Requests : q # r => fileReq'[q] = fileReq[q]
  BY <1>2
<1>4. fileReq'[r] = x
  BY <1>2
<1>5. /\ ~Creating(r)' /\ ~Files!At(r, "create", "commit")'
      /\ ~Files!At(r, "delete", "commit")' /\ ~Files!At(r, "thread", "commit")'
      /\ Files!At(r, "history", "walk")' => x.pc = "walk"
      /\ Deleting(r)' => x.pc = "delete" /\ x.op = "delete"
  BY <1>4 DEF Creating, Deleting, Files!At, Files!Idle, Files!Request
<1>6. \A q \in Requests : Files!DeletedBy(q)' \subseteq Files!DeletedBy(q)
                          /\ Files!ThreadsDeletedBy(q)' \subseteq Files!ThreadsDeletedBy(q)
  BY <1>1, <1>3, <1>5 DEF Files!DeletedBy, Files!ThreadsDeletedBy, Files!InThread, Files!At
<1>7. Files!TypeOK'
  BY DEF Files!TypeOK
<1>8. RowsSound'
  BY <1>1, <1>2 DEF RowsSound, Files!TypeOK, Files!Stored, Files!Row
<1>9. CreationsSound'
  BY <1>1, <1>2, <1>3, <1>5 DEF CreationsSound, Creating, Files!TypeOK, Files!Request, Files!Row, Files!Idle
<1>10. ReferencesHold'
  BY <1>1, <1>3, <1>5, <1>6 DEF ReferencesHold, Files!At
<1>11. DeletionsKnown'
  BY <1>3, <1>4, <1>5 DEF DeletionsKnown, Deleting
<1>12. WalksSound'
  <2>1. ASSUME NEW q \in Requests, Files!At(q, "history", "walk")'
        PROVE  WalkSound(fileReq'[q])
    BY <1>3, <1>4, <1>5, <2>1 DEF WalksSound, Files!At
  <2>2. \A y : WalkSound(y) => WalkSound(y)'
    BY <1>1 DEF WalkSound
  <2> QED BY <2>1, <2>2 DEF WalksSound, WalkSound
<1>13. HistoriesRanked'
  <2>1. PICK rank \in [Artifacts -> Nat] : Ranked(rank)
    BY DEF HistoriesRanked
  <2>2. ASSUME NEW q \in Requests, Files!At(q, "history", "walk")', fileReq'[q].id # Null, NEW v \in fileReq'[q].visited
        PROVE  rank[fileReq'[q].id] < rank[v]
    BY <1>3, <1>4, <1>5, <2>1, <2>2 DEF Ranked, Files!At
  <2> QED BY <1>1, <2>1, <2>2 DEF HistoriesRanked, Ranked
<1> QED
  BY <1>7, <1>8, <1>9, <1>10, <1>11, <1>12, <1>13

LEMMA EndedFileStep ==
    ASSUME FilesInv, NEW r \in Requests, UNCHANGED <<file, gone, early, fileRequests>>, Files!Ends(r)
    PROVE  FilesInv'
<1>1. fileReq' = [fileReq EXCEPT ![r] = Files!Idle]
  BY DEF Files!Ends
<1>2. fileRequests \in 0 .. MaxArtifactRequests
  BY DEF FilesInv, Files!TypeOK
<1>3. Files!Idle \in Files!Request \cup {Files!Idle} /\ Files!Idle.pc = "idle"
  BY DEF Files!Idle
<1>4. /\ UNCHANGED <<file, gone, early>>
      /\ fileRequests' \in {fileRequests, fileRequests + 1} /\ fileRequests' <= MaxArtifactRequests
  BY <1>2
<1> QED BY <1>1, <1>3, <1>4, QuietFileStep

LEMMA CreateArtifactStep ==
    ASSUME FilesInv, NEW r \in Requests, NEW i \in Artifacts, NEW t \in ArtifactThreads \cup {Null},
           NEW p \in Files!Known \cup {Null}, Files!CreateArtifact(r, i, t, p)
    PROVE  FilesInv'
<1> DEFINE new == [thread |-> t, parent |-> p, version |-> Files!Version(p, ArtifactOwner[i])]
           x == [pc |-> "insert", op |-> "create", id |-> i, row |-> new]
<1> USE DEF FilesInv
<1>1. /\ fileReq \in [Requests -> Files!Request \cup {Files!Idle}] /\ fileRequests \in Nat
      /\ fileRequests < MaxArtifactRequests /\ fileRequests' = fileRequests + 1
      /\ file[i] = Absent /\ UNCHANGED <<file, gone>>
      /\ early' \in SUBSET Artifacts /\ early \subseteq early' /\ early' \subseteq early \cup {i}
      /\ fileReq' = [fileReq EXCEPT ![r] = x] /\ fileReq[r].pc = "idle"
  BY DEF Files!TypeOK, Files!CreateArtifact
<1>2. Files!Stored' = Files!Stored
  BY <1>1 DEF Files!Stored
<1>3. \A q \in Requests : q # r => fileReq'[q] = fileReq[q]
  BY <1>1
<1>4. fileReq'[r] = x
  BY <1>1
<1>5. /\ new \in Files!Row /\ new.version <= fileRequests'
      /\ p # Null /\ file[p] = Absent => i \in early'
      /\ p \in Files!Stored /\ i \notin early' => new.version = file[p].version + 1
  <2>1. p \in Artifacts \cup {Null}
    BY DEF Files!Known
  <2>2. CASE p # Null /\ Files!Found(p, ArtifactOwner[i])
    <3>1. p \in Files!Stored /\ file[p] \in Files!Row /\ file[p].version <= fileRequests
      BY <2>2 DEF Files!Found, Files!Stored, Files!TypeOK, RowsSound
    <3>2. new.version = file[p].version + 1
      BY <2>2 DEF Files!Version
    <3> QED BY <1>1, <2>1, <3>1, <3>2 DEF Files!Row
  <2>3. CASE ~(p # Null /\ Files!Found(p, ArtifactOwner[i]))
    <3>1. new.version = 1
      BY <2>3 DEF Files!Version
    <3>2. p = Null \/ i \in early'
      BY <2>3 DEF Files!CreateArtifact
    <3>3. Null \notin Files!Stored
      BY DEF Files!Stored
    <3> QED BY <1>1, <2>1, <3>1, <3>2, <3>3 DEF Files!Row
  <2> QED BY <2>2, <2>3
<1> HIDE DEF new
<1>6. /\ Creating(r)' /\ ~Deleting(r)' /\ x.pc = "insert" /\ x.op = "create" /\ x.id = i /\ x.row = new
      /\ \A op, pc : pc # "insert" => ~Files!At(r, op, pc)'
  BY <1>4 DEF Creating, Deleting, Files!At
<1> HIDE DEF x
<1>7. \A q \in Requests : Files!DeletedBy(q)' \subseteq Files!DeletedBy(q)
                          /\ Files!ThreadsDeletedBy(q)' \subseteq Files!ThreadsDeletedBy(q)
  BY <1>1, <1>2, <1>3, <1>6 DEF Files!DeletedBy, Files!ThreadsDeletedBy, Files!InThread, Files!At
<1>8. Files!TypeOK'
  <2>1. x \in Files!Request
    BY <1>5 DEF Files!Request, x
  <2> QED BY <1>1, <2>1 DEF Files!TypeOK
<1>9. RowsSound'
  BY <1>1, <1>2 DEF RowsSound, Files!TypeOK, Files!Stored, Files!Row
<1>10. \A q \in Requests : Creating(q) => fileReq[q].id # i
  BY DEF Files!CreateArtifact, Files!Busy, Creating
<1>11. CreationsSound'
  <2> SUFFICES ASSUME NEW q \in Requests, Creating(q)'
               PROVE  LET id == fileReq'[q].id  entry == fileReq'[q].row
                      IN  /\ file'[id] = Absent
                          /\ \A s \in Requests : Creating(s)' /\ fileReq'[s].id = id => s = q
                          /\ entry.version <= fileRequests'
                          /\ entry.parent # Null /\ file'[entry.parent] = Absent => id \in early'
                          /\ entry.parent \in Files!Stored' /\ id \notin early' => entry.version = file'[entry.parent].version + 1
    BY DEF CreationsSound
  <2>1. CASE q = r
    BY <1>1, <1>2, <1>3, <1>4, <1>5, <1>6, <1>10, <2>1 DEF Creating, new
  <2>2. CASE q # r
    <3>1. fileReq'[q] = fileReq[q] /\ Creating(q) /\ fileReq[q].row.version \in Nat
      BY <1>1, <1>3, <2>2 DEF Creating, Files!Request, Files!Row, Files!Idle
    <3> QED BY <1>1, <1>2, <1>3, <1>4, <1>6, <1>10, <2>2, <3>1 DEF CreationsSound, Creating
  <2> QED BY <2>1, <2>2
<1>12. ReferencesHold'
  BY <1>1, <1>2, <1>3, <1>6, <1>7 DEF ReferencesHold, Files!At
<1>13. DeletionsKnown'
  BY <1>1, <1>3, <1>6 DEF DeletionsKnown, Deleting
<1>14. WalksSound'
  BY <1>1, <1>2, <1>3, <1>6 DEF WalksSound, WalkSound, Files!At
<1>15. HistoriesRanked'
  BY <1>1, <1>2, <1>3, <1>6 DEF HistoriesRanked, Ranked, Files!At
<1> QED
  BY <1>8, <1>9, <1>11, <1>12, <1>13, <1>14, <1>15

LEMMA InsertArtifactStep ==
    ASSUME FilesInv, NEW r \in Requests, Files!InsertArtifact(r)
    PROVE  FilesInv'
<1> DEFINE new == fileReq[r].row
<1> USE DEF FilesInv
<1>1. /\ fileReq \in [Requests -> Files!Request \cup {Files!Idle}] /\ fileRequests \in 0 .. MaxArtifactRequests
      /\ UNCHANGED <<file, gone, early, fileRequests>>
      /\ Files!At(r, "create", "insert")
      /\ {new.parent, new.thread} \cap Files!BeingDeleted = {}
  BY DEF Files!TypeOK, Files!InsertArtifact
<1>2. CASE ~(new.parent \in Files!Stored \cup {Null} /\ new.thread \notin gone)
  <2>1. Files!Ends(r)
    BY <1>2 DEF Files!InsertArtifact
  <2> QED BY <1>1, <2>1, EndedFileStep
<1>3. CASE new.parent \in Files!Stored \cup {Null} /\ new.thread \notin gone
  <2>1. fileReq' = [fileReq EXCEPT ![r].pc = "commit"]
    BY <1>3 DEF Files!InsertArtifact, Files!Goes
  <2>2. \A q \in Requests : q # r => fileReq'[q] = fileReq[q]
    BY <1>1, <2>1
  <2>3. /\ fileReq[r] \in [pc : {"insert", "commit"}, op : {"create"}, id : Artifacts, row : Files!Row]
        /\ fileReq[r].pc = "insert"
    BY <1>1 DEF Files!Request, Files!Idle, Files!At
  <2>4. /\ fileReq'[r] \in [pc : {"insert", "commit"}, op : {"create"}, id : Artifacts, row : Files!Row]
        /\ fileReq'[r].pc = "commit" /\ fileReq'[r].op = "create"
        /\ fileReq'[r].id = fileReq[r].id /\ fileReq'[r].row = fileReq[r].row
    BY <1>1, <2>1, <2>3
  <2>5. Files!Stored' = Files!Stored
    BY <1>1 DEF Files!Stored
  <2>6. \A q \in Requests : /\ Creating(q)' = Creating(q) /\ Deleting(q)' = Deleting(q)
                            /\ fileReq'[q].id = fileReq[q].id /\ fileReq'[q].row = fileReq[q].row
    BY <2>2, <2>3, <2>4 DEF Creating, Deleting
  <2>7. \A q \in Requests : Files!DeletedBy(q)' = Files!DeletedBy(q)
                            /\ Files!ThreadsDeletedBy(q)' = Files!ThreadsDeletedBy(q)
    BY <1>1, <2>2, <2>3, <2>4, <2>5 DEF Files!DeletedBy, Files!ThreadsDeletedBy, Files!InThread, Files!At
  <2>8. Files!TypeOK'
    <3>1. fileReq'[r] \in Files!Request
      BY <2>4 DEF Files!Request
    <3> QED BY <1>1, <2>1, <2>2, <3>1 DEF Files!TypeOK
  <2>9. RowsSound' /\ CreationsSound' /\ DeletionsKnown'
    BY <1>1, <2>5, <2>6 DEF RowsSound, CreationsSound, DeletionsKnown
  <2>10. ReferencesHold'
    <3>1. \A q \in Requests : new.parent \notin Files!DeletedBy(q) /\ new.thread \notin Files!ThreadsDeletedBy(q)
      BY <1>1 DEF Files!BeingDeleted
    <3> QED BY <1>1, <1>3, <2>2, <2>4, <2>5, <2>7, <3>1 DEF ReferencesHold, Files!At
  <2>11. \A q \in Requests : Files!At(q, "history", "walk")' => /\ fileReq'[q] = fileReq[q]
                                                             /\ Files!At(q, "history", "walk")
    BY <2>2, <2>4 DEF Files!At
  <2>12. WalksSound'
    BY <1>1, <2>5, <2>11 DEF WalksSound, WalkSound
  <2>13. HistoriesRanked'
    <3>1. PICK rank \in [Artifacts -> Nat] : Ranked(rank)
      BY <1>1 DEF HistoriesRanked
    <3>2. Ranked(rank)'
      BY <1>1, <2>5, <2>11, <3>1 DEF Ranked
    <3> QED BY <3>2 DEF HistoriesRanked
  <2> QED BY <2>8, <2>9, <2>10, <2>12, <2>13
<1> QED BY <1>2, <1>3

LEMMA CommitArtifactStep ==
    ASSUME FilesInv, NEW r \in Requests, Files!CommitArtifact(r)
    PROVE  FilesInv'
<1> DEFINE id == fileReq[r].id
           new == fileReq[r].row
<1> USE DEF FilesInv
<1>1. /\ fileReq \in [Requests -> Files!Request \cup {Files!Idle}] /\ fileRequests \in 0 .. MaxArtifactRequests
      /\ file \in [Artifacts -> Files!Row \cup {Absent, Deleted}]
      /\ UNCHANGED <<gone, early, fileRequests>>
      /\ Files!At(r, "create", "commit") /\ Creating(r)
      /\ file' = [file EXCEPT ![id] = new]
      /\ fileReq' = [fileReq EXCEPT ![r] = Files!Idle]
  BY DEF Files!TypeOK, Files!CommitArtifact, Files!Ends, Files!At, Creating
<1>2. id \in Artifacts /\ new \in Files!Row
  BY <1>1 DEF Files!Request, Files!Idle, Files!At
<1>3. file[id] = Absent /\ file'[id] = new /\ \A i \in Artifacts : i # id => file'[i] = file[i]
  BY <1>1, <1>2 DEF CreationsSound
<1>4. Files!Stored' = Files!Stored \cup {id} /\ id \notin Files!Stored
  BY <1>1, <1>2, <1>3 DEF Files!Stored
<1>5. \A q \in Requests : q # r => fileReq'[q] = fileReq[q]
  BY <1>1
<1>6. /\ fileReq'[r] = Files!Idle /\ ~Creating(r)' /\ ~Deleting(r)'
      /\ \A op, pc : pc # "idle" => ~Files!At(r, op, pc)'
  BY <1>1 DEF Files!Idle, Creating, Deleting, Files!At
<1>7. \A q \in Requests : /\ Files!DeletedBy(q)' \subseteq Files!DeletedBy(q)
                          /\ Files!ThreadsDeletedBy(q)' \subseteq Files!ThreadsDeletedBy(q)
  <2> SUFFICES ASSUME NEW q \in Requests
               PROVE  /\ Files!DeletedBy(q)' \subseteq Files!DeletedBy(q)
                      /\ Files!ThreadsDeletedBy(q)' \subseteq Files!ThreadsDeletedBy(q)
    OBVIOUS
  <2>1. CASE q = r
    BY <1>6, <2>1 DEF Files!DeletedBy, Files!ThreadsDeletedBy
  <2>2. CASE q # r /\ Files!At(q, "delete", "commit")
    <3>1. fileReq[q].id # id
      BY <1>3, <2>2 DEF DeletionsKnown, Deleting, Files!At
    <3> QED BY <1>4, <1>5, <2>2, <3>1 DEF Files!DeletedBy, Files!ThreadsDeletedBy, Files!At
  <2>3. CASE q # r /\ Files!At(q, "thread", "commit")
    <3>1. new.thread # fileReq[q].thread
      BY <1>1, <2>3 DEF ReferencesHold, Files!ThreadsDeletedBy
    <3>2. ~Files!At(q, "delete", "commit") /\ ~Files!At(q, "delete", "commit")'
      BY <1>5, <2>3 DEF Files!At
    <3>3. Files!InThread(fileReq[q].thread)' \subseteq Files!InThread(fileReq[q].thread)
      BY <1>3, <1>4, <1>5, <2>3, <3>1 DEF Files!InThread, Files!Stored
    <3> QED BY <1>5, <2>3, <3>2, <3>3 DEF Files!DeletedBy, Files!ThreadsDeletedBy, Files!At
  <2>4. CASE q # r /\ ~Files!At(q, "delete", "commit") /\ ~Files!At(q, "thread", "commit")
    BY <1>5, <2>4 DEF Files!DeletedBy, Files!ThreadsDeletedBy, Files!At
  <2> QED BY <2>1, <2>2, <2>3, <2>4
<1>8. Files!TypeOK'
  BY <1>1, <1>2 DEF Files!TypeOK
<1>9. RowsSound'
  <2> SUFFICES ASSUME NEW i \in Files!Stored'
               PROVE  /\ file'[i].thread \notin gone'
                      /\ file'[i].version <= fileRequests'
                      /\ file'[i].parent # Null =>
                            /\ file'[i].parent \in Files!Stored'
                            /\ i \notin early' => file'[i].version = file'[file'[i].parent].version + 1
    BY DEF RowsSound
  <2>1. CASE i = id
    <3>1. new.parent \in Files!Stored \cup {Null} /\ new.thread \notin gone
      BY <1>1 DEF ReferencesHold
    <3>2. new.version <= fileRequests
          /\ (new.parent \in Files!Stored /\ id \notin early => new.version = file[new.parent].version + 1)
      BY <1>1 DEF CreationsSound
    <3> QED BY <1>1, <1>3, <1>4, <2>1, <3>1, <3>2 DEF Files!Stored
  <2>2. CASE i # id
    <3>1. i \in Files!Stored /\ file'[i] = file[i]
      BY <1>3, <1>4, <2>2 DEF Files!Stored
    <3> QED BY <1>1, <1>3, <1>4, <3>1 DEF RowsSound, Files!Stored
  <2> QED BY <2>1, <2>2
<1>10. CreationsSound'
  <2> SUFFICES ASSUME NEW q \in Requests, Creating(q)'
               PROVE  LET i == fileReq'[q].id  entry == fileReq'[q].row
                      IN  /\ file'[i] = Absent
                          /\ \A s \in Requests : Creating(s)' /\ fileReq'[s].id = i => s = q
                          /\ entry.version <= fileRequests'
                          /\ entry.parent # Null /\ file'[entry.parent] = Absent => i \in early'
                          /\ entry.parent \in Files!Stored' /\ i \notin early' => entry.version = file'[entry.parent].version + 1
    BY DEF CreationsSound
  <2>1. q # r /\ fileReq'[q] = fileReq[q] /\ Creating(q)
    BY <1>5, <1>6 DEF Creating
  <2>2. fileReq[q].id \in Artifacts /\ fileReq[q].row \in Files!Row
    BY <1>1, <2>1 DEF Creating, Files!Request, Files!Idle
  <2>3. fileReq[q].id # id
    BY <1>1, <2>1 DEF CreationsSound
  <2>4. \A s \in Requests : Creating(s)' => Creating(s) /\ fileReq'[s].id = fileReq[s].id
    BY <1>5, <1>6 DEF Creating
  <2> DEFINE entry == fileReq[q].row
  <2>5. /\ file[fileReq[q].id] = Absent /\ entry.version <= fileRequests
        /\ \A s \in Requests : Creating(s) /\ fileReq[s].id = fileReq[q].id => s = q
        /\ entry.parent # Null /\ file[entry.parent] = Absent => fileReq[q].id \in early
        /\ entry.parent \in Files!Stored /\ fileReq[q].id \notin early => entry.version = file[entry.parent].version + 1
    BY <2>1 DEF CreationsSound
  <2>6. entry.parent \in Artifacts \cup {Null}
    BY <2>2 DEF Files!Row
  <2>7. CASE entry.parent = id
    BY <1>1, <1>2, <1>3, <2>1, <2>2, <2>3, <2>4, <2>5, <2>7
  <2>8. CASE entry.parent # id
    BY <1>1, <1>3, <1>4, <2>1, <2>2, <2>3, <2>4, <2>5, <2>6, <2>8
  <2> QED BY <2>7, <2>8
<1>11. ReferencesHold'
  BY <1>1, <1>4, <1>5, <1>6, <1>7 DEF ReferencesHold, Files!At
<1>12. DeletionsKnown'
  <2>1. \A q \in Requests : Deleting(q)' => Deleting(q) /\ fileReq'[q] = fileReq[q] /\ fileReq[q].id \in Artifacts
    BY <1>1, <1>5, <1>6 DEF Deleting, Files!Request, Files!Idle
  <2> QED BY <1>3, <2>1 DEF DeletionsKnown
<1>13. WalksSound'
  <2> SUFFICES ASSUME NEW q \in Requests, Files!At(q, "history", "walk")'
               PROVE  WalkSound(fileReq[q])'
    BY <1>5, <1>6 DEF WalksSound, WalkSound, Files!At
  <2>1. fileReq'[q] = fileReq[q] /\ Files!At(q, "history", "walk")
    BY <1>5, <1>6 DEF Files!At
  <2>2. fileReq[q].visited \subseteq Artifacts /\ fileReq[q].id \in Artifacts \cup {Null}
    BY <1>1, <2>1 DEF Files!At, Files!Request, Files!Idle
  <2>3. \A v \in fileReq[q].visited \cup ({fileReq[q].id} \ {Null}) : file'[v] # Absent /\ v # id /\ file'[v] = file[v]
    BY <1>3, <2>1, <2>2 DEF WalksSound, WalkSound
  <2>4. fileReq[q].id \in Files!Stored' => fileReq[q].id \in Files!Stored /\ file'[fileReq[q].id] = file[fileReq[q].id]
    BY <1>2, <1>3, <1>4, <2>3 DEF Files!Stored
  <2> QED BY <1>1, <1>5, <2>1, <2>3, <2>4 DEF WalksSound, WalkSound
<1>14. HistoriesRanked'
  <2>1. PICK rank \in [Artifacts -> Nat] : Ranked(rank)
    BY DEF HistoriesRanked
  <2> DEFINE above == IF new.parent = Null THEN 0 ELSE rank[new.parent] + 1
             rank2 == [rank EXCEPT ![id] = above]
  <2>2. new.parent \in Files!Stored \cup {Null}
    BY <1>1 DEF ReferencesHold
  <2>3. above \in Nat /\ (new.parent # Null => rank[new.parent] < above)
    BY <2>2 DEF Files!Stored
  <2> HIDE DEF above
  <2>4. rank2 \in [Artifacts -> Nat] /\ rank2[id] = above /\ \A i \in Artifacts : i # id => rank2[i] = rank[i]
    BY <1>2, <2>3
  <2> HIDE DEF rank2
  <2>5. ASSUME NEW i \in Files!Stored', file'[i].parent # Null
        PROVE  rank2[file'[i].parent] < rank2[i]
    <3>1. CASE i = id
      BY <1>3, <1>4, <2>2, <2>3, <2>4, <2>5, <3>1 DEF Files!Stored
    <3>2. CASE i # id
      <4>1. i \in Files!Stored /\ file'[i] = file[i] /\ file[i].parent \in Files!Stored
        BY <1>3, <1>4, <2>5, <3>2 DEF RowsSound, Files!Stored
      <4> QED BY <1>4, <2>1, <2>4, <2>5, <3>2, <4>1 DEF Ranked, Files!Stored
    <3> QED BY <3>1, <3>2
  <2>6. ASSUME NEW q \in Requests, Files!At(q, "history", "walk")', fileReq'[q].id # Null, NEW v \in fileReq'[q].visited
        PROVE  rank2[fileReq'[q].id] < rank2[v]
    <3>1. fileReq'[q] = fileReq[q] /\ Files!At(q, "history", "walk")
      BY <1>5, <1>6, <2>6 DEF Files!At
    <3>2. fileReq[q].visited \subseteq Artifacts /\ fileReq[q].id \in Artifacts \cup {Null}
      BY <1>1, <3>1 DEF Files!At, Files!Request, Files!Idle
    <3>3. v # id /\ fileReq[q].id # id
      BY <1>3, <2>6, <3>1, <3>2 DEF WalksSound, WalkSound
    <3> QED BY <2>1, <2>4, <2>6, <3>1, <3>2, <3>3 DEF Ranked
  <2> QED BY <2>4, <2>5, <2>6 DEF HistoriesRanked, Ranked
<1> QED
  BY <1>8, <1>9, <1>10, <1>11, <1>12, <1>13, <1>14

LEMMA StartDeleteThreadStep ==
    ASSUME FilesInv, NEW r \in Requests, NEW t \in ArtifactThreads, Files!DeleteThread(r, t)
    PROVE  FilesInv'
<1> DEFINE x == [pc |-> "delete", op |-> "thread", thread |-> t]
<1>1. /\ UNCHANGED <<file, gone, early>> /\ fileRequests' = fileRequests + 1
      /\ fileRequests \in Nat /\ fileRequests' <= MaxArtifactRequests
  BY DEF FilesInv, Files!TypeOK, Files!DeleteThread
<1>2. x \in Files!Request \cup {Files!Idle}
  BY DEF Files!Request
<1>3. fileReq' = [fileReq EXCEPT ![r] = x]
  BY DEF Files!DeleteThread
<1> QED BY <1>1, <1>2, <1>3, QuietFileStep

LEMMA StartFileStep ==
    ASSUME FilesInv, NEW r \in Requests, NEW i \in Artifacts,
           Files!UpdateArtifact(r, i) \/ Files!DeleteArtifact(r, i) \/ Files!StartHistory(r, i)
    PROVE  FilesInv'
<1>1. /\ UNCHANGED <<file, gone, early>> /\ fileRequests' = fileRequests + 1
      /\ fileRequests \in Nat /\ fileRequests' <= MaxArtifactRequests
  BY DEF FilesInv, Files!TypeOK, Files!UpdateArtifact, Files!DeleteArtifact, Files!StartHistory
<1>2. CASE Files!UpdateArtifact(r, i)
  <2> DEFINE x == [pc |-> "update", op |-> "update", id |-> i]
  <2>1. x \in Files!Request \cup {Files!Idle}
    BY DEF Files!Request
  <2>2. fileReq' = [fileReq EXCEPT ![r] = x]
    BY <1>2 DEF Files!UpdateArtifact
  <2> QED BY <1>1, <2>1, <2>2, QuietFileStep
<1>3. CASE Files!DeleteArtifact(r, i)
  <2> DEFINE x == [pc |-> "delete", op |-> "delete", id |-> i]
  <2>1. x \in Files!Request \cup {Files!Idle}
    BY DEF Files!Request
  <2>2. fileReq' = [fileReq EXCEPT ![r] = x] /\ file[i] # Absent
    BY <1>3 DEF Files!DeleteArtifact, Files!Stored
  <2> QED BY <1>1, <2>1, <2>2, QuietFileStep
<1>5. CASE Files!StartHistory(r, i)
  <2> DEFINE x == [pc |-> "walk", op |-> "history", user |-> ArtifactOwner[i],
                   id |-> i, visited |-> {}, walk |-> <<>>]
  <2>1. x \in Files!Request \cup {Files!Idle}
    BY DEF Files!Request
  <2>2. fileReq' = [fileReq EXCEPT ![r] = x] /\ file[i] # Absent
    BY <1>5 DEF Files!StartHistory, Files!Stored
  <2>3. WalkSound(x)
    BY <2>2 DEF WalkSound
  <2>4. x.pc = "walk" /\ x.visited = {}
    OBVIOUS
  <2> HIDE DEF x
  <2> QED BY <1>1, <2>1, <2>2, <2>3, <2>4, QuietFileStep
<1> QED BY <1>2, <1>3, <1>5

LEMMA UpdateFileStep ==
    ASSUME FilesInv, NEW r \in Requests,
           Files!FlushUpdate(r) \/ Files!CommitUpdate(r) \/ Files!Fail(r)
    PROVE  FilesInv'
<1>1. UNCHANGED <<file, gone, early, fileRequests>>
  BY DEF Files!FlushUpdate, Files!CommitUpdate, Files!Fail
<1>2. CASE Files!Ends(r)
  BY <1>1, <1>2, EndedFileStep
<1>3. CASE Files!FlushUpdate(r) /\ Files!Goes(r, "commit")
  <2> DEFINE x == [fileReq[r] EXCEPT !.pc = "commit"]
  <2>1. fileReq[r] \in Files!Request \cup {Files!Idle} /\ fileRequests \in 0 .. MaxArtifactRequests
    BY DEF FilesInv, Files!TypeOK
  <2>2. fileReq[r] \in [pc : {"update", "commit"}, op : {"update"}, id : Artifacts]
    BY <1>3, <2>1 DEF Files!FlushUpdate, Files!At, Files!Request, Files!Idle
  <2>3. x \in [pc : {"update", "commit"}, op : {"update"}, id : Artifacts] /\ x.pc = "commit" /\ x.op = "update"
    BY <2>2
  <2>4. x \in Files!Request
    BY <2>3 DEF Files!Request
  <2>5. fileReq' = [fileReq EXCEPT ![r] = x]
    BY <1>3 DEF Files!Goes
  <2>6. fileRequests' \in {fileRequests, fileRequests + 1} /\ fileRequests' <= MaxArtifactRequests
    BY <1>1, <2>1
  <2> HIDE DEF x
  <2> QED BY <1>1, <2>3, <2>4, <2>5, <2>6, QuietFileStep
<1> QED BY <1>2, <1>3 DEF Files!FlushUpdate, Files!CommitUpdate, Files!Fail

LEMMA WalkHistoryStep ==
    ASSUME FilesInv, NEW r \in Requests, Files!WalkHistory(r)
    PROVE  FilesInv'
<1> DEFINE q == fileReq[r]
           x == [q EXCEPT !.visited = @ \cup {q.id},
                          !.walk = Append(@, [id |-> q.id, version |-> file[q.id].version]),
                          !.id = file[q.id].parent]
<1> USE DEF FilesInv
<1>1. /\ UNCHANGED <<file, gone, early, fileRequests>> /\ Files!At(r, "history", "walk")
      /\ fileReq \in [Requests -> Files!Request \cup {Files!Idle}] /\ fileRequests \in 0 .. MaxArtifactRequests
  BY DEF Files!WalkHistory, Files!TypeOK
<1>2. CASE q.id \in q.visited \cup {Null} \/ ~Files!Found(q.id, q.user)
  <2>1. Files!Ends(r)
    BY <1>2 DEF Files!WalkHistory, Files!Ends
  <2> QED BY <1>1, <2>1, EndedFileStep
<1>3. CASE q.id \notin q.visited \cup {Null} /\ Files!Found(q.id, q.user)
  <2>1. fileReq' = [fileReq EXCEPT ![r] = x]
    BY <1>3 DEF Files!WalkHistory
  <2>2. /\ q \in [pc : {"walk"}, op : {"history"}, user : {ArtifactOwner[i] : i \in Artifacts},
                  id : Artifacts \cup {Null}, visited : SUBSET Artifacts,
                  walk : Seq([id : Artifacts, version : 1 .. MaxArtifactRequests])]
        /\ WalkSound(q)
    <3>1. q \in Files!Request \cup {Files!Idle} /\ q.pc = "walk"
      BY <1>1 DEF Files!At
    <3>2. WalkSound(q)
      BY <1>1 DEF WalksSound
    <3> QED BY <3>1, <3>2 DEF Files!Request, Files!Idle
  <2>3. q.id \in Files!Stored /\ q.id \in Artifacts /\ file[q.id] \in Files!Row
    BY <1>3 DEF Files!Found, Files!Stored, Files!TypeOK
  <2>4. file[q.id].parent # Null =>
           /\ file[q.id].parent \in Files!Stored
           /\ q.id \notin early => file[q.id].version = file[file[q.id].parent].version + 1
    BY <2>3 DEF RowsSound
  <2> DEFINE seen == [id |-> q.id, version |-> file[q.id].version]
  <2>5. seen \in [id : Artifacts, version : 1 .. MaxArtifactRequests]
    BY <2>3 DEF Files!Row
  <2>10. /\ q.walk \in Seq([id : Artifacts, version : 1 .. MaxArtifactRequests]) /\ Len(q.walk) \in Nat
         /\ Append(q.walk, seen) \in Seq([id : Artifacts, version : 1 .. MaxArtifactRequests])
    BY <2>2, <2>5
  <2> HIDE DEF seen
  <2>6. /\ x.walk = Append(q.walk, seen) /\ x.visited = q.visited \cup {q.id} /\ x.id = file[q.id].parent
        /\ x.pc = "walk"
        /\ x \in [pc : {"walk"}, op : {"history"}, user : {ArtifactOwner[i] : i \in Artifacts},
                  id : Artifacts \cup {Null}, visited : SUBSET Artifacts,
                  walk : Seq([id : Artifacts, version : 1 .. MaxArtifactRequests])]
    BY <2>2, <2>3, <2>10 DEF Files!Row, seen
  <2>7. x \in Files!Request
    BY <2>6 DEF Files!Request
  <2> HIDE DEF x
  <2>8. WalkSound(x)
    <3>1. \A v \in x.visited \cup ({x.id} \ {Null}) : file[v] # Absent
      BY <2>2, <2>3, <2>4, <2>6 DEF WalkSound, Files!Stored
    <3>2. /\ Len(x.walk) = Len(q.walk) + 1 /\ x.walk[Len(x.walk)] = seen
          /\ \A n \in 1 .. Len(q.walk) : x.walk[n] = q.walk[n]
      BY <2>6, <2>10
    <3>3. ASSUME NEW n \in 2 .. Len(x.walk), x.walk[n - 1].id \notin early
          PROVE  x.walk[n - 1].version = x.walk[n].version + 1
      <4>1. CASE n = Len(x.walk)
        <5>1. n - 1 = Len(q.walk) /\ Len(q.walk) \in 1 .. Len(q.walk) /\ x.walk[n] = seen
          BY <2>10, <3>2, <4>1
        <5>2. q.walk # <<>>
          BY <5>1
        <5>3. x.walk[n - 1] = q.walk[Len(q.walk)]
          BY <3>2, <5>1
        <5> QED BY <2>2, <2>3, <3>3, <5>1, <5>2, <5>3 DEF WalkSound, seen
      <4>2. CASE n # Len(x.walk)
        <5> DEFINE m == Len(q.walk)
        <5>3. m \in Nat /\ Len(x.walk) = m + 1
          BY <2>10, <3>2
        <5> HIDE DEF m
        <5>2. n \in 2 .. m /\ n - 1 \in 1 .. m /\ n \in 1 .. m
          BY <4>2, <5>3
        <5>1. n \in 2 .. Len(q.walk) /\ x.walk[n - 1] = q.walk[n - 1] /\ x.walk[n] = q.walk[n]
          BY <3>2, <5>2 DEF m
        <5> QED BY <2>2, <3>3, <5>1 DEF WalkSound
      <4> QED BY <4>1, <4>2
    <3>4. x.id \in Files!Stored /\ x.walk[Len(x.walk)].id \notin early =>
             x.walk[Len(x.walk)].version = file[x.id].version + 1
      <4>1. Null \notin Files!Stored
        BY DEF Files!Stored
      <4> QED BY <2>4, <2>6, <3>2, <4>1 DEF seen
    <3> QED BY <3>1, <3>3, <3>4 DEF WalkSound
  <2>9. ASSUME NEW rank \in [Artifacts -> Nat], Ranked(rank), x.id # Null, NEW v \in x.visited
        PROVE  rank[x.id] < rank[v]
    <3>1. rank[file[q.id].parent] < rank[q.id] /\ x.id = file[q.id].parent
      BY <2>3, <2>6, <2>9 DEF Ranked
    <3>2. v = q.id \/ rank[q.id] < rank[v]
      BY <1>1, <1>3, <2>6, <2>9 DEF Ranked
    <3>3. {x.id, q.id, v} \subseteq Artifacts
      BY <2>2, <2>3, <2>6, <2>9
    <3> QED BY <3>1, <3>2, <3>3
  <2>11. fileRequests' \in {fileRequests, fileRequests + 1} /\ fileRequests' <= MaxArtifactRequests
    BY <1>1
  <2> QED BY <1>1, <2>1, <2>6, <2>7, <2>8, <2>9, <2>11, QuietFileStep
<1> QED BY <1>2, <1>3

LEMMA ExecuteDeleteStep ==
    ASSUME FilesInv, NEW r \in Requests, Files!ExecuteDelete(r) \/ Files!ExecuteDeleteThread(r)
    PROVE  FilesInv'
<1> DEFINE q == fileReq[r]
<1> USE DEF FilesInv
<1>1. /\ UNCHANGED <<file, gone, early, fileRequests>>
      /\ Files!At(r, "delete", "delete") \/ Files!At(r, "thread", "delete")
      /\ fileReq' = [fileReq EXCEPT ![r].pc = "commit"]
      /\ fileReq \in [Requests -> Files!Request \cup {Files!Idle}]
  BY DEF Files!ExecuteDelete, Files!ExecuteDeleteThread, Files!Goes, Files!TypeOK
<1>2. /\ q \in [pc : {"delete", "commit"}, op : {"delete"}, id : Artifacts]
               \cup [pc : {"delete", "commit"}, op : {"thread"}, thread : ArtifactThreads]
      /\ q.pc = "delete"
  <2>1. q \in Files!Request \cup {Files!Idle} /\ q.pc = "delete"
    BY <1>1 DEF Files!At
  <2> QED BY <2>1 DEF Files!Request, Files!Idle
<1>3. /\ fileReq'[r] = [q EXCEPT !.pc = "commit"]
      /\ fileReq'[r].pc = "commit" /\ fileReq'[r].op = q.op
      /\ q.op = "delete" => fileReq'[r].id = q.id
      /\ q.op = "thread" => fileReq'[r].thread = q.thread
      /\ fileReq'[r] \in [pc : {"delete", "commit"}, op : {"delete"}, id : Artifacts]
                         \cup [pc : {"delete", "commit"}, op : {"thread"}, thread : ArtifactThreads]
  <2>1. fileReq'[r] = [q EXCEPT !.pc = "commit"]
    BY <1>1
  <2>2. CASE q.op = "delete"
    BY <1>2, <2>1, <2>2
  <2>3. CASE q.op = "thread"
    BY <1>2, <2>1, <2>3
  <2> QED BY <1>2, <2>2, <2>3, <2>1
<1>4. \A s \in Requests : s # r => fileReq'[s] = fileReq[s]
  BY <1>1
<1>5. Files!Stored' = Files!Stored
  BY <1>1 DEF Files!Stored
<1>6. \A s \in Requests : /\ Creating(s)' = Creating(s)
                          /\ Creating(s) => fileReq'[s] = fileReq[s]
                          /\ Files!At(s, "history", "walk")' = Files!At(s, "history", "walk")
                          /\ Files!At(s, "history", "walk") => fileReq'[s] = fileReq[s]
                          /\ Files!At(s, "create", "commit")' = Files!At(s, "create", "commit")
  BY <1>2, <1>3, <1>4 DEF Creating, Files!At
<1>7. \A s \in Requests : s # r => /\ Files!DeletedBy(s)' = Files!DeletedBy(s)
                                   /\ Files!ThreadsDeletedBy(s)' = Files!ThreadsDeletedBy(s)
  BY <1>1, <1>4, <1>5 DEF Files!DeletedBy, Files!ThreadsDeletedBy, Files!InThread, Files!At
<1>8. /\ Files!DeletedBy(r)' \cap (Files!Referred \cup {Null}) = {}
      /\ Files!ThreadsDeletedBy(r)' \cap (Files!Referred \cup {Null}) = {}
  <2>1. Null \notin Files!Stored
    BY DEF Files!Stored
  <2>2. CASE q.op = "delete"
    <3>1. Files!DeletedBy(r)' = {q.id} \cap Files!Stored /\ Files!ThreadsDeletedBy(r)' = {}
      BY <1>3, <1>5, <2>2 DEF Files!DeletedBy, Files!ThreadsDeletedBy, Files!At
    <3>2. {q.id} \cap Files!Referred = {}
      BY <1>1, <2>2 DEF Files!ExecuteDelete, Files!ExecuteDeleteThread, Files!Deletable, Files!At
    <3> QED BY <2>1, <3>1, <3>2
  <2>3. CASE q.op = "thread"
    <3>1. Files!DeletedBy(r)' = Files!InThread(q.thread) /\ Files!ThreadsDeletedBy(r)' = {q.thread}
      BY <1>1, <1>3, <1>5, <2>3 DEF Files!DeletedBy, Files!ThreadsDeletedBy, Files!At, Files!InThread
    <3>2. Files!InThread(q.thread) \cap Files!Referred = {} /\ q.thread \notin Files!Referred
      BY <1>1, <2>3 DEF Files!ExecuteDelete, Files!ExecuteDeleteThread, Files!Deletable, Files!At
    <3>3. q.thread # Null /\ Files!InThread(q.thread) \subseteq Files!Stored
      BY <1>2, <2>3 DEF Files!InThread
    <3> QED BY <2>1, <3>1, <3>2, <3>3
  <2> QED BY <1>2, <2>2, <2>3
<1>9. Files!TypeOK'
  <2>1. fileReq'[r] \in Files!Request
    BY <1>3 DEF Files!Request
  <2> QED BY <1>1, <1>4, <2>1 DEF Files!TypeOK
<1>10. RowsSound' /\ CreationsSound'
  BY <1>1, <1>5, <1>6 DEF RowsSound, CreationsSound
<1>11. ReferencesHold'
  <2> SUFFICES ASSUME NEW s \in Requests, Files!At(s, "create", "commit")'
               PROVE  /\ fileReq'[s].row.parent \in Files!Stored' \cup {Null}
                      /\ fileReq'[s].row.thread \notin gone'
                      /\ \A t \in Requests : /\ fileReq'[s].row.parent \notin Files!DeletedBy(t)'
                                             /\ fileReq'[s].row.thread \notin Files!ThreadsDeletedBy(t)'
    BY DEF ReferencesHold
  <2>1. Files!At(s, "create", "commit") /\ fileReq'[s] = fileReq[s]
    BY <1>6 DEF Files!At, Creating
  <2>2. fileReq[s].row.parent \in Files!Referred \cup {Null} /\ fileReq[s].row.thread \in Files!Referred \cup {Null}
    BY <2>1 DEF Files!Referred, Files!ReferredBy
  <2> QED BY <1>1, <1>5, <1>7, <1>8, <2>1, <2>2 DEF ReferencesHold
<1>12. DeletionsKnown'
  BY <1>1, <1>2, <1>3, <1>4 DEF DeletionsKnown, Deleting
<1>13. WalksSound' /\ HistoriesRanked'
  BY <1>1, <1>5, <1>6 DEF WalksSound, WalkSound, HistoriesRanked, Ranked
<1> QED BY <1>9, <1>10, <1>11, <1>12, <1>13

LEMMA CommitDeleteStep ==
    ASSUME FilesInv, NEW r \in Requests, Files!CommitDelete(r)
    PROVE  FilesInv'
<1> DEFINE D == Files!DeletedBy(r)
           T == Files!ThreadsDeletedBy(r)
<1> USE DEF FilesInv
<1>1. /\ UNCHANGED <<early, fileRequests>> /\ gone' = gone \cup T
      /\ fileReq' = [fileReq EXCEPT ![r] = Files!Idle]
      /\ fileReq \in [Requests -> Files!Request \cup {Files!Idle}] /\ fileRequests \in 0 .. MaxArtifactRequests
      /\ file \in [Artifacts -> Files!Row \cup {Absent, Deleted}]
      /\ file' = [i \in Artifacts |->
                    IF i \in D THEN Deleted
                    ELSE IF i \in Files!Stored THEN Files!WithoutParent(file[i], D) ELSE file[i]]
  BY DEF Files!CommitDelete, Files!Ends, Files!TypeOK
<1>2. D \subseteq Files!Stored /\ T \subseteq ArtifactThreads
  <2>1. Files!At(r, "delete", "commit") => D = {fileReq[r].id} \cap Files!Stored /\ T = {}
    BY DEF Files!DeletedBy, Files!ThreadsDeletedBy, Files!At
  <2>2. Files!At(r, "thread", "commit") => D \subseteq Files!Stored /\ T = {fileReq[r].thread}
    BY DEF Files!DeletedBy, Files!ThreadsDeletedBy, Files!At, Files!InThread
  <2>3. Files!At(r, "thread", "commit") => fileReq[r].thread \in ArtifactThreads
    BY <1>1 DEF Files!At, Files!Request, Files!Idle
  <2> QED BY <2>1, <2>2, <2>3 DEF Files!CommitDelete
<1>3. \A i \in Files!Stored : file[i].thread \in T => i \in D
  BY DEF Files!DeletedBy, Files!ThreadsDeletedBy, Files!InThread, Files!At
<1> HIDE DEF D, T
<1>4. \A i \in Files!Stored \ D :
         /\ file[i] \in Files!Row /\ file'[i] \in Files!Row
         /\ file'[i].thread = file[i].thread /\ file'[i].version = file[i].version
         /\ file'[i].parent = IF file[i].parent \in D THEN Null ELSE file[i].parent
  BY <1>1 DEF Files!WithoutParent, Files!Row, Files!Stored
<1>5. \A i \in Artifacts : /\ i \in D => file'[i] = Deleted
                           /\ i \notin Files!Stored => file'[i] = file[i]
  BY <1>1, <1>2
<1>6. Files!Stored' = Files!Stored \ D
  BY <1>4, <1>5 DEF Files!Stored
<1>7. \A i \in Artifacts : file'[i] = Absent <=> file[i] = Absent
  BY <1>2, <1>4, <1>5 DEF Files!Stored
<1>8. \A q \in Requests : q # r => fileReq'[q] = fileReq[q]
  BY <1>1
<1>9. /\ fileReq'[r] = Files!Idle /\ ~Creating(r)' /\ ~Deleting(r)'
      /\ \A op, pc : pc # "idle" => ~Files!At(r, op, pc)'
  BY <1>1 DEF Files!Idle, Creating, Deleting, Files!At
<1>10. \A q \in Requests : /\ Files!DeletedBy(q)' \subseteq Files!DeletedBy(q)
                           /\ Files!ThreadsDeletedBy(q)' \subseteq Files!ThreadsDeletedBy(q)
  <2>1. \A t : Files!InThread(t)' \subseteq Files!InThread(t)
    BY <1>4, <1>6 DEF Files!InThread
  <2> QED BY <1>6, <1>8, <1>9, <2>1 DEF Files!DeletedBy, Files!ThreadsDeletedBy, Files!At
<1>11. Files!TypeOK'
  <2>1. file' \in [Artifacts -> Files!Row \cup {Absent, Deleted}]
    <3>1. \A i \in Artifacts : file'[i] \in Files!Row \cup {Absent, Deleted}
      BY <1>1, <1>4, <1>5
    <3> QED BY <1>1, <3>1
  <2> QED BY <1>1, <1>2, <2>1 DEF Files!TypeOK
<1>12. RowsSound'
  <2> SUFFICES ASSUME NEW i \in Files!Stored \ D
               PROVE  /\ file'[i].thread \notin gone'
                      /\ file'[i].version <= fileRequests'
                      /\ file'[i].parent # Null =>
                            /\ file'[i].parent \in Files!Stored'
                            /\ i \notin early' => file'[i].version = file'[file'[i].parent].version + 1
    BY <1>6 DEF RowsSound
  <2>1. file'[i].thread \notin gone' /\ file'[i].version <= fileRequests'
    BY <1>1, <1>3, <1>4 DEF RowsSound
  <2>2. ASSUME file'[i].parent # Null
        PROVE  file[i].parent \in Files!Stored \ D /\ file'[i].parent = file[i].parent
    BY <1>4, <2>2 DEF RowsSound
  <2>3. ASSUME file'[i].parent # Null, i \notin early
        PROVE  file'[i].version = file'[file'[i].parent].version + 1
    <3>1. /\ file'[i].version = file[i].version
          /\ file'[file[i].parent].version = file[file[i].parent].version
      BY <1>4, <2>2, <2>3
    <3>2. file[i].parent # Null /\ i \in Files!Stored
      BY <1>4, <2>3
    <3>3. file[i].version = file[file[i].parent].version + 1
      BY <2>3, <3>2 DEF RowsSound
    <3> QED BY <2>2, <2>3, <3>1, <3>3
  <2> QED BY <1>1, <1>6, <2>1, <2>2, <2>3
<1>13. CreationsSound'
  <2> SUFFICES ASSUME NEW q \in Requests, Creating(q)'
               PROVE  LET i == fileReq'[q].id  entry == fileReq'[q].row
                      IN  /\ file'[i] = Absent
                          /\ \A s \in Requests : Creating(s)' /\ fileReq'[s].id = i => s = q
                          /\ entry.version <= fileRequests'
                          /\ entry.parent # Null /\ file'[entry.parent] = Absent => i \in early'
                          /\ entry.parent \in Files!Stored' /\ i \notin early' => entry.version = file'[entry.parent].version + 1
    BY DEF CreationsSound
  <2>1. q # r /\ fileReq'[q] = fileReq[q] /\ Creating(q)
    BY <1>8, <1>9 DEF Creating
  <2>2. fileReq[q].id \in Artifacts /\ fileReq[q].row \in Files!Row /\ fileReq[q].row.parent \in Artifacts \cup {Null}
    BY <1>1, <2>1 DEF Creating, Files!Request, Files!Idle, Files!Row
  <2>3. \A s \in Requests : Creating(s)' => Creating(s) /\ fileReq'[s] = fileReq[s]
    BY <1>8, <1>9 DEF Creating
  <2>4. /\ file'[fileReq[q].id] = Absent
        /\ \A s \in Requests : Creating(s)' /\ fileReq'[s].id = fileReq[q].id => s = q
        /\ fileReq[q].row.version <= fileRequests'
    BY <1>1, <1>7, <2>1, <2>2, <2>3 DEF CreationsSound
  <2>5. ASSUME fileReq[q].row.parent # Null, file'[fileReq[q].row.parent] = Absent
        PROVE  fileReq[q].id \in early'
    BY <1>1, <1>7, <2>1, <2>2, <2>5 DEF CreationsSound
  <2>6. ASSUME fileReq[q].row.parent \in Files!Stored', fileReq[q].id \notin early'
        PROVE  fileReq[q].row.version = file'[fileReq[q].row.parent].version + 1
    <3>1. /\ fileReq[q].row.parent \in Files!Stored \ D /\ fileReq[q].id \notin early
          /\ file'[fileReq[q].row.parent].version = file[fileReq[q].row.parent].version
      BY <1>1, <1>4, <1>6, <2>6
    <3>2. fileReq[q].row.version = file[fileReq[q].row.parent].version + 1
      BY <2>1, <3>1 DEF CreationsSound
    <3> QED BY <3>1, <3>2
  <2> QED BY <2>1, <2>4, <2>5, <2>6
<1>14. ReferencesHold'
  <2> SUFFICES ASSUME NEW q \in Requests, Files!At(q, "create", "commit")'
               PROVE  /\ fileReq'[q].row.parent \in Files!Stored' \cup {Null}
                      /\ fileReq'[q].row.thread \notin gone'
                      /\ \A s \in Requests : /\ fileReq'[q].row.parent \notin Files!DeletedBy(s)'
                                             /\ fileReq'[q].row.thread \notin Files!ThreadsDeletedBy(s)'
    BY DEF ReferencesHold
  <2>1. fileReq'[q] = fileReq[q] /\ Files!At(q, "create", "commit")
    BY <1>8, <1>9 DEF Files!At
  <2> QED BY <1>1, <1>6, <1>10, <2>1 DEF ReferencesHold, D, T
<1>15. DeletionsKnown'
  <2>1. \A q \in Requests : Deleting(q)' => Deleting(q) /\ fileReq'[q] = fileReq[q] /\ fileReq[q].id \in Artifacts
    BY <1>1, <1>8, <1>9 DEF Deleting, Files!Request, Files!Idle
  <2> QED BY <1>7, <2>1 DEF DeletionsKnown
<1>16. WalksSound'
  <2> SUFFICES ASSUME NEW q \in Requests, Files!At(q, "history", "walk")'
               PROVE  WalkSound(fileReq[q])'
    BY <1>8, <1>9 DEF WalksSound, WalkSound, Files!At
  <2>1. fileReq'[q] = fileReq[q] /\ Files!At(q, "history", "walk")
    BY <1>8, <1>9 DEF Files!At
  <2>2. fileReq[q].visited \subseteq Artifacts /\ fileReq[q].id \in Artifacts \cup {Null}
    BY <1>1, <2>1 DEF Files!At, Files!Request, Files!Idle
  <2>3. WalkSound(fileReq[q])
    BY <2>1 DEF WalksSound
  <2>4. \A v \in fileReq[q].visited \cup ({fileReq[q].id} \ {Null}) : file'[v] # Absent
    BY <1>7, <2>2, <2>3 DEF WalkSound
  <2>5. fileReq[q].id \in Files!Stored' => fileReq[q].id \in Files!Stored
                                          /\ file'[fileReq[q].id].version = file[fileReq[q].id].version
    BY <1>4, <1>6
  <2> QED BY <1>1, <2>1, <2>3, <2>4, <2>5 DEF WalkSound
<1>17. HistoriesRanked'
  <2>1. \A q \in Requests : Files!At(q, "history", "walk")' => Files!At(q, "history", "walk") /\ fileReq'[q] = fileReq[q]
    BY <1>8, <1>9 DEF Files!At
  <2>2. \A i \in Files!Stored' : file'[i].parent # Null => i \in Files!Stored /\ file'[i].parent = file[i].parent
    BY <1>4, <1>6
  <2> QED BY <2>1, <2>2 DEF HistoriesRanked, Ranked
<1> QED
  BY <1>11, <1>12, <1>13, <1>14, <1>15, <1>16, <1>17

LEMMA FilesStep == FilesInv /\ Files!Next => FilesInv'
<1> SUFFICES ASSUME FilesInv, Files!Next PROVE FilesInv'
  OBVIOUS
<1>1. PICK r \in Requests :
         \/ \E i \in Artifacts, t \in ArtifactThreads \cup {Null}, p \in Files!Known \cup {Null} :
               Files!CreateArtifact(r, i, t, p)
         \/ \E i \in Artifacts : Files!UpdateArtifact(r, i) \/ Files!DeleteArtifact(r, i) \/ Files!StartHistory(r, i)
         \/ \E t \in ArtifactThreads : Files!DeleteThread(r, t)
         \/ Files!InsertArtifact(r) \/ Files!CommitArtifact(r) \/ Files!FlushUpdate(r) \/ Files!CommitUpdate(r)
         \/ Files!ExecuteDelete(r) \/ Files!ExecuteDeleteThread(r) \/ Files!CommitDelete(r)
         \/ Files!WalkHistory(r) \/ Files!Fail(r)
  BY DEF Files!Next
<1>2. CASE \E i \in Artifacts, t \in ArtifactThreads \cup {Null}, p \in Files!Known \cup {Null} :
              Files!CreateArtifact(r, i, t, p)
  BY <1>2, CreateArtifactStep
<1>3. CASE \E i \in Artifacts : Files!UpdateArtifact(r, i) \/ Files!DeleteArtifact(r, i) \/ Files!StartHistory(r, i)
  BY <1>3, StartFileStep
<1>4. CASE \E t \in ArtifactThreads : Files!DeleteThread(r, t)
  BY <1>4, StartDeleteThreadStep
<1>5. CASE Files!InsertArtifact(r) \/ Files!CommitArtifact(r)
  BY <1>5, InsertArtifactStep, CommitArtifactStep
<1>6. CASE Files!FlushUpdate(r) \/ Files!CommitUpdate(r) \/ Files!Fail(r)
  BY <1>6, UpdateFileStep
<1>7. CASE Files!ExecuteDelete(r) \/ Files!ExecuteDeleteThread(r) \/ Files!CommitDelete(r)
  BY <1>7, ExecuteDeleteStep, CommitDeleteStep
<1>8. CASE Files!WalkHistory(r)
  BY <1>8, WalkHistoryStep
<1> QED BY <1>1, <1>2, <1>3, <1>4, <1>5, <1>6, <1>7, <1>8

\* A parent and a thread that an artifact names exist; its version is the one
\* after its parent's, unless the parent was no row of the user when it was
\* computed: not committed yet, deleted or another's; and a walk through a
\* history that changes under it never returns to a row.
THEOREM HistoriesForm == ServicesSpec => []ArtifactsFormHistories
<1>1. ServicesInit => FilesInv
  BY FilesInitially DEF ServicesInit
<1>2. FilesInv /\ [ServicesNext]_<<service, missionVars, shellVars, emotionVars, studyVars,
                                   fileVars, storeVars, faults>> => FilesInv'
  BY FilesStep, FilesStutter DEF ServicesNext, fileVars
<1> QED
  BY <1>1, <1>2, FilesInvGives, PTL DEF ServicesSpec

HIDE ArtifactsAssumed DEF Files!ArtifactsAssumption

-----------------------------------------------------------------------------
(* The vector store *)

StorePcs == {"check", "client", "opened", "embeddings", "dense", "sparse", "collection", "create", "index", "store", "services",
             "flag", "act", "own", "forget store", "forget services", "forget flag"}

StoreCall == [pc : StorePcs, op : {"use", "note", "reset", "startup", "drop"}]

ForgetPcs == {"forget store", "forget services", "forget flag"}

InitPcs == {"embeddings", "dense", "sparse", "collection", "create", "index", "store", "services", "flag", "act"}

Forgetting(k) == storeCall[k].pc \in ForgetPcs

StoreCallsTyped ==
    /\ storeCall \in [Threads -> {Store!Idle} \cup StoreCall]
    /\ \A k \in Threads : Forgetting(k) => storeCall[k].op = "drop"

\* The client comes first and stays.
ClientKept ==
    /\ initialized => client
    /\ \A k \in Threads : storeCall[k].pc \in InitPcs => client
    /\ opened /\ ~client => notes = "own" \/ \E k \in Threads : Store!At(k, "opened")

\* Somebody is at work on a collection that lacks an index.
IndexesComing ==
    collection \notin {Null, Store!Indexes} /\ ~broken => \E k \in Threads : Store!At(k, "index")

\* A step of an initialisation builds on the steps before it, ...
StepSound(x) ==
    /\ x.pc \in {"index", "store", "services", "flag", "act"} => collection # Null
    /\ x.pc \in {"services", "flag", "act"} => vectorstore
    /\ x.pc \in {"flag", "act"} => services = "store"

SoundNext(x) ==
    /\ x.pc \in {"index", "store", "services", "flag", "act"} => collection' # Null
    /\ x.pc \in {"services", "flag", "act"} => vectorstore'
    /\ x.pc \in {"flag", "act"} => services' = "store"

\* ... unless a reset goes on, and beside that nobody works.
Clean ==
    /\ ~Store!Crossing
    /\ \A k \in Threads : StepSound(storeCall[k])
    /\ initialized => \/ vectorstore /\ services = "store" /\ collection # Null
                      \/ \E k \in Threads : Forgetting(k)

StoreInv ==
    /\ Store!TypeOK /\ StoreCallsTyped /\ ClientKept /\ IndexesComing
    /\ storeCrossed \in BOOLEAN
    /\ storeCrossed \/ Clean

\* The store has both of its models, and somebody is loading the second one of
\* a tool that has the first, unless that load broke off.
ModelsLoaded ==
    /\ vectorstore => sparse
    /\ embeddings /\ ~sparse /\ ~halved => \E k \in Threads : Store!At(k, "sparse")

USE StoreAssumed DEF Store!StoreAssumption

LEMMA StoreCallTyped ==
    ASSUME StoreCallsTyped, NEW k \in Threads
    PROVE  \/ storeCall[k] = Store!Idle /\ storeCall[k].pc = "idle"
           \/ storeCall[k] \in StoreCall /\ storeCall[k].pc \in StorePcs /\ storeCall[k] # Store!Idle
<1>1. storeCall[k] = Store!Idle \/ storeCall[k] \in StoreCall
  BY DEF StoreCallsTyped
<1>2. storeCall[k] = Store!Idle => storeCall[k].pc = "idle"
  BY DEF Store!Idle
<1>3. storeCall[k] \in StoreCall => storeCall[k].pc \in StorePcs
  BY DEF StoreCall
<1>4. "idle" \notin StorePcs
  BY DEF StorePcs
<1> QED BY <1>1, <1>2, <1>3, <1>4

LEMMA StoreInvGives == StoreInv /\ ModelsLoaded => StoreRecovers
<1> SUFFICES ASSUME StoreInv, ModelsLoaded PROVE StoreRecovers
  OBVIOUS
<1>1. ASSUME ~storeCrossed, \A k \in Threads : ~Store!Resetting(k)
      PROVE  /\ \A k \in Threads : Store!At(k, "act") => services = "store" /\ collection # Null
             /\ initialized => client /\ vectorstore /\ services = "store" /\ collection # Null
  <2>1. \A k \in Threads : ~Forgetting(k)
    <3>1. ASSUME NEW k \in Threads, Forgetting(k) PROVE FALSE
      <4>1. storeCall[k] # Store!Idle
        BY <3>1, StoreCallTyped DEF StoreInv, Forgetting, ForgetPcs, StorePcs, Store!Idle
      <4> QED BY <1>1, <3>1, <4>1 DEF StoreInv, StoreCallsTyped, Store!Resetting
    <3> QED BY <3>1
  <2> QED BY <1>1, <2>1 DEF StoreInv, Clean, StepSound, ClientKept, Store!At
<1>2. ASSUME Store!AtRest
      PROVE  /\ collection # Null /\ ~broken => collection = Store!Indexes
             /\ opened /\ ~client => notes = "own"
             /\ embeddings /\ ~halved => sparse
  BY <1>2 DEF StoreInv, ClientKept, IndexesComing, ModelsLoaded, Store!AtRest, Store!At, Store!Idle
<1> QED
  BY <1>1, <1>2 DEF StoreRecovers, Store!StoreRecovers, StoreInv, ModelsLoaded

LEMMA StoreInitially == Store!Init => StoreInv
<1> SUFFICES ASSUME Store!Init PROVE StoreInv
  OBVIOUS
<1> USE DEF Store!Init, Store!Fresh, Store!Idle
<1>1. \A k \in Threads : storeCall[k].pc = "idle"
  OBVIOUS
<1>2. Store!TypeOK
  <2>1. collection \in (SUBSET Store!Indexes) \cup {Null}
    OBVIOUS
  <2>2. services \in {"store", "nothing", Null} /\ notes \in {"shared", "own", Null}
    OBVIOUS
  <2>3. opened = FALSE /\ client = FALSE /\ embeddings = FALSE /\ sparse = FALSE /\ vectorstore = FALSE /\ initialized = FALSE
    OBVIOUS
  <2> QED BY <2>1, <2>2, <2>3 DEF Store!TypeOK
<1>5. StoreCallsTyped
  BY <1>1 DEF StoreCallsTyped, Forgetting, ForgetPcs
<1>3. ClientKept /\ IndexesComing
  BY <1>1 DEF ClientKept, IndexesComing, InitPcs
<1>4. Clean
  BY <1>1 DEF Clean, StepSound, Store!Crossing, Store!Resetting, Store!Working
<1> QED BY <1>2, <1>3, <1>4, <1>5 DEF StoreInv

LEMMA StoreStutter == StoreInv /\ UNCHANGED storeVars => StoreInv'
<1> SUFFICES ASSUME StoreInv, UNCHANGED storeVars PROVE StoreInv'
  OBVIOUS
<1> USE DEF storeVars
<1>1. Store!TypeOK' /\ StoreCallsTyped'
  BY DEF StoreInv, Store!TypeOK, StoreCallsTyped, Forgetting
<1>2. ClientKept' /\ IndexesComing'
  BY DEF StoreInv, ClientKept, IndexesComing, Store!At
<1>3. Clean' = Clean
  BY DEF Clean, StepSound, Forgetting, Store!Crossing, Store!Resetting, Store!Working
<1> QED BY <1>1, <1>2, <1>3 DEF StoreInv

\* Where the step of a thread leads.
LEMMA StoreCallMoves ==
    ASSUME StoreCallsTyped, NEW k \in Threads,
           NEW x \in {Store!Idle} \cup StoreCall,
           x.pc \in ForgetPcs => x.op = "drop",
           storeCall' = [storeCall EXCEPT ![k] = x]
    PROVE  /\ StoreCallsTyped'
           /\ storeCall'[k] = x
           /\ \A j \in Threads \ {k} : storeCall'[j] = storeCall[j]
<1>1. storeCall'[k] = x /\ \A j \in Threads \ {k} : storeCall'[j] = storeCall[j]
  BY DEF StoreCallsTyped
<1>2. StoreCallsTyped'
  BY <1>1 DEF StoreCallsTyped, Forgetting, ForgetPcs
<1> QED BY <1>1, <1>2

LEMMA StoreRaises ==
    ASSUME StoreCallsTyped, NEW k \in Threads, storeCall[k].pc \in StorePcs, ~Forgetting(k), Store!Raises(k)
    PROVE  \E x \in {Store!Idle} \cup [pc : {"own", "check"}, op : {"note", "startup"}] :
              storeCall' = [storeCall EXCEPT ![k] = x]
<1>1. storeCall[k] \in StoreCall
  BY StoreCallTyped DEF StorePcs
<1>2. CASE storeCall[k].op = "note"
  <2>1. storeCall' = [storeCall EXCEPT ![k].pc = "own"]
    BY <1>2 DEF Store!Raises, Store!Goes
  <2>2. storeCall' = [storeCall EXCEPT ![k] = [storeCall[k] EXCEPT !.pc = "own"]]
    BY <2>1
  <2>3. [storeCall[k] EXCEPT !.pc = "own"] \in [pc : {"own", "check"}, op : {"note", "startup"}]
    BY <1>1, <1>2 DEF StoreCall
  <2> QED BY <2>2, <2>3
<1>3. CASE storeCall[k].op = "reset"
  <2>1. storeCall' = [storeCall EXCEPT ![k] = [pc |-> "check", op |-> "startup"]]
    BY <1>3 DEF Store!Raises
  <2> QED BY <2>1
<1>4. CASE storeCall[k].op \notin {"note", "reset"}
  BY <1>4 DEF Store!Raises, Store!Ends
<1> QED BY <1>2, <1>3, <1>4

LEMMA StoreGoes ==
    ASSUME StoreCallsTyped, NEW k \in Threads, storeCall[k].pc \in StorePcs, NEW pc \in StorePcs, Store!Goes(k, pc)
    PROVE  /\ [pc |-> pc, op |-> storeCall[k].op] \in StoreCall
           /\ storeCall' = [storeCall EXCEPT ![k] = [pc |-> pc, op |-> storeCall[k].op]]
<1>1. storeCall[k] \in StoreCall
  BY StoreCallTyped DEF StorePcs
<1>2. [storeCall[k] EXCEPT !.pc = pc] = [pc |-> pc, op |-> storeCall[k].op]
  BY <1>1 DEF StoreCall
<1> QED BY <1>1, <1>2 DEF Store!Goes, StoreCall

Keeps ==
    /\ collection # Null => collection' # Null
    /\ vectorstore => vectorstore'
    /\ services = "store" => services' = "store"

LEMMA StoreThreadStep ==
    ASSUME StoreInv, NEW k \in Threads, NEW x \in {Store!Idle} \cup StoreCall,
           storeCall' = [storeCall EXCEPT ![k] = x],
           storeCrossed' = ((storeCrossed /\ ~(Store!AtRest /\ ~initialized)) \/ Store!Crossing'),
           Store!TypeOK',
           x.pc \in ForgetPcs => x.op = "drop",
           client => client', initialized' => client', x.pc \in InitPcs => client',
           opened' /\ ~client' => \/ notes' = "own" \/ x.pc = "opened"
                                  \/ opened /\ notes # "own" /\ storeCall[k].pc # "opened",
           collection' \notin {Null, Store!Indexes} /\ ~broken' =>
              x.pc = "index" \/ (collection \notin {Null, Store!Indexes} /\ ~broken /\ storeCall[k].pc # "index"),
           Clean /\ ~Store!Crossing' => SoundNext(x),
           Clean => Keeps \/ Store!Resetting(k),
           Clean /\ initialized' => \/ vectorstore' /\ services' = "store" /\ collection' # Null
                                    \/ x.pc \in ForgetPcs
                                    \/ initialized /\ Keeps /\ ~Forgetting(k)
    PROVE  StoreInv'
<1>1. /\ StoreCallsTyped' /\ storeCall'[k] = x
      /\ \A j \in Threads \ {k} : storeCall'[j] = storeCall[j]
  BY StoreCallMoves DEF StoreInv
<1>2. ClientKept'
  <2>1. \A j \in Threads : storeCall'[j].pc \in InitPcs => client'
    BY <1>1 DEF StoreInv, ClientKept
  <2>2. ASSUME opened', ~client'
        PROVE  notes' = "own" \/ \E j \in Threads : storeCall'[j].pc = "opened"
    BY <1>1, <2>2 DEF StoreInv, ClientKept, Store!At
  <2> QED BY <2>1, <2>2 DEF ClientKept, Store!At
<1>3. IndexesComing'
  <2> SUFFICES ASSUME collection' \notin {Null, Store!Indexes}, ~broken'
               PROVE  \E j \in Threads : storeCall'[j].pc = "index"
    BY DEF IndexesComing, Store!At
  <2>1. CASE x.pc = "index"
    BY <1>1, <2>1
  <2>2. CASE x.pc # "index"
    <3>1. PICK j \in Threads : storeCall[j].pc = "index"
      BY <2>2 DEF StoreInv, IndexesComing, Store!At
    <3> QED BY <1>1, <2>2, <3>1
  <2> QED BY <2>1, <2>2
<1>4. ~storeCrossed' => Clean /\ ~Store!Crossing'
  <2>1. Store!AtRest => \A j \in Threads : storeCall[j].pc = "idle" /\ ~Store!Resetting(j)
    BY DEF Store!AtRest, Store!Idle, Store!Resetting
  <2>2. Store!AtRest /\ ~initialized => Clean
    BY <2>1 DEF Clean, StepSound, Store!Crossing
  <2> QED BY <2>2 DEF StoreInv
<1>5. ASSUME Clean, ~Store!Crossing' PROVE Clean'
  <2>1. ASSUME NEW j \in Threads \ {k} PROVE StepSound(storeCall[j])'
    <3>1. CASE Keeps
      BY <1>1, <1>5, <2>1, <3>1 DEF Clean, StepSound, Keeps
    <3>2. CASE Store!Resetting(k)
      <4>1. ~Store!Working(j)
        BY <1>5, <2>1, <3>2 DEF Clean, Store!Crossing
      <4> QED BY <1>1, <2>1, <4>1 DEF StepSound, Store!Working
    <3> QED BY <1>5, <3>1, <3>2
  <2>2. StepSound(storeCall[k])'
    BY <1>1, <1>5 DEF StepSound, SoundNext
  <2>3. ASSUME initialized'
        PROVE  \/ vectorstore' /\ services' = "store" /\ collection' # Null
               \/ \E j \in Threads : Forgetting(j)'
    <3>1. CASE x.pc \in ForgetPcs
      BY <1>1, <3>1 DEF Forgetting
    <3>2. CASE initialized /\ Keeps /\ ~Forgetting(k)
      BY <1>1, <1>5, <3>2 DEF Clean, Keeps, Forgetting
    <3> QED BY <1>5, <2>3, <3>1, <3>2
  <2> QED BY <1>5, <2>1, <2>2, <2>3 DEF Clean
<1> QED BY <1>1, <1>2, <1>3, <1>4, <1>5 DEF StoreInv

\* A step that changes nothing but the call of a thread.
LEMMA StoreQuietStep ==
    ASSUME StoreInv, NEW k \in Threads, NEW x \in {Store!Idle} \cup StoreCall,
           storeCall' = [storeCall EXCEPT ![k] = x],
           storeCrossed' = ((storeCrossed /\ ~(Store!AtRest /\ ~initialized)) \/ Store!Crossing'),
           UNCHANGED <<opened, collection, client, embeddings, sparse, vectorstore, services, initialized, notes>>,
           broken => broken',
           ~Forgetting(k), storeCall[k].pc # "opened", x.pc \notin ForgetPcs \cup {"opened"},
           x.pc \in InitPcs => client,
           storeCall[k].pc = "index" => x.pc = "index" \/ broken' \/ collection \in {Null, Store!Indexes},
           Clean /\ ~Store!Crossing' => StepSound(x)
    PROVE  StoreInv'
<1>1. Store!TypeOK'
  BY DEF StoreInv, Store!TypeOK
<1>2. Keeps
  BY DEF Keeps
<1>3. (Clean /\ ~Store!Crossing' => SoundNext(x)) /\ (initialized' => client')
  BY DEF StepSound, SoundNext, StoreInv, ClientKept
<1>4. opened' /\ ~client' => notes' = "own" \/ (opened /\ notes # "own" /\ storeCall[k].pc # "opened")
  OBVIOUS
<1>5. collection' \notin {Null, Store!Indexes} /\ ~broken' =>
         x.pc = "index" \/ (collection \notin {Null, Store!Indexes} /\ ~broken /\ storeCall[k].pc # "index")
  OBVIOUS
<1> QED BY <1>1, <1>2, <1>3, <1>4, <1>5, StoreThreadStep

Recorded == storeCrossed' = ((storeCrossed /\ ~(Store!AtRest /\ ~initialized)) \/ Store!Crossing')

LEMMA StoreRaisesStep ==
    ASSUME StoreInv, NEW k \in Threads, Recorded, Store!Raises(k),
           storeCall[k].pc \in {"client", "dense", "sparse", "collection", "create", "index", "store"},
           UNCHANGED <<opened, collection, client, embeddings, sparse, vectorstore, services, initialized, notes>>,
           broken => broken',
           storeCall[k].pc = "index" => broken' \/ collection \in {Null, Store!Indexes}
    PROVE  StoreInv'
<1>1. storeCall[k].pc \in StorePcs /\ ~Forgetting(k) /\ storeCall[k].pc # "opened"
  BY DEF StorePcs, Forgetting, ForgetPcs
<1>2. PICK x \in {Store!Idle} \cup [pc : {"own", "check"}, op : {"note", "startup"}] :
         storeCall' = [storeCall EXCEPT ![k] = x]
  BY <1>1, StoreRaises DEF StoreInv
<1>3. x.pc \in {"idle", "own", "check"} /\ x \in {Store!Idle} \cup StoreCall
  <2>1. CASE x = Store!Idle
    BY <2>1 DEF Store!Idle
  <2>2. CASE x \in [pc : {"own", "check"}, op : {"note", "startup"}]
    BY <2>2 DEF StoreCall, StorePcs
  <2> QED BY <1>2, <2>1, <2>2
<1>4. StepSound(x) /\ x.pc \notin InitPcs /\ x.pc \notin ForgetPcs \cup {"opened"}
  BY <1>3 DEF StepSound, InitPcs, ForgetPcs
<1> QED BY <1>1, <1>2, <1>3, <1>4, StoreQuietStep DEF Recorded

LEMMA StoreGoesStep ==
    ASSUME StoreInv, NEW k \in Threads, NEW pc \in StorePcs, Recorded, Store!Goes(k, pc),
           storeCall[k].pc \in StorePcs \ (ForgetPcs \cup {"opened"}),
           UNCHANGED <<opened, collection, client, embeddings, sparse, vectorstore, services, initialized, notes, broken>>,
           pc \notin ForgetPcs \cup {"opened"},
           pc \in InitPcs => client,
           storeCall[k].pc = "index" => pc = "index" \/ collection \in {Null, Store!Indexes},
           Clean /\ ~Store!Crossing' => StepSound([pc |-> pc, op |-> storeCall[k].op])
    PROVE  StoreInv'
<1> DEFINE x == [pc |-> pc, op |-> storeCall[k].op]
<1>1. x \in StoreCall /\ storeCall' = [storeCall EXCEPT ![k] = x]
  BY StoreGoes, ZenonT(30) DEF StoreInv, StoreCall
<1>2. ~Forgetting(k) /\ storeCall[k].pc # "opened" /\ x.pc = pc
  BY DEF Forgetting
<1> HIDE DEF x
<1>3. Clean /\ ~Store!Crossing' => StepSound(x)
  BY DEF x
<1> QED BY <1>1, <1>2, <1>3, StoreQuietStep DEF Recorded

LEMMA StoreForgetting ==
    ASSUME StoreCallsTyped, NEW k \in Threads, Forgetting(k)
    PROVE  Store!Resetting(k) /\ Store!Working(k)
<1>1. storeCall[k] # Store!Idle
  BY StoreCallTyped DEF Forgetting, ForgetPcs
<1> QED BY <1>1 DEF StoreCallsTyped, Store!Resetting, Store!Working, Forgetting, ForgetPcs

LEMMA StoreCallStep ==
    ASSUME StoreInv, NEW k \in Threads, Recorded,
           \/ \E op \in {"use", "note", "reset", "startup"} : Store!Call(k, op)
           \/ Store!Check(k) \/ Store!Use(k) \/ Store!Exists(k)
    PROVE  StoreInv'
<1>1. CASE \E op \in {"use", "note", "reset", "startup"} : Store!Call(k, op)
  <2>1. PICK op \in {"use", "note", "reset", "startup"} : Store!Call(k, op)
    BY <1>1
  <2> DEFINE x == [pc |-> "check", op |-> op]
  <2>2. x \in StoreCall /\ x.pc = "check" /\ storeCall' = [storeCall EXCEPT ![k] = x]
    BY <2>1 DEF Store!Call, StoreCall, StorePcs
  <2>3. UNCHANGED <<opened, collection, client, embeddings, sparse, vectorstore, services, initialized, notes, broken>>
    BY <2>1 DEF Store!Call, Store!tool, Store!models
  <2>4. storeCall[k].pc = "idle"
    BY <2>1 DEF Store!Call, Store!At
  <2> HIDE DEF x
  <2>5. StepSound(x) /\ x.pc \notin InitPcs /\ x.pc \notin ForgetPcs \cup {"opened"} /\ ~Forgetting(k)
    BY <2>2, <2>4 DEF StepSound, InitPcs, ForgetPcs, Forgetting
  <2> QED BY <2>2, <2>3, <2>4, <2>5, StoreQuietStep DEF Recorded
<1>2. CASE Store!Check(k)
  <2>1. /\ UNCHANGED <<opened, collection, client, embeddings, sparse, vectorstore, services, initialized, notes, broken>>
        /\ storeCall[k].pc = "check" /\ storeCall[k].pc \in StorePcs
    BY <1>2 DEF Store!Check, Store!At, Store!tool, Store!models, StorePcs
  <2>2. CASE initialized
    <3>1. Store!Goes(k, "act") /\ client
      BY <1>2, <2>2 DEF Store!Check, StoreInv, ClientKept
    <3> DEFINE x == [pc |-> "act", op |-> storeCall[k].op]
    <3>2. storeCall' = [storeCall EXCEPT ![k] = x] /\ x \in StoreCall
      BY <2>1, <3>1, StoreGoes, ZenonT(30) DEF StoreInv, StorePcs, StoreCall
    <3>3. ASSUME Clean, ~Store!Crossing', NEW j \in Threads, Forgetting(j) PROVE FALSE
      <4>1. j # k /\ Store!Resetting(j)
        BY <2>1, <3>3, StoreForgetting DEF Forgetting, ForgetPcs, StoreInv
      <4>2. Store!Resetting(j)'
        BY <3>2, <4>1, StoreCallMoves DEF StoreInv, ForgetPcs, Store!Resetting
      <4>3. storeCall'[k] = x /\ x.pc = "act"
        BY <3>2 DEF StoreInv, StoreCallsTyped
      <4>4. Store!Working(k)'
        BY <4>3 DEF Store!Working
      <4> QED BY <3>3, <4>1, <4>2, <4>4 DEF Store!Crossing
    <3>4. Clean /\ ~Store!Crossing' => StepSound(x)
      BY <2>2, <3>3 DEF Clean, StepSound
    <3> QED BY <2>1, <3>1, <3>4, StoreGoesStep DEF StorePcs, ForgetPcs, InitPcs
  <2>3. CASE ~initialized
    <3>1. Store!Goes(k, "client")
      BY <1>2, <2>3 DEF Store!Check
    <3>2. StepSound([pc |-> "client", op |-> storeCall[k].op])
      BY DEF StepSound
    <3> QED BY <2>1, <3>1, <3>2, StoreGoesStep DEF StorePcs, ForgetPcs, InitPcs
  <2> QED BY <2>2, <2>3
<1>3. CASE Store!Use(k)
  <2>1. storeCall' = [storeCall EXCEPT ![k] = Store!Idle]
    BY <1>3 DEF Store!Use, Store!Ends
  <2>2. /\ UNCHANGED <<opened, collection, client, embeddings, sparse, vectorstore, services, initialized, notes, broken>>
        /\ storeCall[k].pc = "act" /\ Store!Idle.pc = "idle"
    BY <1>3 DEF Store!Use, Store!At, Store!tool, Store!models, Store!Idle
  <2>3. StepSound(Store!Idle) /\ Store!Idle.pc \notin InitPcs \cup ForgetPcs \cup {"opened"} /\ ~Forgetting(k)
    BY <2>2 DEF StepSound, InitPcs, ForgetPcs, Forgetting
  <2> QED BY <2>1, <2>2, <2>3, StoreQuietStep DEF Recorded
<1>4. CASE Store!Exists(k)
  <2> DEFINE x == [pc |-> "check", op |-> IF collection # Null THEN "drop" ELSE "startup"]
  <2>1. x \in StoreCall /\ x.pc = "check" /\ storeCall' = [storeCall EXCEPT ![k] = x]
    BY <1>4 DEF Store!Exists, StoreCall, StorePcs
  <2>2. /\ UNCHANGED <<opened, collection, client, embeddings, sparse, vectorstore, services, initialized, notes, broken>>
        /\ storeCall[k].pc = "act"
    BY <1>4 DEF Store!Exists, Store!At, Store!tool, Store!models
  <2> HIDE DEF x
  <2>3. StepSound(x) /\ x.pc \notin InitPcs \cup ForgetPcs \cup {"opened"} /\ ~Forgetting(k)
    BY <2>1, <2>2 DEF StepSound, InitPcs, ForgetPcs, Forgetting
  <2> QED BY <2>1, <2>2, <2>3, StoreQuietStep DEF Recorded
<1> QED BY <1>1, <1>2, <1>3, <1>4

\* A step that may set up the tool, short of its client.
LEMMA StoreProgressStep ==
    ASSUME StoreInv, NEW k \in Threads, NEW x \in {Store!Idle} \cup StoreCall,
           storeCall' = [storeCall EXCEPT ![k] = x], Recorded, Store!TypeOK',
           UNCHANGED <<opened, collection, client, notes, broken>>,
           ~Forgetting(k), storeCall[k].pc \notin {"opened", "index"}, x.pc \notin ForgetPcs \cup {"opened"},
           x.pc \in InitPcs => client, initialized' => client,
           Clean => Keeps /\ SoundNext(x),
           Clean /\ initialized' => initialized \/ (vectorstore' /\ services' = "store" /\ collection # Null)
    PROVE  StoreInv'
<1>1. opened' /\ ~client' => notes' = "own" \/ (opened /\ notes # "own" /\ storeCall[k].pc # "opened")
  OBVIOUS
<1>2. collection' \notin {Null, Store!Indexes} /\ ~broken' =>
         collection \notin {Null, Store!Indexes} /\ ~broken /\ storeCall[k].pc # "index"
  OBVIOUS
<1>3. Clean /\ initialized' => \/ vectorstore' /\ services' = "store" /\ collection' # Null
                               \/ initialized /\ Keeps /\ ~Forgetting(k)
  OBVIOUS
<1> QED BY <1>1, <1>2, <1>3, StoreThreadStep DEF Recorded

LEMMA StoreInitialiseStep ==
    ASSUME StoreInv, NEW k \in Threads, Recorded,
           \/ Store!ListCollections(k) \/ Store!InitEmbeddings(k) \/ Store!LoadDense(k) \/ Store!LoadSparse(k)
           \/ Store!InitVectorstore(k)
           \/ Store!InitServices(k) \/ Store!SetInitialized(k)
    PROVE  StoreInv'
<1> USE DEF StepSound, SoundNext, ForgetPcs, InitPcs, StorePcs
<1>1. CASE Store!ListCollections(k)
  <2>1. /\ UNCHANGED <<opened, collection, client, embeddings, sparse, vectorstore, services, initialized, notes, broken>>
        /\ storeCall[k].pc = "collection" /\ client
    BY <1>1 DEF Store!ListCollections, Store!At, Store!tool, Store!models, StoreInv, ClientKept
  <2>2. CASE collection # Null
    <3>1. Store!Goes(k, "store")
      BY <1>1, <2>2 DEF Store!ListCollections
    <3> QED BY <2>1, <2>2, <3>1, StoreGoesStep
  <2>3. CASE collection = Null /\ Autocreate
    <3>1. Store!Goes(k, "create")
      BY <1>1, <2>3 DEF Store!ListCollections
    <3> QED BY <2>1, <3>1, StoreGoesStep
  <2>4. CASE collection = Null /\ ~Autocreate
    <3>1. Store!Raises(k)
      BY <1>1, <2>4 DEF Store!ListCollections
    <3> QED BY <2>1, <3>1, StoreRaisesStep
  <2> QED BY <2>2, <2>3, <2>4
<1>2. CASE Store!InitEmbeddings(k)
  <2>1. /\ UNCHANGED <<opened, collection, client, embeddings, sparse, vectorstore, services, initialized, notes, broken>>
        /\ storeCall[k].pc = "embeddings" /\ client
        /\ Store!Goes(k, "collection") \/ Store!Goes(k, "dense")
    BY <1>2 DEF Store!InitEmbeddings, Store!At, Store!tool, Store!models, StoreInv, ClientKept
  <2>2. CASE Store!Goes(k, "collection")
    BY <2>1, <2>2, StoreGoesStep
  <2>3. CASE Store!Goes(k, "dense")
    BY <2>1, <2>3, StoreGoesStep
  <2> QED BY <2>1, <2>2, <2>3
<1>6. CASE Store!LoadDense(k) \/ Store!LoadSparse(k)
  <2>1. PICK pc \in {"sparse", "collection"} :
           /\ UNCHANGED <<opened, collection, client, vectorstore, services, initialized, notes, broken>>
           /\ storeCall[k].pc \in {"dense", "sparse"} /\ client /\ Store!Goes(k, pc)
           /\ embeddings' \in {TRUE, embeddings} /\ sparse' \in {TRUE, sparse}
    BY <1>6 DEF Store!LoadDense, Store!LoadSparse, Store!At, StoreInv, ClientKept
  <2>2. Store!TypeOK'
    BY <2>1 DEF StoreInv, Store!TypeOK
  <2> DEFINE x == [pc |-> pc, op |-> storeCall[k].op]
  <2>3. x \in StoreCall /\ storeCall' = [storeCall EXCEPT ![k] = x]
    <3>1. storeCall[k].pc \in StorePcs /\ pc \in StorePcs /\ StoreCallsTyped
      BY <2>1 DEF StoreInv
    <3> QED BY <2>1, <3>1, StoreGoes, ZenonT(30)
  <2>4. Keeps /\ SoundNext(x) /\ x.pc \in {"sparse", "collection"} /\ (initialized => client) /\ ~Forgetting(k)
    BY <2>1 DEF Keeps, StoreInv, ClientKept, Forgetting
  <2> HIDE DEF x
  <2> QED BY <2>1, <2>2, <2>3, <2>4, StoreProgressStep
<1>3. CASE Store!InitVectorstore(k)
  <2>1. /\ UNCHANGED <<opened, collection, client, embeddings, sparse, services, initialized, notes, broken>>
        /\ storeCall[k].pc = "store" /\ client
    BY <1>3 DEF Store!InitVectorstore, Store!At, Store!models, StoreInv, ClientKept
  <2>2. CASE ~vectorstore /\ (collection = Null \/ ~sparse)
    <3>1. Store!Raises(k) /\ UNCHANGED vectorstore
      BY <1>3, <2>2 DEF Store!InitVectorstore
    <3> QED BY <2>1, <3>1, StoreRaisesStep
  <2>3. CASE ~(~vectorstore /\ (collection = Null \/ ~sparse))
    <3>1. Store!Goes(k, "services") /\ vectorstore' = TRUE
      BY <1>3, <2>3 DEF Store!InitVectorstore
    <3>2. Store!TypeOK'
      BY <2>1, <3>1 DEF StoreInv, Store!TypeOK
    <3> DEFINE x == [pc |-> "services", op |-> storeCall[k].op]
    <3>3. x \in StoreCall /\ storeCall' = [storeCall EXCEPT ![k] = x]
      BY <2>1, <3>1, StoreGoes, ZenonT(30) DEF StoreInv, StoreCall
    <3>4. Keeps /\ x.pc = "services" /\ (initialized => client) /\ ~Forgetting(k)
      BY <2>1, <3>1 DEF Keeps, StoreInv, ClientKept, Forgetting
    <3>5. Clean => collection # Null
      BY <2>1 DEF Clean
    <3>6. Clean => SoundNext(x)
      BY <2>1, <3>1, <3>5
    <3> HIDE DEF x
    <3>7. (initialized' => initialized /\ client) /\ x.pc \notin ForgetPcs \cup {"opened"}
      BY <2>1, <3>4
    <3>8. storeCall[k].pc \notin {"opened", "index"} /\ (x.pc \in InitPcs => client)
      BY <2>1
    <3> QED BY <2>1, <3>2, <3>3, <3>4, <3>6, <3>7, <3>8, StoreProgressStep
  <2> QED BY <2>2, <2>3
<1>4. CASE Store!InitServices(k)
  <2>1. /\ UNCHANGED <<opened, collection, client, embeddings, sparse, vectorstore, initialized, notes, broken>>
        /\ storeCall[k].pc = "services" /\ client /\ Store!Goes(k, "flag")
        /\ services' = IF vectorstore THEN "store" ELSE "nothing"
    BY <1>4 DEF Store!InitServices, Store!At, Store!models, StoreInv, ClientKept
  <2>2. Store!TypeOK'
    BY <2>1 DEF StoreInv, Store!TypeOK
  <2> DEFINE x == [pc |-> "flag", op |-> storeCall[k].op]
  <2>3. x \in StoreCall /\ storeCall' = [storeCall EXCEPT ![k] = x]
    BY <2>1, StoreGoes, ZenonT(30) DEF StoreInv, StoreCall
  <2>4. Clean => collection # Null /\ vectorstore
    BY <2>1 DEF Clean
  <2>5. Clean => Keeps /\ SoundNext(x) /\ services' = "store"
    BY <2>1, <2>4 DEF Keeps
  <2>6. x.pc = "flag" /\ (initialized => client) /\ ~Forgetting(k)
    BY <2>1 DEF StoreInv, ClientKept, Forgetting
  <2> HIDE DEF x
  <2>7. (initialized' => initialized /\ client) /\ x.pc \notin ForgetPcs \cup {"opened"}
    BY <2>1, <2>6
  <2>8. storeCall[k].pc \notin {"opened", "index"} /\ (x.pc \in InitPcs => client)
    BY <2>1
  <2> QED BY <2>1, <2>2, <2>3, <2>5, <2>6, <2>7, <2>8, StoreProgressStep
<1>5. CASE Store!SetInitialized(k)
  <2>1. /\ UNCHANGED <<opened, collection, client, embeddings, sparse, vectorstore, services, notes, broken>>
        /\ storeCall[k].pc = "flag" /\ client /\ Store!Goes(k, "act") /\ initialized'
    BY <1>5 DEF Store!SetInitialized, Store!At, Store!models, StoreInv, ClientKept
  <2>2. Store!TypeOK'
    BY <1>5, <2>1 DEF Store!SetInitialized, StoreInv, Store!TypeOK
  <2> DEFINE x == [pc |-> "act", op |-> storeCall[k].op]
  <2>3. x \in StoreCall /\ storeCall' = [storeCall EXCEPT ![k] = x]
    BY <2>1, StoreGoes, ZenonT(30) DEF StoreInv, StoreCall
  <2>4. Clean => collection # Null /\ vectorstore /\ services = "store"
    BY <2>1 DEF Clean
  <2>5. Clean => SoundNext(x) /\ services' = "store" /\ vectorstore' /\ collection' # Null
    BY <2>1, <2>4
  <2>6. Keeps /\ x.pc = "act" /\ (initialized => client) /\ ~Forgetting(k)
    BY <2>1 DEF StoreInv, ClientKept, Forgetting, Keeps
  <2> HIDE DEF x
  <2> QED BY <2>1, <2>2, <2>3, <2>5, <2>6, StoreProgressStep
<1> QED BY <1>1, <1>2, <1>3, <1>4, <1>5, <1>6

LEMMA StoreClientStep ==
    ASSUME StoreInv, NEW k \in Threads, Recorded,
           Store!OpenClient(k) \/ Store!SetClient(k) \/ Store!OpenOwn(k) \/ Store!ShareClient(k)
    PROVE  StoreInv'
<1> USE DEF StepSound, SoundNext, ForgetPcs, InitPcs, StorePcs
<1>1. CASE Store!OpenClient(k)
  <2>1. /\ UNCHANGED <<collection, client, embeddings, sparse, vectorstore, services, initialized, notes, broken>>
        /\ storeCall[k].pc = "client"
        /\ \/ client /\ Store!Goes(k, "embeddings") /\ UNCHANGED opened
           \/ ~client /\ Store!Raises(k) /\ UNCHANGED opened
           \/ ~client /\ Store!Goes(k, "opened") /\ opened' = Local
    BY <1>1 DEF Store!OpenClient, Store!At, Store!tool, Store!models
  <2>2. CASE client /\ Store!Goes(k, "embeddings") /\ UNCHANGED opened
    BY <2>1, <2>2, StoreGoesStep
  <2>3. CASE Store!Raises(k) /\ UNCHANGED opened
    BY <2>1, <2>3, StoreRaisesStep
  <2>4. CASE Store!Goes(k, "opened") /\ opened' = Local
    <3>1. Store!TypeOK'
      BY <2>1, <2>4 DEF StoreInv, Store!TypeOK
    <3> DEFINE x == [pc |-> "opened", op |-> storeCall[k].op]
    <3>2. x \in StoreCall /\ storeCall' = [storeCall EXCEPT ![k] = x]
      BY <2>1, <2>4, StoreGoes, ZenonT(30) DEF StoreInv, StoreCall
    <3>3. Keeps /\ x.pc = "opened" /\ (initialized => client) /\ ~Forgetting(k)
      BY <2>1 DEF Keeps, StoreInv, ClientKept, Forgetting
    <3> HIDE DEF x
    <3> QED BY <2>1, <3>1, <3>2, <3>3, StoreThreadStep DEF Recorded
  <2> QED BY <2>1, <2>2, <2>3, <2>4
<1>2. CASE Store!SetClient(k)
  <2>1. /\ UNCHANGED <<opened, collection, embeddings, sparse, vectorstore, services, initialized, notes, broken>>
        /\ storeCall[k].pc = "opened" /\ client' /\ Store!Goes(k, "embeddings")
    BY <1>2 DEF Store!SetClient, Store!At, Store!models
  <2>2. Store!TypeOK'
    BY <1>2, <2>1 DEF Store!SetClient, StoreInv, Store!TypeOK
  <2> DEFINE x == [pc |-> "embeddings", op |-> storeCall[k].op]
  <2>3. x \in StoreCall /\ storeCall' = [storeCall EXCEPT ![k] = x]
    BY <2>1, StoreGoes, ZenonT(30) DEF StoreInv, StoreCall
  <2>4. Keeps /\ x.pc = "embeddings" /\ ~Forgetting(k)
    BY <2>1 DEF Keeps, Forgetting
  <2> HIDE DEF x
  <2> QED BY <2>1, <2>2, <2>3, <2>4, StoreThreadStep DEF Recorded
<1>3. CASE Store!OpenOwn(k) \/ Store!ShareClient(k)
  <2>1. /\ UNCHANGED <<collection, client, embeddings, sparse, vectorstore, services, initialized, broken>>
        /\ storeCall[k].pc \in {"own", "act"} /\ Store!Ends(k)
        /\ \/ UNCHANGED <<opened, notes>>
           \/ notes' = "own" /\ opened' = Local
           \/ notes' = "shared" /\ opened' = opened /\ client
    BY <1>3 DEF Store!OpenOwn, Store!ShareClient, Store!At, Store!tool, Store!models, StoreInv, ClientKept
  <2>2. Store!TypeOK'
    BY <2>1 DEF StoreInv, Store!TypeOK
  <2>3. storeCall' = [storeCall EXCEPT ![k] = Store!Idle] /\ Store!Idle.pc = "idle"
    BY <2>1 DEF Store!Ends, Store!Idle
  <2>4. Keeps /\ (initialized => client) /\ ~Forgetting(k)
    BY <2>1 DEF Keeps, Forgetting, StoreInv, ClientKept
  <2>5. opened' /\ ~client' => notes' = "own" \/ (opened /\ notes # "own" /\ storeCall[k].pc # "opened")
    BY <2>1
  <2>6. Clean => SoundNext(Store!Idle)
    BY <2>3
  <2> QED BY <2>1, <2>2, <2>3, <2>4, <2>5, <2>6, StoreThreadStep DEF Recorded
<1> QED BY <1>1, <1>2, <1>3

LEMMA StoreCollectionStep ==
    ASSUME StoreInv, NEW k \in Threads, Recorded, Store!CreateCollection(k) \/ Store!CreateIndex(k) \/ Store!StepFails(k)
    PROVE  StoreInv'
<1> USE DEF StepSound, SoundNext, ForgetPcs, InitPcs, StorePcs
<1>1. CASE Store!CreateCollection(k)
  <2>1. /\ UNCHANGED <<opened, client, embeddings, sparse, vectorstore, services, initialized, notes, broken>>
        /\ storeCall[k].pc = "create" /\ client
    BY <1>1 DEF Store!CreateCollection, Store!At, Store!tool, Store!models, StoreInv, ClientKept
  <2>2. CASE collection = Null
    <3>1. collection' = {} /\ Store!Goes(k, "index") /\ {} # Null
      BY <1>1, <2>2 DEF Store!CreateCollection
    <3>2. Store!TypeOK'
      BY <2>1, <3>1 DEF StoreInv, Store!TypeOK
    <3> DEFINE x == [pc |-> "index", op |-> storeCall[k].op]
    <3>3. x \in StoreCall /\ storeCall' = [storeCall EXCEPT ![k] = x]
      BY <2>1, <3>1, StoreGoes, ZenonT(30) DEF StoreInv, StoreCall
    <3>4. Keeps /\ SoundNext(x) /\ x.pc = "index" /\ (initialized => client) /\ ~Forgetting(k)
      BY <2>1, <3>1 DEF Keeps, StoreInv, ClientKept, Forgetting
    <3> HIDE DEF x
    <3>5. opened' /\ ~client' => notes' = "own" \/ (opened /\ notes # "own" /\ storeCall[k].pc # "opened")
      BY <2>1
    <3> QED BY <2>1, <3>2, <3>3, <3>4, <3>5, StoreThreadStep DEF Recorded
  <2>3. CASE collection # Null
    <3>1. Store!Raises(k) /\ UNCHANGED collection
      BY <1>1, <2>3 DEF Store!CreateCollection
    <3> QED BY <2>1, <3>1, StoreRaisesStep
  <2> QED BY <2>2, <2>3
<1>2. CASE Store!CreateIndex(k)
  <2>1. /\ UNCHANGED <<opened, client, embeddings, sparse, vectorstore, services, initialized, notes, broken>>
        /\ storeCall[k].pc = "index" /\ client
        /\ \/ collection = Null /\ Store!Raises(k) /\ UNCHANGED collection
           \/ collection = Store!Indexes /\ Store!Goes(k, "store") /\ UNCHANGED collection
           \/ /\ collection # Null
              /\ \E i \in Store!Indexes \ collection : collection' = collection \cup {i}
              /\ UNCHANGED storeCall
    BY <1>2 DEF Store!CreateIndex, Store!At, Store!tool, Store!models, StoreInv, ClientKept
  <2>2. CASE collection = Null /\ Store!Raises(k) /\ UNCHANGED collection
    BY <2>1, <2>2, StoreRaisesStep
  <2>3. CASE collection = Store!Indexes /\ Store!Goes(k, "store") /\ UNCHANGED collection
    <3>1. StepSound([pc |-> "store", op |-> storeCall[k].op])
      BY <2>3, Store!Indexes \in SUBSET Store!Indexes
    <3> QED BY <2>1, <2>3, <3>1, StoreGoesStep
  <2>4. CASE /\ collection # Null
             /\ \E i \in Store!Indexes \ collection : collection' = collection \cup {i}
             /\ UNCHANGED storeCall
    <3>1. collection \in SUBSET Store!Indexes
      BY <2>4 DEF StoreInv, Store!TypeOK
    <3>2. collection' \in SUBSET Store!Indexes
      BY <2>4, <3>1
    <3>3. collection' # Null
      BY <3>2
    <3>4. Store!TypeOK'
      BY <2>1, <3>2 DEF StoreInv, Store!TypeOK
    <3> DEFINE x == storeCall[k]
    <3>5. x \in {Store!Idle} \cup StoreCall /\ storeCall' = [storeCall EXCEPT ![k] = x]
      BY <2>4 DEF StoreInv, StoreCallsTyped
    <3>6. Keeps /\ SoundNext(x) /\ x.pc = "index" /\ (initialized => client) /\ ~Forgetting(k)
      BY <2>1, <3>3 DEF Keeps, StoreInv, ClientKept, Forgetting
    <3> HIDE DEF x
    <3>7. opened' /\ ~client' => notes' = "own" \/ (opened /\ notes # "own" /\ storeCall[k].pc # "opened")
      BY <2>1
    <3> QED BY <2>1, <3>4, <3>5, <3>6, <3>7, StoreThreadStep DEF Recorded
  <2> QED BY <2>1, <2>2, <2>3, <2>4
<1>3. CASE Store!StepFails(k)
  <2>1. /\ UNCHANGED <<opened, collection, client, embeddings, sparse, vectorstore, services, initialized, notes>>
        /\ storeCall[k].pc \in {"client", "dense", "sparse", "collection", "create", "index", "store"}
        /\ Store!Raises(k) /\ (broken => broken') /\ (storeCall[k].pc = "index" => broken')
    BY <1>3 DEF Store!StepFails, Store!At, Store!tool, Store!models
  <2> QED BY <2>1, StoreRaisesStep
<1> QED BY <1>1, <1>2, <1>3

LEMMA StoreResetStep ==
    ASSUME StoreInv, NEW k \in Threads, Recorded,
           Store!Drop(k) \/ Store!ForgetStore(k) \/ Store!ForgetServices(k) \/ Store!ForgetFlag(k)
    PROVE  StoreInv'
<1> USE DEF SoundNext, ForgetPcs, InitPcs, StorePcs
<1>1. /\ UNCHANGED <<opened, client, embeddings, sparse, notes, broken>>
      /\ storeCall[k].pc \in ForgetPcs \/ (storeCall[k].pc = "act" /\ storeCall[k].op = "drop")
      /\ initialized' = initialized \/ initialized' = FALSE
      /\ vectorstore' = vectorstore \/ vectorstore' = FALSE
      /\ services' = services \/ services' = Null
      /\ collection' = collection \/ collection' = Null
  BY DEF Store!Drop, Store!ForgetStore, Store!ForgetServices, Store!ForgetFlag, Store!At, Store!tool, Store!models, Store!Forgotten
<1>10. /\ storeCall[k].pc \in StorePcs /\ storeCall[k].pc \notin {"opened", "index", "idle"}
       /\ storeCall[k].op = "drop" /\ (initialized' => initialized)
  <2>1. storeCall[k].pc \in StorePcs /\ storeCall[k].pc \notin {"opened", "index", "idle"}
    BY <1>1
  <2>2. storeCall[k].op = "drop"
    BY <1>1 DEF StoreInv, StoreCallsTyped, Forgetting
  <2>3. initialized' => initialized
    BY <1>1, Zenon
  <2> QED BY <2>1, <2>2, <2>3
<1>2. Store!Resetting(k)
  <2>1. storeCall[k] # Store!Idle
    BY <1>10, StoreCallTyped DEF StoreInv
  <2> QED BY <1>10, <2>1 DEF Store!Resetting
<1>3. Store!TypeOK'
  BY <1>1 DEF StoreInv, Store!TypeOK
<1>4. initialized' => client'
  BY <1>1, <1>10 DEF StoreInv, ClientKept
<1>5. opened' /\ ~client' => notes' = "own" \/ (opened /\ notes # "own" /\ storeCall[k].pc # "opened")
  BY <1>1, <1>10
<1>6. collection' \in {collection, Null}
  BY DEF Store!Drop, Store!ForgetStore, Store!ForgetServices, Store!ForgetFlag
<1>7. \/ \E pc \in ForgetPcs : Store!Goes(k, pc) /\ (Store!Drop(k) => collection # Null)
      \/ storeCall' = [storeCall EXCEPT ![k] = [pc |-> "check", op |-> "startup"]]
         /\ (Clean /\ initialized' => FALSE)
  <2>1. CASE Store!Drop(k)
    <3>1. CASE collection # Null
      BY <2>1, <3>1 DEF Store!Drop
    <3>2. CASE collection = Null
      <4>1. ~Clean
        BY <2>1, <3>2 DEF Clean, StepSound, Store!Drop, Store!At
      <4> QED BY <2>1, <3>2, <4>1 DEF Store!Drop
    <3> QED BY <3>1, <3>2
  <2>2. CASE Store!ForgetStore(k) \/ Store!ForgetServices(k)
    BY <2>2, <1>1 DEF Store!ForgetStore, Store!ForgetServices, Store!Drop, Store!At
  <2>3. CASE Store!ForgetFlag(k)
    BY <2>3 DEF Store!ForgetFlag, Store!Forgotten
  <2> QED BY <2>1, <2>2, <2>3
<1>8. CASE \E pc \in ForgetPcs : Store!Goes(k, pc)
  <2>1. PICK pc \in ForgetPcs : Store!Goes(k, pc)
    BY <1>8
  <2> DEFINE x == [pc |-> pc, op |-> storeCall[k].op]
  <2>2. x \in StoreCall /\ storeCall' = [storeCall EXCEPT ![k] = x]
    <3>1. storeCall[k].pc \in StorePcs /\ pc \in StorePcs
      BY <1>10
    <3>2. StoreCallsTyped
      BY DEF StoreInv
    <3> QED BY <2>1, <3>1, <3>2, StoreGoes, ZenonT(30) DEF x
  <2>3. x.pc \in ForgetPcs /\ x.op = "drop" /\ SoundNext(x)
    BY <1>10, <2>1
  <2> HIDE DEF x
  <2> QED BY <1>1, <1>10, <1>2, <1>3, <1>4, <1>5, <1>6, <2>2, <2>3, StoreThreadStep DEF Recorded
<1>9. CASE storeCall' = [storeCall EXCEPT ![k] = [pc |-> "check", op |-> "startup"]]
           /\ (Clean /\ initialized' => FALSE)
  <2> DEFINE x == [pc |-> "check", op |-> "startup"]
  <2>1. x \in StoreCall /\ storeCall' = [storeCall EXCEPT ![k] = x] /\ x.pc = "check" /\ SoundNext(x)
    BY <1>9 DEF StoreCall
  <2> HIDE DEF x
  <2> QED BY <1>1, <1>10, <1>2, <1>3, <1>4, <1>5, <1>6, <1>9, <2>1, StoreThreadStep DEF Recorded
<1> QED BY <1>7, <1>8, <1>9

LEMMA StoreRestartStep == StoreInv /\ Recorded /\ Store!Restart => StoreInv'
<1> SUFFICES ASSUME StoreInv, Recorded, Store!Restart PROVE StoreInv'
  OBVIOUS
<1>1. storeCall' = [k \in Threads |-> Store!Idle] /\ \A k \in Threads : storeCall'[k].pc = "idle"
  BY DEF Store!Restart, Store!Idle
<1>2. StoreCallsTyped'
  BY <1>1 DEF StoreCallsTyped, Forgetting, ForgetPcs
<1>3. Store!TypeOK'
  BY DEF Store!Restart, StoreInv, Store!TypeOK
<1>4. ClientKept'
  BY <1>1 DEF Store!Restart, ClientKept, InitPcs
<1>5. IndexesComing'
  BY DEF Store!Restart, StoreInv, IndexesComing
<1>6. Clean'
  BY <1>1 DEF Store!Restart, Clean, StepSound, Store!Crossing, Store!Resetting
<1> QED BY <1>2, <1>3, <1>4, <1>5, <1>6 DEF StoreInv, Recorded

LEMMA StoreStep == StoreInv /\ Store!Next => StoreInv'
<1> SUFFICES ASSUME StoreInv, Store!Next PROVE StoreInv'
  OBVIOUS
<1>1. Recorded /\ Store!Step
  BY DEF Store!Next, Recorded
<1>2. CASE Store!Restart
  BY <1>1, <1>2, StoreRestartStep
<1>3. CASE ~Store!Restart
  <2>1. PICK k \in Threads :
          \/ \E op \in {"use", "note", "reset", "startup"} : Store!Call(k, op)
          \/ Store!Check(k) \/ Store!OpenClient(k) \/ Store!SetClient(k)
          \/ Store!InitEmbeddings(k) \/ Store!LoadDense(k) \/ Store!LoadSparse(k)
          \/ Store!ListCollections(k) \/ Store!CreateCollection(k) \/ Store!CreateIndex(k)
          \/ Store!InitVectorstore(k) \/ Store!InitServices(k) \/ Store!SetInitialized(k) \/ Store!StepFails(k)
          \/ Store!Use(k) \/ Store!ShareClient(k) \/ Store!OpenOwn(k)
          \/ Store!Exists(k) \/ Store!Drop(k) \/ Store!ForgetStore(k) \/ Store!ForgetServices(k) \/ Store!ForgetFlag(k)
    BY <1>1, <1>3 DEF Store!Step
  <2> QED BY <1>1, <2>1, StoreCallStep, StoreInitialiseStep, StoreClientStep, StoreCollectionStep, StoreResetStep
<1> QED BY <1>2, <1>3

\* A step of a thread moves no other one.
LEMMA StoreOthersStay ==
    ASSUME StoreCallsTyped, NEW k \in Threads,
           \/ \E pc \in StorePcs : Store!Goes(k, pc)
           \/ Store!Ends(k) \/ Store!Raises(k) \/ UNCHANGED storeCall
           \/ \E x : storeCall' = [storeCall EXCEPT ![k] = x]
    PROVE  \A j \in Threads \ {k} : storeCall'[j] = storeCall[j]
BY DEF StoreCallsTyped, Store!Goes, Store!Ends, Store!Raises

LEMMA ModelsQuietStep ==
    ASSUME ModelsLoaded, NEW k \in Threads, \A j \in Threads \ {k} : storeCall'[j] = storeCall[j],
           vectorstore' => vectorstore \/ sparse, UNCHANGED <<embeddings, sparse>>,
           halved => halved', storeCall[k].pc = "sparse" => halved'
    PROVE  ModelsLoaded'
BY DEF ModelsLoaded, Store!At

LEMMA ModelsThreadStep ==
    ASSUME StoreInv, ModelsLoaded, NEW k \in Threads,
           \/ \E op \in {"use", "note", "reset", "startup"} : Store!Call(k, op)
           \/ Store!Check(k) \/ Store!OpenClient(k) \/ Store!SetClient(k)
           \/ Store!InitEmbeddings(k) \/ Store!LoadDense(k) \/ Store!LoadSparse(k)
           \/ Store!ListCollections(k) \/ Store!CreateCollection(k) \/ Store!CreateIndex(k)
           \/ Store!InitVectorstore(k) \/ Store!InitServices(k) \/ Store!SetInitialized(k) \/ Store!StepFails(k)
           \/ Store!Use(k) \/ Store!ShareClient(k) \/ Store!OpenOwn(k)
           \/ Store!Exists(k) \/ Store!Drop(k) \/ Store!ForgetStore(k) \/ Store!ForgetServices(k) \/ Store!ForgetFlag(k)
    PROVE  ModelsLoaded'
<1> USE DEF Store!At, Store!tool, Store!models, StorePcs
<1>1. StoreCallsTyped
  BY DEF StoreInv
<1>2. CASE Store!LoadDense(k)
  <2>1. storeCall' = [storeCall EXCEPT ![k].pc = "sparse"] /\ UNCHANGED <<sparse, vectorstore>>
    BY <1>2 DEF Store!LoadDense, Store!Goes
  <2>2. storeCall'[k].pc = "sparse"
    BY <1>1, <1>2, <2>1, StoreCallTyped DEF StoreCallsTyped, StoreCall, Store!LoadDense
  <2> QED BY <2>1, <2>2 DEF ModelsLoaded
<1>3. CASE Store!LoadSparse(k)
  BY <1>3 DEF Store!LoadSparse, ModelsLoaded
<1>4. CASE Store!StepFails(k)
  <2>1. \A j \in Threads \ {k} : storeCall'[j] = storeCall[j]
    BY <1>1, <1>4, StoreOthersStay DEF Store!StepFails
  <2> QED BY <1>4, <2>1, ModelsQuietStep DEF Store!StepFails
<1>5. CASE \/ \E op \in {"use", "note", "reset", "startup"} : Store!Call(k, op)
           \/ Store!Exists(k) \/ Store!Drop(k) \/ Store!ForgetFlag(k)
  <2>1. /\ \E x : storeCall' = [storeCall EXCEPT ![k] = x] \/ Store!Goes(k, "forget store")
        /\ UNCHANGED <<embeddings, sparse, vectorstore, halved>> /\ storeCall[k].pc # "sparse"
    BY <1>5 DEF Store!Call, Store!Exists, Store!Drop, Store!ForgetFlag
  <2>2. \A j \in Threads \ {k} : storeCall'[j] = storeCall[j]
    BY <1>1, <2>1, StoreOthersStay
  <2> QED BY <2>1, <2>2, ModelsQuietStep
<1>6. CASE \/ Store!Check(k) \/ Store!OpenClient(k) \/ Store!SetClient(k) \/ Store!InitEmbeddings(k)
           \/ Store!ListCollections(k) \/ Store!CreateCollection(k) \/ Store!CreateIndex(k)
           \/ Store!InitVectorstore(k) \/ Store!InitServices(k) \/ Store!SetInitialized(k)
           \/ Store!Use(k) \/ Store!ShareClient(k) \/ Store!OpenOwn(k)
           \/ Store!ForgetStore(k) \/ Store!ForgetServices(k)
  <2>1. \/ \E pc \in StorePcs : Store!Goes(k, pc)
        \/ Store!Ends(k) \/ Store!Raises(k) \/ UNCHANGED storeCall
    BY <1>6 DEF Store!Check, Store!OpenClient, Store!SetClient, Store!InitEmbeddings,
           Store!ListCollections, Store!CreateCollection, Store!CreateIndex,
           Store!InitVectorstore, Store!InitServices, Store!SetInitialized,
           Store!Use, Store!ShareClient, Store!OpenOwn, Store!ForgetStore, Store!ForgetServices
  <2>2. /\ UNCHANGED <<embeddings, sparse, halved>> /\ storeCall[k].pc # "sparse"
        /\ vectorstore' => vectorstore \/ sparse
    <3>1. CASE Store!InitVectorstore(k)
      BY <3>1 DEF Store!InitVectorstore
    <3>2. CASE Store!ForgetStore(k)
      <4>1. vectorstore' = FALSE
        BY <3>2 DEF Store!ForgetStore
      <4>2. UNCHANGED <<embeddings, sparse, halved>> /\ storeCall[k].pc # "sparse"
        BY <3>2 DEF Store!ForgetStore
      <4> QED BY <4>1, <4>2
    <3>8. CASE Store!ForgetServices(k)
      BY <3>8 DEF Store!ForgetServices
    <3>3. CASE Store!InitServices(k)
      BY <3>3 DEF Store!InitServices
    <3>6. CASE Store!SetInitialized(k)
      BY <3>6 DEF Store!SetInitialized
    <3>7. CASE Store!SetClient(k)
      BY <3>7 DEF Store!SetClient
    <3>4. CASE \/ Store!Check(k) \/ Store!OpenClient(k) \/ Store!InitEmbeddings(k)
               \/ Store!Use(k) \/ Store!ShareClient(k) \/ Store!OpenOwn(k)
      BY <3>4 DEF Store!Check, Store!OpenClient, Store!InitEmbeddings, Store!Use, Store!ShareClient, Store!OpenOwn
    <3>5. CASE Store!ListCollections(k) \/ Store!CreateCollection(k) \/ Store!CreateIndex(k)
      BY <3>5 DEF Store!ListCollections, Store!CreateCollection, Store!CreateIndex
    <3> QED BY <1>6, <3>1, <3>2, <3>3, <3>4, <3>5, <3>6, <3>7, <3>8
  <2>3. \A j \in Threads \ {k} : storeCall'[j] = storeCall[j]
    BY <1>1, <2>1, StoreOthersStay
  <2> QED BY <2>2, <2>3, ModelsQuietStep
<1> QED BY <1>2, <1>3, <1>4, <1>5, <1>6

LEMMA ModelsStep == StoreInv /\ ModelsLoaded /\ Store!Next => ModelsLoaded'
<1> SUFFICES ASSUME StoreInv, ModelsLoaded, Store!Next PROVE ModelsLoaded'
  OBVIOUS
<1>1. CASE Store!Restart
  BY <1>1 DEF Store!Restart, ModelsLoaded
<1>2. CASE ~Store!Restart
  BY <1>2, ModelsThreadStep DEF Store!Next, Store!Step
<1> QED BY <1>1, <1>2

LEMMA ModelsStutter == ModelsLoaded /\ UNCHANGED storeVars => ModelsLoaded'
BY DEF ModelsLoaded, Store!At, storeVars

\* However initialisations, resets and restarts interleave and fail: unless a
\* reset goes on or has met another operation, an operation finds the services
\* on a collection that exists; unless their creation broke off, the indexes
\* are complete at rest; and the store has both of its models, or the load of
\* the second broke off.
THEOREM StoreRepairs == ServicesSpec => []StoreRecovers
<1> DEFINE SInv == StoreInv /\ ModelsLoaded
<1>1. ServicesInit => SInv
  <2>1. Store!Init => ModelsLoaded
    BY DEF Store!Init, Store!Fresh, ModelsLoaded
  <2> QED BY <2>1, StoreInitially DEF ServicesInit
<1>2. SInv /\ [ServicesNext]_<<service, missionVars, shellVars, emotionVars, studyVars,
                               fileVars, storeVars, faults>> => SInv'
  BY StoreStep, StoreStutter, ModelsStep, ModelsStutter DEF ServicesNext, storeVars
<1>3. SInv => StoreRecovers
  BY StoreInvGives
<1> QED
  BY <1>1, <1>2, <1>3, PTL DEF ServicesSpec

HIDE StoreAssumed DEF Store!StoreAssumption

-----------------------------------------------------------------------------
(* Flashcards *)

CardOK(x) == x.streak = x.repetitions /\ x.ease_factor >= 130

Matured(x) ==
    /\ x.repetitions = 2 => x.interval_days >= 6
    /\ x.repetitions > 2 => x.interval_days > 6

USE FlashcardsAssumed DEF Study!FlashcardsAssumption

LEMMA EaseChanges == \A q \in Qualities : q \in Int /\ Study!EaseChange(q) \in Int
<1> SUFFICES ASSUME NEW q \in Qualities PROVE q \in Int /\ Study!EaseChange(q) \in Int
  OBVIOUS
<1>1. q \in 0..5
  OBVIOUS
<1> QED BY <1>1 DEF Study!EaseChange

LEMMA ReviewedIs ==
    ASSUME NEW x \in Study!Card, NEW q \in Qualities, NEW n \in Nat
    PROVE  LET y == Study!Reviewed(x, q, n)
           IN  /\ y \in Study!Card
               /\ y.deck = x.deck /\ y.is_suspended = x.is_suspended
               /\ y.repetitions = IF q < 3 THEN 0 ELSE x.repetitions + 1
               /\ y.streak = IF q < 3 THEN 0 ELSE x.streak + 1
               /\ y.ease_factor >= 130
               /\ y.interval_days = IF q < 3 \/ x.repetitions = 0 THEN 1
                                    ELSE IF x.repetitions = 1 THEN 6 ELSE Study!AtLeast(1, n)
               /\ y.ease_factor = Study!AtLeast(130, IF q < 3 THEN x.ease_factor - 20
                                                     ELSE x.ease_factor + Study!EaseChange(q))
               /\ y.due = y.interval_days /\ y.total_reviews = x.total_reviews + 1
               /\ y.correct_count = IF q >= 3 THEN x.correct_count + 1 ELSE x.correct_count
<1> DEFINE s == Study!Sm2Update(q, x, n)
           y == Study!Reviewed(x, q, n)
<1>1. q \in Int /\ Study!EaseChange(q) \in Int
  BY EaseChanges
<1>2. /\ s.repetitions = IF q < 3 THEN 0 ELSE x.repetitions + 1
      /\ s.ease_factor = Study!AtLeast(130, IF q < 3 THEN x.ease_factor - 20 ELSE x.ease_factor + Study!EaseChange(q))
      /\ s.interval_days = IF q < 3 \/ x.repetitions = 0 THEN 1
                           ELSE IF x.repetitions = 1 THEN 6 ELSE Study!AtLeast(1, n)
  BY DEF Study!Sm2Update
<1>3. s.repetitions \in Nat /\ s.ease_factor \in Nat /\ s.ease_factor >= 130 /\ s.interval_days \in Nat
  BY <1>1, <1>2 DEF Study!Card, Study!AtLeast
<1>4. y = [x EXCEPT !.repetitions = s.repetitions, !.ease_factor = s.ease_factor,
                    !.interval_days = s.interval_days, !.due = s.interval_days,
                    !.total_reviews = x.total_reviews + 1,
                    !.correct_count = IF q >= 3 THEN x.correct_count + 1 ELSE x.correct_count,
                    !.streak = IF q >= 3 THEN x.streak + 1 ELSE 0]
  BY DEF Study!Reviewed
<1> HIDE DEF s, y
<1>6. x.total_reviews + 1 \in Nat /\ x.correct_count + 1 \in Nat /\ x.streak + 1 \in Nat /\ 0 \in Nat /\ x.correct_count \in Nat
  BY DEF Study!Card
<1>7. y \in Study!Card
  BY <1>3, <1>4, <1>6 DEF Study!Card
<1>5. /\ y.deck = x.deck /\ y.is_suspended = x.is_suspended
      /\ y.repetitions = s.repetitions /\ y.ease_factor = s.ease_factor /\ y.interval_days = s.interval_days
      /\ y.streak = IF q >= 3 THEN x.streak + 1 ELSE 0
      /\ y.due = s.interval_days /\ y.total_reviews = x.total_reviews + 1
      /\ y.correct_count = IF q >= 3 THEN x.correct_count + 1 ELSE x.correct_count
  BY <1>4 DEF Study!Card
<1> QED BY <1>1, <1>2, <1>3, <1>5, <1>7 DEF y

LEMMA ReviewedKeeps ==
    ASSUME NEW x \in Study!Card, NEW q \in Qualities, NEW n \in Nat
    PROVE  /\ Study!Reviewed(x, q, n) \in Study!Card
           /\ Study!Reviewed(x, q, n).is_suspended = x.is_suspended
           /\ Study!Reviewed(x, q, n).deck = x.deck
           /\ CardOK(x) => CardOK(Study!Reviewed(x, q, n))
<1> DEFINE y == Study!Reviewed(x, q, n)
<1>1. /\ y \in Study!Card
      /\ y.deck = x.deck /\ y.is_suspended = x.is_suspended
      /\ y.repetitions = (IF q < 3 THEN 0 ELSE x.repetitions + 1)
      /\ y.streak = (IF q < 3 THEN 0 ELSE x.streak + 1)
      /\ y.ease_factor >= 130
  BY ReviewedIs
<1> HIDE DEF y
<1>2. CardOK(x) => CardOK(y)
  BY <1>1 DEF CardOK
<1> QED BY <1>1, <1>2 DEF y

LEMMA SameSchedule ==
    ASSUME NEW x \in Study!Card, NEW y \in Study!Card
    PROVE  Study!Schedule(x) = Study!Schedule(y) <=>
             /\ x.deck = y.deck /\ x.repetitions = y.repetitions /\ x.ease_factor = y.ease_factor
             /\ x.interval_days = y.interval_days /\ x.due = y.due /\ x.total_reviews = y.total_reviews
             /\ x.correct_count = y.correct_count /\ x.streak = y.streak
  BY DEF Study!Schedule, Study!Card

\* A review only looks at the schedule.
LEMMA ReviewsSchedule ==
    ASSUME NEW x \in Study!Card, NEW y \in Study!Card, NEW q \in Qualities, NEW n \in Nat,
           Study!Schedule(x) = Study!Schedule(y)
    PROVE  Study!Schedule(Study!Reviewed(x, q, n)) = Study!Schedule(Study!Reviewed(y, q, n))
<1>1. /\ x.deck = y.deck /\ x.repetitions = y.repetitions /\ x.ease_factor = y.ease_factor
      /\ x.interval_days = y.interval_days /\ x.due = y.due /\ x.total_reviews = y.total_reviews
      /\ x.correct_count = y.correct_count /\ x.streak = y.streak
  BY DEF Study!Schedule, Study!Card
<1> DEFINE v == Study!Reviewed(x, q, n)
           w == Study!Reviewed(y, q, n)
<1>2. v \in Study!Card /\ w \in Study!Card
  BY ReviewedIs
<1>3. /\ v.deck = w.deck /\ v.repetitions = w.repetitions /\ v.ease_factor = w.ease_factor
      /\ v.interval_days = w.interval_days /\ v.due = w.due /\ v.total_reviews = w.total_reviews
      /\ v.correct_count = w.correct_count /\ v.streak = w.streak
  <2>1. /\ v.deck = x.deck /\ v.repetitions = (IF q < 3 THEN 0 ELSE x.repetitions + 1)
        /\ v.streak = (IF q < 3 THEN 0 ELSE x.streak + 1)
        /\ v.interval_days = (IF q < 3 \/ x.repetitions = 0 THEN 1
                              ELSE IF x.repetitions = 1 THEN 6 ELSE Study!AtLeast(1, n))
        /\ v.ease_factor = Study!AtLeast(130, IF q < 3 THEN x.ease_factor - 20
                                              ELSE x.ease_factor + Study!EaseChange(q))
        /\ v.due = v.interval_days /\ v.total_reviews = x.total_reviews + 1
        /\ v.correct_count = (IF q >= 3 THEN x.correct_count + 1 ELSE x.correct_count)
    BY ReviewedIs
  <2>2. /\ w.deck = y.deck /\ w.repetitions = (IF q < 3 THEN 0 ELSE y.repetitions + 1)
        /\ w.streak = (IF q < 3 THEN 0 ELSE y.streak + 1)
        /\ w.interval_days = (IF q < 3 \/ y.repetitions = 0 THEN 1
                              ELSE IF y.repetitions = 1 THEN 6 ELSE Study!AtLeast(1, n))
        /\ w.ease_factor = Study!AtLeast(130, IF q < 3 THEN y.ease_factor - 20
                                              ELSE y.ease_factor + Study!EaseChange(q))
        /\ w.due = w.interval_days /\ w.total_reviews = y.total_reviews + 1
        /\ w.correct_count = (IF q >= 3 THEN y.correct_count + 1 ELSE y.correct_count)
    BY ReviewedIs
  <2> HIDE DEF v, w
  <2> QED BY <1>1, <2>1, <2>2
<1> HIDE DEF v, w
<1>4. Study!Schedule(v) = Study!Schedule(w)
  BY <1>2, <1>3, SameSchedule
<1> QED BY <1>4 DEF v, w

LEMMA ReviewsMature ==
    ASSUME NEW x \in Study!Card, NEW q \in Qualities, NEW n \in Nat, CardOK(x), Matured(x),
           n \in Study!Rounded(x.interval_days * x.ease_factor)
    PROVE  Matured(Study!Reviewed(x, q, n))
<1> DEFINE y == Study!Reviewed(x, q, n)
           i == x.interval_days  e == x.ease_factor
<1>1. i \in Nat /\ e \in Nat /\ e >= 130 /\ x.repetitions \in Nat
  BY DEF Study!Card, CardOK
<1>2. /\ y.repetitions = IF q < 3 THEN 0 ELSE x.repetitions + 1
      /\ y.interval_days = IF q < 3 \/ x.repetitions = 0 THEN 1
                           ELSE IF x.repetitions = 1 THEN 6 ELSE Study!AtLeast(1, n)
  BY ReviewedIs
<1> HIDE DEF y
<1>3. ASSUME x.repetitions >= 2 PROVE n > 6
  <2>1. i >= 6
    BY <1>1, <1>3 DEF Matured
  <2> HIDE DEF i, e
  <2>2. i * e >= 780 /\ i * e \in Nat
    <3>1. i * e >= i * 130 /\ i * 130 >= 780
      BY <1>1, <2>1
    <3>2. i * e \in Nat /\ i * 130 \in Nat
      BY <1>1
    <3> QED BY <3>1, <3>2
  <2>3. PICK m \in Nat : m = i * e /\ m >= 780
    BY <2>2
  <2>4. m >= 780
    BY <2>3
  <2>5. \A z \in Study!Rounded(m) : z > 6
    BY <2>4 DEF Study!Rounded
  <2> QED BY <2>3, <2>5 DEF i, e
<1> QED BY <1>1, <1>2, <1>3, EaseChanges DEF Matured, Study!AtLeast, y

LEMMA MergedIs ==
    ASSUME NEW x \in Study!Card, NEW c \in Study!Card, NEW n \in Study!Card
    PROVE  LET m == Study!Merged(x, c, n)
           IN  /\ m \in Study!Card
               /\ \A k \in {"deck", "repetitions", "ease_factor", "interval_days", "due", "total_reviews",
                            "correct_count", "streak", "is_suspended"} :
                     m[k] = IF n[k] # c[k] THEN n[k] ELSE x[k]
<1>1. DOMAIN x = {"deck", "repetitions", "ease_factor", "interval_days", "due", "total_reviews",
                  "correct_count", "streak", "is_suspended"}
  BY DEF Study!Card
<1> QED BY <1>1 DEF Study!Merged, Study!Card

WithDue(x, y) == [x EXCEPT !.due = y.due]

\* The row that a review writes: it keeps the deck and the suspension, and
\* where no other review came between, its schedule is the one it computed.
LEMMA WrittenByReview ==
    ASSUME NEW x \in Study!Card, NEW c \in Study!Card, NEW y \in Study!Card, CardOK(c), CardOK(x), CardOK(y),
           y.deck = c.deck, y.is_suspended = c.is_suspended,
           NEW w, w = WithDue(Study!Merged(x, c, y), y)
    PROVE  /\ w \in Study!Card /\ CardOK(w) /\ w.deck = x.deck /\ w.is_suspended = x.is_suspended
           /\ Study!Schedule(c) = Study!Schedule(x) => Study!Schedule(w) = Study!Schedule(y)
<1> DEFINE m == Study!Merged(x, c, y)
<1>2. /\ m \in Study!Card
      /\ m.deck = (IF y.deck # c.deck THEN y.deck ELSE x.deck)
      /\ m.is_suspended = (IF y.is_suspended # c.is_suspended THEN y.is_suspended ELSE x.is_suspended)
      /\ m.repetitions = (IF y.repetitions # c.repetitions THEN y.repetitions ELSE x.repetitions)
      /\ m.ease_factor = (IF y.ease_factor # c.ease_factor THEN y.ease_factor ELSE x.ease_factor)
      /\ m.interval_days = (IF y.interval_days # c.interval_days THEN y.interval_days ELSE x.interval_days)
      /\ m.total_reviews = (IF y.total_reviews # c.total_reviews THEN y.total_reviews ELSE x.total_reviews)
      /\ m.correct_count = (IF y.correct_count # c.correct_count THEN y.correct_count ELSE x.correct_count)
      /\ m.streak = (IF y.streak # c.streak THEN y.streak ELSE x.streak)
  BY MergedIs
<1> HIDE DEF m
<1>3. /\ w \in Study!Card /\ w.deck = m.deck /\ w.is_suspended = m.is_suspended
      /\ w.repetitions = m.repetitions /\ w.ease_factor = m.ease_factor /\ w.interval_days = m.interval_days
      /\ w.total_reviews = m.total_reviews /\ w.correct_count = m.correct_count /\ w.streak = m.streak
      /\ w.due = y.due
  <2>1. w = [m EXCEPT !.due = y.due] /\ y.due \in Nat
    BY DEF m, Study!Card, WithDue
  <2> QED BY <1>2, <2>1 DEF Study!Card
<1>4. CardOK(w)
  BY <1>2, <1>3 DEF CardOK, Study!Card
<1>5. ASSUME Study!Schedule(c) = Study!Schedule(x) PROVE Study!Schedule(w) = Study!Schedule(y)
  <2>1. /\ x.deck = c.deck /\ x.repetitions = c.repetitions /\ x.ease_factor = c.ease_factor
        /\ x.interval_days = c.interval_days /\ x.total_reviews = c.total_reviews
        /\ x.correct_count = c.correct_count /\ x.streak = c.streak
    BY <1>5, SameSchedule
  <2>2. /\ w.deck = y.deck /\ w.repetitions = y.repetitions /\ w.ease_factor = y.ease_factor
        /\ w.interval_days = y.interval_days /\ w.due = y.due /\ w.total_reviews = y.total_reviews
        /\ w.correct_count = y.correct_count /\ w.streak = y.streak
    BY <1>2, <1>3, <2>1
  <2> QED BY <1>3, <2>2, SameSchedule
<1> QED BY <1>2, <1>3, <1>4, <1>5

\* The row that an update writes keeps the schedule.
LEMMA WrittenByUpdate ==
    ASSUME NEW x \in Study!Card, NEW c \in Study!Card, NEW b \in BOOLEAN,
           NEW w, w = Study!Merged(x, c, [c EXCEPT !.is_suspended = b])
    PROVE  /\ w \in Study!Card /\ Study!Schedule(w) = Study!Schedule(x) /\ w.deck = x.deck
           /\ c.is_suspended = x.is_suspended => w.is_suspended = b
<1> DEFINE y == [c EXCEPT !.is_suspended = b]
<1>1. /\ y \in Study!Card /\ y.deck = c.deck /\ y.repetitions = c.repetitions /\ y.ease_factor = c.ease_factor
      /\ y.interval_days = c.interval_days /\ y.due = c.due /\ y.total_reviews = c.total_reviews
      /\ y.correct_count = c.correct_count /\ y.streak = c.streak /\ y.is_suspended = b
  BY DEF Study!Card
<1> HIDE DEF y
<1>2. w = Study!Merged(x, c, y)
  BY DEF y
<1>3. /\ w \in Study!Card /\ w.deck = x.deck /\ w.repetitions = x.repetitions /\ w.ease_factor = x.ease_factor
      /\ w.interval_days = x.interval_days /\ w.due = x.due /\ w.total_reviews = x.total_reviews
      /\ w.correct_count = x.correct_count /\ w.streak = x.streak
      /\ w.is_suspended = (IF b # c.is_suspended THEN b ELSE x.is_suspended)
  BY <1>1, <1>2, MergedIs
<1> QED BY <1>3, SameSchedule

-----------------------------------------------------------------------------
\* Every card is sound, with the calls that it has lost taken into account.
CardSound(c) ==
    /\ replayed[c] \in Study!Card
    /\ <<c, "review">> \notin cardCrossed => Study!Schedule(card[c]) = Study!Schedule(replayed[c]) /\ Matured(card[c])
    /\ <<c, "update">> \notin cardCrossed => card[c].is_suspended = replayed[c].is_suspended
    /\ CardOK(card[c])
    /\ deck[card[c].deck] = "there"

CardsSound == \A c \in Cards : card[c] \in Study!Card => CardSound(c)

Writing(r) == cardReq[r].op \in {"review", "update"}

\* What a review or an update has read and computed, and that nothing of its
\* kind has changed since unless it is stale.
WriteSound(q) ==
    /\ card[q.card] # Absent /\ CardOK(q.copy)
    /\ q.op = "review" => /\ q.row = Study!Reviewed(q.copy, q.quality, q.x)
                          /\ q.x \in Study!Rounded(q.copy.interval_days * q.copy.ease_factor)
    /\ q.op = "update" => q.row = [q.copy EXCEPT !.is_suspended = q.row.is_suspended]
    /\ ~q.stale /\ card[q.card] \in Study!Card =>
          IF q.op = "review" THEN Study!Schedule(q.copy) = Study!Schedule(card[q.card])
          ELSE q.copy.is_suspended = card[q.card].is_suspended
    /\ q.pc = "commit" => q.card \in q.locks /\ card[q.card] \in Study!Card

WritesSound == \A r \in Requests : Writing(r) => WriteSound(cardReq[r])

Adding(r) == cardReq[r].op = "cards"

AddSound(q) ==
    /\ \A c \in q.cards : card[c] = Absent
    /\ q.pc = "commit" => deck[q.deck] = "there" /\ q.deck \in q.locks

AddsSound ==
    /\ \A r \in Requests : Adding(r) => AddSound(cardReq[r])
    /\ \A r, s \in Requests : Adding(r) /\ Adding(s) /\ r # s => cardReq[r].cards \cap cardReq[s].cards = {}

Removing(r) == cardReq[r].op = "delete"

RemovalSound(q) ==
    /\ \A c \in q.cards \cup (q.locks \cap Cards) : card[c] # Absent
    /\ q.pc = "commit" =>
          /\ q.cards \subseteq q.locks
          /\ q.deck # Null => q.deck \in q.locks /\ Study!CardsOf(q.deck) \subseteq q.locks

RemovalsSound == \A r \in Requests : Removing(r) => RemovalSound(cardReq[r])

\* What a deletion has locked, nobody else has.
LocksExclude ==
    \A r, s \in Requests : r # s /\ Removing(r) /\ cardReq[s] # Study!Idle =>
        cardReq[r].locks \cap cardReq[s].locks = {}

StudyInv ==
    /\ Study!TypeOK
    /\ CardsSound /\ WritesSound /\ AddsSound /\ RemovalsSound /\ LocksExclude

LEMMA StudyInvGives == StudyInv => CardFollowsReviews
<1> SUFFICES ASSUME StudyInv PROVE CardFollowsReviews
  OBVIOUS
<1>1. ASSUME NEW c \in Cards, card[c] \in Study!Card PROVE CardSound(c)
  BY <1>1 DEF StudyInv, CardsSound
<1> QED
  BY <1>1 DEF CardFollowsReviews, Study!CardFollowsReviews, StudyInv, CardSound, CardOK, Matured

LEMMA StudyInitially == Study!Init => StudyInv
<1> SUFFICES ASSUME Study!Init PROVE StudyInv
  OBVIOUS
<1>1. /\ \A r \in Requests : cardReq[r] = Study!Idle /\ cardReq[r].op = "idle"
      /\ \A c \in Cards : card[c] = Absent
  BY DEF Study!Init, Study!Idle
<1>2. Study!TypeOK
  BY DEF Study!Init, Study!TypeOK
<1> QED
  BY <1>1, <1>2 DEF StudyInv, CardsSound, WritesSound, AddsSound, RemovalsSound, LocksExclude,
     Writing, Adding, Removing

LEMMA StudyStutter == StudyInv /\ UNCHANGED studyVars => StudyInv'
<1> SUFFICES ASSUME StudyInv, UNCHANGED studyVars PROVE StudyInv'
  OBVIOUS
<1> USE DEF studyVars
<1>1. Study!TypeOK'
  BY DEF StudyInv, Study!TypeOK
<1>2. CardsSound'
  BY DEF StudyInv, CardsSound, CardSound
<1>3. WritesSound' /\ AddsSound'
  BY DEF StudyInv, WritesSound, WriteSound, Writing, AddsSound, AddSound, Adding
<1>4. RemovalsSound' /\ LocksExclude'
  BY DEF StudyInv, RemovalsSound, RemovalSound, Removing, LocksExclude, Study!CardsOf
<1> QED BY <1>1, <1>2, <1>3, <1>4 DEF StudyInv

\* What is known of a request by its operation.
LEMMA StudyRequestTyped ==
    ASSUME Study!TypeOK, NEW r \in Requests
    PROVE  /\ cardReq[r] \in Study!Request \cup {Study!Idle}
           /\ cardReq[r] = Study!Idle <=> cardReq[r].op = "idle"
           /\ Adding(r) => cardReq[r] \in [op : {"cards"}, pc : {"flush", "commit"}, deck : Decks,
                                          cards : SUBSET Cards, locks : SUBSET Decks]
           /\ cardReq[r].op = "review" =>
                 cardReq[r] \in [op : {"review"}, pc : {"flush", "commit"}, card : Cards, copy : Study!Card,
                                 stale : BOOLEAN, row : Study!Card, quality : Qualities, x : Nat,
                                 locks : SUBSET Cards]
           /\ cardReq[r].op = "update" =>
                 cardReq[r] \in [op : {"update"}, pc : {"flush", "commit"}, card : Cards, copy : Study!Card,
                                 stale : BOOLEAN, row : Study!Card, locks : SUBSET Cards]
           /\ Removing(r) => cardReq[r] \in [op : {"delete"}, pc : {"flush", "commit"}, deck : Decks \cup {Null},
                                            cards : SUBSET Cards, locks : SUBSET (Decks \cup Cards)]
<1>1. cardReq[r] \in Study!Request \cup {Study!Idle}
  BY DEF Study!TypeOK
<1>2. CASE cardReq[r] = Study!Idle
  <2>1. cardReq[r].op = "idle"
    BY <1>2 DEF Study!Idle
  <2> QED BY <1>1, <1>2, <2>1 DEF Adding, Removing
<1>3. CASE cardReq[r] \in Study!Request
  <2>1. cardReq[r].op # "idle"
    BY <1>3 DEF Study!Request
  <2>2. cardReq[r] # Study!Idle
    BY <2>1 DEF Study!Idle
  <2> QED BY <1>1, <1>3, <2>1, <2>2 DEF Study!Request, Adding, Removing
<1> QED BY <1>1, <1>2, <1>3

\* A step that changes no rows, only the request r, into x.
LEMMA StudyRequestStep ==
    ASSUME StudyInv, NEW r \in Requests, NEW x \in Study!Request \cup {Study!Idle},
           UNCHANGED <<deck, card, replayed, cardCrossed>>, cardReq' = [cardReq EXCEPT ![r] = x],
           x.op \in {"review", "update"} => WriteSound(x),
           x.op = "cards" => AddSound(x) /\ \A s \in Requests \ {r} : Adding(s) => x.cards \cap cardReq[s].cards = {},
           x.op = "delete" => RemovalSound(x),
           x # Study!Idle => \A s \in Requests \ {r} : cardReq[s] # Study!Idle /\ (x.op = "delete" \/ Removing(s)) =>
                                x.locks \cap cardReq[s].locks = {}
    PROVE  StudyInv'
<1> USE DEF StudyInv
<1>1. /\ cardReq'[r] = x
      /\ \A s \in Requests \ {r} : cardReq'[s] = cardReq[s]
  BY DEF Study!TypeOK
<1>2. Study!TypeOK'
  BY DEF Study!TypeOK
<1>3. CardsSound'
  BY DEF CardsSound, CardSound
<1>4. WritesSound'
  BY <1>1 DEF WritesSound, WriteSound, Writing
<1>5. AddsSound'
  <2>1. \A s \in Requests : Adding(s)' => AddSound(cardReq[s])'
    BY <1>1 DEF AddsSound, AddSound, Adding
  <2>2. \A s, t \in Requests : Adding(s)' /\ Adding(t)' /\ s # t => cardReq'[s].cards \cap cardReq'[t].cards = {}
    <3> SUFFICES ASSUME NEW s \in Requests, NEW t \in Requests, Adding(s)', Adding(t)', s # t
                 PROVE  cardReq'[s].cards \cap cardReq'[t].cards = {}
      OBVIOUS
    <3>1. CASE s = r
      BY <1>1, <3>1 DEF Adding
    <3>2. CASE t = r
      BY <1>1, <3>2 DEF Adding
    <3>3. CASE s # r /\ t # r
      BY <1>1, <3>3 DEF AddsSound, Adding
    <3> QED BY <3>1, <3>2, <3>3
  <2> QED BY <2>1, <2>2 DEF AddsSound
<1>6. RemovalsSound'
  <2>1. \A d : Study!CardsOf(d)' = Study!CardsOf(d)
    BY DEF Study!CardsOf
  <2> QED BY <1>1, <2>1 DEF RemovalsSound, RemovalSound, Removing
<1>7. LocksExclude'
  <2> SUFFICES ASSUME NEW s \in Requests, NEW t \in Requests, s # t, Removing(s)', cardReq'[t] # Study!Idle
               PROVE  cardReq'[s].locks \cap cardReq'[t].locks = {}
    BY DEF LocksExclude
  <2>1. cardReq'[s] # Study!Idle
    BY DEF Removing, Study!Idle
  <2>2. CASE s = r
    BY <1>1, <2>1, <2>2 DEF Removing
  <2>3. CASE t = r
    BY <1>1, <2>1, <2>3 DEF Removing
  <2>4. CASE s # r /\ t # r
    BY <1>1, <2>4 DEF LocksExclude, Removing
  <2> QED BY <2>2, <2>3, <2>4
<1> QED BY <1>2, <1>3, <1>4, <1>5, <1>6, <1>7

LEMMA StudyEndStep ==
    ASSUME StudyInv, NEW r \in Requests, UNCHANGED <<deck, card, replayed, cardCrossed>>, Study!RollsBack(r)
    PROVE  StudyInv'
<1>1. cardReq' = [cardReq EXCEPT ![r] = Study!Idle] /\ Study!Idle.op = "idle"
  BY DEF Study!RollsBack, Study!Idle
<1> QED BY <1>1, StudyRequestStep

LEMMA StudyStartStep ==
    ASSUME StudyInv, NEW r \in Requests,
           \/ \E d \in Decks : \/ Study!CreateDeck(r, d) \/ Study!DeleteDeck(r, d)
                               \/ \E cs \in SUBSET Cards : Study!CreateCards(r, d, cs)
           \/ \E c \in Cards : \/ Study!DeleteCard(r, c)
                               \/ \E quality \in Qualities : Study!SubmitReview(r, c, quality)
                               \/ \E suspended \in BOOLEAN : Study!UpdateCard(r, c, suspended)
    PROVE  StudyInv'
<1>1. UNCHANGED <<deck, card, replayed, cardCrossed>>
  BY DEF Study!CreateDeck, Study!DeleteDeck, Study!CreateCards, Study!DeleteCard, Study!SubmitReview, Study!UpdateCard
<1>2. card \in [Cards -> Study!Card \cup {Absent, Deleted}]
  BY DEF StudyInv, Study!TypeOK
<1>3. ASSUME NEW d \in Decks, Study!CreateDeck(r, d) PROVE StudyInv'
  <2> DEFINE x == [op |-> "deck", pc |-> "commit", deck |-> d, locks |-> {}]
  <2>1. x \in Study!Request /\ x.op = "deck" /\ x.locks = {} /\ cardReq' = [cardReq EXCEPT ![r] = x]
    BY <1>3 DEF Study!CreateDeck, Study!Starts, Study!Request
  <2> HIDE DEF x
  <2> QED BY <1>1, <2>1, StudyRequestStep
<1>4. ASSUME NEW d \in Decks, Study!DeleteDeck(r, d) PROVE StudyInv'
  <2> DEFINE x == [op |-> "delete", pc |-> "flush", deck |-> d, cards |-> Study!CardsOf(d), locks |-> {}]
  <2>1. Study!CardsOf(d) \subseteq Cards /\ \A c \in Study!CardsOf(d) : card[c] # Absent
    BY DEF Study!CardsOf
  <2>2. /\ x \in Study!Request /\ x.op = "delete" /\ x.pc = "flush" /\ x.locks = {} /\ x.cards = Study!CardsOf(d)
        /\ cardReq' = [cardReq EXCEPT ![r] = x]
    BY <1>4, <2>1 DEF Study!DeleteDeck, Study!Starts, Study!Request
  <2> HIDE DEF x
  <2>3. RemovalSound(x)
    BY <2>1, <2>2 DEF RemovalSound
  <2> QED BY <1>1, <2>2, <2>3, StudyRequestStep
<1>5. ASSUME NEW d \in Decks, NEW cs \in SUBSET Cards, Study!CreateCards(r, d, cs) PROVE StudyInv'
  <2> DEFINE x == [op |-> "cards", pc |-> "flush", deck |-> d, cards |-> cs, locks |-> {}]
  <2>1. /\ x \in Study!Request /\ x.op = "cards" /\ x.pc = "flush" /\ x.locks = {} /\ x.cards = cs
        /\ cardReq' = [cardReq EXCEPT ![r] = x]
    BY <1>5 DEF Study!CreateCards, Study!Starts, Study!Request
  <2>2. \A c \in cs : card[c] = Absent /\ \A s \in Requests : Adding(s) => c \notin cardReq[s].cards
    BY <1>5, StudyRequestTyped DEF Study!CreateCards, Study!Unused, Adding, StudyInv
  <2> HIDE DEF x
  <2>3. AddSound(x) /\ \A s \in Requests \ {r} : Adding(s) => x.cards \cap cardReq[s].cards = {}
    BY <2>1, <2>2 DEF AddSound
  <2> QED BY <1>1, <2>1, <2>3, StudyRequestStep
<1>6. ASSUME NEW c \in Cards, Study!DeleteCard(r, c) PROVE StudyInv'
  <2> DEFINE x == [op |-> "delete", pc |-> "flush", deck |-> Null, cards |-> {c}, locks |-> {}]
  <2>1. /\ x \in Study!Request /\ x.op = "delete" /\ x.pc = "flush" /\ x.locks = {} /\ x.cards = {c}
        /\ cardReq' = [cardReq EXCEPT ![r] = x] /\ card[c] # Absent
    BY <1>6 DEF Study!DeleteCard, Study!Starts, Study!Request
  <2> HIDE DEF x
  <2>2. RemovalSound(x)
    BY <2>1 DEF RemovalSound
  <2> QED BY <1>1, <2>1, <2>2, StudyRequestStep
<1>7. ASSUME NEW c \in Cards, NEW quality \in Qualities, Study!SubmitReview(r, c, quality) PROVE StudyInv'
  <2>1. PICK n \in Study!Rounded(card[c].interval_days * card[c].ease_factor) :
          Study!Starts(r, [op |-> "review", pc |-> "flush", card |-> c, copy |-> card[c], stale |-> FALSE,
                           row |-> Study!Reviewed(card[c], quality, n), quality |-> quality, x |-> n,
                           locks |-> {}])
    BY <1>7 DEF Study!SubmitReview
  <2> DEFINE y == Study!Reviewed(card[c], quality, n)
             x == [op |-> "review", pc |-> "flush", card |-> c, copy |-> card[c], stale |-> FALSE,
                   row |-> y, quality |-> quality, x |-> n, locks |-> {}]
  <2>2. card[c] \in Study!Card /\ CardOK(card[c])
    BY <1>7 DEF Study!SubmitReview, StudyInv, CardsSound, CardSound
  <2>3. n \in Nat
    <3>1. card[c].interval_days * card[c].ease_factor \in Nat
      BY <2>2 DEF Study!Card
    <3>2. \A m \in Nat : Study!Rounded(m) \subseteq Nat
      BY DEF Study!Rounded
    <3> QED BY <3>1, <3>2
  <2>4. y \in Study!Card
    BY <2>2, <2>3, ReviewedIs
  <2>5. cardReq' = [cardReq EXCEPT ![r] = x]
    BY <2>1 DEF Study!Starts
  <2> HIDE DEF y
  <2>6. /\ x \in Study!Request /\ x.op = "review" /\ x.pc = "flush" /\ x.card = c /\ x.copy = card[c] /\ x.stale = FALSE
        /\ x.row = y /\ x.quality = quality /\ x.x = n /\ x.locks = {}
    BY <2>2, <2>3, <2>4 DEF Study!Request
  <2> HIDE DEF x
  <2>7. WriteSound(x)
    BY <2>1, <2>2, <2>6 DEF WriteSound, y
  <2> QED BY <1>1, <2>5, <2>6, <2>7, StudyRequestStep
<1>8. ASSUME NEW c \in Cards, NEW suspended \in BOOLEAN, Study!UpdateCard(r, c, suspended) PROVE StudyInv'
  <2> DEFINE y == [card[c] EXCEPT !.is_suspended = suspended]
             x == [op |-> "update", pc |-> "flush", card |-> c, copy |-> card[c], stale |-> FALSE,
                   row |-> y, locks |-> {}]
  <2>1. card[c] \in Study!Card /\ CardOK(card[c])
    BY <1>8 DEF Study!UpdateCard, StudyInv, CardsSound, CardSound
  <2>2. y \in Study!Card /\ y = [card[c] EXCEPT !.is_suspended = y.is_suspended]
    BY <2>1 DEF Study!Card
  <2>3. cardReq' = [cardReq EXCEPT ![r] = x]
    BY <1>8 DEF Study!UpdateCard, Study!Starts
  <2> HIDE DEF y
  <2>4. /\ x \in Study!Request /\ x.op = "update" /\ x.pc = "flush" /\ x.card = c /\ x.copy = card[c] /\ x.stale = FALSE
        /\ x.row = y /\ x.locks = {}
    BY <2>1, <2>2 DEF Study!Request
  <2> HIDE DEF x
  <2>5. WriteSound(x)
    BY <2>1, <2>2, <2>4 DEF WriteSound
  <2> QED BY <1>1, <2>3, <2>4, <2>5, StudyRequestStep
<1> QED BY <1>3, <1>4, <1>5, <1>6, <1>7, <1>8

LEMMA StudyStatementStep ==
    ASSUME StudyInv, NEW r \in Requests, Study!InsertCards(r) \/ Study!UpdateRow(r) \/ Study!DeleteRows(r)
    PROVE  StudyInv'
<1> DEFINE q == cardReq[r]
<1>1. UNCHANGED <<deck, card, replayed, cardCrossed>> /\ q # Study!Idle
  BY DEF Study!InsertCards, Study!UpdateRow, Study!DeleteRows
<1>2. cardReq \in [Requests -> Study!Request \cup {Study!Idle}]
  BY DEF StudyInv, Study!TypeOK
<1>3. CASE Study!InsertCards(r)
  <2>1. /\ Adding(r) /\ AddSound(q)
        /\ q \in [op : {"cards"}, pc : {"flush", "commit"}, deck : Decks, cards : SUBSET Cards, locks : SUBSET Decks]
    BY <1>3, StudyRequestTyped DEF Study!InsertCards, Adding, StudyInv, AddsSound
  <2>2. CASE deck[q.deck] = "there"
    <3> DEFINE x == [q EXCEPT !.locks = q.locks \cup {q.deck}, !.pc = "commit"]
    <3>1. cardReq' = [cardReq EXCEPT ![r] = x]
      BY <1>2, <1>3, <2>2 DEF Study!InsertCards, Study!Locks
    <3>2. /\ x.op = "cards" /\ x.pc = "commit" /\ x.deck = q.deck /\ x.cards = q.cards /\ x.locks = q.locks \cup {q.deck}
          /\ x \in [op : {"cards"}, pc : {"flush", "commit"}, deck : Decks, cards : SUBSET Cards, locks : SUBSET Decks]
      BY <2>1
    <3>3. x \in Study!Request
      BY <3>2 DEF Study!Request
    <3> HIDE DEF x
    <3>4. AddSound(x) /\ \A s \in Requests \ {r} : Adding(s) => x.cards \cap cardReq[s].cards = {}
      BY <2>1, <2>2, <3>2 DEF AddSound, StudyInv, AddsSound
    <3>5. ASSUME NEW s \in Requests \ {r}, cardReq[s] # Study!Idle, Removing(s)
          PROVE  x.locks \cap cardReq[s].locks = {}
      <4>1. q.deck \notin cardReq[s].locks
        BY <1>3, <3>5 DEF Study!InsertCards, Removing
      <4>2. q.locks \cap cardReq[s].locks = {}
        BY <1>1, <3>5 DEF StudyInv, LocksExclude
      <4> QED BY <3>2, <4>1, <4>2
    <3> QED BY <1>1, <3>1, <3>2, <3>3, <3>4, <3>5, StudyRequestStep
  <2>3. CASE deck[q.deck] # "there"
    BY <1>1, <1>3, <2>3, StudyEndStep DEF Study!InsertCards
  <2> QED BY <2>2, <2>3
<1>4. CASE Study!UpdateRow(r)
  <2>1. q.op \in {"review", "update"} /\ WriteSound(q) /\ q.pc = "flush" /\ Study!Free(r, {q.card})
    BY <1>4 DEF Study!UpdateRow, Writing, StudyInv, WritesSound
  <2>2. CASE card[q.card] \in Study!Card
    <3> DEFINE x == [q EXCEPT !.locks = q.locks \cup {q.card}, !.pc = "commit"]
    <3>1. cardReq' = [cardReq EXCEPT ![r] = x]
      BY <1>2, <1>4, <2>2 DEF Study!UpdateRow, Study!Locks
    <3>2. /\ x.op = q.op /\ x.pc = "commit" /\ x.card = q.card /\ x.copy = q.copy /\ x.row = q.row
          /\ x.stale = q.stale /\ x.locks = q.locks \cup {q.card} /\ x \in Study!Request
          /\ q.op = "review" => x.quality = q.quality /\ x.x = q.x
      <4>1. CASE q.op = "review"
        <5>1. q \in [op : {"review"}, pc : {"flush", "commit"}, card : Cards, copy : Study!Card,
                     stale : BOOLEAN, row : Study!Card, quality : Qualities, x : Nat, locks : SUBSET Cards]
          BY <4>1, StudyRequestTyped DEF StudyInv
        <5>2. x \in [op : {"review"}, pc : {"flush", "commit"}, card : Cards, copy : Study!Card,
                     stale : BOOLEAN, row : Study!Card, quality : Qualities, x : Nat, locks : SUBSET Cards]
          BY <5>1
        <5> QED BY <5>1, <5>2 DEF Study!Request
      <4>2. CASE q.op = "update"
        <5>1. q \in [op : {"update"}, pc : {"flush", "commit"}, card : Cards, copy : Study!Card,
                     stale : BOOLEAN, row : Study!Card, locks : SUBSET Cards]
          BY <4>2, StudyRequestTyped DEF StudyInv
        <5>2. x \in [op : {"update"}, pc : {"flush", "commit"}, card : Cards, copy : Study!Card,
                     stale : BOOLEAN, row : Study!Card, locks : SUBSET Cards]
          BY <5>1
        <5> QED BY <4>2, <5>1, <5>2 DEF Study!Request
      <4> QED BY <2>1, <4>1, <4>2
    <3> HIDE DEF x
    <3>3. WriteSound(x)
      BY <2>1, <2>2, <3>2 DEF WriteSound
    <3>4. ASSUME NEW s \in Requests \ {r}, cardReq[s] # Study!Idle, Removing(s)
          PROVE  x.locks \cap cardReq[s].locks = {}
      <4>1. q.card \notin cardReq[s].locks
        BY <2>1, <3>4 DEF Study!Free
      <4>2. q.locks \cap cardReq[s].locks = {}
        BY <1>1, <3>4 DEF StudyInv, LocksExclude
      <4> QED BY <3>2, <4>1, <4>2
    <3>5. x.op \notin {"cards", "delete"}
      BY <2>1, <3>2
    <3> QED BY <1>1, <3>1, <3>2, <3>3, <3>4, <3>5, StudyRequestStep
  <2>3. CASE card[q.card] \notin Study!Card
    BY <1>1, <1>4, <2>3, StudyEndStep DEF Study!UpdateRow
  <2> QED BY <2>2, <2>3
<1>5. CASE Study!DeleteRows(r)
  <2>1. /\ Removing(r) /\ RemovalSound(q) /\ q.pc = "flush"
        /\ q \in [op : {"delete"}, pc : {"flush", "commit"}, deck : Decks \cup {Null}, cards : SUBSET Cards,
                  locks : SUBSET (Decks \cup Cards)]
    BY <1>5, StudyRequestTyped DEF Study!DeleteRows, Removing, StudyInv, RemovalsSound
  <2>2. Study!ToLock(r) = IF q.cards \ q.locks # {} THEN q.cards \ q.locks
                          ELSE IF q.deck = Null THEN {}
                          ELSE IF q.deck \notin q.locks THEN {q.deck} ELSE Study!CardsOf(q.deck) \ q.locks
    BY DEF Study!ToLock
  <2>3. CASE Study!ToLock(r) = {}
    <3> DEFINE x == [q EXCEPT !.locks = q.locks \cup {}, !.pc = "commit"]
    <3>1. cardReq' = [cardReq EXCEPT ![r] = x]
      BY <1>2, <1>5, <2>3 DEF Study!DeleteRows, Study!Locks
    <3>2. /\ x.op = "delete" /\ x.pc = "commit" /\ x.deck = q.deck /\ x.cards = q.cards /\ x.locks = q.locks
          /\ x \in [op : {"delete"}, pc : {"flush", "commit"}, deck : Decks \cup {Null}, cards : SUBSET Cards,
                    locks : SUBSET (Decks \cup Cards)]
      BY <2>1
    <3>3. x \in Study!Request
      BY <3>2 DEF Study!Request
    <3> HIDE DEF x
    <3>4. RemovalSound(x)
      BY <2>1, <2>2, <2>3, <3>2 DEF RemovalSound
    <3>5. \A s \in Requests \ {r} : cardReq[s] # Study!Idle => x.locks \cap cardReq[s].locks = {}
      BY <2>1, <3>2 DEF StudyInv, LocksExclude
    <3> QED BY <1>1, <3>1, <3>2, <3>3, <3>4, <3>5, StudyRequestStep
  <2>4. CASE Study!ToLock(r) # {}
    <3>1. PICK entry \in Study!ToLock(r) : Study!Free(r, {entry}) /\ Study!Locks(r, {entry}, "flush")
      BY <1>5, <2>4 DEF Study!DeleteRows
    <3> DEFINE x == [q EXCEPT !.locks = q.locks \cup {entry}, !.pc = "flush"]
    <3>2. cardReq' = [cardReq EXCEPT ![r] = x]
      BY <1>2, <3>1 DEF Study!Locks
    <3>3. entry \in Decks \cup Cards /\ (entry \in Cards => card[entry] # Absent)
      BY <2>1, <2>2, <3>1 DEF RemovalSound, Study!CardsOf
    <3>4. /\ x.op = "delete" /\ x.pc = "flush" /\ x.deck = q.deck /\ x.cards = q.cards /\ x.locks = q.locks \cup {entry}
          /\ x \in [op : {"delete"}, pc : {"flush", "commit"}, deck : Decks \cup {Null}, cards : SUBSET Cards,
                    locks : SUBSET (Decks \cup Cards)]
      BY <2>1, <3>3
    <3>5. x \in Study!Request
      BY <3>4 DEF Study!Request
    <3> HIDE DEF x
    <3>6. RemovalSound(x)
      BY <2>1, <3>3, <3>4 DEF RemovalSound
    <3>7. \A s \in Requests \ {r} : cardReq[s] # Study!Idle => x.locks \cap cardReq[s].locks = {}
      BY <2>1, <3>1, <3>4 DEF StudyInv, LocksExclude, Study!Free
    <3> QED BY <1>1, <3>2, <3>4, <3>5, <3>6, <3>7, StudyRequestStep
  <2> QED BY <2>3, <2>4
<1> QED BY <1>3, <1>4, <1>5

\* The commit of a review or an update, and what it makes of the card.
LEMMA StudyWriteIs ==
    ASSUME StudyInv, NEW r \in Requests, Study!CommitUpdate(r)
    PROVE  LET t == cardReq[r]
               c == t.card
               w == Study!Written(t)
               v == Study!Replay(t, replayed[c])
               new == <<c, t.op>> \in cardCrossed'
           IN  /\ c \in Cards /\ card[c] \in Study!Card /\ CardSound(c) /\ c \in t.locks
               /\ t.op \in {"review", "update"}
               /\ w \in Study!Card /\ v \in Study!Card /\ CardOK(w) /\ w.deck = card[c].deck
               /\ t.op = "review" =>
                     /\ w.is_suspended = card[c].is_suspended /\ v.is_suspended = replayed[c].is_suspended
                     /\ ~t.stale /\ <<c, "review">> \notin cardCrossed =>
                           Study!Schedule(w) = Study!Schedule(v) /\ Matured(w)
               /\ t.op = "update" =>
                     /\ Study!Schedule(w) = Study!Schedule(card[c]) /\ Study!Schedule(v) = Study!Schedule(replayed[c])
                     /\ ~t.stale => w.is_suspended = v.is_suspended
<1> DEFINE t == cardReq[r]
           c == t.card
           w == Study!Written(t)
           v == Study!Replay(t, replayed[c])
<1>1. t.op \in {"review", "update"} /\ t.pc = "commit" /\ WriteSound(t)
  BY DEF Study!CommitUpdate, StudyInv, WritesSound, Writing
<1>2. t.card \in Cards /\ t.copy \in Study!Card /\ (t.op = "review" => t.quality \in Qualities /\ t.x \in Nat)
      /\ (t.op = "update" => t.row \in Study!Card)
  BY <1>1, StudyRequestTyped DEF StudyInv
<1>3. c \in Cards /\ card[c] \in Study!Card /\ CardSound(c) /\ c \in t.locks
  BY <1>1, <1>2 DEF WriteSound, StudyInv, CardsSound
<1>4. /\ CardOK(card[c]) /\ replayed[c] \in Study!Card
      /\ <<c, "review">> \notin cardCrossed => Study!Schedule(card[c]) = Study!Schedule(replayed[c]) /\ Matured(card[c])
  BY <1>3 DEF CardSound
<1>5. CASE t.op = "review"
  <2> DEFINE y == Study!Reviewed(t.copy, t.quality, t.x)
  <2>1. /\ t.row = y /\ t.x \in Study!Rounded(t.copy.interval_days * t.copy.ease_factor) /\ CardOK(t.copy)
        /\ ~t.stale => Study!Schedule(t.copy) = Study!Schedule(card[c])
    BY <1>1, <1>3, <1>5 DEF WriteSound
  <2>2. w = WithDue(Study!Merged(card[c], t.copy, y), y)
    BY <1>5, <2>1 DEF Study!Written, WithDue
  <2>4. v = Study!Reviewed(replayed[c], t.quality, t.x)
    BY <1>5 DEF Study!Replay
  <2>10. t.quality \in Qualities /\ t.x \in Nat
    BY <1>2, <1>5
  <2> HIDE DEF w, v
  <2>3. /\ w \in Study!Card /\ CardOK(w) /\ w.deck = card[c].deck /\ w.is_suspended = card[c].is_suspended
        /\ ~t.stale => Study!Schedule(w) = Study!Schedule(y)
    <3>1. CardOK(card[c]) /\ CardOK(t.copy) /\ card[c] \in Study!Card /\ t.copy \in Study!Card
      BY <1>2, <1>3, <1>4, <2>1
    <3>2. /\ w \in Study!Card /\ CardOK(w) /\ w.deck = card[c].deck /\ w.is_suspended = card[c].is_suspended
          /\ Study!Schedule(t.copy) = Study!Schedule(card[c]) => Study!Schedule(w) = Study!Schedule(y)
      <4>1. y \in Study!Card /\ CardOK(y) /\ y.deck = t.copy.deck /\ y.is_suspended = t.copy.is_suspended
        BY <2>10, <3>1, ReviewedKeeps
      <4> HIDE DEF y
      <4> QED BY <2>2, <3>1, <4>1, WrittenByReview
    <3> QED BY <2>1, <3>2
  <2>5. v \in Study!Card /\ v.is_suspended = replayed[c].is_suspended
    BY <1>4, <2>4, <2>10, ReviewedKeeps
  <2>6. ASSUME ~t.stale, <<c, "review">> \notin cardCrossed
        PROVE  Study!Schedule(w) = Study!Schedule(v) /\ Matured(w)
    <3>1. Study!Schedule(t.copy) = Study!Schedule(replayed[c]) /\ Study!Schedule(t.copy) = Study!Schedule(card[c])
      BY <1>4, <2>1, <2>6
    <3>2. Study!Schedule(y) = Study!Schedule(v)
      BY <1>2, <1>4, <2>4, <2>10, <3>1, ReviewsSchedule
    <3>3. Matured(t.copy)
      BY <1>2, <1>3, <1>4, <2>6, <3>1, SameSchedule DEF Matured
    <3>4. Matured(y) /\ y \in Study!Card
      BY <1>2, <2>1, <2>10, <3>3, ReviewsMature, ReviewedIs
    <3> HIDE DEF y
    <3>5. Matured(w)
      BY <2>3, <2>6, <3>4, SameSchedule DEF Matured
    <3> QED BY <2>3, <2>6, <3>2, <3>5
  <2> QED BY <1>1, <1>3, <1>5, <2>3, <2>5, <2>6 DEF w, v
<1>6. CASE t.op = "update"
  <2> DEFINE b == t.row.is_suspended
  <2>1. /\ t.row = [t.copy EXCEPT !.is_suspended = b] /\ b \in BOOLEAN
        /\ ~t.stale => t.copy.is_suspended = card[c].is_suspended
    BY <1>1, <1>2, <1>3, <1>6 DEF WriteSound, Study!Card
  <2>2. w = Study!Merged(card[c], t.copy, [t.copy EXCEPT !.is_suspended = b])
    BY <1>6, <2>1 DEF Study!Written
  <2>3. /\ w \in Study!Card /\ Study!Schedule(w) = Study!Schedule(card[c]) /\ w.deck = card[c].deck
        /\ ~t.stale => w.is_suspended = b
    BY <1>2, <1>3, <2>1, <2>2, WrittenByUpdate
  <2>4. v = [replayed[c] EXCEPT !.is_suspended = b]
    BY <1>6 DEF Study!Replay
  <2> HIDE DEF b, w, v
  <2>5. v \in Study!Card /\ v.is_suspended = b /\ Study!Schedule(v) = Study!Schedule(replayed[c])
    BY <1>4, <2>1, <2>4 DEF Study!Card, Study!Schedule
  <2>6. CardOK(w)
    BY <1>3, <1>4, <2>3, SameSchedule DEF CardOK
  <2> QED BY <1>1, <1>3, <1>6, <2>3, <2>5, <2>6 DEF w, v
<1> QED BY <1>1, <1>5, <1>6

LEMMA StudyWriteStep ==
    ASSUME StudyInv, NEW r \in Requests, Study!CommitUpdate(r)
    PROVE  StudyInv'
<1> DEFINE t == cardReq[r]
           c == t.card
           w == Study!Written(t)
           v == Study!Replay(t, replayed[c])
<1>1. /\ c \in Cards /\ card[c] \in Study!Card /\ CardSound(c) /\ c \in t.locks
      /\ t.op \in {"review", "update"}
      /\ w \in Study!Card /\ v \in Study!Card /\ CardOK(w) /\ w.deck = card[c].deck
      /\ t.op = "review" =>
            /\ w.is_suspended = card[c].is_suspended /\ v.is_suspended = replayed[c].is_suspended
            /\ ~t.stale /\ <<c, "review">> \notin cardCrossed =>
                  Study!Schedule(w) = Study!Schedule(v) /\ Matured(w)
      /\ t.op = "update" =>
            /\ Study!Schedule(w) = Study!Schedule(card[c]) /\ Study!Schedule(v) = Study!Schedule(replayed[c])
            /\ ~t.stale => w.is_suspended = v.is_suspended
  BY StudyWriteIs
<1>2. /\ card' = [card EXCEPT ![c] = w] /\ replayed' = [replayed EXCEPT ![c] = v] /\ deck' = deck
      /\ cardCrossed' = IF t.stale THEN cardCrossed \cup {<<c, t.op>>} ELSE cardCrossed
      /\ cardReq' = Study!Stale(r, c)
  BY DEF Study!CommitUpdate
<1>3. /\ card \in [Cards -> Study!Card \cup {Absent, Deleted}] /\ replayed \in [Cards -> Study!Card \cup {Absent, Deleted}]
      /\ cardReq \in [Requests -> Study!Request \cup {Study!Idle}]
      /\ deck \in [Decks -> {Absent, "there", Deleted}] /\ cardCrossed \in SUBSET (Cards \X {"review", "update"})
  BY DEF StudyInv, Study!TypeOK
<1> HIDE DEF w, v
<1>4. /\ card'[c] = w /\ replayed'[c] = v
      /\ \A d \in Cards \ {c} : card'[d] = card[d] /\ replayed'[d] = replayed[d]
  BY <1>1, <1>2, <1>3
<1>5. /\ cardReq'[r] = Study!Idle /\ ~Writing(r)' /\ ~Adding(r)' /\ ~Removing(r)'
      /\ \A s \in Requests \ {r} :
            cardReq'[s] = IF cardReq[s] # Study!Idle /\ cardReq[s].op = t.op /\ cardReq[s].card = c
                          THEN [cardReq[s] EXCEPT !.stale = TRUE] ELSE cardReq[s]
  BY <1>2 DEF Study!Stale, Writing, Adding, Removing, Study!Idle
<1>6. ASSUME NEW s \in Requests \ {r}
      PROVE  /\ cardReq'[s] \in Study!Request \cup {Study!Idle}
             /\ cardReq'[s] = cardReq[s]
                \/ /\ cardReq[s].op = t.op /\ cardReq[s].card = c /\ cardReq'[s].stale
                   /\ cardReq'[s].op = t.op /\ cardReq'[s].card = c /\ cardReq'[s].pc = cardReq[s].pc
                   /\ cardReq'[s].locks = cardReq[s].locks /\ cardReq'[s].copy = cardReq[s].copy
                   /\ cardReq'[s].row = cardReq[s].row
                   /\ t.op = "review" => cardReq'[s].quality = cardReq[s].quality /\ cardReq'[s].x = cardReq[s].x
  <2>1. CASE cardReq'[s] = cardReq[s]
    BY <1>3, <2>1
  <2>2. CASE cardReq'[s] # cardReq[s]
    <3>1. cardReq'[s] = [cardReq[s] EXCEPT !.stale = TRUE] /\ cardReq[s].op = t.op /\ cardReq[s].card = c
      BY <1>5, <2>2
    <3>2. CASE t.op = "review"
      <4>1. cardReq[s] \in [op : {"review"}, pc : {"flush", "commit"}, card : Cards, copy : Study!Card,
                 stale : BOOLEAN, row : Study!Card, quality : Qualities, x : Nat, locks : SUBSET Cards]
        BY <3>1, <3>2, StudyRequestTyped DEF StudyInv
      <4>2. cardReq'[s] \in [op : {"review"}, pc : {"flush", "commit"}, card : Cards, copy : Study!Card,
                 stale : BOOLEAN, row : Study!Card, quality : Qualities, x : Nat, locks : SUBSET Cards]
        BY <3>1, <4>1
      <4> QED BY <3>1, <4>1, <4>2 DEF Study!Request
    <3>3. CASE t.op = "update"
      <4>1. cardReq[s] \in [op : {"update"}, pc : {"flush", "commit"}, card : Cards, copy : Study!Card,
                 stale : BOOLEAN, row : Study!Card, locks : SUBSET Cards]
        BY <3>1, <3>3, StudyRequestTyped DEF StudyInv
      <4>2. cardReq'[s] \in [op : {"update"}, pc : {"flush", "commit"}, card : Cards, copy : Study!Card,
                 stale : BOOLEAN, row : Study!Card, locks : SUBSET Cards]
        BY <3>1, <4>1
      <4> QED BY <3>1, <3>3, <4>1, <4>2 DEF Study!Request
    <3> QED BY <1>1, <3>2, <3>3
  <2> QED BY <2>1, <2>2
<1>7. Study!TypeOK'
  <2>1. card' \in [Cards -> Study!Card \cup {Absent, Deleted}] /\ replayed' \in [Cards -> Study!Card \cup {Absent, Deleted}]
    BY <1>1, <1>2, <1>3
  <2>2. cardReq' \in [Requests -> Study!Request \cup {Study!Idle}]
    <3>1. cardReq' = [q \in Requests |-> cardReq'[q]]
      BY <1>2 DEF Study!Stale
    <3>2. \A q \in Requests : cardReq'[q] \in Study!Request \cup {Study!Idle}
      BY <1>5, <1>6
    <3> QED BY <3>1, <3>2
  <2>3. cardCrossed' \in SUBSET (Cards \X {"review", "update"})
    BY <1>1, <1>2, <1>3
  <2> QED BY <1>2, <1>3, <2>1, <2>2, <2>3 DEF Study!TypeOK
<1>8. CardsSound'
  <2>1. ASSUME NEW d \in Cards \ {c}, card'[d] \in Study!Card PROVE CardSound(d)'
    <3>1. CardSound(d) /\ cardCrossed \subseteq cardCrossed'
      BY <1>2, <1>4, <2>1 DEF StudyInv, CardsSound
    <3> QED BY <1>2, <1>4, <3>1 DEF CardSound
  <2>2. PICK k \in Cards : k = c
    BY <1>1
  <2>3. CardSound(k)'
    <3>1. /\ <<c, t.op>> \notin cardCrossed' => ~t.stale /\ <<c, t.op>> \notin cardCrossed
          /\ cardCrossed \subseteq cardCrossed'
      BY <1>2
    <3>2. deck'[w.deck] = "there"
      BY <1>1, <1>2 DEF CardSound
    <3>3. CASE t.op = "review"
      <4>1. <<c, "update">> \notin cardCrossed' => w.is_suspended = v.is_suspended
        BY <1>1, <3>1, <3>3 DEF CardSound
      <4> QED BY <1>1, <1>4, <2>2, <3>1, <3>2, <3>3, <4>1 DEF CardSound
    <3>4. CASE t.op = "update"
      <4>1. <<c, "review">> \notin cardCrossed' => Study!Schedule(w) = Study!Schedule(v) /\ Matured(w)
        <5>1. ASSUME <<c, "review">> \notin cardCrossed'
              PROVE  Study!Schedule(card[c]) = Study!Schedule(replayed[c]) /\ Matured(card[c])
          BY <1>1, <3>1, <5>1 DEF CardSound
        <5>2. w.repetitions = card[c].repetitions /\ w.interval_days = card[c].interval_days
          BY <1>1, <3>4, SameSchedule
        <5> QED BY <1>1, <3>4, <5>1, <5>2 DEF Matured
      <4>2. <<c, "update">> \notin cardCrossed' => w.is_suspended = v.is_suspended
        BY <1>1, <3>1, <3>4
      <4> QED BY <1>1, <1>4, <2>2, <3>2, <4>1, <4>2 DEF CardSound
    <3> QED BY <1>1, <3>3, <3>4
  <2> QED BY <2>1, <2>2, <2>3 DEF CardsSound
<1>9. \A d \in Cards : (card'[d] = Absent <=> card[d] = Absent) /\ (card'[d] \in Study!Card <=> card[d] \in Study!Card)
  BY <1>1, <1>4
<1>10. WritesSound'
  <2> SUFFICES ASSUME NEW s \in Requests, Writing(s)' PROVE WriteSound(cardReq[s])'
    BY DEF WritesSound
  <2>1. s \in Requests \ {r}
    BY <1>5
  <2>2. Writing(s) /\ WriteSound(cardReq[s]) /\ cardReq[s].card \in Cards
    BY <1>6, <2>1, StudyRequestTyped DEF Writing, StudyInv, WritesSound
  <2>3. CASE cardReq'[s] = cardReq[s]
    <3>1. ~cardReq[s].stale /\ card'[cardReq[s].card] \in Study!Card =>
             IF cardReq[s].op = "review" THEN Study!Schedule(cardReq[s].copy) = Study!Schedule(card'[cardReq[s].card])
             ELSE cardReq[s].copy.is_suspended = card'[cardReq[s].card].is_suspended
      <4>1. CASE cardReq[s].card # c
        BY <1>4, <2>2, <4>1 DEF WriteSound
      <4>2. CASE cardReq[s].card = c
        <5>1. cardReq[s].op # t.op \/ cardReq[s].stale
          <6>1. cardReq[s] # Study!Idle
            BY <2>2 DEF Writing, Study!Idle
          <6>2. ASSUME cardReq[s].op = t.op PROVE cardReq[s].stale
            <7>1. cardReq[s] = [cardReq[s] EXCEPT !.stale = TRUE]
              BY <1>5, <2>1, <2>3, <4>2, <6>1, <6>2
            <7>2. cardReq[s] \in Study!Request /\ cardReq[s].op \in {"review", "update"}
              BY <1>1, <1>3, <6>1, <6>2
            <7>3. [cardReq[s] EXCEPT !.stale = TRUE].stale
              BY <7>2 DEF Study!Request
            <7> QED BY <7>1, <7>3
          <6> QED BY <6>2
        <5> QED BY <1>1, <1>4, <2>2, <4>2, <5>1 DEF WriteSound, Writing
      <4> QED BY <4>1, <4>2
    <3> QED BY <1>9, <2>2, <2>3, <3>1 DEF WriteSound
  <2>4. CASE cardReq'[s] # cardReq[s]
    BY <1>1, <1>6, <1>9, <2>1, <2>2, <2>4 DEF WriteSound
  <2> QED BY <2>3, <2>4
<1>11. ASSUME NEW s \in Requests, Adding(s)' \/ Removing(s)' PROVE s # r /\ cardReq'[s] = cardReq[s]
  BY <1>1, <1>5, <1>6, <1>11 DEF Adding, Removing
<1>12. AddsSound'
  <2>1. \A s \in Requests : Adding(s)' => AddSound(cardReq[s])'
    <3> SUFFICES ASSUME NEW s \in Requests, Adding(s)' PROVE AddSound(cardReq[s])'
      OBVIOUS
    <3>1. cardReq'[s] = cardReq[s] /\ Adding(s) /\ cardReq[s].cards \subseteq Cards
      BY <1>11, StudyRequestTyped DEF Adding, StudyInv
    <3> QED BY <1>2, <1>9, <3>1 DEF StudyInv, AddsSound, AddSound
  <2>2. \A s, q \in Requests : Adding(s)' /\ Adding(q)' /\ s # q => cardReq'[s].cards \cap cardReq'[q].cards = {}
    BY <1>11 DEF StudyInv, AddsSound, Adding
  <2> QED BY <2>1, <2>2 DEF AddsSound
<1>13. RemovalsSound'
  <2>1. \A d : Study!CardsOf(d)' = Study!CardsOf(d)
    <3>1. \A d \in Cards : card[d] \in Study!Card => card'[d].deck = card[d].deck
      BY <1>1, <1>4
    <3> QED BY <1>9, <3>1 DEF Study!CardsOf
  <2> SUFFICES ASSUME NEW s \in Requests, Removing(s)' PROVE RemovalSound(cardReq[s])'
    BY DEF RemovalsSound
  <2>2. cardReq'[s] = cardReq[s] /\ Removing(s) /\ cardReq[s].cards \subseteq Cards
    BY <1>11, StudyRequestTyped DEF Removing, StudyInv
  <2> QED BY <1>9, <2>1, <2>2 DEF StudyInv, RemovalsSound, RemovalSound
<1>14. LocksExclude'
  <2> SUFFICES ASSUME NEW s \in Requests, NEW q \in Requests, s # q, Removing(s)', cardReq'[q] # Study!Idle
               PROVE  cardReq'[s].locks \cap cardReq'[q].locks = {}
    BY DEF LocksExclude
  <2>1. q # r /\ cardReq'[s] = cardReq[s] /\ Removing(s)
    BY <1>5, <1>11 DEF Removing
  <2>2. cardReq[q] # Study!Idle /\ cardReq'[q].locks = cardReq[q].locks
    BY <1>1, <1>6, <2>1 DEF Study!Idle
  <2> QED BY <2>1, <2>2 DEF StudyInv, LocksExclude
<1> QED BY <1>7, <1>8, <1>10, <1>12, <1>13, <1>14 DEF StudyInv

LEMMA StudyCreationStep ==
    ASSUME StudyInv, NEW r \in Requests, Study!CommitCreation(r)
    PROVE  StudyInv'
<1> DEFINE t == cardReq[r]
           new == IF t.op = "cards" THEN t.cards ELSE {}
<1>1. /\ card \in [Cards -> Study!Card \cup {Absent, Deleted}] /\ replayed \in [Cards -> Study!Card \cup {Absent, Deleted}]
      /\ cardReq \in [Requests -> Study!Request \cup {Study!Idle}]
      /\ deck \in [Decks -> {Absent, "there", Deleted}] /\ cardCrossed \in SUBSET (Cards \X {"review", "update"})
  BY DEF StudyInv, Study!TypeOK
<1>2. /\ cardReq' = [cardReq EXCEPT ![r] = Study!Idle] /\ cardCrossed' = cardCrossed
      /\ deck' = (IF t.op = "deck" THEN [deck EXCEPT ![t.deck] = "there"] ELSE deck)
      /\ card' = [c \in Cards |-> IF c \in new THEN Study!NewCard(t.deck) ELSE card[c]]
      /\ replayed' = [c \in Cards |-> IF card'[c] = card[c] THEN replayed[c] ELSE card'[c]]
      /\ t.op \in {"deck", "cards"} /\ t.pc = "commit"
  BY DEF Study!CommitCreation
<1>3. /\ \A c \in new : c \in Cards /\ card[c] = Absent
      /\ t.op = "cards" => t.deck \in Decks /\ deck[t.deck] = "there" /\ t.deck \in t.locks
      /\ \A s \in Requests \ {r} : Adding(s) => new \cap cardReq[s].cards = {}
  <2>1. CASE t.op = "cards"
    BY <1>2, <2>1, StudyRequestTyped DEF StudyInv, AddsSound, AddSound, Adding
  <2>2. CASE t.op = "deck"
    BY <2>2
  <2> QED BY <1>2, <2>1, <2>2
<1> DEFINE n == Study!NewCard(t.deck)
<1>4. t.op = "cards" => /\ n \in Study!Card /\ CardOK(n) /\ Matured(n) /\ n.deck = t.deck
  BY <1>3 DEF Study!NewCard, Study!Card, CardOK, Matured
<1>5. /\ t.op = "deck" => new = {}
      /\ \A c \in Cards : IF c \in new THEN card'[c] = n /\ replayed'[c] = n /\ card'[c] \in Study!Card
                          ELSE card'[c] = card[c] /\ replayed'[c] = replayed[c]
  <2>1. ASSUME NEW c \in Cards, c \in new PROVE card'[c] = n /\ replayed'[c] = n /\ n \in Study!Card
    <3>1. t.op = "cards" /\ card[c] = Absent /\ n \in Study!Card
      BY <1>3, <1>4, <2>1
    <3> HIDE DEF n, new
    <3>2. card'[c] = n
      BY <1>2, <2>1 DEF n
    <3>3. card'[c] # card[c]
      BY <3>1, <3>2
    <3> QED BY <1>2, <3>1, <3>2, <3>3
  <2>2. ASSUME NEW c \in Cards, c \notin new PROVE card'[c] = card[c] /\ replayed'[c] = replayed[c]
    <3> HIDE DEF new
    <3> QED BY <1>2, <2>2
  <2> QED BY <2>1, <2>2
<1> HIDE DEF new, n
<1>6. \A d \in Decks : deck[d] = "there" => deck'[d] = "there"
  BY <1>1, <1>2
<1>7. /\ cardReq'[r] = Study!Idle /\ ~Writing(r)' /\ ~Adding(r)' /\ ~Removing(r)'
      /\ \A s \in Requests \ {r} : cardReq'[s] = cardReq[s]
  BY <1>1, <1>2 DEF Writing, Adding, Removing, Study!Idle
<1>8. Study!TypeOK'
  <2>1. card' \in [Cards -> Study!Card \cup {Absent, Deleted}] /\ replayed' \in [Cards -> Study!Card \cup {Absent, Deleted}]
    <3>1. \A c \in Cards : card'[c] \in Study!Card \cup {Absent, Deleted} /\ replayed'[c] \in Study!Card \cup {Absent, Deleted}
      BY <1>1, <1>5
    <3> QED BY <1>2, <3>1
  <2>2. cardReq' \in [Requests -> Study!Request \cup {Study!Idle}] /\ deck' \in [Decks -> {Absent, "there", Deleted}]
    BY <1>1, <1>2
  <2> QED BY <1>1, <1>2, <2>1, <2>2 DEF Study!TypeOK
<1>9. CardsSound'
  <2>1. ASSUME NEW c \in Cards, c \in new PROVE CardSound(c)'
    <3>1. t.op = "cards"
      BY <1>2, <1>5, <2>1
    <3>2. n.deck = t.deck /\ deck'[n.deck] = "there"
      BY <1>3, <1>4, <1>6, <3>1
    <3> QED BY <1>4, <1>5, <2>1, <3>1, <3>2 DEF CardSound
  <2>2. ASSUME NEW c \in Cards, c \notin new, card'[c] \in Study!Card PROVE CardSound(c)'
    <3>1. card[c] \in Study!Card /\ card'[c] = card[c] /\ replayed'[c] = replayed[c] /\ CardSound(c)
      BY <1>5, <2>2 DEF StudyInv, CardsSound
    <3>2. card[c].deck \in Decks
      BY <3>1 DEF Study!Card
    <3> QED BY <1>2, <1>6, <3>1, <3>2 DEF CardSound
  <2> QED BY <2>1, <2>2 DEF CardsSound
<1>10. WritesSound'
  <2> SUFFICES ASSUME NEW s \in Requests, Writing(s)' PROVE WriteSound(cardReq[s])'
    BY DEF WritesSound
  <2>1. s # r /\ cardReq'[s] = cardReq[s] /\ Writing(s) /\ WriteSound(cardReq[s]) /\ cardReq[s].card \in Cards
    BY <1>7, StudyRequestTyped DEF Writing, StudyInv, WritesSound
  <2>2. card'[cardReq[s].card] = card[cardReq[s].card]
    BY <1>3, <1>5, <2>1 DEF WriteSound
  <2> QED BY <2>1, <2>2 DEF WriteSound
<1>11. AddsSound'
  <2>1. ASSUME NEW s \in Requests, Adding(s)' PROVE AddSound(cardReq[s])'
    <3>1. s # r /\ cardReq'[s] = cardReq[s] /\ Adding(s) /\ AddSound(cardReq[s]) /\ cardReq[s].cards \subseteq Cards
          /\ cardReq[s].deck \in Decks
      BY <1>7, <2>1, StudyRequestTyped DEF Adding, StudyInv, AddsSound
    <3>2. \A c \in cardReq[s].cards : card'[c] = Absent
      BY <1>3, <1>5, <3>1 DEF AddSound
    <3> QED BY <1>6, <3>1, <3>2 DEF AddSound
  <2>2. \A s, q \in Requests : Adding(s)' /\ Adding(q)' /\ s # q => cardReq'[s].cards \cap cardReq'[q].cards = {}
    BY <1>7 DEF Adding, StudyInv, AddsSound
  <2> QED BY <2>1, <2>2 DEF AddsSound
<1>12. RemovalsSound'
  <2> SUFFICES ASSUME NEW s \in Requests, Removing(s)' PROVE RemovalSound(cardReq[s])'
    BY DEF RemovalsSound
  <2>1. s # r /\ cardReq'[s] = cardReq[s] /\ Removing(s) /\ RemovalSound(cardReq[s]) /\ cardReq[s].cards \subseteq Cards
    BY <1>7, StudyRequestTyped DEF Removing, StudyInv, RemovalsSound
  <2>2. \A c \in Cards : card[c] # Absent => card'[c] # Absent
    BY <1>3, <1>5
  <2>3. ASSUME cardReq[s].pc = "commit", cardReq[s].deck # Null
        PROVE  Study!CardsOf(cardReq[s].deck)' \subseteq Study!CardsOf(cardReq[s].deck)
    <3>1. cardReq[s].deck \in cardReq[s].locks
      BY <2>1, <2>3 DEF RemovalSound
    <3>2. t.op = "cards" => t.deck # cardReq[s].deck
      <4>1. t # Study!Idle
        BY <1>2 DEF Study!Idle
      <4> QED BY <1>3, <2>1, <3>1, <4>1 DEF StudyInv, LocksExclude
    <3>3. ASSUME NEW c \in Cards, card'[c] \in Study!Card, card'[c].deck = cardReq[s].deck PROVE c \notin new
      BY <1>2, <1>4, <1>5, <3>2, <3>3
    <3> QED BY <1>5, <2>1, <3>3 DEF Study!CardsOf
  <2> QED BY <2>1, <2>2, <2>3 DEF RemovalSound
<1>13. LocksExclude'
  BY <1>7 DEF LocksExclude, Removing, StudyInv
<1> QED BY <1>8, <1>9, <1>10, <1>11, <1>12, <1>13 DEF StudyInv

LEMMA StudyDeletionStep ==
    ASSUME StudyInv, NEW r \in Requests, Study!CommitDeletion(r)
    PROVE  StudyInv'
<1> DEFINE t == cardReq[r]
           away == t.cards \cup t.locks
<1>1. /\ card \in [Cards -> Study!Card \cup {Absent, Deleted}] /\ replayed \in [Cards -> Study!Card \cup {Absent, Deleted}]
      /\ cardReq \in [Requests -> Study!Request \cup {Study!Idle}]
      /\ deck \in [Decks -> {Absent, "there", Deleted}] /\ cardCrossed \in SUBSET (Cards \X {"review", "update"})
  BY DEF StudyInv, Study!TypeOK
<1>2. /\ cardReq' = [cardReq EXCEPT ![r] = Study!Idle] /\ cardCrossed' = cardCrossed
      /\ deck' = (IF t.deck = Null THEN deck ELSE [deck EXCEPT ![t.deck] = Deleted])
      /\ card' = [c \in Cards |-> IF c \in away THEN Deleted ELSE card[c]]
      /\ replayed' = [c \in Cards |-> IF c \in away THEN Deleted ELSE replayed[c]]
      /\ t # Study!Idle /\ Removing(r) /\ t.pc = "commit"
  BY DEF Study!CommitDeletion, Removing
<1>3. /\ t.deck \in Decks \cup {Null} /\ t.cards \subseteq Cards /\ t.locks \subseteq Decks \cup Cards
      /\ away = t.locks /\ RemovalSound(t)
  BY <1>2, StudyRequestTyped DEF RemovalSound, StudyInv, RemovalsSound
<1>4. \A c \in Cards : IF c \in t.locks THEN card'[c] = Deleted ELSE card'[c] = card[c] /\ replayed'[c] = replayed[c]
  BY <1>2, <1>3
<1>5. /\ cardReq'[r] = Study!Idle /\ ~Writing(r)' /\ ~Adding(r)' /\ ~Removing(r)'
      /\ \A s \in Requests \ {r} : /\ cardReq'[s] = cardReq[s]
                                   /\ cardReq[s] # Study!Idle => t.locks \cap cardReq[s].locks = {}
  BY <1>1, <1>2 DEF Writing, Adding, Removing, Study!Idle, StudyInv, LocksExclude
<1>6. \A d \in Decks : deck[d] = "there" => deck'[d] = "there" \/ (d = t.deck /\ t.deck \in t.locks)
  BY <1>1, <1>2, <1>3 DEF RemovalSound
<1>7. Study!TypeOK'
  BY <1>1, <1>2, <1>3 DEF Study!TypeOK
<1> HIDE DEF away
<1>8. \A c \in Cards : card'[c] = Absent <=> card[c] = Absent
  BY <1>3, <1>4 DEF RemovalSound
<1>9. CardsSound'
  <2> SUFFICES ASSUME NEW c \in Cards, card'[c] \in Study!Card PROVE CardSound(c)'
    BY DEF CardsSound
  <2>1. c \notin t.locks /\ card'[c] = card[c] /\ replayed'[c] = replayed[c] /\ CardSound(c) /\ card[c] \in Study!Card
    BY <1>4 DEF StudyInv, CardsSound
  <2>2. card[c].deck \in Decks
    BY <2>1 DEF Study!Card
  <2>3. card[c].deck # t.deck
    BY <1>2, <1>3, <2>1, <2>2 DEF RemovalSound, Study!CardsOf
  <2> QED BY <1>2, <1>6, <2>1, <2>2, <2>3 DEF CardSound
<1>10. WritesSound'
  <2> SUFFICES ASSUME NEW s \in Requests, Writing(s)' PROVE WriteSound(cardReq[s])'
    BY DEF WritesSound
  <2>1. s # r /\ cardReq'[s] = cardReq[s] /\ Writing(s) /\ WriteSound(cardReq[s]) /\ cardReq[s].card \in Cards
    BY <1>5, StudyRequestTyped DEF Writing, StudyInv, WritesSound
  <2>2. cardReq[s] # Study!Idle
    BY <2>1 DEF Writing, Study!Idle
  <2>3. cardReq[s].pc = "commit" => card'[cardReq[s].card] \in Study!Card
    BY <1>4, <1>5, <2>1, <2>2 DEF WriteSound
  <2>4. card'[cardReq[s].card] \in Study!Card => card'[cardReq[s].card] = card[cardReq[s].card]
    BY <1>4, <2>1
  <2> QED BY <1>8, <2>1, <2>3, <2>4 DEF WriteSound
<1>11. AddsSound'
  <2>1. ASSUME NEW s \in Requests, Adding(s)' PROVE AddSound(cardReq[s])'
    <3>1. s # r /\ cardReq'[s] = cardReq[s] /\ Adding(s) /\ AddSound(cardReq[s]) /\ cardReq[s].cards \subseteq Cards
          /\ cardReq[s].deck \in Decks
      BY <1>5, <2>1, StudyRequestTyped DEF Adding, StudyInv, AddsSound
    <3>2. cardReq[s] # Study!Idle
      BY <3>1 DEF Adding, Study!Idle
    <3>3. cardReq[s].pc = "commit" => deck'[cardReq[s].deck] = "there"
      BY <1>5, <1>6, <3>1, <3>2 DEF AddSound
    <3> QED BY <1>8, <3>1, <3>3 DEF AddSound
  <2>2. \A s, q \in Requests : Adding(s)' /\ Adding(q)' /\ s # q => cardReq'[s].cards \cap cardReq'[q].cards = {}
    BY <1>5 DEF Adding, StudyInv, AddsSound
  <2> QED BY <2>1, <2>2 DEF AddsSound
<1>12. RemovalsSound'
  <2> SUFFICES ASSUME NEW s \in Requests, Removing(s)' PROVE RemovalSound(cardReq[s])'
    BY DEF RemovalsSound
  <2>1. s # r /\ cardReq'[s] = cardReq[s] /\ Removing(s) /\ RemovalSound(cardReq[s]) /\ cardReq[s].cards \subseteq Cards
    BY <1>5, StudyRequestTyped DEF Removing, StudyInv, RemovalsSound
  <2>2. Study!CardsOf(cardReq[s].deck)' \subseteq Study!CardsOf(cardReq[s].deck)
    BY <1>4, <2>1 DEF Study!CardsOf
  <2> QED BY <1>8, <2>1, <2>2 DEF RemovalSound
<1>13. LocksExclude'
  BY <1>5 DEF LocksExclude, Removing, StudyInv
<1> QED BY <1>7, <1>9, <1>10, <1>11, <1>12, <1>13 DEF StudyInv

LEMMA StudyStep == StudyInv /\ Study!Next => StudyInv'
<1> SUFFICES ASSUME StudyInv, Study!Next PROVE StudyInv'
  OBVIOUS
<1>1. PICK r \in Requests :
        \/ \E d \in Decks : \/ Study!CreateDeck(r, d) \/ Study!DeleteDeck(r, d)
                            \/ \E cs \in SUBSET Cards : Study!CreateCards(r, d, cs)
        \/ \E c \in Cards : \/ Study!DeleteCard(r, c)
                            \/ \E quality \in Qualities : Study!SubmitReview(r, c, quality)
                            \/ \E suspended \in BOOLEAN : Study!UpdateCard(r, c, suspended)
        \/ Study!InsertCards(r) \/ Study!UpdateRow(r) \/ Study!DeleteRows(r) \/ Study!Deadlocked(r)
        \/ Study!CommitUpdate(r) \/ Study!CommitCreation(r) \/ Study!CommitDeletion(r) \/ Study!Fails(r)
  BY DEF Study!Next
<1>2. CASE Study!InsertCards(r) \/ Study!UpdateRow(r) \/ Study!DeleteRows(r)
  BY <1>2, StudyStatementStep
<1>3. CASE Study!Deadlocked(r) \/ Study!Fails(r)
  <2>1. UNCHANGED <<deck, card, replayed, cardCrossed>> /\ Study!RollsBack(r)
    BY <1>3 DEF Study!Deadlocked, Study!Fails
  <2> QED BY <2>1, StudyEndStep
<1>4. CASE Study!CommitUpdate(r) \/ Study!CommitCreation(r) \/ Study!CommitDeletion(r)
  BY <1>4, StudyWriteStep, StudyCreationStep, StudyDeletionStep
<1>5. CASE \/ \E d \in Decks : \/ Study!CreateDeck(r, d) \/ Study!DeleteDeck(r, d)
                               \/ \E cs \in SUBSET Cards : Study!CreateCards(r, d, cs)
           \/ \E c \in Cards : \/ Study!DeleteCard(r, c)
                               \/ \E quality \in Qualities : Study!SubmitReview(r, c, quality)
                               \/ \E suspended \in BOOLEAN : Study!UpdateCard(r, c, suspended)
  BY <1>5, StudyStartStep
<1> QED BY <1>1, <1>2, <1>3, <1>4, <1>5

\* A card is the replay of its committed reviews and suspensions, but for those
\* that another of its kind has overwritten, and goes with its deck.
THEOREM CardsFollow == ServicesSpec => []CardFollowsReviews
<1>1. ServicesInit => StudyInv
  BY StudyInitially DEF ServicesInit
<1>2. StudyInv /\ [ServicesNext]_<<service, missionVars, shellVars, emotionVars, studyVars,
                                   fileVars, storeVars, faults>> => StudyInv'
  BY StudyStep, StudyStutter DEF ServicesNext, studyVars
<1> QED
  BY <1>1, <1>2, StudyInvGives, PTL DEF ServicesSpec

HIDE FlashcardsAssumed DEF Study!FlashcardsAssumption

-----------------------------------------------------------------------------
(* The emotional state *)

USE EmotionAssumed DEF Emotion!EmotionAssumption

Ledger == [affinity : 0..MaxAffinity, mood : Emotion!Mood]

LEMMA ClampedTyped == \A n \in Int : Emotion!Clamped(n) \in 0..MaxAffinity
  BY DEF Emotion!Clamped

LEMMA TransitionTyped ==
    ASSUME NEW m \in Emotion!Mood, NEW s \in Emotion!Sentiment
    PROVE  /\ Emotion!MoodTransition(m, s)[1] \in Emotion!Mood
           /\ Emotion!MoodTransition(m, s)[2] \in Int
           /\ Emotion!MoodTransition(m, s)[2] = 0 => Emotion!MoodTransition(m, s)[1] = m
<1>1. CASE s = "positive"
  BY <1>1 DEF Emotion!MoodTransition, Emotion!Mood
<1>2. CASE s = "negative"
  BY <1>2 DEF Emotion!MoodTransition, Emotion!Mood
<1>3. CASE s = "neutral"
  BY <1>3 DEF Emotion!MoodTransition, Emotion!Mood
<1>4. CASE s = "grateful"
  BY <1>4 DEF Emotion!MoodTransition, Emotion!Mood
<1> QED BY <1>1, <1>2, <1>3, <1>4 DEF Emotion!Sentiment

LEMMA LoggedTyped ==
    ASSUME NEW h \in Seq(Emotion!Mood \X Emotion!Mood), NEW m \in Emotion!Mood, NEW n \in Emotion!Mood
    PROVE  Emotion!Logged(h, m, n) \in Seq(Emotion!Mood \X Emotion!Mood)
<1> DEFINE g == Append(h, <<m, n>>)
           k == Len(g) - (IF Len(g) < MaxMoodHistory THEN Len(g) ELSE MaxMoodHistory) + 1
<1>1. g \in Seq(Emotion!Mood \X Emotion!Mood) /\ Len(g) \in Nat
  OBVIOUS
<1> HIDE DEF g
<1>2. k \in 1 .. Len(g) + 1
  <2>1. \A j \in Nat : j - (IF j < MaxMoodHistory THEN j ELSE MaxMoodHistory) + 1 \in 1 .. j + 1
    OBVIOUS
  <2> QED BY <1>1, <2>1
<1> HIDE DEF k
<1>3. SubSeq(g, k, Len(g)) \in Seq(Emotion!Mood \X Emotion!Mood)
  <2>1. \A i \in k .. Len(g) : g[i] \in Emotion!Mood \X Emotion!Mood
    BY <1>1, <1>2
  <2> QED BY <1>1, <1>2, <2>1, SubSeqProperties
<1> QED BY <1>3 DEF Emotion!Logged, g, k

\* What a transaction has computed from the copy c: a row of the table, of which
\* the columns that are not dirty are those of the copy, and in which affinity and
\* mood are what the events before and its own add up to.
Computed(done, c) ==
    /\ done.row \in Emotion!State /\ done.ledger \in Ledger
    /\ \A k \in DOMAIN c \ done.dirty : done.row[k] = c[k]
    /\ ledger.affinity = c.affinity /\ ledger.mood = c.mood =>
          done.ledger.affinity = done.row.affinity /\ done.ledger.mood = done.row.mood

StateFields == {"mood", "affinity", "streak_days", "interaction_count", "last", "history"}

LEMMA StateColumns == \A x \in Emotion!State : DOMAIN x = StateFields
  BY DEF Emotion!State, StateFields

\* A step of a computation keeps that.
LEMMA ThenComputed ==
    ASSUME NEW c \in Emotion!State, NEW done, Computed(done, c), NEW base \in Emotion!State, NEW l \in Ledger,
           done.ledger.affinity = done.row.affinity /\ done.ledger.mood = done.row.mood =>
               l.affinity = base.affinity /\ l.mood = base.mood
    PROVE  /\ Computed(Emotion!Then(done, base, l), c)
           /\ Emotion!Then(done, base, l).row = base
           /\ Emotion!Then(done, base, l).dirty = done.dirty \cup {k \in StateFields : base[k] # done.row[k]}
<1> DEFINE new == Emotion!Then(done, base, l)
<1>1. /\ new.row = base /\ new.ledger = l
      /\ new.dirty = done.dirty \cup {k \in StateFields : base[k] # done.row[k]}
  BY StateColumns DEF Emotion!Then
<1> HIDE DEF new
<1>2. \A k \in DOMAIN c \ new.dirty : new.row[k] = c[k]
  BY <1>1, StateColumns DEF Computed
<1>3. Computed(new, c)
  BY <1>1, <1>2 DEF Computed
<1> QED BY <1>1, <1>3 DEF new

LEMMA ReplayTyped ==
    ASSUME NEW l \in Ledger, NEW d \in Int, NEW m \in Emotion!Mood
    PROVE  /\ Emotion!Replay(l, d, m) \in Ledger
           /\ Emotion!Replay(l, d, m).affinity = Emotion!Clamped(l.affinity + d)
           /\ Emotion!Replay(l, d, m).mood = m
<1>1. l.affinity + d \in Int
  BY DEF Ledger
<1>2. Emotion!Clamped(l.affinity + d) \in 0..MaxAffinity
  BY <1>1, ClampedTyped
<1> QED BY <1>2 DEF Emotion!Replay, Ledger

LEMMA NothingComputed ==
    ASSUME NEW c \in Emotion!State, ledger \in Ledger
    PROVE  /\ Computed(Emotion!NoChange(c), c) /\ Emotion!NoChange(c).row = c
           /\ Emotion!NoChange(c).dirty = {}
  BY DEF Computed, Emotion!NoChange

LEMMA AbsenceComputed ==
    ASSUME NEW c \in Emotion!State, NEW done, Computed(done, c)
    PROVE  LET new == Emotion!AbsenceCheck(done)
           IN  /\ Computed(new, c)
               /\ new.row.interaction_count = done.row.interaction_count
               /\ new.row.last = done.row.last
               /\ new.row.streak_days <= done.row.streak_days
<1> DEFINE x == done.row
           base == [x EXCEPT !.mood = "sad", !.affinity = Emotion!Clamped(@ - 5), !.streak_days = 0]
           l == Emotion!Replay(done.ledger, -5, "sad")
<1>1. x \in Emotion!State /\ done.ledger \in Ledger
  BY DEF Computed
<1>2. CASE x.last = Emotion!LongAbsence
  <2>1. Emotion!Clamped(x.affinity - 5) \in 0..MaxAffinity
    <3>1. x.affinity - 5 \in Int
      BY <1>1 DEF Emotion!State
    <3> QED BY <3>1, ClampedTyped
  <2>2. /\ base \in Emotion!State /\ base.affinity = Emotion!Clamped(x.affinity - 5) /\ base.mood = "sad"
        /\ base.streak_days = 0 /\ base.interaction_count = x.interaction_count /\ base.last = x.last
    BY <1>1, <2>1 DEF Emotion!State, Emotion!Mood
  <2>3. l \in Ledger /\ l.mood = "sad" /\ l.affinity = Emotion!Clamped(done.ledger.affinity + (-5))
    <3>1. "sad" \in Emotion!Mood /\ -5 \in Int
      BY DEF Emotion!Mood
    <3> QED BY <1>1, <3>1, ReplayTyped
  <2>4. done.ledger.affinity = x.affinity => l.affinity = base.affinity
    <3>1. x.affinity + (-5) = x.affinity - 5
      BY <1>1 DEF Emotion!State
    <3> QED BY <2>2, <2>3, <3>1
  <2>5. Emotion!AbsenceCheck(done) = Emotion!Then(done, base, l)
    BY <1>2 DEF Emotion!AbsenceCheck
  <2>6. x.streak_days \in Nat
    BY <1>1 DEF Emotion!State
  <2> HIDE DEF base, l
  <2>7. Computed(Emotion!Then(done, base, l), c) /\ Emotion!Then(done, base, l).row = base
    BY <1>1, <2>2, <2>3, <2>4, ThenComputed
  <2> QED BY <2>2, <2>5, <2>6, <2>7
<1>3. CASE x.last # Emotion!LongAbsence
  <2>1. Emotion!AbsenceCheck(done) = done
    BY <1>3 DEF Emotion!AbsenceCheck
  <2> QED BY <1>1, <2>1 DEF Emotion!State
<1> QED BY <1>2, <1>3

LEMMA StreakComputed ==
    ASSUME NEW c \in Emotion!State, NEW done, Computed(done, c)
    PROVE  LET new == Emotion!StreakUpdate(done)
           IN  /\ Computed(new, c)
               /\ new.row.interaction_count = done.row.interaction_count
               /\ new.row.streak_days <= done.row.streak_days + 1
<1> DEFINE x == done.row
           streak == IF x.last = Null \/ x.last \div 2 > 1 THEN 1 ELSE x.streak_days + x.last \div 2
           milestone == x.last # Null /\ x.last \div 2 = 1 /\ streak % Week = 0
           bonus == IF 2 * (streak \div Week) < 10 THEN 2 * (streak \div Week) ELSE 10
           base == [x EXCEPT !.streak_days = streak,
                            !.affinity = IF milestone THEN Emotion!Clamped(@ + bonus) ELSE @]
           l == IF milestone THEN Emotion!Replay(done.ledger, bonus, x.mood) ELSE done.ledger
<1>1. x \in Emotion!State /\ done.ledger \in Ledger /\ x.streak_days \in Nat /\ x.mood \in Emotion!Mood
      /\ x.affinity \in 0..MaxAffinity /\ x.last \in 0..4 \cup {Null}
  BY DEF Computed, Emotion!State, Emotion!Ages
<1> HIDE DEF x
<1>2. streak \in Nat /\ streak <= x.streak_days + 1
  <2>1. CASE x.last = Null \/ x.last \div 2 > 1
    BY <1>1, <2>1
  <2>2. CASE x.last # Null /\ ~(x.last \div 2 > 1)
    <3>1. x.last \in 0..4
      BY <1>1, <2>2
    <3>2. x.last \div 2 \in 0..1
      BY <2>2, <3>1
    <3> QED BY <1>1, <2>2, <3>2
  <2> QED BY <2>1, <2>2
<1>3. Emotion!StreakUpdate(done) = Emotion!Then(done, base, l)
  BY DEF Emotion!StreakUpdate, x
<1> HIDE DEF streak
<1>4. bonus \in Int
  <2>1. streak \div Week \in Int
    BY <1>2
  <2> QED BY <2>1
<1> HIDE DEF bonus, milestone
<1>5. Emotion!Clamped(x.affinity + bonus) \in 0..MaxAffinity
  BY <1>1, <1>4, ClampedTyped
<1>6. /\ base \in Emotion!State /\ base.mood = x.mood /\ base.streak_days = streak
      /\ base.affinity = (IF milestone THEN Emotion!Clamped(x.affinity + bonus) ELSE x.affinity)
      /\ base.interaction_count = x.interaction_count
  BY <1>1, <1>2, <1>5 DEF Emotion!State
<1>7. /\ l \in Ledger
      /\ milestone => l.affinity = Emotion!Clamped(done.ledger.affinity + bonus) /\ l.mood = x.mood
      /\ ~milestone => l = done.ledger
  BY <1>1, <1>4, ReplayTyped
<1> HIDE DEF base, l
<1>8. done.ledger.affinity = x.affinity /\ done.ledger.mood = x.mood => l.affinity = base.affinity /\ l.mood = base.mood
  BY <1>6, <1>7
<1>9. Computed(Emotion!Then(done, base, l), c) /\ Emotion!Then(done, base, l).row = base
  BY <1>1, <1>6, <1>7, <1>8, ThenComputed DEF x
<1> QED BY <1>2, <1>3, <1>6, <1>9 DEF x

LEMMA MoodComputed ==
    ASSUME NEW c \in Emotion!State, NEW done, Computed(done, c), NEW s \in Emotion!Sentiment
    PROVE  LET new == Emotion!MoodUpdate(done, s)
           IN  /\ Computed(new, c)
               /\ new.row.interaction_count = done.row.interaction_count + 1
               /\ new.row.streak_days = done.row.streak_days
<1> DEFINE x == done.row
           next == Emotion!MoodTransition(x.mood, s)
           base == [x EXCEPT !.mood = next[1], !.affinity = Emotion!Clamped(@ + next[2]),
                            !.history = Emotion!Logged(@, x.mood, next[1]),
                            !.interaction_count = @ + 1, !.last = 0]
           l == IF next[2] # 0 THEN Emotion!Replay(done.ledger, next[2], next[1]) ELSE done.ledger
<1>1. x \in Emotion!State /\ done.ledger \in Ledger /\ x.mood \in Emotion!Mood /\ x.affinity \in 0..MaxAffinity
      /\ x.history \in Seq(Emotion!Mood \X Emotion!Mood) /\ x.interaction_count \in Nat
  BY DEF Computed, Emotion!State
<1> HIDE DEF x
<1>2. next[1] \in Emotion!Mood /\ next[2] \in Int /\ (next[2] = 0 => next[1] = x.mood)
  BY <1>1, TransitionTyped
<1>3. Emotion!MoodUpdate(done, s) = Emotion!Then(done, base, l)
  BY DEF Emotion!MoodUpdate, x
<1> HIDE DEF next
<1>4. Emotion!Clamped(x.affinity + next[2]) \in 0..MaxAffinity
  <2>1. x.affinity + next[2] \in Int
    BY <1>1, <1>2
  <2> QED BY <2>1, ClampedTyped
<1>5. Emotion!Logged(x.history, x.mood, next[1]) \in Seq(Emotion!Mood \X Emotion!Mood)
  BY <1>1, <1>2, LoggedTyped
<1>6. /\ base \in Emotion!State /\ base.mood = next[1] /\ base.affinity = Emotion!Clamped(x.affinity + next[2])
      /\ base.interaction_count = x.interaction_count + 1 /\ base.streak_days = x.streak_days
  <2>1. 0 \in Emotion!Ages /\ x.interaction_count + 1 \in Nat
    BY <1>1 DEF Emotion!Ages
  <2> DEFINE m == next[1]  a == Emotion!Clamped(x.affinity + next[2])  h == Emotion!Logged(x.history, x.mood, next[1])
  <2>2. base = [x EXCEPT !.mood = m, !.affinity = a, !.history = h, !.interaction_count = x.interaction_count + 1, !.last = 0]
    OBVIOUS
  <2>3. m \in Emotion!Mood /\ a \in 0..MaxAffinity /\ h \in Seq(Emotion!Mood \X Emotion!Mood)
    BY <1>2, <1>4, <1>5
  <2> HIDE DEF m, a, h, base
  <2>4. /\ base \in Emotion!State /\ base.mood = m /\ base.affinity = a
        /\ base.interaction_count = x.interaction_count + 1 /\ base.streak_days = x.streak_days
    BY <1>1, <2>1, <2>2, <2>3 DEF Emotion!State
  <2> QED BY <2>4 DEF m, a
<1>7. /\ l \in Ledger
      /\ next[2] # 0 => l.affinity = Emotion!Clamped(done.ledger.affinity + next[2]) /\ l.mood = next[1]
      /\ next[2] = 0 => l = done.ledger
  BY <1>1, <1>2, ReplayTyped
<1>8. next[2] = 0 => base.affinity = x.affinity
  BY <1>1, <1>6 DEF Emotion!Clamped
<1> HIDE DEF base, l
<1>9. done.ledger.affinity = x.affinity /\ done.ledger.mood = x.mood => l.affinity = base.affinity /\ l.mood = base.mood
  BY <1>2, <1>6, <1>7, <1>8
<1>10. Computed(Emotion!Then(done, base, l), c) /\ Emotion!Then(done, base, l).row = base
  BY <1>1, <1>6, <1>7, <1>9, ThenComputed DEF x
<1> QED BY <1>3, <1>6, <1>10 DEF x

\* An interaction.
LEMMA InteractionComputed ==
    ASSUME NEW c \in Emotion!State, NEW s \in Emotion!Sentiment, ledger \in Ledger
    PROVE  LET done == Emotion!RecordInteraction(c, s)
           IN  /\ Computed(done, c)
               /\ done.row.interaction_count = c.interaction_count + 1
               /\ done.row.streak_days <= c.streak_days + 1
<1> DEFINE d1 == Emotion!AbsenceCheck(Emotion!NoChange(c))
           d2 == Emotion!StreakUpdate(d1)
           d3 == Emotion!MoodUpdate(d2, s)
           done == Emotion!RecordInteraction(c, s)
<1>1. Computed(Emotion!NoChange(c), c) /\ Emotion!NoChange(c).row = c
  BY NothingComputed
<1>2. /\ Computed(d1, c) /\ d1.row.interaction_count = c.interaction_count
      /\ d1.row.streak_days <= c.streak_days
  BY <1>1, AbsenceComputed
<1> HIDE DEF d1
<1>3. /\ Computed(d2, c) /\ d2.row.interaction_count = d1.row.interaction_count
      /\ d2.row.streak_days <= d1.row.streak_days + 1
  BY <1>2, StreakComputed
<1> HIDE DEF d2
<1>4. /\ Computed(d3, c) /\ d3.row.interaction_count = d2.row.interaction_count + 1
      /\ d3.row.streak_days = d2.row.streak_days
  BY <1>3, MoodComputed
<1>5. done = [d3 EXCEPT !.dirty = @ \cup {"last"}] /\ d3 = [row |-> d3.row, ledger |-> d3.ledger, dirty |-> d3.dirty]
  BY DEF Emotion!RecordInteraction, Emotion!MoodUpdate, Emotion!Then, d1, d2
<1> HIDE DEF d3
<1>6. done.row = d3.row /\ done.ledger = d3.ledger /\ done.dirty = d3.dirty \cup {"last"}
  BY <1>5
<1> HIDE DEF done
<1>7. Computed(done, c)
  BY <1>4, <1>6 DEF Computed
<1>8. d1.row.streak_days \in Nat /\ d2.row.streak_days \in Nat /\ c.streak_days \in Nat
  BY <1>2, <1>3 DEF Computed, Emotion!State
<1> QED BY <1>2, <1>3, <1>4, <1>6, <1>7, <1>8 DEF done

\* A headpat leaves the counters alone.
LEMMA HeadpatComputed ==
    ASSUME NEW c \in Emotion!State, ledger \in Ledger
    PROVE  LET done == Emotion!RecordHeadpat(c)
           IN  Computed(done, c) /\ done.dirty \subseteq {"mood", "affinity", "history"}
                /\ done.row.interaction_count = c.interaction_count /\ done.row.streak_days = c.streak_days
<1> DEFINE base == [c EXCEPT !.mood = "happy", !.affinity = Emotion!Clamped(@ + 5),
                            !.history = Emotion!Logged(@, c.mood, "happy")]
           l == Emotion!Replay(ledger, 5, "happy")
           n == Emotion!NoChange(c)
<1>1. /\ Computed(n, c) /\ n.row = c /\ n.dirty = {} /\ n.ledger = ledger
  BY NothingComputed DEF Emotion!NoChange
<1>2. c.affinity \in 0..MaxAffinity /\ c.mood \in Emotion!Mood /\ c.history \in Seq(Emotion!Mood \X Emotion!Mood)
      /\ "happy" \in Emotion!Mood
  BY DEF Emotion!State, Emotion!Mood
<1>3. /\ Emotion!Clamped(c.affinity + 5) \in 0..MaxAffinity
      /\ Emotion!Logged(c.history, c.mood, "happy") \in Seq(Emotion!Mood \X Emotion!Mood)
  <2>1. c.affinity + 5 \in Int
    BY <1>2
  <2> QED BY <1>2, <2>1, ClampedTyped, LoggedTyped
<1>4. /\ base \in Emotion!State /\ base.mood = "happy" /\ base.affinity = Emotion!Clamped(c.affinity + 5)
      /\ base.streak_days = c.streak_days /\ base.interaction_count = c.interaction_count /\ base.last = c.last
  BY <1>2, <1>3 DEF Emotion!State
<1>5. l \in Ledger /\ l.affinity = Emotion!Clamped(ledger.affinity + 5) /\ l.mood = "happy"
  BY <1>2, ReplayTyped
<1>6. Emotion!RecordHeadpat(c) = Emotion!Then(n, base, l)
  BY DEF Emotion!RecordHeadpat
<1> HIDE DEF base, l, n
<1>7. /\ Computed(Emotion!Then(n, base, l), c) /\ Emotion!Then(n, base, l).row = base
      /\ Emotion!Then(n, base, l).dirty = n.dirty \cup {k \in StateFields : base[k] # n.row[k]}
  BY <1>1, <1>4, <1>5, ThenComputed
<1> QED BY <1>1, <1>4, <1>6, <1>7 DEF StateFields

-----------------------------------------------------------------------------
\* What a transaction knows of the row.  It has read or inserted it; a row that
\* is not committed is its own; and unless another writer has committed since,
\* the columns that count are still those of its copy.
Fresh(t) ==
    t.op \in Emotion!Writers /\ t.copy \in Emotion!State /\ state \in Emotion!State =>
        /\ t.stale = {} => t.copy.mood = state.mood /\ t.copy.affinity = state.affinity
        /\ "interact" \notin t.stale =>
              t.copy.interaction_count = state.interaction_count /\ t.copy.streak_days = state.streak_days

Placed(r, t, l) ==
    /\ t.pc = "insert" => t.copy = Absent /\ l # r /\ t.stale = {}
    /\ t.pc # "insert" =>
          /\ t.copy \in Emotion!State
          /\ state = Absent => l = r /\ t.copy = Emotion!NewState /\ t.stale = {}
    /\ t.op \in Emotion!Writers /\ t.pc = "end" => l = r
    /\ t.op \notin Emotion!Writers => t.pc # "flush" /\ t.stale = {} /\ (l = r => state = Absent)

TransactionsSound == \A r \in Requests : tx[r] # Emotion!Idle => Placed(r, tx[r], lock) /\ Fresh(tx[r])

LockKnown == lock # Null => tx[lock] # Emotion!Idle

RowCounts ==
    state \in Emotion!State =>
        /\ stateCrossed = {} => state.affinity = ledger.affinity /\ state.mood = ledger.mood
        /\ {"interact"} \notin stateCrossed => state.interaction_count = count /\ state.streak_days <= count

NothingCounted == state = Absent => count = 0 /\ ledger.affinity = 0 /\ ledger.mood = "neutral"

EmotionInv == Emotion!TypeOK /\ TransactionsSound /\ LockKnown /\ RowCounts /\ NothingCounted

LEMMA EmotionInvGives == EmotionInv => StateFollowsEvents
<1> SUFFICES ASSUME EmotionInv PROVE StateFollowsEvents
  OBVIOUS
<1>1. state # Absent => state \in Emotion!State
  BY DEF EmotionInv, Emotion!TypeOK
<1> QED BY <1>1 DEF EmotionInv, RowCounts, NothingCounted, StateFollowsEvents, Emotion!StateFollowsEvents

LEMMA NewStateTyped ==
    /\ Emotion!NewState \in Emotion!State
    /\ Emotion!NewState.affinity = 0 /\ Emotion!NewState.mood = "neutral"
    /\ Emotion!NewState.interaction_count = 0 /\ Emotion!NewState.streak_days = 0
  BY DEF Emotion!NewState, Emotion!State, Emotion!Mood

LEMMA EmotionInitially == Emotion!Init => EmotionInv
<1> SUFFICES ASSUME Emotion!Init PROVE EmotionInv
  OBVIOUS
<1>1. Emotion!TypeOK
  BY DEF Emotion!Init, Emotion!TypeOK, Emotion!Mood
<1> QED
  BY <1>1 DEF Emotion!Init, EmotionInv, TransactionsSound, LockKnown, RowCounts, NothingCounted

LEMMA EmotionStutter == EmotionInv /\ UNCHANGED emotionVars => EmotionInv'
<1> SUFFICES ASSUME EmotionInv, UNCHANGED emotionVars PROVE EmotionInv'
  OBVIOUS
<1> USE DEF emotionVars
<1>1. Emotion!TypeOK'
  BY DEF EmotionInv, Emotion!TypeOK
<1>2. TransactionsSound'
  BY DEF EmotionInv, TransactionsSound, Placed, Fresh
<1>3. LockKnown' /\ RowCounts' /\ NothingCounted'
  BY DEF EmotionInv, LockKnown, RowCounts, NothingCounted
<1> QED BY <1>1, <1>2, <1>3 DEF EmotionInv

\* What is known of an open transaction.
LEMMA TransactionTyped ==
    ASSUME EmotionInv, NEW r \in Requests, tx[r] # Emotion!Idle
    PROVE  tx[r] \in Emotion!Transaction /\ Placed(r, tx[r], lock) /\ Fresh(tx[r])
  BY DEF EmotionInv, Emotion!TypeOK, TransactionsSound

\* A step that changes only the transaction r, into x, and the lock, into l.
LEMMA TransactionStep ==
    ASSUME EmotionInv, NEW r \in Requests, NEW x \in Emotion!Transaction \cup {Emotion!Idle},
           NEW l \in Requests \cup {Null},
           UNCHANGED <<state, ledger, count, stateCrossed>>, tx' = [tx EXCEPT ![r] = x], lock' = l,
           x # Emotion!Idle => Placed(r, x, l) /\ Fresh(x),
           l = r => x # Emotion!Idle,
           l # lock => {lock, l} \subseteq {r, Null}
    PROVE  EmotionInv'
<1> USE DEF EmotionInv
<1>1. /\ tx'[r] = x /\ \A s \in Requests \ {r} : tx'[s] = tx[s]
      /\ Null \notin Requests /\ Emotion!TypeOK
  BY DEF Emotion!TypeOK
<1>2. Emotion!TypeOK'
  BY DEF Emotion!TypeOK
<1>3. TransactionsSound'
  <2> SUFFICES ASSUME NEW s \in Requests, tx'[s] # Emotion!Idle
               PROVE  Placed(s, tx[s], lock)' /\ Fresh(tx[s])'
    BY DEF TransactionsSound
  <2>1. CASE s = r
    BY <1>1, <2>1 DEF Placed, Fresh
  <2>2. CASE s # r
    <3>1. tx'[s] = tx[s] /\ Placed(s, tx[s], lock) /\ Fresh(tx[s])
      BY <1>1, <2>2 DEF TransactionsSound
    <3>2. l = lock \/ (l # s /\ lock # s)
      BY <1>1, <2>2
    <3>3. Placed(s, tx[s], l)
      BY <3>1, <3>2 DEF Placed
    <3> QED BY <3>1, <3>3 DEF Placed, Fresh
  <2> QED BY <2>1, <2>2
<1>4. LockKnown'
  <2> SUFFICES ASSUME l # Null PROVE tx'[l] # Emotion!Idle
    BY DEF LockKnown
  <2>1. CASE l = r
    BY <1>1, <2>1
  <2>2. CASE l # r
    <3>1. l = lock /\ l \in Requests \ {r}
      BY <2>2
    <3> QED BY <1>1, <3>1 DEF LockKnown
  <2> QED BY <2>1, <2>2
<1>5. RowCounts' /\ NothingCounted'
  BY DEF RowCounts, NothingCounted
<1> QED BY <1>2, <1>3, <1>4, <1>5

LEMMA EmotionEndStep ==
    ASSUME EmotionInv, NEW r \in Requests, Emotion!Ends(r), UNCHANGED <<state, ledger, count, stateCrossed>>
    PROVE  EmotionInv'
<1> DEFINE l == IF lock = r THEN Null ELSE lock
<1>1. l \in Requests \cup {Null} /\ l # r /\ (l # lock => {lock, l} \subseteq {r, Null})
  BY DEF EmotionInv, Emotion!TypeOK
<1>2. tx' = [tx EXCEPT ![r] = Emotion!Idle] /\ lock' = l
  BY DEF Emotion!Ends
<1> HIDE DEF l
<1> QED BY <1>1, <1>2, TransactionStep

LEMMA EmotionReadStep ==
    ASSUME EmotionInv, NEW r \in Requests, NEW op \in Emotion!Operations, NEW s \in Emotion!Sentiment,
           Emotion!Read(r, op, s)
    PROVE  EmotionInv'
<1> DEFINE p == IF state = Absent THEN "insert" ELSE Emotion!AfterRead(op)
           x == [op |-> op, sentiment |-> s, copy |-> state, age |-> 0, stale |-> {}, pc |-> p]
<1>1. /\ UNCHANGED <<state, ledger, count, stateCrossed>> /\ tx' = [tx EXCEPT ![r] = x] /\ lock' = lock
      /\ tx[r] = Emotion!Idle
  BY DEF Emotion!Read
<1>2. /\ lock \in Requests \cup {Null} /\ state \in Emotion!State \cup {Absent} /\ lock # r
  BY <1>1 DEF EmotionInv, Emotion!TypeOK, LockKnown
<1>3. p = (IF state = Absent THEN "insert" ELSE IF op \in Emotion!Writers THEN "flush" ELSE "end")
  BY DEF Emotion!AfterRead
<1> HIDE DEF p
<1>4. x \in Emotion!Transaction
  BY <1>2, <1>3 DEF Emotion!Transaction, Emotion!Ages
<1>5. x.op = op /\ x.copy = state /\ x.stale = {} /\ x.pc = p
  OBVIOUS
<1> HIDE DEF x
<1>6. Placed(r, x, lock) /\ Fresh(x)
  BY <1>2, <1>3, <1>5 DEF Placed, Fresh
<1> QED BY <1>1, <1>2, <1>4, <1>6, TransactionStep

LEMMA EmotionInsertStep ==
    ASSUME EmotionInv, NEW r \in Requests, Emotion!Insert(r)
    PROVE  EmotionInv'
<1> DEFINE t == tx[r]
           p == Emotion!AfterRead(t.op)
           x == [t EXCEPT !.copy = Emotion!NewState, !.age = 0, !.pc = p]
<1>1. t # Emotion!Idle /\ t.pc = "insert" /\ lock = Null /\ UNCHANGED <<state, ledger, count, stateCrossed>>
  BY DEF Emotion!Insert
<1>2. t \in Emotion!Transaction /\ Placed(r, t, lock)
  BY <1>1, TransactionTyped
<1>3. CASE state = Absent
  <2>1. tx' = [tx EXCEPT ![r] = x] /\ lock' = r
    BY <1>3 DEF Emotion!Insert, EmotionInv, Emotion!TypeOK
  <2>2. p = (IF t.op \in Emotion!Writers THEN "flush" ELSE "end")
    BY DEF Emotion!AfterRead
  <2>3. t.stale = {}
    BY <1>1, <1>2 DEF Placed
  <2> HIDE DEF p
  <2>4. x \in Emotion!Transaction /\ x.op = t.op /\ x.copy = Emotion!NewState /\ x.stale = {} /\ x.pc = p
    <3> DEFINE c == Emotion!NewState
    <3>1. c \in Emotion!State /\ 0 \in Emotion!Ages /\ p \in {"insert", "flush", "end"}
      BY <2>2, NewStateTyped DEF Emotion!Ages
    <3>2. x = [t EXCEPT !.copy = c, !.age = 0, !.pc = p]
      OBVIOUS
    <3> HIDE DEF c, x
    <3>3. x \in Emotion!Transaction /\ x.op = t.op /\ x.copy = c /\ x.stale = t.stale /\ x.pc = p
      BY <1>2, <3>1, <3>2 DEF Emotion!Transaction
    <3> QED BY <2>3, <3>3 DEF c
  <2> HIDE DEF x
  <2>5. Placed(r, x, r) /\ Fresh(x)
    BY <1>3, <2>2, <2>4, NewStateTyped DEF Placed, Fresh
  <2>6. x # Emotion!Idle
    BY <2>4 DEF Emotion!Idle, Emotion!Transaction, Emotion!Operations, Emotion!Writers
  <2> QED BY <1>1, <2>1, <2>4, <2>5, <2>6, TransactionStep
<1>4. CASE state # Absent
  BY <1>1, <1>4, EmotionEndStep DEF Emotion!Insert
<1> QED BY <1>3, <1>4

LEMMA EmotionFlushStep ==
    ASSUME EmotionInv, NEW r \in Requests, Emotion!Flush(r)
    PROVE  EmotionInv'
<1> DEFINE t == tx[r]
           x == [t EXCEPT !.pc = "end"]
<1>1. t # Emotion!Idle /\ t.pc = "flush" /\ lock \in {Null, r} /\ UNCHANGED <<state, ledger, count, stateCrossed>>
      /\ tx' = [tx EXCEPT ![r] = x] /\ lock' = r
  BY DEF Emotion!Flush, EmotionInv, Emotion!TypeOK
<1>2. t \in Emotion!Transaction /\ Placed(r, t, lock) /\ Fresh(t)
  BY <1>1, TransactionTyped
<1>3. x \in Emotion!Transaction /\ x.op = t.op /\ x.copy = t.copy /\ x.stale = t.stale /\ x.pc = "end"
  BY <1>2 DEF Emotion!Transaction
<1> HIDE DEF x
<1>4. Placed(r, x, r) /\ Fresh(x)
  BY <1>1, <1>2, <1>3 DEF Placed, Fresh
<1>5. x # Emotion!Idle
  BY <1>3 DEF Emotion!Idle, Emotion!Transaction, Emotion!Operations, Emotion!Writers
<1> QED BY <1>1, <1>3, <1>4, <1>5, TransactionStep

\* Half a day ages the row and the transactions, and changes nothing that counts.
LEMMA HalfDayStep ==
    ASSUME EmotionInv, Emotion!HalfDay
    PROVE  EmotionInv'
<1> USE DEF EmotionInv
<1>1. /\ state \in Emotion!State /\ state.last \in 0..3 /\ state' = [state EXCEPT !.last = Emotion!Older(@)]
      /\ UNCHANGED <<lock, ledger, count, stateCrossed>>
  BY DEF Emotion!HalfDay, Emotion!TypeOK, Emotion!State, Emotion!Ages, Emotion!LongAbsence
<1>2. /\ state' \in Emotion!State /\ state'.mood = state.mood /\ state'.affinity = state.affinity
      /\ state'.interaction_count = state.interaction_count /\ state'.streak_days = state.streak_days
  <2>1. Emotion!Older(state.last) \in Emotion!Ages
    BY <1>1 DEF Emotion!Older, Emotion!Ages, Emotion!LongAbsence
  <2> QED BY <1>1, <2>1 DEF Emotion!State
<1>3. \A r \in Requests :
        /\ tx[r] = Emotion!Idle => tx'[r] = Emotion!Idle
        /\ tx[r] # Emotion!Idle =>
              /\ tx'[r] \in Emotion!Transaction /\ tx'[r].op = tx[r].op /\ tx'[r].pc = tx[r].pc
              /\ tx'[r].copy = tx[r].copy /\ tx'[r].stale = tx[r].stale
  <2> SUFFICES ASSUME NEW r \in Requests, tx[r] # Emotion!Idle
               PROVE  /\ tx'[r] \in Emotion!Transaction /\ tx'[r].op = tx[r].op /\ tx'[r].pc = tx[r].pc
                      /\ tx'[r].copy = tx[r].copy /\ tx'[r].stale = tx[r].stale
    BY DEF Emotion!HalfDay
  <2>1. tx[r] \in Emotion!Transaction
    BY TransactionTyped
  <2>2. tx'[r] = [tx[r] EXCEPT !.age = Emotion!Older(@)]
    BY DEF Emotion!HalfDay
  <2>3. \A n \in Emotion!Ages : Emotion!Older(n) \in Emotion!Ages
    BY DEF Emotion!Older, Emotion!Ages, Emotion!LongAbsence
  <2> QED BY <2>1, <2>2, <2>3 DEF Emotion!Transaction
<1>4. Emotion!TypeOK'
  <2>1. tx' \in [Requests -> Emotion!Transaction \cup {Emotion!Idle}]
    BY <1>3 DEF Emotion!HalfDay
  <2> QED BY <1>1, <1>2, <2>1 DEF Emotion!TypeOK
<1>5. TransactionsSound'
  <2> SUFFICES ASSUME NEW r \in Requests, tx'[r] # Emotion!Idle
               PROVE  Placed(r, tx[r], lock)' /\ Fresh(tx[r])'
    BY DEF TransactionsSound
  <2>1. /\ tx[r] # Emotion!Idle /\ tx'[r].op = tx[r].op /\ tx'[r].pc = tx[r].pc
        /\ tx'[r].copy = tx[r].copy /\ tx'[r].stale = tx[r].stale
    BY <1>3
  <2>2. Placed(r, tx[r], lock) /\ Fresh(tx[r])
    BY <2>1, TransactionTyped
  <2>3. state # Absent /\ state' # Absent
    BY <1>1, <1>2
  <2> QED BY <1>1, <1>2, <2>1, <2>2, <2>3 DEF Placed, Fresh
<1>6. LockKnown'
  <2>1. lock # Null => lock \in Requests /\ tx[lock] # Emotion!Idle
    BY DEF LockKnown, Emotion!TypeOK
  <2>2. \A r \in Requests : tx[r] # Emotion!Idle => tx'[r] # Emotion!Idle
    <3>1. \A x \in Emotion!Transaction : x # Emotion!Idle
      <4> SUFFICES ASSUME NEW x \in Emotion!Transaction PROVE x # Emotion!Idle
        OBVIOUS
      <4>1. x.op # "idle"
        BY DEF Emotion!Transaction, Emotion!Operations, Emotion!Writers
      <4> QED BY <4>1 DEF Emotion!Idle
    <3> QED BY <1>3, <3>1
  <2> QED BY <1>1, <2>1, <2>2 DEF LockKnown
<1>7. RowCounts' /\ NothingCounted'
  BY <1>1, <1>2 DEF RowCounts, NothingCounted
<1> QED BY <1>4, <1>5, <1>6, <1>7

\* The row that a commit leaves, of the copy and the computation done.
LEMMA MergedState ==
    ASSUME NEW c \in Emotion!State, NEW done, Computed(done, c), NEW age \in Emotion!Ages
    PROVE  /\ LET m == Emotion!Merged(Absent, done, age)
              IN  /\ m \in Emotion!State
                  /\ m.mood = done.row.mood /\ m.affinity = done.row.affinity
                  /\ m.interaction_count = done.row.interaction_count /\ m.streak_days = done.row.streak_days
           /\ \A base \in Emotion!State :
                  LET m == Emotion!Merged(base, done, age)
                  IN  /\ m \in Emotion!State
                      /\ base.mood = c.mood /\ base.affinity = c.affinity =>
                            m.mood = done.row.mood /\ m.affinity = done.row.affinity
                      /\ base.interaction_count = c.interaction_count /\ base.streak_days = c.streak_days =>
                            m.interaction_count = done.row.interaction_count /\ m.streak_days = done.row.streak_days
                      /\ done.dirty \subseteq {"mood", "affinity", "history"} =>
                            m.interaction_count = base.interaction_count /\ m.streak_days = base.streak_days
<1> DEFINE x == done.row
<1>1. x \in Emotion!State /\ \A k \in StateFields \ done.dirty : x[k] = c[k]
  BY StateColumns DEF Computed
<1>2. LET m == Emotion!Merged(Absent, done, age)
      IN  /\ m \in Emotion!State /\ m.mood = x.mood /\ m.affinity = x.affinity
          /\ m.interaction_count = x.interaction_count /\ m.streak_days = x.streak_days
  <2> DEFINE l == IF x.last = Null THEN Null ELSE age
             m == [x EXCEPT !.last = l]
  <2>1. Emotion!Merged(Absent, done, age) = m
    BY DEF Emotion!Merged
  <2>2. l \in Emotion!Ages \cup {Null}
    OBVIOUS
  <2> HIDE DEF l, x
  <2>3. /\ m \in Emotion!State /\ m.mood = x.mood /\ m.affinity = x.affinity
        /\ m.interaction_count = x.interaction_count /\ m.streak_days = x.streak_days
    BY <1>1, <2>2 DEF Emotion!State
  <2> QED BY <2>1, <2>3
<1>3. ASSUME NEW base \in Emotion!State
      PROVE  LET m == Emotion!Merged(base, done, age)
             IN  /\ m \in Emotion!State
                 /\ base.mood = c.mood /\ base.affinity = c.affinity =>
                       m.mood = x.mood /\ m.affinity = x.affinity
                 /\ base.interaction_count = c.interaction_count /\ base.streak_days = c.streak_days =>
                       m.interaction_count = x.interaction_count /\ m.streak_days = x.streak_days
                 /\ done.dirty \subseteq {"mood", "affinity", "history"} =>
                       m.interaction_count = base.interaction_count /\ m.streak_days = base.streak_days
  <2> DEFINE m == Emotion!Merged(base, done, age)
  <2>1. base # Absent
    OBVIOUS
  <2>2. m = [k \in StateFields |-> IF k \notin done.dirty THEN base[k] ELSE IF k = "last" THEN age ELSE x[k]]
    BY <2>1, StateColumns DEF Emotion!Merged
  <2> HIDE DEF x, m
  <2>3. /\ m = [mood |-> m.mood, affinity |-> m.affinity, streak_days |-> m.streak_days,
                interaction_count |-> m.interaction_count, last |-> m.last, history |-> m.history]
        /\ m.mood = (IF "mood" \in done.dirty THEN x.mood ELSE base.mood)
        /\ m.affinity = (IF "affinity" \in done.dirty THEN x.affinity ELSE base.affinity)
        /\ m.streak_days = (IF "streak_days" \in done.dirty THEN x.streak_days ELSE base.streak_days)
        /\ m.interaction_count =
              (IF "interaction_count" \in done.dirty THEN x.interaction_count ELSE base.interaction_count)
        /\ m.last = (IF "last" \in done.dirty THEN age ELSE base.last)
        /\ m.history = (IF "history" \in done.dirty THEN x.history ELSE base.history)
    BY <2>2 DEF StateFields
  <2>4. m \in Emotion!State
    BY <1>1, <2>3 DEF Emotion!State
  <2>5. /\ "mood" \notin done.dirty => x.mood = c.mood
        /\ "affinity" \notin done.dirty => x.affinity = c.affinity
        /\ "streak_days" \notin done.dirty => x.streak_days = c.streak_days
        /\ "interaction_count" \notin done.dirty => x.interaction_count = c.interaction_count
    BY <1>1 DEF StateFields
  <2>6. m \in Emotion!State /\
        (base.mood = c.mood /\ base.affinity = c.affinity => m.mood = x.mood /\ m.affinity = x.affinity)
    BY <2>3, <2>4, <2>5
  <2>7. base.interaction_count = c.interaction_count /\ base.streak_days = c.streak_days =>
           m.interaction_count = x.interaction_count /\ m.streak_days = x.streak_days
    BY <2>3, <2>5
  <2>8. done.dirty \subseteq {"mood", "affinity", "history"} =>
           m.interaction_count = base.interaction_count /\ m.streak_days = base.streak_days
    <3> SUFFICES ASSUME done.dirty \subseteq {"mood", "affinity", "history"}
                 PROVE  m.interaction_count = base.interaction_count /\ m.streak_days = base.streak_days
      OBVIOUS
    <3>1. "interaction_count" \notin done.dirty /\ "streak_days" \notin done.dirty
      OBVIOUS
    <3> QED BY <2>3, <3>1
  <2> QED BY <2>6, <2>7, <2>8 DEF m
<1> QED BY <1>2, <1>3

\* What a transaction that may write has computed at its commit.
LEMMA ResultIs ==
    ASSUME EmotionInv, NEW r \in Requests, tx[r] # Emotion!Idle, tx[r].pc = "end"
    PROVE  LET t == tx[r]
               done == Emotion!Result(t)
           IN  /\ Computed(done, t.copy)
               /\ t.op = "interact" =>
                     /\ done.row.interaction_count = t.copy.interaction_count + 1
                     /\ done.row.streak_days <= t.copy.streak_days + 1
               /\ t.op # "interact" =>
                     /\ done.row.interaction_count = t.copy.interaction_count
                     /\ done.row.streak_days = t.copy.streak_days
                     /\ done.dirty \subseteq {"mood", "affinity", "history"}
               /\ t.op \notin Emotion!Writers => done = Emotion!NoChange(t.copy)
<1> DEFINE t == tx[r]
<1>1. t \in Emotion!Transaction /\ t.copy \in Emotion!State /\ ledger \in Ledger
  BY TransactionTyped DEF Placed, EmotionInv, Emotion!TypeOK, Ledger
<1>2. t.sentiment \in Emotion!Sentiment
  BY <1>1 DEF Emotion!Transaction
<1>3. CASE t.op = "interact"
  <2>1. Emotion!Result(t) = Emotion!RecordInteraction(t.copy, t.sentiment)
    BY <1>3 DEF Emotion!Result
  <2> HIDE DEF t
  <2> QED BY <1>1, <1>2, <1>3, <2>1, InteractionComputed DEF t, Emotion!Writers
<1>4. CASE t.op = "headpat"
  <2>1. Emotion!Result(t) = Emotion!RecordHeadpat(t.copy)
    BY <1>4 DEF Emotion!Result
  <2> QED BY <1>1, <1>4, <2>1, HeadpatComputed DEF Emotion!Writers
<1>5. CASE t.op \notin Emotion!Writers
  <2>1. Emotion!Result(t) = Emotion!NoChange(t.copy)
    BY <1>5 DEF Emotion!Result, Emotion!Writers
  <2> QED BY <1>1, <1>5, <2>1, NothingComputed DEF Emotion!Writers
<1> QED BY <1>3, <1>4, <1>5 DEF Emotion!Writers

\* The row and the ledger after the commit of a writer.
LEMMA WriterCommits ==
    ASSUME EmotionInv, NEW r \in Requests, Emotion!Commit(r), tx[r].op \in Emotion!Writers
    PROVE  /\ state' \in Emotion!State /\ ledger' \in Ledger
           /\ RowCounts'
           /\ tx[r].op # "interact" /\ state \in Emotion!State =>
                 state'.interaction_count = state.interaction_count /\ state'.streak_days = state.streak_days
<1> DEFINE t == tx[r]
           done == Emotion!Result(t)
<1>1. t # Emotion!Idle /\ t.pc = "end"
  BY DEF Emotion!Commit
<1>2. t \in Emotion!Transaction /\ Placed(r, t, lock) /\ Fresh(t)
  BY <1>1, TransactionTyped
<1>3. lock = r /\ t.copy \in Emotion!State /\ t.age \in Emotion!Ages /\ t.op \in {"interact", "headpat"}
      /\ (state = Absent => t.copy = Emotion!NewState)
  BY <1>1, <1>2 DEF Placed, Emotion!Transaction, Emotion!Writers
<1>4. /\ state' = Emotion!Merged(state, done, t.age) /\ ledger' = done.ledger
      /\ count' = IF t.op = "interact" THEN count + 1 ELSE count
      /\ stateCrossed' = stateCrossed \cup {{t.op, op} : op \in t.stale}
  BY <1>3 DEF Emotion!Commit
<1>5. /\ Computed(done, t.copy)
      /\ t.op = "interact" =>
            done.row.interaction_count = t.copy.interaction_count + 1 /\ done.row.streak_days <= t.copy.streak_days + 1
      /\ t.op # "interact" =>
            /\ done.row.interaction_count = t.copy.interaction_count /\ done.row.streak_days = t.copy.streak_days
            /\ done.dirty \subseteq {"mood", "affinity", "history"}
  BY <1>1, ResultIs
<1>6. state \in Emotion!State \cup {Absent} /\ count \in Nat
  BY DEF EmotionInv, Emotion!TypeOK
<1> DEFINE w == Emotion!Merged(state, done, t.age)
<1>7. state = Absent => /\ w \in Emotion!State
                        /\ w.mood = done.row.mood /\ w.affinity = done.row.affinity
                        /\ w.interaction_count = done.row.interaction_count /\ w.streak_days = done.row.streak_days
  BY <1>3, <1>5, MergedState
<1>8. state \in Emotion!State =>
        /\ w \in Emotion!State
        /\ state.mood = t.copy.mood /\ state.affinity = t.copy.affinity =>
              w.mood = done.row.mood /\ w.affinity = done.row.affinity
        /\ state.interaction_count = t.copy.interaction_count /\ state.streak_days = t.copy.streak_days =>
              w.interaction_count = done.row.interaction_count /\ w.streak_days = done.row.streak_days
        /\ done.dirty \subseteq {"mood", "affinity", "history"} =>
              w.interaction_count = state.interaction_count /\ w.streak_days = state.streak_days
  BY <1>3, <1>5, MergedState
<1>9. state' = w
  BY <1>4
<1> HIDE DEF w, done
<1>10. t.stale # {} => stateCrossed' # {}
  BY <1>4
<1>11. t.op = "interact" /\ "interact" \in t.stale => {"interact"} \in stateCrossed'
  <2> SUFFICES ASSUME t.op = "interact", "interact" \in t.stale PROVE {"interact"} \in stateCrossed'
    OBVIOUS
  <2>1. {t.op, "interact"} \in stateCrossed'
    BY <1>4
  <2> QED BY <2>1
<1>12. ASSUME stateCrossed' = {} PROVE w.affinity = done.ledger.affinity /\ w.mood = done.ledger.mood
  <2>1. t.stale = {} /\ stateCrossed = {}
    BY <1>4, <1>10, <1>12
  <2>2. CASE state = Absent
    <3>1. ledger.affinity = t.copy.affinity /\ ledger.mood = t.copy.mood
      BY <1>3, <2>2, NewStateTyped DEF EmotionInv, NothingCounted
    <3> QED BY <1>5, <1>7, <2>2, <3>1 DEF Computed
  <2>3. CASE state \in Emotion!State
    <3>1. t.copy.mood = state.mood /\ t.copy.affinity = state.affinity
      BY <1>2, <1>3, <2>1, <2>3 DEF Fresh
    <3>2. ledger.affinity = t.copy.affinity /\ ledger.mood = t.copy.mood
      BY <2>1, <2>3, <3>1 DEF EmotionInv, RowCounts
    <3> QED BY <1>5, <1>8, <2>3, <3>1, <3>2 DEF Computed
  <2> QED BY <1>6, <2>2, <2>3
<1>13. ASSUME {"interact"} \notin stateCrossed' PROVE w.interaction_count = count' /\ w.streak_days <= count'
  <2>1. {"interact"} \notin stateCrossed /\ (t.op = "interact" => "interact" \notin t.stale)
    BY <1>4, <1>11, <1>13
  <2>2. CASE state = Absent
    <3>1. t.copy.interaction_count = 0 /\ t.copy.streak_days = 0 /\ count = 0
      BY <1>3, <2>2, NewStateTyped DEF EmotionInv, NothingCounted
    <3> QED BY <1>3, <1>4, <1>5, <1>7, <2>2, <3>1
  <2>3. CASE state \in Emotion!State
    <3>1. state.interaction_count = count /\ state.streak_days <= count /\ state.streak_days \in Nat
      BY <2>1, <2>3 DEF EmotionInv, RowCounts, Emotion!State
    <3>2. CASE t.op = "interact"
      <4>1. t.copy.interaction_count = state.interaction_count /\ t.copy.streak_days = state.streak_days
        BY <1>2, <1>3, <2>1, <2>3, <3>2 DEF Fresh
      <4>2. w.streak_days \in Nat
        BY <1>8, <2>3 DEF Emotion!State
      <4> QED BY <1>4, <1>5, <1>6, <1>8, <2>3, <3>1, <3>2, <4>1, <4>2
    <3>3. CASE t.op # "interact"
      BY <1>4, <1>5, <1>8, <2>3, <3>1, <3>3
    <3> QED BY <3>2, <3>3
  <2> QED BY <1>6, <2>2, <2>3
<1>14. RowCounts'
  BY <1>4, <1>9, <1>12, <1>13 DEF RowCounts
<1>15. w \in Emotion!State /\ done.ledger \in Ledger
  BY <1>5, <1>6, <1>7, <1>8 DEF Computed
<1> QED BY <1>4, <1>5, <1>8, <1>9, <1>14, <1>15

LEMMA EmotionCommitStep ==
    ASSUME EmotionInv, NEW r \in Requests, Emotion!Commit(r)
    PROVE  EmotionInv'
<1> DEFINE t == tx[r]
<1>1. t # Emotion!Idle /\ t.pc = "end" /\ t.op # "peek"
  BY DEF Emotion!Commit
<1>2. t \in Emotion!Transaction /\ Placed(r, t, lock)
  BY <1>1, TransactionTyped
<1>3. /\ tx \in [Requests -> Emotion!Transaction \cup {Emotion!Idle}] /\ lock \in Requests \cup {Null}
      /\ count \in Nat /\ stateCrossed \in SUBSET (SUBSET Emotion!Writers)
      /\ state \in Emotion!State \cup {Absent} /\ ledger \in Ledger /\ Null \notin Requests
  BY DEF EmotionInv, Emotion!TypeOK, Ledger
<1>4. CASE t.op \in Emotion!Writers
  <2>1. lock = r /\ lock' = Null
    BY <1>1, <1>2, <1>4 DEF Placed, Emotion!Commit
  <2>2. /\ count' \in Nat /\ stateCrossed' = stateCrossed \cup {{t.op, op} : op \in t.stale}
        /\ tx'[r] = Emotion!Idle
        /\ \A q \in Requests \ {r} :
              tx'[q] = IF tx[q] # Emotion!Idle /\ tx[q].pc = "flush"
                       THEN [tx[q] EXCEPT !.stale = @ \cup {t.op}] ELSE tx[q]
        /\ DOMAIN tx' = Requests /\ tx' = [q \in Requests |-> tx'[q]]
    BY <1>3, <1>4 DEF Emotion!Commit
  <2>3. \A q \in Requests \ {r} :
          /\ tx[q] = Emotion!Idle => tx'[q] = Emotion!Idle
          /\ tx[q] # Emotion!Idle =>
                /\ tx'[q] \in Emotion!Transaction /\ tx'[q].op = tx[q].op /\ tx'[q].pc = tx[q].pc
                /\ tx'[q].copy = tx[q].copy
                /\ tx'[q].stale = IF tx[q].pc = "flush" THEN tx[q].stale \cup {t.op} ELSE tx[q].stale
    <3> SUFFICES ASSUME NEW q \in Requests \ {r}, tx[q] # Emotion!Idle
                 PROVE  /\ tx'[q] \in Emotion!Transaction /\ tx'[q].op = tx[q].op /\ tx'[q].pc = tx[q].pc
                        /\ tx'[q].copy = tx[q].copy
                        /\ tx'[q].stale = IF tx[q].pc = "flush" THEN tx[q].stale \cup {t.op} ELSE tx[q].stale
      BY <2>2
    <3>1. tx[q] \in Emotion!Transaction
      BY TransactionTyped
    <3>2. CASE tx[q].pc = "flush"
      <4>1. tx'[q] = [tx[q] EXCEPT !.stale = tx[q].stale \cup {t.op}]
        BY <2>2, <3>2
      <4> DEFINE n == tx[q].stale \cup {t.op}
      <4>2. n \in SUBSET Emotion!Writers
        BY <1>4, <3>1 DEF Emotion!Transaction
      <4>3. tx'[q] = [tx[q] EXCEPT !.stale = n]
        BY <4>1
      <4> HIDE DEF n
      <4>4. /\ tx'[q] \in Emotion!Transaction /\ tx'[q].op = tx[q].op /\ tx'[q].pc = tx[q].pc
            /\ tx'[q].copy = tx[q].copy /\ tx'[q].stale = n
        BY <3>1, <4>2, <4>3 DEF Emotion!Transaction
      <4> QED BY <3>2, <4>4 DEF n
    <3>3. CASE tx[q].pc # "flush"
      BY <2>2, <3>1, <3>3
    <3> QED BY <3>2, <3>3
  <2>4. /\ state' \in Emotion!State /\ ledger' \in Ledger /\ RowCounts'
        /\ t.op # "interact" /\ state \in Emotion!State =>
              state'.interaction_count = state.interaction_count /\ state'.streak_days = state.streak_days
    BY <1>4, WriterCommits
  <2> HIDE DEF t
  <2>5. Emotion!TypeOK'
    <3>1. tx' \in [Requests -> Emotion!Transaction \cup {Emotion!Idle}]
      BY <2>2, <2>3
    <3>2. t.stale \subseteq Emotion!Writers
      BY <1>2 DEF Emotion!Transaction
    <3>3. {{t.op, op} : op \in t.stale} \subseteq SUBSET Emotion!Writers
      BY <1>4, <3>2
    <3>4. stateCrossed' \in SUBSET (SUBSET Emotion!Writers)
      BY <1>3, <2>2, <3>3
    <3> QED BY <2>1, <2>2, <2>4, <3>1, <3>4 DEF Emotion!TypeOK, Ledger
  <2>6. TransactionsSound'
    <3> SUFFICES ASSUME NEW q \in Requests, tx'[q] # Emotion!Idle
                 PROVE  Placed(q, tx[q], lock)' /\ Fresh(tx[q])'
      BY DEF TransactionsSound
    <3>1. /\ q # r /\ tx[q] # Emotion!Idle
          /\ tx'[q].op = tx[q].op /\ tx'[q].pc = tx[q].pc /\ tx'[q].copy = tx[q].copy
          /\ tx'[q].stale = IF tx[q].pc = "flush" THEN tx[q].stale \cup {t.op} ELSE tx[q].stale
      BY <2>2, <2>3
    <3>2. tx[q] \in Emotion!Transaction /\ Placed(q, tx[q], lock) /\ Fresh(tx[q])
      BY <3>1, TransactionTyped
    <3>3. tx[q].pc # "insert" => state \in Emotion!State
      BY <1>3, <2>1, <3>1, <3>2 DEF Placed
    <3>4. tx[q].op \in Emotion!Writers => tx[q].pc \in {"insert", "flush"}
      BY <2>1, <3>1, <3>2 DEF Placed, Emotion!Transaction
    <3>5. Placed(q, tx[q], lock)'
      <4>1. q # Null /\ state' # Absent
        BY <1>3, <2>4
      <4> QED BY <2>1, <3>1, <3>2, <4>1 DEF Placed
    <3>6. Fresh(tx[q])'
      <4> SUFFICES ASSUME tx[q].op \in Emotion!Writers, tx'[q].copy \in Emotion!State
                   PROVE  /\ tx'[q].stale = {} => tx'[q].copy.mood = state'.mood /\ tx'[q].copy.affinity = state'.affinity
                          /\ "interact" \notin tx'[q].stale =>
                                /\ tx'[q].copy.interaction_count = state'.interaction_count
                                /\ tx'[q].copy.streak_days = state'.streak_days
        BY <3>1 DEF Fresh
      <4>1. tx[q].pc = "flush"
        BY <3>1, <3>2, <3>4 DEF Placed
      <4>2. t.op \in tx'[q].stale /\ tx[q].stale \subseteq tx'[q].stale
        BY <3>1, <4>1
      <4>3. "interact" \notin tx'[q].stale =>
                /\ tx[q].copy.interaction_count = state.interaction_count
                /\ tx[q].copy.streak_days = state.streak_days
        BY <3>1, <3>2, <3>3, <4>1, <4>2 DEF Fresh
      <4> QED BY <2>4, <3>1, <3>3, <4>1, <4>2, <4>3
    <3> QED BY <3>5, <3>6
  <2>7. LockKnown' /\ NothingCounted'
    BY <2>1, <2>4 DEF LockKnown, NothingCounted
  <2> QED BY <2>4, <2>5, <2>6, <2>7 DEF EmotionInv
<1>5. CASE t.op \notin Emotion!Writers
  <2> DEFINE done == Emotion!Result(t)
  <2>1. done = Emotion!NoChange(t.copy) /\ Computed(done, t.copy)
    BY <1>1, <1>5, ResultIs
  <2>2. done.ledger = ledger /\ t.stale = {} /\ t.op # "interact"
    BY <1>2, <1>5, <2>1 DEF Placed, Emotion!NoChange, Emotion!Writers
  <2>3. {{t.op, op} : op \in t.stale} = {}
    BY <2>2
  <2>4. /\ UNCHANGED <<ledger, count, stateCrossed>> /\ tx' = [tx EXCEPT ![r] = Emotion!Idle]
        /\ lock' = (IF lock = r THEN Null ELSE lock)
        /\ state' = (IF lock = r THEN Emotion!Merged(state, done, t.age) ELSE state)
    BY <1>3, <1>5, <2>2, <2>3 DEF Emotion!Commit
  <2>5. CASE lock # r
    BY <2>4, <2>5, EmotionEndStep DEF Emotion!Ends
  <2>6. CASE lock = r
    <3>1. state = Absent /\ t.copy = Emotion!NewState /\ t.age \in Emotion!Ages
      BY <1>1, <1>2, <1>5, <2>6 DEF Placed, Emotion!Transaction
    <3>2. /\ state' \in Emotion!State
          /\ state'.mood = "neutral" /\ state'.affinity = 0 /\ state'.interaction_count = 0 /\ state'.streak_days = 0
      <4>1. done.row = Emotion!NewState
        BY <2>1, <3>1 DEF Emotion!NoChange
      <4> QED BY <2>1, <2>4, <2>6, <3>1, <4>1, MergedState, NewStateTyped
    <3>3. count = 0 /\ ledger.affinity = 0 /\ ledger.mood = "neutral"
      BY <3>1 DEF EmotionInv, NothingCounted
    <3>4. RowCounts' /\ NothingCounted' /\ LockKnown'
      BY <2>4, <2>6, <3>2, <3>3 DEF RowCounts, NothingCounted, LockKnown
    <3>5. Emotion!TypeOK'
      BY <2>4, <2>6, <3>2 DEF Emotion!TypeOK, EmotionInv
    <3>6. TransactionsSound'
      <4> SUFFICES ASSUME NEW q \in Requests, tx'[q] # Emotion!Idle
                   PROVE  Placed(q, tx[q], lock)' /\ Fresh(tx[q])'
        BY DEF TransactionsSound
      <4>1. q # r /\ tx'[q] = tx[q] /\ tx[q] # Emotion!Idle
        BY <1>3, <2>4
      <4>2. Placed(q, tx[q], lock)
        BY <4>1, TransactionTyped
      <4>3. tx[q].pc = "insert" /\ tx[q].copy = Absent
        BY <2>6, <3>1, <4>1, <4>2 DEF Placed
      <4>4. q # Null /\ lock' = Null
        BY <1>3, <2>4, <2>6
      <4> QED BY <4>1, <4>2, <4>3, <4>4 DEF Placed, Fresh
    <3> QED BY <3>4, <3>5, <3>6 DEF EmotionInv
  <2> QED BY <2>5, <2>6
<1> QED BY <1>4, <1>5

LEMMA EmotionStep == EmotionInv /\ Emotion!Next => EmotionInv'
<1> SUFFICES ASSUME EmotionInv, Emotion!Next PROVE EmotionInv'
  OBVIOUS
<1>1. ASSUME NEW r \in Requests, Emotion!Close(r) \/ Emotion!Rollback(r) PROVE EmotionInv'
  BY <1>1, EmotionEndStep DEF Emotion!Close, Emotion!Rollback
<1> QED
  BY <1>1, EmotionReadStep, EmotionInsertStep, EmotionFlushStep, EmotionCommitStep, HalfDayStep DEF Emotion!Next

\* The emotional state is what the committed interactions and headpats add up
\* to, but for those that another of them has overwritten.
THEOREM StateFollows == ServicesSpec => []StateFollowsEvents
<1>1. ServicesInit => EmotionInv
  BY EmotionInitially DEF ServicesInit
<1>2. EmotionInv /\ [ServicesNext]_<<service, missionVars, shellVars, emotionVars, studyVars,
                                     fileVars, storeVars, faults>> => EmotionInv'
  BY EmotionStep, EmotionStutter DEF ServicesNext, emotionVars
<1> QED
  BY <1>1, <1>2, EmotionInvGives, PTL DEF ServicesSpec

HIDE EmotionAssumed DEF Emotion!EmotionAssumption

-----------------------------------------------------------------------------
(* Shell sessions *)

USE ShellAssumed DEF Shell!PtyAssumption

AnyCall == Shell!ShellCall \cup Shell!CloseCall \cup {Shell!Idle}

Has(u) == sessions[u] # Null

\* The ids whose entries a call is settling, as Handles says.
Handled(c) ==
    IF c.pc \in {"touch", "take", "insert", "stamp"} THEN {c.user}
    ELSE IF c.pc \in {"look", "drop", "forget"}
    THEN Shell!ToSet(c.left) \cup IF c.then = "insert" THEN {c.user} ELSE {}
    ELSE {}

\* A call that will insert a session, or has and has not stamped it.
Creates(c) == c.pc \in {"insert", "stamp"} \/ (c.pc \in {"look", "drop", "forget"} /\ c.then = "insert")

Inserts(c) == Creates(c) /\ c.pc # "stamp"

InShell(c) == c.pc \in {"stamp", "begin", "running", "cd"}

\* Calls find the ids they close where they left them.
CallPlaced(c) ==
    /\ c.pc \in {"drop", "forget"} => c.left # <<>>
    /\ c.pc \in {"scan", "sweep", "find"} => c.then = "find"
    /\ InShell(c) => c.obj \in 1 .. Len(dir)

NoStampTwice == \A i, j \in DOMAIN activity : activity[i] = activity[j] => i = j

\* As long as no two calls have met in the dictionaries: who handles an id is
\* alone with it, ...
HandledAlone ==
    \A j, k \in ShellCalls :
        j # k => /\ Handled(call[j]) \cap Handled(call[k]) = {}
                 /\ ~(Creates(call[j]) /\ Creates(call[k]))

\* ... sees what it expects, ...
Sees(c) ==
    /\ c.pc \in {"touch", "take", "stamp"} => Has(c.user)
    /\ Inserts(c) => ~Has(c.user)
    /\ c.pc = "drop" => Has(Head(c.left))
    /\ c.pc = "forget" => ~Has(Head(c.left))
    /\ Inserts(c) /\ c.pc # "insert" =>
          Len(c.left) <= 1 /\ (c.pc = "look" /\ c.left # <<>> => Has(Head(c.left)))

\* ... has room for the session it will insert, ...
Makes(c) == Inserts(c) /\ (c.pc \in {"insert", "forget"} \/ (c.pc = "look" /\ c.left = <<>>))

HasRoom ==
    /\ Cardinality(Shell!Open) <= MaxSessions
    /\ \A k \in ShellCalls : Makes(call[k]) => Cardinality(Shell!Open) < MaxSessions

\* ... and a session without stamp or a stamp without session is about to be
\* stamped or forgotten.
StampsSettle ==
    /\ \A u \in Users : Has(u) /\ u \notin Shell!ToSet(activity) =>
          \E k \in ShellCalls : call[k].pc = "stamp" /\ call[k].user = u
    /\ \A u \in Users : ~Has(u) /\ u \in Shell!ToSet(activity) =>
          \E k \in ShellCalls : call[k].pc = "forget" /\ Head(call[k].left) = u

Accounted ==
    ~shellRaced => HandledAlone /\ (\A k \in ShellCalls : Sees(call[k])) /\ HasRoom /\ StampsSettle

SessionsInv ==
    Shell!TypeOK /\ (\A k \in ShellCalls : CallPlaced(call[k])) /\ NoStampTwice /\ Accounted

LEMMA ShellSets ==
    \A S : Shell!Cardinality(S) = Cardinality(S) /\ (Shell!IsFiniteSet(S) <=> IsFiniteSet(S))
<1>1. \A S : Shell!Cardinality(S) = Cardinality(S)
  BY DEF Shell!Cardinality, Cardinality
<1>2. \A S : Shell!IsFiniteSet(S) <=> IsFiniteSet(S)
  BY DEF Shell!IsFiniteSet, IsFiniteSet
<1> QED BY <1>1, <1>2

LEMMA CallFields ==
    ASSUME NEW c \in AnyCall
    PROVE  /\ c = Shell!Idle <=> c.pc = "idle"
           /\ c.pc \in {"idle", "scan", "sweep", "find", "look", "drop", "forget", "touch", "take",
                        "insert", "stamp", "begin", "running", "cd"}
           /\ c.pc \notin {"idle", "look", "drop", "forget"} => c \in Shell!ShellCall
           /\ c.pc \in {"look", "drop", "forget"} =>
                /\ c \in Shell!ShellCall \cup Shell!CloseCall
                /\ c.left \in Seq(Users) /\ c.user \in Users
                /\ c.then = "insert" => c \in Shell!ShellCall
           /\ c # Shell!Idle =>
                /\ c \in Shell!ShellCall <=> c.op = "shell"
                /\ c \in Shell!CloseCall <=> c.op = "close"
                /\ c.user \in Users /\ c.left \in Seq(Users)
           /\ Creates(c) => c \in Shell!ShellCall /\ c.user \in Users
  BY DEF AnyCall, Shell!ShellCall, Shell!CloseCall, Shell!Idle, Creates

LEMMA HandledIs == \A k \in ShellCalls : Shell!Handles(k) = Handled(call[k])
  BY DEF Shell!Handles, Handled

\* What a call sees depends on the entries of the ids it handles only.
LEMMA SeesHandled ==
    ASSUME NEW c \in AnyCall, CallPlaced(c), Sees(c),
           \A u \in Handled(c) : Has(u)' <=> Has(u)
    PROVE  Sees(c)'
<1>1. c.pc \in {"look", "drop", "forget"} /\ c.left # <<>> => Head(c.left) \in Handled(c)
  <2> SUFFICES ASSUME c.pc \in {"look", "drop", "forget"}, c.left # <<>>
               PROVE  Head(c.left) \in Shell!ToSet(c.left)
    BY DEF Handled
  <2>1. c.left \in Seq(Users)
    BY CallFields
  <2>2. Len(c.left) \in Nat /\ Len(c.left) # 0
    BY <2>1
  <2>3. Head(c.left) = c.left[1] /\ 1 \in DOMAIN c.left
    BY <2>1, <2>2
  <2> QED BY <2>3 DEF Shell!ToSet
<1>2. c.pc \in {"touch", "take", "stamp"} \/ Inserts(c) => c.user \in Handled(c)
  BY DEF Handled, Inserts, Creates
<1> HIDE DEF Handled, Has
<1> QED BY <1>1, <1>2 DEF Sees, CallPlaced, Inserts, Creates

LEMMA SessionsInvGives == SessionsInv => SessionsAccounted
<1> SUFFICES ASSUME SessionsInv, ~shellRaced
             PROVE  /\ Cardinality(Shell!Open) <= MaxSessions
                    /\ (\A k \in ShellCalls : ~Shell!InManager(k)) => Shell!Open = Shell!ToSet(activity)
  BY ShellSets DEF SessionsAccounted, Shell!SessionsAccounted, SessionsInv
<1>1. HasRoom /\ StampsSettle
  BY DEF SessionsInv, Accounted
<1>2. ASSUME \A k \in ShellCalls : ~Shell!InManager(k)
      PROVE  Shell!Open = Shell!ToSet(activity)
  <2>1. \A k \in ShellCalls : call[k].pc # "stamp" /\ call[k].pc # "forget"
    BY <1>2 DEF Shell!InManager, Shell!Executing
  <2>2. \A u \in Users : Has(u) <=> u \in Shell!ToSet(activity)
    BY <1>1, <2>1 DEF StampsSettle
  <2>3. Shell!ToSet(activity) \subseteq Users
    BY DEF SessionsInv, Shell!TypeOK, Shell!ToSet
  <2> QED BY <2>2, <2>3 DEF Shell!Open, Has
<1> QED BY <1>1, <1>2 DEF HasRoom

LEMMA SessionsInitially == Shell!Init => SessionsInv
<1> SUFFICES ASSUME Shell!Init PROVE SessionsInv
  OBVIOUS
<1>1. /\ sessions = [u \in Users |-> Null] /\ activity = <<>> /\ dir = <<>>
      /\ \A k \in ShellCalls : call[k] = Shell!Idle
      /\ call = [k \in ShellCalls |-> Shell!Idle]
      /\ reported = [u \in Users |-> Null] /\ excused = {} /\ shellRaced = FALSE
  BY DEF Shell!Init
<1>2. Shell!TypeOK
  <2>1. activity \in Seq(Users) /\ dir \in Seq(Dirs)
    BY <1>1
  <2>2. call \in [ShellCalls -> Shell!ShellCall \cup Shell!CloseCall \cup {Shell!Idle}]
    BY <1>1
  <2>3. sessions \in [Users -> (1..Len(dir)) \cup {Null}] /\ reported \in [Users -> Dirs \cup {Null}]
    BY <1>1
  <2> QED BY <1>1, <2>1, <2>2, <2>3 DEF Shell!TypeOK
<1>3. \A k \in ShellCalls : call[k].pc = "idle"
  BY <1>1 DEF Shell!Idle
<1>4. Shell!Open = {} /\ Shell!ToSet(activity) = {}
  BY <1>1 DEF Shell!Open, Shell!ToSet
<1>5. HasRoom
  BY <1>3, <1>4, FS_EmptySet DEF HasRoom, Makes, Inserts, Creates
<1>6. HandledAlone /\ (\A k \in ShellCalls : Sees(call[k]) /\ CallPlaced(call[k]))
  BY <1>3 DEF HandledAlone, Handled, Sees, CallPlaced, Inserts, Creates, InShell
<1>7. StampsSettle
  <2>1. \A u \in Users : ~Has(u) /\ u \notin Shell!ToSet(activity)
    BY <1>1, <1>4 DEF Has
  <2> QED BY <2>1 DEF StampsSettle
<1>8. NoStampTwice
  BY <1>1 DEF NoStampTwice
<1> QED BY <1>2, <1>5, <1>6, <1>7, <1>8 DEF SessionsInv, Accounted

LEMMA SessionsStutter == SessionsInv /\ UNCHANGED shellVars => SessionsInv'
<1> SUFFICES ASSUME SessionsInv, UNCHANGED shellVars PROVE SessionsInv'
  OBVIOUS
<1>1. UNCHANGED <<sessions, activity, dir, call, reported, excused, shellRaced>>
  BY DEF shellVars
<1>2. /\ Shell!TypeOK' /\ NoStampTwice' /\ Shell!Open' = Shell!Open
      /\ \A k \in ShellCalls : CallPlaced(call[k])'
  BY <1>1 DEF SessionsInv, Shell!TypeOK, NoStampTwice, Shell!Open, CallPlaced
<1>3. Accounted'
  BY <1>1, <1>2 DEF SessionsInv, Accounted, HandledAlone, Sees, HasRoom, StampsSettle, Has
<1> QED BY <1>2, <1>3 DEF SessionsInv

\* What a step of one call has to show.
LEMMA CallSteps ==
    ASSUME SessionsInv, NEW k \in ShellCalls, NEW c \in AnyCall,
           call' = [call EXCEPT ![k] = c],
           sessions' \in [Users -> (1..Len(dir')) \cup {Null}],
           activity' \in Seq(Users), dir' \in Seq(Dirs), Len(dir') >= Len(dir),
           reported' \in [Users -> Dirs \cup {Null}], excused' \in SUBSET Users,
           shellRaced' \in BOOLEAN, shellRaced => shellRaced',
           NoStampTwice', c.pc # "idle" => CallPlaced(c)',
           ~shellRaced' =>
              /\ \A j \in ShellCalls : j # k =>
                    /\ Handled(c) \cap Handled(call[j]) = {}
                    /\ ~(Creates(c) /\ Creates(call[j]))
              /\ Sees(c)'
              /\ \A u \in Users : u \notin Handled(call[k]) => (Has(u)' <=> Has(u))
              /\ HasRoom' /\ StampsSettle'
    PROVE  SessionsInv'
<1>1. call \in [ShellCalls -> AnyCall]
  BY DEF SessionsInv, Shell!TypeOK, AnyCall
<1>2. call'[k] = c /\ \A j \in ShellCalls : j # k => call'[j] = call[j]
  BY <1>1
<1>3. Shell!TypeOK'
  <2>1. call' \in [ShellCalls -> AnyCall]
    BY <1>1
  <2> QED BY <2>1 DEF Shell!TypeOK, AnyCall
<1>4. \A j \in ShellCalls : CallPlaced(call[j])'
  <2>1. CallPlaced(c)'
    <3>1. c.pc = "idle" => CallPlaced(c)'
      BY DEF CallPlaced, InShell
    <3> QED BY <3>1
  <2>2. ASSUME NEW j \in ShellCalls, j # k PROVE CallPlaced(call[j])'
    <3>1. CallPlaced(call[j]) /\ call'[j] = call[j] /\ Len(dir) \in Nat /\ Len(dir') \in Nat
      BY <1>2, <2>2 DEF SessionsInv, Shell!TypeOK
    <3> QED BY <3>1 DEF CallPlaced
  <2> QED BY <1>2, <2>1, <2>2 DEF CallPlaced
<1>5. ASSUME ~shellRaced' PROVE HandledAlone' /\ \A j \in ShellCalls : Sees(call[j])'
  <2>1. HandledAlone /\ \A j \in ShellCalls : Sees(call[j])
    BY <1>5 DEF SessionsInv, Accounted
  <2>2. HandledAlone'
    <3> HIDE DEF Handled, Creates
    <3> SUFFICES ASSUME NEW i \in ShellCalls, NEW j \in ShellCalls, i # j
                 PROVE  /\ Handled(call'[i]) \cap Handled(call'[j]) = {}
                        /\ ~(Creates(call'[i]) /\ Creates(call'[j]))
      BY DEF HandledAlone
    <3>1. CASE i # k /\ j # k
      BY <1>2, <2>1, <3>1 DEF HandledAlone
    <3>2. CASE i = k
      BY <1>2, <1>5, <3>2
    <3>3. CASE j = k
      BY <1>2, <1>5, <3>3
    <3> QED BY <3>1, <3>2, <3>3
  <2>3. ASSUME NEW j \in ShellCalls, j # k PROVE Sees(call[j])'
    <3>1. call[j] \in AnyCall /\ CallPlaced(call[j]) /\ Sees(call[j]) /\ call'[j] = call[j]
      BY <1>1, <1>2, <2>1, <2>3 DEF SessionsInv
    <3>2. Handled(call[j]) \cap Handled(call[k]) = {}
      BY <2>1, <2>3 DEF HandledAlone
    <3>3. Handled(call[j]) \subseteq Users
      BY <3>1, CallFields DEF Handled, Shell!ToSet
    <3>4. \A u \in Handled(call[j]) : Has(u)' <=> Has(u)
      BY <1>5, <3>2, <3>3
    <3> PICK d \in AnyCall : d = call[j]
      BY <3>1
    <3>5. CallPlaced(d) /\ Sees(d) /\ (\A u \in Handled(d) : Has(u)' <=> Has(u)) /\ call'[j] = d
      BY <3>1, <3>4
    <3>6. Sees(d)'
      BY <3>5, SeesHandled
    <3> QED BY <3>5, <3>6
  <2> QED BY <1>2, <1>5, <2>2, <2>3
<1> QED BY <1>3, <1>4, <1>5 DEF SessionsInv, Accounted

Distinct(s) == \A i, j \in DOMAIN s : s[i] = s[j] => i = j

LEMMA RemoveAtIs ==
    ASSUME NEW s \in Seq(Users), NEW i \in 1 .. Len(s)
    PROVE  LET r == Shell!RemoveAt(s, i)
           IN  /\ r \in Seq(Users) /\ Len(r) = Len(s) - 1
               /\ \A j \in 1 .. Len(s) - 1 : r[j] = IF j < i THEN s[j] ELSE s[j + 1]
<1> DEFINE a == SubSeq(s, 1, i - 1)
           b == SubSeq(s, i + 1, Len(s))
           r == Shell!RemoveAt(s, i)
<1>1. Len(s) \in Nat /\ i \in Nat /\ i >= 1 /\ i <= Len(s)
  OBVIOUS
<1>2. a \in Seq(Users) /\ Len(a) = i - 1 /\ \A j \in 1 .. i - 1 : a[j] = s[j]
  <2>1. \A j \in 1 .. i - 1 : s[j] \in Users
    BY <1>1
  <2> QED BY <1>1, <2>1, SubSeqProperties
<1>3. b \in Seq(Users) /\ Len(b) = Len(s) - i /\ \A j \in 1 .. Len(s) - i : b[j] = s[j + i]
  <2>1. i + 1 \in 1 .. Len(s) + 1 /\ Len(s) \in (i + 1) - 1 .. Len(s)
    BY <1>1
  <2>2. b \in Seq(Users) /\ Len(b) = Len(s) - (i + 1) + 1 /\ \A j \in 1 .. Len(s) - (i + 1) + 1 : b[j] = s[(i + 1) + j - 1]
    BY <2>1, SubSeqProperties
  <2>3. Len(s) - (i + 1) + 1 = Len(s) - i
    BY <1>1
  <2>4. \A j \in 1 .. Len(s) - i : (i + 1) + j - 1 = j + i
    BY <1>1
  <2> QED BY <2>2, <2>3, <2>4
<1>4. r = a \o b
  BY DEF Shell!RemoveAt
<1> HIDE DEF a, b, r
<1>5. r \in Seq(Users) /\ Len(r) = Len(s) - 1
  BY <1>1, <1>2, <1>3, <1>4
<1>6. ASSUME NEW j \in 1 .. Len(s) - 1
      PROVE  r[j] = IF j < i THEN s[j] ELSE s[j + 1]
  <2>1. CASE j < i
    <3>1. j \in 1 .. Len(a)
      BY <1>1, <1>2, <2>1
    <3>2. r[j] = a[j]
      BY <1>2, <1>3, <1>4, <3>1, ConcatProperties
    <3> QED BY <1>1, <1>2, <2>1, <3>2
  <2>2. CASE ~(j < i)
    <3>1. j \in Len(a) + 1 .. Len(a) + Len(b) /\ j - (i - 1) \in 1 .. Len(s) - i /\ (j - (i - 1)) + i = j + 1
      BY <1>1, <1>2, <1>3, <2>2
    <3>2. r[j] = b[j - (i - 1)]
      BY <1>1, <1>2, <1>3, <1>4, <3>1
    <3> QED BY <1>3, <2>2, <3>1, <3>2
  <2> QED BY <2>1, <2>2
<1> QED BY <1>5, <1>6 DEF r

\* An id leaves the stamps for good, as no id has two.
LEMMA ForgottenIs ==
    ASSUME activity \in Seq(Users), NoStampTwice, NEW u \in Users
    PROVE  /\ Shell!Forgotten(u) \in Seq(Users) /\ Distinct(Shell!Forgotten(u))
           /\ Shell!ToSet(Shell!Forgotten(u)) = Shell!ToSet(activity) \ {u}
<1> DEFINE f == Shell!Forgotten(u)
<1>1. CASE u \notin Shell!ToSet(activity)
  BY <1>1 DEF Shell!Forgotten, NoStampTwice, Distinct
<1>2. CASE u \in Shell!ToSet(activity)
  <2> DEFINE n == CHOOSE i \in DOMAIN activity : activity[i] = u
  <2>1. n \in 1 .. Len(activity) /\ activity[n] = u
    BY <1>2 DEF Shell!ToSet
  <2>2. f = Shell!RemoveAt(activity, n)
    BY <1>2 DEF Shell!Forgotten
  <2> HIDE DEF n, f
  <2>3. /\ f \in Seq(Users) /\ Len(f) = Len(activity) - 1
        /\ \A j \in 1 .. Len(activity) - 1 : f[j] = IF j < n THEN activity[j] ELSE activity[j + 1]
    BY <2>1, <2>2, RemoveAtIs
  <2>4. Len(activity) \in Nat /\ DOMAIN activity = 1 .. Len(activity) /\ DOMAIN f = 1 .. Len(activity) - 1
    BY <2>3
  <2>5. Distinct(f)
    <3> SUFFICES ASSUME NEW i \in 1 .. Len(activity) - 1, NEW j \in 1 .. Len(activity) - 1, f[i] = f[j]
                 PROVE  i = j
      BY <2>4 DEF Distinct
    <3> DEFINE p == IF i < n THEN i ELSE i + 1
               q == IF j < n THEN j ELSE j + 1
    <3>1. activity[p] = activity[q] /\ p \in DOMAIN activity /\ q \in DOMAIN activity
      BY <2>1, <2>3, <2>4
    <3>2. p = q
      BY <3>1 DEF NoStampTwice
    <3> QED BY <2>1, <2>4, <3>2
  <2>6. ASSUME NEW i \in DOMAIN f PROVE f[i] \in Shell!ToSet(activity) /\ f[i] # u
    <3> DEFINE p == IF i < n THEN i ELSE i + 1
    <3>1. f[i] = activity[p] /\ p \in DOMAIN activity /\ p # n /\ n \in DOMAIN activity
      BY <2>1, <2>3, <2>4
    <3> HIDE DEF p
    <3>2. activity[p] # activity[n]
      BY <3>1 DEF NoStampTwice
    <3> QED BY <2>1, <3>1, <3>2 DEF Shell!ToSet
  <2>7. ASSUME NEW v \in Shell!ToSet(activity), v # u PROVE v \in Shell!ToSet(f)
    <3> PICK p \in DOMAIN activity : activity[p] = v
      BY DEF Shell!ToSet
    <3> DEFINE i == IF p < n THEN p ELSE p - 1
    <3>1. p # n
      BY <2>1, <2>7
    <3>2. i \in DOMAIN f /\ f[i] = v
      BY <2>1, <2>3, <2>4, <3>1
    <3> HIDE DEF i
    <3> QED BY <3>2 DEF Shell!ToSet
  <2>8. Shell!ToSet(f) = Shell!ToSet(activity) \ {u}
    <3>1. \A v : v \in Shell!ToSet(f) <=> \E i \in DOMAIN f : f[i] = v
      BY DEF Shell!ToSet
    <3>2. Shell!ToSet(f) \subseteq Shell!ToSet(activity) \ {u}
      BY <2>6, <3>1
    <3> QED BY <2>7, <3>2
  <2> QED BY <2>3, <2>5, <2>8 DEF f
<1> QED BY <1>1, <1>2

LEMMA StampedIs ==
    ASSUME activity \in Seq(Users), NoStampTwice, NEW u \in Users
    PROVE  /\ Shell!Stamped(u) \in Seq(Users) /\ Distinct(Shell!Stamped(u))
           /\ Shell!ToSet(Shell!Stamped(u)) = Shell!ToSet(activity) \cup {u}
<1> DEFINE f == Shell!Forgotten(u)
           s == Shell!Stamped(u)
<1>1. f \in Seq(Users) /\ Distinct(f) /\ Shell!ToSet(f) = Shell!ToSet(activity) \ {u}
  BY ForgottenIs
<1>2. s = Append(f, u)
  BY DEF Shell!Stamped
<1> HIDE DEF f, s
<1>3. /\ s \in Seq(Users) /\ Len(s) = Len(f) + 1 /\ Len(f) \in Nat
      /\ \A i \in 1 .. Len(f) : s[i] = f[i]
      /\ s[Len(f) + 1] = u
  BY <1>1, <1>2
<1>4. /\ DOMAIN f = 1 .. Len(f) /\ DOMAIN s = 1 .. Len(f) + 1
      /\ \A i \in DOMAIN s : i \in DOMAIN f \/ i = Len(f) + 1
  BY <1>1, <1>3
<1>5. \A i \in DOMAIN f : f[i] # u
  BY <1>1 DEF Shell!ToSet
<1>6. Distinct(s)
  BY <1>1, <1>3, <1>4, <1>5 DEF Distinct
<1>7. \A v : v \in Shell!ToSet(s) <=> v \in Shell!ToSet(f) \/ v = u
  <2>1. \A v : v \in Shell!ToSet(s) <=> \E i \in DOMAIN s : s[i] = v
    BY DEF Shell!ToSet
  <2>2. \A v : v \in Shell!ToSet(f) <=> \E i \in DOMAIN f : f[i] = v
    BY DEF Shell!ToSet
  <2>3. Len(f) + 1 \in DOMAIN s /\ \A i \in DOMAIN f : i \in DOMAIN s
    BY <1>3, <1>4
  <2> QED BY <1>3, <1>4, <2>1, <2>2, <2>3
<1>8. u \in Shell!ToSet(s)
  BY <1>7
<1> QED BY <1>1, <1>3, <1>6, <1>7, <1>8 DEF s

Apart(k, c) ==
    \A j \in ShellCalls : j # k =>
        /\ Handled(c) \cap Handled(call[j]) = {}
        /\ ~(Creates(c) /\ Creates(call[j]))

\* A call stays alone with what it keeps.
LEMMA StillApart ==
    ASSUME HandledAlone, NEW k \in ShellCalls, NEW c,
           Handled(c) \subseteq Handled(call[k]), Creates(c) => Creates(call[k])
    PROVE  Apart(k, c)
<1> HIDE DEF Handled, Creates
<1> QED BY DEF HandledAlone, Apart

\* Steps that only move a call.
LEMMA CallMoves ==
    ASSUME SessionsInv, NEW k \in ShellCalls, NEW c \in AnyCall,
           call' = [call EXCEPT ![k] = c], UNCHANGED <<sessions, activity, dir, reported>>,
           excused' \in SUBSET Users, shellRaced' \in BOOLEAN, shellRaced => shellRaced',
           call[k].pc \notin {"stamp", "forget"}, c.pc # "idle" => CallPlaced(c),
           ~shellRaced' => Apart(k, c) /\ Sees(c) /\ (Makes(c) => Cardinality(Shell!Open) < MaxSessions)
    PROVE  SessionsInv'
<1>1. Shell!TypeOK /\ Shell!Open' = Shell!Open /\ (CallPlaced(c) => CallPlaced(c)') /\ (Sees(c) => Sees(c)')
  BY DEF SessionsInv, Shell!Open, CallPlaced, Sees, Has
<1>2. NoStampTwice'
  BY DEF SessionsInv, NoStampTwice
<1>3. call'[k] = c /\ \A j \in ShellCalls : j # k => call'[j] = call[j]
  BY <1>1 DEF Shell!TypeOK
<1>4. ASSUME ~shellRaced' PROVE HasRoom' /\ StampsSettle'
  <2>1. HasRoom /\ StampsSettle
    BY <1>4 DEF SessionsInv, Accounted
  <2>2. HasRoom'
    <3>1. \A j \in ShellCalls : Makes(call'[j]) => Cardinality(Shell!Open) < MaxSessions
      BY <1>3, <1>4, <2>1 DEF HasRoom
    <3> QED BY <1>1, <2>1, <3>1 DEF HasRoom
  <2>3. StampsSettle'
    BY <1>3, <2>1 DEF StampsSettle, Has
  <2> QED BY <2>2, <2>3
<1>5. /\ sessions' \in [Users -> (1..Len(dir')) \cup {Null}]
      /\ activity' \in Seq(Users) /\ dir' \in Seq(Dirs) /\ Len(dir') >= Len(dir)
      /\ reported' \in [Users -> Dirs \cup {Null}]
  BY <1>1 DEF Shell!TypeOK
<1>6. \A u \in Users : Has(u)' <=> Has(u)
  BY DEF Has
<1>7. ~shellRaced' =>
        /\ \A j \in ShellCalls : j # k =>
              /\ Handled(c) \cap Handled(call[j]) = {}
              /\ ~(Creates(c) /\ Creates(call[j]))
        /\ Sees(c)'
        /\ \A u \in Users : u \notin Handled(call[k]) => (Has(u)' <=> Has(u))
        /\ HasRoom' /\ StampsSettle'
  BY <1>1, <1>4, <1>6 DEF Apart
<1>8. c.pc # "idle" => CallPlaced(c)'
  BY <1>1
<1> QED BY <1>2, <1>5, <1>7, <1>8, CallSteps

LEMMA IdleFits ==
    /\ Shell!Idle \in AnyCall /\ Shell!Idle.pc = "idle" /\ Sees(Shell!Idle) /\ ~Makes(Shell!Idle)
    /\ \A k \in ShellCalls : Apart(k, Shell!Idle)
<1>1. Shell!Idle \in AnyCall /\ Shell!Idle.pc = "idle"
  BY DEF AnyCall, Shell!Idle
<1>2. Handled(Shell!Idle) = {} /\ ~Creates(Shell!Idle)
  BY <1>1 DEF Handled, Creates
<1> QED BY <1>1, <1>2 DEF Apart, Sees, Makes, Inserts

LEMMA FailsStep ==
    SessionsInv => \A k \in ShellCalls :
        Shell!Fails(k) /\ call[k].pc \notin {"stamp", "forget"} => SessionsInv'
<1> SUFFICES ASSUME SessionsInv, NEW k \in ShellCalls, Shell!Fails(k), call[k].pc \notin {"stamp", "forget"}
             PROVE  SessionsInv'
  OBVIOUS
<1>1. Shell!TypeOK
  BY DEF SessionsInv
<1> PICK c \in AnyCall : c = Shell!Idle
  BY IdleFits
<1>2. c.pc = "idle" /\ Sees(c) /\ ~Makes(c) /\ Apart(k, c) /\ call' = [call EXCEPT ![k] = c]
  BY IdleFits DEF Shell!Fails
<1>3. /\ UNCHANGED <<sessions, activity, dir, reported>> /\ shellRaced' = shellRaced
      /\ excused' \in SUBSET Users /\ shellRaced' \in BOOLEAN
  BY <1>1 DEF Shell!Fails, Shell!TypeOK
<1> QED BY <1>2, <1>3, CallMoves

LEMMA ExecuteStep ==
    SessionsInv => \A k \in ShellCalls, u \in Users, w \in Dirs \cup {Null} :
        Shell!ExecuteShell(k, u, w) => SessionsInv'
<1> SUFFICES ASSUME SessionsInv, NEW k \in ShellCalls, NEW u \in Users, NEW w \in Dirs \cup {Null},
                    Shell!ExecuteShell(k, u, w)
             PROVE  SessionsInv'
  OBVIOUS
<1>1. Shell!TypeOK
  BY DEF SessionsInv
<1> DEFINE new == [pc |-> "scan", op |-> "shell", user |-> u, wd |-> w, size |-> 0, left |-> <<>>,
                   then |-> "find", obj |-> Null, at |-> Null]
<1>2. new \in AnyCall
  <2>1. <<>> \in Seq(Users)
    OBVIOUS
  <2> QED BY <2>1 DEF AnyCall, Shell!ShellCall
<1> PICK c \in AnyCall : c = new
  BY <1>2
<1>3. c.pc = "scan" /\ c.then = "find" /\ call' = [call EXCEPT ![k] = c]
  BY DEF Shell!ExecuteShell
<1> HIDE DEF new
<1>4. /\ UNCHANGED <<sessions, activity, dir, reported>> /\ shellRaced' = shellRaced
      /\ excused' \in SUBSET Users /\ shellRaced' \in BOOLEAN
  BY <1>1 DEF Shell!ExecuteShell, Shell!TypeOK
<1>5. call[k].pc = "idle"
  BY DEF Shell!ExecuteShell, Shell!Idle
<1>6. Handled(c) = {} /\ ~Creates(c) /\ CallPlaced(c)
  BY <1>3 DEF Handled, Creates, CallPlaced, InShell
<1>7. Apart(k, c) /\ Sees(c) /\ ~Makes(c)
  BY <1>3, <1>6 DEF Apart, Sees, Makes, Inserts
<1> QED BY <1>3, <1>4, <1>5, <1>6, <1>7, CallMoves

LEMMA MeetsNone ==
    ASSUME NEW k \in ShellCalls, NEW ids, ~Shell!Meets(k, ids)
    PROVE  \A j \in ShellCalls : j # k => ids \cap Handled(call[j]) = {}
  BY HandledIs DEF Shell!Meets

LEMMA CloseStep ==
    SessionsInv => \A k \in ShellCalls, u \in Users : Shell!CloseShellSession(k, u) => SessionsInv'
<1> SUFFICES ASSUME SessionsInv, NEW k \in ShellCalls, NEW u \in Users, Shell!CloseShellSession(k, u)
             PROVE  SessionsInv'
  OBVIOUS
<1>1. Shell!TypeOK
  BY DEF SessionsInv
<1> DEFINE new == [pc |-> "look", op |-> "close", user |-> u, left |-> <<u>>, then |-> "idle"]
<1>2. new \in AnyCall
  <2>1. <<u>> \in Seq(Users)
    OBVIOUS
  <2> QED BY <2>1 DEF AnyCall, Shell!CloseCall
<1> PICK c \in AnyCall : c = new
  BY <1>2
<1>3. c.pc = "look" /\ c.then = "idle" /\ c.left = <<u>> /\ call' = [call EXCEPT ![k] = c]
  BY DEF Shell!CloseShellSession
<1> HIDE DEF new
<1>4. /\ UNCHANGED <<sessions, activity, dir, reported>>
      /\ shellRaced' = (shellRaced \/ Shell!Meets(k, {u}))
      /\ excused' \in SUBSET Users
  BY <1>1 DEF Shell!CloseShellSession, Shell!TypeOK
<1>5. call[k].pc = "idle"
  BY DEF Shell!CloseShellSession, Shell!Idle
<1>6. Handled(c) = {u} /\ ~Creates(c) /\ CallPlaced(c)
  BY <1>3 DEF Handled, Creates, CallPlaced, InShell, Shell!ToSet
<1>7. ~shellRaced' => Apart(k, c)
  BY <1>4, <1>6, MeetsNone DEF Apart
<1>8. Sees(c) /\ ~Makes(c)
  BY <1>3, <1>6 DEF Sees, Makes, Inserts
<1>9. shellRaced' \in BOOLEAN /\ (shellRaced => shellRaced')
  BY <1>1, <1>4 DEF Shell!TypeOK
<1> QED BY <1>3, <1>4, <1>5, <1>6, <1>7, <1>8, <1>9, CallMoves

LEMMA ScanStep == SessionsInv => \A k \in ShellCalls : Shell!Scan(k) => SessionsInv'
<1> SUFFICES ASSUME SessionsInv, NEW k \in ShellCalls, Shell!Scan(k) PROVE SessionsInv'
  OBVIOUS
<1>1. Shell!TypeOK /\ call[k] \in AnyCall
  BY DEF SessionsInv, Shell!TypeOK, AnyCall
<1>2. call[k].pc = "scan" /\ call[k] \in Shell!ShellCall /\ call[k].then = "find"
  BY <1>1, CallFields DEF Shell!Scan, SessionsInv, CallPlaced
<1>3. Len(activity) \in Nat
  BY <1>1 DEF Shell!TypeOK
<1> DEFINE new == [call[k] EXCEPT !.pc = "sweep", !.size = Len(activity)]
<1>4. new \in AnyCall
  BY <1>2, <1>3 DEF AnyCall, Shell!ShellCall
<1> PICK c \in AnyCall : c = new
  BY <1>4
<1>5. c.pc = "sweep" /\ c.then = "find" /\ call' = [call EXCEPT ![k] = c]
  BY <1>1, <1>2 DEF Shell!Scan, Shell!ShellCall, Shell!TypeOK
<1> HIDE DEF new
<1>6. Handled(c) = {} /\ ~Creates(c) /\ CallPlaced(c)
  BY <1>5 DEF Handled, Creates, CallPlaced, InShell
<1>7. Apart(k, c) /\ Sees(c) /\ ~Makes(c)
  BY <1>5, <1>6 DEF Apart, Sees, Makes, Inserts
<1>8. /\ UNCHANGED <<sessions, activity, dir, reported>> /\ shellRaced' = shellRaced
      /\ excused' \in SUBSET Users /\ shellRaced' \in BOOLEAN
  BY <1>1 DEF Shell!Scan, Shell!TypeOK
<1> QED BY <1>2, <1>5, <1>6, <1>7, <1>8, CallMoves

LEMMA SweepStep == SessionsInv => \A k \in ShellCalls : Shell!Sweep(k) => SessionsInv'
<1> SUFFICES ASSUME SessionsInv, NEW k \in ShellCalls, Shell!Sweep(k) PROVE SessionsInv'
  OBVIOUS
<1>1. Shell!TypeOK /\ call[k] \in AnyCall
  BY DEF SessionsInv, Shell!TypeOK, AnyCall
<1>2. call[k].pc = "sweep" /\ call[k] \in Shell!ShellCall /\ call[k].then = "find"
  BY <1>1, CallFields DEF Shell!Sweep, SessionsInv, CallPlaced
<1>3. CASE Shell!Fails(k)
  BY <1>2, <1>3, FailsStep
<1>4. CASE ~Shell!Fails(k)
  <2>1. PICK n \in 0 .. Len(activity) :
           /\ call' = [call EXCEPT ![k].pc = "look", ![k].left = SubSeq(activity, 1, n)]
           /\ shellRaced' = (shellRaced \/ Shell!Meets(k, Shell!ToSet(SubSeq(activity, 1, n))))
           /\ UNCHANGED <<sessions, activity, dir, reported, excused>>
    BY <1>4 DEF Shell!Sweep
  <2> DEFINE left == SubSeq(activity, 1, n)
             new == [call[k] EXCEPT !.pc = "look", !.left = left]
  <2>2. left \in Seq(Users)
    <3>1. activity \in Seq(Users) /\ Len(activity) \in Nat /\ \A i \in 1 .. n : activity[i] \in Users
      BY <1>1, <2>1 DEF Shell!TypeOK
    <3> QED BY <3>1, SubSeqProperties
  <2>3. call' = [call EXCEPT ![k] = new]
    BY <1>1, <2>1 DEF Shell!TypeOK
  <2>4. shellRaced' = (shellRaced \/ Shell!Meets(k, Shell!ToSet(left)))
    BY <2>1
  <2> HIDE DEF left
  <2>5. new \in AnyCall /\ new.pc = "look" /\ new.left = left /\ new.then = "find"
    BY <1>2, <2>2 DEF AnyCall, Shell!ShellCall
  <2> HIDE DEF new
  <2> PICK c \in AnyCall : c = new
    BY <2>5
  <2>6. c.pc = "look" /\ c.left = left /\ c.then = "find" /\ call' = [call EXCEPT ![k] = c]
    BY <2>3, <2>5
  <2>7. Handled(c) = Shell!ToSet(left) /\ ~Creates(c) /\ CallPlaced(c)
    BY <2>6 DEF Handled, Creates, CallPlaced, InShell
  <2>8. ~shellRaced' => Apart(k, c)
    BY <2>4, <2>7, MeetsNone DEF Apart
  <2>9. Sees(c) /\ ~Makes(c)
    BY <2>6, <2>7 DEF Sees, Makes, Inserts
  <2>10. /\ excused' \in SUBSET Users /\ shellRaced' \in BOOLEAN
         /\ shellRaced => shellRaced'
    BY <1>1, <2>1, <2>4 DEF Shell!TypeOK
  <2> QED BY <1>2, <2>1, <2>6, <2>7, <2>8, <2>9, <2>10, CallMoves
<1> QED BY <1>3, <1>4

LEMMA LookStep == SessionsInv => \A k \in ShellCalls : Shell!Look(k) => SessionsInv'
<1> SUFFICES ASSUME SessionsInv, NEW k \in ShellCalls, Shell!Look(k) PROVE SessionsInv'
  OBVIOUS
<1>1. Shell!TypeOK
  BY DEF SessionsInv
<1>2. call[k] \in AnyCall
  BY <1>1 DEF Shell!TypeOK, AnyCall
<1> PICK b \in AnyCall : b = call[k]
  BY <1>2
<1>3. /\ b.pc = "look" /\ b \in Shell!ShellCall \cup Shell!CloseCall /\ b.left \in Seq(Users)
      /\ b.then \in {"find", "insert"} => b \in Shell!ShellCall
      /\ b.then \in {"find", "insert", "idle"}
  <2>1. b.pc = "look"
    BY DEF Shell!Look
  <2> QED BY <2>1, CallFields DEF Shell!ShellCall, Shell!CloseCall
<1>4. CallPlaced(b) /\ (~shellRaced => HandledAlone /\ Sees(b) /\ (Makes(b) => Cardinality(Shell!Open) < MaxSessions))
  BY DEF SessionsInv, Accounted, HasRoom
<1>5. /\ UNCHANGED <<sessions, activity, dir, reported>> /\ shellRaced' = shellRaced
      /\ excused' \in SUBSET Users /\ shellRaced' \in BOOLEAN /\ call[k].pc \notin {"stamp", "forget"}
  BY <1>1, <1>3 DEF Shell!Look, Shell!TypeOK
<1>6. CASE b.left = <<>> /\ b.then = "idle"
  <2>1. Shell!Fails(k)
    BY <1>6 DEF Shell!Look, Shell!Fails
  <2> QED BY <1>5, <2>1, FailsStep
<1>7. CASE b.left = <<>> /\ b.then # "idle"
  <2>1. b.then \in {"find", "insert"} /\ b \in Shell!ShellCall
    BY <1>3, <1>7
  <2> PICK c \in AnyCall : c = [b EXCEPT !.pc = b.then]
    BY <2>1 DEF AnyCall, Shell!ShellCall
  <2>2. c.pc = b.then /\ c.then = b.then /\ c.user = b.user /\ call' = [call EXCEPT ![k] = c]
    BY <1>1, <1>7, <2>1 DEF Shell!Look, Shell!Moved, Shell!ShellCall, Shell!TypeOK
  <2>3. Handled(c) \subseteq Handled(b) /\ (Creates(c) => Creates(b)) /\ CallPlaced(c)
    BY <1>3, <2>1, <2>2 DEF Handled, Creates, CallPlaced, InShell
  <2>4. ~shellRaced' => Apart(k, c)
    BY <1>4, <1>5, <2>3, StillApart
  <2>5. (Sees(b) => Sees(c)) /\ (Makes(c) => Makes(b))
    BY <1>3, <1>7, <2>1, <2>2 DEF Sees, Makes, Inserts, Creates
  <2> QED BY <1>4, <1>5, <2>2, <2>3, <2>4, <2>5, CallMoves
<1>8. CASE b.left # <<>> /\ sessions[Head(b.left)] # Null
  <2> PICK c \in AnyCall : c = [b EXCEPT !.pc = "drop"]
    BY <1>3 DEF AnyCall, Shell!ShellCall, Shell!CloseCall
  <2>1. /\ c.pc = "drop" /\ c.then = b.then /\ c.left = b.left /\ c.user = b.user
        /\ call' = [call EXCEPT ![k] = c]
    BY <1>1, <1>3, <1>8 DEF Shell!Look, Shell!Moved, Shell!ShellCall, Shell!CloseCall, Shell!TypeOK
  <2>2. Handled(c) \subseteq Handled(b) /\ (Creates(c) => Creates(b)) /\ CallPlaced(c)
    BY <1>3, <1>8, <2>1 DEF Handled, Creates, CallPlaced, InShell
  <2>3. ~shellRaced' => Apart(k, c)
    BY <1>4, <1>5, <2>2, StillApart
  <2>4. (Sees(b) => Sees(c)) /\ ~Makes(c)
    BY <1>3, <1>8, <2>1 DEF Sees, Makes, Inserts, Creates, Has
  <2> QED BY <1>4, <1>5, <2>1, <2>2, <2>3, <2>4, CallMoves
<1>9. CASE b.left # <<>> /\ sessions[Head(b.left)] = Null
  <2> DEFINE l == Tail(b.left)
  <2>1. l \in Seq(Users) /\ Shell!ToSet(l) \subseteq Shell!ToSet(b.left)
    <3>1. l \in Seq(Users) /\ Len(l) = Len(b.left) - 1 /\ \A i \in 1 .. Len(l) : l[i] = b.left[i + 1]
      BY <1>3, <1>9, HeadTailProperties
    <3>2. Len(b.left) \in Nat /\ DOMAIN l = 1 .. Len(l) /\ DOMAIN b.left = 1 .. Len(b.left)
      BY <1>3, <3>1
    <3> HIDE DEF l
    <3> QED BY <3>1, <3>2 DEF Shell!ToSet
  <2> HIDE DEF l
  <2> PICK c \in AnyCall : c = [b EXCEPT !.left = l]
    BY <1>3, <2>1 DEF AnyCall, Shell!ShellCall, Shell!CloseCall
  <2>2. /\ c.pc = "look" /\ c.then = b.then /\ c.left = l /\ c.user = b.user
        /\ call' = [call EXCEPT ![k] = c]
    <3>1. call' = [call EXCEPT ![k] = [b EXCEPT !.left = l]]
      BY <1>1, <1>9 DEF Shell!Look, Shell!TypeOK, l
    <3> QED BY <1>3, <3>1 DEF Shell!ShellCall, Shell!CloseCall
  <2>3. Handled(c) \subseteq Handled(b) /\ (Creates(c) => Creates(b)) /\ CallPlaced(c)
    BY <1>3, <2>1, <2>2 DEF Handled, Creates, CallPlaced, InShell
  <2>4. ~shellRaced' => Apart(k, c)
    BY <1>4, <1>5, <2>3, StillApart
  <2>5. Sees(b) => Sees(c) /\ ~Makes(c)
    <3>1. Sees(b) => ~Inserts(b)
      BY <1>3, <1>9 DEF Sees, Inserts, Creates, Has
    <3>2. Inserts(c) => Inserts(b)
      BY <1>3, <2>2 DEF Inserts, Creates
    <3> QED BY <2>2, <3>1, <3>2 DEF Sees, Makes
  <2> QED BY <1>4, <1>5, <2>2, <2>3, <2>4, <2>5, CallMoves
<1> QED BY <1>6, <1>7, <1>8, <1>9

LEMMA OpenFinite ==
    Shell!TypeOK => IsFiniteSet(Shell!Open) /\ Cardinality(Shell!Open) \in Nat
<1>1. IsFiniteSet(Users) /\ Shell!Open \subseteq Users
  BY ShellSets DEF Shell!Open
<1> QED BY <1>1, FS_Subset, FS_CardinalityType

LEMMA TailTyped ==
    ASSUME NEW s \in Seq(Users), s # <<>>
    PROVE  /\ Head(s) \in Users /\ Head(s) \in Shell!ToSet(s)
           /\ Tail(s) \in Seq(Users) /\ Len(Tail(s)) = Len(s) - 1 /\ Len(s) \in Nat
           /\ Shell!ToSet(Tail(s)) \subseteq Shell!ToSet(s)
<1> DEFINE l == Tail(s)
<1>1. l \in Seq(Users) /\ Len(l) = Len(s) - 1 /\ \A i \in 1 .. Len(l) : l[i] = s[i + 1]
  BY HeadTailProperties
<1>2. Len(s) \in Nat /\ Len(s) # 0 /\ DOMAIN l = 1 .. Len(l) /\ DOMAIN s = 1 .. Len(s) /\ Head(s) = s[1]
  BY <1>1
<1> HIDE DEF l
<1>3. Shell!ToSet(l) \subseteq Shell!ToSet(s)
  BY <1>1, <1>2 DEF Shell!ToSet
<1>4. Head(s) \in Users /\ Head(s) \in Shell!ToSet(s)
  BY <1>2 DEF Shell!ToSet
<1> QED BY <1>1, <1>2, <1>3, <1>4 DEF l

LEMMA DropStep == SessionsInv => \A k \in ShellCalls : Shell!Drop(k) => SessionsInv'
<1> SUFFICES ASSUME SessionsInv, NEW k \in ShellCalls, Shell!Drop(k) PROVE SessionsInv'
  OBVIOUS
<1>1. Shell!TypeOK
  BY DEF SessionsInv
<1>2. call[k] \in AnyCall
  BY <1>1 DEF Shell!TypeOK, AnyCall
<1> PICK b \in AnyCall : b = call[k]
  BY <1>2
<1>3. b.pc = "drop" /\ b \in Shell!ShellCall \cup Shell!CloseCall /\ b.left \in Seq(Users) /\ b.left # <<>>
  <2>1. b.pc = "drop"
    BY DEF Shell!Drop
  <2> QED BY <2>1, CallFields DEF SessionsInv, CallPlaced
<1>4. CASE Shell!Fails(k)
  BY <1>3, <1>4, FailsStep
<1>5. CASE ~Shell!Fails(k)
  <2> PICK id \in Users : id = Head(b.left)
    BY <1>3, TailTyped
  <2>1. /\ sessions' = [sessions EXCEPT ![id] = Null] /\ sessions[id] # Null
        /\ excused' = excused \cup {id}
        /\ call' = [call EXCEPT ![k].pc = "forget"]
        /\ UNCHANGED <<activity, dir, reported, shellRaced>>
    BY <1>5 DEF Shell!Drop, Shell!Moved
  <2> PICK c \in AnyCall : c = [b EXCEPT !.pc = "forget"]
    BY <1>3 DEF AnyCall, Shell!ShellCall, Shell!CloseCall
  <2>2. /\ c.pc = "forget" /\ c.then = b.then /\ c.left = b.left /\ c.user = b.user
        /\ call' = [call EXCEPT ![k] = c]
    BY <1>1, <1>3, <2>1 DEF Shell!ShellCall, Shell!CloseCall, Shell!TypeOK
  <2>3. call'[k] = c /\ \A j \in ShellCalls : j # k => call'[j] = call[j]
    BY <1>1, <2>2 DEF Shell!TypeOK
  <2>4. \A u \in Users : Has(u)' <=> (Has(u) /\ u # id)
    BY <1>1, <2>1 DEF Has, Shell!TypeOK
  <2>5. Shell!Open' = Shell!Open \ {id} /\ id \in Shell!Open
    BY <2>1, <2>4 DEF Shell!Open, Has
  <2>6. /\ Cardinality(Shell!Open') = Cardinality(Shell!Open) - 1
        /\ Cardinality(Shell!Open) \in Nat
    BY <1>1, <2>5, OpenFinite, FS_RemoveElement
  <2>7. id \in Handled(b)
    BY <1>3, TailTyped DEF Handled
  <2>8. ASSUME ~shellRaced'
        PROVE  /\ Apart(k, c) /\ Sees(c)' /\ HasRoom' /\ StampsSettle'
               /\ \A u \in Users : u \notin Handled(call[k]) => (Has(u)' <=> Has(u))
    <3>1. HandledAlone /\ Sees(b) /\ HasRoom /\ StampsSettle
      BY <2>1, <2>8 DEF SessionsInv, Accounted
    <3>2. Apart(k, c)
      <4>1. Handled(c) \subseteq Handled(b) /\ (Creates(c) => Creates(b))
        BY <1>3, <2>2 DEF Handled, Creates
      <4> QED BY <3>1, <4>1, StillApart
    <3>3. Sees(c)'
      <4>1. Inserts(c) => Inserts(b)
        BY <1>3, <2>2 DEF Inserts, Creates
      <4>2. c.user \in Users
        BY <1>3, <2>2 DEF Shell!ShellCall, Shell!CloseCall
      <4> HIDE DEF Has
      <4> QED BY <1>3, <2>2, <2>4, <3>1, <4>1, <4>2 DEF Sees
    <3>4. HasRoom'
      BY <2>6, <3>1 DEF HasRoom
    <3>5. StampsSettle'
      <4>1. ASSUME NEW u \in Users, Has(u)', u \notin Shell!ToSet(activity)
            PROVE  \E j \in ShellCalls : call'[j].pc = "stamp" /\ call'[j].user = u
        BY <1>3, <2>3, <2>4, <3>1, <4>1 DEF StampsSettle
      <4>2. ASSUME NEW u \in Users, ~Has(u)', u \in Shell!ToSet(activity)
            PROVE  \E j \in ShellCalls : call'[j].pc = "forget" /\ Head(call'[j].left) = u
        <5>1. CASE u = id
          BY <2>2, <2>3, <5>1
        <5>2. CASE u # id
          BY <1>3, <2>3, <2>4, <3>1, <4>2, <5>2 DEF StampsSettle
        <5> QED BY <5>1, <5>2
      <4>3. activity' = activity
        BY <2>1
      <4> QED BY <4>1, <4>2, <4>3 DEF StampsSettle
    <3> QED BY <2>4, <2>7, <3>2, <3>3, <3>4, <3>5
  <2>9. /\ sessions' \in [Users -> (1..Len(dir')) \cup {Null}]
        /\ activity' \in Seq(Users) /\ dir' \in Seq(Dirs) /\ Len(dir') >= Len(dir)
        /\ reported' \in [Users -> Dirs \cup {Null}] /\ excused' \in SUBSET Users
        /\ shellRaced' \in BOOLEAN /\ (shellRaced => shellRaced')
    BY <1>1, <2>1 DEF Shell!TypeOK
  <2>10. NoStampTwice' /\ CallPlaced(c)'
    BY <1>3, <2>1, <2>2 DEF SessionsInv, NoStampTwice, CallPlaced, InShell
  <2> QED BY <2>2, <2>8, <2>9, <2>10, CallSteps DEF Apart
<1> QED BY <1>4, <1>5

LEMMA ForgetStep == SessionsInv => \A k \in ShellCalls : Shell!Forget(k) => SessionsInv'
<1> SUFFICES ASSUME SessionsInv, NEW k \in ShellCalls, Shell!Forget(k) PROVE SessionsInv'
  OBVIOUS
<1>1. Shell!TypeOK
  BY DEF SessionsInv
<1>2. call[k] \in AnyCall
  BY <1>1 DEF Shell!TypeOK, AnyCall
<1> PICK b \in AnyCall : b = call[k]
  BY <1>2
<1>3. b.pc = "forget" /\ b \in Shell!ShellCall \cup Shell!CloseCall /\ b.left \in Seq(Users) /\ b.left # <<>>
  <2>1. b.pc = "forget"
    BY DEF Shell!Forget
  <2> QED BY <2>1, CallFields DEF SessionsInv, CallPlaced
<1> DEFINE l == Tail(b.left)
<1>4. l \in Seq(Users) /\ Shell!ToSet(l) \subseteq Shell!ToSet(b.left) /\ Len(l) = Len(b.left) - 1 /\ Len(b.left) \in Nat
  BY <1>3, TailTyped
<1> PICK id \in Users : id = Head(b.left)
  BY <1>3, TailTyped
<1>5. /\ activity' = Shell!Forgotten(id)
      /\ call' = [call EXCEPT ![k] = [b EXCEPT !.pc = "look", !.left = l]]
      /\ UNCHANGED <<sessions, dir, reported, excused, shellRaced>>
  BY <1>1 DEF Shell!Forget, Shell!TypeOK
<1> HIDE DEF l
<1> PICK c \in AnyCall : c = [b EXCEPT !.pc = "look", !.left = l]
  BY <1>3, <1>4 DEF AnyCall, Shell!ShellCall, Shell!CloseCall
<1>6. /\ c.pc = "look" /\ c.then = b.then /\ c.left = l /\ c.user = b.user
      /\ call' = [call EXCEPT ![k] = c]
  BY <1>3, <1>5 DEF Shell!ShellCall, Shell!CloseCall
<1>7. call'[k] = c /\ \A j \in ShellCalls : j # k => call'[j] = call[j]
  BY <1>1, <1>6 DEF Shell!TypeOK
<1>8. activity' \in Seq(Users) /\ NoStampTwice' /\ Shell!ToSet(activity') = Shell!ToSet(activity) \ {id}
  <2>1. activity \in Seq(Users) /\ NoStampTwice
    BY <1>1 DEF SessionsInv, Shell!TypeOK
  <2>2. Distinct(activity')
    BY <1>5, <2>1, ForgottenIs
  <2> QED BY <1>5, <2>1, <2>2, ForgottenIs DEF Distinct, NoStampTwice
<1>9. (\A u \in Users : Has(u)' <=> Has(u)) /\ Shell!Open' = Shell!Open /\ (Has(Head(l))' <=> Has(Head(l)))
  BY <1>5 DEF Has, Shell!Open
<1>10. ASSUME ~shellRaced'
       PROVE  Apart(k, c) /\ Sees(c)' /\ HasRoom' /\ StampsSettle'
  <2>1. HandledAlone /\ Sees(b) /\ HasRoom /\ StampsSettle
    BY <1>5, <1>10 DEF SessionsInv, Accounted
  <2>2. Apart(k, c)
    <3>1. Handled(c) \subseteq Handled(b) /\ (Creates(c) => Creates(b))
      BY <1>3, <1>4, <1>6 DEF Handled, Creates
    <3> QED BY <2>1, <3>1, StillApart
  <2>3. Inserts(c) => Inserts(b) /\ c.left = <<>>
    <3>1. Inserts(c) => Inserts(b)
      BY <1>3, <1>6 DEF Inserts, Creates
    <3>2. Inserts(b) => Len(b.left) <= 1
      BY <1>3, <2>1 DEF Sees
    <3>3. Len(l) \in Nat /\ (Len(l) = 0 => l = <<>>)
      <4>1. l \in Seq(Users)
        BY <1>4
      <4> QED BY <4>1
    <3> QED BY <1>4, <1>6, <3>1, <3>2, <3>3
  <2>4. Sees(c)'
    <3>1. c.user \in Users
      BY <1>3, <1>6 DEF Shell!ShellCall, Shell!CloseCall
    <3>2. Inserts(b) => ~Has(b.user)
      BY <2>1 DEF Sees
    <3>3. Inserts(c) => ~Has(c.user)' /\ Len(c.left) <= 1
      <4>1. Len(<<>>) = 0
        OBVIOUS
      <4> HIDE DEF Has
      <4> QED BY <1>6, <1>9, <2>3, <3>1, <3>2, <4>1
    <3> HIDE DEF Has
    <3> QED BY <1>6, <2>3, <3>3 DEF Sees
  <2>5. HasRoom'
    <3>1. Makes(c) => Makes(b)
      BY <1>3, <2>3 DEF Makes
    <3>2. \A j \in ShellCalls : Makes(call'[j]) => Cardinality(Shell!Open) < MaxSessions
      BY <1>7, <2>1, <3>1 DEF HasRoom
    <3> QED BY <1>9, <2>1, <3>2 DEF HasRoom
  <2>6. StampsSettle'
    <3>1. ~Has(id)
      BY <1>3, <2>1 DEF Sees
    <3>2. ASSUME NEW u \in Users, Has(u), u \notin Shell!ToSet(activity')
          PROVE  \E j \in ShellCalls : call'[j].pc = "stamp" /\ call'[j].user = u
      <4>1. u # id
        BY <3>1, <3>2
      <4>2. PICK j \in ShellCalls : call[j].pc = "stamp" /\ call[j].user = u
        BY <1>8, <2>1, <3>2, <4>1 DEF StampsSettle
      <4> QED BY <1>3, <1>7, <4>2
    <3>3. ASSUME NEW u \in Users, ~Has(u), u \in Shell!ToSet(activity')
          PROVE  \E j \in ShellCalls : call'[j].pc = "forget" /\ Head(call'[j].left) = u
      <4>1. PICK j \in ShellCalls : call[j].pc = "forget" /\ Head(call[j].left) = u
        BY <1>8, <2>1, <3>3 DEF StampsSettle
      <4>2. u # id
        BY <1>8, <3>3
      <4> QED BY <1>7, <4>1, <4>2
    <3>4. Shell!ToSet(activity)' = Shell!ToSet(activity')
      BY DEF Shell!ToSet
    <3> QED BY <1>9, <3>2, <3>3 DEF StampsSettle
  <2> QED BY <2>2, <2>4, <2>5, <2>6
<1>11. /\ sessions' \in [Users -> (1..Len(dir')) \cup {Null}]
       /\ dir' \in Seq(Dirs) /\ Len(dir') >= Len(dir)
       /\ reported' \in [Users -> Dirs \cup {Null}] /\ excused' \in SUBSET Users
       /\ shellRaced' \in BOOLEAN /\ (shellRaced => shellRaced')
  BY <1>1, <1>5 DEF Shell!TypeOK
<1>12. CallPlaced(c)'
  BY <1>6 DEF CallPlaced, InShell
<1> QED BY <1>6, <1>8, <1>9, <1>10, <1>11, <1>12, CallSteps DEF Apart

LEMMA FindStep == SessionsInv => \A k \in ShellCalls : Shell!Find(k) => SessionsInv'
<1> SUFFICES ASSUME SessionsInv, NEW k \in ShellCalls, Shell!Find(k) PROVE SessionsInv'
  OBVIOUS
<1>1. Shell!TypeOK
  BY DEF SessionsInv
<1>2. call[k] \in AnyCall
  BY <1>1 DEF Shell!TypeOK, AnyCall
<1> PICK b \in AnyCall : b = call[k]
  BY <1>2
<1>3. b.pc = "find" /\ b \in Shell!ShellCall /\ b.then = "find" /\ b.user \in Users
  <2>1. b.pc = "find"
    BY DEF Shell!Find
  <2> QED BY <2>1, CallFields DEF SessionsInv, CallPlaced, Shell!ShellCall
<1> DEFINE evicts == ~Has(b.user) /\ Shell!Full /\ activity # <<>>
           creating == \E j \in ShellCalls \ {k} : Creates(call[j])
<1>4. /\ call' = [call EXCEPT ![k] =
             IF Has(b.user) THEN [b EXCEPT !.pc = "touch"]
             ELSE IF evicts
             THEN [b EXCEPT !.pc = "look", !.left = <<Head(activity)>>, !.then = "insert"]
             ELSE [b EXCEPT !.pc = "insert"]]
      /\ shellRaced' = (\/ shellRaced
                        \/ ~Has(b.user) /\ creating
                        \/ Shell!Meets(k, {b.user})
                        \/ evicts /\ (sessions[Head(activity)] = Null \/ Shell!Meets(k, {Head(activity)})))
  <2>1. creating <=> \E j \in ShellCalls \ {k} :
                        \/ call[j].pc \in {"insert", "stamp"}
                        \/ call[j].pc \in {"look", "drop", "forget"} /\ call[j].then = "insert"
    BY DEF Creates
  <2> HIDE DEF creating
  <2> QED BY <1>1, <2>1 DEF Shell!Find, Shell!Found, Has, Shell!TypeOK
<1>5. UNCHANGED <<sessions, activity, dir, reported, excused>>
  BY DEF Shell!Find
<1>6. /\ excused' \in SUBSET Users /\ call[k].pc \notin {"stamp", "forget"}
      /\ shellRaced' \in BOOLEAN /\ (shellRaced => shellRaced')
  BY <1>1, <1>3, <1>4, <1>5 DEF Shell!TypeOK
<1>7. \/ /\ ~Has(b.user) => \A j \in ShellCalls : j # k => ~Creates(call[j])
         /\ \A j \in ShellCalls : j # k => {b.user} \cap Handled(call[j]) = {}
         /\ evicts => \A j \in ShellCalls : j # k => {Head(activity)} \cap Handled(call[j]) = {}
      \/ shellRaced'
  BY <1>4, MeetsNone
<1>8. CASE Has(b.user)
  <2> PICK c \in AnyCall : c = [b EXCEPT !.pc = "touch"]
    BY <1>3 DEF AnyCall, Shell!ShellCall
  <2>1. c.pc = "touch" /\ c.user = b.user /\ call' = [call EXCEPT ![k] = c]
    BY <1>3, <1>4, <1>8 DEF Shell!ShellCall
  <2>2. Handled(c) = {b.user} /\ ~Creates(c) /\ CallPlaced(c)
    BY <2>1 DEF Handled, Creates, CallPlaced, InShell
  <2>3. ~shellRaced' => Apart(k, c)
    BY <1>7, <2>2 DEF Apart
  <2>4. Sees(c) /\ ~Makes(c)
    BY <1>8, <2>1, <2>2 DEF Sees, Makes, Inserts
  <2> QED BY <1>5, <1>6, <2>1, <2>2, <2>3, <2>4, CallMoves
<1>9. CASE evicts
  <2>1. Head(activity) \in Users
    BY <1>1, <1>9, TailTyped DEF Shell!TypeOK
  <2> PICK id \in Users : id = Head(activity)
    BY <2>1
  <2>2. <<id>> \in Seq(Users) /\ Len(<<id>>) = 1 /\ <<id>> # <<>> /\ Head(<<id>>) = id /\ Shell!ToSet(<<id>>) = {id}
    BY DEF Shell!ToSet
  <2> DEFINE l == <<id>>
  <2>3. call' = [call EXCEPT ![k] = [b EXCEPT !.pc = "look", !.left = l, !.then = "insert"]]
    BY <1>4, <1>9
  <2>4. l \in Seq(Users) /\ Len(l) = 1 /\ l # <<>> /\ Head(l) = id /\ Shell!ToSet(l) = {id}
    BY <2>2
  <2> HIDE DEF l
  <2> PICK c \in AnyCall : c = [b EXCEPT !.pc = "look", !.left = l, !.then = "insert"]
    BY <1>3, <2>4 DEF AnyCall, Shell!ShellCall
  <2>5. /\ c.pc = "look" /\ c.left = l /\ c.then = "insert" /\ c.user = b.user
        /\ call' = [call EXCEPT ![k] = c]
    BY <1>3, <2>3 DEF Shell!ShellCall
  <2>6. Handled(c) = {id} \cup {b.user} /\ CallPlaced(c) /\ ~Makes(c)
    BY <2>4, <2>5 DEF Handled, CallPlaced, InShell, Makes
  <2>7. ~shellRaced' => Apart(k, c) /\ Has(id)
    <3> SUFFICES ASSUME ~shellRaced' PROVE Apart(k, c) /\ Has(id)
      OBVIOUS
    <3>1. \A j \in ShellCalls : j # k =>
             ~Creates(call[j]) /\ {b.user} \cap Handled(call[j]) = {} /\ {id} \cap Handled(call[j]) = {}
      BY <1>7, <1>9
    <3>2. Has(id)
      BY <1>4, <1>9 DEF Has
    <3> HIDE DEF Handled, Creates
    <3> QED BY <2>6, <3>1, <3>2 DEF Apart
  <2>8. Has(id) => Sees(c)
    <3>1. ~Has(c.user)
      BY <1>9, <2>5
    <3>2. Has(id) => Has(Head(c.left))
      BY <2>4, <2>5, Zenon
    <3>3. Len(c.left) <= 1
      <4>1. \A n : n = 1 => n <= 1
        OBVIOUS
      <4>2. Len(c.left) = 1
        BY <2>4, <2>5
      <4> QED BY <4>1, <4>2, Zenon
    <3> QED BY <2>5, <3>1, <3>2, <3>3 DEF Sees
  <2> HIDE DEF evicts
  <2> QED BY <1>5, <1>6, <2>5, <2>6, <2>7, <2>8, CallMoves
<1>10. CASE ~Has(b.user) /\ ~evicts
  <2> PICK c \in AnyCall : c = [b EXCEPT !.pc = "insert"]
    BY <1>3 DEF AnyCall, Shell!ShellCall
  <2>1. c.pc = "insert" /\ c.user = b.user /\ call' = [call EXCEPT ![k] = c]
    BY <1>3, <1>4, <1>10 DEF Shell!ShellCall
  <2>2. Handled(c) = {b.user} /\ CallPlaced(c)
    BY <2>1 DEF Handled, CallPlaced, InShell
  <2>3. ~shellRaced' => Apart(k, c)
    BY <1>7, <1>10, <2>2 DEF Apart
  <2>4. Sees(c)
    BY <1>10, <2>1 DEF Sees
  <2>5. ASSUME ~shellRaced' PROVE Cardinality(Shell!Open) < MaxSessions
    <3>1. CASE ~Shell!Full
      BY <1>1, <3>1, OpenFinite, ShellSets DEF Shell!Full
    <3>2. CASE Shell!Full
      <4>1. activity = <<>> /\ StampsSettle
        BY <1>6, <1>10, <2>5, <3>2 DEF SessionsInv, Accounted
      <4>2. Shell!ToSet(activity) = {}
        BY <4>1 DEF Shell!ToSet
      <4>3. \A j \in ShellCalls : call[j].pc # "stamp"
        BY <1>3, <1>7, <1>10, <2>5 DEF Creates
      <4>4. Shell!Open = {}
        BY <4>1, <4>2, <4>3 DEF StampsSettle, Shell!Open, Has
      <4>5. Cardinality(Shell!Open) = 0
        BY <4>4, FS_EmptySet
      <4> QED BY <4>5
    <3> QED BY <3>1, <3>2
  <2> HIDE DEF evicts
  <2> QED BY <1>5, <1>6, <2>1, <2>2, <2>3, <2>4, <2>5, CallMoves
<1> QED BY <1>8, <1>9, <1>10

\* A new time stamp for the user of a call, whose session exists.
LEMMA StampedStep ==
    ASSUME SessionsInv, NEW k \in ShellCalls, NEW b \in AnyCall, NEW c \in AnyCall, b = call[k],
           b \in Shell!ShellCall, b.pc \in {"touch", "stamp"}, b.user \in Users,
           c.pc \in {"take", "begin"}, c.user = b.user, CallPlaced(c),
           call' = [call EXCEPT ![k] = c], activity' = Shell!Stamped(b.user),
           UNCHANGED <<sessions, dir, reported, excused, shellRaced>>
    PROVE  SessionsInv'
<1>1. Shell!TypeOK
  BY DEF SessionsInv
<1>2. call'[k] = c /\ \A j \in ShellCalls : j # k => call'[j] = call[j]
  BY <1>1 DEF Shell!TypeOK
<1> PICK u \in Users : u = b.user
  OBVIOUS
<1>3. activity' \in Seq(Users) /\ NoStampTwice' /\ Shell!ToSet(activity') = Shell!ToSet(activity) \cup {u}
  <2>1. activity \in Seq(Users) /\ NoStampTwice
    BY <1>1 DEF SessionsInv, Shell!TypeOK
  <2>2. Distinct(activity')
    BY <2>1, StampedIs
  <2> QED BY <2>1, <2>2, StampedIs DEF Distinct, NoStampTwice
<1>4. (\A v \in Users : Has(v)' <=> Has(v)) /\ Shell!Open' = Shell!Open /\ (Sees(c) => Sees(c)') /\ CallPlaced(c)'
  BY DEF Has, Shell!Open, Sees, CallPlaced
<1>5. ASSUME ~shellRaced'
      PROVE  Apart(k, c) /\ Sees(c)' /\ HasRoom' /\ StampsSettle'
  <2>1. HandledAlone /\ Sees(b) /\ HasRoom /\ StampsSettle
    BY <1>5 DEF SessionsInv, Accounted
  <2>2. Apart(k, c)
    <3>1. Handled(c) \subseteq Handled(b) /\ ~Creates(c)
      BY DEF Handled, Creates
    <3> QED BY <2>1, <3>1, StillApart
  <2>3. Has(u)
    BY <2>1 DEF Sees
  <2>4. Sees(c)
    BY <2>3 DEF Sees, Inserts, Creates
  <2>5. HasRoom'
    <3>1. ~Makes(c)
      BY DEF Makes, Inserts, Creates
    <3>2. \A j \in ShellCalls : Makes(call'[j]) => Cardinality(Shell!Open) < MaxSessions
      BY <1>2, <2>1, <3>1 DEF HasRoom
    <3> QED BY <1>4, <2>1, <3>2 DEF HasRoom
  <2>6. StampsSettle'
    <3>1. ASSUME NEW v \in Users, Has(v), v \notin Shell!ToSet(activity')
          PROVE  \E j \in ShellCalls : call'[j].pc = "stamp" /\ call'[j].user = v
      <4>1. v # u /\ v \notin Shell!ToSet(activity)
        BY <1>3, <3>1
      <4>2. PICK j \in ShellCalls : call[j].pc = "stamp" /\ call[j].user = v
        BY <2>1, <3>1, <4>1 DEF StampsSettle
      <4> QED BY <1>2, <4>1, <4>2
    <3>2. ASSUME NEW v \in Users, ~Has(v), v \in Shell!ToSet(activity')
          PROVE  \E j \in ShellCalls : call'[j].pc = "forget" /\ Head(call'[j].left) = v
      <4>1. v \in Shell!ToSet(activity)
        BY <1>3, <2>3, <3>2
      <4>2. PICK j \in ShellCalls : call[j].pc = "forget" /\ Head(call[j].left) = v
        BY <2>1, <3>2, <4>1 DEF StampsSettle
      <4> QED BY <1>2, <4>2
    <3> QED BY <1>4, <3>1, <3>2 DEF StampsSettle
  <2> QED BY <1>4, <2>2, <2>4, <2>5, <2>6
<1>6. /\ sessions' \in [Users -> (1..Len(dir')) \cup {Null}]
      /\ dir' \in Seq(Dirs) /\ Len(dir') >= Len(dir)
      /\ reported' \in [Users -> Dirs \cup {Null}] /\ excused' \in SUBSET Users
      /\ shellRaced' \in BOOLEAN /\ (shellRaced => shellRaced')
  BY <1>1 DEF Shell!TypeOK
<1> QED BY <1>3, <1>4, <1>5, <1>6, CallSteps DEF Apart

LEMMA TouchStep == SessionsInv => \A k \in ShellCalls : Shell!Touch(k) => SessionsInv'
<1> SUFFICES ASSUME SessionsInv, NEW k \in ShellCalls, Shell!Touch(k) PROVE SessionsInv'
  OBVIOUS
<1>1. Shell!TypeOK /\ call[k] \in AnyCall /\ call[k].pc = "touch"
  BY DEF SessionsInv, Shell!TypeOK, AnyCall, Shell!Touch
<1> PICK b \in AnyCall : b = call[k]
  BY <1>1
<1>2. b.pc = "touch" /\ b \in Shell!ShellCall /\ b.user \in Users
  BY <1>1, CallFields DEF Shell!ShellCall
<1> PICK c \in AnyCall : c = [b EXCEPT !.pc = "take"]
  BY <1>2 DEF AnyCall, Shell!ShellCall
<1>3. c.pc = "take" /\ c.user = b.user /\ call' = [call EXCEPT ![k] = c]
  BY <1>1, <1>2 DEF Shell!Touch, Shell!Moved, Shell!ShellCall, Shell!TypeOK
<1>4. CallPlaced(c)
  BY <1>3 DEF CallPlaced, InShell
<1>5. activity' = Shell!Stamped(b.user) /\ UNCHANGED <<sessions, dir, reported, excused, shellRaced>>
  BY DEF Shell!Touch
<1> QED BY <1>2, <1>3, <1>4, <1>5, StampedStep

LEMMA StampStep == SessionsInv => \A k \in ShellCalls : Shell!Stamp(k) => SessionsInv'
<1> SUFFICES ASSUME SessionsInv, NEW k \in ShellCalls, Shell!Stamp(k) PROVE SessionsInv'
  OBVIOUS
<1>1. Shell!TypeOK /\ call[k] \in AnyCall /\ call[k].pc = "stamp"
  BY DEF SessionsInv, Shell!TypeOK, AnyCall, Shell!Stamp
<1> PICK b \in AnyCall : b = call[k]
  BY <1>1
<1>2. b.pc = "stamp" /\ b \in Shell!ShellCall /\ b.user \in Users /\ CallPlaced(b)
  BY <1>1, CallFields DEF Shell!ShellCall, SessionsInv
<1> PICK c \in AnyCall : c = [b EXCEPT !.pc = "begin"]
  BY <1>2 DEF AnyCall, Shell!ShellCall
<1>3. c.pc = "begin" /\ c.user = b.user /\ c.obj = b.obj /\ call' = [call EXCEPT ![k] = c]
  BY <1>1, <1>2 DEF Shell!Stamp, Shell!Moved, Shell!ShellCall, Shell!TypeOK
<1>4. CallPlaced(c)
  BY <1>2, <1>3 DEF CallPlaced, InShell
<1>5. activity' = Shell!Stamped(b.user) /\ UNCHANGED <<sessions, dir, reported, excused, shellRaced>>
  BY DEF Shell!Stamp
<1> QED BY <1>2, <1>3, <1>4, <1>5, StampedStep

LEMMA TakeStep == SessionsInv => \A k \in ShellCalls : Shell!Take(k) => SessionsInv'
<1> SUFFICES ASSUME SessionsInv, NEW k \in ShellCalls, Shell!Take(k) PROVE SessionsInv'
  OBVIOUS
<1>1. Shell!TypeOK /\ call[k] \in AnyCall /\ call[k].pc = "take"
  BY DEF SessionsInv, Shell!TypeOK, AnyCall, Shell!Take
<1> PICK b \in AnyCall : b = call[k]
  BY <1>1
<1>2. b.pc = "take" /\ b \in Shell!ShellCall /\ b.user \in Users
  BY <1>1, CallFields DEF Shell!ShellCall
<1>3. CASE Shell!Fails(k)
  BY <1>1, <1>3, FailsStep
<1>4. CASE ~Shell!Fails(k)
  <2> DEFINE o == sessions[b.user]
  <2>1. /\ o # Null /\ call' = [call EXCEPT ![k].pc = "begin", ![k].obj = o]
        /\ UNCHANGED <<sessions, activity, dir, reported, excused, shellRaced>>
    BY <1>4 DEF Shell!Take
  <2>2. o \in 1 .. Len(dir) /\ Len(dir) \in Nat
    BY <1>1, <1>2, <2>1 DEF Shell!TypeOK
  <2> HIDE DEF o
  <2>7. o \in Nat
    BY <2>2
  <2> PICK c \in AnyCall : c = [b EXCEPT !.pc = "begin", !.obj = o]
    BY <1>2, <2>7 DEF AnyCall, Shell!ShellCall
  <2>3. c.pc = "begin" /\ c.obj = o /\ call' = [call EXCEPT ![k] = c]
    BY <1>1, <1>2, <2>1 DEF Shell!ShellCall, Shell!TypeOK
  <2>4. Handled(c) = {} /\ ~Creates(c) /\ CallPlaced(c)
    BY <2>2, <2>3 DEF Handled, Creates, CallPlaced, InShell
  <2>5. Apart(k, c) /\ Sees(c) /\ ~Makes(c)
    BY <2>3, <2>4 DEF Apart, Sees, Makes, Inserts
  <2>6. excused' \in SUBSET Users /\ shellRaced' \in BOOLEAN /\ (shellRaced => shellRaced')
    BY <1>1, <2>1 DEF Shell!TypeOK
  <2> QED BY <1>1, <2>1, <2>3, <2>4, <2>5, <2>6, CallMoves
<1> QED BY <1>3, <1>4

LEMMA InsertStep == SessionsInv => \A k \in ShellCalls : Shell!Insert(k) => SessionsInv'
<1> SUFFICES ASSUME SessionsInv, NEW k \in ShellCalls, Shell!Insert(k) PROVE SessionsInv'
  OBVIOUS
<1>1. Shell!TypeOK /\ call[k] \in AnyCall /\ call[k].pc = "insert"
  BY DEF SessionsInv, Shell!TypeOK, AnyCall, Shell!Insert
<1> PICK b \in AnyCall : b = call[k]
  BY <1>1
<1>2. b.pc = "insert" /\ b \in Shell!ShellCall /\ b.user \in Users /\ b.wd \in Dirs \cup {Null}
  BY <1>1, CallFields DEF Shell!ShellCall
<1> PICK u \in Users : u = b.user
  BY <1>2
<1> DEFINE d == IF b.wd = Null THEN Home ELSE b.wd
<1>3. dir' = Append(dir, d) /\ d \in Dirs
  BY <1>2 DEF Shell!Insert
<1> HIDE DEF d
<1>4. dir' \in Seq(Dirs) /\ Len(dir') = Len(dir) + 1 /\ Len(dir) \in Nat
  <2>1. dir \in Seq(Dirs)
    BY <1>1 DEF Shell!TypeOK
  <2> QED BY <1>3, <2>1
<1> PICK o \in Nat : o = Len(dir')
  BY <1>4
<1>5. /\ sessions' = [sessions EXCEPT ![u] = o]
      /\ call' = [call EXCEPT ![k].pc = "stamp", ![k].obj = o]
      /\ UNCHANGED <<activity, reported, excused, shellRaced>>
  BY DEF Shell!Insert
<1> PICK c \in AnyCall : c = [b EXCEPT !.pc = "stamp", !.obj = o]
  BY <1>2 DEF AnyCall, Shell!ShellCall
<1>6. c.pc = "stamp" /\ c.obj = o /\ c.user = u /\ call' = [call EXCEPT ![k] = c]
  BY <1>1, <1>2, <1>5 DEF Shell!ShellCall, Shell!TypeOK
<1>7. call'[k] = c /\ \A j \in ShellCalls : j # k => call'[j] = call[j]
  BY <1>1, <1>6 DEF Shell!TypeOK
<1>8. \A v \in Users : Has(v)' <=> (Has(v) \/ v = u)
  BY <1>1, <1>5 DEF Has, Shell!TypeOK
<1>9. Shell!Open' = Shell!Open \cup {u}
  BY <1>8 DEF Shell!Open, Has
<1>10. Inserts(b) /\ Creates(b) /\ Makes(b) /\ Handled(b) = {u}
  BY <1>2 DEF Inserts, Creates, Makes, Handled
<1>11. ASSUME ~shellRaced'
       PROVE  /\ Apart(k, c) /\ Sees(c)' /\ HasRoom' /\ StampsSettle'
              /\ \A v \in Users : v \notin Handled(call[k]) => (Has(v)' <=> Has(v))
  <2>1. HandledAlone /\ Sees(b) /\ HasRoom /\ StampsSettle
    BY <1>5, <1>11 DEF SessionsInv, Accounted
  <2>2. Apart(k, c)
    <3>1. Handled(c) \subseteq Handled(b)
      BY <1>2, <1>6 DEF Handled
    <3> QED BY <1>10, <2>1, <3>1, StillApart
  <2>3. Sees(c)'
    <3>1. Has(u)'
      BY <1>8
    <3>2. ~Inserts(c)
      BY <1>6 DEF Inserts
    <3> QED BY <1>6, <3>1, <3>2 DEF Sees, Has
  <2>4. HasRoom'
    <3>1. u \notin Shell!Open
      BY <1>10, <2>1 DEF Sees, Shell!Open, Has
    <3>2. Cardinality(Shell!Open') = Cardinality(Shell!Open) + 1 /\ Cardinality(Shell!Open) \in Nat
      BY <1>1, <1>9, <3>1, OpenFinite, FS_AddElement
    <3>3. Cardinality(Shell!Open') <= MaxSessions
      BY <1>10, <2>1, <3>2 DEF HasRoom
    <3>4. \A j \in ShellCalls : ~Makes(call'[j])
      <4>1. ~Makes(c)
        BY <1>6 DEF Makes, Inserts
      <4>2. \A j \in ShellCalls : j # k => ~Creates(call[j])
        BY <1>10, <2>1 DEF HandledAlone
      <4> QED BY <1>7, <4>1, <4>2 DEF Makes, Inserts
    <3> QED BY <3>3, <3>4 DEF HasRoom
  <2>5. StampsSettle'
    <3>1. ASSUME NEW v \in Users, Has(v)', v \notin Shell!ToSet(activity)
          PROVE  \E j \in ShellCalls : call'[j].pc = "stamp" /\ call'[j].user = v
      <4>1. CASE v = u
        BY <1>6, <1>7, <4>1
      <4>2. CASE v # u
        BY <1>2, <1>7, <1>8, <2>1, <3>1, <4>2 DEF StampsSettle
      <4> QED BY <4>1, <4>2
    <3>2. ASSUME NEW v \in Users, ~Has(v)', v \in Shell!ToSet(activity)
          PROVE  \E j \in ShellCalls : call'[j].pc = "forget" /\ Head(call'[j].left) = v
      BY <1>2, <1>7, <1>8, <2>1, <3>2 DEF StampsSettle
    <3>3. activity' = activity
      BY <1>5
    <3> QED BY <3>1, <3>2, <3>3 DEF StampsSettle
  <2> QED BY <1>8, <1>10, <2>2, <2>3, <2>4, <2>5
<1>12. /\ sessions' \in [Users -> (1..Len(dir')) \cup {Null}]
       /\ activity' \in Seq(Users) /\ Len(dir') >= Len(dir)
       /\ reported' \in [Users -> Dirs \cup {Null}] /\ excused' \in SUBSET Users
       /\ shellRaced' \in BOOLEAN /\ (shellRaced => shellRaced')
  <2>1. sessions \in [Users -> (1..Len(dir)) \cup {Null}] /\ o \in 1 .. Len(dir')
    BY <1>1, <1>4 DEF Shell!TypeOK
  <2>2. sessions \in [Users -> (1..Len(dir')) \cup {Null}]
    BY <1>4, <2>1
  <2> QED BY <1>1, <1>4, <1>5, <2>1, <2>2 DEF Shell!TypeOK
<1>13. NoStampTwice' /\ CallPlaced(c)'
  <2>1. o \in 1 .. Len(dir')
    BY <1>4
  <2> QED BY <1>5, <1>6, <2>1 DEF SessionsInv, NoStampTwice, CallPlaced
<1> QED BY <1>4, <1>6, <1>11, <1>12, <1>13, CallSteps DEF Apart

\* Steps of a command outside of the manager.
LEMMA OutsideMoves ==
    ASSUME SessionsInv, NEW k \in ShellCalls, NEW b \in AnyCall, b = call[k], NEW c \in AnyCall,
           b.pc \in {"begin", "running"}, c.pc \in {"running", "cd"}, c.obj = b.obj,
           call' = [call EXCEPT ![k] = c],
           UNCHANGED <<sessions, activity, dir, reported, excused, shellRaced>>
    PROVE  SessionsInv'
<1>1. CallPlaced(c) /\ Handled(c) = {} /\ ~Creates(c)
  BY DEF SessionsInv, CallPlaced, InShell, Handled, Creates
<1>2. Apart(k, c) /\ Sees(c) /\ ~Makes(c)
  BY <1>1 DEF Apart, Sees, Makes, Inserts
<1>3. excused' \in SUBSET Users /\ shellRaced' \in BOOLEAN /\ (shellRaced => shellRaced')
  BY DEF SessionsInv, Shell!TypeOK
<1>4. call[k].pc \notin {"stamp", "forget"}
  OBVIOUS
<1> QED BY <1>1, <1>2, <1>3, <1>4, CallMoves

LEMMA BeginStep == SessionsInv => \A k \in ShellCalls : Shell!Begin(k) => SessionsInv'
<1> SUFFICES ASSUME SessionsInv, NEW k \in ShellCalls, Shell!Begin(k) PROVE SessionsInv'
  OBVIOUS
<1>1. Shell!TypeOK /\ call[k] \in AnyCall /\ call[k].pc = "begin"
  BY DEF SessionsInv, Shell!TypeOK, AnyCall, Shell!Begin
<1> PICK b \in AnyCall : b = call[k]
  BY <1>1
<1>2. b.pc = "begin" /\ b \in Shell!ShellCall /\ b.wd \in Dirs \cup {Null} /\ b.obj \in 1 .. Len(dir)
  BY <1>1, CallFields DEF Shell!ShellCall, SessionsInv, CallPlaced, InShell
<1> DEFINE a == IF b.wd = Null THEN dir[b.obj] ELSE b.wd
<1>3. a \in Dirs
  BY <1>1, <1>2 DEF Shell!TypeOK
<1>4. /\ call' = [call EXCEPT ![k].pc = "running", ![k].at = a]
      /\ UNCHANGED <<sessions, activity, dir, reported, excused, shellRaced>>
  BY DEF Shell!Begin
<1> HIDE DEF a
<1> PICK c \in AnyCall : c = [b EXCEPT !.pc = "running", !.at = a]
  BY <1>2, <1>3 DEF AnyCall, Shell!ShellCall
<1>5. c.pc = "running" /\ c.obj = b.obj /\ call' = [call EXCEPT ![k] = c]
  BY <1>1, <1>2, <1>4 DEF Shell!ShellCall, Shell!TypeOK
<1>6. UNCHANGED <<sessions, activity, dir, reported, excused, shellRaced>>
  BY <1>4
<1> QED BY <1>2, <1>5, <1>6, OutsideMoves

LEMMA ContainsCdStep == SessionsInv => \A k \in ShellCalls : Shell!ContainsCd(k) => SessionsInv'
<1> SUFFICES ASSUME SessionsInv, NEW k \in ShellCalls, Shell!ContainsCd(k) PROVE SessionsInv'
  OBVIOUS
<1>1. Shell!TypeOK /\ call[k] \in AnyCall /\ call[k].pc = "running"
  BY DEF SessionsInv, Shell!TypeOK, AnyCall, Shell!ContainsCd
<1> PICK b \in AnyCall : b = call[k]
  BY <1>1
<1>2. b.pc = "running" /\ b \in Shell!ShellCall
  BY <1>1, CallFields
<1> PICK c \in AnyCall : c = [b EXCEPT !.pc = "cd"]
  BY <1>2 DEF AnyCall, Shell!ShellCall
<1>3. c.pc = "cd" /\ c.obj = b.obj /\ call' = [call EXCEPT ![k] = c]
  BY <1>1, <1>2 DEF Shell!ContainsCd, Shell!Moved, Shell!ShellCall, Shell!TypeOK
<1>4. UNCHANGED <<sessions, activity, dir, reported, excused, shellRaced>>
  BY DEF Shell!ContainsCd
<1> QED BY <1>2, <1>3, <1>4, OutsideMoves

LEMMA AnswersStep ==
    SessionsInv => \A k \in ShellCalls, d \in Dirs :
        Shell!Answers(k, d) /\ call[k].pc \in {"running", "cd"} => SessionsInv'
<1> SUFFICES ASSUME SessionsInv, NEW k \in ShellCalls, NEW d \in Dirs,
                    Shell!Answers(k, d), call[k].pc \in {"running", "cd"}
             PROVE  SessionsInv'
  OBVIOUS
<1>1. Shell!TypeOK /\ call[k] \in AnyCall
  BY DEF SessionsInv, Shell!TypeOK, AnyCall
<1> PICK b \in AnyCall : b = call[k]
  BY <1>1
<1>2. b \in Shell!ShellCall /\ b.user \in Users /\ b.obj \in 1 .. Len(dir)
  <2>1. b \in Shell!ShellCall
    BY CallFields
  <2> QED BY <2>1 DEF Shell!ShellCall, SessionsInv, CallPlaced, InShell
<1>3. /\ dir' = [dir EXCEPT ![b.obj] = d] /\ reported' = [reported EXCEPT ![b.user] = d]
      /\ excused' \subseteq excused
      /\ call' = [call EXCEPT ![k] = Shell!Idle]
      /\ UNCHANGED <<sessions, activity, shellRaced>>
  BY DEF Shell!Answers
<1>4. dir' \in Seq(Dirs) /\ Len(dir') = Len(dir) /\ Len(dir) \in Nat
  <2>1. dir \in Seq(Dirs)
    BY <1>1 DEF Shell!TypeOK
  <2> QED BY <1>2, <1>3, <2>1, ExceptSeq
<1> PICK c \in AnyCall : c = Shell!Idle
  BY IdleFits
<1>5. c.pc = "idle" /\ Sees(c) /\ ~Makes(c) /\ Apart(k, c) /\ call' = [call EXCEPT ![k] = c]
  BY <1>3, IdleFits
<1>6. call'[k] = c /\ \A j \in ShellCalls : j # k => call'[j] = call[j]
  BY <1>1, <1>5 DEF Shell!TypeOK
<1>7. (\A v \in Users : Has(v)' <=> Has(v)) /\ Shell!Open' = Shell!Open /\ Sees(c)' /\ NoStampTwice'
  <2>1. ~Inserts(c)
    BY <1>5 DEF Inserts, Creates
  <2> QED BY <1>3, <1>5, <2>1 DEF Has, Shell!Open, Sees, SessionsInv, NoStampTwice
<1>8. ASSUME ~shellRaced' PROVE HasRoom' /\ StampsSettle'
  <2>1. HasRoom /\ StampsSettle
    BY <1>3, <1>8 DEF SessionsInv, Accounted
  <2>2. HasRoom'
    <3>1. \A j \in ShellCalls : Makes(call'[j]) => Cardinality(Shell!Open) < MaxSessions
      BY <1>5, <1>6, <2>1 DEF HasRoom
    <3> QED BY <1>7, <2>1, <3>1 DEF HasRoom
  <2>3. StampsSettle'
    <3>1. call[k].pc \notin {"stamp", "forget"} /\ sessions' = sessions /\ activity' = activity
      BY <1>3
    <3> QED BY <1>6, <2>1, <3>1 DEF StampsSettle, Has
  <2> QED BY <2>2, <2>3
<1>9. /\ sessions' \in [Users -> (1..Len(dir')) \cup {Null}]
      /\ activity' \in Seq(Users) /\ Len(dir') >= Len(dir)
      /\ reported' \in [Users -> Dirs \cup {Null}] /\ excused' \in SUBSET Users
      /\ shellRaced' \in BOOLEAN /\ (shellRaced => shellRaced')
  BY <1>1, <1>2, <1>3, <1>4 DEF Shell!TypeOK
<1> QED BY <1>4, <1>5, <1>7, <1>8, <1>9, CallSteps DEF Apart

LEMMA SessionsStep == SessionsInv /\ Shell!Next => SessionsInv'
<1> SUFFICES ASSUME SessionsInv, Shell!Next PROVE SessionsInv'
  OBVIOUS
<1>1. ASSUME NEW k \in ShellCalls, call[k].pc \in {"running", "cd"}
      PROVE  dir[call[k].obj] \in Dirs
  <2>1. dir \in Seq(Dirs) /\ call[k].obj \in 1 .. Len(dir)
    BY <1>1 DEF SessionsInv, Shell!TypeOK, CallPlaced, InShell
  <2> QED BY <2>1
<1>2. ASSUME NEW k \in ShellCalls,
             Shell!Finish(k) \/ Shell!UpdateWorkingDirectory(k) \/ Shell!UpdateFails(k)
      PROVE  SessionsInv'
  BY <1>1, <1>2, AnswersStep DEF Shell!Finish, Shell!UpdateWorkingDirectory, Shell!UpdateFails
<1>3. ASSUME NEW k \in ShellCalls, Shell!Step(k) PROVE SessionsInv'
  BY <1>2, <1>3, ScanStep, SweepStep, LookStep, DropStep, ForgetStep, FindStep, TouchStep, TakeStep,
     InsertStep, StampStep, BeginStep, ContainsCdStep DEF Shell!Step
<1> QED BY <1>3, ExecuteStep, CloseStep DEF Shell!Next

\* Session objects belong to one user.
ObjectsOwned ==
    /\ \A u, v \in Users : Has(u) /\ sessions[u] = sessions[v] => u = v
    /\ \A k \in ShellCalls, v \in Users :
          InShell(call[k]) /\ sessions[v] = call[k].obj => v = call[k].user

\* A user who is not excused has at most one command under way, it works in the
\* user's session, and the session is where the last response said.
CarriesOn ==
    \A u \in Users \ excused :
        /\ \A j, k \in Shell!Active(u) : j = k
        /\ \A k \in Shell!Active(u) : /\ InShell(call[k]) => sessions[u] = call[k].obj
                                      /\ Inserts(call[k]) => reported[u] = Null
        /\ reported[u] # Null => Has(u) /\ dir[sessions[u]] = reported[u]

DirectoryInv == SessionsInv /\ ObjectsOwned /\ CarriesOn

LEMMA ActiveIs ==
    ASSUME Shell!TypeOK
    PROVE  \A u : \A k : k \in Shell!Active(u) <=>
              k \in ShellCalls /\ call[k].pc # "idle" /\ call[k].op = "shell" /\ call[k].user = u
<1> SUFFICES ASSUME NEW k \in ShellCalls PROVE call[k] = Shell!Idle <=> call[k].pc = "idle"
  BY DEF Shell!Active
<1>1. call[k] \in AnyCall
  BY DEF Shell!TypeOK, AnyCall
<1> QED BY <1>1, CallFields

\* What a step that makes no session and answers no command has to show.
LEMMA DirectoryMoves ==
    ASSUME DirectoryInv, SessionsInv', NEW k \in ShellCalls, NEW b \in AnyCall, NEW c \in AnyCall,
           b = call[k], c = call'[k], \A j \in ShellCalls : j # k => call'[j] = call[j],
           UNCHANGED <<dir, reported>>, excused \subseteq excused',
           \A u \in Users : sessions'[u] = sessions[u] \/ (sessions'[u] = Null /\ u \in excused'),
           c.pc # "idle" /\ c.op = "shell" =>
              \/ b.pc # "idle" /\ b.op = "shell" /\ b.user = c.user
              \/ c.user \in excused' \/ Shell!Active(c.user) = {},
           InShell(c) => \/ InShell(b) /\ b.user = c.user /\ b.obj = c.obj
                         \/ c.obj = sessions[c.user],
           Inserts(c) => (Inserts(b) /\ b.user = c.user) \/ ~Has(c.user)
    PROVE  ObjectsOwned' /\ CarriesOn'
<1>1. /\ Shell!TypeOK /\ Shell!TypeOK' /\ ObjectsOwned /\ CarriesOn
      /\ \A j \in ShellCalls : CallPlaced(call[j]) /\ CallPlaced(call[j])'
  BY DEF DirectoryInv, SessionsInv
<1>2. \A u \in Users : Has(u)' => Has(u) /\ sessions'[u] = sessions[u]
  BY DEF Has
<1>3. /\ InShell(c) => c.user \in Users /\ c.op = "shell" /\ c.pc # "idle" /\ c.obj \in 1 .. Len(dir)
      /\ InShell(b) => b.user \in Users /\ b.op = "shell" /\ b.pc # "idle"
      /\ Inserts(c) => c.user \in Users /\ c.op = "shell" /\ c.pc # "idle"
      /\ Inserts(b) => b.user \in Users /\ b.op = "shell" /\ b.pc # "idle"
  <2>1. InShell(c) => c.obj \in 1 .. Len(dir)
    BY <1>1 DEF CallPlaced
  <2>2. /\ InShell(c) => c \in Shell!ShellCall /\ c.pc # "idle"
        /\ InShell(b) => b \in Shell!ShellCall /\ b.pc # "idle"
    BY CallFields DEF InShell
  <2>3. /\ Inserts(c) => c \in Shell!ShellCall /\ c.pc # "idle"
        /\ Inserts(b) => b \in Shell!ShellCall /\ b.pc # "idle"
    BY CallFields DEF Inserts, Creates
  <2> QED BY <2>1, <2>2, <2>3 DEF Shell!ShellCall
<1>4. \A o \in 1 .. Len(dir) : o # Null
  <2>1. Len(dir) \in Nat
    BY <1>1 DEF Shell!TypeOK
  <2> QED BY <2>1
<1> HIDE DEF InShell, Inserts, Has
<1>5. ObjectsOwned'
  <2>1. ASSUME NEW u \in Users, NEW v \in Users, Has(u)', sessions'[u] = sessions'[v] PROVE u = v
    BY <1>1, <1>2, <2>1 DEF ObjectsOwned, Has
  <2>2. ASSUME NEW v \in Users, InShell(c), sessions'[v] = c.obj PROVE v = c.user
    <3>1. Has(v) /\ sessions[v] = c.obj
      BY <1>2, <1>3, <1>4, <2>2 DEF Has
    <3>2. CASE InShell(b) /\ b.user = c.user /\ b.obj = c.obj
      BY <1>1, <3>1, <3>2 DEF ObjectsOwned
    <3>3. CASE c.obj = sessions[c.user]
      BY <1>1, <1>3, <2>2, <3>1, <3>3 DEF ObjectsOwned
    <3> QED BY <2>2, <3>2, <3>3
  <2>3. ASSUME NEW j \in ShellCalls, j # k, NEW v \in Users, InShell(call[j]), sessions'[v] = call[j].obj
        PROVE  v = call[j].user
    <3>1. call[j].obj \in 1 .. Len(dir)
      BY <1>1, <2>3 DEF CallPlaced
    <3>2. sessions[v] = call[j].obj
      BY <1>2, <1>4, <2>3, <3>1 DEF Has
    <3> QED BY <1>1, <2>3, <3>2 DEF ObjectsOwned
  <2>4. ASSUME NEW j \in ShellCalls, NEW v \in Users, InShell(call'[j]), sessions'[v] = call'[j].obj
        PROVE  v = call'[j].user
    BY <2>2, <2>3, <2>4
  <2> QED BY <2>1, <2>4 DEF ObjectsOwned
<1>6. ASSUME NEW u \in Users, u \notin excused'
      PROVE  /\ \A j, i \in Shell!Active(u)' : j = i
             /\ \A j \in Shell!Active(u)' : /\ InShell(call'[j]) => sessions'[u] = call'[j].obj
                                            /\ Inserts(call'[j]) => reported'[u] = Null
             /\ reported'[u] # Null => Has(u)' /\ dir'[sessions'[u]] = reported'[u]
  <2>1. /\ u \notin excused /\ sessions'[u] = sessions[u] /\ (Has(u)' <=> Has(u))
        /\ \A j, i \in Shell!Active(u) : j = i
        /\ \A j \in Shell!Active(u) : /\ InShell(call[j]) => sessions[u] = call[j].obj
                                      /\ Inserts(call[j]) => reported[u] = Null
        /\ reported[u] # Null => Has(u) /\ dir[sessions[u]] = reported[u]
    BY <1>1, <1>6 DEF CarriesOn, Has
  <2>2. \A j : j \in Shell!Active(u)' <=>
           j \in ShellCalls /\ call'[j].pc # "idle" /\ call'[j].op = "shell" /\ call'[j].user = u
    <3>1. \A j \in ShellCalls : call'[j] \in AnyCall
      BY <1>1 DEF Shell!TypeOK, AnyCall
    <3>2. \A j \in ShellCalls : call'[j] = Shell!Idle <=> call'[j].pc = "idle"
      BY <3>1, CallFields
    <3> QED BY <3>2 DEF Shell!Active
  <2>3. \A j : j \in Shell!Active(u) <=>
           j \in ShellCalls /\ call[j].pc # "idle" /\ call[j].op = "shell" /\ call[j].user = u
    BY <1>1, ActiveIs
  <2>4. \A j \in Shell!Active(u)' : j # k => j \in Shell!Active(u) /\ call'[j] = call[j]
    BY <2>2, <2>3
  <2>5. k \in Shell!Active(u)' => k \in Shell!Active(u) \/ Shell!Active(u) = {}
    BY <1>6, <2>2, <2>3
  <2>6. \A j, i \in Shell!Active(u)' : j = i
    BY <2>1, <2>4, <2>5
  <2>7. ASSUME k \in Shell!Active(u)'
        PROVE  /\ InShell(c) => sessions'[u] = c.obj
               /\ Inserts(c) => reported'[u] = Null
    <3>1. c.user = u
      BY <2>2, <2>7
    <3>2. (InShell(b) /\ b.user = u) \/ (Inserts(b) /\ b.user = u) => k \in Shell!Active(u)
      BY <1>3, <2>3
    <3>3. InShell(b) /\ b.user = u => sessions[u] = b.obj
      BY <2>1, <3>2
    <3>4. Inserts(b) /\ b.user = u => reported[u] = Null
      BY <2>1, <3>2
    <3> QED BY <2>1, <3>1, <3>3, <3>4
  <2>8. \A j \in Shell!Active(u)' : /\ InShell(call'[j]) => sessions'[u] = call'[j].obj
                                    /\ Inserts(call'[j]) => reported'[u] = Null
    <3> SUFFICES ASSUME NEW j \in Shell!Active(u)'
                 PROVE  /\ InShell(call'[j]) => sessions'[u] = call'[j].obj
                        /\ Inserts(call'[j]) => reported'[u] = Null
      OBVIOUS
    <3>1. CASE j = k
      BY <2>7, <3>1
    <3>2. CASE j # k
      BY <2>1, <2>4, <3>2
    <3> QED BY <3>1, <3>2
  <2> QED BY <2>1, <2>6, <2>8
<1> QED BY <1>5, <1>6 DEF CarriesOn

LEMMA DirectoryInitially == Shell!Init => DirectoryInv
<1> SUFFICES ASSUME Shell!Init PROVE DirectoryInv
  OBVIOUS
<1>1. /\ \A u \in Users : sessions[u] = Null /\ reported[u] = Null
      /\ \A k \in ShellCalls : call[k] = Shell!Idle
  BY DEF Shell!Init
<1>2. ObjectsOwned
  BY <1>1 DEF ObjectsOwned, Has, InShell, Shell!Idle
<1>3. CarriesOn
  BY <1>1 DEF CarriesOn, Shell!Active
<1> QED BY <1>2, <1>3, SessionsInitially DEF DirectoryInv

LEMMA DirectoryStutter == DirectoryInv /\ UNCHANGED shellVars => DirectoryInv'
<1> SUFFICES ASSUME DirectoryInv, UNCHANGED shellVars PROVE DirectoryInv'
  OBVIOUS
<1>1. UNCHANGED <<sessions, dir, call, reported, excused>>
  BY DEF shellVars
<1>2. SessionsInv'
  BY SessionsStutter DEF DirectoryInv
<1>3. ObjectsOwned'
  BY <1>1 DEF DirectoryInv, ObjectsOwned, Has
<1>4. CarriesOn'
  <2>1. \A u : Shell!Active(u)' = Shell!Active(u)
    BY <1>1 DEF Shell!Active
  <2> QED BY <1>1, <2>1 DEF DirectoryInv, CarriesOn, Has
<1> QED BY <1>2, <1>3, <1>4 DEF DirectoryInv

LEMMA CallEnds ==
    DirectoryInv => \A k \in ShellCalls :
        Shell!Fails(k) /\ SessionsInv' => ObjectsOwned' /\ CarriesOn'
<1> SUFFICES ASSUME DirectoryInv, NEW k \in ShellCalls, Shell!Fails(k), SessionsInv'
             PROVE  ObjectsOwned' /\ CarriesOn'
  OBVIOUS
<1>1. Shell!TypeOK
  BY DEF DirectoryInv, SessionsInv
<1> PICK b \in AnyCall : b = call[k]
  BY <1>1 DEF Shell!TypeOK, AnyCall
<1> PICK c \in AnyCall : c = Shell!Idle
  BY IdleFits
<1>2. c = call'[k] /\ c.pc = "idle" /\ \A j \in ShellCalls : j # k => call'[j] = call[j]
  BY <1>1, IdleFits DEF Shell!Fails, Shell!TypeOK
<1>3. ~InShell(c) /\ ~Inserts(c)
  BY <1>2 DEF InShell, Inserts, Creates
<1>4. UNCHANGED <<sessions, dir, reported, excused>>
  BY DEF Shell!Fails
<1> QED BY <1>2, <1>3, <1>4, DirectoryMoves

LEMMA DirectoryEnters ==
    DirectoryInv => \A k \in ShellCalls, u \in Users, w \in Dirs \cup {Null} :
        (Shell!ExecuteShell(k, u, w) \/ Shell!CloseShellSession(k, u)) /\ SessionsInv' =>
            ObjectsOwned' /\ CarriesOn'
<1> SUFFICES ASSUME DirectoryInv, NEW k \in ShellCalls, NEW u \in Users, NEW w \in Dirs \cup {Null},
                    Shell!ExecuteShell(k, u, w) \/ Shell!CloseShellSession(k, u), SessionsInv'
             PROVE  ObjectsOwned' /\ CarriesOn'
  OBVIOUS
<1>1. Shell!TypeOK /\ Shell!TypeOK'
  BY DEF DirectoryInv, SessionsInv
<1> PICK b \in AnyCall : b = call[k]
  BY <1>1 DEF Shell!TypeOK, AnyCall
<1> PICK c \in AnyCall : c = call'[k]
  BY <1>1 DEF Shell!TypeOK, AnyCall
<1>2. /\ \A j \in ShellCalls : j # k => call'[j] = call[j]
      /\ UNCHANGED <<sessions, dir, reported>> /\ excused \subseteq excused'
  BY <1>1 DEF Shell!ExecuteShell, Shell!CloseShellSession, Shell!TypeOK
<1>3. \/ c.pc = "scan" /\ (Shell!Active(u) = {} \/ u \in excused') /\ c.user = u
      \/ c.pc = "look" /\ c.op = "close" /\ c.then = "idle"
  BY <1>1 DEF Shell!ExecuteShell, Shell!CloseShellSession, Shell!TypeOK
<1>4. ~InShell(c) /\ ~Inserts(c)
  BY <1>3 DEF InShell, Inserts, Creates
<1> QED BY <1>2, <1>3, <1>4, DirectoryMoves

\* Steps in which a call keeps its user.
LEMMA DirectoryKeeps ==
    ASSUME DirectoryInv, SessionsInv', NEW k \in ShellCalls, NEW b \in AnyCall, NEW c \in AnyCall,
           b = call[k], c = call'[k], \A j \in ShellCalls : j # k => call'[j] = call[j],
           UNCHANGED <<dir, reported>>, excused \subseteq excused',
           \A u \in Users : sessions'[u] = sessions[u] \/ (sessions'[u] = Null /\ u \in excused'),
           b.pc # "idle", b.op = c.op, b.user = c.user,
           InShell(c) => (InShell(b) /\ b.obj = c.obj) \/ c.obj = sessions[c.user],
           Inserts(c) => Inserts(b) \/ ~Has(c.user)
    PROVE  ObjectsOwned' /\ CarriesOn'
<1> HIDE DEF InShell, Inserts, Has
<1> QED BY DirectoryMoves

LEMMA DirectoryInManager ==
    DirectoryInv => \A k \in ShellCalls :
        /\ \/ Shell!Scan(k) \/ Shell!Sweep(k) \/ Shell!Look(k) \/ Shell!Drop(k) \/ Shell!Forget(k)
           \/ Shell!Find(k) \/ Shell!Touch(k) \/ Shell!Take(k) \/ Shell!Stamp(k)
           \/ Shell!Begin(k) \/ Shell!ContainsCd(k)
        /\ SessionsInv'
        => ObjectsOwned' /\ CarriesOn'
<1> SUFFICES ASSUME DirectoryInv, NEW k \in ShellCalls, SessionsInv', ~Shell!Fails(k),
                    \/ Shell!Scan(k) \/ Shell!Sweep(k) \/ Shell!Look(k) \/ Shell!Drop(k) \/ Shell!Forget(k)
                    \/ Shell!Find(k) \/ Shell!Touch(k) \/ Shell!Take(k) \/ Shell!Stamp(k)
                    \/ Shell!Begin(k) \/ Shell!ContainsCd(k)
             PROVE  ObjectsOwned' /\ CarriesOn'
  BY CallEnds
<1>1. Shell!TypeOK /\ Shell!TypeOK' /\ CallPlaced(call[k])
  BY DEF DirectoryInv, SessionsInv
<1> PICK b \in AnyCall : b = call[k]
  BY <1>1 DEF Shell!TypeOK, AnyCall
<1> PICK c \in AnyCall : c = call'[k]
  BY <1>1 DEF Shell!TypeOK, AnyCall
<1> DEFINE Rest == /\ \A j \in ShellCalls : j # k => call'[j] = call[j]
                   /\ UNCHANGED <<dir, reported>> /\ excused \subseteq excused'
                   /\ \A u \in Users : sessions'[u] = sessions[u] \/ (sessions'[u] = Null /\ u \in excused')
           Stays == b.pc # "idle" /\ b.op = c.op /\ b.user = c.user
           Shelled == InShell(c) => (InShell(b) /\ b.obj = c.obj) \/ c.obj = sessions[c.user]
           Inserted == Inserts(c) => Inserts(b) \/ ~Has(c.user)
<1>2. CASE Shell!Scan(k)
  <2>1. b \in Shell!ShellCall
    BY <1>2, CallFields DEF Shell!Scan
  <2>2. Rest /\ Stays /\ c.pc = "sweep"
    BY <1>1, <1>2, <2>1 DEF Shell!Scan, Shell!TypeOK, Shell!ShellCall
  <2>3. Shelled /\ Inserted
    BY <2>2 DEF InShell, Inserts, Creates
  <2> QED BY <2>2, <2>3, DirectoryKeeps
<1>3. CASE Shell!Sweep(k)
  <2>1. b \in Shell!ShellCall /\ b.then = "find"
    BY <1>1, <1>3, CallFields DEF Shell!Sweep, CallPlaced
  <2>2. Rest /\ Stays /\ c.pc = "look" /\ c.then = "find"
    BY <1>1, <1>3, <2>1 DEF Shell!Sweep, Shell!TypeOK, Shell!ShellCall
  <2>3. Shelled /\ Inserted
    BY <2>2 DEF InShell, Inserts, Creates
  <2> QED BY <2>2, <2>3, DirectoryKeeps
<1>4. CASE Shell!Look(k)
  <2>1. /\ b.pc = "look" /\ b \in Shell!ShellCall \cup Shell!CloseCall
        /\ b.then \in {"find", "insert", "idle"}
    <3>1. b.pc = "look"
      BY <1>4 DEF Shell!Look
    <3> QED BY <3>1, CallFields DEF Shell!ShellCall, Shell!CloseCall
  <2>2. Rest
    BY <1>1, <1>4 DEF Shell!Look, Shell!Moved, Shell!TypeOK
  <2>3. ~(b.left = <<>> /\ b.then = "idle")
    BY <1>4 DEF Shell!Look, Shell!Fails
  <2>4. Stays /\ c.then = b.then /\ c.pc \in {"look", "drop", b.then}
    BY <1>1, <1>4, <2>1, <2>3 DEF Shell!Look, Shell!Moved, Shell!TypeOK, Shell!ShellCall, Shell!CloseCall
  <2>5. Shelled /\ Inserted
    BY <2>1, <2>4 DEF InShell, Inserts, Creates
  <2> QED BY <2>2, <2>4, <2>5, DirectoryKeeps
<1>5. CASE Shell!Drop(k)
  <2>1. b.pc = "drop" /\ b \in Shell!ShellCall \cup Shell!CloseCall
    <3>1. b.pc = "drop"
      BY <1>5 DEF Shell!Drop
    <3> QED BY <3>1, CallFields
  <2>2. Rest /\ Stays /\ c.then = b.then /\ c.pc = "forget"
    BY <1>1, <1>5, <2>1 DEF Shell!Drop, Shell!Moved, Shell!TypeOK, Shell!ShellCall, Shell!CloseCall
  <2>3. Shelled /\ Inserted
    BY <2>1, <2>2 DEF InShell, Inserts, Creates
  <2> QED BY <2>2, <2>3, DirectoryKeeps
<1>6. CASE Shell!Forget(k)
  <2>1. b.pc = "forget" /\ b \in Shell!ShellCall \cup Shell!CloseCall
    <3>1. b.pc = "forget"
      BY <1>6 DEF Shell!Forget
    <3> QED BY <3>1, CallFields
  <2>2. Rest /\ Stays /\ c.then = b.then /\ c.pc = "look"
    BY <1>1, <1>6, <2>1 DEF Shell!Forget, Shell!TypeOK, Shell!ShellCall, Shell!CloseCall
  <2>3. Shelled /\ Inserted
    BY <2>1, <2>2 DEF InShell, Inserts, Creates
  <2> QED BY <2>2, <2>3, DirectoryKeeps
<1>7. CASE Shell!Find(k)
  <2>1. b.pc = "find" /\ b \in Shell!ShellCall
    BY <1>7, CallFields DEF Shell!Find
  <2>2. Rest /\ Stays /\ (c.pc = "touch" \/ (c.pc \in {"look", "insert"} /\ sessions[c.user] = Null))
    BY <1>1, <1>7, <2>1 DEF Shell!Find, Shell!Found, Shell!TypeOK, Shell!ShellCall
  <2>3. Shelled /\ Inserted
    BY <2>2 DEF InShell, Inserts, Creates, Has
  <2> QED BY <2>2, <2>3, DirectoryKeeps
<1>8. CASE Shell!Touch(k)
  <2>1. b.pc = "touch" /\ b \in Shell!ShellCall
    BY <1>8, CallFields DEF Shell!Touch
  <2>2. Rest /\ Stays /\ c.pc = "take"
    BY <1>1, <1>8, <2>1 DEF Shell!Touch, Shell!Moved, Shell!TypeOK, Shell!ShellCall
  <2>3. Shelled /\ Inserted
    BY <2>2 DEF InShell, Inserts, Creates
  <2> QED BY <2>2, <2>3, DirectoryKeeps
<1>9. CASE Shell!Take(k)
  <2>1. b.pc = "take" /\ b \in Shell!ShellCall
    BY <1>9, CallFields DEF Shell!Take
  <2>2. Rest /\ Stays /\ c.pc = "begin" /\ c.obj = sessions[c.user]
    BY <1>1, <1>9, <2>1 DEF Shell!Take, Shell!TypeOK, Shell!ShellCall
  <2>3. Shelled /\ Inserted
    BY <2>2 DEF Inserts, Creates
  <2> QED BY <2>2, <2>3, DirectoryKeeps
<1>10. CASE Shell!Stamp(k)
  <2>1. b.pc = "stamp" /\ b \in Shell!ShellCall
    BY <1>10, CallFields DEF Shell!Stamp
  <2>2. Rest /\ Stays /\ c.pc = "begin" /\ c.obj = b.obj
    BY <1>1, <1>10, <2>1 DEF Shell!Stamp, Shell!Moved, Shell!TypeOK, Shell!ShellCall
  <2>3. Shelled /\ Inserted
    BY <2>1, <2>2 DEF InShell, Inserts, Creates
  <2> QED BY <2>2, <2>3, DirectoryKeeps
<1>11. CASE Shell!Begin(k) \/ Shell!ContainsCd(k)
  <2>1. b.pc \in {"begin", "running"} /\ b \in Shell!ShellCall
    BY <1>11, CallFields DEF Shell!Begin, Shell!ContainsCd
  <2>2. Rest /\ Stays /\ c.pc \in {"running", "cd"} /\ c.obj = b.obj
    BY <1>1, <1>11, <2>1 DEF Shell!Begin, Shell!ContainsCd, Shell!Moved, Shell!TypeOK, Shell!ShellCall
  <2>3. Shelled /\ Inserted
    BY <2>1, <2>2 DEF InShell, Inserts, Creates
  <2> QED BY <2>2, <2>3, DirectoryKeeps
<1> QED BY <1>2, <1>3, <1>4, <1>5, <1>6, <1>7, <1>8, <1>9, <1>10, <1>11

LEMMA DirectoryInserts ==
    DirectoryInv => \A k \in ShellCalls : Shell!Insert(k) /\ SessionsInv' => ObjectsOwned' /\ CarriesOn'
<1> SUFFICES ASSUME DirectoryInv, NEW k \in ShellCalls, Shell!Insert(k), SessionsInv'
             PROVE  ObjectsOwned' /\ CarriesOn'
  OBVIOUS
<1>1. /\ Shell!TypeOK /\ Shell!TypeOK' /\ ObjectsOwned /\ CarriesOn
      /\ \A j \in ShellCalls : CallPlaced(call[j])
  BY DEF DirectoryInv, SessionsInv
<1>2. call[k] \in AnyCall /\ call[k].pc = "insert"
  BY <1>1 DEF Shell!TypeOK, AnyCall, Shell!Insert
<1> PICK b \in AnyCall : b = call[k]
  BY <1>2
<1>3. b.pc = "insert" /\ b \in Shell!ShellCall /\ b.user \in Users /\ b.wd \in Dirs \cup {Null}
  BY <1>2, CallFields DEF Shell!ShellCall
<1> PICK u \in Users : u = b.user
  BY <1>3
<1> DEFINE d == IF b.wd = Null THEN Home ELSE b.wd
<1>4. dir' = Append(dir, d) /\ d \in Dirs /\ dir \in Seq(Dirs)
  BY <1>1, <1>3 DEF Shell!Insert, Shell!TypeOK
<1> HIDE DEF d
<1>5. /\ Len(dir') = Len(dir) + 1 /\ Len(dir) \in Nat
      /\ \A i \in 1 .. Len(dir) : dir'[i] = dir[i]
  BY <1>4
<1> PICK o \in Nat : o = Len(dir')
  BY <1>5
<1>6. /\ sessions' = [sessions EXCEPT ![u] = o]
      /\ call' = [call EXCEPT ![k].pc = "stamp", ![k].obj = o]
      /\ UNCHANGED <<reported, excused>>
  BY DEF Shell!Insert
<1>7. /\ sessions'[u] = o /\ \A v \in Users : v # u => sessions'[v] = sessions[v]
      /\ call'[k].pc = "stamp" /\ call'[k].op = b.op /\ call'[k].user = u /\ call'[k].obj = o
      /\ \A j \in ShellCalls : j # k => call'[j] = call[j]
  BY <1>1, <1>3, <1>6 DEF Shell!TypeOK, Shell!ShellCall
<1>8. /\ o # Null /\ o \notin 1 .. Len(dir)
      /\ \A v \in Users : sessions[v] \in 1 .. Len(dir) \/ sessions[v] = Null
  BY <1>1, <1>5 DEF Shell!TypeOK
<1>9. ObjectsOwned'
  <2>1. ASSUME NEW v \in Users, NEW w \in Users, sessions'[v] # Null, sessions'[v] = sessions'[w]
        PROVE  v = w
    BY <1>1, <1>7, <1>8, <2>1 DEF ObjectsOwned, Has
  <2>2. ASSUME NEW j \in ShellCalls, NEW v \in Users, InShell(call'[j]), sessions'[v] = call'[j].obj
        PROVE  v = call'[j].user
    <3>1. CASE j = k
      BY <1>7, <1>8, <2>2, <3>1
    <3>2. CASE j # k
      <4>1. call[j].obj \in 1 .. Len(dir) /\ InShell(call[j]) /\ call'[j] = call[j]
        BY <1>1, <1>7, <2>2, <3>2 DEF CallPlaced
      <4>2. v # u
        BY <1>7, <1>8, <2>2, <4>1
      <4> QED BY <1>1, <1>7, <2>2, <4>1, <4>2 DEF ObjectsOwned
    <3> QED BY <3>1, <3>2
  <2> QED BY <2>1, <2>2 DEF ObjectsOwned, Has
<1>10. ASSUME NEW v \in Users, v \notin excused'
       PROVE  /\ \A j, i \in Shell!Active(v)' : j = i
              /\ \A j \in Shell!Active(v)' : /\ InShell(call'[j]) => sessions'[v] = call'[j].obj
                                             /\ Inserts(call'[j]) => reported'[v] = Null
              /\ reported'[v] # Null => Has(v)' /\ dir'[sessions'[v]] = reported'[v]
  <2>1. /\ \A j, i \in Shell!Active(v) : j = i
        /\ \A j \in Shell!Active(v) : /\ InShell(call[j]) => sessions[v] = call[j].obj
                                      /\ Inserts(call[j]) => reported[v] = Null
        /\ reported[v] # Null => Has(v) /\ dir[sessions[v]] = reported[v]
    BY <1>1, <1>6, <1>10 DEF CarriesOn
  <2>2. k \in Shell!Active(u) /\ b.op = "shell"
    BY <1>1, <1>3, ActiveIs DEF Shell!ShellCall
  <2>3. Shell!Active(v)' = Shell!Active(v)
    <3>1. call'[k] # Shell!Idle /\ call[k] # Shell!Idle
      BY <1>3, <1>7 DEF Shell!Idle
    <3> QED BY <1>7, <3>1 DEF Shell!Active
  <2>4. CASE v = u
    <3>1. reported[u] = Null
      BY <1>3, <2>1, <2>2, <2>4 DEF Inserts, Creates
    <3>2. \A j \in Shell!Active(v)' : j = k
      BY <2>1, <2>2, <2>3, <2>4
    <3> QED BY <1>6, <1>7, <2>1, <2>3, <2>4, <3>1, <3>2
  <2>5. CASE v # u
    <3>1. k \notin Shell!Active(v)
      BY <2>5 DEF Shell!Active
    <3>2. reported[v] # Null => sessions[v] \in 1 .. Len(dir)
      BY <1>8, <2>1 DEF Has
    <3>3. reported'[v] # Null => Has(v)' /\ dir'[sessions'[v]] = reported'[v]
      BY <1>5, <1>6, <1>7, <2>1, <2>5, <3>2 DEF Has
    <3>4. \A j \in Shell!Active(v)' : j \in ShellCalls /\ j # k
      BY <2>3, <3>1 DEF Shell!Active
    <3> QED BY <1>6, <1>7, <2>1, <2>3, <2>5, <3>3, <3>4
  <2> QED BY <2>4, <2>5
<1> QED BY <1>9, <1>10 DEF CarriesOn

LEMMA DirectoryAnswers ==
    DirectoryInv => \A k \in ShellCalls, d \in Dirs :
        Shell!Answers(k, d) /\ call[k].pc \in {"running", "cd"} /\ SessionsInv' =>
            ObjectsOwned' /\ CarriesOn'
<1> SUFFICES ASSUME DirectoryInv, NEW k \in ShellCalls, NEW d \in Dirs,
                    Shell!Answers(k, d), call[k].pc \in {"running", "cd"}, SessionsInv'
             PROVE  ObjectsOwned' /\ CarriesOn'
  OBVIOUS
<1>1. /\ Shell!TypeOK /\ Shell!TypeOK' /\ ObjectsOwned /\ CarriesOn
      /\ \A j \in ShellCalls : CallPlaced(call[j])
  BY DEF DirectoryInv, SessionsInv
<1> PICK b \in AnyCall : b = call[k]
  BY <1>1 DEF Shell!TypeOK, AnyCall
<1>2. /\ b \in Shell!ShellCall /\ b.user \in Users /\ b.op = "shell" /\ b.pc # "idle"
      /\ InShell(b) /\ b.obj \in 1 .. Len(dir)
  <2>1. b \in Shell!ShellCall /\ InShell(b)
    BY CallFields DEF InShell
  <2> QED BY <1>1, <2>1 DEF Shell!ShellCall, CallPlaced
<1> PICK u \in Users : u = b.user
  BY <1>2
<1> PICK o \in 1 .. Len(dir) : o = b.obj
  BY <1>2
<1>3. /\ dir' = [dir EXCEPT ![o] = d] /\ reported' = [reported EXCEPT ![u] = d]
      /\ excused' = (IF Shell!Active(u) = {k} /\ sessions[u] = o THEN excused \ {u} ELSE excused)
      /\ call' = [call EXCEPT ![k] = Shell!Idle] /\ sessions' = sessions
  BY DEF Shell!Answers
<1>4. /\ dir'[o] = d /\ \A i \in 1 .. Len(dir) : i # o => dir'[i] = dir[i]
      /\ reported'[u] = d /\ \A v \in Users : v # u => reported'[v] = reported[v]
      /\ call'[k] = Shell!Idle /\ \A j \in ShellCalls : j # k => call'[j] = call[j]
  <2>1. dir \in Seq(Dirs)
    BY <1>1 DEF Shell!TypeOK
  <2>2. dir'[o] = d /\ \A i \in 1 .. Len(dir) : i # o => dir'[i] = dir[i]
    BY <1>3, <2>1, ExceptSeq
  <2> QED BY <1>1, <1>3, <2>2 DEF Shell!TypeOK
<1>5. ~InShell(Shell!Idle) /\ ~Inserts(Shell!Idle)
  BY DEF InShell, Inserts, Creates, Shell!Idle
<1>6. ObjectsOwned'
  <2>1. \A j \in ShellCalls : InShell(call'[j]) => InShell(call[j]) /\ call'[j] = call[j]
    BY <1>4, <1>5
  <2> QED BY <1>1, <1>3, <2>1 DEF ObjectsOwned, Has
<1>7. \A v : Shell!Active(v)' \subseteq Shell!Active(v) \ {k}
  BY <1>4 DEF Shell!Active
<1>8. k \in Shell!Active(u)
  BY <1>1, <1>2, ActiveIs
<1>9. ASSUME NEW v \in Users, v \notin excused'
      PROVE  /\ \A j, i \in Shell!Active(v)' : j = i
             /\ \A j \in Shell!Active(v)' : /\ InShell(call'[j]) => sessions'[v] = call'[j].obj
                                            /\ Inserts(call'[j]) => reported'[v] = Null
             /\ reported'[v] # Null => Has(v)' /\ dir'[sessions'[v]] = reported'[v]
  <2>1. v \notin excused =>
           /\ \A j, i \in Shell!Active(v) : j = i
           /\ \A j \in Shell!Active(v) : /\ InShell(call[j]) => sessions[v] = call[j].obj
                                         /\ Inserts(call[j]) => reported[v] = Null
           /\ reported[v] # Null => Has(v) /\ dir[sessions[v]] = reported[v]
    BY <1>1 DEF CarriesOn
  <2>2. CASE v = u
    <3>1. Shell!Active(u) = {k} /\ sessions[u] = o
      <4>1. CASE u \in excused
        BY <1>3, <1>9, <2>2, <4>1
      <4>2. CASE u \notin excused
        BY <1>2, <1>8, <2>1, <2>2, <4>2
      <4> QED BY <4>1, <4>2
    <3>2. Shell!Active(u)' = {}
      BY <1>7, <3>1
    <3>3. Has(u)' /\ dir'[sessions'[u]] = reported'[u]
      <4>1. Len(dir) \in Nat
        BY <1>1 DEF Shell!TypeOK
      <4> QED BY <1>3, <1>4, <3>1, <4>1 DEF Has
    <3> QED BY <2>2, <3>2, <3>3
  <2>3. CASE v # u
    <3>1. v \notin excused
      BY <1>3, <1>9, <2>3
    <3>2. sessions[v] # o
      BY <1>1, <1>2, <2>3 DEF ObjectsOwned
    <3>3. sessions[v] \in 1 .. Len(dir) \/ ~Has(v)
      BY <1>1 DEF Shell!TypeOK, Has
    <3>4. reported'[v] # Null => Has(v)' /\ dir'[sessions'[v]] = reported'[v]
      BY <1>3, <1>4, <2>1, <2>3, <3>1, <3>2, <3>3 DEF Has
    <3>5. \A j \in Shell!Active(v)' : j \in Shell!Active(v) /\ call'[j] = call[j]
      BY <1>4, <1>7 DEF Shell!Active
    <3> QED BY <1>3, <1>4, <2>1, <2>3, <3>1, <3>4, <3>5
  <2> QED BY <2>2, <2>3
<1> QED BY <1>6, <1>9 DEF CarriesOn

LEMMA DirectoryStep == DirectoryInv /\ Shell!Next => DirectoryInv'
<1> SUFFICES ASSUME DirectoryInv, Shell!Next PROVE ObjectsOwned' /\ CarriesOn' /\ SessionsInv'
  BY DEF DirectoryInv
<1>1. SessionsInv'
  BY SessionsStep DEF DirectoryInv
<1>2. ASSUME NEW k \in ShellCalls,
             Shell!Finish(k) \/ Shell!UpdateWorkingDirectory(k) \/ Shell!UpdateFails(k)
      PROVE  ObjectsOwned' /\ CarriesOn'
  <2>1. call[k].pc \in {"running", "cd"}
    BY <1>2 DEF Shell!Finish, Shell!UpdateWorkingDirectory, Shell!UpdateFails
  <2>2. dir \in Seq(Dirs) /\ call[k].obj \in 1 .. Len(dir)
    BY <2>1 DEF DirectoryInv, SessionsInv, Shell!TypeOK, CallPlaced, InShell
  <2>3. dir[call[k].obj] \in Dirs
    BY <2>2
  <2> QED
    BY <1>1, <1>2, <2>1, <2>3, DirectoryAnswers
    DEF Shell!Finish, Shell!UpdateWorkingDirectory, Shell!UpdateFails
<1>3. ASSUME NEW k \in ShellCalls, Shell!Step(k) PROVE ObjectsOwned' /\ CarriesOn'
  BY <1>1, <1>2, <1>3, DirectoryInManager, DirectoryInserts DEF Shell!Step
<1> QED BY <1>1, <1>3, DirectoryEnters DEF Shell!Next

\* A command starts in the directory of its session object.
LEMMA CommandBegins ==
    DirectoryInv /\ Shell!Next =>
        \A k \in ShellCalls :
            (/\ call[k].pc = "begin" /\ call'[k].pc = "running" /\ call[k].wd = Null
             /\ call[k].user \notin excused /\ reported[call[k].user] # Null)
               => call'[k].at = reported[call[k].user]
<1> SUFFICES ASSUME DirectoryInv, Shell!Next, NEW k \in ShellCalls,
                    call[k].pc = "begin", call'[k].pc = "running", call[k].wd = Null,
                    call[k].user \notin excused, reported[call[k].user] # Null
             PROVE  call'[k].at = reported[call[k].user]
  OBVIOUS
<1>1. Shell!TypeOK /\ CarriesOn
  BY DEF DirectoryInv, SessionsInv
<1> PICK b \in AnyCall : b = call[k]
  BY <1>1 DEF Shell!TypeOK, AnyCall
<1>2. b \in Shell!ShellCall /\ b.user \in Users /\ b.op = "shell"
  <2>1. b \in Shell!ShellCall
    BY CallFields
  <2> QED BY <2>1 DEF Shell!ShellCall
<1>3. Shell!Begin(k)
  <2>1. \A j \in ShellCalls, u \in Users, w \in Dirs \cup {Null} :
           ~Shell!ExecuteShell(j, u, w) /\ ~Shell!CloseShellSession(j, u)
    BY <1>1 DEF Shell!ExecuteShell, Shell!CloseShellSession, Shell!Idle, Shell!TypeOK
  <2>2. ASSUME NEW j \in ShellCalls, Shell!Step(j) PROVE j = k
    <3>1. j # k => call'[k] = call[k]
      BY <1>1, <2>2
      DEF Shell!Step, Shell!Scan, Shell!Sweep, Shell!Look, Shell!Drop, Shell!Forget, Shell!Find,
          Shell!Touch, Shell!Take, Shell!Insert, Shell!Stamp, Shell!Begin, Shell!Finish,
          Shell!ContainsCd, Shell!UpdateWorkingDirectory, Shell!UpdateFails, Shell!Answers,
          Shell!Fails, Shell!Moved, Shell!TypeOK
    <3> QED BY <3>1
  <2>3. Shell!Step(k)
    BY <2>1, <2>2 DEF Shell!Next
  <2> QED
    BY <2>3
    DEF Shell!Step, Shell!Scan, Shell!Sweep, Shell!Look, Shell!Drop, Shell!Forget, Shell!Find,
        Shell!Touch, Shell!Take, Shell!Insert, Shell!Stamp, Shell!Finish,
        Shell!ContainsCd, Shell!UpdateWorkingDirectory, Shell!UpdateFails
<1>4. call'[k].at = dir[b.obj]
  BY <1>1, <1>2, <1>3 DEF Shell!Begin, Shell!TypeOK, Shell!ShellCall
<1>5. k \in Shell!Active(b.user) /\ InShell(b)
  <2>1. call[k].pc # "idle"
    OBVIOUS
  <2> QED BY <1>1, <1>2, <2>1, ActiveIs DEF InShell
<1>6. sessions[b.user] = b.obj /\ dir[sessions[b.user]] = reported[b.user]
  BY <1>1, <1>2, <1>5 DEF CarriesOn
<1> QED BY <1>4, <1>6

\* Unless calls raced in the manager there are never more shell sessions than
\* max_sessions and between calls every session has its time stamp and every
\* stamp its session.  A command that names no directory starts in the one the
\* last response reported to its user, unless commands of the user overlapped
\* or its session was closed, expired or evicted since.
THEOREM ShellIsKept == ServicesSpec => ShellKept
<1>1. ServicesInit => DirectoryInv
  BY DirectoryInitially DEF ServicesInit
<1>2. DirectoryInv /\ [ServicesNext]_<<service, missionVars, shellVars, emotionVars, studyVars,
                                       fileVars, storeVars, faults>> => DirectoryInv'
  BY DirectoryStep, DirectoryStutter DEF ServicesNext
<1>3. DirectoryInv => SessionsAccounted
  BY SessionsInvGives DEF DirectoryInv
<1>4. DirectoryInv /\ [ServicesNext]_<<service, missionVars, shellVars, emotionVars, studyVars,
                                       fileVars, storeVars, faults>> =>
        [\A k \in ShellCalls :
            (/\ call[k].pc = "begin" /\ call'[k].pc = "running" /\ call[k].wd = Null
             /\ call[k].user \notin excused /\ reported[call[k].user] # Null)
               => call'[k].at = reported[call[k].user]]_Shell!vars
  <2>1. UNCHANGED shellVars => UNCHANGED Shell!vars
    BY DEF shellVars, Shell!vars
  <2> QED BY <2>1, CommandBegins DEF ServicesNext
<1> QED
  BY <1>1, <1>2, <1>3, <1>4, PTL
  DEF ServicesSpec, ShellKept, DirectoryCarries, Shell!DirectoryCarries

HIDE ShellAssumed DEF Shell!PtyAssumption
=============================================================================
