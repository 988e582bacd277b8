-------------------------- MODULE Knowledge_proofs --------------------------
(***************************************************************************)
(* For every set of documents and chats and every bound: the types of      *)
(* Knowledge, that one transaction at a time has written the profile, and  *)
(* that XP is lost only to an award that had read it before.               *)
(***************************************************************************)
EXTENDS Knowledge, TLAPS

Counted == IF profile = Null THEN {} ELSE profile

\* Without a profile nothing was awarded yet.
FirstAward == profile = Null => awarded = {}

\* An award starts from nothing where it found no profile.
InsertsFromZero == \A x \in Awards : req[x].pc = "insert" => req[x].xp = {}

\* The value an award has read lacks only those that were committed since.
ReadIsRecent ==
    \A x \in Awards : req[x].pc = "update" =>
        /\ awarded \ crossed \subseteq req[x].xp
        /\ req[x].xp \subseteq awarded

\* What the holder of the profile has flushed is what will be committed.
FlushIsRecent ==
    \A x \in Awards : HoldsProfile(x) =>
        /\ awarded \ crossed \subseteq req[x].xp
        /\ req[x].xp \subseteq awarded \cup {x}
        /\ x \in req[x].xp

\* An upload that is done with its file knows the row it will commit.
DocumentKnown ==
    \A d \in Docs : req[d].pc \in {"read", "insert", "update", "commit"} => req[d].doc \in Document

IInv == /\ TypeOK /\ DocumentKnown /\ XpExact /\ FirstAward
        /\ InsertsFromZero /\ ReadIsRecent /\ FlushIsRecent

\* TypeOK without the exclusion of the holders, which is proved beside it.
Exclusion == \A x \in Awards : HoldsProfile(x) => ProfileFree(x)
-----------------------------------------------------------------------------
LEMMA RequestsTyped ==
    /\ Idle \in Request /\ Done \in Request /\ Failing \in Request
    /\ \A via \in Routes, form \in Formats :
          [Idle EXCEPT !.pc = "ingest", !.via = via, !.form = form] \in Request
    /\ \A n \in 0..MaxBatches : [Idle EXCEPT !.pc = "read", !.doc = Ready(n)] \in Request
<1>1. Failed \in Document
  BY KnowledgeAssumption DEF Failed, Document
<1>2. \A n \in 0..MaxBatches : Ready(n) \in Document
  BY DEF Ready, Document
<1>3. Idle \in Request /\ Done \in Request
  BY DEF Idle, Done, Request, Running
<1>4. Failing \in Request
  BY <1>1 DEF Failing, Idle, Request, Running
<1>5. \A via \in Routes, form \in Formats :
         [Idle EXCEPT !.pc = "ingest", !.via = via, !.form = form] \in Request
  BY DEF Idle, Request, Running
<1>6. \A n \in 0..MaxBatches : [Idle EXCEPT !.pc = "read", !.doc = Ready(n)] \in Request
  BY <1>2 DEF Idle, Request, Running
<1> QED  BY <1>3, <1>4, <1>5, <1>6

\* Failing one more time stays in the bound.
LEMMA FaultBounded ==
    ASSUME faults \in 0..MaxFaults, Fault \/ UNCHANGED faults
    PROVE  faults' \in 0..MaxFaults
BY KnowledgeAssumption DEF Fault

LEMMA NullApart == Null \notin SUBSET Awards /\ Null \notin Awards /\ MaxBatches \in Nat /\ MaxFaults \in Nat
BY KnowledgeAssumption

LEMMA InitInv == Init => IInv
<1> SUFFICES ASSUME Init PROVE IInv
  OBVIOUS
<1>1. \A x \in Awards : req[x] = Idle
  BY DEF Init
<1>2. \A x \in Awards : ~HoldsProfile(x)
  BY <1>1 DEF HoldsProfile, Idle
<1>3. TypeOK
  <2>1. req \in [Awards -> Request]
    BY RequestsTyped DEF Init
  <2>2. faults \in 0..MaxFaults /\ vectors \in [Docs -> 0..MaxBatches]
    BY NullApart DEF Init
  <2>3. \A x \in Awards : HoldsProfile(x) => ProfileFree(x)
    BY <1>2
  <2>4. profile \in (SUBSET Awards) \cup {Null}
    BY DEF Init
  <2> QED  BY <2>1, <2>2, <2>3, <2>4 DEF Init, TypeOK
<1>4. XpExact /\ FirstAward
  BY DEF Init, XpExact, FirstAward
<1>5. InsertsFromZero /\ ReadIsRecent /\ FlushIsRecent
  BY <1>1, <1>2 DEF InsertsFromZero, ReadIsRecent, FlushIsRecent, Idle
<1>6. DocumentKnown
  BY <1>1 DEF DocumentKnown, Idle, Awards
<1> QED  BY <1>3, <1>4, <1>5, <1>6 DEF IInv

-----------------------------------------------------------------------------
(* The steps, by what they do to the awards *)

OthersTyped ==
    /\ row \in [Docs -> Document \cup {Absent, Deleted}]
    /\ vectors \in [Docs -> 0..MaxBatches]
    /\ deletion \in [Docs -> {"none", "purge", "commit"}]
    /\ loop \in Chats \cup {Null}
    /\ faults \in 0..MaxFaults
    /\ strayed \in SUBSET Docs

AwardsTyped ==
    /\ profile \in (SUBSET Awards) \cup {Null}
    /\ req \in [Awards -> Request]
    /\ awarded \in SUBSET Awards /\ crossed \in SUBSET Awards
    /\ Exclusion

LEMMA TypeOKSplit == TypeOK <=> OthersTyped /\ AwardsTyped
BY DEF TypeOK, OthersTyped, AwardsTyped, Exclusion

AwardInv == /\ AwardsTyped /\ XpExact /\ FirstAward
            /\ InsertsFromZero /\ ReadIsRecent /\ FlushIsRecent

\* A request moves to a step in which it neither works on the profile nor has.
Quiet(x, q) ==
    /\ q \in Request
    /\ q.pc \notin {"insert", "update"}
    /\ q.pc = "commit" => q.xp = Null
    /\ req' = [req EXCEPT ![x] = q]
    /\ UNCHANGED <<profile, awarded, crossed>>

LEMMA QuietKeepsInv ==
    ASSUME AwardInv, NEW x \in Awards, NEW q, Quiet(x, q)
    PROVE  AwardInv'
<1> USE DEF AwardInv, AwardsTyped, Quiet
<1>1. /\ req' \in [Awards -> Request] /\ req'[x] = q
      /\ \A y \in Awards \ {x} : req'[y] = req[y]
  BY req \in [Awards -> Request]
<1>2. ~(req'[x].pc = "commit" /\ req'[x].xp # Null)
  BY <1>1
<1>3. \A y \in Awards : HoldsProfile(y)' => y # x /\ HoldsProfile(y)
  <2> SUFFICES ASSUME NEW y \in Awards, HoldsProfile(y)' PROVE y # x /\ HoldsProfile(y)
    OBVIOUS
  <2>1. req'[y].pc = "commit" /\ req'[y].xp # Null
    BY DEF HoldsProfile
  <2> QED  BY <1>1, <1>2, <2>1 DEF HoldsProfile
<1>4. Exclusion'
  BY <1>3 DEF Exclusion, ProfileFree
<1>5. (XpExact /\ FirstAward)'
  BY DEF XpExact, FirstAward
<1>6. (InsertsFromZero /\ ReadIsRecent)'
  BY <1>1 DEF InsertsFromZero, ReadIsRecent
<1>7. FlushIsRecent'
  BY <1>1, <1>3 DEF FlushIsRecent
<1> QED  BY <1>1, <1>4, <1>5, <1>6, <1>7

LEMMA ReadKeepsInv ==
    ASSUME AwardInv, NEW x \in Awards, ReadProfile(x)
    PROVE  AwardInv'
<1> USE DEF AwardInv, AwardsTyped
<1> DEFINE pc == IF profile = Null THEN "insert" ELSE "update"
           q == [req[x] EXCEPT !.pc = pc, !.xp = Counted]
<1>1. /\ Counted \in SUBSET Awards
      /\ awarded \ crossed \subseteq Counted /\ Counted \subseteq awarded
      /\ pc \in {"insert", "update"}
      /\ pc = "insert" => Counted = {}
  BY DEF Counted, XpExact
<1>2. q \in Request /\ q.pc = pc /\ q.xp = Counted
  BY <1>1 DEF Request, Running
<1>3. req' = [req EXCEPT ![x] = q]
  BY DEF ReadProfile, Counted
<1>4. UNCHANGED <<profile, awarded, crossed>>
  BY DEF ReadProfile
<1> HIDE DEF pc, q
<1>5. /\ req' \in [Awards -> Request] /\ req'[x] = q
      /\ \A y \in Awards \ {x} : req'[y] = req[y]
  BY <1>2, <1>3
<1>6. \A y \in Awards : HoldsProfile(y)' => y # x /\ HoldsProfile(y)
  BY <1>1, <1>2, <1>5 DEF HoldsProfile
<1>7. Exclusion'
  BY <1>6 DEF Exclusion, ProfileFree
<1>8. (XpExact /\ FirstAward)'
  BY <1>4 DEF XpExact, FirstAward
<1>9. (InsertsFromZero /\ ReadIsRecent)'
  BY <1>1, <1>2, <1>4, <1>5 DEF InsertsFromZero, ReadIsRecent
<1>10. FlushIsRecent'
  BY <1>4, <1>5, <1>6 DEF FlushIsRecent
<1> QED  BY <1>4, <1>5, <1>7, <1>8, <1>9, <1>10

LEMMA AwardKeepsInv ==
    ASSUME AwardInv, NEW x \in Awards, Award(x)
    PROVE  AwardInv'
<1> USE DEF AwardInv, AwardsTyped
<1> DEFINE q == [req[x] EXCEPT !.pc = "commit", !.xp = req[x].xp \cup {x}]
<1>1. /\ req[x].xp \in SUBSET Awards
      /\ awarded \ crossed \subseteq req[x].xp /\ req[x].xp \subseteq awarded
  BY NullApart DEF Award, InsertsFromZero, ReadIsRecent, FirstAward
<1>2. q \in Request /\ q.pc = "commit" /\ q.xp = req[x].xp \cup {x}
  BY <1>1 DEF Request, Running
<1>3. req' = [req EXCEPT ![x] = q] /\ UNCHANGED <<profile, awarded, crossed>>
  BY DEF Award, Raised
<1>4. /\ req' \in [Awards -> Request] /\ req'[x] = q
      /\ \A y \in Awards \ {x} : req'[y] = req[y]
  BY <1>2, <1>3
<1>5. \A y \in Awards : HoldsProfile(y)' => y = x
  BY <1>4 DEF Award, ProfileFree, HoldsProfile
<1>6. Exclusion'
  BY <1>5 DEF Exclusion, ProfileFree
<1>7. (XpExact /\ FirstAward)'
  BY <1>3 DEF XpExact, FirstAward
<1>8. (InsertsFromZero /\ ReadIsRecent)'
  BY <1>2, <1>3, <1>4 DEF InsertsFromZero, ReadIsRecent
<1>9. FlushIsRecent'
  BY <1>1, <1>2, <1>3, <1>4, <1>5 DEF FlushIsRecent
<1> QED  BY <1>3, <1>4, <1>6, <1>7, <1>8, <1>9

LEMMA CommitKeepsInv ==
    ASSUME AwardInv, NEW x \in Awards, Commit(x)
    PROVE  AwardInv'
<1> USE DEF AwardInv, AwardsTyped
<1>1. Done \in Request /\ Done.pc = "done"
  BY RequestsTyped DEF Done, Idle
<1>2. CASE req[x].xp = Null
  BY <1>1, <1>2, QuietKeepsInv DEF Commit, Quiet
<1>3. CASE req[x].xp # Null
  <2>1. /\ profile' = req[x].xp /\ awarded' = awarded \cup {x}
        /\ crossed' = IF Stale # {} THEN crossed \cup {x} ELSE crossed
        /\ req' = [req EXCEPT ![x] = Done]
    BY <1>3 DEF Commit
  <2>2. /\ HoldsProfile(x) /\ req[x].xp \in SUBSET Awards
        /\ awarded \ crossed \subseteq req[x].xp
        /\ req[x].xp \subseteq awarded \cup {x} /\ x \in req[x].xp
    BY <1>3 DEF Commit, HoldsProfile, FlushIsRecent, Request
  <2>3. /\ req' \in [Awards -> Request] /\ req'[x] = Done
        /\ \A y \in Awards \ {x} : req'[y] = req[y]
    BY <1>1, <2>1
  <2>4. \A y \in Awards : ~HoldsProfile(y)'
    BY <1>1, <2>2, <2>3 DEF Exclusion, ProfileFree, HoldsProfile
  <2>5. XpExact' /\ FirstAward'
    BY <2>1, <2>2, NullApart DEF XpExact, FirstAward
  <2>6. InsertsFromZero' /\ Exclusion' /\ FlushIsRecent'
    BY <1>1, <2>3, <2>4 DEF InsertsFromZero, Exclusion, FlushIsRecent
  <2>7. ReadIsRecent'
    <3> SUFFICES ASSUME NEW y \in Awards, req'[y].pc = "update"
                 PROVE  /\ awarded' \ crossed' \subseteq req'[y].xp
                        /\ req'[y].xp \subseteq awarded'
      BY DEF ReadIsRecent
    <3>1. y # x /\ req'[y] = req[y] /\ req[y].pc = "update"
      BY <1>1, <2>3
    <3>2. crossed' = crossed \cup {x}
      BY <2>1, <3>1 DEF Stale
    <3> QED  BY <2>1, <3>1, <3>2 DEF ReadIsRecent
  <2> QED  BY <2>1, <2>2, <2>3, <2>5, <2>6, <2>7
<1> QED  BY <1>2, <1>3

LEMMA RestartKeepsInv ==
    ASSUME AwardInv, Restart
    PROVE  AwardInv'
<1> USE DEF AwardInv, AwardsTyped
<1>1. Done \in Request /\ Done.pc = "done"
  BY RequestsTyped DEF Done, Idle
<1>2. req' = [x \in Awards |-> IF Busy(x) THEN Done ELSE req[x]]
      /\ UNCHANGED <<profile, awarded, crossed>>
  BY DEF Restart
<1>3. req' \in [Awards -> Request]
  BY <1>1, <1>2
<1>4. \A x \in Awards : req'[x].pc \notin Running
  BY <1>1, <1>2 DEF Busy, Running
<1>5. \A x \in Awards : req'[x].pc \notin {"insert", "update"} /\ ~HoldsProfile(x)'
  BY <1>4 DEF HoldsProfile, Running
<1>6. (XpExact /\ FirstAward)'
  BY <1>2 DEF XpExact, FirstAward
<1>7. Exclusion' /\ (InsertsFromZero /\ ReadIsRecent /\ FlushIsRecent)'
  BY <1>5 DEF Exclusion, InsertsFromZero, ReadIsRecent, FlushIsRecent
<1> QED  BY <1>2, <1>3, <1>6, <1>7

LEMMA UnchangedKeepsInv ==
    ASSUME AwardInv, UNCHANGED <<req, profile, awarded, crossed>>
    PROVE  AwardInv'
BY DEF AwardInv, AwardsTyped, Exclusion, ProfileFree, HoldsProfile, XpExact, FirstAward,
       InsertsFromZero, ReadIsRecent, FlushIsRecent

-----------------------------------------------------------------------------
LEMMA StepKeepsAwards ==
    ASSUME AwardInv, OthersTyped, [Next]_vars
    PROVE  AwardInv'
<1> USE DEF AwardInv, AwardsTyped
<1>1. ASSUME NEW d \in Docs, NEW via \in Routes, NEW form \in Formats, Upload(d, via, form)
      PROVE  AwardInv'
  <2> DEFINE q == [Idle EXCEPT !.pc = "ingest", !.via = via, !.form = form]
  <2>1. q \in Request /\ q.pc = "ingest"
    BY RequestsTyped DEF Idle
  <2>2. Quiet(d, q)
    BY <1>1, <2>1 DEF Upload, Quiet
  <2> QED  BY <2>2, QuietKeepsInv DEF Awards
<1>2. ASSUME NEW c \in Chats, StartChat(c)
      PROVE  AwardInv'
  <2> DEFINE q == [req[c] EXCEPT !.pc = "read"]
  <2>1. q \in Request /\ q.pc = "read"
    BY DEF Request, Running, Awards
  <2>2. Quiet(c, q)
    BY <1>2, <2>1 DEF StartChat, Quiet
  <2> QED  BY <2>2, QuietKeepsInv DEF Awards
<1>3. ASSUME NEW d \in Docs, Ingested(d)
      PROVE  AwardInv'
  <2> DEFINE ready == [Idle EXCEPT !.pc = "read", !.doc = Ready(vectors[d])]
  <2>1. /\ ready \in Request /\ ready.pc = "read"
        /\ Failing \in Request /\ Failing.pc = "commit" /\ Failing.xp = Null
    BY RequestsTyped DEF OthersTyped, Idle, Failing
  <2>2. Quiet(d, ready) \/ Quiet(d, Failing)
    BY <1>3, <2>1 DEF Ingested, Quiet
  <2> QED  BY <2>2, QuietKeepsInv DEF Awards
<1>4. ASSUME NEW d \in Docs, IngestFails(d)
      PROVE  AwardInv'
  <2>1. Failing \in Request /\ Failing.pc = "commit" /\ Failing.xp = Null
    BY RequestsTyped DEF Idle, Failing
  <2>2. Quiet(d, Failing)
    BY <1>4, <2>1 DEF IngestFails, Quiet
  <2> QED  BY <2>2, QuietKeepsInv DEF Awards
<1>5. ASSUME NEW x \in Awards, AwardBreaks(x)
      PROVE  AwardInv'
  <2> DEFINE q == [req[x] EXCEPT !.pc = "commit", !.xp = Null, !.broken = TRUE]
  <2>1. q \in Request /\ q.pc = "commit" /\ q.xp = Null
    BY DEF Request, Running
  <2>2. Quiet(x, q)
    BY <1>5, <2>1 DEF AwardBreaks, Quiet
  <2> QED  BY <2>2, QuietKeepsInv
<1>6. ASSUME NEW x \in Awards, RollBack(x)
      PROVE  AwardInv'
  <2>1. Done \in Request /\ Done.pc = "done"
    BY RequestsTyped DEF Done, Idle
  <2>2. Quiet(x, Done)
    BY <1>6, <2>1 DEF RollBack, Quiet
  <2> QED  BY <2>2, QuietKeepsInv
<1>7. ASSUME NEW d \in Docs, AddBatch(d) \/ DeleteDocument(d) \/ DeletionStep(d)
      PROVE  AwardInv'
  BY <1>7, UnchangedKeepsInv
     DEF AddBatch, DeleteDocument, DeletionStep, PurgeVectors, PurgeFails, CommitDelete,
         CommitDeleteFails
<1>8. CASE UNCHANGED vars
  BY <1>8, UnchangedKeepsInv DEF vars
<1>9. CASE Restart
  BY <1>9, RestartKeepsInv
<1> QED
  BY <1>1, <1>2, <1>3, <1>4, <1>5, <1>6, <1>7, <1>8, <1>9,
     ReadKeepsInv, AwardKeepsInv, CommitKeepsInv
     DEF Next, RequestStep

LEMMA StepKeepsTypes ==
    ASSUME OthersTyped, AwardsTyped, DocumentKnown, [Next]_vars
    PROVE  OthersTyped'
<1> USE NullApart DEF OthersTyped, AwardsTyped
<1>1. ASSUME NEW d \in Docs, NEW via \in Routes, NEW form \in Formats, Upload(d, via, form)
      PROVE  OthersTyped'
  BY <1>1 DEF Upload
<1>2. ASSUME NEW c \in Chats, StartChat(c)
      PROVE  OthersTyped'
  BY <1>2 DEF StartChat
<1>3. ASSUME NEW d \in Docs, AddBatch(d) \/ Ingested(d) \/ IngestFails(d)
      PROVE  OthersTyped'
  <2>1. CASE AddBatch(d)
    <3>1. vectors[d] + 1 \in 0..MaxBatches
      BY <2>1 DEF AddBatch
    <3> QED  BY <2>1, <3>1 DEF AddBatch
  <2>2. CASE Ingested(d)
    BY <2>2 DEF Ingested
  <2>3. CASE IngestFails(d)
    BY <2>3 DEF IngestFails
  <2> QED  BY <1>3, <2>1, <2>2, <2>3
<1>4. ASSUME NEW x \in Awards, ReadProfile(x) \/ Award(x) \/ AwardBreaks(x)
      PROVE  OthersTyped'
  <2>1. faults' \in 0..MaxFaults
    BY <1>4, FaultBounded DEF ReadProfile, Award, AwardBreaks
  <2>2. loop' \in Chats \cup {Null}
    BY <1>4 DEF ReadProfile, Award, AwardBreaks, LoopAfter
  <2>3. UNCHANGED <<row, vectors, deletion, strayed>>
    BY <1>4 DEF ReadProfile, Award, AwardBreaks
  <2> QED  BY <2>1, <2>2, <2>3
<1>5. ASSUME NEW x \in Awards, Commit(x)
      PROVE  OthersTyped'
  <2>1. row' \in [Docs -> Document \cup {Absent, Deleted}]
    BY <1>5 DEF Commit, DocumentKnown
  <2> QED  BY <1>5, <2>1 DEF Commit
<1>6. ASSUME NEW xs
      PROVE  RolledBack(xs) \in [Docs -> Document \cup {Absent, Deleted}]
  BY DEF RolledBack
<1>7. ASSUME NEW x \in Awards, RollBack(x)
      PROVE  OthersTyped'
  <2>1. faults' \in 0..MaxFaults
    BY <1>7, FaultBounded DEF RollBack
  <2>2. strayed' \in SUBSET Docs
    BY <1>7 DEF RollBack
  <2>3. row' = RolledBack({x}) /\ UNCHANGED <<vectors, deletion, loop>>
    BY <1>7 DEF RollBack
  <2> QED  BY <1>6, <2>1, <2>2, <2>3
<1>8. ASSUME NEW d \in Docs, DeleteDocument(d) \/ PurgeVectors(d) \/ CommitDelete(d)
      PROVE  OthersTyped'
  <2>1. CASE DeleteDocument(d)
    BY <2>1 DEF DeleteDocument
  <2>2. CASE PurgeVectors(d)
    BY <2>2 DEF PurgeVectors, Purged
  <2>3. CASE CommitDelete(d)
    BY <2>3 DEF CommitDelete
  <2> QED  BY <1>8, <2>1, <2>2, <2>3
<1>9. ASSUME NEW d \in Docs, PurgeFails(d) \/ CommitDeleteFails(d)
      PROVE  OthersTyped'
  <2>1. faults' \in 0..MaxFaults
    BY <1>9, FaultBounded DEF PurgeFails, CommitDeleteFails
  <2> QED  BY <1>9, <2>1 DEF PurgeFails, CommitDeleteFails
<1>10. CASE Restart
  <2>1. faults' \in 0..MaxFaults
    BY <1>10, FaultBounded DEF Restart
  <2>2. /\ row' = RolledBack({d \in Docs : Busy(d)})
        /\ strayed' = strayed \cup {d \in Docs : Busy(d)}
        /\ deletion' = [d \in Docs |-> "none"] /\ loop' = Null /\ UNCHANGED vectors
    BY <1>10 DEF Restart
  <2> QED  BY <1>6, <2>1, <2>2
<1>11. CASE UNCHANGED vars
  BY <1>11 DEF vars
<1> QED
  BY <1>1, <1>2, <1>3, <1>4, <1>5, <1>7, <1>8, <1>9, <1>10, <1>11
     DEF Next, RequestStep, DeletionStep

LEMMA StepKeepsDocuments ==
    ASSUME OthersTyped, AwardsTyped, DocumentKnown, [Next]_vars
    PROVE  DocumentKnown'
<1> USE DEF DocumentKnown, AwardsTyped
<1> DEFINE Known(q) == q.pc \in {"read", "insert", "update", "commit"} => q.doc \in Document
           Moves(x, q) == req' = [req EXCEPT ![x] = q] /\ (x \in Docs => Known(q))
<1>1. ASSUME NEW x \in Awards, NEW q, Moves(x, q)
      PROVE  DocumentKnown'
  <2>1. \A d \in Docs : req'[d] = IF d = x THEN q ELSE req[d]
    BY <1>1 DEF Awards
  <2> QED  BY <1>1, <2>1
<1>2. /\ Failing.doc \in Document /\ Done.pc = "done"
      /\ \A n \in 0..MaxBatches : Ready(n) \in Document
  BY NullApart DEF Failing, Failed, Idle, Done, Ready, Document
<1>3. ASSUME NEW d \in Docs, NEW via \in Routes, NEW form \in Formats, Upload(d, via, form)
      PROVE  DocumentKnown'
  <2> DEFINE q == [Idle EXCEPT !.pc = "ingest", !.via = via, !.form = form]
  <2>1. q.pc = "ingest"
    BY DEF Idle
  <2> QED  BY <1>1, <1>3, <2>1 DEF Upload, Awards
<1>4. ASSUME NEW c \in Chats, StartChat(c)
      PROVE  DocumentKnown'
  <2>1. c \notin Docs
    BY KnowledgeAssumption
  <2> QED  BY <1>1, <1>4, <2>1 DEF StartChat, Awards
<1>5. ASSUME NEW d \in Docs, Ingested(d) \/ IngestFails(d)
      PROVE  DocumentKnown'
  <2> DEFINE ready == [Idle EXCEPT !.pc = "read", !.doc = Ready(vectors[d])]
  <2>1. ready.doc \in Document
    BY <1>2 DEF Idle, OthersTyped
  <2>2. Moves(d, ready) \/ Moves(d, Failing)
    BY <1>2, <1>5, <2>1 DEF Ingested, IngestFails
  <2> QED  BY <1>1, <2>2 DEF Awards
<1>6. ASSUME NEW x \in Awards, ReadProfile(x) \/ Award(x) \/ AwardBreaks(x)
      PROVE  DocumentKnown'
  <2>1. \A d \in Docs : req'[d].doc = req[d].doc
    BY <1>6 DEF ReadProfile, Award, AwardBreaks, Awards, Request
  <2>2. \A d \in Docs : d # x => req'[d] = req[d]
    BY <1>6 DEF ReadProfile, Award, AwardBreaks, Awards
  <2>3. req[x].pc \in {"read", "insert", "update"}
    BY <1>6 DEF ReadProfile, Award, AwardBreaks
  <2> QED  BY <2>1, <2>2, <2>3
<1>7. ASSUME NEW x \in Awards, Commit(x) \/ RollBack(x)
      PROVE  DocumentKnown'
  BY <1>1, <1>2, <1>7 DEF Commit, RollBack
<1>8. ASSUME NEW d \in Docs, AddBatch(d) \/ DeleteDocument(d) \/ DeletionStep(d)
      PROVE  DocumentKnown'
  BY <1>8 DEF AddBatch, DeleteDocument, DeletionStep, PurgeVectors, PurgeFails,
              CommitDelete, CommitDeleteFails
<1>9. CASE Restart
  BY <1>2, <1>9 DEF Restart, Awards
<1>10. CASE UNCHANGED vars
  BY <1>10 DEF vars
<1> QED
  BY <1>3, <1>4, <1>5, <1>6, <1>7, <1>8, <1>9, <1>10 DEF Next, RequestStep

LEMMA StepKeepsInv == IInv /\ [Next]_vars => IInv'
<1> SUFFICES ASSUME IInv, [Next]_vars PROVE IInv'
  OBVIOUS
<1>1. AwardInv /\ OthersTyped /\ AwardsTyped /\ DocumentKnown
  BY TypeOKSplit DEF IInv, AwardInv
<1>2. AwardInv'
  BY <1>1, StepKeepsAwards
<1>3. OthersTyped' /\ DocumentKnown'
  BY <1>1, StepKeepsTypes, StepKeepsDocuments
<1>4. TypeOK'
  BY <1>2, <1>3 DEF AwardInv, OthersTyped, AwardsTyped, Exclusion, TypeOK
<1> QED  BY <1>2, <1>3, <1>4 DEF IInv, AwardInv

-----------------------------------------------------------------------------
(* Rows and vectors *)

\* What the store should have of a document with this row.
ChunksOf(x) == IF x \in Document /\ x.status = "ready" THEN x.chunks ELSE 0

Processed == {"read", "insert", "update", "commit"}

\* A document that is still uploaded has no row and is not deleted; its vectors
\* are those its row will count, and later those its row counts as long as it
\* has one: the purge of its deletion matches none of them.
DocSound(d) ==
    /\ req[d].pc = "idle" => vectors[d] = 0
    /\ req[d].pc # "done" => row[d] = Absent /\ deletion[d] = "none"
    /\ d \notin strayed =>
          /\ req[d].pc \in Processed => vectors[d] = ChunksOf(req[d].doc)
          /\ req[d].pc \in {"idle", "done"} /\ row[d] # Deleted => vectors[d] = ChunksOf(row[d])

DocsSound == \A d \in Docs : DocSound(d)

LEMMA ChunksKnown ==
    /\ ChunksOf(Absent) = 0 /\ ChunksOf(Deleted) = 0 /\ ChunksOf(Failed) = 0
    /\ \A n \in 0..MaxBatches : ChunksOf(Ready(n)) = n
<1>1. Absent \notin Document /\ Deleted \notin Document
  BY KnowledgeAssumption
<1>2. Failed.status = "error"
  BY DEF Failed
<1>3. \A n \in 0..MaxBatches : Ready(n) \in Document /\ Ready(n).status = "ready" /\ Ready(n).chunks = n
  BY DEF Ready, Document
<1> QED  BY <1>1, <1>2, <1>3 DEF ChunksOf

LEMMA InitDocs == Init => DocsSound
<1> SUFFICES ASSUME Init, NEW d \in Docs PROVE DocSound(d)
  BY DEF DocsSound
<1>1. req[d].pc = "idle" /\ row[d] = Absent /\ vectors[d] = 0 /\ deletion[d] = "none"
  BY DEF Init, Idle, Awards
<1> QED  BY <1>1, ChunksKnown DEF DocSound, Processed

\* The steps of an upload move its own request only.
LEMMA RequestKeepsDocs ==
    ASSUME OthersTyped, AwardsTyped, NEW d \in Docs, DocSound(d), NEW x \in Awards, RequestStep(x)
    PROVE  DocSound(d)'
<1> USE NullApart DEF OthersTyped, AwardsTyped, Awards
<1>1. CASE x # d
  <2>1. req'[d] = req[d] /\ row'[d] = row[d] /\ vectors'[d] = vectors[d] /\ deletion'[d] = deletion[d]
    BY <1>1 DEF RequestStep, AddBatch, Ingested, IngestFails, ReadProfile, Award, AwardBreaks, Commit,
                RollBack, RolledBack
  <2>2. d \in strayed' <=> d \in strayed
    BY <1>1 DEF RequestStep, AddBatch, Ingested, IngestFails, ReadProfile, Award, AwardBreaks, Commit,
                RollBack
  <2> QED  BY <2>1, <2>2 DEF DocSound
<1>2. CASE AddBatch(d)
  BY <1>2 DEF AddBatch, DocSound, Processed
<1>3. CASE Ingested(d)
  <2>1. req[d].pc = "ingest" /\ UNCHANGED <<row, vectors, deletion, strayed>> /\ vectors[d] \in 0..MaxBatches
    BY <1>3 DEF Ingested
  <2>2. CASE Accepts(d)
    <3>1. req'[d].pc = "read" /\ req'[d].doc = Ready(vectors[d])
      BY <1>3, <2>2 DEF Ingested, Idle
    <3> QED  BY <2>1, <3>1, ChunksKnown DEF DocSound, Processed
  <2>3. CASE ~Accepts(d)
    <3>1. req'[d].pc = "commit" /\ req'[d].doc = Failed
      BY <1>3, <2>3 DEF Ingested, Failing, Idle
    <3>2. vectors[d] = 0
      BY <2>1, <2>3 DEF Accepts
    <3> QED  BY <2>1, <3>1, <3>2, ChunksKnown DEF DocSound, Processed
  <2> QED  BY <2>2, <2>3
<1>4. CASE IngestFails(d)
  <2>1. req'[d].pc = "commit" /\ req'[d].doc = Failed /\ req[d].pc = "ingest"
    BY <1>4 DEF IngestFails, Failing, Idle
  <2>2. d \notin strayed' => vectors[d] = 0
    BY <1>4 DEF IngestFails
  <2>3. UNCHANGED <<row, vectors, deletion>>
    BY <1>4 DEF IngestFails
  <2> QED  BY <2>1, <2>2, <2>3, ChunksKnown DEF DocSound, Processed
<1>5. CASE x = d /\ (ReadProfile(d) \/ Award(d) \/ AwardBreaks(d))
  <2>1. /\ req[d].pc \in Processed /\ req'[d].pc \in Processed /\ req'[d].doc = req[d].doc
        /\ UNCHANGED <<row, vectors, deletion, strayed>>
    BY <1>5 DEF ReadProfile, Award, AwardBreaks, Processed, Request
  <2> QED  BY <2>1 DEF DocSound, Processed
<1>6. CASE x = d /\ Commit(d)
  <2>1. /\ req[d].pc = "commit" /\ req'[d].pc = "done" /\ row'[d] = req[d].doc
        /\ UNCHANGED <<vectors, deletion, strayed>>
    BY <1>6 DEF Commit, Done, Idle
  <2> QED  BY <2>1 DEF DocSound, Processed
<1>7. CASE x = d /\ RollBack(d)
  <2>1. req[d].pc = "commit" /\ req'[d].pc = "done" /\ d \in strayed' /\ UNCHANGED <<vectors, deletion>>
    BY <1>7 DEF RollBack, Done, Idle
  <2> QED  BY <2>1 DEF DocSound, Processed
<1> QED  BY <1>1, <1>2, <1>3, <1>4, <1>5, <1>6, <1>7 DEF RequestStep

\* A deletion concerns a document whose upload is done.
LEMMA DeletionKeepsDocs ==
    ASSUME OthersTyped, NEW d \in Docs, DocSound(d), NEW e \in Docs, DeleteDocument(e) \/ DeletionStep(e)
    PROVE  DocSound(d)'
<1> USE DEF OthersTyped
<1>1. UNCHANGED req
  BY DEF DeleteDocument, DeletionStep, PurgeVectors, PurgeFails, CommitDelete, CommitDeleteFails
<1>2. CASE e # d
  <2>1. row'[d] = row[d] /\ vectors'[d] = vectors[d] /\ deletion'[d] = deletion[d]
        /\ (d \in strayed' <=> d \in strayed)
    BY <1>2 DEF DeleteDocument, DeletionStep, PurgeVectors, PurgeFails, CommitDelete, CommitDeleteFails
  <2> QED  BY <1>1, <2>1 DEF DocSound
<1>3. CASE DeleteDocument(d)
  <2>1. row[d] \in Document /\ deletion'[d] = "purge" /\ UNCHANGED <<row, vectors, strayed>> /\ deletion[d] = "none"
    BY <1>3 DEF DeleteDocument, Exists
  <2>2. req[d].pc = "done"
    BY <2>1, KnowledgeAssumption DEF DocSound
  <2> QED  BY <1>1, <2>1, <2>2 DEF DocSound, Processed
<1>4. CASE PurgeVectors(d)
  <2>1. deletion[d] = "purge" /\ UNCHANGED <<row, strayed>>
    BY <1>4 DEF PurgeVectors
  <2>2. vectors'[d] = vectors[d]
    BY <1>4 DEF PurgeVectors, Purged, PayloadKeys
  <2> QED  BY <1>1, <2>1, <2>2 DEF DocSound
<1>5. CASE PurgeFails(d) \/ CommitDeleteFails(d)
  <2>1. deletion[d] # "none" /\ (d \notin strayed' => d \notin strayed) /\ UNCHANGED <<row, vectors>>
    BY <1>5 DEF PurgeFails, CommitDeleteFails
  <2> QED  BY <1>1, <2>1 DEF DocSound
<1>6. CASE CommitDelete(d)
  <2>1. deletion[d] # "none" /\ row'[d] = Deleted /\ UNCHANGED <<vectors, strayed>>
    BY <1>6 DEF CommitDelete
  <2> QED  BY <1>1, <2>1 DEF DocSound
<1> QED  BY <1>2, <1>3, <1>4, <1>5, <1>6 DEF DeletionStep

LEMMA StepKeepsDocs ==
    ASSUME OthersTyped, AwardsTyped, DocsSound, [Next]_vars
    PROVE  DocsSound'
<1> SUFFICES ASSUME NEW d \in Docs PROVE DocSound(d)'
  BY DEF DocsSound
<1>1. DocSound(d)
  BY DEF DocsSound
<1> USE DEF OthersTyped, AwardsTyped
<1>2. ASSUME NEW e \in Docs, NEW via \in Routes, NEW form \in Formats, Upload(e, via, form)
      PROVE  DocSound(d)'
  <2>1. UNCHANGED <<row, vectors, deletion, strayed>>
    BY <1>2 DEF Upload
  <2>2. req'[d] = req[d] \/ (req[d].pc = "idle" /\ req'[d].pc = "ingest")
    BY <1>2 DEF Upload, Idle, Awards
  <2> QED  BY <1>1, <2>1, <2>2 DEF DocSound, Processed
<1>3. ASSUME NEW c \in Chats, StartChat(c)
      PROVE  DocSound(d)'
  <2>1. UNCHANGED <<row, vectors, deletion, strayed>> /\ req'[d] = req[d]
    BY <1>3, KnowledgeAssumption DEF StartChat, Awards
  <2> QED  BY <1>1, <2>1 DEF DocSound
<1>4. CASE Restart
  <2>1. UNCHANGED vectors /\ deletion'[d] = "none"
    BY <1>4 DEF Restart
  <2>2. CASE Busy(d)
    <3>1. d \in strayed' /\ req'[d].pc = "done"
      BY <1>4, <2>2 DEF Restart, Done, Idle, Awards
    <3> QED  BY <2>1, <3>1 DEF DocSound
  <2>3. CASE ~Busy(d)
    <3>1. row'[d] = row[d] /\ req'[d] = req[d] /\ (d \notin strayed' => d \notin strayed)
      BY <1>4, <2>3 DEF Restart, RolledBack, Awards
    <3> QED  BY <1>1, <2>1, <3>1 DEF DocSound
  <2> QED  BY <2>2, <2>3
<1>5. CASE UNCHANGED vars
  <2>1. UNCHANGED <<row, vectors, req, deletion, strayed>>
    BY <1>5 DEF vars
  <2> QED  BY <1>1, <2>1 DEF DocSound
<1> QED
  BY <1>1, <1>2, <1>3, <1>4, <1>5, RequestKeepsDocs, DeletionKeepsDocs DEF Next

-----------------------------------------------------------------------------
\* Every variable keeps its type, and at most one open transaction has written
\* the profile: PostgreSQL's row lock, and the unique key of a new profile.
THEOREM TypesKept == Spec => []TypeOK
<1>1. IInv => TypeOK
  BY DEF IInv
<1> QED  BY InitInv, StepKeepsInv, <1>1, PTL DEF Spec

\* The XP of the user is the sum of the committed awards, less those that were
\* committed after another award had read the profile in award_xp.
THEOREM XpIsExact == Spec => []XpExact
<1>1. IInv => XpExact
  BY DEF IInv
<1> QED  BY InitInv, StepKeepsInv, <1>1, PTL DEF Spec

\* Between requests the vector store has exactly the chunks that the row of a
\* document counts, as long as there is a row, although Qdrant knows nothing of
\* the transaction: vectors are added before the row commits, and only an
\* ingestion that breaks off between two batches leaves them apart.  Nothing is
\* said of documents without a row: what delete_document_vectors filters for is
\* not where the store keeps it, and their chunks stay.
THEOREM VectorsAreRows == Spec => []VectorsFollowRow
<1>1. IInv /\ DocsSound /\ [Next]_vars => DocsSound'
  BY TypeOKSplit, StepKeepsDocs DEF IInv
<1>2. IInv /\ DocsSound => VectorsFollowRow
  <2> SUFFICES ASSUME IInv, DocsSound, NEW d \in Docs, ~Busy(d), deletion[d] = "none",
                      row[d] # Deleted, d \notin strayed
               PROVE  vectors[d] = IF Exists(d) /\ row[d].status = "ready" THEN row[d].chunks ELSE 0
    BY DEF VectorsFollowRow
  <2>1. req[d].pc \in {"idle", "done"}
    BY DEF IInv, TypeOK, Busy, Request, Awards
  <2> QED  BY <2>1 DEF DocsSound, DocSound, ChunksOf, Exists
<1> QED  BY InitInv, StepKeepsInv, InitDocs, <1>1, <1>2, PTL DEF Spec
=============================================================================
