------------------------------ MODULE VectorStore ----------------------------
(***************************************************************************)
(* The Qdrant store behind VectorDBTool, one lazily initialised object per *)
(* process, and NoteVectorTool, which shares its client.  No lock guards   *)
(* the initialisation: start-up, searches, uploads, note embeddings and    *)
(* the administrator's reset may run its steps side by side, and each step *)
(* may fail, after which the next call starts it again.  A local store     *)
(* can be opened by one client at a time.                                  *)
(***************************************************************************)
EXTENDS Integers, FiniteSets

CONSTANTS Threads,
          Local,      \* QDRANT_URL is not set: the store is a directory
          Autocreate, \* VECTORDB_AUTOCREATE
          Null,
          MaxCalls,   \* bound: calls in a behaviour
          MaxFaults   \* bound: steps that fail, and restarts

Indexes == {"user_id", "document_id"}

StoreAssumption == Local \in BOOLEAN /\ \A I \in SUBSET Indexes : I # Null

VARIABLES opened,      \* a client has opened the local directory
          collection,  \* the payload indexes of the collection, or Null
          client,      \* VectorDBTool._client is set
          embeddings,  \* ._embeddings, the dense model, is set
          sparse,      \* ._sparse_embeddings is set
          vectorstore, \* ._vectorstore is set
          services,    \* what the services were built on: "store", "nothing", or Null if not built
          initialized, \* ._initialized
          notes,       \* NoteVectorTool._client: "shared", "own" or Null
          call,        \* the call of each thread
          calls, faults,
          crossed,     \* history: another operation ran beside a reset, and no initialisation from rest came after
          broken,      \* history: the creation of the indexes broke off
          halved       \* history: the load of the sparse model broke off, the dense one was set

models == <<embeddings, sparse>>

tool == <<client, models, vectorstore, services, initialized>>

vars == <<opened, collection, tool, notes, call, calls, faults, crossed, broken, halved>>

Idle == [pc |-> "idle"]

Fresh ==
    /\ opened = FALSE
    /\ client = FALSE /\ embeddings = FALSE /\ sparse = FALSE /\ vectorstore = FALSE
    /\ services = Null /\ initialized = FALSE /\ notes = Null
    /\ call = [k \in Threads |-> Idle]

Init ==
    /\ Fresh
    /\ collection \in {Null, Indexes}
    /\ calls = 0 /\ faults = 0 /\ crossed = FALSE /\ broken = FALSE /\ halved = FALSE

At(k, pc) == call[k].pc = pc

Goes(k, pc) == call' = [call EXCEPT ![k].pc = pc]

Ends(k) == call' = [call EXCEPT ![k] = Idle]

\* The exception of a step: NoteVectorTool goes on by itself, collection_exists
\* returns FALSE, so that the reset skips the deletion, and all others raise.
Raises(k) ==
    CASE call[k].op = "note"  -> Goes(k, "own")
      [] call[k].op = "reset" -> call' = [call EXCEPT ![k] = [pc |-> "check", op |-> "startup"]]
      [] OTHER                -> Ends(k)

-----------------------------------------------------------------------------
(* _ensure_initialized, step by step *)

\* "use" is a search, an upload or the deletion of a document's vectors.
Call(k, op) ==
    /\ At(k, "idle") /\ calls < MaxCalls
    /\ op = "note" => notes = Null
    /\ calls' = calls + 1
    /\ call' = [call EXCEPT ![k] = [pc |-> "check", op |-> op]]
    /\ UNCHANGED <<opened, collection, tool, notes, faults, broken, halved>>

Check(k) ==
    /\ At(k, "check")
    /\ Goes(k, IF initialized THEN "act" ELSE "client")
    /\ UNCHANGED <<opened, collection, tool, notes, calls, faults, broken, halved>>

\* A second client cannot open the directory.
OpenClient(k) ==
    /\ At(k, "client")
    /\ \/ client /\ Goes(k, "embeddings") /\ UNCHANGED opened
       \/ ~client /\ Local /\ opened /\ Raises(k) /\ UNCHANGED opened
       \/ ~client /\ ~(Local /\ opened) /\ Goes(k, "opened") /\ opened' = Local
    /\ UNCHANGED <<collection, tool, notes, calls, faults, broken, halved>>

SetClient(k) ==
    /\ At(k, "opened")
    /\ client' = TRUE
    /\ Goes(k, "embeddings")
    /\ UNCHANGED <<opened, collection, models, vectorstore, services, initialized, notes, calls, faults, broken, halved>>

\* _init_embeddings looks at the first of two models only, ...
InitEmbeddings(k) ==
    /\ At(k, "embeddings")
    /\ Goes(k, IF embeddings THEN "collection" ELSE "dense")
    /\ UNCHANGED <<opened, collection, tool, notes, calls, faults, broken, halved>>

\* ... and sets one after the other.
LoadDense(k) ==
    /\ At(k, "dense")
    /\ embeddings' = TRUE
    /\ Goes(k, "sparse")
    /\ UNCHANGED <<opened, collection, client, sparse, vectorstore, services, initialized, notes, calls, faults, broken, halved>>

LoadSparse(k) ==
    /\ At(k, "sparse")
    /\ sparse' = TRUE
    /\ Goes(k, "collection")
    /\ UNCHANGED <<opened, collection, client, embeddings, vectorstore, services, initialized, notes, calls, faults, broken, halved>>

\* _ensure_collection: look, ...
ListCollections(k) ==
    /\ At(k, "collection")
    /\ IF collection # Null THEN Goes(k, "store")
       ELSE IF Autocreate THEN Goes(k, "create") ELSE Raises(k)
    /\ UNCHANGED <<opened, collection, tool, notes, calls, faults, broken, halved>>

\* ... create, which fails if another thread did, ...
CreateCollection(k) ==
    /\ At(k, "create")
    /\ IF collection = Null
       THEN collection' = {} /\ Goes(k, "index")
       ELSE Raises(k) /\ UNCHANGED collection
    /\ UNCHANGED <<opened, tool, notes, calls, faults, broken, halved>>

\* ... and one index after the other.
CreateIndex(k) ==
    /\ At(k, "index")
    /\ \/ collection = Null /\ Raises(k) /\ UNCHANGED collection
       \/ collection = Indexes /\ Goes(k, "store") /\ UNCHANGED collection
       \/ /\ collection # Null
          /\ \E i \in Indexes \ collection : collection' = collection \cup {i}
          /\ UNCHANGED call
    /\ UNCHANGED <<opened, tool, notes, calls, faults, broken, halved>>

\* The constructor of QdrantVectorStore reads the collection, and in its hybrid
\* mode refuses to be without the sparse model.
InitVectorstore(k) ==
    /\ At(k, "store")
    /\ IF ~vectorstore /\ (collection = Null \/ ~sparse)
       THEN Raises(k) /\ UNCHANGED vectorstore
       ELSE Goes(k, "services") /\ vectorstore' = TRUE
    /\ UNCHANGED <<opened, collection, client, models, services, initialized, notes, calls, faults, broken, halved>>

InitServices(k) ==
    /\ At(k, "services")
    /\ services' = IF vectorstore THEN "store" ELSE "nothing"
    /\ Goes(k, "flag")
    /\ UNCHANGED <<opened, collection, client, models, vectorstore, initialized, notes, calls, faults, broken, halved>>

SetInitialized(k) ==
    /\ At(k, "flag")
    /\ initialized' = TRUE
    /\ Goes(k, "act")
    /\ UNCHANGED <<opened, collection, client, models, vectorstore, services, notes, calls, faults, broken, halved>>

\* Qdrant, the disk or an embedding model fail.
StepFails(k) ==
    /\ call[k].pc \in {"client", "dense", "sparse", "collection", "create", "index", "store"}
    /\ faults < MaxFaults
    /\ faults' = faults + 1
    /\ broken' = (broken \/ At(k, "index"))
    /\ halved' = (halved \/ At(k, "sparse"))
    /\ Raises(k)
    /\ UNCHANGED <<opened, collection, tool, notes, calls>>

-----------------------------------------------------------------------------
(* The operations *)

\* A search, an upload or a deletion; get_collection_info of startup_check.
Use(k) ==
    /\ At(k, "act") /\ call[k].op \in {"use", "startup"}
    /\ Ends(k)
    /\ UNCHANGED <<opened, collection, tool, notes, calls, faults, broken, halved>>

\* NoteVectorTool takes the client of the initialised tool ...
ShareClient(k) ==
    /\ At(k, "act") /\ call[k].op = "note"
    /\ notes' = "shared"
    /\ Ends(k)
    /\ UNCHANGED <<opened, collection, tool, calls, faults, broken, halved>>

\* ... or, when that could not be initialised, tries to open one of its own.
OpenOwn(k) ==
    /\ At(k, "own")
    /\ Ends(k)
    /\ IF notes # Null \/ (Local /\ opened)
       THEN UNCHANGED <<opened, notes>>
       ELSE notes' = "own" /\ opened' = Local
    /\ UNCHANGED <<collection, tool, calls, faults, broken, halved>>

\* reset_database: collection_exists, ...
Exists(k) ==
    /\ At(k, "act") /\ call[k].op = "reset"
    /\ call' = [call EXCEPT ![k] = [pc |-> "check", op |-> IF collection # Null THEN "drop" ELSE "startup"]]
    /\ UNCHANGED <<opened, collection, tool, notes, calls, faults, broken, halved>>

\* ... delete_collection, which initialises and looks again, drops it and then
\* forgets the vector store, ...
Drop(k) ==
    /\ At(k, "act") /\ call[k].op = "drop"
    /\ collection' = Null
    /\ IF collection # Null THEN Goes(k, "forget store")
       ELSE call' = [call EXCEPT ![k] = [pc |-> "check", op |-> "startup"]]
    /\ UNCHANGED <<opened, tool, notes, calls, faults, broken, halved>>

ForgetStore(k) ==
    /\ At(k, "forget store")
    /\ vectorstore' = FALSE
    /\ Goes(k, "forget services")
    /\ UNCHANGED <<opened, collection, client, models, services, initialized, notes, calls, faults, broken, halved>>

\* The flag after a deletion; as if delete_collection left it, for comparison.
ForgottenNot == initialized

Forgotten == FALSE

\* ... the services and the flag, ...
ForgetServices(k) ==
    /\ At(k, "forget services")
    /\ services' = Null
    /\ Goes(k, "forget flag")
    /\ UNCHANGED <<opened, collection, client, models, vectorstore, initialized, notes, calls, faults, broken, halved>>

\* ... and startup_check, which initialises it again.
ForgetFlag(k) ==
    /\ At(k, "forget flag")
    /\ initialized' = Forgotten
    /\ call' = [call EXCEPT ![k] = [pc |-> "check", op |-> "startup"]]
    /\ UNCHANGED <<opened, collection, client, models, vectorstore, services, notes, calls, faults, broken, halved>>

\* The process stops and starts again with the collection it left.
Restart ==
    /\ faults < MaxFaults
    /\ faults' = faults + 1
    /\ opened' = FALSE /\ client' = FALSE /\ embeddings' = FALSE /\ sparse' = FALSE
    /\ vectorstore' = FALSE /\ halved' = FALSE
    /\ services' = Null /\ initialized' = FALSE /\ notes' = Null
    /\ broken' = (broken \/ \E k \in Threads : At(k, "index"))
    /\ call' = [k \in Threads |-> Idle]
    /\ UNCHANGED <<collection, calls>>

Step ==
    \/ \E k \in Threads :
          \/ \E op \in {"use", "note", "reset", "startup"} : Call(k, op)
          \/ Check(k) \/ OpenClient(k) \/ SetClient(k)
          \/ InitEmbeddings(k) \/ LoadDense(k) \/ LoadSparse(k)
          \/ ListCollections(k) \/ CreateCollection(k) \/ CreateIndex(k)
          \/ InitVectorstore(k) \/ InitServices(k) \/ SetInitialized(k) \/ StepFails(k)
          \/ Use(k) \/ ShareClient(k) \/ OpenOwn(k)
          \/ Exists(k) \/ Drop(k) \/ ForgetStore(k) \/ ForgetServices(k) \/ ForgetFlag(k)
    \/ Restart

Resetting(k) == call[k] # Idle /\ call[k].op = "drop"

Working(k) == call[k].pc \notin {"idle", "check", "own"}

Crossing == \E j, k \in Threads : j # k /\ Resetting(j) /\ Working(k)

AtRest == \A k \in Threads : call[k] = Idle

Next == Step /\ crossed' = ((crossed /\ ~(AtRest /\ ~initialized)) \/ Crossing')

Spec == Init /\ [][Next]_vars

-----------------------------------------------------------------------------
(* Properties *)

TypeOK ==
    /\ collection \in (SUBSET Indexes) \cup {Null}
    /\ services \in {"store", "nothing", Null}
    /\ notes \in {"shared", "own", Null}
    /\ opened \in BOOLEAN /\ client \in BOOLEAN
    /\ embeddings \in BOOLEAN /\ sparse \in BOOLEAN
    /\ vectorstore \in BOOLEAN /\ initialized \in BOOLEAN

\* However initialisations of several threads overlap, fail half-way and are
\* started again: an operation finds the services on a collection that exists,
\* unless a reset is going on or ran beside another operation, and the next
\* initialisation from rest repairs what that left; a collection at rest has its
\* indexes, unless their creation broke off; the store is only built with both
\* of its models, and at rest both are there or none, unless the load of the
\* second broke off, after which no initialisation builds the store (249); and the tool can open its directory, unless a note opened
\* it first, after the initialisation had failed for it.
StoreRecovers ==
    /\ TypeOK
    /\ ~crossed /\ (\A k \in Threads : ~Resetting(k)) =>
          /\ \A k \in Threads : At(k, "act") => services = "store" /\ collection # Null
          /\ initialized => client /\ vectorstore /\ services = "store" /\ collection # Null
    /\ AtRest /\ collection # Null /\ ~broken => collection = Indexes
    /\ vectorstore => sparse
    /\ AtRest /\ embeddings /\ ~halved => sparse
    /\ AtRest /\ opened /\ ~client => notes = "own"
=============================================================================
