------------------------------- MODULE Retrieval -----------------------------
(***************************************************************************)
(* Document search and its Redis cache.  A search looks into the cache,    *)
(* whose key is the query and the number of results but not the user, asks *)
(* the vector store for the chunks of its user, and caches what it found.  *)
(* Every document is relevant to every query, and fits into the results.   *)
(*                                                                         *)
(* The filters name the keys user_id and document_id, which the store      *)
(* keeps under metadata: a search finds nothing and a deletion removes     *)
(* nothing.  What follows a hit is therefore modelled and never reached:   *)
(* no caller leaves out the user, which would take the filter away.        *)
(***************************************************************************)
EXTENDS Integers, FiniteSets

CONSTANTS Threads, Users, Docs,
          Keys,       \* queries with their number of results
          Null,
          TTL,        \* retrieval_cache_ttl_seconds, in units of time
          MaxTime,    \* bound: the time that passes
          MaxSearches,\* bound: searches
          MaxFaults   \* bound: failures of Redis, Qdrant and Cohere

VARIABLES owner,    \* the user in the chunks of a document that Qdrant holds, or Null
          cache,    \* key -> [docs, expires], or Null
          call,     \* the search of each thread
          told,     \* history: the answer of the last step and what it could name, or Null
          now, searches, faults

vars == <<owner, cache, call, told, now, searches, faults>>

Idle == [pc |-> "idle"]

\* The payload of a chunk: QdrantVectorStore, given no other keys, puts the text
\* under the one and all of the chunk's metadata under the other.
PayloadKeys == {"page_content", "metadata"}

UploadsOf(u) == {d \in Docs : owner[d] = u}

\* What the filters of a search and of a deletion match.
DocsOf(u) == IF "user_id" \in PayloadKeys THEN UploadsOf(u) ELSE {}
Remaining(d) == IF {"document_id", "user_id"} \subseteq PayloadKeys THEN Null ELSE owner[d]

Init ==
    /\ owner = [d \in Docs |-> Null]
    /\ cache = [key \in Keys |-> Null]
    /\ call = [k \in Threads |-> Idle]
    /\ told = Null
    /\ now = 0 /\ searches = 0 /\ faults = 0

At(k, pc) == call[k].pc = pc

Live(key) == cache[key] # Null /\ now < cache[key].expires

\* The answer of a search, and the documents of its user that were in the store
\* all the while.
Tells(k, docs) ==
    /\ told' = [docs |-> docs, had |-> call[k].had]
    /\ call' = [call EXCEPT ![k] = Idle]

Silent == told' = Null

-----------------------------------------------------------------------------
(* search_documents *)

Search(k, u, key) ==
    /\ At(k, "idle") /\ searches < MaxSearches
    /\ searches' = searches + 1
    /\ call' = [call EXCEPT ![k] = [pc |-> "cache", user |-> u, key |-> key, had |-> UploadsOf(u), docs |-> {}]]
    /\ UNCHANGED <<owner, cache, now, faults>>
    /\ Silent

\* get_retrieval_cache: a text ends the search.
ReadCache(k) ==
    LET entry == cache[call[k].key]
    IN  /\ At(k, "cache")
        /\ IF Live(call[k].key)
           THEN Tells(k, entry.docs)
           ELSE call' = [call EXCEPT ![k].pc = "query"] /\ Silent
        /\ UNCHANGED <<owner, cache, now, searches, faults>>

CacheUnavailable(k) ==
    /\ At(k, "cache") /\ faults < MaxFaults
    /\ faults' = faults + 1
    /\ call' = [call EXCEPT ![k].pc = "query"]
    /\ UNCHANGED <<owner, cache, now, searches>>
    /\ Silent

\* build_retriever filters by user; an empty answer is returned at once, in
\* words that depend on get_collection_info, and is not cached.
Query(k) ==
    LET found == DocsOf(call[k].user)
    IN  /\ At(k, "query")
        /\ IF found # {}
           THEN call' = [call EXCEPT ![k].pc = "store", ![k].docs = found] /\ Silent
           ELSE Tells(k, found)
        /\ UNCHANGED <<owner, cache, now, searches, faults>>

\* "Search error": Qdrant or the reranker fails.
QueryFails(k) ==
    /\ At(k, "query") /\ faults < MaxFaults
    /\ faults' = faults + 1
    /\ call' = [call EXCEPT ![k] = Idle]
    /\ UNCHANGED <<owner, cache, now, searches>>
    /\ Silent

\* set_retrieval_cache, which may come long after the query.
Store(k) ==
    /\ At(k, "store")
    /\ cache' = [cache EXCEPT ![call[k].key] = [docs |-> call[k].docs, expires |-> now + TTL]]
    /\ Tells(k, call[k].docs)
    /\ UNCHANGED <<owner, now, searches, faults>>

StoreFails(k) ==
    /\ At(k, "store") /\ faults < MaxFaults
    /\ faults' = faults + 1
    /\ Tells(k, call[k].docs)
    /\ UNCHANGED <<owner, cache, now, searches>>

-----------------------------------------------------------------------------
(* What happens meanwhile *)

\* A search under way may miss what was deleted.
Changes(d, o) ==
    /\ owner' = [owner EXCEPT ![d] = o]
    /\ call' = [k \in Threads |-> IF At(k, "idle") THEN call[k] ELSE [call[k] EXCEPT !.had = @ \ {d}]]
    /\ UNCHANGED <<cache, now, searches, faults>>
    /\ Silent

\* ingest_file has stored the chunks of a document.
Upload(d, u) == owner[d] = Null /\ Changes(d, u)

\* delete_document_vectors.
Delete(d) == owner[d] # Null /\ Changes(d, Remaining(d))

Tick ==
    /\ now < MaxTime
    /\ now' = now + 1
    /\ UNCHANGED <<owner, cache, call, searches, faults>>
    /\ Silent

Next ==
    \/ \E k \in Threads :
          \/ \E u \in Users, key \in Keys : Search(k, u, key)
          \/ ReadCache(k) \/ CacheUnavailable(k) \/ Query(k) \/ QueryFails(k)
          \/ Store(k) \/ StoreFails(k)
    \/ \E d \in Docs : Delete(d) \/ \E u \in Users : Upload(d, u)
    \/ Tick

Spec == Init /\ [][Next]_vars

-----------------------------------------------------------------------------
(* Properties *)

\* knowledge.py says of POST /search/documents: "Search the user's uploaded
\* knowledge base via Qdrant vector similarity".  A search whose user had a
\* document in the store all the while is not answered that nothing was found.
SearchFinds == told # Null /\ told.had # {} => told.docs # {}
=============================================================================
