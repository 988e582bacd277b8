------------------------------ MODULE Services -------------------------------
(***************************************************************************)
(* Six services that share neither rows nor locks: missions, shell         *)
(* sessions, the emotional state, flashcards, artifacts and the vector     *)
(* store.  Steps of different ones commute, so a behaviour exercises one   *)
(* of them.                                                                *)
(***************************************************************************)
EXTENDS Missions

CONSTANTS Users, ShellCalls, Dirs, Home, MaxSessions, MaxShellCalls, MaxFaults,
          MaxAffinity, Week, MaxMoodHistory, MaxTransactions,
          Decks, Cards, Qualities, MaxReviews, MaxCardCalls,
          Artifacts, ArtifactOwner, ArtifactThreads, MaxArtifactRequests,
          Threads, Local, Autocreate, MaxStoreCalls, MaxStoreFaults

VARIABLES service,
          sessions, activity, dir, call, shellCalls, reported, excused, shellRaced,
          state, lock, tx, transactions, faults, ledger, count, stateCrossed,
          deck, card, cardReq, cardCalls, reviews, replayed, cardCrossed,
          file, gone, fileReq, fileRequests, early,
          opened, collection, client, embeddings, sparse, vectorstore, services, initialized, notes,
          storeCall, storeCalls, storeFaults, storeCrossed, broken, halved

Shell == INSTANCE PtySessions
    WITH Calls <- ShellCalls, MaxCalls <- MaxShellCalls, calls <- shellCalls, raced <- shellRaced

Emotion == INSTANCE EmotionalEngine
    WITH MaxCalls <- MaxTransactions, calls <- transactions, crossed <- stateCrossed

Study == INSTANCE Flashcards
    WITH MaxCalls <- MaxCardCalls, req <- cardReq, calls <- cardCalls, crossed <- cardCrossed

Files == INSTANCE Artifacts
    WITH Owner <- ArtifactOwner, Threads <- ArtifactThreads, MaxRequests <- MaxArtifactRequests,
         row <- file, req <- fileReq, requests <- fileRequests

Store == INSTANCE VectorStore
    WITH MaxCalls <- MaxStoreCalls, MaxFaults <- MaxStoreFaults,
         call <- storeCall, calls <- storeCalls, faults <- storeFaults, crossed <- storeCrossed

ASSUME ShellAssumed == Shell!PtyAssumption

ASSUME EmotionAssumed == Emotion!EmotionAssumption

ASSUME FlashcardsAssumed == Study!FlashcardsAssumption

ASSUME ArtifactsAssumed == Files!ArtifactsAssumption

ASSUME StoreAssumed == Store!StoreAssumption

missionVars == <<row, holder, req, cache, reader, doubt, raced>>
shellVars == <<sessions, activity, dir, call, shellCalls, reported, excused, shellRaced>>
emotionVars == <<state, lock, tx, transactions, ledger, count, stateCrossed>>
studyVars == <<deck, card, cardReq, cardCalls, reviews, replayed, cardCrossed>>
fileVars == <<file, gone, fileReq, fileRequests, early>>
storeVars == <<opened, collection, client, embeddings, sparse, vectorstore, services, initialized,
               notes, storeCall, storeCalls, storeFaults, storeCrossed, broken, halved>>

-----------------------------------------------------------------------------
(* One service at a time *)

ServicesInit ==
    /\ service \in {"missions", "shell", "emotion", "study", "files", "store"}
    /\ Init /\ Shell!Init /\ Emotion!Init /\ Study!Init /\ Files!Init /\ Store!Init
    /\ service = "store" \/ collection = Null

ServicesNext ==
    /\ \/ /\ service = "missions" /\ Next
          /\ UNCHANGED <<shellVars, emotionVars, studyVars, fileVars, storeVars, faults>>
       \/ /\ service = "shell" /\ Shell!Next
          /\ UNCHANGED <<missionVars, emotionVars, studyVars, fileVars, storeVars, faults>>
       \/ /\ service = "emotion" /\ Emotion!Next
          /\ UNCHANGED <<missionVars, shellVars, studyVars, fileVars, storeVars>>
       \/ /\ service = "study" /\ Study!Next
          /\ UNCHANGED <<missionVars, shellVars, emotionVars, fileVars, storeVars>>
       \/ /\ service = "files" /\ Files!Next
          /\ UNCHANGED <<missionVars, shellVars, emotionVars, studyVars, storeVars>>
       \/ /\ service = "store" /\ Store!Next
          /\ UNCHANGED <<missionVars, shellVars, emotionVars, studyVars, fileVars, faults>>
    /\ UNCHANGED service

ServicesSpec ==
    ServicesInit /\ [][ServicesNext]_<<service, missionVars, shellVars, emotionVars, studyVars,
                                      fileVars, storeVars, faults>>

-----------------------------------------------------------------------------
(* The properties of the instances, under the names the run gives them *)

\* PtySessions: never more sessions than max_sessions, between calls every
\* session has its time stamp and every stamp its session, and a command starts
\* in the directory that the last response reported to its user.
SessionsAccounted == Shell!SessionsAccounted
DirectoryCarries == Shell!DirectoryCarries

ShellKept == []SessionsAccounted /\ DirectoryCarries

\* EmotionalEngine: the emotional state is what its committed relationship
\* events and interactions add up to.
StateFollowsEvents == Emotion!StateFollowsEvents

\* Flashcards: a card is the replay of its committed reviews and suspensions.
CardFollowsReviews == Study!CardFollowsReviews

\* Artifacts: parents exist, versions count up, also while a history is walked.
ArtifactsFormHistories == Files!ArtifactsFormHistories

\* VectorStore: after any interleaving and failure of its initialisations, an
\* operation finds the store complete.
StoreRecovers == Store!StoreRecovers
=============================================================================
