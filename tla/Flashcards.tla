----------------------------- MODULE Flashcards ------------------------------
(***************************************************************************)
(* services/flashcard_service.py: decks, cards and their reviews by the    *)
(* SM-2 algorithm.  Each call is one transaction: it reads rows without a  *)
(* lock, computes, and flushes the columns it changed; a deletion reaches  *)
(* the database when the session commits.                                  *)
(***************************************************************************)
EXTENDS Integers, Sequences, FiniteSets

CONSTANTS Decks, Cards,   \* the ids in use
          Requests,       \* the slots of concurrent requests and tools
          Qualities,      \* the grades clients submit, of 0..5
          MaxReviews,     \* bound: reviews in a behaviour
          MaxCalls,       \* bound: calls in a behaviour
          MaxFaults,      \* bound: failed statements, commits and restarts
          Absent, Deleted, Null

VARIABLES deck,     \* the committed decks: Absent, "there" or Deleted
          card,     \* the committed cards
          req,      \* the calls in progress
          calls, reviews, faults,
          replayed, \* history: each card as a replay of its committed calls
          crossed   \* history: the cards of which one call overwrote another

vars == <<deck, card, req, calls, reviews, faults, replayed, crossed>>

\* ease_factor in hundredths; due is next_review in days after last_reviewed_at.
Card == [deck : Decks, repetitions : Nat, ease_factor : Nat, interval_days : Nat, due : Nat,
         total_reviews : Nat, correct_count : Nat, streak : Nat, is_suspended : BOOLEAN]

Idle == [op |-> "idle"]

Request ==
    [op : {"deck"}, pc : {"commit"}, deck : Decks, locks : {{}}]
    \cup [op : {"cards"}, pc : {"flush", "commit"}, deck : Decks, cards : SUBSET Cards, locks : SUBSET Decks]
    \cup [op : {"review"}, pc : {"flush", "commit"}, card : Cards, copy : Card, stale : BOOLEAN,
          row : Card, quality : Qualities, x : Nat, locks : SUBSET Cards]
    \cup [op : {"update"}, pc : {"flush", "commit"}, card : Cards, copy : Card, stale : BOOLEAN,
          row : Card, locks : SUBSET Cards]
    \cup [op : {"delete"}, pc : {"flush", "commit"}, deck : Decks \cup {Null}, cards : SUBSET Cards,
          locks : SUBSET (Decks \cup Cards)]

FlashcardsAssumption ==
    /\ Qualities \subseteq 0..5
    /\ Decks \cap Cards = {} /\ Null \notin Decks
    /\ {Absent, Deleted} \cap Card = {} /\ Absent # Deleted /\ "there" \notin {Absent, Deleted}

Init ==
    /\ deck = [d \in Decks |-> Absent]
    /\ card = [c \in Cards |-> Absent]
    /\ req = [r \in Requests |-> Idle]
    /\ calls = 0 /\ reviews = 0 /\ faults = 0
    /\ replayed = card
    /\ crossed = {}

-----------------------------------------------------------------------------
(* SM-2 *)

AtLeast(low, n) == IF n < low THEN low ELSE n

\* round(n / 100): a tie goes to the even neighbour, unless the product of the
\* floats lies beside the tie.
Rounded(n) ==
    IF n % 100 = 50 THEN {n \div 100, n \div 100 + 1}
    ELSE {(n + 50) \div 100}

\* 0.1 - (5 - quality) * (0.08 + (5 - quality) * 0.02)
EaseChange(quality) == 10 - (5 - quality) * (8 + (5 - quality) * 2)

\* The new repetitions, ease factor and interval; x is the rounded product.
Sm2Update(quality, c, x) ==
    IF quality < 3
    THEN [repetitions |-> 0, ease_factor |-> AtLeast(130, c.ease_factor - 20), interval_days |-> 1]
    ELSE [repetitions |-> c.repetitions + 1,
          ease_factor |-> AtLeast(130, c.ease_factor + EaseChange(quality)),
          interval_days |-> IF c.repetitions = 0 THEN 1
                            ELSE IF c.repetitions = 1 THEN 6 ELSE AtLeast(1, x)]

\* The row that submit_review makes of a card.
Reviewed(c, quality, x) ==
    LET sm2 == Sm2Update(quality, c, x)
    IN  [c EXCEPT !.repetitions = sm2.repetitions, !.ease_factor = sm2.ease_factor,
                  !.interval_days = sm2.interval_days, !.due = sm2.interval_days,
                  !.total_reviews = @ + 1,
                  !.correct_count = IF quality >= 3 THEN @ + 1 ELSE @,
                  !.streak = IF quality >= 3 THEN @ + 1 ELSE 0]

-----------------------------------------------------------------------------
(* Calls *)

Starts(r, call) ==
    /\ req[r] = Idle /\ calls < MaxCalls
    /\ calls' = calls + 1
    /\ req' = [req EXCEPT ![r] = call]

CreateDeck(r, d) ==
    /\ deck[d] = Absent /\ \A q \in Requests : req[q] # Idle => req[q].op # "deck"
    /\ Starts(r, [op |-> "deck", pc |-> "commit", deck |-> d, locks |-> {}])
    /\ UNCHANGED <<deck, card, reviews, faults, replayed, crossed>>

NewCard(d) ==
    [deck |-> d, repetitions |-> 0, ease_factor |-> 250, interval_days |-> 0, due |-> 0,
     total_reviews |-> 0, correct_count |-> 0, streak |-> 0, is_suspended |-> FALSE]

Unused(c) ==
    card[c] = Absent /\ \A q \in Requests : req[q] # Idle /\ req[q].op = "cards" => c \notin req[q].cards

\* create_card and create_cards_bulk, the latter after the language model has
\* read the note; the deck is not looked up, its foreign key is checked.
CreateCards(r, d, cs) ==
    /\ cs # {} /\ \A c \in cs : Unused(c)
    /\ Starts(r, [op |-> "cards", pc |-> "flush", deck |-> d, cards |-> cs, locks |-> {}])
    /\ UNCHANGED <<deck, card, reviews, faults, replayed, crossed>>

\* get_card and what the call makes of it; 404 ends it otherwise.
SubmitReview(r, c, quality) ==
    /\ card[c] \in Card /\ reviews < MaxReviews
    /\ reviews' = reviews + 1
    /\ \E x \in Rounded(card[c].interval_days * card[c].ease_factor) :
          Starts(r, [op |-> "review", pc |-> "flush", card |-> c, copy |-> card[c], stale |-> FALSE,
                     row |-> Reviewed(card[c], quality, x), quality |-> quality, x |-> x,
                     locks |-> {}])
    /\ UNCHANGED <<deck, card, faults, replayed, crossed>>

UpdateCard(r, c, suspended) ==
    /\ card[c] \in Card
    /\ Starts(r, [op |-> "update", pc |-> "flush", card |-> c, copy |-> card[c], stale |-> FALSE,
                  row |-> [card[c] EXCEPT !.is_suspended = suspended], locks |-> {}])
    /\ UNCHANGED <<deck, card, reviews, faults, replayed, crossed>>

DeleteCard(r, c) ==
    /\ card[c] \in Card
    /\ Starts(r, [op |-> "delete", pc |-> "flush", deck |-> Null, cards |-> {c}, locks |-> {}])
    /\ UNCHANGED <<deck, card, reviews, faults, replayed, crossed>>

CardsOf(d) == {c \in Cards : card[c] \in Card /\ card[c].deck = d}

\* The session's cascade loads the cards of the deck.
DeleteDeck(r, d) ==
    /\ deck[d] = "there"
    /\ Starts(r, [op |-> "delete", pc |-> "flush", deck |-> d, cards |-> CardsOf(d), locks |-> {}])
    /\ UNCHANGED <<deck, card, reviews, faults, replayed, crossed>>

-----------------------------------------------------------------------------
(* Statements and commits *)

Free(r, rows) == \A q \in Requests \ {r} : req[q] # Idle => req[q].locks \cap rows = {}

Locks(r, rows, pc) == req' = [req EXCEPT ![r].locks = @ \cup rows, ![r].pc = pc]

RollsBack(r) == req' = [req EXCEPT ![r] = Idle]

\* The foreign key locks the deck against its deletion.
InsertCards(r) ==
    /\ req[r] # Idle /\ req[r].op = "cards" /\ req[r].pc = "flush"
    /\ \A q \in Requests \ {r} : req[q] # Idle /\ req[q].op = "delete" => req[r].deck \notin req[q].locks
    /\ IF deck[req[r].deck] = "there" THEN Locks(r, {req[r].deck}, "commit") ELSE RollsBack(r)
    /\ UNCHANGED <<deck, card, calls, reviews, faults, replayed, crossed>>

\* An UPDATE of a row that is gone is a StaleDataError.
UpdateRow(r) ==
    /\ req[r] # Idle /\ req[r].op \in {"review", "update"} /\ req[r].pc = "flush"
    /\ Free(r, {req[r].card})
    /\ IF card[req[r].card] \in Card THEN Locks(r, {req[r].card}, "commit") ELSE RollsBack(r)
    /\ UNCHANGED <<deck, card, calls, reviews, faults, replayed, crossed>>

\* What a deletion still has to lock: the cards it loaded, then the deck, then
\* the cards that came to the deck meanwhile, which the foreign key deletes.
\* Rows that are gone are only reported.
ToLock(r) ==
    LET t == req[r]
        own == t.cards \ t.locks
    IN  IF own # {} THEN own
        ELSE IF t.deck = Null THEN {}
        ELSE IF t.deck \notin t.locks THEN {t.deck} ELSE CardsOf(t.deck) \ t.locks

DeleteRows(r) ==
    /\ req[r] # Idle /\ req[r].op = "delete" /\ req[r].pc = "flush"
    /\ IF ToLock(r) = {} THEN Locks(r, {}, "commit")
       ELSE \E row \in ToLock(r) : Free(r, {row}) /\ Locks(r, {row}, "flush")
    /\ UNCHANGED <<deck, card, calls, reviews, faults, replayed, crossed>>

\* Two deletions that wait for each other; the database ends one of them.
Waiting(r) ==
    req[r] # Idle /\ req[r].op = "delete" /\ req[r].pc = "flush" /\ ToLock(r) # {}

Deadlocked(r) ==
    /\ Waiting(r)
    /\ \E q \in Requests \ {r} :
          Waiting(q) /\ ToLock(r) \subseteq req[q].locks /\ ToLock(q) \subseteq req[r].locks
    /\ RollsBack(r)
    /\ UNCHANGED <<deck, card, calls, reviews, faults, replayed, crossed>>

\* Every column is written back, for comparison.
AllColumns(row, copy, new) == new

\* The UPDATE holds the changed columns, and those of a review that always change.
Merged(row, copy, new) ==
    [k \in DOMAIN row |-> IF new[k] # copy[k] THEN new[k] ELSE row[k]]

Written(t) ==
    LET row == Merged(card[t.card], t.copy, t.row)
    IN  IF t.op = "review" THEN [row EXCEPT !.due = t.row.due] ELSE row

Replay(t, c) ==
    IF t.op = "review" THEN Reviewed(c, t.quality, t.x)
    ELSE [c EXCEPT !.is_suspended = t.row.is_suspended]

\* Other calls on the card now hold an old copy.
Stale(r, c) ==
    [q \in Requests |-> IF q = r THEN Idle
                        ELSE IF req[q] # Idle /\ req[q].op = req[r].op /\ req[q].card = c
                        THEN [req[q] EXCEPT !.stale = TRUE] ELSE req[q]]

CommitUpdate(r) ==
    LET t == req[r]
    IN  /\ t # Idle /\ t.op \in {"review", "update"} /\ t.pc = "commit"
        /\ card' = [card EXCEPT ![t.card] = Written(t)]
        /\ replayed' = [replayed EXCEPT ![t.card] = Replay(t, @)]
        /\ crossed' = IF t.stale THEN crossed \cup {<<t.card, t.op>>} ELSE crossed
        /\ req' = Stale(r, t.card)
        /\ UNCHANGED <<deck, calls, reviews, faults>>

CommitCreation(r) ==
    LET t == req[r]
    IN  /\ t # Idle /\ t.op \in {"deck", "cards"} /\ t.pc = "commit"
        /\ deck' = IF t.op = "deck" THEN [deck EXCEPT ![t.deck] = "there"] ELSE deck
        /\ card' = [c \in Cards |-> IF t.op = "cards" /\ c \in t.cards THEN NewCard(t.deck)
                                    ELSE card[c]]
        /\ replayed' = [c \in Cards |-> IF card'[c] = card[c] THEN replayed[c] ELSE card'[c]]
        /\ req' = [req EXCEPT ![r] = Idle]
        /\ UNCHANGED <<calls, reviews, faults, crossed>>

CommitDeletion(r) ==
    LET t == req[r]
        gone == t.cards \cup t.locks
    IN  /\ t # Idle /\ t.op = "delete" /\ t.pc = "commit"
        /\ deck' = IF t.deck = Null THEN deck ELSE [deck EXCEPT ![t.deck] = Deleted]
        /\ card' = [c \in Cards |-> IF c \in gone THEN Deleted ELSE card[c]]
        /\ replayed' = [c \in Cards |-> IF c \in gone THEN Deleted ELSE replayed[c]]
        /\ req' = [req EXCEPT ![r] = Idle]
        /\ UNCHANGED <<calls, reviews, faults, crossed>>

Fails(r) ==
    /\ req[r] # Idle /\ faults < MaxFaults
    /\ faults' = faults + 1
    /\ RollsBack(r)
    /\ UNCHANGED <<deck, card, calls, reviews, replayed, crossed>>

Next ==
    \E r \in Requests :
        \/ \E d \in Decks : \/ CreateDeck(r, d) \/ DeleteDeck(r, d)
                            \/ \E cs \in SUBSET Cards : CreateCards(r, d, cs)
        \/ \E c \in Cards : \/ DeleteCard(r, c)
                            \/ \E quality \in Qualities : SubmitReview(r, c, quality)
                            \/ \E suspended \in BOOLEAN : UpdateCard(r, c, suspended)
        \/ InsertCards(r) \/ UpdateRow(r) \/ DeleteRows(r) \/ Deadlocked(r)
        \/ CommitUpdate(r) \/ CommitCreation(r) \/ CommitDeletion(r) \/ Fails(r)

Spec == Init /\ [][Next]_vars

-----------------------------------------------------------------------------
(* Properties *)

TypeOK ==
    /\ card \in [Cards -> Card \cup {Absent, Deleted}]
    /\ replayed \in [Cards -> Card \cup {Absent, Deleted}]
    /\ deck \in [Decks -> {Absent, "there", Deleted}]
    /\ req \in [Requests -> Request \cup {Idle}]
    /\ crossed \in SUBSET (Cards \X {"review", "update"})

\* The review columns, and the column a suspension writes.
Schedule(c) == [c EXCEPT !.is_suspended = FALSE]

\* A card is the replay of its committed reviews and suspensions, whatever
\* calls run beside them; only a review may overwrite a review, and only an
\* update an update, and a card is not left behind by its deck.  Even where
\* reviews overwrite each other, the streak stays the number of repetitions,
\* since both columns change together, and the ease factor at least 1.3.
CardFollowsReviews ==
    /\ TypeOK
    /\ \A c \in Cards : card[c] \in Card =>
        /\ <<c, "review">> \notin crossed => Schedule(card[c]) = Schedule(replayed[c])
        /\ <<c, "update">> \notin crossed => card[c].is_suspended = replayed[c].is_suspended
        /\ card[c].streak = card[c].repetitions /\ card[c].ease_factor >= 130
        /\ card[c].repetitions > 2 /\ <<c, "review">> \notin crossed =>
              card[c].interval_days > 6
        /\ deck[card[c].deck] = "there"
=============================================================================
