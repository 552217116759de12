----------------------------- MODULE Catalogue -----------------------------
(***************************************************************************)
(* The resolver of metadata-service (internal/resolver) over the tables    *)
(* works, editions and identifiers (internal/store) and the in-process     *)
(* cache (internal/cache): GET /search, /resolve and /work, each request   *)
(* in its own goroutine, and the two enrichment handlers that write to the *)
(* same tables.  No transaction spans two statements and no lock is taken, *)
(* so every statement is a step of its own.                                *)
(*                                                                         *)
(* A work is the book it is about: its fingerprint, title and identifier   *)
(* are that book's.  A work id names its book and a number: 0 for an id    *)
(* that the provider derives from its own key, 1, 2, ... for a fresh UUID. *)
(* Abstracted: the merged fields, authors, scores and metrics, the LIMIT   *)
(* of a search, and the enrichment jobs that a search enqueues             *)
(* (EnrichmentQueue has those).                                            *)
(***************************************************************************)
EXTENDS Naturals, FiniteSets

CONSTANTS
    Books,
    Queries,        \* search strings
    InTitle,        \* the books whose title contains the query
    Known,          \* the books providers may find for it
    Isbn,           \* the book the query identifies, or NoBook
    NoBook,
    Providers,
    Deriving,       \* providers whose ids follow from their own key
    Callers,        \* requests in flight at once
    Enough,         \* catalogue results that make providers needless: 3
    MaxRequests,    \* bound: requests
    MaxOthers       \* bound: statements that fail, requests abandoned,
                    \*   restarts, and enrichment jobs

ASSUME QueriesAssumption ==
    /\ NoBook \notin Books
    /\ InTitle \in [Queries -> SUBSET Books]
    /\ Known \in [Queries -> SUBSET Books]
    /\ Isbn \in [Queries -> Books \cup {NoBook}]
ASSUME BoundsAssumption ==
    /\ IsFiniteSet(Books) /\ IsFiniteSet(Callers)
    /\ {Enough, MaxRequests, MaxOthers} \subseteq Nat

VARIABLES
    printed,    \* works: ids of the rows with a fingerprint
    plain,      \* works: ids of the rows without one
    holder,     \* identifiers: the work whose edition holds the book's
    minted,     \* UUIDs given out so far
    searches,   \* cache: the answer to each search
    editions,   \* cache: the work id of the edition found for each book
    pages,      \* cache: the works that GET /work has answered
    req,        \* the request each caller is in
    lost,       \* history: ids whose INSERT reported an error
    used        \* bound: requests, jobs and troubles so far

vars == <<printed, plain, holder, minted, searches, editions, pages, req,
          lost, used>>

-----------------------------------------------------------------------------
Ids == Books \X Nat
NoId == <<NoBook, 0>>
\* What the cache says of a key it does not have.
Miss == <<NoBook, 1>>
NoAnswer == {Miss}

BookOf(id) == id[1]
Rows == printed \cup plain
Of(b, ids) == {id \in ids : BookOf(id) = b}

\* ids: works still to canonicalize; out: works canonicalized, then the answer.
Idle == [pc |-> "idle", kind |-> "search", query |-> "", db |-> {},
         asking |-> {}, answered |-> FALSE, ids |-> {}, id |-> NoId,
         out |-> {}, cut |-> FALSE]

Places == {"idle", "identify", "ask", "work", "cached", "db", "wait", "resolve",
           "insert", "attach"}
Request == [pc : Places, kind : {"search", "resolve"}, query : Queries \cup {""},
            db : SUBSET Ids, asking : SUBSET Providers, answered : BOOLEAN,
            ids : SUBSET Ids, id : Ids \cup {NoId}, out : SUBSET Ids,
            cut : BOOLEAN]

TypeOK ==
    /\ printed \subseteq Ids
    /\ plain \subseteq Ids
    /\ holder \in [Books -> Ids \cup {NoId}]
    /\ minted \in Nat
    /\ searches \in [Queries -> (SUBSET Ids) \cup {NoAnswer}]
    /\ editions \in [Books -> Ids \cup {NoId, Miss}]
    /\ pages \subseteq Ids
    /\ req \in [Callers -> Request]
    /\ \A c \in Callers :
        /\ req[c].pc # "idle" => req[c].query \in Queries
        /\ req[c].pc \in {"identify", "ask"} => Isbn[req[c].query] # NoBook
        /\ req[c].pc \in {"insert", "attach"} => req[c].id \in Ids
    /\ lost \subseteq Ids
    /\ used \in [requests : Nat, jobs : Nat, troubles : Nat]

Init ==
    /\ printed = {} /\ plain = {}
    /\ holder = [b \in Books |-> NoId]
    /\ minted = 0
    /\ searches = [q \in Queries |-> NoAnswer]
    /\ editions = [b \in Books |-> Miss]
    /\ pages = {}
    /\ req = [c \in Callers |-> Idle]
    /\ lost = {}
    /\ used = [requests |-> 0, jobs |-> 0, troubles |-> 0]

-----------------------------------------------------------------------------
catalogue == <<printed, plain, holder>>
cache == <<searches, editions, pages>>

Trouble == /\ used.troubles + used.jobs < MaxOthers
           /\ used' = [used EXCEPT !.troubles = @ + 1]

\* A statement fails when the request's context is canceled, or by itself.
Works(c) == ~req[c].cut /\ UNCHANGED used
Fails(c) == IF req[c].cut THEN UNCHANGED used ELSE Trouble

GoTo(c, pc) == req' = [req EXCEPT ![c].pc = pc]
Answer(c, ids) == req' = [req EXCEPT ![c] = [Idle EXCEPT !.out = ids]]

\* The id a provider gives a book it reports.
Given(p, b) == IF p \in Deriving THEN <<b, 0>> ELSE <<b, minted + 1>>
Mint(p) == minted' = IF p \in Deriving THEN minted ELSE minted + 1

-----------------------------------------------------------------------------
(* Requests.                                                               *)

Ask(c, q, kind, pc) ==
    /\ req[c].pc = "idle"
    /\ used.requests < MaxRequests
    /\ used' = [used EXCEPT !.requests = @ + 1]
    /\ req' = [req EXCEPT ![c] = [Idle EXCEPT !.pc = pc, !.kind = kind,
                                              !.query = q]]
    /\ UNCHANGED <<catalogue, minted, cache, lost>>

\* ClassifyQuery: an identifier is looked up before the text is searched.
SearchWorks(c, q) ==
    Ask(c, q, "search", IF Isbn[q] = NoBook THEN "cached" ELSE "identify")

Resolve(c, q) == Isbn[q] # NoBook /\ Ask(c, q, "resolve", "identify")

\* Reads only, so one step; its answer is kept.
GetWork(id) ==
    /\ id \in Rows \ pages
    /\ used.requests < MaxRequests
    /\ used' = [used EXCEPT !.requests = @ + 1]
    /\ pages' = pages \cup {id}
    /\ UNCHANGED <<catalogue, minted, searches, editions, req, lost>>

-----------------------------------------------------------------------------
(* ResolveIdentifier, by itself or as the first part of a search.           *)

\* The edition found answers the request, whether its work is stored or not (the
\* model does not say with which id); a search wants its work.
Identified(c, id) ==
    IF req[c].kind = "search"
    THEN req' = [req EXCEPT ![c].pc = "work", ![c].id = id]
    ELSE Answer(c, {})

\* GetWorkByID: without the work, the search goes on with the text.
FetchWork(c) ==
    LET id == req[c].id IN
    /\ req[c].pc = "work"
    /\ \/ Works(c) /\ id \in Rows /\ Answer(c, {id})
       \/ /\ (Works(c) /\ id \notin Rows) \/ Fails(c)
          /\ req' = [req EXCEPT ![c].pc = "cached", ![c].id = NoId]
    /\ UNCHANGED <<catalogue, minted, cache, lost>>

\* An entry lives an hour, or less when the cache is full: a lookup may miss it.
CachedEdition(c) ==
    LET b == Isbn[req[c].query] IN
    /\ req[c].pc = "identify"
    /\ editions[b] # Miss
    /\ Identified(c, editions[b])
    /\ UNCHANGED <<catalogue, minted, cache, lost, used>>

FindEdition(c) ==
    LET b == Isbn[req[c].query] IN
    /\ req[c].pc = "identify"
    /\ \/ /\ Works(c)
          /\ holder[b] # NoId
          /\ editions' = [editions EXCEPT ![b] = holder[b]]
          /\ Identified(c, holder[b])
       \/ /\ \/ Works(c) /\ holder[b] = NoId
             \/ Fails(c)
          /\ req' = [req EXCEPT ![c].pc = "ask", ![c].asking = Providers]
          /\ editions' = [editions EXCEPT ![b] = Miss]
    /\ UNCHANGED <<catalogue, minted, searches, pages, lost>>

\* A provider's edition is kept and answered, and never stored.  It names a
\* work of its own, or none.
ProviderIdentifies(c, p) ==
    LET b == Isbn[req[c].query] IN
    /\ req[c].pc = "ask"
    /\ p \in req[c].asking
    /\ ~req[c].cut
    /\ \/ /\ editions' = [editions EXCEPT ![b] = Given(p, b)]
          /\ Identified(c, Given(p, b))
          /\ Mint(p)
       \/ /\ editions' = [editions EXCEPT ![b] = NoId]
          /\ Identified(c, NoId)
          /\ UNCHANGED minted
    /\ UNCHANGED <<catalogue, searches, pages, lost, used>>

NotIdentified(c) ==
    /\ req[c].pc = "ask"
    /\ \/ \E p \in req[c].asking : req' = [req EXCEPT ![c].asking = @ \ {p}]
       \/ /\ req[c].asking = {}
          /\ IF req[c].kind = "search" THEN GoTo(c, "cached") ELSE Answer(c, {})
    /\ UNCHANGED <<catalogue, minted, cache, lost, used>>

-----------------------------------------------------------------------------
(* The rest of SearchWorks.                                                *)

CachedSearch(c) ==
    LET q == req[c].query IN
    /\ req[c].pc = "cached"
    /\ \/ /\ searches[q] # NoAnswer
          /\ Answer(c, searches[q])
          /\ UNCHANGED searches
       \/ /\ searches' = [searches EXCEPT ![q] = NoAnswer]
          /\ GoTo(c, "db")
    /\ UNCHANGED <<catalogue, minted, editions, pages, lost, used>>

Dispatch(c, db) ==
    req' = [req EXCEPT ![c].pc = "wait", ![c].db = db, ![c].asking = Providers]

SearchCatalogue(c) ==
    LET q == req[c].query
        db == {id \in Rows : BookOf(id) \in InTitle[q]}
    IN /\ req[c].pc = "db"
       /\ \/ /\ Works(c)
             /\ IF Cardinality(db) >= Enough
                THEN /\ searches' = [searches EXCEPT ![q] = db]
                     /\ Answer(c, db)
                ELSE Dispatch(c, db) /\ UNCHANGED searches
          \/ Fails(c) /\ Dispatch(c, {}) /\ UNCHANGED searches
       /\ UNCHANGED <<catalogue, minted, editions, pages, lost>>

\* The first to report a book gives it its id; the merger drops the others.
ProviderAnswers(c, p) ==
    /\ req[c].pc = "wait"
    /\ p \in req[c].asking
    /\ ~req[c].cut
    /\ \E S \in SUBSET Known[req[c].query] :
        LET new == {b \in S : Of(b, req[c].ids) = {}} IN
        /\ req' = [req EXCEPT ![c].asking = @ \ {p}, ![c].answered = TRUE,
                              ![c].ids = @ \cup {Given(p, b) : b \in new}]
        /\ IF new = {} THEN UNCHANGED minted ELSE Mint(p)
    /\ UNCHANGED <<catalogue, cache, lost, used>>

\* Over its rate limit, an error, its timeout, or the caller gone.
ProviderFails(c, p) ==
    /\ req[c].pc = "wait"
    /\ p \in req[c].asking
    /\ req' = [req EXCEPT ![c].asking = @ \ {p}]
    /\ UNCHANGED <<catalogue, minted, cache, lost, used>>

\* The channel is closed.  With no answer at all, what the catalogue had.
Collected(c) ==
    /\ req[c].pc = "wait"
    /\ req[c].asking = {}
    /\ IF ~req[c].answered /\ req[c].db # {} THEN Answer(c, req[c].db)
       ELSE GoTo(c, "resolve")
    /\ UNCHANGED <<catalogue, minted, cache, lost, used>>

\* Mutant: the fingerprint is not looked up.
ResolveNew(c) ==
    /\ req[c].pc = "resolve"
    /\ \E id \in req[c].ids :
        req' = [req EXCEPT ![c].pc = "insert", ![c].ids = @ \ {id}, ![c].id = id]
    /\ UNCHANGED <<catalogue, minted, cache, lost, used>>

\* identity.ResolveWork: a row with the fingerprint, any of them; the error
\* of the statement is dropped and the work taken for new.
ResolveWork(c) ==
    /\ req[c].pc = "resolve"
    /\ \E id \in req[c].ids :
        LET found == Of(BookOf(id), printed) IN
        \E to \in found \cup {id} :
            /\ \/ Works(c) /\ (found = {} \/ to \in found)
               \/ Fails(c) /\ to = id
            /\ req' = [req EXCEPT ![c].pc = "insert", ![c].ids = @ \ {id},
                                  ![c].id = to]
    /\ UNCHANGED <<catalogue, minted, cache, lost>>

\* Mutant: the id is reset before it joins the answer.
StoredReset(c) == req' = [req EXCEPT ![c].pc = "resolve", ![c].id = NoId,
                                     ![c].out = @ \cup {NoId}]

Stored(c) == req' = [req EXCEPT ![c].pc = "resolve", ![c].id = NoId,
                                ![c].out = @ \cup {req[c].id}]

\* ON CONFLICT (id) DO NOTHING.
Insert(id) == printed' = IF id \in plain THEN printed ELSE printed \cup {id}

\* Mutant: an error is taken for success.
InsertForgiven(c) ==
    /\ req[c].pc = "insert"
    /\ \/ Works(c) /\ Insert(req[c].id)
       \/ Fails(c) /\ UNCHANGED printed
    /\ GoTo(c, "attach")
    /\ UNCHANGED <<plain, holder, minted, cache, lost>>

\* An error is logged and the work answered and cached all the same; the row
\* may be there when only the reply was lost.
InsertWork(c) ==
    LET id == req[c].id IN
    /\ req[c].pc = "insert"
    /\ \/ Works(c) /\ Insert(id) /\ GoTo(c, "attach") /\ UNCHANGED lost
       \/ /\ Fails(c)
          /\ Insert(id) \/ UNCHANGED printed
          /\ lost' = lost \cup {id}
          /\ Stored(c)
    /\ UNCHANGED <<plain, holder, minted, cache>>

\* InsertIdentifier: the first edition to claim the identifier keeps it.
Attach(id) == holder' = [holder EXCEPT ![BookOf(id)] = IF @ = NoId THEN id ELSE @]

\* The editions of the work, which may have no identifier or not be stored.
InsertEditions(c) ==
    /\ req[c].pc = "attach"
    /\ \/ Works(c) /\ (Attach(req[c].id) \/ UNCHANGED holder)
       \/ Fails(c) /\ UNCHANGED holder
    /\ Stored(c)
    /\ UNCHANGED <<printed, plain, minted, cache, lost>>

CacheSearch(c) ==
    /\ req[c].pc = "resolve"
    /\ req[c].ids = {}
    /\ searches' = [searches EXCEPT ![req[c].query] = req[c].out]
    /\ Answer(c, req[c].out)
    /\ UNCHANGED <<catalogue, minted, editions, pages, lost, used>>

-----------------------------------------------------------------------------
(* Enrichment, the clock and the clients.                                  *)

Enrichment == /\ used.troubles + used.jobs < MaxOthers
              /\ used' = [used EXCEPT !.jobs = @ + 1]

\* author_expand stores what providers report as it is: without a
\* fingerprint, and without looking for the work.
AuthorExpand(p, b) ==
    LET id == Given(p, b) IN
    /\ Enrichment
    /\ plain' = IF id \in Rows THEN plain ELSE plain \cup {id}
    /\ Mint(p)
    /\ UNCHANGED <<printed, holder, cache, req, lost>>

WorkEditions(id) ==
    /\ id \in Rows
    /\ Enrichment
    /\ Attach(id)
    /\ UNCHANGED <<printed, plain, minted, cache, req, lost>>

\* The client goes away, and the request's context with it.
Abandon(c) ==
    /\ req[c].pc # "idle"
    /\ ~req[c].cut
    /\ Trouble
    /\ req' = [req EXCEPT ![c].cut = TRUE]
    /\ UNCHANGED <<catalogue, minted, cache, lost>>

Restart ==
    /\ Trouble
    /\ req' = [c \in Callers |-> Idle]
    /\ searches' = [q \in Queries |-> NoAnswer]
    /\ editions' = [b \in Books |-> Miss]
    /\ pages' = {}
    /\ UNCHANGED <<catalogue, minted, lost>>

-----------------------------------------------------------------------------
Step(c) ==
    \/ CachedEdition(c) \/ FindEdition(c) \/ NotIdentified(c) \/ FetchWork(c)
    \/ CachedSearch(c) \/ SearchCatalogue(c) \/ Collected(c)
    \/ ResolveWork(c) \/ InsertWork(c) \/ InsertEditions(c) \/ CacheSearch(c)
    \/ \E p \in Providers : \/ ProviderIdentifies(c, p)
                            \/ ProviderAnswers(c, p)
                            \/ ProviderFails(c, p)

Next ==
    \/ \E c \in Callers : \/ \E q \in Queries : SearchWorks(c, q) \/ Resolve(c, q)
                          \/ Step(c)
                          \/ Abandon(c)
    \/ \E id \in Rows : GetWork(id) \/ WorkEditions(id)
    \/ \E p \in Providers, b \in Books : AuthorExpand(p, b)
    \/ Restart

Spec == Init /\ [][Next]_vars

-----------------------------------------------------------------------------
(* Properties.                                                             *)

\* A work id that a search answers or has cached, that GET /work has answered or
\* that an identifier row holds is the id of a stored work, but for those whose
\* INSERT reported an error (SearchWorks logs it and answers all the same); and of
\* these each trouble, a failed statement or a client that went away, costs at
\* most one for each book.  The edition that a lookup by identifier answers and
\* caches is outside it: its work is the provider's, stored or not.
AnswersStored ==
    LET good == Rows \cup lost IN
    /\ \A q \in Queries : searches[q] # NoAnswer => searches[q] \subseteq good
    /\ \A c \in Callers : req[c].out \subseteq good
    /\ \A b \in Books : holder[b] # NoId => holder[b] \in good
    /\ pages \subseteq good
    /\ \A b \in Books : Cardinality(Of(b, lost)) <= used.troubles

\* The fingerprint lookup bounds the duplicates although no index is unique:
\* a book has at most one row with its fingerprint for each request that was
\* in flight together, and one for each failed statement.
RowsPerBook ==
    \A b \in Books :
        Cardinality(Of(b, printed)) <= Cardinality(Callers) + used.troubles

\* One book, one work, as Metadata_Service_Query_Flow.md:249 has it.  The
\* code does not keep it (README, section 7), and no run checks it.
OneWorkPerBook == \A b \in Books : Cardinality(Of(b, Rows)) <= 1

=============================================================================
