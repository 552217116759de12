-------------------------- MODULE CatalogueProofs --------------------------
(***************************************************************************)
(* Proofs about the catalogue, for any books, queries, providers, callers  *)
(* and troubles.  AnswersStored needs that a request past its INSERT has   *)
(* the row (AnswerInv); RowsPerBook that each row beyond the first was     *)
(* looked for when there was none, or is paid for by a trouble (Budget).   *)
(***************************************************************************)
EXTENDS Catalogue, FiniteSetTheorems, TLAPS

USE DEF vars, catalogue, cache

-----------------------------------------------------------------------------
(* Types.                                                                  *)

LEMMA IdleTyped == Idle \in Request /\ Idle.pc = "idle" /\ Idle.out = {}
                    /\ Idle.db = {} /\ Idle.ids = {} /\ Idle.cut = FALSE
                    /\ DOMAIN Idle = {"pc", "kind", "query", "db", "asking",
                                      "answered", "ids", "id", "out", "cut"}
  BY DEF Idle, Request, Places

\* The id a provider gives is an id, and a fresh one is minted.
LEMMA GivenTyped ==
    ASSUME minted \in Nat, NEW p \in Providers, NEW b \in Books
    PROVE  Given(p, b) \in Ids /\ BookOf(Given(p, b)) = b /\ (Mint(p) => minted' \in Nat)
  BY DEF Given, Ids, BookOf, Mint

LEMMA AnswerTyped ==
    ASSUME TypeOK, NEW c \in Callers, NEW S \in SUBSET Ids, Answer(c, S)
    PROVE  /\ req' \in [Callers -> Request]
           /\ req'[c].pc = "idle" /\ req'[c].out = S /\ req'[c].db = {}
           /\ req'[c].ids = {} /\ ~req'[c].cut
           /\ \A d \in Callers \ {c} : req'[d] = req[d]
  BY IdleTyped DEF Answer, TypeOK, Idle, Request

\* The fields that steps write.
LEMMA Updates ==
    ASSUME NEW r \in Request
    PROVE  /\ \A pc \in Places : [r EXCEPT !.pc = pc] \in Request
           /\ \A pc \in Places, id \in Ids \cup {NoId} :
                [r EXCEPT !.pc = pc, !.id = id] \in Request
           /\ \A P \in SUBSET Providers : [r EXCEPT !.asking = P] \in Request
           /\ [r EXCEPT !.cut = TRUE] \in Request
           /\ \A pc \in Places, P \in SUBSET Providers :
                [r EXCEPT !.pc = pc, !.asking = P] \in Request
           /\ \A pc \in Places, S \in SUBSET Ids, P \in SUBSET Providers :
                [r EXCEPT !.pc = pc, !.db = S, !.asking = P] \in Request
           /\ \A P \in SUBSET Providers, S \in SUBSET Ids :
                [r EXCEPT !.asking = P, !.answered = TRUE, !.ids = S] \in Request
           /\ \A pc \in Places, S \in SUBSET Ids, id \in Ids \cup {NoId} :
                /\ [r EXCEPT !.pc = pc, !.ids = S, !.id = id] \in Request
                /\ [r EXCEPT !.pc = pc, !.id = id, !.out = S] \in Request
  <1>1. ASSUME NEW pc \in Places PROVE [r EXCEPT !.pc = pc] \in Request
    BY Zenon DEF Request
  <1>2. ASSUME NEW P \in SUBSET Providers PROVE [r EXCEPT !.asking = P] \in Request
    BY Zenon DEF Request
  <1>3. [r EXCEPT !.cut = TRUE] \in Request
    BY Zenon DEF Request
  <1>4. ASSUME NEW pc \in Places, NEW P \in SUBSET Providers
        PROVE  [r EXCEPT !.pc = pc, !.asking = P] \in Request
    BY Zenon DEF Request
  <1>5. ASSUME NEW pc \in Places, NEW S \in SUBSET Ids, NEW P \in SUBSET Providers
        PROVE  [r EXCEPT !.pc = pc, !.db = S, !.asking = P] \in Request
    BY Zenon DEF Request
  <1>6. ASSUME NEW P \in SUBSET Providers, NEW S \in SUBSET Ids
        PROVE  [r EXCEPT !.asking = P, !.answered = TRUE, !.ids = S] \in Request
    BY Zenon DEF Request
  <1>7. ASSUME NEW pc \in Places, NEW S \in SUBSET Ids, NEW id \in Ids \cup {NoId}
        PROVE  /\ [r EXCEPT !.pc = pc, !.ids = S, !.id = id] \in Request
               /\ [r EXCEPT !.pc = pc, !.id = id, !.out = S] \in Request
    BY Zenon DEF Request
  <1>8. ASSUME NEW pc \in Places, NEW id \in Ids \cup {NoId}
        PROVE  [r EXCEPT !.pc = pc, !.id = id] \in Request
    BY Zenon DEF Request
  <1>9. QED
    BY <1>1, <1>2, <1>3, <1>4, <1>5, <1>6, <1>7, <1>8, Zenon

LEMMA NewRequest ==
    ASSUME NEW pc \in Places, NEW kind \in {"search", "resolve"},
           NEW q \in Queries, NEW S \in SUBSET Ids
    PROVE  /\ [Idle EXCEPT !.pc = pc, !.kind = kind, !.query = q] \in Request
           /\ [Idle EXCEPT !.out = S] \in Request
  BY DEF Request, Idle, Places

\* A step writes one request.
LEMMA Written ==
    ASSUME TypeOK, NEW c \in Callers, NEW r \in Request,
           req' = [req EXCEPT ![c] = r]
    PROVE  /\ req' \in [Callers -> Request]
           /\ req'[c] = r
           /\ \A d \in Callers \ {c} : req'[d] = req[d]
  BY DEF TypeOK

LEMMA GoToTyped ==
    ASSUME TypeOK, NEW c \in Callers, NEW pc \in Places, GoTo(c, pc)
    PROVE  /\ req' \in [Callers -> Request]
           /\ req'[c] = [req[c] EXCEPT !.pc = pc]
           /\ req'[c].pc = pc /\ req'[c].query = req[c].query
           /\ req'[c].id = req[c].id /\ req'[c].ids = req[c].ids
           /\ req'[c].out = req[c].out /\ req'[c].db = req[c].db
           /\ req'[c].cut = req[c].cut
           /\ \A d \in Callers \ {c} : req'[d] = req[d]
  <1>1. req[c] \in Request
    BY DEF TypeOK
  <1>2. [req[c] EXCEPT !.pc = pc] \in Request
    BY <1>1, Updates
  <1>3. req' = [req EXCEPT ![c] = [req[c] EXCEPT !.pc = pc]]
    BY DEF GoTo
  <1>4. QED
    BY <1>1, <1>2, <1>3, Written DEF Request

\* A request keeps or forgets an id on its way.
LEMMA CarryTyped ==
    ASSUME TypeOK, NEW c \in Callers, NEW pc \in Places, NEW id \in Ids \cup {NoId},
           req' = [req EXCEPT ![c].pc = pc, ![c].id = id]
    PROVE  /\ req' \in [Callers -> Request]
           /\ req'[c].pc = pc /\ req'[c].query = req[c].query
           /\ req'[c].ids = req[c].ids /\ req'[c].out = req[c].out
           /\ req'[c].db = req[c].db /\ req'[c].cut = req[c].cut
           /\ \A d \in Callers \ {c} : req'[d] = req[d]
  <1> DEFINE r == [req[c] EXCEPT !.pc = pc, !.id = id]
  <1>1. req[c] \in Request
    BY DEF TypeOK
  <1>2. r \in Request
    BY <1>1, Updates
  <1>3. /\ r.pc = pc /\ r.query = req[c].query /\ r.ids = req[c].ids
        /\ r.out = req[c].out /\ r.db = req[c].db /\ r.cut = req[c].cut
    BY <1>1, Zenon DEF Request
  <1>4. req' = [req EXCEPT ![c] = r]
    BY DEF TypeOK
  <1>5. QED
    BY <1>2, <1>3, <1>4, Written

LEMMA TypeInit == Init => TypeOK
  BY IdleTyped DEF Init, TypeOK, Ids

LEMMA RequestTypes ==
    ASSUME TypeOK, NEW c \in Callers, NEW q \in Queries,
           SearchWorks(c, q) \/ Resolve(c, q)
    PROVE  TypeOK'
  <1>1. PICK kind \in {"search", "resolve"}, pc \in {"identify", "cached"} :
            /\ Ask(c, q, kind, pc)
            /\ pc = "identify" => Isbn[q] # NoBook
    BY DEF SearchWorks, Resolve
  <1> DEFINE r == [Idle EXCEPT !.pc = pc, !.kind = kind, !.query = q]
  <1>2. r \in Request /\ r.pc = pc /\ r.query = q
    BY NewRequest, ZenonT(60) DEF Places, Idle
  <1>3. QED
    BY <1>1, <1>2, Written DEF Ask, TypeOK

LEMMA IdentifyTypes ==
    ASSUME TypeOK, NEW c \in Callers,
           \/ CachedEdition(c) \/ FindEdition(c) \/ NotIdentified(c) \/ FetchWork(c)
           \/ \E p \in Providers : ProviderIdentifies(c, p)
    PROVE  TypeOK'
  <1> DEFINE q == req[c].query
             b == Isbn[q]
  <1>c. req[c] \in Request
    BY DEF TypeOK
  <1>b. req[c].pc \in {"identify", "ask"} => q \in Queries /\ b \in Books
    BY QueriesAssumption DEF TypeOK
  <1>u. ASSUME Works(c) \/ Fails(c) PROVE used' \in [requests : Nat, jobs : Nat, troubles : Nat]
    BY <1>u DEF Works, Fails, Trouble, TypeOK
  <1>i. ASSUME NEW id \in Ids \cup {NoId}, Identified(c, id), req[c].pc # "idle"
        PROVE  /\ req' \in [Callers -> Request]
               /\ req'[c].pc \in {"idle", "work"}
               /\ req'[c].pc = "work" => req'[c].query = req[c].query
               /\ \A d \in Callers \ {c} : req'[d] = req[d]
    <2>1. CASE req[c].kind = "search"
      BY <1>i, <2>1, CarryTyped DEF Identified, Places
    <2>2. CASE req[c].kind # "search"
      BY <1>i, <2>2, AnswerTyped DEF Identified
    <2>3. QED
      BY <2>1, <2>2
  <1>r. ASSUME NEW id \in Ids \cup {NoId}, Identified(c, id), req[c].pc # "idle",
               UNCHANGED <<catalogue, searches, pages, lost>>,
               editions' \in [Books -> Ids \cup {NoId, Miss}], minted' \in Nat,
               used' \in [requests : Nat, jobs : Nat, troubles : Nat]
        PROVE  TypeOK'
    BY <1>r, <1>i DEF TypeOK
  <1>1. CASE CachedEdition(c)
    <2>1. editions[b] \in Ids \cup {NoId}
      BY <1>1, <1>b DEF CachedEdition, TypeOK
    <2>2. QED
      BY <1>1, <2>1, <1>r DEF CachedEdition, TypeOK
  <1>2. CASE FindEdition(c)
    <2>1. CASE Works(c) /\ holder[b] # NoId /\ Identified(c, holder[b])
                /\ editions' = [editions EXCEPT ![b] = holder[b]]
      <3>1. holder[b] \in Ids
        BY <2>1, <1>2, <1>b DEF FindEdition, TypeOK
      <3>2. editions' \in [Books -> Ids \cup {NoId, Miss}]
        BY <2>1, <3>1 DEF TypeOK
      <3>3. QED
        BY <1>2, <2>1, <3>1, <3>2, <1>r, <1>u DEF FindEdition, TypeOK
    <2>2. CASE /\ Works(c) \/ Fails(c)
               /\ req' = [req EXCEPT ![c].pc = "ask", ![c].asking = Providers]
               /\ editions' = [editions EXCEPT ![b] = Miss]
      <3> DEFINE r == [req[c] EXCEPT !.pc = "ask", !.asking = Providers]
      <3>1. r \in Request /\ r.pc = "ask" /\ r.query = q
        <4>1. r \in Request
          BY <1>c, Updates DEF Places
        <4>2. r.pc = "ask" /\ r.query = q
          BY <1>c, Zenon DEF Request
        <4>3. QED
          BY <4>1, <4>2
      <3>2. req' = [req EXCEPT ![c] = r]
        BY <2>2 DEF TypeOK
      <3>3. editions' \in [Books -> Ids \cup {NoId, Miss}]
        <4>1. editions \in [Books -> Ids \cup {NoId, Miss}]
          BY DEF TypeOK
        <4>2. editions' = [editions EXCEPT ![b] = Miss]
          BY <2>2, Zenon
        <4> HIDE DEF b
        <4>3. QED
          BY <4>1, <4>2
      <3>4. QED
        <4>1. UNCHANGED <<catalogue, minted, searches, pages, lost>> /\ req[c].pc = "identify"
          BY <1>2, Zenon DEF FindEdition
        <4>2. used' \in [requests : Nat, jobs : Nat, troubles : Nat]
          BY <2>2, <1>u, Zenon
        <4> HIDE DEF r
        <4>3. /\ req' \in [Callers -> Request] /\ req'[c].pc = "ask" /\ req'[c].query = q
              /\ \A d \in Callers \ {c} : req'[d] = req[d]
          BY <3>1, <3>2, Written
        <4>4. q \in Queries /\ Isbn[q] # NoBook
          BY <4>1 DEF TypeOK
        <4>5. QED
          BY <3>3, <4>1, <4>2, <4>3, <4>4, SMTT(40) DEF TypeOK
    <2>3. QED
      BY <1>2, <2>1, <2>2 DEF FindEdition
  <1>3. CASE NotIdentified(c)
    <2>1. CASE \E p \in req[c].asking : req' = [req EXCEPT ![c].asking = @ \ {p}]
      <3>1. PICK p \in req[c].asking : req' = [req EXCEPT ![c].asking = @ \ {p}]
        BY <2>1
      <3> DEFINE r == [req[c] EXCEPT !.asking = req[c].asking \ {p}]
      <3>2. r \in Request /\ r.pc = req[c].pc /\ r.query = q
        <4>1. r \in Request
          <5>1. req[c].asking \ {p} \in SUBSET Providers
            BY <1>c DEF Request
          <5>2. QED
            BY <1>c, <5>1, Updates
        <4>2. r.pc = req[c].pc /\ r.query = q
          BY <1>c, Zenon DEF Request
        <4>3. QED
          BY <4>1, <4>2
      <3>3. req' = [req EXCEPT ![c] = r]
        BY <3>1 DEF TypeOK
      <3>4. QED
        BY <1>3, <3>2, <3>3, Written DEF NotIdentified, TypeOK
    <2>2. CASE GoTo(c, "cached")
      <3>1. req' \in [Callers -> Request] /\ req'[c].pc = "cached"
            /\ req'[c].query = q /\ \A d \in Callers \ {c} : req'[d] = req[d]
        BY <2>2, GoToTyped DEF Places
      <3>2. QED
        BY <1>3, <1>b, <3>1 DEF NotIdentified, TypeOK
    <2>3. CASE Answer(c, {})
      BY <1>3, <2>3, AnswerTyped DEF NotIdentified, TypeOK
    <2>4. QED
      BY <1>3, <2>1, <2>2, <2>3 DEF NotIdentified
  <1>4. ASSUME NEW p \in Providers, ProviderIdentifies(c, p) PROVE TypeOK'
    <2>1. Given(p, b) \in Ids /\ (Mint(p) => minted' \in Nat)
      BY <1>4, <1>b, GivenTyped DEF ProviderIdentifies, TypeOK
    <2>2. CASE /\ editions' = [editions EXCEPT ![b] = Given(p, b)]
               /\ Identified(c, Given(p, b)) /\ Mint(p)
      <3>1. editions' \in [Books -> Ids \cup {NoId, Miss}]
        BY <2>1, <2>2 DEF TypeOK
      <3>2. QED
        BY <1>4, <2>1, <2>2, <3>1, <1>r DEF ProviderIdentifies, TypeOK
    <2>3. CASE /\ editions' = [editions EXCEPT ![b] = NoId]
               /\ Identified(c, NoId) /\ UNCHANGED minted
      <3>1. editions' \in [Books -> Ids \cup {NoId, Miss}]
        BY <2>3 DEF TypeOK
      <3>2. QED
        BY <1>4, <2>3, <3>1, <1>r DEF ProviderIdentifies, TypeOK
    <2>4. QED
      BY <1>4, <2>2, <2>3 DEF ProviderIdentifies
  <1>5. CASE FetchWork(c)
    <2>1. used' \in [requests : Nat, jobs : Nat, troubles : Nat]
      BY <1>5, <1>u DEF FetchWork
    <2>2. CASE req[c].id \in Rows /\ Answer(c, {req[c].id})
      <3>1. {req[c].id} \in SUBSET Ids
        BY <2>2 DEF Rows, TypeOK
      <3>2. QED
        BY <1>5, <2>1, <2>2, <3>1, AnswerTyped DEF FetchWork, TypeOK
    <2>3. CASE req' = [req EXCEPT ![c].pc = "cached", ![c].id = NoId]
      <3>1. /\ req' \in [Callers -> Request] /\ req'[c].pc = "cached"
            /\ req'[c].query = q /\ \A d \in Callers \ {c} : req'[d] = req[d]
        BY <2>3, CarryTyped DEF Places
      <3>2. q \in Queries
        BY <1>5 DEF FetchWork, TypeOK
      <3> HIDE DEF q, b
      <3>3. QED
        BY <1>5, <2>1, <3>1, <3>2 DEF FetchWork, TypeOK
    <2>4. QED
      BY <1>5, <2>2, <2>3 DEF FetchWork
  <1>6. QED
    BY <1>1, <1>2, <1>3, <1>4, <1>5

LEMMA SearchTypes ==
    ASSUME TypeOK, NEW c \in Callers,
           \/ CachedSearch(c) \/ SearchCatalogue(c) \/ Collected(c) \/ CacheSearch(c)
           \/ \E p \in Providers : ProviderAnswers(c, p) \/ ProviderFails(c, p)
    PROVE  TypeOK'
  <1> DEFINE q == req[c].query
  <1>c. req[c] \in Request
    BY DEF TypeOK
  <1>q. req[c].pc # "idle" => q \in Queries
    BY DEF TypeOK
  <1>1. CASE CachedSearch(c)
    <2>1. CASE searches[q] # NoAnswer /\ Answer(c, searches[q]) /\ UNCHANGED searches
      <3>1. searches[q] \in SUBSET Ids
        BY <1>1, <1>q, <2>1 DEF CachedSearch, TypeOK
      <3>2. QED
        BY <1>1, <2>1, <3>1, AnswerTyped DEF CachedSearch, TypeOK
    <2>2. CASE searches' = [searches EXCEPT ![q] = NoAnswer] /\ GoTo(c, "db")
      <3>1. searches' \in [Queries -> (SUBSET Ids) \cup {NoAnswer}]
        BY <2>2 DEF TypeOK
      <3>2. QED
        <4>1. req' \in [Callers -> Request] /\ req'[c].pc = "db"
              /\ req'[c].query = q /\ \A d \in Callers \ {c} : req'[d] = req[d]
          BY <2>2, GoToTyped DEF Places
        <4>2. QED
          BY <1>1, <1>q, <2>2, <3>1, <4>1 DEF CachedSearch, TypeOK
    <2>3. QED
      BY <1>1, <2>1, <2>2 DEF CachedSearch
  <1>2. CASE SearchCatalogue(c)
    <2> DEFINE db == {id \in Rows : BookOf(id) \in InTitle[q]}
    <2>1. db \in SUBSET Ids
      BY DEF Rows, TypeOK
    <2>2. used' \in [requests : Nat, jobs : Nat, troubles : Nat]
      BY <1>2 DEF SearchCatalogue, Works, Fails, Trouble, TypeOK
    <2>3. CASE searches' = [searches EXCEPT ![q] = db] /\ Answer(c, db)
      <3>1. searches' \in [Queries -> (SUBSET Ids) \cup {NoAnswer}]
        BY <2>1, <2>3 DEF TypeOK
      <3>2. QED
        <4>1. UNCHANGED <<catalogue, minted, editions, pages, lost>>
          BY <1>2, Zenon DEF SearchCatalogue
        <4> HIDE DEF db
        <4>2. /\ req' \in [Callers -> Request] /\ req'[c].pc = "idle"
              /\ \A d \in Callers \ {c} : req'[d] = req[d]
          BY <2>1, <2>3, AnswerTyped
        <4>3. QED
          BY <2>2, <3>1, <4>1, <4>2, SMTT(40) DEF TypeOK
    <2>4. ASSUME NEW S \in SUBSET Ids, Dispatch(c, S) /\ UNCHANGED searches
          PROVE  TypeOK'
      <3> DEFINE r == [req[c] EXCEPT !.pc = "wait", !.db = S, !.asking = Providers]
      <3>1. r \in Request /\ r.pc = "wait" /\ r.query = q
        <4>1. r \in Request
          BY <1>c, Updates DEF Places
        <4>2. r.pc = "wait" /\ r.query = q
          BY <1>c, Zenon DEF Request
        <4>3. QED
          BY <4>1, <4>2
      <3>2. req' = [req EXCEPT ![c] = r]
        BY <2>4 DEF Dispatch, TypeOK
      <3>3. QED
        BY <1>2, <2>2, <2>4, <3>1, <3>2, Written DEF SearchCatalogue, TypeOK
    <2>5. QED
      BY <1>2, <2>1, <2>3, <2>4 DEF SearchCatalogue
  <1>3. CASE Collected(c)
    <2>1. CASE Answer(c, req[c].db)
      <3>1. req[c].db \in SUBSET Ids
        BY DEF TypeOK, Request
      <3>2. QED
        BY <1>3, <2>1, <3>1, AnswerTyped DEF Collected, TypeOK
    <2>2. CASE GoTo(c, "resolve")
      <3>1. req' \in [Callers -> Request] /\ req'[c].pc = "resolve"
            /\ req'[c].query = q /\ \A d \in Callers \ {c} : req'[d] = req[d]
        BY <2>2, GoToTyped DEF Places
      <3>2. QED
        BY <1>3, <1>q, <3>1 DEF Collected, TypeOK
    <2>3. QED
      BY <1>3, <2>1, <2>2 DEF Collected
  <1>4. CASE CacheSearch(c)
    <2>1. req[c].out \in SUBSET Ids
      BY DEF TypeOK, Request
    <2>2. searches' \in [Queries -> (SUBSET Ids) \cup {NoAnswer}]
      BY <1>4, <2>1 DEF CacheSearch, TypeOK
    <2>3. QED
      BY <1>4, <2>1, <2>2, AnswerTyped DEF CacheSearch, TypeOK
  <1>5. ASSUME NEW p \in Providers, ProviderAnswers(c, p) PROVE TypeOK'
    <2>1. PICK S \in SUBSET Known[q] :
            LET new == {b \in S : Of(b, req[c].ids) = {}} IN
            /\ req' = [req EXCEPT ![c].asking = @ \ {p}, ![c].answered = TRUE,
                                  ![c].ids = @ \cup {Given(p, b) : b \in new}]
            /\ IF new = {} THEN UNCHANGED minted ELSE Mint(p)
      BY <1>5 DEF ProviderAnswers
    <2> DEFINE new == {b \in S : Of(b, req[c].ids) = {}}
    <2>2. S \subseteq Books
      BY <1>5, <1>q, QueriesAssumption DEF ProviderAnswers
    <2>3. {Given(p, b) : b \in new} \subseteq Ids
      BY <2>2, GivenTyped DEF TypeOK
    <2>4. minted' \in Nat
      BY <2>1, <2>2, GivenTyped DEF TypeOK, Mint
    <2> DEFINE r == [req[c] EXCEPT !.asking = req[c].asking \ {p}, !.answered = TRUE,
                         !.ids = req[c].ids \cup {Given(p, b) : b \in new}]
    <2>5. r \in Request /\ r.pc = "wait" /\ r.query = q
      <3>1. r \in Request
        <4>1. req[c].asking \ {p} \in SUBSET Providers
              /\ req[c].ids \cup {Given(p, b) : b \in new} \in SUBSET Ids
          BY <1>c, <2>3 DEF Request
        <4>2. QED
          BY <1>c, <4>1, Updates
      <3>2. r.pc = "wait" /\ r.query = q
        BY <1>5, <1>c, <2>3, Zenon DEF ProviderAnswers, Request
      <3>3. QED
        BY <3>1, <3>2
    <2>6. req' = [req EXCEPT ![c] = r]
      BY <2>1 DEF TypeOK
    <2>7. QED
      BY <1>5, <2>4, <2>5, <2>6, Written, ZenonT(60) DEF ProviderAnswers, TypeOK
  <1>6. ASSUME NEW p \in Providers, ProviderFails(c, p) PROVE TypeOK'
    <2> DEFINE r == [req[c] EXCEPT !.asking = req[c].asking \ {p}]
    <2>1. r \in Request /\ r.pc = req[c].pc /\ r.query = q
      <3>1. r \in Request
        <4>1. req[c].asking \ {p} \in SUBSET Providers
          BY <1>c DEF Request
        <4>2. QED
          BY <1>c, <4>1, Updates
      <3>2. r.pc = req[c].pc /\ r.query = q
        BY <1>c, Zenon DEF Request
      <3>3. QED
        BY <3>1, <3>2
    <2>2. req' = [req EXCEPT ![c] = r]
      BY <1>6 DEF ProviderFails, TypeOK
    <2>3. QED
      BY <1>6, <2>1, <2>2, Written DEF ProviderFails, TypeOK
  <1>7. QED
    BY <1>1, <1>2, <1>3, <1>4, <1>5, <1>6

LEMMA StoredTyped ==
    ASSUME TypeOK, NEW c \in Callers, req[c].id \in Ids, Stored(c)
    PROVE  /\ req' \in [Callers -> Request]
           /\ req'[c].pc = "resolve" /\ req'[c].query = req[c].query
           /\ req'[c].out = req[c].out \cup {req[c].id}
           /\ req'[c].db = req[c].db /\ req'[c].ids = req[c].ids
           /\ req'[c].cut = req[c].cut
           /\ \A d \in Callers \ {c} : req'[d] = req[d]
  <1> DEFINE r == [req[c] EXCEPT !.pc = "resolve", !.id = NoId,
                                 !.out = req[c].out \cup {req[c].id}]
  <1>c. req[c] \in Request
    BY DEF TypeOK
  <1>1. req[c].out \cup {req[c].id} \in SUBSET Ids
    BY <1>c DEF Request
  <1>2. r \in Request
    BY <1>c, <1>1, Updates DEF Places
  <1>3. req' = [req EXCEPT ![c] = r]
    BY DEF Stored, TypeOK
  <1>4. /\ r.pc = "resolve" /\ r.query = req[c].query /\ r.db = req[c].db
        /\ r.ids = req[c].ids /\ r.cut = req[c].cut
        /\ r.out = req[c].out \cup {req[c].id}
    BY <1>c, Zenon DEF Request
  <1>5. QED
    BY <1>2, <1>3, <1>4, Written

\* ResolveWork takes one work out of the request.
\* The request takes an id it was given and resolves it to one.
Taken(c, id, to) ==
    req' = [req EXCEPT ![c].pc = "insert", ![c].ids = @ \ {id}, ![c].id = to]

LEMMA TakenTyped ==
    ASSUME TypeOK, NEW c \in Callers, NEW id \in req[c].ids, NEW to \in Ids,
           Taken(c, id, to)
    PROVE  /\ req' \in [Callers -> Request]
           /\ req'[c].pc = "insert" /\ req'[c].query = req[c].query
           /\ req'[c].id = to
           /\ req'[c].out = req[c].out /\ req'[c].db = req[c].db
           /\ req'[c].ids = req[c].ids \ {id}
           /\ req'[c].cut = req[c].cut
           /\ \A d \in Callers \ {c} : req'[d] = req[d]
  <1> DEFINE r == [req[c] EXCEPT !.pc = "insert", !.ids = req[c].ids \ {id}, !.id = to]
  <1>c. req[c] \in Request
    BY DEF TypeOK
  <1>1. req[c].ids \ {id} \in SUBSET Ids
    BY <1>c DEF Request
  <1>2. r \in Request
    BY <1>c, <1>1, Updates DEF Places
  <1>3. req' = [req EXCEPT ![c] = r]
    BY DEF TypeOK, Taken
  <1>4. /\ r.pc = "insert" /\ r.query = req[c].query /\ r.db = req[c].db
        /\ r.ids = req[c].ids \ {id} /\ r.id = to /\ r.out = req[c].out
        /\ r.cut = req[c].cut
    BY <1>c, Zenon DEF Request
  <1>5. QED
    BY <1>2, <1>3, <1>4, Written

LEMMA AttachTyped ==
    ASSUME TypeOK, NEW id \in Ids, Attach(id)
    PROVE  /\ holder' \in [Books -> Ids \cup {NoId}]
           /\ \A b \in Books : holder'[b] \in {holder[b], id}
  BY DEF Attach, TypeOK, Ids, BookOf

LEMMA UsedTyped ==
    ASSUME TypeOK, NEW c \in Callers, Works(c) \/ Fails(c)
    PROVE  used' \in [requests : Nat, jobs : Nat, troubles : Nat]
  BY DEF TypeOK, Works, Fails, Trouble

LEMMA StoreTypes ==
    ASSUME TypeOK, NEW c \in Callers,
           ResolveWork(c) \/ InsertWork(c) \/ InsertEditions(c)
    PROVE  TypeOK'
  <1>c. req[c] \in Request /\ (req[c].pc # "idle" => req[c].query \in Queries)
    BY DEF TypeOK
  <1>1. CASE ResolveWork(c)
    <2>0. PICK id \in req[c].ids :
            \E to \in Of(BookOf(id), printed) \cup {id} :
                /\ Works(c) \/ Fails(c)
                /\ req' = [req EXCEPT ![c].pc = "insert", ![c].ids = @ \ {id},
                                      ![c].id = to]
      BY <1>1, Zenon DEF ResolveWork
    <2>1. PICK to \in Of(BookOf(id), printed) \cup {id} :
            /\ Works(c) \/ Fails(c)
            /\ req' = [req EXCEPT ![c].pc = "insert", ![c].ids = @ \ {id}, ![c].id = to]
      BY <2>0
    <2>2. to \in Ids
      BY <1>c DEF TypeOK, Request, Of
    <2>3. used' \in [requests : Nat, jobs : Nat, troubles : Nat]
      BY <2>1, UsedTyped
    <2>4. /\ req' \in [Callers -> Request]
          /\ req'[c].pc = "insert" /\ req'[c].query = req[c].query
          /\ req'[c].id = to
          /\ \A d \in Callers \ {c} : req'[d] = req[d]
      <3>1. Taken(c, id, to)
        BY <2>1, Zenon DEF Taken
      <3>2. QED
        BY <2>2, <3>1, TakenTyped
    <2>5. QED
      BY <1>1, <1>c, <2>2, <2>3, <2>4, ZenonT(60) DEF ResolveWork, TypeOK
  <1>2. CASE InsertWork(c)
    <2>1. req[c].id \in Ids
      BY <1>2 DEF InsertWork, TypeOK
    <2>2. used' \in [requests : Nat, jobs : Nat, troubles : Nat]
      BY <1>2, UsedTyped DEF InsertWork
    <2>3. printed' \subseteq Ids /\ lost' \subseteq Ids
      BY <1>2, <2>1 DEF InsertWork, Insert, TypeOK
    <2>4. /\ req' \in [Callers -> Request]
          /\ req'[c].pc \in {"resolve", "attach"} /\ req'[c].query = req[c].query
          /\ req'[c].pc = "attach" => req'[c].id = req[c].id
          /\ \A d \in Callers \ {c} : req'[d] = req[d]
      <3>1. CASE GoTo(c, "attach")
        BY <3>1, GoToTyped DEF Places
      <3>2. CASE Stored(c)
        BY <2>1, <3>2, StoredTyped
      <3>3. QED
        BY <1>2, <3>1, <3>2 DEF InsertWork
    <2>5. QED
      BY <1>2, <1>c, <2>1, <2>2, <2>3, <2>4 DEF InsertWork, TypeOK
  <1>3. CASE InsertEditions(c)
    <2>1. req[c].id \in Ids
      BY <1>3 DEF InsertEditions, TypeOK
    <2>2. used' \in [requests : Nat, jobs : Nat, troubles : Nat]
      BY <1>3, UsedTyped DEF InsertEditions
    <2>3. holder' \in [Books -> Ids \cup {NoId}]
      BY <1>3, <2>1, AttachTyped DEF InsertEditions, TypeOK
    <2>4. /\ req' \in [Callers -> Request]
          /\ req'[c].pc = "resolve" /\ req'[c].query = req[c].query
          /\ \A d \in Callers \ {c} : req'[d] = req[d]
      BY <1>3, <2>1, StoredTyped DEF InsertEditions
    <2>5. QED
      BY <1>3, <1>c, <2>2, <2>3, <2>4 DEF InsertEditions, TypeOK
  <1>4. QED
    BY <1>1, <1>2, <1>3

LEMMA OtherTypes ==
    ASSUME TypeOK,
           \/ \E c \in Callers : Abandon(c)
           \/ \E id \in Rows : GetWork(id) \/ WorkEditions(id)
           \/ \E p \in Providers, b \in Books : AuthorExpand(p, b)
           \/ Restart
    PROVE  TypeOK'
  <1>1. ASSUME NEW c \in Callers, Abandon(c) PROVE TypeOK'
    <2> DEFINE r == [req[c] EXCEPT !.cut = TRUE]
    <2>1. req[c] \in Request
      BY DEF TypeOK
    <2>2. r \in Request
      BY <2>1, Updates
    <2>3. r.pc = req[c].pc /\ r.query = req[c].query /\ r.id = req[c].id
      BY <2>1, Zenon DEF Request
    <2>4. req' = [req EXCEPT ![c] = r]
      BY <1>1 DEF Abandon, TypeOK
    <2>5. QED
      BY <1>1, <2>2, <2>3, <2>4, Written DEF Abandon, Trouble, TypeOK
  <1>2. ASSUME NEW id \in Rows, GetWork(id) PROVE TypeOK'
    BY <1>2 DEF GetWork, Rows, TypeOK
  <1>3. ASSUME NEW id \in Rows, WorkEditions(id) PROVE TypeOK'
    <2>1. id \in Ids
      BY DEF Rows, TypeOK
    <2>2. holder' \in [Books -> Ids \cup {NoId}]
      BY <1>3, <2>1, AttachTyped DEF WorkEditions
    <2>3. QED
      BY <1>3, <2>2 DEF WorkEditions, Enrichment, TypeOK
  <1>4. ASSUME NEW p \in Providers, NEW b \in Books, AuthorExpand(p, b) PROVE TypeOK'
    <2>1. Given(p, b) \in Ids /\ minted' \in Nat
      BY <1>4, GivenTyped DEF AuthorExpand, TypeOK
    <2>2. QED
      BY <1>4, <2>1 DEF AuthorExpand, Enrichment, TypeOK
  <1>5. CASE Restart
    BY <1>5, IdleTyped DEF Restart, Trouble, TypeOK
  <1>6. QED
    BY <1>1, <1>2, <1>3, <1>4, <1>5

LEMMA TypeStep ==
    ASSUME TypeOK, [Next]_vars
    PROVE  TypeOK'
  <1>1. CASE UNCHANGED vars
    BY <1>1 DEF TypeOK
  <1>2. CASE Next
    BY <1>2, RequestTypes, IdentifyTypes, SearchTypes, StoreTypes, OtherTypes DEF Next, Step
  <1>3. QED
    BY <1>1, <1>2

\* Every reachable state is well typed: a request that stores a work holds the
\* id of one, whatever providers, clients and the database do.
THEOREM TypeCorrect == Spec => []TypeOK
  BY TypeInit, TypeStep, PTL DEF Spec

-----------------------------------------------------------------------------
(* What is answered is stored.                                             *)

Good == Rows \cup lost

Answered ==
    /\ \A q \in Queries : searches[q] # NoAnswer => searches[q] \subseteq Good
    /\ \A c \in Callers : req[c].out \subseteq Good
    /\ \A b \in Books : holder[b] # NoId => holder[b] \in Good
    /\ pages \subseteq Good

AnswerInv ==
    /\ Answered
    /\ \A c \in Callers :
        /\ req[c].db \subseteq Good
        /\ req[c].pc = "attach" => req[c].id \in Good

\* A request has at most one id of a book to store.
UniqueIds ==
    \A c \in Callers : \A x, y \in req[c].ids : BookOf(x) = BookOf(y) => x = y

\* A step of a request that stores nothing.
Quiet(c) ==
    /\ UNCHANGED <<printed, plain, holder, lost, pages>>
    /\ used.troubles <= used'.troubles
    /\ \A d \in Callers \ {c} : req'[d] = req[d]
    /\ req'[c].pc \notin {"insert", "attach"}
    /\ req'[c].out \cup req'[c].db \subseteq Good
    /\ \A x, y \in req'[c].ids : BookOf(x) = BookOf(y) => x = y
    /\ req'[c].cut => req[c].cut /\ req'[c].ids \subseteq req[c].ids
    /\ \A q \in Queries : searches'[q] \in {searches[q], NoAnswer}
                            \/ searches'[q] \subseteq Good

LEMMA TroublesGrow ==
    ASSUME TypeOK, NEW c \in Callers, Works(c) \/ Fails(c)
    PROVE  /\ used.troubles <= used'.troubles
           /\ Fails(c) /\ ~req[c].cut => used'.troubles = used.troubles + 1
           /\ Works(c) => used' = used
  BY DEF TypeOK, Works, Fails, Trouble

LEMMA RequestQuiet ==
    ASSUME TypeOK, NEW c \in Callers, NEW q \in Queries,
           SearchWorks(c, q) \/ Resolve(c, q)
    PROVE  Quiet(c)
  <1>1. PICK kind \in {"search", "resolve"}, pc \in {"identify", "cached"} : Ask(c, q, kind, pc)
    BY DEF SearchWorks, Resolve
  <1> DEFINE r == [Idle EXCEPT !.pc = pc, !.kind = kind, !.query = q]
  <1>2. r \in Request
    BY NewRequest DEF Places
  <1>3. r.pc = pc /\ r.out = {} /\ r.db = {} /\ r.ids = {} /\ ~r.cut
    BY DEF Idle
  <1>4. QED
    BY <1>1, <1>2, <1>3, Written DEF Ask, Quiet, TypeOK

LEMMA IdentifyQuiet ==
    ASSUME TypeOK, AnswerInv, UniqueIds, NEW c \in Callers,
           \/ CachedEdition(c) \/ FindEdition(c) \/ NotIdentified(c) \/ FetchWork(c)
           \/ \E p \in Providers : ProviderIdentifies(c, p)
    PROVE  Quiet(c)
  <1>c. req[c] \in Request /\ req[c].out \cup req[c].db \subseteq Good
    BY DEF TypeOK, AnswerInv, Answered, Good
  <1>u. \A x, y \in req[c].ids : BookOf(x) = BookOf(y) => x = y
    BY DEF UniqueIds
  <1>g. ASSUME GoTo(c, "cached"), UNCHANGED <<catalogue, lost, pages, searches>>,
               used.troubles <= used'.troubles
        PROVE  Quiet(c)
    BY <1>c, <1>u, <1>g, GoToTyped DEF Quiet, Places
  <1>a. ASSUME NEW S \in SUBSET Rows, Answer(c, S), used.troubles <= used'.troubles,
               UNCHANGED <<catalogue, lost, pages, searches>>
        PROVE  Quiet(c)
    <2>1. S \in SUBSET Ids /\ S \subseteq Good
      BY DEF Rows, Good, TypeOK
    <2>2. QED
      BY <1>a, <2>1, AnswerTyped DEF Quiet
  <1>w. ASSUME NEW pc \in {"work", "cached"}, NEW id \in Ids \cup {NoId},
               req' = [req EXCEPT ![c].pc = pc, ![c].id = id],
               used.troubles <= used'.troubles,
               UNCHANGED <<catalogue, lost, pages, searches>>
        PROVE  Quiet(c)
    <2>1. pc \in Places /\ pc \notin {"insert", "attach"}
      BY DEF Places
    <2>2. /\ req'[c].pc = pc
          /\ req'[c].ids = req[c].ids /\ req'[c].out = req[c].out
          /\ req'[c].db = req[c].db /\ req'[c].cut = req[c].cut
          /\ \A d \in Callers \ {c} : req'[d] = req[d]
      BY <1>w, <2>1, CarryTyped
    <2>3. QED
      BY <1>c, <1>u, <1>w, <2>1, <2>2 DEF Quiet
  <1>i. ASSUME NEW id \in Ids \cup {NoId}, Identified(c, id), used.troubles <= used'.troubles,
               UNCHANGED <<catalogue, lost, pages, searches>>
        PROVE  Quiet(c)
    BY <1>i, <1>w, <1>a DEF Identified
  <1>b. req[c].pc \in {"identify", "ask"} => Isbn[req[c].query] \in Books
    BY QueriesAssumption DEF TypeOK
  <1>1. CASE CachedEdition(c)
    <2>1. editions[Isbn[req[c].query]] \in Ids \cup {NoId}
      BY <1>1, <1>b DEF CachedEdition, TypeOK
    <2>2. QED
      BY <1>1, <1>i, <2>1 DEF CachedEdition, TypeOK
  <1>2. CASE FindEdition(c)
    <2>1. used.troubles <= used'.troubles
      BY <1>2, TroublesGrow DEF FindEdition
    <2>2. ASSUME req' = [req EXCEPT ![c].pc = "ask", ![c].asking = Providers]
          PROVE  Quiet(c)
      <3> DEFINE r == [req[c] EXCEPT !.pc = "ask", !.asking = Providers]
      <3>1. r \in Request
        BY <1>c, Updates DEF Places
      <3>2. r.pc = "ask" /\ r.out = req[c].out /\ r.db = req[c].db
            /\ r.ids = req[c].ids /\ r.cut = req[c].cut
        BY <1>c, Zenon DEF Request
      <3>3. req' = [req EXCEPT ![c] = r]
        BY <2>2 DEF TypeOK
      <3>4. QED
        BY <1>2, <1>c, <1>u, <2>1, <3>1, <3>2, <3>3, Written DEF FindEdition, Quiet
    <2>3. holder[Isbn[req[c].query]] \in Ids \cup {NoId}
      BY <1>2, <1>b DEF FindEdition, TypeOK
    <2>4. QED
      BY <1>2, <1>i, <2>1, <2>2, <2>3 DEF FindEdition
  <1>3. CASE NotIdentified(c)
    <2>1. used.troubles <= used'.troubles
      BY <1>3 DEF NotIdentified, TypeOK
    <2>2. ASSUME NEW p, req' = [req EXCEPT ![c].asking = @ \ {p}]
          PROVE  Quiet(c)
      <3> DEFINE r == [req[c] EXCEPT !.asking = req[c].asking \ {p}]
      <3>1. r \in Request
        <4>1. req[c].asking \ {p} \in SUBSET Providers
          BY <1>c DEF Request
        <4>2. QED
          BY <1>c, <4>1, Updates
      <3>2. r.pc = req[c].pc /\ r.out = req[c].out /\ r.db = req[c].db
            /\ r.ids = req[c].ids /\ r.cut = req[c].cut
        BY <1>c, Zenon DEF Request
      <3>3. req' = [req EXCEPT ![c] = r]
        BY <2>2 DEF TypeOK
      <3>4. QED
        BY <1>3, <1>c, <1>u, <2>1, <3>1, <3>2, <3>3, Written DEF NotIdentified, Quiet
    <2>3. QED
      BY <1>3, <1>g, <1>a, <2>1, <2>2 DEF NotIdentified
  <1>4. ASSUME NEW p \in Providers, ProviderIdentifies(c, p) PROVE Quiet(c)
    <2>1. Given(p, Isbn[req[c].query]) \in Ids
      BY <1>4, <1>b, GivenTyped DEF ProviderIdentifies, TypeOK
    <2>2. QED
      BY <1>4, <1>i, <2>1 DEF ProviderIdentifies, TypeOK
  <1>5. CASE FetchWork(c)
    <2>1. used.troubles <= used'.troubles
      BY <1>5, TroublesGrow DEF FetchWork
    <2>2. QED
      BY <1>5, <1>w, <1>a, <2>1 DEF FetchWork
  <1>6. QED
    BY <1>1, <1>2, <1>3, <1>4, <1>5

LEMMA SearchQuiet ==
    ASSUME TypeOK, AnswerInv, UniqueIds, NEW c \in Callers,
           \/ CachedSearch(c) \/ SearchCatalogue(c) \/ Collected(c) \/ CacheSearch(c)
           \/ \E p \in Providers : ProviderAnswers(c, p) \/ ProviderFails(c, p)
    PROVE  Quiet(c)
  <1> DEFINE q == req[c].query
  <1>c. /\ req[c] \in Request /\ req[c].out \cup req[c].db \subseteq Good
        /\ req[c].pc # "idle" => q \in Queries
    BY DEF TypeOK, AnswerInv, Answered, Good
  <1>u. \A x, y \in req[c].ids : BookOf(x) = BookOf(y) => x = y
    BY DEF UniqueIds
  <1>g. ASSUME NEW pc \in {"db", "resolve"}, GoTo(c, pc),
               UNCHANGED <<catalogue, lost, pages>>, used.troubles <= used'.troubles,
               \A k \in Queries : searches'[k] \in {searches[k], NoAnswer}
        PROVE  Quiet(c)
    BY <1>c, <1>u, <1>g, GoToTyped DEF Quiet, Places
  <1>a. ASSUME NEW S \in SUBSET Good, Answer(c, S),
               UNCHANGED <<catalogue, lost, pages>>, used.troubles <= used'.troubles,
               \A k \in Queries : searches'[k] \in {searches[k], S}
        PROVE  Quiet(c)
    <2>1. S \in SUBSET Ids
      BY DEF Rows, Good, TypeOK
    <2>2. QED
      BY <1>a, <2>1, AnswerTyped DEF Quiet
  <1>1. CASE CachedSearch(c)
    <2>0. used.troubles <= used'.troubles
      BY <1>1 DEF CachedSearch, TypeOK
    <2>1. CASE searches[q] # NoAnswer /\ Answer(c, searches[q]) /\ UNCHANGED searches
      <3>1. searches[q] \in SUBSET Good
        BY <1>1, <1>c, <2>1 DEF CachedSearch, AnswerInv, Answered, Good
      <3>2. QED
        BY <1>1, <1>a, <2>0, <2>1, <3>1 DEF CachedSearch
    <2>2. CASE searches' = [searches EXCEPT ![q] = NoAnswer] /\ GoTo(c, "db")
      <3>1. \A k \in Queries : searches'[k] \in {searches[k], NoAnswer}
        BY <2>2 DEF TypeOK
      <3>2. QED
        BY <1>1, <1>g, <2>0, <2>2, <3>1 DEF CachedSearch
    <2>3. QED
      BY <1>1, <2>1, <2>2 DEF CachedSearch
  <1>2. CASE SearchCatalogue(c)
    <2> DEFINE db == {id \in Rows : BookOf(id) \in InTitle[q]}
    <2>0. used.troubles <= used'.troubles
      BY <1>2, TroublesGrow DEF SearchCatalogue
    <2>1. db \in SUBSET Good /\ db \in SUBSET Ids
      BY DEF Rows, Good, TypeOK
    <2>2. CASE searches' = [searches EXCEPT ![q] = db] /\ Answer(c, db)
      <3>1. \A k \in Queries : searches'[k] \in {searches[k], db}
        BY <2>2 DEF TypeOK
      <3>2. QED
        BY <1>2, <1>a, <2>0, <2>1, <2>2, <3>1 DEF SearchCatalogue
    <2>3. ASSUME NEW S \in SUBSET Ids, S \subseteq Good, Dispatch(c, S), UNCHANGED searches
          PROVE  Quiet(c)
      <3> DEFINE r == [req[c] EXCEPT !.pc = "wait", !.db = S, !.asking = Providers]
      <3>1. r \in Request
        BY <1>c, Updates DEF Places
      <3>2. r.pc = "wait" /\ r.out = req[c].out /\ r.db = S
            /\ r.ids = req[c].ids /\ r.cut = req[c].cut
        BY <1>c, Zenon DEF Request
      <3>3. req' = [req EXCEPT ![c] = r]
        BY <2>3 DEF Dispatch, TypeOK
      <3>4. QED
        BY <1>2, <1>c, <1>u, <2>0, <2>3, <3>1, <3>2, <3>3, Written
          DEF SearchCatalogue, Quiet
    <2>4. QED
      BY <1>2, <2>1, <2>2, <2>3 DEF SearchCatalogue
  <1>3. CASE Collected(c)
    <2>1. used.troubles <= used'.troubles
      BY <1>3 DEF Collected, TypeOK
    <2>2. QED
      BY <1>3, <1>c, <1>a, <1>g, <2>1 DEF Collected
  <1>4. CASE CacheSearch(c)
    <2>1. \A k \in Queries : searches'[k] \in {searches[k], req[c].out}
      BY <1>4 DEF CacheSearch, TypeOK
    <2>2. used.troubles <= used'.troubles
      BY <1>4 DEF CacheSearch, TypeOK
    <2>3. QED
      BY <1>4, <1>c, <1>a, <2>1, <2>2 DEF CacheSearch
  <1>5. ASSUME NEW p \in Providers, ProviderAnswers(c, p) PROVE Quiet(c)
    <2>1. PICK S \in SUBSET Known[q] :
            LET new == {b \in S : Of(b, req[c].ids) = {}} IN
            /\ req' = [req EXCEPT ![c].asking = @ \ {p}, ![c].answered = TRUE,
                                  ![c].ids = @ \cup {Given(p, b) : b \in new}]
            /\ IF new = {} THEN UNCHANGED minted ELSE Mint(p)
      BY <1>5 DEF ProviderAnswers
    <2> DEFINE new   == {b \in S : Of(b, req[c].ids) = {}}
               given == {Given(p, b) : b \in new}
               r == [req[c] EXCEPT !.asking = req[c].asking \ {p}, !.answered = TRUE,
                         !.ids = req[c].ids \cup given]
    <2>2. S \subseteq Books
      BY <1>5, <1>c, QueriesAssumption DEF ProviderAnswers
    <2>3. \A b \in new : Given(p, b) \in Ids /\ BookOf(Given(p, b)) = b
      BY <2>2, GivenTyped DEF TypeOK
    <2>4. r \in Request
      <3>1. req[c].asking \in SUBSET Providers /\ req[c].ids \in SUBSET Ids
        BY <1>c DEF Request
      <3>2. given \in SUBSET Ids
        BY <2>3
      <3> HIDE DEF given
      <3>3. req[c].asking \ {p} \in SUBSET Providers
            /\ req[c].ids \cup given \in SUBSET Ids
        BY <3>1, <3>2
      <3>4. QED
        BY <1>c, <3>3, Updates, Zenon
    <2>5. r.pc = req[c].pc /\ r.out = req[c].out /\ r.db = req[c].db
          /\ r.ids = req[c].ids \cup given /\ r.cut = req[c].cut
      BY <1>c, Zenon DEF Request
    <2>6. req' = [req EXCEPT ![c] = r]
      BY <2>1 DEF TypeOK
    <2>7. \A x, y \in req[c].ids \cup given : BookOf(x) = BookOf(y) => x = y
      BY <1>u, <2>3 DEF Of
    <2>8. ~req[c].cut /\ req[c].pc = "wait" /\ used.troubles <= used'.troubles
      <3>1. ~req[c].cut /\ req[c].pc = "wait" /\ used' = used
        BY <1>5, Zenon DEF ProviderAnswers
      <3>2. QED
        BY <3>1 DEF TypeOK
    <2>9. QED
      BY <1>5, <1>c, <2>4, <2>5, <2>6, <2>7, <2>8, Written DEF ProviderAnswers, Quiet
  <1>6. ASSUME NEW p \in Providers, ProviderFails(c, p) PROVE Quiet(c)
    <2> DEFINE r == [req[c] EXCEPT !.asking = req[c].asking \ {p}]
    <2>1. r \in Request
      <3>1. req[c].asking \ {p} \in SUBSET Providers
        BY <1>c DEF Request
      <3>2. QED
        BY <1>c, <3>1, Updates
    <2>2. r.pc = req[c].pc /\ r.out = req[c].out /\ r.db = req[c].db
          /\ r.ids = req[c].ids /\ r.cut = req[c].cut
      BY <1>c, Zenon DEF Request
    <2>3. req' = [req EXCEPT ![c] = r] /\ used.troubles <= used'.troubles
      BY <1>6 DEF ProviderFails, TypeOK
    <2>4. QED
      BY <1>6, <1>c, <1>u, <2>1, <2>2, <2>3, Written DEF ProviderFails, Quiet
  <1>7. QED
    BY <1>1, <1>2, <1>3, <1>4, <1>5, <1>6

LEMMA AnswerQuiet ==
    ASSUME TypeOK, AnswerInv, NEW c \in Callers, Quiet(c)
    PROVE  AnswerInv'
  <1>1. Good' = Good /\ Rows' = Rows /\ lost' = lost
    BY DEF Quiet, Good, Rows
  <1>2. \A d \in Callers : /\ req'[d].out \subseteq Good /\ req'[d].db \subseteq Good
                           /\ req'[d].pc = "attach" => req'[d].id \in Good
    BY DEF Quiet, AnswerInv, Answered, Good
  <1>3. \A q \in Queries : searches'[q] # NoAnswer => searches'[q] \subseteq Good
    BY DEF Quiet, AnswerInv, Answered, Good
  <1>4. QED
    BY <1>1, <1>2, <1>3 DEF Quiet, AnswerInv, Answered, Good

LEMMA AnswerStored ==
    ASSUME TypeOK, AnswerInv, NEW c \in Callers,
           ResolveWork(c) \/ InsertWork(c) \/ InsertEditions(c)
    PROVE  AnswerInv'
  <1>c. /\ req[c] \in Request /\ req[c].out \cup req[c].db \subseteq Good
    BY DEF TypeOK, AnswerInv, Answered, Good
  <1>k. ASSUME Good \subseteq Good', UNCHANGED <<searches, pages>>,
               \A b \in Books : holder'[b] \in {holder[b]} \cup Good,
               \A d \in Callers \ {c} : req'[d] = req[d],
               req'[c].out \subseteq Good', req'[c].db \subseteq Good',
               req'[c].pc = "attach" => req'[c].id \in Good'
        PROVE  AnswerInv'
    BY <1>k DEF AnswerInv, Answered, Good
  <1>1. CASE ResolveWork(c)
    <2>0. PICK id \in req[c].ids :
            \E to \in Of(BookOf(id), printed) \cup {id} :
                req' = [req EXCEPT ![c].pc = "insert", ![c].ids = @ \ {id},
                                   ![c].id = to]
      BY <1>1, Zenon DEF ResolveWork
    <2>1. PICK to \in Of(BookOf(id), printed) \cup {id} :
            req' = [req EXCEPT ![c].pc = "insert", ![c].ids = @ \ {id}, ![c].id = to]
      BY <2>0
    <2>2. to \in Ids
      BY <1>c DEF TypeOK, Request, Of
    <2>3. /\ req'[c].pc = "insert"
          /\ req'[c].out = req[c].out /\ req'[c].db = req[c].db
          /\ \A d \in Callers \ {c} : req'[d] = req[d]
      <3>1. Taken(c, id, to)
        BY <2>1, Zenon DEF Taken
      <3>2. QED
        BY <2>2, <3>1, TakenTyped
    <2>4. UNCHANGED <<printed, plain, holder, lost, searches, pages>>
      BY <1>1, Zenon DEF ResolveWork
    <2>5. QED
      BY <1>c, <1>k, <2>3, <2>4 DEF Good, Rows
  <1>2. CASE InsertWork(c)
    <2>1. req[c].id \in Ids
      BY <1>2 DEF InsertWork, TypeOK
    <2>2. CASE Works(c) /\ Insert(req[c].id) /\ GoTo(c, "attach") /\ UNCHANGED lost
      <3>1. Good \subseteq Good' /\ req[c].id \in Good'
        BY <1>2, <2>2 DEF InsertWork, Insert, Good, Rows
      <3>2. /\ req'[c].id = req[c].id
            /\ req'[c].out = req[c].out /\ req'[c].db = req[c].db
            /\ \A d \in Callers \ {c} : req'[d] = req[d]
        BY <2>2, GoToTyped DEF Places
      <3>3. QED
        BY <1>2, <1>c, <1>k, <3>1, <3>2 DEF InsertWork
    <2>3. CASE (Insert(req[c].id) \/ UNCHANGED printed) /\ lost' = lost \cup {req[c].id}
                /\ Stored(c)
      <3>1. Good \subseteq Good' /\ req[c].id \in Good'
        BY <1>2, <2>3 DEF InsertWork, Insert, Good, Rows
      <3>2. /\ req'[c].pc = "resolve"
            /\ req'[c].out = req[c].out \cup {req[c].id} /\ req'[c].db = req[c].db
            /\ \A d \in Callers \ {c} : req'[d] = req[d]
        BY <2>1, <2>3, StoredTyped
      <3>3. QED
        BY <1>2, <1>c, <1>k, <3>1, <3>2 DEF InsertWork
    <2>4. QED
      BY <1>2, <2>2, <2>3 DEF InsertWork
  <1>3. CASE InsertEditions(c)
    <2>1. req[c].id \in Ids /\ req[c].id \in Good
      BY <1>3 DEF InsertEditions, TypeOK, AnswerInv
    <2>2. \A b \in Books : holder'[b] \in {holder[b]} \cup Good
      BY <1>3, <2>1, AttachTyped DEF InsertEditions
    <2>3. Good' = Good /\ UNCHANGED <<searches, pages>>
      BY <1>3 DEF InsertEditions, Good, Rows
    <2>4. /\ req'[c].pc = "resolve"
          /\ req'[c].out = req[c].out \cup {req[c].id} /\ req'[c].db = req[c].db
          /\ \A d \in Callers \ {c} : req'[d] = req[d]
      BY <1>3, <2>1, StoredTyped DEF InsertEditions
    <2>5. QED
      BY <1>c, <1>k, <2>1, <2>2, <2>3, <2>4
  <1>4. QED
    BY <1>1, <1>2, <1>3

LEMMA AnswerOthers ==
    ASSUME TypeOK, AnswerInv,
           \/ \E c \in Callers : Abandon(c)
           \/ \E id \in Rows : GetWork(id) \/ WorkEditions(id)
           \/ \E p \in Providers, b \in Books : AuthorExpand(p, b)
           \/ Restart
    PROVE  AnswerInv'
  <1> USE DEF AnswerInv, Answered, Good, Rows
  <1>1. ASSUME NEW c \in Callers, Abandon(c) PROVE AnswerInv'
    <2>1. \A d \in Callers : /\ req'[d].out = req[d].out /\ req'[d].db = req[d].db
                             /\ req'[d].pc = req[d].pc /\ req'[d].id = req[d].id
      BY <1>1, ZenonT(60) DEF Abandon, TypeOK, Request
    <2>2. QED
      BY <1>1, <2>1 DEF Abandon
  <1>2. ASSUME NEW id \in Rows, GetWork(id) PROVE AnswerInv'
    BY <1>2 DEF GetWork
  <1>3. ASSUME NEW id \in Rows, WorkEditions(id) PROVE AnswerInv'
    <2>1. \A b \in Books : holder'[b] \in {holder[b], id}
      BY <1>3, AttachTyped DEF WorkEditions, TypeOK
    <2>2. QED
      BY <1>3, <2>1 DEF WorkEditions
  <1>4. ASSUME NEW p \in Providers, NEW b \in Books, AuthorExpand(p, b) PROVE AnswerInv'
    <2>1. Good \subseteq Good'
      BY <1>4 DEF AuthorExpand
    <2>2. QED
      BY <1>4, <2>1 DEF AuthorExpand
  <1>5. CASE Restart
    BY <1>5, IdleTyped DEF Restart
  <1>6. QED
    BY <1>1, <1>2, <1>3, <1>4, <1>5

-----------------------------------------------------------------------------
(* Rows per book.                                                          *)

\* Requests whose context is canceled, those about to add a row for a book, and
\* those canceled that may still take a book of theirs for new.
Cut == {c \in Callers : req[c].cut}
Pending(b) == {c \in Callers : /\ req[c].pc = "insert"
                               /\ BookOf(req[c].id) = b
                               /\ req[c].id \notin printed}
Owing(b) == {c \in Callers : req[c].cut /\ Of(b, req[c].ids) # {}}

\* A row is there, or about to be, for a request that found none when there was
\* none, or for a failure that is counted or owed by a canceled request.
Budget(b) ==
    /\ IsFiniteSet(Of(b, printed))
    /\ Cardinality(Of(b, printed)) + Cardinality(Pending(b)) + Cardinality(Owing(b))
        <= Cardinality(Callers) + used.troubles

RowsInv ==
    /\ UniqueIds
    /\ Cardinality(Cut) <= used.troubles
    /\ \A b \in Books : Budget(b)

LEMMA CallersFinite ==
    /\ IsFiniteSet(Callers)
    /\ \A S \in SUBSET Callers : /\ IsFiniteSet(S) /\ Cardinality(S) \in Nat
                                 /\ Cardinality(S) <= Cardinality(Callers)
    /\ \A S, T \in SUBSET Callers : S \subseteq T => Cardinality(S) <= Cardinality(T)
  BY BoundsAssumption, FS_Subset, FS_CardinalityType

LEMMA OneMore ==
    ASSUME NEW S \in SUBSET Callers, NEW T \in SUBSET Callers, NEW c \in Callers,
           S \subseteq T \cup {c}
    PROVE  Cardinality(S) <= Cardinality(T) + 1
  <1>1. IsFiniteSet(T) /\ Cardinality(T) \in Nat /\ Cardinality(S) \in Nat
    BY CallersFinite
  <1>2. Cardinality(T \cup {c}) \in Nat /\ Cardinality(T \cup {c}) <= Cardinality(T) + 1
    <2>1. Cardinality(T \cup {c}) =
            IF c \in T THEN Cardinality(T) ELSE Cardinality(T) + 1
      BY <1>1, FS_AddElement
    <2>2. QED
      BY <1>1, <2>1
  <1>3. Cardinality(S) <= Cardinality(T \cup {c})
    BY CallersFinite
  <1>4. QED
    BY <1>1, <1>2, <1>3

LEMMA OneLess ==
    ASSUME NEW S \in SUBSET Callers, NEW T \in SUBSET Callers, NEW c \in T,
           S \subseteq T \ {c}
    PROVE  Cardinality(S) + 1 <= Cardinality(T)
  <1>1. IsFiniteSet(T) /\ Cardinality(T) \in Nat /\ Cardinality(S) \in Nat
    BY CallersFinite
  <1>2. Cardinality(T \ {c}) = Cardinality(T) - 1
    BY <1>1, FS_RemoveElement
  <1>3. Cardinality(S) <= Cardinality(T \ {c})
    BY CallersFinite
  <1>4. QED
    BY <1>1, <1>2, <1>3

\* What only takes away keeps the budget.
LEMMA Shrinks ==
    ASSUME TypeOK, TypeOK', NEW b \in Books, Budget(b),
           Of(b, printed)' = Of(b, printed),
           Pending(b)' \subseteq Pending(b), Owing(b)' \subseteq Owing(b),
           used.troubles <= used'.troubles
    PROVE  Budget(b)'
  <1>1. /\ Pending(b) \in SUBSET Callers /\ Pending(b)' \in SUBSET Callers
        /\ Owing(b) \in SUBSET Callers /\ Owing(b)' \in SUBSET Callers
    BY DEF Pending, Owing
  <1>2. /\ Cardinality(Pending(b)') <= Cardinality(Pending(b))
        /\ Cardinality(Owing(b)') <= Cardinality(Owing(b))
    BY <1>1, CallersFinite
  <1>3. {Cardinality(Pending(b)), Cardinality(Pending(b)'), Cardinality(Owing(b)),
         Cardinality(Owing(b)'), Cardinality(Callers)} \subseteq Nat
    BY <1>1, CallersFinite
  <1>4. Cardinality(Of(b, printed)) \in Nat
    BY FS_CardinalityType DEF Budget
  <1>5. used.troubles \in Nat /\ used'.troubles \in Nat
    BY DEF TypeOK
  <1>6. QED
    BY <1>2, <1>3, <1>4, <1>5 DEF Budget

LEMMA RowsInit == Init => RowsInv
  <1> SUFFICES ASSUME Init PROVE RowsInv
    OBVIOUS
  <1>1. \A c \in Callers : /\ req[c].ids = {} /\ req[c].pc = "idle" /\ ~req[c].cut
    BY IdleTyped DEF Init
  <1>2. Cut = {} /\ \A b \in Books : Pending(b) = {} /\ Owing(b) = {} /\ Of(b, printed) = {}
    BY <1>1 DEF Init, Cut, Pending, Owing, Of
  <1>3. Cardinality(Callers) \in Nat /\ used.troubles = 0
    BY CallersFinite DEF Init
  <1>4. QED
    BY <1>1, <1>2, <1>3, FS_EmptySet DEF RowsInv, UniqueIds, Budget

LEMMA RowsQuiet ==
    ASSUME TypeOK, TypeOK', RowsInv, NEW c \in Callers, Quiet(c)
    PROVE  RowsInv'
  <1>1. UniqueIds'
    BY DEF RowsInv, UniqueIds, Quiet
  <1>2. Cut' \subseteq Cut /\ Cut \in SUBSET Callers /\ Cut' \in SUBSET Callers
    BY DEF Cut, Quiet
  <1>3. Cardinality(Cut') <= used'.troubles
    BY <1>2, CallersFinite DEF RowsInv, Quiet, TypeOK
  <1>4. ASSUME NEW b \in Books PROVE Budget(b)'
    <2>1. Of(b, printed)' = Of(b, printed)
      BY DEF Quiet, Of
    <2>2. Pending(b)' \subseteq Pending(b) /\ Owing(b)' \subseteq Owing(b)
      BY DEF Pending, Owing, Of, Quiet
    <2>3. QED
      BY <2>1, <2>2, Shrinks DEF RowsInv, Quiet
  <1>5. QED
    BY <1>1, <1>3, <1>4 DEF RowsInv

LEMMA RowsResolve ==
    ASSUME TypeOK, TypeOK', RowsInv, NEW c \in Callers, ResolveWork(c)
    PROVE  RowsInv'
  <1>0. PICK id \in req[c].ids :
            \E to \in Of(BookOf(id), printed) \cup {id} :
                /\ \/ Works(c) /\ (Of(BookOf(id), printed) = {}
                                    \/ to \in Of(BookOf(id), printed))
                   \/ Fails(c) /\ to = id
                /\ req' = [req EXCEPT ![c].pc = "insert", ![c].ids = @ \ {id},
                                      ![c].id = to]
    BY Zenon DEF ResolveWork
  <1>1. PICK to \in Of(BookOf(id), printed) \cup {id} :
            /\ \/ Works(c) /\ (Of(BookOf(id), printed) = {}
                                \/ to \in Of(BookOf(id), printed))
               \/ Fails(c) /\ to = id
            /\ req' = [req EXCEPT ![c].pc = "insert", ![c].ids = @ \ {id}, ![c].id = to]
    BY <1>0
  <1> DEFINE found == Of(BookOf(id), printed)
  <1>2. to \in Ids /\ BookOf(to) = BookOf(id) /\ id \in Ids
    BY DEF TypeOK, Request, Of
  <1>3. /\ req'[c].pc = "insert" /\ req'[c].id = to
        /\ req'[c].ids = req[c].ids \ {id} /\ req'[c].cut = req[c].cut
        /\ \A d \in Callers \ {c} : req'[d] = req[d]
    <2>1. Taken(c, id, to)
      BY <1>1, Zenon DEF Taken
    <2> HIDE DEF found
    <2>2. to \in Ids
      BY <1>2
    <2>3. QED
      BY <2>1, <2>2, TakenTyped
  <1>4. printed' = printed /\ req[c].pc = "resolve"
    BY Zenon DEF ResolveWork
  <1>5. used.troubles <= used'.troubles
        /\ (Fails(c) /\ ~req[c].cut => used'.troubles = used.troubles + 1)
    BY <1>1, TroublesGrow
  <1>6. UniqueIds'
    BY <1>3 DEF RowsInv, UniqueIds
  <1>7. Cut' = Cut /\ Cut \in SUBSET Callers
    BY <1>3 DEF Cut
  <1>8. used.troubles \in Nat /\ used'.troubles \in Nat /\ Cardinality(Cut) \in Nat
    BY <1>7, CallersFinite DEF TypeOK
  <1>9. Cardinality(Cut') <= used'.troubles
    BY <1>5, <1>7, <1>8 DEF RowsInv
  <1>10. ASSUME NEW b \in Books PROVE Budget(b)'
    <2>1. Of(b, printed)' = Of(b, printed)
      BY <1>4 DEF Of
    <2>2. Owing(b)' \subseteq Owing(b) /\ Owing(b) \subseteq Cut
      BY <1>3 DEF Owing, Of, Cut
    <2>3. Pending(b)' \subseteq Pending(b) \cup {c}
      BY <1>3, <1>4 DEF Pending
    <2>4. /\ Pending(b) \in SUBSET Callers /\ Pending(b)' \in SUBSET Callers
          /\ Owing(b) \in SUBSET Callers /\ Owing(b)' \in SUBSET Callers
      BY DEF Pending, Owing
    <2>5. /\ {Cardinality(Pending(b)), Cardinality(Pending(b)'), Cardinality(Owing(b)),
              Cardinality(Owing(b)'), Cardinality(Callers)} \subseteq Nat
          /\ Cardinality(Pending(b)') <= Cardinality(Callers)
          /\ Cardinality(Owing(b)') <= Cardinality(Owing(b))
          /\ Cardinality(Owing(b)) <= Cardinality(Cut)
          /\ Cardinality(Pending(b)') <= Cardinality(Pending(b)) + 1
      BY <1>7, <2>2, <2>3, <2>4, CallersFinite, OneMore
    <2>6. Budget(b) /\ Cardinality(Of(b, printed)) \in Nat
      BY FS_CardinalityType DEF RowsInv, Budget
    <2>7. CASE b # BookOf(id) \/ to \in found
      <3>1. Pending(b)' \subseteq Pending(b)
        BY <1>2, <1>3, <1>4, <2>7 DEF Pending, Of
      <3>2. QED
        BY <1>5, <2>1, <2>2, <2>6, <3>1, Shrinks
    <2>8. CASE b = BookOf(id) /\ found = {}
      <3>1. Cardinality(Of(b, printed)') = 0 /\ IsFiniteSet(Of(b, printed)')
        BY <2>1, <2>8, FS_EmptySet
      <3>2. Cardinality(Cut) <= used'.troubles
        BY <1>5, <1>8 DEF RowsInv
      <3>3. QED
        BY <1>8, <2>5, <3>1, <3>2 DEF Budget
    <2>9. CASE b = BookOf(id) /\ to \notin found /\ found # {}
      <3>1. Fails(c) /\ to = id
        BY <1>1, <2>9
      <3>2. CASE ~req[c].cut
        BY <1>5, <1>8, <2>1, <2>5, <2>6, <3>1, <3>2 DEF Budget
      <3>3. CASE req[c].cut
        <4>1. c \in Owing(b)
          BY <2>9, <3>3 DEF Owing, Of
        <4>2. c \notin Owing(b)'
          BY <1>3, <2>9 DEF Owing, Of, RowsInv, UniqueIds
        <4>3. Cardinality(Owing(b)') + 1 <= Cardinality(Owing(b))
          BY <2>2, <2>4, <4>1, <4>2, OneLess
        <4>4. QED
          BY <1>5, <1>8, <2>1, <2>5, <2>6, <4>3 DEF Budget
      <3>4. QED
        BY <3>2, <3>3
    <2>10. QED
      BY <2>7, <2>8, <2>9
  <1>11. QED
    BY <1>6, <1>9, <1>10 DEF RowsInv

LEMMA RowsInsert ==
    ASSUME TypeOK, TypeOK', RowsInv, NEW c \in Callers, InsertWork(c)
    PROVE  RowsInv'
  <1> DEFINE id == req[c].id
  <1>1. req[c].pc = "insert" /\ id \in Ids /\ BookOf(id) \in Books
    BY DEF InsertWork, TypeOK, Ids, BookOf
  <1>2. printed' \in {printed, printed \cup {id}}
    BY DEF InsertWork, Insert
  <1>3. /\ req'[c].pc # "insert"
        /\ req'[c].ids = req[c].ids /\ req'[c].cut = req[c].cut
        /\ \A d \in Callers \ {c} : req'[d] = req[d]
    <2>1. CASE GoTo(c, "attach")
      BY <2>1, GoToTyped DEF Places
    <2>2. CASE Stored(c)
      BY <1>1, <2>2, StoredTyped
    <2>3. QED
      BY <2>1, <2>2 DEF InsertWork
  <1>4. used.troubles <= used'.troubles
    BY TroublesGrow DEF InsertWork
  <1>5. UniqueIds' /\ Cut' = Cut /\ Cut \in SUBSET Callers
    BY <1>3 DEF RowsInv, UniqueIds, Cut
  <1>6. Cardinality(Cut') <= used'.troubles
    BY <1>4, <1>5, CallersFinite DEF RowsInv, TypeOK
  <1>7. ASSUME NEW b \in Books PROVE Budget(b)'
    <2>1. Pending(b)' \subseteq Pending(b) /\ Owing(b)' = Owing(b)
      BY <1>2, <1>3 DEF Pending, Owing, Of
    <2>2. CASE b # BookOf(id) \/ printed' = printed \/ id \in printed
      <3>1. Of(b, printed)' = Of(b, printed)
        BY <1>2, <2>2 DEF Of
      <3>2. QED
        BY <1>4, <2>1, <3>1, Shrinks DEF RowsInv
    <2>3. CASE b = BookOf(id) /\ printed' = printed \cup {id} /\ id \notin printed
      <3>1. Of(b, printed)' = Of(b, printed) \cup {id} /\ id \notin Of(b, printed)
        BY <2>3 DEF Of
      <3>2. IsFiniteSet(Of(b, printed)) /\ Cardinality(Of(b, printed)) \in Nat
        BY FS_CardinalityType DEF RowsInv, Budget
      <3>3. /\ IsFiniteSet(Of(b, printed)')
            /\ Cardinality(Of(b, printed)') = Cardinality(Of(b, printed)) + 1
        <4>1. /\ IsFiniteSet(Of(b, printed) \cup {id})
              /\ Cardinality(Of(b, printed) \cup {id}) =
                    IF id \in Of(b, printed) THEN Cardinality(Of(b, printed))
                    ELSE Cardinality(Of(b, printed)) + 1
          BY <3>2, FS_AddElement
        <4>2. QED
          BY <3>1, <4>1
      <3>4. c \in Pending(b) /\ c \notin Pending(b)'
        BY <1>1, <1>3, <2>3 DEF Pending
      <3>5. /\ Pending(b) \in SUBSET Callers /\ Pending(b)' \in SUBSET Callers
            /\ Owing(b) \in SUBSET Callers
        BY DEF Pending, Owing
      <3>6. Cardinality(Pending(b)') + 1 <= Cardinality(Pending(b))
        BY <2>1, <3>4, <3>5, OneLess
      <3>7. {Cardinality(Pending(b)), Cardinality(Pending(b)'), Cardinality(Owing(b)),
             Cardinality(Callers)} \subseteq Nat
        BY <3>5, CallersFinite
      <3>8. used.troubles \in Nat /\ used'.troubles \in Nat
        BY DEF TypeOK
      <3>9. QED
        BY <1>4, <2>1, <3>2, <3>3, <3>6, <3>7, <3>8 DEF RowsInv, Budget
    <2>4. QED
      BY <1>2, <2>2, <2>3
  <1>8. QED
    BY <1>5, <1>6, <1>7 DEF RowsInv

LEMMA RowsOthers ==
    ASSUME TypeOK, TypeOK', RowsInv,
           \/ \E c \in Callers : InsertEditions(c) \/ Abandon(c)
           \/ \E id \in Rows : GetWork(id) \/ WorkEditions(id)
           \/ \E p \in Providers, b \in Books : AuthorExpand(p, b)
           \/ Restart
    PROVE  RowsInv'
  <1>t. used.troubles \in Nat /\ used'.troubles \in Nat
    BY DEF TypeOK
  \* A step that adds no row and cancels nothing.
  <1>k. ASSUME printed' = printed, used.troubles <= used'.troubles, UniqueIds',
               Cut' \subseteq Cut,
               \A d \in Callers : /\ req'[d].pc = "insert" => req'[d] = req[d]
                                  /\ req'[d].cut => req[d].cut
                                  /\ req'[d].ids \subseteq req[d].ids
        PROVE  RowsInv'
    <2>1. Cut \in SUBSET Callers /\ Cut' \in SUBSET Callers
      BY DEF Cut
    <2>2. Cardinality(Cut') <= used'.troubles
      BY <1>k, <1>t, <2>1, CallersFinite DEF RowsInv
    <2>3. ASSUME NEW b \in Books PROVE Budget(b)'
      <3>1. /\ Of(b, printed)' = Of(b, printed)
            /\ Pending(b)' \subseteq Pending(b) /\ Owing(b)' \subseteq Owing(b)
        BY <1>k DEF Pending, Owing, Of
      <3>2. QED
        BY <1>k, <3>1, Shrinks DEF RowsInv
    <2>4. QED
      BY <1>k, <2>2, <2>3 DEF RowsInv
  <1>1. ASSUME NEW c \in Callers, InsertEditions(c) PROVE RowsInv'
    <2>1. req[c].id \in Ids /\ Stored(c) /\ printed' = printed
      BY <1>1 DEF InsertEditions, TypeOK
    <2>2. /\ req'[c].pc = "resolve"
          /\ req'[c].ids = req[c].ids /\ req'[c].cut = req[c].cut
          /\ \A d \in Callers \ {c} : req'[d] = req[d]
      BY <2>1, StoredTyped
    <2>3. used.troubles <= used'.troubles
      BY <1>1, TroublesGrow DEF InsertEditions
    <2>4. UniqueIds' /\ Cut' = Cut
      BY <2>2 DEF RowsInv, UniqueIds, Cut
    <2>5. QED
      BY <1>k, <2>1, <2>2, <2>3, <2>4
  <1>2. ASSUME NEW c \in Callers, Abandon(c) PROVE RowsInv'
    <2>1. /\ req' = [req EXCEPT ![c].cut = TRUE] /\ ~req[c].cut
          /\ printed' = printed /\ used'.troubles = used.troubles + 1
      BY <1>2 DEF Abandon, Trouble, TypeOK
    <2>2. \A d \in Callers : /\ req'[d].pc = req[d].pc /\ req'[d].id = req[d].id
                             /\ req'[d].ids = req[d].ids
                             /\ req'[d].cut <=> req[d].cut \/ d = c
      <3> DEFINE r == [req[c] EXCEPT !.cut = TRUE]
      <3>1. req[c] \in Request
        BY DEF TypeOK
      <3>2. r \in Request
        BY <3>1, Updates
      <3>3. r.pc = req[c].pc /\ r.id = req[c].id /\ r.ids = req[c].ids /\ r.cut = TRUE
        BY <3>1, Zenon DEF Request
      <3>4. req' = [req EXCEPT ![c] = r]
        BY <2>1 DEF TypeOK
      <3>5. req'[c] = r /\ \A d \in Callers \ {c} : req'[d] = req[d]
        BY <3>2, <3>4, Written
      <3>6. QED
        BY <3>3, <3>5
    <2>3. UniqueIds'
      BY <2>2 DEF RowsInv, UniqueIds
    <2>4. Cut \in SUBSET Callers /\ Cut' \in SUBSET Callers /\ Cut' \subseteq Cut \cup {c}
      BY <2>2 DEF Cut
    <2>5. Cardinality(Cut) \in Nat /\ Cardinality(Cut') \in Nat
          /\ Cardinality(Cut') <= Cardinality(Cut) + 1
      BY <2>4, CallersFinite, OneMore
    <2>6. ASSUME NEW b \in Books PROVE Budget(b)'
      <3>1. /\ Of(b, printed)' = Of(b, printed) /\ Pending(b)' = Pending(b)
            /\ Owing(b)' \subseteq Owing(b) \cup {c}
        BY <2>1, <2>2 DEF Pending, Owing, Of
      <3>2. /\ Pending(b) \in SUBSET Callers
            /\ Owing(b) \in SUBSET Callers /\ Owing(b)' \in SUBSET Callers
        BY DEF Pending, Owing
      <3>3. /\ {Cardinality(Pending(b)), Cardinality(Owing(b)), Cardinality(Owing(b)'),
                Cardinality(Callers)} \subseteq Nat
            /\ Cardinality(Owing(b)') <= Cardinality(Owing(b)) + 1
        BY <3>1, <3>2, CallersFinite, OneMore
      <3>4. Budget(b) /\ Cardinality(Of(b, printed)) \in Nat
        BY FS_CardinalityType DEF RowsInv, Budget
      <3>5. QED
        BY <1>t, <2>1, <3>1, <3>3, <3>4 DEF Budget
    <2>7. QED
      BY <1>t, <2>1, <2>3, <2>5, <2>6 DEF RowsInv
  <1>3. ASSUME NEW id \in Rows, GetWork(id) \/ WorkEditions(id) PROVE RowsInv'
    <2>1. printed' = printed /\ req' = req /\ used.troubles <= used'.troubles
      BY <1>3 DEF GetWork, WorkEditions, Enrichment, TypeOK
    <2>2. UniqueIds' /\ Cut' = Cut
      BY <2>1 DEF RowsInv, UniqueIds, Cut
    <2>3. QED
      BY <1>k, <2>1, <2>2
  <1>4. ASSUME NEW p \in Providers, NEW b \in Books, AuthorExpand(p, b) PROVE RowsInv'
    <2>1. printed' = printed /\ req' = req /\ used.troubles <= used'.troubles
      BY <1>4 DEF AuthorExpand, Enrichment, TypeOK
    <2>2. UniqueIds' /\ Cut' = Cut
      BY <2>1 DEF RowsInv, UniqueIds, Cut
    <2>3. QED
      BY <1>k, <2>1, <2>2
  <1>5. CASE Restart
    <2>1. printed' = printed /\ used.troubles <= used'.troubles
      BY <1>5 DEF Restart, Trouble, TypeOK
    <2>2. \A d \in Callers : req'[d].pc = "idle" /\ ~req'[d].cut /\ req'[d].ids = {}
      BY <1>5, IdleTyped DEF Restart
    <2>3. UniqueIds' /\ Cut' = {}
      BY <2>2 DEF UniqueIds, Cut
    <2>4. QED
      BY <1>k, <2>1, <2>2, <2>3
  <1>6. QED
    BY <1>1, <1>2, <1>3, <1>4, <1>5

-----------------------------------------------------------------------------
(* What is lost.                                                           *)

\* Canceled requests that may still fail to store an id of the book.
Losing(b) ==
    {c \in Callers : /\ req[c].cut
                     /\ \/ Of(b, req[c].ids) # {}
                        \/ req[c].pc = "insert" /\ BookOf(req[c].id) = b}

Loss(b) ==
    /\ IsFiniteSet(Of(b, lost))
    /\ Cardinality(Of(b, lost)) + Cardinality(Losing(b)) <= used.troubles

\* The id a request is about to store is its only one of the book.
LossInv ==
    /\ \A c \in Callers : req[c].pc = "insert" =>
         \A x \in req[c].ids : BookOf(x) # BookOf(req[c].id)
    /\ \A b \in Books : Loss(b)

LEMMA LossShrinks ==
    ASSUME TypeOK, TypeOK', NEW b \in Books, Loss(b), Of(b, lost)' = Of(b, lost),
           Losing(b)' \subseteq Losing(b), used.troubles <= used'.troubles
    PROVE  Loss(b)'
  <1>1. Losing(b) \in SUBSET Callers /\ Losing(b)' \in SUBSET Callers
    BY DEF Losing
  <1>2. /\ Cardinality(Losing(b)') <= Cardinality(Losing(b))
        /\ Cardinality(Losing(b)') \in Nat /\ Cardinality(Losing(b)) \in Nat
    BY <1>1, CallersFinite
  <1>3. Cardinality(Of(b, lost)) \in Nat /\ used.troubles \in Nat /\ used'.troubles \in Nat
    BY FS_CardinalityType DEF Loss, TypeOK
  <1>4. QED
    BY <1>2, <1>3 DEF Loss

LEMMA LossInit == Init => LossInv
  <1> SUFFICES ASSUME Init PROVE LossInv
    OBVIOUS
  <1>1. \A c \in Callers : req[c].pc = "idle" /\ ~req[c].cut
    BY IdleTyped DEF Init
  <1>2. \A b \in Books : Losing(b) = {} /\ Of(b, lost) = {}
    BY <1>1 DEF Init, Losing, Of
  <1>3. QED
    BY <1>1, <1>2, FS_EmptySet DEF Init, LossInv, Loss

\* A step that loses nothing and cancels nothing.
LEMMA LossKept ==
    ASSUME TypeOK, TypeOK', LossInv, lost' = lost, used.troubles <= used'.troubles,
           \A d \in Callers : \/ req'[d] = req[d]
                              \/ /\ req'[d].pc # "insert"
                                 /\ req'[d].cut => req[d].cut /\ req'[d].ids \subseteq req[d].ids
    PROVE  LossInv'
  <1>1. ASSUME NEW b \in Books PROVE Loss(b)'
    <2>1. Losing(b)' \subseteq Losing(b)
      BY DEF Losing, Of
    <2>2. Of(b, lost)' = Of(b, lost)
      BY DEF Of
    <2>3. QED
      BY <2>1, <2>2, LossShrinks DEF LossInv
  <1>2. QED
    BY <1>1 DEF LossInv

LEMMA LossStep ==
    ASSUME TypeOK, TypeOK', AnswerInv, UniqueIds, LossInv, [Next]_vars
    PROVE  LossInv'
  <1>1. ASSUME NEW c \in Callers, Quiet(c) PROVE LossInv'
    BY <1>1, LossKept DEF Quiet
  <1>2. ASSUME NEW c \in Callers,
               \/ \E q \in Queries : SearchWorks(c, q) \/ Resolve(c, q)
               \/ Step(c) /\ ~(ResolveWork(c) \/ InsertWork(c) \/ InsertEditions(c))
        PROVE  LossInv'
    BY <1>1, <1>2, RequestQuiet, IdentifyQuiet, SearchQuiet DEF Step
  <1>3. ASSUME NEW c \in Callers, ResolveWork(c) PROVE LossInv'
    <2>0. PICK id \in req[c].ids :
            \E to \in Of(BookOf(id), printed) \cup {id} :
                /\ Works(c) \/ Fails(c)
                /\ req' = [req EXCEPT ![c].pc = "insert", ![c].ids = @ \ {id}, ![c].id = to]
      BY <1>3, Zenon DEF ResolveWork
    <2>1. PICK to \in Of(BookOf(id), printed) \cup {id} :
            /\ Works(c) \/ Fails(c)
            /\ req' = [req EXCEPT ![c].pc = "insert", ![c].ids = @ \ {id}, ![c].id = to]
      BY <2>0
    <2>2. to \in Ids /\ BookOf(to) = BookOf(id)
      BY DEF TypeOK, Request, Of
    <2>3. /\ req'[c].pc = "insert" /\ req'[c].id = to
          /\ req'[c].ids = req[c].ids \ {id} /\ req'[c].cut = req[c].cut
          /\ \A d \in Callers \ {c} : req'[d] = req[d]
      <3>1. Taken(c, id, to)
        BY <2>1, Zenon DEF Taken
      <3>2. QED
        BY <2>2, <3>1, TakenTyped
    <2>4. lost' = lost /\ used.troubles <= used'.troubles
      <3>1. lost' = lost
        BY <1>3, Zenon DEF ResolveWork
      <3>2. QED
        BY <2>1, <3>1, TroublesGrow
    <2>5. ASSUME NEW b \in Books PROVE Loss(b)'
      <3>1. Losing(b)' \subseteq Losing(b)
        BY <2>2, <2>3 DEF Losing, Of
      <3>2. Of(b, lost)' = Of(b, lost)
        BY <2>4 DEF Of
      <3>3. QED
        BY <2>4, <3>1, <3>2, LossShrinks DEF LossInv
    <2>6. \A x \in req'[c].ids : BookOf(x) # BookOf(req'[c].id)
      BY <2>2, <2>3 DEF UniqueIds
    <2>7. QED
      BY <2>3, <2>5, <2>6 DEF LossInv
  <1>4. ASSUME NEW c \in Callers, InsertWork(c) PROVE LossInv'
    <2> DEFINE id == req[c].id
    <2>1. req[c].pc = "insert" /\ id \in Ids /\ BookOf(id) \in Books
      BY <1>4 DEF InsertWork, TypeOK, Ids, BookOf
    <2>2. /\ req'[c].pc # "insert" /\ req'[c].ids = req[c].ids /\ req'[c].cut = req[c].cut
          /\ \A d \in Callers \ {c} : req'[d] = req[d]
      <3>1. CASE GoTo(c, "attach")
        BY <3>1, GoToTyped DEF Places
      <3>2. CASE Stored(c)
        BY <2>1, <3>2, StoredTyped
      <3>3. QED
        BY <1>4, <3>1, <3>2 DEF InsertWork
    <2>3. used.troubles <= used'.troubles
      BY <1>4, TroublesGrow DEF InsertWork
    <2>4. CASE lost' = lost
      BY <2>2, <2>3, <2>4, LossKept
    <2>5. CASE Fails(c) /\ lost' = lost \cup {id}
      <3>1. ASSUME NEW b \in Books PROVE Loss(b)'
        <4>1. Losing(b)' \subseteq Losing(b)
          BY <2>2 DEF Losing, Of
        <4>2. CASE b # BookOf(id)
          <5>1. Of(b, lost)' = Of(b, lost)
            BY <2>5, <4>2 DEF Of
          <5>2. QED
            BY <2>3, <4>1, <5>1, LossShrinks DEF LossInv
        <4>3. CASE b = BookOf(id)
          <5>1. Of(b, lost)' = Of(b, lost) \cup {id}
            BY <2>5, <4>3 DEF Of
          <5>2. IsFiniteSet(Of(b, lost)) /\ Cardinality(Of(b, lost)) \in Nat
            BY FS_CardinalityType DEF LossInv, Loss
          <5>3. /\ IsFiniteSet(Of(b, lost)')
                /\ Cardinality(Of(b, lost)') \in Nat
                /\ Cardinality(Of(b, lost)') <= Cardinality(Of(b, lost)) + 1
            <6>1. /\ IsFiniteSet(Of(b, lost) \cup {id})
                  /\ Cardinality(Of(b, lost) \cup {id}) =
                        IF id \in Of(b, lost) THEN Cardinality(Of(b, lost))
                        ELSE Cardinality(Of(b, lost)) + 1
              BY <5>2, FS_AddElement
            <6>2. QED
              BY <5>1, <5>2, <6>1
          <5>4. Losing(b) \in SUBSET Callers /\ Losing(b)' \in SUBSET Callers
            BY DEF Losing
          <5>5. Cardinality(Losing(b)) \in Nat /\ Cardinality(Losing(b)') \in Nat
                /\ Cardinality(Losing(b)') <= Cardinality(Losing(b))
            BY <4>1, <5>4, CallersFinite
          <5>6. used.troubles \in Nat /\ used'.troubles \in Nat
            BY DEF TypeOK
          <5>7. Loss(b)
            BY DEF LossInv
          <5>8. CASE ~req[c].cut
            <6>1. used'.troubles = used.troubles + 1
              BY <2>5, <5>8, TroublesGrow
            <6>2. QED
              BY <5>3, <5>5, <5>6, <5>7, <6>1, <5>2 DEF Loss
          <5>9. CASE req[c].cut
            <6>1. c \in Losing(b)
              BY <2>1, <4>3, <5>9 DEF Losing
            <6>2. c \notin Losing(b)'
              <7>1. Of(b, req[c].ids) = {}
                BY <2>1, <4>3 DEF LossInv, Of
              <7>2. QED
                BY <2>2, <7>1 DEF Losing, Of
            <6>3. Cardinality(Losing(b)') + 1 <= Cardinality(Losing(b))
              BY <4>1, <5>4, <6>1, <6>2, OneLess
            <6>4. QED
              BY <2>3, <5>2, <5>3, <5>5, <5>6, <5>7, <6>3 DEF Loss
          <5>10. QED
            BY <5>8, <5>9
        <4>4. QED
          BY <4>2, <4>3
      <3>2. QED
        BY <2>2, <3>1 DEF LossInv
    <2>6. QED
      BY <1>4, <2>4, <2>5 DEF InsertWork
  <1>5. ASSUME NEW c \in Callers, InsertEditions(c) PROVE LossInv'
    <2>1. req[c].id \in Ids /\ Stored(c) /\ lost' = lost
      BY <1>5 DEF InsertEditions, TypeOK
    <2>2. /\ req'[c].pc = "resolve"
          /\ req'[c].ids = req[c].ids /\ req'[c].cut = req[c].cut
          /\ \A d \in Callers \ {c} : req'[d] = req[d]
      BY <2>1, StoredTyped
    <2>3. used.troubles <= used'.troubles
      BY <1>5, TroublesGrow DEF InsertEditions
    <2>4. QED
      BY <2>1, <2>2, <2>3, LossKept
  <1>6. ASSUME NEW c \in Callers, Abandon(c) PROVE LossInv'
    <2>1. /\ req' = [req EXCEPT ![c].cut = TRUE] /\ ~req[c].cut
          /\ lost' = lost /\ used'.troubles = used.troubles + 1
      BY <1>6 DEF Abandon, Trouble, TypeOK
    <2>2. \A d \in Callers : /\ req'[d].pc = req[d].pc /\ req'[d].id = req[d].id
                             /\ req'[d].ids = req[d].ids
                             /\ req'[d].cut => req[d].cut \/ d = c
      <3> DEFINE r == [req[c] EXCEPT !.cut = TRUE]
      <3>1. req[c] \in Request
        BY DEF TypeOK
      <3>2. r \in Request
        BY <3>1, Updates
      <3>3. r.pc = req[c].pc /\ r.id = req[c].id /\ r.ids = req[c].ids
        BY <3>1, Zenon DEF Request
      <3>4. req' = [req EXCEPT ![c] = r]
        BY <2>1 DEF TypeOK
      <3>5. req'[c] = r /\ \A d \in Callers \ {c} : req'[d] = req[d]
        BY <3>2, <3>4, Written
      <3>6. QED
        BY <3>3, <3>5
    <2>3. ASSUME NEW b \in Books PROVE Loss(b)'
      <3>1. Of(b, lost)' = Of(b, lost) /\ Losing(b)' \subseteq Losing(b) \cup {c}
        BY <2>1, <2>2 DEF Losing, Of
      <3>2. Losing(b) \in SUBSET Callers /\ Losing(b)' \in SUBSET Callers
        BY DEF Losing
      <3>3. /\ Cardinality(Losing(b)) \in Nat /\ Cardinality(Losing(b)') \in Nat
            /\ Cardinality(Losing(b)') <= Cardinality(Losing(b)) + 1
        BY <3>1, <3>2, CallersFinite, OneMore
      <3>4. Loss(b) /\ Cardinality(Of(b, lost)) \in Nat
        BY FS_CardinalityType DEF LossInv, Loss
      <3>5. used.troubles \in Nat
        BY DEF TypeOK
      <3>6. QED
        BY <2>1, <3>1, <3>3, <3>4, <3>5 DEF Loss
    <2>4. QED
      BY <2>2, <2>3 DEF LossInv
  <1>7. CASE \/ \E id \in Rows : GetWork(id) \/ WorkEditions(id)
             \/ \E p \in Providers, b \in Books : AuthorExpand(p, b)
             \/ Restart
    <2>1. lost' = lost /\ used.troubles <= used'.troubles
      BY <1>7 DEF GetWork, WorkEditions, AuthorExpand, Restart, Enrichment, Trouble, TypeOK
    <2>2. \/ req' = req
          \/ \A d \in Callers : req'[d].pc = "idle" /\ ~req'[d].cut
      BY <1>7, IdleTyped DEF GetWork, WorkEditions, AuthorExpand, Restart
    <2>3. QED
      BY <2>1, <2>2, LossKept
  <1>8. CASE UNCHANGED vars
    BY <1>8, LossKept DEF TypeOK
  <1>9. QED
    BY <1>2, <1>3, <1>4, <1>5, <1>6, <1>7, <1>8 DEF Next

-----------------------------------------------------------------------------
(* Both.                                                                   *)

LEMMA AnswerInit == Init => AnswerInv
  BY IdleTyped DEF Init, AnswerInv, Answered, Good, Rows

LEMMA BothStep ==
    ASSUME TypeOK, TypeOK', AnswerInv, RowsInv, [Next]_vars
    PROVE  AnswerInv' /\ RowsInv'
  <1>u. UniqueIds
    BY DEF RowsInv
  <1>1. ASSUME NEW c \in Callers, Quiet(c) PROVE AnswerInv' /\ RowsInv'
    BY <1>1, AnswerQuiet, RowsQuiet
  <1>2. ASSUME NEW c \in Callers,
               \/ \E q \in Queries : SearchWorks(c, q) \/ Resolve(c, q)
               \/ Step(c) /\ ~(ResolveWork(c) \/ InsertWork(c) \/ InsertEditions(c))
        PROVE  AnswerInv' /\ RowsInv'
    BY <1>1, <1>2, <1>u, RequestQuiet, IdentifyQuiet, SearchQuiet DEF Step
  <1>3. ASSUME NEW c \in Callers, ResolveWork(c) \/ InsertWork(c) \/ InsertEditions(c)
        PROVE  AnswerInv' /\ RowsInv'
    BY <1>3, AnswerStored, RowsResolve, RowsInsert, RowsOthers
  <1>4. CASE \/ \E c \in Callers : Abandon(c)
             \/ \E id \in Rows : GetWork(id) \/ WorkEditions(id)
             \/ \E p \in Providers, b \in Books : AuthorExpand(p, b)
             \/ Restart
    BY <1>4, AnswerOthers, RowsOthers
  <1>5. CASE UNCHANGED vars
    <2>1. AnswerInv'
      BY <1>5 DEF AnswerInv, Answered, Good, Rows
    <2>2. RowsInv'
      BY <1>5 DEF RowsInv, UniqueIds, Cut, Budget, Pending, Owing, Of
    <2>3. QED
      BY <2>1, <2>2
  <1>6. QED
    BY <1>2, <1>3, <1>4, <1>5 DEF Next

\* Whatever clients, providers and the database do, an id that a search answers or
\* has cached, GET /work has answered or an identifier holds is a stored work's, or
\* one whose INSERT reported an error; and each trouble costs at most one of these
\* for each book.
THEOREM AnswersAreStored == Spec => []AnswersStored
  <1>1. TypeOK /\ AnswerInv /\ RowsInv /\ LossInv /\ [Next]_vars
            => (AnswerInv /\ RowsInv /\ LossInv)'
    BY TypeStep, BothStep, LossStep DEF RowsInv
  <1>2. TypeOK /\ AnswerInv /\ LossInv => AnswersStored
    <2> SUFFICES ASSUME TypeOK, AnswerInv, LossInv PROVE AnswersStored
      OBVIOUS
    <2>1. ASSUME NEW b \in Books PROVE Cardinality(Of(b, lost)) <= used.troubles
      <3>1. Losing(b) \in SUBSET Callers
        BY DEF Losing
      <3>2. Cardinality(Losing(b)) \in Nat /\ Loss(b) /\ used.troubles \in Nat
        BY <3>1, CallersFinite DEF LossInv, TypeOK
      <3>3. Cardinality(Of(b, lost)) \in Nat
        BY <3>2, FS_CardinalityType DEF Loss
      <3>4. QED
        BY <3>2, <3>3 DEF Loss
    <2>2. QED
      BY <2>1 DEF AnswersStored, AnswerInv, Answered, Good
  <1>3. QED
    BY <1>1, <1>2, AnswerInit, RowsInit, LossInit, TypeCorrect, PTL DEF Spec

\* The fingerprint lookup bounds the rows of a book without a unique index:
\* one for each request that may be in flight, and one for each trouble.
THEOREM RowsAreBounded == Spec => []RowsPerBook
  <1>1. TypeOK /\ AnswerInv /\ RowsInv /\ [Next]_vars => (AnswerInv /\ RowsInv)'
    BY TypeStep, BothStep
  <1>2. TypeOK /\ RowsInv => RowsPerBook
    <2> SUFFICES ASSUME TypeOK, RowsInv, NEW b \in Books
                 PROVE  Cardinality(Of(b, printed)) <= Cardinality(Callers) + used.troubles
      BY DEF RowsPerBook
    <2>1. Pending(b) \in SUBSET Callers /\ Owing(b) \in SUBSET Callers
      BY DEF Pending, Owing
    <2>2. {Cardinality(Pending(b)), Cardinality(Owing(b)), Cardinality(Callers)} \subseteq Nat
      BY <2>1, CallersFinite
    <2>3. Budget(b) /\ Cardinality(Of(b, printed)) \in Nat /\ used.troubles \in Nat
      BY FS_CardinalityType DEF RowsInv, Budget, TypeOK
    <2>4. QED
      BY <2>2, <2>3 DEF Budget
  <1>3. QED
    BY <1>1, <1>2, AnswerInit, RowsInit, TypeCorrect, PTL DEF Spec

=============================================================================
