--------------------------- MODULE OhSemanticProofs ---------------------------
(***************************************************************************)
(* The semantic cache keeps what it promises, for any hosts, authorities   *)
(* and requests, when one client at most upgrades a version 1 database;    *)
(* tombstones survive however many do.                                     *)
(*                                                                         *)
(* The invariant has three parts: what the tables satisfy, what a call     *)
(* under way knows of the tables at each of its steps, and what the calls  *)
(* that ended reported.  A step of one client changes the tables only so   *)
(* that what the others know and have reported stays true (Grows).         *)
(***************************************************************************)
EXTENDS OhSemanticCache, FiniteSetTheorems, TLAPS

\* The hosts upgrade a version 1 database through one client.
OneUpgrader == \A c, d \in Upgraders : c = d

-----------------------------------------------------------------------------
(* What a call holds.                                                      *)

CacheJobs == {"stage", "publish", "search", "head", "purge", "receipt"}

Jobs == CacheJobs \cup {"none", "open", "bootstrap", "v1-purge"}

VerifySteps == {"verify-transition", "verify-marker", "verify-objects"}

V1Steps == {"v1-marker", "v1-objects", "start"}

StepsOf(job) ==
    CASE job = "none" -> {"idle"}
      [] job = "open" -> VerifySteps
      [] job = "bootstrap" -> VerifySteps \cup V1Steps \cup
           {"inventory", "create", "inspect", "transition-objects", "transition-marker",
            "inventory-again", "page", "materialize", "remaining", "finish"}
      [] job = "v1-purge" -> {"v1-before", "v1-batch", "v1-after"}
      [] job = "stage" ->
           {"stage-purged", "reserve", "owner", "reserved", "purged-again", "stage-generation",
            "embed", "stage-batch", "stage-vectors", "vectors-gone", "staged", "staged-purged",
            "staged-members"}
      [] job = "publish" ->
           {"publish-purged", "publish-generation", "publish-members", "publish-head",
            "publish-swap", "publish-after", "published"}
      [] job = "search" ->
           {"search-purged", "search-head", "search-generation", "search-embed", "scan",
            "search-again", "search-last"}
      [] job = "head" ->
           {"head-purged", "head-read", "head-generation", "head-purged-again", "head-gone",
            "head-again"}
      [] job = "purge" ->
           {"purge-before", "purge-head", "purge-owner", "purge-scopes", "purge-reserve",
            "reserve", "owner", "reserved", "purge-batch", "purge-after", "residual"}
      [] job = "receipt" -> {"receipt", "residual"}

Steps == UNION {StepsOf(job) : job \in Jobs}

RequestsOf(job) ==
    CASE job = "stage" -> Stages
      [] job = "publish" -> Publishes
      [] job = "search" -> Searches
      [] job = "head" -> HeadReads
      [] job = "purge" -> Purges
      [] job = "receipt" -> Receipts
      [] job = "v1-purge" -> LegacyPurges
      [] OTHER -> {None}

Requests == Stages \cup Publishes \cup Searches \cup HeadReads \cup Purges \cup Receipts
            \cup LegacyPurges \cup {None}

Page == UNION {[P -> Instants] : P \in SUBSET Authorities}

Seen == Generation \cup Reservation \cup Receipt \cup Instants \cup Page \cup {None}

Results == {"none", "ok", "unchanged", "integrity", "refused", "sql", "purged", "conflict", "empty"}

\* What a report may carry.
Reportable == Generation \cup Receipt \cup Instants \cup (SUBSET Nat) \cup {None}

Report == [job: Jobs, request: Requests, result: Results, value: Reportable]

CallRecord ==
    [job: Jobs, step: Steps, request: Requests,
     within: {"call", "start", "resume", "finish", "recover"}, seen: Seen,
     found: SUBSET Nat, offset: Nat, count: Nat, error: {"none", "sql", "refused"},
     outcome: Report]

\* Only a bootstrap has attempts whose failure does not end it.
CallOK(c) ==
    /\ call[c].step \in StepsOf(call[c].job)
    /\ call[c].request \in RequestsOf(call[c].job)
    /\ call[c].job # "bootstrap" => call[c].within = "call"
    /\ call[c].job # "none" => call[c].outcome = NoOutcome
    /\ call[c].outcome.request \in RequestsOf(call[c].outcome.job)

-----------------------------------------------------------------------------
(* The tables.                                                             *)

Finite ==
    /\ IsFiniteSet(generations)
    /\ IsFiniteSet(memberships)
    /\ IsFiniteSet(vectors)

\* What version 2 keeps is empty before version 2; version 1 has its own rows
\* of tombstones, and a transition row agrees with the receipt made of it.
SchemaSound ==
    /\ schema # "v2" =>
          /\ generations = {} /\ memberships = {} /\ vectors = {}
          /\ heads = NoRow /\ opened = {}
    /\ schema = "v1" => purges \in [Authorities -> LegacyRow \cup {None}]
    /\ schema # "v1" => purges \in [Authorities -> Receipt \cup {None}]
    /\ \A a \in Authorities :
          transition[a] # None /\ purges[a] # None => purges[a].at = transition[a]

TablesSound == CacheSound /\ SchemaSound /\ Finite

-----------------------------------------------------------------------------
(* What a call under way knows.                                            *)

Gone(a) == purges[a] # None

Kept(g) == Gone(g.authority) \/ g \in generations

Numbered(a, n) == {g \in generations : g.authority = a /\ g.number = n}

Passed(g) == Gone(g.authority) \/ (heads[g.authority] # None /\ heads[g.authority].number >= g.number)

\* The chunks that the first pages hold.
First(set, n) == {i \in set : Rank(i, set) <= n}

BootstrapKnows(c) ==
    /\ At(c, "bootstrap", "inventory") /\ schema = "v1" => c \in Upgraders
    /\ call[c].job = "bootstrap" /\ Step(c) \in V1Steps => c \in Upgraders /\ schema = "v1"
    /\ At(c, "bootstrap", "materialize") =>
          /\ call[c].seen \in Page
          /\ \A a \in DOMAIN call[c].seen : Tombstone(a) = call[c].seen[a]
    /\ At(c, "bootstrap", "remaining") => call[c].seen \in Page

Owned(c) == isolations[G(c).isolation] # None /\ isolations[G(c).isolation].owner = A(c)

StageKnows(c) ==
    /\ At(c, "stage", "reserved") /\ call[c].seen # None =>
          isolations[G(c).isolation] = call[c].seen
    /\ call[c].job = "stage" /\ Step(c) \in {"purged-again", "stage-generation", "embed",
                                            "stage-batch"} => Owned(c)
    /\ At(c, "stage", "stage-vectors") => Gone(A(c)) \/ Numbered(A(c), G(c).number) # {}
    /\ At(c, "stage", "vectors-gone") =>
          Gone(A(c)) \/ Numbered(A(c), G(c).number) \ {G(c)} # {}
    /\ At(c, "stage", "staged-purged") /\ call[c].seen = G(c) => Kept(G(c))
    /\ At(c, "stage", "staged-members") => Kept(G(c))

PublishKnows(c) ==
    LET k == call[c]
    IN  /\ k.job = "publish" /\ k.step \notin {"publish-purged", "publish-generation"} =>
              /\ k.seen \in Generation /\ Kept(k.seen)
              /\ k.seen.authority = A(c) /\ k.seen.number = k.request.number
        /\ At(c, "publish", "publish-swap") /\ k.request.expected # None =>
              k.request.expected < k.request.number
        /\ k.job = "publish" /\ k.step \in {"publish-after", "published"} /\ k.count > 0 =>
              Passed(k.seen)

SearchKnows(c) ==
    LET k == call[c]
        chunks == Chunks[G(c).content]
    IN  /\ k.job = "search" /\ k.step \notin {"search-purged", "search-head"} =>
              k.seen = G(c) /\ Kept(G(c))
        /\ k.job = "search" /\ k.step \in {"search-purged", "search-head", "search-generation",
                                           "search-embed"} =>
              k.found = {} /\ k.offset = 0 /\ k.count = 0
        /\ At(c, "search", "scan") =>
              \/ Gone(A(c))
              \/ k.found = First(chunks, k.offset) /\ k.count = Cardinality(k.found)
        /\ k.job = "search" /\ k.step \in {"search-again", "search-last"} =>
              Gone(A(c)) \/ k.found = chunks

HeadKnows(c) ==
    LET k == call[c]
    IN  /\ k.job = "head" /\ k.step \in {"head-generation", "head-purged-again", "head-again"} =>
              /\ k.seen \in Generation /\ k.seen.authority = A(c) /\ Kept(k.seen)
              /\ Gone(A(c)) \/ heads[A(c)] # None
        /\ At(c, "head", "head-gone") => Gone(A(c))

PurgeKnows(c) ==
    call[c].job \in {"purge", "receipt"} /\ Step(c) = "residual" =>
        Gone(A(c)) /\ purges[A(c)] = call[c].seen

Knows(c) ==
    /\ call[c].job \in CacheJobs => schema = "v2"
    /\ BootstrapKnows(c) /\ StageKnows(c) /\ PublishKnows(c) /\ SearchKnows(c)
    /\ HeadKnows(c) /\ PurgeKnows(c)

-----------------------------------------------------------------------------
(* What ended calls reported.                                              *)

Stands(c) ==
    LET o == call[c].outcome
        a == o.request.authority
    IN  /\ o.job \in CacheJobs => schema = "v2"
        /\ o.job = "stage" /\ o.result = "ok" =>
              o.value = o.request.generation /\ Kept(o.value)
        /\ o.job = "publish" /\ o.result \in {"ok", "unchanged"} =>
              /\ o.value \in Generation /\ o.value.authority = a
              /\ o.value.number = o.request.number /\ Passed(o.value)
        /\ o.job = "search" /\ o.result = "ok" =>
              o.value = Chunks[o.request.generation.content]
        /\ o.job = "v1-purge" /\ o.result = "ok" => o.value # None /\ Tombstone(a) = o.value
        /\ o.job \in {"purge", "receipt"} /\ o.result = "ok" =>
              o.value # None /\ purges[a] = o.value
        /\ o.result = "integrity" =>
              /\ o.job \in CacheJobs
              /\ \/ Gone(a)
                 \/ /\ o.job = "stage"
                    /\ Numbered(a, o.request.generation.number) \ {o.request.generation} # {}

\* The publish of a client that moved the head to g, answered or not yet.
Claims(c, g) ==
    \/ /\ call[c].job = "publish" /\ Step(c) \in {"publish-after", "published"}
       /\ call[c].count > 0 /\ call[c].seen = g
    \/ call[c].outcome.job = "publish" /\ call[c].outcome.result = "ok" /\ call[c].outcome.value = g

ClaimsDiffer == \A c, d \in Clients : c # d => \A g \in Generation : ~(Claims(c, g) /\ Claims(d, g))

\* The inductive invariant.
CacheInvariant ==
    /\ TablesSound
    /\ call \in [Clients -> CallRecord]
    /\ \A c \in Clients : CallOK(c) /\ Knows(c) /\ Stands(c)
    /\ ClaimsDiffer

-----------------------------------------------------------------------------
(* Requests.                                                               *)

\* A request to the cache names an authority; the generation of a stage or a
\* search is of that authority.
LEMMA RequestTypes ==
    ASSUME NEW c \in Clients, CallOK(c)
    PROVE  /\ call[c].job \in CacheJobs \cup {"v1-purge"} => A(c) \in Authorities
           /\ call[c].job \in {"stage", "search"} =>
                 G(c) \in Generation /\ G(c).authority = A(c)
           /\ call[c].job = "publish" =>
                 /\ call[c].request.number \in Numbers
                 /\ call[c].request.expected \in Numbers \cup {None}
           /\ call[c].job \in {"stage", "purge", "v1-purge"} => call[c].request.at \in Instants
           /\ call[c].job \in {"publish", "head", "purge", "receipt"} =>
                 call[c].request.isolation \in Isolations
<1>1. call[c].request \in RequestsOf(call[c].job)
  BY DEF CallOK
<1>2. CASE call[c].job = "stage"
  BY <1>1, <1>2, RequestAssumption DEF RequestsOf, A, G
<1>3. CASE call[c].job = "search"
  BY <1>1, <1>3, RequestAssumption DEF RequestsOf, A, G
<1>4. CASE call[c].job = "publish"
  BY <1>1, <1>4, RequestAssumption DEF RequestsOf, A
<1>5. CASE call[c].job = "head"
  BY <1>1, <1>5, RequestAssumption DEF RequestsOf, A
<1>6. CASE call[c].job = "purge"
  BY <1>1, <1>6, RequestAssumption DEF RequestsOf, A
<1>7. CASE call[c].job = "receipt"
  BY <1>1, <1>7, RequestAssumption DEF RequestsOf, A
<1>8. CASE call[c].job = "v1-purge"
  BY <1>1, <1>8, SemanticAssumption DEF RequestsOf, A
<1>9. QED
  BY <1>2, <1>3, <1>4, <1>5, <1>6, <1>7, <1>8 DEF CacheJobs

\* The same of the request a report answers.
LEMMA ReportTypes ==
    ASSUME NEW c \in Clients, CallOK(c)
    PROVE  LET o == call[c].outcome
           IN  /\ o.job \in CacheJobs \cup {"v1-purge"} => o.request.authority \in Authorities
               /\ o.job \in {"stage", "search"} =>
                     /\ o.request.generation \in Generation
                     /\ o.request.generation.authority = o.request.authority
               /\ o.job = "publish" => o.request.number \in Numbers
<1> DEFINE o == call[c].outcome
<1>1. o.request \in RequestsOf(o.job)
  BY DEF CallOK
<1>2. CASE o.job = "stage"
  BY <1>1, <1>2, RequestAssumption DEF RequestsOf
<1>3. CASE o.job = "search"
  BY <1>1, <1>3, RequestAssumption DEF RequestsOf
<1>4. CASE o.job = "publish"
  BY <1>1, <1>4, RequestAssumption DEF RequestsOf
<1>5. CASE o.job = "head"
  BY <1>1, <1>5, RequestAssumption DEF RequestsOf
<1>6. CASE o.job = "purge"
  BY <1>1, <1>6, RequestAssumption DEF RequestsOf
<1>7. CASE o.job = "receipt"
  BY <1>1, <1>7, RequestAssumption DEF RequestsOf
<1>8. CASE o.job = "v1-purge"
  BY <1>1, <1>8, SemanticAssumption DEF RequestsOf
<1>9. QED
  BY <1>2, <1>3, <1>4, <1>5, <1>6, <1>7, <1>8 DEF CacheJobs, o

\* null is no row, no instant and no number.
LEMMA NoneApart ==
    /\ None \notin Generation
    /\ None \notin Reservation
    /\ None \notin Receipt
    /\ None \notin LegacyRow
    /\ None \notin Instants
    /\ None \notin Nat
  BY SemanticAssumption, RequestAssumption

\* A version 1 tombstone lacks what a receipt has.
LEMMA RowsApart ==
    ASSUME NEW row \in LegacyRow
    PROVE  row \notin Receipt
<1>1. DOMAIN row = {"at"}
  BY DEF LegacyRow
<1>2. ASSUME row \in Receipt
      PROVE  "head" \in DOMAIN row
  BY <1>2 DEF Receipt
<1>3. QED
  BY <1>1, <1>2

-----------------------------------------------------------------------------
(* What a step of one client leaves true for the others.                   *)

\* Reservations and tombstones stay, and after version 1 a receipt is final.
\* On version 2 a generation stays and a head moves forward unless the
\* authority is purged.
\* Only a client that may upgrade ends version 1.
Grows(c) ==
    /\ \A i \in Isolations : isolations[i] # None => isolations'[i] = isolations[i]
    /\ \A a \in Authorities : Tombstone(a) # None => Tombstone(a)' = Tombstone(a)
    /\ schema = "v1" /\ schema' # "v1" => c \in Upgraders
    /\ schema' = "v1" => schema = "v1"
    /\ schema # "v1" => \A a \in Authorities : Gone(a) => purges'[a] = purges[a]
    /\ schema = "v2" =>
          /\ schema' = "v2"
          /\ \A g \in Generation : Kept(g) => Kept(g)'
          /\ \A g \in Generation : Passed(g) => Passed(g)'
          /\ \A a \in Authorities : heads[a] # None => Gone(a)' \/ heads'[a] # None

LEMMA ReadsGrow ==
    ASSUME NEW c \in Clients, UNCHANGED tables
    PROVE  Grows(c)
  BY DEF Grows, tables, data, Tombstone, Gone, Kept, Passed

\* Generations under a number stay, or their authority is purged.
LEMMA NumberedStays ==
    ASSUME NEW c \in Clients, Grows(c), schema = "v2", generations \subseteq Generation,
           NEW a \in Authorities, NEW n, NEW S,
           Gone(a) \/ Numbered(a, n) \ S # {}
    PROVE  Gone(a)' \/ Numbered(a, n)' \ S # {}
<1>1. CASE Gone(a)
  BY <1>1 DEF Grows, Gone
<1>2. CASE Numbered(a, n) \ S # {}
  <2>1. PICK g \in generations : g.authority = a /\ g.number = n /\ g \notin S
    BY <1>2 DEF Numbered
  <2>2. Kept(g)'
    BY <2>1 DEF Grows, Kept
  <2>3. QED
    BY <2>1, <2>2 DEF Kept, Numbered, Gone
<1>3. QED
  BY <1>1, <1>2

\* What a bootstrap under way knows stays true while another client moves.
LEMMA BootstrapUndisturbed ==
    ASSUME OneUpgrader, NEW c \in Clients, NEW d \in Clients, c # d, Grows(c),
           call'[d] = call[d], BootstrapKnows(d)
    PROVE  BootstrapKnows(d)'
<1>1. /\ schema = "v1" /\ schema' # "v1" => c \in Upgraders
      /\ schema' = "v1" => schema = "v1"
      /\ \A a \in Authorities : Tombstone(a) # None => Tombstone(a)' = Tombstone(a)
  BY DEF Grows
<1>2. ~(c \in Upgraders /\ d \in Upgraders)
  BY DEF OneUpgrader
<1>3. ASSUME NEW s \in Page, \A a \in DOMAIN s : Tombstone(a) = s[a]
      PROVE  \A a \in DOMAIN s : Tombstone(a)' = s[a]
  <2>1. PICK P \in SUBSET Authorities : s \in [P -> Instants]
    BY DEF Page
  <2>2. SUFFICES ASSUME NEW a \in DOMAIN s
                 PROVE  Tombstone(a)' = s[a]
    OBVIOUS
  <2>3. a \in Authorities /\ s[a] \in Instants /\ Tombstone(a) = s[a]
    BY <2>1, <1>3
  <2>4. QED
    BY <2>3, <1>1, NoneApart
<1> DEFINE seen == call[d].seen
<1>4. At(d, "bootstrap", "materialize") =>
          seen \in Page /\ \A a \in DOMAIN seen : Tombstone(a)' = seen[a]
  <2>1. At(d, "bootstrap", "materialize") =>
            seen \in Page /\ \A a \in DOMAIN seen : Tombstone(a) = seen[a]
    BY DEF BootstrapKnows
  <2> HIDE DEF seen
  <2>2. QED
    BY <1>3, <2>1
<1>5. QED
  BY <1>1, <1>2, <1>4 DEF BootstrapKnows, At, Step

\* Likewise a stage.
LEMMA StageUndisturbed ==
    ASSUME NEW c \in Clients, NEW d \in Clients, Grows(c), CallOK(d),
           generations \subseteq Generation,
           call'[d] = call[d], StageKnows(d), call[d].job = "stage", schema = "v2"
    PROVE  StageKnows(d)'
<1>1. G(d) \in Generation /\ A(d) \in Authorities /\ G(d).authority = A(d)
  BY RequestTypes DEF CacheJobs
<1>2. G(d).isolation \in Isolations /\ G(d).number \in Numbers
  BY <1>1 DEF Generation
<1>3. G(d)' = G(d) /\ A(d)' = A(d)
  BY DEF G, A
<1>4. \A i \in Isolations : isolations[i] # None => isolations'[i] = isolations[i]
  BY DEF Grows
<1>5. Owned(d) => Owned(d)'
  BY <1>2, <1>3, <1>4 DEF Owned
<1>6. Kept(G(d)) => Kept(G(d))'
  BY <1>1, <1>3 DEF Grows, Kept
<1>7. Gone(A(d)) \/ Numbered(A(d), G(d).number) # {} =>
          (Gone(A(d)) \/ Numbered(A(d), G(d).number) # {})'
  <2> DEFINE a == A(d)
             n == G(d).number
  <2>1. a \in Authorities /\ a' = a /\ n' = n
    BY <1>1, <1>3
  <2> HIDE DEF a, n
  <2>2. Gone(a) \/ Numbered(a, n) \ {} # {} => Gone(a)' \/ Numbered(a, n)' \ {} # {}
    BY <2>1, NumberedStays
  <2>3. Gone(a) \/ Numbered(a, n) # {} => (Gone(a) \/ Numbered(a, n) # {})'
    BY <2>1, <2>2 DEF Gone, Numbered
  <2>4. QED
    BY <2>3 DEF a, n
<1>8. Gone(A(d)) \/ Numbered(A(d), G(d).number) \ {G(d)} # {} =>
          (Gone(A(d)) \/ Numbered(A(d), G(d).number) \ {G(d)} # {})'
  <2> DEFINE a == A(d)
             g == G(d)
             n == G(d).number
  <2>1. a \in Authorities /\ a' = a /\ n' = n /\ g' = g
    BY <1>1, <1>3
  <2> HIDE DEF a, n, g
  <2>2. Gone(a) \/ Numbered(a, n) \ {g} # {} => Gone(a)' \/ Numbered(a, n)' \ {g} # {}
    BY <2>1, NumberedStays
  <2>3. Gone(a) \/ Numbered(a, n) \ {g} # {} => (Gone(a) \/ Numbered(a, n) \ {g} # {})'
    BY <2>1, <2>2 DEF Gone, Numbered
  <2>4. QED
    BY <2>3 DEF a, n, g
<1>9. (At(d, "stage", "reserved") /\ call[d].seen # None =>
          isolations[G(d).isolation] = call[d].seen)'
  BY <1>2, <1>3, <1>4 DEF StageKnows, At
<1>10. QED
  BY <1>3, <1>5, <1>6, <1>7, <1>8, <1>9 DEF StageKnows, At, Step

\* Likewise a publish, and the head it has passed.
LEMMA PublishUndisturbed ==
    ASSUME NEW c \in Clients, NEW d \in Clients, Grows(c),
           call'[d] = call[d], PublishKnows(d), call[d].job = "publish", schema = "v2"
    PROVE  PublishKnows(d)'
<1> DEFINE k == call[d]
<1>1. A(d)' = A(d) /\ k' = k
  BY DEF A
<1>2. k.step \notin {"publish-purged", "publish-generation"} =>
          /\ k.seen \in Generation /\ Kept(k.seen)
          /\ k.seen.authority = A(d) /\ k.seen.number = k.request.number
  BY DEF PublishKnows
<1>3. k.seen \in Generation /\ Kept(k.seen) => Kept(k.seen)'
  BY <1>1 DEF Grows, Kept
<1>4. k.seen \in Generation /\ Passed(k.seen) => Passed(k.seen)'
  BY <1>1 DEF Grows, Passed
<1>5. QED
  BY <1>1, <1>2, <1>3, <1>4 DEF PublishKnows, At, Step

\* Likewise a search: the pages it has read are those of the whole generation
\* unless the authority is purged.
LEMMA SearchUndisturbed ==
    ASSUME NEW c \in Clients, NEW d \in Clients, Grows(c), CallOK(d),
           call'[d] = call[d], SearchKnows(d), call[d].job = "search", schema = "v2"
    PROVE  SearchKnows(d)'
<1> DEFINE k == call[d]
<1>1. A(d) \in Authorities /\ G(d) \in Generation
  BY RequestTypes DEF CacheJobs
<1>2. A(d)' = A(d) /\ G(d)' = G(d) /\ k' = k
  BY DEF A, G
<1>3. Kept(G(d)) => Kept(G(d))'
  BY <1>1, <1>2 DEF Grows, Kept
<1>4. Gone(A(d)) => Gone(A(d))'
  BY <1>1, <1>2 DEF Grows, Gone
<1>5. QED
  BY <1>2, <1>3, <1>4 DEF SearchKnows, At, Step, First, Rank

\* Likewise a read of the published head.
LEMMA HeadUndisturbed ==
    ASSUME NEW c \in Clients, NEW d \in Clients, Grows(c), CallOK(d),
           call'[d] = call[d], HeadKnows(d), call[d].job = "head", schema = "v2"
    PROVE  HeadKnows(d)'
<1> DEFINE k == call[d]
<1>1. A(d) \in Authorities
  BY RequestTypes DEF CacheJobs
<1>2. A(d)' = A(d) /\ k' = k
  BY DEF A
<1>3. k.seen \in Generation /\ Kept(k.seen) => Kept(k.seen)'
  BY <1>1, <1>2 DEF Grows, Kept
<1>4. Gone(A(d)) => Gone(A(d))'
  BY <1>1, <1>2 DEF Grows, Gone
<1>5. heads[A(d)] # None => Gone(A(d))' \/ (heads[A(d)] # None)'
  BY <1>1, <1>2 DEF Grows, Gone
<1>6. QED
  BY <1>2, <1>3, <1>4, <1>5 DEF HeadKnows, At, Step

\* Everything a call under way knows stays true while another client moves.
LEMMA CallsUndisturbed ==
    ASSUME OneUpgrader, NEW c \in Clients, NEW d \in Clients, c # d, Grows(c), CallOK(d),
           generations \subseteq Generation, call'[d] = call[d], Knows(d)
    PROVE  Knows(d)'
<1>1. BootstrapKnows(d)'
  BY BootstrapUndisturbed DEF Knows
<1>2. call[d].job \in CacheJobs => schema = "v2" /\ schema' = "v2"
  BY DEF Knows, Grows
<1>3. StageKnows(d)'
  BY <1>2, StageUndisturbed DEF Knows, StageKnows, At, Step, CacheJobs
<1>4. PublishKnows(d)'
  BY <1>2, PublishUndisturbed DEF Knows, PublishKnows, At, Step, CacheJobs
<1>5. SearchKnows(d)'
  BY <1>2, SearchUndisturbed DEF Knows, SearchKnows, At, Step, CacheJobs
<1>6. HeadKnows(d)'
  BY <1>2, HeadUndisturbed DEF Knows, HeadKnows, At, Step, CacheJobs
<1>7. PurgeKnows(d)'
  <2>1. SUFFICES ASSUME call[d].job \in {"purge", "receipt"}, Step(d) = "residual"
                 PROVE  (Gone(A(d)) /\ purges[A(d)] = call[d].seen)'
    BY DEF PurgeKnows, Step
  <2>2. A(d) \in Authorities /\ A(d)' = A(d)
    BY <2>1, RequestTypes DEF CacheJobs, A
  <2>3. Gone(A(d)) /\ purges[A(d)] = call[d].seen /\ schema = "v2"
    BY <1>2, <2>1 DEF Knows, PurgeKnows, CacheJobs
  <2>4. purges'[A(d)] = purges[A(d)]
    BY <2>2, <2>3 DEF Grows
  <2>5. QED
    BY <2>2, <2>3, <2>4 DEF Gone
<1>8. QED
  BY <1>1, <1>2, <1>3, <1>4, <1>5, <1>6, <1>7 DEF Knows

\* What an ended call reported stays true while another client moves, and
\* while its own client does as long as the outcome is kept.
LEMMA ReportsUndisturbed ==
    ASSUME NEW c \in Clients, NEW d \in Clients, Grows(c), CallOK(d),
           generations \subseteq Generation, Stands(d),
           call'[d].outcome = call[d].outcome
    PROVE  Stands(d)'
<1> DEFINE o == call[d].outcome
<1>1. o' = o
  OBVIOUS
<1>2. /\ o.job \in CacheJobs \cup {"v1-purge"} => o.request.authority \in Authorities
      /\ o.job \in {"stage", "search"} =>
            /\ o.request.generation \in Generation
            /\ o.request.generation.authority = o.request.authority
      /\ o.job = "publish" => o.request.number \in Numbers
  BY ReportTypes
<1>3. /\ o.job \in CacheJobs => schema = "v2"
      /\ o.job = "stage" /\ o.result = "ok" => o.value = o.request.generation /\ Kept(o.value)
      /\ o.job = "publish" /\ o.result \in {"ok", "unchanged"} =>
            /\ o.value \in Generation /\ o.value.authority = o.request.authority
            /\ o.value.number = o.request.number /\ Passed(o.value)
      /\ o.job = "search" /\ o.result = "ok" => o.value = Chunks[o.request.generation.content]
      /\ o.job = "v1-purge" /\ o.result = "ok" =>
            o.value # None /\ Tombstone(o.request.authority) = o.value
      /\ o.job \in {"purge", "receipt"} /\ o.result = "ok" =>
            o.value # None /\ purges[o.request.authority] = o.value
      /\ o.result = "integrity" =>
            /\ o.job \in CacheJobs
            /\ \/ Gone(o.request.authority)
               \/ /\ o.job = "stage"
                  /\ Numbered(o.request.authority, o.request.generation.number)
                        \ {o.request.generation} # {}
  BY DEF Stands
<1>4. \A g \in Generation : g' = g
  OBVIOUS
<1> HIDE DEF o
<1>5. o.job \in CacheJobs => schema' = "v2"
  BY <1>3 DEF Grows
<1>6. o.job = "stage" /\ o.result = "ok" => Kept(o.value)'
  BY <1>1, <1>2, <1>3 DEF Grows, Kept, CacheJobs
<1>7. o.job = "publish" /\ o.result \in {"ok", "unchanged"} => Passed(o.value)'
  BY <1>1, <1>3 DEF Grows, Passed, CacheJobs
<1>8. o.job = "v1-purge" /\ o.result = "ok" => (Tombstone(o.request.authority) = o.value)'
  BY <1>1, <1>2, <1>3 DEF Grows, Tombstone
<1>9. o.job \in {"purge", "receipt"} /\ o.result = "ok" =>
          (purges[o.request.authority] = o.value)'
  BY <1>1, <1>2, <1>3 DEF Grows, Gone, CacheJobs
<1>10. o.result = "integrity" =>
          \/ Gone(o.request.authority)'
          \/ /\ o.job = "stage"
             /\ (Numbered(o.request.authority, o.request.generation.number)
                    \ {o.request.generation} # {})'
  <2>1. ASSUME Gone(o.request.authority), o.job \in CacheJobs
        PROVE  Gone(o.request.authority)'
    BY <1>1, <1>2, <1>3, <2>1 DEF Grows, Gone
  <2>2. ASSUME o.job = "stage",
               Numbered(o.request.authority, o.request.generation.number)
                  \ {o.request.generation} # {}
        PROVE  \/ Gone(o.request.authority)'
               \/ (Numbered(o.request.authority, o.request.generation.number)
                      \ {o.request.generation} # {})'
    <3> DEFINE a == o.request.authority
               n == o.request.generation.number
               S == {o.request.generation}
    <3>1. a \in Authorities
      BY <1>2, <2>2 DEF CacheJobs
    <3>2. schema = "v2"
      <4>1. o.job \in CacheJobs
        BY <2>2 DEF CacheJobs
      <4>2. QED
        BY <1>3, <4>1
    <3>3. Numbered(a, n) \ S # {}
      BY <2>2
    <3>4. a' = a /\ n' = n /\ S' = S
      BY <1>1
    <3> HIDE DEF a, n, S
    <3>5. Gone(a)' \/ Numbered(a, n)' \ S # {}
      BY <3>1, <3>2, <3>3, <3>4, NumberedStays
    <3>6. Gone(a)' \/ (Numbered(a, n) \ S # {})'
      BY <3>4, <3>5 DEF Numbered
    <3>7. QED
      BY <3>4, <3>6 DEF a, n, S
  <2>3. QED
    BY <1>3, <2>1, <2>2
<1>11. QED
  BY <1>1, <1>3, <1>5, <1>6, <1>7, <1>8, <1>9, <1>10 DEF Stands, o

-----------------------------------------------------------------------------
(* How a step leaves the call of its client.                               *)

\* The invariant survives a step that the others do not notice, when the call
\* of its client knows and reports what it should and claims nothing new that
\* another client has claimed.
LEMMA Advance ==
    ASSUME OneUpgrader, CacheInvariant, NEW c \in Clients, Grows(c), TablesSound',
           call' \in [Clients -> CallRecord],
           \A d \in Clients \ {c} : call'[d] = call[d],
           CallOK(c)', Knows(c)', Stands(c)',
           \A g \in Generation :
               Claims(c, g)' => Claims(c, g) \/ (\A d \in Clients \ {c} : ~Claims(d, g))
    PROVE  CacheInvariant'
<1>1. /\ \A d \in Clients : CallOK(d) /\ Knows(d) /\ Stands(d)
      /\ ClaimsDiffer
      /\ generations \subseteq Generation
  BY DEF CacheInvariant, TablesSound, CacheSound, UpgradeTypeOK
<1>2. ASSUME NEW d \in Clients
      PROVE  (CallOK(d) /\ Knows(d) /\ Stands(d))'
  <2>1. CASE d = c
    BY <2>1
  <2>2. CASE d # c
    <3>1. call'[d] = call[d]
      BY <2>2
    <3>2. CallOK(d)'
      BY <1>1, <3>1 DEF CallOK
    <3>3. Knows(d)'
      BY <1>1, <2>2, <3>1, CallsUndisturbed
    <3>4. Stands(d)'
      BY <1>1, <3>1, ReportsUndisturbed
    <3>5. QED
      BY <3>2, <3>3, <3>4
  <2>3. QED
    BY <2>1, <2>2
<1>3. \A d \in Clients \ {c}, g \in Generation : Claims(d, g)' <=> Claims(d, g)
  BY DEF Claims, Step
<1>4. \A d, e \in Clients : d # e => \A g \in Generation : ~(Claims(d, g)' /\ Claims(e, g)')
  <2>1. SUFFICES ASSUME NEW d \in Clients, NEW e \in Clients, d # e, NEW g \in Generation,
                        Claims(d, g)', Claims(e, g)'
                 PROVE  FALSE
    OBVIOUS
  <2>2. ~(Claims(d, g) /\ Claims(e, g))
    BY <1>1, <2>1 DEF ClaimsDiffer
  <2>3. CASE d = c
    BY <1>3, <2>1, <2>2, <2>3
  <2>4. CASE e = c
    BY <1>3, <2>1, <2>2, <2>4
  <2>5. CASE d # c /\ e # c
    BY <1>3, <2>1, <2>2, <2>5
  <2>6. QED
    BY <2>3, <2>4, <2>5
<1>5. ClaimsDiffer'
  BY <1>4 DEF ClaimsDiffer
<1>6. QED
  BY <1>2, <1>5 DEF CacheInvariant

\* A step that only reads changes nothing for the others.
LEMMA ReadsSound ==
    ASSUME CacheInvariant, NEW c \in Clients, Reads
    PROVE  Grows(c) /\ TablesSound'
<1>1. UNCHANGED <<schema, transition, isolations, generations, memberships, vectors, heads,
                  purges, opened>>
  BY DEF Reads, tables, data
<1>2. Grows(c)
  BY ReadsGrow DEF Reads
<1>3. TablesSound /\ (TablesSound => TablesSound')
  <2>1. CacheSound => CacheSound'
    <3>1. UpgradeTypeOK => UpgradeTypeOK'
      BY <1>1 DEF UpgradeTypeOK, Pending
    <3>2. \A g : Whole(g) => Whole(g)'
      BY <1>1 DEF Whole, MembershipsOf
    <3>3. \A a : Residual(a)' => Residual(a)
      BY <1>1 DEF Residual
    <3>4. QED
      BY <1>1, <3>1, <3>2, <3>3 DEF CacheSound
  <2>2. SchemaSound => SchemaSound'
    BY <1>1 DEF SchemaSound
  <2>3. Finite => Finite'
    BY <1>1 DEF Finite
  <2>4. QED
    BY <2>1, <2>2, <2>3 DEF TablesSound, CacheInvariant
<1>4. QED
  BY <1>2, <1>3

\* What a step makes of the record of its call.
LEMMA GoMakes ==
    ASSUME call \in [Clients -> CallRecord], NEW c \in Clients, NEW step \in StepsOf(call[c].job), Go(c, step)
    PROVE  /\ call' \in [Clients -> CallRecord]
           /\ \A d \in Clients \ {c} : call'[d] = call[d]
           /\ call'[c] = [call[c] EXCEPT !.step = step]
<1>1. step \in Steps
  BY DEF Steps, CallRecord
<1>2. [call[c] EXCEPT !.step = step] \in CallRecord
  BY <1>1 DEF CallRecord
<1>3. QED
  BY <1>2 DEF Go

LEMMA SeeMakes ==
    ASSUME call \in [Clients -> CallRecord], NEW c \in Clients, NEW step \in StepsOf(call[c].job),
           NEW seen \in Seen, See(c, step, seen)
    PROVE  /\ call' \in [Clients -> CallRecord]
           /\ \A d \in Clients \ {c} : call'[d] = call[d]
           /\ call'[c] = [call[c] EXCEPT !.step = step, !.seen = seen]
<1>1. step \in Steps
  BY DEF Steps, CallRecord
<1>2. [call[c] EXCEPT !.step = step, !.seen = seen] \in CallRecord
  BY <1>1 DEF CallRecord
<1>3. QED
  BY <1>2 DEF See

LEMMA EnterMakes ==
    ASSUME call \in [Clients -> CallRecord], NEW c \in Clients, NEW step \in StepsOf(call[c].job),
           NEW within \in {"call", "start", "resume", "finish", "recover"},
           Enter(c, step, within)
    PROVE  /\ call' \in [Clients -> CallRecord]
           /\ \A d \in Clients \ {c} : call'[d] = call[d]
           /\ call'[c] = [call[c] EXCEPT !.step = step, !.within = within]
<1>1. step \in Steps
  BY DEF Steps, CallRecord
<1>2. [call[c] EXCEPT !.step = step, !.within = within] \in CallRecord
  BY <1>1 DEF CallRecord
<1>3. QED
  BY <1>2 DEF Enter

\* An idle client keeps the outcome of its last call.
LEMMA EndMakes ==
    ASSUME call \in [Clients -> CallRecord], NEW c \in Clients, CallOK(c),
           NEW result \in Results, NEW value \in Reportable, End(c, result, value)
    PROVE  /\ call' \in [Clients -> CallRecord]
           /\ \A d \in Clients \ {c} : call'[d] = call[d]
           /\ call'[c] = Idle(Outcome(call[c].job, call[c].request, result, value))
           /\ CallOK(c)' /\ Knows(c)'
           /\ call'[c].job = "none"
           /\ call'[c].outcome = Outcome(call[c].job, call[c].request, result, value)
<1> DEFINE o == Outcome(call[c].job, call[c].request, result, value)
<1>1. call[c].job \in Jobs /\ call[c].request \in Requests
  BY DEF CallRecord
<1>2. o \in Report
  <2>1. "none" \in Jobs /\ None \in Requests /\ None \in Reportable
    BY DEF Jobs, Requests, Reportable
  <2>2. QED
    BY <1>1, <2>1 DEF Report, Outcome
<1>3. o.request \in RequestsOf(o.job)
  <2>1. call[c].request \in RequestsOf(call[c].job)
    BY DEF CallOK
  <2>2. None \in RequestsOf("none")
    BY DEF RequestsOf
  <2>3. CASE result \in {"ok", "unchanged", "integrity", "refused"}
    <3>1. o.request = call[c].request /\ o.job = call[c].job
      BY <2>3 DEF Outcome
    <3>2. QED
      BY <2>1, <3>1
  <2>4. CASE result \notin {"ok", "unchanged", "integrity", "refused"}
    <3>1. o.request = None /\ o.job = "none"
      BY <2>4 DEF Outcome
    <3>2. QED
      BY <2>2, <3>1
  <2>5. QED
    BY <2>3, <2>4
<1> HIDE DEF o
<1>4. Idle(o) \in CallRecord
  <2>1. "none" \in Jobs /\ None \in Requests /\ None \in Seen /\ {} \in SUBSET Nat
    BY DEF Jobs, Requests, Seen
  <2>2. "idle" \in Steps
    BY <2>1 DEF Steps, StepsOf
  <2>3. QED
    BY <1>2, <2>1, <2>2 DEF Idle, CallRecord
<1>5. call' = [call EXCEPT ![c] = Idle(o)]
  BY DEF End, o
<1>6. /\ call'[c] = Idle(o)
      /\ call' \in [Clients -> CallRecord]
      /\ \A d \in Clients \ {c} : call'[d] = call[d]
  BY <1>4, <1>5
<1>7. /\ call'[c].job = "none" /\ call'[c].step = "idle" /\ call'[c].request = None
      /\ call'[c].within = "call" /\ call'[c].outcome = o
  BY <1>6 DEF Idle
<1>8. CallOK(c)'
  BY <1>3, <1>7 DEF CallOK, StepsOf, RequestsOf
<1>9. Knows(c)'
  BY <1>7 DEF Knows, BootstrapKnows, StageKnows, PublishKnows, SearchKnows, HeadKnows,
              PurgeKnows, At, Step, CacheJobs
<1>10. QED
  BY <1>6, <1>7, <1>8, <1>9 DEF o

\* A call that goes on keeps what it reports, which is nothing.
LEMMA GoesOn ==
    ASSUME OneUpgrader, CacheInvariant, NEW c \in Clients, Grows(c), TablesSound',
           call' \in [Clients -> CallRecord],
           \A d \in Clients \ {c} : call'[d] = call[d],
           call'[c].job = call[c].job, call'[c].request = call[c].request,
           call'[c].outcome = call[c].outcome, call'[c].step \in StepsOf(call[c].job),
           call[c].job = "bootstrap" \/ call'[c].within = call[c].within,
           call[c].job # "publish" \/ call'[c].step \notin {"publish-after", "published"}
             \/ \A g \in Generation : Claims(c, g)' => Claims(c, g),
           Knows(c)'
    PROVE  CacheInvariant'
<1>1. CallOK(c) /\ Stands(c) /\ generations \subseteq Generation
  BY DEF CacheInvariant, TablesSound, CacheSound, UpgradeTypeOK
<1>2. CallOK(c)'
  BY <1>1 DEF CallOK
<1>3. Stands(c)'
  BY <1>1, ReportsUndisturbed
<1>4. \A g \in Generation : Claims(c, g)' => Claims(c, g)
  BY DEF Claims, Step
<1>5. QED
  BY <1>2, <1>3, <1>4, Advance

\* A call may end with what stands.
LEMMA EndsWell ==
    ASSUME OneUpgrader, CacheInvariant, NEW c \in Clients, Grows(c), TablesSound',
           NEW result \in Results, NEW value \in Reportable, End(c, result, value),
           Stands(c)',
           call[c].job # "publish" \/ result # "ok" \/ Claims(c, value)
    PROVE  CacheInvariant'
<1>1. call \in [Clients -> CallRecord] /\ CallOK(c)
  BY DEF CacheInvariant
<1>2. /\ call' \in [Clients -> CallRecord]
      /\ \A d \in Clients \ {c} : call'[d] = call[d]
      /\ CallOK(c)' /\ Knows(c)'
      /\ call'[c].job = "none"
      /\ call'[c].outcome = Outcome(call[c].job, call[c].request, result, value)
  BY <1>1, EndMakes
<1>3. \A g \in Generation : Claims(c, g)' => Claims(c, g)
  <2>1. SUFFICES ASSUME NEW g \in Generation, Claims(c, g)'
                 PROVE  Claims(c, g)
    OBVIOUS
  <2>2. call'[c].outcome.job = "publish" /\ call'[c].outcome.result = "ok"
          /\ call'[c].outcome.value = g
    BY <1>2, <2>1 DEF Claims, Step
  <2>3. call[c].job = "publish" /\ result = "ok" /\ value = g
    BY <1>2, <2>2 DEF Outcome
  <2>4. QED
    BY <2>3
<1>4. QED
  BY <1>2, <1>3, Advance

\* A call that gives up, refused or failed, reports nothing that must stand.
LEMMA EndsQuietly ==
    ASSUME OneUpgrader, CacheInvariant, NEW c \in Clients, Grows(c), TablesSound',
           NEW result \in {"refused", "sql", "purged", "conflict", "empty"},
           End(c, result, None)
    PROVE  CacheInvariant'
<1>1. call \in [Clients -> CallRecord] /\ CallOK(c) /\ Knows(c)
  BY DEF CacheInvariant
<1>2. result \in Results /\ None \in Reportable
  BY DEF Results, Reportable
<1>3. call'[c].outcome = Outcome(call[c].job, call[c].request, result, None)
  BY <1>1, <1>2, EndMakes
<1>4. /\ call'[c].outcome.result = result
      /\ call'[c].outcome.job \in {"none", call[c].job}
  BY <1>3 DEF Outcome
<1>5. call'[c].outcome.job \in CacheJobs => schema' = "v2"
  BY <1>1, <1>4 DEF Knows, Grows, CacheJobs
<1>6. Stands(c)'
  BY <1>4, <1>5 DEF Stands
<1>7. QED
  BY <1>2, <1>6, EndsWell

\* An SQL call fails, or its attempt is refused: the call ends, or a bootstrap
\* goes back to looking at what is there.
LEMMA Fails ==
    ASSUME OneUpgrader, CacheInvariant, NEW c \in Clients, Grows(c), TablesSound',
           NEW error \in {"sql", "refused"}, Failure(c, error), call[c].job # "none"
    PROVE  CacheInvariant'
<1> DEFINE k == call[c]
<1>1. /\ call \in [Clients -> CallRecord] /\ CallOK(c) /\ Knows(c)
      /\ k \in CallRecord
  BY DEF CacheInvariant
<1>2. CASE End(c, error, None)
  BY <1>2, EndsQuietly
<1>3. ASSUME k.job = "bootstrap", NEW r, call' = [call EXCEPT ![c] = r],
             r \in CallRecord, r.job = k.job, r.request = k.request, r.outcome = k.outcome,
             r.step \in {"inspect", "verify-transition"}
      PROVE  CacheInvariant'
  <2>1. call' \in [Clients -> CallRecord] /\ \A d \in Clients \ {c} : call'[d] = call[d]
    BY <1>1, <1>3
  <2>2. /\ call'[c].job = "bootstrap" /\ call'[c].request = call[c].request
        /\ call'[c].outcome = call[c].outcome
        /\ call'[c].step \in {"inspect", "verify-transition"}
    BY <1>1, <1>3
  <2>3. Knows(c)'
    BY <2>2 DEF Knows, BootstrapKnows, StageKnows, PublishKnows, SearchKnows, HeadKnows,
                PurgeKnows, At, Step, CacheJobs, V1Steps
  <2>4. call'[c].step \in StepsOf(call[c].job)
    BY <1>3, <2>2 DEF StepsOf, VerifySteps
  <2>5. QED
    BY <1>3, <2>1, <2>2, <2>3, <2>4, GoesOn
<1>4. CASE k.job # "bootstrap"
  <2>1. k.within = "call"
    BY <1>1, <1>4 DEF CallOK
  <2>2. End(c, error, None)
    BY <2>1 DEF Failure
  <2>3. QED
    BY <2>2, <1>2
<1>5. "inspect" \in Steps /\ "verify-transition" \in Steps
  <2>1. "bootstrap" \in Jobs
    BY DEF Jobs
  <2>2. "inspect" \in StepsOf("bootstrap") /\ "verify-transition" \in StepsOf("bootstrap")
    BY DEF StepsOf, VerifySteps
  <2>3. QED
    BY <2>1, <2>2 DEF Steps
<1>6. CASE k.job = "bootstrap"
  <2>1. CASE Go(c, "inspect")
    <3>1. call' = [call EXCEPT ![c] = [k EXCEPT !.step = "inspect"]]
      BY <1>1, <2>1 DEF Go
    <3>2. [k EXCEPT !.step = "inspect"] \in CallRecord
      BY <1>1, <1>5 DEF CallRecord
    <3> DEFINE r == [k EXCEPT !.step = "inspect"]
    <3>3. r.job = k.job /\ r.request = k.request /\ r.outcome = k.outcome /\ r.step = "inspect"
      BY <1>1 DEF CallRecord
    <3>4. QED
      BY <1>3, <1>6, <3>1, <3>2, <3>3
  <2>2. ASSUME NEW within \in {"finish", "recover"}, NEW e \in {"none", "sql", "refused"},
               call' = [call EXCEPT ![c].step = "verify-transition", ![c].within = within,
                                    ![c].error = e]
        PROVE  CacheInvariant'
    <3> DEFINE r == [k EXCEPT !.step = "verify-transition", !.within = within, !.error = e]
    <3>1. call' = [call EXCEPT ![c] = r]
      BY <1>1, <2>2
    <3>2. r \in CallRecord
      BY <1>1, <1>5 DEF CallRecord
    <3>3. r.job = k.job /\ r.request = k.request /\ r.outcome = k.outcome
            /\ r.step = "verify-transition"
      BY <1>1 DEF CallRecord
    <3>4. QED
      BY <1>3, <1>6, <3>1, <3>2, <3>3
  <2>3. CASE Enter(c, "verify-transition", "finish")
    <3>1. k.error \in {"none", "sql", "refused"}
      BY <1>1 DEF CallRecord
    <3>2. call' = [call EXCEPT ![c].step = "verify-transition", ![c].within = "finish",
                               ![c].error = k.error]
      BY <1>1, <2>3 DEF Enter, CallRecord
    <3>3. QED
      BY <2>2, <3>1, <3>2
  <2>4. CASE End(c, k.error, None) /\ k.within = "recover"
    <3>1. CASE k.error \in {"sql", "refused"}
      BY <2>4, <3>1, EndsQuietly
    <3>2. CASE k.error = "none"
      <4>1. "none" \in Results /\ None \in Reportable
        BY DEF Results, Reportable
      <4>2. End(c, "none", None)
        BY <2>4, <3>2
      <4>3. call'[c].outcome = Outcome(k.job, k.request, "none", None)
        BY <1>1, <4>1, <4>2, EndMakes
      <4>4. call'[c].outcome.result = "none" /\ call'[c].outcome.job = "none"
        BY <4>3 DEF Outcome
      <4>5. Stands(c)'
        BY <4>4 DEF Stands, CacheJobs
      <4>6. QED
        BY <1>6, <4>1, <4>2, <4>5, EndsWell
    <3>3. QED
      BY <1>1, <3>1, <3>2 DEF CallRecord
  <2>5. CASE call' = [call EXCEPT ![c].step = "verify-transition", ![c].within = "recover",
                                  ![c].error = error]
    BY <2>2, <2>5
  <2>6. QED
    BY <1>2, <2>1, <2>3, <2>4, <2>5 DEF Failure
<1>7. QED
  BY <1>4, <1>6

\* A write that leaves the tables sound is answered, or its reply is lost.
LEMMA AnsweredSound ==
    ASSUME OneUpgrader, CacheInvariant, NEW c \in Clients, Grows(c), TablesSound',
           NEW step, Answered(c, step), call[c].job # "none",
           Go(c, step) => CacheInvariant'
    PROVE  CacheInvariant'
<1>1. CASE Go(c, step)
  BY <1>1
<1>2. CASE Failure(c, "sql")
  BY <1>2, Fails
<1>3. QED
  BY <1>1, <1>2 DEF Answered

-----------------------------------------------------------------------------
(* One step of the call of a client, of which only the place and what it    *)
(* has seen change.                                                         *)

\* What a step leaves of the call.
LEMMA SeeFields ==
    ASSUME CacheInvariant, NEW c \in Clients, NEW step \in StepsOf(call[c].job),
           NEW seen \in Seen, See(c, step, seen)
    PROVE  /\ call' \in [Clients -> CallRecord]
           /\ \A d \in Clients \ {c} : call'[d] = call[d]
           /\ call'[c].step = step /\ call'[c].seen = seen
           /\ call'[c].job = call[c].job /\ call'[c].request = call[c].request
           /\ call'[c].within = call[c].within /\ call'[c].outcome = call[c].outcome
           /\ call'[c].found = call[c].found /\ call'[c].offset = call[c].offset
           /\ call'[c].count = call[c].count
           /\ A(c)' = A(c) /\ G(c)' = G(c)
<1>1. call \in [Clients -> CallRecord]
  BY DEF CacheInvariant
<1>2. /\ call' \in [Clients -> CallRecord]
      /\ \A d \in Clients \ {c} : call'[d] = call[d]
      /\ call'[c] = [call[c] EXCEPT !.step = step, !.seen = seen]
  BY <1>1, SeeMakes
<1>3. /\ call'[c].step = step /\ call'[c].seen = seen
      /\ call'[c].job = call[c].job /\ call'[c].request = call[c].request
      /\ call'[c].within = call[c].within /\ call'[c].outcome = call[c].outcome
      /\ call'[c].found = call[c].found /\ call'[c].offset = call[c].offset
      /\ call'[c].count = call[c].count
  BY <1>1, <1>2 DEF CallRecord
<1>4. QED
  BY <1>2, <1>3 DEF A, G

LEMMA GoIsSee ==
    ASSUME CacheInvariant, NEW c \in Clients, NEW step, Go(c, step)
    PROVE  call[c].seen \in Seen /\ See(c, step, call[c].seen)
  BY DEF CacheInvariant, CallRecord, Go, See

\* The invariant survives if the call knows what it should at its next step.
LEMMA SeesOn ==
    ASSUME OneUpgrader, CacheInvariant, NEW c \in Clients, Grows(c), TablesSound',
           NEW step \in StepsOf(call[c].job), NEW seen \in Seen, See(c, step, seen),
           call[c].job # "publish" \/ step \notin {"publish-after", "published"}
             \/ (Step(c) = "publish-after" /\ seen = call[c].seen),
           Knows(c)'
    PROVE  CacheInvariant'
<1>1. /\ call' \in [Clients -> CallRecord]
      /\ \A d \in Clients \ {c} : call'[d] = call[d]
      /\ call'[c].step = step /\ call'[c].seen = seen
      /\ call'[c].job = call[c].job /\ call'[c].request = call[c].request
      /\ call'[c].within = call[c].within /\ call'[c].outcome = call[c].outcome
      /\ call'[c].count = call[c].count
  BY SeeFields
<1>2. ASSUME Step(c) = "publish-after", seen = call[c].seen
      PROVE  \A g \in Generation : Claims(c, g)' => Claims(c, g)
  BY <1>1, <1>2 DEF Claims, Step
<1>3. QED
  BY <1>1, <1>2, GoesOn

\* A call that ends quietly after a read.
LEMMA ReadsAndEnds ==
    ASSUME OneUpgrader, CacheInvariant, NEW c \in Clients, Reads,
           NEW result \in {"refused", "sql", "purged", "conflict", "empty"},
           End(c, result, None)
    PROVE  CacheInvariant'
  BY ReadsSound, EndsQuietly

\* A call that asks for a tombstone ends quietly or goes on.
LEMMA UnlessPurgedKeeps ==
    ASSUME OneUpgrader, CacheInvariant, NEW c \in Clients,
           NEW result \in {"purged", "empty"}, NEW next, UnlessPurged(c, result, next),
           Go(c, next) /\ Reads => CacheInvariant'
    PROVE  CacheInvariant'
<1>1. CASE Purged(c)
  BY <1>1, ReadsAndEnds DEF UnlessPurged
<1>2. CASE ~Purged(c)
  BY <1>2 DEF UnlessPurged
<1>3. QED
  BY <1>1, <1>2

\* The steps of a stage that only read.
LEMMA StageReads ==
    ASSUME OneUpgrader, CacheInvariant, NEW c \in Clients, Reads, call[c].job = "stage",
           NEW step \in StepsOf("stage"), NEW seen \in Seen, See(c, step, seen),
           step = "reserved" /\ seen # None => isolations[G(c).isolation] = seen,
           step \in {"purged-again", "stage-generation", "embed", "stage-batch"} => Owned(c),
           step = "stage-vectors" => Gone(A(c)) \/ Numbered(A(c), G(c).number) # {},
           step = "vectors-gone" => Gone(A(c)) \/ Numbered(A(c), G(c).number) \ {G(c)} # {},
           step = "staged-purged" /\ seen = G(c) => Kept(G(c)),
           step = "staged-members" => Kept(G(c))
    PROVE  CacheInvariant'
<1>1. /\ call'[c].step = step /\ call'[c].seen = seen
      /\ call'[c].job = "stage"
      /\ A(c)' = A(c) /\ G(c)' = G(c)
  BY SeeFields
<1>2. UNCHANGED <<schema, isolations, generations, purges>> /\ schema = "v2"
  BY DEF Reads, tables, data, CacheInvariant, Knows, CacheJobs
<1>3. Knows(c)'
  <2>1. StageKnows(c)'
    BY <1>1, <1>2 DEF StageKnows, At, Step, Owned, Gone, Kept, Numbered
  <2>2. QED
    BY <1>1, <1>2, <2>1 DEF Knows, BootstrapKnows, PublishKnows, SearchKnows, HeadKnows,
                            PurgeKnows, At, Step
<1>4. QED
  BY <1>1, <1>3, ReadsSound, SeesOn

\* The steps of a publish that only read.
LEMMA PublishReads ==
    ASSUME OneUpgrader, CacheInvariant, NEW c \in Clients, Reads, call[c].job = "publish",
           NEW step \in StepsOf("publish"), NEW seen \in Seen, See(c, step, seen),
           step \notin {"publish-purged", "publish-generation"} =>
              /\ seen \in Generation /\ Kept(seen)
              /\ seen.authority = A(c) /\ seen.number = call[c].request.number,
           step = "publish-swap" /\ call[c].request.expected # None =>
              call[c].request.expected < call[c].request.number,
           step \in {"publish-after", "published"} =>
              /\ Step(c) = "publish-after" /\ seen = call[c].seen
              /\ call[c].count > 0 => Passed(seen)
    PROVE  CacheInvariant'
<1>1. /\ call'[c].step = step /\ call'[c].seen = seen
      /\ call'[c].job = "publish" /\ call'[c].request = call[c].request
      /\ call'[c].count = call[c].count /\ A(c)' = A(c)
  BY SeeFields
<1>2. UNCHANGED <<schema, generations, heads, purges>> /\ schema = "v2"
  BY DEF Reads, tables, data, CacheInvariant, Knows, CacheJobs
<1>3. Knows(c)'
  <2>1. PublishKnows(c)'
    BY <1>1, <1>2 DEF PublishKnows, At, Step, Gone, Kept, Passed
  <2>2. QED
    BY <1>1, <1>2, <2>1 DEF Knows, BootstrapKnows, StageKnows, SearchKnows, HeadKnows,
                            PurgeKnows, At, Step
<1>4. QED
  BY <1>1, <1>3, ReadsSound, SeesOn

\* The steps of a search but for its pages.
LEMMA SearchReads ==
    ASSUME OneUpgrader, CacheInvariant, NEW c \in Clients, Reads, call[c].job = "search",
           NEW step \in StepsOf("search"), NEW seen \in Seen, See(c, step, seen),
           step \notin {"search-purged", "search-head"} => seen = G(c) /\ Kept(G(c)),
           step \in {"search-purged", "search-head", "search-generation", "search-embed"} =>
              call[c].found = {} /\ call[c].offset = 0 /\ call[c].count = 0,
           step = "scan" =>
              \/ Gone(A(c))
              \/ /\ call[c].found = First(Chunks[G(c).content], call[c].offset)
                 /\ call[c].count = Cardinality(call[c].found),
           step \in {"search-again", "search-last"} =>
              Gone(A(c)) \/ call[c].found = Chunks[G(c).content]
    PROVE  CacheInvariant'
<1>1. /\ call'[c].step = step /\ call'[c].seen = seen
      /\ call'[c].job = "search" /\ call'[c].found = call[c].found
      /\ call'[c].offset = call[c].offset /\ call'[c].count = call[c].count
      /\ A(c)' = A(c) /\ G(c)' = G(c)
  BY SeeFields
<1>2. UNCHANGED <<schema, generations, purges>> /\ schema = "v2"
  BY DEF Reads, tables, data, CacheInvariant, Knows, CacheJobs
<1>3. Knows(c)'
  <2>1. SearchKnows(c)'
    BY <1>1, <1>2 DEF SearchKnows, At, Gone, Kept, First, Rank
  <2>2. QED
    BY <1>1, <1>2, <2>1 DEF Knows, BootstrapKnows, StageKnows, PublishKnows, HeadKnows,
                            PurgeKnows, At, Step
<1>4. QED
  BY <1>1, <1>3, ReadsSound, SeesOn

\* The steps of a read of the published head.
LEMMA HeadReadsOn ==
    ASSUME OneUpgrader, CacheInvariant, NEW c \in Clients, Reads, call[c].job = "head",
           NEW step \in StepsOf("head"), NEW seen \in Seen, See(c, step, seen),
           step \in {"head-generation", "head-purged-again", "head-again"} =>
              /\ seen \in Generation /\ seen.authority = A(c) /\ Kept(seen)
              /\ Gone(A(c)) \/ heads[A(c)] # None,
           step = "head-gone" => Gone(A(c))
    PROVE  CacheInvariant'
<1>1. /\ call'[c].step = step /\ call'[c].seen = seen
      /\ call'[c].job = "head" /\ A(c)' = A(c)
  BY SeeFields
<1>2. UNCHANGED <<schema, generations, heads, purges>> /\ schema = "v2"
  BY DEF Reads, tables, data, CacheInvariant, Knows, CacheJobs
<1>3. Knows(c)'
  <2>1. HeadKnows(c)'
    BY <1>1, <1>2 DEF HeadKnows, At, Gone, Kept
  <2>2. QED
    BY <1>1, <1>2, <2>1 DEF Knows, BootstrapKnows, StageKnows, PublishKnows, SearchKnows,
                            PurgeKnows, At, Step
<1>4. QED
  BY <1>1, <1>3, ReadsSound, SeesOn

\* The steps of a purge and of a request for its receipt that only read.
LEMMA PurgeReads ==
    ASSUME OneUpgrader, CacheInvariant, NEW c \in Clients, Reads,
           call[c].job \in {"purge", "receipt"},
           NEW step \in StepsOf(call[c].job), NEW seen \in Seen, See(c, step, seen),
           step = "residual" => Gone(A(c)) /\ purges[A(c)] = seen
    PROVE  CacheInvariant'
<1>1. /\ call'[c].step = step /\ call'[c].seen = seen
      /\ call'[c].job = call[c].job /\ A(c)' = A(c)
  BY SeeFields
<1>2. UNCHANGED <<schema, purges>> /\ schema = "v2"
  BY DEF Reads, tables, data, CacheInvariant, Knows, CacheJobs
<1>3. Knows(c)'
  <2>1. PurgeKnows(c)'
    BY <1>1, <1>2 DEF PurgeKnows, Step, Gone
  <2>2. QED
    BY <1>1, <1>2, <2>1 DEF Knows, BootstrapKnows, StageKnows, PublishKnows, SearchKnows,
                            HeadKnows, At, Step
<1>4. QED
  BY <1>1, <1>3, ReadsSound, SeesOn

-----------------------------------------------------------------------------
(* Reads of the tables.                                                    *)

LEMMA Facts ==
    ASSUME CacheInvariant, NEW c \in Clients
    PROVE  /\ call[c] \in CallRecord /\ CallOK(c) /\ Knows(c) /\ Stands(c)
           /\ call[c].job \in Jobs /\ call[c].seen \in Seen
           /\ call[c].step \in StepsOf(call[c].job)
           /\ generations \subseteq Generation
           /\ TablesSound /\ CacheSound /\ UpgradeTypeOK /\ SchemaSound
<1>1. call[c] \in CallRecord /\ CallOK(c) /\ Knows(c) /\ Stands(c) /\ TablesSound
  BY DEF CacheInvariant
<1>2. CacheSound /\ SchemaSound /\ UpgradeTypeOK
  BY <1>1 DEF TablesSound, CacheSound
<1>3. QED
  BY <1>1, <1>2 DEF CallRecord, CallOK, UpgradeTypeOK

\* Whose steps the steps without a job are.
LEMMA SharedSteps ==
    ASSUME CacheInvariant, NEW c \in Clients
    PROVE  /\ Step(c) \in {"reserve", "owner", "reserved"} => call[c].job \in {"stage", "purge"}
           /\ Step(c) = "residual" => call[c].job \in {"purge", "receipt"}
           /\ Step(c) \in VerifySteps => call[c].job \in {"open", "bootstrap"}
           /\ Step(c) \in V1Steps \cup {"inventory", "create", "inspect", "transition-objects",
                 "transition-marker", "inventory-again", "page", "materialize", "remaining",
                 "finish"} => call[c].job = "bootstrap"
           /\ Step(c) \in {"v1-before", "v1-batch", "v1-after"} => call[c].job = "v1-purge"
           /\ Step(c) = "idle" => call[c].job = "none"
<1>1. call[c].job \in Jobs /\ Step(c) \in StepsOf(call[c].job)
  BY Facts DEF Step
<1> DEFINE job == call[c].job
           step == Step(c)
<1> HIDE DEF job, step
<1>2. /\ step \in {"reserve", "owner", "reserved"} => job \in {"stage", "purge"}
      /\ step = "residual" => job \in {"purge", "receipt"}
      /\ step \in VerifySteps => job \in {"open", "bootstrap"}
      /\ step \in V1Steps \cup {"inventory", "create", "inspect", "transition-objects",
                 "transition-marker", "inventory-again", "page", "materialize", "remaining",
                 "finish"} => job = "bootstrap"
      /\ step \in {"v1-before", "v1-batch", "v1-after"} => job = "v1-purge"
      /\ step = "idle" => job = "none"
  <2>1. job \in Jobs /\ step \in StepsOf(job)
    BY <1>1 DEF job, step
  <2>2. CASE job \in CacheJobs
    BY <2>1, <2>2 DEF StepsOf, CacheJobs, VerifySteps, V1Steps
  <2>3. CASE job \notin CacheJobs
    BY <2>1, <2>3 DEF StepsOf, Jobs, VerifySteps, V1Steps
  <2>4. QED
    BY <2>2, <2>3
<1>3. QED
  BY <1>2 DEF job, step

\* readGeneration finds the generation that has the number, if there is one.
LEMMA StoredFacts ==
    ASSUME CacheInvariant, NEW a, NEW n
    PROVE  /\ Stored(a, n) = None <=> Numbered(a, n) = {}
           /\ Stored(a, n) # None =>
                 /\ Stored(a, n) \in Generation /\ Stored(a, n) \in Numbered(a, n)
                 /\ Stored(a, n).authority = a /\ Stored(a, n).number = n
           /\ \A g \in Numbered(a, n) : g = Stored(a, n)
<1>1. /\ generations \subseteq Generation /\ None \notin Generation
      /\ \A g, h \in generations : h.authority = g.authority /\ h.number = g.number => h = g
  BY NoneApart DEF CacheInvariant, TablesSound, CacheSound, UpgradeTypeOK
<1>2. CASE \E g \in generations : g.authority = a /\ g.number = n
  <2>1. /\ Stored(a, n) \in generations
        /\ Stored(a, n).authority = a /\ Stored(a, n).number = n
    BY <1>2 DEF Stored
  <2>2. QED
    BY <1>1, <2>1 DEF Numbered
<1>3. CASE ~ \E g \in generations : g.authority = a /\ g.number = n
  BY <1>3 DEF Stored, Numbered
<1>4. QED
  BY <1>2, <1>3

LEMMA StoredIs ==
    ASSUME CacheInvariant, NEW g \in generations
    PROVE  Stored(g.authority, g.number) = g
  BY StoredFacts DEF Numbered

\* What is stored is whole, with its vectors, or was purged.
LEMMA KeptIsWhole ==
    ASSUME CacheInvariant, NEW g \in Generation, Kept(g), ~Gone(g.authority)
    PROVE  /\ g \in generations /\ Whole(g)
           /\ {g.isolation} \X Chunks[g.content] \subseteq vectors
  BY DEF Kept, CacheInvariant, TablesSound, CacheSound

-----------------------------------------------------------------------------
(* stage.                                                                  *)

LEMMA StagePurgedKeeps ==
    ASSUME OneUpgrader, CacheInvariant, NEW c \in Clients, StagePurged(c)
    PROVE  CacheInvariant'
<1>1. CASE At(c, "stage", "stage-purged") /\ UnlessPurged(c, "purged", "reserve")
  <2>1. "reserve" \in StepsOf("stage")
    BY DEF StepsOf
  <2>2. Go(c, "reserve") /\ Reads => CacheInvariant'
    BY <1>1, <2>1, GoIsSee, StageReads DEF At
  <2>3. QED
    BY <1>1, <2>2, UnlessPurgedKeeps
<1>2. CASE At(c, "stage", "purged-again") /\ UnlessPurged(c, "purged", "stage-generation")
  <2>1. "stage-generation" \in StepsOf("stage")
    BY DEF StepsOf
  <2>2. Owned(c)
    BY <1>2, Facts DEF Knows, StageKnows, At, Step
  <2>3. Go(c, "stage-generation") /\ Reads => CacheInvariant'
    BY <1>2, <2>1, <2>2, GoIsSee, StageReads DEF At
  <2>4. QED
    BY <1>2, <2>3, UnlessPurgedKeeps
<1>3. QED
  BY <1>1, <1>2 DEF StagePurged

LEMMA StageGenerationKeeps ==
    ASSUME OneUpgrader, CacheInvariant, NEW c \in Clients, StageGeneration(c)
    PROVE  CacheInvariant'
<1>1. At(c, "stage", "stage-generation") /\ Reads
  BY DEF StageGeneration
<1>2. CASE End(c, "conflict", None)
  BY <1>1, <1>2, ReadsAndEnds
<1>3. CASE Go(c, "embed")
  <2>1. "embed" \in StepsOf("stage")
    BY DEF StepsOf
  <2>2. Owned(c)
    BY <1>1, Facts DEF Knows, StageKnows, At, Step
  <2>3. QED
    BY <1>1, <1>3, <2>1, <2>2, GoIsSee, StageReads DEF At
<1>4. QED
  BY <1>2, <1>3 DEF StageGeneration

LEMMA EmbedKeeps ==
    ASSUME OneUpgrader, CacheInvariant, NEW c \in Clients, Embed(c)
    PROVE  CacheInvariant'
<1>1. At(c, "stage", "embed") /\ Reads /\ Go(c, "stage-batch")
  BY DEF Embed
<1>2. "stage-batch" \in StepsOf("stage")
  BY DEF StepsOf
<1>3. Owned(c)
  BY <1>1, Facts DEF Knows, StageKnows, At, Step
<1>4. QED
  BY <1>1, <1>2, <1>3, GoIsSee, StageReads DEF At

\* Vectors are missing only if the batch did not insert: the authority is
\* purged or another generation has the number.
LEMMA StageVectorsKeeps ==
    ASSUME OneUpgrader, CacheInvariant, NEW c \in Clients, StageVectors(c)
    PROVE  CacheInvariant'
<1>1. At(c, "stage", "stage-vectors") /\ Reads
  BY DEF StageVectors
<1>2. Gone(A(c)) \/ Numbered(A(c), G(c).number) # {}
  BY <1>1, Facts DEF Knows, StageKnows
<1>3. CASE Go(c, "staged") 
  <2>1. "staged" \in StepsOf("stage")
    BY DEF StepsOf
  <2>2. QED
    BY <1>1, <1>3, <2>1, GoIsSee, StageReads DEF At
<1>4. CASE Go(c, "vectors-gone") /\ ~({G(c).isolation} \X Chunks[G(c).content] \subseteq vectors)
  <2>1. "vectors-gone" \in StepsOf("stage")
    BY DEF StepsOf
  <2>2. G(c) \in Generation /\ G(c).authority = A(c)
    BY <1>1, Facts, RequestTypes DEF At
  <2>3. ~Gone(A(c)) => G(c) \notin generations
    BY <1>4, <2>2, KeptIsWhole DEF Kept
  <2>4. Gone(A(c)) \/ Numbered(A(c), G(c).number) \ {G(c)} # {}
    BY <1>2, <2>3 DEF Numbered
  <2>5. QED
    BY <1>1, <1>4, <2>1, <2>4, GoIsSee, StageReads DEF At
<1>5. QED
  BY <1>3, <1>4 DEF StageVectors

LEMMA StagedGenerationKeeps ==
    ASSUME OneUpgrader, CacheInvariant, NEW c \in Clients, StagedGeneration(c)
    PROVE  CacheInvariant'
<1> DEFINE s == Stored(A(c), G(c).number)
<1>1. At(c, "stage", "staged") /\ Reads /\ See(c, "staged-purged", s)
  BY DEF StagedGeneration
<1>2. "staged-purged" \in StepsOf("stage")
  BY DEF StepsOf
<1>3. G(c) \in Generation /\ G(c).authority = A(c)
  BY <1>1, Facts, RequestTypes DEF At
<1>4. s \in Generation \cup {None} /\ (s # None => s \in generations)
  BY StoredFacts DEF Numbered
<1>5. s \in Seen /\ (s = G(c) => Kept(G(c)))
  BY <1>3, <1>4, NoneApart DEF Seen, Kept
<1> HIDE DEF s
<1>6. QED
  BY <1>1, <1>2, <1>5, StageReads DEF At

LEMMA StagedPurgedKeeps ==
    ASSUME OneUpgrader, CacheInvariant, NEW c \in Clients, StagedPurged(c)
    PROVE  CacheInvariant'
<1>1. At(c, "stage", "staged-purged") /\ Reads
  BY DEF StagedPurged
<1>2. CASE End(c, "purged", None) \/ End(c, "conflict", None)
  BY <1>1, <1>2, ReadsAndEnds
<1>3. CASE Go(c, "staged-members") /\ call[c].seen = G(c)
  <2>1. "staged-members" \in StepsOf("stage")
    BY DEF StepsOf
  <2>2. Kept(G(c))
    BY <1>1, <1>3, Facts DEF Knows, StageKnows
  <2>3. QED
    BY <1>1, <1>3, <2>1, <2>2, GoIsSee, StageReads DEF At
<1>4. QED
  BY <1>2, <1>3 DEF StagedPurged

\* A call that ends with a report after a read.
LEMMA ReadsAndReports ==
    ASSUME OneUpgrader, CacheInvariant, NEW c \in Clients, Reads,
           NEW result \in {"ok", "unchanged", "integrity"}, NEW value \in Reportable,
           End(c, result, value),
           call[c].job # "publish" \/ result # "ok" \/ Claims(c, value),
           LET a == A(c)
               request == call[c].request
           IN  /\ call[c].job = "stage" /\ result = "ok" => value = G(c) /\ Kept(value)
               /\ call[c].job = "publish" /\ result \in {"ok", "unchanged"} =>
                     /\ value \in Generation /\ value.authority = a
                     /\ value.number = request.number /\ Passed(value)
               /\ call[c].job = "search" /\ result = "ok" => value = Chunks[G(c).content]
               /\ call[c].job = "v1-purge" /\ result = "ok" =>
                     value # None /\ Tombstone(a) = value
               /\ call[c].job \in {"purge", "receipt"} /\ result = "ok" =>
                     value # None /\ purges[a] = value
               /\ result = "integrity" =>
                     /\ call[c].job \in CacheJobs
                     /\ \/ Gone(a)
                        \/ call[c].job = "stage" /\ Numbered(a, G(c).number) \ {G(c)} # {}
    PROVE  CacheInvariant'
<1>1. call \in [Clients -> CallRecord] /\ CallOK(c) /\ result \in Results
  BY Facts DEF CacheInvariant, Results
<1>2. call'[c].outcome = Outcome(call[c].job, call[c].request, result, value)
  BY <1>1, EndMakes
<1>3. /\ call'[c].outcome.job = call[c].job /\ call'[c].outcome.request = call[c].request
      /\ call'[c].outcome.result = result /\ call'[c].outcome.value = value
  BY <1>2 DEF Outcome
<1>4. UNCHANGED <<schema, transition, generations, heads, purges>>
      /\ (call[c].job \in CacheJobs => schema = "v2")
  BY Facts DEF Reads, tables, data, Knows
<1>5. Stands(c)'
  BY <1>3, <1>4 DEF Stands, A, G, Kept, Passed, Gone, Numbered, Tombstone
<1>6. QED
  BY <1>1, <1>5, ReadsSound, EndsWell

LEMMA VectorsGoneKeeps ==
    ASSUME OneUpgrader, CacheInvariant, NEW c \in Clients, VectorsGone(c)
    PROVE  CacheInvariant'
<1>1. At(c, "stage", "vectors-gone") /\ Reads
  BY DEF VectorsGone
<1>2. CASE End(c, "purged", None)
  BY <1>1, <1>2, ReadsAndEnds
<1>3. CASE End(c, "integrity", None)
  <2>1. Gone(A(c)) \/ Numbered(A(c), G(c).number) \ {G(c)} # {}
    BY <1>1, Facts DEF Knows, StageKnows
  <2>2. None \in Reportable /\ call[c].job \in CacheJobs
    BY <1>1 DEF Reportable, At, CacheJobs
  <2>3. QED
    BY <1>1, <1>3, <2>1, <2>2, ReadsAndReports DEF At
<1>4. QED
  BY <1>2, <1>3 DEF VectorsGone

LEMMA StagedMembersKeeps ==
    ASSUME OneUpgrader, CacheInvariant, NEW c \in Clients, StagedMembers(c)
    PROVE  CacheInvariant'
<1>1. At(c, "stage", "staged-members") /\ Reads
  BY DEF StagedMembers
<1>2. Kept(G(c)) /\ G(c) \in Generation /\ G(c).authority = A(c)
  BY <1>1, Facts, RequestTypes DEF Knows, StageKnows, At
<1>3. CASE End(c, "ok", G(c))
  <2>1. G(c) \in Reportable
    BY <1>2 DEF Reportable
  <2>2. QED
    BY <1>1, <1>2, <1>3, <2>1, ReadsAndReports DEF At
<1>4. CASE End(c, "integrity", None) /\ ~Whole(G(c))
  <2>1. Gone(A(c))
    BY <1>2, <1>4, KeptIsWhole
  <2>2. None \in Reportable /\ call[c].job \in CacheJobs
    BY <1>1 DEF Reportable, At, CacheJobs
  <2>3. QED
    BY <1>1, <1>4, <2>1, <2>2, ReadsAndReports DEF At
<1>5. QED
  BY <1>3, <1>4 DEF StagedMembers

\* Reservations of authorities without a tombstone may come at any time.
LEMMA ReservationsSound ==
    ASSUME CacheInvariant, NEW c \in Clients,
           UNCHANGED <<schema, transition, generations, memberships, vectors, heads, purges,
                       opened>>,
           isolations' \in [Isolations -> Reservation \cup {None}],
           \A i \in Isolations : isolations[i] # None => isolations'[i] = isolations[i],
           \A i \in Isolations : isolations[i] = None /\ isolations'[i] # None =>
               ~Gone(isolations'[i].owner)
    PROVE  Grows(c) /\ TablesSound'
<1>1. Grows(c)
  BY DEF Grows, Tombstone, Gone, Kept, Passed
<1>2. UpgradeTypeOK'
  BY Facts DEF UpgradeTypeOK, Pending
<1>3. generations \subseteq Generation /\ vectors \subseteq Isolations \X Inputs
  BY Facts DEF UpgradeTypeOK
<1>4. \A v \in vectors : v[1] \in Isolations /\ isolations[v[1]] # None
  BY <1>3, Facts DEF CacheSound
<1>5. \A a \in Authorities : purges'[a] # None => ~Residual(a)'
  <2>1. SUFFICES ASSUME NEW a \in Authorities, purges[a] # None, Residual(a)'
                 PROVE  FALSE
    OBVIOUS
  <2>2. ~Residual(a)
    BY <2>1, Facts DEF CacheSound
  <2>3. PICK v \in vectors : isolations'[v[1]] # None /\ isolations'[v[1]].owner = a
    BY <2>1, <2>2 DEF Residual
  <2>4. isolations[v[1]] # None /\ isolations[v[1]].owner = a
    BY <1>4, <2>3
  <2>5. QED
    BY <2>2, <2>4 DEF Residual
<1>6. \A g \in generations : g.isolation \in Isolations
  BY <1>3 DEF Generation
<1>7. \A g : Whole(g)' <=> Whole(g)
  BY DEF Whole, MembershipsOf
<1>8. CacheSound'
  <2>1. \A g \in generations :
          /\ isolations'[g.isolation] # None /\ isolations'[g.isolation].owner = g.authority
          /\ Whole(g)' /\ {g.isolation} \X Chunks[g.content] \subseteq vectors
          /\ \A h \in generations : h.authority = g.authority /\ h.number = g.number => h = g
    BY <1>6, <1>7, Facts DEF CacheSound
  <2>2. \A v \in vectors : isolations'[v[1]] # None
    BY <1>4
  <2>3. /\ \A m \in memberships : m.of \in generations
        /\ \A a \in Authorities : heads[a] # None => heads[a] \in generations /\ heads[a].authority = a
    BY Facts DEF CacheSound
  <2>4. QED
    BY <1>2, <1>5, <2>1, <2>2, <2>3 DEF CacheSound
<1>9. SchemaSound' /\ Finite'
  BY Facts DEF SchemaSound, TablesSound, Finite
<1>10. QED
  BY <1>1, <1>8, <1>9 DEF TablesSound

LEMMA IsolationTypes ==
    ASSUME CacheInvariant, NEW c \in Clients, call[c].job \in {"stage", "purge"}
    PROVE  /\ IsolationOf(c) \in Isolations
           /\ [owner |-> A(c), at |-> call[c].request.at] \in Reservation
           /\ call[c].job = "stage" => IsolationOf(c) = G(c).isolation
<1>1. CallOK(c)
  BY Facts
<1>2. A(c) \in Authorities /\ call[c].request.at \in Instants
      /\ (call[c].job = "stage" => G(c) \in Generation)
      /\ (call[c].job = "purge" => call[c].request.isolation \in Isolations)
  BY <1>1, RequestTypes DEF CacheJobs
<1>3. QED
  BY <1>2 DEF IsolationOf, Generation, Reservation

LEMMA ReserveKeeps ==
    ASSUME OneUpgrader, CacheInvariant, NEW c \in Clients, Reserve(c)
    PROVE  CacheInvariant'
<1>1. Step(c) = "reserve" /\ call[c].job \in {"stage", "purge"}
  BY SharedSteps DEF Reserve
<1> DEFINE i == IsolationOf(c)
           row == [owner |-> A(c), at |-> call[c].request.at]
<1>2. i \in Isolations /\ row \in Reservation
  BY <1>1, IsolationTypes
<1>3. isolations \in [Isolations -> Reservation \cup {None}]
  BY Facts DEF UpgradeTypeOK
<1>4. isolations' = [isolations EXCEPT ![i] = IF @ = None /\ ~Purged(c) THEN row ELSE @]
  BY DEF Reserve
<1>5. row.owner = A(c)
  OBVIOUS
<1>6. UNCHANGED <<schema, transition, generations, memberships, vectors, heads, purges, opened>>
  BY DEF Reserve
<1> HIDE DEF i, row
<1>7. isolations' \in [Isolations -> Reservation \cup {None}]
  BY <1>2, <1>3, <1>4
<1>8. \A j \in Isolations : isolations[j] # None => isolations'[j] = isolations[j]
  BY <1>2, <1>3, <1>4
<1>9. \A j \in Isolations : isolations[j] = None /\ isolations'[j] # None =>
          ~Gone(isolations'[j].owner)
  BY <1>2, <1>3, <1>4, <1>5 DEF Purged, Gone
<1>10. Grows(c) /\ TablesSound'
  BY <1>6, <1>7, <1>8, <1>9, ReservationsSound
<1>11. Answered(c, "owner")
  BY DEF Reserve
<1>12. Go(c, "owner") => CacheInvariant'
  <2>1. SUFFICES ASSUME Go(c, "owner")
                 PROVE  CacheInvariant'
    OBVIOUS
  <2>2. "owner" \in StepsOf(call[c].job)
    BY <1>1 DEF StepsOf
  <2>3. call'[c].step = "owner" /\ call'[c].job = call[c].job
    BY <2>1, <2>2, GoIsSee, SeeFields
  <2>4. schema' = "v2"
    BY <1>1, <1>6, Facts DEF Knows, CacheJobs
  <2>5. Knows(c)'
    BY <1>1, <2>3, <2>4 DEF Knows, BootstrapKnows, StageKnows, PublishKnows, SearchKnows,
                             HeadKnows, PurgeKnows, At, Step
  <2>6. QED
    BY <1>1, <1>10, <2>1, <2>2, <2>5, GoIsSee, SeesOn
<1>13. QED
  BY <1>1, <1>10, <1>11, <1>12, AnsweredSound

LEMMA ReadOwnerKeeps ==
    ASSUME OneUpgrader, CacheInvariant, NEW c \in Clients, ReadOwner(c)
    PROVE  CacheInvariant'
<1> DEFINE row == isolations[IsolationOf(c)]
<1>1. Step(c) = "owner" /\ call[c].job \in {"stage", "purge"} /\ Reads /\ See(c, "reserved", row)
  BY SharedSteps DEF ReadOwner
<1>2. "reserved" \in StepsOf(call[c].job)
  BY <1>1 DEF StepsOf
<1>3. row \in Seen /\ (call[c].job = "stage" => row = isolations[G(c).isolation])
  BY <1>1, IsolationTypes, Facts DEF UpgradeTypeOK, Seen
<1> HIDE DEF row
<1>4. CASE call[c].job = "stage"
  BY <1>1, <1>2, <1>3, <1>4, StageReads
<1>5. CASE call[c].job = "purge"
  BY <1>1, <1>2, <1>3, <1>5, PurgeReads
<1>6. QED
  BY <1>1, <1>4, <1>5

LEMMA ReservedKeeps ==
    ASSUME OneUpgrader, CacheInvariant, NEW c \in Clients, Reserved(c)
    PROVE  CacheInvariant'
<1>1. Step(c) = "reserved" /\ call[c].job \in {"stage", "purge"} /\ Reads
  BY SharedSteps DEF Reserved
<1>2. None \in Seen
  BY DEF Seen
<1>3. CASE End(c, "purged", None) \/ End(c, "conflict", None)
  BY <1>1, <1>3, ReadsAndEnds
<1>4. CASE /\ call[c].seen # None /\ call[c].seen.owner = A(c)
           /\ See(c, IF call[c].job = "stage" THEN "purged-again" ELSE "purge-batch", None)
  <2>1. CASE call[c].job = "stage"
    <3>1. isolations[G(c).isolation] = call[c].seen
      BY <1>1, <1>4, <2>1, Facts DEF Knows, StageKnows, At, Step
    <3>2. Owned(c)
      BY <1>4, <3>1 DEF Owned
    <3>3. "purged-again" \in StepsOf("stage")
      BY DEF StepsOf
    <3>4. See(c, "purged-again", None)
      BY <1>4, <2>1
    <3>5. QED
      BY <1>1, <1>2, <2>1, <3>2, <3>3, <3>4, StageReads
  <2>2. CASE call[c].job = "purge"
    <3>1. "purge-batch" \in StepsOf("purge")
      BY DEF StepsOf
    <3>2. See(c, "purge-batch", None)
      BY <1>4, <2>2
    <3>3. QED
      BY <1>1, <1>2, <2>2, <3>1, <3>2, PurgeReads
  <2>3. QED
    BY <1>1, <2>1, <2>2
<1>5. QED
  BY <1>3, <1>4 DEF Reserved

\* A generation of finitely many chunks has finitely many rows.
LEMMA ContentFinite ==
    ASSUME NEW g \in Generation
    PROVE  /\ Chunks[g.content] \subseteq Inputs /\ Chunks[g.content] \subseteq Nat
           /\ IsFiniteSet(Chunks[g.content])
           /\ IsFiniteSet({g.isolation} \X Chunks[g.content])
           /\ IsFiniteSet([of: {g}, input: Chunks[g.content]])
<1> DEFINE chunks == Chunks[g.content]
<1>1. g.content \in Contents
  BY DEF Generation
<1>2. chunks \subseteq Inputs /\ chunks \subseteq Nat /\ IsFiniteSet(chunks)
  BY <1>1, SemanticAssumption DEF Inputs
<1> HIDE DEF chunks
<1>3. IsFiniteSet({g.isolation} \X chunks)
  <2>1. IsFiniteSet({g.isolation})
    BY FS_Singleton
  <2>2. QED
    BY <1>2, <2>1, FS_Product
<1>4. IsFiniteSet([of: {g}, input: chunks])
  <2> DEFINE rows == [of: {g}, input: chunks]
             f == [i \in chunks |-> [of |-> g, input |-> i]]
  <2>1. f \in [chunks -> rows]
    OBVIOUS
  <2>2. \A row \in rows : \E i \in chunks : f[i] = row
    <3>1. SUFFICES ASSUME NEW row \in rows
                   PROVE  row.input \in chunks /\ f[row.input] = row
      OBVIOUS
    <3>2. QED
      OBVIOUS
  <2>3. f \in Surjection(chunks, rows)
    BY <2>1, <2>2 DEF Surjection
  <2> HIDE DEF rows, f
  <2>4. IsFiniteSet(rows)
    BY <1>2, <2>3, FS_Surjection
  <2>5. QED
    BY <2>4 DEF rows
<1>5. QED
  BY <1>2, <1>3, <1>4 DEF chunks

\* Inserting a generation in an isolation of its authority, with its chunks,
\* when no other has its number and the authority is not purged.
LEMMA InsertionSound ==
    ASSUME CacheInvariant, NEW c \in Clients, NEW g \in Generation, ~Gone(g.authority),
           isolations[g.isolation] # None, isolations[g.isolation].owner = g.authority,
           Stored(g.authority, g.number) \in {None, g}, schema = "v2",
           generations' = generations \cup {g},
           vectors' = vectors \cup {g.isolation} \X Chunks[g.content],
           memberships' = memberships \cup [of: {g}, input: Chunks[g.content]],
           UNCHANGED <<schema, transition, isolations, heads, purges, opened>>
    PROVE  Grows(c) /\ TablesSound'
<1> DEFINE chunks == Chunks[g.content]
<1>1. /\ chunks \subseteq Inputs /\ IsFiniteSet({g.isolation} \X chunks)
      /\ IsFiniteSet([of: {g}, input: chunks])
  BY ContentFinite
<1>2. /\ vectors' = vectors \cup ({g.isolation} \X chunks)
      /\ memberships' = memberships \cup [of: {g}, input: chunks]
  OBVIOUS
<1>3. g.isolation \in Isolations /\ g.authority \in Authorities
  BY DEF Generation
<1>4. MembershipsOf(g)' = MembershipsOf(g) \cup chunks
  <2>1. \A i \in chunks : [of |-> g, input |-> i] \in memberships'
    BY <1>2
  <2>2. \A i \in chunks : i \in MembershipsOf(g)'
    <3>1. SUFFICES ASSUME NEW i \in chunks
                   PROVE  \E m \in memberships' : m.of = g /\ m.input = i
      BY DEF MembershipsOf
    <3>2. [of |-> g, input |-> i] \in memberships'
      BY <2>1
    <3>3. QED
      BY <3>2
  <2>3. MembershipsOf(g) \subseteq MembershipsOf(g)'
    BY <1>2 DEF MembershipsOf
  <2>4. MembershipsOf(g)' \subseteq MembershipsOf(g) \cup chunks
    BY <1>2 DEF MembershipsOf
  <2>5. QED
    BY <2>2, <2>3, <2>4
<1>5. \A h : h # g => MembershipsOf(h)' = MembershipsOf(h)
  BY <1>2 DEF MembershipsOf
<1>6. Whole(g)'
  <2>1. g \notin generations => MembershipsOf(g) = {}
    BY Facts DEF CacheSound, MembershipsOf
  <2>2. g \in generations => MembershipsOf(g) = chunks
    BY Facts DEF CacheSound, Whole
  <2>3. QED
    BY <1>4, <2>1, <2>2 DEF Whole
<1>7. \A h \in generations : h # g => Whole(h)'
  BY <1>5, Facts DEF CacheSound, Whole
<1> HIDE DEF chunks
<1>8. Grows(c)
  BY DEF Grows, Tombstone, Gone, Kept, Passed
<1>9. UpgradeTypeOK'
  <2>1. memberships' \subseteq Membership
    BY <1>1, <1>2, Facts DEF UpgradeTypeOK, Membership
  <2>2. vectors' \subseteq Isolations \X Inputs
    BY <1>1, <1>2, <1>3, Facts DEF UpgradeTypeOK
  <2>3. QED
    BY <2>1, <2>2, Facts DEF UpgradeTypeOK, Pending
<1>10. \A h \in generations' :
          /\ isolations'[h.isolation] # None /\ isolations'[h.isolation].owner = h.authority
          /\ Whole(h)'
  BY <1>6, <1>7, Facts DEF CacheSound
<1>11. \A h \in generations' : {h.isolation} \X Chunks[h.content] \subseteq vectors'
  <2>1. {g.isolation} \X Chunks[g.content] \subseteq vectors'
    OBVIOUS
  <2>2. \A h \in generations : {h.isolation} \X Chunks[h.content] \subseteq vectors
    BY Facts DEF CacheSound
  <2>3. QED
    BY <2>1, <2>2
<1>12. \A h, k \in generations' : k.authority = h.authority /\ k.number = h.number => k = h
  <2>1. \A h, k \in generations : k.authority = h.authority /\ k.number = h.number => k = h
    BY Facts DEF CacheSound
  <2>2. \A h \in generations : h.authority = g.authority /\ h.number = g.number => h = g
    BY StoredIs, NoneApart, Facts
  <2>3. QED
    BY <2>1, <2>2
<1>13. \A m \in memberships' : m.of \in generations'
  BY <1>2, Facts DEF CacheSound
<1>14. \A v \in vectors' : isolations'[v[1]] # None
  BY <1>2, Facts DEF CacheSound
<1>15. \A a \in Authorities :
          heads'[a] # None => heads'[a] \in generations' /\ heads'[a].authority = a
  BY Facts DEF CacheSound
<1>16. \A a \in Authorities : purges'[a] # None => ~Residual(a)'
  <2>1. SUFFICES ASSUME NEW a \in Authorities, purges[a] # None
                 PROVE  ~Residual(a)'
    OBVIOUS
  <2>2. ~Residual(a) /\ a # g.authority
    BY <2>1, Facts DEF CacheSound, Gone
  <2>3. ~ \E h \in generations' : h.authority = a
    BY <2>2 DEF Residual
  <2>4. ~ \E m \in memberships' : m.of.authority = a
    BY <1>2, <2>2 DEF Residual
  <2>5. ~ \E v \in vectors' : isolations'[v[1]] # None /\ isolations'[v[1]].owner = a
    BY <1>2, <2>2 DEF Residual
  <2>6. heads'[a] = None
    BY <2>2 DEF Residual
  <2>7. QED
    BY <2>3, <2>4, <2>5, <2>6 DEF Residual
<1>17. CacheSound'
  BY <1>9, <1>10, <1>11, <1>12, <1>13, <1>14, <1>15, <1>16 DEF CacheSound
<1>18. SchemaSound'
  BY Facts DEF SchemaSound
<1>19. Finite'
  <2>1. IsFiniteSet(generations) /\ IsFiniteSet(vectors) /\ IsFiniteSet(memberships)
    BY Facts DEF TablesSound, Finite
  <2>2. IsFiniteSet(generations') /\ IsFiniteSet(vectors') /\ IsFiniteSet(memberships')
    <3>1. IsFiniteSet(generations')
      BY <2>1, FS_AddElement
    <3> DEFINE V == {g.isolation} \X chunks
               M == [of: {g}, input: chunks]
    <3>2. vectors' = vectors \cup V /\ memberships' = memberships \cup M
            /\ IsFiniteSet(V) /\ IsFiniteSet(M)
      BY <1>1, <1>2
    <3> HIDE DEF V, M
    <3>3. IsFiniteSet(vectors \cup V) /\ IsFiniteSet(memberships \cup M)
      BY <2>1, <3>2, FS_Union
    <3>4. QED
      BY <3>1, <3>2, <3>3
  <2>3. QED
    BY <2>2 DEF Finite
<1>20. QED
  BY <1>8, <1>17, <1>18, <1>19 DEF TablesSound

LEMMA StageBatchKeeps ==
    ASSUME OneUpgrader, CacheInvariant, NEW c \in Clients, StageBatch(c)
    PROVE  CacheInvariant'
<1> DEFINE g == G(c)
<1>1. At(c, "stage", "stage-batch") /\ Answered(c, "stage-vectors")
  BY DEF StageBatch
<1>2. g \in Generation /\ g.authority = A(c) /\ schema = "v2" /\ Owned(c)
  BY <1>1, Facts, RequestTypes DEF Knows, StageKnows, At, Step, CacheJobs
<1>3. UNCHANGED <<schema, transition, isolations, heads, purges, opened>>
  BY DEF StageBatch
<1>4. Grows(c) /\ TablesSound' /\ (Gone(A(c)) \/ \E h \in generations' :
                                       h.authority = A(c) /\ h.number = g.number)
  <2>1. CASE StageInserts(c)
    <3>1. ~Gone(g.authority) /\ Stored(g.authority, g.number) \in {None, g}
      BY <1>2, <2>1 DEF StageInserts, Purged, Gone
    <3>2. isolations[g.isolation] # None /\ isolations[g.isolation].owner = g.authority
      BY <1>2 DEF Owned
    <3>3. /\ generations' = generations \cup {g}
          /\ vectors' = vectors \cup {g.isolation} \X Chunks[g.content]
          /\ memberships' = memberships \cup [of: {g}, input: Chunks[g.content]]
      BY <2>1 DEF StageBatch
    <3> HIDE DEF g
    <3>4. Grows(c) /\ TablesSound'
      BY <1>2, <1>3, <3>1, <3>2, <3>3, InsertionSound
    <3>5. QED
      BY <1>2, <3>3, <3>4
  <2>2. CASE ~StageInserts(c)
    <3>1. UNCHANGED <<generations, vectors, memberships>>
      BY <2>2 DEF StageBatch
    <3>2. Reads
      BY <1>3, <3>1 DEF Reads, tables, data
    <3>3. Gone(A(c)) \/ Stored(A(c), g.number) # None
      BY <2>2 DEF StageInserts, Purged, Gone
    <3>4. Gone(A(c)) \/ Numbered(A(c), g.number) # {}
      BY <3>3, StoredFacts
    <3>5. QED
      BY <3>1, <3>2, <3>4, ReadsSound DEF Numbered
  <2>3. QED
    BY <2>1, <2>2
<1>5. Go(c, "stage-vectors") => CacheInvariant'
  <2>1. SUFFICES ASSUME Go(c, "stage-vectors")
                 PROVE  CacheInvariant'
    OBVIOUS
  <2>2. "stage-vectors" \in StepsOf(call[c].job)
    BY <1>1 DEF StepsOf, At
  <2>3. call'[c].step = "stage-vectors" /\ call'[c].job = "stage"
        /\ A(c)' = A(c) /\ G(c)' = G(c)
    BY <1>1, <2>1, <2>2, GoIsSee, SeeFields DEF At
  <2>4. (Gone(A(c)) \/ Numbered(A(c), G(c).number) # {})'
    BY <1>3, <1>4, <2>3 DEF Gone, Numbered
  <2>5. StageKnows(c)'
    BY <2>3, <2>4 DEF StageKnows, At, Step
  <2>6. Knows(c)'
    BY <1>2, <1>3, <2>3, <2>5 DEF Knows, BootstrapKnows, PublishKnows, SearchKnows,
                             HeadKnows, PurgeKnows, At, Step
  <2>7. QED
    BY <1>1, <1>4, <2>1, <2>2, <2>6, GoIsSee, SeesOn DEF At
<1>6. QED
  BY <1>1, <1>4, <1>5, AnsweredSound DEF At

-----------------------------------------------------------------------------
(* publish.                                                                *)

LEMMA PublishPurgedKeeps ==
    ASSUME OneUpgrader, CacheInvariant, NEW c \in Clients, PublishPurged(c)
    PROVE  CacheInvariant'
<1>1. At(c, "publish", "publish-purged") /\ UnlessPurged(c, "purged", "publish-generation")
  BY DEF PublishPurged
<1>2. "publish-generation" \in StepsOf("publish")
  BY DEF StepsOf
<1>3. Go(c, "publish-generation") /\ Reads => CacheInvariant'
  BY <1>1, <1>2, GoIsSee, PublishReads DEF At
<1>4. QED
  BY <1>1, <1>3, UnlessPurgedKeeps

LEMMA PublishGenerationKeeps ==
    ASSUME OneUpgrader, CacheInvariant, NEW c \in Clients, PublishGeneration(c)
    PROVE  CacheInvariant'
<1> DEFINE g == Stored(A(c), call[c].request.number)
<1>1. At(c, "publish", "publish-generation") /\ Reads
  BY DEF PublishGeneration
<1>2. CASE End(c, "conflict", None)
  BY <1>1, <1>2, ReadsAndEnds
<1>3. CASE See(c, "publish-members", g) /\ g # None
  <2>1. /\ g \in Generation /\ g \in generations
        /\ g.authority = A(c) /\ g.number = call[c].request.number
    BY <1>3, StoredFacts DEF Numbered
  <2>2. "publish-members" \in StepsOf("publish")
    BY DEF StepsOf
  <2> HIDE DEF g
  <2>3. g \in Seen /\ Kept(g)
    BY <2>1 DEF Seen, Kept
  <2>4. QED
    BY <1>1, <1>3, <2>1, <2>2, <2>3, PublishReads DEF At
<1>4. QED
  BY <1>2, <1>3 DEF PublishGeneration

\* What a publish under way knows of the generation it has seen.
LEMMA PublishFacts ==
    ASSUME CacheInvariant, NEW c \in Clients, call[c].job = "publish",
           Step(c) \notin {"publish-purged", "publish-generation"}
    PROVE  /\ call[c].seen \in Generation /\ Kept(call[c].seen)
           /\ call[c].seen.authority = A(c)
           /\ call[c].seen.number = call[c].request.number
           /\ schema = "v2" /\ A(c) \in Authorities
           /\ call[c].request.number \in Nat
           /\ call[c].request.expected \in Nat \cup {None}
  BY Facts, RequestTypes, SemanticAssumption DEF Knows, PublishKnows, CacheJobs, Step

LEMMA PublishMembersKeeps ==
    ASSUME OneUpgrader, CacheInvariant, NEW c \in Clients, PublishMembers(c)
    PROVE  CacheInvariant'
<1>1. At(c, "publish", "publish-members") /\ Reads
  BY DEF PublishMembers
<1>2. /\ call[c].seen \in Generation /\ Kept(call[c].seen)
      /\ call[c].seen.authority = A(c) /\ call[c].seen.number = call[c].request.number
  BY <1>1, PublishFacts DEF At, Step
<1>3. CASE Go(c, "publish-head")
  <2>1. "publish-head" \in StepsOf("publish")
    BY DEF StepsOf
  <2>2. QED
    BY <1>1, <1>2, <1>3, <2>1, GoIsSee, PublishReads DEF At
<1>4. CASE End(c, "integrity", None) /\ ~Whole(call[c].seen)
  <2>1. Gone(A(c))
    BY <1>2, <1>4, KeptIsWhole
  <2>2. None \in Reportable /\ call[c].job \in CacheJobs
    BY <1>1 DEF Reportable, At, CacheJobs
  <2>3. QED
    BY <1>1, <1>4, <2>1, <2>2, ReadsAndReports DEF At
<1>5. QED
  BY <1>3, <1>4 DEF PublishMembers

\* The head is a stored generation, so another one under the number of the
\* expected head is out of the question.
LEMMA PublishHeadKeeps ==
    ASSUME OneUpgrader, CacheInvariant, NEW c \in Clients, PublishHead(c)
    PROVE  CacheInvariant'
<1> DEFINE head == heads[A(c)]
           g == call[c].seen
           request == call[c].request
<1>1. At(c, "publish", "publish-head") /\ Reads
  BY DEF PublishHead
<1>2. /\ g \in Generation /\ Kept(g) /\ g.authority = A(c) /\ g.number = request.number
      /\ A(c) \in Authorities /\ request.number \in Nat
      /\ request.expected \in Nat \cup {None}
  BY <1>1, PublishFacts DEF At, Step
<1>3. /\ head \in Generation \cup {None}
      /\ head # None => head \in generations /\ head.authority = A(c)
      /\ Gone(A(c)) => head = None
  BY <1>2, Facts DEF CacheSound, UpgradeTypeOK, Residual, Gone
<1>4. CASE End(c, "conflict", None)
  BY <1>1, <1>4, ReadsAndEnds
<1>5. CASE head = g /\ End(c, "unchanged", head)
  <2>1. Passed(g)
    BY <1>2, <1>5, NoneApart DEF Passed
  <2>2. g \in Reportable
    BY <1>2 DEF Reportable
  <2>3. QED
    BY <1>1, <1>2, <1>5, <2>1, <2>2, ReadsAndReports DEF At
<1>6. CASE head # g /\ Forward(head, request) /\ Go(c, "publish-swap")
  <2>1. request.expected # None => request.expected < request.number
    <3>1. SUFFICES ASSUME request.expected # None
                   PROVE  request.expected < request.number
      OBVIOUS
    <3>2. head # None /\ head.number = request.expected /\ request.number >= head.number
      BY <1>6, <3>1 DEF Forward
    <3>3. head \in generations /\ g \in generations
      BY <1>2, <1>3, <3>2 DEF Kept
    <3>4. head.number # g.number
      BY <1>2, <1>3, <1>6, <3>2, <3>3, Facts DEF CacheSound
    <3>5. QED
      BY <1>2, <3>1, <3>2, <3>4
  <2>2. "publish-swap" \in StepsOf("publish")
    BY DEF StepsOf
  <2>3. QED
    BY <1>1, <1>2, <1>6, <2>1, <2>2, GoIsSee, PublishReads DEF At
<1>7. QED
  BY <1>4, <1>5, <1>6 DEF PublishHead

\* A head moves to a stored generation of its authority, and forward.
LEMMA SwapSound ==
    ASSUME CacheInvariant, NEW c \in Clients, NEW g \in Generation, g \in generations,
           ~Gone(g.authority), schema = "v2",
           heads[g.authority] = None \/ heads[g.authority].number < g.number,
           heads' = [heads EXCEPT ![g.authority] = g],
           UNCHANGED <<schema, transition, isolations, generations, memberships, vectors,
                       purges, opened>>
    PROVE  Grows(c) /\ TablesSound' /\ heads'[g.authority] = g
<1> DEFINE a == g.authority
<1>1. a \in Authorities /\ g.number \in Nat /\ g # None
  BY NoneApart, SemanticAssumption DEF Generation
<1>2. /\ UpgradeTypeOK /\ CacheSound /\ SchemaSound /\ Finite
      /\ heads \in [Authorities -> Generation \cup {None}]
  BY DEF CacheInvariant, TablesSound, CacheSound, UpgradeTypeOK
<1>3. /\ heads'[a] = g
      /\ \A b \in Authorities : b # a => heads'[b] = heads[b]
      /\ heads' \in [Authorities -> Generation \cup {None}]
  BY <1>1, <1>2
<1>4. \A h \in Generation : h.number \in Nat /\ h.authority \in Authorities
  BY SemanticAssumption DEF Generation
<1>5. \A h \in Generation : Passed(h) => Passed(h)'
  <2>1. SUFFICES ASSUME NEW h \in Generation, Passed(h)
                 PROVE  Passed(h)'
    OBVIOUS
  <2>2. CASE h.authority = a /\ ~Gone(a)
    <3>1. heads[a] # None /\ heads[a].number >= h.number
      BY <2>1, <2>2 DEF Passed
    <3>2. heads[a].number \in Nat /\ h.number \in Nat
      BY <1>1, <1>2, <1>4, <3>1
    <3>3. g.number >= h.number
      BY <1>1, <3>1, <3>2
    <3>4. QED
      BY <1>1, <1>3, <2>2, <3>3 DEF Passed
  <2>3. CASE h.authority # a \/ Gone(a)
    BY <1>3, <1>4, <2>1, <2>3 DEF Passed, Gone
  <2>4. QED
    BY <2>2, <2>3
<1>6. Grows(c)
  <2>1. \A b \in Authorities : heads[b] # None => heads'[b] # None
    BY <1>1, <1>3
  <2>2. \A b \in Authorities : Tombstone(b)' = Tombstone(b)
    BY DEF Tombstone
  <2>3. \A h : Kept(h) => Kept(h)'
    BY DEF Kept, Gone
  <2>4. QED
    BY <1>5, <2>1, <2>2, <2>3 DEF Grows
<1>7. CacheSound'
  <2>1. UpgradeTypeOK'
    BY <1>2, <1>3 DEF UpgradeTypeOK, Pending
  <2>2. \A h : Whole(h)' <=> Whole(h)
    BY DEF Whole, MembershipsOf
  <2>3. \A b \in Authorities :
           heads'[b] # None => heads'[b] \in generations /\ heads'[b].authority = b
    BY <1>2, <1>3 DEF CacheSound
  <2>4. \A b \in Authorities : purges[b] # None => ~Residual(b)'
    <3>1. SUFFICES ASSUME NEW b \in Authorities, purges[b] # None
                   PROVE  ~Residual(b)'
      OBVIOUS
    <3>2. b # a /\ ~Residual(b)
      BY <1>2, <3>1 DEF CacheSound, Gone
    <3>3. QED
      BY <1>3, <3>2 DEF Residual
  <2>5. QED
    BY <1>2, <2>1, <2>2, <2>3, <2>4 DEF CacheSound
<1>8. SchemaSound' /\ Finite'
  BY <1>2 DEF SchemaSound, Finite
<1>9. QED
  BY <1>3, <1>6, <1>7, <1>8 DEF TablesSound

\* A publish whose move counts has passed the generation it saw.
LEMMA ClaimsPassed ==
    ASSUME CacheInvariant, NEW d \in Clients, NEW g \in Generation, Claims(d, g)
    PROVE  Passed(g)
<1>1. Knows(d) /\ Stands(d)
  BY Facts
<1>2. QED
  BY <1>1 DEF Claims, Knows, PublishKnows, Stands, Step

LEMMA PublishSwapKeeps ==
    ASSUME OneUpgrader, CacheInvariant, NEW c \in Clients, PublishSwap(c)
    PROVE  CacheInvariant'
<1> DEFINE g == call[c].seen
           n == IF Swaps(c) THEN 1 ELSE 0
<1>1. At(c, "publish", "publish-swap")
  BY DEF PublishSwap
<1>2. /\ g \in Generation /\ Kept(g) /\ g.authority = A(c) /\ g.number = call[c].request.number
      /\ A(c) \in Authorities /\ call[c].request.number \in Nat /\ schema = "v2"
      /\ call[c].request.expected \in Nat \cup {None}
      /\ call[c].request.expected # None => call[c].request.expected < call[c].request.number
  BY <1>1, PublishFacts, Facts DEF Knows, PublishKnows, At, Step
<1>3. UNCHANGED <<schema, transition, isolations, generations, memberships, vectors, purges,
                  opened>>
  BY DEF PublishSwap
<1>4. /\ Grows(c) /\ TablesSound'
      /\ Swaps(c) => heads'[A(c)] = g /\ ~Passed(g)
  <2>1. CASE Swaps(c)
    <3>1. /\ ~Gone(g.authority) /\ g \in generations
          /\ heads[g.authority] = None \/ heads[g.authority].number < g.number
      BY <1>2, <2>1 DEF Swaps, Purged, Gone
    <3>2. heads' = [heads EXCEPT ![g.authority] = g]
      BY <1>2, <2>1 DEF PublishSwap
    <3>3. ~Passed(g)
      <4>1. heads[g.authority] # None => heads[g.authority].number \in Nat
        BY <1>2, Facts, SemanticAssumption DEF UpgradeTypeOK, Generation
      <4>2. QED
        BY <1>2, <3>1, <4>1 DEF Passed
    <3> HIDE DEF g
    <3>4. Grows(c) /\ TablesSound' /\ heads'[g.authority] = g
      BY <1>2, <1>3, <3>1, <3>2, SwapSound
    <3>5. QED
      BY <1>2, <3>3, <3>4
  <2>2. CASE ~Swaps(c)
    <3>1. heads' = heads
      BY <1>2, <2>2, Facts DEF PublishSwap, UpgradeTypeOK
    <3>2. Reads
      BY <1>3, <3>1 DEF Reads, tables, data
    <3>3. QED
      BY <2>2, <3>2, ReadsSound
  <2>3. QED
    BY <2>1, <2>2
<1>5. CASE Failure(c, "sql")
  BY <1>1, <1>4, <1>5, Fails DEF At
<1>6. CASE call' = [call EXCEPT ![c].step = "publish-after", ![c].count = n]
  <2>1. call[c] \in CallRecord /\ call \in [Clients -> CallRecord]
    BY DEF CacheInvariant
  <2>2. "publish-after" \in Steps /\ "publish-after" \in StepsOf("publish")
    <3>1. "publish-after" \in StepsOf("publish") /\ "publish" \in Jobs
      BY DEF StepsOf, Jobs, CacheJobs
    <3>2. QED
      BY <3>1 DEF Steps
  <2> HIDE DEF n
  <2>3. n \in Nat
    BY DEF n
  <2>4. [call[c] EXCEPT !.step = "publish-after", !.count = n] \in CallRecord
    BY <2>1, <2>2, <2>3 DEF CallRecord
  <2>5. /\ call' \in [Clients -> CallRecord]
        /\ \A d \in Clients \ {c} : call'[d] = call[d]
        /\ call'[c] = [call[c] EXCEPT !.step = "publish-after", !.count = n]
    BY <1>6, <2>1, <2>4
  <2>6. /\ call'[c].step = "publish-after" /\ call'[c].count = n
        /\ call'[c].seen = g /\ call'[c].job = "publish"
        /\ call'[c].request = call[c].request /\ call'[c].within = call[c].within
        /\ call'[c].outcome = call[c].outcome
    BY <1>1, <2>1, <2>5 DEF CallRecord, At
  <2>7. A(c)' = A(c)
    BY <2>6 DEF A
  <2>8. CallOK(c) /\ Stands(c) /\ generations \subseteq Generation /\ Knows(c)
    BY Facts
  <2>9. CallOK(c)'
    BY <1>1, <2>2, <2>6, <2>8 DEF CallOK, At
  <2>10. Stands(c)'
    BY <1>4, <2>6, <2>8, ReportsUndisturbed
  <2>11. n > 0 => Swaps(c)
    BY DEF n
  <2>12. PublishKnows(c)'
    <3>1. Gone(g.authority)' \/ g' \in generations'
      BY <1>2, <1>3, <2>6 DEF Kept, Gone
    <3>2. n > 0 => heads'[g.authority] # None /\ heads'[g.authority].number >= g.number
      <4>1. g # None /\ g.number >= g.number
        BY <1>2, NoneApart
      <4>2. n > 0 => heads'[g.authority] = g
        BY <1>2, <1>4, <2>11
      <4>3. QED
        BY <4>1, <4>2
    <3>3. QED
      BY <1>2, <2>6, <2>7, <3>1, <3>2 DEF PublishKnows, At, Step, Kept, Passed, Gone
  <2>13. Knows(c)'
    BY <1>2, <1>3, <2>6, <2>12 DEF Knows, BootstrapKnows, StageKnows, SearchKnows,
                               HeadKnows, PurgeKnows, At, Step
  <2>14. \A h \in Generation :
             Claims(c, h)' => Claims(c, h) \/ (\A d \in Clients \ {c} : ~Claims(d, h))
    <3>1. SUFFICES ASSUME NEW h \in Generation, Claims(c, h)', ~Claims(c, h),
                          NEW d \in Clients, Claims(d, h)
                   PROVE  FALSE
      OBVIOUS
    <3>2. n > 0 /\ h = g
      BY <2>6, <3>1 DEF Claims, Step
    <3>3. Passed(g)
      BY <3>1, <3>2, ClaimsPassed
    <3>4. QED
      BY <1>4, <2>11, <3>2, <3>3
  <2>15. QED
    BY <1>4, <2>5, <2>9, <2>10, <2>13, <2>14, Advance
<1>7. QED
  BY <1>5, <1>6 DEF PublishSwap

LEMMA PublishAfterKeeps ==
    ASSUME OneUpgrader, CacheInvariant, NEW c \in Clients, PublishAfter(c)
    PROVE  CacheInvariant'
<1>1. At(c, "publish", "publish-after") /\ UnlessPurged(c, "purged", "published")
  BY DEF PublishAfter
<1>2. /\ call[c].seen \in Generation /\ Kept(call[c].seen)
      /\ call[c].seen.authority = A(c) /\ call[c].seen.number = call[c].request.number
  BY <1>1, PublishFacts DEF At, Step
<1>3. call[c].count > 0 => Passed(call[c].seen)
  BY <1>1, Facts DEF Knows, PublishKnows, At
<1>4. "published" \in StepsOf("publish")
  BY DEF StepsOf
<1>5. Go(c, "published") /\ Reads => CacheInvariant'
  BY <1>1, <1>2, <1>3, <1>4, GoIsSee, PublishReads DEF At, Step
<1>6. QED
  BY <1>1, <1>5, UnlessPurgedKeeps

LEMMA PublishedKeeps ==
    ASSUME OneUpgrader, CacheInvariant, NEW c \in Clients, Published(c)
    PROVE  CacheInvariant'
<1> DEFINE g == call[c].seen
<1>1. At(c, "publish", "published") /\ Reads
  BY DEF Published
<1>2. /\ g \in Generation /\ g.authority = A(c) /\ g.number = call[c].request.number
      /\ call[c].request.number \in Nat
  BY <1>1, PublishFacts DEF At, Step
<1>3. CASE End(c, "conflict", None)
  BY <1>1, <1>3, ReadsAndEnds
<1>4. CASE heads[A(c)] = g /\ End(c, IF call[c].count > 0 THEN "ok" ELSE "unchanged", g)
  <2>1. Passed(g) /\ g \in Reportable
    BY <1>2, <1>4, NoneApart DEF Passed, Reportable
  <2>2. call[c].count > 0 => Claims(c, g)
    BY <1>1 DEF Claims, At, Step
  <2>3. QED
    BY <1>1, <1>2, <1>4, <2>1, <2>2, ReadsAndReports DEF At
<1>5. QED
  BY <1>3, <1>4 DEF Published
-----------------------------------------------------------------------------
(* search.                                                                 *)

\* The pages of a finite set of chunks follow each other without a gap.
LEMMA RankBounds ==
    ASSUME NEW S \in SUBSET Nat, IsFiniteSet(S), NEW i \in S
    PROVE  /\ Rank(i, S) \in Nat
           /\ 1 <= Rank(i, S) /\ Rank(i, S) <= Cardinality(S)
<1> DEFINE T == {j \in S : j <= i}
<1>1. T \subseteq S /\ i \in T
  OBVIOUS
<1> HIDE DEF T
<1>2. IsFiniteSet(T) /\ Cardinality(T) <= Cardinality(S)
  BY <1>1, FS_Subset
<1>3. Cardinality(T) \in Nat /\ Cardinality(T) # 0
  BY <1>1, <1>2, FS_CardinalityType, FS_EmptySet
<1>4. Cardinality(T) >= 1
  BY <1>3
<1>5. QED
  BY <1>2, <1>3, <1>4 DEF Rank, T

LEMMA FirstPages ==
    ASSUME NEW S \in SUBSET Nat, IsFiniteSet(S), NEW n \in Nat
    PROVE  /\ First(S, 0) = {}
           /\ Cardinality(S) <= n => First(S, n) = S
           /\ LET page == {i \in S : Rank(i, S) \in (n + 1)..(n + PageSize)}
              IN  /\ First(S, n + PageSize) = First(S, n) \cup page
                  /\ Cardinality(page) \in Nat
                  /\ Cardinality(First(S, n + PageSize)) =
                        Cardinality(First(S, n)) + Cardinality(page)
<1> DEFINE page == {i \in S : Rank(i, S) \in (n + 1)..(n + PageSize)}
           before == First(S, n)
<1>1. \A i \in S : /\ Rank(i, S) \in Nat
                   /\ 1 <= Rank(i, S) /\ Rank(i, S) <= Cardinality(S)
  BY RankBounds
<1>2. PageSize \in Nat /\ Cardinality(S) \in Nat
  BY SemanticAssumption, FS_CardinalityType
<1>3. First(S, 0) = {}
  <2>1. \A i \in S : ~(Rank(i, S) <= 0)
    <3>1. \A r \in Nat : 1 <= r => ~(r <= 0)
      OBVIOUS
    <3>2. QED
      BY <1>1, <3>1
  <2>2. QED
    BY <2>1 DEF First
<1>4. Cardinality(S) <= n => First(S, n) = S
  <2>1. Cardinality(S) <= n => \A i \in S : Rank(i, S) <= n
    <3>1. SUFFICES ASSUME Cardinality(S) <= n, NEW i \in S
                   PROVE  Rank(i, S) <= n
      OBVIOUS
    <3>2. Rank(i, S) \in Nat /\ Rank(i, S) <= Cardinality(S)
      BY <1>1
    <3>3. QED
      BY <1>2, <3>1, <3>2
  <2>2. QED
    BY <2>1 DEF First
<1>5. First(S, n + PageSize) = before \cup page
  <2>1. \A i \in S : Rank(i, S) <= n + PageSize <=>
                         Rank(i, S) <= n \/ Rank(i, S) \in (n + 1)..(n + PageSize)
    <3>1. \A r \in Nat : r <= n + PageSize <=> r <= n \/ r \in (n + 1)..(n + PageSize)
      BY <1>2
    <3>2. QED
      BY <1>1, <3>1
  <2>2. QED
    BY <2>1 DEF First
<1>6. before \cap page = {}
  <2>1. \A r \in Nat : ~(r <= n /\ r \in (n + 1)..(n + PageSize))
    BY <1>2
  <2>2. \A i \in S : ~(Rank(i, S) <= n /\ Rank(i, S) \in (n + 1)..(n + PageSize))
    BY <1>1, <2>1
  <2>3. QED
    BY <2>2 DEF First
<1>7. before \subseteq S /\ page \subseteq S
  BY DEF First
<1> HIDE DEF page, before
<1>8. IsFiniteSet(before) /\ IsFiniteSet(page)
  BY <1>7, FS_Subset
<1>9. Cardinality(before) \in Nat /\ Cardinality(page) \in Nat /\ Cardinality({}) = 0
  BY <1>8, FS_CardinalityType, FS_EmptySet
<1>10. Cardinality(before \cup page) = Cardinality(before) + Cardinality(page)
  <2>1. Cardinality(before \cup page) =
           Cardinality(before) + Cardinality(page) - Cardinality(before \cap page)
    BY <1>8, FS_Union
  <2>2. Cardinality(before \cap page) = 0
    BY <1>6, <1>9
  <2>3. QED
    BY <1>9, <2>1, <2>2
<1>11. QED
  BY <1>3, <1>4, <1>5, <1>9, <1>10 DEF page, before

\* The scan joins what is stored of a generation: all of it, or a purge took it.
LEMMA JoinedFacts ==
    ASSUME CacheInvariant, NEW g \in Generation
    PROVE  /\ Chunks[g.content] \subseteq Nat /\ IsFiniteSet(Chunks[g.content])
           /\ Joined(g) \subseteq Chunks[g.content]
           /\ Kept(g) /\ ~Gone(g.authority) => Joined(g) = Chunks[g.content]
<1>1. Chunks[g.content] \subseteq Nat /\ IsFiniteSet(Chunks[g.content])
  BY ContentFinite
<1>2. CacheSound
  BY DEF CacheInvariant, TablesSound
<1>3. Joined(g) \subseteq MembershipsOf(g)
  BY DEF Joined
<1>4. g \in generations => MembershipsOf(g) = Chunks[g.content]
  BY <1>2 DEF CacheSound, Whole
<1>5. g \notin generations => MembershipsOf(g) = {}
  BY <1>2 DEF CacheSound, MembershipsOf
<1>6. Kept(g) /\ ~Gone(g.authority) => Joined(g) = Chunks[g.content]
  <2>1. SUFFICES ASSUME Kept(g), ~Gone(g.authority)
                 PROVE  Joined(g) = Chunks[g.content]
    OBVIOUS
  <2>2. g \in generations /\ {g.isolation} \X Chunks[g.content] \subseteq vectors
    BY <2>1, KeptIsWhole
  <2>3. \A i \in Chunks[g.content] : <<g.isolation, i>> \in vectors
    BY <2>2
  <2>4. QED
    BY <1>4, <2>2, <2>3 DEF Joined
<1>7. QED
  BY <1>1, <1>3, <1>4, <1>5, <1>6

LEMMA SearchFacts ==
    ASSUME CacheInvariant, NEW c \in Clients, call[c].job = "search"
    PROVE  /\ G(c) \in Generation /\ G(c).authority = A(c) /\ A(c) \in Authorities
           /\ schema = "v2" /\ SearchKnows(c)
  BY Facts, RequestTypes DEF Knows, CacheJobs

LEMMA SearchPurgedKeeps ==
    ASSUME OneUpgrader, CacheInvariant, NEW c \in Clients, SearchPurged(c)
    PROVE  CacheInvariant'
<1>1. At(c, "search", "search-purged") /\ UnlessPurged(c, "empty", "search-head")
  BY DEF SearchPurged
<1>2. "search-head" \in StepsOf("search")
  BY DEF StepsOf
<1>3. call[c].found = {} /\ call[c].offset = 0 /\ call[c].count = 0
  BY <1>1, SearchFacts DEF SearchKnows, At
<1>4. Go(c, "search-head") /\ Reads => CacheInvariant'
  BY <1>1, <1>2, <1>3, GoIsSee, SearchReads DEF At
<1>5. QED
  BY <1>1, <1>4, UnlessPurgedKeeps

LEMMA SearchHeadKeeps ==
    ASSUME OneUpgrader, CacheInvariant, NEW c \in Clients, SearchHead(c)
    PROVE  CacheInvariant'
<1>1. At(c, "search", "search-head") /\ Reads
  BY DEF SearchHead
<1>2. call[c].found = {} /\ call[c].offset = 0 /\ call[c].count = 0
  BY <1>1, SearchFacts DEF SearchKnows, At
<1>3. CASE End(c, "empty", None)
  BY <1>1, <1>3, ReadsAndEnds
<1>4. CASE heads[A(c)] = G(c) /\ See(c, "search-generation", G(c))
  <2>1. G(c) \in Generation /\ A(c) \in Authorities
    BY <1>1, SearchFacts DEF At
  <2>2. G(c) \in generations
    BY <1>4, <2>1, NoneApart, Facts DEF CacheSound
  <2>3. "search-generation" \in StepsOf("search") /\ G(c) \in Seen /\ Kept(G(c))
    BY <2>1, <2>2 DEF StepsOf, Seen, Kept
  <2>4. QED
    BY <1>1, <1>2, <1>4, <2>3, SearchReads DEF At
<1>5. QED
  BY <1>3, <1>4 DEF SearchHead

LEMMA SearchGenerationKeeps ==
    ASSUME OneUpgrader, CacheInvariant, NEW c \in Clients, SearchGeneration(c)
    PROVE  CacheInvariant'
<1>1. At(c, "search", "search-generation") /\ Reads
  BY DEF SearchGeneration
<1>2. /\ call[c].found = {} /\ call[c].offset = 0 /\ call[c].count = 0
      /\ call[c].seen = G(c) /\ Kept(G(c))
  BY <1>1, SearchFacts DEF SearchKnows, At
<1>3. CASE End(c, "empty", None)
  BY <1>1, <1>3, ReadsAndEnds
<1>4. CASE Go(c, "search-embed")
  <2>1. "search-embed" \in StepsOf("search")
    BY DEF StepsOf
  <2>2. QED
    BY <1>1, <1>2, <1>4, <2>1, GoIsSee, SearchReads DEF At
<1>5. QED
  BY <1>3, <1>4 DEF SearchGeneration

LEMMA SearchEmbedKeeps ==
    ASSUME OneUpgrader, CacheInvariant, NEW c \in Clients, SearchEmbed(c)
    PROVE  CacheInvariant'
<1>1. At(c, "search", "search-embed") /\ Reads /\ Go(c, "scan")
  BY DEF SearchEmbed
<1>2. /\ call[c].found = {} /\ call[c].offset = 0 /\ call[c].count = 0
      /\ call[c].seen = G(c) /\ Kept(G(c))
  BY <1>1, SearchFacts DEF SearchKnows, At
<1>3. Chunks[G(c).content] \in SUBSET Nat /\ IsFiniteSet(Chunks[G(c).content])
  BY <1>1, SearchFacts, JoinedFacts DEF At
<1>4. First(Chunks[G(c).content], 0) = {} /\ Cardinality({}) = 0
  BY <1>3, FirstPages, FS_EmptySet
<1>5. "scan" \in StepsOf("search")
  BY DEF StepsOf
<1>6. QED
  BY <1>1, <1>2, <1>4, <1>5, GoIsSee, SearchReads DEF At

LEMMA ScanKeeps ==
    ASSUME OneUpgrader, CacheInvariant, NEW c \in Clients, Scan(c)
    PROVE  CacheInvariant'
<1> DEFINE k == call[c]
           g == G(c)
           chunks == Chunks[g.content]
           page == PageRows(g, k.offset)
<1>1. At(c, "search", "scan") /\ Reads
  BY DEF Scan
<1>2. /\ g \in Generation /\ g.authority = A(c) /\ schema = "v2"
      /\ k.seen = g /\ Kept(g)
      /\ Gone(A(c)) \/ (k.found = First(chunks, k.offset) /\ k.count = Cardinality(k.found))
  BY <1>1, SearchFacts DEF SearchKnows, At
<1>3. /\ chunks \in SUBSET Nat /\ IsFiniteSet(chunks) /\ Joined(g) \subseteq chunks
      /\ ~Gone(A(c)) => Joined(g) = chunks
      /\ Cardinality(chunks) \in Nat
  BY <1>2, JoinedFacts, FS_CardinalityType
<1>4. /\ call \in [Clients -> CallRecord] /\ k \in CallRecord
      /\ k.offset \in Nat /\ k.count \in Nat /\ k.found \in SUBSET Nat
  BY DEF CacheInvariant, CallRecord
<1>5. CASE k.offset < Cardinality(chunks) /\
           call' = [call EXCEPT ![c].found = @ \cup page, ![c].offset = @ + PageSize,
                                ![c].count = @ + Cardinality(page)]
  <2> DEFINE f == k.found \cup page
             o == k.offset + PageSize
             n == k.count + Cardinality(page)
  <2>1. Joined(g) \in SUBSET Nat /\ IsFiniteSet(Joined(g))
    BY <1>3, FS_Subset
  <2>2. /\ page \subseteq Nat /\ Cardinality(page) \in Nat
        /\ First(Joined(g), o) = First(Joined(g), k.offset) \cup page
        /\ Cardinality(First(Joined(g), o)) =
              Cardinality(First(Joined(g), k.offset)) + Cardinality(page)
    BY <1>4, <2>1, FirstPages DEF PageRows
  <2>3. Gone(A(c)) \/ (f = First(chunks, o) /\ n = Cardinality(f))
    BY <1>2, <1>3, <2>2
  <2>4. f \in SUBSET Nat /\ o \in Nat /\ n \in Nat
    BY <1>4, <2>2, SemanticAssumption
  <2>5. call' = [call EXCEPT ![c].found = f, ![c].offset = o, ![c].count = n]
    BY <1>4, <1>5
  <2> HIDE DEF f, o, n, page
  <2>6. [k EXCEPT !.found = f, !.offset = o, !.count = n] \in CallRecord
    BY <1>4, <2>4 DEF CallRecord
  <2>7. /\ call' \in [Clients -> CallRecord]
        /\ \A d \in Clients \ {c} : call'[d] = call[d]
        /\ call'[c] = [k EXCEPT !.found = f, !.offset = o, !.count = n]
    BY <1>4, <2>5, <2>6
  <2>8. /\ call'[c].found = f /\ call'[c].offset = o /\ call'[c].count = n
        /\ call'[c].job = "search" /\ call'[c].step = "scan" /\ call'[c].seen = g
        /\ call'[c].request = k.request /\ call'[c].outcome = k.outcome
        /\ call'[c].within = k.within
    BY <1>1, <1>2, <1>4, <2>7 DEF CallRecord, At
  <2>9. A(c)' = A(c) /\ g' = g
    BY <2>8 DEF A, G
  <2>10. UNCHANGED <<schema, generations, purges>>
    BY <1>1 DEF Reads, tables, data
  <2>11. Kept(G(c))' /\ (Gone(A(c))' \/ (f = First(chunks, o) /\ n = Cardinality(f)))
    BY <1>2, <2>3, <2>9, <2>10 DEF Kept, Gone
  <2>12. SearchKnows(c)'
    BY <2>8, <2>9, <2>11 DEF SearchKnows, At, First, Rank
  <2>13. Knows(c)'
    BY <1>2, <2>8, <2>10, <2>12 DEF Knows, BootstrapKnows, StageKnows, PublishKnows,
                                    HeadKnows, PurgeKnows, At, Step
  <2>14. "scan" \in StepsOf("search")
    BY DEF StepsOf
  <2>15. QED
    BY <1>1, <2>7, <2>8, <2>13, <2>14, ReadsSound, GoesOn DEF At
<1>6. CASE ~(k.offset < Cardinality(chunks)) /\ k.count = Cardinality(chunks)
           /\ Go(c, "search-again")
  <2>1. First(chunks, k.offset) = chunks
    <3>1. Cardinality(chunks) <= k.offset
      BY <1>3, <1>4, <1>6
    <3> HIDE DEF chunks
    <3>2. QED
      BY <1>3, <1>4, <3>1, FirstPages
  <2>2. Gone(A(c)) \/ k.found = chunks
    BY <1>2, <2>1
  <2>3. "search-again" \in StepsOf("search")
    BY DEF StepsOf
  <2>4. QED
    BY <1>1, <1>2, <1>6, <2>2, <2>3, GoIsSee, SearchReads DEF At
<1>7. CASE ~(k.offset < Cardinality(chunks)) /\ k.count # Cardinality(chunks)
           /\ End(c, "integrity", None)
  <2>1. First(chunks, k.offset) = chunks
    <3>1. Cardinality(chunks) <= k.offset
      BY <1>3, <1>4, <1>7
    <3> HIDE DEF chunks
    <3>2. QED
      BY <1>3, <1>4, <3>1, FirstPages
  <2>2. Gone(A(c))
    BY <1>2, <1>7, <2>1
  <2>3. None \in Reportable /\ call[c].job \in CacheJobs
    BY <1>1 DEF Reportable, At, CacheJobs
  <2>4. QED
    BY <1>1, <1>7, <2>2, <2>3, ReadsAndReports DEF At
<1>8. QED
  BY <1>2, <1>5, <1>6, <1>7 DEF Scan

LEMMA SearchAgainKeeps ==
    ASSUME OneUpgrader, CacheInvariant, NEW c \in Clients, SearchAgain(c)
    PROVE  CacheInvariant'
<1>1. At(c, "search", "search-again") /\ Reads
  BY DEF SearchAgain
<1>2. /\ call[c].seen = G(c) /\ Kept(G(c))
      /\ Gone(A(c)) \/ call[c].found = Chunks[G(c).content]
  BY <1>1, SearchFacts DEF SearchKnows, At
<1>3. CASE End(c, "empty", None)
  BY <1>1, <1>3, ReadsAndEnds
<1>4. CASE Go(c, "search-last")
  <2>1. "search-last" \in StepsOf("search")
    BY DEF StepsOf
  <2>2. QED
    BY <1>1, <1>2, <1>4, <2>1, GoIsSee, SearchReads DEF At
<1>5. QED
  BY <1>3, <1>4 DEF SearchAgain

LEMMA SearchLastKeeps ==
    ASSUME OneUpgrader, CacheInvariant, NEW c \in Clients, SearchLast(c)
    PROVE  CacheInvariant'
<1>1. At(c, "search", "search-last") /\ Reads
  BY DEF SearchLast
<1>2. Gone(A(c)) \/ call[c].found = Chunks[G(c).content]
  BY <1>1, SearchFacts DEF SearchKnows, At
<1>3. CASE End(c, "empty", None)
  BY <1>1, <1>3, ReadsAndEnds
<1>4. CASE ~Purged(c) /\ End(c, "ok", call[c].found)
  <2>1. call[c].found = Chunks[G(c).content]
    BY <1>2, <1>4 DEF Purged, Gone
  <2>2. call[c].found \in Reportable
    BY Facts DEF CallRecord, Reportable
  <2>3. QED
    BY <1>1, <1>4, <2>1, <2>2, ReadsAndReports DEF At
<1>5. QED
  BY <1>3, <1>4 DEF SearchLast
-----------------------------------------------------------------------------
(* publishedHead.                                                          *)

LEMMA HeadFacts ==
    ASSUME CacheInvariant, NEW c \in Clients, call[c].job = "head"
    PROVE  /\ A(c) \in Authorities /\ schema = "v2" /\ HeadKnows(c)
           /\ heads[A(c)] # None =>
                 /\ heads[A(c)] \in Generation /\ heads[A(c)] \in generations
                 /\ heads[A(c)].authority = A(c)
<1>1. A(c) \in Authorities /\ schema = "v2" /\ HeadKnows(c)
  BY Facts, RequestTypes DEF Knows, CacheJobs
<1>2. QED
  BY <1>1, Facts DEF CacheSound, UpgradeTypeOK

LEMMA HeadPurgedKeeps ==
    ASSUME OneUpgrader, CacheInvariant, NEW c \in Clients, HeadPurged(c)
    PROVE  CacheInvariant'
<1>1. CASE At(c, "head", "head-purged") /\ UnlessPurged(c, "empty", "head-read")
  <2>1. "head-read" \in StepsOf("head")
    BY DEF StepsOf
  <2>2. Go(c, "head-read") /\ Reads => CacheInvariant'
    BY <1>1, <2>1, GoIsSee, HeadReadsOn DEF At
  <2>3. QED
    BY <1>1, <2>2, UnlessPurgedKeeps
<1>2. CASE At(c, "head", "head-purged-again") /\ UnlessPurged(c, "empty", "head-again")
  <2>1. "head-again" \in StepsOf("head")
    BY DEF StepsOf
  <2>2. /\ call[c].seen \in Generation /\ call[c].seen.authority = A(c) /\ Kept(call[c].seen)
        /\ Gone(A(c)) \/ heads[A(c)] # None
    BY <1>2, HeadFacts DEF HeadKnows, At
  <2>3. Go(c, "head-again") /\ Reads => CacheInvariant'
    BY <1>2, <2>1, <2>2, GoIsSee, HeadReadsOn DEF At
  <2>4. QED
    BY <1>2, <2>3, UnlessPurgedKeeps
<1>3. QED
  BY <1>1, <1>2 DEF HeadPurged

LEMMA HeadReadKeeps ==
    ASSUME OneUpgrader, CacheInvariant, NEW c \in Clients, HeadRead(c)
    PROVE  CacheInvariant'
<1> DEFINE head == heads[A(c)]
<1>1. At(c, "head", "head-read") /\ Reads
  BY DEF HeadRead
<1>2. CASE End(c, "empty", None)
  BY <1>1, <1>2, ReadsAndEnds
<1>3. CASE head # None /\ See(c, "head-generation", head)
  <2>1. head \in Generation /\ head.authority = A(c) /\ Kept(head)
    BY <1>1, <1>3, HeadFacts DEF At, Kept
  <2>2. "head-generation" \in StepsOf("head") /\ head \in Seen
    BY <2>1 DEF StepsOf, Seen
  <2>3. QED
    BY <1>1, <1>3, <2>1, <2>2, HeadReadsOn DEF At
<1>4. QED
  BY <1>2, <1>3 DEF HeadRead

\* The generation of a head is missing only after a purge.
LEMMA HeadGenerationKeeps ==
    ASSUME OneUpgrader, CacheInvariant, NEW c \in Clients, HeadGeneration(c)
    PROVE  CacheInvariant'
<1> DEFINE g == call[c].seen
<1>1. At(c, "head", "head-generation") /\ Reads
  BY DEF HeadGeneration
<1>2. /\ g \in Generation /\ g.authority = A(c) /\ Kept(g)
      /\ Gone(A(c)) \/ heads[A(c)] # None
  BY <1>1, HeadFacts DEF HeadKnows, At
<1>3. "head-purged-again" \in StepsOf("head") /\ "head-gone" \in StepsOf("head")
  BY DEF StepsOf
<1>4. CASE Go(c, "head-purged-again")
  BY <1>1, <1>2, <1>3, <1>4, GoIsSee, HeadReadsOn DEF At
<1>5. CASE Go(c, "head-gone") /\ Stored(A(c), g.number) # g
  <2>1. Gone(A(c))
    BY <1>2, <1>5, StoredIs DEF Kept
  <2>2. QED
    BY <1>1, <1>3, <1>5, <2>1, GoIsSee, HeadReadsOn DEF At
<1>6. QED
  BY <1>4, <1>5 DEF HeadGeneration

LEMMA HeadGoneKeeps ==
    ASSUME OneUpgrader, CacheInvariant, NEW c \in Clients, HeadGone(c)
    PROVE  CacheInvariant'
<1>1. At(c, "head", "head-gone") /\ Reads
  BY DEF HeadGone
<1>2. Gone(A(c))
  BY <1>1, HeadFacts DEF HeadKnows, At
<1>3. End(c, "empty", None)
  BY <1>2 DEF HeadGone, Purged, Gone
<1>4. QED
  BY <1>1, <1>3, ReadsAndEnds

LEMMA HeadAgainKeeps ==
    ASSUME OneUpgrader, CacheInvariant, NEW c \in Clients, HeadAgain(c)
    PROVE  CacheInvariant'
<1>1. At(c, "head", "head-again") /\ Reads
  BY DEF HeadAgain
<1>2. (Gone(A(c)) \/ heads[A(c)] # None) /\ call[c].seen # None
  BY <1>1, HeadFacts, NoneApart DEF HeadKnows, At
<1>3. CASE heads[A(c)] = None
  <2>1. Go(c, "head-gone")
    BY <1>2, <1>3 DEF HeadAgain
  <2>2. "head-gone" \in StepsOf("head")
    BY DEF StepsOf
  <2>3. QED
    BY <1>1, <1>2, <1>3, <2>1, <2>2, GoIsSee, HeadReadsOn DEF At
<1>4. CASE heads[A(c)] # None /\ heads[A(c)] = call[c].seen
  <2>1. End(c, "ok", heads[A(c)])
    BY <1>4 DEF HeadAgain
  <2>2. heads[A(c)] \in Reportable
    BY <1>1, <1>4, HeadFacts DEF At, Reportable
  <2>3. QED
    BY <1>1, <2>1, <2>2, ReadsAndReports DEF At
<1>5. CASE heads[A(c)] # None /\ heads[A(c)] # call[c].seen
  <2>1. End(c, "conflict", None)
    BY <1>5 DEF HeadAgain
  <2>2. QED
    BY <1>1, <2>1, ReadsAndEnds
<1>6. QED
  BY <1>3, <1>4, <1>5
-----------------------------------------------------------------------------
(* purgeAuthority and purgeReceipt.                                        *)

LEMMA PurgeFacts ==
    ASSUME CacheInvariant, NEW c \in Clients, call[c].job \in {"purge", "receipt"}
    PROVE  /\ A(c) \in Authorities /\ schema = "v2" /\ I(c) \in Isolations
           /\ purges[A(c)] \in Receipt \cup {None}
           /\ call[c].job = "purge" => call[c].request.at \in Instants
<1>1. A(c) \in Authorities /\ schema = "v2" /\ I(c) \in Isolations
      /\ (call[c].job = "purge" => call[c].request.at \in Instants)
  BY Facts, RequestTypes DEF Knows, CacheJobs, I
<1>2. QED
  BY <1>1, Facts DEF UpgradeTypeOK

\* A receipt is returned after the residue is looked for, or there is none.
LEMMA WithReceiptKeeps ==
    ASSUME OneUpgrader, CacheInvariant, NEW c \in Clients,
           call[c].job \in {"purge", "receipt"}, Reads,
           NEW otherwise, WithReceipt(c, otherwise),
           otherwise => CacheInvariant'
    PROVE  CacheInvariant'
<1> DEFINE receipt == purges[A(c)]
<1>1. CASE receipt = None
  BY <1>1 DEF WithReceipt
<1>2. CASE End(c, "conflict", None)
  BY <1>2, ReadsAndEnds
<1>3. CASE receipt # None /\ See(c, "residual", receipt)
  <2>1. receipt \in Seen /\ Gone(A(c))
    BY <1>3, PurgeFacts DEF Seen, Gone
  <2>2. "residual" \in StepsOf(call[c].job)
    BY DEF StepsOf
  <2>3. QED
    BY <1>3, <2>1, <2>2, PurgeReads
<1>4. QED
  BY <1>1, <1>2, <1>3 DEF WithReceipt

LEMMA PurgeBeforeKeeps ==
    ASSUME OneUpgrader, CacheInvariant, NEW c \in Clients, PurgeBefore(c)
    PROVE  CacheInvariant'
<1>1. At(c, "purge", "purge-before") /\ Reads /\ WithReceipt(c, Go(c, "purge-head"))
  BY DEF PurgeBefore
<1>2. "purge-head" \in StepsOf("purge")
  BY DEF StepsOf
<1>3. Go(c, "purge-head") => CacheInvariant'
  BY <1>1, <1>2, GoIsSee, PurgeReads DEF At
<1>4. QED
  BY <1>1, <1>3, WithReceiptKeeps DEF At

LEMMA ReadReceiptKeeps ==
    ASSUME OneUpgrader, CacheInvariant, NEW c \in Clients, ReadReceipt(c)
    PROVE  CacheInvariant'
<1>1. At(c, "receipt", "receipt") /\ Reads /\ WithReceipt(c, End(c, "empty", None))
  BY DEF ReadReceipt
<1>2. End(c, "empty", None) => CacheInvariant'
  BY <1>1, ReadsAndEnds
<1>3. QED
  BY <1>1, <1>2, WithReceiptKeeps DEF At

LEMMA PurgeAfterKeeps ==
    ASSUME OneUpgrader, CacheInvariant, NEW c \in Clients, PurgeAfter(c)
    PROVE  CacheInvariant'
<1>1. At(c, "purge", "purge-after") /\ Reads /\ WithReceipt(c, End(c, "conflict", None))
  BY DEF PurgeAfter
<1>2. End(c, "conflict", None) => CacheInvariant'
  BY <1>1, ReadsAndEnds
<1>3. QED
  BY <1>1, <1>2, WithReceiptKeeps DEF At

LEMMA PurgeHeadKeeps ==
    ASSUME OneUpgrader, CacheInvariant, NEW c \in Clients, PurgeHead(c)
    PROVE  CacheInvariant'
<1>1. At(c, "purge", "purge-head") /\ Reads
  BY DEF PurgeHead
<1>2. CASE End(c, "conflict", None)
  BY <1>1, <1>2, ReadsAndEnds
<1>3. CASE Go(c, "purge-owner")
  <2>1. "purge-owner" \in StepsOf("purge")
    BY DEF StepsOf
  <2>2. QED
    BY <1>1, <1>3, <2>1, GoIsSee, PurgeReads DEF At
<1>4. QED
  BY <1>2, <1>3 DEF PurgeHead

LEMMA PurgeOwnerKeeps ==
    ASSUME OneUpgrader, CacheInvariant, NEW c \in Clients, PurgeOwner(c)
    PROVE  CacheInvariant'
<1>1. At(c, "purge", "purge-owner") /\ Reads
  BY DEF PurgeOwner
<1>2. "purge-scopes" \in StepsOf("purge") /\ "purge-batch" \in StepsOf("purge")
  BY DEF StepsOf
<1>3. \/ Go(c, "purge-scopes") \/ Go(c, "purge-batch") \/ End(c, "conflict", None)
  BY DEF PurgeOwner
<1>4. CASE Go(c, "purge-scopes")
  BY <1>1, <1>2, <1>4, GoIsSee, PurgeReads DEF At
<1>5. CASE Go(c, "purge-batch")
  BY <1>1, <1>2, <1>5, GoIsSee, PurgeReads DEF At
<1>6. CASE End(c, "conflict", None)
  BY <1>1, <1>6, ReadsAndEnds
<1>7. QED
  BY <1>3, <1>4, <1>5, <1>6

LEMMA PurgeScopesKeeps ==
    ASSUME OneUpgrader, CacheInvariant, NEW c \in Clients, PurgeScopes(c)
    PROVE  CacheInvariant'
<1>1. At(c, "purge", "purge-scopes") /\ Reads
  BY DEF PurgeScopes
<1>2. CASE End(c, "conflict", None)
  BY <1>1, <1>2, ReadsAndEnds
<1>3. CASE Go(c, "purge-reserve")
  <2>1. "purge-reserve" \in StepsOf("purge")
    BY DEF StepsOf
  <2>2. QED
    BY <1>1, <1>3, <2>1, GoIsSee, PurgeReads DEF At
<1>4. QED
  BY <1>2, <1>3 DEF PurgeScopes

LEMMA PurgeReserveKeeps ==
    ASSUME OneUpgrader, CacheInvariant, NEW c \in Clients, PurgeReserve(c)
    PROVE  CacheInvariant'
<1>1. At(c, "purge", "purge-reserve") /\ UnlessPurged(c, "purged", "reserve")
  BY DEF PurgeReserve
<1>2. "reserve" \in StepsOf("purge")
  BY DEF StepsOf
<1>3. Go(c, "reserve") /\ Reads => CacheInvariant'
  BY <1>1, <1>2, GoIsSee, PurgeReads DEF At
<1>4. QED
  BY <1>1, <1>3, UnlessPurgedKeeps

LEMMA CheckResidualKeeps ==
    ASSUME OneUpgrader, CacheInvariant, NEW c \in Clients, CheckResidual(c)
    PROVE  CacheInvariant'
<1>1. Step(c) = "residual" /\ call[c].job \in {"purge", "receipt"} /\ Reads
  BY SharedSteps DEF CheckResidual
<1>2. Gone(A(c)) /\ purges[A(c)] = call[c].seen
  BY <1>1, Facts DEF Knows, PurgeKnows
<1>3. ~Residual(A(c))
  BY <1>1, <1>2, PurgeFacts, Facts DEF CacheSound, Gone
<1>4. End(c, "ok", call[c].seen)
  BY <1>3 DEF CheckResidual
<1>5. call[c].seen \in Reportable /\ call[c].seen # None
  BY <1>1, <1>2, PurgeFacts DEF Reportable, Gone
<1>6. QED
  BY <1>1, <1>2, <1>4, <1>5, ReadsAndReports
\* What the batch counts is finite.
LEMMA ReceiptTypes ==
    ASSUME CacheInvariant, NEW a \in Authorities, NEW i \in Isolations, NEW at \in Instants
    PROVE  ReceiptOf(a, i, at) \in Receipt /\ ReceiptOf(a, i, at).isolation = i
<1> DEFINE gs == {g \in generations : g.authority = a}
           ms == {m \in memberships : m.of.authority = a}
           vs == {v \in vectors : v[1] \in Scopes(a)}
<1>1. IsFiniteSet(generations) /\ IsFiniteSet(memberships) /\ IsFiniteSet(vectors)
      /\ IsFiniteSet(Isolations)
  BY SemanticAssumption DEF CacheInvariant, TablesSound, Finite
<1>2. gs \subseteq generations /\ ms \subseteq memberships /\ vs \subseteq vectors
      /\ Scopes(a) \subseteq Isolations
  BY DEF Scopes
<1> HIDE DEF gs, ms, vs
<1>3. IsFiniteSet(gs) /\ IsFiniteSet(ms) /\ IsFiniteSet(vs) /\ IsFiniteSet(Scopes(a))
  BY <1>1, <1>2, FS_Subset
<1>4. /\ Cardinality(gs) \in Nat /\ Cardinality(ms) \in Nat /\ Cardinality(vs) \in Nat
      /\ Cardinality(Scopes(a)) \in Nat
  BY <1>3, FS_CardinalityType
<1>5. heads[a] \in Generation \cup {None}
  BY DEF CacheInvariant, TablesSound, CacheSound, UpgradeTypeOK
<1>6. ReceiptOf(a, i, at) =
        [isolation |-> i, head |-> heads[a], at |-> at, generations |-> Cardinality(gs),
         memberships |-> Cardinality(ms), vectors |-> Cardinality(vs),
         scopes |-> Cardinality(Scopes(a)), recorded |-> TRUE]
  BY DEF ReceiptOf, gs, ms, vs
<1>7. QED
  BY <1>4, <1>5, <1>6 DEF Receipt

\* A tombstone comes with the deletion of everything its authority has, and of
\* nothing else.
LEMMA PurgeSound ==
    ASSUME CacheInvariant, NEW c \in Clients, schema = "v2",
           NEW a \in Authorities, NEW row \in Receipt, ~Gone(a),
           purges' = [purges EXCEPT ![a] = row],
           heads' = [heads EXCEPT ![a] = None],
           memberships' = {m \in memberships : m.of.authority # a},
           vectors' = {v \in vectors : v[1] \notin Scopes(a)},
           generations' = {g \in generations : g.authority # a},
           UNCHANGED <<schema, transition, isolations, opened>>
    PROVE  Grows(c) /\ TablesSound'
<1>1. UpgradeTypeOK /\ CacheSound /\ SchemaSound /\ Finite
  BY DEF CacheInvariant, TablesSound, CacheSound
<1>2. /\ heads \in [Authorities -> Generation \cup {None}]
      /\ purges \in [Authorities -> Receipt \cup {None}]
      /\ generations \subseteq Generation /\ vectors \subseteq Isolations \X Inputs
      /\ memberships \subseteq Membership /\ Pending = {}
      /\ isolations \in [Isolations -> Reservation \cup {None}]
  BY <1>1 DEF UpgradeTypeOK, SchemaSound
<1>3. /\ purges'[a] = row /\ heads'[a] = None
      /\ \A b \in Authorities : b # a => purges'[b] = purges[b] /\ heads'[b] = heads[b]
      /\ purges' \in [Authorities -> Receipt \cup {None}]
      /\ heads' \in [Authorities -> Generation \cup {None}]
  BY <1>2
<1>4. row # None
  BY NoneApart
<1>5. \A b \in Authorities : transition[b] = None
  BY <1>2 DEF Pending
<1>6. \A b \in Authorities : Gone(b) => b # a /\ purges'[b] = purges[b]
  BY <1>3
<1>7. Grows(c)
  <2>1. \A b \in Authorities : Tombstone(b) # None => Tombstone(b)' = Tombstone(b)
    <3>1. SUFFICES ASSUME NEW b \in Authorities, Tombstone(b) # None
                   PROVE  Tombstone(b)' = Tombstone(b)
      OBVIOUS
    <3>2. Gone(b) /\ transition[b] = None
      BY <1>5, <3>1 DEF Tombstone, Gone
    <3>3. purges'[b] = purges[b]
      BY <1>6, <3>2
    <3>4. QED
      BY <3>2, <3>3 DEF Tombstone
  <2>2. \A g \in Generation : Kept(g) => Kept(g)'
    <3>1. SUFFICES ASSUME NEW g \in Generation, Kept(g)
                   PROVE  Kept(g)'
      OBVIOUS
    <3>2. g.authority \in Authorities
      BY DEF Generation
    <3>3. QED
      BY <1>3, <1>4, <1>6, <3>1, <3>2 DEF Kept, Gone
  <2>3. \A g \in Generation : Passed(g) => Passed(g)'
    <3>1. SUFFICES ASSUME NEW g \in Generation, Passed(g)
                   PROVE  Passed(g)'
      OBVIOUS
    <3>2. g.authority \in Authorities
      BY DEF Generation
    <3>3. QED
      BY <1>3, <1>4, <1>6, <3>1, <3>2 DEF Passed, Gone
  <2>4. \A b \in Authorities : heads[b] # None => Gone(b)' \/ heads'[b] # None
    BY <1>3, <1>4 DEF Gone
  <2>5. QED
    BY <1>6, <2>1, <2>2, <2>3, <2>4 DEF Grows
<1>8. \A g \in generations' : g \in generations /\ g.authority # a /\ Whole(g)'
  <2>1. \A g : g.authority # a => MembershipsOf(g)' = MembershipsOf(g)
    BY DEF MembershipsOf
  <2>2. QED
    BY <1>1, <2>1 DEF CacheSound, Whole
<1>9. \A g \in generations' :
         /\ isolations[g.isolation] # None /\ isolations[g.isolation].owner = g.authority
         /\ {g.isolation} \X Chunks[g.content] \subseteq vectors'
  <2>1. SUFFICES ASSUME NEW g \in generations'
                 PROVE  /\ isolations[g.isolation] # None
                        /\ isolations[g.isolation].owner = g.authority
                        /\ {g.isolation} \X Chunks[g.content] \subseteq vectors'
    OBVIOUS
  <2>2. /\ isolations[g.isolation] # None /\ isolations[g.isolation].owner = g.authority
        /\ {g.isolation} \X Chunks[g.content] \subseteq vectors
    BY <1>1, <1>8 DEF CacheSound
  <2>3. g.isolation \notin Scopes(a)
    BY <1>8, <2>2 DEF Scopes
  <2>4. QED
    BY <2>2, <2>3
<1>10. \A b \in Authorities : purges'[b] # None => ~Residual(b)'
  <2>1. ~Residual(a)'
    <3>1. \A v \in vectors : v[1] \in Isolations
      BY <1>2
    <3>2. \A v \in vectors' : ~(isolations[v[1]] # None /\ isolations[v[1]].owner = a)
      BY <3>1 DEF Scopes
    <3>3. QED
      BY <1>3, <3>2 DEF Residual
  <2>2. \A b \in Authorities : b # a /\ Residual(b)' => Residual(b)
    BY <1>3 DEF Residual
  <2>3. QED
    BY <1>1, <1>3, <2>1, <2>2 DEF CacheSound
<1>11. UpgradeTypeOK'
  BY <1>1, <1>2, <1>3 DEF UpgradeTypeOK, Pending
<1>12. CacheSound'
  <2>1. \A g, h \in generations' : h.authority = g.authority /\ h.number = g.number => h = g
    BY <1>1 DEF CacheSound
  <2>2. \A m \in memberships' : m.of \in generations'
    BY <1>1 DEF CacheSound
  <2>3. \A v \in vectors' : isolations[v[1]] # None
    BY <1>1 DEF CacheSound
  <2>4. \A b \in Authorities :
           heads'[b] # None => heads'[b] \in generations' /\ heads'[b].authority = b
    BY <1>1, <1>3 DEF CacheSound
  <2>5. QED
    BY <1>8, <1>9, <1>10, <1>11, <2>1, <2>2, <2>3, <2>4 DEF CacheSound
<1>13. SchemaSound'
  BY <1>1, <1>3, <1>5 DEF SchemaSound
<1>14. Finite'
  <2>1. generations' \subseteq generations /\ memberships' \subseteq memberships
        /\ vectors' \subseteq vectors
    OBVIOUS
  <2>2. IsFiniteSet(generations) /\ IsFiniteSet(memberships) /\ IsFiniteSet(vectors)
    BY <1>1 DEF Finite
  <2>3. IsFiniteSet(generations') /\ IsFiniteSet(memberships') /\ IsFiniteSet(vectors')
    BY <2>1, <2>2, FS_Subset
  <2>4. QED
    BY <2>3 DEF Finite
<1>15. QED
  BY <1>7, <1>12, <1>13, <1>14 DEF TablesSound

\* The statements after the tombstone delete nothing when it was there before.
LEMMA PurgeBatchSound ==
    ASSUME CacheInvariant, NEW c \in Clients, PurgeBatch(c)
    PROVE  Grows(c) /\ TablesSound' /\ schema = "v2" /\ schema' = "v2"
<1> DEFINE a == A(c)
           row == ReceiptOf(A(c), I(c), call[c].request.at)
<1>1. call[c].job = "purge"
  BY DEF PurgeBatch, At
<1>2. /\ a \in Authorities /\ schema = "v2" /\ I(c) \in Isolations
      /\ purges[a] \in Receipt \cup {None} /\ call[c].request.at \in Instants
  BY <1>1, PurgeFacts
<1>3. row \in Receipt /\ row.isolation = I(c) /\ row # None
  BY <1>2, ReceiptTypes, NoneApart
<1>4. UpgradeTypeOK /\ CacheSound /\ purges \in [Authorities -> Receipt \cup {None}]
  BY <1>2, Facts DEF SchemaSound
<1>5. UNCHANGED <<schema, transition, isolations, opened>>
  BY DEF PurgeBatch
<1>6. purges' = [purges EXCEPT ![a] = IF PurgeInserts(c) THEN row ELSE @]
  BY DEF PurgeBatch
<1>7. CASE PurgeInserts(c)
  <2>1. ~Gone(a)
    BY <1>7 DEF PurgeInserts, Gone
  <2>2. purges' = [purges EXCEPT ![a] = row]
    BY <1>6, <1>7
  <2>3. purges'[a] # None /\ purges'[a].isolation = I(c)
    BY <1>2, <1>3, <1>4, <2>2
  <2>4. /\ heads' = [heads EXCEPT ![a] = None]
        /\ memberships' = {m \in memberships : m.of.authority # a}
        /\ vectors' = {v \in vectors : v[1] \notin Scopes(a)}
        /\ generations' = {g \in generations : g.authority # a}
    BY <2>3 DEF PurgeBatch, Cleared
  <2> HIDE DEF a, row
  <2>5. Grows(c) /\ TablesSound'
    BY <1>2, <1>3, <1>5, <2>1, <2>2, <2>4, PurgeSound
  <2>6. QED
    BY <1>2, <1>5, <2>5
<1>8. CASE ~PurgeInserts(c)
  <2>1. purges' = purges
    BY <1>2, <1>4, <1>6, <1>8
  <2>2. UNCHANGED <<heads, memberships, vectors, generations>>
    <3>1. CASE ~(purges'[a] # None /\ purges'[a].isolation = I(c))
      BY <3>1 DEF PurgeBatch
    <3>2. CASE purges'[a] # None /\ purges'[a].isolation = I(c)
      <4>1. /\ heads' = [heads EXCEPT ![a] = None]
            /\ memberships' = {m \in memberships : m.of.authority # a}
            /\ vectors' = {v \in vectors : v[1] \notin Scopes(a)}
            /\ generations' = {g \in generations : g.authority # a}
        BY <3>2 DEF PurgeBatch, Cleared
      <4>2. ~Residual(a)
        BY <1>2, <1>4, <2>1, <3>2 DEF CacheSound
      <4>3. heads' = heads
        BY <1>2, <1>4, <4>1, <4>2 DEF Residual, UpgradeTypeOK
      <4>4. generations' = generations /\ memberships' = memberships
        BY <4>1, <4>2 DEF Residual
      <4>5. vectors' = vectors
        BY <4>1, <4>2 DEF Residual, Scopes
      <4>6. QED
        BY <4>3, <4>4, <4>5
    <3>3. QED
      BY <3>1, <3>2
  <2>3. Reads
    BY <1>5, <2>1, <2>2 DEF Reads, tables, data
  <2>4. QED
    BY <1>2, <1>5, <2>3, ReadsSound
<1>9. QED
  BY <1>7, <1>8

LEMMA PurgeBatchKeeps ==
    ASSUME OneUpgrader, CacheInvariant, NEW c \in Clients, PurgeBatch(c)
    PROVE  CacheInvariant'
<1>1. Grows(c) /\ TablesSound' /\ schema = "v2" /\ schema' = "v2"
  BY PurgeBatchSound
<1>2. At(c, "purge", "purge-batch") /\ Answered(c, "purge-after")
  BY DEF PurgeBatch
<1>3. Go(c, "purge-after") => CacheInvariant'
  <2>1. SUFFICES ASSUME Go(c, "purge-after")
                 PROVE  CacheInvariant'
    OBVIOUS
  <2>2. "purge-after" \in StepsOf(call[c].job)
    BY <1>2 DEF StepsOf, At
  <2>3. call'[c].step = "purge-after" /\ call'[c].job = "purge"
    BY <1>2, <2>1, <2>2, GoIsSee, SeeFields DEF At
  <2>4. Knows(c)'
    BY <1>1, <2>3 DEF Knows, BootstrapKnows, StageKnows, PublishKnows, SearchKnows,
                      HeadKnows, PurgeKnows, At, Step
  <2>5. QED
    BY <1>1, <1>2, <2>1, <2>2, <2>4, GoIsSee, SeesOn DEF At
<1>4. QED
  BY <1>1, <1>2, <1>3, AnsweredSound DEF At
-----------------------------------------------------------------------------
(* Calls begin.                                                            *)

\* A client without a call holds nothing and has reported nothing.
LEMMA IdleTypes ==
    /\ Idle(NoOutcome) \in CallRecord /\ Idle(NoOutcome).outcome = NoOutcome
    /\ Idle(NoOutcome).job = "none" /\ Idle(NoOutcome).step = "idle"
    /\ Idle(NoOutcome).request = None /\ Idle(NoOutcome).within = "call"
    /\ Idle(NoOutcome).found = {} /\ Idle(NoOutcome).offset = 0 /\ Idle(NoOutcome).count = 0
    /\ NoOutcome.job = "none" /\ NoOutcome.result = "none" /\ NoOutcome.request = None
<1>1. NoOutcome = [job |-> "none", request |-> None, result |-> "none", value |-> None]
  BY DEF NoOutcome, Outcome
<1>2. NoOutcome \in Report
  <2>1. "none" \in Jobs /\ None \in Requests /\ "none" \in Results /\ None \in Reportable
    BY DEF Jobs, Requests, Results, Reportable
  <2>2. QED
    BY <1>1, <2>1 DEF Report
<1>3. "none" \in Jobs /\ None \in Requests /\ None \in Seen /\ {} \in SUBSET Nat
  BY DEF Jobs, Requests, Seen
<1>4. "idle" \in Steps
  BY <1>3 DEF Steps, StepsOf
<1>5. QED
  BY <1>1, <1>2, <1>3, <1>4 DEF Idle, CallRecord

\* A client forgets its last outcome when it begins a call.
LEMMA BeginsWell ==
    ASSUME OneUpgrader, CacheInvariant, NEW c \in Clients,
           NEW job \in Jobs, NEW step \in StepsOf(job), NEW request \in RequestsOf(job),
           Begin(c, job, step, "call", request),
           step \notin {"publish-after", "published"},
           job \in CacheJobs => schema = "v2",
           job \notin CacheJobs \cup {"none"} => step \in {"verify-transition", "inventory", "v1-before"},
           job = "bootstrap" /\ schema = "v1" => c \in Upgraders,
           job \in CacheJobs => step \in {"stage-purged", "publish-purged", "search-purged",
                                         "head-purged", "purge-before", "receipt"}
    PROVE  CacheInvariant'
<1> DEFINE idle == Idle(NoOutcome)
           k == [idle EXCEPT !.job = job, !.step = step, !.within = "call", !.request = request]
<1>1. /\ idle \in CallRecord /\ idle.outcome = NoOutcome /\ idle.found = {}
      /\ idle.offset = 0 /\ idle.count = 0
  BY IdleTypes
<1>2. request \in Requests
  BY DEF RequestsOf, Requests
<1>3. step \in Steps
  BY DEF Steps
<1> HIDE DEF idle
<1>4. k \in CallRecord
  BY <1>1, <1>2, <1>3 DEF CallRecord
<1>5. /\ k.job = job /\ k.step = step /\ k.request = request
      /\ k.within = "call" /\ k.outcome = NoOutcome
      /\ k.found = {} /\ k.offset = 0 /\ k.count = 0
  BY <1>1 DEF CallRecord
<1>6. call' = [call EXCEPT ![c] = k] /\ Reads
  BY DEF Begin, Reads, idle
<1> HIDE DEF k
<1>7. /\ call' \in [Clients -> CallRecord]
      /\ \A d \in Clients \ {c} : call'[d] = call[d]
      /\ call'[c].job = job /\ call'[c].step = step /\ call'[c].request = request
      /\ call'[c].within = "call" /\ call'[c].outcome = NoOutcome
      /\ call'[c].found = {} /\ call'[c].offset = 0 /\ call'[c].count = 0
  BY <1>4, <1>5, <1>6 DEF CacheInvariant
<1>8. NoOutcome.job = "none" /\ NoOutcome.result = "none" /\ NoOutcome.request = None
  BY IdleTypes
<1>9. CallOK(c)'
  <2>1. None \in RequestsOf("none")
    BY DEF RequestsOf
  <2>2. QED
    BY <1>7, <1>8, <2>1 DEF CallOK
<1>10. schema' = schema
  BY <1>6 DEF Reads, tables
<1>11. Knows(c)'
  <2>1. job \in CacheJobs => schema' = "v2"
    BY <1>10
  <2>2. BootstrapKnows(c)'
    BY <1>7, <1>10 DEF BootstrapKnows, At, Step, CacheJobs, V1Steps
  <2>3. StageKnows(c)'
    BY <1>7 DEF StageKnows, At, Step, CacheJobs
  <2>4. PublishKnows(c)'
    <3>1. job = "publish" => step = "publish-purged"
      BY DEF StepsOf, CacheJobs
    <3>2. QED
      BY <1>7, <3>1 DEF PublishKnows, At, Step
  <2>5. SearchKnows(c)'
    <3>1. job = "search" => step = "search-purged"
      BY DEF StepsOf, CacheJobs
    <3>2. QED
      BY <1>7, <3>1 DEF SearchKnows, At, Step
  <2>6. HeadKnows(c)' /\ PurgeKnows(c)'
    BY <1>7 DEF HeadKnows, PurgeKnows, At, Step, CacheJobs
  <2>7. QED
    BY <1>7, <2>1, <2>2, <2>3, <2>4, <2>5, <2>6 DEF Knows
<1>12. Stands(c)'
  BY <1>7, <1>8 DEF Stands, CacheJobs
<1>13. \A g \in Generation : ~Claims(c, g)'
  BY <1>7, <1>8 DEF Claims, Step
<1>14. QED
  BY <1>6, <1>7, <1>9, <1>11, <1>12, <1>13, ReadsSound, Advance

LEMMA OpenKeeps ==
    ASSUME OneUpgrader, CacheInvariant, NEW c \in Clients, Open(c)
    PROVE  CacheInvariant'
<1>1. Begin(c, "open", "verify-transition", "call", None)
  BY DEF Open
<1>2. "open" \in Jobs /\ "verify-transition" \in StepsOf("open") /\ None \in RequestsOf("open")
  BY DEF Jobs, StepsOf, VerifySteps, RequestsOf
<1>3. "open" \notin CacheJobs
  BY DEF CacheJobs
<1>4. QED
  BY <1>1, <1>2, <1>3, BeginsWell

LEMMA BootstrapKeeps ==
    ASSUME OneUpgrader, CacheInvariant, NEW c \in Clients, MayBootstrap(c), Bootstrap(c)
    PROVE  CacheInvariant'
<1>1. Begin(c, "bootstrap", "inventory", "call", None) /\ (schema = "v1" => c \in Upgraders)
  BY DEF Bootstrap, MayBootstrap
<1>2. "bootstrap" \in Jobs /\ "inventory" \in StepsOf("bootstrap")
      /\ None \in RequestsOf("bootstrap")
  BY DEF Jobs, StepsOf, RequestsOf
<1>3. "bootstrap" \notin CacheJobs
  BY DEF CacheJobs
<1>4. QED
  BY <1>1, <1>2, <1>3, BeginsWell

LEMMA LegacyPurgeKeeps ==
    ASSUME OneUpgrader, CacheInvariant, NEW c \in Clients, LegacyPurge(c)
    PROVE  CacheInvariant'
<1>1. PICK request \in LegacyPurges : Begin(c, "v1-purge", "v1-before", "call", request)
  BY DEF LegacyPurge
<1>2. "v1-purge" \in Jobs /\ "v1-before" \in StepsOf("v1-purge")
      /\ request \in RequestsOf("v1-purge")
  BY DEF Jobs, StepsOf, RequestsOf
<1>3. "v1-purge" \notin CacheJobs
  BY DEF CacheJobs
<1>4. QED
  BY <1>1, <1>2, <1>3, BeginsWell

\* Only an open cache is asked, and its database has version 2.
LEMMA AsksKeep ==
    ASSUME OneUpgrader, CacheInvariant, NEW c \in Clients, Asks(c)
    PROVE  CacheInvariant'
<1>1. c \in opened => schema = "v2"
  BY Facts DEF SchemaSound
<1>2. ASSUME NEW job \in CacheJobs, NEW step \in StepsOf(job), NEW request \in RequestsOf(job),
             c \in opened, Begin(c, job, step, "call", request),
             step \in {"stage-purged", "publish-purged", "search-purged", "head-purged",
                       "purge-before", "receipt"}
      PROVE  CacheInvariant'
  <2>1. job \in Jobs /\ job # "bootstrap" /\ step \notin {"publish-after", "published"}
    BY <1>2 DEF Jobs, CacheJobs
  <2>2. QED
    BY <1>1, <1>2, <2>1, BeginsWell
<1>4. CASE Stage(c)
  <2>1. PICK request \in Stages : Begin(c, "stage", "stage-purged", "call", request)
    BY <1>4 DEF Stage
  <2>2. "stage" \in CacheJobs /\ "stage-purged" \in StepsOf("stage")
        /\ request \in RequestsOf("stage")
    BY DEF CacheJobs, StepsOf, RequestsOf
  <2>3. QED
    BY <1>2, <1>4, <2>1, <2>2 DEF Stage
<1>5. CASE Publish(c)
  <2>1. PICK request \in Publishes : Begin(c, "publish", "publish-purged", "call", request)
    BY <1>5 DEF Publish
  <2>2. "publish" \in CacheJobs /\ "publish-purged" \in StepsOf("publish")
        /\ request \in RequestsOf("publish")
    BY DEF CacheJobs, StepsOf, RequestsOf
  <2>3. QED
    BY <1>2, <1>5, <2>1, <2>2 DEF Publish
<1>6. CASE Search(c)
  <2>1. PICK request \in Searches : Begin(c, "search", "search-purged", "call", request)
    BY <1>6 DEF Search
  <2>2. "search" \in CacheJobs /\ "search-purged" \in StepsOf("search")
        /\ request \in RequestsOf("search")
    BY DEF CacheJobs, StepsOf, RequestsOf
  <2>3. QED
    BY <1>2, <1>6, <2>1, <2>2 DEF Search
<1>7. CASE ReadHead(c)
  <2>1. PICK request \in HeadReads : Begin(c, "head", "head-purged", "call", request)
    BY <1>7 DEF ReadHead
  <2>2. "head" \in CacheJobs /\ "head-purged" \in StepsOf("head")
        /\ request \in RequestsOf("head")
    BY DEF CacheJobs, StepsOf, RequestsOf
  <2>3. QED
    BY <1>2, <1>7, <2>1, <2>2 DEF ReadHead
<1>8. CASE Purge(c)
  <2>1. PICK request \in Purges : Begin(c, "purge", "purge-before", "call", request)
    BY <1>8 DEF Purge
  <2>2. "purge" \in CacheJobs /\ "purge-before" \in StepsOf("purge")
        /\ request \in RequestsOf("purge")
    BY DEF CacheJobs, StepsOf, RequestsOf
  <2>3. QED
    BY <1>2, <1>8, <2>1, <2>2 DEF Purge
<1>9. CASE AskReceipt(c)
  <2>1. PICK request \in Receipts : Begin(c, "receipt", "receipt", "call", request)
    BY <1>9 DEF AskReceipt
  <2>2. "receipt" \in CacheJobs /\ "receipt" \in StepsOf("receipt")
        /\ request \in RequestsOf("receipt")
    BY DEF CacheJobs, StepsOf, RequestsOf
  <2>3. QED
    BY <1>2, <1>9, <2>1, <2>2 DEF AskReceipt
<1>10. QED
  BY <1>4, <1>5, <1>6, <1>7, <1>8, <1>9 DEF Asks
-----------------------------------------------------------------------------
(* open, bootstrap and its transition, and the purge of version 1.         *)

\* A workflow of the upgrade goes on if a bootstrap knows what it should.
LEMMA WorkflowGoesOn ==
    ASSUME OneUpgrader, CacheInvariant, NEW c \in Clients, Grows(c), TablesSound',
           call[c].job \in {"open", "bootstrap", "v1-purge"},
           NEW step \in StepsOf(call[c].job), NEW seen \in Seen,
           NEW within \in {"call", "start", "resume", "finish", "recover"},
           call[c].job = "bootstrap" \/ within = call[c].within,
           call' = [call EXCEPT ![c].step = step, ![c].within = within, ![c].seen = seen],
           step = "inventory" /\ schema' = "v1" => c \in Upgraders,
           step \in V1Steps => c \in Upgraders /\ schema' = "v1",
           step = "materialize" =>
              seen \in Page /\ \A a \in DOMAIN seen : Tombstone(a)' = seen[a],
           step = "remaining" => seen \in Page
    PROVE  CacheInvariant'
<1> DEFINE k == [call[c] EXCEPT !.step = step, !.within = within, !.seen = seen]
<1>1. call \in [Clients -> CallRecord] /\ call[c] \in CallRecord
  BY DEF CacheInvariant
<1>2. step \in Steps
  BY <1>1 DEF Steps, CallRecord
<1>3. k \in CallRecord
  BY <1>1, <1>2 DEF CallRecord
<1>4. /\ k.step = step /\ k.within = within /\ k.seen = seen
      /\ k.job = call[c].job /\ k.request = call[c].request /\ k.outcome = call[c].outcome
  BY <1>1 DEF CallRecord
<1>5. call' = [call EXCEPT ![c] = k]
  BY <1>1
<1> HIDE DEF k
<1>6. /\ call' \in [Clients -> CallRecord]
      /\ \A d \in Clients \ {c} : call'[d] = call[d]
      /\ call'[c].step = step /\ call'[c].within = within /\ call'[c].seen = seen
      /\ call'[c].job = call[c].job /\ call'[c].request = call[c].request
      /\ call'[c].outcome = call[c].outcome
  <2>1. call' \in [Clients -> CallRecord]
    BY <1>1, <1>3, <1>5
  <2>2. call'[c] = k /\ \A d \in Clients \ {c} : call'[d] = call[d]
    BY <1>1, <1>5
  <2>3. QED
    BY <1>4, <2>1, <2>2
<1>7. BootstrapKnows(c)'
  BY <1>6 DEF BootstrapKnows, At, Step
<1>8. Knows(c)'
  BY <1>6, <1>7 DEF Knows, StageKnows, PublishKnows, SearchKnows, HeadKnows, PurgeKnows,
                    At, Step, CacheJobs
<1>9. QED
  BY <1>6, <1>8, GoesOn

LEMMA WorkflowSees ==
    ASSUME OneUpgrader, CacheInvariant, NEW c \in Clients, Reads,
           call[c].job \in {"open", "bootstrap", "v1-purge"},
           NEW step \in StepsOf(call[c].job), NEW seen \in Seen, See(c, step, seen),
           step \notin V1Steps \cup {"inventory"},
           step = "materialize" =>
              seen \in Page /\ \A a \in DOMAIN seen : Tombstone(a)' = seen[a],
           step = "remaining" => seen \in Page
    PROVE  CacheInvariant'
<1>1. call \in [Clients -> CallRecord] /\ call[c] \in CallRecord
  BY DEF CacheInvariant
<1>2. call[c].within \in {"call", "start", "resume", "finish", "recover"}
  BY <1>1 DEF CallRecord
<1>3. call' = [call EXCEPT ![c].step = step, ![c].within = call[c].within, ![c].seen = seen]
  BY <1>1 DEF See, CallRecord
<1>4. QED
  BY <1>2, <1>3, ReadsSound, WorkflowGoesOn

LEMMA WorkflowGoes ==
    ASSUME OneUpgrader, CacheInvariant, NEW c \in Clients, Grows(c), TablesSound',
           call[c].job \in {"open", "bootstrap", "v1-purge"},
           NEW step \in StepsOf(call[c].job), Go(c, step),
           step \notin V1Steps \cup {"inventory", "materialize"},
           step = "remaining" => call[c].seen \in Page
    PROVE  CacheInvariant'
<1>1. call \in [Clients -> CallRecord] /\ call[c] \in CallRecord
  BY DEF CacheInvariant
<1>2. call[c].within \in {"call", "start", "resume", "finish", "recover"}
      /\ call[c].seen \in Seen
  BY <1>1 DEF CallRecord
<1>3. call' = [call EXCEPT ![c].step = step, ![c].within = call[c].within,
                           ![c].seen = call[c].seen]
  BY <1>1 DEF Go, CallRecord
<1>4. QED
  BY <1>2, <1>3, WorkflowGoesOn

LEMMA WorkflowEnters ==
    ASSUME OneUpgrader, CacheInvariant, NEW c \in Clients, Grows(c), TablesSound',
           call[c].job = "bootstrap",
           NEW step \in StepsOf("bootstrap"),
           NEW within \in {"call", "start", "resume", "finish", "recover"},
           Enter(c, step, within),
           step \notin {"inventory", "materialize", "remaining"},
           step \in V1Steps => c \in Upgraders /\ schema' = "v1"
    PROVE  CacheInvariant'
<1>1. call \in [Clients -> CallRecord] /\ call[c] \in CallRecord
  BY DEF CacheInvariant
<1>2. call[c].seen \in Seen
  BY <1>1 DEF CallRecord
<1>3. call' = [call EXCEPT ![c].step = step, ![c].within = within, ![c].seen = call[c].seen]
  BY <1>1 DEF Enter, CallRecord
<1>4. QED
  BY <1>2, <1>3, WorkflowGoesOn

\* The schema steps of a bootstrap.
LEMMA BootstrapSteps ==
    /\ {"create", "inspect", "transition-objects", "transition-marker", "inventory-again",
        "page", "remaining", "finish", "verify-transition", "verify-marker",
        "verify-objects"} \subseteq StepsOf("bootstrap") \ (V1Steps \cup {"inventory", "materialize"})
    /\ V1Steps \cup {"materialize"} \subseteq StepsOf("bootstrap")
    /\ {"verify-transition", "verify-marker", "verify-objects"} \subseteq
          StepsOf("open") \ (V1Steps \cup {"inventory", "materialize"})
    /\ "remaining" \notin {"create", "inspect", "transition-objects", "transition-marker",
          "inventory-again", "page", "finish", "verify-transition", "verify-marker",
          "verify-objects"}
  BY DEF StepsOf, VerifySteps, V1Steps

\* A read that fails or is refused.
LEMMA ReadsAndFails ==
    ASSUME OneUpgrader, CacheInvariant, NEW c \in Clients, Reads, call[c].job # "none",
           NEW error \in {"sql", "refused"}, Failure(c, error)
    PROVE  CacheInvariant'
  BY ReadsSound, Fails

LEMMA VerifyTransitionTableKeeps ==
    ASSUME OneUpgrader, CacheInvariant, NEW c \in Clients, VerifyTransitionTable(c)
    PROVE  CacheInvariant'
<1>1. Reads /\ call[c].job \in {"open", "bootstrap"}
  BY SharedSteps DEF VerifyTransitionTable, VerifySteps
<1>2. CASE Failure(c, "refused")
  BY <1>1, <1>2, ReadsAndFails
<1>3. CASE Go(c, "verify-marker")
  BY <1>1, <1>3, ReadsSound, BootstrapSteps, WorkflowGoes
<1>4. QED
  BY <1>2, <1>3 DEF VerifyTransitionTable

LEMMA VerifyMarkerKeeps ==
    ASSUME OneUpgrader, CacheInvariant, NEW c \in Clients, VerifyMarker(c)
    PROVE  CacheInvariant'
<1>1. Reads /\ call[c].job \in {"open", "bootstrap"}
  BY SharedSteps DEF VerifyMarker, VerifySteps
<1>2. CASE Failure(c, "refused")
  BY <1>1, <1>2, ReadsAndFails
<1>3. CASE Go(c, "verify-objects")
  BY <1>1, <1>3, ReadsSound, BootstrapSteps, WorkflowGoes
<1>4. QED
  BY <1>2, <1>3 DEF VerifyMarker

\* Only the set of open caches changes.
LEMMA OpenedSound ==
    ASSUME CacheInvariant, NEW c \in Clients, UNCHANGED tables,
           opened' \subseteq Clients, schema # "v2" => opened' = {}
    PROVE  Grows(c) /\ TablesSound'
<1>1. UNCHANGED <<schema, transition, isolations, generations, memberships, vectors, heads,
                  purges>>
  BY DEF tables, data
<1>2. UpgradeTypeOK /\ CacheSound /\ SchemaSound /\ Finite
  BY DEF CacheInvariant, TablesSound, CacheSound
<1>3. CacheSound'
  <2>1. UpgradeTypeOK'
    BY <1>1, <1>2 DEF UpgradeTypeOK, Pending
  <2>2. \A g : Whole(g) => Whole(g)'
    BY <1>1 DEF Whole, MembershipsOf
  <2>3. \A a : Residual(a)' => Residual(a)
    BY <1>1 DEF Residual
  <2>4. QED
    BY <1>1, <1>2, <2>1, <2>2, <2>3 DEF CacheSound
<1>4. SchemaSound' /\ Finite'
  BY <1>1, <1>2 DEF SchemaSound, Finite
<1>5. QED
  BY <1>3, <1>4, ReadsGrow DEF TablesSound

\* A bootstrap or an open that succeeds.
LEMMA OpensWell ==
    ASSUME OneUpgrader, CacheInvariant, NEW c \in Clients, Grows(c), TablesSound',
           call[c].job \in {"open", "bootstrap"}, End(c, "ok", None)
    PROVE  CacheInvariant'
<1>1. call \in [Clients -> CallRecord] /\ CallOK(c) /\ "ok" \in Results /\ None \in Reportable
  BY DEF CacheInvariant, Results, Reportable
<1>2. call'[c].outcome = Outcome(call[c].job, call[c].request, "ok", None)
  BY <1>1, EndMakes
<1>3. call'[c].outcome.job = call[c].job /\ call'[c].outcome.result = "ok"
  BY <1>2 DEF Outcome
<1>4. Stands(c)'
  BY <1>3 DEF Stands, CacheJobs
<1>5. QED
  BY <1>1, <1>4, EndsWell

LEMMA VerifyObjectsKeeps ==
    ASSUME OneUpgrader, CacheInvariant, NEW c \in Clients, VerifyObjects(c)
    PROVE  CacheInvariant'
<1>1. UNCHANGED tables /\ call[c].job \in {"open", "bootstrap"} /\ CallOK(c)
  BY SharedSteps, Facts DEF VerifyObjects, VerifySteps
<1>2. call[c].within # "call" => call[c].job = "bootstrap"
  BY <1>1 DEF CallOK
<1>3. opened \subseteq Clients
  BY Facts DEF UpgradeTypeOK
<1>4. CASE schema # "v2"
  BY <1>1, <1>4, ReadsAndFails DEF VerifyObjects, Reads
<1>5. CASE schema = "v2" /\ call[c].within = "start"
  <2>1. Enter(c, "inventory-again", "call") /\ Reads
    BY <1>1, <1>2, <1>5 DEF VerifyObjects, Reads
  <2>2. QED
    BY <1>2, <1>5, <2>1, ReadsSound, BootstrapSteps, WorkflowEnters
<1>6. CASE schema = "v2" /\ call[c].within \in {"finish", "recover"}
  <2>1. Enter(c, "verify-transition", "call") /\ Reads
    BY <1>1, <1>2, <1>6 DEF VerifyObjects, Reads
  <2>2. QED
    BY <1>2, <1>6, <2>1, ReadsSound, BootstrapSteps, WorkflowEnters
<1>7. CASE schema = "v2" /\ call[c].within \notin {"start", "finish", "recover"}
  <2>1. CASE call[c].job = "open"
    <3>1. End(c, "ok", None) /\ opened' = opened \cup {c}
      BY <1>7, <2>1 DEF VerifyObjects
    <3>2. QED
      BY <1>1, <1>3, <1>7, <3>1, OpenedSound, OpensWell
  <2>2. CASE call[c].job # "open"
    <3>1. End(c, "ok", None) /\ Reads
      BY <1>1, <1>7, <2>2 DEF VerifyObjects, Reads
    <3>2. QED
      BY <1>1, <3>1, ReadsSound, OpensWell
  <2>3. QED
    BY <2>1, <2>2
<1>8. QED
  BY <1>4, <1>5, <1>6, <1>7

LEMMA InventoryKeeps ==
    ASSUME OneUpgrader, CacheInvariant, NEW c \in Clients, Inventory(c)
    PROVE  CacheInvariant'
<1>1. Reads /\ call[c].job = "bootstrap"
  BY SharedSteps DEF Inventory
<1>2. schema = "v1" => c \in Upgraders
  BY <1>1, Facts DEF Inventory, Knows, BootstrapKnows, At, Step
<1>3. schema' = schema
  BY <1>1 DEF Reads, tables
<1>4. CASE schema = "none"
  <2>1. Go(c, "create")
    BY <1>4 DEF Inventory
  <2>2. QED
    BY <1>1, <2>1, ReadsSound, BootstrapSteps, WorkflowGoes
<1>5. CASE schema = "v1"
  <2>1. Enter(c, "v1-marker", "start")
    BY <1>5 DEF Inventory
  <2>2. "v1-marker" \in V1Steps /\ "v1-marker" \notin {"inventory", "materialize", "remaining"}
    BY DEF V1Steps
  <2>3. QED
    BY <1>1, <1>2, <1>3, <1>5, <2>1, <2>2, ReadsSound, BootstrapSteps, WorkflowEnters
<1>6. CASE schema \notin {"none", "v1"}
  <2>1. Go(c, "inventory-again")
    BY <1>6 DEF Inventory
  <2>2. QED
    BY <1>1, <2>1, ReadsSound, BootstrapSteps, WorkflowGoes
<1>7. QED
  BY <1>4, <1>5, <1>6
\* Rows without version 2 data: the tables are sound whatever the upgrade has
\* made of the tombstones, if it has kept them.
LEMMA UpgradeSound ==
    ASSUME CacheInvariant, NEW c \in Clients, schema # "v2" \/ schema' # "transition",
           schema' \in Schemas, transition' \in [Authorities -> Instants \cup {None}],
           isolations' \in [Isolations -> Reservation \cup {None}],
           schema' # "transition" => Pending' = {},
           schema = "v2" => schema' = "v2" /\ UNCHANGED <<transition, isolations, purges>>,
           schema = "v1" /\ schema' # "v1" => c \in Upgraders,
           schema # "v1" => \A a \in Authorities : Gone(a) => purges'[a] = purges[a],
           schema' = "v1" => schema = "v1" /\ purges' \in [Authorities -> LegacyRow \cup {None}],
           schema' # "v1" => purges' \in [Authorities -> Receipt \cup {None}],
           \A i \in Isolations : isolations[i] # None => isolations'[i] = isolations[i],
           \A a \in Authorities : Tombstone(a) # None => Tombstone(a)' = Tombstone(a),
           \A a \in Authorities :
               transition'[a] # None /\ purges'[a] # None => purges'[a].at = transition'[a],
           UNCHANGED <<generations, memberships, vectors, heads, opened>>
    PROVE  Grows(c) /\ TablesSound'
<1>1. UpgradeTypeOK /\ CacheSound /\ SchemaSound /\ Finite
  BY DEF CacheInvariant, TablesSound, CacheSound
<1>2. schema # "v2" =>
          /\ generations = {} /\ memberships = {} /\ vectors = {}
          /\ heads = NoRow /\ opened = {}
  BY <1>1 DEF SchemaSound
<1>3. Grows(c)
  <2>1. schema = "v2" => (\A g \in Generation : Kept(g) => Kept(g)')
    BY DEF Kept, Gone
  <2>2. schema = "v2" => (\A g \in Generation : Passed(g) => Passed(g)')
    BY DEF Passed, Gone
  <2>3. \A a \in Authorities : heads[a] # None => Gone(a)' \/ heads'[a] # None
    OBVIOUS
  <2>4. QED
    BY <2>1, <2>2, <2>3 DEF Grows, Gone
<1>4. UpgradeTypeOK'
  <2>1. purges' \in [Authorities -> Receipt \cup LegacyRow \cup {None}]
    BY <1>1 DEF UpgradeTypeOK
  <2>2. schema' = "v2" => \A a \in Authorities : purges'[a] \in Receipt \cup {None}
    OBVIOUS
  <2>3. QED
    BY <1>1, <2>1, <2>2 DEF UpgradeTypeOK
<1>5. CacheSound'
  <2>1. CASE schema = "v2"
    <3>1. UNCHANGED <<isolations, purges, generations, memberships, vectors, heads>>
      BY <2>1
    <3>2. \A g : Whole(g) => Whole(g)'
      BY <3>1 DEF Whole, MembershipsOf
    <3>3. \A a : Residual(a)' => Residual(a)
      BY <3>1 DEF Residual
    <3>4. QED
      BY <1>1, <1>4, <3>1, <3>2, <3>3 DEF CacheSound
  <2>2. CASE schema # "v2"
    <3>1. /\ generations' = {} /\ memberships' = {} /\ vectors' = {}
          /\ \A a \in Authorities : heads'[a] = None
      BY <1>2, <2>2 DEF NoRow
    <3>2. \A a \in Authorities : ~Residual(a)'
      BY <3>1 DEF Residual
    <3>3. QED
      BY <1>4, <3>1, <3>2 DEF CacheSound
  <2>3. QED
    BY <2>1, <2>2
<1>6. SchemaSound'
  BY <1>1, <1>2 DEF SchemaSound
<1>7. Finite'
  BY <1>1 DEF Finite
<1>8. QED
  BY <1>3, <1>5, <1>6, <1>7 DEF TablesSound

\* What the tables of tombstones hold.
LEMMA TombstoneFacts ==
    ASSUME CacheInvariant
    PROVE  /\ schema \in Schemas
           /\ transition \in [Authorities -> Instants \cup {None}]
           /\ isolations \in [Isolations -> Reservation \cup {None}]
           /\ schema = "v1" => purges \in [Authorities -> LegacyRow \cup {None}]
           /\ schema # "v1" => purges \in [Authorities -> Receipt \cup {None}]
           /\ schema # "transition" =>
                 Pending = {} /\ \A a \in Authorities : transition[a] = None
           /\ \A a \in Authorities :
                 /\ purges[a] # None => purges[a].at \in Instants
                 /\ transition[a] # None =>
                       transition[a] \in Instants /\ Tombstone(a) = transition[a]
                 /\ transition[a] = None =>
                       Tombstone(a) = IF purges[a] # None THEN purges[a].at ELSE None
                 /\ transition[a] # None /\ purges[a] # None => purges[a].at = transition[a]
<1>1. UpgradeTypeOK /\ SchemaSound
  BY DEF CacheInvariant, TablesSound, CacheSound
<1>2. /\ transition \in [Authorities -> Instants \cup {None}]
      /\ purges \in [Authorities -> Receipt \cup LegacyRow \cup {None}]
  BY <1>1 DEF UpgradeTypeOK
<1>3. \A a \in Authorities : purges[a] # None => purges[a].at \in Instants
  BY <1>2 DEF Receipt, LegacyRow
<1>4. \A a \in Authorities :
         /\ transition[a] # None =>
               transition[a] \in Instants /\ Tombstone(a) = transition[a]
         /\ transition[a] = None =>
               Tombstone(a) = IF purges[a] # None THEN purges[a].at ELSE None
  BY <1>2 DEF Tombstone
<1>5. QED
  BY <1>1, <1>3, <1>4 DEF UpgradeTypeOK, SchemaSound, Pending

LEMMA CreateKeeps ==
    ASSUME OneUpgrader, CacheInvariant, NEW c \in Clients, Create(c)
    PROVE  CacheInvariant'
<1>1. /\ call[c].job = "bootstrap" /\ schema \in {"none", "v2"} /\ schema' = "v2"
      /\ UNCHANGED <<transition, data, opened>> /\ Answered(c, "inventory-again")
  BY SharedSteps DEF Create
<1>2. UNCHANGED <<transition, isolations, generations, memberships, vectors, heads, purges, opened>>
  BY <1>1 DEF data
<1>3. Grows(c) /\ TablesSound'
  <2>1. Pending' = {} /\ \A a \in Authorities : Tombstone(a)' = Tombstone(a)
    BY <1>1, <1>2, TombstoneFacts DEF Tombstone, Pending
  <2>2. schema' \in Schemas /\ schema' # "transition" /\ schema # "v1" /\ schema' # "v1"
    BY <1>1 DEF Schemas
  <2>3. QED
    BY <1>1, <1>2, <2>1, <2>2, TombstoneFacts, UpgradeSound
<1>4. Go(c, "inventory-again") => CacheInvariant'
  BY <1>1, <1>3, BootstrapSteps, WorkflowGoes
<1>5. QED
  BY <1>1, <1>3, <1>4, AnsweredSound

\* The one upgrader finds version 1 as it found it before.
LEMMA VerifyV1Keeps ==
    ASSUME OneUpgrader, CacheInvariant, NEW c \in Clients, VerifyV1(c)
    PROVE  CacheInvariant'
<1>1. Reads /\ call[c].job = "bootstrap" /\ Step(c) \in {"v1-marker", "v1-objects"}
  BY SharedSteps DEF VerifyV1, V1Steps
<1>2. c \in Upgraders /\ schema = "v1" /\ schema' = schema
  BY <1>1, Facts DEF Knows, BootstrapKnows, V1Steps, Reads, tables
<1> DEFINE step == IF Step(c) = "v1-marker" THEN "v1-objects" ELSE "start"
<1>3. Go(c, step)
  BY <1>2 DEF VerifyV1
<1>4. step \in V1Steps /\ step \in StepsOf("bootstrap")
      /\ step \notin {"inventory", "materialize", "remaining"}
  BY DEF StepsOf, V1Steps
<1> HIDE DEF step
<1>5. call[c] \in CallRecord /\ call \in [Clients -> CallRecord]
  BY DEF CacheInvariant
<1>6. /\ call[c].within \in {"call", "start", "resume", "finish", "recover"}
      /\ Enter(c, step, call[c].within)
  BY <1>3, <1>5 DEF Go, Enter, CallRecord
<1>7. QED
  BY <1>1, <1>2, <1>4, <1>6, ReadsSound, WorkflowEnters

\* The batch copies every tombstone before it drops their table.
LEMMA StartTransitionSound ==
    ASSUME CacheInvariant, NEW c \in Clients, StartTransition(c)
    PROVE  /\ Grows(c) /\ TablesSound'
           /\ call[c].job = "bootstrap" /\ Answered(c, "transition-objects")
<1>1. call[c].job = "bootstrap" /\ Step(c) = "start"
  BY SharedSteps DEF StartTransition, V1Steps
<1>2. c \in Upgraders /\ schema = "v1"
  BY <1>1, Facts DEF Knows, BootstrapKnows, V1Steps
<1>3. /\ schema' = "transition" /\ transition' = Copied(purges) /\ purges' = NoRow
      /\ heads' = NoRow /\ generations' = {} /\ memberships' = {} /\ vectors' = {}
      /\ UNCHANGED <<isolations, opened>> /\ Answered(c, "transition-objects")
  BY <1>2 DEF StartTransition
<1>4. UNCHANGED <<generations, memberships, vectors, heads>>
  BY <1>2, <1>3, Facts DEF SchemaSound
<1>5. /\ transition' \in [Authorities -> Instants \cup {None}]
      /\ purges' \in [Authorities -> Receipt \cup {None}]
      /\ \A a \in Authorities : purges'[a] = None
      /\ \A a \in Authorities : Tombstone(a) # None => Tombstone(a)' = Tombstone(a)
  <2>1. \A a \in Authorities :
           transition'[a] = IF purges[a] = None THEN None ELSE purges[a].at
    BY <1>3 DEF Copied
  <2>2. transition' \in [Authorities -> Instants \cup {None}]
    BY <1>3, TombstoneFacts DEF Copied
  <2>3. \A a \in Authorities : Tombstone(a) = IF purges[a] # None THEN purges[a].at ELSE None
    BY <1>2, TombstoneFacts
  <2>4. \A a \in Authorities : purges[a] # None => purges[a].at # None
    BY TombstoneFacts, NoneApart
  <2>5. \A a \in Authorities : purges'[a] = None
    BY <1>3 DEF NoRow
  <2>6. \A a \in Authorities : Tombstone(a)' = transition'[a]
    BY <2>5 DEF Tombstone
  <2>7. purges' \in [Authorities -> Receipt \cup {None}]
    BY <1>3 DEF NoRow
  <2>8. \A a \in Authorities : Tombstone(a)' = Tombstone(a)
    BY <2>1, <2>3, <2>6
  <2>9. QED
    BY <2>2, <2>5, <2>7, <2>8
<1>6. Grows(c) /\ TablesSound'
  <2>1. "transition" \in Schemas
    BY DEF Schemas
  <2>2. QED
    BY <1>2, <1>3, <1>4, <1>5, <2>1, TombstoneFacts, UpgradeSound
<1>7. QED
  BY <1>1, <1>3, <1>6

LEMMA StartTransitionKeeps ==
    ASSUME OneUpgrader, CacheInvariant, NEW c \in Clients, StartTransition(c)
    PROVE  CacheInvariant'
<1>1. /\ Grows(c) /\ TablesSound'
      /\ call[c].job = "bootstrap" /\ Answered(c, "transition-objects")
  BY StartTransitionSound
<1>2. Go(c, "transition-objects") => CacheInvariant'
  BY <1>1, BootstrapSteps, WorkflowGoes
<1>3. QED
  BY <1>1, <1>2, AnsweredSound

LEMMA InspectKeeps ==
    ASSUME OneUpgrader, CacheInvariant, NEW c \in Clients, Inspect(c)
    PROVE  CacheInvariant'
<1>1. Reads /\ call[c].job = "bootstrap"
  BY SharedSteps DEF Inspect
<1>2. Go(c, "verify-transition") \/ Go(c, "transition-objects") \/ End(c, "refused", None)
  BY DEF Inspect
<1>3. CASE Go(c, "verify-transition")
  BY <1>1, <1>3, ReadsSound, BootstrapSteps, WorkflowGoes
<1>4. CASE Go(c, "transition-objects")
  BY <1>1, <1>4, ReadsSound, BootstrapSteps, WorkflowGoes
<1>5. CASE End(c, "refused", None)
  BY <1>1, <1>5, ReadsAndEnds
<1>6. QED
  BY <1>2, <1>3, <1>4, <1>5

LEMMA VerifyTransitionKeeps ==
    ASSUME OneUpgrader, CacheInvariant, NEW c \in Clients, VerifyTransition(c)
    PROVE  CacheInvariant'
<1>1. Reads /\ call[c].job = "bootstrap"
  BY SharedSteps DEF VerifyTransition
<1>2. \/ Failure(c, "refused") \/ Go(c, "transition-marker") \/ Go(c, "page")
      \/ Enter(c, "inventory-again", "call")
  BY DEF VerifyTransition
<1>3. CASE Failure(c, "refused")
  BY <1>1, <1>3, ReadsAndFails
<1>4. CASE Go(c, "transition-marker")
  BY <1>1, <1>4, ReadsSound, BootstrapSteps, WorkflowGoes
<1>5. CASE Go(c, "page")
  BY <1>1, <1>5, ReadsSound, BootstrapSteps, WorkflowGoes
<1>6. CASE Enter(c, "inventory-again", "call")
  BY <1>1, <1>6, ReadsSound, BootstrapSteps, WorkflowEnters
<1>7. QED
  BY <1>2, <1>3, <1>4, <1>5, <1>6

LEMMA InventoryAgainKeeps ==
    ASSUME OneUpgrader, CacheInvariant, NEW c \in Clients, InventoryAgain(c)
    PROVE  CacheInvariant'
<1>1. Reads /\ call[c].job = "bootstrap"
  BY SharedSteps DEF InventoryAgain
<1>2. \/ Enter(c, "transition-objects", "resume") \/ Go(c, "verify-transition")
      \/ End(c, "refused", None)
  BY DEF InventoryAgain
<1>3. CASE Enter(c, "transition-objects", "resume")
  BY <1>1, <1>3, ReadsSound, BootstrapSteps, WorkflowEnters
<1>4. CASE Go(c, "verify-transition")
  BY <1>1, <1>4, ReadsSound, BootstrapSteps, WorkflowGoes
<1>5. CASE End(c, "refused", None)
  BY <1>1, <1>5, ReadsAndEnds
<1>6. QED
  BY <1>2, <1>3, <1>4, <1>5
\* A page holds the tombstones of some authorities.
LEMMA ReadPageKeeps ==
    ASSUME OneUpgrader, CacheInvariant, NEW c \in Clients, ReadPage(c)
    PROVE  CacheInvariant'
<1>1. Reads /\ call[c].job = "bootstrap"
  BY SharedSteps DEF ReadPage
<1>2. CASE Failure(c, "sql")
  BY <1>1, <1>2, ReadsAndFails
<1>3. CASE Enter(c, "finish", "finish")
  BY <1>1, <1>3, ReadsSound, BootstrapSteps, WorkflowEnters
<1>4. ASSUME NEW P \in SUBSET Pending, See(c, "materialize", [a \in P |-> transition[a]])
      PROVE  CacheInvariant'
  <2> DEFINE page == [a \in P |-> transition[a]]
  <2>1. P \subseteq Authorities /\ \A a \in P : transition[a] # None
    BY <1>4 DEF Pending
  <2>2. \A a \in P : transition[a] \in Instants /\ Tombstone(a) = transition[a]
    BY <2>1, TombstoneFacts
  <2>3. \A a \in Authorities : Tombstone(a)' = Tombstone(a)
    BY <1>1 DEF Reads, tables, data, Tombstone
  <2>4. page \in [P -> Instants] /\ DOMAIN page = P
    BY <2>2
  <2>5. \A a \in P : Tombstone(a)' = page[a]
    BY <2>1, <2>2, <2>3
  <2> HIDE DEF page
  <2>6. page \in Page /\ page \in Seen
    BY <2>1, <2>4 DEF Page, Seen
  <2>7. "materialize" \in StepsOf("bootstrap") /\ "materialize" \notin V1Steps \cup {"inventory"}
    BY BootstrapSteps DEF V1Steps
  <2>8. See(c, "materialize", page)
    BY <1>4 DEF page
  <2>9. QED
    BY <1>1, <2>4, <2>5, <2>6, <2>7, <2>8, WorkflowSees
<1>5. QED
  BY <1>2, <1>3, <1>4 DEF ReadPage

\* The batch of a page: a receipt made of a transition row keeps its instant,
\* and the row goes only when it is there.
LEMMA MaterializeSound ==
    ASSUME CacheInvariant, NEW c \in Clients, NEW page \in Page, schema = "transition",
           \A a \in DOMAIN page : Tombstone(a) = page[a],
           isolations' = [i \in Isolations |->
                     IF isolations[i] = None /\ \E a \in DOMAIN page : Derived[a] = i
                     THEN LET a == CHOOSE x \in DOMAIN page : Derived[x] = i
                          IN  [owner |-> a, at |-> page[a]]
                     ELSE isolations[i]],
           purges' = [a \in Authorities |->
                     IF a \in DOMAIN page /\ purges[a] = None
                     THEN LegacyReceipt(a, page[a]) ELSE purges[a]],
           transition' = [a \in Authorities |->
                     IF /\ a \in DOMAIN page
                        /\ transition[a] = page[a]
                        /\ Materialized(a, page[a], isolations', purges')
                     THEN None ELSE transition[a]],
           UNCHANGED <<schema, generations, memberships, vectors, heads, opened>>
    PROVE  Grows(c) /\ TablesSound'
<1>1. PICK P \in SUBSET Authorities : page \in [P -> Instants]
  BY DEF Page
<1>2. /\ transition \in [Authorities -> Instants \cup {None}]
      /\ isolations \in [Isolations -> Reservation \cup {None}]
      /\ purges \in [Authorities -> Receipt \cup {None}]
  BY TombstoneFacts
<1>3. \A a \in P : a \in Authorities /\ page[a] \in Instants /\ page[a] # None
                   /\ Tombstone(a) = page[a]
  BY <1>1, NoneApart
<1>4. \A a \in Authorities, at \in Instants :
         LegacyReceipt(a, at) \in Receipt /\ LegacyReceipt(a, at).at = at
  <2>1. SUFFICES ASSUME NEW a \in Authorities, NEW at \in Instants
                 PROVE  LegacyReceipt(a, at) \in Receipt /\ LegacyReceipt(a, at).at = at
    OBVIOUS
  <2>2. Derived[a] \in Isolations
    BY SemanticAssumption
  <2>3. QED
    BY <2>2 DEF LegacyReceipt, Receipt
<1>5. isolations' \in [Isolations -> Reservation \cup {None}]
      /\ \A i \in Isolations : isolations[i] # None => isolations'[i] = isolations[i]
  <2>1. \A i \in Isolations : (\E a \in P : Derived[a] = i) =>
            [owner |-> CHOOSE x \in P : Derived[x] = i,
             at |-> page[CHOOSE x \in P : Derived[x] = i]] \in Reservation
    <3>1. SUFFICES ASSUME NEW i \in Isolations, \E a \in P : Derived[a] = i
                   PROVE  [owner |-> CHOOSE x \in P : Derived[x] = i,
                           at |-> page[CHOOSE x \in P : Derived[x] = i]] \in Reservation
      OBVIOUS
    <3>2. (CHOOSE x \in P : Derived[x] = i) \in P
      BY <3>1
    <3>3. QED
      BY <1>3, <3>2 DEF Reservation
  <2>2. DOMAIN page = P
    BY <1>1
  <2>3. QED
    BY <1>2, <2>1, <2>2
<1>6. \A a \in Authorities :
         /\ a \in P /\ purges[a] = None => purges'[a] = LegacyReceipt(a, page[a])
         /\ ~(a \in P /\ purges[a] = None) => purges'[a] = purges[a]
  BY <1>1
<1>7. purges' \in [Authorities -> Receipt \cup {None}]
  <2>1. \A a \in Authorities : purges'[a] \in Receipt \cup {None}
    BY <1>2, <1>3, <1>4, <1>6
  <2>2. QED
    BY <2>1
<1>8. \A a \in Authorities :
         \/ transition'[a] = transition[a]
         \/ /\ transition'[a] = None /\ a \in P
            /\ purges'[a] = LegacyReceipt(a, page[a])
  BY <1>1 DEF Materialized
<1>9. transition' \in [Authorities -> Instants \cup {None}]
  BY <1>2
<1>10. \A a \in Authorities : Tombstone(a) # None => Tombstone(a)' = Tombstone(a)
  <2>1. SUFFICES ASSUME NEW a \in Authorities, Tombstone(a) # None
                 PROVE  Tombstone(a)' = Tombstone(a)
    OBVIOUS
  <2>2. CASE transition'[a] = transition[a] /\ transition[a] # None
    BY <2>2 DEF Tombstone
  <2>3. CASE transition'[a] = transition[a] /\ transition[a] = None
    <3>1. purges[a] # None
      BY <2>1, <2>3 DEF Tombstone
    <3>2. purges'[a] = purges[a]
      BY <1>6, <3>1
    <3>3. QED
      BY <2>3, <3>2 DEF Tombstone
  <2>4. CASE transition'[a] = None /\ a \in P /\ purges'[a] = LegacyReceipt(a, page[a])
    <3>1. Tombstone(a) = page[a] /\ purges'[a].at = page[a] /\ purges'[a] # None
      BY <1>3, <1>4, <2>4, NoneApart
    <3>2. Tombstone(a)' = purges'[a].at
      BY <2>4, <3>1 DEF Tombstone
    <3>3. QED
      BY <3>1, <3>2
  <2>5. QED
    BY <1>8, <2>2, <2>3, <2>4
<1>11. \A a \in Authorities :
          transition'[a] # None /\ purges'[a] # None => purges'[a].at = transition'[a]
  <2>1. SUFFICES ASSUME NEW a \in Authorities, transition'[a] # None, purges'[a] # None
                 PROVE  purges'[a].at = transition'[a]
    OBVIOUS
  <2>2. transition'[a] = transition[a] /\ Tombstone(a) = transition[a]
    BY <1>8, <2>1, TombstoneFacts
  <2>3. CASE a \in P /\ purges[a] = None
    BY <1>3, <1>4, <1>6, <2>2, <2>3
  <2>4. CASE ~(a \in P /\ purges[a] = None)
    BY <1>6, <2>1, <2>2, <2>4, TombstoneFacts
  <2>5. QED
    BY <2>3, <2>4
<1>12. schema # "v2" /\ schema' = "transition" /\ schema' \in Schemas
  BY TombstoneFacts
<1>13. \A a \in Authorities : Gone(a) => purges'[a] = purges[a]
  BY <1>6 DEF Gone
<1>14. QED
  BY <1>5, <1>7, <1>9, <1>10, <1>11, <1>12, <1>13, UpgradeSound

\* Or the batch fails, and nothing has changed.
LEMMA MaterializeGrows ==
    ASSUME CacheInvariant, NEW c \in Clients, Materialize(c)
    PROVE  /\ call[c].job = "bootstrap" /\ call[c].seen \in Page
           /\ Grows(c) /\ TablesSound'
           /\ Failure(c, "sql") \/ Answered(c, "remaining")
<1> DEFINE page == call[c].seen
           Stops == schema # "transition" \/ \E a \in DOMAIN page :
                       isolations[Derived[a]] # [owner |-> a, at |-> page[a]] /\ purges[a] # None
<1>1. call[c].job = "bootstrap" /\ Step(c) = "materialize" /\ UNCHANGED opened
  BY SharedSteps DEF Materialize
<1>2. page \in Page /\ \A a \in DOMAIN page : Tombstone(a) = page[a]
  BY <1>1, Facts DEF Knows, BootstrapKnows, At, Step
<1>3. CASE Stops
  <2>1. Failure(c, "sql") /\ Reads
    BY <1>1, <1>3 DEF Materialize, Reads
  <2>2. QED
    BY <1>1, <1>2, <2>1, ReadsSound
<1>4. CASE ~Stops
  <2>1. /\ schema = "transition"
        /\ isolations' = [i \in Isolations |->
               IF isolations[i] = None /\ \E a \in DOMAIN page : Derived[a] = i
               THEN LET a == CHOOSE x \in DOMAIN page : Derived[x] = i
                    IN  [owner |-> a, at |-> page[a]]
               ELSE isolations[i]]
        /\ purges' = [a \in Authorities |->
               IF a \in DOMAIN page /\ purges[a] = None
               THEN LegacyReceipt(a, page[a]) ELSE purges[a]]
        /\ transition' = [a \in Authorities |->
               IF /\ a \in DOMAIN page
                  /\ transition[a] = page[a]
                  /\ Materialized(a, page[a], isolations', purges')
               THEN None ELSE transition[a]]
        /\ UNCHANGED <<schema, generations, memberships, vectors, heads>>
        /\ Answered(c, "remaining")
    BY <1>4 DEF Materialize
  <2> HIDE DEF page
  <2>2. Grows(c) /\ TablesSound'
    BY <1>1, <1>2, <2>1, MaterializeSound
  <2>3. QED
    BY <1>1, <1>2, <2>1, <2>2 DEF page
<1>5. QED
  BY <1>3, <1>4

LEMMA MaterializeKeeps ==
    ASSUME OneUpgrader, CacheInvariant, NEW c \in Clients, Materialize(c)
    PROVE  CacheInvariant'
<1>1. /\ call[c].job = "bootstrap" /\ call[c].seen \in Page
      /\ Grows(c) /\ TablesSound'
      /\ Failure(c, "sql") \/ Answered(c, "remaining")
  BY MaterializeGrows
<1>2. "remaining" \in StepsOf(call[c].job)
      /\ "remaining" \notin V1Steps \cup {"inventory", "materialize"}
  BY <1>1, BootstrapSteps
<1>3. Go(c, "remaining") => CacheInvariant'
  BY <1>1, <1>2, WorkflowGoes
<1>4. CASE Failure(c, "sql")
  BY <1>1, <1>4, Fails
<1>5. CASE Answered(c, "remaining")
  BY <1>1, <1>3, <1>5, AnsweredSound
<1>6. QED
  BY <1>1, <1>4, <1>5

LEMMA CheckRemainingKeeps ==
    ASSUME OneUpgrader, CacheInvariant, NEW c \in Clients, CheckRemaining(c)
    PROVE  CacheInvariant'
<1>1. Reads /\ call[c].job = "bootstrap"
  BY SharedSteps DEF CheckRemaining
<1>2. Failure(c, "sql") \/ Failure(c, "refused") \/ See(c, "page", None)
  BY DEF CheckRemaining
<1>3. CASE Failure(c, "sql") \/ Failure(c, "refused")
  BY <1>1, <1>3, ReadsAndFails
<1>4. CASE See(c, "page", None)
  <2>1. None \in Seen
    BY DEF Seen
  <2>2. QED
    BY <1>1, <1>4, <2>1, BootstrapSteps, WorkflowSees
<1>5. QED
  BY <1>2, <1>3, <1>4

\* Version 2 begins without a transition row.
LEMMA FinishSound ==
    ASSUME CacheInvariant, NEW c \in Clients, Finish(c)
    PROVE  /\ Grows(c) /\ TablesSound' /\ call[c].job = "bootstrap"
           /\ Enter(c, "verify-transition", "call") \/ Failure(c, "sql")
<1>1. call[c].job = "bootstrap" /\ UNCHANGED <<data, opened>>
  BY SharedSteps DEF Finish
<1>2. UNCHANGED <<isolations, generations, memberships, vectors, heads, purges, opened>>
  BY <1>1 DEF data
<1>3. CASE schema = "transition" /\ Pending = {}
  <2>1. /\ schema' = "v2" /\ transition' = NoRow
        /\ Enter(c, "verify-transition", "call") \/ Failure(c, "sql")
    BY <1>3 DEF Finish
  <2>2. \A a \in Authorities : transition[a] = None /\ transition'[a] = None
    BY <1>3, <2>1 DEF Pending, NoRow
  <2>3. /\ transition' \in [Authorities -> Instants \cup {None}] /\ Pending' = {}
        /\ \A a \in Authorities : Tombstone(a)' = Tombstone(a)
    BY <1>2, <2>1, <2>2 DEF NoRow, Pending, Tombstone
  <2>4. "v2" \in Schemas
    BY DEF Schemas
  <2>5. Grows(c) /\ TablesSound'
    BY <1>2, <1>3, <2>1, <2>2, <2>3, <2>4, TombstoneFacts, UpgradeSound
  <2>6. QED
    BY <1>1, <2>1, <2>5
<1>4. CASE ~(schema = "transition" /\ Pending = {})
  <2>1. Failure(c, "sql") /\ Reads
    BY <1>1, <1>4 DEF Finish, Reads, tables
  <2>2. QED
    BY <1>1, <2>1, ReadsSound
<1>5. QED
  BY <1>3, <1>4

LEMMA FinishKeeps ==
    ASSUME OneUpgrader, CacheInvariant, NEW c \in Clients, Finish(c)
    PROVE  CacheInvariant'
<1>1. /\ Grows(c) /\ TablesSound' /\ call[c].job = "bootstrap"
      /\ Enter(c, "verify-transition", "call") \/ Failure(c, "sql")
  BY FinishSound
<1>2. CASE Enter(c, "verify-transition", "call")
  BY <1>1, <1>2, BootstrapSteps, WorkflowEnters
<1>3. CASE Failure(c, "sql")
  BY <1>1, <1>3, Fails
<1>4. QED
  BY <1>1, <1>2, <1>3

\* The purge of version 1.
LEMMA LegacyFacts ==
    ASSUME CacheInvariant, NEW c \in Clients, call[c].job = "v1-purge"
    PROVE  /\ A(c) \in Authorities /\ call[c].request.at \in Instants
           /\ LegacyTombstone(c) = IF purges[A(c)] = None THEN None ELSE purges[A(c)].at
           /\ LegacyTombstone(c) \in Seen
           /\ LegacyTombstone(c) # None =>
                 LegacyTombstone(c) \in Instants /\ Tombstone(A(c)) = LegacyTombstone(c)
<1>1. A(c) \in Authorities /\ call[c].request.at \in Instants
  BY Facts, RequestTypes DEF CacheJobs
<1>2. LegacyTombstone(c) = IF purges[A(c)] = None THEN None ELSE purges[A(c)].at
  BY DEF LegacyTombstone, A
<1>3. purges[A(c)] # None => purges[A(c)].at \in Instants
  BY <1>1, TombstoneFacts
<1>4. purges[A(c)] # None => Tombstone(A(c)) = purges[A(c)].at
  BY <1>1, TombstoneFacts
<1>5. QED
  BY <1>1, <1>2, <1>3, <1>4 DEF Seen

LEMMA LegacyBeforeKeeps ==
    ASSUME OneUpgrader, CacheInvariant, NEW c \in Clients, LegacyBefore(c)
    PROVE  CacheInvariant'
<1>1. Reads /\ call[c].job = "v1-purge" /\ See(c, "v1-batch", LegacyTombstone(c))
  BY SharedSteps DEF LegacyBefore
<1>2. "v1-batch" \in StepsOf("v1-purge")
      /\ "v1-batch" \notin V1Steps \cup {"inventory", "materialize", "remaining"}
  BY DEF StepsOf, V1Steps
<1>3. QED
  BY <1>1, <1>2, LegacyFacts, WorkflowSees

LEMMA LegacyBatchSound ==
    ASSUME CacheInvariant, NEW c \in Clients, LegacyBatch(c)
    PROVE  /\ Grows(c) /\ TablesSound' /\ call[c].job = "v1-purge"
           /\ Answered(c, "v1-after")
<1>1. /\ call[c].job = "v1-purge"
      /\ UNCHANGED <<schema, transition, isolations, generations, memberships, vectors, heads,
                     opened>>
  BY SharedSteps DEF LegacyBatch
<1>2. CASE schema = "v1"
  <2> DEFINE a == A(c)
             row == [at |-> call[c].request.at]
  <2>1. /\ purges' = [purges EXCEPT ![a] = IF @ = None THEN row ELSE @]
        /\ Answered(c, "v1-after")
    BY <1>2 DEF LegacyBatch, A
  <2>2. a \in Authorities /\ row \in LegacyRow
    BY <1>1, LegacyFacts DEF LegacyRow
  <2>3. purges \in [Authorities -> LegacyRow \cup {None}]
        /\ (\A b \in Authorities : transition[b] = None)
    BY <1>2, TombstoneFacts
  <2> HIDE DEF a, row
  <2>4. /\ purges' \in [Authorities -> LegacyRow \cup {None}]
        /\ \A b \in Authorities : purges[b] # None => purges'[b] = purges[b]
    BY <2>1, <2>2, <2>3
  <2>5. \A b \in Authorities : Tombstone(b) # None => Tombstone(b)' = Tombstone(b)
    BY <1>1, <2>3, <2>4 DEF Tombstone
  <2>6. Pending' = {} /\ schema' \in Schemas
    BY <1>1, <1>2, TombstoneFacts DEF Pending
  <2>7. /\ transition' \in [Authorities -> Instants \cup {None}]
        /\ isolations' \in [Isolations -> Reservation \cup {None}]
        /\ \A i \in Isolations : isolations[i] # None => isolations'[i] = isolations[i]
        /\ \A b \in Authorities : transition'[b] = None
    BY <1>1, <2>3, TombstoneFacts
  <2>8. Grows(c) /\ TablesSound'
    BY <1>1, <1>2, <2>4, <2>5, <2>6, <2>7, UpgradeSound
  <2>9. QED
    BY <1>1, <2>1, <2>8
<1>3. CASE schema # "v1"
  <2>1. Failure(c, "sql") /\ Reads
    BY <1>1, <1>3 DEF LegacyBatch, Reads, tables, data
  <2>2. QED
    BY <1>1, <2>1, ReadsSound DEF Answered
<1>4. QED
  BY <1>2, <1>3

LEMMA LegacyBatchKeeps ==
    ASSUME OneUpgrader, CacheInvariant, NEW c \in Clients, LegacyBatch(c)
    PROVE  CacheInvariant'
<1>1. /\ Grows(c) /\ TablesSound' /\ call[c].job = "v1-purge"
      /\ Answered(c, "v1-after")
  BY LegacyBatchSound
<1>2. "v1-after" \in StepsOf("v1-purge")
      /\ "v1-after" \notin V1Steps \cup {"inventory", "materialize", "remaining"}
  BY DEF StepsOf, V1Steps
<1>3. Go(c, "v1-after") => CacheInvariant'
  BY <1>1, <1>2, WorkflowGoes
<1>4. QED
  BY <1>1, <1>3, AnsweredSound

LEMMA LegacyAfterKeeps ==
    ASSUME OneUpgrader, CacheInvariant, NEW c \in Clients, LegacyAfter(c)
    PROVE  CacheInvariant'
<1>1. Reads /\ call[c].job = "v1-purge"
  BY SharedSteps DEF LegacyAfter
<1>2. CASE Failure(c, "refused")
  BY <1>1, <1>2, ReadsAndFails
<1>3. CASE LegacyTombstone(c) # None /\ End(c, "ok", LegacyTombstone(c))
  <2>1. Tombstone(A(c)) = LegacyTombstone(c) /\ LegacyTombstone(c) \in Reportable
    BY <1>1, <1>3, LegacyFacts DEF Reportable
  <2>2. QED
    BY <1>1, <1>3, <2>1, ReadsAndReports
<1>4. QED
  BY <1>2, <1>3 DEF LegacyAfter
-----------------------------------------------------------------------------
(* Every step keeps the invariant.                                         *)

LEMMA SqlFailsKeeps ==
    ASSUME OneUpgrader, CacheInvariant, NEW c \in Clients, SqlFails(c)
    PROVE  CacheInvariant'
  BY ReadsAndFails DEF SqlFails, Reads

\* What the process of a client knew is lost, the tables are not.
LEMMA RestartKeeps ==
    ASSUME OneUpgrader, CacheInvariant, NEW c \in Clients, Restart(c)
    PROVE  CacheInvariant'
<1> DEFINE idle == Idle(NoOutcome)
<1>1. /\ idle \in CallRecord /\ idle.outcome = NoOutcome /\ idle.job = "none"
      /\ idle.step = "idle" /\ idle.request = None /\ idle.within = "call"
  BY IdleTypes
<1>2. call' = [call EXCEPT ![c] = idle] /\ opened' = opened \ {c} /\ UNCHANGED tables
  BY DEF Restart
<1> HIDE DEF idle
<1>3. /\ call' \in [Clients -> CallRecord] /\ call'[c] = idle
      /\ \A d \in Clients \ {c} : call'[d] = call[d]
  BY <1>1, <1>2 DEF CacheInvariant
<1>4. Grows(c) /\ TablesSound'
  <2>1. opened' \subseteq Clients /\ (schema # "v2" => opened' = {})
    BY <1>2, Facts DEF UpgradeTypeOK, SchemaSound
  <2>2. QED
    BY <1>2, <2>1, OpenedSound
<1>5. NoOutcome.job = "none" /\ NoOutcome.result = "none" /\ NoOutcome.request = None
  BY IdleTypes
<1>6. CallOK(c)'
  <2>1. None \in RequestsOf("none") /\ "idle" \in StepsOf("none")
    BY DEF RequestsOf, StepsOf
  <2>2. QED
    BY <1>1, <1>3, <1>5, <2>1 DEF CallOK
<1>7. Knows(c)'
  BY <1>1, <1>3 DEF Knows, BootstrapKnows, StageKnows, PublishKnows, SearchKnows, HeadKnows,
                    PurgeKnows, At, Step, CacheJobs
<1>8. Stands(c)'
  BY <1>1, <1>3, <1>5 DEF Stands, CacheJobs
<1>9. \A g \in Generation : ~Claims(c, g)'
  BY <1>1, <1>3, <1>5 DEF Claims, Step
<1>10. QED
  BY <1>3, <1>4, <1>6, <1>7, <1>8, <1>9, Advance

LEMMA WorkflowKeeps ==
    ASSUME OneUpgrader, CacheInvariant, NEW c \in Clients, Workflow(c)
    PROVE  CacheInvariant'
  BY VerifyTransitionTableKeeps, VerifyMarkerKeeps, VerifyObjectsKeeps, InventoryKeeps,
     CreateKeeps, VerifyV1Keeps, StartTransitionKeeps, InspectKeeps, VerifyTransitionKeeps,
     InventoryAgainKeeps, ReadPageKeeps, MaterializeKeeps, CheckRemainingKeeps, FinishKeeps,
     LegacyBeforeKeeps, LegacyBatchKeeps, LegacyAfterKeeps DEF Workflow

LEMMA UpgradeNextKeeps ==
    ASSUME OneUpgrader, CacheInvariant, NEW c \in Clients, UpgradeNext(c)
    PROVE  CacheInvariant'
  BY OpenKeeps, BootstrapKeeps, LegacyPurgeKeeps, WorkflowKeeps, SqlFailsKeeps, RestartKeeps
  DEF UpgradeNext

LEMMA StageStepKeeps ==
    ASSUME OneUpgrader, CacheInvariant, NEW c \in Clients, StageStep(c)
    PROVE  CacheInvariant'
  BY StagePurgedKeeps, ReserveKeeps, ReadOwnerKeeps, ReservedKeeps, StageGenerationKeeps,
     EmbedKeeps, StageBatchKeeps, StageVectorsKeeps, VectorsGoneKeeps, StagedGenerationKeeps,
     StagedPurgedKeeps, StagedMembersKeeps DEF StageStep

LEMMA PublishStepKeeps ==
    ASSUME OneUpgrader, CacheInvariant, NEW c \in Clients, PublishStep(c)
    PROVE  CacheInvariant'
  BY PublishPurgedKeeps, PublishGenerationKeeps, PublishMembersKeeps, PublishHeadKeeps,
     PublishSwapKeeps, PublishAfterKeeps, PublishedKeeps DEF PublishStep

LEMMA SearchStepKeeps ==
    ASSUME OneUpgrader, CacheInvariant, NEW c \in Clients, SearchStep(c)
    PROVE  CacheInvariant'
  BY SearchPurgedKeeps, SearchHeadKeeps, SearchGenerationKeeps, SearchEmbedKeeps, ScanKeeps,
     SearchAgainKeeps, SearchLastKeeps DEF SearchStep

LEMMA HeadStepKeeps ==
    ASSUME OneUpgrader, CacheInvariant, NEW c \in Clients, HeadStep(c)
    PROVE  CacheInvariant'
  BY HeadPurgedKeeps, HeadReadKeeps, HeadGenerationKeeps, HeadGoneKeeps, HeadAgainKeeps
  DEF HeadStep

LEMMA PurgeStepKeeps ==
    ASSUME OneUpgrader, CacheInvariant, NEW c \in Clients, PurgeStep(c)
    PROVE  CacheInvariant'
  BY PurgeBeforeKeeps, ReadReceiptKeeps, PurgeHeadKeeps, PurgeOwnerKeeps, PurgeScopesKeeps,
     PurgeReserveKeeps, PurgeBatchKeeps, PurgeAfterKeeps, CheckResidualKeeps DEF PurgeStep

\* Nothing happens to the tables or to a call.
LEMMA StutterKeeps ==
    ASSUME CacheInvariant, UNCHANGED semanticVars
    PROVE  CacheInvariant'
<1>1. UNCHANGED <<schema, transition, isolations, generations, memberships, vectors, heads,
                  purges, opened, call>>
  BY DEF semanticVars, tables, data
<1>2. TablesSound'
  <2>1. UpgradeTypeOK /\ CacheSound /\ SchemaSound /\ Finite
    BY DEF CacheInvariant, TablesSound, CacheSound
  <2>2. UpgradeTypeOK' /\ SchemaSound' /\ Finite'
    BY <1>1, <2>1 DEF UpgradeTypeOK, Pending, SchemaSound, Finite
  <2>3. \A g : Whole(g) => Whole(g)'
    BY <1>1 DEF Whole, MembershipsOf
  <2>4. \A a : Residual(a)' => Residual(a)
    BY <1>1 DEF Residual
  <2>5. CacheSound'
    BY <1>1, <2>1, <2>2, <2>3, <2>4 DEF CacheSound
  <2>6. QED
    BY <2>2, <2>5 DEF TablesSound
<1>3. \A d \in Clients : CallOK(d)' /\ Stands(d)'
  <2>1. SUFFICES ASSUME NEW d \in Clients
                 PROVE  CallOK(d)' /\ Stands(d)'
    OBVIOUS
  <2>2. Grows(d) /\ generations \subseteq Generation /\ CallOK(d) /\ Stands(d)
    BY <1>1, Facts, ReadsGrow DEF tables, data
  <2>3. Stands(d)'
    BY <1>1, <2>2, ReportsUndisturbed
  <2>4. QED
    BY <1>1, <2>2, <2>3 DEF CallOK
<1>4. \A d \in Clients : Knows(d)'
  <2>1. SUFFICES ASSUME NEW d \in Clients
                 PROVE  Knows(d)'
    OBVIOUS
  <2>2. Grows(d) /\ generations \subseteq Generation /\ CallOK(d) /\ Knows(d)
    BY <1>1, Facts, ReadsGrow DEF tables, data
  <2>3. call'[d] = call[d] /\ (call[d].job \in CacheJobs => schema = "v2")
    BY <1>1, <2>2 DEF Knows
  <2>4. BootstrapKnows(d)'
    BY <1>1, <2>2 DEF Knows, BootstrapKnows, At, Step, Tombstone
  <2>5. StageKnows(d)'
    BY <2>2, <2>3, StageUndisturbed DEF Knows, StageKnows, At, Step, CacheJobs
  <2>6. PublishKnows(d)'
    BY <2>2, <2>3, PublishUndisturbed DEF Knows, PublishKnows, At, Step, CacheJobs
  <2>7. SearchKnows(d)'
    BY <2>2, <2>3, SearchUndisturbed DEF Knows, SearchKnows, At, Step, CacheJobs
  <2>8. HeadKnows(d)'
    BY <2>2, <2>3, HeadUndisturbed DEF Knows, HeadKnows, At, Step, CacheJobs
  <2>9. PurgeKnows(d)'
    BY <1>1, <2>2 DEF Knows, PurgeKnows, Step, Gone, A
  <2>10. QED
    BY <1>1, <2>2, <2>4, <2>5, <2>6, <2>7, <2>8, <2>9 DEF Knows
<1>5. ClaimsDiffer'
  BY <1>1 DEF CacheInvariant, ClaimsDiffer, Claims, Step
<1>6. QED
  BY <1>1, <1>2, <1>3, <1>4, <1>5 DEF CacheInvariant

LEMMA CacheStep ==
    ASSUME OneUpgrader, CacheInvariant, [Next]_semanticVars
    PROVE  CacheInvariant'
<1>1. CASE Next
  <2>1. PICK c \in Clients :
           \/ UpgradeNext(c) \/ Asks(c)
           \/ StageStep(c) \/ PublishStep(c) \/ SearchStep(c) \/ HeadStep(c) \/ PurgeStep(c)
    BY <1>1 DEF Next
  <2>2. QED
    BY <2>1, UpgradeNextKeeps, AsksKeep, StageStepKeeps, PublishStepKeeps, SearchStepKeeps,
       HeadStepKeeps, PurgeStepKeeps
<1>2. CASE UNCHANGED semanticVars
  BY <1>2, StutterKeeps
<1>3. QED
  BY <1>1, <1>2

\* The database is empty, or one of version 1, and nobody calls.
LEMMA CacheBegins ==
    ASSUME Init
    PROVE  CacheInvariant
<1>1. /\ call = [c \in Clients |-> Idle(NoOutcome)] /\ UpgradeInit
  BY DEF Init
<1>2. /\ schema \in {"none", "v1"} /\ transition = NoRow
      /\ isolations = [i \in Isolations |-> None]
      /\ generations = {} /\ memberships = {} /\ vectors = {} /\ heads = NoRow /\ opened = {}
      /\ schema = "none" => purges = NoRow
      /\ schema = "v1" => purges \in [Authorities -> LegacyRow \cup {None}]
  BY <1>1, SemanticAssumption DEF UpgradeInit
<1>3. \A a \in Authorities : transition[a] = None /\ heads[a] = None
  BY <1>2 DEF NoRow
<1>4. UpgradeTypeOK
  <2>1. Pending = {} /\ schema \in Schemas
    BY <1>2, <1>3 DEF Pending, Schemas
  <2>2. /\ transition \in [Authorities -> Instants \cup {None}]
        /\ heads \in [Authorities -> Generation \cup {None}]
        /\ purges \in [Authorities -> Receipt \cup LegacyRow \cup {None}]
    BY <1>2 DEF NoRow
  <2>3. QED
    BY <1>2, <2>1, <2>2 DEF UpgradeTypeOK
<1>5. CacheSound
  <2>1. \A a \in Authorities : ~Residual(a)
    BY <1>2, <1>3 DEF Residual
  <2>2. QED
    BY <1>2, <1>3, <1>4, <2>1 DEF CacheSound
<1>6. SchemaSound
  <2>1. schema # "v1" => purges \in [Authorities -> Receipt \cup {None}]
    BY <1>2 DEF NoRow
  <2>2. QED
    BY <1>2, <1>3, <2>1 DEF SchemaSound
<1>7. Finite
  BY <1>2, FS_EmptySet DEF Finite
<1> DEFINE idle == Idle(NoOutcome)
<1>8. /\ idle \in CallRecord /\ idle.outcome = NoOutcome /\ idle.job = "none"
       /\ idle.step = "idle" /\ idle.request = None /\ idle.within = "call"
  BY IdleTypes
<1>9. call = [c \in Clients |-> idle]
  BY <1>1
<1> HIDE DEF idle
<1>10. NoOutcome.job = "none" /\ NoOutcome.result = "none" /\ NoOutcome.request = None
  BY IdleTypes
<1>11. ASSUME NEW c \in Clients
       PROVE  CallOK(c) /\ Knows(c) /\ Stands(c) /\ \A g \in Generation : ~Claims(c, g)
  <2>1. call[c] = idle
    BY <1>9
  <2>2. CallOK(c)
    <3>1. None \in RequestsOf("none") /\ "idle" \in StepsOf("none")
      BY DEF RequestsOf, StepsOf
    <3>2. QED
      BY <1>8, <1>10, <2>1, <3>1 DEF CallOK
  <2>3. Knows(c)
    BY <1>8, <2>1 DEF Knows, BootstrapKnows, StageKnows, PublishKnows, SearchKnows,
                       HeadKnows, PurgeKnows, At, Step, CacheJobs
  <2>4. Stands(c)
    BY <1>8, <1>10, <2>1 DEF Stands, CacheJobs
  <2>5. \A g \in Generation : ~Claims(c, g)
    BY <1>8, <1>10, <2>1 DEF Claims, Step
  <2>6. QED
    BY <2>2, <2>3, <2>4, <2>5
<1>12. call \in [Clients -> CallRecord]
  BY <1>8, <1>9
<1>13. ClaimsDiffer
  BY <1>11 DEF ClaimsDiffer
<1>14. QED
  BY <1>5, <1>6, <1>7, <1>11, <1>12, <1>13 DEF CacheInvariant, TablesSound
-----------------------------------------------------------------------------
(* What holds of every behaviour.                                          *)

\* The tables, the calls under way and the reports of ended calls agree
\* throughout, when one client at most upgrades a version 1 database.
THEOREM CacheConsistent ==
    ASSUME OneUpgrader
    PROVE  Spec => []CacheInvariant
<1>1. Init => CacheInvariant
  BY CacheBegins
<1>2. CacheInvariant /\ [Next]_semanticVars => CacheInvariant'
  BY CacheStep
<1>3. QED
  BY <1>1, <1>2, PTL DEF Spec
\* Every stored generation is whole, in an isolation its authority owns and
\* alone under its number, a head is one of them, and nothing outlives its
\* authority's purge, however the calls of the hosts interleave.
THEOREM CacheAlwaysSound ==
    ASSUME OneUpgrader
    PROVE  Spec => []CacheSound
<1>1. CacheInvariant => CacheSound
  BY DEF CacheInvariant, TablesSound
<1>2. QED
  BY <1>1, CacheConsistent, PTL

\* Of the publishes that race for a generation, one at most is told that it
\* moved the head there: the others would have had to find an earlier head.
THEOREM OneIsPublisher ==
    ASSUME OneUpgrader
    PROVE  Spec => []OnePublisher
<1>1. ASSUME CacheInvariant
      PROVE  OnePublisher
  <2>1. SUFFICES ASSUME NEW c \in Clients, NEW d \in Clients, c # d,
                        call[c].outcome.job = "publish", call[c].outcome.result = "ok",
                        call[d].outcome.job = "publish", call[d].outcome.result = "ok",
                        call[c].outcome.value = call[d].outcome.value
                 PROVE  FALSE
    BY DEF OnePublisher
  <2> DEFINE g == call[c].outcome.value
  <2>2. g \in Generation
    BY <1>1, <2>1, Facts DEF Stands
  <2>3. Claims(c, g) /\ Claims(d, g)
    BY <2>1 DEF Claims
  <2> HIDE DEF g
  <2>4. QED
    BY <1>1, <2>1, <2>2, <2>3 DEF CacheInvariant, ClaimsDiffer
<1>2. QED
  BY <1>1, CacheConsistent, PTL

\* What a call reported stays true until a purge.
THEOREM ReportsAlwaysStand ==
    ASSUME OneUpgrader
    PROVE  Spec => []ReportsStand
<1>1. ASSUME CacheInvariant
      PROVE  ReportsStand
  <2>1. SUFFICES ASSUME NEW c \in Clients
                 PROVE  LET o == call[c].outcome
                            a == o.request.authority
                        IN  /\ o.job = "stage" /\ o.result = "ok" =>
                                  /\ o.value = o.request.generation
                                  /\ o.value \in generations \/ purges[a] # None
                            /\ o.job = "publish" /\ o.result \in {"ok", "unchanged"} =>
                                  \/ purges[a] # None
                                  \/ heads[a] # None /\ heads[a].number >= o.request.number
                            /\ o.job = "search" /\ o.result = "ok" =>
                                  o.value = Chunks[o.request.generation.content]
                            /\ o.job = "v1-purge" /\ o.result = "ok" => Tombstone(a) = o.value
                            /\ o.job \in {"purge", "receipt"} /\ o.result = "ok" =>
                                  purges[a] = o.value
    BY DEF ReportsStand
  <2> DEFINE o == call[c].outcome
             a == o.request.authority
  <2>2. Stands(c) /\ CallOK(c)
    BY <1>1, Facts
  <2>3. o.job = "stage" => o.request.generation.authority = a
    BY <2>2, ReportTypes
  <2>4. o.job = "stage" /\ o.result = "ok" =>
            /\ o.value = o.request.generation
            /\ o.value \in generations \/ purges[a] # None
    BY <2>2, <2>3 DEF Stands, Kept, Gone
  <2>5. o.job = "publish" /\ o.result \in {"ok", "unchanged"} =>
            \/ purges[a] # None
            \/ heads[a] # None /\ heads[a].number >= o.request.number
    BY <2>2 DEF Stands, Passed, Gone
  <2>6. QED
    BY <2>2, <2>4, <2>5 DEF Stands
<1>2. QED
  BY <1>1, CacheConsistent, PTL

\* A call that reports a broken cache ran into a purge of its authority, or
\* staged a number that another generation has.
THEOREM NoAlarmIsFalse ==
    ASSUME OneUpgrader
    PROVE  Spec => []NoFalseAlarm
<1>1. ASSUME CacheInvariant
      PROVE  NoFalseAlarm
  <2>1. SUFFICES ASSUME NEW c \in Clients, call[c].outcome.result = "integrity",
                        ~Gone(call[c].outcome.request.authority)
                 PROVE  LET o == call[c].outcome
                        IN  /\ o.job = "stage"
                            /\ Stored(o.request.authority, o.request.generation.number)
                                  # o.request.generation
    BY DEF NoFalseAlarm, Gone
  <2> DEFINE o == call[c].outcome
             a == o.request.authority
             g == o.request.generation
  <2>2. o.job = "stage" /\ Numbered(a, g.number) \ {g} # {}
    BY <1>1, <2>1, Facts DEF Stands
  <2> HIDE DEF o, a, g
  <2>3. PICK h \in Numbered(a, g.number) : h # g
    BY <2>2
  <2>4. h = Stored(a, g.number)
    BY <1>1, <2>3, StoredFacts
  <2>5. QED
    BY <2>2, <2>3, <2>4 DEF o, a, g
<1>2. QED
  BY <1>1, CacheConsistent, PTL

-----------------------------------------------------------------------------
(* Tombstones and receipts.                                                *)

\* The steps that touch the tombstones or the schema.
Touches(c) ==
    \/ PurgeBatch(c) \/ StartTransition(c) \/ Finish(c) \/ LegacyBatch(c) \/ Materialize(c)
    \/ Create(c)

ClientStep(c) ==
    \/ UpgradeNext(c) \/ Asks(c)
    \/ StageStep(c) \/ PublishStep(c) \/ SearchStep(c) \/ HeadStep(c) \/ PurgeStep(c)

LEMMA OthersTouchNothing ==
    ASSUME NEW c \in Clients, ClientStep(c), ~Touches(c)
    PROVE  UNCHANGED <<schema, transition, purges>>
<1>1. CASE StageStep(c)
  BY <1>1 DEF StageStep, StagePurged, UnlessPurged, Reserve, ReadOwner, Reserved,
              StageGeneration, Embed, StageBatch, StageVectors, VectorsGone,
              StagedGeneration, StagedPurged, StagedMembers, Reads, tables, data
<1>2. CASE PublishStep(c)
  BY <1>2 DEF PublishStep, PublishPurged, UnlessPurged, PublishGeneration, PublishMembers,
              PublishHead, PublishSwap, PublishAfter, Published, Reads, tables, data
<1>3. CASE SearchStep(c)
  BY <1>3 DEF SearchStep, SearchPurged, UnlessPurged, SearchHead, SearchGeneration,
              SearchEmbed, Scan, SearchAgain, SearchLast, Reads, tables, data
<1>4. CASE HeadStep(c)
  BY <1>4 DEF HeadStep, HeadPurged, UnlessPurged, HeadRead, HeadGeneration, HeadGone,
              HeadAgain, Reads, tables, data
<1>5. CASE PurgeStep(c)
  BY <1>5 DEF Touches, PurgeStep, PurgeBefore, ReadReceipt, PurgeHead, PurgeOwner, PurgeScopes,
              PurgeReserve, UnlessPurged, PurgeAfter, CheckResidual, Reads, tables, data
<1>6. CASE Asks(c)
  BY <1>6 DEF Asks, Stage, Publish, Search, ReadHead, Purge, AskReceipt, Begin, tables, data
<1>7. CASE UpgradeNext(c)
  <2>1. CASE Open(c) \/ SqlFails(c) \/ Restart(c) \/ Bootstrap(c) \/ LegacyPurge(c)
    BY <2>1 DEF Open, Bootstrap, LegacyPurge, Begin, SqlFails, Restart, tables, data
  <2>2. CASE Workflow(c)
    BY <2>2 DEF Touches, Workflow, VerifyTransitionTable, VerifyMarker, VerifyObjects,
                Inventory, VerifyV1, Inspect, VerifyTransition, InventoryAgain, ReadPage,
                CheckRemaining, LegacyBefore, LegacyAfter, Reads, tables, data
  <2>3. QED
    BY <1>7, <2>1, <2>2 DEF UpgradeNext
<1>8. QED
  BY <1>1, <1>2, <1>3, <1>4, <1>5, <1>6, <1>7 DEF ClientStep

\* A receipt is not written again.
LEMMA ReceiptsKept ==
    ASSUME CacheInvariant, [Next]_semanticVars
    PROVE  \A a \in Authorities : purges[a] \in Receipt => purges'[a] = purges[a]
<1>1. ASSUME NEW c \in Clients, Grows(c), NEW a \in Authorities, purges[a] \in Receipt
      PROVE  purges'[a] = purges[a]
  <2>1. schema # "v1"
    BY <1>1, TombstoneFacts, RowsApart, NoneApart
  <2>2. Gone(a)
    BY <1>1, NoneApart DEF Gone
  <2>3. QED
    BY <1>1, <2>1, <2>2 DEF Grows
<1>2. CASE UNCHANGED semanticVars
  BY <1>2 DEF semanticVars, tables, data
<1>3. CASE Next
  <2>1. PICK c \in Clients : ClientStep(c)
    BY <1>3 DEF Next, ClientStep
  <2>2. CASE ~Touches(c)
    BY <2>1, <2>2, OthersTouchNothing
  <2>3. CASE Create(c)
    BY <2>3 DEF Create, data
  <2>4. CASE Touches(c) /\ ~Create(c)
    <3>1. Grows(c)
      BY <2>4, PurgeBatchSound, StartTransitionSound, FinishSound, LegacyBatchSound,
         MaterializeGrows DEF Touches
    <3>2. QED
      BY <1>1, <3>1
  <2>5. QED
    BY <2>2, <2>3, <2>4
<1>4. QED
  BY <1>2, <1>3

\* The receipt of a purge never changes, whoever repeats the purge and whatever
\* instant or isolation the repetition brings.
THEOREM ReceiptsArePermanent ==
    ASSUME OneUpgrader
    PROVE  Spec => ReceiptsPermanent
<1>1. CacheInvariant /\ [Next]_semanticVars =>
          [\A a \in Authorities : purges[a] \in Receipt => purges'[a] = purges[a]]_tables
  BY ReceiptsKept
<1>2. QED
  BY <1>1, CacheConsistent, PTL DEF Spec, ReceiptsPermanent

-----------------------------------------------------------------------------
(* Tombstones, with any number of upgraders.                               *)

\* What is relied on of the tables: where tombstones are and that they have an
\* instant, and that only a transition has transition rows.
TombstoneRows ==
    /\ transition \in [Authorities -> Instants \cup {None}]
    /\ DOMAIN purges = Authorities
    /\ \A a \in Authorities : purges[a] # None => purges[a].at \in Instants
    /\ schema # "transition" => \A a \in Authorities : transition[a] = None

CallFields == {"job", "step", "request", "within", "seen", "found", "offset", "count", "error",
               "outcome"}

\* What is relied on of a call, whatever the tables are.
Dated(k) ==
    /\ DOMAIN k = CallFields
    /\ k.job = "purge" => k.request.at \in Instants
    /\ k.step \in {"v1-before", "v1-batch"} => k.request.at \in Instants

\* A page, however old, names the tombstones there are.
PageHolds(k) ==
    k.step = "materialize" =>
        k.seen \in Page /\ \A a \in DOMAIN k.seen : Tombstone(a) = k.seen[a]

TombstoneInvariant ==
    /\ TombstoneRows
    /\ DOMAIN call = Clients
    /\ \A c \in Clients : Dated(call[c]) /\ PageHolds(call[c])

TombstonesStay == \A a \in Authorities : Tombstone(a) # None => Tombstone(a)' = Tombstone(a)

\* A client goes on, its call still dated, and to no page.
Calm(c) ==
    /\ DOMAIN call' = Clients
    /\ \A d \in Clients : d # c => call'[d] = call[d]
    /\ Dated(call'[c])
    /\ call'[c].step # "materialize"

Quiet == {"v1-before", "v1-batch", "materialize"}

LEMMA GoCalm ==
    ASSUME TombstoneInvariant, NEW c \in Clients, NEW step, step \notin Quiet, Go(c, step)
    PROVE  Calm(c)
  BY DEF TombstoneInvariant, Dated, CallFields, Go, Calm, Quiet

LEMMA EnterCalm ==
    ASSUME TombstoneInvariant, NEW c \in Clients, NEW step, step \notin Quiet, NEW within,
           Enter(c, step, within)
    PROVE  Calm(c)
  BY DEF TombstoneInvariant, Dated, CallFields, Enter, Calm, Quiet

LEMMA SeeCalm ==
    ASSUME TombstoneInvariant, NEW c \in Clients, NEW step, step \notin Quiet, NEW seen,
           See(c, step, seen)
    PROVE  Calm(c)
  BY DEF TombstoneInvariant, Dated, CallFields, See, Calm, Quiet

LEMMA EndCalm ==
    ASSUME TombstoneInvariant, NEW c \in Clients, NEW result, NEW value, End(c, result, value)
    PROVE  Calm(c)
  BY DEF TombstoneInvariant, Dated, CallFields, End, Idle, Calm

LEMMA FailureCalm ==
    ASSUME TombstoneInvariant, NEW c \in Clients, NEW error, Failure(c, error)
    PROVE  Calm(c)
<1> DEFINE Recover == call' = [call EXCEPT ![c].step = "verify-transition",
                                           ![c].within = "recover", ![c].error = error]
<1>1. Recover => Calm(c)
  BY DEF TombstoneInvariant, Dated, CallFields, Calm
<1>2. \/ Go(c, "inspect") \/ Recover \/ Enter(c, "verify-transition", "finish")
      \/ End(c, call[c].error, None) \/ End(c, error, None)
  BY DEF Failure
<1>3. {"inspect", "verify-transition"} \cap Quiet = {}
  BY DEF Quiet
<1>4. QED
  BY <1>1, <1>2, <1>3, GoCalm, EnterCalm, EndCalm

LEMMA AnsweredCalm ==
    ASSUME TombstoneInvariant, NEW c \in Clients, NEW step, step \notin Quiet, Answered(c, step)
    PROVE  Calm(c)
  BY GoCalm, FailureCalm DEF Answered

LEMMA UnlessPurgedCalm ==
    ASSUME TombstoneInvariant, NEW c \in Clients, NEW result, NEW next, next \notin Quiet,
           UnlessPurged(c, result, next)
    PROVE  Calm(c)
  BY GoCalm, EndCalm DEF UnlessPurged

\* A request that begins has an instant where one is needed.
LEMMA BeginDated ==
    ASSUME TombstoneInvariant, NEW c \in Clients, NEW job, NEW step, step # "materialize",
           NEW within, NEW request, Begin(c, job, step, within, request),
           job = "purge" \/ step \in Quiet => request.at \in Instants
    PROVE  Calm(c)
<1> DEFINE k == [Idle(NoOutcome) EXCEPT !.job = job, !.step = step, !.within = within,
                                        !.request = request]
<1>1. call' = [call EXCEPT ![c] = k]
  BY DEF Begin
<1>2. DOMAIN k = CallFields /\ k.job = job /\ k.step = step /\ k.request = request
  BY DEF Idle, CallFields
<1>3. Dated(k) /\ k.step # "materialize"
  BY <1>2 DEF Dated, Quiet
<1> HIDE DEF k
<1>4. QED
  BY <1>1, <1>3 DEF TombstoneInvariant, Calm

LEMMA StageCalm ==
    ASSUME TombstoneInvariant, NEW c \in Clients, StageStep(c)
    PROVE  Calm(c)
<1>1. {"reserve", "stage-generation", "owner", "reserved", "purged-again", "purge-batch", "embed",
       "stage-batch", "stage-vectors", "staged", "vectors-gone", "staged-purged",
       "staged-members"} \cap Quiet = {}
  BY DEF Quiet
<1>2. CASE StagePurged(c)
  BY <1>1, <1>2, UnlessPurgedCalm DEF StagePurged
<1>3. CASE Reserve(c)
  BY <1>1, <1>3, AnsweredCalm DEF Reserve
<1>4. CASE ReadOwner(c)
  BY <1>1, <1>4, SeeCalm DEF ReadOwner
<1>5. CASE Reserved(c)
  BY <1>1, <1>5, SeeCalm, EndCalm DEF Reserved
<1>6. CASE StageGeneration(c)
  BY <1>1, <1>6, GoCalm, EndCalm DEF StageGeneration
<1>7. CASE Embed(c)
  BY <1>1, <1>7, GoCalm DEF Embed
<1>8. CASE StageBatch(c)
  BY <1>1, <1>8, AnsweredCalm DEF StageBatch
<1>9. CASE StageVectors(c)
  BY <1>1, <1>9, GoCalm DEF StageVectors
<1>10. CASE VectorsGone(c)
  BY <1>10, EndCalm DEF VectorsGone
<1>11. CASE StagedGeneration(c)
  BY <1>1, <1>11, SeeCalm DEF StagedGeneration
<1>12. CASE StagedPurged(c)
  BY <1>1, <1>12, GoCalm, EndCalm DEF StagedPurged
<1>13. CASE StagedMembers(c)
  BY <1>13, EndCalm DEF StagedMembers
<1>14. QED
  BY <1>2, <1>3, <1>4, <1>5, <1>6, <1>7, <1>8, <1>9, <1>10, <1>11, <1>12, <1>13 DEF StageStep

LEMMA PublishCalm ==
    ASSUME TombstoneInvariant, NEW c \in Clients, PublishStep(c)
    PROVE  Calm(c)
<1>1. {"publish-generation", "publish-members", "publish-head", "publish-swap", "published"}
         \cap Quiet = {}
  BY DEF Quiet
<1>2. CASE PublishPurged(c) \/ PublishAfter(c)
  BY <1>1, <1>2, UnlessPurgedCalm DEF PublishPurged, PublishAfter
<1>3. CASE PublishGeneration(c)
  BY <1>1, <1>3, SeeCalm, EndCalm DEF PublishGeneration
<1>4. CASE PublishMembers(c)
  BY <1>1, <1>4, GoCalm, EndCalm DEF PublishMembers
<1>5. CASE PublishHead(c)
  BY <1>1, <1>5, GoCalm, EndCalm DEF PublishHead
<1>6. CASE PublishSwap(c)
  <2>1. CASE Failure(c, "sql")
    BY <2>1, FailureCalm
  <2>2. CASE call' = [call EXCEPT ![c].step = "publish-after",
                                  ![c].count = IF Swaps(c) THEN 1 ELSE 0]
    BY <2>2 DEF TombstoneInvariant, Dated, CallFields, Calm
  <2>3. QED
    BY <1>6, <2>1, <2>2 DEF PublishSwap
<1>7. CASE Published(c)
  BY <1>7, EndCalm DEF Published
<1>8. QED
  BY <1>2, <1>3, <1>4, <1>5, <1>6, <1>7 DEF PublishStep

LEMMA SearchCalm ==
    ASSUME TombstoneInvariant, NEW c \in Clients, SearchStep(c)
    PROVE  Calm(c)
<1>1. {"search-head", "search-generation", "search-embed", "scan", "search-again", "search-last"}
         \cap Quiet = {}
  BY DEF Quiet
<1>2. CASE SearchPurged(c)
  BY <1>1, <1>2, UnlessPurgedCalm DEF SearchPurged
<1>3. CASE SearchHead(c)
  BY <1>1, <1>3, SeeCalm, EndCalm DEF SearchHead
<1>4. CASE SearchGeneration(c)
  BY <1>1, <1>4, GoCalm, EndCalm DEF SearchGeneration
<1>5. CASE SearchEmbed(c)
  BY <1>1, <1>5, GoCalm DEF SearchEmbed
<1>6. CASE Scan(c)
  <2> DEFINE page == PageRows(call[c].seen, call[c].offset)
             Turn == call' = [call EXCEPT ![c].found = @ \cup page,
                                          ![c].offset = @ + PageSize,
                                          ![c].count = @ + Cardinality(page)]
  <2>1. Step(c) = "scan" /\ (Turn \/ Go(c, "search-again") \/ End(c, "integrity", None))
    BY <1>6 DEF Scan, At, Step
  <2>2. Turn => Calm(c)
    BY <2>1 DEF TombstoneInvariant, Dated, CallFields, Calm, Step
  <2>3. QED
    BY <1>1, <2>1, <2>2, GoCalm, EndCalm
<1>7. CASE SearchAgain(c)
  BY <1>1, <1>7, GoCalm, EndCalm DEF SearchAgain
<1>8. CASE SearchLast(c)
  BY <1>8, EndCalm DEF SearchLast
<1>9. QED
  BY <1>2, <1>3, <1>4, <1>5, <1>6, <1>7, <1>8 DEF SearchStep

LEMMA HeadCalm ==
    ASSUME TombstoneInvariant, NEW c \in Clients, HeadStep(c)
    PROVE  Calm(c)
<1>1. {"head-read", "head-generation", "head-purged-again", "head-again", "head-gone"}
         \cap Quiet = {}
  BY DEF Quiet
<1>2. CASE HeadPurged(c)
  BY <1>1, <1>2, UnlessPurgedCalm DEF HeadPurged
<1>3. CASE HeadRead(c)
  BY <1>1, <1>3, SeeCalm, EndCalm DEF HeadRead
<1>4. CASE HeadGeneration(c)
  BY <1>1, <1>4, GoCalm DEF HeadGeneration
<1>5. CASE HeadGone(c)
  BY <1>5, EndCalm DEF HeadGone
<1>6. CASE HeadAgain(c)
  BY <1>1, <1>6, GoCalm, EndCalm DEF HeadAgain
<1>7. QED
  BY <1>2, <1>3, <1>4, <1>5, <1>6 DEF HeadStep

LEMMA PurgeCalm ==
    ASSUME TombstoneInvariant, NEW c \in Clients, PurgeStep(c)
    PROVE  Calm(c)
<1>1. {"purge-head", "purge-owner", "purge-batch", "purge-scopes", "purge-reserve", "reserve",
       "purge-after", "residual"} \cap Quiet = {}
  BY DEF Quiet
<1>3. CASE PurgeBefore(c)
  BY <1>1, <1>3, SeeCalm, EndCalm, GoCalm DEF PurgeBefore, WithReceipt
<1>4. CASE ReadReceipt(c) \/ PurgeAfter(c)
  BY <1>1, <1>4, SeeCalm, EndCalm DEF ReadReceipt, PurgeAfter, WithReceipt
<1>5. CASE PurgeHead(c) \/ PurgeOwner(c) \/ PurgeScopes(c)
  BY <1>1, <1>5, GoCalm, EndCalm DEF PurgeHead, PurgeOwner, PurgeScopes
<1>6. CASE PurgeReserve(c)
  BY <1>1, <1>6, UnlessPurgedCalm DEF PurgeReserve
<1>7. CASE PurgeBatch(c)
  BY <1>1, <1>7, AnsweredCalm DEF PurgeBatch
<1>8. CASE CheckResidual(c)
  BY <1>8, EndCalm DEF CheckResidual
<1>9. QED
  BY <1>3, <1>4, <1>5, <1>6, <1>7, <1>8 DEF PurgeStep

LEMMA AsksCalm ==
    ASSUME TombstoneInvariant, NEW c \in Clients, Asks(c)
    PROVE  Calm(c)
<1>1. {"stage-purged", "publish-purged", "search-purged", "head-purged", "purge-before",
       "receipt"} \cap Quiet = {} /\ "materialize" \in Quiet
  BY DEF Quiet
<1>2. CASE Stage(c) \/ Publish(c) \/ Search(c) \/ ReadHead(c) \/ AskReceipt(c)
  BY <1>1, <1>2, BeginDated DEF Stage, Publish, Search, ReadHead, AskReceipt
<1>3. CASE Purge(c)
  BY <1>1, <1>3, BeginDated, RequestAssumption DEF Purge
<1>4. QED
  BY <1>2, <1>3 DEF Asks

LEMMA WorkflowCalm ==
    ASSUME TombstoneInvariant, NEW c \in Clients, Workflow(c), ~ReadPage(c)
    PROVE  Calm(c)
<1>1. {"verify-marker", "verify-objects", "inventory-again", "verify-transition", "create",
       "v1-marker", "v1-objects", "start", "transition-objects", "transition-marker", "page",
       "remaining", "finish", "v1-after"} \cap Quiet = {}
  BY DEF Quiet
<1>2. CASE VerifyTransitionTable(c) \/ VerifyMarker(c)
  BY <1>1, <1>2, GoCalm, FailureCalm DEF VerifyTransitionTable, VerifyMarker
<1>3. CASE VerifyObjects(c)
  BY <1>1, <1>3, EnterCalm, EndCalm, FailureCalm DEF VerifyObjects
<1>4. CASE Inventory(c)
  BY <1>1, <1>4, GoCalm, EnterCalm DEF Inventory
<1>5. CASE Create(c)
  BY <1>1, <1>5, AnsweredCalm DEF Create
<1>6. CASE VerifyV1(c)
  BY <1>1, <1>6, GoCalm, FailureCalm DEF VerifyV1
<1>7. CASE StartTransition(c)
  BY <1>1, <1>7, AnsweredCalm, FailureCalm DEF StartTransition
<1>8. CASE Inspect(c)
  BY <1>1, <1>8, GoCalm, EndCalm DEF Inspect
<1>9. CASE VerifyTransition(c)
  BY <1>1, <1>9, GoCalm, EnterCalm, FailureCalm DEF VerifyTransition
<1>10. CASE InventoryAgain(c)
  BY <1>1, <1>10, GoCalm, EnterCalm, EndCalm DEF InventoryAgain
<1>11. CASE Materialize(c)
  <2>1. Failure(c, "sql") \/ Answered(c, "remaining")
    BY <1>11 DEF Materialize
  <2>2. QED
    BY <1>1, <2>1, AnsweredCalm, FailureCalm
<1>12. CASE CheckRemaining(c)
  BY <1>1, <1>12, SeeCalm, FailureCalm DEF CheckRemaining
<1>13. CASE Finish(c)
  BY <1>1, <1>13, EnterCalm, FailureCalm DEF Finish
<1>14. CASE LegacyBefore(c)
  <2>1. call[c].request.at \in Instants
    BY <1>14 DEF LegacyBefore, TombstoneInvariant, Dated, Step
  <2>2. See(c, "v1-batch", LegacyTombstone(c))
    BY <1>14 DEF LegacyBefore
  <2>3. QED
    BY <2>1, <2>2 DEF TombstoneInvariant, Dated, CallFields, See, Calm
<1>15. CASE LegacyBatch(c)
  BY <1>1, <1>15, AnsweredCalm, FailureCalm DEF LegacyBatch
<1>16. CASE LegacyAfter(c)
  BY <1>16, EndCalm, FailureCalm DEF LegacyAfter
<1>17. QED
  BY <1>2, <1>3, <1>4, <1>5, <1>6, <1>7, <1>8, <1>9, <1>10, <1>11, <1>12, <1>13, <1>14, <1>15,
     <1>16 DEF Workflow

\* Only a page that is read takes a client where tombstones matter.
LEMMA CallsCalm ==
    ASSUME TombstoneInvariant, NEW c \in Clients, ClientStep(c), ~ReadPage(c)
    PROVE  Calm(c)
<1>1. CASE UpgradeNext(c)
  <2>1. {"verify-transition", "inventory"} \cap Quiet = {} /\ "materialize" \in Quiet
    BY DEF Quiet
  <2>2. CASE Open(c) \/ Bootstrap(c)
    BY <2>1, <2>2, BeginDated DEF Open, Bootstrap
  <2>3. CASE LegacyPurge(c)
    BY <2>3, BeginDated, SemanticAssumption DEF LegacyPurge
  <2>4. CASE SqlFails(c)
    BY <2>4, FailureCalm DEF SqlFails
  <2>5. CASE Restart(c)
    BY <2>5 DEF Restart, TombstoneInvariant, Dated, CallFields, Idle, Calm
  <2>6. QED
    BY <1>1, <2>2, <2>3, <2>4, <2>5, WorkflowCalm DEF UpgradeNext
<1>2. QED
  BY <1>1, StageCalm, PublishCalm, SearchCalm, HeadCalm, PurgeCalm, AsksCalm DEF ClientStep

\* What the steps do to the rows.
LEMMA PurgeBatchStays ==
    ASSUME TombstoneInvariant, NEW c \in Clients, PurgeBatch(c)
    PROVE  TombstoneRows' /\ TombstonesStay
<1> DEFINE row == ReceiptOf(A(c), I(c), call[c].request.at)
<1>1. /\ purges' = [purges EXCEPT ![A(c)] = IF PurgeInserts(c) THEN row ELSE @]
      /\ UNCHANGED <<schema, transition>>
  BY DEF PurgeBatch
<1>2. row.at \in Instants
  BY DEF PurgeBatch, At, TombstoneInvariant, Dated, ReceiptOf
<1>3. PurgeInserts(c) => purges[A(c)] = None
  BY DEF PurgeInserts
<1> HIDE DEF row
<1>4. \A a \in Authorities :
         purges'[a] = purges[a] \/ (purges[a] = None /\ purges'[a].at \in Instants)
  BY <1>1, <1>2, <1>3 DEF TombstoneInvariant, TombstoneRows
<1>5. TombstoneRows'
  BY <1>1, <1>4 DEF TombstoneInvariant, TombstoneRows
<1>6. TombstonesStay
  BY <1>1, <1>4 DEF TombstonesStay, Tombstone
<1>7. QED
  BY <1>5, <1>6

LEMMA StartTransitionStays ==
    ASSUME TombstoneInvariant, NEW c \in Clients, StartTransition(c)
    PROVE  TombstoneRows' /\ TombstonesStay
<1>1. CASE UNCHANGED tables
  BY <1>1 DEF tables, data, TombstoneInvariant, TombstoneRows, TombstonesStay, Tombstone
<1>2. CASE schema \in {"v1", "v2"}
  <2>1. /\ schema' = "transition" /\ transition' = Copied(purges) /\ purges' = NoRow
    BY <1>2 DEF StartTransition
  <2>2. \A a \in Authorities :
           /\ transition[a] = None /\ purges'[a] = None
           /\ transition'[a] = IF purges[a] = None THEN None ELSE purges[a].at
           /\ purges[a] # None => purges[a].at \in Instants
    BY <1>2, <2>1 DEF TombstoneInvariant, TombstoneRows, NoRow, Copied
  <2>3. transition' = [a \in Authorities |-> IF purges[a] = None THEN None ELSE purges[a].at]
    BY <2>1 DEF Copied
  <2>4. transition' \in [Authorities -> Instants \cup {None}]
    BY <2>2, <2>3
  <2>5. TombstoneRows'
    BY <2>1, <2>2, <2>4 DEF TombstoneRows, NoRow
  <2>6. TombstonesStay
    BY <2>2, NoneApart DEF TombstonesStay, Tombstone
  <2>7. QED
    BY <2>5, <2>6
<1>3. QED
  BY <1>1, <1>2 DEF StartTransition

LEMMA FinishStays ==
    ASSUME TombstoneInvariant, NEW c \in Clients, Finish(c)
    PROVE  TombstoneRows' /\ TombstonesStay
<1>1. purges' = purges
  BY DEF Finish, data
<1>2. CASE UNCHANGED <<schema, transition>>
  BY <1>1, <1>2 DEF TombstoneInvariant, TombstoneRows, TombstonesStay, Tombstone
<1>3. CASE Pending = {} /\ transition' = NoRow
  <2>1. \A a \in Authorities : transition[a] = None /\ transition'[a] = None
    BY <1>3 DEF Pending, NoRow
  <2>2. transition' \in [Authorities -> Instants \cup {None}]
    BY <1>3 DEF NoRow
  <2>3. QED
    BY <1>1, <2>1, <2>2 DEF TombstoneInvariant, TombstoneRows, TombstonesStay, Tombstone
<1>4. QED
  BY <1>2, <1>3 DEF Finish

LEMMA LegacyBatchStays ==
    ASSUME TombstoneInvariant, NEW c \in Clients, LegacyBatch(c)
    PROVE  TombstoneRows' /\ TombstonesStay
<1> DEFINE row == [at |-> call[c].request.at]
           b == call[c].request.authority
<1>1. UNCHANGED <<schema, transition>>
  BY DEF LegacyBatch
<1>2. CASE purges' = purges
  BY <1>1, <1>2 DEF TombstoneInvariant, TombstoneRows, TombstonesStay, Tombstone
<1>3. CASE purges' = [purges EXCEPT ![b] = IF @ = None THEN row ELSE @]
  <2>1. row.at \in Instants
    BY DEF LegacyBatch, TombstoneInvariant, Dated, Step
  <2> HIDE DEF row, b
  <2>2. \A a \in Authorities :
           purges'[a] = purges[a] \/ (purges[a] = None /\ purges'[a].at \in Instants)
    BY <1>3, <2>1 DEF TombstoneInvariant, TombstoneRows
  <2>3. TombstoneRows'
    BY <1>1, <1>3, <2>2 DEF TombstoneInvariant, TombstoneRows
  <2>4. TombstonesStay
    BY <1>1, <2>2 DEF TombstonesStay, Tombstone
  <2>5. QED
    BY <2>3, <2>4
<1>4. QED
  BY <1>2, <1>3 DEF LegacyBatch

\* A transition row goes only where the receipt has its instant, and the
\* instant of a page is the tombstone's, however old the page is.
LEMMA MaterializeStays ==
    ASSUME TombstoneInvariant, NEW c \in Clients, Materialize(c)
    PROVE  TombstoneRows' /\ TombstonesStay
<1> DEFINE page == call[c].seen
<1>1. CASE UNCHANGED tables
  BY <1>1 DEF tables, data, TombstoneInvariant, TombstoneRows, TombstonesStay, Tombstone
<1>2. CASE ~UNCHANGED tables
  <2>1. page \in Page /\ \A a \in DOMAIN page : Tombstone(a) = page[a]
    BY DEF Materialize, TombstoneInvariant, PageHolds, Step
  <2>2. /\ schema' = schema
        /\ schema = "transition"
        /\ purges' = [a \in Authorities |->
               IF a \in DOMAIN page /\ purges[a] = None
               THEN LegacyReceipt(a, page[a]) ELSE purges[a]]
        /\ transition' = [a \in Authorities |->
               IF /\ a \in DOMAIN page
                  /\ transition[a] = page[a]
                  /\ Materialized(a, page[a], isolations', purges')
               THEN None ELSE transition[a]]
    BY <1>2 DEF Materialize
  <2> HIDE DEF page
  <2>3. \A a \in DOMAIN page : a \in Authorities /\ page[a] \in Instants
    BY <2>1 DEF Page
  <2>4. \A a \in DOMAIN page :
           /\ LegacyReceipt(a, page[a]).at = page[a]
           /\ LegacyReceipt(a, page[a]) # None
    <3>1. SUFFICES ASSUME NEW a \in DOMAIN page
                   PROVE  /\ LegacyReceipt(a, page[a]).at = page[a]
                          /\ LegacyReceipt(a, page[a]) \in Receipt
      BY NoneApart
    <3>2. Derived[a] \in Isolations
      BY <2>3, SemanticAssumption
    <3>3. QED
      BY <2>3, <3>2 DEF LegacyReceipt, Receipt
  <2>5. \A a \in Authorities :
           \/ purges'[a] = purges[a]
           \/ purges[a] = None /\ a \in DOMAIN page /\ purges'[a] = LegacyReceipt(a, page[a])
    BY <2>2
  <2>6. \A a \in Authorities :
           \/ transition'[a] = transition[a]
           \/ /\ transition'[a] = None /\ a \in DOMAIN page
              /\ transition[a] = page[a] /\ purges'[a] = LegacyReceipt(a, page[a])
    BY <2>2 DEF Materialized
  <2>7. transition' \in [Authorities -> Instants \cup {None}]
    BY <2>2 DEF TombstoneInvariant, TombstoneRows
  <2>8. \A a \in Authorities : purges'[a] # None => purges'[a].at \in Instants
    BY <2>3, <2>4, <2>5 DEF TombstoneInvariant, TombstoneRows
  <2>9. TombstoneRows'
    BY <2>2, <2>7, <2>8 DEF TombstoneRows
  <2>10. TombstonesStay
    <3>1. SUFFICES ASSUME NEW a \in Authorities, Tombstone(a) # None
                   PROVE  Tombstone(a)' = Tombstone(a)
      BY DEF TombstonesStay
    <3>2. CASE transition'[a] = transition[a] /\ transition[a] # None
      BY <3>2 DEF Tombstone
    <3>3. CASE transition'[a] = transition[a] /\ transition[a] = None
      <4>1. purges[a] # None
        BY <3>1, <3>3 DEF Tombstone
      <4>2. purges'[a] = purges[a]
        BY <2>5, <4>1
      <4>3. QED
        BY <3>3, <4>2 DEF Tombstone
    <3>4. CASE transition'[a] = None /\ a \in DOMAIN page
               /\ purges'[a] = LegacyReceipt(a, page[a])
      <4>1. Tombstone(a) = page[a] /\ purges'[a].at = page[a] /\ purges'[a] # None
        BY <2>1, <2>4, <3>4
      <4>2. Tombstone(a)' = purges'[a].at
        BY <3>4, <4>1 DEF Tombstone
      <4>3. QED
        BY <4>1, <4>2
    <3>5. QED
      BY <2>6, <3>2, <3>3, <3>4
  <2>11. QED
    BY <2>9, <2>10
<1>3. QED
  BY <1>1, <1>2

LEMMA RowsStay ==
    ASSUME TombstoneInvariant, NEW c \in Clients, ClientStep(c)
    PROVE  TombstoneRows' /\ TombstonesStay
<1>1. CASE ~Touches(c)
  <2>1. UNCHANGED <<schema, transition, purges>>
    BY <1>1, OthersTouchNothing
  <2>2. QED
    BY <2>1 DEF TombstoneInvariant, TombstoneRows, TombstonesStay, Tombstone
<1>2. CASE Create(c)
  BY <1>2 DEF Create, data, TombstoneInvariant, TombstoneRows, TombstonesStay, Tombstone
<1>3. QED
  BY <1>1, <1>2, PurgeBatchStays, StartTransitionStays, FinishStays, LegacyBatchStays,
     MaterializeStays DEF Touches

\* What a page names stays named while tombstones stay.
LEMMA PagesHold ==
    ASSUME NEW k, PageHolds(k), TombstonesStay
    PROVE  k.step = "materialize" =>
              k.seen \in Page /\ \A a \in DOMAIN k.seen : Tombstone(a)' = k.seen[a]
<1>1. SUFFICES ASSUME k.step = "materialize", NEW a \in DOMAIN k.seen
               PROVE  k.seen \in Page /\ Tombstone(a)' = k.seen[a]
  BY DEF PageHolds
<1>2. k.seen \in Page /\ Tombstone(a) = k.seen[a]
  BY <1>1 DEF PageHolds
<1>3. a \in Authorities /\ k.seen[a] \in Instants
  BY <1>1, <1>2 DEF Page
<1>4. QED
  BY <1>2, <1>3, NoneApart DEF TombstonesStay

LEMMA TombstoneStep ==
    ASSUME TombstoneInvariant, [Next]_semanticVars
    PROVE  TombstoneInvariant' /\ TombstonesStay
<1>1. CASE UNCHANGED semanticVars
  BY <1>1 DEF semanticVars, tables, data, TombstoneInvariant, TombstoneRows, TombstonesStay,
              Tombstone, PageHolds, Dated
<1>2. CASE Next
  <2>1. PICK c \in Clients : ClientStep(c)
    BY <1>2 DEF Next, ClientStep
  <2>2. TombstoneRows' /\ TombstonesStay
    BY <2>1, RowsStay
  <2>3. \A d \in Clients : call'[d] = call[d] => Dated(call'[d]) /\ PageHolds(call[d])'
    BY <2>2, PagesHold DEF TombstoneInvariant, PageHolds
  <2>4. CASE ~ReadPage(c)
    <3>1. Calm(c)
      BY <2>1, <2>4, CallsCalm
    <3>2. QED
      BY <2>2, <2>3, <3>1 DEF Calm, TombstoneInvariant, PageHolds
  <2>5. CASE ReadPage(c)
    <3>1. CASE ~(schema = "transition" /\ Pending # {})
      <4>1. {"finish"} \cap Quiet = {}
        BY DEF Quiet
      <4>2. Calm(c)
        BY <2>5, <3>1, <4>1, EnterCalm, FailureCalm DEF ReadPage
      <4>3. QED
        BY <2>2, <2>3, <4>2 DEF Calm, TombstoneInvariant, PageHolds
    <3>2. CASE schema = "transition" /\ Pending # {}
      <4>1. PICK page \in SUBSET Pending : See(c, "materialize", [a \in page |-> transition[a]])
        BY <2>5, <3>2 DEF ReadPage
      <4> DEFINE seen == [a \in page |-> transition[a]]
      <4>2. \A a \in page : a \in Authorities /\ transition[a] \in Instants
                            /\ Tombstone(a) = transition[a]
        BY DEF Pending, TombstoneInvariant, TombstoneRows, Tombstone
      <4>3. seen \in Page /\ \A a \in DOMAIN seen : Tombstone(a) = seen[a]
        <5>1. page \in SUBSET Authorities /\ seen \in [page -> Instants]
          BY <4>2
        <5>2. QED
          BY <4>2, <5>1 DEF Page
      <4> HIDE DEF seen
      <4>4. /\ DOMAIN call' = Clients /\ \A d \in Clients : d # c => call'[d] = call[d]
            /\ call'[c].step = "materialize" /\ call'[c].seen = seen
            /\ Dated(call'[c])
        BY <4>1 DEF See, TombstoneInvariant, Dated, CallFields, seen
      <4>5. UNCHANGED <<transition, purges>>
        BY <2>5 DEF ReadPage, Reads, tables, data
      <4>6. PageHolds(call[c])'
        BY <4>3, <4>4, <4>5 DEF PageHolds, Tombstone
      <4>7. QED
        BY <2>2, <2>3, <4>4, <4>6 DEF TombstoneInvariant
    <3>3. QED
      BY <3>1, <3>2
  <2>6. QED
    BY <2>4, <2>5
<1>3. QED
  BY <1>1, <1>2

LEMMA TombstonesBegin == Init => TombstoneInvariant
<1> SUFFICES ASSUME Init PROVE TombstoneInvariant
  OBVIOUS
<1>1. /\ purges \in [Authorities -> LegacyRow \cup {None}]
      /\ transition \in [Authorities -> {None}]
  BY SemanticAssumption DEF Init, UpgradeInit, NoRow
<1>2. \A a \in Authorities : purges[a] # None => purges[a].at \in Instants
  BY <1>1 DEF LegacyRow
<1>3. TombstoneRows
  BY <1>1, <1>2 DEF TombstoneRows
<1>4. DOMAIN call = Clients /\ \A c \in Clients : call[c] = Idle(NoOutcome)
  BY DEF Init
<1>5. Dated(Idle(NoOutcome)) /\ PageHolds(Idle(NoOutcome))
  BY DEF Dated, PageHolds, Idle, CallFields
<1>6. QED
  BY <1>3, <1>4, <1>5 DEF TombstoneInvariant

\* A tombstone that version 1 has written keeps its instant through every step
\* of the upgrade, however bootstraps, crashes and purges interleave, and
\* however many clients upgrade.
THEOREM TombstonesAlwaysSurvive == Spec => TombstonesSurvive
<1>1. TombstoneInvariant /\ [Next]_semanticVars =>
          /\ TombstoneInvariant'
          /\ [\A a \in Authorities : Tombstone(a) # None => Tombstone(a)' = Tombstone(a)]_tables
  BY TombstoneStep DEF TombstonesStay
<1>2. QED
  BY <1>1, TombstonesBegin, PTL DEF Spec, TombstonesSurvive
=============================================================================
