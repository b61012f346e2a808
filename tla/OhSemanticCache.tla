---------------------------- MODULE OhSemanticCache ----------------------------
(***************************************************************************)
(* The semantic cache on libSQL, version 2: stage, publish, publishedHead, *)
(* search, purge and its receipt (src/src/libsql-semantic-v2-program.ts)   *)
(* on the tables of OhSemanticUpgrade.                                     *)
(*                                                                         *)
(* Calls are not ordered by the cache: any two clients interleave between  *)
(* any two SQL calls, and only the statements' own conditions and the      *)
(* triggers keep generations whole, heads forward and purges final.        *)
(***************************************************************************)
EXTENDS OhSemanticUpgrade

CONSTANTS Stages,    \* generations hosts stage, with createdAt
          Publishes, \* generations hosts publish, over an expected head
          Searches,  \* authority references hosts search
          HeadReads, \* authorities whose published head hosts read
          Purges,    \* purges hosts ask for
          Receipts   \* receipts hosts ask for

ASSUME RequestAssumption ==
    /\ Stages \subseteq [authority: Authorities, generation: Generation, at: Instants]
    /\ \A s \in Stages : s.authority = s.generation.authority
    /\ Publishes \subseteq [authority: Authorities, isolation: Isolations, number: Numbers,
                            expected: Numbers \cup {None}]
    /\ Searches \subseteq [authority: Authorities, generation: Generation]
    /\ \A s \in Searches : s.authority = s.generation.authority
    /\ HeadReads \subseteq [authority: Authorities, isolation: Isolations]
    /\ Purges \subseteq [authority: Authorities, isolation: Isolations, at: Instants]
    /\ Receipts \subseteq [authority: Authorities, isolation: Isolations]
    /\ None \notin Nat

Init ==
    /\ UpgradeInit
    /\ call = [c \in Clients |-> Idle(NoOutcome)]

-----------------------------------------------------------------------------
(* Reads that several workflows share.                                     *)

A(c) == call[c].request.authority

Purged(c) == purges[A(c)] # None

\* readGeneration: (authority, number) is the primary key.
Stored(a, number) ==
    IF \E g \in generations : g.authority = a /\ g.number = number
    THEN CHOOSE g \in generations : g.authority = a /\ g.number = number
    ELSE None

MembershipsOf(g) == {m.input : m \in {x \in memberships : x.of = g}}

\* readMemberships compares the digest of the membership.
Whole(g) == MembershipsOf(g) = Chunks[g.content]

\* verifyPurgeResidual.
Residual(a) ==
    \/ heads[a] # None
    \/ \E g \in generations : g.authority = a
    \/ \E m \in memberships : m.of.authority = a
    \/ \E v \in vectors : isolations[v[1]] # None /\ isolations[v[1]].owner = a

\* A workflow asks for a tombstone and gives up, or goes on.
UnlessPurged(c, result, next) ==
    /\ IF Purged(c) THEN End(c, result, None) ELSE Go(c, next)
    /\ Reads

-----------------------------------------------------------------------------
(* stage                                                                   *)

G(c) == call[c].request.generation

Stage(c) ==
    /\ c \in opened
    /\ \E request \in Stages : Begin(c, "stage", "stage-purged", "call", request)

StagePurged(c) ==
    \/ At(c, "stage", "stage-purged") /\ UnlessPurged(c, "purged", "reserve")
    \/ At(c, "stage", "purged-again") /\ UnlessPurged(c, "purged", "stage-generation")

\* reserveIsolation, of a stage or of a purge: the first to come owns it.
IsolationOf(c) == IF call[c].job = "stage" THEN G(c).isolation ELSE call[c].request.isolation

Reserve(c) ==
    /\ Step(c) = "reserve"
    /\ isolations' = [isolations EXCEPT ![IsolationOf(c)] =
                        IF @ = None /\ ~Purged(c)
                        THEN [owner |-> A(c), at |-> call[c].request.at] ELSE @]
    /\ Answered(c, "owner")
    /\ UNCHANGED <<schema, transition, generations, memberships, vectors, heads, purges, opened>>

ReadOwner(c) ==
    /\ Step(c) = "owner"
    /\ See(c, "reserved", isolations[IsolationOf(c)])
    /\ Reads

Reserved(c) ==
    /\ Step(c) = "reserved"
    /\ IF Purged(c) THEN End(c, "purged", None)
       ELSE IF call[c].seen = None \/ call[c].seen.owner # A(c) THEN End(c, "conflict", None)
       ELSE See(c, IF call[c].job = "stage" THEN "purged-again" ELSE "purge-batch", None)
    /\ Reads

StageGeneration(c) ==
    /\ At(c, "stage", "stage-generation")
    /\ IF Stored(A(c), G(c).number) \notin {None, G(c)} THEN End(c, "conflict", None)
       ELSE Go(c, "embed")
    /\ Reads

\* The stored vectors are read and the provider answers for the others.
Embed(c) ==
    /\ At(c, "stage", "embed")
    /\ Go(c, "stage-batch")
    /\ Reads

\* The batch inserts the generation unless the authority is purged or another
\* generation has its number, and the rest only beside that generation.
StageInserts_UnderNumber(c) == ~Purged(c)

StageInserts(c) == ~Purged(c) /\ Stored(A(c), G(c).number) \in {None, G(c)}

StageBatch(c) ==
    /\ At(c, "stage", "stage-batch")
    /\ IF StageInserts(c)
       THEN /\ generations' = generations \cup {G(c)}
            /\ vectors' = vectors \cup {G(c).isolation} \X Chunks[G(c).content]
            /\ memberships' = memberships \cup [of: {G(c)}, input: Chunks[G(c).content]]
       ELSE UNCHANGED <<generations, vectors, memberships>>
    /\ Answered(c, "stage-vectors")
    /\ UNCHANGED <<schema, transition, isolations, heads, purges, opened>>

StageVectors(c) ==
    /\ At(c, "stage", "stage-vectors")
    /\ Go(c, IF {G(c).isolation} \X Chunks[G(c).content] \subseteq vectors
             THEN "staged" ELSE "vectors-gone")
    /\ Reads

VectorsGone(c) ==
    /\ At(c, "stage", "vectors-gone")
    /\ End(c, IF Purged(c) THEN "purged" ELSE "integrity", None)
    /\ Reads

StagedGeneration(c) ==
    /\ At(c, "stage", "staged")
    /\ See(c, "staged-purged", Stored(A(c), G(c).number))
    /\ Reads

StagedPurged(c) ==
    /\ At(c, "stage", "staged-purged")
    /\ IF Purged(c) THEN End(c, "purged", None)
       ELSE IF call[c].seen # G(c) THEN End(c, "conflict", None)
       ELSE Go(c, "staged-members")
    /\ Reads

StagedMembers(c) ==
    /\ At(c, "stage", "staged-members")
    /\ IF Whole(G(c)) THEN End(c, "ok", G(c)) ELSE End(c, "integrity", None)
    /\ Reads

StageStep(c) ==
    \/ StagePurged(c) \/ Reserve(c) \/ ReadOwner(c) \/ Reserved(c) \/ StageGeneration(c)
    \/ Embed(c) \/ StageBatch(c) \/ StageVectors(c) \/ VectorsGone(c)
    \/ StagedGeneration(c) \/ StagedPurged(c) \/ StagedMembers(c)

-----------------------------------------------------------------------------
(* publish                                                                 *)

Publish(c) ==
    /\ c \in opened
    /\ \E request \in Publishes : Begin(c, "publish", "publish-purged", "call", request)

PublishPurged(c) ==
    /\ At(c, "publish", "publish-purged")
    /\ UnlessPurged(c, "purged", "publish-generation")

PublishGeneration(c) ==
    /\ At(c, "publish", "publish-generation")
    /\ LET g == Stored(A(c), call[c].request.number)
       IN  IF g = None \/ g.isolation # call[c].request.isolation
           THEN End(c, "conflict", None)
           ELSE See(c, "publish-members", g)
    /\ Reads

PublishMembers(c) ==
    /\ At(c, "publish", "publish-members")
    /\ IF Whole(call[c].seen) THEN Go(c, "publish-head") ELSE End(c, "integrity", None)
    /\ Reads

\* The precondition on the head: the expected one, and not back to an earlier.
Forward_Unordered(head, request) ==
    /\ (head = None) = (request.expected = None)
    /\ head # None => head.number = request.expected

Forward(head, request) ==
    /\ (head = None) = (request.expected = None)
    /\ head # None => head.number = request.expected /\ request.number >= head.number

PublishHead(c) ==
    /\ At(c, "publish", "publish-head")
    /\ LET head == heads[A(c)]
       IN  IF head = call[c].seen THEN End(c, "unchanged", head)
           ELSE IF Forward(head, call[c].request) THEN Go(c, "publish-swap")
           ELSE End(c, "conflict", None)
    /\ Reads

\* The INSERT and the UPDATE repeat the condition they depend on.
Swaps_Unconditional(c) == ~Purged(c) /\ call[c].seen \in generations

Swaps(c) ==
    /\ ~Purged(c)
    /\ call[c].seen \in generations
    /\ IF call[c].request.expected = None THEN heads[A(c)] = None
       ELSE heads[A(c)] # None /\ heads[A(c)].number = call[c].request.expected

PublishSwap(c) ==
    /\ At(c, "publish", "publish-swap")
    /\ heads' = [heads EXCEPT ![A(c)] = IF Swaps(c) THEN call[c].seen ELSE @]
    /\ \/ call' = [call EXCEPT ![c].step = "publish-after", ![c].count = IF Swaps(c) THEN 1 ELSE 0]
       \/ Failure(c, "sql")
    /\ UNCHANGED <<schema, transition, isolations, generations, memberships, vectors, purges, opened>>

PublishAfter(c) ==
    /\ At(c, "publish", "publish-after")
    /\ UnlessPurged(c, "purged", "published")

Published(c) ==
    /\ At(c, "publish", "published")
    /\ IF heads[A(c)] # call[c].seen THEN End(c, "conflict", None)
       ELSE End(c, IF call[c].count > 0 THEN "ok" ELSE "unchanged", call[c].seen)
    /\ Reads

PublishStep(c) ==
    \/ PublishPurged(c) \/ PublishGeneration(c) \/ PublishMembers(c) \/ PublishHead(c)
    \/ PublishSwap(c) \/ PublishAfter(c) \/ Published(c)

-----------------------------------------------------------------------------
(* search                                                                  *)

Search(c) ==
    /\ c \in opened
    /\ \E request \in Searches : Begin(c, "search", "search-purged", "call", request)

SearchPurged(c) ==
    /\ At(c, "search", "search-purged")
    /\ UnlessPurged(c, "empty", "search-head")

SearchHead(c) ==
    /\ At(c, "search", "search-head")
    /\ IF heads[A(c)] = G(c) THEN See(c, "search-generation", heads[A(c)])
       ELSE End(c, "empty", None)
    /\ Reads

SearchGeneration(c) ==
    /\ At(c, "search", "search-generation")
    /\ IF Stored(A(c), G(c).number) = call[c].seen THEN Go(c, "search-embed")
       ELSE End(c, "empty", None)
    /\ Reads

SearchEmbed(c) ==
    /\ At(c, "search", "search-embed")
    /\ Go(c, "scan")
    /\ Reads

\* The rows of the scan: memberships joined with the vectors of the isolation.
Joined(g) == {i \in MembershipsOf(g) : <<g.isolation, i>> \in vectors}

Rank(i, set) == Cardinality({j \in set : j <= i})

PageRows(g, offset) ==
    {i \in Joined(g) : Rank(i, Joined(g)) \in (offset + 1)..(offset + PageSize)}

Scan(c) ==
    /\ At(c, "search", "scan")
    /\ LET k == call[c]
           page == PageRows(k.seen, k.offset)
           chunks == Cardinality(Chunks[k.seen.content])
       IN  IF k.offset < chunks
           THEN call' = [call EXCEPT ![c].found = @ \cup page, ![c].offset = @ + PageSize,
                                     ![c].count = @ + Cardinality(page)]
           ELSE IF k.count = chunks THEN Go(c, "search-again")
           ELSE End(c, "integrity", None)
    /\ Reads

SearchAgain(c) ==
    /\ At(c, "search", "search-again")
    /\ IF heads[A(c)] = call[c].seen THEN Go(c, "search-last") ELSE End(c, "empty", None)
    /\ Reads

SearchLast(c) ==
    /\ At(c, "search", "search-last")
    /\ IF Purged(c) THEN End(c, "empty", None) ELSE End(c, "ok", call[c].found)
    /\ Reads

SearchStep(c) ==
    \/ SearchPurged(c) \/ SearchHead(c) \/ SearchGeneration(c) \/ SearchEmbed(c)
    \/ Scan(c) \/ SearchAgain(c) \/ SearchLast(c)

-----------------------------------------------------------------------------
(* publishedHead                                                           *)

ReadHead(c) ==
    /\ c \in opened
    /\ \E request \in HeadReads : Begin(c, "head", "head-purged", "call", request)

HeadPurged(c) ==
    \/ At(c, "head", "head-purged") /\ UnlessPurged(c, "empty", "head-read")
    \/ At(c, "head", "head-purged-again") /\ UnlessPurged(c, "empty", "head-again")

HeadRead(c) ==
    /\ At(c, "head", "head-read")
    /\ IF heads[A(c)] = None \/ heads[A(c)].isolation # call[c].request.isolation
       THEN End(c, "empty", None)
       ELSE See(c, "head-generation", heads[A(c)])
    /\ Reads

HeadGeneration(c) ==
    /\ At(c, "head", "head-generation")
    /\ Go(c, IF Stored(A(c), call[c].seen.number) = call[c].seen
             THEN "head-purged-again" ELSE "head-gone")
    /\ Reads

\* What is missing is missing because of a purge, or the cache is broken.
HeadGone(c) ==
    /\ At(c, "head", "head-gone")
    /\ End(c, IF Purged(c) THEN "empty" ELSE "integrity", None)
    /\ Reads

HeadAgain(c) ==
    /\ At(c, "head", "head-again")
    /\ CASE heads[A(c)] = None -> Go(c, "head-gone")
         [] heads[A(c)] = call[c].seen -> End(c, "ok", heads[A(c)])
         [] OTHER -> End(c, "conflict", None)
    /\ Reads

HeadStep(c) ==
    HeadPurged(c) \/ HeadRead(c) \/ HeadGeneration(c) \/ HeadGone(c) \/ HeadAgain(c)

-----------------------------------------------------------------------------
(* purgeAuthority and purgeReceipt                                         *)

Purge(c) ==
    /\ c \in opened
    /\ \E request \in Purges : Begin(c, "purge", "purge-before", "call", request)

AskReceipt(c) ==
    /\ c \in opened
    /\ \E request \in Receipts : Begin(c, "receipt", "receipt", "call", request)

I(c) == call[c].request.isolation

\* An earlier receipt is returned as it was recorded.
WithReceipt(c, otherwise) ==
    LET receipt == purges[A(c)]
    IN  IF receipt = None THEN otherwise
        ELSE IF receipt.isolation # I(c) THEN End(c, "conflict", None)
        ELSE See(c, "residual", receipt)

PurgeBefore(c) ==
    /\ At(c, "purge", "purge-before")
    /\ WithReceipt(c, Go(c, "purge-head"))
    /\ Reads

ReadReceipt(c) ==
    /\ At(c, "receipt", "receipt")
    /\ WithReceipt(c, End(c, "empty", None))
    /\ Reads

\* reservePurgeIsolation.
PurgeHead(c) ==
    /\ At(c, "purge", "purge-head")
    /\ IF heads[A(c)] # None /\ heads[A(c)].isolation # I(c) THEN End(c, "conflict", None)
       ELSE Go(c, "purge-owner")
    /\ Reads

PurgeOwner(c) ==
    /\ At(c, "purge", "purge-owner")
    /\ CASE isolations[I(c)] = None -> Go(c, "purge-scopes")
         [] isolations[I(c)] # None /\ isolations[I(c)].owner = A(c) -> Go(c, "purge-batch")
         [] OTHER -> End(c, "conflict", None)
    /\ Reads

Scopes(a) == {i \in Isolations : isolations[i] # None /\ isolations[i].owner = a}

PurgeScopes(c) ==
    /\ At(c, "purge", "purge-scopes")
    /\ IF Scopes(A(c)) # {} THEN End(c, "conflict", None) ELSE Go(c, "purge-reserve")
    /\ Reads

PurgeReserve(c) ==
    /\ At(c, "purge", "purge-reserve")
    /\ UnlessPurged(c, "purged", "reserve")

\* The tombstone counts what the statements after it delete.
ReceiptOf(a, isolation, at) ==
    [isolation |-> isolation, head |-> heads[a], at |-> at,
     generations |-> Cardinality({g \in generations : g.authority = a}),
     memberships |-> Cardinality({m \in memberships : m.of.authority = a}),
     vectors |-> Cardinality({v \in vectors : v[1] \in Scopes(a)}),
     scopes |-> Cardinality(Scopes(a)), recorded |-> TRUE]

PurgeInserts_Again(c) ==
    /\ I(c) \in Scopes(A(c))
    /\ heads[A(c)] # None => heads[A(c)].isolation = I(c)

PurgeInserts(c) ==
    /\ purges[A(c)] = None
    /\ I(c) \in Scopes(A(c))
    /\ heads[A(c)] # None => heads[A(c)].isolation = I(c)

\* The isolations whose vectors go: all of the authority, not only this one.
Cleared_OnlyThis(c) == {I(c)}

Cleared(c) == Scopes(A(c))

PurgeBatch(c) ==
    /\ At(c, "purge", "purge-batch")
    /\ purges' = [purges EXCEPT ![A(c)] =
                     IF PurgeInserts(c) THEN ReceiptOf(A(c), I(c), call[c].request.at) ELSE @]
    /\ IF purges'[A(c)] # None /\ purges'[A(c)].isolation = I(c)
       THEN /\ heads' = [heads EXCEPT ![A(c)] = None]
            /\ memberships' = {m \in memberships : m.of.authority # A(c)}
            /\ vectors' = {v \in vectors : v[1] \notin Cleared(c)}
            /\ generations' = {g \in generations : g.authority # A(c)}
       ELSE UNCHANGED <<heads, memberships, vectors, generations>>
    /\ Answered(c, "purge-after")
    /\ UNCHANGED <<schema, transition, isolations, opened>>

PurgeAfter(c) ==
    /\ At(c, "purge", "purge-after")
    /\ WithReceipt(c, End(c, "conflict", None))
    /\ Reads

CheckResidual(c) ==
    /\ Step(c) = "residual"
    /\ IF Residual(A(c)) THEN End(c, "integrity", None) ELSE End(c, "ok", call[c].seen)
    /\ Reads

PurgeStep(c) ==
    \/ PurgeBefore(c) \/ ReadReceipt(c) \/ PurgeHead(c) \/ PurgeOwner(c) \/ PurgeScopes(c)
    \/ PurgeReserve(c) \/ PurgeBatch(c) \/ PurgeAfter(c) \/ CheckResidual(c)

-----------------------------------------------------------------------------

Asks(c) ==
    Stage(c) \/ Publish(c) \/ Search(c) \/ ReadHead(c) \/ Purge(c) \/ AskReceipt(c)

Next ==
    \E c \in Clients :
        \/ UpgradeNext(c) \/ Asks(c)
        \/ StageStep(c) \/ PublishStep(c) \/ SearchStep(c) \/ HeadStep(c) \/ PurgeStep(c)

Spec == Init /\ [][Next]_semanticVars

-----------------------------------------------------------------------------
(* Properties.                                                             *)

\* However calls of several hosts interleave, every stored generation is whole,
\* in an isolation its authority owns, and alone under its number; a head is
\* one of them; nothing outlives its authority's purge.
CacheSound ==
    /\ UpgradeTypeOK
    /\ \A g \in generations :
          /\ isolations[g.isolation] # None /\ isolations[g.isolation].owner = g.authority
          /\ Whole(g) /\ {g.isolation} \X Chunks[g.content] \subseteq vectors
          /\ \A h \in generations : h.authority = g.authority /\ h.number = g.number => h = g
    /\ \A m \in memberships : m.of \in generations
    /\ \A v \in vectors : isolations[v[1]] # None
    /\ \A a \in Authorities :
          /\ heads[a] # None => heads[a] \in generations /\ heads[a].authority = a
          /\ purges[a] # None => ~Residual(a)

\* Of the publishes that race for one generation only one is told that it moved
\* the head there.
OnePublisher ==
    \A c, d \in Clients :
        LET o == call[c].outcome
            p == call[d].outcome
        IN  /\ c # d
            /\ o.job = "publish" /\ o.result = "ok"
            /\ p.job = "publish" /\ p.result = "ok"
            => o.value # p.value

\* What a call reported stays true until a purge: a staged generation is
\* stored, a published one is not followed by an earlier head, a search found
\* every chunk of the one generation it names, a receipt is the one recorded,
\* and the tombstone that version 1 reported is there.
ReportsStand ==
    \A c \in Clients :
        LET o == call[c].outcome
            a == o.request.authority
        IN  /\ o.job = "stage" /\ o.result = "ok" =>
                  o.value = o.request.generation /\ (o.value \in generations \/ purges[a] # None)
            /\ o.job = "publish" /\ o.result \in {"ok", "unchanged"} =>
                  \/ purges[a] # None
                  \/ heads[a] # None /\ heads[a].number >= o.request.number
            /\ o.job = "search" /\ o.result = "ok" =>
                  o.value = Chunks[o.request.generation.content]
            /\ o.job = "v1-purge" /\ o.result = "ok" => Tombstone(a) = o.value
            /\ o.job \in {"purge", "receipt"} /\ o.result = "ok" => purges[a] = o.value

\* No call reports a broken cache unless its authority was purged under it or
\* another generation took the number it stages.
NoFalseAlarm ==
    \A c \in Clients :
        LET o == call[c].outcome
        IN  o.result = "integrity" =>
              \/ purges[o.request.authority] # None
              \/ /\ o.job = "stage"
                 /\ Stored(o.request.authority, o.request.generation.number) # o.request.generation

\* The receipt of a purge never changes, whoever repeats the purge and whatever
\* instant or isolation the repetition brings.  This holds while one client
\* upgrades the database; two may change a receipt (CountsPermanent).
ReceiptsPermanent ==
    [][\A a \in Authorities : purges[a] \in Receipt => purges'[a] = purges[a]]_tables

\* The counts that the first execution of a purge recorded are what every
\* repetition of it returns.
CountsPermanent ==
    [][\A a \in Authorities :
          purges[a] \in Receipt /\ purges[a].recorded => purges'[a] = purges[a]]_tables
=============================================================================
