--------------------------- MODULE OhSemanticUpgrade ---------------------------
(***************************************************************************)
(* The tables of the semantic cache on libSQL, version 2                   *)
(* (src/src/libsql-semantic-v2-model.ts), and the workflows that bring a   *)
(* database to them (src/src/libsql-semantic-v2-program.ts): bootstrap     *)
(* with its transition from version 1, open, and the version 1 purge that  *)
(* may race it.                                                            *)
(*                                                                         *)
(* A client runs one call at a time; a call is a chain of SQL calls, each  *)
(* one atomic, between which other clients run.  Any SQL call may fail     *)
(* without an effect, and a write may take effect while its reply is lost. *)
(* A schema inventory with its marker row is one of four values.  The      *)
(* derived rows of version 1 are not modelled: the upgrade drops them and  *)
(* the host has stopped the calls that write them.                         *)
(***************************************************************************)
EXTENDS Naturals, FiniteSets

CONSTANTS Clients,
          Upgraders,     \* clients whose bootstrap may find a version 1 database
          Authorities, Isolations,
          Derived,       \* Derived[a]: deriveOhSemanticIsolationSha256V2
          Numbers,       \* generation numbers
          Contents,      \* authority digest and documents of a generation
          Chunks,        \* Chunks[x]: the rendered inputs of content x
          Instants,
          PageSize,      \* TRANSITION_PAGE_SIZE and searchPage
          Inherited,     \* purge tables a version 1 database may have
          LegacyPurges,  \* purges clients of version 1 ask for
          None           \* null

Inputs == UNION {Chunks[x] : x \in Contents}

\* A row of oh_semantic_generations; all of it is hashed into its digest.
Generation ==
    [authority: Authorities, number: Numbers, isolation: Isolations, content: Contents]

Membership == [of: Generation, input: Inputs]

\* A row of oh_semantic_isolations under its isolation.
Reservation == [owner: Authorities, at: Instants]

\* A row of oh_semantic_purges; version 1 has only the instant.
Receipt ==
    [isolation: Isolations, head: Generation \cup {None}, at: Instants, generations: Nat,
     memberships: Nat, vectors: Nat, scopes: Nat, recorded: BOOLEAN]

LegacyRow == [at: Instants]

ASSUME SemanticAssumption ==
    /\ Upgraders \subseteq Clients
    /\ IsFiniteSet(Isolations) \* digests
    /\ Derived \in [Authorities -> Isolations]
    /\ \A a, b \in Authorities : Derived[a] = Derived[b] => a = b
    /\ Numbers \subseteq Nat
    /\ Chunks \in [Contents -> (SUBSET Nat) \ {{}}]
    /\ \A x \in Contents : IsFiniteSet(Chunks[x])
    /\ PageSize \in Nat \ {0}
    /\ Inherited \subseteq [Authorities -> LegacyRow \cup {None}]
    /\ LegacyPurges \subseteq [authority: Authorities, at: Instants]
    /\ None \notin Generation \cup Reservation \cup Receipt \cup LegacyRow \cup Instants

VARIABLES schema,      \* the inventory of schema objects and the marker
          transition,  \* oh_semantic_v1_purge_transition
          isolations,  \* oh_semantic_isolations
          generations, \* oh_semantic_generations
          memberships, \* oh_semantic_memberships
          vectors,     \* oh_semantic_vectors
          heads,       \* oh_semantic_heads
          purges,      \* oh_semantic_purges
          opened,      \* clients with an open version 2 cache
          call         \* where the call of each client stands

data == <<isolations, generations, memberships, vectors, heads, purges>>

tables == <<schema, transition, data>>

semanticVars == <<tables, opened, call>>

Schemas == {"none", "v1", "transition", "v2"}

NoRow == [a \in Authorities |-> None]

\* The database is empty or one that version 1 has used.
UpgradeInit ==
    /\ \/ schema = "none" /\ purges = NoRow
       \/ schema = "v1" /\ purges \in Inherited
    /\ transition = NoRow
    /\ isolations = [i \in Isolations |-> None]
    /\ generations = {} /\ memberships = {} /\ vectors = {}
    /\ heads = NoRow
    /\ opened = {}

-----------------------------------------------------------------------------
(* Calls.                                                                  *)

\* How a call ended; of a refused one only its kind is kept.
Outcome(job, request, result, value) ==
    IF result \in {"ok", "unchanged", "integrity", "refused"}
    THEN [job |-> job, request |-> request, result |-> result, value |-> value]
    ELSE [job |-> "none", request |-> None, result |-> result, value |-> None]

NoOutcome == Outcome("none", None, "none", None)

Idle(outcome) ==
    [job |-> "none", step |-> "idle", request |-> None, within |-> "call", seen |-> None,
     found |-> {}, offset |-> 0, count |-> 0, error |-> "none", outcome |-> outcome]

At(c, job, step) == call[c].job = job /\ call[c].step = step

Begin(c, job, step, within, request) ==
    /\ call[c].job = "none"
    /\ call' = [call EXCEPT ![c] = [Idle(NoOutcome) EXCEPT
                  !.job = job, !.step = step, !.within = within, !.request = request]]
    /\ UNCHANGED <<tables, opened>>

Go(c, step) == call' = [call EXCEPT ![c].step = step]

Enter(c, step, within) == call' = [call EXCEPT ![c].step = step, ![c].within = within]

See(c, step, seen) == call' = [call EXCEPT ![c].step = step, ![c].seen = seen]

End(c, result, value) ==
    call' = [call EXCEPT ![c] = Idle(Outcome(call[c].job, call[c].request, result, value))]

\* Where the exit of an attempt is inspected instead of ending the call.
Failure(c, error) ==
    LET k == call[c]
        Recover == call' = [call EXCEPT ![c].step = "verify-transition",
                                        ![c].within = "recover", ![c].error = error]
    IN  CASE k.within = "start" /\ k.step \in {"v1-marker", "v1-objects", "start"} ->
               Go(c, "inspect")
          [] k.within = "resume" -> Recover
          [] k.within = "finish" /\ k.step = "finish" -> Enter(c, "verify-transition", "finish")
          [] k.within = "finish" /\ k.step # "finish" -> Recover
          [] k.within = "recover" -> End(c, k.error, None)
          [] OTHER -> End(c, error, None)

Step(c) == call[c].step

\* An SQL call fails and nothing has changed.
SqlFails(c) ==
    /\ call[c].job # "none"
    /\ Failure(c, "sql")
    /\ UNCHANGED <<tables, opened>>

\* A write is answered, or its reply is lost.
Answered(c, step) == Go(c, step) \/ Failure(c, "sql")

\* The process of a client ends.
Restart(c) ==
    /\ call' = [call EXCEPT ![c] = Idle(NoOutcome)]
    /\ opened' = opened \ {c}
    /\ UNCHANGED tables

Reads == UNCHANGED <<tables, opened>>

-----------------------------------------------------------------------------
(* verifySchema, which open, bootstrap and its recovery run.               *)

VerifyTransitionTable(c) ==
    /\ Step(c) = "verify-transition"
    /\ IF schema = "transition" THEN Failure(c, "refused") ELSE Go(c, "verify-marker")
    /\ Reads

VerifyMarker(c) ==
    /\ Step(c) = "verify-marker"
    /\ IF schema = "v2" THEN Go(c, "verify-objects") ELSE Failure(c, "refused")
    /\ Reads

VerifyObjects(c) ==
    /\ Step(c) = "verify-objects"
    /\ IF schema # "v2" THEN Failure(c, "refused") /\ UNCHANGED opened
       ELSE CASE call[c].within = "start" -> Enter(c, "inventory-again", "call") /\ UNCHANGED opened
              [] call[c].within \in {"finish", "recover"} ->
                   Enter(c, "verify-transition", "call") /\ UNCHANGED opened
              [] call[c].job = "open" -> End(c, "ok", None) /\ opened' = opened \cup {c}
              [] OTHER -> End(c, "ok", None) /\ UNCHANGED opened
    /\ UNCHANGED tables

\* openSemanticCacheRuntime.
Open(c) == c \notin opened /\ Begin(c, "open", "verify-transition", "call", None)

-----------------------------------------------------------------------------
(* bootstrapSemanticCache.                                                 *)

Bootstrap(c) == Begin(c, "bootstrap", "inventory", "call", None)

Inventory(c) ==
    /\ Step(c) = "inventory"
    /\ CASE schema = "none" -> Go(c, "create")
         [] schema = "v1" -> Enter(c, "v1-marker", "start")
         [] OTHER -> Go(c, "inventory-again")
    /\ Reads

\* Every statement creates what does not exist.
Create(c) ==
    /\ Step(c) = "create"
    /\ schema \in {"none", "v2"}
    /\ schema' = "v2"
    /\ Answered(c, "inventory-again")
    /\ UNCHANGED <<transition, data, opened>>

\* startSemanticCacheV1ToV2Transition: verifySchemaRevision of version 1 reads
\* the marker and then the inventory, and a later batch relies on both.
VerifyV1(c) ==
    /\ Step(c) \in {"v1-marker", "v1-objects"}
    /\ IF schema # "v1" THEN Failure(c, "refused")
       ELSE Go(c, IF Step(c) = "v1-marker" THEN "v1-objects" ELSE "start")
    /\ Reads

\* The tombstones the batch copies: it reads them before it drops their table.
Copied_AfterDrop(t) == NoRow

Copied(t) == [a \in Authorities |-> IF t[a] = None THEN None ELSE t[a].at]

\* No statement of the batch fails on a version 2 database: it has tables of
\* the same names, and none is called like the transition table.
StartTransition(c) ==
    /\ Step(c) = "start"
    /\ IF schema \in {"v1", "v2"}
       THEN /\ schema' = "transition"
            /\ transition' = Copied(purges)
            /\ purges' = NoRow /\ heads' = NoRow
            /\ generations' = {} /\ memberships' = {} /\ vectors' = {}
            /\ UNCHANGED isolations
            /\ Answered(c, "transition-objects")
       ELSE Failure(c, "sql") /\ UNCHANGED tables
    /\ UNCHANGED opened

\* After a failed attempt: version 2 is verified, a transition continued.
Inspect(c) ==
    /\ Step(c) = "inspect"
    /\ CASE schema = "v2" -> Go(c, "verify-transition")
         [] schema = "transition" -> Go(c, "transition-objects")
         [] OTHER -> End(c, "refused", None)
    /\ Reads

\* verifyTransitionSchema: the inventory, then no marker.
VerifyTransition(c) ==
    /\ Step(c) \in {"transition-objects", "transition-marker"}
    /\ IF Step(c) = "transition-objects"
       THEN IF schema = "transition" THEN Go(c, "transition-marker") ELSE Failure(c, "refused")
       ELSE IF schema = "v2" THEN Failure(c, "refused")
       ELSE IF call[c].within = "start" THEN Enter(c, "inventory-again", "call")
       ELSE Go(c, "page")
    /\ Reads

InventoryAgain(c) ==
    /\ Step(c) = "inventory-again"
    /\ CASE schema = "transition" -> Enter(c, "transition-objects", "resume")
         [] schema = "v2" -> Go(c, "verify-transition")
         [] OTHER -> End(c, "refused", None)
    /\ Reads

\* The rows of the transition table.
Pending == {a \in Authorities : transition[a] # None}

\* transitionPage: the order of its rows does not matter.
ReadPage(c) ==
    /\ Step(c) = "page"
    /\ IF schema # "transition" THEN Failure(c, "sql")
       ELSE IF Pending = {} THEN Enter(c, "finish", "finish")
       ELSE \E page \in SUBSET Pending :
              /\ page # {} /\ Cardinality(page) <= PageSize
              /\ page # Pending => Cardinality(page) = PageSize
              /\ See(c, "materialize", [a \in page |-> transition[a]])
    /\ Reads

\* The receipt of a purge that version 1 executed.
LegacyReceipt(a, at) ==
    [isolation |-> Derived[a], head |-> None, at |-> at, generations |-> 0,
     memberships |-> 0, vectors |-> 0, scopes |-> 1, recorded |-> FALSE]

\* A transition row goes only when both of its rows are there as expected.
Materialized(a, at, reserved, purged) ==
    reserved[Derived[a]] = [owner |-> a, at |-> at] /\ purged[a] = LegacyReceipt(a, at)

\* materializeTransitionPage: the triggers of isolations abort the batch when
\* it would insert an isolation of an authority that has a tombstone.
Materialize(c) ==
    /\ Step(c) = "materialize"
    /\ LET page == call[c].seen
           Reserves(a) == isolations[Derived[a]] # [owner |-> a, at |-> page[a]]
       IN  IF schema # "transition" \/ \E a \in DOMAIN page : Reserves(a) /\ purges[a] # None
           THEN Failure(c, "sql") /\ UNCHANGED tables
           ELSE /\ isolations' = [i \in Isolations |->
                     IF isolations[i] = None /\ \E a \in DOMAIN page : Derived[a] = i
                     THEN LET a == CHOOSE x \in DOMAIN page : Derived[x] = i
                          IN  [owner |-> a, at |-> page[a]]
                     ELSE isolations[i]]
                /\ purges' = [a \in Authorities |->
                     IF a \in DOMAIN page /\ purges[a] = None
                     THEN LegacyReceipt(a, page[a]) ELSE purges[a]]
                /\ transition' = [a \in Authorities |->
                     IF /\ a \in DOMAIN page
                        /\ transition[a] = page[a]
                        /\ Materialized(a, page[a], isolations', purges')
                     THEN None ELSE transition[a]]
                /\ UNCHANGED <<schema, generations, memberships, vectors, heads>>
                /\ Answered(c, "remaining")
    /\ UNCHANGED opened

CheckRemaining(c) ==
    /\ Step(c) = "remaining"
    /\ IF schema # "transition" THEN Failure(c, "sql")
       ELSE IF DOMAIN call[c].seen \cap Pending # {} THEN Failure(c, "refused")
       ELSE See(c, "page", None)
    /\ Reads

\* finishSemanticCacheV2Transition: the marker has no name while the table
\* has a row, and the batch fails.
Finish(c) ==
    /\ Step(c) = "finish"
    /\ IF schema = "transition" /\ Pending = {}
       THEN /\ schema' = "v2"
            /\ transition' = NoRow
            /\ \/ Enter(c, "verify-transition", "call")
               \/ Failure(c, "sql")
       ELSE Failure(c, "sql") /\ UNCHANGED <<schema, transition>>
    /\ UNCHANGED <<data, opened>>

-----------------------------------------------------------------------------
(* purgeAuthority of a version 1 cache that is still open.                 *)

LegacyPurge(c) ==
    /\ schema # "none"
    /\ \E request \in LegacyPurges : Begin(c, "v1-purge", "v1-before", "call", request)

LegacyTombstone(c) ==
    IF purges[call[c].request.authority] = None THEN None
    ELSE purges[call[c].request.authority].at

LegacyBefore(c) ==
    /\ Step(c) = "v1-before"
    /\ See(c, "v1-batch", LegacyTombstone(c))
    /\ Reads

\* A row of version 1 lacks what the version 2 table demands.
LegacyBatch(c) ==
    /\ Step(c) = "v1-batch"
    /\ IF schema = "v1"
       THEN /\ purges' = [purges EXCEPT ![call[c].request.authority] =
                            IF @ = None THEN [at |-> call[c].request.at] ELSE @]
            /\ Answered(c, "v1-after")
       ELSE Failure(c, "sql") /\ UNCHANGED purges
    /\ UNCHANGED <<schema, transition, isolations, generations, memberships, vectors, heads, opened>>

LegacyAfter(c) ==
    /\ Step(c) = "v1-after"
    /\ IF LegacyTombstone(c) = None \/ call[c].seen \notin {None, LegacyTombstone(c)}
       THEN Failure(c, "refused")
       ELSE End(c, "ok", LegacyTombstone(c))
    /\ Reads

-----------------------------------------------------------------------------

Workflow(c) ==
    \/ VerifyTransitionTable(c) \/ VerifyMarker(c) \/ VerifyObjects(c)
    \/ Inventory(c) \/ Create(c) \/ VerifyV1(c) \/ StartTransition(c) \/ Inspect(c)
    \/ VerifyTransition(c) \/ InventoryAgain(c) \/ ReadPage(c) \/ Materialize(c)
    \/ CheckRemaining(c) \/ Finish(c) \/ LegacyBefore(c) \/ LegacyBatch(c) \/ LegacyAfter(c)

\* Of the hosts, not of the code: only upgraders are started on a database of
\* version 1, while any client may bootstrap any other.  A run that makes every
\* client an upgrader assumes nothing.
MayBootstrap(c) == c \in Upgraders \/ schema # "v1"

UpgradeNext(c) ==
    \/ Open(c) \/ (MayBootstrap(c) /\ Bootstrap(c)) \/ LegacyPurge(c)
    \/ Workflow(c) \/ SqlFails(c) \/ Restart(c)

\* Only a transition has transition rows, and a finished database has a receipt
\* for every tombstone.
UpgradeTypeOK ==
    /\ schema \in Schemas
    /\ transition \in [Authorities -> Instants \cup {None}]
    /\ isolations \in [Isolations -> Reservation \cup {None}]
    /\ generations \subseteq Generation
    /\ memberships \subseteq Membership
    /\ vectors \subseteq Isolations \X Inputs
    /\ heads \in [Authorities -> Generation \cup {None}]
    /\ purges \in [Authorities -> Receipt \cup LegacyRow \cup {None}]
    /\ opened \subseteq Clients
    /\ schema # "transition" => Pending = {}
    /\ schema = "v2" => \A a \in Authorities : purges[a] \in Receipt \cup {None}

\* Whether the authority has a tombstone, wherever the upgrade keeps it now.
Tombstone(a) ==
    IF transition[a] # None THEN transition[a]
    ELSE IF purges[a] # None THEN purges[a].at ELSE None

\* A tombstone that version 1 has written keeps its instant through every
\* step of the upgrade, however bootstraps, crashes and purges interleave.
TombstonesSurvive ==
    [][\A a \in Authorities : Tombstone(a) # None => Tombstone(a)' = Tombstone(a)]_tables
=============================================================================
