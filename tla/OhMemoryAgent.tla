----------------------------- MODULE OhMemoryAgent -----------------------------
(***************************************************************************)
(* The memory agent: remember, query and explain over a pinned canonical   *)
(* snapshot and the current working store (src/src/memory-core.ts,         *)
(* createOhMemoryAgentV2WithRuntime).                                      *)
(*                                                                         *)
(* Clients call one agent concurrently.  The working store is shared with  *)
(* other writers; a head is the history it closes (OhHistory), and a body  *)
(* keeps the remember request it came from and the snapshot after it.  The *)
(* authority replaces the agent by one at a later canonical head           *)
(* (OhMemoryAuthority); the explanation registry outlives that, and calls  *)
(* under way finish on the agent they were made on.  A signed continuation *)
(* is a record nobody but the agent makes, a digest is what it digests,    *)
(* and an explanation has any of a few sizes.                              *)
(***************************************************************************)
EXTENDS OhHistory, FiniteSets

CONSTANTS Clients,
          Readers,       \* the clients that query and explain
          MaxKey,        \* record keys are numbers, in the order results are sorted
          Values, Absent,
          RequestIds,    \* requestId values of remember
          Bundles,       \* the puts and tombstones clients send: the record of each key
          Writes,        \* snapshots other writers may commit
          Pins,          \* the canonical snapshots the host pins one after another
          Capacity,      \* OH_MEMORY_LIMITS_V1.maximumRecordsPerLane
          Questions,     \* a program with its bindings
          PageSize, MaximumRows,  \* of every program
          Capabilities,  \* OH_MEMORY_LIMITS_V1.explainCapabilities
          ExplanationBytes, \* sizes an explanation may have
          EntryBytes,    \* .explainCapabilityEntryBytes
          TotalBytes,    \* .explainCapabilityTotalBytes
          Lifetime,      \* explainCapabilityLifetimeMs
          MaxTime,       \* bound on the monotonic clock
          MaxTokens,     \* bound on the pages answered
          MaxSequence,   \* bound on the working history
          None           \* null

Keys == 1..MaxKey

Snapshot == [Keys -> Values \cup {Absent}]

Body == [request: RequestIds \cup {None}, changes: Bundles \cup {None}, records: Snapshot]

History == Seq(Body)

ASSUME AgentAssumption ==
    /\ Readers \subseteq Clients
    /\ Absent \notin Values
    /\ None \notin RequestIds \cup Bundles
    /\ Bundles \subseteq UNION {[K -> Values \cup {Absent}] : K \in (SUBSET Keys) \ {{}}}
    /\ Writes \subseteq Snapshot
    /\ Pins \in Seq(Snapshot) /\ Pins # <<>>
    /\ Questions \subseteq {"memory.record", "memory.conflict"}
    /\ ExplanationBytes \subseteq Nat
    /\ {MaxKey, Capacity, MaximumRows, MaxTime, MaxTokens, MaxSequence} \subseteq Nat
    /\ {PageSize, Capabilities, EntryBytes, TotalBytes, Lifetime} \subseteq Nat \ {0}

VARIABLES working,          \* the history of the working store
          pinned,           \* the canonical snapshot of the current agent
          explanations,     \* the registry; a lower token is an older entry
          explanationBytes,
          lastMonotonicMs,
          issued,           \* how many explanation tokens were issued
          call,             \* where the call of each client stands
          reading           \* the pages each client has collected

registry == <<explanations, explanationBytes, lastMonotonicMs, issued>>

vars == <<working, pinned, registry, call, reading>>

-----------------------------------------------------------------------------
(* Records and answers.                                                    *)

NoRecords == [k \in Keys |-> Absent]

RecordsAt(head) == IF head = <<>> THEN NoRecords ELSE head[Len(head)].records

Changed(records, changes) ==
    [k \in Keys |-> IF k \in DOMAIN changes THEN changes[k] ELSE records[k]]

Present(records) == {k \in Keys : records[k] # Absent}

Fits(records) == Cardinality(Present(records)) <= Capacity

\* Keys in the order rows are sorted.
Sorted(keys) ==
    [n \in 1..Cardinality(keys) |->
        CHOOSE k \in keys : Cardinality({j \in keys : j <= k}) = n]

\* createCompositeDataset: the memory.record facts of a lane, and of both.
LaneRows(lane, records) ==
    LET keys == Sorted(Present(records))
    IN  [n \in DOMAIN keys |-> [premise |-> lane, key |-> keys[n],
                                values |-> <<records[keys[n]]>>]]

RecordRows(canonical, records) ==
    LaneRows("canonical", canonical) \o LaneRows("working", records)

\* Keys both lanes hold with different records; working is the weaker premise.
ConflictRows(canonical, records) ==
    LET keys == Sorted({k \in Present(canonical) \cap Present(records) :
                           canonical[k] # records[k]})
    IN  [n \in DOMAIN keys |-> [premise |-> "working", key |-> keys[n],
                                values |-> <<canonical[keys[n]], records[keys[n]]>>]]

\* Everything memorySha256 digests.
Source == [question: Questions, pin: DOMAIN Pins, head: History]

Answer(source) ==
    IF source.question = "memory.record"
    THEN RecordRows(Pins[source.pin], RecordsAt(source.head))
    ELSE ConflictRows(Pins[source.pin], RecordsAt(source.head))

PageFrom(answer, start) ==
    SubSeq(answer, start + 1, IF start + PageSize < Len(answer) THEN start + PageSize
                              ELSE Len(answer))

-----------------------------------------------------------------------------
(* Calls and clients.                                                      *)

Request == [id: RequestIds, expected: History, changes: Bundles]

Row == [premise: {"canonical", "working"}, key: Keys, values: Seq(Values)]

Continuation == [source: Source, result: Seq(Row), next: Nat]

ASSUME ContinuationAssumption == None \notin Continuation

Idle ==
    [step |-> "idle", request |-> None, question |-> None, continuation |-> None,
     pin |-> 1, head |-> <<>>]

Call ==
    [step: {"idle", "guard", "capacity", "commit", "head", "evaluate"},
     request: Request \cup {None},
     question: Questions \cup {None},
     continuation: Continuation \cup {None},
     pin: DOMAIN Pins,                       \* of the agent the call was made on
     head: History]                          \* the working head it read

\* A client that reads an answer page by page.
Reading == [source: Source, rows: Seq(Row), continuation: Continuation \cup {None}]

\* A retained page, which nothing changes; what counts is its size.
Entry == [token: Nat, bytes: Nat, expiresAt: Nat]

TypeOK ==
    /\ working \in History
    /\ pinned \in DOMAIN Pins
    /\ explanations \subseteq Entry
    /\ explanationBytes \in Nat
    /\ lastMonotonicMs \in Nat
    /\ issued \in Nat
    /\ call \in [Clients -> Call]
    /\ reading \in [Clients -> Reading \cup {None}]

Init ==
    /\ working = <<>>
    /\ pinned = 1
    /\ explanations = {}
    /\ explanationBytes = 0
    /\ lastMonotonicMs = 0
    /\ issued = 0
    /\ call = [c \in Clients |-> Idle]
    /\ reading = [c \in Clients |-> None]

At(c, step) == call[c].step = step

Go(c, step) == call' = [call EXCEPT ![c].step = step]

\* The call is answered, refused or failed.
End(c) == call' = [call EXCEPT ![c] = Idle]

OnlyCall == UNCHANGED <<working, pinned, registry, reading>>

-----------------------------------------------------------------------------
(* remember: the capacity guard, then the commit of the working store.     *)

\* A retry sends an earlier request again, so any head is expected.
Remember(c) ==
    /\ At(c, "idle")
    /\ \E id \in RequestIds, changes \in Bundles, head \in ChainOf(working) \cup {<<>>} :
          call' = [call EXCEPT ![c] = [Idle EXCEPT !.step = "guard",
             !.request = [id |-> id, expected |-> head, changes |-> changes]]]
    /\ OnlyCall

\* A stale head is a replay or a conflict, which the store tells apart.
Guarded_Always(c) == TRUE

Guarded(c) == working = call[c].request.expected

GuardHead(c) ==
    /\ At(c, "guard")
    /\ IF Guarded(c)
       THEN call' = [call EXCEPT ![c].step = "capacity", ![c].head = working]
       ELSE Go(c, "commit")
    /\ OnlyCall

CapacityLeft(c) ==
    LET records == RecordsAt(call[c].head)
    IN  Fits(records) /\ Fits(Changed(records, call[c].request.changes))

GuardPasses(c) ==
    /\ At(c, "capacity")
    /\ CapacityLeft(c)
    /\ Go(c, "commit")
    /\ OnlyCall

GuardRefuses(c) ==
    /\ At(c, "capacity")
    /\ ~CapacityLeft(c)
    /\ End(c)
    /\ OnlyCall

Operations(id) == {operation \in ChainOf(working) : operation[Len(operation)].request = id}

\* The store takes a tombstone only for a record that is there.
Executes_AnyHead(request) ==
    \A k \in DOMAIN request.changes :
        request.changes[k] = Absent => k \in Present(RecordsAt(working))

Executes(request) ==
    /\ working = request.expected
    /\ \A k \in DOMAIN request.changes :
          request.changes[k] = Absent => k \in Present(RecordsAt(working))

Replayable(request) ==
    \E operation \in Operations(request.id) :
        operation[Len(operation)].changes = request.changes

\* The working store answers an exact replay with the operation of its first
\* execution; OhStore and OhLibSqlStore model the commit itself.
CommitReplays(c) ==
    /\ At(c, "commit")
    /\ Replayable(call[c].request)
    /\ End(c)
    /\ OnlyCall

CommitExecutes(c) ==
    /\ At(c, "commit")
    /\ Operations(call[c].request.id) = {}
    /\ Executes(call[c].request)
    /\ Len(working) < MaxSequence
    /\ working' = Append(working,
          [request |-> call[c].request.id, changes |-> call[c].request.changes,
           records |-> Changed(RecordsAt(working), call[c].request.changes)])
    /\ End(c) \* answered, or the answer is lost
    /\ UNCHANGED <<pinned, registry, reading>>

CommitRefuses(c) ==
    /\ At(c, "commit")
    /\ ~Replayable(call[c].request)
    /\ Operations(call[c].request.id) = {} => ~Executes(call[c].request)
    /\ End(c)
    /\ OnlyCall

-----------------------------------------------------------------------------
(* query: one page of the answer, and the capability to explain it.        *)

\* The program, bindings and page size of a continuation are checked before
\* anything is read.
Query(c) ==
    /\ At(c, "idle") /\ c \in Readers
    /\ \E question \in Questions :
       \E continuation \in {None} \cup
             (IF reading[c] = None THEN {} ELSE {reading[c].continuation}) :
          IF continuation # None => continuation.source.question = question
          THEN call' = [call EXCEPT ![c] = [Idle EXCEPT !.step = "head",
                  !.question = question, !.continuation = continuation, !.pin = pinned]]
          ELSE End(c)
    /\ OnlyCall

ReadWorkingHead(c) ==
    /\ At(c, "head")
    /\ call' = [call EXCEPT ![c].step = "evaluate", ![c].head = working]
    /\ OnlyCall

\* The continuation was issued for this memory and this result.
Continues_AnyMemory(continuation, source) ==
    /\ Len(continuation.result) = Len(Answer(source))
    /\ continuation.next < Len(Answer(source))

Continues(continuation, source) ==
    /\ continuation.source = source
    /\ continuation.result = Answer(source)

SourceOf(c) == [question |-> call[c].question, pin |-> call[c].pin, head |-> call[c].head]

StartOf(c) == IF call[c].continuation = None THEN 0 ELSE call[c].continuation.next

\* The working snapshot is read whole and the rows are all there.
Answerable(c) ==
    /\ Fits(RecordsAt(call[c].head))
    /\ Len(Answer(SourceOf(c))) <= MaximumRows
    /\ call[c].continuation # None => Continues(call[c].continuation, SourceOf(c))

QueryRefused(c) ==
    /\ At(c, "evaluate")
    /\ ~Answerable(c)
    /\ End(c)
    /\ OnlyCall

\* The sum of the entries' bytes: all of them, each with its entry, counted.
Bytes(entries) == Cardinality(UNION {{e} \X (1..e.bytes) : e \in entries})

Unexpired(entries, now) == {e \in entries : now < e.expiresAt}

\* What deleting the expired entries leaves of the byte count.
BytesAfterExpiry_Forgotten(now) == explanationBytes

BytesAfterExpiry(now) ==
    explanationBytes - Bytes(explanations \ Unexpired(explanations, now))

\* Entries go, the oldest first, until there is room for bytes more.
Evicted(entries, used, bytes) ==
    LET Room(gone) == /\ Cardinality(entries \ gone) < Capabilities
                      /\ used - Bytes(gone) + bytes <= TotalBytes
    IN  {e \in entries : ~Room({older \in entries : older.token < e.token})}

\* An explanation too large to keep: the expired entries are gone by then.
QueryTooLarge(c) ==
    /\ At(c, "evaluate")
    /\ Answerable(c)
    /\ \E bytes \in ExplanationBytes : bytes > EntryBytes \/ bytes > TotalBytes
    /\ \E now \in lastMonotonicMs..MaxTime :
          /\ lastMonotonicMs' = now
          /\ explanations' = Unexpired(explanations, now)
          /\ explanationBytes' = BytesAfterExpiry(now)
    /\ End(c)
    /\ UNCHANGED <<working, pinned, issued, reading>>

\* From the snapshot to the answer nothing is awaited.
QueryAnswered(c) ==
    /\ At(c, "evaluate")
    /\ Answerable(c)
    /\ issued < MaxTokens
    /\ \E now \in lastMonotonicMs..MaxTime, bytes \in ExplanationBytes :
          LET source == SourceOf(c)
              answer == Answer(source)
              rows == PageFrom(answer, StartOf(c))
              end == StartOf(c) + Len(rows)
              kept == Unexpired(explanations, now)
              used == BytesAfterExpiry(now)
              gone == Evicted(kept, used, bytes)
          IN  /\ bytes <= EntryBytes /\ bytes <= TotalBytes
              /\ lastMonotonicMs' = now
              /\ issued' = issued + 1
              /\ explanations' = (kept \ gone) \cup
                    {[token |-> issued + 1, bytes |-> bytes, expiresAt |-> now + Lifetime]}
              /\ explanationBytes' = used - Bytes(gone) + bytes
              /\ reading' = [reading EXCEPT ![c] =
                    [source |-> IF call[c].continuation = None THEN source ELSE @.source,
                     rows |-> IF call[c].continuation = None THEN rows ELSE @.rows \o rows,
                     continuation |-> IF end = Len(answer) THEN None
                        ELSE [source |-> source, result |-> answer, next |-> end]]]
    /\ End(c)
    /\ UNCHANGED <<working, pinned>>

-----------------------------------------------------------------------------
(* explain, which awaits nothing: a capability that is absent, expired or  *)
(* presented for another result is deleted.                                *)

Explain(c) ==
    /\ At(c, "idle") /\ c \in Readers
    /\ \E token \in 1..issued, exact \in BOOLEAN, now \in lastMonotonicMs..MaxTime :
          LET entry == {e \in explanations : e.token = token}
              valid == exact /\ \E e \in entry : now < e.expiresAt
          IN  /\ lastMonotonicMs' = now
              /\ explanations' = IF valid THEN explanations ELSE explanations \ entry
              /\ explanationBytes' = IF valid THEN explanationBytes
                                     ELSE explanationBytes - Bytes(entry)
    /\ UNCHANGED <<working, pinned, issued, call, reading>>

-----------------------------------------------------------------------------
(* The rest of the world.                                                  *)

\* Every foreign answer may be a failure, and a clock that went backward
\* refuses the call.
Fail(c) ==
    /\ ~At(c, "idle")
    /\ End(c)
    /\ OnlyCall

\* Another writer of the working store, whom no guard holds to the capacity.
Write ==
    /\ Len(working) < MaxSequence
    /\ \E records \in Writes :
          working' = Append(working, [request |-> None, changes |-> None, records |-> records])
    /\ UNCHANGED <<pinned, registry, call, reading>>

\* The authority installs the agent of a later canonical head.
Rollover ==
    /\ pinned < Len(Pins)
    /\ pinned' = pinned + 1
    /\ UNCHANGED <<working, registry, call, reading>>

\* A new process at the same canonical head: the registry is gone, and
\* continuations stay good under a key the host supplies.
Restart ==
    /\ explanations' = {}
    /\ explanationBytes' = 0
    /\ lastMonotonicMs' = 0
    /\ call' = [c \in Clients |-> Idle]
    /\ UNCHANGED <<working, pinned, issued, reading>>

Next ==
    \/ \E c \in Clients :
          \/ Remember(c) \/ GuardHead(c) \/ GuardPasses(c) \/ GuardRefuses(c)
          \/ CommitReplays(c) \/ CommitExecutes(c) \/ CommitRefuses(c)
          \/ Query(c) \/ ReadWorkingHead(c) \/ QueryRefused(c) \/ QueryTooLarge(c)
          \/ QueryAnswered(c) \/ Explain(c) \/ Fail(c)
    \/ Write \/ Rollover \/ Restart

Spec == Init /\ [][Next]_vars

-----------------------------------------------------------------------------
(* Properties.                                                             *)

\* The registry keeps to its bounds and its byte count is that of its
\* entries, however queries, expiry, eviction and refused explanations
\* interleave; entries are in the order they expire, under distinct tokens.
RegistryBounded ==
    /\ TypeOK
    /\ Cardinality(explanations) <= Capabilities
    /\ explanationBytes = Bytes(explanations)
    /\ explanationBytes <= TotalBytes
    /\ \A d, e \in explanations : d.token <= e.token =>
          /\ d.expiresAt <= e.expiresAt
          /\ d.token = e.token => d = e

\* No remembered operation leaves more records than the agent can read again,
\* although the capacity is judged before, and apart from, the commit.
RememberWithinCapacity ==
    \A i \in DOMAIN working : working[i].request # None => Fits(working[i].records)

\* Executed exactly as requested.
Landed(r) ==
    \E operation \in Operations(r.id) :
        /\ operation[Len(operation)].changes = r.changes
        /\ Prefix(operation, Len(operation) - 1) = r.expected

\* A remember call repeated after it was executed is not refused: not by the
\* capacity of a store others have filled since, nor by the head it names.
RetryAnswered ==
    [][\A c \in Clients :
          GuardRefuses(c) \/ CommitRefuses(c) => ~Landed(call[c].request)]_vars

\* The pages a client collects by continuation are, in order and without gaps
\* or repetition, one answer over one canonical and one working head, and all
\* of it when no continuation is left.
PagesAreTheAnswer ==
    \A c \in Clients : reading[c] # None =>
        LET answer == Answer(reading[c].source)
        IN  /\ IsPrefixOf(reading[c].rows, answer)
            /\ reading[c].continuation = None => reading[c].rows = answer
=============================================================================
