# Oh in TLA+

Oh keeps a knowledge graph as an append-only log of operations. Each operation
names the head it follows, changes some records, and carries the digests of
the records that result. A space of records lives in a SQLite store or in a
libSQL store; SQLite stores exchange operations through a remote by
fast-forward sync, an agent-facing memory sits on top, and a semantic cache
follows the memory's canonical heads. This directory models that core in TLA+
and model-checks it with TLC on small instances. The safety properties are
proved with TLAPS for every instance, those of the semantic cache (its tombstones
excepted) for every instance in which one client upgrades a version 1 database;
the liveness properties are only checked.

Paths in comments and in `PROJECT.json` are relative to the repository's
parent: `src/src/sqlite/store.ts` is the file `src/sqlite/store.ts` of the
repository.

## The system

| Part | State it keeps | Operations | How it interacts |
| --- | --- | --- | --- |
| Graph and operations (`graph.ts`, `operation.ts`) | none | canonical changes, create and parse operations | the values every store keeps |
| SQLite store (`sqlite/store.ts`, `migrations.ts`, `driver.ts`) | the rows of a space: head, operations, records, dependencies, search, revisions, outbox, binding, sync state, purge receipt | open, bind, commit, importOperations, updateSyncState, purgeWorkingSpace, verifyReplay, close, reads | several processes share one database file under SQLite's single write lock |
| Store port (`sqlite/port.ts`) | a memo of the purge receipt | promise facade, replication handle | wraps one SQLite store |
| Operation sync (`sync-*.ts`) | the round of a running call; tables `oh_sync_operations`, `oh_sync_contracts` at the remote | synchronize; transport handshake, head, pull, push | reads and imports into a SQLite store, queries a libSQL server between the steps |
| libSQL store (`libsql-*.ts`) | the authority tables of a space at the remote; owner: active count, closing | open, commit, snapshot, changesSince, verify, purge, close | clients compete through guarded write batches |
| Memory core and authority (`memory-core.ts`, `memory-authority-*.ts`) | the pinned canonical head and the agent built on it; a FIFO of host requests | remember, recall, nominate; advance, adopt | one canonical store read at a pin, one working store |
| Semantic caches (`libsql-semantic*.ts`, `semantic*.ts`) | generations, memberships, vectors, published head, purge receipts | bootstrap and transition, stage, publish, search, purge | follows canonical heads |
| Projection (`projection.ts`) | tuples with witnesses, within one evaluation | evaluate rules and a query, prove rows, parse cached results | reads one snapshot; answers the agent's queries, which labels its rows |
| Recall, rerank, observation, pages | none beyond a snapshot | rankings, change lists | read snapshots, commit through a store |
| SDK and command line | the owned store and backends | facade, close drains calls | call the parts above |
| Research profile, Rust crates, release tooling, site, benchmarks | documents, artifacts | pure translation and I/O | outside the running core |

### What is hard about it

- **Interleaving.** Two processes review one head and commit; two stores push
  on one remote head; a call on a store runs while another call imports into
  it; a bind is two statements; a verification is two statements.
- **Crashes and retries.** A process dies inside a transaction, or after
  COMMIT and before its answer; a commit, an import or a push is repeated.
- **Unreliable requests.** A request to the remote is lost, or executed after
  its sender gave up, or executed with its answer lost.
- **Derived rows.** Records, dependencies, search documents, revisions and the
  outbox are kept incrementally beside the log they derive from, under foreign
  and unique keys, by statements in a fixed order.
- **Boundaries.** Pages cut by count and by bytes, the last round, the record
  limit of a snapshot, an interval that is already present.
- **Budgets.** A projection recurses through rules, and its proofs are cut
  anywhere by depth, nodes and bytes; a cut proof must not pass for a whole one.
- **Finality.** A purge deletes ten tables by hand and must hold against open
  handles, half-done calls and reopening.

`PROJECT.json` lists these hazards at their lines with the properties that
would catch them.

### What makes each part correct

- Store: the rows replay to themselves at every moment; an answer given once
  stands; one operation identifier has one operation; nothing lands on a head
  its author did not review; constraints never fail an accepted operation; an
  import is all or nothing; bindings agree; a purge is final; the whole is an
  append-only log.
- Sync: the remote is one chain; histories only grow along one another;
  recorded heads are common; a confirmation names a moment at which both sides
  were equal; no spare round is needed; a call ends.
- libSQL store: the same abstract log, with batches that may be refused or
  executed late; answers and receipts stand; the owner drains.
- Memory authority: the pin moves only along proved history; receipts tell the
  truth about the canonical store; an adoption overwrites only what its host
  reviewed; every host call gives its permit back.
- Memory agent: what is remembered can be read again; pages make up one answer;
  the registry of explanations keeps its bounds; a retry is answered.
- Projection: the rounds compute exactly what follows; a result is exactly the
  answer and the proofs it claims; a cache takes back what was built; a row
  labelled canonical needs no working record.
- Semantic cache: a stored generation is whole and alone under its number; one
  publisher moves the head; a purge is final and its receipt permanent, through
  the upgrade from version 1, which resumes after a crash.

## The modules

| Module | Models | Source |
| --- | --- | --- |
| `OhHistory` | operations as histories: prefixes and segments | `operation.ts`, `sqlite/store.ts` |
| `OhGraph` | records, change lists, transitions, operations, replay | `graph.ts`, `operation.ts`, `store.ts` |
| `OhStore` | one space of the SQLite store shared by several processes | `sqlite/store.ts`, `sqlite/migrations.ts`, `sqlite/driver.ts` |
| `OhLog` | abstract: an append-only history with a final purge | the store contract |
| `OhSync` | synchronize calls, the libSQL transport, the remote's rows | `sync-program.ts`, `sync-libsql-program.ts` |
| `OhReplication` | abstract: fast-forward replication | the sync contract |
| `OhSyncUndisturbed` | `OhSync` with two history variables | |
| `OhLibSqlStore` | one space of the libSQL store, workflow by workflow, request by request | `libsql-program.ts`, `libsql-model.ts` |
| `OhLibSqlOwner` | admission and drain of an opened authority | `libsql-program.ts`, `libsql-runtime.ts` |
| `OhMemoryAuthority` | the host calls that move an agent's canonical pin and adopt nominations | `memory-authority-program.ts` |
| `OhMemoryAgent` | remember, query and explain over a pinned canonical and a working store | `memory-core.ts` |
| `OhSemanticUpgrade` | the tables of the semantic cache; bootstrap and the transition from version 1 | `libsql-semantic-v2-program.ts`, purge of `libsql-semantic.ts` |
| `OhSemanticCache` | stage, publish, search, head, purge and receipt on those tables | `libsql-semantic-v2-program.ts` |
| `OhProjection` | the rounds that evaluate a program over the facts of a snapshot | `projection.ts` |
| `OhProjectionResult` | rows and bounded proofs, the parser of cached results, the label of a row | `projection.ts`, `memory-core.ts` |
| `OhHistoryProofs`, `OhGraphProofs`, `OhStoreProofs`, `OhSyncProofs`, `OhLibSqlStoreProofs`, `OhMemoryAuthorityProofs`, `OhMemoryCoreProofs` (of `OhMemoryAgent`, `OhProjection` and `OhProjectionResult`), `OhSemanticProofs` | theorems | |
| `MCOhStore`, `MCOhSync`, `MCOhSyncUndisturbed`, `MCOhLibSqlStore`, `MCOhMemoryAuthority`, `MCOhMemoryAgent`, `MCOhSemanticCache`, `MCOhProjection` | instances for TLC | |

A definition named `Operator_Fault` is a mutated form of `Operator`; the runs
reject the module with it (see `mutants` in `PROJECT.json`). It is never part
of `Next`.

### OhHistory and OhGraph

An operation *is* its history: a nonempty sequence of bodies whose front plays
the part of `parentOperationSha256`. Digests are thereby collision free, and
the canonical JSON of a value is the value. A body holds the identifier, actor,
instant, changes and the records digest (the records themselves). `Accepts` is
the code's own check of a change list against a snapshot: every tombstone names
the current record, dependencies stay closed, the record limit holds.
`RecordsAt` is the snapshot the last operation of a history declares, and
`ValidHistory` is what `replayOhOperationsV1` accepts: identifiers occur once
and every operation reproduces the snapshot it declares from the one before.

### OhStore

`db` holds the committed rows of the space, one field per table. A write
transaction is `txn`: the owner, a working copy of the rows and, for an import,
the operations still to persist. `BEGIN IMMEDIATE` is the guard `txn = None`.
A commit works in one step (JavaScript does not yield inside it) and publishes
in a second, so that crashes fall in between; an import takes one step for each
operation. `call` holds what a call has read and will act on later: the two
statements of `bind`, the checks `importOperations` makes before its
transaction, the operations `verifyReplay` read before the rows. `request` is a
commit its author wants answered; it survives a crash, which is what makes a
retry. `receipts` is a ghost set of all answers. `Persist` writes all tables of
an operation; `Persistable` states the constraints the schema would raise.

Left out: the read-only queries, the native drivers and schema upgrades, and
power loss below COMMIT.

### OhSync

A syncer is a running `synchronize` call that borrows a store; calls may share
one. `call[c]` is where it stands: the step it takes next and the heads and
operations it carries from one request to the next. Each request to the remote
(head, page, the push's head query, its comparison, its INSERT batch, the
confirming head) is served in one step, and its answer is acted on in a later
one. `Lost` ends a call at any step: the request failed, its answer was lost or
the process died. A batch that was sent may then still execute, as `LateBatch`;
a batch that executed before its answer was lost is `ServeBatch` followed by
`Lost`. `rows` is the table `oh_sync_operations`; a batch is one transaction
that only the table's keys guard. A local store is its history, which `OhStore`
shows the SQLite store to be, and `Import` is the single transaction of
`importOperations` with its replay case. A page or bundle is any nonempty
prefix of at most `BatchSize` operations, since the byte limit may cut
anywhere. The handshake is folded into `Begin`, and the malformed answers that
`synchronize` rejects cannot come from this transport.

### OhLibSqlStore and OhLibSqlOwner

`rows` are the authority tables of one space. A write batch is a transaction
whose guard row aborts it, so it is `Applies` and `Effect`: the SQL conditions
under which its statements take effect, and what the tables then hold.
`Execute` is the server executing the batch a workflow waits for; `LoseReply`
is its client rejecting, before the batch executed (it stays in `late` and
`ExecuteLate` may still execute it) or after. Between two requests a workflow
holds in `call[c]` what its locals hold: the head it read, the operation it
found, the attempt it is at. A read batch is one step; where the code reads a
receipt by a further request one step stands for both, since a purged space
never returns. `FailRead` is a read that rejects.

`commit` is `Preflight` (`Prove` for a duplicate), `ReadSnapshot`, the batch,
`Committed`, or after a rejected batch `CommitFailed`, `RecoverHead` and
`Prove`. A purge is `ReadPurge`, `PurgeHead`, its batch, `PurgeReread` and
`CheckPurge`; a worker's begins with `FenceRead` and may fence an absent space.
Opening, `verify` and `close` are modelled likewise. `handle[a]` holds the
binding and the two memos of an opened program, and `OhLibSqlOwner` its owner:
`Submit` is a caller that decides on a commit from the head it sees, `Enter`
admits a workflow and `Return` releases it. `Crash` ends all workflows of an
authority; a caller whose commit was not answered keeps its request and may try
again, through any later opening.

Left out: bootstrap of the schema, the change feed and historical snapshots
(reads; that they notice a purge is `Read`), the byte and count limits, and
what a workflow does on rows that no batch of this code can have written.

### OhMemoryAuthority

An authority is one running host process; `pin` is the canonical head its agent
reads at, and `canonical` the history of the store that all hosts and other
writers share. A host call is `Ask`, `Take` (the permit of `hostOrder`, one per
authority), and then one action for each answer it waits for: the export of the
working store, the physical head, a page of the change feed, a lane, the
commit, and the head once more. `Install` replaces the agent. A commit executes
and is answered, executes and loses its answer, or is given up (`CommitTimesOut`)
and lands later (`LateCommit`). `Fail` ends a call at any wait; `withPermits`
gives the permit back. `Write` is any other writer; `Restart` starts a host
again at a head the store has. A nomination is reduced to the records of its
closure and the claims to the records the host says it replaces; the page of a
proof may be cut anywhere, as the byte bound may. A body keeps which nomination
it adopts, which is what the operation identifier tells: with the parent it
names the operation.

### OhMemoryAgent

`working` is the working store's history, `pinned` the canonical snapshot of
the agent, which `Rollover` replaces while calls under way finish on the old
one. `remember` is `GuardHead`, the capacity guard on the snapshot at that head,
and the commit, with other writers between all three; its commit is replayed,
executed or refused as `OhStore` shows. A query reads the working head and then
answers a page of a program's rows: `memory.record`, the records of both lanes,
and `memory.conflict`, the keys on which they differ. The rows are a pure
function of the two heads, so a continuation is a record of what it was signed
over, which only the agent can make. `explanations` is the registry, a JavaScript
`Map` in the order of insertion and here a set whose tokens are numbers in that
order: expiry,
eviction by count and by bytes, and an explanation too large to keep are as in
the code, with the size of an explanation chosen from a small set. A call that
its client gave up on is the call of another client.

### OhSemanticUpgrade and OhSemanticCache

Each table of the cache is a variable, and the schema inventory is one of none,
version 1, transition and version 2. A SQL call (a query, a batch that is one
transaction, a schema statement) is one step: it takes effect and is answered,
takes effect and loses its reply, or fails without effect. A write delivered
after its sender gave up is not modelled here. `call[c]` is the operation
and what its locals hold; `outcome` the report of the last one, from which the
properties speak. `OhSemanticUpgrade` has the bootstrap: create, or start the
transition, copy tombstones page by page, finish, and verify. `Bootstrap`
is the code's, which any host may call at any time. Which hosts are started on a
version 1 database is a condition on them and not on the code, `MayBootstrap`
in `UpgradeNext`: `Upgraders` are the clients whose bootstrap may begin there.
Resuming a transition is open to all. `docs/hosted-semantic-runtime.md` (line
144) allows bootstraps that run at the same time; `semantic_upgrade` and
`TombstonesAlwaysSurvive` are about several upgraders. `OhSemanticCache` adds
the six operations of an opened cache: their preliminary reads, the write batch
with the SQL conditions of its statements, and the reads that interpret it.

Of version 1 only the purge's tombstones are modelled, as the host
quiesces version 1 writers before the transition and its derived rows are
dropped. Instants other than a purge's, digests, parsing and the ranking of a
search are left out.

### OhProjection and OhProjectionResult

An evaluation reads its snapshot once and runs alone, so its steps are the
rounds of `materializeNaive`. `known` maps every tuple derived so far to its
witness: the sources of a fact, or a rule with the premises it was first applied
to. A body is matched by the bindings that make every literal a known tuple;
`Attempts` are the unifications the nested loops try, `Work` their number.
`ArityConsistent` is the check of relations and arities before the first round. A round that adds nothing
ends the loop (`LastRound`), and one that passes a limit ends the evaluation
(`RoundFails`). The order of canonical JSON, which chooses between witnesses and
between supporting matches, is some fixed order (`CHOOSE`): nothing that is
stated depends on which. A source of a fact is the lane of its record.

`OhProjectionResult` builds the result one call at a time. `MatchQuery` finds
the answers in their order, each with its number of supporting matches and the
one whose premises are proved. The proofs of all rows are one function,
`proofs`, from positions to nodes: `<<row, literal, premise, ...>>` is where the
recursion of `proofForReference` stands when it makes a node. So the call stack
is the position asked for next, `path`; what `visiting` holds are the references
at the prefixes of the position; and what a loop over premises has collected are
the nodes just below its position. `StartRow` reserves the envelope of a row,
`Prove` is a call that reserves its node and goes on with the premises or with
the next claim of the deepest loop that has one (`Onward`), `Cut` a call that
finds a budget used up, whose caller marks itself and tries no further premise,
`EndRow` the row with what `proofIsTruncated` finds in it, `Finish` the
statistics. Bytes are a size for each kind of envelope, the same on both sides.
The builder reserves envelopes within `MaximumBytes`, which leaves `Slack` (64
KiB) of the bytes of a result for what it does not reserve: the commas between
rows and between proofs (`Commas`), and the rest of the result (`FrameBytes`).
`SizeOf` counts all of it, and a result that is too large after all fails the
evaluation (`FinishFails`). `Parses` judges a result by the limits and counts
`parseOhProjectionResultV1` applies to it, as sizes of sets of nodes, supports
and bytes; it leaves out the order of the rows, the exact keys of each object
and the digests. `ResultParses` therefore says that the parser accepts what is
built. That it refuses what was not built rests on the digest of the result and
is not shown. `PremiseAuthority` is the label the agent gives a row.
The builder's guard on depth (`>=`) and the parser's (`>`) differ by one: a node
at the limit is accepted, as one that says it is cut (`KindOf`).

## The runs

| Run | Instance | Shows |
| --- | --- | --- |
| `store` | 2 processes, 2 keys, 3 change lists, 2 identifiers, 5 bundles (sound, overlapping, wrong at the second operation), a canonical and a working binding, a verifier, a remote | rows, constraints and answers under racing and retried commits, imports, binds, a purge and crashes; the inductive invariant of the proof; refinement of `OhLog` |
| `sync_race` | 2 stores, 2 bodies, pages of 2, 2 rounds, 1 late batch | one remote chain, recorded heads, confirmations, refinement of `OhReplication`; the inductive invariant of the proof |
| `sync_live` | 2 stores, 2 bodies, histories of 2, pages of 1, 1 round | what a call promises when nobody interferes; every call ends |
| `libsql_commit` | 2 calls of one authority, 2 keys, 2 change lists, 2 identifiers, sequence 2, 1 late batch | guarded commits, retries and recovery; one winner per head; no false alarm |
| `libsql_purge` | a host and a worker, a creator, 2 bindings, 1 commit, 2 attempts, 1 late batch | purge against creator, commit, crash and purge; refinement of `OhLog`; calls settle, a close ends |
| `memory_authority` | 2 calls of a host, 2 keys, a nomination of 2 records and one never exported, a capacity of 2, histories of 3, 1 late commit | pins, receipts and adoptions against other writers, lost answers and restarts; the inductive invariant of the proof; every host call settles |
| `memory_agent` | 2 clients, 2 keys, 2 bundles, 2 pins, pages of 1, a capacity of 1, 2 explanations of at most 3 bytes | registry, capacity, pages, retries |
| `semantic_cache` | 2 clients, one of which may upgrade, 2 authorities, 2 isolations, 4 generations of which 2 claim one number, pages of 1 | stored generations, heads, reports, tombstones through the upgrade |
| `projection` | every set of 4 facts with every mix of lanes under 2 programs and 10 settings of the limits, a rule recursive twice over a graph of 3 edges, a program with two arities and one with a relation too many | least model, rows and proofs, parser, label; with a slack of 2 some results fail at the last byte check |
| `store_profile`, `store_verify`, `semantic_upgrade` | as above; in `semantic_upgrade` both clients upgrade | the findings |

The invariants of a component that are parts of one inductive invariant are
checked as that invariant: `StoreSound` of `OhStore` is `StoreInvariant`, which
contains `TypeOK`, `RowsVerify`, `AnsweredOnce` and `BindingsAgree`, together
with `ConstraintsNeverTrip`, which follows from it and is what the order of the
statements in `Persist` is for; either half has a mutant that breaks it.
`SyncInvariant` contains `TypeOK`, `RemoteIsOneChain` and `RecordedIsCommon`. The theorems state them one by one.

### Why the bounds are enough

Two processes are every race the single write lock allows: one holds the lock,
one has read before it. Two keys, one depending on the other, give every shape
of change that a foreign key can object to: create, link, rewrite, remove one,
remove both. The snapshot limit equals the number of keys, so it is reached.
Bundles of two operations over a commit reach a replay below the head, a stale
expected head and a divergent bundle. In sync, two bodies make histories
diverge, a page of two over a history of two leaves both whole and cut pages,
and a history of two with one round runs out of rounds. In the libSQL store two callers are
a workflow and whatever happens between its requests; `MaxLate` keeps one write
batch that nobody waits for, which is enough for it to meet the retry it was
given up for, a competing commit or a purge. `libsql_commit` leaves crashes to
`libsql_purge` (`Crashing`); a call that gives up is a crash without the
opening that follows. Two attempts of a purge (three in
the code) are one that meets a moved head and one that succeeds or gives up,
and the identifiers and sequences are the fewest at which a loser, a retry and
another winner are three operations.

In the memory authority two calls of one host contend for its permit, one call
meets every other writer through `Write`, and a proof of two operations in one
page of two, or in two pages where one is allowed, passes and gives up. The
nomination meets an absent record, an equal one and a different one. In the
agent a capacity of one is reached by the first record and exceeded by the
writer; three bytes hold an explanation of size two, must evict it for another,
and refuse one of four. In the cache two contents claim one generation number,
and one authority wants the isolation of the other; two chunks and pages of one
leave every batch half-way, and the inherited tombstones take the transition
through one page and its end.

A projection over a circle of three edges and a fact of a derived relation takes
up to three rounds, derives tuples along two ways and by two rules, and has
proofs of depth three with shared premises. Each limit is set just below what
some of these inputs need, so that every cut happens: rounds, derived tuples,
work, matches of a join, depth, nodes of a row and of the result, bytes of a
proof and of a row, and the limit of the query. Facts, relations, matches and
rows reach `FactLimit`, `RelationLimit`, `QueryMatches` or `QueryResults` or stay
just below, and with `Slack` 2 and `FrameBytes` 1 a second comma is one too many.

What the instances cannot show, the theorems do: they hold for any number of
processes, keys, operations, bundles, calls and rounds, calls that share a store
among them, and for any program and facts.

Deadlock is checked in `memory_authority` and `memory_agent`. Elsewhere it is
not: all requests answered and all histories at their bound is a normal end of
an instance. Symmetry is used over bodies and over processes
where no property or constant tells them apart, and never with liveness.

### Fairness

`EveryCallEnds` needs `WF_vars(Proceed(c))`: the Effect runtime keeps a started
fiber running, and the client settles each request it accepted. Nothing is
assumed of commits, of other calls, or of when a late batch executes.
`CallsSettle`, which covers the calls and the closing of an owner, needs
`WF_vars(Step(c))` and `WF_vars(FinishClose(a))` for the same reason: a batch
that was sent executes or rejects, and the runtime resumes the workflow that
awaits it. The documentation says that close has no timeout, so a request that
never settles is excluded only here.
`EveryHostCallSettles` needs `WF_vars(Proceed(c))`, every answer a host call
waits for comes or fails, and `SF_vars(Take(c))`: Effect's semaphore hands a
permit to its waiters in turn, so a call that is again and again first in line
while the permit is free is not passed over for ever. Nothing is assumed of
writers, late commits or restarts. No other property needs fairness.

## The proofs

`OhStoreProofs` proves every property the passing store run checks, for all
values of the constants that satisfy `ChangeSetsAssumption` and `StoreAssumption`.

The inductive invariant is `StoreInvariant`. `RowsVerify` is not inductive
alone: publishing replaces the rows by the transaction's, so these must replay
as well, and they extend the committed rows only because the transaction's head
starts at the committed head (`TransactionExtends`) and because an import's
chain was checked when it began (`ImportsChecked`). That an answer stands needs
to know that rows are one chain, on which the operation with an identifier is
unique. That one commit wins per head needs that a fresh answer's parent is the
head its author reviewed (`AnswersGrounded`). That bindings agree needs that a
handle's binding is the database's while the space lives (`BindingsHeld`).

The argument turns on two theorems about data. `ValidAppend`
(`OhGraphProofs`): a valid history extended by an operation that is accepted
and reproduces its records is valid. `PersistVerified`: the statements that
persist an accepted operation turn rows that replay into rows that replay.
`StoreConsistent` then combines the invariant's preservation, step by step.
`ConstraintsNeverFail` and the refinement `StoreImplementsLog` follow from it;
`StoreAlwaysSound` is the invariant and `ConstraintsNeverTrip` together, as the
run checks them.
`ReplayRecognised` needs to know where a bundle lies that ends on the chain: its
histories are prefixes of the last one, one for each length (`IntervalOnChain`,
by `SetInduction` along the bundle), so all of it is on the chain.

`OhSyncProofs` proves every property `sync_race` checks, for all values of the
constants that satisfy `SyncAssumption`: any number of stores, calls and late
batches, any assignment of calls to stores, any page size and round limit.

The inductive invariant is `SyncInvariant`. That the rows are one chain is not
inductive alone, because a batch is composed long before it executes: one needs
that its parent, the head the round read, is still a prefix of the remote's
head (`Fits`, and `LateFits` for a batch whose sender is gone). The heart is
`InsertedRowsContinue`: rows that follow a prefix of the chain, at sequences no
row has, can only follow its very head. The primary key alone thus does the
work of a compare-and-swap, and the transport's own comparison with the head it
read a request earlier serves to report a conflict, not to prevent one. What a
call remembers keeps fitting because both sides only grow (`FitsGrown`). That
a confirmation names a common moment rests on the last part of `Fits`: if the
remote was at the confirmed head and the store was not, the store is already
longer, and it will never return. The refinement `SyncReplicates` then only has
to name which of `OhReplication`'s actions an import, a batch and a commit are.

It also proves the two safety properties of `sync_live`, over
`OhSyncUndisturbed`. `Steady` says where a call stands that nobody disturbed:
what it has read of a side is that side, and the operations still apart with the
rounds begun are at most the operations that were apart when it began. An import
and a batch each bring the sides closer by at least one (`ImportUndisturbed`,
`ServeBatchUndisturbed`), and the confirmation takes no round, so a call out of
rounds had more to move than rounds (`NoRoundIsSpare`). A page that does not
continue the store, or a remote head the store does not have, is then a
divergence there was from the beginning, and a batch finds its rows free
(`OnlyDivergedIsRefused`).

`OhLibSqlStoreProofs` proves every safety and action property the two libSQL
runs check, for all values that satisfy `ChangeSetsAssumption`,
`LibSqlAssumption` and `NoneAssumption`: any number of authorities, calls, purge workers, batches that
execute late, attempts and crashes. None of the properties is inductive; two
invariants carry them. `Structure` says where a call may be: a commit has a
request and runs in an open program, a creating call is the only one of its
authority, and `active` is the number of calls under way (`Counted`), from which
`ClosedLast` follows. `Sound` says what may be relied on between two requests.
A batch is valid by what its sender read before it built it (`ValidBatch`): a
commit's changes are accepted by the records at its parent, a fence names the
empty head. Whenever such a batch executes, its own guards suffice for the
tables to replay to one another and for the history only to grow
(`ExecutedSound`, resting on `PersistVerified`); no other step writes rows. What
a call, a program, an answer or a receipt says of the rows (`Holds`, `Knows`,
`Stands`) is therefore a statement about a history that only grows, a receipt
that stays and a binding that stays until the purge, and outlasts whatever
executes in between (`HoldsOn`, `KnowsOn`, `StandsOn`). That a program whose
space vanished finds a receipt is `LiveOrPurged`: it keeps workflows from taking
sound rows for damaged ones. `AnswersHold` then needs only that two operations
of one history with one identifier, or one parent, are the same
(`OnePosition`), and `LibSqlImplementsLog` that a batch is a step of `OhLog`
(`BatchStep`).

`OhMemoryAuthorityProofs` proves every safety and action property
`memory_authority` checks, for all values of the constants that satisfy
`AuthorityAssumption`: any number of hosts of one store, calls, nominations,
writers and late commits.

`AuthorityInvariant` is inductive as it stands. Its parts were found by asking
what a call may rely on after a wait: one call at a time runs on an authority,
so the pin is still the one the call began from; the head it has proved or read
is still of the canonical history, which only grows; a request on its way to
the store is still the one its host reviewed at the head it expects
(`Reviewed`), whoever sends it. Each step moves one call (`OneCallMoves`), one
lemma per action shows what it establishes for that call, and two lemmas carry
the rest: what other calls know stays true when the canonical history grows
(`StandsElsewhere`) and when it does not change (`Undisturbed`).
`ReceiptsAlwaysTrue` is a part of the invariant. `PinsMoveForward` follows at
`Install`, whose target descends from the pin; `AdoptionsAsReviewed` at the
commit and the late commit, which execute only where the expected head is the
store's, and there the review still describes the records.

`OhMemoryCoreProofs` holds the theorems of two modules that share no state,
because the agent evaluates the programs of the other. Of `OhMemoryAgent` it
proves every property `memory_agent` checks, for all values that satisfy
`AgentAssumption` and `ContinuationAssumption`. `AgentInvariant` says what a call may rely on: a head
it has read is a prefix of the working history, a request the guard has passed
fits the records at that head, a page was cut from the answer its continuation
names, and a remembered operation was so guarded. `RememberedFits` then rests on
the commit executing only at the head the guard judged; `PagesAlwaysAgree` on a
continuation binding both heads; `RetriesAnswered` on the guard letting a
request pass that is already in the history, which only grows.
`RegistryAlwaysBounded` rests on an invariant of its own, `RegistryInvariant`.
Bytes are counted as elements of a set, so that the count of what remains is a
difference (`BytesOfTheRest`), and `EvictionMakesRoom` shows that the loop which
evicts the oldest entries ends with room: the oldest entry that stays would have
gone if there were none.

Of `OhProjection` and `OhProjectionResult` it proves every property `projection`
checks, for every program, dataset and limits that satisfy
`ProjectionAssumption` and `ResultAssumption`. These say what the parsers of
datasets, rule packs and queries guarantee: finitely many facts and rules, bodies
within the limits on literals that bind the variables of their head and of the
answer, facts with a source, limits that are numbers, a bound on the facts, and
a byte limit no smaller than the slack.

The rounds: `RoundsInvariant` says that what is known follows, and that the last
round found no firing with a new conclusion, so that what is known is a model; a
least model is contained in every model and is one (`LeastIsModel`), hence
`RoundsReachLeastModel`. `WitnessesAreEnough` shows what the label of a row
rests on: tuples whose witnesses stay among them follow from the facts among
them. It is an induction over the rounds, carried by the witnesses of a round
having their premises before it (`WitnessExists`). With `NothingFromNothing` no
tuple supports itself, directly or through others (`ProofsEndInFacts`): the
guard against cycles in `proofForReference` is never needed.

The result: `ResultInvariant` is inductive (`ResultsHold`). The hard part of it,
`Building`, says what a recursion that is half-way has done. `NodesMade`: every
node proves the claim at its position, under nodes that derive theirs.
`LoopsAt`: a loop over claims that encloses the position asked for next has
proofs of exactly the claims before it and is not cut; every other loop is over,
and is marked if and only if it did not prove all its claims. `Counted`: the
three counts of the budgets are the numbers of nodes of the row, of all nodes and
of their bytes, and within the limits. `RowsBuilt`: a row that is done says what
the tree below it says, and no later step changes that tree (`RowKept`). A step
of the recursion goes in two halves: `NodeMade` and `CutDone` show what the loops
look like when all is done below a position (`LoopsPast`), `OnwardGoes` and
`GoesOn` that leaving every finished loop for the next claim gives `LoopsAt`
again, or ends the row (`RowEnds`).

From the invariant at the end of a result follow the three properties.
`RowsAlwaysHonest`: an answer is there once with its number of supports
(`AnswersAreExact`), every node proves the first of its premises and says if it
does not prove all, and a row that does not say it is truncated carries a whole
derivation (`RowTruncated`): `Truncated` looks at what is under the row, and
what is under a node without a mark is whole. `ResultsAlwaysParse`: what the
parser counts by walking the rows is the union, over the rows, of what the
builder reserved one by one; that it finds no more matches than units of work
needs every match to have been tried (`MatchesTried`), and that its sum of
supports is the number of matches needs that the matches of different answers
differ (`SupportsCount`); of the relations, each comes from a fact or a rule, so
their number is within the limit `ArityConsistent` applied (`RelationsUsed`).
`SlackSuffices` says when the last byte check never fails: where the slack holds
the frame, a comma for every row the query may show and one for every proof node
(`CommasCounted`). `CanonicalAlwaysStandsAlone`: the tuples
shown in a row that is not truncated have their witnesses among them
(`WholeRow`), so they follow from the facts among them, which are canonical; the
least model only grows with its facts (`LeastMonotone`).

`OhSemanticProofs` proves every property `semantic_cache` checks, for all values
that satisfy `SemanticAssumption` and `RequestAssumption`, all but
`TombstonesAlwaysSurvive` under one hypothesis that each theorem states: `OneUpgrader`, the hosts upgrade a version 1 database
through one client. Any number of other clients open, stage, publish, search and
purge meanwhile, and the upgrader itself may crash and begin again. The
hypothesis is what the third finding is about: with two upgraders the batch that
starts the transition may execute on version 2 tables, and `semantic_upgrade`
shows the receipts it destroys. It is used in one place, `CallsUndisturbed`: what
a bootstrap verified of version 1 is still so when its batch executes, because
nobody else ends version 1.

`CacheInvariant` has three parts. `TablesSound` is what the properties ask of
the rows, with what each schema leaves empty. `Knows(c)` is what a call may still
rely on at each of its steps: that the isolation it reserved has its owner, that
the generation it read is stored unless its authority was purged, that the
chunks a scan has found are those of the pages it has read, that a swap which
counted a row has made its generation the head. `Stands(c)` is what a call that
ended reported. The proof separates the step of a call from what it does to the
others. `Grows` says what every step leaves standing: reservations and
tombstones stay, receipts are final after version 1, and on version 2 a
generation stays and a head moves forward unless its authority is purged.
`CallsUndisturbed` and `ReportsUndisturbed` show once that this is enough for
everything other calls know and have reported; then each action has a lemma
that it grows, keeps the tables and establishes what its own call knows next
(`InsertionSound`, `SwapSound`, `PurgeSound`, `MaterializeSound` for the
batches that write). `ClaimsDiffer` gives `OnePublisher`: while heads move only
forward, two publishes cannot both have moved the head to one generation, the
one whose report is still under way included. That a search finds every chunk
rests on a lemma about ranks (`FirstPages`): the pages of a sorted set are cut
without gap or overlap at every offset. 
`ReceiptsArePermanent` follows from what each action writes to the receipts
(`ReceiptsKept`). `TombstonesAlwaysSurvive` needs no `OneUpgrader`: however many
clients upgrade, whichever batch executes late and on whatever tables, no
tombstone of version 1 is lost. Its invariant is `TombstoneInvariant`: only a transition has
transition rows, a receipt has an instant, and a page a bootstrap has read,
however old by now, names tombstones there are, with their instants. A late page
then does no harm: it inserts nothing where a receipt stands, and deletes a row
only where the receipt has the row's instant.

The developments about histories rest on `OhHistoryProofs`: prefixes are ordered
by extension, and two prefixes of one history are comparable. `SetInduction`
stands for induction over numbers: a set of numbers in place of a formula.

Every invariant and every action property of a passing run is stated by a
theorem. Only model-checked: all liveness, which under fairness is beyond this
prover (`EveryCallEnds`, `EveryHostCallSettles` and `CallsSettle`). Of the
semantic cache with more than one upgrader only the tombstones are proved, and
only the violation of `CountsPermanent` is run; the other properties of
`semantic_cache` do not hold there (see below).

## Findings

1. `store_profile`: `importOperations` checks the profile before its write
   transaction and not in it. A process that binds a working profile in
   between gets a replicated operation in its working space.
2. `store_verify`: `verifyReplay` reads operations and rows in separate
   statements without a read transaction. A commit in between makes it report
   damage to rows that are sound.
3. `semantic_upgrade`: a bootstrap verifies version 1 in calls of their own and
   then sends the batch that starts the transition, which has no condition on
   the schema. Delayed past another bootstrap that finished the upgrade, it
   succeeds on the version 2 tables, drops what was staged since and rebuilds
   the purge receipts from their instants: their counts are gone, where the
   specification returns a first execution's counts unchanged. No tombstone is
   lost: `TombstonesSurvive` holds.

The findings about the store let no log diverge and lose no operation: all that
`store` checks holds in the instances that reach them. The finding about the
cache leaves only the tombstones intact. Checked in the instance of
`semantic_upgrade`, every other property of `semantic_cache` is violated as well:
receipts change (`ReceiptsPermanent`), reported content is gone (`ReportsStand`), a
publisher may be told once more that it moved the head (`OnePublisher`), a publish
under way calls the cache broken (`NoFalseAlarm`), and while a tombstone waits to be
copied again, an authority that was purged may be staged to (`CacheSound`). All
have the one cause, so one run shows it.

### Observations without a run

- A retried push whose first batch executes after the retry's head query is
  refused with the client's constraint error although the remote holds exactly
  its operations (`sync-libsql-program.ts:128-163`); `spec/v1/sync.md:139` calls
  a retried push idempotent. A push that another writer overtakes between its
  head query and its batch ends the same way. The next call succeeds.
- A libSQL commit that landed and lost its reply is rejected as a conflict when
  another commit lands between the head read and the proof
  (`libsql-program.ts:1242`), where `docs/libsql-runtime.md:97-99` promises the
  landed operation. A caller who retries the identifier is answered.
- The check of the transition schema that ends a page of the upgrade
  (`libsql-semantic-v2-program.ts:214`) refuses with `integrity` when another
  bootstrap has finished the upgrade meanwhile; `docs/hosted-semantic-runtime.md`
  (lines 144-152) describes competing bootstraps as converging. Opening again
  succeeds.
- Two stages of different content under one number, when concurrent, leave the
  loser with `integrity` and not with the conflict a later stage is given; a
  stage, publish or search that a purge overtakes may report `integrity` too.
  `NoFalseAlarm` of `OhSemanticCache` allows exactly these.

- `buildProjectionResult` reserves the bytes of rows and proof nodes, but not the
  commas between them (`projection.ts:1281-1302`). With up to 65,536 rows and
  65,536 nodes the commas and the frame of a result may exceed the slack of 64
  KiB that is left for them, and an evaluation that has cut its rows to fit then
  throws a `RangeError` (lines 1325-1327), where `spec/v1/projection.md:95-98`
  says that the result-byte limit returns a canonical prefix. `FinishFails` is
  this outcome, reached in `projection`; `SlackSuffices` says when it cannot
  happen.

## Plan

Done, in this order: `OhHistory`, `OhGraph`, `OhStore` with its proofs, `OhLog`,
`OhSync` with its proofs, `OhReplication`, `OhLibSqlStore`, `OhLibSqlOwner` and
their proofs,
`OhMemoryAuthority` with its proofs, `OhMemoryAgent` with its proofs,
`OhSemanticUpgrade` and `OhSemanticCache` with their proofs, `OhProjection` and
`OhProjectionResult` with their proofs.

1. `OhSyncSetup`: the shared setup attempt of the transport (`ensure`): waiters
   of a failed attempt all see its failure, a later call starts a fresh one.
2. The owner of the semantic runtime (the pattern of `OhLibSqlOwner`); late
   writes to the cache.
3. Record revisions, change-feed paging and dependency closure as operators
   checked against reference definitions; the store port's purge memo; the
   adapter that compares another Datalog engine with this one.

## Not modelled

Canonical encoding, digests, ontology and schema validation are identity of
values here; recall and ranking are numeric scoring over one snapshot; of the
projection, identities, invalidation, the extraction of facts and the adapters
of other engines are left out; the command line, SDK facade,
research vocabularies, Rust crates, snapshots of database files and release
tooling are translation or I/O. Of modelled parts: what a driver loses below
COMMIT; the rows of `updateSyncState` that an older head may overwrite are
advisory, so the models only ask that they are common; the version 1 memory
facade, domain extractors and the byte bounds of a page; version 1 of the
semantic cache beyond its tombstones, and the hosted embedder, an HTTP client;
the order in which two late writes reach the cache. `components` in
`PROJECT.json` lists each part with its reason.

## Running

    tlc -config MCOhStore.cfg MCOhStore
    tlapm OhStoreProofs.tla

and likewise for the other runs of `PROJECT.json` and the other proof modules.
