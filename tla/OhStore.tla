------------------------------- MODULE OhStore -------------------------------
(***************************************************************************)
(* One space of the SQLite store (src/src/sqlite/store.ts), shared by      *)
(* clients that each open their own OhSqliteStore over one database file.  *)
(*                                                                         *)
(* db holds the committed rows of the space.  A write transaction (BEGIN   *)
(* IMMEDIATE ... COMMIT) is a txn: it owns the single write lock and a     *)
(* working copy of the rows, which COMMIT publishes and ROLLBACK or a      *)
(* crash drops.  The one-statement writes, ensureSpace and the purge are   *)
(* single steps guarded by the same lock.                                  *)
(*                                                                         *)
(* A definition named Operator_Fault is a mutated form of Operator: the    *)
(* run that PROJECT.json names with it finds the fault.                    *)
(***************************************************************************)
EXTENDS OhGraph

CONSTANTS Clients,         \* handles over the database, one per process
          Bindings,        \* store bindings hosts may present
          WorkingBindings, \* those whose profile purges and never replicates
          Remotes,         \* remote identifiers of the sync state
          Bundles,         \* replication intervals hosts may import
          Synchronizers,   \* clients that import and record sync state
          Verifiers,       \* clients that run verifyReplay
          MaxSequence,     \* bound on the sequence local commits reach
          None             \* null

Interval == [expectedHead: History, operations: Seq(Operation)]

ASSUME StoreAssumption ==
    /\ WorkingBindings \subseteq Bindings
    /\ Synchronizers \subseteq Clients
    /\ Verifiers \subseteq Clients
    /\ \A bundle \in Bundles : bundle \in Interval
    /\ MaxSequence \in Nat
    /\ None \notin Bindings \cup History

VARIABLES db,       \* the committed rows of the space
          txn,      \* the open write transaction, or None
          handle,   \* handle[c]: whether client c holds an open store
          call,     \* call[c]: what a call of c read before its next step
          bound,    \* bound[c]: the binding c's bind() returned, or None
          request,  \* request[c]: the commit c wants answered; survives a crash
          receipts  \* ghost: every answer a commit ever returned

vars == <<db, txn, handle, call, bound, request, receipts>>

Tables ==
    [space: {"absent", "live", "purged"},  \* oh_spaces and oh_space_purges
     receipt: SUBSET History,              \* oh_space_purges: the prior head
     binding: Bindings \cup {None},        \* oh_space_bindings
     head: History,                        \* oh_spaces: the CAS head
     operations: SUBSET Operation,         \* oh_operations
     records: Snapshot,                    \* oh_records
     writer: [Keys -> History],            \* oh_records.operation_sha256
     revisions: SUBSET (Operation \X Keys),\* oh_operation_records
     dependencies: SUBSET (Keys \X Keys),  \* oh_dependencies
     search: SUBSET (Keys \X Record),      \* oh_search_documents, oh_search_fts
     outbox: SUBSET Operation,             \* oh_sync_outbox
     sync: [Remotes -> History \cup {None}]] \* oh_sync_state

EmptyTables ==
    [space |-> "absent", receipt |-> {}, binding |-> None, head |-> <<>>,
     operations |-> {}, records |-> EmptySnapshot,
     writer |-> [k \in Keys |-> <<>>], revisions |-> {}, dependencies |-> {},
     search |-> {}, outbox |-> {}, sync |-> [r \in Remotes |-> None]]

CommitRequest ==
    [operationId: OperationIds, actorId: Actors, instant: Instants,
     changes: ChangeSets, expectedHead: History]

Receipt == [request: CommitRequest, operation: Operation, fresh: BOOLEAN]

Transaction ==
    [owner: Clients, kind: {"commit", "import"}, tables: Tables,
     todo: Seq(Operation)]

Call ==
    [op: {"bind"}, binding: Bindings]          \* inserted, not yet read back
    \cup [op: {"import"}, bundle: Bundles]     \* profile checked
    \cup [op: {"answer"}, answer: Receipt]     \* committed, not yet returned
    \cup [op: {"verify"}, read: SUBSET Operation] \* operations read, rows not

TypeOK ==
    /\ db \in Tables
    /\ txn \in Transaction \cup {None}
    /\ handle \in [Clients -> BOOLEAN]
    /\ call \in [Clients -> Call \cup {None}]
    /\ bound \in [Clients -> Bindings \cup {None}]
    /\ request \in [Clients -> CommitRequest \cup {None}]
    /\ receipts \subseteq Receipt

Init ==
    /\ db = EmptyTables
    /\ txn = None
    /\ handle = [c \in Clients |-> FALSE]
    /\ call = [c \in Clients |-> None]
    /\ bound = [c \in Clients |-> None]
    /\ request = [c \in Clients |-> None]
    /\ receipts = {}

-----------------------------------------------------------------------------
(* Reads of the committed or working rows.                                 *)

\* assertCurrentHeadAuthority: the operation rows exactly cover the head.
HeadAuthority(t) ==
    /\ Cardinality(t.operations) = Len(t.head)
    /\ \A operation \in t.operations : Len(operation) <= Len(t.head)
    /\ t.head # <<>> => t.head \in t.operations

\* headAt: the reference names the empty head or a stored operation.
HasHead(t, head) == head = <<>> \/ head \in t.operations

\* assertOperationReachable: the rows from the operation to the head chain.
Reachable(t, operation) ==
    /\ Len(operation) <= Len(t.head)
    /\ \A n \in Len(operation)..Len(t.head) : Prefix(t.head, n) \in t.operations
    /\ operation = Prefix(t.head, Len(operation))

WithOperationId(t, id) == {o \in t.operations : BodyOf(o).operationId = id}

-----------------------------------------------------------------------------
(* persist: the statements that write one operation, and the constraints   *)
(* of the schema they run under.                                           *)

\* Dependency rows deleted after the records they name.
ForeignKeysHold_RecordsFirst(t, changes) ==
    LET deleted == DOMAIN changes \ PutKeys(changes)
    IN  /\ \A e \in t.dependencies : e[2] \notin deleted
        /\ \A k \in PutKeys(changes) :
              changes[k].record.dependencies
                  \subseteq Present(Transition(t.records, changes))

ForeignKeysHold(t, changes) ==
    LET deleted == DOMAIN changes \ PutKeys(changes)
        kept == {e \in t.dependencies : e[1] \notin DOMAIN changes}
    IN  /\ \A e \in kept : e[2] \notin deleted
        /\ \A k \in PutKeys(changes) :
              changes[k].record.dependencies
                  \subseteq Present(Transition(t.records, changes))

UniqueKeysHold(t, operation) ==
    \A o \in t.operations :
        /\ Len(o) # Len(operation)
        /\ BodyOf(o).operationId # BodyOf(operation).operationId

\* The schema's constraints and the final UPDATE ... WHERE generation, head.
Persistable(t, operation) ==
    /\ UniqueKeysHold(t, operation)
    /\ ForeignKeysHold(t, BodyOf(operation).changes)
    /\ t.head = Parent(operation)

\* oh_search_documents and oh_search_fts after the changes.
SearchRows(t, changes) ==
    {s \in t.search : s[1] \notin DOMAIN changes}
        \cup {<<k, changes[k].record>> : k \in PutKeys(changes)}

\* oh_dependencies after the changes.
DependencyRows(t, changes) ==
    {e \in t.dependencies : e[1] \notin DOMAIN changes}
        \cup {e \in PutKeys(changes) \X Keys :
                 e[2] \in changes[e[1]].record.dependencies}

Persist(t, operation) ==
    LET changes == BodyOf(operation).changes
        changed == DOMAIN changes
    IN  [t EXCEPT
          !.head = operation,
          !.operations = @ \cup {operation},
          !.records = Transition(@, changes),
          !.writer = [k \in Keys |-> IF k \in PutKeys(changes) THEN operation
                                     ELSE IF k \in changed THEN <<>> ELSE @[k]],
          !.revisions = @ \cup ({operation} \X changed),
          !.dependencies = DependencyRows(t, changes),
          !.search = SearchRows(t, changes),
          !.outbox = @ \cup {operation}]

-----------------------------------------------------------------------------
(* Opening and binding.                                                    *)

\* The constructor: ensureSpace creates the space or finds it; a purged
\* identifier throws and leaves no handle.
Open_IgnoresPurge(c) ==
    /\ ~handle[c]
    /\ txn = None
    /\ db' = [db EXCEPT !.space = "live"]
    /\ handle' = [handle EXCEPT ![c] = TRUE]
    /\ UNCHANGED <<txn, call, bound, request, receipts>>

Open(c) ==
    /\ ~handle[c]
    /\ txn = None
    /\ db.space # "purged"
    /\ db' = [db EXCEPT !.space = "live"]
    /\ handle' = [handle EXCEPT ![c] = TRUE]
    /\ UNCHANGED <<txn, call, bound, request, receipts>>

\* bind, first statement: INSERT ... ON CONFLICT DO NOTHING.  A space row that
\* is gone fails the foreign key.
BindInsert(c, binding) ==
    /\ handle[c] /\ call[c] = None /\ txn = None
    /\ db.space = "live"
    /\ db' = [db EXCEPT !.binding = IF @ = None THEN binding ELSE @]
    /\ call' = [call EXCEPT ![c] = [op |-> "bind", binding |-> binding]]
    /\ UNCHANGED <<txn, handle, bound, request, receipts>>

\* bind, second statement: the persisted row must be the exact binding.
BindCheck(c) ==
    /\ call[c] # None /\ call[c].op = "bind"
    /\ bound' = [bound EXCEPT ![c] = IF db.binding = call[c].binding
                                     THEN call[c].binding ELSE @]
    /\ call' = [call EXCEPT ![c] = None]
    /\ UNCHANGED <<db, txn, handle, request, receipts>>

-----------------------------------------------------------------------------
(* commit.                                                                 *)

\* A caller reviews the head and decides what to commit on top of it.
Submit(c, id, actor, instant, changes) ==
    /\ handle[c] /\ call[c] = None /\ request[c] = None
    /\ db.space = "live"
    /\ Len(db.head) < MaxSequence
    /\ request' = [request EXCEPT ![c] =
          [operationId |-> id, actorId |-> actor, instant |-> instant,
           changes |-> changes, expectedHead |-> db.head]]
    /\ UNCHANGED <<db, txn, handle, call, bound, receipts>>

InCommit(c) ==
    /\ handle[c] /\ call[c] = None /\ request[c] # None
    /\ txn = None

Operable(t) == t.space = "live" /\ HeadAuthority(t)

SameContent_ActorOnly(operation, r) == BodyOf(operation).actorId = r.actorId

SameContent(operation, r) ==
    /\ BodyOf(operation).actorId = r.actorId
    /\ BodyOf(operation).changes = r.changes

\* The identifier is already bound to the same content: return that operation.
Replayable(t, r, operation) ==
    /\ Operable(t)
    /\ operation \in WithOperationId(t, r.operationId)
    /\ Reachable(t, operation)
    /\ SameContent(operation, r)

Appendable_AnyHead(t, r) ==
    /\ Operable(t)
    /\ WithOperationId(t, r.operationId) = {}
    /\ Accepts(t.records, r.changes)

Appendable(t, r) ==
    /\ Operable(t)
    /\ WithOperationId(t, r.operationId) = {}
    /\ t.head = r.expectedHead
    /\ Accepts(t.records, r.changes)

NewOperation(t, r) ==
    Append(t.head, [operationId |-> r.operationId, actorId |-> r.actorId,
                    instant |-> r.instant, changes |-> r.changes,
                    records |-> Transition(t.records, r.changes)])

CommitReplay(c) ==
    /\ InCommit(c)
    /\ \E operation \in db.operations :
          /\ Replayable(db, request[c], operation)
          /\ call' = [call EXCEPT ![c] =
                [op |-> "answer",
                 answer |-> [request |-> request[c], operation |-> operation,
                             fresh |-> FALSE]]]
    /\ UNCHANGED <<db, txn, handle, bound, request, receipts>>

CommitAppend(c) ==
    /\ InCommit(c)
    /\ Appendable(db, request[c])
    /\ Persistable(db, NewOperation(db, request[c]))
    /\ txn' = [owner |-> c, kind |-> "commit", todo |-> <<>>,
               tables |-> Persist(db, NewOperation(db, request[c]))]
    /\ UNCHANGED <<db, handle, call, bound, request, receipts>>

\* Every thrown error rolls back; the caller must review the head again.
CommitRefused(c) ==
    /\ InCommit(c)
    /\ ~\E operation \in db.operations : Replayable(db, request[c], operation)
    /\ ~(/\ Appendable(db, request[c])
         /\ Persistable(db, NewOperation(db, request[c])))
    /\ request' = [request EXCEPT ![c] = None]
    /\ UNCHANGED <<db, txn, handle, call, bound, receipts>>

\* COMMIT.  The answer exists from here on, whether or not the caller lives to
\* see it.
PublishCommit(c) ==
    /\ txn # None /\ txn.owner = c /\ txn.kind = "commit"
    /\ db' = txn.tables
    /\ txn' = None
    /\ call' = [call EXCEPT ![c] =
          [op |-> "answer",
           answer |-> [request |-> request[c], operation |-> txn.tables.head,
                       fresh |-> TRUE]]]
    /\ UNCHANGED <<handle, bound, request, receipts>>

Answer(c) ==
    /\ call[c] # None /\ call[c].op = "answer"
    /\ receipts' = receipts \cup {call[c].answer}
    /\ request' = [request EXCEPT ![c] = None]
    /\ call' = [call EXCEPT ![c] = None]
    /\ UNCHANGED <<db, txn, handle, bound>>

-----------------------------------------------------------------------------
(* importOperations.                                                       *)

Replicates(binding) == binding = None \/ binding \notin WorkingBindings

\* The supplied operations extend the expected head in order.
Chains(bundle) ==
    LET ops == bundle.operations
    IN  \A n \in 1..Len(ops) :
            Parent(ops[n]) = IF n = 1 THEN bundle.expectedHead ELSE ops[n - 1]

\* The checks made before the transaction opens.
ImportCheck(c, bundle) ==
    /\ c \in Synchronizers
    /\ handle[c] /\ call[c] = None
    /\ ~(txn # None /\ txn.owner = c)
    /\ Replicates(db.binding)
    /\ Chains(bundle)
    /\ call' = [call EXCEPT ![c] = [op |-> "import", bundle |-> bundle]]
    /\ UNCHANGED <<db, txn, handle, bound, request, receipts>>

ImportStarts(t, bundle) ==
    /\ Operable(t)
    /\ t.head = bundle.expectedHead
    /\ bundle.operations # <<>>

\* Every supplied operation is already on the current authority chain.
AlreadyPresent_AtHeadOnly(t, bundle) ==
    /\ Operable(t)
    /\ HasHead(t, bundle.expectedHead)
    /\ bundle.operations # <<>>
    /\ t.head = bundle.operations[Len(bundle.operations)]

AlreadyPresent(t, bundle) ==
    /\ Operable(t)
    /\ HasHead(t, bundle.expectedHead)
    /\ IF t.head = bundle.expectedHead
       THEN bundle.operations = <<>>
       ELSE LET ops == bundle.operations
            IN  /\ ops # <<>>
                /\ Len(t.head) >= Len(ops[Len(ops)])
                /\ \A n \in 1..Len(ops) : ops[n] \in t.operations
                /\ Reachable(t, ops[Len(ops)])

InImport(c) == call[c] # None /\ call[c].op = "import" /\ txn = None

ImportBegin(c) ==
    /\ InImport(c)
    /\ ImportStarts(db, call[c].bundle)
    /\ txn' = [owner |-> c, kind |-> "import", tables |-> db,
               todo |-> call[c].bundle.operations]
    /\ UNCHANGED <<db, handle, call, bound, request, receipts>>

\* Answered without a write: already present, or refused as divergent.
ImportReturn(c) ==
    /\ InImport(c)
    /\ ~ImportStarts(db, call[c].bundle)
    /\ call' = [call EXCEPT ![c] = None]
    /\ UNCHANGED <<db, txn, handle, bound, request, receipts>>

Importing(c) == txn # None /\ txn.owner = c /\ txn.kind = "import"

\* One imported operation must reproduce the snapshot it declares.
Importable_TrustsDeclaredRecords(t, operation) ==
    /\ WithOperationId(t, BodyOf(operation).operationId) = {}
    /\ Accepts(t.records, BodyOf(operation).changes)
    /\ Persistable(t, operation)

Importable(t, operation) ==
    LET body == BodyOf(operation)
    IN  /\ WithOperationId(t, body.operationId) = {}
        /\ Accepts(t.records, body.changes)
        /\ body.records = Transition(t.records, body.changes)
        /\ Persistable(t, operation)

ImportNext(c) ==
    /\ Importing(c) /\ txn.todo # <<>>
    /\ Importable(txn.tables, Head(txn.todo))
    /\ txn' = [txn EXCEPT !.tables = Persist(@, Head(txn.todo)),
                          !.todo = Tail(@)]
    /\ UNCHANGED <<db, handle, call, bound, request, receipts>>

ImportRollback_KeepsPrefix(c) ==
    /\ Importing(c) /\ txn.todo # <<>>
    /\ ~Importable(txn.tables, Head(txn.todo))
    /\ db' = txn.tables
    /\ txn' = None
    /\ call' = [call EXCEPT ![c] = None]
    /\ UNCHANGED <<handle, bound, request, receipts>>

ImportRollback(c) ==
    /\ Importing(c) /\ txn.todo # <<>>
    /\ ~Importable(txn.tables, Head(txn.todo))
    /\ txn' = None
    /\ call' = [call EXCEPT ![c] = None]
    /\ UNCHANGED <<db, handle, bound, request, receipts>>

PublishImport(c) ==
    /\ Importing(c) /\ txn.todo = <<>>
    /\ db' = txn.tables
    /\ txn' = None
    /\ call' = [call EXCEPT ![c] = None]
    /\ UNCHANGED <<handle, bound, request, receipts>>

-----------------------------------------------------------------------------
(* verifyReplay: one statement reads the operations, later ones the rows     *)
(* and the head they are compared with; no transaction spans them.         *)

VerifyRead(c) ==
    /\ c \in Verifiers
    /\ handle[c] /\ call[c] = None
    /\ ~(txn # None /\ txn.owner = c)
    /\ db.space = "live"
    /\ call' = [call EXCEPT ![c] = [op |-> "verify", read |-> db.operations]]
    /\ UNCHANGED <<db, txn, handle, bound, request, receipts>>

\* The comparison passes or throws; either way the call ends.
VerifyCompare(c) ==
    /\ call[c] # None /\ call[c].op = "verify"
    /\ call' = [call EXCEPT ![c] = None]
    /\ UNCHANGED <<db, txn, handle, bound, request, receipts>>

-----------------------------------------------------------------------------
(* updateSyncState, purgeWorkingSpace, close and a process that dies.      *)

\* The synchronizer records a head it confirmed on both sides; another sync of
\* the same remote may have recorded a later one meanwhile.
UpdateSyncState(c, remote) ==
    /\ c \in Synchronizers
    /\ handle[c] /\ call[c] = None /\ txn = None
    /\ db.space = "live"
    /\ \E head \in db.operations \cup {<<>>} :
          db' = [db EXCEPT !.sync[remote] = head]
    /\ UNCHANGED <<txn, handle, call, bound, request, receipts>>

PurgeWorkingSpace_NoReceipt(c, binding) ==
    /\ handle[c] /\ call[c] = None /\ txn = None
    /\ binding \in WorkingBindings
    /\ db.binding = binding
    /\ db' = [EmptyTables EXCEPT !.space = "purged"]
    /\ UNCHANGED <<txn, handle, call, bound, request, receipts>>

PurgeWorkingSpace(c, binding) ==
    /\ handle[c] /\ call[c] = None /\ txn = None
    /\ binding \in WorkingBindings
    /\ db.binding = binding
    /\ db' = [EmptyTables EXCEPT !.space = "purged", !.receipt = {db.head}]
    /\ UNCHANGED <<txn, handle, call, bound, request, receipts>>

Close(c) ==
    /\ handle[c] /\ call[c] = None
    /\ ~(txn # None /\ txn.owner = c)
    /\ handle' = [handle EXCEPT ![c] = FALSE]
    /\ bound' = [bound EXCEPT ![c] = None]
    /\ UNCHANGED <<db, txn, call, request, receipts>>

\* The process dies between any two steps: SQLite rolls its transaction back.
Crash(c) ==
    /\ handle[c]
    /\ handle' = [handle EXCEPT ![c] = FALSE]
    /\ bound' = [bound EXCEPT ![c] = None]
    /\ call' = [call EXCEPT ![c] = None]
    /\ txn' = IF txn # None /\ txn.owner = c THEN None ELSE txn
    /\ UNCHANGED <<db, request, receipts>>

Next ==
    \E c \in Clients :
        \/ Open(c)
        \/ \E binding \in Bindings : BindInsert(c, binding)
        \/ BindCheck(c)
        \/ \E id \in OperationIds, actor \in Actors, instant \in Instants,
              changes \in ChangeSets : Submit(c, id, actor, instant, changes)
        \/ CommitReplay(c)
        \/ CommitAppend(c)
        \/ CommitRefused(c)
        \/ PublishCommit(c)
        \/ Answer(c)
        \/ \E bundle \in Bundles : ImportCheck(c, bundle)
        \/ ImportBegin(c)
        \/ ImportReturn(c)
        \/ ImportNext(c)
        \/ ImportRollback(c)
        \/ PublishImport(c)
        \/ VerifyRead(c)
        \/ VerifyCompare(c)
        \/ \E remote \in Remotes : UpdateSyncState(c, remote)
        \/ \E binding \in Bindings : PurgeWorkingSpace(c, binding)
        \/ Close(c)
        \/ Crash(c)

Spec == Init /\ [][Next]_vars

-----------------------------------------------------------------------------
(* Properties.  The parts of Verified are what verifyReplay compares.      *)

OneChain(t) == t.operations = ChainOf(t.head)

RecordsMatchReplay(t) == t.records = RecordsAt(t.head, Len(t.head))

WriterMatchesReplay(t) ==
    \A k \in Keys :
        IF t.records[k] = NoRecord THEN t.writer[k] = <<>>
        ELSE /\ t.writer[k] \in t.operations
             /\ k \in PutKeys(BodyOf(t.writer[k]).changes)
             /\ BodyOf(t.writer[k]).changes[k].record = t.records[k]
             /\ \A o \in t.operations :
                   Len(o) > Len(t.writer[k]) => k \notin DOMAIN BodyOf(o).changes

DependenciesMatchReplay(t) ==
    t.dependencies = {e \in Present(t.records) \X Keys :
                         e[2] \in t.records[e[1]].dependencies}

SearchMatchesReplay(t) ==
    t.search = {<<k, t.records[k]>> : k \in Present(t.records)}

RevisionsMatchReplay(t) ==
    t.revisions = {r \in t.operations \X Keys : r[2] \in DOMAIN BodyOf(r[1]).changes}

\* The rows replay to themselves: what verifyReplay accepts, and the outbox
\* holds every operation.
Verified(t) ==
    /\ OneChain(t)
    /\ ValidHistory(t.head)
    /\ RecordsMatchReplay(t)
    /\ WriterMatchesReplay(t)
    /\ DependenciesMatchReplay(t)
    /\ SearchMatchesReplay(t)
    /\ RevisionsMatchReplay(t)
    /\ t.outbox = t.operations

\* Whatever commits, imports, crashes and purges interleave, verifyReplay
\* passes on the committed rows, and on the rows of a transaction under way:
\* no table ever lags behind or runs ahead of the operation chain.
RowsVerify == Verified(db) /\ (txn # None => Verified(txn.tables))

\* The schema's foreign keys, unique keys and the final compare-and-swap never
\* fail an operation the code's own checks accepted: in the order persist
\* issues its statements, every constraint holds.
ConstraintsNeverTrip ==
    /\ \A c \in Clients :
          InCommit(c) /\ Appendable(db, request[c])
              => Persistable(db, NewOperation(db, request[c]))
    /\ txn # None /\ txn.todo # <<>> =>
          LET operation == Head(txn.todo)
              body == BodyOf(operation)
          IN  /\ WithOperationId(txn.tables, body.operationId) = {}
              /\ Accepts(txn.tables.records, body.changes)
              => Persistable(txn.tables, operation)

\* Every answer a commit produced: returned, or on its way to the caller.
Answers ==
    receipts \cup {call[c].answer :
                     c \in {d \in Clients : call[d] # None /\ call[d].op = "answer"}}

\* An answer is durable: while the space lives, every operation a commit
\* answered with is on the authority chain and carries exactly the identifier,
\* actor and changes the caller asked for, also when the answer came from a
\* retry after a crash or from an operation another replica imported.
AnswersStand ==
    db.space = "live" =>
        \A r \in Answers :
            /\ r.operation \in db.operations
            /\ BodyOf(r.operation).operationId = r.request.operationId
            /\ BodyOf(r.operation).actorId = r.request.actorId
            /\ BodyOf(r.operation).changes = r.request.changes

\* An operation identifier is answered with one operation for ever, however
\* often and by whomever it is retried.
AnsweredOnce ==
    \A r, s \in Answers :
        r.request.operationId = s.request.operationId => r.operation = s.operation

\* Of all commits reviewed against one head, at most one is appended: nobody's
\* operation silently lands on a head its author did not review.
OneWinnerPerHead ==
    \A r, s \in Answers :
        r.fresh /\ s.fresh /\ r.request.expectedHead = s.request.expectedHead
            => r.operation = s.operation

\* Two clients whose bind() succeeded hold the same binding, although bind
\* inserts and reads back in two separate statements.
BindingsAgree ==
    \A c, d \in Clients :
        bound[c] # None /\ bound[d] # None => bound[c] = bound[d]

\* Once purged, no open handle, half-done call or reopening writes a row again.
PurgeIsFinal == [][db.space = "purged" => db' = db]_vars

\* An import publishes its whole interval or nothing: the head it publishes is
\* the last operation the host supplied.
ImportAllOrNothing ==
    [][\A c \in Clients :
          Importing(c) /\ db' # db =>
              LET ops == call[c].bundle.operations IN db'.head = ops[Len(ops)]]_vars

\* An exact bundle whose operations are on the local chain is recognised as an
\* idempotent replay, whatever was committed after it.
ExactReplayRecognised ==
    \A bundle \in Bundles :
        LET ops == bundle.operations
        IN  /\ db.space = "live" /\ Chains(bundle)
            /\ ops # <<>> /\ ops[Len(ops)] \in db.operations
            => AlreadyPresent(db, bundle)

\* The rows implement the abstract append-only log.
Log == INSTANCE OhLog WITH phase <- db.space, history <- db.head,
                           receipt <- db.receipt
ImplementsLog == Log!LogSpec

-----------------------------------------------------------------------------
(* The inductive invariant behind the safety properties.                   *)

\* How far an import has come: the number of operations it has persisted.
Done(bundle) == Len(bundle.operations) - Len(txn.todo)

\* The open transaction belongs to a call still under way and its working rows
\* extend the committed ones by exactly what that call has written so far.
TransactionExtends ==
    txn # None =>
        LET c == txn.owner
            t == txn.tables
        IN  /\ db.space = "live"
            /\ t.space = db.space /\ t.binding = db.binding
            /\ t.receipt = db.receipt
            /\ IsPrefixOf(db.head, t.head)
            /\ db.operations \subseteq t.operations
            /\ txn.kind = "commit" =>
                  /\ call[c] = None /\ request[c] # None /\ txn.todo = <<>>
                  /\ db.head = request[c].expectedHead
                  /\ t.head = NewOperation(db, request[c])
            /\ txn.kind = "import" =>
                  /\ call[c] # None /\ call[c].op = "import"
                  /\ LET bundle == call[c].bundle
                         ops == bundle.operations
                     IN  /\ ops # <<>> /\ db.head = bundle.expectedHead
                         /\ Done(bundle) \in 0..Len(ops)
                         /\ \A n \in 1..Len(txn.todo) :
                               txn.todo[n] = ops[Done(bundle) + n]
                         /\ t.head = IF Done(bundle) = 0 THEN bundle.expectedHead
                                     ELSE ops[Done(bundle)]

\* An import under way has had its chain checked.
ImportsChecked ==
    \A c \in Clients :
        call[c] # None /\ call[c].op = "import" => Chains(call[c].bundle)

\* Every answer is of a space that exists; a fresh one followed the head its
\* author reviewed.
AnswersGrounded ==
    \A r \in Answers :
        /\ db.space # "absent"
        /\ r.fresh => Parent(r.operation) = r.request.expectedHead

\* A handle's binding is the database's while the space lives.
BindingsHeld ==
    /\ db.binding # None => db.space = "live"
    /\ \A c \in Clients :
          bound[c] # None => db.space = "purged" \/ db.binding = bound[c]

\* The strengthening that every step of the store preserves: rows, transaction,
\* answers and bindings are consistent with one another at all times.
StoreInvariant ==
    /\ TypeOK
    /\ RowsVerify
    /\ TransactionExtends
    /\ ImportsChecked
    /\ AnswersStand /\ AnsweredOnce /\ OneWinnerPerHead /\ AnswersGrounded
    /\ BindingsAgree /\ BindingsHeld

\* Rows, transaction, answers and bindings are consistent with one another, and
\* no constraint of the schema stops an operation the code accepted.
StoreSound == StoreInvariant /\ ConstraintsNeverTrip

-----------------------------------------------------------------------------
(* Claims of the documentation and of an assertion the code does not keep. *)

\* "A working profile disables operation replication" (storage.md): no import
\* publishes into a space that is bound to a working profile.
NoImportIntoWorkingSpace ==
    [][\A c \in Clients :
          Importing(c) /\ db' # db => Replicates(db.binding)]_vars

\* "The stored head does not match operation replay" (verifyReplay's last
\* check) is said only of rows that do not replay: the operations a
\* verification has read still end at the head of consistent rows.
VerificationSound ==
    \A c \in Clients :
        call[c] # None /\ call[c].op = "verify" /\ db.space = "live" /\ Verified(db)
            => call[c].read = db.operations
=============================================================================
