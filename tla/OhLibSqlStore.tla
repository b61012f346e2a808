---------------------------- MODULE OhLibSqlStore ----------------------------
(***************************************************************************)
(* One space of the direct libSQL store (src/src/libsql-program.ts): the   *)
(* rows live in a remote database, and every method is a workflow of       *)
(* requests, each a single read or one batch that is a transaction.        *)
(*                                                                         *)
(* A write batch is sent, executes at the database at most once, and its   *)
(* reply may be lost: before or after it executed.  A batch whose sender   *)
(* stopped waiting stays in late and may still execute.  Between two       *)
(* requests of a workflow anything else may happen.                        *)
(*                                                                         *)
(* A caller either calls an opened authority (AuthorityOf), whose owner    *)
(* admits and drains its calls, or is a purge worker that opens nothing.   *)
(* A definition named Operator_Fault is a mutated form of Operator.        *)
(***************************************************************************)
EXTENDS OhGraph, OhLibSqlOwner

CONSTANTS Callers,         \* concurrent calls
          Workers,         \* callers of purgeOhLibSqlWorkingSpaceV1
          AuthorityOf,     \* the authority each other caller uses
          Bindings,        \* store bindings hosts may present
          WorkingBindings, \* those whose profile may be purged
          PurgeInstants,   \* instants a purge may be given
          PurgeAttempts,   \* attempts of a purge: 3 in the code
          Crashing,        \* bound on crashes: the authorities that may die
          MaxSequence,     \* bound on the sequence commits reach
          MaxLate,         \* bound on the write batches nobody waits for
          None             \* null

ASSUME LibSqlAssumption ==
    /\ IsFiniteSet(Callers)
    /\ Workers \subseteq Callers
    /\ AuthorityOf \in [Callers \ Workers -> Authorities]
    /\ WorkingBindings \subseteq Bindings
    /\ PurgeAttempts \in Nat \ {0}
    /\ Crashing \subseteq Authorities
    /\ MaxSequence \in Nat /\ MaxLate \in Nat

VARIABLES rows,     \* the rows of the space
          late,     \* write batches nobody waits for that may still execute
          handle,   \* handle[a]: the store program of authority a, or None
          call,     \* call[c]: what c's workflow holds between two requests
          request,  \* request[c]: the commit c wants answered; survives it
          answers,  \* ghost: every answer of a commit
          receipts  \* ghost: every receipt a purge returned

storeVars == <<rows, late, handle, call, request, answers, receipts>>
vars == <<storeVars, ownerVars>>

PurgeReceipt == [binding: Bindings, priorHead: History, purgedAt: PurgeInstants]

Rows ==
    [live: BOOLEAN,                         \* oh_authority_spaces
     head: History,                         \* its compare-and-swap head
     binding: Bindings \cup {None},         \* oh_authority_bindings
     operations: SUBSET Operation,          \* oh_authority_operations
     records: Snapshot,                     \* oh_authority_records
     writer: [Keys -> History],             \* their operation_sha256
     revisions: SUBSET (Operation \X Keys), \* oh_authority_operation_records
     dependencies: SUBSET (Keys \X Keys),   \* oh_authority_dependencies
     purge: PurgeReceipt \cup {None}]       \* oh_authority_purges

EmptyRows ==
    [live |-> FALSE, head |-> <<>>, binding |-> None, operations |-> {},
     records |-> EmptySnapshot, writer |-> [k \in Keys |-> <<>>],
     revisions |-> {}, dependencies |-> {}, purge |-> None]

CommitRequest ==
    [operationId: OperationIds, actorId: Actors, changes: ChangeSets,
     expectedHead: History]

Answer == [request: CommitRequest, operation: Operation, fresh: BOOLEAN]

Batch ==
    [kind: {"create"}, binding: Bindings]
    \cup [kind: {"commit"}, operation: Operation]
    \cup [kind: {"purge", "fence"}, receipt: PurgeReceipt]

Outcome ==
    {"ok", "conflict", "purged", "profile", "absent", "integrity", "refused",
     "error"}

Call ==
    [op: {"sent"}, batch: Batch, attempt: 0..PurgeAttempts,
     reply: {"waiting", "done", "failed"}]
    \cup [op: {"prove"}, operation: Operation, head: History, recovering: BOOLEAN]
    \cup [op: {"snapshot", "verify", "verifyRows"}, head: History]
    \cup [op: {"raced"}, operation: Operation, found: Operation \cup {None}]
    \cup [op: {"purgeRead", "purgeHead", "fenceRead"}, binding: Bindings,
          at: PurgeInstants, attempt: 1..PurgeAttempts]
    \cup [op: {"check"}, receipt: PurgeReceipt]
    \cup [op: {"end"}, outcome: Outcome]

\* The private fields of a LibSqlStoreProgram: its binding, and its memos
\* #purged and #hostPurge.
Program ==
    [binding: Bindings, purged: PurgeReceipt \cup {None},
     hostPurge: PurgeReceipt \cup {None}]

\* null is no value of the code.
ASSUME NoneAssumption == None \notin Bindings \cup PurgeReceipt \cup Program \cup Call

TypeOK ==
    /\ OwnerTypeOK
    /\ rows \in Rows
    /\ late \subseteq Batch
    /\ handle \in [Authorities -> Program \cup {None}]
    /\ call \in [Callers -> Call \cup {None}]
    /\ request \in [Callers -> CommitRequest \cup {None}]
    /\ answers \subseteq Answer
    /\ receipts \subseteq PurgeReceipt

Init ==
    /\ OwnerInit
    /\ rows = EmptyRows
    /\ late = {}
    /\ handle = [a \in Authorities |-> None]
    /\ call = [c \in Callers |-> None]
    /\ request = [c \in Callers |-> None]
    /\ answers = {}
    /\ receipts = {}

Users == Callers \ Workers

UsersOf(a) == {c \in Users : AuthorityOf[c] = a}

ProgramOf(c) == handle[AuthorityOf[c]]

At(c, op) == call[c] # None /\ call[c].op = op

-----------------------------------------------------------------------------
(* What the write batches do when they execute.                            *)

WithOperationId(id) == {o \in rows.operations : BodyOf(o).operationId = id}

PersistRows_KeepsDependencies(operation) ==
    LET changes == BodyOf(operation).changes
        changed == DOMAIN changes
        puts == PutKeys(changes)
    IN  [rows EXCEPT
          !.head = operation,
          !.operations = @ \cup {operation},
          !.records = Transition(@, changes),
          !.writer = [k \in Keys |-> IF k \in puts THEN operation
                                     ELSE IF k \in changed THEN <<>> ELSE @[k]],
          !.revisions = @ \cup ({operation} \X changed),
          !.dependencies =
              @ \cup {e \in puts \X Keys : e[2] \in changes[e[1]].record.dependencies}]

\* The statements of a commit's batch once its operation row is inserted.
PersistRows(operation) ==
    LET changes == BodyOf(operation).changes
        changed == DOMAIN changes
        puts == PutKeys(changes)
    IN  [rows EXCEPT
          !.head = operation,
          !.operations = @ \cup {operation},
          !.records = Transition(@, changes),
          !.writer = [k \in Keys |-> IF k \in puts THEN operation
                                     ELSE IF k \in changed THEN <<>> ELSE @[k]],
          !.revisions = @ \cup ({operation} \X changed),
          !.dependencies =
              {e \in @ : e[1] \notin changed}
              \cup {e \in puts \X Keys : e[2] \in changes[e[1]].record.dependencies}]

\* The operation is inserted only under the head it was built on, and the
\* guard at the end aborts the batch unless the head is then the operation.
CommitApplies_AnyHead(operation) ==
    rows.live /\ WithOperationId(BodyOf(operation).operationId) = {}

CommitApplies(operation) ==
    /\ rows.live
    /\ rows.head = Parent(operation)
    /\ \A o \in rows.operations :
          Len(o) # Len(operation)
          /\ BodyOf(o).operationId # BodyOf(operation).operationId

\* The space and its binding are inserted unless the space was purged; the
\* guard wants both, with this binding.
CreateApplies_IgnoresPurge(binding) == rows.binding \in {None, binding}

CreateApplies(binding) ==
    rows.purge = None /\ rows.binding \in {None, binding}

\* The receipt is inserted only for the head and binding it names.
PurgeApplies_AnyHead(receipt) ==
    rows.live /\ rows.purge = None /\ rows.binding = receipt.binding

PurgeApplies(receipt) ==
    /\ rows.live /\ rows.purge = None
    /\ rows.head = receipt.priorHead
    /\ rows.binding = receipt.binding

\* The empty-head receipt is inserted only where nothing was created; on
\* conflict with a receipt nothing is inserted and the guard compares it.
FenceApplies_Replaces(receipt) == ~rows.live /\ rows.binding = None

FenceApplies(receipt) ==
    /\ ~rows.live /\ rows.binding = None
    /\ rows.operations = {} /\ rows.revisions = {}
    /\ Present(rows.records) = {} /\ rows.dependencies = {}
    /\ rows.purge \in {None, receipt}

Applies(batch) ==
    CASE batch.kind = "create" -> CreateApplies(batch.binding)
      [] batch.kind = "commit" -> CommitApplies(batch.operation)
      [] batch.kind = "purge" -> PurgeApplies(batch.receipt)
      [] batch.kind = "fence" -> FenceApplies(batch.receipt)

Effect(batch) ==
    CASE batch.kind = "create" ->
            [rows EXCEPT !.live = TRUE, !.binding = batch.binding]
      [] batch.kind = "commit" -> PersistRows(batch.operation)
      [] batch.kind \in {"purge", "fence"} ->
            [EmptyRows EXCEPT !.purge = batch.receipt]

Executed(batch) == IF Applies(batch) THEN Effect(batch) ELSE rows

-----------------------------------------------------------------------------
(* Requests in flight.                                                     *)

Hold(c, state) == call' = [call EXCEPT ![c] = state]

End(c, outcome) == Hold(c, [op |-> "end", outcome |-> outcome])

Send(c, batch, attempt) ==
    Hold(c, [op |-> "sent", batch |-> batch, attempt |-> attempt,
             reply |-> "waiting"])

Sent(c, kind) == At(c, "sent") /\ call[c].batch.kind = kind

Replied(c, kind, reply) == Sent(c, kind) /\ call[c].reply = reply

\* The database executes the batch a workflow is waiting for.
Execute(c) ==
    /\ At(c, "sent") /\ call[c].reply = "waiting"
    /\ rows' = Executed(call[c].batch)
    /\ call' = [call EXCEPT ![c].reply =
                   IF Applies(call[c].batch) THEN "done" ELSE "failed"]
    /\ UNCHANGED <<late, handle, request, answers, receipts, ownerVars>>

\* It executes one whose sender has given up.
ExecuteLate(batch) ==
    /\ batch \in late
    /\ rows' = Executed(batch)
    /\ late' = late \ {batch}
    /\ UNCHANGED <<handle, call, request, answers, receipts, ownerVars>>

\* Nobody waits any longer for the batches of these callers.
Abandon(callers) ==
    /\ late' = late \cup {call[c].batch : c \in {d \in callers :
                              At(d, "sent") /\ call[d].reply = "waiting"}}
    /\ Cardinality(late') <= MaxLate

\* The request rejects, whether or not the batch has executed.
LoseReply(c) ==
    /\ At(c, "sent") /\ call[c].reply \in {"waiting", "done"}
    /\ Abandon({c})
    /\ call' = [call EXCEPT ![c].reply = "failed"]
    /\ UNCHANGED <<rows, handle, request, answers, receipts, ownerVars>>

\* A read rejects, those after a failed write included: the workflow ends with
\* the client's error.  Nothing is read while a write is awaited nor after a
\* commit's reply.
FailRead(c) ==
    /\ call[c] # None /\ call[c].op # "end"
    /\ At(c, "sent") => call[c].reply # "waiting" /\ ~Replied(c, "commit", "done")
    /\ End(c, "error")
    /\ UNCHANGED <<rows, late, handle, request, answers, receipts, ownerVars>>

\* A workflow settles: its owner releases it.  The caller of a commit that was
\* not answered may keep the request and try again.
Return(c) ==
    /\ At(c, "end")
    /\ Hold(c, None)
    /\ \/ request' = [request EXCEPT ![c] = None]
       \/ call[c].outcome # "ok" /\ UNCHANGED request
    /\ IF c \in Users /\ ProgramOf(c) # None THEN Release(AuthorityOf[c])
       ELSE UNCHANGED ownerVars
    /\ UNCHANGED <<rows, late, handle, answers, receipts>>

-----------------------------------------------------------------------------
(* A space that is gone.                                                   *)

\* The receipt row parses as the receipt of this binding.
PurgeOf(binding) == rows.purge # None /\ rows.purge.binding = binding

\* A read found no space row and reads the receipt: the program remembers it.
\* The rows a purge deletes never return and its receipt never changes, so
\* where the code reads the receipt by a second request one step stands for both.
Gone(c, binding) ==
    /\ ~rows.live
    /\ End(c, IF PurgeOf(binding) THEN "purged" ELSE "integrity")
    /\ IF c \in Users /\ PurgeOf(binding)
       THEN handle' = [handle EXCEPT ![AuthorityOf[c]].purged = rows.purge]
       ELSE UNCHANGED handle

-----------------------------------------------------------------------------
(* Opening.                                                                *)

Opening(c) ==
    /\ c \in Users /\ ProgramOf(c) = None
    /\ \A d \in UsersOf(AuthorityOf[c]) : call[d] = None

\* initializeSpace: read the receipt, then send the creating batch.
Create(c, binding) ==
    /\ Opening(c)
    /\ IF rows.purge = None
       THEN Send(c, [kind |-> "create", binding |-> binding], 0)
       ELSE End(c, IF PurgeOf(binding) THEN "purged" ELSE "integrity")
    /\ UNCHANGED <<rows, late, handle, request, answers, receipts, ownerVars>>

NewProgram(binding) == [binding |-> binding, purged |-> None, hostPurge |-> None]

Opened(c, binding) ==
    /\ handle' = [handle EXCEPT ![AuthorityOf[c]] = NewProgram(binding)]
    /\ ResetOwner(AuthorityOf[c])
    /\ Hold(c, None)

\* Why an open found no binding of its own: a purge, or another binding.
OpenFailure(binding, otherwise) ==
    CASE rows.purge # None -> IF PurgeOf(binding) THEN "purged" ELSE "integrity"
      [] rows.purge = None /\ rows.binding \notin {None, binding} -> "profile"
      [] OTHER -> otherwise

\* The batch succeeded: the binding is read back.
CreateConfirm(c) ==
    /\ Replied(c, "create", "done")
    /\ LET binding == call[c].batch.binding
       IN  IF rows.binding = binding THEN Opened(c, binding)
           ELSE /\ End(c, OpenFailure(binding, "integrity"))
                /\ UNCHANGED <<handle, ownerVars>>
    /\ UNCHANGED <<rows, late, request, answers, receipts>>

\* It failed: receipt and binding tell why.
CreateFailed(c) ==
    /\ Replied(c, "create", "failed")
    /\ End(c, OpenFailure(call[c].batch.binding, "error"))
    /\ UNCHANGED <<rows, late, handle, request, answers, receipts, ownerVars>>

\* requireExistingSpace: one read batch and no write.  That the space is absent
\* is an OhIntegrityError too, kept apart here.
OpenExisting(c, binding) ==
    /\ Opening(c)
    /\ IF rows.live /\ rows.binding = binding THEN Opened(c, binding)
       ELSE /\ End(c, OpenFailure(binding, "absent"))
            /\ UNCHANGED <<handle, ownerVars>>
    /\ UNCHANGED <<rows, late, request, answers, receipts>>

-----------------------------------------------------------------------------
(* commit.                                                                 *)

Enter(c) ==
    /\ c \in Users /\ ProgramOf(c) # None /\ call[c] = None
    /\ Admit(AuthorityOf[c])

\* A caller reads the head and decides what to commit on top of it.
Submit(c, id, actor, changes) ==
    /\ c \in Users /\ ProgramOf(c) # None /\ call[c] = None
    /\ ~closing[AuthorityOf[c]]
    /\ request[c] = None
    /\ ProgramOf(c).purged = None /\ rows.live
    /\ Len(rows.head) < MaxSequence
    /\ request' = [request EXCEPT ![c] =
          [operationId |-> id, actorId |-> actor, changes |-> changes,
           expectedHead |-> rows.head]]
    /\ UNCHANGED <<rows, late, handle, call, answers, receipts, ownerVars>>

\* assertOpen: the program knows that its space was purged.
CommitClosed(c) ==
    /\ request[c] # None /\ Enter(c)
    /\ ProgramOf(c).purged # None
    /\ End(c, "purged")
    /\ UNCHANGED <<rows, late, handle, request, answers, receipts>>

\* commitPreflight, one read batch, and what commit decides from it.
Preflight(c) ==
    /\ request[c] # None /\ Enter(c)
    /\ ProgramOf(c).purged = None
    /\ \/ Gone(c, ProgramOf(c).binding)
       \/ /\ rows.live
          /\ \E o \in WithOperationId(request[c].operationId) :
                Hold(c, [op |-> "prove", operation |-> o, head |-> rows.head,
                         recovering |-> FALSE])
          /\ UNCHANGED handle
       \/ /\ rows.live
          /\ WithOperationId(request[c].operationId) = {}
          /\ IF rows.head = request[c].expectedHead
             THEN Hold(c, [op |-> "snapshot", head |-> rows.head])
             ELSE End(c, "conflict")
          /\ UNCHANGED handle
    /\ UNCHANGED <<rows, late, request, answers, receipts>>

SameContent(operation, r) ==
    /\ BodyOf(operation).actorId = r.actorId
    /\ BodyOf(operation).changes = r.changes

\* assertOperationReachable: the rows from the operation to the head chain.
Reachable(operation, head) ==
    /\ Len(operation) \in 1..Len(head)
    /\ \A n \in Len(operation)..Len(head) : Prefix(head, n) \in rows.operations
    /\ operation = Prefix(head, Len(operation))

Answered(c, operation, fresh) ==
    /\ answers' = answers \cup {[request |-> request[c], operation |-> operation,
                                 fresh |-> fresh]}
    /\ End(c, "ok")

\* The idempotency proof, one read batch.
Prove(c) ==
    /\ At(c, "prove")
    /\ LET p == call[c]
       IN  \/ /\ Gone(c, ProgramOf(c).binding)
              /\ UNCHANGED answers
           \/ /\ rows.live
              /\ rows.head = p.head
              /\ Reachable(p.operation, p.head)
              /\ p.recovering \/ SameContent(p.operation, request[c])
              /\ Answered(c, p.operation, FALSE)
              /\ UNCHANGED handle
           \/ /\ rows.live
              /\ ~(/\ rows.head = p.head
                   /\ Reachable(p.operation, p.head)
                   /\ p.recovering \/ SameContent(p.operation, request[c]))
              /\ End(c, IF rows.head = p.head /\ ~Reachable(p.operation, p.head)
                        THEN "integrity" ELSE "conflict")
              /\ UNCHANGED <<handle, answers>>
    /\ UNCHANGED <<rows, late, request, receipts, ownerVars>>

\* What currentMaterializedSnapshot demands of the rows: operations cover the head, each
\* record has a put that wrote it, and the dependency rows are the records'.
Materialized ==
    /\ Cardinality(rows.operations) = Len(rows.head)
    /\ rows.head # <<>> => rows.head \in rows.operations
    /\ rows.records = RecordsAt(rows.head, Len(rows.head))
    /\ \A k \in Present(rows.records) :
          /\ rows.writer[k] \in rows.operations
          /\ k \in PutKeys(BodyOf(rows.writer[k]).changes)
          /\ BodyOf(rows.writer[k]).changes[k].record = rows.records[k]
    /\ rows.dependencies = {e \in Present(rows.records) \X Keys :
                               e[2] \in rows.records[e[1]].dependencies}

NewOperation(r, instant) ==
    Append(rows.head,
           [operationId |-> r.operationId, actorId |-> r.actorId,
            instant |-> instant, changes |-> r.changes,
            records |-> Transition(rows.records, r.changes)])

\* currentMaterializedSnapshot, one read batch, then the transition and the
\* guarded write batch.  The clock is read only now.
ReadSnapshot(c) ==
    /\ At(c, "snapshot")
    /\ \/ Gone(c, ProgramOf(c).binding)
       \/ /\ rows.live
          /\ rows.head = call[c].head /\ Materialized
          /\ Accepts(rows.records, request[c].changes)
          /\ \E instant \in Instants :
                Send(c, [kind |-> "commit",
                         operation |-> NewOperation(request[c], instant)], 0)
          /\ UNCHANGED handle
       \/ /\ rows.live
          /\ ~(/\ rows.head = call[c].head /\ Materialized
               /\ Accepts(rows.records, request[c].changes))
          /\ End(c, IF rows.head # call[c].head THEN "conflict"
                    ELSE IF ~Materialized THEN "integrity" ELSE "refused")
          /\ UNCHANGED handle
    /\ UNCHANGED <<rows, late, request, answers, receipts, ownerVars>>

\* The batch returned the inserted operation and the head it became.
Committed(c) ==
    /\ Replied(c, "commit", "done")
    /\ Answered(c, call[c].batch.operation, TRUE)
    /\ UNCHANGED <<rows, late, handle, request, receipts, ownerVars>>

\* The batch rejected: operationById asks whether it took effect.
CommitFailed(c) ==
    /\ Replied(c, "commit", "failed")
    /\ LET operation == call[c].batch.operation
           stored == WithOperationId(BodyOf(operation).operationId)
       IN  \E found \in IF stored = {} THEN {None} ELSE stored :
              Hold(c, [op |-> "raced", operation |-> operation, found |-> found])
    /\ UNCHANGED <<rows, late, handle, request, answers, receipts, ownerVars>>

\* Then the head is read: the operation found is proved, a moved head is a
\* conflict, and an unmoved one leaves the client's error.
RecoverHead_TrustsId(c) ==
    /\ At(c, "raced")
    /\ rows.live
    /\ IF call[c].found # None
       THEN Hold(c, [op |-> "prove", operation |-> call[c].found,
                     head |-> rows.head, recovering |-> TRUE])
       ELSE End(c, IF rows.head # Parent(call[c].operation) THEN "conflict"
                   ELSE "error")
    /\ UNCHANGED <<rows, late, handle, request, answers, receipts, ownerVars>>

RecoverHead(c) ==
    /\ At(c, "raced")
    /\ LET found == call[c].found
       IN  \/ Gone(c, ProgramOf(c).binding)
           \/ /\ rows.live
              /\ IF found # None /\ SameContent(found, request[c])
                 THEN Hold(c, [op |-> "prove", operation |-> found,
                               head |-> rows.head, recovering |-> TRUE])
                 ELSE End(c, IF rows.head # Parent(call[c].operation)
                             THEN "conflict" ELSE "error")
              /\ UNCHANGED handle
    /\ UNCHANGED <<rows, late, request, answers, receipts, ownerVars>>

-----------------------------------------------------------------------------
(* head, snapshot, changesSince and verify.                                *)

EnterIdle(c) == Enter(c) /\ request[c] = None

\* A read of a live space changes nothing; of a purged one, the memo.
Read(c) ==
    /\ EnterIdle(c)
    /\ ProgramOf(c).purged = None
    /\ Gone(c, ProgramOf(c).binding)
    /\ UNCHANGED <<rows, late, request, answers, receipts>>

\* verify reads the head, then the snapshot at that head, then all rows.
Verify(c) ==
    /\ EnterIdle(c)
    /\ ProgramOf(c).purged = None
    /\ rows.live
    /\ Hold(c, [op |-> "verify", head |-> rows.head])
    /\ UNCHANGED <<rows, late, handle, request, answers, receipts>>

VerifySnapshot(c) ==
    /\ At(c, "verify")
    /\ \/ Gone(c, ProgramOf(c).binding)
       \/ /\ rows.live
          /\ IF rows.head = call[c].head /\ Materialized
             THEN Hold(c, [op |-> "verifyRows", head |-> call[c].head])
             ELSE End(c, IF rows.head # call[c].head THEN "conflict"
                         ELSE "integrity")
          /\ UNCHANGED handle
    /\ UNCHANGED <<rows, late, request, answers, receipts, ownerVars>>

OneChain(t) == t.operations = ChainOf(t.head)

RecordsMatchReplay(t) == t.records = RecordsAt(t.head, Len(t.head))

WriterMatchesReplay(t) ==
    \A k \in Keys :
        IF t.records[k] = NoRecord THEN t.writer[k] = <<>>
        ELSE /\ t.writer[k] \in t.operations
             /\ k \in PutKeys(BodyOf(t.writer[k]).changes)
             /\ BodyOf(t.writer[k]).changes[k].record = t.records[k]
             /\ \A o \in t.operations :
                   Len(o) > Len(t.writer[k]) => k \notin DOMAIN BodyOf(o).changes

DependenciesMatchReplay(t) ==
    t.dependencies = {e \in Present(t.records) \X Keys :
                         e[2] \in t.records[e[1]].dependencies}

RevisionsMatchReplay(t) ==
    t.revisions = {r \in t.operations \X Keys : r[2] \in DOMAIN BodyOf(r[1]).changes}

\* The rows replay to themselves: what assertMaterializedSnapshot accepts.
Verified(t) ==
    /\ OneChain(t)
    /\ ValidHistory(t.head)
    /\ RecordsMatchReplay(t)
    /\ WriterMatchesReplay(t)
    /\ DependenciesMatchReplay(t)
    /\ RevisionsMatchReplay(t)

\* assertMaterializedSnapshot, one read batch: the operations up to the head
\* are counted before the head is compared.
VerifyRows(c) ==
    /\ At(c, "verifyRows")
    /\ LET head == call[c].head
           upTo == {o \in rows.operations : Len(o) <= Len(head)}
       IN  End(c, IF Cardinality(upTo) # Len(head) \/ ~rows.live THEN "integrity"
                  ELSE IF rows.head # head THEN "conflict"
                  ELSE IF Verified(rows) THEN "ok" ELSE "integrity")
    /\ UNCHANGED <<rows, late, handle, request, answers, receipts, ownerVars>>

-----------------------------------------------------------------------------
(* purgeWorkingSpace, of a host handle and of a worker.                    *)

PurgeCall(op, binding, at, attempt) ==
    [op |-> op, binding |-> binding, at |-> at, attempt |-> attempt]

\* A receipt was read: check it, if it is of this binding.
FoundReceipt(c, binding) ==
    /\ rows.purge # None
    /\ IF PurgeOf(binding) THEN Hold(c, [op |-> "check", receipt |-> rows.purge])
       ELSE End(c, "integrity")

\* purgeFromHost, up to its first request.
HostPurge(c, at) ==
    /\ EnterIdle(c)
    /\ LET program == ProgramOf(c)
       IN  \/ /\ program.binding \notin WorkingBindings
              /\ End(c, "profile")
              /\ UNCHANGED receipts
           \/ /\ program.binding \in WorkingBindings
              /\ program.hostPurge # None
              /\ End(c, "ok")
              /\ receipts' = receipts \cup {program.hostPurge}
           \/ /\ program.binding \in WorkingBindings
              /\ program.hostPurge = None /\ program.purged # None
              /\ End(c, "purged")
              /\ UNCHANGED receipts
           \/ /\ program.binding \in WorkingBindings
              /\ program.hostPurge = None /\ program.purged = None
              /\ Hold(c, PurgeCall("purgeRead", program.binding, at, 1))
              /\ UNCHANGED receipts
    /\ UNCHANGED <<rows, late, handle, request, answers>>

\* An attempt reads the receipt, ...
ReadPurge(c) ==
    /\ At(c, "purgeRead")
    /\ \/ FoundReceipt(c, call[c].binding)
       \/ /\ rows.purge = None
          /\ Hold(c, [call[c] EXCEPT !.op = "purgeHead"])
    /\ UNCHANGED <<rows, late, handle, request, answers, receipts, ownerVars>>

\* ... then the head, and sends the batch that purges exactly that head.
PurgeHead(c) ==
    /\ At(c, "purgeHead")
    /\ \/ Gone(c, call[c].binding)
       \/ /\ rows.live
          /\ Send(c, [kind |-> "purge",
                      receipt |-> [binding |-> call[c].binding,
                                   priorHead |-> rows.head,
                                   purgedAt |-> call[c].at]], call[c].attempt)
          /\ UNCHANGED handle
    /\ UNCHANGED <<rows, late, request, answers, receipts, ownerVars>>

NextAttempt_Forever(c, op) ==
    LET receipt == call[c].batch.receipt
    IN  Hold(c, PurgeCall(op, receipt.binding, receipt.purgedAt, call[c].attempt))

NextAttempt(c, op) ==
    LET receipt == call[c].batch.receipt
    IN  IF call[c].attempt < PurgeAttempts
        THEN Hold(c, PurgeCall(op, receipt.binding, receipt.purgedAt,
                               call[c].attempt + 1))
        ELSE End(c, "conflict")

\* Whether the batch resolved or rejected, the receipt decides.
PurgeReread(c) ==
    /\ Sent(c, "purge") /\ call[c].reply # "waiting"
    /\ \/ FoundReceipt(c, call[c].batch.receipt.binding)
       \/ rows.purge = None /\ NextAttempt(c, "purgeRead")
    /\ UNCHANGED <<rows, late, handle, request, answers, receipts, ownerVars>>

\* assertRemotePurgeComplete: the receipt again, and no row of the space left.
PurgeComplete(receipt) == rows = [EmptyRows EXCEPT !.purge = receipt]

CheckPurge(c) ==
    /\ At(c, "check")
    /\ LET receipt == call[c].receipt
       IN  IF PurgeComplete(receipt)
           THEN /\ End(c, "ok")
                /\ receipts' = receipts \cup {receipt}
                /\ IF c \in Users
                   THEN handle' = [handle EXCEPT
                                      ![AuthorityOf[c]].purged = receipt,
                                      ![AuthorityOf[c]].hostPurge = receipt]
                   ELSE UNCHANGED handle
           ELSE /\ End(c, "integrity")
                /\ UNCHANGED <<receipts, handle>>
    /\ UNCHANGED <<rows, late, request, answers, ownerVars>>

\* purgeOhLibSqlWorkingSpaceV1, up to its first request.
WorkerPurge(c, binding, at) ==
    /\ c \in Workers /\ call[c] = None
    /\ IF binding \in WorkingBindings
       THEN Hold(c, PurgeCall("fenceRead", binding, at, 1))
       ELSE End(c, "profile")
    /\ UNCHANGED <<rows, late, handle, request, answers, receipts, ownerVars>>

\* One read batch proves the space purged, bound or absent: a bound one is
\* purged as by a host, an absent one is fenced by an empty-head receipt.
FenceRead(c) ==
    /\ At(c, "fenceRead")
    /\ LET p == call[c]
       IN  \/ FoundReceipt(c, p.binding)
           \/ /\ rows.purge = None
              /\ rows.live /\ rows.binding = p.binding
              /\ Hold(c, PurgeCall("purgeRead", p.binding, p.at, 1))
           \/ /\ rows.purge = None
              /\ ~rows.live /\ rows.binding = None
              /\ Send(c, [kind |-> "fence",
                          receipt |-> [binding |-> p.binding, priorHead |-> <<>>,
                                       purgedAt |-> p.at]], p.attempt)
           \/ /\ rows.purge = None
              /\ ~(rows.live /\ rows.binding = p.binding)
              /\ ~(~rows.live /\ rows.binding = None)
              /\ End(c, IF rows.live # (rows.binding # None) THEN "integrity"
                        ELSE "profile")
    /\ UNCHANGED <<rows, late, handle, request, answers, receipts, ownerVars>>

\* The receipt decides again; without one, a space that was created meanwhile
\* or a receipt that is not there yet is another attempt.
FenceReread(c) ==
    /\ Sent(c, "fence") /\ call[c].reply # "waiting"
    /\ \/ FoundReceipt(c, call[c].batch.receipt.binding)
       \/ /\ rows.purge = None
          /\ IF call[c].reply = "done" \/ rows.live \/ rows.binding # None
             THEN NextAttempt(c, "fenceRead")
             ELSE End(c, "error")
    /\ UNCHANGED <<rows, late, handle, request, answers, receipts, ownerVars>>

-----------------------------------------------------------------------------
(* close, and a process that dies.                                         *)

Close(a) ==
    /\ handle[a] # None
    /\ BeginClose(a)
    /\ UNCHANGED storeVars

FinishClose(a) ==
    /\ CloseClient(a)
    /\ handle' = [handle EXCEPT ![a] = None]
    /\ UNCHANGED <<rows, late, call, request, answers, receipts>>

\* The process of an authority dies: its batches may still execute.
Crash(a) ==
    /\ a \in Crashing
    /\ handle[a] # None \/ \E c \in UsersOf(a) : call[c] # None
    /\ Abandon(UsersOf(a))
    /\ call' = [c \in Callers |-> IF c \in UsersOf(a) THEN None ELSE call[c]]
    /\ handle' = [handle EXCEPT ![a] = None]
    /\ ResetOwner(a)
    /\ UNCHANGED <<rows, request, answers, receipts>>

CrashWorker(c) ==
    /\ c \in Workers /\ call[c] # None
    /\ Abandon({c})
    /\ Hold(c, None)
    /\ UNCHANGED <<rows, handle, request, answers, receipts, ownerVars>>

\* The continuation of a workflow under way.
Step(c) ==
    \/ Execute(c) \/ LoseReply(c)
    \/ CreateConfirm(c) \/ CreateFailed(c)
    \/ Prove(c) \/ ReadSnapshot(c)
    \/ Committed(c) \/ CommitFailed(c) \/ RecoverHead(c)
    \/ VerifySnapshot(c) \/ VerifyRows(c)
    \/ ReadPurge(c) \/ PurgeHead(c) \/ PurgeReread(c) \/ CheckPurge(c)
    \/ FenceRead(c) \/ FenceReread(c)
    \/ Return(c)

Next ==
    \/ \E c \in Callers :
          \/ Step(c)
          \/ FailRead(c)
          \/ \E binding \in Bindings : Create(c, binding) \/ OpenExisting(c, binding)
          \/ \E id \in OperationIds, actor \in Actors, changes \in ChangeSets :
                Submit(c, id, actor, changes)
          \/ CommitClosed(c) \/ Preflight(c)
          \/ Read(c) \/ Verify(c)
          \/ \E at \in PurgeInstants : HostPurge(c, at)
          \/ \E binding \in Bindings, at \in PurgeInstants :
                WorkerPurge(c, binding, at)
          \/ CrashWorker(c)
    \/ \E batch \in late : ExecuteLate(batch)
    \/ \E a \in Authorities : Close(a) \/ FinishClose(a) \/ Crash(a)

Spec == Init /\ [][Next]_vars

\* Every request settles in the end, in an answer or an error, the runtime
\* resumes the workflow that awaits it, and close resumes once it is drained.
FairSpec ==
    /\ Spec
    /\ \A c \in Callers : WF_vars(Step(c))
    /\ \A a \in Authorities : WF_vars(FinishClose(a))

-----------------------------------------------------------------------------
(* Properties.                                                             *)

\* Whatever batches execute, late ones included, the rows are those of a space
\* never created, of a bound space whose tables replay to one another, or of a
\* purged one of which nothing but the receipt is left.
RowsVerify ==
    /\ Verified(rows)
    /\ rows.live <=> rows.binding # None
    /\ ~rows.live => rows = [EmptyRows EXCEPT !.purge = rows.purge]
    /\ rows.purge # None => ~rows.live

StoreInvariant == TypeOK /\ RowsVerify

\* The history of the space, also after its purge: the receipt's prior head.
FinalHistory == IF rows.purge = None THEN rows.head ELSE rows.purge.priorHead

\* An answer is durable: every operation a commit answered with carries what
\* the caller asked for and is on the history of the space, whose purge receipt
\* covers it too: no purge removes a commit answered before it unrecorded.  An
\* operation identifier is answered with one operation for ever, although a
\* retry builds a new operation when the clock has moved; and of all commits
\* reviewed against one head, at most one is answered as new.
AnswersStand ==
    /\ \A r \in answers :
          /\ IsPrefixOf(r.operation, FinalHistory)
          /\ BodyOf(r.operation).operationId = r.request.operationId
          /\ BodyOf(r.operation).actorId = r.request.actorId
          /\ BodyOf(r.operation).changes = r.request.changes
    /\ \A r, s \in answers :
          \/ r.request.operationId = s.request.operationId
          \/ r.fresh /\ s.fresh /\ r.request.expectedHead = s.request.expectedHead
          => r.operation = s.operation

\* However hosts, workers and creators race, every receipt a purge returned is
\* the one receipt of the space; what an authority remembers of a purge is what
\* the database holds, and its binding is the database's until then.
OneReceipt ==
    /\ \A receipt \in receipts : rows.purge = receipt
    /\ \A a \in Authorities :
          handle[a] # None =>
             /\ handle[a].purged \in {None, rows.purge}
             /\ handle[a].hostPurge \in {None, rows.purge}
             /\ rows.purge # None \/ rows.binding = handle[a].binding

\* While no purge intervenes, no interleaving of requests makes a workflow take
\* sound rows for damaged ones.
NoFalseAlarm ==
    \A c \in Callers :
        At(c, "end") /\ call[c].outcome = "integrity" => rows.purge # None

\* The client is closed under no call: every admitted workflow, the reads after
\* a failed write included, settles first.
ClientClosedLast ==
    [][\A a \in Authorities :
          clientClosed'[a] /\ ~clientClosed[a] =>
              \A c \in UsersOf(a) : call[c] = None]_vars

\* The rows implement the abstract append-only log.
Log == INSTANCE OhLog WITH
    phase <- IF rows.purge # None THEN "purged"
             ELSE IF rows.live THEN "live" ELSE "absent",
    history <- rows.head,
    receipt <- IF rows.purge = None THEN {} ELSE {rows.purge.priorHead}
ImplementsLog == Log!LogSpec

\* Every call settles, a purge included: its attempts are bounded.  A close
\* that began ends, unless the process dies first.
CallsSettle ==
    /\ \A c \in Callers : call[c] # None ~> call[c] = None
    /\ \A a \in Authorities : closing[a] ~> clientClosed[a] \/ ~closing[a]
=============================================================================
