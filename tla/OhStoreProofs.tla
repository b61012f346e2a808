---------------------------- MODULE OhStoreProofs ----------------------------
(***************************************************************************)
(* Theorems about every instance of OhStore.                               *)
(***************************************************************************)
EXTENDS OhStore, OhGraphProofs, FiniteSetTheorems, FunctionTheorems

-----------------------------------------------------------------------------
(* Type correctness.                                                       *)

LEMMA EmptyTablesType == EmptyTables \in Tables
<1>1. EmptySnapshot \in Snapshot
  BY DEF EmptySnapshot, Snapshot
<1>2. QED
  BY <1>1, EmptyHistory DEF EmptyTables, Tables

LEMMA PersistType ==
    ASSUME NEW t \in Tables, NEW operation \in Operation
    PROVE  Persist(t, operation) \in Tables
<1> DEFINE changes == BodyOf(operation).changes
<1>1. changes \in ChangeSets
  BY OperationType DEF Body
<1>2. DOMAIN changes \subseteq Keys /\ PutKeys(changes) \subseteq DOMAIN changes
      /\ \A k \in PutKeys(changes) : changes[k].record \in Record
  BY <1>1, ChangeType
<1>3. \A k \in PutKeys(changes) : k \in Keys /\ changes[k].record \in Record
  BY <1>2
<1>4. Transition(t.records, changes) \in Snapshot
  BY <1>1, TransitionType DEF Tables
<1>5. SearchRows(t, changes) \subseteq Keys \X Record
  BY <1>3 DEF SearchRows, Tables
<1>6. DependencyRows(t, changes) \subseteq Keys \X Keys
  BY <1>3 DEF DependencyRows, Tables
<1>7. {operation} \X DOMAIN changes \subseteq Operation \X Keys
  BY <1>2
<1>8. operation \in History
  BY OperationType
<1>9. QED
  BY ZenonT(60), <1>2, <1>4, <1>5, <1>6, <1>7, <1>8, EmptyHistory DEF Persist, Tables

\* The operation a commit writes is well formed and declares what it leaves.
LEMMA NewOperationType ==
    ASSUME NEW t \in Tables, NEW r \in CommitRequest
    PROVE  /\ NewOperation(t, r) \in Operation
           /\ Parent(NewOperation(t, r)) = t.head
           /\ BodyOf(NewOperation(t, r)) =
                 [operationId |-> r.operationId, actorId |-> r.actorId,
                  instant |-> r.instant, changes |-> r.changes,
                  records |-> Transition(t.records, r.changes)]
<1> DEFINE body == [operationId |-> r.operationId, actorId |-> r.actorId,
                    instant |-> r.instant, changes |-> r.changes,
                    records |-> Transition(t.records, r.changes)]
<1>1. t.head \in History /\ t.records \in Snapshot
  BY DEF Tables
<1>2. r.changes \in ChangeSets
  BY DEF CommitRequest
<1>3. Transition(t.records, r.changes) \in Snapshot
  BY <1>1, <1>2, TransitionType
<1>4. body \in Body
  BY <1>3 DEF Body, CommitRequest
<1>5. NewOperation(t, r) = Append(t.head, body)
  BY DEF NewOperation
<1> HIDE DEF body
<1>6. NewOperation(t, r) \in Operation /\ Parent(NewOperation(t, r)) = t.head
      /\ BodyOf(NewOperation(t, r)) = body
  BY <1>1, <1>4, <1>5, AppendType
<1>7. QED
  BY <1>6 DEF body

LEMMA BundleType ==
    ASSUME NEW bundle \in Bundles
    PROVE  bundle.operations \in Seq(Operation)
  BY StoreAssumption DEF Interval

LEMMA CallType ==
    ASSUME NEW entry \in Call
    PROVE  /\ entry.op = "bind" => entry.binding \in Bindings
           /\ entry.op = "import" => entry.bundle \in Bundles
           /\ entry.op = "answer" => entry.answer \in Receipt
  BY DEF Call

\* A pending call or request is the record it looks like.
LEMMA PendingType ==
    ASSUME TypeOK, NEW c \in Clients
    PROVE  /\ call[c] # None => call[c] \in Call
           /\ request[c] # None => request[c] \in CommitRequest
           /\ txn # None => txn \in Transaction
           /\ db \in Tables
  BY DEF TypeOK

LEMMA TypeInit == Init => TypeOK
  BY EmptyTablesType DEF Init, TypeOK

LEMMA TypeNext ==
    ASSUME TypeOK, TransactionExtends, [Next]_vars
    PROVE  TypeOK'
<1> USE DEF TypeOK
<1>1. ASSUME NEW c \in Clients, Open(c) PROVE TypeOK'
  <2>1. db' \in Tables
    BY <1>1 DEF Open, Tables
  <2> QED
    BY <1>1, <2>1 DEF Open
<1>2. ASSUME NEW c \in Clients, NEW binding \in Bindings, BindInsert(c, binding)
      PROVE  TypeOK'
  <2>1. db' \in Tables
    BY SMTT(30), <1>2 DEF BindInsert, Tables
  <2>2. [op |-> "bind", binding |-> binding] \in Call
    BY DEF Call
  <2> QED
    BY <1>2, <2>1, <2>2 DEF BindInsert
<1>3. ASSUME NEW c \in Clients, BindCheck(c) PROVE TypeOK'
  <2>1. call[c].binding \in Bindings
    BY <1>3, CallType DEF BindCheck
  <2> QED
    BY <1>3, <2>1 DEF BindCheck
<1>4. ASSUME NEW c \in Clients, NEW id \in OperationIds, NEW actor \in Actors,
             NEW instant \in Instants, NEW changes \in ChangeSets,
             Submit(c, id, actor, instant, changes)
      PROVE  TypeOK'
  <2>1. [operationId |-> id, actorId |-> actor, instant |-> instant,
         changes |-> changes, expectedHead |-> db.head] \in CommitRequest
    BY DEF CommitRequest, Tables
  <2> QED
    BY <1>4, <2>1 DEF Submit
<1>5. ASSUME NEW c \in Clients, CommitReplay(c) PROVE TypeOK'
  <2>1. PICK operation \in db.operations :
            call' = [call EXCEPT ![c] =
                [op |-> "answer",
                 answer |-> [request |-> request[c], operation |-> operation,
                             fresh |-> FALSE]]]
    BY <1>5 DEF CommitReplay
  <2>2. operation \in Operation /\ request[c] \in CommitRequest
    BY <1>5 DEF CommitReplay, InCommit, Tables
  <2>3. [op |-> "answer", answer |-> [request |-> request[c],
            operation |-> operation, fresh |-> FALSE]] \in Call
    BY <2>2 DEF Call, Receipt
  <2> QED
    BY <1>5, <2>1, <2>3 DEF CommitReplay
<1>6. ASSUME NEW c \in Clients, CommitAppend(c) PROVE TypeOK'
  <2>1. request[c] \in CommitRequest
    BY <1>6 DEF CommitAppend, InCommit
  <2>2. Persist(db, NewOperation(db, request[c])) \in Tables
    BY <2>1, NewOperationType, PersistType
  <2>3. <<>> \in Seq(Operation)
    BY EmptySeq
  <2>4. txn' \in Transaction
    BY <1>6, <2>2, <2>3 DEF CommitAppend, Transaction
  <2> QED
    BY <1>6, <2>4 DEF CommitAppend
<1>7. ASSUME NEW c \in Clients, CommitRefused(c) PROVE TypeOK'
  BY <1>7 DEF CommitRefused
<1>8. ASSUME NEW c \in Clients, PublishCommit(c) PROVE TypeOK'
  <2>1. /\ request[c] \in CommitRequest
        /\ txn.tables.head = NewOperation(db, request[c])
    BY <1>8 DEF PublishCommit, TransactionExtends
  <2>2. txn.tables \in Tables /\ txn.tables.head \in Operation
    BY <1>8, <2>1, NewOperationType DEF PublishCommit, Transaction
  <2>3. [op |-> "answer", answer |-> [request |-> request[c],
            operation |-> txn.tables.head, fresh |-> TRUE]] \in Call
    BY <2>1, <2>2 DEF Call, Receipt
  <2> QED
    BY <1>8, <2>2, <2>3 DEF PublishCommit
<1>9. ASSUME NEW c \in Clients, Answer(c) PROVE TypeOK'
  <2>1. call[c].answer \in Receipt
    BY <1>9, CallType DEF Answer
  <2> QED
    BY <1>9, <2>1 DEF Answer
<1>10. ASSUME NEW c \in Clients, NEW bundle \in Bundles, ImportCheck(c, bundle)
       PROVE  TypeOK'
  <2>1. [op |-> "import", bundle |-> bundle] \in Call
    BY DEF Call
  <2> QED
    BY <1>10, <2>1 DEF ImportCheck
<1>11. ASSUME NEW c \in Clients, ImportBegin(c) PROVE TypeOK'
  <2>1. call[c].bundle.operations \in Seq(Operation)
    BY <1>11, CallType, BundleType DEF ImportBegin, InImport
  <2>2. txn' \in Transaction
    BY <1>11, <2>1 DEF ImportBegin, Transaction
  <2> QED
    BY <1>11, <2>2 DEF ImportBegin
<1>12. ASSUME NEW c \in Clients, ImportReturn(c) PROVE TypeOK'
  BY <1>12 DEF ImportReturn
<1>13. ASSUME NEW c \in Clients, ImportNext(c) PROVE TypeOK'
  <2>1. /\ txn \in Transaction /\ txn.tables \in Tables
        /\ txn.todo \in Seq(Operation) /\ txn.todo # <<>>
    BY <1>13 DEF ImportNext, Importing, Transaction
  <2>2. Head(txn.todo) \in Operation /\ Tail(txn.todo) \in Seq(Operation)
    BY <2>1, HeadTailProperties
  <2>3. Persist(txn.tables, Head(txn.todo)) \in Tables
    BY <2>1, <2>2, PersistType
  <2>4. txn' \in Transaction
    BY <1>13, <2>1, <2>2, <2>3 DEF ImportNext, Transaction
  <2> QED
    BY <1>13, <2>4 DEF ImportNext
<1>14. ASSUME NEW c \in Clients, ImportRollback(c) PROVE TypeOK'
  BY <1>14 DEF ImportRollback
<1>15. ASSUME NEW c \in Clients, PublishImport(c) PROVE TypeOK'
  BY <1>15 DEF PublishImport, Importing, Transaction
<1>16. ASSUME NEW c \in Clients, NEW remote \in Remotes, UpdateSyncState(c, remote)
       PROVE  TypeOK'
  <2>1. PICK head \in db.operations \cup {<<>>} :
            db' = [db EXCEPT !.sync[remote] = head]
    BY <1>16 DEF UpdateSyncState
  <2>2. head \in History
    BY EmptyHistory DEF Tables, Operation
  <2>3. db' \in Tables
    BY <2>1, <2>2 DEF Tables
  <2> QED
    BY <1>16, <2>3 DEF UpdateSyncState
<1>17. ASSUME NEW c \in Clients, NEW binding \in Bindings,
              PurgeWorkingSpace(c, binding)
       PROVE  TypeOK'
  <2>1. db' \in Tables
    BY ZenonT(60), <1>17, EmptyTablesType DEF PurgeWorkingSpace, Tables
  <2> QED
    BY <1>17, <2>1 DEF PurgeWorkingSpace
<1>18. ASSUME NEW c \in Clients, Close(c) PROVE TypeOK'
  BY <1>18 DEF Close
<1>19. ASSUME NEW c \in Clients, Crash(c) PROVE TypeOK'
  BY <1>19 DEF Crash
<1>20. ASSUME NEW c \in Clients, VerifyRead(c) PROVE TypeOK'
  <2>1. [op |-> "verify", read |-> db.operations] \in Call
    BY DEF Call, Tables
  <2> QED
    BY <1>20, <2>1 DEF VerifyRead
<1>21. ASSUME NEW c \in Clients, VerifyCompare(c) PROVE TypeOK'
  BY <1>21 DEF VerifyCompare
<1>22. CASE UNCHANGED vars
  BY <1>22 DEF vars
<1>23. QED
  BY <1>1, <1>2, <1>3, <1>4, <1>5, <1>6, <1>7, <1>8, <1>9, <1>10, <1>11, <1>12,
     <1>13, <1>14, <1>15, <1>16, <1>17, <1>18, <1>19, <1>20, <1>21, <1>22
     DEF Next

-----------------------------------------------------------------------------
(* The rows: what verifyReplay compares is preserved by persist.           *)

LEMMA ChainIsOperations ==
    ASSUME NEW t \in Tables
    PROVE  OneChain(t) <=> t.operations = ChainOf(t.head)
  BY DEF OneChain, ChainOf

LEMMA EmptyVerified ==
    ASSUME NEW t, t.head = <<>>, t.operations = {}, t.records = EmptySnapshot,
           t.writer = [k \in Keys |-> <<>>], t.revisions = {},
           t.dependencies = {}, t.search = {}, t.outbox = {}
    PROVE  Verified(t)
<1>1. /\ t.head = <<>> /\ t.operations = {} /\ t.records = EmptySnapshot
      /\ t.writer = [k \in Keys |-> <<>>] /\ t.revisions = {}
      /\ t.dependencies = {} /\ t.search = {} /\ t.outbox = {}
  OBVIOUS
<1>2. Len(t.head) = 0 /\ 1..Len(t.head) = {}
  BY <1>1, EmptyHistory
<1>3. OneChain(t)
  BY <1>1, <1>2 DEF OneChain, ChainOf
<1>4. ValidHistory(t.head)
  BY <1>2 DEF ValidHistory
<1>5. RecordsMatchReplay(t)
  BY <1>1, <1>2 DEF RecordsMatchReplay, RecordsAt
<1>6. Present(t.records) = {}
  BY <1>1 DEF Present, EmptySnapshot
<1>7. WriterMatchesReplay(t)
  BY <1>1 DEF WriterMatchesReplay, EmptySnapshot
<1>8. DependenciesMatchReplay(t) /\ SearchMatchesReplay(t) /\ RevisionsMatchReplay(t)
  BY <1>1, <1>6 DEF DependenciesMatchReplay, SearchMatchesReplay,
                    RevisionsMatchReplay
<1>9. QED
  BY <1>1, <1>3, <1>4, <1>5, <1>7, <1>8 DEF Verified

\* Persisting one accepted operation on its parent, under an identifier the
\* space has not used, keeps every table equal to its replay.
THEOREM PersistVerified ==
    ASSUME NEW t \in Tables, NEW operation \in Operation, Verified(t),
           t.head = Parent(operation),
           WithOperationId(t, BodyOf(operation).operationId) = {},
           Accepts(t.records, BodyOf(operation).changes),
           BodyOf(operation).records
               = Transition(t.records, BodyOf(operation).changes)
    PROVE  Verified(Persist(t, operation))
<1> DEFINE body == BodyOf(operation)
           changes == body.changes
           after == Transition(t.records, changes)
           u == Persist(t, operation)
<1>1. /\ t.head \in History /\ t.records \in Snapshot
      /\ t.operations \subseteq Operation
      /\ DOMAIN t.writer = Keys
      /\ t.dependencies \subseteq Keys \X Keys
      /\ t.search \subseteq Keys \X Record
  BY DEF Tables
<1>2. body \in Body /\ changes \in ChangeSets /\ operation = Append(t.head, body)
  BY OperationType, OperationIsAppend DEF Body
<1>3. /\ u.head = operation /\ u.operations = t.operations \cup {operation}
      /\ u.records = after
      /\ u.writer = [k \in Keys |-> IF k \in PutKeys(changes) THEN operation
                            ELSE IF k \in DOMAIN changes THEN <<>> ELSE t.writer[k]]
      /\ u.revisions = t.revisions \cup ({operation} \X DOMAIN changes)
      /\ u.dependencies = DependencyRows(t, changes)
      /\ u.search = SearchRows(t, changes)
      /\ u.outbox = t.outbox \cup {operation}
  BY DEF Persist, Tables
<1>4. /\ t.operations = ChainOf(t.head) /\ ValidHistory(t.head)
      /\ t.records = RecordsAt(t.head, Len(t.head))
      /\ \A o \in t.operations : Len(o) <= Len(t.head)
  BY <1>1, ChainType, ChainIsOperations DEF Verified, RecordsMatchReplay
<1>5. /\ Len(t.head) \in Nat /\ Len(operation) = Len(t.head) + 1
      /\ operation[Len(operation)] = body
  BY <1>1, <1>2, LenType, AppendType, AppendAt
<1>6. DOMAIN changes \subseteq Keys /\ PutKeys(changes) \subseteq DOMAIN changes
      /\ \A k \in PutKeys(changes) :
            changes[k].record \in Record /\ changes[k].record # NoRecord
  BY <1>2, ChangeType, ChangeSetsAssumption
<1>7. /\ \A k \in PutKeys(changes) :
             after[k] = changes[k].record /\ after[k] # NoRecord
      /\ \A k \in DOMAIN changes \ PutKeys(changes) : after[k] = NoRecord
      /\ \A k \in Keys \ DOMAIN changes : after[k] = t.records[k]
  BY <1>1, <1>2, <1>6, TransitionAt
<1> HIDE DEF u, after, changes, body
<1>8. OneChain(u)
  <2>1. ChainOf(operation) = ChainOf(t.head) \cup {operation}
    BY <1>1, <1>2, ChainOfAppend
  <2>2. u.operations = ChainOf(u.head)
    BY <1>3, <1>4, <2>1
  <2> QED
    BY <2>2 DEF OneChain, ChainOf
<1>9. ValidHistory(u.head)
  <2>1. \A n \in 1..Len(t.head) : t.head[n].operationId # body.operationId
    <3>1. SUFFICES ASSUME NEW n \in 1..Len(t.head)
                   PROVE  t.head[n].operationId # body.operationId
      OBVIOUS
    <3>2. n \in 0..Len(t.head)
      BY <1>5
    <3>3. Prefix(t.head, n) \in t.operations
      BY <1>4 DEF ChainOf
    <3>4. BodyOf(Prefix(t.head, n)) = t.head[n]
      <4>1. Len(Prefix(t.head, n)) = n /\ Prefix(t.head, n)[n] = t.head[n]
        BY <1>1, <1>5, <3>2, PrefixType
      <4> QED
        BY <4>1 DEF BodyOf
    <3>5. QED
      BY <3>3, <3>4 DEF WithOperationId, body
  <2>2. Accepts(RecordsAt(t.head, Len(t.head)), body.changes)
        /\ body.records = Transition(RecordsAt(t.head, Len(t.head)), body.changes)
    BY <1>4 DEF body
  <2> DEFINE head == t.head
  <2>3. head \in History /\ ValidHistory(head)
    BY <1>1, <1>4
  <2> HIDE DEF head
  <2>4. ValidHistory(Append(head, body))
    BY <1>2, <2>1, <2>2, <2>3, ValidAppend DEF head
  <2> QED
    BY <1>2, <1>3, <2>4 DEF head
<1>10. RecordsMatchReplay(u)
  BY <1>3, <1>5 DEF RecordsMatchReplay, RecordsAt, after, body, changes
<1>11. WriterMatchesReplay(u)
  <2>1. SUFFICES ASSUME NEW k \in Keys
                 PROVE  IF u.records[k] = NoRecord THEN u.writer[k] = <<>>
                        ELSE /\ u.writer[k] \in u.operations
                             /\ k \in PutKeys(BodyOf(u.writer[k]).changes)
                             /\ BodyOf(u.writer[k]).changes[k].record = u.records[k]
                             /\ \A o \in u.operations :
                                   Len(o) > Len(u.writer[k])
                                       => k \notin DOMAIN BodyOf(o).changes
    BY DEF WriterMatchesReplay
  <2>2. CASE k \in PutKeys(changes)
    <3>1. u.writer[k] = operation /\ u.records[k] = changes[k].record
          /\ u.records[k] # NoRecord
      BY <1>3, <1>7, <2>2
    <3>2. \A o \in u.operations : ~(Len(o) > Len(operation))
      <4>1. \A o \in t.operations : Len(o) \in Nat /\ Len(o) <= Len(t.head)
        BY <1>1, <1>4, OperationType
      <4> QED
        BY <1>3, <1>5, <4>1
    <3>3. QED
      BY <1>3, <2>2, <3>1, <3>2 DEF changes, body
  <2>3. CASE k \in DOMAIN changes \ PutKeys(changes)
    BY <1>3, <1>7, <2>3
  <2>4. CASE k \notin DOMAIN changes
    <3>1. u.writer[k] = t.writer[k] /\ u.records[k] = t.records[k]
      BY <1>3, <1>6, <1>7, <2>4
    <3>2. IF t.records[k] = NoRecord THEN t.writer[k] = <<>>
          ELSE /\ t.writer[k] \in t.operations
               /\ k \in PutKeys(BodyOf(t.writer[k]).changes)
               /\ BodyOf(t.writer[k]).changes[k].record = t.records[k]
               /\ \A o \in t.operations :
                     Len(o) > Len(t.writer[k]) => k \notin DOMAIN BodyOf(o).changes
      BY DEF Verified, WriterMatchesReplay
    <3>3. k \notin DOMAIN BodyOf(operation).changes
      BY <2>4 DEF changes, body
    <3>4. QED
      BY <1>3, <3>1, <3>2, <3>3
  <2>5. QED
    BY <2>2, <2>3, <2>4
<1>12. DependenciesMatchReplay(u)
  <2>1. t.dependencies = {e \in Present(t.records) \X Keys :
                            e[2] \in t.records[e[1]].dependencies}
    BY DEF Verified, DependenciesMatchReplay
  <2>2. \A j, k \in Keys :
            <<j, k>> \in DependencyRows(t, changes)
                <=> j \in Present(after) /\ k \in after[j].dependencies
    BY <1>6, <1>7, <2>1 DEF DependencyRows, Present
  <2>3. DependencyRows(t, changes) \subseteq Keys \X Keys
    BY <1>1, <1>6 DEF DependencyRows
  <2>4. Present(after) \subseteq Keys
    BY DEF Present
  <2>5. QED
    BY <1>3, <2>2, <2>3, <2>4 DEF DependenciesMatchReplay
<1>13. SearchMatchesReplay(u)
  <2>1. t.search = {<<k, t.records[k]>> : k \in Present(t.records)}
    BY DEF Verified, SearchMatchesReplay
  <2>2. SearchRows(t, changes) = {<<k, after[k]>> : k \in Present(after)}
    BY <1>6, <1>7, <2>1 DEF SearchRows, Present
  <2>3. QED
    BY <1>3, <2>2 DEF SearchMatchesReplay
<1>14. RevisionsMatchReplay(u)
  <2>1. t.revisions = {r \in t.operations \X Keys :
                          r[2] \in DOMAIN BodyOf(r[1]).changes}
    BY DEF Verified, RevisionsMatchReplay
  <2>2. QED
    BY <1>3, <1>6, <2>1 DEF RevisionsMatchReplay, changes, body
<1>15. u.outbox = u.operations
  BY <1>3 DEF Verified
<1>16. Verified(u)
  BY <1>8, <1>9, <1>10, <1>11, <1>12, <1>13, <1>14, <1>15 DEF Verified
<1>17. QED
  BY <1>16 DEF u

\* The replayed tables are all that Verified looks at.
LEMMA VerifiedSameRows ==
    ASSUME NEW t, NEW u, Verified(t), u.head = t.head,
           u.operations = t.operations, u.records = t.records,
           u.writer = t.writer, u.revisions = t.revisions,
           u.dependencies = t.dependencies, u.search = t.search,
           u.outbox = t.outbox
    PROVE  Verified(u)
  BY DEF Verified, OneChain, RecordsMatchReplay, WriterMatchesReplay,
         DependenciesMatchReplay, SearchMatchesReplay, RevisionsMatchReplay

-----------------------------------------------------------------------------
(* Which steps touch the rows.                                             *)

\* A step that leaves the committed rows alone and at most drops the
\* transaction.
Quiet == db' = db /\ txn' \in {txn, None}

LEMMA StepCases ==
    ASSUME [Next]_vars
    PROVE  \/ Quiet
           \/ \E c \in Clients :
                 \/ Open(c)
                 \/ \E binding \in Bindings : BindInsert(c, binding)
                 \/ CommitAppend(c)
                 \/ PublishCommit(c)
                 \/ ImportBegin(c)
                 \/ ImportNext(c)
                 \/ PublishImport(c)
                 \/ \E remote \in Remotes : UpdateSyncState(c, remote)
                 \/ \E binding \in Bindings : PurgeWorkingSpace(c, binding)
<1>1. ASSUME NEW c \in Clients,
             \/ BindCheck(c)
             \/ \E id \in OperationIds, actor \in Actors, instant \in Instants,
                   changes \in ChangeSets : Submit(c, id, actor, instant, changes)
             \/ CommitReplay(c)
             \/ CommitRefused(c)
             \/ Answer(c)
             \/ \E bundle \in Bundles : ImportCheck(c, bundle)
             \/ ImportReturn(c)
             \/ ImportRollback(c)
             \/ VerifyRead(c)
             \/ VerifyCompare(c)
             \/ Close(c)
             \/ Crash(c)
      PROVE  Quiet
  BY <1>1 DEF BindCheck, Submit, CommitReplay, CommitRefused, Answer,
              ImportCheck, ImportReturn, ImportRollback, VerifyRead,
              VerifyCompare, Close, Crash, Quiet
<1>2. UNCHANGED vars => Quiet
  BY DEF vars, Quiet
<1>3. QED
  BY <1>1, <1>2 DEF Next

LEMMA RowsInit == Init => RowsVerify
<1>1. Verified(EmptyTables)
  BY EmptyVerified DEF EmptyTables
<1>2. QED
  BY <1>1 DEF Init, RowsVerify

\* The operation of a commit that may append extends verified rows.
LEMMA CommitVerified ==
    ASSUME NEW t \in Tables, NEW r \in CommitRequest, Verified(t),
           Appendable(t, r)
    PROVE  Verified(Persist(t, NewOperation(t, r)))
<1> DEFINE operation == NewOperation(t, r)
<1>1. /\ operation \in Operation /\ Parent(operation) = t.head
      /\ BodyOf(operation).operationId = r.operationId
      /\ BodyOf(operation).changes = r.changes
      /\ BodyOf(operation).records = Transition(t.records, r.changes)
  BY NewOperationType
<1>2. WithOperationId(t, r.operationId) = {} /\ Accepts(t.records, r.changes)
  BY DEF Appendable
<1> HIDE DEF operation
<1>3. Verified(Persist(t, operation))
  BY <1>1, <1>2, PersistVerified
<1>4. QED
  BY <1>3 DEF operation

LEMMA ImportVerified ==
    ASSUME NEW t \in Tables, NEW operation \in Operation, Verified(t),
           Importable(t, operation)
    PROVE  Verified(Persist(t, operation))
  BY PersistVerified DEF Importable, Persistable

LEMMA RowsNext ==
    ASSUME TypeOK, RowsVerify, [Next]_vars
    PROVE  RowsVerify'
<1>1. db \in Tables /\ Verified(db)
  BY DEF TypeOK, RowsVerify
<1>2. CASE Quiet
  BY <1>2 DEF Quiet, RowsVerify
<1>3. ASSUME NEW c \in Clients, Open(c) PROVE RowsVerify'
  <2>1. Verified(db')
    BY <1>1, <1>3, VerifiedSameRows DEF Open, Tables, Verified
  <2> QED
    BY <1>3, <2>1 DEF Open, RowsVerify
<1>4. ASSUME NEW c \in Clients, NEW binding \in Bindings, BindInsert(c, binding)
      PROVE  RowsVerify'
  <2>1. Verified(db')
    BY <1>1, <1>4, VerifiedSameRows DEF BindInsert, Tables, Verified
  <2> QED
    BY <1>4, <2>1 DEF BindInsert, RowsVerify
<1>5. ASSUME NEW c \in Clients, CommitAppend(c) PROVE RowsVerify'
  <2>1. request[c] \in CommitRequest /\ Appendable(db, request[c])
    BY <1>5 DEF CommitAppend, InCommit, TypeOK
  <2>2. Verified(Persist(db, NewOperation(db, request[c])))
    BY <1>1, <2>1, CommitVerified
  <2> QED
    BY <1>1, <1>5, <2>2 DEF CommitAppend, RowsVerify
<1>6. ASSUME NEW c \in Clients, PublishCommit(c) \/ PublishImport(c)
      PROVE  RowsVerify'
  BY <1>6 DEF PublishCommit, PublishImport, Importing, RowsVerify
<1>7. ASSUME NEW c \in Clients, ImportBegin(c) PROVE RowsVerify'
  BY <1>1, <1>7 DEF ImportBegin, RowsVerify
<1>8. ASSUME NEW c \in Clients, ImportNext(c) PROVE RowsVerify'
  <2>1. /\ txn \in Transaction /\ txn.tables \in Tables /\ Verified(txn.tables)
        /\ txn.todo \in Seq(Operation) /\ txn.todo # <<>>
    BY <1>8 DEF ImportNext, Importing, Transaction, TypeOK, RowsVerify
  <2>2. Head(txn.todo) \in Operation /\ Importable(txn.tables, Head(txn.todo))
    BY <1>8, <2>1, HeadTailProperties DEF ImportNext
  <2>3. Verified(Persist(txn.tables, Head(txn.todo)))
    BY <2>1, <2>2, ImportVerified
  <2>4. txn'.tables = Persist(txn.tables, Head(txn.todo)) /\ db' = db
    BY <1>8, <2>1 DEF ImportNext, Transaction
  <2> QED
    BY <1>1, <2>3, <2>4 DEF RowsVerify
<1>9. ASSUME NEW c \in Clients, NEW remote \in Remotes, UpdateSyncState(c, remote)
      PROVE  RowsVerify'
  <2>1. PICK head \in db.operations \cup {<<>>} :
            db' = [db EXCEPT !.sync[remote] = head]
    BY <1>9 DEF UpdateSyncState
  <2>2. Verified(db')
    BY <1>1, <2>1, VerifiedSameRows DEF Tables
  <2> QED
    BY <1>9, <2>2 DEF UpdateSyncState, RowsVerify
<1>10. ASSUME NEW c \in Clients, NEW binding \in Bindings,
              PurgeWorkingSpace(c, binding)
       PROVE  RowsVerify'
  <2>1. Verified(db')
    BY <1>10, EmptyVerified DEF PurgeWorkingSpace, EmptyTables
  <2> QED
    BY <1>10, <2>1 DEF PurgeWorkingSpace, RowsVerify
<1>11. QED
  BY <1>2, <1>3, <1>4, <1>5, <1>6, <1>7, <1>8, <1>9, <1>10, StepCases

-----------------------------------------------------------------------------
(* The open transaction and the calls it belongs to.                       *)

\* A transaction whose call, request and base rows stay put keeps extending
\* them.
LEMMA TransactionKept ==
    ASSUME TransactionExtends, txn' = txn, db' = db,
           txn # None => /\ call'[txn.owner] = call[txn.owner]
                         /\ txn.kind = "commit" =>
                               request'[txn.owner] = request[txn.owner]
    PROVE  TransactionExtends'
<1>1. CASE txn = None
  BY <1>1 DEF TransactionExtends
<1>2. CASE txn # None
  BY <1>2 DEF TransactionExtends, Done, NewOperation
<1>3. QED
  BY <1>1, <1>2

LEMMA TransactionNext ==
    ASSUME TypeOK, RowsVerify, TransactionExtends, [Next]_vars
    PROVE  TransactionExtends'
<1> USE DEF TypeOK
<1>1. txn' = None => TransactionExtends'
  BY DEF TransactionExtends
<1>2. ASSUME NEW c \in Clients, Open(c) PROVE TransactionExtends'
  BY <1>1, <1>2 DEF Open
<1>3. ASSUME NEW c \in Clients, NEW binding \in Bindings, BindInsert(c, binding)
      PROVE  TransactionExtends'
  BY <1>1, <1>3 DEF BindInsert
<1>4. ASSUME NEW c \in Clients, BindCheck(c) PROVE TransactionExtends'
  <2>1. txn # None => /\ txn \in Transaction /\ txn.kind \in {"commit", "import"}
                      /\ txn.owner # c
    BY <1>4 DEF BindCheck, TransactionExtends, Transaction
  <2> QED
    BY <1>4, <2>1, TransactionKept DEF BindCheck
<1>5. ASSUME NEW c \in Clients, NEW id \in OperationIds, NEW actor \in Actors,
             NEW instant \in Instants, NEW changes \in ChangeSets,
             Submit(c, id, actor, instant, changes)
      PROVE  TransactionExtends'
  <2>1. txn # None /\ txn.kind = "commit" => txn.owner # c
    BY <1>5 DEF Submit, TransactionExtends
  <2> QED
    BY <1>5, <2>1, TransactionKept DEF Submit
<1>6. ASSUME NEW c \in Clients, CommitReplay(c) \/ CommitRefused(c)
      PROVE  TransactionExtends'
  BY <1>1, <1>6 DEF CommitReplay, CommitRefused, InCommit
<1>7. ASSUME NEW c \in Clients, CommitAppend(c) PROVE TransactionExtends'
  <2> DEFINE operation == NewOperation(db, request[c])
             t == Persist(db, operation)
  <2>1. /\ request[c] \in CommitRequest /\ call[c] = None /\ request[c] # None
        /\ Appendable(db, request[c])
        /\ txn' = [owner |-> c, kind |-> "commit", todo |-> <<>>, tables |-> t]
        /\ db' = db /\ call' = call /\ request' = request
    BY <1>7 DEF CommitAppend, InCommit
  <2>2. db.space = "live" /\ db.head = request[c].expectedHead
    BY <2>1 DEF Appendable, Operable
  <2>3. operation \in Operation /\ Parent(operation) = db.head /\ db.head \in History
    BY <2>1, NewOperationType DEF Tables
  <2>4. IsPrefixOf(db.head, operation)
    <3> HIDE DEF operation
    <3> QED
      BY <2>3, PrefixReflexive, PrefixOfChild
  <2>5. /\ t.head = operation /\ t.space = db.space /\ t.binding = db.binding
        /\ t.receipt = db.receipt /\ db.operations \subseteq t.operations
    BY DEF Persist, Tables
  <2>6. operation' = NewOperation(db, request[c])
    BY <2>1
  <2>7. NewOperation(db, request[c])' = NewOperation(db, request[c])
    BY <2>1 DEF NewOperation
  <2> HIDE DEF operation, t
  <2>8. /\ txn'.owner = c /\ txn'.kind = "commit" /\ txn'.todo = <<>>
        /\ txn'.tables = t
    BY <2>1
  <2>9. QED
    BY <2>1, <2>2, <2>4, <2>5, <2>7, <2>8 DEF TransactionExtends, operation
<1>8. ASSUME NEW c \in Clients, PublishCommit(c) PROVE TransactionExtends'
  BY <1>1, <1>8 DEF PublishCommit
<1>9. ASSUME NEW c \in Clients, Answer(c) PROVE TransactionExtends'
  <2>1. txn # None => /\ txn \in Transaction /\ txn.kind \in {"commit", "import"}
                      /\ txn.owner # c
    BY <1>9 DEF Answer, TransactionExtends, Transaction
  <2> QED
    BY <1>9, <2>1, TransactionKept DEF Answer
<1>10. ASSUME NEW c \in Clients, NEW bundle \in Bundles, ImportCheck(c, bundle)
       PROVE  TransactionExtends'
  <2>1. txn # None => txn.owner # c
    BY <1>10 DEF ImportCheck
  <2> QED
    BY <1>10, <2>1, TransactionKept DEF ImportCheck
<1>11. ASSUME NEW c \in Clients, ImportBegin(c) PROVE TransactionExtends'
  <2> DEFINE bundle == call[c].bundle
  <2>1. /\ call[c] # None /\ call[c].op = "import" /\ call[c] \in Call
        /\ ImportStarts(db, bundle)
        /\ txn' = [owner |-> c, kind |-> "import", tables |-> db,
                   todo |-> bundle.operations]
        /\ db' = db /\ call' = call
    BY <1>11 DEF ImportBegin, InImport
  <2>2. bundle.operations \in Seq(Operation)
    BY <2>1, CallType, BundleType
  <2>3. /\ db.space = "live" /\ db.head = bundle.expectedHead
        /\ bundle.operations # <<>>
    BY <2>1 DEF ImportStarts, Operable
  <2>4. IsPrefixOf(db.head, db.head)
    BY PrefixReflexive DEF Tables
  <2>5. Len(bundle.operations) \in Nat
    BY <2>2, LenProperties
  <2>6. /\ txn'.owner = c /\ txn'.kind = "import" /\ txn'.tables = db
        /\ txn'.todo = bundle.operations
    BY <2>1
  <2>7. bundle' = bundle /\ Done(bundle)' = 0
    BY <2>1, <2>5, <2>6 DEF Done
  <2>8. \A n \in 1..Len(bundle.operations) : 0 + n = n
    BY <2>5
  <2>9. QED
    BY <2>1, <2>3, <2>4, <2>5, <2>6, <2>7, <2>8 DEF TransactionExtends
<1>12. ASSUME NEW c \in Clients, ImportReturn(c) PROVE TransactionExtends'
  BY <1>1, <1>12 DEF ImportReturn, InImport
<1>13. ASSUME NEW c \in Clients, ImportNext(c) PROVE TransactionExtends'
  <2> DEFINE bundle == call[c].bundle
             ops == bundle.operations
             operation == Head(txn.todo)
             t == txn.tables
             u == Persist(t, operation)
             done == Done(bundle)
             all == Len(ops)
             left == Len(txn.todo)
             rest == Len(Tail(txn.todo))
  <2>1. /\ txn # None /\ txn.owner = c /\ txn.kind = "import" /\ txn.todo # <<>>
        /\ Importable(t, operation)
        /\ txn' = [txn EXCEPT !.tables = u, !.todo = Tail(txn.todo)]
        /\ db' = db /\ call' = call
        /\ txn \in Transaction /\ t \in Tables /\ txn.todo \in Seq(Operation)
    BY <1>13 DEF ImportNext, Importing, Transaction
  <2>2. /\ db.space = "live" /\ t.space = db.space /\ t.binding = db.binding
        /\ t.receipt = db.receipt /\ IsPrefixOf(db.head, t.head)
        /\ db.operations \subseteq t.operations
        /\ call[c] # None /\ call[c].op = "import"
        /\ ops # <<>> /\ db.head = bundle.expectedHead
        /\ done \in 0..Len(ops)
        /\ \A n \in 1..Len(txn.todo) : txn.todo[n] = ops[done + n]
    BY <2>1 DEF TransactionExtends
  <2>3. /\ operation \in Operation /\ operation = txn.todo[1]
        /\ Len(txn.todo) \in Nat \ {0}
        /\ Len(Tail(txn.todo)) = Len(txn.todo) - 1
        /\ \A n \in 1..Len(Tail(txn.todo)) : Tail(txn.todo)[n] = txn.todo[n + 1]
    BY <2>1, EmptySeq, HeadTailProperties
  <2>4. ops \in Seq(Operation) /\ Len(ops) \in Nat
    <3>1. call[c] \in Call
      BY <2>2
    <3> QED
      BY <3>1, <2>2, CallType, BundleType, LenProperties
  <2>5. /\ txn'.owner = c /\ txn'.kind = "import" /\ txn'.tables = u
        /\ txn'.todo = Tail(txn.todo)
    BY <2>1 DEF Transaction
  <2>6. /\ u.head = operation /\ u.space = t.space /\ u.binding = t.binding
        /\ u.receipt = t.receipt /\ t.operations \subseteq u.operations
    BY <2>1 DEF Persist, Tables
  <2>7. IsPrefixOf(db.head, u.head)
    <3>1. t.head = Parent(operation) /\ db.head \in History
      BY <2>1 DEF Importable, Persistable, Tables
    <3> HIDE DEF operation, t, u
    <3> QED
      BY <2>2, <2>3, <2>6, <3>1, PrefixOfChild
  <2>8. all - rest = done + 1 /\ done + 1 \in 0..all /\ done + 1 # 0
    <3>1. /\ done = all - left /\ done \in 0..all /\ all \in Nat
          /\ left \in Nat \ {0} /\ rest = left - 1
      BY <2>2, <2>3, <2>4 DEF Done
    <3> HIDE DEF done, all, left, rest
    <3> QED
      BY <3>1
  <2>9. operation = ops[done + 1]
    BY <2>2, <2>3
  <2>10. \A n \in 1..Len(Tail(txn.todo)) : Tail(txn.todo)[n] = ops[(done + 1) + n]
    <3>1. SUFFICES ASSUME NEW n \in 1..Len(Tail(txn.todo))
                   PROVE  Tail(txn.todo)[n] = ops[(done + 1) + n]
      OBVIOUS
    <3>2. n + 1 \in 1..Len(txn.todo) /\ done + (n + 1) = (done + 1) + n
      <4>1. /\ left \in Nat \ {0} /\ rest = left - 1 /\ n \in 1..rest
            /\ done \in 0..all /\ all \in Nat
        BY <2>2, <2>3, <2>4, <3>1
      <4> HIDE DEF done, all, left, rest
      <4>2. n + 1 \in 1..left /\ done + (n + 1) = (done + 1) + n
        BY <4>1
      <4> QED
        BY <4>2 DEF left
    <3>3. Tail(txn.todo)[n] = txn.todo[n + 1]
      BY <2>3
    <3>4. txn.todo[n + 1] = ops[done + (n + 1)]
      BY <2>2, <3>2
    <3> HIDE DEF done, ops
    <3>5. QED
      BY <3>2, <3>3, <3>4
  <2>11. done + 1 \in 0..Len(ops) /\ done + 1 # 0
    BY <2>8
  <2>12. /\ call'[c] # None /\ call'[c].op = "import"
         /\ call'[c].bundle = bundle /\ bundle.operations = ops
         /\ Done(bundle)' = done + 1
    <3>1. call' = call
      BY <2>1
    <3>2. Done(bundle)' = Len(ops) - Len(Tail(txn.todo))
      BY <2>5, <3>1 DEF Done
    <3> QED
      BY <2>2, <2>8, <3>1, <3>2
  <2>13. u.head = IF done + 1 = 0 THEN bundle.expectedHead ELSE ops[done + 1]
    BY <2>6, <2>9, <2>11
  <2>14. bundle' = bundle
    BY <2>1
  <2>15. /\ db'.space = "live" /\ u.space = db'.space /\ u.binding = db'.binding
         /\ u.receipt = db'.receipt /\ IsPrefixOf(db'.head, u.head)
         /\ db'.operations \subseteq u.operations
         /\ db'.head = bundle.expectedHead
    <3> HIDE DEF u, t, operation, bundle
    <3> QED
      BY <2>1, <2>2, <2>6, <2>7
  <2>16. /\ txn'.kind # "commit"
         /\ txn'.owner = c /\ txn'.tables = u
    BY <2>1, <2>5
  <2>17. /\ ops # <<>>
         /\ \A n \in 1..Len(txn'.todo) : txn'.todo[n] = ops[(done + 1) + n]
    BY <2>2, <2>5, <2>10
  <2> HIDE DEF operation, t, u, done
  <2>18. call'[c].bundle.operations = ops /\ Done(call[c].bundle)' = done + 1
    BY <2>12, <2>14
  <2> HIDE DEF bundle, ops
  <2>19. QED
    BY <2>11, <2>12, <2>13, <2>15, <2>16, <2>17, <2>18 DEF TransactionExtends, bundle
<1>14. ASSUME NEW c \in Clients, ImportRollback(c) \/ PublishImport(c)
       PROVE  TransactionExtends'
  BY <1>1, <1>14 DEF ImportRollback, PublishImport
<1>15. ASSUME NEW c \in Clients, NEW remote \in Remotes, UpdateSyncState(c, remote)
       PROVE  TransactionExtends'
  BY <1>1, <1>15 DEF UpdateSyncState
<1>16. ASSUME NEW c \in Clients, NEW binding \in Bindings,
              PurgeWorkingSpace(c, binding)
       PROVE  TransactionExtends'
  BY <1>1, <1>16 DEF PurgeWorkingSpace
<1>17. ASSUME NEW c \in Clients, Close(c) PROVE TransactionExtends'
  BY <1>17, TransactionKept DEF Close
<1>18. ASSUME NEW c \in Clients, Crash(c) PROVE TransactionExtends'
  <2>1. CASE txn # None /\ txn.owner = c
    BY <1>1, <1>18, <2>1 DEF Crash
  <2>2. CASE ~(txn # None /\ txn.owner = c)
    <3>1. txn # None => txn.owner # c /\ txn \in Transaction
      BY <2>2
    <3> QED
      BY <1>18, <2>2, <3>1, TransactionKept DEF Crash, Transaction
  <2> QED
    BY <2>1, <2>2
<1>19. ASSUME NEW c \in Clients, VerifyRead(c) \/ VerifyCompare(c)
       PROVE  TransactionExtends'
  <2>1. txn # None => /\ txn \in Transaction /\ txn.kind \in {"commit", "import"}
                      /\ txn.owner # c
    BY <1>19 DEF VerifyRead, VerifyCompare, TransactionExtends, Transaction
  <2>2. /\ db' = db /\ txn' = txn /\ request' = request
        /\ \A d \in Clients : d # c => call'[d] = call[d]
    BY <1>19 DEF VerifyRead, VerifyCompare
  <2>3. txn # None => txn.owner \in Clients
    BY <2>1 DEF Transaction
  <2> QED
    BY <2>1, <2>2, <2>3, TransactionKept
<1>20. CASE UNCHANGED vars
  BY <1>20, TransactionKept DEF vars
<1>21. QED
  BY <1>2, <1>3, <1>4, <1>5, <1>6, <1>7, <1>8, <1>9, <1>10, <1>11, <1>12,
     <1>13, <1>14, <1>15, <1>16, <1>17, <1>18, <1>19, <1>20 DEF Next

LEMMA ImportsNext ==
    ASSUME TypeOK, ImportsChecked, [Next]_vars
    PROVE  ImportsChecked'
<1> USE DEF TypeOK, ImportsChecked
<1>1. call' = call => ImportsChecked'
  BY DEF Chains
<1>2. ASSUME NEW c \in Clients, NEW entry, call' = [call EXCEPT ![c] = entry],
             entry # None /\ entry.op = "import" => Chains(entry.bundle)
      PROVE  ImportsChecked'
  BY <1>2 DEF Chains
<1>3. ASSUME NEW c \in Clients, call' = [call EXCEPT ![c] = None]
      PROVE  ImportsChecked'
  BY <1>2, <1>3
<1>4. ASSUME NEW c \in Clients, NEW binding \in Bindings, BindInsert(c, binding)
      PROVE  ImportsChecked'
  BY <1>2, <1>4 DEF BindInsert
<1>5. ASSUME NEW c \in Clients,
             CommitReplay(c) \/ PublishCommit(c) \/ VerifyRead(c)
      PROVE  ImportsChecked'
  BY <1>2, <1>5 DEF CommitReplay, PublishCommit, VerifyRead
<1>6. ASSUME NEW c \in Clients, NEW bundle \in Bundles, ImportCheck(c, bundle)
      PROVE  ImportsChecked'
  BY <1>2, <1>6 DEF ImportCheck
<1>7. ASSUME NEW c \in Clients,
             BindCheck(c) \/ Answer(c) \/ ImportReturn(c) \/ ImportRollback(c)
             \/ PublishImport(c) \/ VerifyCompare(c) \/ Crash(c)
      PROVE  ImportsChecked'
  BY <1>3, <1>7 DEF BindCheck, Answer, ImportReturn, ImportRollback,
                    PublishImport, VerifyCompare, Crash
<1>8. ASSUME NEW c \in Clients,
             \/ Open(c)
             \/ \E id \in OperationIds, actor \in Actors, instant \in Instants,
                   changes \in ChangeSets : Submit(c, id, actor, instant, changes)
             \/ CommitAppend(c) \/ CommitRefused(c)
             \/ ImportBegin(c) \/ ImportNext(c)
             \/ \E remote \in Remotes : UpdateSyncState(c, remote)
             \/ \E binding \in Bindings : PurgeWorkingSpace(c, binding)
             \/ Close(c)
      PROVE  ImportsChecked'
  BY <1>1, <1>8 DEF Open, Submit, CommitAppend, CommitRefused, ImportBegin,
                    ImportNext, UpdateSyncState, PurgeWorkingSpace, Close
<1>9. CASE UNCHANGED vars
  BY <1>1, <1>9 DEF vars
<1>10. QED
  BY <1>4, <1>5, <1>6, <1>7, <1>8, <1>9 DEF Next

-----------------------------------------------------------------------------
(* Bindings.                                                               *)

LEMMA BindingsNext ==
    ASSUME TypeOK, TransactionExtends, BindingsAgree, BindingsHeld, [Next]_vars
    PROVE  BindingsAgree' /\ BindingsHeld'
<1> USE DEF TypeOK, BindingsAgree, BindingsHeld
<1>1. ASSUME \A c \in Clients : bound'[c] \in {bound[c], None},
             db'.binding = db.binding \/ (db'.binding = None /\ db'.space = "purged"),
             db'.binding # None => db'.space = "live",
             db.space = "purged" => db'.space = "purged"
      PROVE  BindingsAgree' /\ BindingsHeld'
  BY <1>1
<1>2. CASE db' = db /\ \A c \in Clients : bound'[c] \in {bound[c], None}
  BY <1>1, <1>2
<1>3. ASSUME NEW c \in Clients, Open(c) PROVE BindingsAgree' /\ BindingsHeld'
  BY <1>1, <1>3 DEF Open, Tables
<1>4. ASSUME NEW c \in Clients, NEW binding \in Bindings, BindInsert(c, binding)
      PROVE  BindingsAgree' /\ BindingsHeld'
  <2>1. /\ bound' = bound /\ db.space = "live" /\ db'.space = "live"
        /\ db'.binding = IF db.binding = None THEN binding ELSE db.binding
    BY <1>4 DEF BindInsert, Tables
  <2>2. \A d \in Clients : bound[d] # None => db.binding = bound[d] /\ db.binding # None
    BY <2>1
  <2> QED
    BY <2>1, <2>2
<1>5. ASSUME NEW c \in Clients, BindCheck(c) PROVE BindingsAgree' /\ BindingsHeld'
  <2>1. /\ db' = db
        /\ bound' = [bound EXCEPT ![c] = IF db.binding = call[c].binding
                                         THEN call[c].binding ELSE bound[c]]
    BY <1>5 DEF BindCheck
  <2>2. call[c].binding # None
    BY <1>5, CallType, StoreAssumption DEF BindCheck
  <2>3. CASE db.binding = call[c].binding
    BY <2>1, <2>2, <2>3
  <2>4. CASE db.binding # call[c].binding
    BY <1>1, <2>1, <2>4
  <2> QED
    BY <2>3, <2>4
<1>6. ASSUME NEW c \in Clients,
             \/ \E id \in OperationIds, actor \in Actors, instant \in Instants,
                   changes \in ChangeSets : Submit(c, id, actor, instant, changes)
             \/ CommitReplay(c) \/ CommitAppend(c) \/ CommitRefused(c) \/ Answer(c)
             \/ \E bundle \in Bundles : ImportCheck(c, bundle)
             \/ ImportBegin(c) \/ ImportReturn(c) \/ ImportNext(c)
             \/ ImportRollback(c) \/ VerifyRead(c) \/ VerifyCompare(c)
             \/ Close(c) \/ Crash(c)
      PROVE  BindingsAgree' /\ BindingsHeld'
  <2>1. db' = db /\ \A d \in Clients : bound'[d] \in {bound[d], None}
    BY <1>6 DEF Submit, CommitReplay, CommitAppend, CommitRefused, Answer,
                ImportCheck, ImportBegin, ImportReturn, ImportNext,
                ImportRollback, VerifyRead, VerifyCompare, Close, Crash
  <2> QED
    BY <1>2, <2>1
<1>7. ASSUME NEW c \in Clients, PublishCommit(c) \/ PublishImport(c)
      PROVE  BindingsAgree' /\ BindingsHeld'
  <2>1. txn # None /\ db' = txn.tables /\ bound' = bound
    BY <1>7 DEF PublishCommit, PublishImport, Importing
  <2>2. txn.tables.binding = db.binding /\ txn.tables.space = db.space
    BY <2>1 DEF TransactionExtends
  <2> QED
    BY <1>1, <2>1, <2>2
<1>8. ASSUME NEW c \in Clients, NEW remote \in Remotes, UpdateSyncState(c, remote)
      PROVE  BindingsAgree' /\ BindingsHeld'
  <2>1. bound' = bound /\ db'.binding = db.binding /\ db'.space = db.space
    BY <1>8 DEF UpdateSyncState, Tables
  <2> QED
    BY <1>1, <2>1
<1>9. ASSUME NEW c \in Clients, NEW binding \in Bindings,
             PurgeWorkingSpace(c, binding)
      PROVE  BindingsAgree' /\ BindingsHeld'
  <2>1. bound' = bound /\ db'.binding = None /\ db'.space = "purged"
    BY <1>9 DEF PurgeWorkingSpace, EmptyTables
  <2> QED
    BY <1>1, <2>1
<1>10. CASE UNCHANGED vars
  BY <1>2, <1>10 DEF vars
<1>11. QED
  BY <1>3, <1>4, <1>5, <1>6, <1>7, <1>8, <1>9, <1>10 DEF Next

-----------------------------------------------------------------------------
(* Answers.                                                                *)

\* One chain has one operation of each identifier and one child of each head.
LEMMA OneChainUnique ==
    ASSUME NEW t \in Tables, Verified(t),
           NEW o \in t.operations, NEW p \in t.operations
    PROVE  /\ BodyOf(o).operationId = BodyOf(p).operationId => o = p
           /\ Parent(o) = Parent(p) => o = p
<1> DEFINE head == t.head
<1>1. head \in History /\ Len(head) \in Nat
  BY LenType DEF Tables
<1>2. ValidHistory(head) /\ t.operations = ChainOf(head)
  BY ChainIsOperations DEF Verified
<1>3. PICK m \in 1..Len(head) : o = Prefix(head, m)
  BY <1>2 DEF ChainOf
<1>4. PICK n \in 1..Len(head) : p = Prefix(head, n)
  BY <1>2 DEF ChainOf
<1> HIDE DEF head
<1>5. /\ o \in Operation /\ Len(o) = m /\ o[m] = head[m]
      /\ p \in Operation /\ Len(p) = n /\ p[n] = head[n]
  BY <1>1, <1>3, <1>4, PrefixType, PrefixIsOperation
<1>6. BodyOf(o).operationId = BodyOf(p).operationId => m = n
  BY <1>2, <1>5 DEF BodyOf, ValidHistory
<1>7. Parent(o) = Parent(p) => m = n
  <2>1. Len(Parent(o)) = m - 1 /\ Len(Parent(p)) = n - 1
    BY <1>5, OperationType
  <2> QED
    BY <1>1, <2>1
<1>8. QED
  BY <1>3, <1>4, <1>6, <1>7

\* No new answer, and the rows keep every operation while the space lives.
LEMMA AnswersKept ==
    ASSUME AnswersStand, AnsweredOnce, OneWinnerPerHead, AnswersGrounded,
           Answers' \subseteq Answers,
           db.space # "absent" => db'.space # "absent",
           db.space # "absent" /\ db'.space = "live" =>
               db.space = "live" /\ db.operations \subseteq db'.operations
    PROVE  /\ AnswersStand' /\ AnsweredOnce'
           /\ OneWinnerPerHead' /\ AnswersGrounded'
<1>1. AnswersStand'
  <2> SUFFICES ASSUME db'.space = "live", NEW r \in Answers'
               PROVE  /\ r.operation \in db'.operations
                      /\ BodyOf(r.operation).operationId = r.request.operationId
                      /\ SameContent(r.operation, r.request)
    BY DEF AnswersStand, SameContent, BodyOf
  <2>1. r \in Answers /\ db.space # "absent"
    BY DEF AnswersGrounded
  <2> QED
    BY <2>1 DEF AnswersStand, SameContent
<1>2. AnsweredOnce'
  BY DEF AnsweredOnce
<1>3. OneWinnerPerHead'
  BY DEF OneWinnerPerHead
<1>4. AnswersGrounded'
  BY DEF AnswersGrounded, Parent, Prefix
<1>5. QED
  BY <1>1, <1>2, <1>3, <1>4

\* One new answer, grounded in verified rows of a live space.
LEMMA AnswersGrow ==
    ASSUME AnswersStand, AnsweredOnce, OneWinnerPerHead, AnswersGrounded,
           NEW answer, Answers' \subseteq Answers \cup {answer},
           db.space = "live", db'.space = "live",
           db.operations \subseteq db'.operations,
           db' \in Tables, Verified(db'),
           answer.operation \in db'.operations,
           BodyOf(answer.operation).operationId = answer.request.operationId,
           SameContent(answer.operation, answer.request),
           answer.fresh => Parent(answer.operation) = answer.request.expectedHead
    PROVE  /\ AnswersStand' /\ AnsweredOnce'
           /\ OneWinnerPerHead' /\ AnswersGrounded'
<1>1. \A r \in Answers' :
         /\ r.operation \in db'.operations
         /\ BodyOf(r.operation).operationId = r.request.operationId
         /\ SameContent(r.operation, r.request)
         /\ r.fresh => Parent(r.operation) = r.request.expectedHead
  <2> TAKE r \in Answers'
  <2>1. CASE r \in Answers
    BY <2>1 DEF AnswersStand, SameContent, AnswersGrounded
  <2>2. CASE r = answer
    BY <2>2
  <2> QED
    BY <2>1, <2>2
<1> DEFINE t == db'
<1>2. t \in Tables /\ Verified(t) /\ \A r \in Answers' : r.operation \in t.operations
  BY <1>1
<1>3. AnswersStand'
  BY <1>1 DEF AnswersStand, SameContent, BodyOf
<1>4. AnswersGrounded'
  BY <1>1 DEF AnswersGrounded, Parent, Prefix
<1> HIDE DEF t
<1>5. AnsweredOnce'
  BY <1>1, <1>2, OneChainUnique DEF AnsweredOnce
<1>6. OneWinnerPerHead'
  BY <1>1, <1>2, OneChainUnique DEF OneWinnerPerHead
<1>7. QED
  BY <1>3, <1>4, <1>5, <1>6

\* Steps that neither produce an answer nor shrink the rows of a living space.
LEMMA AnswersQuiet ==
    ASSUME TypeOK, AnswersStand, AnsweredOnce, OneWinnerPerHead, AnswersGrounded,
           receipts' \subseteq Answers,
           \A d \in Clients :
               call'[d] # None /\ call'[d].op = "answer" => call'[d] = call[d],
           db.space # "absent" => db'.space # "absent",
           db.space # "absent" /\ db'.space = "live" =>
               db.space = "live" /\ db.operations \subseteq db'.operations
    PROVE  /\ AnswersStand' /\ AnsweredOnce'
           /\ OneWinnerPerHead' /\ AnswersGrounded'
<1>1. Answers' \subseteq Answers
  BY DEF Answers
<1>2. QED
  BY <1>1, AnswersKept

LEMMA AnswersNext ==
    ASSUME TypeOK, RowsVerify, TypeOK', RowsVerify', TransactionExtends,
           BindingsHeld, AnswersStand, AnsweredOnce, OneWinnerPerHead,
           AnswersGrounded, [Next]_vars
    PROVE  /\ AnswersStand' /\ AnsweredOnce'
           /\ OneWinnerPerHead' /\ AnswersGrounded'
<1> DEFINE Goal == /\ AnswersStand' /\ AnsweredOnce'
                   /\ OneWinnerPerHead' /\ AnswersGrounded'
<1> USE DEF TypeOK
<1>1. receipts \subseteq Answers
  BY DEF Answers
<1>2. ASSUME NEW c \in Clients, Open(c) PROVE Goal
  BY <1>1, <1>2, AnswersQuiet DEF Open, Tables
<1>3. ASSUME NEW c \in Clients, NEW binding \in Bindings, BindInsert(c, binding)
      PROVE  Goal
  <2>1. /\ db'.space = db.space /\ db'.operations = db.operations
        /\ receipts' = receipts
        /\ \A d \in Clients : call'[d] = call[d] \/ call'[d].op = "bind"
    BY <1>3 DEF BindInsert, Tables
  <2> QED
    BY <1>1, <2>1, AnswersQuiet
<1>4. ASSUME NEW c \in Clients,
             BindCheck(c) \/ ImportReturn(c) \/ ImportRollback(c)
             \/ VerifyCompare(c) \/ Crash(c)
      PROVE  Goal
  <2>1. /\ db' = db /\ receipts' = receipts
        /\ \A d \in Clients : call'[d] = call[d] \/ call'[d] = None
    BY <1>4 DEF BindCheck, ImportReturn, ImportRollback, VerifyCompare, Crash
  <2> QED
    BY <1>1, <2>1, AnswersQuiet
<1>5. ASSUME NEW c \in Clients,
             \/ \E id \in OperationIds, actor \in Actors, instant \in Instants,
                   changes \in ChangeSets : Submit(c, id, actor, instant, changes)
             \/ CommitAppend(c) \/ CommitRefused(c)
             \/ ImportBegin(c) \/ ImportNext(c) \/ Close(c)
      PROVE  Goal
  <2>1. db' = db /\ receipts' = receipts /\ call' = call
    BY <1>5 DEF Submit, CommitAppend, CommitRefused, ImportBegin, ImportNext, Close
  <2> QED
    BY <1>1, <2>1, AnswersQuiet
<1>6. ASSUME NEW c \in Clients, CommitReplay(c) PROVE Goal
  <2>1. PICK operation \in db.operations :
            /\ Replayable(db, request[c], operation)
            /\ call' = [call EXCEPT ![c] =
                  [op |-> "answer",
                   answer |-> [request |-> request[c], operation |-> operation,
                               fresh |-> FALSE]]]
    BY <1>6 DEF CommitReplay
  <2> DEFINE answer == [request |-> request[c], operation |-> operation,
                        fresh |-> FALSE]
  <2>2. /\ db' = db /\ db.space = "live" /\ Verified(db')
        /\ BodyOf(operation).operationId = request[c].operationId
        /\ SameContent(operation, request[c])
    BY <1>6, <2>1 DEF CommitReplay, Replayable, Operable, WithOperationId, RowsVerify
  <2>3. receipts' = receipts
        /\ \A d \in Clients : call'[d] = call[d] \/ call'[d].answer = answer
    BY <1>6, <2>1 DEF CommitReplay
  <2>4. Answers' \subseteq Answers \cup {answer}
    BY <2>3 DEF Answers
  <2>5. answer.operation = operation /\ answer.request = request[c] /\ ~answer.fresh
    OBVIOUS
  <2> HIDE DEF answer
  <2> QED
    BY <2>2, <2>4, <2>5, AnswersGrow
<1>7. ASSUME NEW c \in Clients, PublishCommit(c) PROVE Goal
  <2> DEFINE operation == txn.tables.head
             answer == [request |-> request[c], operation |-> operation,
                        fresh |-> TRUE]
  <2>1. /\ txn # None /\ txn.owner = c /\ txn.kind = "commit" /\ db' = txn.tables
        /\ receipts' = receipts
        /\ \A d \in Clients : call'[d] = call[d] \/ call'[d].answer = answer
    BY <1>7 DEF PublishCommit
  <2>2. /\ request[c] \in CommitRequest /\ db.space = "live" /\ db'.space = "live"
        /\ operation = NewOperation(db, request[c])
        /\ db.head = request[c].expectedHead
        /\ db.operations \subseteq db'.operations
    BY <2>1 DEF TransactionExtends
  <2>3. /\ operation \in Operation /\ Parent(operation) = request[c].expectedHead
        /\ BodyOf(operation).operationId = request[c].operationId
        /\ SameContent(operation, request[c])
    BY <2>2, NewOperationType DEF SameContent
  <2>4. db' \in Tables /\ Verified(db') /\ operation \in db'.operations
    <3>1. db' \in Tables /\ Verified(db') /\ operation = db'.head
      BY <2>1 DEF RowsVerify
    <3>2. operation \in ChainOf(operation)
      BY <2>3, ChainType DEF Operation
    <3> QED
      BY <3>1, <3>2, ChainIsOperations DEF Verified
  <2>5. Answers' \subseteq Answers \cup {answer}
    BY <2>1 DEF Answers
  <2>6. answer.operation = operation /\ answer.request = request[c]
    OBVIOUS
  <2> HIDE DEF answer, operation
  <2> QED
    BY <2>2, <2>3, <2>4, <2>5, <2>6, AnswersGrow
<1>8. ASSUME NEW c \in Clients, Answer(c) PROVE Goal
  <2>1. call[c] # None /\ call[c].op = "answer" /\ call[c].answer \in Answers
    BY <1>8 DEF Answer, Answers
  <2>2. /\ db' = db /\ receipts' = receipts \cup {call[c].answer}
        /\ \A d \in Clients : call'[d] = call[d] \/ call'[d] = None
    BY <1>8 DEF Answer
  <2> QED
    BY <1>1, <2>1, <2>2, AnswersQuiet
<1>9. ASSUME NEW c \in Clients, NEW bundle \in Bundles, ImportCheck(c, bundle)
      PROVE  Goal
  <2>1. /\ db' = db /\ receipts' = receipts
        /\ \A d \in Clients : call'[d] = call[d] \/ call'[d].op = "import"
    BY <1>9 DEF ImportCheck
  <2> QED
    BY <1>1, <2>1, AnswersQuiet
<1>10. ASSUME NEW c \in Clients, PublishImport(c) PROVE Goal
  <2>1. /\ txn # None /\ db' = txn.tables /\ receipts' = receipts
        /\ \A d \in Clients : call'[d] = call[d] \/ call'[d] = None
    BY <1>10 DEF PublishImport, Importing
  <2>2. /\ db.space = "live" /\ db'.space = "live"
        /\ db.operations \subseteq db'.operations
    BY <2>1 DEF TransactionExtends
  <2> QED
    BY <1>1, <2>1, <2>2, AnswersQuiet
<1>11. ASSUME NEW c \in Clients, NEW remote \in Remotes, UpdateSyncState(c, remote)
       PROVE  Goal
  <2>1. /\ db'.space = db.space /\ db'.operations = db.operations
        /\ receipts' = receipts /\ call' = call
    BY <1>11 DEF UpdateSyncState, Tables
  <2> QED
    BY <1>1, <2>1, AnswersQuiet
<1>12. ASSUME NEW c \in Clients, NEW binding \in Bindings,
              PurgeWorkingSpace(c, binding)
       PROVE  Goal
  <2>1. db'.space = "purged" /\ receipts' = receipts /\ call' = call
    BY <1>12 DEF PurgeWorkingSpace, EmptyTables
  <2> QED
    BY <1>1, <2>1, AnswersQuiet
<1>13. ASSUME NEW c \in Clients, VerifyRead(c) PROVE Goal
  <2>1. /\ db' = db /\ receipts' = receipts
        /\ \A d \in Clients : call'[d] = call[d] \/ call'[d].op = "verify"
    BY <1>13 DEF VerifyRead
  <2> QED
    BY <1>1, <2>1, AnswersQuiet
<1>14. CASE UNCHANGED vars
  BY <1>1, <1>14, AnswersQuiet DEF vars
<1>15. QED
  BY <1>2, <1>3, <1>4, <1>5, <1>6, <1>7, <1>8, <1>9, <1>10, <1>11, <1>12,
     <1>13, <1>14 DEF Next

-----------------------------------------------------------------------------
(* The inductive invariant and what follows from it.                       *)

LEMMA InvariantInit == Init => StoreInvariant
<1> SUFFICES ASSUME Init PROVE StoreInvariant
  OBVIOUS
<1>1. Answers = {}
  BY DEF Init, Answers
<1>2. TypeOK /\ RowsVerify
  BY TypeInit, RowsInit
<1>3. TransactionExtends /\ ImportsChecked /\ BindingsAgree /\ BindingsHeld
  BY DEF Init, TransactionExtends, ImportsChecked, BindingsAgree, BindingsHeld,
         EmptyTables
<1>4. AnswersStand /\ AnsweredOnce /\ OneWinnerPerHead /\ AnswersGrounded
  BY <1>1 DEF AnswersStand, AnsweredOnce, OneWinnerPerHead, AnswersGrounded
<1>5. QED
  BY <1>2, <1>3, <1>4 DEF StoreInvariant

LEMMA InvariantNext == StoreInvariant /\ [Next]_vars => StoreInvariant'
<1> SUFFICES ASSUME StoreInvariant, [Next]_vars PROVE StoreInvariant'
  OBVIOUS
<1>1. /\ TypeOK /\ RowsVerify /\ TransactionExtends /\ ImportsChecked
      /\ AnswersStand /\ AnsweredOnce /\ OneWinnerPerHead /\ AnswersGrounded
      /\ BindingsAgree /\ BindingsHeld
  BY DEF StoreInvariant
<1>2. TypeOK'
  BY <1>1, TypeNext
<1>3. RowsVerify'
  BY <1>1, RowsNext
<1>4. TransactionExtends'
  BY <1>1, TransactionNext
<1>5. ImportsChecked'
  BY <1>1, ImportsNext
<1>6. BindingsAgree' /\ BindingsHeld'
  BY <1>1, BindingsNext
<1>7. AnswersStand' /\ AnsweredOnce' /\ OneWinnerPerHead' /\ AnswersGrounded'
  BY <1>1, <1>2, <1>3, AnswersNext
<1>8. QED
  BY <1>2, <1>3, <1>4, <1>5, <1>6, <1>7 DEF StoreInvariant

\* The store keeps rows, transaction, answers and bindings consistent, whatever
\* number of processes share the file and however they interleave and die.
THEOREM StoreConsistent == Spec => []StoreInvariant
<1>1. Init => StoreInvariant
  BY InvariantInit
<1>2. StoreInvariant /\ [Next]_vars => StoreInvariant'
  BY InvariantNext
<1>3. QED
  BY <1>1, <1>2, PTL DEF Spec

\* Every variable keeps its type.
THEOREM TypeCorrect == Spec => []TypeOK
<1>1. StoreInvariant => TypeOK
  BY DEF StoreInvariant
<1>2. QED
  BY <1>1, StoreConsistent, PTL

\* verifyReplay's comparison holds of the committed and the working rows.
THEOREM RowsAlwaysVerify == Spec => []RowsVerify
<1>1. StoreInvariant => RowsVerify
  BY DEF StoreInvariant
<1>2. QED
  BY <1>1, StoreConsistent, PTL

\* An answered operation stays on the authority chain with the content asked
\* for.
THEOREM AnswersAlwaysStand == Spec => []AnswersStand
<1>1. StoreInvariant => AnswersStand
  BY DEF StoreInvariant
<1>2. QED
  BY <1>1, StoreConsistent, PTL

\* commit is idempotent by operation identifier.
THEOREM CommitIdempotent == Spec => []AnsweredOnce
<1>1. StoreInvariant => AnsweredOnce
  BY DEF StoreInvariant
<1>2. QED
  BY <1>1, StoreConsistent, PTL

\* commit is a compare-and-swap: one winner for each reviewed head.
THEOREM CommitOnReviewedHead == Spec => []OneWinnerPerHead
<1>1. StoreInvariant => OneWinnerPerHead
  BY DEF StoreInvariant
<1>2. QED
  BY <1>1, StoreConsistent, PTL

\* bind's insert and read-back agree on one binding.
THEOREM BindAgreement == Spec => []BindingsAgree
<1>1. StoreInvariant => BindingsAgree
  BY DEF StoreInvariant
<1>2. QED
  BY <1>1, StoreConsistent, PTL

-----------------------------------------------------------------------------
(* The schema's constraints.                                               *)

\* On verified rows every constraint of the schema holds of an accepted
\* operation whose parent is the head.
LEMMA AcceptedPersists ==
    ASSUME NEW t \in Tables, NEW operation \in Operation, Verified(t),
           t.head = Parent(operation),
           WithOperationId(t, BodyOf(operation).operationId) = {},
           Accepts(t.records, BodyOf(operation).changes)
    PROVE  Persistable(t, operation)
<1> DEFINE changes == BodyOf(operation).changes
           after == Transition(t.records, changes)
<1>1. /\ changes \in ChangeSets /\ t.records \in Snapshot /\ t.head \in History
      /\ t.operations \subseteq Operation
  BY OperationType DEF Body, Tables
<1>2. DOMAIN changes \subseteq Keys /\ PutKeys(changes) \subseteq DOMAIN changes
  BY <1>1, ChangeType
<1>3. /\ \A k \in PutKeys(changes) :
             after[k] = changes[k].record /\ after[k] # NoRecord
      /\ \A k \in DOMAIN changes \ PutKeys(changes) : after[k] = NoRecord
      /\ \A k \in Keys \ DOMAIN changes : after[k] = t.records[k]
  BY <1>1, <1>2, TransitionAt
<1>4. Closed(after)
  BY DEF Accepts
<1>5. UniqueKeysHold(t, operation)
  <2>1. \A o \in t.operations : Len(o) <= Len(t.head)
    BY <1>1, ChainType, ChainIsOperations DEF Verified
  <2>2. /\ Len(t.head) = Len(operation) - 1 /\ Len(operation) \in Nat
        /\ \A o \in t.operations : Len(o) \in Nat
    BY <1>1, OperationType
  <2>3. \A o \in t.operations : Len(o) # Len(operation)
    BY <2>1, <2>2
  <2>4. QED
    BY <2>3 DEF UniqueKeysHold, WithOperationId
<1> HIDE DEF after, changes
<1>6. \A e \in t.dependencies :
          e[1] \notin DOMAIN changes => e[2] \notin DOMAIN changes \ PutKeys(changes)
  <2>1. t.dependencies = {e \in Present(t.records) \X Keys :
                            e[2] \in t.records[e[1]].dependencies}
    BY DEF Verified, DependenciesMatchReplay
  <2>2. SUFFICES ASSUME NEW e \in t.dependencies, e[1] \notin DOMAIN changes
                 PROVE  e[2] \notin DOMAIN changes \ PutKeys(changes)
    OBVIOUS
  <2>3. /\ e[1] \in Keys /\ t.records[e[1]] # NoRecord
        /\ e[2] \in t.records[e[1]].dependencies
    BY <2>1, <2>2 DEF Present
  <2>4. e[1] \in Present(after) /\ e[2] \in after[e[1]].dependencies
    BY <1>3, <2>2, <2>3 DEF Present
  <2>5. after[e[2]] # NoRecord
    BY <1>4, <2>4 DEF Closed, Present
  <2>6. QED
    BY <1>3, <2>5
<1>7. \A k \in PutKeys(changes) : changes[k].record.dependencies \subseteq Present(after)
  <2>1. \A k \in PutKeys(changes) : k \in Present(after)
    BY <1>2, <1>3 DEF Present
  <2>2. QED
    BY <1>3, <1>4, <2>1 DEF Closed
<1>8. ForeignKeysHold(t, changes)
  BY <1>6, <1>7 DEF ForeignKeysHold, after
<1>9. QED
  BY <1>5, <1>8 DEF Persistable, changes

\* The code's own checks are as strong as the schema: no constraint error can
\* surface from persist.
THEOREM ConstraintsNeverFail == Spec => []ConstraintsNeverTrip
<1>1. StoreInvariant => ConstraintsNeverTrip
  <2> SUFFICES ASSUME StoreInvariant PROVE ConstraintsNeverTrip
    OBVIOUS
  <2>1. /\ TypeOK /\ RowsVerify /\ TransactionExtends /\ ImportsChecked
        /\ db \in Tables /\ Verified(db)
    BY DEF StoreInvariant, TypeOK, RowsVerify
  <2>2. ASSUME NEW c \in Clients, InCommit(c), Appendable(db, request[c])
        PROVE  Persistable(db, NewOperation(db, request[c]))
    <3> DEFINE operation == NewOperation(db, request[c])
    <3>1. request[c] \in CommitRequest
      BY <2>1, <2>2 DEF InCommit, TypeOK
    <3>2. /\ operation \in Operation /\ db.head = Parent(operation)
          /\ BodyOf(operation).operationId = request[c].operationId
          /\ BodyOf(operation).changes = request[c].changes
      BY <2>1, <3>1, NewOperationType
    <3> HIDE DEF operation
    <3>3. Persistable(db, operation)
      BY <2>1, <2>2, <3>2, AcceptedPersists DEF Appendable
    <3> QED
      BY <3>3 DEF operation
  <2>3. ASSUME txn # None, txn.todo # <<>>,
               WithOperationId(txn.tables, BodyOf(Head(txn.todo)).operationId) = {},
               Accepts(txn.tables.records, BodyOf(Head(txn.todo)).changes)
        PROVE  Persistable(txn.tables, Head(txn.todo))
    <3> DEFINE c == txn.owner
               bundle == call[c].bundle
               ops == bundle.operations
               operation == Head(txn.todo)
               t == txn.tables
               left == Len(txn.todo)
               all == Len(ops)
               done == Done(bundle)
    <3>1. /\ txn \in Transaction /\ c \in Clients /\ t \in Tables /\ Verified(t)
          /\ txn.kind \in {"commit", "import"} /\ txn.todo \in Seq(Operation)
      BY <2>1, <2>3 DEF TypeOK, Transaction, RowsVerify
    <3>2. txn.kind = "import"
      BY <2>1, <2>3, <3>1 DEF TransactionExtends
    <3>3. /\ call[c] # None /\ call[c].op = "import"
          /\ done \in 0..all
          /\ \A n \in 1..left : txn.todo[n] = ops[done + n]
          /\ t.head = IF done = 0 THEN bundle.expectedHead ELSE ops[done]
      BY <2>1, <2>3, <3>2 DEF TransactionExtends
    <3>4. Chains(bundle)
      BY <2>1, <3>1, <3>3 DEF ImportsChecked
    <3>5. call[c] \in Call
      BY <2>1, <3>1, <3>3 DEF TypeOK
    <3>6. ops \in Seq(Operation) /\ all \in Nat
      BY <3>3, <3>5, CallType, BundleType, LenProperties
    <3>7. /\ left \in Nat \ {0} /\ operation = txn.todo[1] /\ operation \in Operation
          /\ done = all - left
      BY <2>3, <3>1, EmptySeq, HeadTailProperties DEF Done
    <3>8. done + 1 \in 1..all /\ 1 \in 1..left
      <4> HIDE DEF done, all, left
      <4> QED
        BY SMTT(30), <3>3, <3>6, <3>7
    <3>9. operation = ops[done + 1]
      BY <3>3, <3>7, <3>8
    <3>10. Parent(ops[done + 1])
               = IF done + 1 = 1 THEN bundle.expectedHead ELSE ops[(done + 1) - 1]
      <4> HIDE DEF done
      <4> QED
        BY <3>4, <3>8 DEF Chains
    <3>11. (done + 1 = 1 <=> done = 0) /\ (done + 1) - 1 = done
      <4> HIDE DEF done, all, left
      <4> QED
        BY <3>3, <3>6
    <3>12. t.head = Parent(operation)
      BY <3>3, <3>9, <3>10, <3>11
    <3>13. QED
      BY <2>3, <3>1, <3>7, <3>12, AcceptedPersists
  <2>4. QED
    BY <2>2, <2>3 DEF ConstraintsNeverTrip
<1>2. QED
  BY <1>1, StoreConsistent, PTL

\* The store is consistent at all times, and the schema's constraints agree with
\* the code's own checks, whatever its processes do and however they die.
THEOREM StoreAlwaysSound == Spec => []StoreSound
<1>1. StoreInvariant /\ ConstraintsNeverTrip => StoreSound
  BY DEF StoreSound
<1>2. QED
  BY <1>1, StoreConsistent, ConstraintsNeverFail, PTL

-----------------------------------------------------------------------------
(* What a step may never do.                                               *)

\* A purged space is never written again.
THEOREM PurgeFinal == Spec => PurgeIsFinal
<1>1. StoreInvariant /\ [Next]_vars => (db.space = "purged" => db' = db)
  <2> SUFFICES ASSUME StoreInvariant, [Next]_vars, db.space = "purged"
               PROVE  db' = db
    OBVIOUS
  <2>1. TransactionExtends /\ BindingsHeld /\ txn = None /\ db.binding = None
    BY DEF StoreInvariant, TransactionExtends, BindingsHeld
  <2>2. \A binding \in Bindings : binding # None
    BY StoreAssumption
  <2>3. QED
    BY <2>1, <2>2, StepCases DEF Quiet, Open, BindInsert, CommitAppend,
       PublishCommit, ImportBegin, ImportNext, PublishImport, Importing,
       UpdateSyncState, PurgeWorkingSpace
<1>2. QED
  BY <1>1, StoreConsistent, PTL DEF Spec, PurgeIsFinal

\* An import publishes its whole interval or nothing.
THEOREM ImportAtomic == Spec => ImportAllOrNothing
<1> DEFINE Whole == \A c \in Clients :
                       Importing(c) /\ db' # db =>
                           LET ops == call[c].bundle.operations
                           IN  db'.head = ops[Len(ops)]
<1>1. StoreInvariant /\ [Next]_vars => Whole
  <2> SUFFICES ASSUME StoreInvariant, [Next]_vars, NEW c \in Clients,
                      Importing(c), db' # db
               PROVE  db'.head
                          = call[c].bundle.operations[Len(call[c].bundle.operations)]
    OBVIOUS
  <2>1. TypeOK /\ TransactionExtends
    BY DEF StoreInvariant
  <2>2. txn # None /\ txn.owner = c /\ txn.kind = "import"
    BY DEF Importing
  <2>3. PICK d \in Clients : PublishCommit(d) \/ PublishImport(d)
    BY <2>2, StepCases DEF Quiet, Open, BindInsert, CommitAppend, InCommit,
       ImportBegin, InImport, ImportNext, UpdateSyncState, PurgeWorkingSpace
  <2>4. db' = txn.tables /\ txn.todo = <<>>
    BY <2>2, <2>3 DEF PublishCommit, PublishImport, Importing
  <2> DEFINE bundle == call[c].bundle
             ops == bundle.operations
             all == Len(ops)
             done == Done(bundle)
  <2>5. /\ call[c] # None /\ call[c].op = "import" /\ ops # <<>>
        /\ txn.tables.head = IF done = 0 THEN bundle.expectedHead ELSE ops[done]
    BY <2>1, <2>2 DEF TransactionExtends
  <2>6. ops \in Seq(Operation) /\ all \in Nat \ {0}
    <3>1. call[c] \in Call
      BY <2>1, <2>5 DEF TypeOK
    <3> QED
      BY <2>5, <3>1, CallType, BundleType, EmptySeq
  <2>7. done = all - 0
    BY <2>4, EmptySeq DEF Done
  <2>8. done = all /\ done # 0
    <3> HIDE DEF all, done
    <3> QED
      BY <2>6, <2>7
  <2>9. QED
    BY <2>4, <2>5, <2>8
<1>2. QED
  BY <1>1, StoreConsistent, PTL DEF Spec, ImportAllOrNothing

-----------------------------------------------------------------------------
(* The rows implement the abstract log.                                    *)

LEMMA LogPrefix ==
    ASSUME NEW h, NEW g
    PROVE  Log!IsPrefixOf(h, g) <=> IsPrefixOf(h, g)
  BY DEF Log!IsPrefixOf, IsPrefixOf, Log!Prefix, Prefix

LEMMA LogReplays ==
    ASSUME NEW h, NEW n
    PROVE  Log!Replays(h, n) <=> Replays(h, n)
<1>1. \A S : Log!Cardinality(S) = Cardinality(S)
  BY DEF Log!Cardinality, Cardinality
<1>2. \A r : Log!Present(r) = Present(r)
  BY DEF Log!Present, Present
<1>3. \A c : Log!PutKeys(c) = PutKeys(c)
  BY DEF Log!PutKeys, PutKeys
<1>4. \A r, c : Log!Transition(r, c) = Transition(r, c)
  BY DEF Log!Transition, Transition
<1>5. \A r : Log!Closed(r) <=> Closed(r)
  BY <1>2 DEF Log!Closed, Closed
<1>6. \A r, c : Log!PriorMatches(r, c) <=> PriorMatches(r, c)
  BY <1>3 DEF Log!PriorMatches, PriorMatches
<1>7. \A r, c : Log!Accepts(r, c) <=> Accepts(r, c)
  BY <1>1, <1>2, <1>4, <1>5, <1>6 DEF Log!Accepts, Accepts
<1>8. \A i : Log!RecordsAt(h, i) = RecordsAt(h, i)
  BY DEF Log!RecordsAt, RecordsAt, Log!EmptySnapshot, EmptySnapshot
<1>9. QED
  BY <1>4, <1>7, <1>8 DEF Log!Replays, Replays

LEMMA LogValid ==
    ASSUME NEW h
    PROVE  Log!ValidHistory(h) <=> ValidHistory(h)
  BY LogReplays DEF Log!ValidHistory, ValidHistory

\* Every step of the store is a creation, an atomic extension or the purge of
\* one append-only log, or leaves the log alone.
THEOREM StoreImplementsLog == Spec => ImplementsLog
<1>1. Init => Log!LogInit
  BY DEF Init, EmptyTables, Log!LogInit
<1>2. StoreInvariant /\ [Next]_vars => [Log!LogNext]_(Log!logVars)
  <2> SUFFICES ASSUME StoreInvariant, [Next]_vars
               PROVE  [Log!LogNext]_(Log!logVars)
    OBVIOUS
  <2>1. TypeOK /\ RowsVerify /\ TransactionExtends /\ BindingsHeld /\ db \in Tables
    BY DEF StoreInvariant, TypeOK
  <2> USE DEF Log!logVars
  <2>2. CASE db' = db
    BY <2>2
  <2>3. ASSUME NEW c \in Clients, Open(c) PROVE Log!Create \/ UNCHANGED Log!logVars
    <3>1. /\ db.space \in {"absent", "live"} /\ db'.space = "live"
          /\ db'.head = db.head /\ db'.receipt = db.receipt
      BY <2>1, <2>3 DEF Open, Tables
    <3> QED
      BY <3>1 DEF Log!Create
  <2>4. ASSUME NEW c \in Clients,
               \/ \E binding \in Bindings : BindInsert(c, binding)
               \/ \E remote \in Remotes : UpdateSyncState(c, remote)
        PROVE  UNCHANGED Log!logVars
    BY <2>1, <2>4 DEF BindInsert, UpdateSyncState, Tables
  <2>5. ASSUME NEW c \in Clients, PublishCommit(c) \/ PublishImport(c),
               db'.head # db.head
        PROVE  Log!Extend
    <3>1. txn # None /\ db' = txn.tables
      BY <2>5 DEF PublishCommit, PublishImport, Importing
    <3>2. /\ db.space = "live" /\ db'.space = db.space /\ db'.receipt = db.receipt
          /\ IsPrefixOf(db.head, db'.head) /\ ValidHistory(db'.head)
      BY <2>1, <3>1 DEF TransactionExtends, RowsVerify, Verified
    <3> QED
      BY <2>5, <3>2, LogPrefix, LogValid DEF Log!Extend
  <2>6. ASSUME NEW c \in Clients, PublishCommit(c) \/ PublishImport(c),
               db'.head = db.head
        PROVE  UNCHANGED Log!logVars
    <3>1. txn # None /\ db' = txn.tables
      BY <2>6 DEF PublishCommit, PublishImport, Importing
    <3> QED
      BY <2>1, <2>6, <3>1 DEF TransactionExtends
  <2>7. ASSUME NEW c \in Clients, NEW binding \in Bindings,
               PurgeWorkingSpace(c, binding)
        PROVE  Log!PurgeSpace
    <3>1. db.space = "live"
      BY <2>1, <2>7, StoreAssumption DEF PurgeWorkingSpace, BindingsHeld
    <3>2. /\ db'.space = "purged" /\ db'.receipt = {db.head} /\ db'.head = <<>>
      BY <2>7 DEF PurgeWorkingSpace, EmptyTables
    <3> QED
      BY <3>1, <3>2 DEF Log!PurgeSpace
  <2>8. \A c \in Clients : CommitAppend(c) \/ ImportBegin(c) \/ ImportNext(c)
                              => db' = db
    BY DEF CommitAppend, ImportBegin, ImportNext
  <2>9. QED
    BY <2>2, <2>3, <2>4, <2>5, <2>6, <2>7, <2>8, StepCases DEF Quiet, Log!LogNext
<1>3. QED
  BY <1>1, <1>2, StoreConsistent, PTL DEF Spec, ImplementsLog, Log!LogSpec

-----------------------------------------------------------------------------
(* Replication: what import recognises as already there.                   *)

\* The parent of an operation of a chain is in the chain, if it is one.
LEMMA ChainParent ==
    ASSUME NEW history \in History, NEW operation \in ChainOf(history),
           Parent(operation) # <<>>
    PROVE  Parent(operation) \in ChainOf(history)
<1>1. PICK n \in 1..Len(history) : operation = Prefix(history, n)
  BY DEF ChainOf
<1>2. Len(history) \in Nat /\ n \in 0..Len(history) /\ n - 1 \in 0..n
  BY LenType
<1>3. Len(operation) = n
  BY <1>1, <1>2, PrefixType
<1>4. Parent(operation) = Prefix(history, n - 1)
  BY <1>1, <1>2, <1>3, PrefixOfPrefix DEF Parent
<1>5. n - 1 # 0
  <2>1. SUFFICES ASSUME n - 1 = 0 PROVE FALSE
    OBVIOUS
  <2>2. Prefix(history, 0) \in History /\ Len(Prefix(history, 0)) = 0
    BY <1>2, PrefixType
  <2>3. QED
    BY <1>4, <2>1, <2>2, LenType
<1>6. QED
  BY <1>2, <1>4, <1>5 DEF ChainOf

\* An interval whose last operation is on a chain is on it as a whole: by
\* induction from its last operation to its first.
LEMMA IntervalOnChain ==
    ASSUME NEW history \in History, NEW ops \in Seq(Operation), ops # <<>>,
           \A n \in 2..Len(ops) : Parent(ops[n]) = ops[n - 1],
           ops[Len(ops)] \in ChainOf(history)
    PROVE  \A n \in 1..Len(ops) : ops[n] \in ChainOf(history)
<1> DEFINE S == {n \in Nat : n < Len(ops) => ops[Len(ops) - n] \in ChainOf(history)}
<1>1. Len(ops) \in Nat
  BY LenProperties
<1>2. 0 \in S
  BY <1>1
<1>3. ASSUME NEW n \in Nat, n \in S PROVE n + 1 \in S
  <2>1. SUFFICES ASSUME n + 1 < Len(ops)
                 PROVE  ops[Len(ops) - (n + 1)] \in ChainOf(history)
    OBVIOUS
  <2>2. DEFINE m == Len(ops) - n
  <2>3. m \in 2..Len(ops) /\ m - 1 \in 1..Len(ops) /\ Len(ops) - (n + 1) = m - 1
    BY <1>1, <2>1
  <2>4. ops[m] \in ChainOf(history)
    BY <1>3, <2>1, <1>1
  <2> HIDE DEF m
  <2>5. Parent(ops[m]) = ops[m - 1] /\ ops[m - 1] \in Operation
    BY <2>3, ElementOfSeq
  <2>6. ops[m - 1] # <<>>
    BY <2>5 DEF Operation
  <2>7. QED
    BY <2>3, <2>4, <2>5, <2>6, ChainParent
<1> HIDE DEF S
<1>4. Nat \subseteq S
  BY <1>2, <1>3, SetInduction
<1>5. SUFFICES ASSUME NEW n \in 1..Len(ops) PROVE ops[n] \in ChainOf(history)
  OBVIOUS
<1>6. Len(ops) - n \in Nat /\ Len(ops) - n < Len(ops) /\ Len(ops) - (Len(ops) - n) = n
  BY <1>1
<1>7. QED
  BY <1>4, <1>6 DEF S

\* importOperations recognises a bundle it already has, however far the chain
\* has grown since.
THEOREM ReplayRecognised == Spec => []ExactReplayRecognised
<1>1. ASSUME StoreInvariant PROVE ExactReplayRecognised
  <2>1. SUFFICES ASSUME NEW bundle \in Bundles, db.space = "live", Chains(bundle),
                        bundle.operations # <<>>,
                        bundle.operations[Len(bundle.operations)] \in db.operations
                 PROVE  AlreadyPresent(db, bundle)
    BY DEF ExactReplayRecognised
  <2> DEFINE ops == bundle.operations
             N == Len(ops)
  <2>2. /\ db \in Tables /\ db.head \in History
        /\ db.operations = ChainOf(db.head)
    <3>1. db \in Tables /\ OneChain(db)
      BY <1>1 DEF StoreInvariant, TypeOK, RowsVerify, Verified
    <3>2. QED
      BY <3>1, ChainIsOperations DEF Tables
  <2>3. ops \in Seq(Operation) /\ bundle.expectedHead \in History
    BY BundleType, StoreAssumption DEF Interval
  <2>4. N \in Nat /\ 1 \in 1..N /\ N \in 1..N
    BY <2>1, <2>3, LenProperties, EmptySeq
  <2>5. /\ \A n \in 2..N : Parent(ops[n]) = ops[n - 1]
        /\ Parent(ops[1]) = bundle.expectedHead
    BY <2>1, <2>4 DEF Chains
  <2> HIDE DEF ops, N
  <2>6. \A n \in 1..N : ops[n] \in ChainOf(db.head)
    BY <2>1, <2>2, <2>3, <2>5, IntervalOnChain DEF ops, N
  <2>7. Len(db.head) \in Nat
    BY <2>2, LenType
  <2>8. db.head # <<>>
    <3>1. Len(db.head) # 0
      BY <2>4, <2>6 DEF ChainOf
    <3>2. QED
      BY <2>2, <3>1, LenType
  <2>9. Operable(db)
    BY <2>1, <2>2, <2>8, ChainCardinality, ChainType DEF Operable, HeadAuthority
  <2>10. HasHead(db, bundle.expectedHead)
    BY <2>2, <2>4, <2>5, <2>6, ChainParent DEF HasHead
  <2>11. db.head # bundle.expectedHead
    <3>1. ops[1] \in Operation /\ Len(ops[1]) <= Len(db.head)
      BY <2>2, <2>4, <2>6, ChainType
    <3>2. Len(bundle.expectedHead) = Len(ops[1]) - 1 /\ Len(ops[1]) \in Nat
      BY <2>5, <3>1, OperationType
    <3>3. QED
      BY <2>7, <3>1, <3>2
  <2>12. Len(db.head) >= Len(ops[N])
    <3>1. ops[N] \in Operation /\ Len(ops[N]) <= Len(db.head)
      BY <2>2, <2>4, <2>6, ChainType
    <3>2. QED
      BY <2>7, <3>1, OperationType
  <2>13. Reachable(db, ops[N])
    <3>1. PICK n \in 1..Len(db.head) : ops[N] = Prefix(db.head, n)
      BY <2>4, <2>6 DEF ChainOf
    <3>2. Len(ops[N]) = n
      BY <2>2, <2>7, <3>1, PrefixType
    <3>3. \A m \in n..Len(db.head) : Prefix(db.head, m) \in db.operations
      BY <2>2, <2>7 DEF ChainOf
    <3>4. QED
      BY <2>12, <3>1, <3>2, <3>3 DEF Reachable
  <2>14. QED
    BY <2>1, <2>2, <2>6, <2>9, <2>10, <2>11, <2>12, <2>13 DEF AlreadyPresent, ops, N
<1>2. QED
  BY <1>1, StoreConsistent, PTL
=============================================================================
