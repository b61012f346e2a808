------------------------- MODULE OhLibSqlStoreProofs -------------------------
(***************************************************************************)
(* Theorems about every instance of OhLibSqlStore: any number of           *)
(* authorities, callers and purge workers, batches that execute late, and  *)
(* crashes.                                                                *)
(*                                                                         *)
(* Structure says where each workflow is and what its owner counts.  Sound *)
(* says what workflows, programs and answers rely on between two requests: *)
(* the rows replay, and their history only grows (ExecutedSound).          *)
(***************************************************************************)
EXTENDS OhLibSqlStore, OhGraphProofs, FiniteSetTheorems

-----------------------------------------------------------------------------
(* Types.                                                                  *)

LEMMA BatchType ==
    ASSUME NEW batch \in Batch
    PROVE  /\ batch.kind \in {"create", "commit", "purge", "fence"}
           /\ batch.kind = "create" => batch.binding \in Bindings
           /\ batch.kind = "commit" => batch.operation \in Operation
           /\ batch.kind \in {"purge", "fence"} => batch.receipt \in PurgeReceipt
  BY DEF Batch

LEMMA ReceiptType ==
    ASSUME NEW receipt \in PurgeReceipt
    PROVE  /\ receipt # None
           /\ receipt.binding \in Bindings /\ receipt.priorHead \in History
           /\ receipt.purgedAt \in PurgeInstants
  BY NoneAssumption DEF PurgeReceipt

LEMMA CallType ==
    ASSUME NEW p \in Call
    PROVE  /\ p # None
           /\ p.op = "sent" =>
                 /\ p.batch \in Batch /\ p.attempt \in 0..PurgeAttempts
                 /\ p.reply \in {"waiting", "done", "failed"}
           /\ p.op = "prove" =>
                 /\ p.operation \in Operation /\ p.head \in History
                 /\ p.recovering \in BOOLEAN
           /\ p.op \in {"snapshot", "verify", "verifyRows"} => p.head \in History
           /\ p.op = "raced" =>
                 p.operation \in Operation /\ p.found \in Operation \cup {None}
           /\ p.op \in {"purgeRead", "purgeHead", "fenceRead"} =>
                 /\ p.binding \in Bindings /\ p.at \in PurgeInstants
                 /\ p.attempt \in 1..PurgeAttempts
           /\ p.op = "check" => p.receipt \in PurgeReceipt
           /\ p.op = "end" => p.outcome \in Outcome
<1>1. p # None
  BY NoneAssumption
<1>2. QED
  BY <1>1 DEF Call

\* The states a workflow is put in.
LEMMA EndType ==
    ASSUME NEW outcome \in Outcome
    PROVE  [op |-> "end", outcome |-> outcome] \in Call
  BY DEF Call

LEMMA SentType ==
    ASSUME NEW batch \in Batch, NEW attempt \in 0..PurgeAttempts,
           NEW reply \in {"waiting", "done", "failed"}
    PROVE  [op |-> "sent", batch |-> batch, attempt |-> attempt,
            reply |-> reply] \in Call
  BY DEF Call

LEMMA FirstSentType ==
    ASSUME NEW batch \in Batch
    PROVE  [op |-> "sent", batch |-> batch, attempt |-> 0,
            reply |-> "waiting"] \in Call
<1>1. 0 \in 0..PurgeAttempts
  BY LibSqlAssumption
<1>2. QED
  BY <1>1, SentType

LEMMA PurgeCallType ==
    ASSUME NEW op \in {"purgeRead", "purgeHead", "fenceRead"}, NEW binding \in Bindings,
           NEW at \in PurgeInstants, NEW attempt \in 1..PurgeAttempts
    PROVE  PurgeCall(op, binding, at, attempt) \in Call
  BY DEF Call, PurgeCall

LEMMA RepliedType ==
    ASSUME NEW p \in Call, p.op = "sent", NEW reply \in {"waiting", "done", "failed"}
    PROVE  /\ [p EXCEPT !.reply = reply] \in Call
           /\ [p EXCEPT !.reply = reply].op = "sent"
           /\ [p EXCEPT !.reply = reply].batch = p.batch
           /\ [p EXCEPT !.reply = reply].attempt = p.attempt
           /\ [p EXCEPT !.reply = reply].reply = reply
<1>1. p \in [op: {"sent"}, batch: Batch, attempt: 0..PurgeAttempts,
             reply: {"waiting", "done", "failed"}]
  BY DEF Call
<1>2. [p EXCEPT !.reply = reply] =
          [op |-> "sent", batch |-> p.batch, attempt |-> p.attempt, reply |-> reply]
  BY <1>1
<1>3. p.batch \in Batch /\ p.attempt \in 0..PurgeAttempts
  BY <1>1
<1>4. [op |-> "sent", batch |-> p.batch, attempt |-> p.attempt, reply |-> reply]
          \in Call
  BY <1>3, SentType
<1>5. QED
  BY <1>2, <1>4

LEMMA EmptyRowsType == EmptyRows \in Rows
<1>1. EmptySnapshot \in Snapshot
  BY DEF EmptySnapshot, Snapshot
<1>2. QED
  BY <1>1, EmptyHistory DEF EmptyRows, Rows

LEMMA PersistRowsType ==
    ASSUME rows \in Rows, NEW operation \in Operation
    PROVE  PersistRows(operation) \in Rows
<1> DEFINE changes == BodyOf(operation).changes
<1>1. changes \in ChangeSets
  BY OperationType DEF Body
<1>2. /\ DOMAIN changes \subseteq Keys /\ PutKeys(changes) \subseteq Keys
      /\ operation \in History /\ <<>> \in History
  BY <1>1, ChangeType, OperationType, EmptyHistory
<1>3. Transition(rows.records, changes) \in Snapshot
  BY <1>1, TransitionType DEF Rows
<1>4. {operation} \X DOMAIN changes \subseteq Operation \X Keys
  BY <1>2
<1> DEFINE writer == [k \in Keys |-> IF k \in PutKeys(changes) THEN operation
                                    ELSE IF k \in DOMAIN changes THEN <<>>
                                    ELSE rows.writer[k]]
           dependencies ==
               {e \in rows.dependencies : e[1] \notin DOMAIN changes}
               \cup {e \in PutKeys(changes) \X Keys :
                        e[2] \in changes[e[1]].record.dependencies}
<1>5. writer \in [Keys -> History]
  BY <1>2 DEF Rows
<1>6. dependencies \subseteq Keys \X Keys
  BY <1>2 DEF Rows
<1>7. /\ rows.operations \cup {operation} \subseteq Operation
      /\ rows.revisions \cup ({operation} \X DOMAIN changes) \subseteq Operation \X Keys
  BY <1>4 DEF Rows
<1>8. PersistRows(operation) =
          [rows EXCEPT !.head = operation,
              !.operations = rows.operations \cup {operation},
              !.records = Transition(rows.records, changes), !.writer = writer,
              !.revisions = rows.revisions \cup ({operation} \X DOMAIN changes),
              !.dependencies = dependencies]
  BY DEF PersistRows
<1> HIDE DEF changes, writer, dependencies
<1>9. /\ rows.live \in BOOLEAN /\ rows.binding \in Bindings \cup {None}
      /\ rows.purge \in PurgeReceipt \cup {None}
      /\ rows = [live |-> rows.live, head |-> rows.head, binding |-> rows.binding,
                 operations |-> rows.operations, records |-> rows.records,
                 writer |-> rows.writer, revisions |-> rows.revisions,
                 dependencies |-> rows.dependencies, purge |-> rows.purge]
  BY DEF Rows
<1>10. PersistRows(operation) =
          [live |-> rows.live, head |-> operation, binding |-> rows.binding,
           operations |-> rows.operations \cup {operation},
           records |-> Transition(rows.records, changes), writer |-> writer,
           revisions |-> rows.revisions \cup ({operation} \X DOMAIN changes),
           dependencies |-> dependencies, purge |-> rows.purge]
  BY <1>8, <1>9
<1>11. QED
  BY SMTT(30), <1>2, <1>3, <1>5, <1>6, <1>7, <1>9, <1>10 DEF Rows

LEMMA ExecutedType ==
    ASSUME rows \in Rows, NEW batch \in Batch
    PROVE  Executed(batch) \in Rows
<1>1. CASE batch.kind = "create"
  <2>1. [rows EXCEPT !.live = TRUE, !.binding = batch.binding] \in Rows
    BY <1>1, BatchType DEF Rows
  <2> QED
    BY <1>1, <2>1 DEF Executed, Effect
<1>2. CASE batch.kind = "commit"
  BY <1>2, BatchType, PersistRowsType DEF Executed, Effect
<1>3. CASE batch.kind \in {"purge", "fence"}
  <2>1. [EmptyRows EXCEPT !.purge = batch.receipt] \in Rows
    BY <1>3, BatchType, EmptyRowsType DEF Rows
  <2> QED
    BY <1>3, <2>1 DEF Executed, Effect
<1>4. QED
  BY <1>1, <1>2, <1>3, BatchType

-----------------------------------------------------------------------------
(* Who is where: which program a workflow runs in, and what its owner      *)
(* counts.                                                                 *)

IsSent(p, kind) == p.op = "sent" /\ p.batch.kind = kind

OfCommit(p) == p.op \in {"prove", "snapshot", "raced"} \/ IsSent(p, "commit")

OfVerify(p) == p.op \in {"verify", "verifyRows"}

OfFence(p) == p.op = "fenceRead" \/ IsSent(p, "fence")

\* A workflow that runs in an open program.
Inside(p) == p.op # "end" /\ ~IsSent(p, "create")

Attached ==
    \A c \in Callers : call[c] # None =>
        /\ OfCommit(call[c]) => c \in Users /\ request[c] # None
        /\ OfVerify(call[c]) => c \in Users
        /\ OfFence(call[c]) => c \notin Users
        /\ IsSent(call[c], "create") =>
              /\ c \in Users /\ ProgramOf(c) = None
              /\ \A d \in UsersOf(AuthorityOf[c]) : d # c => call[d] = None
        /\ c \in Users /\ Inside(call[c]) => ProgramOf(c) # None

\* The callers of a that are under way in the calls cs.
Busy(cs, a) == {c \in UsersOf(a) : cs[c] # None}

Counted ==
    \A a \in Authorities :
        /\ handle[a] # None =>
              active[a] = Cardinality(Busy(call, a)) /\ ~clientClosed[a]
        /\ drained[a] /\ ~clientClosed[a] =>
              handle[a] # None /\ closing[a] /\ active[a] = 0

Structure == TypeOK /\ Attached /\ Counted

\* What a workflow may go on to.
Follows(old, new) ==
    /\ OfCommit(new) => OfCommit(old)
    /\ OfVerify(new) => OfVerify(old)
    /\ OfFence(new) => OfFence(old)
    /\ IsSent(new, "create") => IsSent(old, "create")
    /\ Inside(new) => Inside(old)

SameHandles ==
    /\ handle' \in [Authorities -> Program \cup {None}]
    /\ \A a \in Authorities : handle'[a] = None <=> handle[a] = None

\* What a step leaves well typed besides calls, handles and owners.
DataTyped ==
    /\ rows' \in Rows /\ late' \subseteq Batch
    /\ answers' \subseteq Answer /\ receipts' \subseteq PurgeReceipt

LEMMA UserAuthority ==
    ASSUME NEW c \in Users
    PROVE  c \in Callers /\ AuthorityOf[c] \in Authorities /\ c \in UsersOf(AuthorityOf[c])
  BY LibSqlAssumption DEF Users, UsersOf

LEMMA CallKnown ==
    ASSUME Structure, NEW c \in Callers, call[c] # None
    PROVE  call[c] \in Call
  BY DEF Structure, TypeOK

\* A workflow goes on in the program it runs in.
LEMMA Continues ==
    ASSUME Structure, NEW c \in Callers, NEW p \in Call, call[c] # None,
           call' = [call EXCEPT ![c] = p], Follows(call[c], p),
           SameHandles, DataTyped, UNCHANGED <<request, ownerVars>>
    PROVE  Structure'
<1>1. p # None /\ call'[c] = p /\ \A d \in Callers : d # c => call'[d] = call[d]
  BY CallType DEF Structure, TypeOK
<1>2. TypeOK'
  BY DEF Structure, TypeOK, SameHandles, DataTyped, ownerVars, OwnerTypeOK
<1>3. Attached'
  <2>1. SUFFICES ASSUME NEW d \in Callers, call'[d] # None
                 PROVE  /\ OfCommit(call'[d]) => d \in Users /\ request'[d] # None
                        /\ OfVerify(call'[d]) => d \in Users
                        /\ OfFence(call'[d]) => d \notin Users
                        /\ IsSent(call'[d], "create") =>
                              /\ d \in Users /\ ProgramOf(d)' = None
                              /\ \A e \in UsersOf(AuthorityOf[d]) :
                                    e # d => call'[e] = None
                        /\ d \in Users /\ Inside(call'[d]) => ProgramOf(d)' # None
    BY DEF Attached, OfCommit, OfVerify, OfFence, IsSent, Inside
  <2>2. d \in Users => (ProgramOf(d)' = None <=> ProgramOf(d) = None)
    BY UserAuthority DEF SameHandles, ProgramOf
  <2>3. \A e \in Callers : call'[e] = None <=> call[e] = None
    BY <1>1
  <2>4. \A a : UsersOf(a) \subseteq Callers
    BY DEF UsersOf, Users
  <2>5. CASE d = c
    BY <1>1, <2>2, <2>3, <2>4, <2>5 DEF Structure, Attached, Follows
  <2>6. CASE d # c
    BY <1>1, <2>1, <2>2, <2>3, <2>4, <2>6 DEF Structure, Attached
  <2>7. QED
    BY <2>5, <2>6
<1>4. Counted'
  <2>1. \A a \in Authorities : Busy(call', a) = Busy(call, a)
    BY <1>1 DEF Busy, UsersOf, Users
  <2>2. QED
    BY <2>1 DEF Counted, Structure, SameHandles, ownerVars
<1>5. QED
  BY <1>2, <1>3, <1>4 DEF Structure

LEMMA BusyFinite ==
    ASSUME NEW cs, NEW a
    PROVE  IsFiniteSet(Busy(cs, a)) /\ Cardinality(Busy(cs, a)) \in Nat
<1>1. Busy(cs, a) \in SUBSET Callers
  BY DEF Busy, UsersOf, Users
<1>2. QED
  BY <1>1, FS_Subset, FS_CardinalityType, LibSqlAssumption

\* A call of an open program is admitted.
LEMMA Enters ==
    ASSUME Structure, NEW c \in Callers, NEW p \in Call, Enter(c),
           call' = [call EXCEPT ![c] = p], OfCommit(p) => request[c] # None,
           ~OfFence(p), ~IsSent(p, "create"),
           SameHandles, DataTyped, UNCHANGED request
    PROVE  Structure'
<1> DEFINE a == AuthorityOf[c]
<1>1. p # None /\ call'[c] = p /\ \A d \in Callers : d # c => call'[d] = call[d]
  BY CallType DEF Structure, TypeOK
<1>2. /\ c \in Users /\ ProgramOf(c) # None /\ call[c] = None /\ ~closing[a]
      /\ a \in Authorities /\ c \in UsersOf(a)
      /\ active' = [active EXCEPT ![a] = @ + 1]
      /\ UNCHANGED <<closing, drained, clientClosed>>
  BY UserAuthority DEF Enter, Admit
<1>3. active[a] \in Nat /\ active \in [Authorities -> Nat]
  BY <1>2 DEF Structure, TypeOK, OwnerTypeOK
<1>4. TypeOK'
  BY <1>2, <1>3 DEF Structure, TypeOK, SameHandles, DataTyped, OwnerTypeOK
<1>5. \A d \in Users : ProgramOf(d)' = None <=> ProgramOf(d) = None
  BY UserAuthority DEF SameHandles, ProgramOf
<1>6. Attached'
  <2>1. SUFFICES ASSUME NEW d \in Callers, call'[d] # None
                 PROVE  /\ OfCommit(call'[d]) => d \in Users /\ request'[d] # None
                        /\ OfVerify(call'[d]) => d \in Users
                        /\ OfFence(call'[d]) => d \notin Users
                        /\ IsSent(call'[d], "create") =>
                              /\ d \in Users /\ ProgramOf(d)' = None
                              /\ \A e \in UsersOf(AuthorityOf[d]) :
                                    e # d => call'[e] = None
                        /\ d \in Users /\ Inside(call'[d]) => ProgramOf(d)' # None
    BY DEF Attached, OfCommit, OfVerify, OfFence, IsSent, Inside
  <2>2. CASE d = c
    BY <1>1, <1>2, <1>5, <2>2
  <2>3. CASE d # c
    <3>1. call'[d] = call[d] /\ call[d] # None
      BY <1>1, <2>1, <2>3
    <3>2. IsSent(call[d], "create") => c \notin UsersOf(AuthorityOf[d])
      <4>1. \A e \in UsersOf(AuthorityOf[d]) : AuthorityOf[e] = AuthorityOf[d]
        BY DEF UsersOf
      <4> QED
        BY <1>2, <3>1, <4>1 DEF Structure, Attached, ProgramOf
    <3>3. \A e \in UsersOf(AuthorityOf[d]) : e \in Callers
      BY DEF UsersOf, Users
    <3>4. QED
      BY <1>1, <1>5, <3>1, <3>2, <3>3 DEF Structure, Attached
  <2>4. QED
    BY <2>2, <2>3
<1>7. Counted'
  <2>1. SUFFICES ASSUME NEW b \in Authorities
                 PROVE  /\ handle'[b] # None =>
                              /\ active'[b] = Cardinality(Busy(call', b))
                              /\ ~clientClosed'[b]
                        /\ drained'[b] /\ ~clientClosed'[b] =>
                              handle'[b] # None /\ closing'[b] /\ active'[b] = 0
    BY DEF Counted
  <2>2. CASE b = a
    <3>1. Busy(call', b) = Busy(call, b) \cup {c} /\ c \notin Busy(call, b)
      BY <1>1, <1>2, <2>2 DEF Busy, UsersOf, Users
    <3>2. Cardinality(Busy(call', b)) = Cardinality(Busy(call, b)) + 1
      BY <3>1, BusyFinite, FS_AddElement
    <3>3. active'[b] = active[b] + 1
      BY <1>2, <1>3, <2>2
    <3>4. QED
      BY <1>2, <2>2, <3>2, <3>3 DEF Structure, Counted, SameHandles
  <2>3. CASE b # a
    <3>1. Busy(call', b) = Busy(call, b)
      BY <1>1, <1>2, <2>3 DEF Busy, UsersOf, Users
    <3>2. QED
      BY <1>2, <1>3, <2>3, <3>1 DEF Structure, Counted, SameHandles
  <2>4. QED
    BY <2>2, <2>3
<1>8. QED
  BY <1>4, <1>6, <1>7 DEF Structure

\* A call is made that no owner counts: of a worker, or to open.
LEMMA Begins ==
    ASSUME Structure, NEW c \in Callers, NEW p \in Call, call[c] = None,
           call' = [call EXCEPT ![c] = p],
           c \in Users => Opening(c) /\ (IsSent(p, "create") \/ p.op = "end"),
           c \notin Users => p.op \in {"fenceRead", "end"},
           UNCHANGED <<rows, late, handle, request, answers, receipts, ownerVars>>
    PROVE  Structure'
<1>1. p # None /\ call'[c] = p /\ \A d \in Callers : d # c => call'[d] = call[d]
  BY CallType DEF Structure, TypeOK
<1>2. TypeOK'
  BY DEF Structure, TypeOK, ownerVars, OwnerTypeOK
<1>3. c \in Users =>
          /\ ProgramOf(c) = None /\ c \in UsersOf(AuthorityOf[c])
          /\ \A d \in UsersOf(AuthorityOf[c]) : call[d] = None
  BY UserAuthority DEF Opening
<1>4. \A d : ProgramOf(d)' = ProgramOf(d)
  BY DEF ProgramOf
<1>5. Attached'
  <2>1. SUFFICES ASSUME NEW d \in Callers, call'[d] # None
                 PROVE  /\ OfCommit(call'[d]) => d \in Users /\ request'[d] # None
                        /\ OfVerify(call'[d]) => d \in Users
                        /\ OfFence(call'[d]) => d \notin Users
                        /\ IsSent(call'[d], "create") =>
                              /\ d \in Users /\ ProgramOf(d)' = None
                              /\ \A e \in UsersOf(AuthorityOf[d]) :
                                    e # d => call'[e] = None
                        /\ d \in Users /\ Inside(call'[d]) => ProgramOf(d)' # None
    BY DEF Attached, OfCommit, OfVerify, OfFence, IsSent, Inside
  <2>2. \A a : UsersOf(a) \subseteq Users /\ UsersOf(a) \subseteq Callers
    BY DEF UsersOf, Users
  <2>3. CASE d = c
    <3>1. call'[d] = p /\ ~OfCommit(p) /\ ~OfVerify(p)
      BY <1>1, <2>3 DEF OfCommit, OfVerify, IsSent
    <3>2. CASE d \in Users
      <4>1. ~OfFence(p) /\ ~Inside(p)
        BY <2>3, <3>2 DEF OfFence, Inside, IsSent
      <4>2. QED
        BY <1>1, <1>3, <1>4, <2>2, <2>3, <3>1, <3>2, <4>1
    <3>3. CASE d \notin Users
      BY <2>3, <3>1, <3>3 DEF IsSent
    <3>4. QED
      BY <3>2, <3>3
  <2>4. CASE d # c
    <3>1. call'[d] = call[d] /\ call[d] # None
      BY <1>1, <2>1, <2>4
    <3>2. d \in Users /\ IsSent(call[d], "create") => c \notin UsersOf(AuthorityOf[d])
      <4>1. SUFFICES ASSUME d \in Users, c \in UsersOf(AuthorityOf[d]) PROVE FALSE
        OBVIOUS
      <4>2. c \in Users /\ d \in UsersOf(AuthorityOf[c])
        BY <4>1, UserAuthority DEF UsersOf
      <4> QED
        BY <1>3, <3>1, <4>2
    <3>3. QED
      BY <1>1, <1>4, <2>2, <3>1, <3>2 DEF Structure, Attached
  <2>5. QED
    BY <2>3, <2>4
<1>6. Counted'
  <2>1. ASSUME NEW a \in Authorities, handle[a] # None
        PROVE  Busy(call', a) = Busy(call, a)
    <3>1. c \notin UsersOf(a)
      <4>1. c \in UsersOf(a) => c \in Users /\ AuthorityOf[c] = a
        BY DEF UsersOf
      <4> QED
        BY <1>3, <2>1, <4>1 DEF ProgramOf
    <3>2. QED
      BY <1>1, <3>1 DEF Busy, UsersOf, Users
  <2>2. QED
    BY <2>1 DEF Structure, Counted, ownerVars
<1>7. QED
  BY <1>2, <1>5, <1>6 DEF Structure

\* An authority is opened: its owner starts with no call.
LEMMA Opens ==
    ASSUME Structure, NEW c \in Users, NEW binding \in Bindings, Opened(c, binding),
           ProgramOf(c) = None,
           \A d \in UsersOf(AuthorityOf[c]) : d # c => call[d] = None,
           UNCHANGED <<rows, late, request, answers, receipts>>
    PROVE  Structure'
<1> DEFINE a == AuthorityOf[c]
<1>1. /\ c \in Callers /\ a \in Authorities /\ c \in UsersOf(a)
      /\ handle' = [handle EXCEPT ![a] = NewProgram(binding)]
      /\ call' = [call EXCEPT ![c] = None]
      /\ active' = [active EXCEPT ![a] = 0]
      /\ closing' = [closing EXCEPT ![a] = FALSE]
      /\ drained' = [drained EXCEPT ![a] = FALSE]
      /\ clientClosed' = [clientClosed EXCEPT ![a] = FALSE]
  BY UserAuthority DEF Opened, Hold, ResetOwner
<1>2. NewProgram(binding) \in Program
  BY DEF NewProgram, Program
<1>3. TypeOK'
  BY <1>1, <1>2 DEF Structure, TypeOK, OwnerTypeOK
<1>4. /\ call'[c] = None /\ \A d \in Callers : d # c => call'[d] = call[d]
      /\ \A d \in UsersOf(a) : d \in Callers /\ call'[d] = None
  BY <1>1 DEF Structure, TypeOK, UsersOf, Users
<1>5. Attached'
  <2>1. SUFFICES ASSUME NEW d \in Callers, call'[d] # None
                 PROVE  /\ OfCommit(call'[d]) => d \in Users /\ request'[d] # None
                        /\ OfVerify(call'[d]) => d \in Users
                        /\ OfFence(call'[d]) => d \notin Users
                        /\ IsSent(call'[d], "create") =>
                              /\ d \in Users /\ ProgramOf(d)' = None
                              /\ \A e \in UsersOf(AuthorityOf[d]) :
                                    e # d => call'[e] = None
                        /\ d \in Users /\ Inside(call'[d]) => ProgramOf(d)' # None
    BY DEF Attached, OfCommit, OfVerify, OfFence, IsSent, Inside
  <2>2. d # c /\ call'[d] = call[d] /\ d \notin UsersOf(a)
    BY <1>4, <2>1
  <2>3. d \in Users => ProgramOf(d)' = ProgramOf(d)
    <3>1. d \in Users => AuthorityOf[d] # a /\ AuthorityOf[d] \in Authorities
      BY <2>2, UserAuthority DEF UsersOf
    <3> QED
      BY <1>1, <3>1 DEF ProgramOf, Structure, TypeOK
  <2>4. \A e \in UsersOf(AuthorityOf[d]) : e \in Callers
    BY DEF UsersOf, Users
  <2>5. QED
    BY <1>4, <2>1, <2>2, <2>3, <2>4 DEF Structure, Attached
<1>6. Counted'
  <2>1. SUFFICES ASSUME NEW b \in Authorities
                 PROVE  /\ handle'[b] # None =>
                              /\ active'[b] = Cardinality(Busy(call', b))
                              /\ ~clientClosed'[b]
                        /\ drained'[b] /\ ~clientClosed'[b] =>
                              handle'[b] # None /\ closing'[b] /\ active'[b] = 0
    BY DEF Counted
  <2>2. CASE b = a
    <3>1. Busy(call', b) = {}
      BY <1>4, <2>2 DEF Busy
    <3>2. active'[b] = 0 /\ ~clientClosed'[b] /\ ~drained'[b]
      BY <1>1, <2>2 DEF Structure, TypeOK, OwnerTypeOK
    <3>3. QED
      BY <3>1, <3>2, FS_EmptySet
  <2>3. CASE b # a
    <3>1. Busy(call', b) = Busy(call, b)
      BY <1>1, <1>4, <2>3 DEF Busy, UsersOf, Users
    <3>2. /\ active'[b] = active[b] /\ closing'[b] = closing[b]
          /\ drained'[b] = drained[b] /\ clientClosed'[b] = clientClosed[b]
          /\ handle'[b] = handle[b]
      BY <1>1, <2>3 DEF Structure, TypeOK, OwnerTypeOK
    <3>3. QED
      BY <3>1, <3>2 DEF Structure, Counted
  <2>4. QED
    BY <2>2, <2>3
<1>7. QED
  BY <1>3, <1>5, <1>6 DEF Structure

\* Calls end, none begins, and no program goes that another call runs in.
LEMMA Ends ==
    ASSUME Structure, TypeOK', Counted',
           \A c \in Callers : call'[c] # None => call'[c] = call[c],
           \A c \in Users : call'[c] # None => request'[c] = request[c],
           \A c \in Users : call'[c] # None => ProgramOf(c)' = ProgramOf(c)
    PROVE  Structure'
<1>1. Attached'
  <2>1. SUFFICES ASSUME NEW d \in Callers, call'[d] # None
                 PROVE  /\ OfCommit(call'[d]) => d \in Users /\ request'[d] # None
                        /\ OfVerify(call'[d]) => d \in Users
                        /\ OfFence(call'[d]) => d \notin Users
                        /\ IsSent(call'[d], "create") =>
                              /\ d \in Users /\ ProgramOf(d)' = None
                              /\ \A e \in UsersOf(AuthorityOf[d]) :
                                    e # d => call'[e] = None
                        /\ d \in Users /\ Inside(call'[d]) => ProgramOf(d)' # None
    BY DEF Attached, OfCommit, OfVerify, OfFence, IsSent, Inside
  <2>2. \A e \in UsersOf(AuthorityOf[d]) : e \in Callers
    BY DEF UsersOf, Users
  <2>3. \A e \in Callers : call[e] = None => call'[e] = None
    OBVIOUS
  <2>4. QED
    BY <2>1, <2>2, <2>3 DEF Structure, Attached
<1>2. QED
  BY <1>1 DEF Structure

LEMMA Returns ==
    ASSUME Structure, NEW c \in Callers, Return(c)
    PROVE  Structure'
<1> DEFINE a == AuthorityOf[c]
<1>1. /\ call[c] # None /\ call' = [call EXCEPT ![c] = None]
      /\ UNCHANGED <<rows, late, handle, answers, receipts>>
      /\ \/ request' = [request EXCEPT ![c] = None]
         \/ request' = request
  BY DEF Return, At, Hold
<1>2. call'[c] = None /\ \A d \in Callers : d # c => call'[d] = call[d]
  BY <1>1 DEF Structure, TypeOK
<1>3. TypeOK' /\ Counted'
  <2>1. CASE c \in Users /\ ProgramOf(c) # None
    <3>1. /\ active' = [active EXCEPT ![a] = @ - 1]
          /\ drained' = [drained EXCEPT ![a] = @ \/ (active[a] = 1 /\ closing[a])]
          /\ UNCHANGED <<closing, clientClosed>>
          /\ a \in Authorities /\ c \in UsersOf(a)
      BY <2>1, UserAuthority DEF Return, Release
    <3>2. /\ active[a] = Cardinality(Busy(call, a)) /\ ~clientClosed[a]
          /\ handle[a] # None
      BY <2>1, <3>1 DEF ProgramOf, Structure, Counted
    <3>3. c \in Busy(call, a) /\ Busy(call', a) = Busy(call, a) \ {c}
      BY <1>1, <1>2, <3>1 DEF Busy, UsersOf, Users
    <3>4. /\ Cardinality(Busy(call', a)) = Cardinality(Busy(call, a)) - 1
          /\ Cardinality(Busy(call', a)) \in Nat
          /\ Cardinality(Busy(call, a)) \in Nat
      BY <3>3, BusyFinite, FS_RemoveElement
    <3>5. active[a] - 1 \in Nat
      BY <3>2, <3>4
    <3>6. (drained[a] \/ (active[a] = 1 /\ closing[a])) \in BOOLEAN
      OBVIOUS
    <3>7. OwnerTypeOK'
      BY <3>1, <3>5, <3>6 DEF Structure, TypeOK, OwnerTypeOK
    <3>8. TypeOK'
      BY <1>1, <3>7 DEF Structure, TypeOK
    <3>9. Counted'
      <4>1. SUFFICES ASSUME NEW b \in Authorities
                     PROVE  /\ handle'[b] # None =>
                                  /\ active'[b] = Cardinality(Busy(call', b))
                                  /\ ~clientClosed'[b]
                            /\ drained'[b] /\ ~clientClosed'[b] =>
                                  handle'[b] # None /\ closing'[b] /\ active'[b] = 0
        BY DEF Counted
      <4>2. CASE b = a
        <5>1. active'[b] = active[a] - 1
              /\ drained'[b] = (drained[a] \/ (active[a] = 1 /\ closing[a]))
          BY <3>1, <4>2 DEF Structure, TypeOK, OwnerTypeOK
        <5>2. ~drained[a]
          BY <3>1, <3>2, <3>5 DEF Structure, Counted
        <5>3. drained'[b] => active[a] = 1 /\ closing[a]
          BY Zenon, <5>1, <5>2
        <5>4. active'[b] = Cardinality(Busy(call', b))
          BY <3>2, <3>4, <4>2, <5>1
        <5>5. active[a] = 1 => active'[b] = 0
          BY <5>1
        <5>6. handle'[b] # None /\ ~clientClosed'[b] /\ closing'[b] = closing[b]
          BY <1>1, <3>1, <3>2, <4>2
        <5>7. QED
          BY Zenon, <4>2, <5>3, <5>4, <5>5, <5>6
      <4>3. CASE b # a
        <5>1. Busy(call', b) = Busy(call, b)
          BY <1>2, <3>1, <4>3 DEF Busy, UsersOf, Users
        <5>2. active'[b] = active[b] /\ drained'[b] = drained[b]
          BY <3>1, <4>3 DEF Structure, TypeOK, OwnerTypeOK
        <5>3. QED
          BY <1>1, <3>1, <5>1, <5>2 DEF Structure, Counted
      <4>4. QED
        BY <4>2, <4>3
    <3>10. QED
      BY <3>8, <3>9
  <2>2. CASE ~(c \in Users /\ ProgramOf(c) # None)
    <3>1. UNCHANGED ownerVars
      BY <2>2 DEF Return
    <3>2. TypeOK'
      BY <1>1, <3>1 DEF Structure, TypeOK, ownerVars, OwnerTypeOK
    <3>3. \A b \in Authorities : handle[b] # None => Busy(call', b) = Busy(call, b)
      BY <1>2, <2>2 DEF Busy, UsersOf, Users, ProgramOf
    <3>4. Counted'
      BY <1>1, <3>1, <3>3 DEF Structure, Counted, ownerVars
    <3>5. QED
      BY <3>2, <3>4
  <2>3. QED
    BY <2>1, <2>2
<1>4. \A d \in Callers : d # c => request'[d] = request[d]
  BY <1>1 DEF Structure, TypeOK
<1>5. \A d \in Users : ProgramOf(d)' = ProgramOf(d) /\ d \in Callers
  BY <1>1 DEF ProgramOf, Users
<1>6. QED
  BY <1>2, <1>3, <1>4, <1>5, Ends

\* The last call of a drained owner has settled.
LEMMA Drained ==
    ASSUME Structure, NEW a \in Authorities, drained[a], ~clientClosed[a]
    PROVE  handle[a] # None /\ \A c \in UsersOf(a) : call[c] = None
<1>1. handle[a] # None /\ active[a] = 0 /\ active[a] = Cardinality(Busy(call, a))
  BY DEF Structure, Counted
<1>2. Busy(call, a) = {}
  BY <1>1, BusyFinite, FS_EmptySet
<1>3. QED
  BY <1>1, <1>2 DEF Busy

LEMMA Closes ==
    ASSUME Structure, NEW a \in Authorities, Close(a) \/ FinishClose(a)
    PROVE  Structure'
<1>1. CASE Close(a)
  <2>1. /\ handle[a] # None /\ ~closing[a] /\ UNCHANGED storeVars
        /\ closing' = [closing EXCEPT ![a] = TRUE]
        /\ drained' = [drained EXCEPT ![a] = (active[a] = 0)]
        /\ UNCHANGED <<active, clientClosed>>
    BY <1>1 DEF Close, BeginClose
  <2>2. TypeOK'
    BY <2>1 DEF Structure, TypeOK, OwnerTypeOK, storeVars
  <2>3. Counted'
    <3>1. \A b \in Authorities :
              /\ closing'[b] = IF b = a THEN TRUE ELSE closing[b]
              /\ drained'[b] = IF b = a THEN (active[a] = 0) ELSE drained[b]
      BY <2>1 DEF Structure, TypeOK, OwnerTypeOK
    <3>2. \A b : Busy(call', b) = Busy(call, b)
      BY <2>1 DEF Busy, storeVars
    <3>3. QED
      BY <2>1, <3>1, <3>2 DEF Structure, Counted, storeVars
  <2>4. \A c \in Users : ProgramOf(c)' = ProgramOf(c)
    BY <2>1 DEF ProgramOf, storeVars
  <2>5. QED
    BY <2>1, <2>2, <2>3, <2>4, Ends DEF storeVars
<1>2. CASE FinishClose(a)
  <2>1. /\ drained[a] /\ ~clientClosed[a]
        /\ clientClosed' = [clientClosed EXCEPT ![a] = TRUE]
        /\ handle' = [handle EXCEPT ![a] = None]
        /\ UNCHANGED <<active, closing, drained>>
        /\ UNCHANGED <<rows, late, call, request, answers, receipts>>
    BY <1>2 DEF FinishClose, CloseClient
  <2>2. TypeOK'
    BY <2>1 DEF Structure, TypeOK, OwnerTypeOK
  <2>3. Counted'
    <3>1. \A b \in Authorities :
              /\ clientClosed'[b] = IF b = a THEN TRUE ELSE clientClosed[b]
              /\ handle'[b] = IF b = a THEN None ELSE handle[b]
      BY <2>1 DEF Structure, TypeOK, OwnerTypeOK
    <3>2. \A b : Busy(call', b) = Busy(call, b)
      BY <2>1 DEF Busy
    <3>3. SUFFICES ASSUME NEW b \in Authorities
                   PROVE  /\ handle'[b] # None =>
                                /\ active'[b] = Cardinality(Busy(call', b))
                                /\ ~clientClosed'[b]
                          /\ drained'[b] /\ ~clientClosed'[b] =>
                                handle'[b] # None /\ closing'[b] /\ active'[b] = 0
      BY DEF Counted
    <3>4. CASE b = a
      BY <3>1, <3>4
    <3>5. CASE b # a
      <4>1. handle'[b] = handle[b] /\ clientClosed'[b] = clientClosed[b]
        BY <3>1, <3>5
      <4>2. QED
        BY <2>1, <3>2, <4>1 DEF Structure, Counted
    <3>6. QED
      BY <3>4, <3>5
  <2>4. \A c \in Users : call'[c] # None => ProgramOf(c)' = ProgramOf(c)
    <3>1. SUFFICES ASSUME NEW c \in Users, call[c] # None
                   PROVE  ProgramOf(c)' = ProgramOf(c)
      BY <2>1
    <3>2. c \notin UsersOf(a)
      BY <2>1, <3>1, Drained
    <3>3. AuthorityOf[c] # a /\ AuthorityOf[c] \in Authorities
      BY <3>2, UserAuthority DEF UsersOf
    <3>4. QED
      BY <2>1, <3>3 DEF ProgramOf, Structure, TypeOK
  <2>5. QED
    BY <2>1, <2>2, <2>3, <2>4, Ends
<1>3. QED
  BY <1>1, <1>2

\* The batches of abandoned calls are batches.
LEMMA AbandonType ==
    ASSUME Structure, NEW callers \in SUBSET Callers, Abandon(callers)
    PROVE  late' \subseteq Batch
<1>1. \A d \in callers : At(d, "sent") => call[d].batch \in Batch
  BY CallKnown, CallType DEF At
<1>2. QED
  BY <1>1 DEF Abandon, Structure, TypeOK

LEMMA Crashes ==
    ASSUME Structure, NEW a \in Authorities, Crash(a)
    PROVE  Structure'
<1>1. /\ Abandon(UsersOf(a)) /\ UsersOf(a) \subseteq Callers
      /\ call' = [c \in Callers |-> IF c \in UsersOf(a) THEN None ELSE call[c]]
      /\ handle' = [handle EXCEPT ![a] = None]
      /\ active' = [active EXCEPT ![a] = 0]
      /\ closing' = [closing EXCEPT ![a] = FALSE]
      /\ drained' = [drained EXCEPT ![a] = FALSE]
      /\ clientClosed' = [clientClosed EXCEPT ![a] = FALSE]
      /\ UNCHANGED <<rows, request, answers, receipts>>
  BY DEF Crash, ResetOwner, UsersOf, Users
<1>2. late' \subseteq Batch
  BY <1>1, AbandonType
<1>3. TypeOK'
  BY <1>1, <1>2 DEF Structure, TypeOK, OwnerTypeOK
<1>4. \A c \in Callers : call'[c] # None => c \notin UsersOf(a) /\ call'[c] = call[c]
  BY <1>1
<1>5. \A c \in Users : call'[c] # None => ProgramOf(c)' = ProgramOf(c)
  <2>1. SUFFICES ASSUME NEW c \in Users, call'[c] # None
                 PROVE  ProgramOf(c)' = ProgramOf(c)
    OBVIOUS
  <2>2. AuthorityOf[c] # a /\ AuthorityOf[c] \in Authorities
    BY <1>4, <2>1, UserAuthority DEF UsersOf
  <2>3. QED
    BY <1>1, <2>2 DEF ProgramOf, Structure, TypeOK
<1>6. Counted'
  <2>1. \A b \in Authorities :
            /\ b = a => handle'[b] = None /\ ~drained'[b]
            /\ b # a => /\ active'[b] = active[b] /\ closing'[b] = closing[b]
                        /\ drained'[b] = drained[b] /\ handle'[b] = handle[b]
                        /\ clientClosed'[b] = clientClosed[b]
    BY <1>1 DEF Structure, TypeOK, OwnerTypeOK
  <2>2. \A b \in Authorities : b # a => Busy(call', b) = Busy(call, b)
    <3>1. SUFFICES ASSUME NEW b \in Authorities, b # a
                   PROVE  Busy(call', b) = Busy(call, b)
      OBVIOUS
    <3>2. \A c \in UsersOf(b) : c \in Callers /\ c \notin UsersOf(a)
      BY <3>1 DEF UsersOf, Users
    <3>3. QED
      BY <1>1, <3>2 DEF Busy
  <2>3. QED
    BY <2>1, <2>2 DEF Structure, Counted
<1>7. QED
  BY <1>1, <1>3, <1>4, <1>5, <1>6, Ends

LEMMA WorkerCrashes ==
    ASSUME Structure, NEW c \in Callers, CrashWorker(c)
    PROVE  Structure'
<1>1. /\ c \in Workers /\ Abandon({c}) /\ call' = [call EXCEPT ![c] = None]
      /\ UNCHANGED <<rows, handle, request, answers, receipts, ownerVars>>
  BY DEF CrashWorker, Hold
<1>2. late' \subseteq Batch
  BY <1>1, AbandonType
<1>3. TypeOK'
  BY <1>1, <1>2 DEF Structure, TypeOK, ownerVars, OwnerTypeOK
<1>4. call'[c] = None /\ \A d \in Callers : d # c => call'[d] = call[d]
  BY <1>1 DEF Structure, TypeOK
<1>5. \A a \in Authorities : Busy(call', a) = Busy(call, a)
  BY <1>1, <1>4 DEF Busy, UsersOf, Users
<1>6. Counted'
  BY <1>1, <1>5 DEF Structure, Counted, ownerVars
<1>7. \A d \in Users : ProgramOf(d)' = ProgramOf(d) /\ d \in Callers
  BY <1>1 DEF ProgramOf, Users
<1>8. QED
  BY <1>1, <1>3, <1>4, <1>6, <1>7, Ends

-----------------------------------------------------------------------------
(* One lemma for the steps of each workflow.                               *)

LEMMA FollowsEnd ==
    ASSUME NEW old, NEW outcome
    PROVE  Follows(old, [op |-> "end", outcome |-> outcome])
  BY DEF Follows, OfCommit, OfVerify, OfFence, IsSent, Inside

\* A workflow ends where it stands.
LEMMA EndsHere ==
    ASSUME Structure, NEW c \in Callers, call[c] # None, NEW outcome \in Outcome,
           End(c, outcome), SameHandles, DataTyped, UNCHANGED <<request, ownerVars>>
    PROVE  Structure'
<1>1. call' = [call EXCEPT ![c] = [op |-> "end", outcome |-> outcome]]
  BY DEF End, Hold
<1>2. QED
  BY <1>1, EndType, FollowsEnd, Continues

LEMMA GoneStep ==
    ASSUME Structure, NEW c \in Callers, NEW binding, Gone(c, binding),
           c \in Users => ProgramOf(c) # None
    PROVE  /\ SameHandles
           /\ \E outcome \in {"purged", "integrity"} : End(c, outcome)
<1>1. \E outcome \in {"purged", "integrity"} : End(c, outcome)
  BY DEF Gone
<1>2. CASE c \in Users /\ PurgeOf(binding)
  <2> DEFINE a == AuthorityOf[c]
  <2>1. a \in Authorities /\ handle[a] \in Program /\ handle[a] # None
    BY <1>2, UserAuthority DEF ProgramOf, Structure, TypeOK
  <2>2. rows.purge \in PurgeReceipt
    BY <1>2 DEF PurgeOf, Structure, TypeOK, Rows
  <2>3. [handle[a] EXCEPT !.purged = rows.purge] \in Program
    BY <2>1, <2>2 DEF Program
  <2>4. handle' = [handle EXCEPT ![a] = [handle[a] EXCEPT !.purged = rows.purge]]
    BY <1>2 DEF Gone
  <2>5. [handle[a] EXCEPT !.purged = rows.purge] # None
    BY <2>3, NoneAssumption
  <2> HIDE DEF a
  <2>6. QED
    BY <1>1, <2>1, <2>3, <2>4, <2>5 DEF SameHandles, Structure, TypeOK
<1>3. CASE ~(c \in Users /\ PurgeOf(binding))
  BY <1>1, <1>3 DEF Gone, SameHandles, Structure, TypeOK
<1>4. QED
  BY <1>2, <1>3

\* A workflow under way finds its space gone.
LEMMA GoneInside ==
    ASSUME Structure, NEW c \in Callers, call[c] # None, NEW binding, Gone(c, binding),
           Inside(call[c]), DataTyped, UNCHANGED <<request, ownerVars>>
    PROVE  Structure'
<1>1. c \in Users => ProgramOf(c) # None
  BY DEF Structure, Attached
<1>2. SameHandles /\ \E outcome \in {"purged", "integrity"} : End(c, outcome)
  BY <1>1, GoneStep
<1>3. QED
  BY <1>2, EndsHere DEF Outcome

\* A call of an open program finds its space gone, or ends at once.
LEMMA EndsEntering ==
    ASSUME Structure, NEW c \in Callers, Enter(c), NEW outcome \in Outcome,
           End(c, outcome), SameHandles, DataTyped, UNCHANGED request
    PROVE  Structure'
<1>1. call' = [call EXCEPT ![c] = [op |-> "end", outcome |-> outcome]]
  BY DEF End, Hold
<1>2. QED
  BY <1>1, EndType, Enters DEF OfCommit, OfFence, IsSent

LEMMA GoneEntering ==
    ASSUME Structure, NEW c \in Callers, Enter(c), NEW binding, Gone(c, binding),
           DataTyped, UNCHANGED request
    PROVE  Structure'
<1>1. c \in Users => ProgramOf(c) # None
  BY DEF Enter
<1>2. SameHandles /\ \E outcome \in {"purged", "integrity"} : End(c, outcome)
  BY <1>1, GoneStep
<1>3. QED
  BY <1>2, EndsEntering DEF Outcome

-----------------------------------------------------------------------------
(* Every action keeps the structure.                                       *)

LEMMA HandlesStay ==
    ASSUME Structure, UNCHANGED handle
    PROVE  SameHandles
  BY DEF Structure, TypeOK, SameHandles

LEMMA DataStays ==
    ASSUME Structure, UNCHANGED <<rows, late, answers, receipts>>
    PROVE  DataTyped
  BY DEF Structure, TypeOK, DataTyped

LEMMA OpenFailureType ==
    ASSUME NEW binding, NEW otherwise \in {"integrity", "error", "absent"}
    PROVE  OpenFailure(binding, otherwise) \in Outcome
<1>1. CASE rows.purge # None
  BY <1>1 DEF OpenFailure, Outcome
<1>2. CASE rows.purge = None /\ rows.binding \notin {None, binding}
  BY <1>2 DEF OpenFailure, Outcome
<1>3. CASE rows.purge = None /\ rows.binding \in {None, binding}
  BY <1>3 DEF OpenFailure, Outcome
<1>4. QED
  BY <1>1, <1>2, <1>3

LEMMA FollowsReply ==
    ASSUME NEW p \in Call, p.op = "sent", NEW reply \in {"waiting", "done", "failed"}
    PROVE  Follows(p, [p EXCEPT !.reply = reply])
  BY RepliedType DEF Follows, OfCommit, OfVerify, OfFence, IsSent, Inside

LEMMA RequestStructure ==
    ASSUME Structure, NEW c \in Callers,
           Execute(c) \/ LoseReply(c) \/ FailRead(c)
    PROVE  Structure'
<1> DEFINE q(reply) == [call[c] EXCEPT !.reply = reply]
<1>1. ASSUME NEW reply \in {"waiting", "done", "failed"}, At(c, "sent"),
             call' = [call EXCEPT ![c] = q(reply)],
             SameHandles, DataTyped, UNCHANGED <<request, ownerVars>>
      PROVE  Structure'
  <2>1. call[c] # None /\ call[c] \in Call /\ call[c].op = "sent"
    BY <1>1, CallKnown DEF At
  <2>2. q(reply) \in Call /\ Follows(call[c], q(reply))
    BY <1>1, <2>1, RepliedType, FollowsReply
  <2>3. QED
    BY <1>1, <2>1, <2>2, Continues
<1>2. CASE Execute(c)
  <2>1. At(c, "sent") /\ call[c].batch \in Batch
    BY <1>2, CallKnown, CallType DEF Execute, At
  <2>2. rows' \in Rows
    BY <1>2, <2>1, ExecutedType DEF Execute, Structure, TypeOK
  <2>3. SameHandles /\ DataTyped /\ UNCHANGED <<request, ownerVars>>
    BY <1>2, <2>2, HandlesStay DEF Execute, DataTyped, Structure, TypeOK
  <2>4. \E reply \in {"done", "failed"} : call' = [call EXCEPT ![c] = q(reply)]
    BY <1>2 DEF Execute
  <2>5. QED
    BY <1>1, <2>1, <2>3, <2>4
<1>3. CASE LoseReply(c)
  <2>1. At(c, "sent") /\ call' = [call EXCEPT ![c] = q("failed")]
    BY <1>3 DEF LoseReply
  <2>2. late' \subseteq Batch
    BY <1>3, AbandonType DEF LoseReply
  <2>3. SameHandles /\ DataTyped /\ UNCHANGED <<request, ownerVars>>
    BY <1>3, <2>2, HandlesStay DEF LoseReply, DataTyped, Structure, TypeOK
  <2>4. QED
    BY <1>1, <2>1, <2>3
<1>4. CASE FailRead(c)
  <2>1. call[c] # None /\ End(c, "error") /\ UNCHANGED <<request, ownerVars>>
    BY <1>4 DEF FailRead
  <2>2. SameHandles /\ DataTyped
    BY <1>4, HandlesStay, DataStays DEF FailRead
  <2>3. QED
    BY <2>1, <2>2, EndsHere DEF Outcome
<1>5. QED
  BY <1>2, <1>3, <1>4

LEMMA OpeningStructure ==
    ASSUME Structure, NEW c \in Callers, NEW binding \in Bindings,
           \/ Create(c, binding) \/ OpenExisting(c, binding)
           \/ CreateConfirm(c) \/ CreateFailed(c)
    PROVE  Structure'
<1>1. CASE Create(c, binding)
  <2>1. /\ Opening(c) /\ c \in Users
        /\ UNCHANGED <<rows, late, handle, request, answers, receipts, ownerVars>>
    BY <1>1 DEF Create, Opening
  <2>2. call[c] = None
    BY <2>1, UserAuthority DEF Opening
  <2>3. [kind |-> "create", binding |-> binding] \in Batch
    BY DEF Batch
  <2> DEFINE batch == [kind |-> "create", binding |-> binding]
             sent == [op |-> "sent", batch |-> batch, attempt |-> 0,
                      reply |-> "waiting"]
  <2>4. sent \in Call /\ IsSent(sent, "create")
    BY <2>3, FirstSentType DEF IsSent
  <2>5. CASE call' = [call EXCEPT ![c] = sent]
    <3> HIDE DEF sent
    <3> QED
      BY <2>1, <2>2, <2>4, <2>5, Begins
  <2>6. ASSUME NEW outcome \in {"purged", "integrity"}, End(c, outcome)
        PROVE  Structure'
    <3> DEFINE e == [op |-> "end", outcome |-> outcome]
    <3>1. e \in Call /\ e.op = "end" /\ call' = [call EXCEPT ![c] = e]
      BY <2>6, EndType DEF Outcome, End, Hold
    <3> HIDE DEF e
    <3> QED
      BY <2>1, <2>2, <3>1, Begins
  <2>7. QED
    BY <1>1, <2>5, <2>6 DEF Create, Send, Hold
<1>2. CASE OpenExisting(c, binding)
  <2>1. /\ Opening(c) /\ c \in Users /\ ProgramOf(c) = None
        /\ \A d \in UsersOf(AuthorityOf[c]) : call[d] = None
        /\ UNCHANGED <<rows, late, request, answers, receipts>>
    BY <1>2 DEF OpenExisting, Opening
  <2>2. call[c] = None
    BY <2>1, UserAuthority
  <2>3. CASE Opened(c, binding)
    BY <2>1, <2>3, Opens
  <2>4. CASE /\ End(c, OpenFailure(binding, "absent"))
             /\ UNCHANGED <<handle, ownerVars>>
    <3> DEFINE e == [op |-> "end", outcome |-> OpenFailure(binding, "absent")]
    <3>1. e \in Call /\ e.op = "end" /\ call' = [call EXCEPT ![c] = e]
      BY <2>4, EndType, OpenFailureType DEF End, Hold
    <3> HIDE DEF e
    <3> QED
      BY <2>1, <2>2, <2>4, <3>1, Begins
  <2>5. QED
    BY <1>2, <2>3, <2>4 DEF OpenExisting
<1>3. CASE CreateConfirm(c)
  <2> DEFINE b == call[c].batch.binding
  <2>1. /\ call[c] # None /\ IsSent(call[c], "create")
        /\ UNCHANGED <<rows, late, request, answers, receipts>>
    BY <1>3 DEF CreateConfirm, Replied, Sent, At, IsSent
  <2>2. b \in Bindings
    BY <2>1, CallKnown, CallType, BatchType DEF IsSent
  <2>3. /\ c \in Users /\ ProgramOf(c) = None
        /\ \A d \in UsersOf(AuthorityOf[c]) : d # c => call[d] = None
    BY <2>1 DEF Structure, Attached
  <2>4. CASE Opened(c, b)
    BY <2>1, <2>2, <2>3, <2>4, Opens
  <2>5. CASE End(c, OpenFailure(b, "integrity")) /\ UNCHANGED <<handle, ownerVars>>
    BY <2>1, <2>5, EndsHere, OpenFailureType, HandlesStay, DataStays
  <2>6. QED
    BY <1>3, <2>4, <2>5 DEF CreateConfirm
<1>4. CASE CreateFailed(c)
  <2>1. /\ call[c] # None /\ End(c, OpenFailure(call[c].batch.binding, "error"))
        /\ UNCHANGED <<rows, late, handle, request, answers, receipts, ownerVars>>
    BY <1>4 DEF CreateFailed, Replied, Sent, At
  <2>2. QED
    BY <2>1, EndsHere, OpenFailureType, HandlesStay, DataStays
<1>5. QED
  BY <1>1, <1>2, <1>3, <1>4

LEMMA SubmitStructure ==
    ASSUME Structure, NEW c \in Callers, NEW id \in OperationIds, NEW actor \in Actors,
           NEW changes \in ChangeSets, Submit(c, id, actor, changes)
    PROVE  Structure'
<1> DEFINE r == [operationId |-> id, actorId |-> actor, changes |-> changes,
                 expectedHead |-> rows.head]
<1>1. /\ call[c] = None /\ request' = [request EXCEPT ![c] = r]
      /\ UNCHANGED <<rows, late, handle, call, answers, receipts, ownerVars>>
  BY DEF Submit
<1>2. r \in CommitRequest
  BY DEF CommitRequest, Structure, TypeOK, Rows
<1> HIDE DEF r
<1>3. TypeOK'
  BY <1>1, <1>2 DEF Structure, TypeOK, ownerVars, OwnerTypeOK
<1>4. \A a : Busy(call', a) = Busy(call, a)
  BY <1>1 DEF Busy
<1>5. Counted'
  BY <1>1, <1>4 DEF Structure, Counted, ownerVars
<1>6. \A d \in Callers : d # c => request'[d] = request[d]
  BY <1>1 DEF Structure, TypeOK
<1>7. \A d \in Users : ProgramOf(d)' = ProgramOf(d) /\ d \in Callers
  BY <1>1 DEF ProgramOf, Users
<1>8. QED
  BY <1>1, <1>3, <1>5, <1>6, <1>7, Ends

LEMMA NewOperationType ==
    ASSUME rows \in Rows, NEW r \in CommitRequest, NEW instant \in Instants
    PROVE  /\ NewOperation(r, instant) \in Operation
           /\ Parent(NewOperation(r, instant)) = rows.head
           /\ BodyOf(NewOperation(r, instant)) =
                 [operationId |-> r.operationId, actorId |-> r.actorId,
                  instant |-> instant, changes |-> r.changes,
                  records |-> Transition(rows.records, r.changes)]
<1> DEFINE body == [operationId |-> r.operationId, actorId |-> r.actorId,
                    instant |-> instant, changes |-> r.changes,
                    records |-> Transition(rows.records, r.changes)]
<1>1. rows.head \in History /\ rows.records \in Snapshot /\ r.changes \in ChangeSets
  BY DEF Rows, CommitRequest
<1>2. Transition(rows.records, r.changes) \in Snapshot
  BY <1>1, TransitionType
<1>3. body \in Body
  BY <1>2 DEF Body, CommitRequest
<1>4. NewOperation(r, instant) = Append(rows.head, body)
  BY DEF NewOperation
<1> HIDE DEF body
<1>5. /\ NewOperation(r, instant) \in Operation
      /\ Parent(NewOperation(r, instant)) = rows.head
      /\ BodyOf(NewOperation(r, instant)) = body
  BY <1>1, <1>3, <1>4, AppendType
<1>6. QED
  BY <1>5 DEF body

\* What a commit works with.
LEMMA CommitFacts ==
    ASSUME Structure, NEW c \in Callers, call[c] # None, OfCommit(call[c])
    PROVE  /\ call[c] \in Call /\ request[c] \in CommitRequest
           /\ c \in Users /\ Inside(call[c])
<1>1. call[c] \in Call /\ request[c] # None /\ c \in Users
  BY CallKnown DEF Structure, Attached
<1>2. Inside(call[c])
  BY DEF OfCommit, Inside, IsSent
<1>3. QED
  BY <1>1, <1>2 DEF Structure, TypeOK

LEMMA CommitStructure ==
    ASSUME Structure, NEW c \in Callers,
           \/ CommitClosed(c) \/ Preflight(c) \/ Prove(c) \/ ReadSnapshot(c)
           \/ Committed(c) \/ CommitFailed(c) \/ RecoverHead(c)
    PROVE  Structure'
<1>1. CASE CommitClosed(c)
  <2>1. Enter(c) /\ End(c, "purged") /\ UNCHANGED request
        /\ SameHandles /\ DataTyped
    BY <1>1, HandlesStay, DataStays DEF CommitClosed
  <2>2. QED
    BY <2>1, EndsEntering DEF Outcome
<1>2. CASE Preflight(c)
  <2>1. /\ request[c] # None /\ Enter(c) /\ UNCHANGED request /\ DataTyped
    BY <1>2, DataStays DEF Preflight
  <2>2. CASE Gone(c, ProgramOf(c).binding)
    BY <2>1, <2>2, GoneEntering
  <2>3. ASSUME NEW o \in WithOperationId(request[c].operationId), UNCHANGED handle,
               Hold(c, [op |-> "prove", operation |-> o, head |-> rows.head,
                        recovering |-> FALSE])
        PROVE  Structure'
    <3> DEFINE p == [op |-> "prove", operation |-> o, head |-> rows.head,
                     recovering |-> FALSE]
    <3>1. o \in Operation /\ rows.head \in History
      BY DEF WithOperationId, Structure, TypeOK, Rows
    <3>2. p \in Call /\ ~OfFence(p) /\ ~IsSent(p, "create")
      BY <3>1 DEF Call, OfFence, IsSent
    <3>3. call' = [call EXCEPT ![c] = p]
      BY <2>3 DEF Hold
    <3> HIDE DEF p
    <3>4. QED
      BY <2>1, <2>3, <3>2, <3>3, HandlesStay, Enters
  <2>4. CASE Hold(c, [op |-> "snapshot", head |-> rows.head]) /\ UNCHANGED handle
    <3> DEFINE p == [op |-> "snapshot", head |-> rows.head]
    <3>1. rows.head \in History
      BY DEF Structure, TypeOK, Rows
    <3>2. p \in Call /\ ~OfFence(p) /\ ~IsSent(p, "create")
      BY <3>1 DEF Call, OfFence, IsSent
    <3>3. call' = [call EXCEPT ![c] = p]
      BY <2>4 DEF Hold
    <3> HIDE DEF p
    <3>4. QED
      BY <2>1, <2>4, <3>2, <3>3, HandlesStay, Enters
  <2>5. CASE End(c, "conflict") /\ UNCHANGED handle
    BY <2>1, <2>5, HandlesStay, EndsEntering DEF Outcome
  <2>6. QED
    BY <1>2, <2>2, <2>3, <2>4, <2>5 DEF Preflight
<1>3. CASE Prove(c)
  <2>1. /\ call[c] # None /\ OfCommit(call[c]) /\ call[c].op = "prove"
        /\ UNCHANGED <<rows, late, request, receipts, ownerVars>>
    BY <1>3 DEF Prove, At, OfCommit
  <2>2. Inside(call[c]) /\ request[c] \in CommitRequest /\ call[c].operation \in Operation
    BY <2>1, CommitFacts, CallType
  <2>3. CASE Gone(c, ProgramOf(c).binding) /\ UNCHANGED answers
    BY <2>1, <2>2, <2>3, GoneInside, DataStays
  <2>4. CASE Answered(c, call[c].operation, FALSE) /\ UNCHANGED handle
    <3>1. [request |-> request[c], operation |-> call[c].operation, fresh |-> FALSE]
              \in Answer
      BY <2>2 DEF Answer
    <3>2. DataTyped /\ End(c, "ok")
      BY <2>1, <2>4, <3>1 DEF Answered, DataTyped, Structure, TypeOK
    <3>3. QED
      BY <2>1, <2>4, <3>2, HandlesStay, EndsHere DEF Outcome
  <2>5. ASSUME NEW outcome \in {"integrity", "conflict"}, End(c, outcome),
               UNCHANGED <<handle, answers>>
        PROVE  Structure'
    BY <2>1, <2>5, HandlesStay, DataStays, EndsHere DEF Outcome
  <2>6. QED
    BY <1>3, <2>3, <2>4, <2>5 DEF Prove
<1>4. CASE ReadSnapshot(c)
  <2>1. /\ call[c] # None /\ OfCommit(call[c])
        /\ UNCHANGED <<request, ownerVars>> /\ DataTyped
    BY <1>4, DataStays DEF ReadSnapshot, At, OfCommit
  <2>2. Inside(call[c]) /\ request[c] \in CommitRequest
    BY <2>1, CommitFacts
  <2>3. CASE Gone(c, ProgramOf(c).binding)
    BY <2>1, <2>2, <2>3, GoneInside
  <2>4. ASSUME NEW instant \in Instants, UNCHANGED handle,
               Send(c, [kind |-> "commit",
                        operation |-> NewOperation(request[c], instant)], 0)
        PROVE  Structure'
    <3> DEFINE batch == [kind |-> "commit",
                         operation |-> NewOperation(request[c], instant)]
               p == [op |-> "sent", batch |-> batch, attempt |-> 0,
                     reply |-> "waiting"]
    <3>1. NewOperation(request[c], instant) \in Operation
      BY <2>2, NewOperationType DEF Structure, TypeOK
    <3>2. batch \in Batch
      BY <3>1 DEF Batch
    <3>3. p \in Call
      BY <3>2, FirstSentType
    <3>4. Follows(call[c], p)
      BY <2>1, <2>2 DEF Follows, OfCommit, OfVerify, OfFence, IsSent
    <3>5. call' = [call EXCEPT ![c] = p]
      BY <2>4 DEF Send, Hold
    <3> HIDE DEF p
    <3>6. QED
      BY <2>1, <2>4, <3>3, <3>4, <3>5, HandlesStay, Continues
  <2>5. ASSUME NEW outcome \in {"conflict", "integrity", "refused"}, End(c, outcome),
               UNCHANGED handle
        PROVE  Structure'
    BY <2>1, <2>5, HandlesStay, EndsHere DEF Outcome
  <2>6. QED
    BY <1>4, <2>3, <2>4, <2>5 DEF ReadSnapshot
<1>5. CASE Committed(c)
  <2>1. /\ call[c] # None /\ IsSent(call[c], "commit")
        /\ Answered(c, call[c].batch.operation, TRUE)
        /\ UNCHANGED <<rows, late, handle, request, receipts, ownerVars>>
    BY <1>5 DEF Committed, Replied, Sent, At, IsSent
  <2>2. request[c] \in CommitRequest /\ call[c].batch.operation \in Operation
    BY <2>1, CommitFacts, CallType, BatchType DEF OfCommit, IsSent
  <2>3. [request |-> request[c], operation |-> call[c].batch.operation,
         fresh |-> TRUE] \in Answer
    BY <2>2 DEF Answer
  <2>4. DataTyped /\ End(c, "ok")
    BY <2>1, <2>3 DEF Answered, DataTyped, Structure, TypeOK
  <2>5. QED
    BY <2>1, <2>4, HandlesStay, EndsHere DEF Outcome
<1>6. CASE CommitFailed(c)
  <2> DEFINE operation == call[c].batch.operation
             stored == WithOperationId(BodyOf(operation).operationId)
             p(found) == [op |-> "raced", operation |-> operation, found |-> found]
  <2>1. /\ call[c] # None /\ IsSent(call[c], "commit") /\ OfCommit(call[c])
        /\ UNCHANGED <<rows, late, handle, request, answers, receipts, ownerVars>>
    BY <1>6 DEF CommitFailed, Replied, Sent, At, IsSent, OfCommit
  <2>2. PICK found \in (IF stored = {} THEN {None} ELSE stored) :
            call' = [call EXCEPT ![c] = p(found)]
    BY <1>6 DEF CommitFailed, Hold
  <2>3. operation \in Operation /\ found \in Operation \cup {None} /\ Inside(call[c])
    BY <2>1, <2>2, CommitFacts, CallType, BatchType
       DEF IsSent, WithOperationId, Structure, TypeOK, Rows
  <2>4. p(found) \in Call
    BY <2>3 DEF Call
  <2>5. Follows(call[c], p(found))
    BY <2>1, <2>3 DEF Follows, OfCommit, OfVerify, OfFence, IsSent
  <2> HIDE DEF p
  <2>6. QED
    BY <2>1, <2>2, <2>4, <2>5, HandlesStay, DataStays, Continues
<1>7. CASE RecoverHead(c)
  <2>1. /\ call[c] # None /\ OfCommit(call[c]) /\ call[c].op = "raced"
        /\ UNCHANGED <<request, ownerVars>> /\ DataTyped
    BY <1>7, DataStays DEF RecoverHead, At, OfCommit
  <2>2. Inside(call[c]) /\ call[c].found \in Operation \cup {None}
    BY <2>1, CommitFacts, CallType
  <2>3. CASE Gone(c, ProgramOf(c).binding)
    BY <2>1, <2>2, <2>3, GoneInside
  <2>4. CASE /\ call[c].found # None /\ UNCHANGED handle
             /\ Hold(c, [op |-> "prove", operation |-> call[c].found,
                         head |-> rows.head, recovering |-> TRUE])
    <3> DEFINE p == [op |-> "prove", operation |-> call[c].found,
                     head |-> rows.head, recovering |-> TRUE]
    <3>1. call[c].found \in Operation /\ rows.head \in History
      BY <2>2, <2>4 DEF Structure, TypeOK, Rows
    <3>2. p \in Call
      BY <3>1 DEF Call
    <3>3. Follows(call[c], p)
      BY <2>1, <2>2 DEF Follows, OfCommit, OfVerify, OfFence, IsSent
    <3>4. call' = [call EXCEPT ![c] = p]
      BY <2>4 DEF Hold
    <3> HIDE DEF p
    <3>5. QED
      BY <2>1, <2>4, <3>2, <3>3, <3>4, HandlesStay, Continues
  <2>5. ASSUME NEW outcome \in {"conflict", "error"}, End(c, outcome),
               UNCHANGED handle
        PROVE  Structure'
    BY <2>1, <2>5, HandlesStay, EndsHere DEF Outcome
  <2>6. QED
    BY <1>7, <2>3, <2>4, <2>5 DEF RecoverHead
<1>8. QED
  BY <1>1, <1>2, <1>3, <1>4, <1>5, <1>6, <1>7

LEMMA VerifyStructure ==
    ASSUME Structure, NEW c \in Callers,
           Read(c) \/ Verify(c) \/ VerifySnapshot(c) \/ VerifyRows(c)
    PROVE  Structure'
<1>1. CASE Read(c)
  <2>1. Enter(c) /\ Gone(c, ProgramOf(c).binding) /\ UNCHANGED request /\ DataTyped
    BY <1>1, DataStays DEF Read, EnterIdle
  <2>2. QED
    BY <2>1, GoneEntering
<1>2. CASE Verify(c)
  <2> DEFINE p == [op |-> "verify", head |-> rows.head]
  <2>1. /\ Enter(c) /\ call' = [call EXCEPT ![c] = p]
        /\ UNCHANGED <<rows, late, handle, request, answers, receipts>>
    BY <1>2 DEF Verify, EnterIdle, Hold
  <2>2. rows.head \in History
    BY DEF Structure, TypeOK, Rows
  <2>3. p \in Call /\ ~OfFence(p) /\ ~IsSent(p, "create") /\ ~OfCommit(p)
    BY <2>2 DEF Call, OfFence, IsSent, OfCommit
  <2> HIDE DEF p
  <2>4. QED
    BY <2>1, <2>3, HandlesStay, DataStays, Enters
<1>3. CASE VerifySnapshot(c)
  <2>1. /\ call[c] # None /\ call[c].op = "verify" /\ Inside(call[c])
        /\ UNCHANGED <<request, ownerVars>> /\ DataTyped
    BY <1>3, DataStays DEF VerifySnapshot, At, Inside, IsSent
  <2>2. call[c].head \in History
    BY <2>1, CallKnown, CallType
  <2>3. CASE Gone(c, ProgramOf(c).binding)
    BY <2>1, <2>3, GoneInside
  <2>4. CASE /\ Hold(c, [op |-> "verifyRows", head |-> call[c].head])
             /\ UNCHANGED handle
    <3> DEFINE p == [op |-> "verifyRows", head |-> call[c].head]
    <3>1. p \in Call
      BY <2>2 DEF Call
    <3>2. Follows(call[c], p)
      BY <2>1 DEF Follows, OfCommit, OfVerify, OfFence, IsSent
    <3>3. call' = [call EXCEPT ![c] = p]
      BY <2>4 DEF Hold
    <3> HIDE DEF p
    <3>4. QED
      BY <2>1, <2>4, <3>1, <3>2, <3>3, HandlesStay, Continues
  <2>5. ASSUME NEW outcome \in {"conflict", "integrity"}, End(c, outcome),
               UNCHANGED handle
        PROVE  Structure'
    BY <2>1, <2>5, HandlesStay, EndsHere DEF Outcome
  <2>6. QED
    BY <1>3, <2>3, <2>4, <2>5 DEF VerifySnapshot
<1>4. CASE VerifyRows(c)
  <2>1. /\ call[c] # None
        /\ \E outcome \in {"integrity", "conflict", "ok"} : End(c, outcome)
        /\ UNCHANGED <<rows, late, handle, request, answers, receipts, ownerVars>>
    BY <1>4 DEF VerifyRows, At
  <2>2. QED
    BY <2>1, HandlesStay, DataStays, EndsHere DEF Outcome
<1>5. QED
  BY <1>1, <1>2, <1>3, <1>4

\* A receipt that was read is checked, or is another binding's.
LEMMA FoundStructure ==
    ASSUME Structure, NEW c \in Callers, call[c] # None, NEW binding,
           FoundReceipt(c, binding), Inside(call[c]),
           UNCHANGED <<rows, late, handle, request, answers, receipts, ownerVars>>
    PROVE  Structure'
<1>1. CASE Hold(c, [op |-> "check", receipt |-> rows.purge])
  <2> DEFINE p == [op |-> "check", receipt |-> rows.purge]
  <2>1. rows.purge \in PurgeReceipt
    BY DEF FoundReceipt, Structure, TypeOK, Rows
  <2>2. p \in Call
    BY <2>1 DEF Call
  <2>3. Follows(call[c], p)
    BY DEF Follows, OfCommit, OfVerify, OfFence, IsSent
  <2>4. call' = [call EXCEPT ![c] = p]
    BY <1>1 DEF Hold
  <2> HIDE DEF p
  <2>5. QED
    BY <2>2, <2>3, <2>4, HandlesStay, DataStays, Continues
<1>2. CASE End(c, "integrity")
  BY <1>2, HandlesStay, DataStays, EndsHere DEF Outcome
<1>3. QED
  BY <1>1, <1>2 DEF FoundReceipt

\* An attempt of a purge that starts, or starts over.
LEMMA AttemptStructure ==
    ASSUME Structure, NEW c \in Callers, call[c] # None,
           NEW op \in {"purgeRead", "purgeHead", "fenceRead"}, NEW binding \in Bindings,
           NEW at \in PurgeInstants, NEW attempt \in 1..PurgeAttempts,
           Hold(c, PurgeCall(op, binding, at, attempt)),
           Inside(call[c]), op = "fenceRead" => OfFence(call[c]),
           UNCHANGED <<rows, late, handle, request, answers, receipts, ownerVars>>
    PROVE  Structure'
<1> DEFINE p == PurgeCall(op, binding, at, attempt)
<1>1. p \in Call /\ p.op = op
  BY PurgeCallType DEF PurgeCall
<1>2. Follows(call[c], p)
  BY <1>1 DEF Follows, OfCommit, OfVerify, OfFence, IsSent
<1>3. call' = [call EXCEPT ![c] = p]
  BY DEF Hold
<1> HIDE DEF p
<1>4. QED
  BY <1>1, <1>2, <1>3, HandlesStay, DataStays, Continues

LEMMA NextAttemptStructure ==
    ASSUME Structure, NEW c \in Callers, call[c] # None, call[c].op = "sent",
           call[c].batch.kind \in {"purge", "fence"},
           NEW op \in {"purgeRead", "fenceRead"}, NextAttempt(c, op),
           op = "fenceRead" => OfFence(call[c]),
           UNCHANGED <<rows, late, handle, request, answers, receipts, ownerVars>>
    PROVE  Structure'
<1>1. /\ call[c].batch.receipt \in PurgeReceipt /\ call[c].attempt \in 0..PurgeAttempts
      /\ Inside(call[c])
  BY CallKnown, CallType, BatchType DEF Inside, IsSent
<1>2. CASE call[c].attempt < PurgeAttempts
  <2>1. call[c].attempt + 1 \in 1..PurgeAttempts
    BY <1>1, <1>2, LibSqlAssumption
  <2>2. call[c].batch.receipt.binding \in Bindings
        /\ call[c].batch.receipt.purgedAt \in PurgeInstants
    BY <1>1, ReceiptType
  <2>3. Hold(c, PurgeCall(op, call[c].batch.receipt.binding,
                          call[c].batch.receipt.purgedAt, call[c].attempt + 1))
    BY <1>2 DEF NextAttempt
  <2>4. QED
    BY <1>1, <2>1, <2>2, <2>3, AttemptStructure
<1>3. CASE ~(call[c].attempt < PurgeAttempts)
  BY <1>3, HandlesStay, DataStays, EndsHere DEF NextAttempt, Outcome
<1>4. QED
  BY <1>2, <1>3

\* The batch of a purge or a fence is sent.
LEMMA SendStructure ==
    ASSUME Structure, NEW c \in Callers, call[c] # None, NEW batch \in Batch,
           batch.kind \in {"purge", "fence"}, NEW attempt \in 1..PurgeAttempts,
           Send(c, batch, attempt), Inside(call[c]),
           batch.kind = "fence" => OfFence(call[c]),
           UNCHANGED <<rows, late, handle, request, answers, receipts, ownerVars>>
    PROVE  Structure'
<1> DEFINE p == [op |-> "sent", batch |-> batch, attempt |-> attempt,
                 reply |-> "waiting"]
<1>1. attempt \in 0..PurgeAttempts
  BY LibSqlAssumption
<1>2. p \in Call
  BY <1>1, SentType
<1>3. Follows(call[c], p)
  BY DEF Follows, OfCommit, OfVerify, OfFence, IsSent
<1>4. call' = [call EXCEPT ![c] = p]
  BY DEF Send, Hold
<1> HIDE DEF p
<1>5. QED
  BY <1>2, <1>3, <1>4, HandlesStay, DataStays, Continues

LEMMA HostPurgeStructure ==
    ASSUME Structure, NEW c \in Callers, NEW at \in PurgeInstants, HostPurge(c, at)
    PROVE  Structure'
<1>1. /\ Enter(c) /\ UNCHANGED <<rows, late, handle, request, answers>>
      /\ SameHandles
  BY HandlesStay DEF HostPurge, EnterIdle
<1>2. ProgramOf(c) \in Program
  BY <1>1, UserAuthority DEF Enter, ProgramOf, Structure, TypeOK
<1>3. ASSUME NEW outcome \in {"profile", "purged"}, End(c, outcome), UNCHANGED receipts
      PROVE  Structure'
  BY <1>1, <1>3, DataStays, EndsEntering DEF Outcome
<1>4. CASE /\ ProgramOf(c).hostPurge # None /\ End(c, "ok")
           /\ receipts' = receipts \cup {ProgramOf(c).hostPurge}
  <2>1. ProgramOf(c).hostPurge \in PurgeReceipt
    BY <1>2, <1>4 DEF Program
  <2>2. DataTyped
    BY <1>1, <1>4, <2>1 DEF DataTyped, Structure, TypeOK
  <2>3. QED
    BY <1>1, <1>4, <2>2, EndsEntering DEF Outcome
<1>5. CASE /\ Hold(c, PurgeCall("purgeRead", ProgramOf(c).binding, at, 1))
           /\ UNCHANGED receipts
  <2> DEFINE p == PurgeCall("purgeRead", ProgramOf(c).binding, at, 1)
  <2>1. 1 \in 1..PurgeAttempts /\ ProgramOf(c).binding \in Bindings
    BY <1>2, LibSqlAssumption DEF Program
  <2>2. p \in Call /\ p.op = "purgeRead"
    BY <2>1, PurgeCallType DEF PurgeCall
  <2>3. ~OfFence(p) /\ ~IsSent(p, "create") /\ ~OfCommit(p)
    BY <2>2 DEF OfFence, IsSent, OfCommit
  <2>4. call' = [call EXCEPT ![c] = p] /\ DataTyped
    BY <1>1, <1>5, DataStays DEF Hold
  <2> HIDE DEF p
  <2>5. QED
    BY <1>1, <2>2, <2>3, <2>4, Enters
<1>6. QED
  BY <1>3, <1>4, <1>5 DEF HostPurge

LEMMA PurgeStructure ==
    ASSUME Structure, NEW c \in Callers,
           ReadPurge(c) \/ PurgeHead(c) \/ PurgeReread(c) \/ CheckPurge(c)
    PROVE  Structure'
<1>1. CASE ReadPurge(c)
  <2>1. /\ call[c] # None /\ call[c].op = "purgeRead" /\ Inside(call[c])
        /\ UNCHANGED <<rows, late, handle, request, answers, receipts, ownerVars>>
    BY <1>1 DEF ReadPurge, At, Inside, IsSent
  <2>2. CASE FoundReceipt(c, call[c].binding)
    BY <2>1, <2>2, FoundStructure
  <2>3. CASE Hold(c, [call[c] EXCEPT !.op = "purgeHead"])
    <3>1. call[c] \in [op: {"purgeRead", "purgeHead", "fenceRead"}, binding: Bindings,
                       at: PurgeInstants, attempt: 1..PurgeAttempts]
      BY <2>1, CallKnown DEF Call
    <3>2. [call[c] EXCEPT !.op = "purgeHead"] =
              PurgeCall("purgeHead", call[c].binding, call[c].at, call[c].attempt)
      BY <3>1 DEF PurgeCall
    <3>3. /\ call[c].binding \in Bindings /\ call[c].at \in PurgeInstants
          /\ call[c].attempt \in 1..PurgeAttempts
      BY <3>1
    <3>4. QED
      BY <2>1, <2>3, <3>2, <3>3, AttemptStructure
  <2>4. QED
    BY <1>1, <2>2, <2>3 DEF ReadPurge
<1>2. CASE PurgeHead(c)
  <2> DEFINE receipt == [binding |-> call[c].binding, priorHead |-> rows.head,
                         purgedAt |-> call[c].at]
             batch == [kind |-> "purge", receipt |-> receipt]
  <2>1. /\ call[c] # None /\ call[c].op = "purgeHead" /\ Inside(call[c])
        /\ UNCHANGED <<rows, late, request, answers, receipts, ownerVars>>
    BY <1>2 DEF PurgeHead, At, Inside, IsSent
  <2>2. /\ call[c].binding \in Bindings /\ call[c].at \in PurgeInstants
        /\ call[c].attempt \in 1..PurgeAttempts /\ rows.head \in History
    BY <2>1, CallKnown, CallType DEF Structure, TypeOK, Rows
  <2>3. batch \in Batch /\ batch.kind = "purge"
    BY <2>2 DEF Batch, PurgeReceipt
  <2>4. CASE Gone(c, call[c].binding)
    BY <2>1, <2>4, GoneInside, DataStays
  <2>5. CASE Send(c, batch, call[c].attempt) /\ UNCHANGED handle
    <3> HIDE DEF batch
    <3> QED
      BY <2>1, <2>2, <2>3, <2>5, SendStructure
  <2>6. QED
    BY <1>2, <2>4, <2>5 DEF PurgeHead
<1>3. CASE PurgeReread(c)
  <2>1. /\ call[c] # None /\ IsSent(call[c], "purge") /\ Inside(call[c])
        /\ UNCHANGED <<rows, late, handle, request, answers, receipts, ownerVars>>
    BY <1>3 DEF PurgeReread, Sent, At, Inside, IsSent
  <2>2. CASE FoundReceipt(c, call[c].batch.receipt.binding)
    BY <2>1, <2>2, FoundStructure
  <2>3. CASE NextAttempt(c, "purgeRead")
    BY <2>1, <2>3, NextAttemptStructure DEF IsSent
  <2>4. QED
    BY <1>3, <2>2, <2>3 DEF PurgeReread
<1>4. CASE CheckPurge(c)
  <2> DEFINE receipt == call[c].receipt
             a == AuthorityOf[c]
             closed == [handle[a] EXCEPT !.purged = receipt, !.hostPurge = receipt]
  <2>1. /\ call[c] # None /\ call[c].op = "check" /\ Inside(call[c])
        /\ UNCHANGED <<rows, late, request, answers, ownerVars>>
    BY <1>4 DEF CheckPurge, At, Inside, IsSent
  <2>2. receipt \in PurgeReceipt
    BY <2>1, CallKnown, CallType
  <2>3. CASE PurgeComplete(receipt)
    <3>1. End(c, "ok") /\ receipts' = receipts \cup {receipt}
      BY <1>4, <2>3 DEF CheckPurge
    <3>2. DataTyped
      BY <2>1, <2>2, <3>1 DEF DataTyped, Structure, TypeOK
    <3>3. CASE c \in Users
      <4>1. /\ a \in Authorities /\ handle[a] \in Program
        BY <2>1, <3>3, UserAuthority DEF Structure, Attached, ProgramOf, TypeOK
      <4>2. closed \in Program /\ closed # None
        <5>1. closed \in Program
          BY <2>2, <4>1 DEF Program
        <5> QED
          BY <5>1, NoneAssumption
      <4>3. handle' = [handle EXCEPT ![a] = closed]
        BY <1>4, <2>3, <3>3 DEF CheckPurge
      <4>4. handle[a] # None
        BY <4>1, NoneAssumption
      <4> HIDE DEF closed, a
      <4>5. SameHandles
        BY <4>1, <4>2, <4>3, <4>4 DEF SameHandles, Structure, TypeOK
      <4>6. QED
        BY <2>1, <3>1, <3>2, <4>5, EndsHere DEF Outcome
    <3>4. CASE c \notin Users
      <4>1. UNCHANGED handle
        BY <1>4, <2>3, <3>4 DEF CheckPurge
      <4>2. QED
        BY <2>1, <3>1, <3>2, <4>1, HandlesStay, EndsHere DEF Outcome
    <3>5. QED
      BY <3>3, <3>4
  <2>4. CASE ~PurgeComplete(receipt)
    <3>1. End(c, "integrity") /\ UNCHANGED <<receipts, handle>>
      BY <1>4, <2>4 DEF CheckPurge
    <3>2. QED
      BY <2>1, <3>1, HandlesStay, DataStays, EndsHere DEF Outcome
  <2>5. QED
    BY <2>3, <2>4
<1>5. QED
  BY <1>1, <1>2, <1>3, <1>4

LEMMA FenceStructure ==
    ASSUME Structure, NEW c \in Callers,
           \/ \E binding \in Bindings, at \in PurgeInstants : WorkerPurge(c, binding, at)
           \/ FenceRead(c) \/ FenceReread(c)
    PROVE  Structure'
<1>1. ASSUME NEW binding \in Bindings, NEW at \in PurgeInstants,
             WorkerPurge(c, binding, at)
      PROVE  Structure'
  <2>1. /\ call[c] = None /\ c \notin Users
        /\ UNCHANGED <<rows, late, handle, request, answers, receipts, ownerVars>>
    BY <1>1 DEF WorkerPurge, Users
  <2> DEFINE p == PurgeCall("fenceRead", binding, at, 1)
             e == [op |-> "end", outcome |-> "profile"]
  <2>2. 1 \in 1..PurgeAttempts
    BY LibSqlAssumption
  <2>3. p \in Call /\ p.op = "fenceRead"
    BY <2>2, PurgeCallType DEF PurgeCall
  <2>4. e \in Call /\ e.op = "end"
    BY EndType DEF Outcome
  <2>5. \/ call' = [call EXCEPT ![c] = p]
        \/ call' = [call EXCEPT ![c] = e]
    BY <1>1 DEF WorkerPurge, Hold, End
  <2> HIDE DEF p, e
  <2>6. QED
    BY <2>1, <2>3, <2>4, <2>5, Begins
<1>2. CASE FenceRead(c)
  <2> DEFINE q == call[c]
             receipt == [binding |-> q.binding, priorHead |-> <<>>, purgedAt |-> q.at]
             batch == [kind |-> "fence", receipt |-> receipt]
  <2>1. /\ q # None /\ q.op = "fenceRead" /\ Inside(q) /\ OfFence(q)
        /\ UNCHANGED <<rows, late, handle, request, answers, receipts, ownerVars>>
    BY <1>2 DEF FenceRead, At, Inside, IsSent, OfFence
  <2>2. /\ q.binding \in Bindings /\ q.at \in PurgeInstants
        /\ q.attempt \in 1..PurgeAttempts /\ 1 \in 1..PurgeAttempts
    BY <2>1, CallKnown, CallType, LibSqlAssumption
  <2>3. batch \in Batch /\ batch.kind = "fence"
    BY <2>2, EmptyHistory DEF Batch, PurgeReceipt
  <2>4. CASE FoundReceipt(c, q.binding)
    BY <2>1, <2>4, FoundStructure
  <2>5. CASE Hold(c, PurgeCall("purgeRead", q.binding, q.at, 1))
    BY <2>1, <2>2, <2>5, AttemptStructure
  <2>6. CASE Send(c, batch, q.attempt)
    <3> HIDE DEF batch
    <3> QED
      BY <2>1, <2>2, <2>3, <2>6, SendStructure
  <2>7. ASSUME NEW outcome \in {"integrity", "profile"}, End(c, outcome)
        PROVE  Structure'
    BY <2>1, <2>7, HandlesStay, DataStays, EndsHere DEF Outcome
  <2>8. QED
    BY <1>2, <2>4, <2>5, <2>6, <2>7 DEF FenceRead
<1>3. CASE FenceReread(c)
  <2>1. /\ call[c] # None /\ IsSent(call[c], "fence") /\ OfFence(call[c])
        /\ Inside(call[c])
        /\ UNCHANGED <<rows, late, handle, request, answers, receipts, ownerVars>>
    BY <1>3 DEF FenceReread, Sent, At, Inside, IsSent, OfFence
  <2>2. CASE FoundReceipt(c, call[c].batch.receipt.binding)
    BY <2>1, <2>2, FoundStructure
  <2>3. CASE NextAttempt(c, "fenceRead")
    BY <2>1, <2>3, NextAttemptStructure DEF IsSent
  <2>4. CASE End(c, "error")
    BY <2>1, <2>4, HandlesStay, DataStays, EndsHere DEF Outcome
  <2>5. QED
    BY <1>3, <2>2, <2>3, <2>4 DEF FenceReread
<1>4. QED
  BY <1>1, <1>2, <1>3

LEMMA LateStructure ==
    ASSUME Structure, NEW batch \in late, ExecuteLate(batch)
    PROVE  Structure'
<1>1. /\ rows' = Executed(batch) /\ late' = late \ {batch} /\ batch \in Batch
      /\ UNCHANGED <<handle, call, request, answers, receipts, ownerVars>>
  BY DEF ExecuteLate, Structure, TypeOK
<1>2. rows' \in Rows
  BY <1>1, ExecutedType DEF Structure, TypeOK
<1>3. TypeOK'
  BY <1>1, <1>2 DEF Structure, TypeOK, ownerVars, OwnerTypeOK
<1>4. \A a : Busy(call', a) = Busy(call, a)
  BY <1>1 DEF Busy
<1>5. Counted'
  BY <1>1, <1>4 DEF Structure, Counted, ownerVars
<1>6. \A d \in Users : ProgramOf(d)' = ProgramOf(d)
  BY <1>1 DEF ProgramOf
<1>7. QED
  BY <1>1, <1>3, <1>5, <1>6, Ends

LEMMA StutterStructure ==
    ASSUME Structure, UNCHANGED vars
    PROVE  Structure'
<1>1. UNCHANGED <<rows, late, handle, call, request, answers, receipts>>
      /\ UNCHANGED <<active, closing, drained, clientClosed>>
  BY DEF vars, storeVars, ownerVars
<1>2. TypeOK'
  BY <1>1 DEF Structure, TypeOK, OwnerTypeOK
<1>3. \A a : Busy(call', a) = Busy(call, a)
  BY <1>1 DEF Busy
<1>4. Counted'
  BY <1>1, <1>3 DEF Structure, Counted
<1>5. \A d \in Users : ProgramOf(d)' = ProgramOf(d)
  BY <1>1 DEF ProgramOf
<1>6. QED
  BY <1>1, <1>2, <1>4, <1>5, Ends

LEMMA StructureInit == Init => Structure
<1>1. SUFFICES ASSUME Init PROVE Structure
  OBVIOUS
<1>2. TypeOK
  BY <1>1, EmptyRowsType DEF Init, TypeOK, OwnerInit, OwnerTypeOK
<1>3. Attached
  BY <1>1 DEF Init, Attached
<1>4. Counted
  BY <1>1 DEF Init, OwnerInit, Counted
<1>5. QED
  BY <1>2, <1>3, <1>4 DEF Structure

\* No step of any process misplaces a workflow or miscounts its owner's calls.
THEOREM StructureNext ==
    ASSUME Structure, [Next]_vars
    PROVE  Structure'
<1>1. ASSUME NEW c \in Callers, Step(c) PROVE Structure'
  <2>1. CASE Execute(c) \/ LoseReply(c)
    BY <2>1, RequestStructure
  <2>2. CASE CreateConfirm(c) \/ CreateFailed(c)
    <3>1. call[c] # None /\ IsSent(call[c], "create")
      BY <2>2 DEF CreateConfirm, CreateFailed, Replied, Sent, At, IsSent
    <3>2. call[c].batch.binding \in Bindings
      BY <3>1, CallKnown, CallType, BatchType DEF IsSent
    <3>3. QED
      BY <2>2, <3>2, OpeningStructure
  <2>3. CASE \/ Prove(c) \/ ReadSnapshot(c) \/ Committed(c) \/ CommitFailed(c)
             \/ RecoverHead(c)
    BY <2>3, CommitStructure
  <2>4. CASE VerifySnapshot(c) \/ VerifyRows(c)
    BY <2>4, VerifyStructure
  <2>5. CASE ReadPurge(c) \/ PurgeHead(c) \/ PurgeReread(c) \/ CheckPurge(c)
    BY <2>5, PurgeStructure
  <2>6. CASE FenceRead(c) \/ FenceReread(c)
    BY <2>6, FenceStructure
  <2>7. CASE Return(c)
    BY <2>7, Returns
  <2>8. QED
    BY <1>1, <2>1, <2>2, <2>3, <2>4, <2>5, <2>6, <2>7 DEF Step
<1>2. ASSUME NEW c \in Callers, FailRead(c) PROVE Structure'
  BY <1>2, RequestStructure
<1>3. ASSUME NEW c \in Callers, NEW binding \in Bindings,
             Create(c, binding) \/ OpenExisting(c, binding)
      PROVE  Structure'
  BY <1>3, OpeningStructure
<1>4. ASSUME NEW c \in Callers, NEW id \in OperationIds, NEW actor \in Actors,
             NEW changes \in ChangeSets, Submit(c, id, actor, changes)
      PROVE  Structure'
  BY <1>4, SubmitStructure
<1>5. ASSUME NEW c \in Callers, CommitClosed(c) \/ Preflight(c) PROVE Structure'
  BY <1>5, CommitStructure
<1>6. ASSUME NEW c \in Callers, Read(c) \/ Verify(c) PROVE Structure'
  BY <1>6, VerifyStructure
<1>7. ASSUME NEW c \in Callers, NEW at \in PurgeInstants, HostPurge(c, at)
      PROVE  Structure'
  BY <1>7, HostPurgeStructure
<1>8. ASSUME NEW c \in Callers, NEW binding \in Bindings, NEW at \in PurgeInstants,
             WorkerPurge(c, binding, at)
      PROVE  Structure'
  BY <1>8, FenceStructure
<1>9. ASSUME NEW c \in Callers, CrashWorker(c) PROVE Structure'
  BY <1>9, WorkerCrashes
<1>10. ASSUME NEW batch \in late, ExecuteLate(batch) PROVE Structure'
  BY <1>10, LateStructure
<1>11. ASSUME NEW a \in Authorities, Close(a) \/ FinishClose(a) PROVE Structure'
  BY <1>11, Closes
<1>12. ASSUME NEW a \in Authorities, Crash(a) PROVE Structure'
  BY <1>12, Crashes
<1>13. CASE UNCHANGED vars
  BY <1>13, StutterStructure
<1>14. QED
  BY <1>1, <1>2, <1>3, <1>4, <1>5, <1>6, <1>7, <1>8, <1>9, <1>10, <1>11, <1>12,
     <1>13 DEF Next

\* Type correctness, and with it that every admitted workflow is counted until
\* it settles.
THEOREM StructureHolds == Spec => []Structure
<1>1. Init => Structure
  BY StructureInit
<1>2. Structure /\ [Next]_vars => Structure'
  BY StructureNext
<1>3. QED
  BY <1>1, <1>2, PTL DEF Spec

\* The client is closed under no call: close() waits for every admitted
\* workflow of its authority to settle.
THEOREM ClosedLast == Spec => ClientClosedLast
<1>1. ASSUME Structure, [Next]_vars
      PROVE  [\A a \in Authorities :
                  clientClosed'[a] /\ ~clientClosed[a] =>
                      \A c \in UsersOf(a) : call[c] = None]_vars
  <2>1. SUFFICES ASSUME Next, NEW a \in Authorities, clientClosed'[a], ~clientClosed[a]
                 PROVE  \A c \in UsersOf(a) : call[c] = None
    BY <1>1
  <2>2. clientClosed \in [Authorities -> BOOLEAN]
    BY <1>1 DEF Structure, TypeOK, OwnerTypeOK
  <2>3. ASSUME NEW b \in Authorities, FinishClose(b)
        PROVE  \A c \in UsersOf(a) : call[c] = None
    <3>1. drained[b] /\ ~clientClosed[b] /\ b = a
      BY <2>1, <2>2, <2>3 DEF FinishClose, CloseClient
    <3>2. QED
      BY <1>1, <3>1, Drained
  <2>4. ASSUME NEW b, clientClosed' = [clientClosed EXCEPT ![b] = FALSE]
        PROVE  FALSE
    BY <2>1, <2>2, <2>4
  <2>5. ASSUME UNCHANGED clientClosed PROVE FALSE
    BY <2>1, <2>5
  <2>6. ASSUME NEW c \in Callers, Step(c) PROVE FALSE
    BY <2>4, <2>5, <2>6
       DEF Step, Execute, LoseReply, CreateConfirm, CreateFailed, Prove, ReadSnapshot,
           Committed, CommitFailed, RecoverHead, VerifySnapshot, VerifyRows, ReadPurge,
           PurgeHead, PurgeReread, CheckPurge, FenceRead, FenceReread, Return,
           Opened, ResetOwner, Release, ownerVars
  <2>7. ASSUME NEW c \in Callers,
               \/ FailRead(c) \/ CommitClosed(c) \/ Preflight(c) \/ Read(c) \/ Verify(c)
               \/ \E binding \in Bindings : Create(c, binding) \/ OpenExisting(c, binding)
               \/ \E at \in PurgeInstants : HostPurge(c, at)
               \/ CrashWorker(c)
        PROVE  FALSE
    BY <2>4, <2>5, <2>7
       DEF FailRead, CommitClosed, Preflight, Read, Verify, Create, OpenExisting,
           HostPurge, CrashWorker, Enter, EnterIdle, Admit, Opened, ResetOwner, ownerVars
  <2>8. ASSUME NEW c \in Callers, NEW binding \in Bindings, NEW at \in PurgeInstants,
               WorkerPurge(c, binding, at)
        PROVE  FALSE
    BY <2>5, <2>8 DEF WorkerPurge, ownerVars
  <2>9. ASSUME NEW c \in Callers, NEW id \in OperationIds, NEW actor \in Actors,
               NEW changes \in ChangeSets, Submit(c, id, actor, changes)
        PROVE  FALSE
    BY <2>5, <2>9 DEF Submit, ownerVars
  <2>10. ASSUME NEW batch \in late, ExecuteLate(batch) PROVE FALSE
    BY <2>5, <2>10 DEF ExecuteLate, ownerVars
  <2>11. ASSUME NEW b \in Authorities, Close(b) \/ Crash(b) PROVE FALSE
    BY <2>4, <2>5, <2>11 DEF Close, BeginClose, Crash, ResetOwner
  <2>12. QED
    BY <2>1, <2>3, <2>6, <2>7, <2>8, <2>9, <2>10, <2>11 DEF Next
<1>2. QED
  BY <1>1, StructureHolds, PTL DEF Spec, ClientClosedLast

-----------------------------------------------------------------------------
(* The rows: what a batch makes of rows that verify.                       *)

\* The history of the space, also after its purge.
HistoryOf(t) == IF t.purge = None THEN t.head ELSE t.purge.priorHead

RowsSound(t) ==
    /\ Verified(t)
    /\ t.live <=> t.binding # None
    /\ ~t.live => t = [EmptyRows EXCEPT !.purge = t.purge]
    /\ t.purge # None => ~t.live
    /\ ValidHistory(HistoryOf(t))

\* What the sender of a batch makes sure of, whenever it executes.
ValidBatch(batch) ==
    /\ batch.kind = "commit" =>
          LET o == batch.operation
              before == RecordsAt(Parent(o), Len(Parent(o)))
          IN  /\ Accepts(before, BodyOf(o).changes)
              /\ BodyOf(o).records = Transition(before, BodyOf(o).changes)
    /\ batch.kind = "fence" => batch.receipt.priorHead = <<>>

\* What batches may make of rows: the history grows, a receipt stays, and a
\* binding stays until the purge.
Grows(t, u) ==
    /\ IsPrefixOf(HistoryOf(t), HistoryOf(u))
    /\ t.purge # None => u.purge = t.purge
    /\ t.binding # None => u.purge # None \/ u.binding = t.binding

LEMMA HistoryOfType ==
    ASSUME NEW t \in Rows
    PROVE  HistoryOf(t) \in History
  BY ReceiptType DEF Rows, HistoryOf

LEMMA EmptyVerified ==
    ASSUME NEW t, t.head = <<>>, t.operations = {}, t.records = EmptySnapshot,
           t.writer = [k \in Keys |-> <<>>], t.revisions = {}, t.dependencies = {}
    PROVE  Verified(t) /\ ValidHistory(<<>>)
<1>1. Len(t.head) = 0 /\ 1..Len(t.head) = {}
  BY EmptyHistory
<1>2. OneChain(t)
  BY <1>1 DEF OneChain, ChainOf
<1>3. ValidHistory(t.head)
  BY <1>1 DEF ValidHistory
<1>4. RecordsMatchReplay(t)
  BY <1>1 DEF RecordsMatchReplay, RecordsAt
<1>5. Present(t.records) = {}
  BY DEF Present, EmptySnapshot
<1>6. WriterMatchesReplay(t)
  BY DEF WriterMatchesReplay, EmptySnapshot
<1>7. DependenciesMatchReplay(t) /\ RevisionsMatchReplay(t)
  BY <1>5 DEF DependenciesMatchReplay, RevisionsMatchReplay
<1>8. QED
  BY <1>2, <1>3, <1>4, <1>6, <1>7 DEF Verified

\* Persisting one accepted operation on its parent, under an identifier the
\* space has not used, keeps every table equal to its replay.
THEOREM PersistVerified ==
    ASSUME rows \in Rows, Verified(rows), NEW operation \in Operation,
           CommitApplies(operation),
           Accepts(rows.records, BodyOf(operation).changes),
           BodyOf(operation).records
               = Transition(rows.records, BodyOf(operation).changes)
    PROVE  Verified(PersistRows(operation)) /\ ValidHistory(operation)
<1> DEFINE body == BodyOf(operation)
           changes == body.changes
           after == Transition(rows.records, changes)
           u == PersistRows(operation)
           dependencies ==
               {e \in rows.dependencies : e[1] \notin DOMAIN changes}
               \cup {e \in PutKeys(changes) \X Keys :
                        e[2] \in changes[e[1]].record.dependencies}
<1>1. /\ rows.head \in History /\ rows.records \in Snapshot
      /\ rows.operations \subseteq Operation
      /\ DOMAIN rows.writer = Keys
      /\ rows.dependencies \subseteq Keys \X Keys
  BY DEF Rows
<1>2. /\ body \in Body /\ changes \in ChangeSets
      /\ rows.head = Parent(operation) /\ operation = Append(rows.head, body)
  BY OperationType, OperationIsAppend DEF Body, CommitApplies
<1>3. /\ u.head = operation /\ u.operations = rows.operations \cup {operation}
      /\ u.records = after
      /\ u.writer = [k \in Keys |-> IF k \in PutKeys(changes) THEN operation
                         ELSE IF k \in DOMAIN changes THEN <<>> ELSE rows.writer[k]]
      /\ u.revisions = rows.revisions \cup ({operation} \X DOMAIN changes)
      /\ u.dependencies = dependencies
  BY DEF PersistRows, Rows
<1>4. /\ rows.operations = ChainOf(rows.head) /\ ValidHistory(rows.head)
      /\ rows.records = RecordsAt(rows.head, Len(rows.head))
      /\ \A o \in rows.operations : Len(o) <= Len(rows.head)
  BY <1>1, ChainType DEF Verified, OneChain, RecordsMatchReplay
<1>5. /\ Len(rows.head) \in Nat /\ Len(operation) = Len(rows.head) + 1
      /\ operation[Len(operation)] = body
  BY <1>1, <1>2, LenType, AppendType, AppendAt
<1>6. DOMAIN changes \subseteq Keys /\ PutKeys(changes) \subseteq DOMAIN changes
      /\ \A k \in PutKeys(changes) :
            changes[k].record \in Record /\ changes[k].record # NoRecord
  BY <1>2, ChangeType, ChangeSetsAssumption
<1>7. /\ \A k \in PutKeys(changes) :
             after[k] = changes[k].record /\ after[k] # NoRecord
      /\ \A k \in DOMAIN changes \ PutKeys(changes) : after[k] = NoRecord
      /\ \A k \in Keys \ DOMAIN changes : after[k] = rows.records[k]
  BY <1>1, <1>2, <1>6, TransitionAt
<1> HIDE DEF u, after, changes, body
<1>8. OneChain(u)
  <2>1. ChainOf(operation) = ChainOf(rows.head) \cup {operation}
    BY <1>1, <1>2, ChainOfAppend
  <2>2. QED
    BY <1>3, <1>4, <2>1 DEF OneChain
<1>9. ValidHistory(operation)
  <2>1. \A n \in 1..Len(rows.head) : rows.head[n].operationId # body.operationId
    <3>1. SUFFICES ASSUME NEW n \in 1..Len(rows.head)
                   PROVE  rows.head[n].operationId # body.operationId
      OBVIOUS
    <3>2. n \in 0..Len(rows.head)
      BY <1>5
    <3>3. Prefix(rows.head, n) \in rows.operations
      BY <1>4 DEF ChainOf
    <3>4. BodyOf(Prefix(rows.head, n)) = rows.head[n]
      <4>1. Len(Prefix(rows.head, n)) = n /\ Prefix(rows.head, n)[n] = rows.head[n]
        BY <1>1, <1>5, <3>2, PrefixType
      <4> QED
        BY <4>1 DEF BodyOf
    <3>5. QED
      BY <3>3, <3>4 DEF CommitApplies, body
  <2>2. Accepts(RecordsAt(rows.head, Len(rows.head)), body.changes)
        /\ body.records = Transition(RecordsAt(rows.head, Len(rows.head)), body.changes)
    BY <1>4 DEF body
  <2> DEFINE head == rows.head
  <2>3. head \in History /\ ValidHistory(head)
    BY <1>1, <1>4
  <2> HIDE DEF head
  <2>4. ValidHistory(Append(head, body))
    BY <1>2, <2>1, <2>2, <2>3, ValidAppend DEF head
  <2> QED
    BY <1>2, <2>4 DEF head
<1>10. RecordsMatchReplay(u)
  BY <1>3, <1>5 DEF RecordsMatchReplay, RecordsAt, after, body, changes
<1>11. WriterMatchesReplay(u)
  <2>1. SUFFICES ASSUME NEW k \in Keys
                 PROVE  IF u.records[k] = NoRecord THEN u.writer[k] = <<>>
                        ELSE /\ u.writer[k] \in u.operations
                             /\ k \in PutKeys(BodyOf(u.writer[k]).changes)
                             /\ BodyOf(u.writer[k]).changes[k].record = u.records[k]
                             /\ \A o \in u.operations :
                                   Len(o) > Len(u.writer[k])
                                       => k \notin DOMAIN BodyOf(o).changes
    BY DEF WriterMatchesReplay
  <2>2. CASE k \in PutKeys(changes)
    <3>1. u.writer[k] = operation /\ u.records[k] = changes[k].record
          /\ u.records[k] # NoRecord
      BY <1>3, <1>7, <2>2
    <3>2. \A o \in u.operations : ~(Len(o) > Len(operation))
      <4>1. \A o \in rows.operations : Len(o) \in Nat /\ Len(o) <= Len(rows.head)
        BY <1>1, <1>4, OperationType
      <4> QED
        BY <1>3, <1>5, <4>1
    <3>3. QED
      BY <1>3, <2>2, <3>1, <3>2 DEF changes, body
  <2>3. CASE k \in DOMAIN changes \ PutKeys(changes)
    BY <1>3, <1>7, <2>3
  <2>4. CASE k \notin DOMAIN changes
    <3>1. u.writer[k] = rows.writer[k] /\ u.records[k] = rows.records[k]
      BY <1>3, <1>6, <1>7, <2>4
    <3>2. IF rows.records[k] = NoRecord THEN rows.writer[k] = <<>>
          ELSE /\ rows.writer[k] \in rows.operations
               /\ k \in PutKeys(BodyOf(rows.writer[k]).changes)
               /\ BodyOf(rows.writer[k]).changes[k].record = rows.records[k]
               /\ \A o \in rows.operations :
                     Len(o) > Len(rows.writer[k])
                         => k \notin DOMAIN BodyOf(o).changes
      BY DEF Verified, WriterMatchesReplay
    <3>3. k \notin DOMAIN BodyOf(operation).changes
      BY <2>4 DEF changes, body
    <3>4. QED
      BY <1>3, <3>1, <3>2, <3>3
  <2>5. QED
    BY <2>2, <2>3, <2>4
<1>12. DependenciesMatchReplay(u)
  <2>1. rows.dependencies = {e \in Present(rows.records) \X Keys :
                               e[2] \in rows.records[e[1]].dependencies}
    BY DEF Verified, DependenciesMatchReplay
  <2>2. \A j, k \in Keys :
            <<j, k>> \in dependencies
                <=> j \in Present(after) /\ k \in after[j].dependencies
    BY <1>6, <1>7, <2>1 DEF Present
  <2>3. dependencies \subseteq Keys \X Keys
    BY <1>1, <1>6
  <2>4. Present(after) \subseteq Keys
    BY DEF Present
  <2>5. QED
    BY <1>3, <2>2, <2>3, <2>4 DEF DependenciesMatchReplay
<1>13. RevisionsMatchReplay(u)
  <2>1. rows.revisions = {r \in rows.operations \X Keys :
                            r[2] \in DOMAIN BodyOf(r[1]).changes}
    BY DEF Verified, RevisionsMatchReplay
  <2>2. QED
    BY <1>3, <1>6, <2>1 DEF RevisionsMatchReplay, changes, body
<1>14. QED
  BY <1>3, <1>8, <1>9, <1>10, <1>11, <1>12, <1>13 DEF Verified, u

\* The rows of an append-only log: absent, live or purged.
PhaseOf(t) == IF t.purge # None THEN "purged" ELSE IF t.live THEN "live" ELSE "absent"

\* What executing a batch may do: nothing that counts, create, extend, purge.
BatchStep(t, u) ==
    \/ /\ u.purge = t.purge /\ u.live = t.live /\ u.head = t.head
    \/ /\ t.purge = None /\ ~t.live
       /\ u.purge = None /\ u.live /\ u.head = t.head
    \/ /\ t.purge = None /\ t.live /\ u.purge = None /\ u.live
       /\ IsPrefixOf(t.head, u.head) /\ t.head # u.head /\ ValidHistory(u.head)
    \/ /\ t.purge = None /\ u.purge # None /\ ~u.live /\ u.head = <<>>
       /\ u.purge.priorHead = t.head
       /\ ~t.live => t.head = <<>>

\* A batch its sender built properly keeps the rows sound, whenever it executes.
THEOREM ExecutedSound ==
    ASSUME rows \in Rows, RowsSound(rows), NEW batch \in Batch, ValidBatch(batch)
    PROVE  /\ RowsSound(Executed(batch))
           /\ Grows(rows, Executed(batch))
           /\ BatchStep(rows, Executed(batch))
           /\ Applies(batch) =>
                 /\ batch.kind = "create" => Executed(batch).binding = batch.binding
                 /\ batch.kind = "commit" =>
                       IsPrefixOf(batch.operation, HistoryOf(Executed(batch)))
<1> DEFINE u == Executed(batch)
<1>1. /\ rows.head \in History /\ IsPrefixOf(rows.head, rows.head)
      /\ HistoryOf(rows) \in History /\ IsPrefixOf(HistoryOf(rows), HistoryOf(rows))
  BY HistoryOfType, PrefixReflexive DEF Rows
<1>2. CASE ~Applies(batch)
  <2>1. u = rows
    BY <1>2 DEF Executed
  <2>2. QED
    BY <1>1, <1>2, <2>1 DEF Grows, BatchStep
<1>3. CASE Applies(batch) /\ batch.kind = "create"
  <2>1. u = [rows EXCEPT !.live = TRUE, !.binding = batch.binding]
    BY <1>3 DEF Executed, Effect
  <2>2. /\ rows.purge = None /\ rows.binding \in {None, batch.binding}
        /\ batch.binding # None
    BY <1>3, BatchType, NoneAssumption DEF Applies, CreateApplies
  <2>3. /\ u.live = TRUE /\ u.binding = batch.binding /\ u.head = rows.head
        /\ u.operations = rows.operations /\ u.records = rows.records
        /\ u.writer = rows.writer /\ u.revisions = rows.revisions
        /\ u.dependencies = rows.dependencies /\ u.purge = rows.purge
    BY <2>1 DEF Rows
  <2> HIDE DEF u
  <2>4. Verified(u)
    BY <2>3 DEF RowsSound, Verified, OneChain, RecordsMatchReplay, WriterMatchesReplay,
                DependenciesMatchReplay, RevisionsMatchReplay
  <2>5. RowsSound(u)
    BY <2>2, <2>3, <2>4 DEF RowsSound, HistoryOf
  <2>6. Grows(rows, u)
    BY <1>1, <2>2, <2>3 DEF Grows, HistoryOf
  <2>7. BatchStep(rows, u)
    BY <2>2, <2>3 DEF BatchStep
  <2>8. QED
    BY <1>3, <2>3, <2>5, <2>6, <2>7 DEF u
<1>4. CASE Applies(batch) /\ batch.kind = "commit"
  <2> DEFINE o == batch.operation
  <2>1. /\ u = PersistRows(o) /\ CommitApplies(o) /\ o \in Operation
        /\ o \in History
    BY <1>4, BatchType, OperationType DEF Executed, Effect, Applies
  <2>2. /\ rows.live /\ rows.purge = None /\ rows.head = Parent(o)
        /\ rows.records = RecordsAt(rows.head, Len(rows.head))
    BY <2>1 DEF CommitApplies, RowsSound, Verified, RecordsMatchReplay
  <2>3. /\ Accepts(rows.records, BodyOf(o).changes)
        /\ BodyOf(o).records = Transition(rows.records, BodyOf(o).changes)
    BY <1>4, <2>2 DEF ValidBatch
  <2>4. Verified(u) /\ ValidHistory(o)
    BY <2>1, <2>3, PersistVerified DEF RowsSound
  <2>5. /\ u.live = rows.live /\ u.binding = rows.binding /\ u.head = o
        /\ u.purge = rows.purge
    BY <2>1 DEF PersistRows, Rows
  <2>6. IsPrefixOf(rows.head, o) /\ rows.head # o /\ IsPrefixOf(o, o)
    BY <1>1, <2>1, <2>2, PrefixOfChild, PrefixReflexive
  <2> HIDE DEF u, o
  <2>7. RowsSound(u)
    BY <2>2, <2>4, <2>5 DEF RowsSound, HistoryOf
  <2>8. Grows(rows, u) /\ BatchStep(rows, u)
    BY <2>2, <2>4, <2>5, <2>6 DEF Grows, HistoryOf, BatchStep
  <2>9. IsPrefixOf(o, HistoryOf(u))
    BY <2>2, <2>5, <2>6 DEF HistoryOf
  <2>10. QED
    BY <1>4, <2>7, <2>8, <2>9 DEF u, o
<1>5. CASE Applies(batch) /\ batch.kind \in {"purge", "fence"}
  <2> DEFINE receipt == batch.receipt
  <2>1. u = [EmptyRows EXCEPT !.purge = receipt] /\ receipt \in PurgeReceipt
        /\ receipt # None
    BY <1>5, BatchType, ReceiptType DEF Executed, Effect
  <2>2. /\ u.live = FALSE /\ u.binding = None /\ u.head = <<>> /\ u.operations = {}
        /\ u.records = EmptySnapshot /\ u.writer = [k \in Keys |-> <<>>]
        /\ u.revisions = {} /\ u.dependencies = {} /\ u.purge = receipt
    BY <2>1 DEF EmptyRows
  <2>3. \/ /\ rows.purge = None /\ rows.head = receipt.priorHead
           /\ ~rows.live => rows.head = <<>>
        \/ /\ rows.purge = receipt /\ ~rows.live /\ rows.head = <<>>
           /\ rows.binding = None
    <3>1. CASE batch.kind = "purge"
      BY <1>5, <3>1 DEF Applies, PurgeApplies
    <3>2. CASE batch.kind = "fence"
      <4>1. /\ ~rows.live /\ rows.binding = None /\ rows.purge \in {None, receipt}
            /\ receipt.priorHead = <<>>
        BY <1>5, <3>2 DEF Applies, FenceApplies, ValidBatch
      <4>2. rows.head = <<>>
        BY <4>1 DEF RowsSound, EmptyRows
      <4>3. QED
        BY <4>1, <4>2
    <3>3. QED
      BY <1>5, <3>1, <3>2
  <2> HIDE DEF u, receipt
  <2>4. HistoryOf(u) = receipt.priorHead /\ HistoryOf(rows) = receipt.priorHead
    BY <2>1, <2>2, <2>3 DEF HistoryOf
  <2>5. Verified(u)
    BY <2>2, EmptyVerified
  <2>6. RowsSound(u)
    BY <2>1, <2>2, <2>4, <2>5 DEF RowsSound
  <2>7. Grows(rows, u)
    BY <1>1, <2>1, <2>2, <2>3, <2>4 DEF Grows
  <2>8. CASE rows.purge = None
    BY <1>5, <2>1, <2>2, <2>3, <2>6, <2>7, <2>8 DEF BatchStep, u
  <2>9. CASE rows.purge # None
    <3>1. u.live = rows.live
      BY <2>2, <2>3, <2>9 DEF Rows
    <3>2. BatchStep(rows, u)
      BY <2>2, <2>3, <2>9, <3>1 DEF BatchStep
    <3>3. QED
      BY <1>5, <2>6, <2>7, <3>2 DEF u
  <2>10. QED
    BY <2>8, <2>9
<1>6. QED
  BY <1>2, <1>3, <1>4, <1>5, BatchType

-----------------------------------------------------------------------------
(* What workflows, programs and answers rely on, and that it outlasts      *)
(* whatever else executes between two requests.                            *)

Carries(operation, r) ==
    /\ BodyOf(operation).operationId = r.operationId
    /\ SameContent(operation, r)

\* What workflow p of request r holds of rows t.
Holds(p, r, t) ==
    /\ p.op = "sent" => ValidBatch(p.batch)
    /\ IsSent(p, "create") /\ p.reply = "done" =>
          t.purge # None \/ t.binding = p.batch.binding
    /\ p.op \in {"purgeRead", "purgeHead"} \/ IsSent(p, "purge") =>
          t.purge # None \/ t.binding # None
    /\ p.op = "snapshot" => p.head = r.expectedHead
    /\ IsSent(p, "commit") =>
          /\ Carries(p.batch.operation, r)
          /\ Parent(p.batch.operation) = r.expectedHead
          /\ p.reply = "done" => IsPrefixOf(p.batch.operation, HistoryOf(t))
    /\ p.op = "raced" /\ p.found # None =>
          /\ BodyOf(p.found).operationId = r.operationId
          /\ IsPrefixOf(p.found, HistoryOf(t))
    /\ p.op = "raced" => Carries(p.operation, r)
    /\ p.op = "prove" =>
          /\ BodyOf(p.operation).operationId = r.operationId
          /\ p.recovering => SameContent(p.operation, r)
          /\ IsPrefixOf(p.operation, p.head)
          /\ IsPrefixOf(p.head, HistoryOf(t))
    /\ p.op \in {"verify", "verifyRows"} => IsPrefixOf(p.head, HistoryOf(t))
    /\ p.op = "check" => t.purge = p.receipt
    /\ p.op = "end" /\ p.outcome = "integrity" => t.purge # None

\* What a program remembers of rows t.
Knows(h, t) ==
    /\ h.purged \in {None, t.purge} /\ h.hostPurge \in {None, t.purge}
    /\ t.purge # None \/ t.binding = h.binding

\* What an answer promises of rows t.
Stands(x, t) ==
    /\ IsPrefixOf(x.operation, HistoryOf(t))
    /\ Carries(x.operation, x.request)
    /\ x.fresh => Parent(x.operation) = x.request.expectedHead

Sound ==
    /\ RowsSound(rows)
    /\ \A batch \in late : ValidBatch(batch)
    /\ \A c \in Callers : call[c] # None => Holds(call[c], request[c], rows)
    /\ \A a \in Authorities : handle[a] # None => Knows(handle[a], rows)
    /\ \A x \in answers : Stands(x, rows)
    /\ \A receipt \in receipts : rows.purge = receipt

LEMMA GrowsReflexive ==
    ASSUME NEW t \in Rows
    PROVE  Grows(t, t)
  BY HistoryOfType, PrefixReflexive DEF Grows

LEMMA PrefixTransitive ==
    ASSUME NEW f \in History, NEW g \in History, NEW h \in History,
           IsPrefixOf(f, g), IsPrefixOf(g, h)
    PROVE  IsPrefixOf(f, h)
  BY ExtensionTransitive DEF History

\* What a workflow relies on outlasts what executes meanwhile.
LEMMA HoldsOn ==
    ASSUME NEW p \in Call, NEW r, NEW t \in Rows, NEW u \in Rows,
           Holds(p, r, t), Grows(t, u)
    PROVE  Holds(p, r, u)
<1>1. HistoryOf(t) \in History /\ HistoryOf(u) \in History
      /\ IsPrefixOf(HistoryOf(t), HistoryOf(u))
  BY HistoryOfType DEF Grows
<1>2. \A h \in History : IsPrefixOf(h, HistoryOf(t)) => IsPrefixOf(h, HistoryOf(u))
  BY <1>1, PrefixTransitive
<1>3. t.purge # None => u.purge # None
  BY DEF Grows
<1>4. IsSent(p, "create") /\ p.reply = "done" =>
          u.purge # None \/ u.binding = p.batch.binding
  <2>1. IsSent(p, "create") => p.batch.binding # None
    BY CallType, BatchType, NoneAssumption DEF IsSent
  <2>2. QED
    BY <1>3, <2>1 DEF Holds, Grows
<1>5. p.op \in {"purgeRead", "purgeHead"} \/ IsSent(p, "purge") =>
          u.purge # None \/ u.binding # None
  BY <1>3 DEF Holds, Grows
<1>6. IsSent(p, "commit") /\ p.reply = "done" =>
          IsPrefixOf(p.batch.operation, HistoryOf(u))
  <2>1. IsSent(p, "commit") => p.batch.operation \in History
    BY CallType, BatchType, OperationType DEF IsSent
  <2>2. QED
    BY <1>2, <2>1 DEF Holds
<1>7. p.op = "raced" /\ p.found # None => IsPrefixOf(p.found, HistoryOf(u))
  <2>1. p.op = "raced" /\ p.found # None => p.found \in History
    BY CallType, OperationType
  <2>2. QED
    BY <1>2, <2>1 DEF Holds
<1>8. p.op \in {"prove", "verify", "verifyRows"} => IsPrefixOf(p.head, HistoryOf(u))
  <2>1. p.op \in {"prove", "verify", "verifyRows"} => p.head \in History
    BY CallType
  <2>2. QED
    BY <1>2, <2>1 DEF Holds
<1>9. p.op = "check" => u.purge = p.receipt
  BY CallType, ReceiptType DEF Holds, Grows
<1>10. QED
  BY <1>3, <1>4, <1>5, <1>6, <1>7, <1>8, <1>9 DEF Holds

LEMMA KnowsOn ==
    ASSUME NEW h \in Program, NEW t \in Rows, NEW u \in Rows, Knows(h, t), Grows(t, u)
    PROVE  Knows(h, u)
<1>1. h.binding # None
  BY NoneAssumption DEF Program
<1>2. QED
  BY <1>1 DEF Knows, Grows

LEMMA StandsOn ==
    ASSUME NEW x \in Answer, NEW t \in Rows, NEW u \in Rows, Stands(x, t), Grows(t, u)
    PROVE  Stands(x, u)
<1>1. /\ x.operation \in History /\ HistoryOf(t) \in History /\ HistoryOf(u) \in History
      /\ IsPrefixOf(HistoryOf(t), HistoryOf(u))
  BY HistoryOfType, OperationType DEF Answer, Grows
<1>2. QED
  BY <1>1, PrefixTransitive DEF Stands

\* One step, seen from all that rely on the rows.
LEMMA SoundStep ==
    ASSUME Structure, Sound, Structure', RowsSound(rows'), Grows(rows, rows'),
           \A batch \in late' : ValidBatch(batch),
           \A c \in Callers :
               \/ call'[c] = None
               \/ call'[c] = call[c] /\ request'[c] = request[c]
               \/ Holds(call'[c], request'[c], rows'),
           \A a \in Authorities :
               \/ handle'[a] = None \/ handle'[a] = handle[a]
               \/ Knows(handle'[a], rows'),
           \A x \in answers' : x \in answers \/ Stands(x, rows'),
           \A receipt \in receipts' : receipt \in receipts \/ rows'.purge = receipt
    PROVE  Sound'
<1>1. rows \in Rows /\ rows' \in Rows
  BY DEF Structure, TypeOK
<1>2. \A c \in Callers : call'[c] # None => Holds(call'[c], request'[c], rows')
  <2>1. SUFFICES ASSUME NEW c \in Callers, call'[c] # None,
                        call'[c] = call[c], request'[c] = request[c]
                 PROVE  Holds(call'[c], request'[c], rows')
    OBVIOUS
  <2>2. call[c] \in Call /\ Holds(call[c], request[c], rows)
    BY <2>1, CallKnown DEF Sound
  <2>3. QED
    BY <1>1, <2>1, <2>2, HoldsOn
<1>3. \A a \in Authorities : handle'[a] # None => Knows(handle'[a], rows')
  <2>1. SUFFICES ASSUME NEW a \in Authorities, handle'[a] # None,
                        handle'[a] = handle[a]
                 PROVE  Knows(handle'[a], rows')
    OBVIOUS
  <2>2. handle[a] \in Program /\ Knows(handle[a], rows)
    BY <2>1 DEF Sound, Structure, TypeOK
  <2>3. QED
    BY <1>1, <2>1, <2>2, KnowsOn
<1>4. \A x \in answers' : Stands(x, rows')
  <2>1. \A x \in answers : x \in Answer /\ Stands(x, rows)
    BY DEF Sound, Structure, TypeOK
  <2>2. QED
    BY <1>1, <2>1, StandsOn
<1>5. \A receipt \in receipts' : rows'.purge = receipt
  <2>1. \A receipt \in receipts : rows.purge = receipt /\ receipt # None
    BY ReceiptType DEF Sound, Structure, TypeOK
  <2>2. QED
    BY <2>1 DEF Grows
<1>6. QED
  BY <1>2, <1>3, <1>4, <1>5 DEF Sound

\* One workflow goes on, and the rows stay.
LEMMA SoundMove ==
    ASSUME Structure, Sound, Structure', NEW c \in Callers, NEW p,
           call' = [call EXCEPT ![c] = p],
           p = None \/ Holds(p, request[c], rows),
           UNCHANGED <<rows, late>>,
           \/ UNCHANGED request
           \/ p = None /\ \A d \in Callers : d # c => request'[d] = request[d],
           \A a \in Authorities :
               \/ handle'[a] = None \/ handle'[a] = handle[a]
               \/ Knows(handle'[a], rows),
           \A x \in answers' : x \in answers \/ Stands(x, rows),
           \A receipt \in receipts' : receipt \in receipts \/ rows.purge = receipt
    PROVE  Sound'
<1>1. rows \in Rows /\ Grows(rows, rows') /\ RowsSound(rows')
  BY GrowsReflexive DEF Sound, Structure, TypeOK
<1>2. call'[c] = p /\ \A d \in Callers : d # c => call'[d] = call[d]
  BY DEF Structure, TypeOK
<1>3. \A d \in Callers :
          \/ call'[d] = None
          \/ call'[d] = call[d] /\ request'[d] = request[d]
          \/ Holds(call'[d], request'[d], rows')
  BY <1>2
<1>4. \A batch \in late' : ValidBatch(batch)
  BY DEF Sound
<1>5. QED
  BY <1>1, <1>3, <1>4, SoundStep

\* In the program of an opened space the space is live or purged.
LEMMA LiveOrPurged ==
    ASSUME Structure, Sound, NEW c \in Users, ProgramOf(c) # None
    PROVE  rows.live \/ rows.purge # None
<1>1. ProgramOf(c) \in Program /\ Knows(ProgramOf(c), rows)
  BY UserAuthority DEF ProgramOf, Structure, TypeOK, Sound
<1>2. ProgramOf(c).binding # None
  BY <1>1, NoneAssumption DEF Program
<1>3. QED
  BY <1>1, <1>2 DEF Knows, Sound, RowsSound

\* A workflow ends, and reports damage only of a space that was purged.
LEMMA EndHolds ==
    ASSUME NEW outcome, NEW r, NEW t, outcome = "integrity" => t.purge # None
    PROVE  Holds([op |-> "end", outcome |-> outcome], r, t)
  BY DEF Holds, IsSent

LEMMA SoundEnd ==
    ASSUME Structure, Sound, Structure', NEW c \in Callers, NEW outcome,
           End(c, outcome), outcome = "integrity" => rows.purge # None,
           UNCHANGED <<rows, late, handle, request, answers, receipts>>
    PROVE  Sound'
<1> DEFINE p == [op |-> "end", outcome |-> outcome]
<1>1. call' = [call EXCEPT ![c] = p] /\ Holds(p, request[c], rows)
  BY EndHolds DEF End, Hold
<1> HIDE DEF p
<1>2. QED
  BY <1>1, SoundMove

LEMMA SoundGone ==
    ASSUME Structure, Sound, Structure', NEW c \in Callers, NEW binding,
           c \in Users => ProgramOf(c) # None,
           Gone(c, binding), rows.live \/ rows.purge # None,
           UNCHANGED <<rows, late, request, answers, receipts>>
    PROVE  Sound'
<1> DEFINE outcome == IF PurgeOf(binding) THEN "purged" ELSE "integrity"
           p == [op |-> "end", outcome |-> outcome]
<1>1. rows.purge # None /\ call' = [call EXCEPT ![c] = p]
  BY DEF Gone, End, Hold
<1>2. Holds(p, request[c], rows)
  BY <1>1, EndHolds
<1>3. ASSUME NEW a \in Authorities
      PROVE  handle'[a] = handle[a] \/ Knows(handle'[a], rows)
  <2>1. CASE c \in Users /\ PurgeOf(binding) /\ a = AuthorityOf[c]
    <3>1. handle' = [handle EXCEPT ![a].purged = rows.purge]
      BY <2>1 DEF Gone
    <3>2. handle[a] # None
      BY <2>1 DEF ProgramOf
    <3>3. CASE handle[a] # None
      <4>1. handle[a] \in Program /\ Knows(handle[a], rows)
        BY <3>3 DEF Structure, TypeOK, Sound
      <4>2. handle'[a] = [handle[a] EXCEPT !.purged = rows.purge]
        BY <3>1 DEF Structure, TypeOK
      <4>3. /\ handle'[a].purged = rows.purge
            /\ handle'[a].hostPurge = handle[a].hostPurge
        BY <4>1, <4>2 DEF Program
      <4>4. QED
        BY <1>1, <4>1, <4>3 DEF Knows
    <3>4. QED
      BY <3>2, <3>3
  <2>2. CASE ~(c \in Users /\ PurgeOf(binding) /\ a = AuthorityOf[c])
    BY <2>2 DEF Gone, Structure, TypeOK
  <2>3. QED
    BY <2>1, <2>2
<1> HIDE DEF p
<1>4. QED
  BY <1>1, <1>2, <1>3, SoundMove

\* A workflow goes on to p, and nothing else changes.
LEMMA SoundHold ==
    ASSUME Structure, Sound, Structure', NEW c \in Callers, NEW p,
           call' = [call EXCEPT ![c] = p], Holds(p, request[c], rows),
           UNCHANGED <<rows, late, handle, request, answers, receipts>>
    PROVE  Sound'
  BY SoundMove

-----------------------------------------------------------------------------
(* What sound rows show to a read.                                         *)

\* Every stored operation is on the history; of a live space that is the head.
LEMMA OnHistory ==
    ASSUME rows \in Rows, RowsSound(rows)
    PROVE  /\ rows.live => rows.purge = None /\ HistoryOf(rows) = rows.head
           /\ \A o \in rows.operations :
                 /\ o \in Operation /\ IsPrefixOf(o, rows.head)
                 /\ IsPrefixOf(o, HistoryOf(rows))
           /\ ~rows.live =>
                 /\ rows.binding = None /\ rows.operations = {}
                 /\ rows = [EmptyRows EXCEPT !.purge = rows.purge]
<1>1. rows.live => rows.purge = None /\ HistoryOf(rows) = rows.head
  BY DEF RowsSound, HistoryOf
<1>2. ~rows.live =>
          /\ rows.binding = None /\ rows.operations = {}
          /\ rows = [EmptyRows EXCEPT !.purge = rows.purge]
  BY DEF RowsSound, EmptyRows
<1>3. ASSUME NEW o \in rows.operations
      PROVE  o \in Operation /\ IsPrefixOf(o, rows.head)
  <2>1. rows.head \in History /\ o \in Operation /\ o \in ChainOf(rows.head)
    BY <1>3 DEF RowsSound, Verified, OneChain, Rows
  <2>2. PICK n \in 1..Len(rows.head) : o = Prefix(rows.head, n)
    BY <2>1 DEF ChainOf
  <2>3. Len(rows.head) \in Nat /\ n \in 0..Len(rows.head)
    BY <2>1, LenType
  <2>4. Len(o) = n
    BY <2>1, <2>2, <2>3, PrefixType
  <2>5. QED
    BY <2>1, <2>2, <2>3, <2>4 DEF IsPrefixOf
<1>4. QED
  BY <1>1, <1>2, <1>3

\* An operation on the head's history is reachable from the head.
LEMMA HistoryReachable ==
    ASSUME rows \in Rows, RowsSound(rows), NEW o \in Operation, IsPrefixOf(o, rows.head)
    PROVE  Reachable(o, rows.head)
<1>1. /\ rows.head \in History /\ Len(rows.head) \in Nat
      /\ Len(o) \in Nat \ {0} /\ Len(o) <= Len(rows.head)
      /\ o = Prefix(rows.head, Len(o))
  BY LenType, OperationType DEF IsPrefixOf, Rows
<1>2. \A n \in Len(o)..Len(rows.head) : n \in 1..Len(rows.head)
  BY <1>1
<1>3. rows.operations = {Prefix(rows.head, n) : n \in 1..Len(rows.head)}
  BY DEF RowsSound, Verified, OneChain, ChainOf
<1>4. QED
  BY <1>1, <1>2, <1>3 DEF Reachable

\* What a snapshot read demands holds of rows that verify.
LEMMA SoundMaterialized ==
    ASSUME rows \in Rows, RowsSound(rows)
    PROVE  Materialized
<1>1. /\ rows.head \in History /\ rows.operations = ChainOf(rows.head)
      /\ rows.records = RecordsAt(rows.head, Len(rows.head))
      /\ rows.dependencies = {e \in Present(rows.records) \X Keys :
                                 e[2] \in rows.records[e[1]].dependencies}
  BY DEF RowsSound, Verified, OneChain, RecordsMatchReplay, DependenciesMatchReplay, Rows
<1>2. Cardinality(rows.operations) = Len(rows.head)
  BY <1>1, ChainCardinality
<1>3. rows.head # <<>> => rows.head \in rows.operations
  BY <1>1, ChainType
<1>4. \A k \in Present(rows.records) :
          /\ rows.writer[k] \in rows.operations
          /\ k \in PutKeys(BodyOf(rows.writer[k]).changes)
          /\ BodyOf(rows.writer[k]).changes[k].record = rows.records[k]
  BY DEF RowsSound, Verified, WriterMatchesReplay, Present
<1>5. QED
  BY <1>1, <1>2, <1>3, <1>4 DEF Materialized

\* The operations up to a head that is still on the history are its chain.
LEMMA ChainUpTo ==
    ASSUME rows \in Rows, RowsSound(rows), NEW head \in History,
           IsPrefixOf(head, rows.head)
    PROVE  Cardinality({o \in rows.operations : Len(o) <= Len(head)}) = Len(head)
<1>1. /\ rows.head \in History /\ rows.operations = ChainOf(rows.head)
      /\ Len(rows.head) \in Nat /\ Len(head) \in Nat /\ Len(head) <= Len(rows.head)
      /\ head = Prefix(rows.head, Len(head))
  BY LenType DEF RowsSound, Verified, OneChain, Rows, IsPrefixOf
<1>2. \A n \in 1..Len(rows.head) : Len(Prefix(rows.head, n)) = n
  BY <1>1, PrefixType
<1>3. \A n \in 1..Len(head) : Prefix(head, n) = Prefix(rows.head, n)
  BY <1>1, PrefixOfPrefix
<1>4. {o \in rows.operations : Len(o) <= Len(head)} = ChainOf(head)
  <2>1. ASSUME NEW o \in ChainOf(rows.head), Len(o) <= Len(head)
        PROVE  o \in ChainOf(head)
    BY <1>1, <1>2, <1>3, <2>1 DEF ChainOf
  <2>2. ASSUME NEW o \in ChainOf(head)
        PROVE  o \in ChainOf(rows.head) /\ Len(o) <= Len(head)
    BY <1>1, <1>2, <1>3, <2>2 DEF ChainOf
  <2>3. QED
    BY <1>1, <2>1, <2>2
<1>5. QED
  BY <1>4, ChainCardinality

-----------------------------------------------------------------------------
(* Every step keeps Sound: requests and openings.                          *)

LEMMA ReplyHolds ==
    ASSUME NEW p \in Call, p.op = "sent", NEW r, NEW t, Holds(p, r, t),
           NEW reply \in {"waiting", "done", "failed"},
           reply = "done" /\ p.batch.kind = "create" =>
               t.purge # None \/ t.binding = p.batch.binding,
           reply = "done" /\ p.batch.kind = "commit" =>
               IsPrefixOf(p.batch.operation, HistoryOf(t))
    PROVE  Holds([p EXCEPT !.reply = reply], r, t)
<1> DEFINE q == [p EXCEPT !.reply = reply]
<1>1. q.op = "sent" /\ q.batch = p.batch /\ q.reply = reply
  BY RepliedType
<1> HIDE DEF q
<1>2. Holds(q, r, t)
  BY <1>1 DEF Holds, IsSent
<1>3. QED
  BY <1>2 DEF q

LEMMA SentSound ==
    ASSUME Structure, Sound, NEW c \in Callers, At(c, "sent")
    PROVE  /\ call[c] \in Call /\ call[c].op = "sent" /\ call[c].batch \in Batch
           /\ ValidBatch(call[c].batch) /\ Holds(call[c], request[c], rows)
<1>1. call[c] # None /\ call[c].op = "sent"
  BY DEF At
<1>2. call[c] \in Call /\ Holds(call[c], request[c], rows)
  BY <1>1, CallKnown DEF Sound
<1>3. QED
  BY <1>1, <1>2, CallType DEF Holds

\* Whatever its sender gave up waiting for was built properly.
LEMMA AbandonValid ==
    ASSUME Structure, Sound, NEW callers \in SUBSET Callers, Abandon(callers)
    PROVE  \A batch \in late' : ValidBatch(batch)
<1>1. \A c \in callers : At(c, "sent") => ValidBatch(call[c].batch)
  BY SentSound
<1>2. QED
  BY <1>1 DEF Abandon, Sound

LEMMA ExecuteSound ==
    ASSUME Structure, Sound, Structure', NEW c \in Callers, Execute(c)
    PROVE  Sound'
<1> DEFINE batch == call[c].batch
           reply == IF Applies(batch) THEN "done" ELSE "failed"
           q == [call[c] EXCEPT !.reply = reply]
<1>1. /\ call[c] \in Call /\ call[c].op = "sent" /\ batch \in Batch
      /\ ValidBatch(batch) /\ Holds(call[c], request[c], rows)
  BY SentSound DEF Execute
<1>2. /\ rows' = Executed(batch) /\ call' = [call EXCEPT ![c] = q]
      /\ UNCHANGED <<late, handle, request, answers, receipts>>
  BY DEF Execute
<1>3. rows \in Rows /\ rows' \in Rows /\ RowsSound(rows)
  BY DEF Structure, TypeOK, Sound
<1>4. /\ RowsSound(rows') /\ Grows(rows, rows')
      /\ Applies(batch) =>
            /\ batch.kind = "create" => rows'.binding = batch.binding
            /\ batch.kind = "commit" => IsPrefixOf(batch.operation, HistoryOf(rows'))
  BY <1>1, <1>2, <1>3, ExecutedSound
<1>5. Holds(call[c], request[c], rows')
  BY <1>1, <1>3, <1>4, HoldsOn
<1>6. Holds(q, request[c], rows')
  BY <1>1, <1>4, <1>5, ReplyHolds
<1>7. call'[c] = q /\ \A d \in Callers : d # c => call'[d] = call[d]
  BY <1>2 DEF Structure, TypeOK
<1> HIDE DEF q, batch, reply
<1>8. \A d \in Callers :
          \/ call'[d] = None
          \/ call'[d] = call[d] /\ request'[d] = request[d]
          \/ Holds(call'[d], request'[d], rows')
  BY <1>2, <1>6, <1>7
<1>9. \A late_batch \in late' : ValidBatch(late_batch)
  BY <1>2 DEF Sound
<1>10. QED
  BY <1>2, <1>4, <1>8, <1>9, SoundStep

LEMMA ExecuteLateSound ==
    ASSUME Structure, Sound, Structure', NEW batch, ExecuteLate(batch)
    PROVE  Sound'
<1>1. batch \in Batch /\ ValidBatch(batch) /\ rows \in Rows /\ RowsSound(rows)
  BY DEF ExecuteLate, Structure, TypeOK, Sound
<1>2. /\ rows' = Executed(batch) /\ late' \subseteq late
      /\ UNCHANGED <<handle, call, request, answers, receipts>>
  BY DEF ExecuteLate
<1>3. RowsSound(rows') /\ Grows(rows, rows')
  BY <1>1, <1>2, ExecutedSound
<1>4. \A b \in late' : ValidBatch(b)
  BY <1>2 DEF Sound
<1>5. QED
  BY <1>2, <1>3, <1>4, SoundStep

LEMMA RowsStay ==
    ASSUME Structure, Sound, UNCHANGED rows
    PROVE  Grows(rows, rows') /\ RowsSound(rows')
  BY GrowsReflexive DEF Structure, TypeOK, Sound

LEMMA LoseReplySound ==
    ASSUME Structure, Sound, Structure', NEW c \in Callers, LoseReply(c)
    PROVE  Sound'
<1> DEFINE q == [call[c] EXCEPT !.reply = "failed"]
<1>1. /\ call[c] \in Call /\ call[c].op = "sent" /\ Holds(call[c], request[c], rows)
  BY SentSound DEF LoseReply
<1>2. Holds(q, request[c], rows)
  BY <1>1, ReplyHolds
<1>3. /\ call' = [call EXCEPT ![c] = q]
      /\ UNCHANGED <<rows, handle, request, answers, receipts>>
  BY DEF LoseReply
<1>4. call'[c] = q /\ \A d \in Callers : d # c => call'[d] = call[d]
  BY <1>3 DEF Structure, TypeOK
<1> HIDE DEF q
<1>5. \A b \in late' : ValidBatch(b)
  BY AbandonValid DEF LoseReply
<1>6. \A d \in Callers :
          \/ call'[d] = call[d] /\ request'[d] = request[d]
          \/ Holds(call'[d], request'[d], rows')
  BY <1>2, <1>3, <1>4
<1>7. QED
  BY <1>3, <1>5, <1>6, RowsStay, SoundStep

LEMMA SettleSound ==
    ASSUME Structure, Sound, Structure', NEW c \in Callers, FailRead(c) \/ Return(c)
    PROVE  Sound'
<1>1. CASE FailRead(c)
  <2>1. /\ End(c, "error")
        /\ UNCHANGED <<rows, late, handle, request, answers, receipts>>
    BY <1>1 DEF FailRead
  <2>2. QED
    BY <2>1, SoundEnd
<1>2. CASE Return(c)
  <2>1. /\ call' = [call EXCEPT ![c] = None]
        /\ UNCHANGED <<rows, late, handle, answers, receipts>>
    BY <1>2 DEF Return, Hold
  <2>2. UNCHANGED request \/ \A d \in Callers : d # c => request'[d] = request[d]
    BY <1>2 DEF Return, Structure, TypeOK
  <2>3. QED
    BY <2>1, <2>2, SoundMove
<1>3. QED
  BY <1>1, <1>2

\* Opening reports damage only of a space that was purged.
LEMMA FailureSound ==
    ASSUME NEW binding, NEW otherwise, otherwise # "integrity" \/ rows.purge # None,
           OpenFailure(binding, otherwise) = "integrity"
    PROVE  rows.purge # None
  BY DEF OpenFailure

LEMMA OpenedSound ==
    ASSUME Structure, Sound, Structure', NEW c \in Users, NEW binding \in Bindings,
           Opened(c, binding), rows.binding = binding,
           UNCHANGED <<rows, late, request, answers, receipts>>
    PROVE  Sound'
<1>1. c \in Callers /\ call' = [call EXCEPT ![c] = None]
  BY UserAuthority DEF Opened, Hold
<1>2. Knows(NewProgram(binding), rows)
  BY DEF Knows, NewProgram
<1>3. \A a \in Authorities : handle'[a] = handle[a] \/ Knows(handle'[a], rows)
  BY <1>2 DEF Opened, Structure, TypeOK
<1>4. QED
  BY <1>1, <1>3, SoundMove

LEMMA OpeningSound ==
    ASSUME Structure, Sound, Structure', NEW c \in Callers, NEW binding \in Bindings,
           \/ Create(c, binding) \/ OpenExisting(c, binding)
           \/ CreateConfirm(c) \/ CreateFailed(c)
    PROVE  Sound'
<1>1. CASE Create(c, binding)
  <2>1. UNCHANGED <<rows, late, handle, request, answers, receipts>>
    BY <1>1 DEF Create
  <2>2. CASE rows.purge = None
    <3> DEFINE batch == [kind |-> "create", binding |-> binding]
               p == [op |-> "sent", batch |-> batch, attempt |-> 0,
                     reply |-> "waiting"]
    <3>1. call' = [call EXCEPT ![c] = p]
      BY <1>1, <2>2 DEF Create, Send, Hold
    <3>2. Holds(p, request[c], rows)
      BY DEF Holds, IsSent, ValidBatch
    <3> HIDE DEF p
    <3>3. QED
      BY <2>1, <3>1, <3>2, SoundHold
  <2>3. CASE rows.purge # None
    <3>1. \E outcome : End(c, outcome)
      BY <1>1, <2>3 DEF Create
    <3>2. QED
      BY <2>1, <2>3, <3>1, SoundEnd
  <2>4. QED
    BY <2>2, <2>3
<1>2. CASE OpenExisting(c, binding)
  <2>1. c \in Users /\ UNCHANGED <<rows, late, request, answers, receipts>>
    BY <1>2 DEF OpenExisting, Opening
  <2>2. CASE rows.live /\ rows.binding = binding
    BY <1>2, <2>1, <2>2, OpenedSound DEF OpenExisting
  <2>3. CASE ~(rows.live /\ rows.binding = binding)
    <3>1. End(c, OpenFailure(binding, "absent")) /\ UNCHANGED handle
      BY <1>2, <2>3 DEF OpenExisting
    <3>2. OpenFailure(binding, "absent") = "integrity" => rows.purge # None
      BY FailureSound
    <3>3. QED
      BY <2>1, <3>1, <3>2, SoundEnd
  <2>4. QED
    BY <2>2, <2>3
<1>3. CASE CreateConfirm(c)
  <2> DEFINE b == call[c].batch.binding
  <2>1. /\ At(c, "sent") /\ IsSent(call[c], "create") /\ call[c].reply = "done"
        /\ UNCHANGED <<rows, late, request, answers, receipts>>
    BY <1>3 DEF CreateConfirm, Replied, Sent, At, IsSent
  <2>2. b \in Bindings /\ c \in Users
    BY <2>1, SentSound, BatchType DEF At, IsSent, Structure, Attached
  <2>3. rows.purge # None \/ rows.binding = b
    BY <2>1, SentSound DEF Holds
  <2>4. CASE rows.binding = b
    BY <1>3, <2>1, <2>2, <2>4, OpenedSound DEF CreateConfirm
  <2>5. CASE rows.binding # b
    <3>1. End(c, OpenFailure(b, "integrity")) /\ UNCHANGED handle
      BY <1>3, <2>5 DEF CreateConfirm
    <3>2. QED
      BY <2>1, <2>3, <2>5, <3>1, SoundEnd
  <2>6. QED
    BY <2>4, <2>5
<1>4. CASE CreateFailed(c)
  <2>1. /\ End(c, OpenFailure(call[c].batch.binding, "error"))
        /\ UNCHANGED <<rows, late, handle, request, answers, receipts>>
    BY <1>4 DEF CreateFailed
  <2>2. OpenFailure(call[c].batch.binding, "error") = "integrity" => rows.purge # None
    BY FailureSound
  <2>3. QED
    BY <2>1, <2>2, SoundEnd
<1>5. QED
  BY <1>1, <1>2, <1>3, <1>4

-----------------------------------------------------------------------------
(* Every step keeps Sound: commits.                                        *)

\* A step of a commit that ends as the rows are gone.
LEMMA UserGone ==
    ASSUME Structure, Sound, Structure', NEW c \in Users, ProgramOf(c) # None,
           Gone(c, ProgramOf(c).binding),
           UNCHANGED <<rows, late, request, answers, receipts>>
    PROVE  Sound'
<1>1. c \in Callers /\ (rows.live \/ rows.purge # None)
  BY UserAuthority, LiveOrPurged
<1>2. QED
  BY <1>1, SoundGone

LEMMA CommitSound ==
    ASSUME Structure, Sound, NEW c \in Callers, call[c] # None, OfCommit(call[c])
    PROVE  /\ call[c] \in Call /\ request[c] \in CommitRequest
           /\ c \in Users /\ ProgramOf(c) # None
           /\ Holds(call[c], request[c], rows)
<1>1. call[c] \in Call /\ request[c] \in CommitRequest /\ c \in Users /\ Inside(call[c])
  BY CommitFacts
<1>2. ProgramOf(c) # None /\ Holds(call[c], request[c], rows)
  BY <1>1 DEF Structure, Attached, Sound
<1>3. QED
  BY <1>1, <1>2

LEMMA AnsweredSound ==
    ASSUME Structure, Sound, Structure', NEW c \in Callers, NEW operation,
           NEW fresh \in BOOLEAN, Answered(c, operation, fresh),
           IsPrefixOf(operation, HistoryOf(rows)), Carries(operation, request[c]),
           fresh => Parent(operation) = request[c].expectedHead,
           UNCHANGED <<rows, late, handle, request, receipts>>
    PROVE  Sound'
<1> DEFINE x == [request |-> request[c], operation |-> operation, fresh |-> fresh]
           p == [op |-> "end", outcome |-> "ok"]
<1>1. /\ x.request = request[c] /\ x.operation = operation /\ x.fresh = fresh
      /\ answers' = answers \cup {x} /\ call' = [call EXCEPT ![c] = p]
  BY DEF Answered, End, Hold
<1>2. Holds(p, request[c], rows)
  BY EndHolds
<1> HIDE DEF x, p
<1>3. Stands(x, rows)
  BY <1>1 DEF Stands
<1>4. QED
  BY <1>1, <1>2, <1>3, SoundMove

LEMMA SubmitSound ==
    ASSUME Structure, Sound, Structure', NEW c \in Callers, NEW id, NEW actor,
           NEW changes, Submit(c, id, actor, changes)
    PROVE  Sound'
<1>1. /\ call[c] = None
      /\ UNCHANGED <<rows, late, handle, call, answers, receipts>>
      /\ \A d \in Callers : d # c => request'[d] = request[d]
  BY DEF Submit, Structure, TypeOK
<1>2. \A d \in Callers :
          call'[d] = None \/ (call'[d] = call[d] /\ request'[d] = request[d])
  BY <1>1
<1>3. \A b \in late' : ValidBatch(b)
  BY <1>1 DEF Sound
<1>4. QED
  BY <1>1, <1>2, <1>3, RowsStay, SoundStep

LEMMA PreflightSound ==
    ASSUME Structure, Sound, Structure', NEW c \in Callers, Preflight(c)
    PROVE  Sound'
<1>1. /\ c \in Users /\ ProgramOf(c) # None /\ request[c] # None
      /\ UNCHANGED <<rows, late, request, answers, receipts>>
      /\ rows \in Rows /\ RowsSound(rows) /\ rows.head \in History
  BY DEF Preflight, Enter, Structure, TypeOK, Sound, Rows
<1>2. CASE Gone(c, ProgramOf(c).binding)
  BY <1>1, <1>2, UserGone
<1>3. ASSUME rows.live, UNCHANGED handle,
             NEW o \in WithOperationId(request[c].operationId),
             Hold(c, [op |-> "prove", operation |-> o, head |-> rows.head,
                      recovering |-> FALSE])
      PROVE  Sound'
  <2> DEFINE p == [op |-> "prove", operation |-> o, head |-> rows.head,
                   recovering |-> FALSE]
  <2>1. /\ o \in rows.operations /\ BodyOf(o).operationId = request[c].operationId
        /\ call' = [call EXCEPT ![c] = p]
    BY <1>3 DEF WithOperationId, Hold
  <2>2. IsPrefixOf(o, rows.head) /\ IsPrefixOf(rows.head, HistoryOf(rows))
    BY <1>1, <1>3, <2>1, OnHistory, PrefixReflexive
  <2>3. Holds(p, request[c], rows)
    BY <2>1, <2>2 DEF Holds, IsSent
  <2> HIDE DEF p
  <2>4. QED
    BY <1>1, <1>3, <2>1, <2>3, SoundHold
<1>4. ASSUME UNCHANGED handle, rows.head = request[c].expectedHead,
             Hold(c, [op |-> "snapshot", head |-> rows.head])
      PROVE  Sound'
  <2> DEFINE p == [op |-> "snapshot", head |-> rows.head]
  <2>1. call' = [call EXCEPT ![c] = p] /\ Holds(p, request[c], rows)
    BY <1>4 DEF Hold, Holds, IsSent
  <2> HIDE DEF p
  <2>2. QED
    BY <1>1, <1>4, <2>1, SoundHold
<1>5. CASE End(c, "conflict") /\ UNCHANGED handle
  BY <1>1, <1>5, SoundEnd
<1>6. QED
  BY <1>2, <1>3, <1>4, <1>5 DEF Preflight

LEMMA ProveSound ==
    ASSUME Structure, Sound, Structure', NEW c \in Callers, Prove(c)
    PROVE  Sound'
<1> DEFINE p == call[c]
<1>1. /\ call[c] # None /\ p.op = "prove" /\ OfCommit(call[c])
      /\ UNCHANGED <<rows, late, request, receipts>>
      /\ rows \in Rows /\ RowsSound(rows)
  BY DEF Prove, At, OfCommit, Structure, TypeOK, Sound
<1>2. /\ c \in Users /\ ProgramOf(c) # None /\ p.operation \in Operation
      /\ BodyOf(p.operation).operationId = request[c].operationId
      /\ p.recovering => SameContent(p.operation, request[c])
      /\ IsPrefixOf(p.operation, p.head)
  BY <1>1, CommitSound, CallType DEF Holds
<1>3. CASE Gone(c, ProgramOf(c).binding) /\ UNCHANGED answers
  BY <1>1, <1>2, <1>3, UserGone
<1>4. CASE /\ rows.live /\ rows.head = p.head /\ Reachable(p.operation, p.head)
           /\ p.recovering \/ SameContent(p.operation, request[c])
           /\ Answered(c, p.operation, FALSE) /\ UNCHANGED handle
  <2>1. IsPrefixOf(p.operation, HistoryOf(rows)) /\ Carries(p.operation, request[c])
    BY <1>1, <1>2, <1>4, OnHistory DEF Carries
  <2>2. QED
    BY <1>1, <1>4, <2>1, AnsweredSound
<1>5. CASE /\ End(c, IF rows.head = p.head /\ ~Reachable(p.operation, p.head)
                     THEN "integrity" ELSE "conflict")
           /\ UNCHANGED <<handle, answers>>
  <2>1. rows.head = p.head => Reachable(p.operation, p.head)
    BY <1>1, <1>2, HistoryReachable
  <2>2. End(c, "conflict")
    BY <1>5, <2>1
  <2>3. QED
    BY <1>1, <1>5, <2>2, SoundEnd
<1>6. QED
  BY <1>3, <1>4, <1>5 DEF Prove

LEMMA ReadSnapshotSound ==
    ASSUME Structure, Sound, Structure', NEW c \in Callers, ReadSnapshot(c)
    PROVE  Sound'
<1>1. /\ call[c] # None /\ call[c].op = "snapshot" /\ OfCommit(call[c])
      /\ UNCHANGED <<rows, late, request, answers, receipts>>
      /\ rows \in Rows /\ RowsSound(rows)
  BY DEF ReadSnapshot, At, OfCommit, Structure, TypeOK, Sound
<1>2. /\ c \in Users /\ ProgramOf(c) # None /\ request[c] \in CommitRequest
      /\ call[c].head = request[c].expectedHead
  BY <1>1, CommitSound DEF Holds
<1>3. CASE Gone(c, ProgramOf(c).binding)
  BY <1>1, <1>2, <1>3, UserGone
<1>4. ASSUME rows.head = call[c].head, Accepts(rows.records, request[c].changes),
             UNCHANGED handle, NEW instant \in Instants,
             Send(c, [kind |-> "commit",
                      operation |-> NewOperation(request[c], instant)], 0)
      PROVE  Sound'
  <2> DEFINE o == NewOperation(request[c], instant)
             batch == [kind |-> "commit", operation |-> o]
             p == [op |-> "sent", batch |-> batch, attempt |-> 0,
                   reply |-> "waiting"]
  <2>1. /\ Parent(o) = rows.head
        /\ BodyOf(o) = [operationId |-> request[c].operationId,
                        actorId |-> request[c].actorId, instant |-> instant,
                        changes |-> request[c].changes,
                        records |-> Transition(rows.records, request[c].changes)]
    BY <1>1, <1>2, NewOperationType
  <2> HIDE DEF o
  <2>2. rows.records = RecordsAt(rows.head, Len(rows.head))
    BY <1>1 DEF RowsSound, Verified, RecordsMatchReplay
  <2>3. ValidBatch(batch)
    BY <1>4, <2>1, <2>2 DEF ValidBatch
  <2>4. Carries(o, request[c]) /\ Parent(o) = request[c].expectedHead
    BY <1>2, <1>4, <2>1 DEF Carries, SameContent
  <2>5. call' = [call EXCEPT ![c] = p]
    BY <1>4 DEF Send, Hold, o
  <2>6. Holds(p, request[c], rows)
    BY <2>3, <2>4 DEF Holds, IsSent
  <2> HIDE DEF p
  <2>7. QED
    BY <1>1, <1>4, <2>5, <2>6, SoundHold
<1>5. CASE /\ End(c, IF rows.head # call[c].head THEN "conflict"
                     ELSE IF ~Materialized THEN "integrity" ELSE "refused")
           /\ UNCHANGED handle
  <2>1. Materialized
    BY <1>1, SoundMaterialized
  <2>2. End(c, "conflict") \/ End(c, "refused")
    BY <1>5, <2>1
  <2>3. QED
    BY <1>1, <1>5, <2>2, SoundEnd
<1>6. QED
  BY <1>3, <1>4, <1>5 DEF ReadSnapshot

LEMMA CommittedSound ==
    ASSUME Structure, Sound, Structure', NEW c \in Callers, Committed(c)
    PROVE  Sound'
<1> DEFINE o == call[c].batch.operation
<1>1. /\ call[c] # None /\ IsSent(call[c], "commit") /\ call[c].reply = "done"
      /\ OfCommit(call[c]) /\ Answered(c, o, TRUE)
      /\ UNCHANGED <<rows, late, handle, request, receipts>>
  BY DEF Committed, Replied, Sent, At, IsSent, OfCommit
<1>2. /\ IsPrefixOf(o, HistoryOf(rows)) /\ Carries(o, request[c])
      /\ Parent(o) = request[c].expectedHead
  BY <1>1, CommitSound DEF Holds
<1>3. QED
  BY <1>1, <1>2, AnsweredSound

LEMMA CommitFailedSound ==
    ASSUME Structure, Sound, Structure', NEW c \in Callers, CommitFailed(c)
    PROVE  Sound'
<1> DEFINE o == call[c].batch.operation
           stored == WithOperationId(BodyOf(o).operationId)
<1>1. /\ call[c] # None /\ IsSent(call[c], "commit") /\ OfCommit(call[c])
      /\ UNCHANGED <<rows, late, handle, request, answers, receipts>>
  BY DEF CommitFailed, Replied, Sent, At, IsSent, OfCommit
<1>2. Carries(o, request[c])
  BY <1>1, CommitSound DEF Holds
<1>3. PICK found \in IF stored = {} THEN {None} ELSE stored :
              Hold(c, [op |-> "raced", operation |-> o, found |-> found])
  BY DEF CommitFailed
<1> DEFINE p == [op |-> "raced", operation |-> o, found |-> found]
<1>4. found # None =>
          /\ BodyOf(found).operationId = request[c].operationId
          /\ IsPrefixOf(found, HistoryOf(rows))
  <2>1. found # None => found \in stored
    BY <1>3
  <2>2. rows \in Rows /\ RowsSound(rows)
    BY DEF Structure, TypeOK, Sound
  <2>3. QED
    BY <1>2, <2>1, <2>2, OnHistory DEF WithOperationId, Carries
<1>5. Holds(p, request[c], rows)
  BY <1>2, <1>4 DEF Holds, IsSent
<1>6. call' = [call EXCEPT ![c] = p]
  BY <1>3 DEF Hold
<1> HIDE DEF p, o, stored
<1>7. QED
  BY <1>1, <1>5, <1>6, SoundHold

LEMMA RecoverHeadSound ==
    ASSUME Structure, Sound, Structure', NEW c \in Callers, RecoverHead(c)
    PROVE  Sound'
<1> DEFINE found == call[c].found
<1>1. /\ call[c] # None /\ call[c].op = "raced" /\ OfCommit(call[c])
      /\ UNCHANGED <<rows, late, request, answers, receipts>>
      /\ rows \in Rows /\ RowsSound(rows) /\ rows.head \in History
  BY DEF RecoverHead, At, OfCommit, Structure, TypeOK, Sound, Rows
<1>2. /\ c \in Users /\ ProgramOf(c) # None
      /\ found # None =>
            /\ BodyOf(found).operationId = request[c].operationId
            /\ IsPrefixOf(found, HistoryOf(rows))
  BY <1>1, CommitSound DEF Holds
<1>3. CASE Gone(c, ProgramOf(c).binding)
  BY <1>1, <1>2, <1>3, UserGone
<1>4. CASE /\ rows.live /\ found # None /\ SameContent(found, request[c])
           /\ Hold(c, [op |-> "prove", operation |-> found, head |-> rows.head,
                       recovering |-> TRUE])
           /\ UNCHANGED handle
  <2> DEFINE p == [op |-> "prove", operation |-> found, head |-> rows.head,
                   recovering |-> TRUE]
  <2>1. IsPrefixOf(found, rows.head) /\ IsPrefixOf(rows.head, HistoryOf(rows))
    BY <1>1, <1>2, <1>4, OnHistory, PrefixReflexive
  <2>2. Holds(p, request[c], rows)
    BY <1>2, <1>4, <2>1 DEF Holds, IsSent
  <2>3. call' = [call EXCEPT ![c] = p]
    BY <1>4 DEF Hold
  <2> HIDE DEF p
  <2>4. QED
    BY <1>1, <1>4, <2>2, <2>3, SoundHold
<1>5. CASE (End(c, "conflict") \/ End(c, "error")) /\ UNCHANGED handle
  BY <1>1, <1>5, SoundEnd
<1>6. QED
  BY <1>3, <1>4, <1>5 DEF RecoverHead

LEMMA CommitStepSound ==
    ASSUME Structure, Sound, Structure', NEW c \in Callers,
           \/ CommitClosed(c) \/ Preflight(c) \/ Prove(c) \/ ReadSnapshot(c)
           \/ Committed(c) \/ CommitFailed(c) \/ RecoverHead(c)
    PROVE  Sound'
<1>1. CASE CommitClosed(c)
  BY <1>1, SoundEnd DEF CommitClosed
<1>2. QED
  BY <1>1, PreflightSound, ProveSound, ReadSnapshotSound, CommittedSound,
     CommitFailedSound, RecoverHeadSound

-----------------------------------------------------------------------------
(* Every step keeps Sound: verify and purges.                              *)

LEMMA VerifySound ==
    ASSUME Structure, Sound, Structure', NEW c \in Callers,
           Read(c) \/ Verify(c) \/ VerifySnapshot(c) \/ VerifyRows(c)
    PROVE  Sound'
<1>1. rows \in Rows /\ RowsSound(rows) /\ rows.head \in History
  BY DEF Structure, TypeOK, Sound, Rows
<1>2. CASE Read(c)
  <2>1. /\ c \in Users /\ ProgramOf(c) # None /\ Gone(c, ProgramOf(c).binding)
        /\ UNCHANGED <<rows, late, request, answers, receipts>>
    BY <1>2 DEF Read, EnterIdle, Enter
  <2>2. QED
    BY <2>1, UserGone
<1>3. ASSUME NEW op \in {"verify", "verifyRows"}, NEW head,
             IsPrefixOf(head, HistoryOf(rows)), Hold(c, [op |-> op, head |-> head]),
             UNCHANGED <<rows, late, handle, request, answers, receipts>>
      PROVE  Sound'
  <2> DEFINE p == [op |-> op, head |-> head]
  <2>1. call' = [call EXCEPT ![c] = p] /\ Holds(p, request[c], rows)
    BY <1>3 DEF Hold, Holds, IsSent
  <2> HIDE DEF p
  <2>2. QED
    BY <1>3, <2>1, SoundHold
<1>4. CASE Verify(c)
  <2>1. /\ rows.live /\ Hold(c, [op |-> "verify", head |-> rows.head])
        /\ UNCHANGED <<rows, late, handle, request, answers, receipts>>
    BY <1>4 DEF Verify
  <2>2. IsPrefixOf(rows.head, HistoryOf(rows))
    BY <1>1, <2>1, OnHistory, PrefixReflexive
  <2>3. QED
    BY <1>3, <2>1, <2>2
<1>5. ASSUME call[c] # None, OfVerify(call[c])
      PROVE  /\ c \in Users /\ ProgramOf(c) # None /\ call[c].head \in History
             /\ IsPrefixOf(call[c].head, HistoryOf(rows))
             /\ rows.live \/ rows.purge # None
  <2>1. c \in Users /\ call[c] \in Call /\ Holds(call[c], request[c], rows)
    BY <1>5, CallKnown DEF Structure, Attached, Sound
  <2>2. Inside(call[c])
    BY <1>5 DEF OfVerify, Inside, IsSent
  <2>3. ProgramOf(c) # None
    BY <1>5, <2>1, <2>2 DEF Structure, Attached
  <2>4. QED
    BY <1>5, <2>1, <2>3, CallType, LiveOrPurged DEF OfVerify, Holds
<1>6. CASE VerifySnapshot(c)
  <2>1. /\ call[c] # None /\ OfVerify(call[c])
        /\ UNCHANGED <<rows, late, request, answers, receipts>>
    BY <1>6 DEF VerifySnapshot, At, OfVerify
  <2>2. CASE Gone(c, ProgramOf(c).binding)
    BY <1>5, <2>1, <2>2, UserGone
  <2>3. CASE /\ Hold(c, [op |-> "verifyRows", head |-> call[c].head])
             /\ UNCHANGED handle
    BY <1>3, <1>5, <2>1, <2>3
  <2>4. CASE /\ End(c, IF rows.head # call[c].head THEN "conflict" ELSE "integrity")
             /\ ~(rows.head = call[c].head /\ Materialized)
             /\ UNCHANGED handle
    <3>1. End(c, "conflict")
      BY <1>1, <2>4, SoundMaterialized
    <3>2. QED
      BY <2>1, <2>4, <3>1, SoundEnd
  <2>5. QED
    BY <1>6, <2>2, <2>3, <2>4 DEF VerifySnapshot
<1>7. CASE VerifyRows(c)
  <2> DEFINE head == call[c].head
             upTo == {o \in rows.operations : Len(o) <= Len(head)}
             outcome == IF Cardinality(upTo) # Len(head) \/ ~rows.live THEN "integrity"
                        ELSE IF rows.head # head THEN "conflict"
                        ELSE IF Verified(rows) THEN "ok" ELSE "integrity"
  <2>1. /\ call[c] # None /\ OfVerify(call[c]) /\ End(c, outcome)
        /\ UNCHANGED <<rows, late, handle, request, answers, receipts>>
    BY <1>7 DEF VerifyRows, At, OfVerify
  <2>2. /\ head \in History /\ IsPrefixOf(head, HistoryOf(rows))
        /\ rows.live \/ rows.purge # None
    BY <1>5, <2>1
  <2>3. rows.live => Cardinality(upTo) = Len(head)
    BY <1>1, <2>2, OnHistory, ChainUpTo
  <2>4. Verified(rows)
    BY <1>1 DEF RowsSound
  <2> HIDE DEF head, upTo
  <2>5. outcome = "integrity" => rows.purge # None
    BY <2>2, <2>3, <2>4
  <2> HIDE DEF outcome
  <2>6. QED
    BY <2>1, <2>5, SoundEnd
<1>8. QED
  BY <1>2, <1>4, <1>6, <1>7

\* A receipt that was read is the one to check.
LEMMA FoundSound ==
    ASSUME Structure, Sound, Structure', NEW c \in Callers, NEW binding,
           FoundReceipt(c, binding),
           UNCHANGED <<rows, late, handle, request, answers, receipts>>
    PROVE  Sound'
<1>1. CASE Hold(c, [op |-> "check", receipt |-> rows.purge])
  <2> DEFINE p == [op |-> "check", receipt |-> rows.purge]
  <2>1. call' = [call EXCEPT ![c] = p] /\ Holds(p, request[c], rows)
    BY <1>1 DEF Hold, Holds, IsSent
  <2> HIDE DEF p
  <2>2. QED
    BY <2>1, SoundHold
<1>2. CASE rows.purge # None /\ End(c, "integrity")
  BY <1>2, SoundEnd
<1>3. QED
  BY <1>1, <1>2 DEF FoundReceipt

\* A purge goes on in a space that is bound, or was.
LEMMA AttemptSound ==
    ASSUME Structure, Sound, Structure', NEW c \in Callers,
           NEW op \in {"purgeRead", "purgeHead", "fenceRead"},
           NEW binding, NEW at, NEW attempt,
           Hold(c, PurgeCall(op, binding, at, attempt)),
           op # "fenceRead" => rows.purge # None \/ rows.binding # None,
           UNCHANGED <<rows, late, handle, request, answers, receipts>>
    PROVE  Sound'
<1> DEFINE p == PurgeCall(op, binding, at, attempt)
<1>1. call' = [call EXCEPT ![c] = p] /\ Holds(p, request[c], rows)
  BY DEF Hold, Holds, IsSent, PurgeCall
<1> HIDE DEF p
<1>2. QED
  BY <1>1, SoundHold

LEMMA NextAttemptSound ==
    ASSUME Structure, Sound, Structure', NEW c \in Callers,
           NEW op \in {"purgeRead", "fenceRead"}, NextAttempt(c, op),
           op # "fenceRead" => rows.purge # None \/ rows.binding # None,
           UNCHANGED <<rows, late, handle, request, answers, receipts>>
    PROVE  Sound'
<1>1. CASE End(c, "conflict")
  BY <1>1, SoundEnd
<1>2. CASE call[c].attempt < PurgeAttempts
  BY <1>2, AttemptSound DEF NextAttempt
<1>3. QED
  BY <1>1, <1>2 DEF NextAttempt

LEMMA SendSound ==
    ASSUME Structure, Sound, Structure', NEW c \in Callers, NEW kind \in {"purge", "fence"},
           NEW receipt, NEW attempt,
           Send(c, [kind |-> kind, receipt |-> receipt], attempt),
           kind = "purge" => rows.purge # None \/ rows.binding # None,
           kind = "fence" => receipt.priorHead = <<>>,
           UNCHANGED <<rows, late, handle, request, answers, receipts>>
    PROVE  Sound'
<1> DEFINE p == [op |-> "sent", batch |-> [kind |-> kind, receipt |-> receipt],
                 attempt |-> attempt, reply |-> "waiting"]
<1>1. call' = [call EXCEPT ![c] = p] /\ Holds(p, request[c], rows)
  BY DEF Send, Hold, Holds, IsSent, ValidBatch
<1> HIDE DEF p
<1>2. QED
  BY <1>1, SoundHold

LEMMA HostPurgeSound ==
    ASSUME Structure, Sound, Structure', NEW c \in Callers, NEW at, HostPurge(c, at)
    PROVE  Sound'
<1> DEFINE program == ProgramOf(c)
<1>1. /\ c \in Users /\ program # None
      /\ UNCHANGED <<rows, late, handle, request, answers>>
  BY DEF HostPurge, EnterIdle, Enter
<1>2. Knows(program, rows)
  BY <1>1, UserAuthority DEF ProgramOf, Sound
<1>3. CASE UNCHANGED receipts /\ (End(c, "profile") \/ End(c, "purged"))
  BY <1>1, <1>3, SoundEnd
<1>4. CASE /\ program.hostPurge # None /\ End(c, "ok")
           /\ receipts' = receipts \cup {program.hostPurge}
  <2> DEFINE p == [op |-> "end", outcome |-> "ok"]
  <2>1. call' = [call EXCEPT ![c] = p] /\ Holds(p, request[c], rows)
    BY <1>4, EndHolds DEF End, Hold
  <2> HIDE DEF p
  <2>2. rows.purge = program.hostPurge
    BY <1>2, <1>4 DEF Knows
  <2>3. QED
    BY <1>1, <1>4, <2>1, <2>2, SoundMove
<1>5. CASE /\ Hold(c, PurgeCall("purgeRead", program.binding, at, 1))
           /\ UNCHANGED receipts
  <2>1. rows.live \/ rows.purge # None
    BY <1>1, LiveOrPurged
  <2>2. rows.purge # None \/ rows.binding # None
    BY <2>1 DEF Sound, RowsSound
  <2>3. QED
    BY <1>1, <1>5, <2>2, AttemptSound
<1>6. QED
  BY <1>3, <1>4, <1>5 DEF HostPurge

LEMMA CheckSound ==
    ASSUME Structure, Sound, Structure', NEW c \in Callers, CheckPurge(c)
    PROVE  Sound'
<1> DEFINE receipt == call[c].receipt
           p == [op |-> "end", outcome |-> "ok"]
<1>1. /\ call[c] # None /\ call[c].op = "check"
      /\ UNCHANGED <<rows, late, request, answers>>
      /\ rows \in Rows /\ RowsSound(rows)
  BY DEF CheckPurge, At, Structure, TypeOK, Sound
<1>2. /\ rows.purge = receipt /\ receipt # None
      /\ c \in Users => ProgramOf(c) # None
  <2>1. call[c] \in Call /\ Holds(call[c], request[c], rows) /\ Inside(call[c])
    BY <1>1, CallKnown DEF Sound, Inside, IsSent
  <2>2. QED
    BY <1>1, <2>1, CallType, ReceiptType DEF Holds, Structure, Attached
<1>3. PurgeComplete(receipt)
  BY <1>1, <1>2, OnHistory DEF PurgeComplete, RowsSound
<1>4. /\ call' = [call EXCEPT ![c] = p]
      /\ receipts' = receipts \cup {receipt}
      /\ IF c \in Users
         THEN handle' = [handle EXCEPT ![AuthorityOf[c]].purged = receipt,
                                       ![AuthorityOf[c]].hostPurge = receipt]
         ELSE UNCHANGED handle
  BY <1>3 DEF CheckPurge, End, Hold
<1>5. Holds(p, request[c], rows)
  BY EndHolds
<1> HIDE DEF receipt, p
<1>6. ASSUME NEW a \in Authorities
      PROVE  handle'[a] = handle[a] \/ Knows(handle'[a], rows)
  <2>1. CASE c \in Users /\ a = AuthorityOf[c]
    <3>1. handle[a] \in Program
      BY <1>2, <2>1 DEF ProgramOf, Structure, TypeOK
    <3>2. handle'[a] = [handle[a] EXCEPT !.purged = receipt, !.hostPurge = receipt]
      BY <1>4, <2>1, <3>1 DEF Structure, TypeOK
    <3>3. handle'[a].purged = receipt /\ handle'[a].hostPurge = receipt
      BY <3>1, <3>2 DEF Program
    <3>4. QED
      BY <1>2, <3>3 DEF Knows
  <2>2. CASE ~(c \in Users /\ a = AuthorityOf[c])
    BY <1>4, <2>2 DEF Structure, TypeOK
  <2>3. QED
    BY <2>1, <2>2
<1>7. QED
  BY <1>1, <1>2, <1>4, <1>5, <1>6, SoundMove

LEMMA PurgeSound ==
    ASSUME Structure, Sound, Structure', NEW c \in Callers,
           ReadPurge(c) \/ PurgeHead(c) \/ PurgeReread(c)
    PROVE  Sound'
<1>1. /\ rows \in Rows /\ RowsSound(rows) /\ call[c] # None /\ call[c] \in Call
      /\ Holds(call[c], request[c], rows)
      /\ UNCHANGED <<rows, late, request, answers, receipts>>
  <2>1. call[c] # None /\ UNCHANGED <<rows, late, request, answers, receipts>>
    BY DEF ReadPurge, PurgeHead, PurgeReread, Sent, At
  <2>2. QED
    BY <2>1, CallKnown DEF Structure, TypeOK, Sound
<1>2. rows.purge # None \/ rows.binding # None
  BY <1>1 DEF Holds, ReadPurge, PurgeHead, PurgeReread, Sent, At, IsSent
<1>3. CASE ReadPurge(c)
  <2>1. call[c].op = "purgeRead" /\ UNCHANGED handle
    BY <1>3 DEF ReadPurge, At
  <2>2. CASE FoundReceipt(c, call[c].binding)
    BY <1>1, <2>1, <2>2, FoundSound
  <2>3. CASE Hold(c, [call[c] EXCEPT !.op = "purgeHead"])
    <3>1. [call[c] EXCEPT !.op = "purgeHead"] =
              PurgeCall("purgeHead", call[c].binding, call[c].at, call[c].attempt)
      <4>1. call[c] \in [op: {"purgeRead", "purgeHead", "fenceRead"}, binding: Bindings,
                         at: PurgeInstants, attempt: 1..PurgeAttempts]
        BY <1>1, <2>1 DEF Call
      <4>2. QED
        BY <4>1 DEF PurgeCall
    <3>2. QED
      BY <1>1, <1>2, <2>1, <2>3, <3>1, AttemptSound
  <2>4. QED
    BY <1>3, <2>2, <2>3 DEF ReadPurge
<1>4. CASE PurgeHead(c)
  <2>1. call[c].op = "purgeHead"
    BY <1>4 DEF PurgeHead, At
  <2>2. CASE Gone(c, call[c].binding)
    <3>1. c \in Users => ProgramOf(c) # None
      BY <1>1, <2>1 DEF Inside, IsSent, Structure, Attached
    <3>2. rows.live \/ rows.purge # None
      BY <1>1, <1>2 DEF RowsSound
    <3>3. QED
      BY <1>1, <2>2, <3>1, <3>2, SoundGone
  <2>3. CASE /\ Send(c, [kind |-> "purge",
                         receipt |-> [binding |-> call[c].binding,
                                      priorHead |-> rows.head,
                                      purgedAt |-> call[c].at]], call[c].attempt)
             /\ UNCHANGED handle
    BY <1>1, <1>2, <2>3, SendSound
  <2>4. QED
    BY <1>4, <2>2, <2>3 DEF PurgeHead
<1>5. CASE PurgeReread(c)
  <2>1. UNCHANGED handle
    BY <1>5 DEF PurgeReread
  <2>2. CASE FoundReceipt(c, call[c].batch.receipt.binding)
    BY <1>1, <2>1, <2>2, FoundSound
  <2>3. CASE NextAttempt(c, "purgeRead")
    BY <1>1, <1>2, <2>1, <2>3, NextAttemptSound
  <2>4. QED
    BY <1>5, <2>2, <2>3 DEF PurgeReread
<1>6. QED
  BY <1>3, <1>4, <1>5

LEMMA FenceSound ==
    ASSUME Structure, Sound, Structure', NEW c \in Callers,
           \/ \E binding \in Bindings, at \in PurgeInstants : WorkerPurge(c, binding, at)
           \/ FenceRead(c) \/ FenceReread(c)
    PROVE  Sound'
<1>1. UNCHANGED <<rows, late, handle, request, answers, receipts>>
  BY DEF WorkerPurge, FenceRead, FenceReread
<1>2. ASSUME NEW binding \in Bindings, NEW at \in PurgeInstants,
             WorkerPurge(c, binding, at)
      PROVE  Sound'
  <2>1. CASE Hold(c, PurgeCall("fenceRead", binding, at, 1))
    BY <1>1, <2>1, AttemptSound
  <2>2. CASE End(c, "profile")
    BY <1>1, <2>2, SoundEnd
  <2>3. QED
    BY <1>2, <2>1, <2>2 DEF WorkerPurge
<1>3. CASE FenceRead(c)
  <2> DEFINE p == call[c]
  <2>1. /\ p.op = "fenceRead" /\ p.binding # None
        /\ rows.live <=> rows.binding # None
    <3>1. p # None /\ p.op = "fenceRead"
      BY <1>3 DEF FenceRead, At
    <3>2. p.binding # None
      BY <3>1, CallKnown, CallType, NoneAssumption
    <3>3. QED
      BY <3>1, <3>2 DEF Sound, RowsSound
  <2>2. CASE FoundReceipt(c, p.binding)
    BY <1>1, <2>2, FoundSound
  <2>3. CASE rows.binding = p.binding /\ Hold(c, PurgeCall("purgeRead", p.binding, p.at, 1))
    BY <1>1, <2>1, <2>3, AttemptSound
  <2>4. CASE Send(c, [kind |-> "fence",
                      receipt |-> [binding |-> p.binding, priorHead |-> <<>>,
                                   purgedAt |-> p.at]], p.attempt)
    BY <1>1, <2>4, SendSound
  <2>5. CASE End(c, IF rows.live # (rows.binding # None) THEN "integrity"
                    ELSE "profile")
    <3>1. rows.live \in BOOLEAN
      BY DEF Structure, TypeOK, Rows
    <3>2. rows.live = (rows.binding # None)
      BY <2>1, <3>1
    <3>3. End(c, "profile")
      BY <2>5, <3>2
    <3>4. QED
      BY <1>1, <3>3, SoundEnd
  <2>6. QED
    BY <1>3, <2>2, <2>3, <2>4, <2>5 DEF FenceRead
<1>4. CASE FenceReread(c)
  <2>1. CASE FoundReceipt(c, call[c].batch.receipt.binding)
    BY <1>1, <2>1, FoundSound
  <2>2. CASE NextAttempt(c, "fenceRead")
    BY <1>1, <2>2, NextAttemptSound
  <2>3. CASE End(c, "error")
    BY <1>1, <2>3, SoundEnd
  <2>4. QED
    BY <1>4, <2>1, <2>2, <2>3 DEF FenceReread
<1>5. QED
  BY <1>2, <1>3, <1>4

-----------------------------------------------------------------------------
(* Every step keeps Sound: closing, crashing and the whole.                *)

LEMMA QuietSound ==
    ASSUME Structure, Sound, Structure', UNCHANGED <<rows, request, answers, receipts>>,
           \A batch \in late' : ValidBatch(batch),
           \A c \in Callers : call'[c] = None \/ call'[c] = call[c],
           \A a \in Authorities : handle'[a] = None \/ handle'[a] = handle[a]
    PROVE  Sound'
<1>1. \A c \in Callers :
          call'[c] = None \/ (call'[c] = call[c] /\ request'[c] = request[c])
  OBVIOUS
<1>2. QED
  BY <1>1, RowsStay, SoundStep

LEMMA CloseSound ==
    ASSUME Structure, Sound, Structure', NEW a, Close(a) \/ FinishClose(a)
    PROVE  Sound'
<1>1. UNCHANGED <<rows, late, call, request, answers, receipts>>
  BY DEF Close, FinishClose, storeVars
<1>2. \A b \in Authorities : handle'[b] = None \/ handle'[b] = handle[b]
  BY DEF Close, FinishClose, storeVars, Structure, TypeOK
<1>3. \A batch \in late' : ValidBatch(batch)
  BY <1>1 DEF Sound
<1>4. QED
  BY <1>1, <1>2, <1>3, QuietSound

LEMMA CrashSound ==
    ASSUME Structure, Sound, Structure',
           \/ \E a \in Authorities : Crash(a)
           \/ \E c \in Callers : CrashWorker(c)
    PROVE  Sound'
<1>1. CASE \E a \in Authorities : Crash(a)
  <2>1. PICK a \in Authorities : Crash(a)
    BY <1>1
  <2>2. /\ UNCHANGED <<rows, request, answers, receipts>> /\ Abandon(UsersOf(a))
        /\ \A c \in Callers : call'[c] = None \/ call'[c] = call[c]
    BY <2>1 DEF Crash
  <2>3. \A b \in Authorities : handle'[b] = None \/ handle'[b] = handle[b]
    BY <2>1 DEF Crash, Structure, TypeOK
  <2>4. UsersOf(a) \in SUBSET Callers
    BY DEF UsersOf, Users
  <2>5. QED
    BY <2>2, <2>3, <2>4, AbandonValid, QuietSound
<1>2. CASE \E c \in Callers : CrashWorker(c)
  <2>1. PICK c \in Callers : CrashWorker(c)
    BY <1>2
  <2>2. UNCHANGED <<rows, handle, request, answers, receipts>> /\ Abandon({c})
    BY <2>1 DEF CrashWorker
  <2>3. \A d \in Callers : call'[d] = None \/ call'[d] = call[d]
    BY <2>1 DEF CrashWorker, Hold, Structure, TypeOK
  <2>4. {c} \in SUBSET Callers
    OBVIOUS
  <2>5. QED
    BY <2>2, <2>3, <2>4, AbandonValid, QuietSound
<1>3. QED
  BY <1>1, <1>2

LEMMA SoundInit == Init => Sound
<1>1. SUFFICES ASSUME Init PROVE Sound
  OBVIOUS
<1>2. rows = [EmptyRows EXCEPT !.purge = rows.purge]
  BY <1>1 DEF Init, EmptyRows
<1>3. Verified(rows) /\ ValidHistory(<<>>)
  BY <1>1, EmptyVerified DEF Init, EmptyRows
<1>4. RowsSound(rows)
  BY <1>1, <1>2, <1>3 DEF RowsSound, HistoryOf, Init, EmptyRows
<1>5. QED
  BY <1>1, <1>4 DEF Init, Sound

\* What workflows, programs, answers and receipts rely on survives every step.
THEOREM SoundNext ==
    ASSUME Structure, Sound, [Next]_vars
    PROVE  Sound'
<1>1. Structure'
  BY StructureNext
<1>2. ASSUME NEW c \in Callers, Step(c) PROVE Sound'
  <2>1. CASE CreateConfirm(c) \/ CreateFailed(c)
    <3>1. At(c, "sent") /\ call[c].batch.kind = "create"
      BY <2>1 DEF CreateConfirm, CreateFailed, Replied, Sent
    <3>2. call[c].batch.binding \in Bindings
      BY <3>1, SentSound, BatchType
    <3>3. QED
      BY <1>1, <2>1, <3>2, OpeningSound
  <2>2. CASE ~(CreateConfirm(c) \/ CreateFailed(c))
    BY <1>1, <1>2, <2>2, ExecuteSound, LoseReplySound, SettleSound, CommitStepSound,
       VerifySound, PurgeSound, CheckSound, FenceSound DEF Step
  <2>3. QED
    BY <2>1, <2>2
<1>3. ASSUME NEW c \in Callers, NEW binding \in Bindings,
             Create(c, binding) \/ OpenExisting(c, binding)
      PROVE  Sound'
  BY <1>1, <1>3, OpeningSound
<1>4. ASSUME NEW c \in Callers,
             \/ FailRead(c) \/ CommitClosed(c) \/ Preflight(c) \/ Read(c) \/ Verify(c)
             \/ CrashWorker(c)
      PROVE  Sound'
  BY <1>1, <1>4, SettleSound, CommitStepSound, VerifySound, CrashSound
<1>5. ASSUME NEW c \in Callers, NEW id \in OperationIds, NEW actor \in Actors,
             NEW changes \in ChangeSets, Submit(c, id, actor, changes)
      PROVE  Sound'
  BY <1>1, <1>5, SubmitSound
<1>6. ASSUME NEW c \in Callers, NEW at \in PurgeInstants, HostPurge(c, at)
      PROVE  Sound'
  BY <1>1, <1>6, HostPurgeSound
<1>7. ASSUME NEW c \in Callers, NEW binding \in Bindings, NEW at \in PurgeInstants,
             WorkerPurge(c, binding, at)
      PROVE  Sound'
  BY <1>1, <1>7, FenceSound
<1>8. ASSUME NEW batch \in late, ExecuteLate(batch) PROVE Sound'
  BY <1>1, <1>8, ExecuteLateSound
<1>9. ASSUME NEW a \in Authorities, Close(a) \/ FinishClose(a) \/ Crash(a)
      PROVE  Sound'
  BY <1>1, <1>9, CloseSound, CrashSound
<1>10. CASE UNCHANGED vars
  <2>1. /\ UNCHANGED <<rows, request, answers, receipts, late, call, handle>>
        /\ \A batch \in late' : ValidBatch(batch)
    BY <1>10 DEF vars, storeVars, Sound
  <2>2. QED
    BY <1>1, <2>1, QuietSound
<1>11. QED
  BY <1>2, <1>3, <1>4, <1>5, <1>6, <1>7, <1>8, <1>9, <1>10 DEF Next

-----------------------------------------------------------------------------
(* What follows for the store.                                             *)

LEMMA SoundHolds == Spec => [](Structure /\ Sound)
<1>1. Init => Structure /\ Sound
  BY StructureInit, SoundInit
<1>2. Structure /\ Sound /\ [Next]_vars => (Structure /\ Sound)'
  BY StructureNext, SoundNext
<1>3. QED
  BY <1>1, <1>2, PTL DEF Spec

\* Whatever batches execute, and however late, the rows are well typed and
\* replay to one another, and nothing is left of a purged space but its receipt.
THEOREM StoreHolds == Spec => []StoreInvariant
<1>1. Structure /\ Sound => StoreInvariant
  BY DEF Structure, Sound, RowsSound, StoreInvariant, RowsVerify
<1>2. QED
  BY <1>1, SoundHolds, PTL

\* However hosts, workers and creators race, a space has one purge receipt:
\* the one every purge returns and every program remembers.
THEOREM ReceiptsHold == Spec => []OneReceipt
<1>1. Structure /\ Sound => OneReceipt
  BY DEF Sound, Knows, OneReceipt
<1>2. QED
  BY <1>1, SoundHolds, PTL

\* Unless the space was purged, no workflow reports damage.
THEOREM NoAlarm == Spec => []NoFalseAlarm
<1>1. Structure /\ Sound => NoFalseAlarm
  BY DEF Sound, Holds, NoFalseAlarm, At
<1>2. QED
  BY <1>1, SoundHolds, PTL

\* Of two operations on one history, each is where its sequence number says.
LEMMA OnePosition ==
    ASSUME NEW h \in History, NEW f \in Operation, NEW g \in Operation,
           IsPrefixOf(f, h), IsPrefixOf(g, h)
    PROVE  /\ Len(f) = Len(g) => f = g
           /\ Len(f) \in 1..Len(h) /\ BodyOf(f) = h[Len(f)]
<1>1. Len(f) = Len(g) => f = g
  BY DEF IsPrefixOf
<1>2. /\ Len(f) \in Nat \ {0} /\ Len(h) \in Nat /\ Len(f) <= Len(h)
      /\ f = Prefix(h, Len(f))
  BY OperationType, LenType DEF IsPrefixOf
<1>3. Prefix(h, Len(f))[Len(f)] = h[Len(f)]
  BY <1>2, PrefixType
<1>4. QED
  BY <1>1, <1>2, <1>3 DEF BodyOf

\* Every answer of a commit is on the history for ever and answers its request;
\* an identifier is answered with one operation, and of the commits reviewed
\* against one head at most one is answered as new.
THEOREM AnswersHold == Spec => []AnswersStand
<1>1. ASSUME Structure, Sound PROVE AnswersStand
  <2>1. /\ rows \in Rows /\ HistoryOf(rows) \in History
        /\ ValidHistory(HistoryOf(rows)) /\ FinalHistory = HistoryOf(rows)
    BY <1>1, HistoryOfType
       DEF Structure, TypeOK, Sound, RowsSound, FinalHistory, HistoryOf
  <2>2. \A r \in answers :
            /\ r.operation \in Operation
            /\ IsPrefixOf(r.operation, FinalHistory)
            /\ BodyOf(r.operation).operationId = r.request.operationId
            /\ BodyOf(r.operation).actorId = r.request.actorId
            /\ BodyOf(r.operation).changes = r.request.changes
            /\ r.fresh => Parent(r.operation) = r.request.expectedHead
    BY <1>1, <2>1 DEF Sound, Stands, Carries, SameContent, Structure, TypeOK, Answer
  <2>3. ASSUME NEW r \in answers, NEW s \in answers,
               r.request.operationId = s.request.operationId
        PROVE  r.operation = s.operation
    <3>1. /\ Len(r.operation) \in 1..Len(FinalHistory)
          /\ Len(s.operation) \in 1..Len(FinalHistory)
          /\ BodyOf(r.operation) = FinalHistory[Len(r.operation)]
          /\ BodyOf(s.operation) = FinalHistory[Len(s.operation)]
          /\ Len(r.operation) = Len(s.operation) => r.operation = s.operation
      BY <2>1, <2>2, OnePosition
    <3>2. FinalHistory[Len(r.operation)].operationId
              = FinalHistory[Len(s.operation)].operationId
      BY <2>2, <2>3, <3>1
    <3>3. QED
      BY <2>1, <3>1, <3>2 DEF ValidHistory
  <2>4. ASSUME NEW r \in answers, NEW s \in answers, r.fresh, s.fresh,
               r.request.expectedHead = s.request.expectedHead
        PROVE  r.operation = s.operation
    <3>1. Parent(r.operation) = Parent(s.operation)
      BY <2>2, <2>4
    <3>2. /\ Len(r.operation) \in Nat /\ Len(s.operation) \in Nat
          /\ Len(Parent(r.operation)) = Len(r.operation) - 1
          /\ Len(Parent(s.operation)) = Len(s.operation) - 1
      BY <2>2, OperationType
    <3>3. Len(r.operation) = Len(s.operation)
      BY <3>1, <3>2
    <3>4. QED
      BY <2>1, <2>2, <3>3, OnePosition
  <2>5. QED
    BY <2>2, <2>3, <2>4 DEF AnswersStand
<1>2. QED
  BY <1>1, SoundHolds, PTL

-----------------------------------------------------------------------------
(* The rows implement the abstract log.                                    *)

LEMMA LogPrefix ==
    ASSUME NEW h, NEW g
    PROVE  Log!IsPrefixOf(h, g) <=> IsPrefixOf(h, g)
  BY DEF Log!IsPrefixOf, IsPrefixOf, Log!Prefix, Prefix

LEMMA LogReplays ==
    ASSUME NEW h, NEW n
    PROVE  Log!Replays(h, n) <=> Replays(h, n)
<1>1. \A S : Log!Cardinality(S) = Cardinality(S)
  BY DEF Log!Cardinality, Cardinality
<1>2. \A r : Log!Present(r) = Present(r)
  BY DEF Log!Present, Present
<1>3. \A c : Log!PutKeys(c) = PutKeys(c)
  BY DEF Log!PutKeys, PutKeys
<1>4. \A r, c : Log!Transition(r, c) = Transition(r, c)
  BY DEF Log!Transition, Transition
<1>5. \A r : Log!Closed(r) <=> Closed(r)
  BY <1>2 DEF Log!Closed, Closed
<1>6. \A r, c : Log!PriorMatches(r, c) <=> PriorMatches(r, c)
  BY <1>3 DEF Log!PriorMatches, PriorMatches
<1>7. \A r, c : Log!Accepts(r, c) <=> Accepts(r, c)
  BY <1>1, <1>2, <1>4, <1>5, <1>6 DEF Log!Accepts, Accepts
<1>8. \A i : Log!RecordsAt(h, i) = RecordsAt(h, i)
  BY DEF Log!RecordsAt, RecordsAt, Log!EmptySnapshot, EmptySnapshot
<1>9. QED
  BY <1>4, <1>7, <1>8 DEF Log!Replays, Replays

LEMMA LogValid ==
    ASSUME NEW h
    PROVE  Log!ValidHistory(h) <=> ValidHistory(h)
  BY LogReplays DEF Log!ValidHistory, ValidHistory

\* The rows change only as a batch executes.
LEMMA RowsChange ==
    ASSUME Structure, Sound, [Next]_vars
    PROVE  \/ UNCHANGED rows
           \/ \E batch \in Batch : ValidBatch(batch) /\ rows' = Executed(batch)
<1>1. ASSUME NEW c \in Callers, Execute(c)
      PROVE  \E batch \in Batch : ValidBatch(batch) /\ rows' = Executed(batch)
  BY <1>1, SentSound DEF Execute
<1>2. ASSUME NEW batch \in late, ExecuteLate(batch)
      PROVE  ValidBatch(batch) /\ batch \in Batch /\ rows' = Executed(batch)
  BY <1>2 DEF ExecuteLate, Structure, TypeOK, Sound
<1>3. ASSUME NEW c \in Callers, Step(c), ~Execute(c) PROVE UNCHANGED rows
  BY <1>3
     DEF Step, LoseReply, CreateConfirm, CreateFailed, Prove, ReadSnapshot,
         Committed, CommitFailed, RecoverHead, VerifySnapshot, VerifyRows, ReadPurge,
         PurgeHead, PurgeReread, CheckPurge, FenceRead, FenceReread, Return
<1>4. ASSUME NEW c \in Callers,
             \/ FailRead(c) \/ CommitClosed(c) \/ Preflight(c) \/ Read(c) \/ Verify(c)
             \/ CrashWorker(c)
      PROVE  UNCHANGED rows
  BY <1>4 DEF FailRead, CommitClosed, Preflight, Read, Verify, CrashWorker
<1>5. ASSUME NEW c \in Callers, NEW binding, NEW at,
             \/ Create(c, binding) \/ OpenExisting(c, binding) \/ HostPurge(c, at)
             \/ WorkerPurge(c, binding, at)
      PROVE  UNCHANGED rows
  BY <1>5 DEF Create, OpenExisting, HostPurge, WorkerPurge
<1>6. ASSUME NEW c \in Callers, NEW id, NEW actor, NEW changes,
             Submit(c, id, actor, changes)
      PROVE  UNCHANGED rows
  BY <1>6 DEF Submit
<1>7. ASSUME NEW a \in Authorities, Close(a) \/ FinishClose(a) \/ Crash(a)
      PROVE  UNCHANGED rows
  BY <1>7 DEF Close, FinishClose, Crash, storeVars
<1>8. CASE UNCHANGED vars
  BY <1>8 DEF vars, storeVars
<1>9. QED
  BY <1>1, <1>2, <1>3, <1>4, <1>5, <1>6, <1>7, <1>8 DEF Next

\* Whatever workflows interleave, the rows are an append-only log that is
\* created, extended by verified operations and purged once.
THEOREM LibSqlImplementsLog == Spec => ImplementsLog
<1>1. Init => Log!LogInit
  BY DEF Init, EmptyRows, Log!LogInit
<1>2. Structure /\ Sound /\ [Next]_vars => [Log!LogNext]_(Log!logVars)
  <2> SUFFICES ASSUME Structure, Sound, [Next]_vars
               PROVE  [Log!LogNext]_(Log!logVars)
    OBVIOUS
  <2> USE DEF Log!logVars
  <2>1. CASE UNCHANGED rows
    BY <2>1
  <2>2. CASE \E batch \in Batch : ValidBatch(batch) /\ rows' = Executed(batch)
    <3>1. BatchStep(rows, rows')
      BY <2>2, ExecutedSound DEF Structure, TypeOK, Sound
    <3>2. CASE /\ rows'.purge = rows.purge /\ rows'.live = rows.live
               /\ rows'.head = rows.head
      BY <3>2
    <3>3. CASE /\ rows.purge = None /\ ~rows.live
               /\ rows'.purge = None /\ rows'.live /\ rows'.head = rows.head
      <4>1. Log!Create
        BY <3>3 DEF Log!Create
      <4>2. QED
        BY <4>1 DEF Log!LogNext
    <3>4. CASE /\ rows.purge = None /\ rows.live /\ rows'.purge = None /\ rows'.live
               /\ IsPrefixOf(rows.head, rows'.head) /\ rows.head # rows'.head
               /\ ValidHistory(rows'.head)
      <4>1. Log!Extend
        BY <3>4, LogPrefix, LogValid DEF Log!Extend
      <4>2. QED
        BY <4>1 DEF Log!LogNext
    <3>5. CASE /\ rows.purge = None /\ rows'.purge # None /\ ~rows'.live
               /\ rows'.head = <<>> /\ rows'.purge.priorHead = rows.head
               /\ ~rows.live => rows.head = <<>>
      <4>1. CASE rows.live
        <5>1. Log!PurgeSpace
          BY <3>5, <4>1 DEF Log!PurgeSpace
        <5>2. QED
          BY <5>1 DEF Log!LogNext
      <4>2. CASE ~rows.live
        <5>1. Log!FenceSpace
          BY <3>5, <4>2 DEF Log!FenceSpace
        <5>2. QED
          BY <5>1 DEF Log!LogNext
      <4>3. QED
        BY <4>1, <4>2
    <3>6. QED
      BY <3>1, <3>2, <3>3, <3>4, <3>5 DEF BatchStep
  <2>3. QED
    BY <2>1, <2>2, RowsChange
<1>3. QED
  BY <1>1, <1>2, SoundHolds, PTL DEF Spec, ImplementsLog, Log!LogSpec
=============================================================================
