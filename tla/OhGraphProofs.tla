---------------------------- MODULE OhGraphProofs ----------------------------
(***************************************************************************)
(* Facts about transitions and histories: what appending one operation     *)
(* keeps of the chain before it.                                           *)
(***************************************************************************)
EXTENDS OhGraph, OhHistoryProofs, FiniteSetTheorems, FunctionTheorems

-----------------------------------------------------------------------------
(* Transitions.                                                            *)

\* A change list changes keys, and a put carries a record.
LEMMA ChangeType ==
    ASSUME NEW changes \in ChangeSets
    PROVE  /\ DOMAIN changes \subseteq Keys
           /\ PutKeys(changes) \subseteq DOMAIN changes
           /\ \A k \in PutKeys(changes) : changes[k].record \in Record
           /\ \A k \in DOMAIN changes : changes[k].kind \in {"put", "tombstone"}
<1>1. DOMAIN changes \subseteq Keys /\ changes \in [DOMAIN changes -> Change]
  BY ChangeSetsAssumption
<1>2. \A k \in DOMAIN changes : changes[k] \in Change
  BY <1>1
<1>3. QED
  BY <1>1, <1>2 DEF PutKeys, Change

\* What an operation leaves behind is again a snapshot.
LEMMA TransitionType ==
    ASSUME NEW records \in Snapshot, NEW changes \in ChangeSets
    PROVE  Transition(records, changes) \in Snapshot
<1>1. \A k \in DOMAIN changes : changes[k].kind = "put" => changes[k].record \in Record
  BY ChangeType DEF PutKeys
<1>2. QED
  BY <1>1 DEF Transition, Snapshot

\* After an operation exactly the put keys and the untouched present keys are
\* present.
LEMMA TransitionAt ==
    ASSUME NEW records \in Snapshot, NEW changes \in ChangeSets, NEW k \in Keys
    PROVE  /\ k \in PutKeys(changes) =>
                 /\ Transition(records, changes)[k] = changes[k].record
                 /\ Transition(records, changes)[k] # NoRecord
           /\ k \in DOMAIN changes \ PutKeys(changes) =>
                 Transition(records, changes)[k] = NoRecord
           /\ k \notin DOMAIN changes =>
                 Transition(records, changes)[k] = records[k]
<1>1. PutKeys(changes) \subseteq DOMAIN changes
      /\ \A j \in PutKeys(changes) : changes[j].record \in Record
  BY ChangeType
<1>2. NoRecord \notin Record
  BY ChangeSetsAssumption
<1>3. QED
  BY <1>1, <1>2 DEF Transition, PutKeys

-----------------------------------------------------------------------------
(* Prefixes.                                                               *)

LEMMA EmptyHistory == <<>> \in History /\ Len(<<>>) = 0
  BY EmptySeq DEF History

LEMMA LenType ==
    ASSUME NEW history \in History
    PROVE  /\ Len(history) \in Nat
           /\ history # <<>> <=> Len(history) # 0
           /\ \A n \in 1..Len(history) : history[n] \in Body
<1>1. history \in Seq(Body)
  BY DEF History
<1>2. Len(history) \in Nat /\ (history # <<>> => Len(history) \in Nat \ {0})
  BY <1>1, EmptySeq, LenProperties
<1>3. history = <<>> => Len(history) = 0
  BY EmptyHistory
<1>4. \A n \in 1..Len(history) : history[n] \in Body
  BY <1>1, ElementOfSeq
<1>5. QED
  BY <1>2, <1>3, <1>4

LEMMA PrefixType ==
    ASSUME NEW history \in History, NEW n \in 0..Len(history)
    PROVE  /\ Prefix(history, n) \in History
           /\ Len(Prefix(history, n)) = n
           /\ \A i \in 1..n : Prefix(history, n)[i] = history[i]
  BY PrefixOfSeq DEF History

\* Two histories of one length with the same bodies are the same history.
LEMMA HistoryEqual ==
    ASSUME NEW h \in History, NEW g \in History, Len(h) = Len(g),
           \A i \in 1..Len(h) : h[i] = g[i]
    PROVE  h = g
  BY SeqEqual DEF History

LEMMA PrefixWhole ==
    ASSUME NEW history \in History
    PROVE  Prefix(history, Len(history)) = history
  BY PrefixAll DEF History

LEMMA PrefixOfPrefix ==
    ASSUME NEW history \in History, NEW n \in 0..Len(history), NEW m \in 0..n
    PROVE  Prefix(Prefix(history, n), m) = Prefix(history, m)
  BY PrefixTwice DEF History

LEMMA OperationType ==
    ASSUME NEW operation \in Operation
    PROVE  /\ operation \in History
           /\ Len(operation) \in Nat \ {0}
           /\ BodyOf(operation) \in Body
           /\ Parent(operation) \in History
           /\ Len(Parent(operation)) = Len(operation) - 1
<1>1. operation \in History /\ operation # <<>>
  BY DEF Operation
<1>2. Len(operation) \in Nat \ {0}
  BY <1>1, LenType
<1>3. BodyOf(operation) \in Body
  BY <1>1, <1>2, LenType DEF BodyOf
<1>4. Len(operation) - 1 \in 0..Len(operation)
  BY <1>2
<1>5. QED
  BY <1>1, <1>2, <1>3, <1>4, PrefixType DEF Parent

LEMMA PrefixIsOperation ==
    ASSUME NEW history \in History, NEW n \in 1..Len(history)
    PROVE  Prefix(history, n) \in Operation
<1>1. Len(history) \in Nat
  BY LenType
<1>2. Prefix(history, n) \in History /\ Len(Prefix(history, n)) = n /\ n # 0
  BY <1>1, PrefixType
<1>3. QED
  BY <1>2, EmptyHistory DEF Operation

\* Appending a body makes the operation whose parent is the history before.
LEMMA AppendType ==
    ASSUME NEW history \in History, NEW body \in Body
    PROVE  /\ Append(history, body) \in Operation
           /\ Len(Append(history, body)) = Len(history) + 1
           /\ BodyOf(Append(history, body)) = body
           /\ Parent(Append(history, body)) = history
<1> DEFINE operation == Append(history, body)
<1>1. history \in Seq(Body)
  BY DEF History
<1>2. /\ operation \in Seq(Body)
      /\ operation # <<>>
      /\ Len(operation) = Len(history) + 1
      /\ \A i \in 1..Len(history) : operation[i] = history[i]
      /\ operation[Len(history) + 1] = body
  BY <1>1, AppendProperties
<1>3. operation \in Operation
  BY <1>2 DEF Operation, History
<1>4. Parent(operation) \in History /\ Len(Parent(operation)) = Len(history)
      /\ \A i \in 1..Len(history) : Parent(operation)[i] = history[i]
  <2>1. Len(history) \in Nat /\ operation \in History
    BY <1>3, LenType DEF Operation
  <2>2. Len(history) \in 0..Len(operation) /\ Len(operation) - 1 = Len(history)
    BY <1>2, <2>1
  <2>3. /\ Prefix(operation, Len(history)) \in History
        /\ Len(Prefix(operation, Len(history))) = Len(history)
        /\ \A i \in 1..Len(history) :
              Prefix(operation, Len(history))[i] = operation[i]
    <3> HIDE DEF operation
    <3> QED
      BY <2>1, <2>2, PrefixType
  <2>4. QED
    BY <1>2, <2>2, <2>3 DEF Parent
<1>5. Parent(operation) = history
  BY <1>4, HistoryEqual
<1>6. QED
  BY <1>2, <1>3, <1>5 DEF BodyOf

\* Every operation is its parent with its own body appended.
LEMMA OperationIsAppend ==
    ASSUME NEW operation \in Operation
    PROVE  operation = Append(Parent(operation), BodyOf(operation))
<1>1. operation \in Seq(Body) /\ operation # <<>>
  BY DEF Operation, History
<1>2. PICK history \in Seq(Body), body \in Body : operation = Append(history, body)
  BY <1>1, SequenceEmptyOrAppend
<1>3. history \in History
  BY DEF History
<1>4. QED
  BY <1>2, <1>3, AppendType

LEMMA PrefixOfAppend ==
    ASSUME NEW history \in History, NEW body \in Body, NEW n \in 0..Len(history)
    PROVE  Prefix(Append(history, body), n) = Prefix(history, n)
<1> DEFINE operation == Append(history, body)
<1>1. Len(history) \in Nat
  BY LenType
<1>2. operation \in History /\ Len(operation) = Len(history) + 1
      /\ Prefix(operation, Len(operation) - 1) = history
  BY AppendType, OperationType DEF Parent
<1>3. Len(history) \in 0..Len(operation) /\ Len(operation) - 1 = Len(history)
  BY <1>1, <1>2
<1>4. Prefix(Prefix(operation, Len(history)), n) = Prefix(operation, n)
  <2> HIDE DEF operation
  <2> QED
    BY <1>2, <1>3, PrefixOfPrefix
<1>5. QED
  BY <1>2, <1>3, <1>4

LEMMA AppendAt ==
    ASSUME NEW history \in History, NEW body \in Body
    PROVE  /\ \A i \in 1..Len(history) : Append(history, body)[i] = history[i]
           /\ Append(history, body)[Len(history) + 1] = body
  BY AppendProperties DEF History

\* The chain of an appended history is the old chain and the new operation.
LEMMA ChainOfAppend ==
    ASSUME NEW history \in History, NEW body \in Body
    PROVE  ChainOf(Append(history, body))
               = ChainOf(history) \cup {Append(history, body)}
<1> DEFINE operation == Append(history, body)
<1>1. Len(history) \in Nat /\ Len(operation) = Len(history) + 1
  BY LenType, AppendType
<1>2. Prefix(operation, Len(operation)) = operation
  BY AppendType, OperationType, PrefixWhole
<1>3. \A n \in 1..Len(history) : Prefix(operation, n) = Prefix(history, n)
  <2> TAKE n \in 1..Len(history)
  <2>1. n \in 0..Len(history)
    BY <1>1
  <2> QED
    BY <2>1, PrefixOfAppend
<1>4. 1..Len(operation) = (1..Len(history)) \cup {Len(operation)}
  BY <1>1
<1> HIDE DEF operation
<1>5. ChainOf(operation) = ChainOf(history) \cup {operation}
  BY <1>2, <1>3, <1>4 DEF ChainOf
<1>6. QED
  BY <1>5 DEF operation

\* A chain holds operations, no longer than its head, which it contains.
LEMMA ChainType ==
    ASSUME NEW history \in History
    PROVE  /\ ChainOf(history) \subseteq Operation
           /\ \A o \in ChainOf(history) : Len(o) <= Len(history)
           /\ history # <<>> => history \in ChainOf(history)
<1>1. Len(history) \in Nat
  BY LenType
<1>2. \A n \in 1..Len(history) :
          Prefix(history, n) \in Operation /\ Len(Prefix(history, n)) = n
  BY <1>1, PrefixType, PrefixIsOperation
<1>3. history # <<>> => Len(history) \in 1..Len(history)
  BY <1>1, LenType
<1>4. Prefix(history, Len(history)) = history
  BY PrefixWhole
<1>5. QED
  BY <1>1, <1>2, <1>3, <1>4 DEF ChainOf

\* The head of an interval's parent is a proper prefix of the interval.
\* A chain holds one operation of each sequence number.
LEMMA ChainCardinality ==
    ASSUME NEW history \in History
    PROVE  Cardinality(ChainOf(history)) = Len(history)
<1> DEFINE N == 1..Len(history)
           f == [n \in N |-> Prefix(history, n)]
<1>1. Len(history) \in Nat
  BY LenType
<1>2. \A n \in N : Len(f[n]) = n
  BY <1>1, PrefixType
<1>3. f \in [N -> ChainOf(history)]
  BY DEF ChainOf
<1>4. \A m, n \in N : f[m] = f[n] => m = n
  BY <1>2
<1>5. \A o \in ChainOf(history) : \E n \in N : f[n] = o
  BY DEF ChainOf
<1> HIDE DEF f
<1>6. f \in Bijection(N, ChainOf(history))
  BY <1>3, <1>4, <1>5, Fun_IsBij
<1>7. ExistsBijection(N, ChainOf(history))
  BY <1>6 DEF ExistsBijection
<1>8. QED
  BY <1>1, <1>7, FS_CountingElements

LEMMA PrefixReflexive ==
    ASSUME NEW h \in History
    PROVE  IsPrefixOf(h, h)
  BY LenType, PrefixWhole DEF IsPrefixOf

LEMMA PrefixOfChild ==
    ASSUME NEW h \in History, NEW operation \in Operation,
           IsPrefixOf(h, Parent(operation))
    PROVE  IsPrefixOf(h, operation) /\ h # operation
<1>1. /\ operation \in History /\ Parent(operation) \in History
      /\ Len(operation) \in Nat \ {0} /\ Len(h) \in Nat
      /\ Len(Parent(operation)) = Len(operation) - 1
  BY OperationType, LenType
<1>2. Len(h) <= Len(Parent(operation)) /\ h = Prefix(Parent(operation), Len(h))
  BY DEF IsPrefixOf
<1>3. Len(operation) - 1 \in 0..Len(operation) /\ Len(h) \in 0..(Len(operation) - 1)
  BY <1>1, <1>2
<1>4. Prefix(Prefix(operation, Len(operation) - 1), Len(h)) = Prefix(operation, Len(h))
  BY <1>1, <1>3, PrefixOfPrefix
<1>5. h = Prefix(operation, Len(h))
  BY <1>2, <1>4 DEF Parent
<1>6. QED
  BY <1>1, <1>3, <1>5 DEF IsPrefixOf

-----------------------------------------------------------------------------
(* Replay.                                                                 *)

\* What replay says of an operation does not depend on what follows it.
LEMMA ReplaysOfAppend ==
    ASSUME NEW history \in History, NEW body \in Body, NEW n \in 1..Len(history),
           Replays(history, n)
    PROVE  Replays(Append(history, body), n)
<1>1. Len(history) \in Nat
  BY LenType
<1>2. Append(history, body)[n] = history[n]
  BY AppendAt
<1>3. n - 1 # 0 => Append(history, body)[n - 1] = history[n - 1]
  <2>1. n - 1 # 0 => n - 1 \in 1..Len(history)
    BY <1>1
  <2> QED
    BY <2>1, AppendAt
<1>4. RecordsAt(Append(history, body), n - 1) = RecordsAt(history, n - 1)
  BY <1>3 DEF RecordsAt
<1>5. QED
  BY <1>2, <1>4 DEF Replays

\* A valid history stays valid when an operation with a new identifier, whose
\* changes are accepted and whose declared records are the ones they make, is
\* appended.
THEOREM ValidAppend ==
    ASSUME NEW history \in History, NEW body \in Body, ValidHistory(history),
           \A n \in 1..Len(history) : history[n].operationId # body.operationId,
           Accepts(RecordsAt(history, Len(history)), body.changes),
           body.records
               = Transition(RecordsAt(history, Len(history)), body.changes)
    PROVE  ValidHistory(Append(history, body))
<1> DEFINE longer == Append(history, body)
           last == Len(history) + 1
<1>1. Len(history) \in Nat /\ Len(longer) = last
  BY LenType, AppendType
<1>2. (\A i \in 1..Len(history) : longer[i] = history[i]) /\ longer[last] = body
  BY AppendAt
<1>3. 1..Len(longer) = (1..Len(history)) \cup {last}
  BY <1>1
<1>4. \A m, n \in 1..Len(longer) :
          longer[m].operationId = longer[n].operationId => m = n
  <2>1. \A m, n \in 1..Len(history) :
            history[m].operationId = history[n].operationId => m = n
    BY DEF ValidHistory
  <2> HIDE DEF longer
  <2> QED
    BY <1>2, <1>3, <2>1
<1>5. RecordsAt(longer, last - 1) = RecordsAt(history, Len(history))
  <2>1. last - 1 = Len(history)
    BY <1>1
  <2>2. Len(history) # 0 => Len(history) \in 1..Len(history)
    BY <1>1
  <2> HIDE DEF longer, last
  <2> QED
    BY <1>2, <2>1, <2>2 DEF RecordsAt
<1>6. Replays(longer, last)
  <2> HIDE DEF longer, last
  <2> QED
    BY <1>2, <1>5 DEF Replays
<1>7. \A n \in 1..Len(history) : Replays(longer, n)
  BY ReplaysOfAppend DEF ValidHistory
<1> HIDE DEF longer, last
<1>8. ValidHistory(longer)
  BY <1>3, <1>4, <1>6, <1>7 DEF ValidHistory
<1>9. QED
  BY <1>8 DEF longer
=============================================================================
