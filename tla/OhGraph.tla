------------------------------- MODULE OhGraph -------------------------------
(***************************************************************************)
(* The data an Oh space is made of: records, changes, operations and the   *)
(* reduction of an operation over the current records.                     *)
(*                                                                         *)
(* Digests are collision free.  A record's digest is the record, the       *)
(* recordsSha256 of a head is the snapshot it covers, and an operation's   *)
(* digest commits to the operation and, through parentOperationSha256, to  *)
(* every operation before it.  An operation is therefore its history: a    *)
(* nonempty sequence of bodies whose last element is the operation's own   *)
(* body, whose front is its parent digest and whose length is its          *)
(* sequence number.  The empty history is the null head of sequence 0.     *)
(***************************************************************************)
EXTENDS OhHistory, FiniteSets

CONSTANTS Keys,               \* record keys
          Values,             \* record payloads
          OperationIds,       \* caller-chosen operation identifiers
          Actors,             \* actor identifiers
          Instants,           \* canonical instants
          ChangeSets,         \* canonical change lists callers may submit
          RecordsPerSnapshot, \* OH_GRAPH_LIMITS_V1.recordsPerSnapshot
          NoRecord            \* marks a key that has no record

Record == [value: Values, dependencies: SUBSET Keys]

Change ==
    [kind: {"put"}, record: Record] \cup [kind: {"tombstone"}, prior: Record]

\* A canonical change list is ordered and unique by key: a function from the
\* keys it changes.
ASSUME ChangeSetsAssumption ==
    /\ IsFiniteSet(Keys)
    /\ RecordsPerSnapshot \in Nat
    /\ NoRecord \notin Record
    /\ \A changes \in ChangeSets :
          /\ DOMAIN changes \in (SUBSET Keys) \ {{}}
          /\ changes \in [DOMAIN changes -> Change]

Snapshot == [Keys -> Record \cup {NoRecord}]

EmptySnapshot == [k \in Keys |-> NoRecord]

Present(records) == {k \in Keys : records[k] # NoRecord}

PutKeys(changes) == {k \in DOMAIN changes : changes[k].kind = "put"}

-----------------------------------------------------------------------------
(* The transition of one operation over the current records.               *)

Transition(records, changes) ==
    [k \in Keys |-> IF k \notin DOMAIN changes THEN records[k]
                    ELSE IF changes[k].kind = "put" THEN changes[k].record
                    ELSE NoRecord]

\* A tombstone names the exact record it removes.
PriorMatches(records, changes) ==
    \A k \in DOMAIN changes \ PutKeys(changes) : records[k] = changes[k].prior

Closed(records) ==
    \A k \in Present(records) : records[k].dependencies \subseteq Present(records)

Accepts(records, changes) ==
    /\ PriorMatches(records, changes)
    /\ Cardinality(Present(Transition(records, changes))) <= RecordsPerSnapshot
    /\ Closed(Transition(records, changes))

-----------------------------------------------------------------------------
(* Operations and histories.                                               *)

\* records is the snapshot the operation declares as its recordsSha256.
Body == [operationId: OperationIds, actorId: Actors, instant: Instants,
         changes: ChangeSets, records: Snapshot]

History == Seq(Body)

Operation == History \ {<<>>}

Parent(operation) == Prefix(operation, Len(operation) - 1)

BodyOf(operation) == operation[Len(operation)]

RecordsAt(history, n) == IF n = 0 THEN EmptySnapshot ELSE history[n].records

\* The n-th operation reproduces the snapshot it declares from the one before.
Replays(history, n) ==
    LET before == RecordsAt(history, n - 1)
    IN  /\ Accepts(before, history[n].changes)
        /\ history[n].records = Transition(before, history[n].changes)

\* What replay of a whole history verifies: no operation identifier occurs
\* twice and every operation reproduces its declared records.
ValidHistory(history) ==
    /\ \A m, n \in 1..Len(history) :
          history[m].operationId = history[n].operationId => m = n
    /\ \A n \in 1..Len(history) : Replays(history, n)
=============================================================================
