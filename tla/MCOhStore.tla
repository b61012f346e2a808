------------------------------ MODULE MCOhStore ------------------------------
(* Instances of OhStore for TLC: two keys where k2 may depend on k1, change  *)
(* lists that create and link, rewrite and remove them, and replication         *)
(* intervals that are sound, overlap the local chain, or go wrong at their   *)
(* second operation.                                                         *)
EXTENDS OhStore, TLC

CONSTANTS k1, k2, v1, v2, id1, id2, a1, t1

A1 == [value |-> v1, dependencies |-> {}]
A2 == [value |-> v2, dependencies |-> {}]
B1 == [value |-> v1, dependencies |-> {k1}]

PutOf(r) == [kind |-> "put", record |-> r]
TombstoneOf(r) == [kind |-> "tombstone", prior |-> r]

CreateBoth == [k \in {k1, k2} |-> PutOf(IF k = k1 THEN A1 ELSE B1)]
RewriteA == [k \in {k1} |-> PutOf(A2)]
RemoveBoth == [k \in {k1, k2} |-> TombstoneOf(IF k = k1 THEN A1 ELSE B1)]

ChangesOfClients == {CreateBoth, RewriteA, RemoveBoth}
OneChangeSet == {CreateBoth}

BodyWith(id, changes, before) ==
    [operationId |-> id, actorId |-> a1, instant |-> t1, changes |-> changes,
     records |-> Transition(before, changes)]

First == BodyWith(id1, CreateBoth, EmptySnapshot)
Second == BodyWith(id2, RemoveBoth, First.records)
SecondWrong == [Second EXCEPT !.records = First.records]
SecondTwin == BodyWith(id1, RewriteA, First.records)

IntervalOf(head, ops) == [expectedHead |-> head, operations |-> ops]

\* Sound, overlapping the local chain, and wrong at the second operation in
\* the records it declares or in its identifier.
ImportBundles ==
    {IntervalOf(<<>>, <<<<First>>, <<First, Second>>>>),
     IntervalOf(<<First>>, <<<<First, Second>>>>),
     IntervalOf(<<>>, <<<<First>>>>),
     IntervalOf(<<>>, <<<<First>>, <<First, SecondWrong>>>>),
     IntervalOf(<<>>, <<<<First>>, <<First, SecondTwin>>>>)}

OneBundle == {IntervalOf(<<>>, <<<<First>>>>)}
NoBundles == {}
=============================================================================
