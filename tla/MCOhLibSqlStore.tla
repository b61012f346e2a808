--------------------------- MODULE MCOhLibSqlStore ---------------------------
(* Instances of OhLibSqlStore for TLC: two keys where k2 may depend on k1,   *)
(* two calls of one authority, and a purge worker beside a host.             *)
EXTENDS OhLibSqlStore, TLC

CONSTANTS k1, k2, v1, v2, id1, id2, c1, c2, w1, h1

A1 == [value |-> v1, dependencies |-> {}]
B1 == [value |-> v1, dependencies |-> {k1}]

PutOf(r) == [kind |-> "put", record |-> r]
TombstoneOf(r) == [kind |-> "tombstone", prior |-> r]

CreateA == [k \in {k1} |-> PutOf(A1)]
CreateBoth == [k \in {k1, k2} |-> PutOf(IF k = k1 THEN A1 ELSE B1)]
RemoveB == [k \in {k2} |-> TombstoneOf(B1)]

OneChangeSet == {CreateA}
LinkAndUnlink == {CreateBoth, RemoveB}

\* Two callers of one authority are interchangeable, and so are the
\* identifiers they commit under.
CallerSymmetry == Permutations({c1, c2}) \cup Permutations({id1, id2})

SharedAuthority == (c1 :> h1) @@ (c2 :> h1)
FirstCallerOnly == (c1 :> h1)
=============================================================================
