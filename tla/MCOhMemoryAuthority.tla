------------------------- MODULE MCOhMemoryAuthority -------------------------
(* An instance of OhMemoryAuthority for TLC: two calls of one host, a        *)
(* nomination of two records and one the working store never exported, and   *)
(* a writer with another record under one of the keys.                       *)
EXTENDS OhMemoryAuthority, TLC

CONSTANTS c1, c2, h1, k1, k2, v1, v2, first, forged

TwoCallsOneHost == (c1 :> h1) @@ (c2 :> h1)

NominatedRecords ==
    (first :> ((k1 :> v1) @@ (k2 :> v1))) @@ (forged :> (k1 :> v2))

SubmittedClaims == {<<>>, k1 :> v1, k1 :> v2}

WrittenSnapshots == {(k1 :> v2) @@ (k2 :> v1)}
=============================================================================
