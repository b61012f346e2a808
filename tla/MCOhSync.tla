------------------------------- MODULE MCOhSync -------------------------------
(* Instances of OhSync for TLC.                                            *)
EXTENDS OhSync, TLC

CONSTANTS c1, c2, r1, r2

\* Each call has a store of its own.
OneStoreEach == (c1 :> r1) @@ (c2 :> r2)

BodySymmetry == Permutations(Bodies)
=============================================================================
