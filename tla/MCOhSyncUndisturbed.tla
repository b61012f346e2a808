------------------------- MODULE MCOhSyncUndisturbed -------------------------
(* An instance of OhSyncUndisturbed for TLC.                               *)
EXTENDS OhSyncUndisturbed, TLC

CONSTANTS c1, c2, r1, r2

\* Each call has a store of its own.
OneStoreEach == (c1 :> r1) @@ (c2 :> r2)

=============================================================================
