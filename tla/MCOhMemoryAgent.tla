--------------------------- MODULE MCOhMemoryAgent ---------------------------
(* An instance of OhMemoryAgent for TLC: two clients, a working lane that    *)
(* holds one record, bundles that put one and replace one by another, a      *)
(* writer that overfills the lane, and two canonical pins.                 *)
EXTENDS OhMemoryAgent, TLC

CONSTANTS c1, c2, v1, v2, r1

SentBundles == {1 :> v1, (1 :> Absent) @@ (2 :> v1)}

WrittenSnapshots == {<<v1, v2>>}

PinnedSnapshots == <<<<v1, v1>>, <<v1, v2>>>>

=============================================================================
