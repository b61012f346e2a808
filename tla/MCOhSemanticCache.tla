-------------------------- MODULE MCOhSemanticCache --------------------------
(* An instance of OhSemanticCache for TLC: an authority with two isolations, *)
(* two generations and a rival for the number of the first, and another      *)
(* authority that wants one of its isolations.                               *)
EXTENDS OhSemanticCache, TLC

CONSTANTS c1, c2, auth1, auth2, iso1, iso2, text1, text2

DerivedIsolations == (auth1 :> iso1) @@ (auth2 :> iso2)

RenderedChunks == (text1 :> {1, 2}) @@ (text2 :> {2})

Gen(owner, number, isolation, content) ==
    [authority |-> owner, number |-> number, isolation |-> isolation, content |-> content]

Staged(g, at) == [authority |-> g.authority, generation |-> g, at |-> at]

StageRequests ==
    {Staged(Gen(auth1, 0, iso1, text1), 1), Staged(Gen(auth1, 0, iso1, text2), 1),
     Staged(Gen(auth1, 1, iso2, text1), 1), Staged(Gen(auth2, 0, iso2, text1), 1)}

PublishRequests ==
    {[authority |-> auth1, isolation |-> iso1, number |-> 0, expected |-> None],
     [authority |-> auth1, isolation |-> iso1, number |-> 0, expected |-> 1],
     [authority |-> auth1, isolation |-> iso2, number |-> 1, expected |-> 0]}

SearchRequests == {[authority |-> auth1, generation |-> Gen(auth1, 0, iso1, text1)]}

HeadRequests == {[authority |-> auth1, isolation |-> iso1]}

PurgeRequests ==
    {[authority |-> auth1, isolation |-> iso1, at |-> 1],
     [authority |-> auth1, isolation |-> iso2, at |-> 2]}

ReceiptRequests == {[authority |-> auth1, isolation |-> iso1]}

InheritedTables == {(auth1 :> None) @@ (auth2 :> [at |-> 2])}

LegacyRequests == {[authority |-> auth1, at |-> 1]}
=============================================================================
