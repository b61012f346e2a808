---------------------------- MODULE MCOhProjection ----------------------------
(***************************************************************************)
(* Model checking instances of OhProjectionResult.                         *)
(***************************************************************************)
EXTENDS OhProjectionResult

CONSTANTS a, b, c, x, y, z

L(relation, terms) == [relation |-> relation, terms |-> terms]

R(head, body) == [head |-> head, body |-> body]

Edge(from, to) == [relation |-> "edge", tuple |-> <<from, to>>]

\* What a reaches, along edges in a circle; or c as a fact of its own.
Reaches == {R(L("reach", <<y>>), <<L("edge", <<a, y>>)>>),
            R(L("reach", <<y>>), <<L("reach", <<x>>), L("edge", <<x, y>>)>>)}

Reach == [rules |-> Reaches, find |-> <<x>>, where |-> <<L("reach", <<x>>)>>, limit |-> 2]

\* A second derived relation with a constant in its head, and a join.
Return ==
    [rules |-> Reaches \cup {R(L("back", <<a>>), <<L("reach", <<x>>), L("edge", <<x, a>>)>>)},
     find |-> <<x>>, where |-> <<L("reach", <<x>>), L("back", <<y>>)>>, limit |-> 3]

\* A rule that is recursive twice, and answers with several matches.
Paths ==
    [rules |-> {R(L("path", <<x, y>>), <<L("edge", <<x, y>>)>>),
                R(L("path", <<x, z>>), <<L("path", <<x, y>>), L("path", <<y, z>>)>>)},
     find |-> <<x>>, where |-> <<L("path", <<x, y>>)>>, limit |-> 3]

\* A relation used with two arities.
Misuse == [Reach EXCEPT !.where = <<L("edge", <<x>>)>>]

\* One relation more than there may be.
Crowded == [Return EXCEPT !.where = <<L("path", <<x, y>>)>>]

DatasetsOver(facts, laneSets) == UNION {[F -> laneSets] : F \in SUBSET facts}

Circle == {Edge(a, b), Edge(b, c), Edge(c, a), [relation |-> "reach", tuple |-> <<c>>]}

Triangle == {Edge(a, b), Edge(b, a), Edge(b, c)}

Ample == [derived |-> 9, rounds |-> 9, work |-> 999, proofDepth |-> 9, proofNodes |-> 99,
          totalProofNodes |-> 99, resultBytes |-> 99]

Tight == {Ample, [Ample EXCEPT !.derived = 1], [Ample EXCEPT !.rounds = 1],
          [Ample EXCEPT !.work = 15], [Ample EXCEPT !.proofDepth = 1],
          [Ample EXCEPT !.proofDepth = 2], [Ample EXCEPT !.proofNodes = 3],
          [Ample EXCEPT !.totalProofNodes = 4], [Ample EXCEPT !.resultBytes = 7],
          [Ample EXCEPT !.resultBytes = 10]}

Evaluated ==
    [dataset: DatasetsOver(Circle, {{"canonical"}, {"working"}, {"canonical", "working"}}),
     program: {Reach, Return}, options: Tight]
    \cup [dataset: DatasetsOver(Triangle, {{"canonical"}, {"working"}}),
          program: {Paths}, options: {Ample, [Ample EXCEPT !.proofNodes = 3]}]
    \cup [dataset: {[f \in {Edge(a, b)} |-> {"canonical"}]},
          program: {Misuse, Crowded}, options: {Ample}]
=============================================================================
