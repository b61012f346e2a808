-------------------------- MODULE OhProjectionResult --------------------------
(***************************************************************************)
(* The result of a projection: rows with bounded proofs, as                *)
(* buildProjectionResult makes them, parseOhProjectionResultV1 accepts     *)
(* them from a cache and the memory agent labels them (publicRowV2).       *)
(*                                                                         *)
(* The proofs of all rows are one function from positions to nodes:        *)
(* <<row, literal, premise, premise of that, ...>>.  Each call of          *)
(* proofForReference is a step that adds the node of its position or finds *)
(* a budget used up; where the recursion stands is the position it asks    *)
(* for next.                                                               *)
(*                                                                         *)
(* Bytes count as the size of an envelope without what it contains.  The   *)
(* commas between envelopes and the rest of a result are not reserved but  *)
(* have the slack of 64 KiB; a result that is larger after all fails.  The *)
(* order of the rows and the digests of a result are left out.             *)
(***************************************************************************)
EXTENDS OhProjection, SequencesExt

CONSTANTS LiteralsPerRule, QueryLiterals, QueryResults,   \* OH_PROJECTION_LIMITS_V1
          Slack,        \* bytes no row or node may use: 64 KiB
          FrameBytes,   \* the bytes of a result without its rows
          Null          \* null

\* The limits that parsing a rule and a query and resolving the options apply,
\* and the two lanes of a memory.
ASSUME ResultAssumption ==
    /\ LiteralsPerRule \in Nat /\ QueryLiterals \in Nat /\ QueryResults \in Nat
    /\ Slack \in Nat /\ FrameBytes \in Nat
    /\ Lanes \subseteq {"canonical", "working"}
    /\ \A i \in Inputs :
          /\ i.options.resultBytes >= Slack
          /\ i.program.limit <= QueryResults
          /\ Len(i.program.where) <= QueryLiterals
          /\ \A rule \in i.program.rules : Len(rule.body) <= LiteralsPerRule

VARIABLES answers,   \* the answers in order, each with its support
          rows,      \* the rows made so far
          proofs,    \* a node at every position proved so far
          path,      \* the position to prove next; of a row that is done; <<>> between rows
          used,      \* what is used of the budgets
          result

building == <<rows, proofs, path, used>>

resultVars == <<evaluationVars, answers, building, result>>

-----------------------------------------------------------------------------
(* Proofs.                                                                 *)

NodeBytes(kind) == IF kind = "derived" THEN 2 ELSE 1

RowBytes == 1

\* The bytes rows and nodes may use.
MaximumBytes == options.resultBytes - Slack

\* Nodes of the current row, nodes and bytes of all.
Reservable(kind) ==
    /\ used.row < options.proofNodes
    /\ used.nodes < options.totalProofNodes
    /\ used.bytes + NodeBytes(kind) <= MaximumBytes

Reserve(kind) ==
    [row |-> used.row + 1, nodes |-> used.nodes + 1, bytes |-> used.bytes + NodeBytes(kind)]

Depth(position) == Len(position) - 2

\* What is to be proved below a position: the match of a row, the premises of
\* the witness of a node.
Claims(position) ==
    IF Len(position) = 1 THEN answers[position[1]].match
    ELSE known[proofs[position].reference].premises

Claim(position) == Claims(Front(position))[Last(position)]

Visiting(position) ==
    {proofs[SubSeq(position, 1, n)].reference : n \in 2 .. Len(position) - 1}

KindOf_OneDeeper(reference, depth, visiting) ==
    IF depth > options.proofDepth THEN "depth"
    ELSE IF reference \in visiting THEN "cycle"
    ELSE known[reference].kind

\* Why a proof is cut off here, or what its witness is.
KindOf(reference, depth, visiting) ==
    IF depth >= options.proofDepth THEN "depth"
    ELSE IF reference \in visiting THEN "cycle"
    ELSE known[reference].kind

NodeAt(position) ==
    LET reference == Claim(position)
        kind == KindOf(reference, Depth(position), Visiting(position))
    IN  [kind |-> kind, reference |-> reference,
         lanes |-> IF kind = "fact" THEN known[reference].lanes ELSE {},
         rule |-> IF kind = "derived" THEN known[reference].rule ELSE Null,
         premisesTruncated |-> FALSE]

\* Where the loops over premises go on when nothing is left to prove below a
\* position: at the next claim of the deepest loop that has one, or else the
\* row is done.
Onward(position) ==
    LET open == {n \in 2..Len(position) :
                    position[n] < Len(Claims(SubSeq(position, 1, n - 1)))}
    IN  IF open = {} THEN <<position[1]>>
        ELSE Append(SubSeq(position, 1, Max(open) - 1), position[Max(open)] + 1)

\* The indices of the proofs shown below a position.
Below(tree, position) == {Last(p) : p \in {q \in DOMAIN tree : Front(q) = position}}

CutOff(node) == node.kind \in {"depth", "cycle"} \/ node.premisesTruncated

Truncated_HereOnly(tree, position) == CutOff(tree[position])

\* proofIsTruncated.
Truncated(tree, position) == \E p \in DOMAIN tree : IsPrefix(position, p) /\ CutOff(tree[p])

-----------------------------------------------------------------------------
(* Rows.                                                                   *)

QueryMatchesOf(tuples) == Matches(tuples, program.where)

\* The values a match binds the variables of the answer to.
ValuesOf(match) ==
    LET binding == CHOOSE b \in Bindings : Premises(program.where, b) = match
    IN  [i \in DOMAIN program.find |-> binding[program.find[i]]]

AnswersOf(tuples) == {ValuesOf(match) : match \in QueryMatchesOf(tuples)}

SupportOf(tuples, values) == {match \in QueryMatchesOf(tuples) : ValuesOf(match) = values}

\* One canonical supporting match of each answer gives its proofs.
Ordered ==
    LET values == SetToSeq(AnswersOf(Tuples))
    IN  [i \in DOMAIN values |->
            [values |-> values[i], supportCount |-> Cardinality(SupportOf(Tuples, values[i])),
             match |-> CHOOSE match \in SupportOf(Tuples, values[i]) : TRUE]]

QueryWork == Work(Tuples, program.where)

QueryWithin == work + QueryWork <= options.work /\ JoinsWithin(Tuples, program.where)

MatchQuery ==
    /\ phase = "result"
    /\ QueryWithin
    /\ work' = work + QueryWork
    /\ answers' = Ordered
    /\ phase' = "rows"
    /\ UNCHANGED <<input, known, rounds, building, result>>

QueryFails ==
    /\ phase = "result"
    /\ ~QueryWithin
    /\ phase' = "failed"
    /\ UNCHANGED <<input, known, rounds, work, answers, building, result>>

\* The rows the limit of the query leaves.
Shown == IF Len(answers) <= program.limit THEN Len(answers) ELSE program.limit

RowFits == used.bytes + RowBytes <= MaximumBytes

OnlyBuilding == phase = "rows" /\ UNCHANGED <<evaluationVars, answers, result>>

StartRow ==
    /\ OnlyBuilding
    /\ path = <<>>
    /\ Len(rows) < Shown
    /\ RowFits
    /\ used' = [used EXCEPT !.row = 0, !.bytes = @ + RowBytes]
    /\ path' = <<Len(rows) + 1, 1>>
    /\ UNCHANGED <<rows, proofs>>

\* A call of proofForReference that reserves its node, and begins with the
\* premises of its witness.
Prove ==
    /\ OnlyBuilding
    /\ Len(path) > 1
    /\ LET node == NodeAt(path)
       IN  /\ Reservable(node.kind)
           /\ used' = Reserve(node.kind)
           /\ proofs' = [p \in DOMAIN proofs \cup {path} |-> IF p = path THEN node ELSE proofs[p]]
           /\ path' = IF node.kind = "derived" THEN Append(path, 1) ELSE Onward(path)
    /\ UNCHANGED rows

\* A call that finds a budget used up: its caller tries no further premise.
Cut ==
    /\ OnlyBuilding
    /\ Len(path) > 1
    /\ ~Reservable(NodeAt(path).kind)
    /\ proofs' = [p \in DOMAIN proofs |->
                     IF p = Front(path) THEN [proofs[p] EXCEPT !.premisesTruncated = TRUE]
                     ELSE proofs[p]]
    /\ path' = Onward(Front(path))
    /\ UNCHANGED <<rows, used>>

RowOf(i) ==
    [values |-> answers[i].values, supportCount |-> answers[i].supportCount,
     proofsTruncated |->
        \/ Cardinality(Below(proofs, <<i>>)) # Len(answers[i].match)
        \/ \E n \in Below(proofs, <<i>>) : Truncated(proofs, <<i, n>>)]

EndRow ==
    /\ OnlyBuilding
    /\ Len(path) = 1
    /\ rows' = Append(rows, RowOf(Len(rows) + 1))
    /\ path' = <<>>
    /\ UNCHANGED <<proofs, used>>

Result ==
    [rows |-> rows, proofs |-> proofs,
     truncated |-> {r \in {"query-limit", "result-bytes"} :
                       IF r = "query-limit" THEN Len(answers) > program.limit
                       ELSE Len(rows) < Shown},
     proofsTruncated |-> \E i \in DOMAIN rows : rows[i].proofsTruncated,
     proofNodes |-> used.nodes, baseFacts |-> Cardinality(DOMAIN dataset),
     derivedFacts |-> Derived, relations |-> Cardinality({t.relation : t \in Tuples}),
     rounds |-> rounds, queryMatches |-> Cardinality(QueryMatchesOf(Tuples)), workUnits |-> work]

\* What a result is counted to hold: its rows and nodes as sets of bytes, so that
\* sums are the sizes of unions of disjoint sets, and a comma before every row
\* and every node that is not the first of its list.
NodesOf(r, i) == {p \in DOMAIN r.proofs : p[1] = i}

Nodes(r) == UNION {NodesOf(r, i) : i \in DOMAIN r.rows}

ResultBytes(r) ==
    ({<<i>> : i \in DOMAIN r.rows} \X (1..RowBytes))
        \cup UNION {{p} \X (1..NodeBytes(r.proofs[p].kind)) : p \in Nodes(r)}

Commas(r) == {p \in {<<i>> : i \in DOMAIN r.rows} \cup Nodes(r) : Last(p) # 1}

SizeOf(r) == FrameBytes + Cardinality(ResultBytes(r)) + Cardinality(Commas(r))

\* No row is left to make, or the next does not fit.
RowsMade ==
    /\ phase = "rows"
    /\ path = <<>>
    /\ Len(rows) < Shown => ~RowFits
    /\ UNCHANGED <<input, known, rounds, work, answers, building>>

Finish ==
    /\ RowsMade
    /\ SizeOf(Result) <= options.resultBytes
    /\ result' = Result
    /\ phase' = "done"

\* The commas and the rest of the result took more than the slack.
FinishFails ==
    /\ RowsMade
    /\ SizeOf(Result) > options.resultBytes
    /\ phase' = "failed"
    /\ UNCHANGED result

ResultInit ==
    /\ EvaluationInit
    /\ answers = <<>>
    /\ rows = <<>>
    /\ proofs = <<>>
    /\ path = <<>>
    /\ used = [row |-> 0, nodes |-> 0, bytes |-> 0]
    /\ result = Null

Evaluate == EvaluationNext /\ UNCHANGED <<answers, building, result>>

ResultNext ==
    \/ Evaluate \/ MatchQuery \/ QueryFails
    \/ StartRow \/ Prove \/ Cut \/ EndRow \/ Finish \/ FinishFails

ResultSpec == ResultInit /\ [][ResultNext]_resultVars

-----------------------------------------------------------------------------
(* The parser of cached results.                                           *)

\* parseProjectionProofWithBudget, the budgets apart.
NodeParses(tree, position) ==
    LET node == tree[position]
        shown == Cardinality(Below(tree, position))
    IN  /\ node.kind = "fact" => node.lanes # {}
        /\ node.kind = "derived" =>
              /\ shown <= LiteralsPerRule
              /\ ~node.premisesTruncated => shown # 0
              /\ node.premisesTruncated => shown # LiteralsPerRule

\* parseProjectionResultRow.
RowParses(r, i) ==
    LET row == r.rows[i]
        shown == Below(r.proofs, <<i>>)
        cut == \E n \in shown : Truncated(r.proofs, <<i, n>>)
    IN  /\ Cardinality(shown) <= QueryLiterals
        /\ row.supportCount \in 1..QueryMatches
        /\ ~row.proofsTruncated => shown # {} /\ ~cut
        /\ row.proofsTruncated /\ Cardinality(shown) = QueryLiterals => cut
        /\ Cardinality(NodesOf(r, i)) <= options.proofNodes
        /\ \A p \in NodesOf(r, i) : Depth(p) <= options.proofDepth /\ NodeParses(r.proofs, p)

Supports(r) == UNION {{i} \X (1..r.rows[i].supportCount) : i \in DOMAIN r.rows}

\* parseOhProjectionResultV1.
Parses(r) ==
    /\ Len(r.rows) <= QueryResults
    /\ r.baseFacts <= FactLimit
    /\ r.relations <= RelationLimit
    /\ r.derivedFacts <= options.derived
    /\ r.proofNodes <= options.totalProofNodes
    /\ r.queryMatches <= QueryMatches
    /\ r.rounds <= options.rounds
    /\ r.workUnits <= options.work
    /\ r.relations <= r.baseFacts + r.derivedFacts
    /\ r.rounds <= r.derivedFacts
    /\ r.rounds = 0 <=> r.derivedFacts = 0
    /\ r.queryMatches <= r.workUnits
    /\ \A i \in DOMAIN r.rows : RowParses(r, i)
    /\ \A i, j \in DOMAIN r.rows : r.rows[i].values = r.rows[j].values => i = j
    /\ Cardinality(Nodes(r)) = r.proofNodes
    /\ Cardinality(ResultBytes(r)) <= options.resultBytes
    /\ r.proofsTruncated <=> \E i \in DOMAIN r.rows : r.rows[i].proofsTruncated
    /\ IF r.truncated = {} THEN Cardinality(Supports(r)) = r.queryMatches
       ELSE Cardinality(Supports(r)) < r.queryMatches
    /\ SizeOf(r) <= options.resultBytes

-----------------------------------------------------------------------------
(* The label of the memory agent.                                          *)

LanesIn(r, i) == UNION {r.proofs[p].lanes : p \in NodesOf(r, i)}

PremiseAuthority_OfShown(r, i) ==
    IF LanesIn(r, i) = {} THEN "unknown"
    ELSE IF "working" \in LanesIn(r, i) THEN "working"
    ELSE "canonical"

\* publicRowV2 with collectLanes: what the premises of a row rest on.
PremiseAuthority(r, i) ==
    IF r.rows[i].proofsTruncated \/ LanesIn(r, i) = {} THEN "unknown"
    ELSE IF "working" \in LanesIn(r, i) THEN "working"
    ELSE "canonical"

-----------------------------------------------------------------------------
(* Properties.                                                             *)

\* A result answers the query over the least model: every row is an answer with
\* its number of supporting matches, none comes twice, none is missing from a
\* result that does not say it is truncated, and one is from one that does.
AnswersExact ==
    result # Null =>
        LET tuples == LeastModel(DOMAIN dataset)
            values == {result.rows[i].values : i \in DOMAIN result.rows}
        IN  /\ values \subseteq AnswersOf(tuples)
            /\ Cardinality(values) = Len(result.rows)
            /\ \A i \in DOMAIN result.rows :
                  LET row == result.rows[i]
                  IN  row.supportCount = Cardinality(SupportOf(tuples, row.values))
            /\ result.truncated = {} <=> values = AnswersOf(tuples)

\* What is shown below a position proves the first of some claims, all of them
\* unless that is said.
Proves(tree, position, claims, whole) ==
    /\ Below(tree, position) \subseteq DOMAIN claims
    /\ whole <=> Below(tree, position) = DOMAIN claims
    /\ \A n \in Below(tree, position) :
          /\ 1..n \subseteq Below(tree, position)
          /\ tree[Append(position, n)].reference = claims[n]

\* A node, cut off or not, proves its tuple: a fact with all its sources, or a
\* rule with what it was applied to.  It never runs in a circle.
Derives(tree, position) ==
    LET node == tree[position]
    IN  /\ Len(position) > 2 => Front(position) \in DOMAIN tree
        /\ node.kind # "cycle"
        /\ node.kind = "fact" =>
              node.reference \in DOMAIN dataset /\ node.lanes = dataset[node.reference]
        /\ node.kind # "derived" => Below(tree, position) = {}
        /\ node.kind = "derived" =>
              \E b \in Bindings :
                  /\ node.rule \in program.rules
                  /\ Ground(node.rule.head, b) = node.reference
                  /\ Proves(tree, position, Premises(node.rule.body, b), ~node.premisesTruncated)

\* A derivation down to facts.
Whole(tree, positions) ==
    \A p \in positions :
        /\ tree[p].kind \in {"fact", "derived"}
        /\ tree[p].kind = "derived" => Below(tree, p) = DOMAIN tree[p].rule.body

\* The proofs of a row derive its values, and a row that does not say its
\* proofs are truncated carries a whole derivation of every literal.
ProofsHonest ==
    result # Null =>
        /\ \A p \in DOMAIN result.proofs : p[1] \in DOMAIN result.rows /\ Derives(result.proofs, p)
        /\ \A i \in DOMAIN result.rows :
              \E match \in SupportOf(LeastModel(DOMAIN dataset), result.rows[i].values) :
                 LET all == Below(result.proofs, <<i>>) = DOMAIN match
                 IN  /\ Proves(result.proofs, <<i>>, match, all)
                     /\ result.rows[i].proofsTruncated <=>
                           ~(all /\ Whole(result.proofs, NodesOf(result, i)))

\* A result is exactly the answer it claims to be, with the proofs it claims.
RowsHonest == AnswersExact /\ ProofsHonest

\* The parser of cached results accepts every result the evaluation builds:
\* both count the same nodes, depths, bytes and supports.  That it refuses any
\* other is not said: what it does not recompute rests on the digest.
ResultParses == result # Null => Parses(result)

\* What the agent labels canonical needs no working record: it is an answer
\* over the facts all of whose sources are canonical.
CanonicalStandsAlone ==
    result # Null =>
        \A i \in DOMAIN result.rows :
            PremiseAuthority(result, i) = "canonical" =>
                result.rows[i].values \in AnswersOf(LeastModel(
                    {f \in DOMAIN dataset : dataset[f] = {"canonical"}}))
=============================================================================
