----------------------------- MODULE OhProjection -----------------------------
(***************************************************************************)
(* The evaluation of a projection: positive Datalog over the facts of one  *)
(* snapshot, by naive rounds (src/src/projection.ts, materializeNaive).    *)
(*                                                                         *)
(* An evaluation reads its input once and runs alone, so its steps are the *)
(* rounds of its loop.  A reference is a relation with a tuple; what is    *)
(* known so far maps each to the witness it was first derived by.  The     *)
(* order of canonical JSON, which settles between witnesses, is a fixed    *)
(* order nothing else depends on: CHOOSE stands for its least element.     *)
(***************************************************************************)
EXTENDS Integers, Sequences, FiniteSets, FiniteSetsExt, Functions

CONSTANTS Relations,
          Atoms,         \* constants of tuples and terms
          Variables,
          Lanes,         \* the lanes of the records facts come from
          Inputs,        \* what is evaluated: a dataset, a program and limits
          FactLimit, RelationLimit, QueryMatches   \* OH_PROJECTION_LIMITS_V1

Reference == [relation: Relations, tuple: Seq(Atoms)]

Literal == [relation: Relations, terms: Seq(Atoms \cup Variables)]

Rule == [head: Literal, body: Seq(Literal)]

\* A rule pack and a query.
Program == [rules: SUBSET Rule, find: Seq(Variables), where: Seq(Literal), limit: Nat]

\* The limits a caller sets, under the hard ones.
Option == [derived: Nat, rounds: Nat, work: Nat, proofDepth: Nat, proofNodes: Nat,
           totalProofNodes: Nat, resultBytes: Nat]

VariablesIn(body) ==
    {v \in Variables : \E i \in DOMAIN body : \E j \in DOMAIN body[i].terms : body[i].terms[j] = v}

\* An evaluation is of finitely many facts and rules over what they name.  Facts
\* of one tuple are merged with the sources of all (mergeProjectionFacts), and a
\* body binds the variables of its head and of the answer.
ASSUME ProjectionAssumption ==
    /\ Atoms \cap Variables = {}
    /\ IsFiniteSet(Atoms) /\ IsFiniteSet(Variables)
    /\ FactLimit \in Nat /\ RelationLimit \in Nat /\ QueryMatches \in Nat
    /\ \A i \in Inputs :
          /\ IsFiniteSet(DOMAIN i.dataset) /\ IsFiniteSet(i.program.rules)
          /\ Cardinality(DOMAIN i.dataset) <= FactLimit
          /\ DOMAIN i.dataset \subseteq Reference
          /\ i.dataset \in [DOMAIN i.dataset -> (SUBSET Lanes) \ {{}}]
          /\ i.program \in Program
          /\ i.program.where # <<>>
          /\ \A n \in DOMAIN i.program.find :
                i.program.find[n] \in VariablesIn(i.program.where)
          /\ \A rule \in i.program.rules :
                rule.body # <<>> /\ VariablesIn(<<rule.head>>) \subseteq VariablesIn(rule.body)
          /\ i.options \in Option

VARIABLES dataset, program, options,
          known,    \* every tuple derived so far, with its witness
          rounds,
          work,     \* tuple unifications tried
          phase

input == <<dataset, program, options>>

evaluationVars == <<input, known, rounds, work, phase>>

-----------------------------------------------------------------------------
(* Joins.                                                                  *)

Bindings == [Variables -> Atoms]

\* instantiateHead, and the tuple a body literal unifies with.
Ground(literal, binding) ==
    [relation |-> literal.relation,
     tuple |-> [i \in DOMAIN literal.terms |->
                   IF literal.terms[i] \in Variables THEN binding[literal.terms[i]]
                   ELSE literal.terms[i]]]

\* unifyLiteral along a body: every literal meets a tuple there is.
Satisfies(tuples, body, binding) ==
    \A i \in DOMAIN body : Ground(body[i], binding) \in tuples

Premises(body, binding) == [i \in DOMAIN body |-> Ground(body[i], binding)]

\* matchBody.
Matches(tuples, body) ==
    {Premises(body, b) : b \in {c \in Bindings : Satisfies(tuples, body, c)}}

Start(body, n) == SubSeq(body, 1, n)

\* Each literal is tried against every tuple of its relation for every match of
\* the literals before it.
Attempts(tuples, body) ==
    UNION {{i} \X Matches(tuples, Start(body, i - 1))
               \X {t \in tuples : t.relation = body[i].relation} : i \in DOMAIN body}

Work(tuples, body) == Cardinality(Attempts(tuples, body))

JoinsWithin(tuples, body) ==
    \A i \in DOMAIN body : Cardinality(Matches(tuples, Start(body, i))) <= QueryMatches

\* The relations of facts, rules and query, with the arities they are used with.
Uses ==
    LET bodies == {program.where} \cup {rule.body : rule \in program.rules}
        literals == {rule.head : rule \in program.rules}
                        \cup UNION {{body[i] : i \in DOMAIN body} : body \in bodies}
    IN  {<<l.relation, Len(l.terms)>> : l \in literals}
            \cup {<<f.relation, Len(f.tuple)>> : f \in DOMAIN dataset}

\* validateProgramArities: one arity for a relation, and not too many relations.
ArityConsistent ==
    /\ \A u, v \in Uses : u[1] = v[1] => u = v
    /\ Cardinality(Uses) <= RelationLimit

-----------------------------------------------------------------------------
(* Rounds.                                                                 *)

FactWitness(lanes) == [kind |-> "fact", lanes |-> lanes]

DerivedWitness(rule, premises) == [kind |-> "derived", rule |-> rule, premises |-> premises]

EvaluationInit ==
    /\ \E i \in Inputs : dataset = i.dataset /\ program = i.program /\ options = i.options
    /\ known = [f \in DOMAIN dataset |-> FactWitness(dataset[f])]
    /\ rounds = 0
    /\ work = 0
    /\ phase = IF ArityConsistent THEN "round" ELSE "failed"

Tuples == DOMAIN known

Derived == Cardinality(Tuples) - Cardinality(DOMAIN dataset)

Firings(tuples) ==
    {firing \in program.rules \X Bindings : Satisfies(tuples, firing[1].body, firing[2])}

Conclusion(firing) == Ground(firing[1].head, firing[2])

\* A round that joined the facts of the dataset only.
Conclusions_FactsOnly == {Conclusion(firing) : firing \in Firings(DOMAIN dataset)}

Conclusions == {Conclusion(firing) : firing \in Firings(Tuples)}

Candidates == Conclusions \ Tuples

\* The least of the witnesses the round has for a candidate.
WitnessOf(candidate) ==
    LET firings == {firing \in Firings(Tuples) : Conclusion(firing) = candidate}
    IN  CHOOSE witness \in {DerivedWitness(f[1], Premises(f[1].body, f[2])) : f \in firings} : TRUE

RoundWork ==
    Cardinality(UNION {{rule} \X Attempts(Tuples, rule.body) : rule \in program.rules})

RoundWithin ==
    /\ work + RoundWork <= options.work
    /\ \A rule \in program.rules : JoinsWithin(Tuples, rule.body)
    /\ Candidates # {} =>
          /\ rounds < options.rounds
          /\ Derived + Cardinality(Candidates) <= options.derived

Round ==
    /\ phase = "round"
    /\ RoundWithin
    /\ Candidates # {}
    /\ known' = [t \in Tuples \cup Candidates |-> IF t \in Tuples THEN known[t] ELSE WitnessOf(t)]
    /\ rounds' = rounds + 1
    /\ work' = work + RoundWork
    /\ UNCHANGED <<input, phase>>

LastRound ==
    /\ phase = "round"
    /\ RoundWithin
    /\ Candidates = {}
    /\ work' = work + RoundWork
    /\ phase' = "result"
    /\ UNCHANGED <<input, known, rounds>>

RoundFails ==
    /\ phase = "round"
    /\ ~RoundWithin
    /\ phase' = "failed"
    /\ UNCHANGED <<input, known, rounds, work>>

EvaluationNext == Round \/ LastRound \/ RoundFails

-----------------------------------------------------------------------------
(* Properties.                                                             *)

\* A set of tuples that holds the facts and every conclusion drawn from it.
IsModel(facts, tuples) ==
    /\ facts \subseteq tuples
    /\ \A firing \in Firings(tuples) : Conclusion(firing) \in tuples

\* What some rule could ever conclude.
Concludable == {Conclusion(firing) : firing \in program.rules \X Bindings}

LeastModel(facts) ==
    LET models == {tuples \in {facts \cup derived : derived \in SUBSET Concludable} :
                      IsModel(facts, tuples)}
    IN  {t \in facts \cup Concludable : \A tuples \in models : t \in tuples}

\* The rounds compute the least model of the rules over the facts: nothing is
\* known at any time that does not follow, and when no round adds anything,
\* all that follows is known, whatever the rules and however they recurse.
LeastModelReached ==
    /\ Tuples \subseteq LeastModel(DOMAIN dataset)
    /\ phase = "result" => Tuples = LeastModel(DOMAIN dataset)

\* Some derivations rest on some facts alone: tuples whose witnesses stay among
\* them follow from the facts among them, so what a proof shows to need no
\* working fact holds without any.
WitnessesSuffice ==
    \A tuples \in SUBSET Tuples :
        LET facts == {t \in tuples : known[t].kind = "fact"}
        IN  (\A t \in tuples \ facts :
                \A i \in DOMAIN known[t].premises : known[t].premises[i] \in tuples)
            => tuples \subseteq LeastModel(facts)
=============================================================================
