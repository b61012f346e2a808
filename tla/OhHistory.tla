------------------------------ MODULE OhHistory ------------------------------
(***************************************************************************)
(* Histories.  An operation names its parent by the digest of the parent,  *)
(* which names its own parent in turn, so an operation is modelled by the  *)
(* whole sequence of bodies it closes; its length is its sequence number.  *)
(***************************************************************************)
EXTENDS Integers, Sequences

\* The operation of a history that has sequence n.
Prefix(history, n) == SubSeq(history, 1, n)

IsPrefixOf(h, g) == Len(h) <= Len(g) /\ h = Prefix(g, Len(h))

\* The operations of a history after sequence n through sequence m.
Segment(history, n, m) == {Prefix(history, k) : k \in (n + 1)..m}

\* All its operations.
ChainOf(history) == {Prefix(history, n) : n \in 1..Len(history)}
=============================================================================
