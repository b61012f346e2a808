--------------------------- MODULE OhHistoryProofs ---------------------------
(* Facts about prefixes of histories and the order they form; induction.   *)
EXTENDS OhHistory, SequenceTheorems, WellFoundedInduction, TLAPS

\* A prefix is a history of its own with the same bodies.
LEMMA PrefixOfSeq ==
    ASSUME NEW S, NEW h \in Seq(S), NEW n \in 0..Len(h)
    PROVE  /\ Prefix(h, n) \in Seq(S)
           /\ Len(Prefix(h, n)) = n
           /\ \A i \in 1..n : Prefix(h, n)[i] = h[i]
<1>1. Len(h) \in Nat
  BY LenProperties
<1>2. \A i \in 1..Len(h) : h[i] \in S
  BY ElementOfSeq
<1>3. \A i \in 1..n : h[i] \in S
  BY <1>1, <1>2
<1>4. /\ SubSeq(h, 1, n) \in Seq(S)
      /\ Len(SubSeq(h, 1, n)) = IF 1 <= n THEN n - 1 + 1 ELSE 0
      /\ \A i \in 1..(n - 1 + 1) : SubSeq(h, 1, n)[i] = h[1 + i - 1]
  BY <1>1, <1>3, SubSeqProperties
<1>5. n \in Nat
  BY <1>1
<1>6. QED
  BY <1>4, <1>5 DEF Prefix

\* A prefix of a prefix is a prefix.
LEMMA PrefixTwice ==
    ASSUME NEW S, NEW h \in Seq(S), NEW n \in 0..Len(h), NEW m \in 0..n
    PROVE  Prefix(Prefix(h, n), m) = Prefix(h, m)
<1>1. Len(h) \in Nat
  BY LenProperties
<1>2. m \in 0..Len(h) /\ n \in Nat /\ m \in Nat
  BY <1>1
<1> DEFINE p == Prefix(h, n)
<1>3. p \in Seq(S) /\ Len(p) = n /\ \A i \in 1..n : p[i] = h[i]
  BY PrefixOfSeq
<1>4. /\ Prefix(p, m) \in Seq(S)
      /\ Len(Prefix(p, m)) = m
      /\ \A i \in 1..m : Prefix(p, m)[i] = p[i]
  <2> HIDE DEF p
  <2> QED
    BY <1>3, PrefixOfSeq
<1>5. /\ Prefix(h, m) \in Seq(S)
      /\ Len(Prefix(h, m)) = m
      /\ \A i \in 1..m : Prefix(h, m)[i] = h[i]
  BY <1>2, PrefixOfSeq
<1>6. \A i \in 1..m : Prefix(p, m)[i] = Prefix(h, m)[i]
  BY <1>2, <1>3, <1>4, <1>5
<1>7. QED
  BY <1>4, <1>5, <1>6, SeqEqual

LEMMA PrefixAll ==
    ASSUME NEW S, NEW h \in Seq(S)
    PROVE  Prefix(h, Len(h)) = h
  BY SubSeqFull DEF Prefix

-----------------------------------------------------------------------------
(* The order by extension.                                                 *)

LEMMA ExtensionReflexive ==
    ASSUME NEW S, NEW h \in Seq(S)
    PROVE  IsPrefixOf(h, h) /\ IsPrefixOf(<<>>, h)
<1>1. Len(h) \in Nat /\ <<>> \in Seq(S) /\ Len(<<>>) = 0
  BY LenProperties, EmptySeq
<1>2. Len(Prefix(h, 0)) = 0 /\ Prefix(h, 0) \in Seq(S)
  BY <1>1, PrefixOfSeq
<1>3. Prefix(h, 0) = <<>>
  BY <1>2, EmptySeq
<1>4. QED
  BY <1>1, <1>3, PrefixAll DEF IsPrefixOf

LEMMA ExtensionTransitive ==
    ASSUME NEW S, NEW f \in Seq(S), NEW g \in Seq(S), NEW h \in Seq(S),
           IsPrefixOf(f, g), IsPrefixOf(g, h)
    PROVE  IsPrefixOf(f, h)
<1>1. Len(f) \in Nat /\ Len(g) \in Nat /\ Len(h) \in Nat
  BY LenProperties
<1>2. Len(f) <= Len(g) /\ Len(g) <= Len(h)
      /\ f = Prefix(g, Len(f)) /\ g = Prefix(h, Len(g))
  BY DEF IsPrefixOf
<1>3. Prefix(Prefix(h, Len(g)), Len(f)) = Prefix(h, Len(f))
  BY <1>1, <1>2, PrefixTwice
<1>4. QED
  BY <1>1, <1>2, <1>3 DEF IsPrefixOf

\* Of two prefixes of one history the shorter is a prefix of the longer.
LEMMA ExtensionComparable ==
    ASSUME NEW S, NEW f \in Seq(S), NEW g \in Seq(S), NEW h \in Seq(S),
           IsPrefixOf(f, h), IsPrefixOf(g, h), Len(f) <= Len(g)
    PROVE  IsPrefixOf(f, g)
<1>1. Len(f) \in Nat /\ Len(g) \in Nat /\ Len(h) \in Nat
  BY LenProperties
<1>2. Len(g) <= Len(h) /\ f = Prefix(h, Len(f)) /\ g = Prefix(h, Len(g))
  BY DEF IsPrefixOf
<1>3. Prefix(Prefix(h, Len(g)), Len(f)) = Prefix(h, Len(f))
  BY <1>1, <1>2, PrefixTwice
<1>4. QED
  BY <1>2, <1>3 DEF IsPrefixOf

\* A prefix that is not shorter is the history itself.
LEMMA ExtensionSameLength ==
    ASSUME NEW S, NEW f \in Seq(S), NEW h \in Seq(S),
           IsPrefixOf(f, h), Len(h) <= Len(f)
    PROVE  f = h
<1>1. Len(f) \in Nat /\ Len(h) \in Nat
  BY LenProperties
<1>2. Len(f) = Len(h) /\ f = Prefix(h, Len(h))
  BY <1>1 DEF IsPrefixOf
<1>3. QED
  BY <1>2, PrefixAll

\* The history before an appended body is a prefix of the one after it.
LEMMA ExtensionByAppend ==
    ASSUME NEW S, NEW h \in Seq(S), NEW body \in S
    PROVE  /\ Append(h, body) \in Seq(S)
           /\ Len(Append(h, body)) = Len(h) + 1
           /\ IsPrefixOf(h, Append(h, body))
<1> DEFINE g == Append(h, body)
<1>1. g \in Seq(S) /\ Len(g) = Len(h) + 1 /\ \A i \in 1..Len(h) : g[i] = h[i]
  BY AppendProperties
<1> HIDE DEF g
<1>2. Len(h) \in Nat /\ Len(h) \in 0..Len(g)
  BY <1>1, LenProperties
<1>3. /\ Prefix(g, Len(h)) \in Seq(S)
      /\ Len(Prefix(g, Len(h))) = Len(h)
      /\ \A i \in 1..Len(h) : Prefix(g, Len(h))[i] = g[i]
  BY <1>1, <1>2, PrefixOfSeq
<1>4. Prefix(g, Len(h)) = h
  BY <1>1, <1>3, SeqEqual
<1>5. g \in Seq(S) /\ Len(g) = Len(h) + 1 /\ IsPrefixOf(h, g)
  BY <1>1, <1>2, <1>4 DEF IsPrefixOf
<1>6. QED
  BY <1>5 DEF g

-----------------------------------------------------------------------------
(* Segments.                                                               *)

\* An operation lies in a segment exactly when it is the prefix of its length.
LEMMA InSegment ==
    ASSUME NEW S, NEW h \in Seq(S), NEW n \in Nat, NEW m \in Nat, m <= Len(h),
           NEW o
    PROVE  o \in Segment(h, n, m) <=>
               /\ o \in Seq(S)
               /\ IsPrefixOf(o, h)
               /\ n < Len(o) /\ Len(o) <= m
<1>1. Len(h) \in Nat
  BY LenProperties
<1>2. ASSUME o \in Segment(h, n, m)
      PROVE  o \in Seq(S) /\ IsPrefixOf(o, h) /\ n < Len(o) /\ Len(o) <= m
  <2>1. PICK k \in (n + 1)..m : o = Prefix(h, k)
    BY <1>2 DEF Segment
  <2>2. k \in 0..Len(h)
    BY <1>1, <2>1
  <2>3. o \in Seq(S) /\ Len(o) = k
    BY <2>1, <2>2, PrefixOfSeq
  <2>4. QED
    BY <1>1, <2>1, <2>2, <2>3 DEF IsPrefixOf
<1>3. ASSUME o \in Seq(S), IsPrefixOf(o, h), n < Len(o), Len(o) <= m
      PROVE  o \in Segment(h, n, m)
  <2>1. Len(o) \in Nat
    BY <1>3, LenProperties
  <2>2. Len(o) \in (n + 1)..m /\ o = Prefix(h, Len(o))
    BY <1>3, <2>1 DEF IsPrefixOf
  <2>3. QED
    BY <2>2 DEF Segment
<1>4. QED
  BY <1>2, <1>3

-----------------------------------------------------------------------------
(* Numbers.                                                                *)

\* Every set of numbers has a least one.
LEMMA LeastNumber ==
    ASSUME NEW T \in SUBSET Nat, T # {}
    PROVE  \E n \in T : \A m \in T : n <= m
<1> DEFINE R == {ss \in Nat \X Nat : ss[1] < ss[2]}
<1>1. IsWellFoundedOn(R, Nat)
  <2>1. OpToRel(<, Nat) = R
    BY Zenon DEF OpToRel
  <2>2. QED
    BY <2>1, NatLessThanWellFounded, Zenon
<1>2. PICK n \in T : \A y \in T : ~(<<y, n>> \in R)
  BY <1>1, WFMin, Zenon
<1>3. ASSUME NEW m \in T, m < n PROVE FALSE
  <2>1. <<m, n>> \in Nat \X Nat /\ <<m, n>>[1] = m /\ <<m, n>>[2] = n
    OBVIOUS
  <2>2. <<m, n>> \in R
    BY <1>3, <2>1
  <2>3. QED
    BY <2>2, <1>2
<1>4. QED
  BY <1>3

\* Induction, over the set of the numbers for which a statement holds.
LEMMA SetInduction ==
    ASSUME NEW S, 0 \in S, \A n \in Nat : n \in S => n + 1 \in S
    PROVE  Nat \subseteq S
<1>1. SUFFICES ASSUME Nat \ S # {} PROVE FALSE
  OBVIOUS
<1>2. PICK n \in Nat \ S : \A m \in Nat \ S : n <= m
  BY <1>1, LeastNumber
<1>3. n # 0 /\ n - 1 \in Nat
  BY <1>2
<1>4. n - 1 \in S
  BY <1>2, <1>3
<1>5. QED
  BY <1>2, <1>3, <1>4
=============================================================================
