-------------------------- MODULE OhMemoryCoreProofs --------------------------
(***************************************************************************)
(* Theorems about the memory core.  OhMemoryAgent: what is remembered can  *)
(* be read again, a repeated remember is answered, and pages make up one   *)
(* answer, for any number of clients, records, requests and pages.         *)
(* OhProjection, whose programs the agent evaluates: the rounds reach the  *)
(* least model, and what is derived from some facts needs no others, for   *)
(* any rules and facts.  OhProjectionResult: rows and proofs are what they *)
(* claim wherever a budget cuts them, the parser accepts them, and what is *)
(* labelled canonical needs no working record.  The agent and a projection *)
(* share no state.                                                         *)
(***************************************************************************)
EXTENDS OhMemoryAgent, OhProjectionResult, OhHistoryProofs, FiniteSetTheorems

-----------------------------------------------------------------------------
(* Histories and their records.                                            *)

LEMMA EmptyIsHistory == <<>> \in History
  BY EmptySeq DEF History

LEMMA Reflexive ==
    ASSUME NEW h \in History
    PROVE  IsPrefixOf(h, h) /\ IsPrefixOf(<<>>, h)
  BY ExtensionReflexive DEF History

LEMMA RecordsType ==
    ASSUME NEW h \in History
    PROVE  RecordsAt(h) \in Snapshot
<1>1. CASE h = <<>>
  BY <1>1 DEF RecordsAt, NoRecords, Snapshot
<1>2. CASE h # <<>>
  <2>1. Len(h) \in Nat /\ Len(h) # 0
    BY <1>2, LenProperties, EmptySeq DEF History
  <2>2. h[Len(h)] \in Body
    BY <2>1, ElementOfSeq DEF History
  <2>3. QED
    BY <1>2, <2>2 DEF RecordsAt, Body
<1>3. QED
  BY <1>1, <1>2

LEMMA ChangedType ==
    ASSUME NEW records \in Snapshot, NEW changes \in Bundles
    PROVE  Changed(records, changes) \in Snapshot
<1>1. PICK K \in SUBSET Keys : changes \in [K -> Values \cup {Absent}]
  BY AgentAssumption
<1>2. \A k \in Keys : (IF k \in DOMAIN changes THEN changes[k] ELSE records[k])
                      \in Values \cup {Absent}
  BY <1>1 DEF Snapshot
<1>3. QED
  BY <1>2 DEF Changed, Snapshot

\* A history one operation longer has the operations it had.
LEMMA Extended ==
    ASSUME NEW h \in History, NEW body \in Body
    PROVE  /\ Append(h, body) \in History
           /\ Len(Append(h, body)) = Len(h) + 1 /\ Len(h) \in Nat
           /\ IsPrefixOf(h, Append(h, body))
           /\ Append(h, body)[Len(h) + 1] = body
           /\ \A i \in 1..Len(h) : Append(h, body)[i] = h[i]
           /\ \A n \in 0..Len(h) : Prefix(Append(h, body), n) = Prefix(h, n)
<1> DEFINE g == Append(h, body)
<1>1. g \in History /\ Len(g) = Len(h) + 1 /\ IsPrefixOf(h, g)
  BY ExtensionByAppend DEF History
<1>2. Len(h) \in Nat
  BY LenProperties DEF History
<1>3. g[Len(h) + 1] = body /\ \A i \in 1..Len(h) : g[i] = h[i]
  BY AppendProperties DEF History
<1> HIDE DEF g
<1>4. ASSUME NEW n \in 0..Len(h) PROVE Prefix(g, n) = Prefix(h, n)
  <2>1. Len(h) \in 0..Len(g) /\ h = Prefix(g, Len(h))
    BY <1>1, <1>2 DEF IsPrefixOf
  <2>2. Prefix(Prefix(g, Len(h)), n) = Prefix(g, n)
    BY <1>1, <2>1, PrefixTwice DEF History
  <2>3. QED
    BY <2>1, <2>2
<1>5. QED
  BY <1>1, <1>2, <1>3, <1>4 DEF g

-----------------------------------------------------------------------------
(* Answers.                                                                *)

\* A set of keys has a key of every rank, so sorting it lists its members.
LEMMA SortedKeys ==
    ASSUME NEW K \in SUBSET Keys
    PROVE  /\ Cardinality(K) \in Nat
           /\ Sorted(K) \in [1..Cardinality(K) -> K]
<1> DEFINE UpTo(m) == {j \in K : j <= m}
           Count(m) == Cardinality(UpTo(m))
<1>1. MaxKey \in Nat
  BY AgentAssumption
<1>2a. \A j \in K : j \in Nat /\ 0 < j /\ j <= MaxKey
  BY <1>1 DEF Keys
<1>2. IsFiniteSet(Keys)
  BY <1>1, FS_Interval DEF Keys
<1>3. IsFiniteSet(K)
  BY <1>2, FS_Subset
<1>4. \A m : IsFiniteSet(UpTo(m)) /\ Count(m) \in Nat
  <2> TAKE m
  <2>1. UpTo(m) \in SUBSET K
    OBVIOUS
  <2> HIDE DEF UpTo
  <2>2. IsFiniteSet(UpTo(m))
    BY <1>3, <2>1, FS_Subset
  <2>3. QED
    BY <2>2, FS_CardinalityType
<1>5. Cardinality(K) \in Nat
  BY <1>3, FS_CardinalityType
<1>6. ASSUME NEW n \in 1..Cardinality(K)
      PROVE  \E k \in K : Count(k) = n
  <2> DEFINE T == {m \in Nat : n <= Count(m)}
  <2>1. UpTo(MaxKey) = K
    <3>1. UpTo(MaxKey) \subseteq K
      OBVIOUS
    <3>2. \A j \in K : j \in UpTo(MaxKey)
      BY <1>2a
    <3> HIDE DEF UpTo
    <3>3. QED
      BY <3>1, <3>2
  <2>2. MaxKey \in T
    BY <1>1, <1>5, <2>1
  <2>3. PICK m \in T : \A i \in T : m <= i
    <3>1. T \in SUBSET Nat /\ T # {}
      BY <2>2
    <3> HIDE DEF T
    <3>2. QED
      BY <3>1, LeastNumber
  <2>4. m \in Nat /\ n <= Count(m)
    BY <2>3
  <2>5. UpTo(0) = {}
    <3>1. \A j \in K : ~(j <= 0)
      BY <1>2a
    <3>2. QED
      BY <3>1, Zenon
  <2>6. m # 0
    BY <1>5, <2>4, <2>5, FS_EmptySet
  <2>7. m - 1 \in Nat /\ Count(m - 1) < n
    <3>1. m - 1 \in Nat /\ m - 1 \notin T
      <4> HIDE DEF T
      <4> QED
        BY <2>3, <2>4, <2>6
    <3>2. Count(m - 1) \in Nat
      BY <1>4
    <3> HIDE DEF Count
    <3>3. QED
      BY <1>5, <3>1, <3>2
  <2>8. m \in K
    <3>1. SUFFICES ASSUME m \notin K PROVE UpTo(m) = UpTo(m - 1)
      <4>1. Count(m) \in Nat /\ Count(m - 1) \in Nat
        BY <1>4
      <4> HIDE DEF Count
      <4>2. QED
        BY <1>5, <2>4, <2>7, <4>1 DEF Count
    <3>2. \A j \in K : j \in Nat /\ j # m
      BY <1>1, <3>1 DEF Keys
    <3>3. QED
      BY <2>4, <3>2
  <2>9. UpTo(m) = UpTo(m - 1) \cup {m} /\ m \notin UpTo(m - 1)
    <3>1. \A j \in K : j <= m <=> j <= m - 1 \/ j = m
      BY <1>2a, <2>4
    <3>2. ~(m <= m - 1)
      BY <2>4
    <3>3. QED
      BY <2>8, <3>1, <3>2, Zenon
  <2>10. Count(m) = Count(m - 1) + 1
    <3>1. IsFiniteSet(UpTo(m - 1))
      BY <1>4
    <3> HIDE DEF UpTo
    <3>2. QED
      BY <2>9, <3>1, FS_AddElement
  <2>11. Count(m) = n
    <3>1. Count(m - 1) \in Nat
      BY <1>4
    <3> HIDE DEF Count
    <3>2. QED
      BY <1>5, <2>4, <2>7, <2>10, <3>1
  <2>12. QED
    BY <2>8, <2>11
<1>7. \A n \in 1..Cardinality(K) : (CHOOSE k \in K : Count(k) = n) \in K
  <2> HIDE DEF Count
  <2> QED
    BY <1>6
<1>8. QED
  BY <1>5, <1>7 DEF Sorted

LEMMA LaneRowsType ==
    ASSUME NEW lane \in {"canonical", "working"}, NEW records \in Snapshot
    PROVE  LaneRows(lane, records) \in Seq(Row)
<1> DEFINE K == Present(records)
           keys == Sorted(K)
           n == Cardinality(K)
<1>1. K \in SUBSET Keys /\ \A k \in K : records[k] \in Values
  BY DEF Present, Snapshot
<1>2. n \in Nat /\ keys \in [1..n -> K]
  <2> HIDE DEF K
  <2> QED
    BY <1>1, SortedKeys
<1> HIDE DEF K, keys, n
<1>3. \A i \in 1..n : [premise |-> lane, key |-> keys[i], values |-> <<records[keys[i]]>>] \in Row
  BY <1>1, <1>2 DEF Row
<1> DEFINE listed == [i \in 1..n |-> [premise |-> lane, key |-> keys[i],
                                    values |-> <<records[keys[i]]>>]]
<1>4. listed \in [1..n -> Row]
  BY <1>3
<1>5. listed \in Seq(Row)
  <2> HIDE DEF listed
  <2> QED
    BY <1>2, <1>4
<1>6. DOMAIN keys = 1..n
  BY <1>2
<1>7. LaneRows(lane, records) = listed
  BY <1>6 DEF LaneRows, K, keys
<1>8. QED
  BY <1>5, <1>7

LEMMA ConflictRowsType ==
    ASSUME NEW canonical \in Snapshot, NEW records \in Snapshot
    PROVE  ConflictRows(canonical, records) \in Seq(Row)
<1> DEFINE K == {k \in Present(canonical) \cap Present(records) : canonical[k] # records[k]}
           keys == Sorted(K)
           n == Cardinality(K)
<1>1. K \in SUBSET Keys /\ \A k \in K : canonical[k] \in Values /\ records[k] \in Values
  BY DEF Present, Snapshot
<1>2. n \in Nat /\ keys \in [1..n -> K]
  <2> HIDE DEF K
  <2> QED
    BY <1>1, SortedKeys
<1> HIDE DEF K, keys, n
<1>3. \A i \in 1..n : [premise |-> "working", key |-> keys[i],
                       values |-> <<canonical[keys[i]], records[keys[i]]>>] \in Row
  BY <1>1, <1>2 DEF Row
<1> DEFINE listed == [i \in 1..n |-> [premise |-> "working", key |-> keys[i],
                                    values |-> <<canonical[keys[i]], records[keys[i]]>>]]
<1>4. listed \in [1..n -> Row]
  BY <1>3
<1>5. listed \in Seq(Row)
  <2> HIDE DEF listed
  <2> QED
    BY <1>2, <1>4
<1>6. DOMAIN keys = 1..n
  BY <1>2
<1>7. ConflictRows(canonical, records) = listed
  BY <1>6 DEF ConflictRows, K, keys
<1>8. QED
  BY <1>5, <1>7

LEMMA AnswerType ==
    ASSUME NEW source \in Source
    PROVE  Answer(source) \in Seq(Row)
<1>1. Pins[source.pin] \in Snapshot
  BY AgentAssumption DEF Source
<1>2. RecordsAt(source.head) \in Snapshot
  BY RecordsType DEF Source
<1>3. /\ LaneRows("canonical", Pins[source.pin]) \in Seq(Row)
      /\ LaneRows("working", RecordsAt(source.head)) \in Seq(Row)
  BY <1>1, <1>2, LaneRowsType
<1>4. RecordRows(Pins[source.pin], RecordsAt(source.head)) \in Seq(Row)
  BY <1>3, ConcatProperties DEF RecordRows
<1>5. ConflictRows(Pins[source.pin], RecordsAt(source.head)) \in Seq(Row)
  BY <1>1, <1>2, ConflictRowsType
<1>6. QED
  BY <1>4, <1>5 DEF Answer

\* A page continues the rows before it.
LEMMA PageContinues ==
    ASSUME NEW answer \in Seq(Row), NEW start \in 0..Len(answer)
    PROVE  /\ Len(PageFrom(answer, start)) \in Nat
           /\ start + Len(PageFrom(answer, start)) \in 0..Len(answer)
           /\ PageFrom(answer, start) \in Seq(Row)
           /\ Prefix(answer, start) \o PageFrom(answer, start)
              = Prefix(answer, start + Len(PageFrom(answer, start)))
<1>1. Len(answer) \in Nat /\ PageSize \in Nat \ {0}
  BY LenProperties, AgentAssumption
<1> DEFINE end == IF start + PageSize < Len(answer) THEN start + PageSize ELSE Len(answer)
<1>2. end \in start..Len(answer)
  BY <1>1
<1>3. PageFrom(answer, start) = SubSeq(answer, start + 1, end)
  BY DEF PageFrom
<1> HIDE DEF end
<1>4. \A i \in (start + 1)..end : answer[i] \in Row
  BY <1>1, <1>2, ElementOfSeq
<1>5. SubSeq(answer, start + 1, end) \in Seq(Row)
      /\ Len(SubSeq(answer, start + 1, end)) = end - start
  <2>1. start + 1 \in Int /\ end \in Int
    BY <1>1, <1>2
  <2>2. SubSeq(answer, start + 1, end) \in Seq(Row)
        /\ Len(SubSeq(answer, start + 1, end)) =
              IF start + 1 <= end THEN end - (start + 1) + 1 ELSE 0
    BY <1>4, <2>1, SubSeqProperties
  <2>3. QED
    BY <1>1, <1>2, <2>2
<1>6. SubSeq(answer, 1, start) \o SubSeq(answer, start + 1, end) = SubSeq(answer, 1, end)
  <2>1. 1 \in 1..(Len(answer) + 1) /\ start \in (1 - 1)..Len(answer) /\ end \in start..Len(answer)
    BY <1>1, <1>2
  <2>2. QED
    BY <2>1, ConcatAdjacentSubSeq
<1>7. end - start \in Nat /\ start + (end - start) = end /\ end \in 0..Len(answer)
  BY <1>1, <1>2
<1>8. QED
  BY <1>3, <1>5, <1>6, <1>7 DEF Prefix

-----------------------------------------------------------------------------
(* The inductive invariant.                                                *)

AgentTypes ==
    /\ working \in History
    /\ pinned \in DOMAIN Pins
    /\ call \in [Clients -> Call]
    /\ reading \in [Clients -> Reading \cup {None}]

\* A remember call: the guard judged the head it expects, and once it has
\* passed, that head is gone or can take the records.
Remembering(k, head) ==
    k.step \in {"guard", "capacity", "commit"} =>
        /\ k.request \in Request /\ IsPrefixOf(k.request.expected, head)
        /\ k.step = "capacity" => k.head = k.request.expected
        /\ k.step = "commit" /\ k.request.expected = head =>
              /\ Fits(RecordsAt(head))
              /\ Fits(Changed(RecordsAt(head), k.request.changes))

\* An operation a remember call made.
Remembered(head, i) ==
    head[i].request # None =>
        LET before == RecordsAt(Prefix(head, i - 1))
        IN  /\ Fits(before)
            /\ head[i].records = Changed(before, head[i].changes)
            /\ Fits(head[i].records)

\* A query continues what its client has collected.
Asking(k, r) ==
    /\ k.step \in {"head", "evaluate"} => k.question \in Questions
    /\ k.continuation # None => r # None /\ k.continuation = r.continuation

\* What a client has collected is the beginning of one answer.
Collected(r) ==
    r # None =>
        LET answer == Answer(r.source)
        IN  /\ IsPrefixOf(r.rows, answer)
            /\ r.continuation = None => r.rows = answer
            /\ r.continuation # None =>
                  r.continuation = [source |-> r.source, result |-> answer,
                                    next |-> Len(r.rows)]

AgentInvariant ==
    /\ AgentTypes
    /\ \A c \in Clients : Remembering(call[c], working)
    /\ \A i \in 1..Len(working) : Remembered(working, i)
    /\ \A c \in Clients : Asking(call[c], reading[c]) /\ Collected(reading[c])

LEMMA IdleCall ==
    /\ Idle \in Call
    /\ \A head, r : Remembering(Idle, head) /\ Asking(Idle, r)
<1>1. 1 \in DOMAIN Pins
  BY AgentAssumption, EmptySeq, LenProperties
<1>2. Idle \in Call
  BY <1>1, EmptyIsHistory DEF Idle, Call
<1>3. QED
  BY <1>2 DEF Idle, Remembering, Asking

LEMMA AgentBegins == Init => AgentInvariant
<1> SUFFICES ASSUME Init PROVE AgentInvariant
  OBVIOUS
<1>1. AgentTypes
  <2>1. 1 \in DOMAIN Pins
    BY AgentAssumption, EmptySeq, LenProperties
  <2>2. QED
    BY <2>1, IdleCall, EmptyIsHistory DEF Init, AgentTypes
<1>2. Len(working) = 0
  BY DEF Init
<1>3. QED
  BY <1>1, <1>2, IdleCall DEF Init, AgentInvariant, Collected

\* A step of one client that leaves the working store and what is collected
\* as they are.
LEMMA OneCallMoves ==
    ASSUME AgentInvariant, UNCHANGED <<working, pinned, reading>>,
           NEW c \in Clients, NEW k \in Call,
           Remembering(k, working), Asking(k, reading[c]),
           call' = [call EXCEPT ![c] = k]
    PROVE  AgentInvariant'
<1>1. AgentTypes'
  BY DEF AgentInvariant, AgentTypes
<1>2. \A d \in Clients : call'[d] = IF d = c THEN k ELSE call[d]
  BY DEF AgentInvariant, AgentTypes
<1>3. (\A d \in Clients : Remembering(call[d], working))'
  BY <1>2 DEF AgentInvariant
<1>4. (\A d \in Clients : Asking(call[d], reading[d]) /\ Collected(reading[d]))'
  BY <1>2 DEF AgentInvariant
<1>5. (\A i \in 1..Len(working) : Remembered(working, i))'
  BY DEF AgentInvariant
<1>6. QED
  BY <1>1, <1>3, <1>4, <1>5 DEF AgentInvariant

LEMMA CallEnds ==
    ASSUME AgentInvariant, UNCHANGED <<working, pinned, reading>>,
           NEW c \in Clients, End(c)
    PROVE  AgentInvariant'
  BY IdleCall, OneCallMoves DEF End

\* The working store takes an operation; its sender's call is over.
LEMMA WorkingGrows ==
    ASSUME AgentInvariant, NEW body \in Body, working' = Append(working, body),
           UNCHANGED <<pinned, reading>>, call' \in [Clients -> Call],
           \A c \in Clients : call'[c] \in {call[c], Idle},
           body.request # None =>
               /\ Fits(RecordsAt(working))
               /\ body.records = Changed(RecordsAt(working), body.changes)
               /\ Fits(body.records)
    PROVE  AgentInvariant'
<1>1. working \in History
  BY DEF AgentInvariant, AgentTypes
<1>2. /\ working' \in History
      /\ Len(working') = Len(working) + 1 /\ Len(working) \in Nat
      /\ IsPrefixOf(working, working')
      /\ working'[Len(working) + 1] = body
      /\ \A i \in 1..Len(working) : working'[i] = working[i]
      /\ \A n \in 0..Len(working) : Prefix(working', n) = Prefix(working, n)
  BY <1>1, Extended
<1>3. AgentTypes'
  BY <1>2 DEF AgentInvariant, AgentTypes
<1>4. ASSUME NEW c \in Clients PROVE Remembering(call[c], working)'
  <2>1. CASE call'[c] = Idle
    BY <2>1, IdleCall
  <2>2. CASE call'[c] = call[c]
    <3>1. SUFFICES ASSUME call[c].step \in {"guard", "capacity", "commit"}
                   PROVE  Remembering(call[c], working')
      BY <2>2 DEF Remembering
    <3>2. /\ call[c].request.expected \in History
          /\ IsPrefixOf(call[c].request.expected, working)
          /\ call[c].request \in Request
      BY <3>1 DEF AgentInvariant, Remembering, Request
    <3>3. IsPrefixOf(call[c].request.expected, working')
      BY <1>1, <1>2, <3>2, ExtensionTransitive DEF History
    <3>4. call[c].request.expected # working'
      BY <1>2, <3>2 DEF IsPrefixOf
    <3>5. call[c].step = "capacity" => call[c].head = call[c].request.expected
      BY <3>1 DEF AgentInvariant, Remembering
    <3>6. QED
      BY <3>2, <3>3, <3>4, <3>5 DEF Remembering
  <2>3. QED
    BY <2>1, <2>2
<1>5. ASSUME NEW i \in 1..Len(working') PROVE Remembered(working', i)
  <2>1. CASE i <= Len(working)
    <3>1. i \in 1..Len(working) /\ i - 1 \in 0..Len(working)
      BY <1>2, <2>1
    <3>2. Remembered(working, i)
      BY <3>1 DEF AgentInvariant
    <3>3. working'[i] = working[i] /\ Prefix(working', i - 1) = Prefix(working, i - 1)
      BY <1>2, <3>1
    <3>4. QED
      BY <3>2, <3>3 DEF Remembered
  <2>2. CASE i = Len(working) + 1
    <3>1. i - 1 = Len(working) /\ Len(working) \in 0..Len(working)
      BY <1>2, <2>2
    <3>2. Prefix(working', i - 1) = working /\ working'[i] = body
      BY <1>1, <1>2, <2>2, <3>1, PrefixAll DEF History
    <3>3. QED
      BY <3>2 DEF Remembered
  <2>3. QED
    BY <1>2, <2>1, <2>2
<1>6. (\A c \in Clients : Asking(call[c], reading[c]) /\ Collected(reading[c]))'
  <2> SUFFICES ASSUME NEW c \in Clients
               PROVE  Asking(call'[c], reading[c]) /\ Collected(reading[c])
    OBVIOUS
  <2>1. Asking(call[c], reading[c]) /\ Collected(reading[c])
    BY DEF AgentInvariant
  <2>2. QED
    BY <2>1, IdleCall
<1>7. QED
  BY <1>3, <1>4, <1>5, <1>6 DEF AgentInvariant

-----------------------------------------------------------------------------
(* Every step keeps it.                                                    *)

LEMMA Facts ==
    ASSUME AgentInvariant, NEW c \in Clients
    PROVE  /\ call[c] \in Call /\ working \in History /\ pinned \in DOMAIN Pins
           /\ reading[c] \in Reading \cup {None}
           /\ Remembering(call[c], working) /\ Asking(call[c], reading[c])
           /\ Collected(reading[c])
  BY DEF AgentInvariant, AgentTypes

LEMMA RememberKeeps ==
    ASSUME AgentInvariant, NEW c \in Clients, Remember(c)
    PROVE  AgentInvariant'
<1>1. PICK id \in RequestIds, changes \in Bundles, head \in ChainOf(working) \cup {<<>>} :
          call' = [call EXCEPT ![c] = [Idle EXCEPT !.step = "guard",
             !.request = [id |-> id, expected |-> head, changes |-> changes]]]
  BY DEF Remember
<1>2. working \in History /\ Len(working) \in Nat
  BY LenProperties DEF AgentInvariant, AgentTypes, History
<1>3. head \in History /\ IsPrefixOf(head, working)
  <2>1. CASE head = <<>>
    BY <1>2, <2>1, EmptyIsHistory, Reflexive
  <2>2. CASE head \in ChainOf(working)
    <3>1. head \in Segment(working, 0, Len(working))
      BY <1>2, <2>2 DEF ChainOf, Segment
    <3>2. QED
      BY <1>2, <3>1, InSegment DEF History
  <2>3. QED
    BY <2>1, <2>2
<1> DEFINE request == [id |-> id, expected |-> head, changes |-> changes]
           k == [Idle EXCEPT !.step = "guard", !.request = request]
<1>4. request \in Request /\ request.expected = head
  BY <1>3 DEF Request
<1> HIDE DEF request
<1>5. k \in Call /\ k.step = "guard" /\ k.request = request /\ k.continuation = None
  BY <1>4, IdleCall DEF Idle, Call
<1>6. call' = [call EXCEPT ![c] = k]
  BY <1>1 DEF request
<1> HIDE DEF k
<1>7. Remembering(k, working) /\ Asking(k, reading[c])
  BY <1>3, <1>4, <1>5 DEF Remembering, Asking
<1>8. QED
  BY <1>5, <1>6, <1>7, OneCallMoves DEF Remember, OnlyCall

LEMMA GuardHeadKeeps ==
    ASSUME AgentInvariant, NEW c \in Clients, GuardHead(c)
    PROVE  AgentInvariant'
<1>1. /\ call[c] \in Call /\ call[c].step = "guard" /\ working \in History
      /\ Remembering(call[c], working) /\ Asking(call[c], reading[c])
  BY Facts DEF GuardHead, At
<1>2. CASE Guarded(c)
  <2> DEFINE k == [call[c] EXCEPT !.step = "capacity", !.head = working]
  <2>1. /\ k \in Call /\ k.step = "capacity" /\ k.head = working
        /\ k.request = call[c].request /\ k.continuation = call[c].continuation
    BY <1>1 DEF Call
  <2>2. call' = [call EXCEPT ![c] = k]
    BY <1>2 DEF GuardHead, AgentInvariant, AgentTypes
  <2> HIDE DEF k
  <2>3. Remembering(k, working) /\ Asking(k, reading[c])
    BY <1>1, <1>2, <2>1 DEF Remembering, Asking, Guarded
  <2>4. QED
    BY <2>1, <2>2, <2>3, OneCallMoves DEF GuardHead, OnlyCall
<1>3. CASE ~Guarded(c)
  <2> DEFINE k == [call[c] EXCEPT !.step = "commit"]
  <2>1. /\ k \in Call /\ k.step = "commit"
        /\ k.request = call[c].request /\ k.continuation = call[c].continuation
    BY <1>1 DEF Call
  <2>2. call' = [call EXCEPT ![c] = k]
    BY <1>3 DEF GuardHead, Go
  <2> HIDE DEF k
  <2>3. Remembering(k, working) /\ Asking(k, reading[c])
    BY <1>1, <1>3, <2>1 DEF Remembering, Asking, Guarded
  <2>4. QED
    BY <2>1, <2>2, <2>3, OneCallMoves DEF GuardHead, OnlyCall
<1>4. QED
  BY <1>2, <1>3

LEMMA GuardPassesKeeps ==
    ASSUME AgentInvariant, NEW c \in Clients, GuardPasses(c)
    PROVE  AgentInvariant'
<1>1. /\ call[c] \in Call /\ call[c].step = "capacity" /\ CapacityLeft(c)
      /\ Remembering(call[c], working) /\ Asking(call[c], reading[c])
  BY Facts DEF GuardPasses, At
<1> DEFINE k == [call[c] EXCEPT !.step = "commit"]
<1>2. /\ k \in Call /\ k.step = "commit"
      /\ k.request = call[c].request /\ k.continuation = call[c].continuation
  BY <1>1 DEF Call
<1>3. call' = [call EXCEPT ![c] = k]
  BY DEF GuardPasses, Go
<1> HIDE DEF k
<1>4. Remembering(k, working) /\ Asking(k, reading[c])
  BY <1>1, <1>2 DEF Remembering, Asking, CapacityLeft
<1>5. QED
  BY <1>2, <1>3, <1>4, OneCallMoves DEF GuardPasses, OnlyCall

\* The store executes only what expects its head, which the guard then judged.
LEMMA CommitExecutesKeeps ==
    ASSUME AgentInvariant, NEW c \in Clients, CommitExecutes(c)
    PROVE  AgentInvariant'
<1> DEFINE r == call[c].request
           body == [request |-> r.id, changes |-> r.changes,
                    records |-> Changed(RecordsAt(working), r.changes)]
<1>1. /\ r \in Request /\ r.expected = working /\ working \in History
      /\ Fits(RecordsAt(working)) /\ Fits(Changed(RecordsAt(working), r.changes))
  BY Facts DEF CommitExecutes, Executes, At, Remembering
<1>2. body \in Body
  BY <1>1, RecordsType, ChangedType DEF Request, Body
<1>3. working' = Append(working, body) /\ UNCHANGED <<pinned, reading>>
  BY DEF CommitExecutes
<1>4. /\ call' \in [Clients -> Call] /\ \A d \in Clients : call'[d] \in {call[d], Idle}
  BY IdleCall DEF CommitExecutes, End, AgentInvariant, AgentTypes
<1>5. /\ body.changes = r.changes
      /\ body.records = Changed(RecordsAt(working), r.changes)
  OBVIOUS
<1> HIDE DEF body
<1>6. QED
  BY <1>1, <1>2, <1>3, <1>4, <1>5, WorkingGrows

LEMMA WriteKeeps ==
    ASSUME AgentInvariant, Write
    PROVE  AgentInvariant'
<1>1. PICK records \in Writes :
          working' = Append(working, [request |-> None, changes |-> None, records |-> records])
  BY DEF Write
<1> DEFINE body == [request |-> None, changes |-> None, records |-> records]
<1>2. body \in Body /\ body.request = None
  BY AgentAssumption DEF Body
<1>3. UNCHANGED <<pinned, reading, call>>
  BY DEF Write
<1>4. call' \in [Clients -> Call]
  BY <1>3 DEF AgentInvariant, AgentTypes
<1> HIDE DEF body
<1>5. QED
  BY <1>1, <1>2, <1>3, <1>4, WorkingGrows DEF body

LEMMA QueryKeeps ==
    ASSUME AgentInvariant, NEW c \in Clients, Query(c)
    PROVE  AgentInvariant'
<1>1. PICK question \in Questions,
           continuation \in {None} \cup
              (IF reading[c] = None THEN {} ELSE {reading[c].continuation}) :
          IF continuation # None => continuation.source.question = question
          THEN call' = [call EXCEPT ![c] = [Idle EXCEPT !.step = "head",
                  !.question = question, !.continuation = continuation, !.pin = pinned]]
          ELSE End(c)
  BY DEF Query
<1>2. continuation # None => reading[c] # None /\ continuation = reading[c].continuation
  BY <1>1
<1>3. continuation \in Continuation \cup {None} /\ pinned \in DOMAIN Pins
  BY <1>2, Facts DEF Reading
<1> DEFINE k == [Idle EXCEPT !.step = "head", !.question = question,
                             !.continuation = continuation, !.pin = pinned]
<1>4. /\ k \in Call /\ k.step = "head" /\ k.question = question
      /\ k.continuation = continuation
  BY <1>3, IdleCall DEF Idle, Call
<1>5. call' = [call EXCEPT ![c] = k] \/ End(c)
  BY <1>1
<1> HIDE DEF k
<1>6. Remembering(k, working) /\ Asking(k, reading[c])
  BY <1>2, <1>4 DEF Remembering, Asking
<1>7. QED
  BY <1>4, <1>5, <1>6, OneCallMoves, CallEnds DEF Query, OnlyCall

LEMMA ReadWorkingHeadKeeps ==
    ASSUME AgentInvariant, NEW c \in Clients, ReadWorkingHead(c)
    PROVE  AgentInvariant'
<1>1. /\ call[c] \in Call /\ call[c].step = "head" /\ working \in History
      /\ Asking(call[c], reading[c])
  BY Facts DEF ReadWorkingHead, At
<1> DEFINE k == [call[c] EXCEPT !.step = "evaluate", !.head = working]
<1>2. /\ k \in Call /\ k.step = "evaluate"
      /\ k.question = call[c].question /\ k.continuation = call[c].continuation
  BY <1>1 DEF Call
<1>3. call' = [call EXCEPT ![c] = k]
  BY DEF ReadWorkingHead, AgentInvariant, AgentTypes
<1> HIDE DEF k
<1>4. Remembering(k, working) /\ Asking(k, reading[c])
  BY <1>1, <1>2 DEF Remembering, Asking
<1>5. QED
  BY <1>2, <1>3, <1>4, OneCallMoves DEF ReadWorkingHead, OnlyCall

\* A page is the next of the same answer, or the first of a new one.
LEMMA QueryAnsweredKeeps ==
    ASSUME AgentInvariant, NEW c \in Clients, QueryAnswered(c)
    PROVE  AgentInvariant'
<1> DEFINE k == call[c].continuation
           source == SourceOf(c)
           answer == Answer(source)
           start == StartOf(c)
           listed == PageFrom(answer, start)
           end == start + Len(listed)
           page == [source |-> IF k = None THEN source ELSE reading[c].source,
                    rows |-> IF k = None THEN listed ELSE reading[c].rows \o listed,
                    continuation |-> IF end = Len(answer) THEN None
                       ELSE [source |-> source, result |-> answer, next |-> end]]
<1>1. /\ call[c].step = "evaluate" /\ Answerable(c) /\ End(c)
      /\ UNCHANGED <<working, pinned>>
      /\ reading' = [reading EXCEPT ![c] = page]
  BY DEF QueryAnswered, At, AgentInvariant, AgentTypes
<1>2. /\ call[c] \in Call /\ Asking(call[c], reading[c]) /\ Collected(reading[c])
      /\ reading[c] \in Reading \cup {None}
  BY Facts
<1>3. source \in Source
  BY <1>1, <1>2 DEF SourceOf, Source, Call, Asking
<1>4. answer \in Seq(Row) /\ Len(answer) \in Nat
  <2>1. answer \in Seq(Row)
    BY <1>3, AnswerType
  <2> HIDE DEF answer
  <2>2. QED
    BY <2>1, LenProperties
<1>5. ASSUME k # None
      PROVE  /\ reading[c] # None /\ reading[c].source = source
             /\ reading[c].rows = Prefix(answer, start) /\ start \in 0..Len(answer)
  <2>1. /\ reading[c] # None /\ k = reading[c].continuation
        /\ k.source = source /\ start = k.next
    BY <1>1, <1>2, <1>5 DEF Answerable, Continues, Asking, StartOf
  <2>2. /\ k.source = reading[c].source /\ k.next = Len(reading[c].rows)
        /\ IsPrefixOf(reading[c].rows, Answer(reading[c].source))
    BY <1>2, <1>5, <2>1 DEF Collected
  <2>3. reading[c].rows \in Seq(Row)
    BY <1>2, <2>1 DEF Reading
  <2>4. Len(reading[c].rows) \in Nat
    BY <2>3, LenProperties
  <2>5. Answer(reading[c].source) = answer
    BY <2>1, <2>2
  <2> HIDE DEF k, source, answer, start
  <2>6. QED
    BY <1>4, <2>1, <2>2, <2>4, <2>5 DEF IsPrefixOf
<1>6. k = None => start = 0
  BY DEF StartOf
<1>7. start \in 0..Len(answer)
  <2> HIDE DEF k, answer, start
  <2> QED
    BY <1>4, <1>5, <1>6
<1> HIDE DEF k, source, answer, start
<1>8. /\ Len(listed) \in Nat /\ end \in 0..Len(answer) /\ listed \in Seq(Row)
      /\ Prefix(answer, start) \o listed = Prefix(answer, end)
  BY <1>4, <1>7, PageContinues
<1> HIDE DEF listed, end
<1>9. page.source = source /\ page.rows = Prefix(answer, end)
  <2>1. CASE k = None
    <3>1. Prefix(answer, start) = <<>>
      BY <1>6, <2>1, SubSeqEmpty DEF Prefix
    <3>2. <<>> \o listed = listed
      BY <1>8, ConcatEmptySeq
    <3>3. QED
      BY <1>8, <2>1, <3>1, <3>2
  <2>2. CASE k # None
    BY <1>5, <1>8, <2>2
  <2>3. QED
    BY <2>1, <2>2
<1>10. Prefix(answer, end) \in Seq(Row) /\ Len(Prefix(answer, end)) = end
  BY <1>4, <1>8, PrefixOfSeq
<1>11. /\ page.continuation \in Continuation \cup {None}
       /\ page.continuation = None => end = Len(answer)
       /\ page.continuation # None =>
             page.continuation = [source |-> source, result |-> answer, next |-> end]
  <2>1. [source |-> source, result |-> answer, next |-> end] \in Continuation
    BY <1>3, <1>4, <1>8 DEF Continuation
  <2>2. QED
    BY <2>1, ContinuationAssumption
<1>12. page \in Reading
  BY <1>3, <1>9, <1>10, <1>11 DEF Reading
<1>13. Collected(page)
  <2>1. Answer(page.source) = answer
    BY <1>9 DEF answer
  <2>2. IsPrefixOf(page.rows, answer)
    <3> HIDE DEF page
    <3>1. Len(page.rows) = end /\ page.rows = Prefix(answer, end)
      BY <1>9, <1>10
    <3>2. end <= Len(answer)
      BY <1>4, <1>8
    <3>3. QED
      BY <3>1, <3>2 DEF IsPrefixOf
  <2>3. page.continuation = None => page.rows = answer
    BY <1>4, <1>9, <1>11, PrefixAll
  <2> HIDE DEF page
  <2>4. QED
    BY <1>9, <1>10, <1>11, <2>1, <2>2, <2>3 DEF Collected
<1> HIDE DEF page
<1>14. call' = [call EXCEPT ![c] = Idle]
  BY <1>1 DEF End
<1>15. AgentTypes'
  BY <1>1, <1>12, <1>14, IdleCall DEF AgentInvariant, AgentTypes
<1>16. \A d \in Clients : /\ call'[d] = IF d = c THEN Idle ELSE call[d]
                          /\ reading'[d] = IF d = c THEN page ELSE reading[d]
  BY <1>1, <1>14 DEF AgentInvariant, AgentTypes
<1>17. (\A d \in Clients : Remembering(call[d], working))'
  BY <1>1, <1>16, IdleCall DEF AgentInvariant
<1>18. (\A d \in Clients : Asking(call[d], reading[d]) /\ Collected(reading[d]))'
  BY <1>13, <1>16, IdleCall DEF AgentInvariant
<1>19. (\A i \in 1..Len(working) : Remembered(working, i))'
  BY <1>1 DEF AgentInvariant
<1>20. QED
  BY <1>15, <1>17, <1>18, <1>19 DEF AgentInvariant

LEMMA QuietKeeps ==
    ASSUME AgentInvariant, UNCHANGED <<working, call, reading>>, pinned' \in DOMAIN Pins
    PROVE  AgentInvariant'
  BY DEF AgentInvariant, AgentTypes

LEMMA RestartKeeps ==
    ASSUME AgentInvariant, Restart
    PROVE  AgentInvariant'
<1>1. AgentTypes' /\ \A c \in Clients : call'[c] = Idle
  BY IdleCall DEF Restart, AgentInvariant, AgentTypes
<1>2. UNCHANGED <<working, pinned, reading>>
  BY DEF Restart
<1>3. QED
  BY <1>1, <1>2, IdleCall DEF AgentInvariant

\* The invariant holds in every state of the agent.
LEMMA AgentStep == AgentInvariant /\ [Next]_vars => AgentInvariant'
<1> SUFFICES ASSUME AgentInvariant, [Next]_vars PROVE AgentInvariant'
  OBVIOUS
<1>1. CASE UNCHANGED vars
  BY <1>1, QuietKeeps DEF vars, AgentInvariant, AgentTypes
<1>2. ASSUME NEW c \in Clients, Remember(c) \/ GuardHead(c) \/ GuardPasses(c)
      PROVE  AgentInvariant'
  BY <1>2, RememberKeeps, GuardHeadKeeps, GuardPassesKeeps
<1>3. ASSUME NEW c \in Clients, GuardRefuses(c) \/ CommitReplays(c) \/ CommitRefuses(c)
                                  \/ QueryRefused(c) \/ QueryTooLarge(c) \/ Fail(c)
      PROVE  AgentInvariant'
  BY <1>3, CallEnds DEF GuardRefuses, CommitReplays, CommitRefuses, QueryRefused,
     QueryTooLarge, Fail, OnlyCall
<1>4. ASSUME NEW c \in Clients, CommitExecutes(c) PROVE AgentInvariant'
  BY <1>4, CommitExecutesKeeps
<1>5. ASSUME NEW c \in Clients, Query(c) \/ ReadWorkingHead(c) \/ QueryAnswered(c)
      PROVE  AgentInvariant'
  BY <1>5, QueryKeeps, ReadWorkingHeadKeeps, QueryAnsweredKeeps
<1>6. ASSUME NEW c \in Clients, Explain(c) PROVE AgentInvariant'
  BY <1>6, QuietKeeps DEF Explain, AgentInvariant, AgentTypes
<1>7. CASE Write
  BY <1>7, WriteKeeps
<1>8. CASE Rollover
  <2>1. pinned' \in DOMAIN Pins
    <3>1. Len(Pins) \in Nat /\ DOMAIN Pins = 1..Len(Pins)
      <4>1. Pins \in Seq(Snapshot)
        BY AgentAssumption
      <4>2. QED
        BY <4>1, LenProperties
    <3>2. pinned \in 1..Len(Pins) /\ pinned < Len(Pins) /\ pinned' = pinned + 1
      BY <1>8, <3>1 DEF Rollover, AgentInvariant, AgentTypes
    <3>3. QED
      BY <3>1, <3>2
  <2>2. QED
    BY <1>8, <2>1, QuietKeeps DEF Rollover
<1>9. CASE Restart
  BY <1>9, RestartKeeps
<1>10. QED
  BY <1>1, <1>2, <1>3, <1>4, <1>5, <1>6, <1>7, <1>8, <1>9 DEF Next

-----------------------------------------------------------------------------
(* The theorems.                                                           *)

\* What the guards of remember and of query establish holds in every state.
THEOREM AgentConsistent == Spec => []AgentInvariant
  BY AgentBegins, AgentStep, PTL DEF Spec

\* No remembered operation leaves more records than the agent can read again.
THEOREM RememberedFits == Spec => []RememberWithinCapacity
<1>1. AgentInvariant => RememberWithinCapacity
  <2> SUFFICES ASSUME AgentInvariant, NEW i \in DOMAIN working, working[i].request # None
               PROVE  Fits(working[i].records)
    BY DEF RememberWithinCapacity
  <2>1. i \in 1..Len(working)
    BY LenProperties DEF AgentInvariant, AgentTypes, History
  <2>2. QED
    BY <2>1 DEF AgentInvariant, Remembered
<1>2. QED
  BY <1>1, AgentConsistent, PTL

\* The pages a client collects by continuation are one answer.
THEOREM PagesAlwaysAgree == Spec => []PagesAreTheAnswer
<1>1. AgentInvariant => PagesAreTheAnswer
  BY DEF AgentInvariant, Collected, PagesAreTheAnswer
<1>2. QED
  BY <1>1, AgentConsistent, PTL

LEMMA LandedFits ==
    ASSUME AgentInvariant, NEW r \in Request, Landed(r)
    PROVE  Fits(RecordsAt(r.expected)) /\ Fits(Changed(RecordsAt(r.expected), r.changes))
<1>1. working \in History /\ Len(working) \in Nat
  BY LenProperties DEF AgentInvariant, AgentTypes, History
<1>2. PICK operation \in ChainOf(working) :
          /\ operation[Len(operation)].request = r.id
          /\ operation[Len(operation)].changes = r.changes
          /\ Prefix(operation, Len(operation) - 1) = r.expected
  BY DEF Landed, Operations
<1>3. PICK n \in 1..Len(working) : operation = Prefix(working, n)
  BY <1>2 DEF ChainOf
<1>4. n \in 0..Len(working) /\ n - 1 \in 0..n /\ n \in 1..n
  BY <1>1
<1>5. Len(operation) = n /\ operation[n] = working[n]
  BY <1>1, <1>3, <1>4, PrefixOfSeq DEF History
<1>6. Prefix(operation, n - 1) = Prefix(working, n - 1)
  BY <1>1, <1>3, <1>4, PrefixTwice DEF History
<1>7. r.id # None
  BY AgentAssumption DEF Request
<1>8. Remembered(working, n)
  BY <1>3 DEF AgentInvariant
<1>9. QED
  BY <1>2, <1>5, <1>6, <1>7, <1>8 DEF Remembered

\* A remember call repeated after it was executed is not refused.
THEOREM RetriesAnswered == Spec => RetryAnswered
<1>1. AgentInvariant /\ Next =>
          \A c \in Clients :
             GuardRefuses(c) \/ CommitRefuses(c) => ~Landed(call[c].request)
  <2> SUFFICES ASSUME AgentInvariant, NEW c \in Clients, Landed(call[c].request)
               PROVE  ~GuardRefuses(c) /\ ~CommitRefuses(c)
    OBVIOUS
  <2>1. ASSUME GuardRefuses(c) PROVE FALSE
    <3>1. /\ call[c].request \in Request /\ call[c].head = call[c].request.expected
          /\ ~CapacityLeft(c)
      BY <2>1, Facts DEF GuardRefuses, At, Remembering
    <3>2. QED
      BY <3>1, LandedFits DEF CapacityLeft
  <2>2. ASSUME CommitRefuses(c) PROVE FALSE
    BY <2>2 DEF CommitRefuses, Replayable, Landed
  <2>3. QED
    BY <2>1, <2>2
<1>2. AgentInvariant /\ [Next]_vars =>
          [\A c \in Clients :
             GuardRefuses(c) \/ CommitRefuses(c) => ~Landed(call[c].request)]_vars
  BY <1>1
<1>3. QED
  BY <1>2, AgentConsistent, PTL DEF Spec, RetryAnswered

-----------------------------------------------------------------------------
(* The explanation registry.                                               *)

\* An entry the registry takes.
Stored == [token: Nat, bytes: 0..EntryBytes, expiresAt: Nat]

Retained(entries) == UNION {{e} \X (1..e.bytes) : e \in entries}

\* The count of bytes is that of the entries, both bounds are kept, and no
\* entry is newer than the last token or expires later than a new one would.
RegistryInvariant ==
    /\ lastMonotonicMs \in Nat /\ issued \in Nat
    /\ IsFiniteSet(explanations) /\ explanations \subseteq Stored
    /\ Cardinality(explanations) <= Capabilities
    /\ explanationBytes = Bytes(explanations) /\ explanationBytes <= TotalBytes
    /\ \A e \in explanations :
          e.token <= issued /\ e.expiresAt <= lastMonotonicMs + Lifetime
    /\ \A d, e \in explanations : d.token <= e.token =>
          d.expiresAt <= e.expiresAt /\ (d.token = e.token => d = e)

LEMMA Limits ==
    /\ {MaxTime, PageSize, Capabilities, EntryBytes, TotalBytes, Lifetime} \subseteq Nat
    /\ Capabilities > 0 /\ Lifetime > 0
    /\ ExplanationBytes \subseteq Nat
  BY AgentAssumption

\* A byte count is a number, and that of no entries is none.
LEMMA BytesCount ==
    ASSUME NEW S \in SUBSET Stored, IsFiniteSet(S)
    PROVE  /\ IsFiniteSet(Retained(S))
           /\ Bytes(S) = Cardinality(Retained(S)) /\ Bytes(S) \in Nat
           /\ S = {} => Bytes(S) = 0
<1>1. Retained(S) \in SUBSET (S \X (1..EntryBytes))
  <2>1. SUFFICES ASSUME NEW e \in S, NEW x \in {e} \X (1..e.bytes)
                 PROVE  x \in S \X (1..EntryBytes)
    BY DEF Retained
  <2>2. e.bytes \in 0..EntryBytes /\ EntryBytes \in Nat
    BY Limits DEF Stored
  <2>3. 1..e.bytes \subseteq 1..EntryBytes
    BY <2>2
  <2>4. QED
    BY <2>3
<1>2. IsFiniteSet(1..EntryBytes)
  BY FS_Interval, Limits
<1>3. IsFiniteSet(S \X (1..EntryBytes))
  BY <1>2, FS_Product
<1>4. IsFiniteSet(Retained(S))
  BY <1>1, <1>3, FS_Subset
<1>5. Bytes(S) = Cardinality(Retained(S))
  BY DEF Bytes, Retained
<1>6. S = {} => Retained(S) = {}
  BY DEF Retained
<1>7. QED
  BY <1>4, <1>5, <1>6, FS_CardinalityType, FS_EmptySet

\* What goes is subtracted.
LEMMA BytesOfTheRest ==
    ASSUME NEW S \in SUBSET Stored, IsFiniteSet(S), NEW T \in SUBSET S
    PROVE  /\ IsFiniteSet(T) /\ IsFiniteSet(S \ T)
           /\ Bytes(T) \in Nat /\ Bytes(T) <= Bytes(S)
           /\ Bytes(S \ T) = Bytes(S) - Bytes(T)
<1>1. IsFiniteSet(T) /\ IsFiniteSet(S \ T)
      /\ T \in SUBSET Stored /\ (S \ T) \in SUBSET Stored
  BY FS_Subset
<1>2. /\ Retained(S) \cap Retained(T) = Retained(T)
      /\ Retained(S \ T) = Retained(S) \ Retained(T)
  <2>1. \A U, x : x \in Retained(U) <=> \E e \in U : \E n \in 1..e.bytes : x = <<e, n>>
    BY DEF Retained
  <2>2. QED
    BY <2>1
<1>3. /\ Bytes(S) = Cardinality(Retained(S)) /\ Bytes(S) \in Nat
      /\ Bytes(T) = Cardinality(Retained(T)) /\ Bytes(T) \in Nat
      /\ Bytes(S \ T) = Cardinality(Retained(S \ T)) /\ Bytes(S \ T) \in Nat
      /\ IsFiniteSet(Retained(S))
  BY <1>1, BytesCount
<1>4. Bytes(S \ T) = Bytes(S) - Bytes(T)
  BY <1>2, <1>3, FS_Difference
<1>5. QED
  BY <1>1, <1>3, <1>4

LEMMA BytesWithOneMore ==
    ASSUME NEW S \in SUBSET Stored, IsFiniteSet(S), NEW e \in Stored, e \notin S
    PROVE  Bytes(S \cup {e}) = Bytes(S) + e.bytes
<1> DEFINE U == S \cup {e}
<1>1. IsFiniteSet(U) /\ U \in SUBSET Stored /\ {e} \in SUBSET U /\ U \ {e} = S
  BY FS_AddElement
<1>2. Bytes(S) = Bytes(U) - Bytes({e}) /\ Bytes({e}) \in Nat
  BY <1>1, BytesOfTheRest
<1>3. Bytes(U) \in Nat
  BY <1>1, BytesCount
<1>4. Bytes({e}) = e.bytes
  <2>1. e.bytes \in Nat
    BY Limits DEF Stored
  <2>2. IsFiniteSet(1..e.bytes) /\ Cardinality(1..e.bytes) = e.bytes
    BY <2>1, FS_Interval, SMTT(30)
  <2>3. IsFiniteSet({e}) /\ Cardinality({e}) = 1
    BY FS_Singleton
  <2>4. Cardinality({e} \X (1..e.bytes)) = 1 * e.bytes
    BY <2>2, <2>3, FS_Product, ZenonT(30)
  <2>5. UNION {{d} \X (1..d.bytes) : d \in {e}} = {e} \X (1..e.bytes)
    OBVIOUS
  <2>6. Bytes({e}) = Cardinality({e} \X (1..e.bytes))
    BY <2>5, Zenon DEF Bytes
  <2>7. QED
    BY <2>1, <2>4, <2>6
<1>5. QED
  BY <1>2, <1>3, <1>4

\* Once the evicted entries are gone, another one fits.
LEMMA EvictionMakesRoom ==
    ASSUME NEW S \in SUBSET Stored, IsFiniteSet(S), NEW bytes \in Nat,
           bytes <= TotalBytes
    PROVE  LET gone == Evicted(S, Bytes(S), bytes)
           IN  /\ gone \in SUBSET S
               /\ Cardinality(S \ gone) < Capabilities
               /\ Bytes(S) - Bytes(gone) + bytes <= TotalBytes
<1> DEFINE gone == Evicted(S, Bytes(S), bytes)
           Older(e) == {older \in S : older.token < e.token}
           Room(g) == /\ Cardinality(S \ g) < Capabilities
                      /\ Bytes(S) - Bytes(g) + bytes <= TotalBytes
<1>1. gone = {e \in S : ~Room(Older(e))}
  BY DEF Evicted
<1>2. gone \in SUBSET S
  BY <1>1
<1>3. Bytes(S) \in Nat /\ Bytes(gone) \in Nat
  BY <1>2, BytesCount, BytesOfTheRest
<1>4. CASE gone = S
  <2>1. Cardinality(S \ gone) = 0
    BY <1>4, FS_EmptySet
  <2>2. QED
    BY <1>2, <1>3, <1>4, <2>1, Limits
<1>5. CASE gone # S
  <2> DEFINE T == {e.token : e \in S \ gone}
  <2>1. T \in SUBSET Nat /\ T # {}
    BY <1>2, <1>5 DEF Stored
  <2>2. PICK n \in T : \A m \in T : n <= m
    BY <2>1, LeastNumber
  <2>3. PICK e \in S \ gone : e.token = n
    BY <2>2
  <2>4. Room(Older(e))
    BY <1>1, <2>3
  <2>5. Older(e) \in SUBSET gone
    BY <2>2, <2>3 DEF Stored
  <2>6. gone \in SUBSET Stored /\ IsFiniteSet(gone)
    BY <1>2, BytesOfTheRest
  <2>7. Bytes(Older(e)) <= Bytes(gone) /\ Bytes(Older(e)) \in Nat
    BY <2>5, <2>6, BytesOfTheRest
  <2>8. (S \ gone) \in SUBSET (S \ Older(e)) /\ IsFiniteSet(S \ Older(e))
    BY <2>5, FS_Difference
  <2>9. /\ Cardinality(S \ gone) <= Cardinality(S \ Older(e))
        /\ Cardinality(S \ gone) \in Nat /\ Cardinality(S \ Older(e)) \in Nat
    BY <2>8, FS_Subset, FS_CardinalityType
  <2>10. QED
    BY <1>2, <1>3, <2>4, <2>7, <2>9, Limits
<1>6. QED
  BY <1>4, <1>5

\* A step that keeps some of the entries.
LEMMA EntriesGo ==
    ASSUME RegistryInvariant, NEW T \in SUBSET explanations,
           explanations' = explanations \ T,
           explanationBytes' = explanationBytes - Bytes(T),
           lastMonotonicMs' \in Nat, lastMonotonicMs <= lastMonotonicMs',
           issued' = issued
    PROVE  RegistryInvariant'
<1> USE DEF RegistryInvariant
<1>1. /\ IsFiniteSet(explanations') /\ explanations' \subseteq Stored
      /\ Bytes(explanations)' = Bytes(explanations) - Bytes(T)
      /\ Bytes(T) \in Nat /\ Bytes(explanations) \in Nat
  BY BytesOfTheRest, BytesCount DEF Bytes
<1>2. /\ Cardinality(explanations') <= Cardinality(explanations)
      /\ Cardinality(explanations') \in Nat /\ Cardinality(explanations) \in Nat
  BY FS_Subset, FS_CardinalityType, <1>1
<1>3. \A e \in explanations : e.expiresAt \in Nat /\ e.token \in Nat
  BY DEF Stored
<1>4. (\A e \in explanations :
          e.token <= issued /\ e.expiresAt <= lastMonotonicMs + Lifetime)'
  BY <1>3, Limits
<1>5. QED
  BY <1>1, <1>2, <1>4, Limits

LEMMA RegistryBegins == Init => RegistryInvariant
<1>1. IsFiniteSet({}) /\ Cardinality({}) = 0 /\ Bytes({}) = 0
  BY FS_EmptySet, BytesCount
<1>2. QED
  BY <1>1, Limits DEF Init, RegistryInvariant

LEMMA QueryTooLargeCounts ==
    ASSUME RegistryInvariant, NEW c \in Clients, QueryTooLarge(c)
    PROVE  RegistryInvariant'
<1>1. PICK now \in lastMonotonicMs..MaxTime :
          /\ lastMonotonicMs' = now
          /\ explanations' = Unexpired(explanations, now)
          /\ explanationBytes' = BytesAfterExpiry(now)
  BY DEF QueryTooLarge
<1> DEFINE T == explanations \ Unexpired(explanations, now)
<1>2. now \in Nat /\ lastMonotonicMs <= now
  BY Limits DEF RegistryInvariant
<1>3. /\ T \in SUBSET explanations /\ explanations' = explanations \ T
      /\ explanationBytes' = explanationBytes - Bytes(T) /\ issued' = issued
  BY <1>1 DEF Unexpired, BytesAfterExpiry, QueryTooLarge
<1> HIDE DEF T
<1>4. QED
  BY <1>1, <1>2, <1>3, EntriesGo

LEMMA ExplainCounts ==
    ASSUME RegistryInvariant, NEW c \in Clients, Explain(c)
    PROVE  RegistryInvariant'
<1>1. PICK token \in 1..issued, exact \in BOOLEAN, now \in lastMonotonicMs..MaxTime :
          LET entry == {e \in explanations : e.token = token}
              valid == exact /\ \E e \in entry : now < e.expiresAt
          IN  /\ lastMonotonicMs' = now
              /\ explanations' = IF valid THEN explanations ELSE explanations \ entry
              /\ explanationBytes' = IF valid THEN explanationBytes
                                     ELSE explanationBytes - Bytes(entry)
  BY DEF Explain
<1> DEFINE entry == {e \in explanations : e.token = token}
           valid == exact /\ \E e \in entry : now < e.expiresAt
           T == IF valid THEN {} ELSE entry
<1>2. now \in Nat /\ lastMonotonicMs <= now
  BY Limits DEF RegistryInvariant
<1>3. explanationBytes \in Nat /\ Bytes({}) = 0
  BY BytesCount, FS_EmptySet DEF RegistryInvariant
<1>4. /\ T \in SUBSET explanations /\ explanations' = explanations \ T
      /\ explanationBytes' = explanationBytes - Bytes(T) /\ issued' = issued
  <2>1. CASE valid
    BY <1>1, <1>3, <2>1 DEF Explain
  <2>2. CASE ~valid
    BY <1>1, <2>2 DEF Explain
  <2>3. QED
    BY <2>1, <2>2
<1> HIDE DEF T
<1>5. QED
  BY <1>1, <1>2, <1>4, EntriesGo

\* The new entry is the newest, expires last, and fits.
LEMMA QueryAnsweredCounts ==
    ASSUME RegistryInvariant, NEW c \in Clients, QueryAnswered(c)
    PROVE  RegistryInvariant'
<1>1. PICK now \in lastMonotonicMs..MaxTime, bytes \in ExplanationBytes :
          LET kept == Unexpired(explanations, now)
              counted == BytesAfterExpiry(now)
              gone == Evicted(kept, counted, bytes)
          IN  /\ bytes <= EntryBytes /\ bytes <= TotalBytes
              /\ lastMonotonicMs' = now
              /\ issued' = issued + 1
              /\ explanations' = (kept \ gone) \cup
                    {[token |-> issued + 1, bytes |-> bytes, expiresAt |-> now + Lifetime]}
              /\ explanationBytes' = counted - Bytes(gone) + bytes
  BY DEF QueryAnswered
<1> DEFINE kept == Unexpired(explanations, now)
           gone == Evicted(kept, Bytes(kept), bytes)
           rest == kept \ gone
           entry == [token |-> issued + 1, bytes |-> bytes, expiresAt |-> now + Lifetime]
<1>2. /\ now \in Nat /\ lastMonotonicMs <= now /\ issued \in Nat
      /\ lastMonotonicMs \in Nat /\ bytes \in Nat /\ Lifetime \in Nat
      /\ EntryBytes \in Nat /\ TotalBytes \in Nat
  BY Limits DEF RegistryInvariant
<1>3. /\ kept \in SUBSET explanations /\ kept \in SUBSET Stored /\ IsFiniteSet(kept)
      /\ Bytes(kept) \in Nat /\ BytesAfterExpiry(now) = Bytes(kept)
  <2>1. kept \in SUBSET explanations /\ explanations \ (explanations \ kept) = kept
    BY DEF Unexpired
  <2>2. explanations \in SUBSET Stored /\ IsFiniteSet(explanations)
        /\ explanationBytes = Bytes(explanations)
    BY DEF RegistryInvariant
  <2>3. Bytes(kept) = Bytes(explanations) - Bytes(explanations \ kept)
        /\ IsFiniteSet(kept) /\ Bytes(kept) \in Nat
    <3>1. (explanations \ kept) \in SUBSET explanations
      OBVIOUS
    <3>2. QED
      BY <2>1, <2>2, <3>1, BytesOfTheRest
  <2>4. QED
    BY <2>1, <2>2, <2>3 DEF BytesAfterExpiry
<1>4. /\ gone \in SUBSET kept /\ Cardinality(rest) < Capabilities
      /\ Bytes(kept) - Bytes(gone) + bytes <= TotalBytes
  BY <1>1, <1>2, <1>3, EvictionMakesRoom
<1>5. /\ explanations' = rest \cup {entry} /\ issued' = issued + 1
      /\ explanationBytes' = Bytes(kept) - Bytes(gone) + bytes
      /\ lastMonotonicMs' = now /\ bytes <= EntryBytes
  BY <1>1, <1>3
<1> HIDE DEF kept, gone
<1>6. /\ rest \in SUBSET explanations /\ rest \in SUBSET Stored /\ IsFiniteSet(rest)
      /\ Bytes(rest) = Bytes(kept) - Bytes(gone)
  BY <1>3, <1>4, BytesOfTheRest
<1>7. entry \in Stored
  BY <1>2, <1>5 DEF Stored
<1>8. \A e \in rest : /\ e.token \in Nat /\ e.expiresAt \in Nat
                      /\ e.token < entry.token /\ e.expiresAt <= entry.expiresAt
  BY <1>2, <1>6 DEF RegistryInvariant, Stored
<1>9. entry \notin rest
  BY <1>2, <1>8
<1>10. Bytes(rest \cup {entry}) = Bytes(rest) + bytes
  BY <1>6, <1>7, <1>9, BytesWithOneMore
<1>11. IsFiniteSet(rest \cup {entry}) /\ Cardinality(rest \cup {entry}) <= Capabilities
  <2>1. /\ IsFiniteSet(rest \cup {entry})
        /\ Cardinality(rest \cup {entry}) = Cardinality(rest) + 1
    BY <1>6, <1>9, FS_AddElement
  <2>2. Cardinality(rest) \in Nat /\ Capabilities \in Nat
    BY <1>6, FS_CardinalityType, Limits
  <2>3. QED
    BY <1>4, <2>1, <2>2
<1>12. explanationBytes' = Bytes(explanations)'
  BY <1>5, <1>6, <1>10 DEF Bytes
<1>13. (\A e \in explanations :
           e.token <= issued /\ e.expiresAt <= lastMonotonicMs + Lifetime)'
  BY <1>2, <1>5, <1>6, <1>8 DEF RegistryInvariant
<1>14. (\A d, e \in explanations : d.token <= e.token =>
           d.expiresAt <= e.expiresAt /\ (d.token = e.token => d = e))'
  BY <1>2, <1>5, <1>6, <1>8 DEF RegistryInvariant
<1> HIDE DEF rest, entry
<1>15. QED
  BY <1>2, <1>4, <1>5, <1>6, <1>7, <1>11, <1>12, <1>13, <1>14 DEF RegistryInvariant

LEMMA RegistryStep == RegistryInvariant /\ [Next]_vars => RegistryInvariant'
<1> SUFFICES ASSUME RegistryInvariant, [Next]_vars PROVE RegistryInvariant'
  OBVIOUS
<1>1. CASE UNCHANGED registry
  BY <1>1 DEF registry, RegistryInvariant, Bytes
<1>2. CASE UNCHANGED vars
  BY <1>1, <1>2 DEF vars
<1>3. ASSUME NEW c \in Clients,
             \/ Remember(c) \/ GuardHead(c) \/ GuardPasses(c) \/ GuardRefuses(c)
             \/ CommitReplays(c) \/ CommitRefuses(c) \/ Query(c) \/ ReadWorkingHead(c)
             \/ QueryRefused(c) \/ Fail(c)
      PROVE  RegistryInvariant'
  <2>1. OnlyCall
    BY <1>3 DEF Remember, GuardHead, GuardPasses, GuardRefuses, CommitReplays,
       CommitRefuses, Query, ReadWorkingHead, QueryRefused, Fail
  <2>2. QED
    BY <1>1, <2>1 DEF OnlyCall
<1>4. ASSUME NEW c \in Clients, CommitExecutes(c) PROVE RegistryInvariant'
  BY <1>1, <1>4 DEF CommitExecutes
<1>5. ASSUME NEW c \in Clients, QueryTooLarge(c) \/ QueryAnswered(c) \/ Explain(c)
      PROVE  RegistryInvariant'
  BY <1>5, QueryTooLargeCounts, QueryAnsweredCounts, ExplainCounts
<1>6. CASE Write \/ Rollover
  BY <1>1, <1>6 DEF Write, Rollover
<1>7. CASE Restart
  <2>1. IsFiniteSet({}) /\ Cardinality({}) = 0 /\ Bytes({}) = 0
    BY FS_EmptySet, BytesCount
  <2>2. QED
    BY <1>7, <2>1, Limits DEF Restart, RegistryInvariant, Bytes
<1>8. QED
  BY <1>2, <1>3, <1>4, <1>5, <1>6, <1>7 DEF Next

\* The registry of explanations keeps to its count and byte bounds, and its
\* byte count is that of its entries, for any sizes, lifetimes and bounds.
THEOREM RegistryAlwaysBounded == Spec => []RegistryBounded
<1>1. AgentInvariant /\ RegistryInvariant => RegistryBounded
  <2>1. SUFFICES ASSUME AgentInvariant, RegistryInvariant PROVE RegistryBounded
    OBVIOUS
  <2>2. explanations \subseteq Entry
    BY <2>1, Limits DEF RegistryInvariant, Stored, Entry
  <2>3. explanationBytes \in Nat
    BY <2>1, BytesCount DEF RegistryInvariant
  <2>4. QED
    BY <2>1, <2>2, <2>3 DEF RegistryBounded, RegistryInvariant, AgentInvariant,
       AgentTypes, TypeOK
<1>2. QED
  BY <1>1, RegistryBegins, RegistryStep, AgentBegins, AgentStep, PTL DEF Spec

-----------------------------------------------------------------------------
(* Models.                                                                 *)

LEMMA FiringsMonotone ==
    ASSUME NEW S, NEW T, S \subseteq T
    PROVE  Firings(S) \subseteq Firings(T)
  BY DEF Firings, Satisfies

LEMMA ConclusionsConcludable ==
    ASSUME NEW T, NEW firing \in Firings(T)
    PROVE  Conclusion(firing) \in Concludable
  BY DEF Firings, Concludable

LEMMA LeastWithin ==
    ASSUME NEW F
    PROVE  F \subseteq LeastModel(F) /\ LeastModel(F) \subseteq F \cup Concludable
  BY DEF LeastModel, IsModel

LEMMA LeastInModels ==
    ASSUME NEW F, NEW M, M \subseteq F \cup Concludable, IsModel(F, M)
    PROVE  LeastModel(F) \subseteq M
<1> DEFINE derived == M \cap Concludable
<1>1. derived \in SUBSET Concludable
  OBVIOUS
<1>2. F \cup derived = M
  BY DEF IsModel
<1>3. M \in {F \cup d : d \in SUBSET Concludable}
  BY <1>1, <1>2
<1>4. QED
  BY <1>3, Zenon DEF LeastModel

\* The least model is one.
LEMMA LeastIsModel ==
    ASSUME NEW F
    PROVE  IsModel(F, LeastModel(F))
<1> DEFINE Models == {M \in {F \cup d : d \in SUBSET Concludable} : IsModel(F, M)}
<1>1. F \subseteq LeastModel(F)
  BY LeastWithin
<1>2. ASSUME NEW firing \in Firings(LeastModel(F))
      PROVE  Conclusion(firing) \in LeastModel(F)
  <2>1. ASSUME NEW M \in Models PROVE Conclusion(firing) \in M
    <3>1. LeastModel(F) \subseteq M
      BY Zenon DEF LeastModel
    <3>2. firing \in Firings(M)
      BY <1>2, <3>1, FiringsMonotone
    <3>3. QED
      BY <3>2 DEF IsModel
  <2>2. Conclusion(firing) \in F \cup Concludable
    BY <1>2, ConclusionsConcludable
  <2>3. QED
    BY <2>1, <2>2, Zenon DEF LeastModel
<1>3. QED
  BY <1>1, <1>2, Zenon DEF IsModel

-----------------------------------------------------------------------------
(* Rounds.                                                                 *)

\* A witness is a rule applied to tuples that are known.
Witnessed(t, tuples, witness) ==
    \E rule \in program.rules, b \in Bindings :
        /\ Satisfies(tuples, rule.body, b)
        /\ Ground(rule.head, b) = t
        /\ witness = DerivedWitness(rule, Premises(rule.body, b))

\* Facts are known by their sources, all else by rules over what was known.
WitnessesReal ==
    /\ DOMAIN dataset \subseteq Tuples
    /\ \A t \in DOMAIN dataset : known[t] = FactWitness(dataset[t])
    /\ \A t \in Tuples \ DOMAIN dataset : Witnessed(t, Tuples, known[t])

RoundsInvariant ==
    /\ WitnessesReal
    /\ Tuples \subseteq LeastModel(DOMAIN dataset)
    /\ phase \in {"round", "result", "rows", "done", "failed"}
    /\ phase \in {"result", "rows", "done"} => Candidates = {}

LEMMA WitnessExists ==
    ASSUME NEW t \in Candidates
    PROVE  Witnessed(t, Tuples, WitnessOf(t))
<1> DEFINE firings == {firing \in Firings(Tuples) : Conclusion(firing) = t}
<1> DEFINE witnesses == {DerivedWitness(f[1], Premises(f[1].body, f[2])) : f \in firings}
<1>1. PICK g \in Firings(Tuples) : Conclusion(g) = t
  BY DEF Candidates, Conclusions
<1>2. witnesses # {}
  BY <1>1
<1>3. WitnessOf(t) \in witnesses
  BY <1>2, Zenon DEF WitnessOf
<1>4. PICK f \in firings : WitnessOf(t) = DerivedWitness(f[1], Premises(f[1].body, f[2]))
  BY <1>3
<1>5. f[1] \in program.rules /\ f[2] \in Bindings /\ Satisfies(Tuples, f[1].body, f[2])
  BY DEF Firings
<1>6. Ground(f[1].head, f[2]) = t
  BY DEF Conclusion
<1>7. QED
  BY <1>4, <1>5, <1>6, Zenon DEF Witnessed

LEMMA WitnessedLater ==
    ASSUME NEW S, NEW T, S \subseteq T, NEW t, NEW witness, Witnessed(t, S, witness)
    PROVE  Witnessed(t, T, witness)
<1>1. PICK rule \in program.rules, b \in Bindings :
          /\ Satisfies(S, rule.body, b)
          /\ Ground(rule.head, b) = t
          /\ witness = DerivedWitness(rule, Premises(rule.body, b))
  BY Zenon DEF Witnessed
<1>2. Satisfies(T, rule.body, b)
  BY <1>1 DEF Satisfies
<1>3. QED
  BY <1>1, <1>2, Zenon DEF Witnessed

\* What a round adds follows from what was known.
LEMMA CandidatesFollow ==
    ASSUME Tuples \subseteq LeastModel(DOMAIN dataset)
    PROVE  Candidates \subseteq LeastModel(DOMAIN dataset)
<1>1. Firings(Tuples) \subseteq Firings(LeastModel(DOMAIN dataset))
  BY FiringsMonotone
<1>2. IsModel(DOMAIN dataset, LeastModel(DOMAIN dataset))
  BY LeastIsModel
<1>3. QED
  BY <1>1, <1>2, Zenon DEF IsModel, Candidates, Conclusions

LEMMA ModelAtTheEnd ==
    ASSUME DOMAIN dataset \subseteq Tuples, Candidates = {},
           Tuples \subseteq LeastModel(DOMAIN dataset)
    PROVE  LeastModel(DOMAIN dataset) \subseteq Tuples
<1>1. Tuples \subseteq DOMAIN dataset \cup Concludable
  BY LeastWithin
<1>2. IsModel(DOMAIN dataset, Tuples)
  BY Zenon DEF IsModel, Candidates, Conclusions
<1>3. QED
  BY <1>1, <1>2, LeastInModels

LEMMA RoundTuples ==
    ASSUME Round
    PROVE  /\ Tuples' = Tuples \cup Candidates
           /\ \A t \in Tuples : known'[t] = known[t]
           /\ \A t \in Candidates : known'[t] = WitnessOf(t)
           /\ UNCHANGED <<dataset, program, phase>>
  BY DEF Round, Tuples, Candidates, input

LEMMA InitRounds == EvaluationInit => RoundsInvariant
<1> SUFFICES ASSUME EvaluationInit PROVE RoundsInvariant
  OBVIOUS
<1>1. Tuples = DOMAIN dataset
  BY DEF EvaluationInit, Tuples
<1>2. Tuples \subseteq LeastModel(DOMAIN dataset)
  BY <1>1, LeastWithin
<1>3. WitnessesReal
  BY <1>1 DEF EvaluationInit, WitnessesReal
<1>4. QED
  BY <1>2, <1>3 DEF EvaluationInit, RoundsInvariant

\* What leaves the tuples alone, and goes on only when the rounds are over.
LEMMA RoundsKept ==
    ASSUME RoundsInvariant, UNCHANGED <<dataset, program, known>>,
           \/ UNCHANGED phase
           \/ phase' = "failed"
           \/ phase' \in {"result", "rows", "done"} /\ Candidates = {}
    PROVE  RoundsInvariant'
<1>1. UNCHANGED <<Tuples, Candidates>> /\ LeastModel(DOMAIN dataset)' = LeastModel(DOMAIN dataset)
  BY DEF Tuples, Candidates, Conclusions, LeastModel, IsModel, Firings, Concludable
<1>2. WitnessesReal'
  BY <1>1 DEF RoundsInvariant, WitnessesReal, Witnessed
<1>3. QED
  BY <1>1, <1>2 DEF RoundsInvariant

LEMMA NextRounds == RoundsInvariant /\ [ResultNext]_resultVars => RoundsInvariant'
<1> SUFFICES ASSUME RoundsInvariant, [ResultNext]_resultVars PROVE RoundsInvariant'
  OBVIOUS
<1>1. ASSUME Round PROVE RoundsInvariant'
  <2>1. UNCHANGED <<dataset, program, phase>> /\ Tuples' = Tuples \cup Candidates
    BY <1>1, RoundTuples
  <2>2. LeastModel(DOMAIN dataset)' = LeastModel(DOMAIN dataset)
    BY <2>1 DEF LeastModel, IsModel, Firings, Concludable
  <2>3. Tuples' \subseteq LeastModel(DOMAIN dataset)'
    BY <2>1, <2>2, CandidatesFollow DEF RoundsInvariant
  <2>4. WitnessesReal'
    <3>1. (DOMAIN dataset)' \subseteq Tuples'
      BY <2>1 DEF RoundsInvariant, WitnessesReal
    <3>2. \A t \in (DOMAIN dataset)' : known'[t] = FactWitness(dataset'[t])
      BY <2>1, <1>1, RoundTuples DEF RoundsInvariant, WitnessesReal
    <3>3. ASSUME NEW t \in Tuples' \ (DOMAIN dataset)' PROVE Witnessed(t, Tuples, known[t])'
      <4>1. Witnessed(t, Tuples, known'[t])
        <5>1. CASE t \in Tuples
          BY <5>1, <2>1, <1>1, RoundTuples DEF RoundsInvariant, WitnessesReal
        <5>2. CASE t \in Candidates
          BY <5>2, <1>1, RoundTuples, WitnessExists
        <5>3. QED
          BY <5>1, <5>2, <2>1
      <4>2. Witnessed(t, Tuples \cup Candidates, known'[t])
        BY <4>1, WitnessedLater
      <4>3. QED
        BY <4>2, <2>1 DEF Witnessed
    <3>4. QED
      BY <3>1, <3>2, <3>3 DEF WitnessesReal
  <2>5. phase' = "round"
    BY <2>1, <1>1 DEF Round
  <2>6. QED
    BY <2>3, <2>4, <2>5 DEF RoundsInvariant
<1>2. ASSUME UNCHANGED <<dataset, program, known>>,
             \/ UNCHANGED phase
             \/ phase' = "failed"
             \/ phase' = "result" /\ Candidates = {}
             \/ phase = "result" /\ phase' = "rows"
             \/ phase = "rows" /\ phase' = "done"
      PROVE  RoundsInvariant'
  <2>1. phase' \in {"rows", "done"} /\ ~UNCHANGED phase => Candidates = {}
    BY <1>2 DEF RoundsInvariant
  <2>2. QED
    BY <1>2, <2>1, RoundsKept
<1>3. QED
  BY <1>1, <1>2 DEF ResultNext, Evaluate, EvaluationNext, LastRound, RoundFails, MatchQuery,
     QueryFails, StartRow, Prove, Cut, EndRow, Finish, FinishFails, RowsMade, OnlyBuilding,
     resultVars, evaluationVars, input

\* The inductive invariant of the rounds.
THEOREM RoundsHold == ResultSpec => []RoundsInvariant
  BY InitRounds, NextRounds, PTL DEF ResultSpec, ResultInit

\* materializeNaive computes the least model: nothing is known that does not
\* follow from the facts, and at the end nothing that follows is missing.
THEOREM RoundsReachLeastModel == ResultSpec => []LeastModelReached
<1>1. RoundsInvariant => LeastModelReached
  BY ModelAtTheEnd DEF RoundsInvariant, WitnessesReal, LeastModelReached
<1>2. QED
  BY <1>1, RoundsHold, PTL

-----------------------------------------------------------------------------
(* What rests on some facts alone.                                         *)

FactsAmong(S) == {t \in S : known[t].kind = "fact"}

\* With every derived tuple of S come the premises of its witness.
SelfContained(S) ==
    \A t \in S \ FactsAmong(S) :
        \A i \in DOMAIN known[t].premises : known[t].premises[i] \in S

LEMMA SufficesAsNamed ==
    WitnessesSuffice <=>
        \A S \in SUBSET Tuples : SelfContained(S) => S \subseteq LeastModel(FactsAmong(S))
  BY Zenon DEF WitnessesSuffice, SelfContained, FactsAmong

LEMMA WitnessFields ==
    ASSUME NEW t, NEW S, NEW witness, Witnessed(t, S, witness)
    PROVE  /\ witness.kind = "derived"
           /\ \A i \in DOMAIN witness.premises : witness.premises[i] \in S
  BY DEF Witnessed, DerivedWitness, Premises, Satisfies

LEMMA FactsAreDataset ==
    ASSUME WitnessesReal, NEW t \in Tuples
    PROVE  known[t].kind = "fact" <=> t \in DOMAIN dataset
<1>1. CASE t \in DOMAIN dataset
  <2>1. known[t] = FactWitness(dataset[t])
    BY <1>1, Zenon DEF WitnessesReal
  <2>2. QED
    BY <1>1, <2>1 DEF FactWitness
<1>2. CASE t \notin DOMAIN dataset
  BY <1>2, WitnessFields DEF WitnessesReal
<1>3. QED
  BY <1>1, <1>2

\* A tuple whose witness has its premises in a least model is in it.
LEMMA WitnessedInLeastModel ==
    ASSUME NEW t, NEW S, NEW witness, Witnessed(t, S, witness), NEW F,
           \A i \in DOMAIN witness.premises : witness.premises[i] \in LeastModel(F)
    PROVE  t \in LeastModel(F)
<1>1. PICK rule \in program.rules, b \in Bindings :
          /\ Ground(rule.head, b) = t
          /\ witness = DerivedWitness(rule, Premises(rule.body, b))
  BY Zenon DEF Witnessed
<1>2. Satisfies(LeastModel(F), rule.body, b)
  BY <1>1 DEF DerivedWitness, Premises, Satisfies
<1>3. <<rule, b>> \in Firings(LeastModel(F)) /\ Conclusion(<<rule, b>>) = t
  BY <1>1, <1>2 DEF Firings, Conclusion
<1>4. QED
  BY <1>3, LeastIsModel DEF IsModel

\* A round keeps the property: the premises of what it adds were known before.
LEMMA RoundSuffices ==
    ASSUME RoundsInvariant, WitnessesSuffice, Round
    PROVE  WitnessesSuffice'
<1>1. /\ Tuples' = Tuples \cup Candidates
      /\ \A t \in Tuples : known'[t] = known[t]
      /\ \A t \in Candidates : known'[t] = WitnessOf(t)
      /\ UNCHANGED program
  BY RoundTuples
<1>2. SUFFICES ASSUME NEW S \in SUBSET Tuples', SelfContained(S)'
               PROVE  S \subseteq LeastModel(FactsAmong(S))'
  BY Zenon DEF WitnessesSuffice, SelfContained, FactsAmong
<1> DEFINE before == S \cap Tuples
<1> DEFINE F == FactsAmong(before)
<1>3. ASSUME NEW t \in Candidates
      PROVE  Witnessed(t, Tuples, known'[t]) /\ known'[t].kind = "derived"
  BY <1>1, WitnessExists, WitnessFields
<1>4. FactsAmong(S)' = F
  BY <1>1, <1>3 DEF FactsAmong, Candidates
<1>5. LeastModel(FactsAmong(S))' = LeastModel(F)
  <2>1. Concludable' = Concludable /\ \A T : Firings(T)' = Firings(T)
    BY <1>1 DEF Concludable, Firings
  <2> HIDE DEF F
  <2>2. QED
    BY <1>4, <2>1 DEF LeastModel, IsModel
<1>6. SelfContained(before)
  <2>1. SUFFICES ASSUME NEW t \in before \ F, NEW i \in DOMAIN known[t].premises
                 PROVE  known[t].premises[i] \in before
    BY DEF SelfContained
  <2>2. known[t].premises[i] \in Tuples
    BY FactsAreDataset, WitnessFields DEF RoundsInvariant, WitnessesReal, FactsAmong
  <2>3. known'[t] = known[t] /\ t \in S \ FactsAmong(S)'
    BY <1>1, <1>4
  <2>4. known[t].premises[i] \in S
    BY <1>2, <2>3 DEF SelfContained
  <2>5. QED
    BY <2>2, <2>4
<1>7. before \subseteq LeastModel(F)
  BY <1>6, SufficesAsNamed
<1>8. ASSUME NEW t \in S, t \notin Tuples PROVE t \in LeastModel(F)
  <2>1. t \in Candidates /\ t \notin F
    BY <1>1, <1>8 DEF FactsAmong
  <2>2. ASSUME NEW i \in DOMAIN known'[t].premises
        PROVE  known'[t].premises[i] \in LeastModel(F)
    <3>1. known'[t].premises[i] \in Tuples
      BY <1>3, <2>1, WitnessFields
    <3>2. known'[t].premises[i] \in S
      BY <1>2, <1>4, <2>1 DEF SelfContained
    <3>3. QED
      BY <3>1, <3>2, <1>7
  <2>3. QED
    BY <1>3, <2>1, <2>2, WitnessedInLeastModel
<1>9. QED
  BY <1>5, <1>7, <1>8

LEMMA InitSuffices == EvaluationInit => WitnessesSuffice
<1> SUFFICES ASSUME EvaluationInit, NEW S \in SUBSET Tuples PROVE S \subseteq LeastModel(FactsAmong(S))
  BY SufficesAsNamed
<1>1. FactsAmong(S) = S
  BY InitRounds, FactsAreDataset DEF FactsAmong, RoundsInvariant, EvaluationInit, Tuples
<1>2. QED
  BY <1>1, LeastWithin

\* Only a round adds tuples.
LEMMA QuietSteps ==
    ASSUME [ResultNext]_resultVars, ~Round
    PROVE  UNCHANGED <<dataset, program, options, known>>
  BY DEF ResultNext, Evaluate, EvaluationNext, LastRound, RoundFails, MatchQuery, QueryFails,
     StartRow, Prove, Cut, EndRow, Finish, FinishFails, RowsMade, OnlyBuilding, resultVars,
     evaluationVars, input

LEMMA NextSuffices ==
    RoundsInvariant /\ WitnessesSuffice /\ [ResultNext]_resultVars => WitnessesSuffice'
<1> SUFFICES ASSUME RoundsInvariant, WitnessesSuffice, [ResultNext]_resultVars PROVE WitnessesSuffice'
  OBVIOUS
<1>1. CASE Round
  BY <1>1, RoundSuffices
<1>2. ASSUME UNCHANGED <<program, known>> PROVE WitnessesSuffice'
  <2>1. SUFFICES ASSUME NEW S \in SUBSET Tuples, SelfContained(S)
                 PROVE  S \subseteq LeastModel(FactsAmong(S))'
    BY <1>2 DEF WitnessesSuffice, SelfContained, FactsAmong, Tuples
  <2>2. S \subseteq LeastModel(FactsAmong(S))
    BY <2>1, SufficesAsNamed
  <2>3. FactsAmong(S)' = FactsAmong(S)
    BY <1>2 DEF FactsAmong
  <2>4. Concludable' = Concludable /\ \A T : Firings(T)' = Firings(T)
    BY <1>2 DEF Concludable, Firings
  <2>5. QED
    BY <2>2, <2>3, <2>4 DEF LeastModel, IsModel
<1>3. QED
  BY <1>1, <1>2, QuietSteps

\* Whatever a proof shows to rest on some facts follows from those facts: what
\* the agent finds no working record under needs none.
THEOREM WitnessesAreEnough == ResultSpec => []WitnessesSuffice
  BY InitSuffices, NextSuffices, RoundsHold, PTL DEF ResultSpec, ResultInit

-----------------------------------------------------------------------------
(* No derivation in a circle.                                              *)

\* Among any tuples there is one whose witness needs none of them.
NoCircularSupport ==
    \A S \in SUBSET Tuples : S # {} =>
        \E t \in S : \/ known[t].kind = "fact"
                    \/ \A i \in DOMAIN known[t].premises : known[t].premises[i] \notin S

LEMMA RoundNotCircular ==
    ASSUME RoundsInvariant, NoCircularSupport, Round
    PROVE  NoCircularSupport'
<1>1. /\ Tuples' = Tuples \cup Candidates
      /\ \A t \in Tuples : known'[t] = known[t]
      /\ \A t \in Candidates : known'[t] = WitnessOf(t)
  BY RoundTuples
<1>2. SUFFICES ASSUME NEW S \in SUBSET Tuples', S # {}
               PROVE  \E t \in S : \/ known'[t].kind = "fact"
                                 \/ \A i \in DOMAIN known'[t].premises :
                                       known'[t].premises[i] \notin S
  BY Zenon DEF NoCircularSupport
<1>3. CASE S \cap Tuples # {}
  <2>1. PICK t \in S \cap Tuples :
            \/ known[t].kind = "fact"
            \/ \A i \in DOMAIN known[t].premises : known[t].premises[i] \notin S \cap Tuples
    BY <1>3 DEF NoCircularSupport
  <2>2. known'[t] = known[t]
    BY <1>1
  <2>3. CASE known[t].kind = "fact"
    BY <2>2, <2>3
  <2>4. CASE known[t].kind # "fact"
    <3>1. \A i \in DOMAIN known[t].premises : known[t].premises[i] \in Tuples
      BY <2>4, FactsAreDataset, WitnessFields DEF RoundsInvariant, WitnessesReal
    <3>2. QED
      BY <2>1, <2>2, <2>4, <3>1
  <2>5. QED
    BY <2>3, <2>4
<1>4. CASE S \cap Tuples = {}
  <2>1. PICK t \in S : t \in Candidates
    BY <1>1, <1>2, <1>4
  <2>2. Witnessed(t, Tuples, known'[t])
    BY <1>1, <2>1, WitnessExists
  <2>3. \A i \in DOMAIN known'[t].premises : known'[t].premises[i] \in Tuples
    BY <2>2, WitnessFields
  <2>4. QED
    BY <1>4, <2>3
<1>5. QED
  BY <1>3, <1>4

\* No tuple supports itself, directly or through others: the cycle that
\* proofForReference guards against is one no evaluation builds.
THEOREM ProofsEndInFacts == ResultSpec => []NoCircularSupport
<1>1. EvaluationInit => NoCircularSupport
  BY DEF EvaluationInit, NoCircularSupport, Tuples, FactWitness
<1>2. RoundsInvariant /\ NoCircularSupport /\ [ResultNext]_resultVars => NoCircularSupport'
  <2>1. ASSUME UNCHANGED known, NoCircularSupport PROVE NoCircularSupport'
    BY <2>1 DEF NoCircularSupport, Tuples
  <2>2. QED
    BY <2>1, RoundNotCircular, QuietSteps
<1>3. QED
  BY <1>1, <1>2, RoundsHold, PTL DEF ResultSpec, ResultInit

-----------------------------------------------------------------------------
(* Finite sets.                                                            *)

\* There are finitely many functions between finite sets.
LEMMA FiniteFunctions ==
    ASSUME NEW S, IsFiniteSet(S), NEW T, IsFiniteSet(T)
    PROVE  IsFiniteSet([S -> T])
<1> DEFINE Graph(f) == {p \in S \X T : p[2] = f[p[1]]}
<1> DEFINE G == [f \in [S -> T] |-> Graph(f)]
<1>1. IsFiniteSet(S \X T)
  BY FS_Product
<1>2. IsFiniteSet(SUBSET (S \X T))
  BY <1>1, FS_SUBSET
<1>3. G \in Injection([S -> T], SUBSET (S \X T))
  <2>1. G \in [[S -> T] -> SUBSET (S \X T)]
    OBVIOUS
  <2>2. ASSUME NEW f \in [S -> T], NEW g \in [S -> T], G[f] = G[g] PROVE f = g
    <3>1. ASSUME NEW s \in S PROVE f[s] = g[s]
      <4>1. <<s, f[s]>> \in Graph(f)
        OBVIOUS
      <4>2. <<s, f[s]>> \in Graph(g)
        BY <2>2, <4>1
      <4>3. QED
        BY <4>2
    <3>2. QED
      BY <3>1
  <2>3. QED
    BY <2>1, <2>2 DEF Injection, IsInjective
<1>4. QED
  BY <1>2, <1>3, FS_Injection

LEMMA FiniteImage ==
    ASSUME NEW S, IsFiniteSet(S), NEW f
    PROVE  IsFiniteSet({f[x] : x \in S}) /\ Cardinality({f[x] : x \in S}) <= Cardinality(S)
<1> DEFINE T == {f[x] : x \in S}
<1> DEFINE g == [x \in S |-> f[x]]
<1>1. g \in Surjection(S, T)
  BY DEF Surjection
<1>2. QED
  BY <1>1, FS_Surjection

\* What an evaluation is given.
InputHeld ==
    \E i \in Inputs : dataset = i.dataset /\ program = i.program /\ options = i.options

LEMMA InputKept ==
    /\ EvaluationInit => InputHeld
    /\ InputHeld /\ [ResultNext]_resultVars => InputHeld'
<1>1. EvaluationInit => InputHeld
  BY DEF EvaluationInit, InputHeld
<1>2. ASSUME InputHeld, [ResultNext]_resultVars PROVE UNCHANGED <<dataset, program, options>>
  BY <1>2, QuietSteps DEF Round, input
<1>3. QED
  BY <1>1, <1>2 DEF InputHeld

LEMMA InputFacts ==
    ASSUME InputHeld
    PROVE  /\ IsFiniteSet(DOMAIN dataset) /\ DOMAIN dataset \subseteq Reference
           /\ dataset \in [DOMAIN dataset -> (SUBSET Lanes) \ {{}}]
           /\ IsFiniteSet(program.rules) /\ program.rules \subseteq Rule
           /\ program.where \in Seq(Literal) /\ program.find \in Seq(Variables)
           /\ Len(program.where) \in 1..QueryLiterals
           /\ program.limit \in Nat /\ program.limit <= QueryResults
           /\ \A rule \in program.rules :
                 rule.body \in Seq(Literal) /\ Len(rule.body) \in 1..LiteralsPerRule
           /\ options \in Option /\ Slack <= options.resultBytes
           /\ Cardinality(DOMAIN dataset) <= FactLimit
<1>1. PICK i \in Inputs : dataset = i.dataset /\ program = i.program /\ options = i.options
  BY DEF InputHeld
<1>2. /\ IsFiniteSet(DOMAIN i.dataset) /\ IsFiniteSet(i.program.rules)
      /\ DOMAIN i.dataset \subseteq Reference
      /\ i.dataset \in [DOMAIN i.dataset -> (SUBSET Lanes) \ {{}}]
      /\ i.program \in Program /\ i.options \in Option
      /\ i.program.where # <<>>
      /\ \A rule \in i.program.rules : rule.body # <<>>
      /\ Cardinality(DOMAIN i.dataset) <= FactLimit
  BY ProjectionAssumption
<1>3. /\ LiteralsPerRule \in Nat /\ QueryLiterals \in Nat /\ QueryResults \in Nat
      /\ Slack \in Nat /\ i.options.resultBytes >= Slack
      /\ i.program.limit <= QueryResults
      /\ Len(i.program.where) <= QueryLiterals
      /\ \A rule \in i.program.rules : Len(rule.body) <= LiteralsPerRule
  BY ResultAssumption
<1>4. /\ i.program.rules \subseteq Rule
      /\ i.program.where \in Seq(Literal) /\ i.program.find \in Seq(Variables)
      /\ i.program.limit \in Nat
  BY <1>2 DEF Program
<1>5. \A rule \in i.program.rules : rule.body \in Seq(Literal)
  BY <1>4 DEF Rule
<1>6. Len(i.program.where) \in 1..QueryLiterals
  BY <1>2, <1>3, <1>4, EmptySeq, LenProperties
<1>7. \A rule \in i.program.rules : Len(rule.body) \in 1..LiteralsPerRule
  BY <1>2, <1>3, <1>5, EmptySeq, LenProperties
<1>8. i.options.resultBytes \in Nat /\ Slack <= i.options.resultBytes
  BY <1>2, <1>3 DEF Option
<1>9. QED
  BY <1>1, <1>2, <1>3, <1>4, <1>5, <1>6, <1>7, <1>8

LEMMA FiniteBindings == IsFiniteSet(Bindings)
  BY ProjectionAssumption, FiniteFunctions DEF Bindings

LEMMA FiniteMatches ==
    ASSUME NEW tuples, NEW body
    PROVE  IsFiniteSet(Matches(tuples, body))
<1> DEFINE chosen == {b \in Bindings : Satisfies(tuples, body, b)}
<1> DEFINE f == [b \in chosen |-> Premises(body, b)]
<1>1. IsFiniteSet(chosen)
  BY FiniteBindings, FS_Subset
<1>2. IsFiniteSet({f[b] : b \in chosen})
  BY <1>1, FiniteImage
<1>3. {f[b] : b \in chosen} = Matches(tuples, body)
  BY DEF Matches
<1>4. QED
  BY <1>2, <1>3

LEMMA FiniteCandidates ==
    ASSUME InputHeld
    PROVE  IsFiniteSet(Candidates)
<1> DEFINE f == [firing \in Firings(Tuples) |-> Conclusion(firing)]
<1>1. IsFiniteSet(program.rules \X Bindings)
  BY InputFacts, FiniteBindings, FS_Product
<1>2. IsFiniteSet(Firings(Tuples))
  BY <1>1, FS_Subset DEF Firings
<1>3. IsFiniteSet({f[firing] : firing \in Firings(Tuples)})
  BY <1>2, FiniteImage
<1>4. {f[firing] : firing \in Firings(Tuples)} = Conclusions
  BY DEF Conclusions
<1>5. QED
  BY <1>3, <1>4, FS_Subset DEF Candidates

-----------------------------------------------------------------------------
(* What the statistics of a result count.                                  *)

\* A round adds a tuple at least, and rounds, tuples and work are bounded.
StatsInvariant ==
    /\ IsFiniteSet(Tuples)
    /\ rounds \in Nat /\ work \in Nat
    /\ rounds <= options.rounds /\ rounds <= Derived /\ Derived <= options.derived
    /\ rounds = 0 => Derived = 0
    /\ work <= options.work
    /\ phase \in {"rows", "done"} =>
          JoinsWithin(Tuples, program.where) /\ QueryWork <= work
    /\ phase # "failed" => Cardinality(Uses) <= RelationLimit

LEMMA FiniteAttempts ==
    ASSUME NEW tuples, IsFiniteSet(tuples), NEW body, body \in Seq(Literal)
    PROVE  IsFiniteSet(Attempts(tuples, body))
<1> DEFINE n == Len(body)
<1> DEFINE matches == UNION {Matches(tuples, Start(body, i - 1)) : i \in 1..n}
<1>1. n \in Nat /\ DOMAIN body = 1..n
  BY LenProperties
<1>2. IsFiniteSet(1..n)
  BY <1>1, FS_Interval
<1> DEFINE f == [i \in 1..n |-> Matches(tuples, Start(body, i - 1))]
<1>3. IsFiniteSet({f[i] : i \in 1..n})
  BY <1>2, FiniteImage
<1>4. {f[i] : i \in 1..n} = {Matches(tuples, Start(body, i - 1)) : i \in 1..n}
  OBVIOUS
<1>5. IsFiniteSet(matches)
  <2> DEFINE M == {Matches(tuples, Start(body, i - 1)) : i \in 1..n}
  <2>1. IsFiniteSet(M)
    BY <1>3, <1>4
  <2>2. \A T \in M : IsFiniteSet(T)
    BY FiniteMatches
  <2> HIDE DEF M
  <2>3. IsFiniteSet(UNION M)
    BY <2>1, <2>2, FS_UNION
  <2>4. QED
    BY <2>3 DEF M
<1> HIDE DEF matches, f
<1>6. IsFiniteSet((1..n) \X matches) /\ IsFiniteSet(((1..n) \X matches) \X tuples)
  BY <1>2, <1>5, FS_Product
<1> DEFINE g == [a \in Attempts(tuples, body) |-> <<<<a[1], a[2]>>, a[3]>>]
<1>7. g \in Injection(Attempts(tuples, body), ((1..n) \X matches) \X tuples)
  <2>1. ASSUME NEW a \in Attempts(tuples, body)
        PROVE  a = <<a[1], a[2], a[3]>> /\ a[1] \in 1..n /\ a[2] \in matches /\ a[3] \in tuples
    <3>1. PICK i \in 1..n :
              a \in {i} \X Matches(tuples, Start(body, i - 1))
                       \X {t \in tuples : t.relation = body[i].relation}
      BY <1>1 DEF Attempts
    <3>2. a = <<a[1], a[2], a[3]>> /\ a[1] = i /\ a[3] \in tuples
          /\ a[2] \in Matches(tuples, Start(body, i - 1))
      BY <3>1
    <3>3. a[2] \in matches
      BY <3>2 DEF matches
    <3>4. QED
      BY <3>2, <3>3
  <2>2. g \in [Attempts(tuples, body) -> ((1..n) \X matches) \X tuples]
    BY <2>1
  <2>3. ASSUME NEW a \in Attempts(tuples, body), NEW c \in Attempts(tuples, body), g[a] = g[c]
        PROVE  a = c
    BY <2>1, <2>3
  <2>4. QED
    BY <2>2, <2>3 DEF Injection, IsInjective
<1>8. QED
  BY <1>6, <1>7, FS_Injection

LEMMA WorkCounts ==
    ASSUME InputHeld, IsFiniteSet(Tuples)
    PROVE  RoundWork \in Nat /\ QueryWork \in Nat
<1>1. ASSUME NEW rule \in program.rules PROVE IsFiniteSet({rule} \X Attempts(Tuples, rule.body))
  BY InputFacts, FiniteAttempts, FS_Product, FS_Singleton
<1> DEFINE f == [rule \in program.rules |-> {rule} \X Attempts(Tuples, rule.body)]
<1> DEFINE M == {{rule} \X Attempts(Tuples, rule.body) : rule \in program.rules}
<1>2. IsFiniteSet({f[rule] : rule \in program.rules})
  <2>1. IsFiniteSet(program.rules)
    BY InputFacts
  <2> HIDE DEF f
  <2>2. QED
    BY <2>1, FiniteImage
<1>3. {f[rule] : rule \in program.rules} = M
  OBVIOUS
<1>4. IsFiniteSet(M)
  BY <1>2, <1>3
<1>5. \A T \in M : IsFiniteSet(T)
  BY <1>1, Zenon
<1> HIDE DEF M
<1>6. IsFiniteSet(UNION M)
  BY <1>4, <1>5, FS_UNION
<1>7. RoundWork \in Nat
  BY <1>6, FS_CardinalityType DEF RoundWork, M
<1>8. QED
  BY <1>7, InputFacts, FiniteAttempts, FS_CardinalityType DEF QueryWork, Work

LEMMA InitStats == EvaluationInit => StatsInvariant
<1> SUFFICES ASSUME EvaluationInit PROVE StatsInvariant
  OBVIOUS
<1>1. InputHeld
  BY InputKept
<1>2. Tuples = DOMAIN dataset /\ IsFiniteSet(Tuples) /\ options \in Option
  BY <1>1, InputFacts DEF EvaluationInit, Tuples
<1>3. Derived = 0
  BY <1>2, FS_CardinalityType DEF Derived
<1>4. phase \notin {"rows", "done"} /\ rounds = 0 /\ work = 0
  BY DEF EvaluationInit
<1>5. phase # "failed" => Cardinality(Uses) <= RelationLimit
  BY DEF EvaluationInit, ArityConsistent
<1>6. QED
  BY <1>2, <1>3, <1>4, <1>5 DEF StatsInvariant, Option

LEMMA NextStats ==
    InputHeld /\ StatsInvariant /\ [ResultNext]_resultVars => StatsInvariant'
<1> SUFFICES ASSUME InputHeld, StatsInvariant, [ResultNext]_resultVars PROVE StatsInvariant'
  OBVIOUS
<1>1. /\ Derived \in Int /\ RoundWork \in Nat /\ QueryWork \in Nat
      /\ options.rounds \in Nat /\ options.derived \in Nat /\ options.work \in Nat
  BY InputFacts, WorkCounts, FS_CardinalityType DEF StatsInvariant, Derived, Option
<1>2. CASE Round
  <2>1. /\ Tuples' = Tuples \cup Candidates /\ Candidates # {} /\ IsFiniteSet(Candidates)
        /\ Tuples \cap Candidates = {}
        /\ UNCHANGED <<dataset, program, options, phase>> /\ phase = "round"
        /\ rounds' = rounds + 1 /\ work' = work + RoundWork
        /\ rounds < options.rounds /\ work + RoundWork <= options.work
        /\ Derived + Cardinality(Candidates) <= options.derived
    BY <1>2, RoundTuples, FiniteCandidates DEF Round, RoundWithin, input, Candidates
  <2>2. /\ IsFiniteSet(Tuples')
        /\ Cardinality(Tuples') = Cardinality(Tuples) + Cardinality(Candidates)
    <3>1. IsFiniteSet(Tuples)
      BY DEF StatsInvariant
    <3>2. Cardinality(Tuples \cap Candidates) = 0
      BY <2>1, FS_EmptySet
    <3>3. Cardinality(Tuples) \in Nat /\ Cardinality(Candidates) \in Nat
      BY <2>1, <3>1, FS_CardinalityType
    <3>4. IsFiniteSet(Candidates)
      BY <2>1
    <3>5. /\ IsFiniteSet(Tuples \cup Candidates)
          /\ Cardinality(Tuples \cup Candidates)
                = Cardinality(Tuples) + Cardinality(Candidates) - Cardinality(Tuples \cap Candidates)
      BY <3>1, <3>4, FS_Union
    <3>6. QED
      BY <2>1, <3>2, <3>3, <3>5
  <2>3. Cardinality(Candidates) \in Nat /\ Cardinality(Candidates) # 0
    BY <2>1, FS_CardinalityType, FS_EmptySet
  <2>4. Derived' = Derived + Cardinality(Candidates)
    <3>1. Cardinality(Tuples) \in Nat /\ Cardinality(DOMAIN dataset) \in Nat
      BY InputFacts, FS_CardinalityType DEF StatsInvariant
    <3>2. (DOMAIN dataset)' = DOMAIN dataset
      BY <2>1
    <3>3. QED
      BY <2>2, <2>3, <3>1, <3>2 DEF Derived
  <2>5. Uses' = Uses
    BY <2>1 DEF Uses
  <2>6. QED
    BY <1>1, <2>1, <2>2, <2>3, <2>4, <2>5 DEF StatsInvariant
<1>3. ASSUME UNCHANGED <<dataset, program, options, known, rounds>>,
             \/ UNCHANGED <<work, phase>>
             \/ phase' = "failed" /\ UNCHANGED work
             \/ /\ phase = "round" /\ phase' = "result"
                /\ work' = work + RoundWork /\ work' <= options.work
             \/ /\ phase = "result" /\ phase' = "rows"
                /\ work' = work + QueryWork /\ work' <= options.work
                /\ JoinsWithin(Tuples, program.where)
             \/ phase = "rows" /\ phase' = "done" /\ UNCHANGED work
      PROVE  StatsInvariant'
  <2>1. UNCHANGED <<Tuples, Derived, QueryWork, JoinsWithin(Tuples, program.where)>>
    BY <1>3 DEF Tuples, Derived, QueryWork, Work, Attempts, JoinsWithin, Matches, Satisfies
  <2>2. Uses' = Uses
    BY <1>3 DEF Uses
  <2>3. QED
    BY <1>1, <1>3, <2>1, <2>2 DEF StatsInvariant
<1>4. QED
  BY <1>2, <1>3 DEF ResultNext, Evaluate, EvaluationNext, LastRound, RoundFails, RoundWithin,
     MatchQuery, QueryWithin, QueryFails, StartRow, Prove, Cut, EndRow, Finish, FinishFails,
     RowsMade, OnlyBuilding, resultVars, evaluationVars, input

-----------------------------------------------------------------------------
(* Positions.                                                              *)

Position == Seq(Nat \ {0})

LEMMA UpTo ==
    ASSUME NEW p \in Position, NEW n \in 0..Len(p)
    PROVE  /\ SubSeq(p, 1, n) \in Position
           /\ Len(SubSeq(p, 1, n)) = n
           /\ \A i \in 1..n : SubSeq(p, 1, n)[i] = p[i]
           /\ \A m \in 0..n : SubSeq(SubSeq(p, 1, n), 1, m) = SubSeq(p, 1, m)
  BY PrefixOfSeq, PrefixTwice DEF Position, Prefix

LEMMA AllOf ==
    ASSUME NEW p \in Position
    PROVE  /\ Len(p) \in Nat /\ \A i \in 1..Len(p) : p[i] \in Nat \ {0}
           /\ SubSeq(p, 1, Len(p)) = p
  BY LenProperties, ElementOfSeq, PrefixAll DEF Position, Prefix

LEMMA SamePosition ==
    ASSUME NEW p \in Position, NEW q \in Position, Len(p) = Len(q),
           \A i \in 1..Len(p) : p[i] = q[i]
    PROVE  p = q
  BY SeqEqual DEF Position

LEMMA Extend ==
    ASSUME NEW p \in Position, NEW n \in Nat \ {0}
    PROVE  LET q == Append(p, n)
           IN  /\ q \in Position /\ Len(q) = Len(p) + 1
               /\ q[Len(q)] = n /\ \A i \in 1..Len(p) : q[i] = p[i]
               /\ Front(q) = p /\ Last(q) = n
               /\ \A i \in 0..Len(p) : SubSeq(q, 1, i) = SubSeq(p, 1, i)
<1> DEFINE q == Append(p, n)
<1>1. Len(p) \in Nat
  BY AllOf
<1>2. /\ q \in Position /\ Len(q) = Len(p) + 1
      /\ q[Len(q)] = n /\ \A i \in 1..Len(p) : q[i] = p[i]
  BY <1>1, AppendProperties DEF Position
<1> HIDE DEF q
<1>3. ASSUME NEW i \in 0..Len(p) PROVE SubSeq(q, 1, i) = SubSeq(p, 1, i)
  <2>1. i \in 0..Len(q)
    BY <1>1, <1>2
  <2>2. /\ SubSeq(q, 1, i) \in Position /\ Len(SubSeq(q, 1, i)) = i
        /\ \A j \in 1..i : SubSeq(q, 1, i)[j] = q[j]
    BY <1>2, <2>1, UpTo
  <2>3. /\ SubSeq(p, 1, i) \in Position /\ Len(SubSeq(p, 1, i)) = i
        /\ \A j \in 1..i : SubSeq(p, 1, i)[j] = p[j]
    BY UpTo
  <2>4. QED
    BY <1>1, <1>2, <2>2, <2>3, SamePosition
<1>4. Front(q) = p
  <2>1. Len(p) \in 0..Len(p) /\ Len(q) - 1 = Len(p)
    BY <1>1, <1>2
  <2>2. SubSeq(q, 1, Len(p)) = p
    BY <1>3, <2>1, AllOf
  <2>3. QED
    BY <2>1, <2>2 DEF Front
<1>5. QED
  BY <1>2, <1>3, <1>4 DEF q, Last

LEMMA Parent ==
    ASSUME NEW p \in Position, Len(p) >= 1
    PROVE  /\ Front(p) \in Position /\ Len(Front(p)) = Len(p) - 1
           /\ Last(p) = p[Len(p)] /\ Last(p) \in Nat \ {0}
           /\ \A i \in 1 .. Len(p) - 1 : Front(p)[i] = p[i]
           /\ \A i \in 0 .. Len(p) - 1 : SubSeq(Front(p), 1, i) = SubSeq(p, 1, i)
           /\ p = Append(Front(p), Last(p))
<1>1. Len(p) \in Nat /\ Len(p) - 1 \in 0..Len(p) /\ Len(p) \in 1..Len(p)
  BY AllOf
<1>2. /\ Front(p) \in Position /\ Len(Front(p)) = Len(p) - 1
      /\ \A i \in 1 .. Len(p) - 1 : Front(p)[i] = p[i]
      /\ \A i \in 0 .. Len(p) - 1 : SubSeq(Front(p), 1, i) = SubSeq(p, 1, i)
  BY <1>1, UpTo DEF Front
<1>3. Last(p) = p[Len(p)] /\ Last(p) \in Nat \ {0}
  BY <1>1, AllOf DEF Last
<1> DEFINE q == Append(Front(p), Last(p))
<1>4. /\ q \in Position /\ Len(q) = Len(p) /\ q[Len(p)] = p[Len(p)]
      /\ \A i \in 1 .. Len(p) - 1 : q[i] = p[i]
  BY <1>1, <1>2, <1>3, Extend
<1> HIDE DEF q
<1>5. \A i \in 1..Len(p) : q[i] = p[i]
  BY <1>1, <1>4
<1>6. q = p
  BY <1>4, <1>5, SamePosition
<1>7. QED
  BY <1>2, <1>3, <1>6 DEF q

\* Below a position are the last numbers of its children.
LEMMA Children ==
    ASSUME NEW tree, DOMAIN tree \subseteq Position \ {<<>>}, NEW q \in Position, NEW n
    PROVE  n \in Below(tree, q) <=> n \in Nat \ {0} /\ Append(q, n) \in DOMAIN tree
<1>1. ASSUME n \in Below(tree, q) PROVE n \in Nat \ {0} /\ Append(q, n) \in DOMAIN tree
  <2>1. PICK p \in DOMAIN tree : Front(p) = q /\ Last(p) = n
    BY <1>1 DEF Below
  <2>2. p \in Position /\ Len(p) \in Nat /\ Len(p) # 0
    BY AllOf, EmptySeq DEF Position
  <2>3. p = Append(Front(p), Last(p)) /\ Last(p) \in Nat \ {0}
    BY <2>2, Parent
  <2>4. QED
    BY <2>1, <2>3
<1>2. ASSUME n \in Nat \ {0}, Append(q, n) \in DOMAIN tree PROVE n \in Below(tree, q)
  BY <1>2, Extend DEF Below
<1>3. QED
  BY <1>1, <1>2

-----------------------------------------------------------------------------
(* Matches and answers.                                                    *)

LEMMA ListOf ==
    ASSUME NEW S, NEW n \in Nat, NEW f \in [1..n -> S]
    PROVE  f \in Seq(S) /\ Len(f) = n
<1>1. f \in Seq(S)
  BY SeqDef
<1>2. Len(f) \in Nat /\ DOMAIN f = 1..Len(f)
  BY <1>1, LenProperties
<1>3. QED
  BY <1>1, <1>2

\* Premises are one for each literal.
LEMMA PremisesListed ==
    ASSUME NEW tuples, NEW body \in Seq(Literal), NEW b, Satisfies(tuples, body, b)
    PROVE  /\ Premises(body, b) \in Seq(tuples)
           /\ Len(Premises(body, b)) = Len(body)
           /\ \A n \in 1..Len(body) : Premises(body, b)[n] = Ground(body[n], b)
<1>1. Len(body) \in Nat /\ DOMAIN body = 1..Len(body)
  BY LenProperties
<1>2. Premises(body, b) \in [1..Len(body) -> tuples]
  BY <1>1 DEF Premises, Satisfies
<1>3. QED
  BY <1>1, <1>2, ListOf DEF Premises

LEMMA MatchListed ==
    ASSUME NEW tuples, NEW body \in Seq(Literal), NEW match \in Matches(tuples, body)
    PROVE  match \in Seq(tuples) /\ Len(match) = Len(body)
<1>1. PICK b \in Bindings : match = Premises(body, b) /\ Satisfies(tuples, body, b)
  BY Zenon DEF Matches
<1>2. QED
  BY <1>1, PremisesListed

\* The answers are those over what is known, each once, with its support.
AnswersListed ==
    /\ answers \in Seq([values: AnswersOf(Tuples), supportCount: Nat, match: QueryMatchesOf(Tuples)])
    /\ \A i \in 1..Len(answers) :
          /\ answers[i].supportCount = Cardinality(SupportOf(Tuples, answers[i].values))
          /\ answers[i].match \in SupportOf(Tuples, answers[i].values)
    /\ \A i, j \in 1..Len(answers) : answers[i].values = answers[j].values => i = j
    /\ \A values \in AnswersOf(Tuples) : \E i \in 1..Len(answers) : answers[i].values = values

LEMMA FiniteAnswers ==
    /\ IsFiniteSet(QueryMatchesOf(Tuples))
    /\ IsFiniteSet(AnswersOf(Tuples))
    /\ \A values : IsFiniteSet(SupportOf(Tuples, values))
<1> DEFINE f == [match \in QueryMatchesOf(Tuples) |-> ValuesOf(match)]
<1>1. IsFiniteSet(QueryMatchesOf(Tuples))
  BY FiniteMatches DEF QueryMatchesOf
<1>2. IsFiniteSet({f[match] : match \in QueryMatchesOf(Tuples)})
  BY <1>1, FiniteImage
<1>3. {f[match] : match \in QueryMatchesOf(Tuples)} = AnswersOf(Tuples)
  BY DEF AnswersOf
<1>4. ASSUME NEW values PROVE IsFiniteSet(SupportOf(Tuples, values))
  BY <1>1, FS_Subset DEF SupportOf
<1>5. QED
  BY <1>1, <1>2, <1>3, <1>4

\* A finite set has the sequence SetToSeq chooses, with every element once.
LEMMA SequenceOfSet ==
    ASSUME NEW S, IsFiniteSet(S)
    PROVE  /\ Cardinality(S) \in Nat
           /\ SetToSeq(S) \in Bijection(1..Cardinality(S), S)
<1>1. Cardinality(S) \in Nat /\ IsFiniteSet(1..Cardinality(S))
      /\ Cardinality(1..Cardinality(S)) = Cardinality(S)
  BY FS_CardinalityType, FS_Interval
<1>2. PICK g : g \in Bijection(1..Cardinality(S), S)
  BY FS_CardinalityType DEF ExistsBijection
<1>3. g \in [1..Cardinality(S) -> S] /\ IsInjective(g)
  BY <1>2 DEF Bijection, Injection
<1>4. SetToSeq(S) \in [1..Cardinality(S) -> S] /\ IsInjective(SetToSeq(S))
  BY <1>3, Zenon DEF SetToSeq
<1>5. SetToSeq(S) \in Injection(1..Cardinality(S), S)
  BY <1>4 DEF Injection
<1>6. SetToSeq(S) \in Surjection(1..Cardinality(S), S)
  BY <1>1, <1>5, FS_Injection
<1>7. QED
  BY <1>1, <1>5, <1>6 DEF Bijection

LEMMA AnswersOrdered ==
    ASSUME answers = Ordered
    PROVE  AnswersListed
<1> DEFINE values == SetToSeq(AnswersOf(Tuples))
<1> DEFINE n == Cardinality(AnswersOf(Tuples))
<1>1. n \in Nat /\ values \in Bijection(1..n, AnswersOf(Tuples))
  BY FiniteAnswers, SequenceOfSet
<1>2. /\ values \in [1..n -> AnswersOf(Tuples)]
      /\ \A i, j \in 1..n : values[i] = values[j] => i = j
      /\ \A v \in AnswersOf(Tuples) : \E i \in 1..n : values[i] = v
  BY <1>1 DEF Bijection, Injection, Surjection, IsInjective
<1>3. answers = [i \in 1..n |->
          [values |-> values[i], supportCount |-> Cardinality(SupportOf(Tuples, values[i])),
           match |-> CHOOSE match \in SupportOf(Tuples, values[i]) : TRUE]]
  BY <1>2, Zenon DEF Ordered
<1> HIDE DEF values, n
<1>4. ASSUME NEW i \in 1..n
      PROVE  /\ answers[i] \in [values: AnswersOf(Tuples), supportCount: Nat,
                                match: QueryMatchesOf(Tuples)]
             /\ answers[i].values = values[i]
             /\ answers[i].supportCount = Cardinality(SupportOf(Tuples, answers[i].values))
             /\ answers[i].match \in SupportOf(Tuples, answers[i].values)
  <2>1. PICK match \in QueryMatchesOf(Tuples) : ValuesOf(match) = values[i]
    BY <1>2 DEF AnswersOf
  <2>2. match \in SupportOf(Tuples, values[i])
    BY <2>1 DEF SupportOf
  <2>3. (CHOOSE m \in SupportOf(Tuples, values[i]) : TRUE) \in SupportOf(Tuples, values[i])
    BY <2>2, Zenon
  <2>4. Cardinality(SupportOf(Tuples, values[i])) \in Nat
    BY FiniteAnswers, FS_CardinalityType
  <2>5. answers[i] =
          [values |-> values[i], supportCount |-> Cardinality(SupportOf(Tuples, values[i])),
           match |-> CHOOSE m \in SupportOf(Tuples, values[i]) : TRUE]
    BY <1>3, Zenon
  <2>6. (CHOOSE m \in SupportOf(Tuples, values[i]) : TRUE) \in QueryMatchesOf(Tuples)
    BY <2>3, Zenon DEF SupportOf
  <2>7. QED
    BY <1>2, <2>3, <2>4, <2>5, <2>6
<1> DEFINE Listed == [values: AnswersOf(Tuples), supportCount: Nat, match: QueryMatchesOf(Tuples)]
<1>5. answers \in [1..n -> Listed]
  <2>1. \A i \in 1..n : answers[i] \in Listed
    BY <1>4
  <2> HIDE DEF Listed
  <2>2. QED
    BY <1>3, <2>1
<1>6. answers \in Seq(Listed) /\ Len(answers) = n
  BY <1>1, <1>5, ListOf
<1>7. \A i, j \in 1..n : answers[i].values = answers[j].values => i = j
  BY <1>2, <1>4
<1>8. \A v \in AnswersOf(Tuples) : \E i \in 1..n : answers[i].values = v
  BY <1>2, <1>4
<1>9. QED
  BY <1>4, <1>6, <1>7, <1>8 DEF AnswersListed

LEMMA BodyLengths ==
    ASSUME InputHeld
    PROVE  /\ QueryLiterals \in Nat /\ LiteralsPerRule \in Nat
           /\ Len(program.where) \in Nat \ {0} /\ Len(program.where) <= QueryLiterals
           /\ \A rule \in program.rules :
                 Len(rule.body) \in Nat \ {0} /\ Len(rule.body) <= LiteralsPerRule
<1>1. QueryLiterals \in Nat /\ LiteralsPerRule \in Nat
  BY ResultAssumption
<1>2. /\ Len(program.where) \in 1..QueryLiterals
      /\ \A rule \in program.rules : Len(rule.body) \in 1..LiteralsPerRule
  BY InputFacts
<1>3. QED
  BY <1>1, <1>2

\* What a tuple that is known rests on.
LEMMA WitnessListed ==
    ASSUME InputHeld, RoundsInvariant, NEW t \in Tuples
    PROVE  /\ known[t].kind \in {"fact", "derived"}
           /\ known[t].kind = "fact" => t \in DOMAIN dataset /\ known[t].lanes = dataset[t]
           /\ known[t].kind = "derived" =>
                 /\ known[t].rule \in program.rules
                 /\ \E b \in Bindings :
                       /\ Ground(known[t].rule.head, b) = t
                       /\ known[t].premises = Premises(known[t].rule.body, b)
                 /\ known[t].premises \in Seq(Tuples)
                 /\ Len(known[t].premises) = Len(known[t].rule.body)
<1>1. CASE t \in DOMAIN dataset
  <2>1. known[t] = FactWitness(dataset[t])
    BY <1>1, Zenon DEF RoundsInvariant, WitnessesReal
  <2>2. QED
    BY <1>1, <2>1 DEF FactWitness
<1>2. CASE t \notin DOMAIN dataset
  <2>1. PICK rule \in program.rules, b \in Bindings :
            /\ Satisfies(Tuples, rule.body, b)
            /\ Ground(rule.head, b) = t
            /\ known[t] = DerivedWitness(rule, Premises(rule.body, b))
    BY <1>2, Zenon DEF RoundsInvariant, WitnessesReal, Witnessed
  <2>2. rule.body \in Seq(Literal)
    BY InputFacts
  <2>3. Premises(rule.body, b) \in Seq(Tuples) /\ Len(Premises(rule.body, b)) = Len(rule.body)
    BY <2>1, <2>2, PremisesListed
  <2>4. /\ known[t].kind = "derived" /\ known[t].rule = rule
        /\ known[t].premises = Premises(rule.body, b)
    BY <2>1 DEF DerivedWitness
  <2>5. QED
    BY <2>1, <2>3, <2>4
<1>3. QED
  BY <1>1, <1>2

-----------------------------------------------------------------------------
(* Proofs under way.  A tree stands for the proofs, at for the position the *)
(* recursion asks for next, and begun for the number of rows begun.        *)

ClaimsOf(tree, p) ==
    IF Len(p) = 1 THEN answers[p[1]].match ELSE known[tree[p].reference].premises

\* Positions below which premises are proved.
Loops(tree, begun) == {<<i>> : i \in 1..begun} \cup {p \in DOMAIN tree : tree[p].kind = "derived"}

NodeFields == {"kind", "reference", "lanes", "rule", "premisesTruncated"}

\* Every node proves the claim at its position, below nodes that derive theirs.
NodeFits(tree, p, begun) ==
    LET node == tree[p]
    IN  /\ DOMAIN node = NodeFields
        /\ p \in Position /\ Len(p) >= 2 /\ p[1] <= begun
        /\ \A n \in 2 .. Len(p) - 1 :
              SubSeq(p, 1, n) \in DOMAIN tree /\ tree[SubSeq(p, 1, n)].kind = "derived"
        /\ Last(p) <= Len(ClaimsOf(tree, Front(p)))
        /\ Depth(p) <= options.proofDepth
        /\ node.reference \in Tuples
        /\ node.reference = ClaimsOf(tree, Front(p))[Last(p)]
        /\ node.kind = IF Depth(p) = options.proofDepth THEN "depth"
                       ELSE known[node.reference].kind
        /\ node.lanes = IF node.kind = "fact" THEN known[node.reference].lanes ELSE {}
        /\ node.rule = IF node.kind = "derived" THEN known[node.reference].rule ELSE Null
        /\ node.premisesTruncated \in BOOLEAN
        /\ node.kind # "derived" => ~node.premisesTruncated

NodesMade(tree, begun) == \A p \in DOMAIN tree : NodeFits(tree, p, begun)

\* Below nodes that are made, at a claim there is.
Stands(tree, at, begun) ==
    /\ at \in Position /\ Len(at) >= 1
    /\ at[1] = begun
    /\ \A n \in 2 .. Len(at) - 1 :
          SubSeq(at, 1, n) \in DOMAIN tree /\ tree[SubSeq(at, 1, n)].kind = "derived"
    /\ \A n \in 2..Len(at) : at[n] <= Len(ClaimsOf(tree, SubSeq(at, 1, n - 1)))

\* The loop below q has been entered by the recursion and not been left.
Running(q, at) == Len(q) < Len(at) /\ SubSeq(at, 1, Len(q)) = q

\* The loop has proofs of its first n claims and was not cut.
Tried(tree, q, n) ==
    Below(tree, q) = 1..n /\ (q \in DOMAIN tree => ~tree[q].premisesTruncated)

\* The loop is over: after all its claims, or cut.
Ended(tree, q) ==
    \E n \in 0..Len(ClaimsOf(tree, q)) :
        /\ Below(tree, q) = 1..n
        /\ q \in DOMAIN tree =>
              (tree[q].premisesTruncated <=> n < Len(ClaimsOf(tree, q)))

\* All loops while the recursion is about to prove at a position ...
LoopsAt(tree, at, begun) ==
    \A q \in Loops(tree, begun) :
        IF Running(q, at)
        THEN Tried(tree, q, IF Len(at) = Len(q) + 1 THEN at[Len(q) + 1] - 1 ELSE at[Len(q) + 1])
        ELSE Ended(tree, q)

\* ... and when it has done all it does below one.
LoopsPast(tree, at, begun) ==
    \A q \in Loops(tree, begun) :
        IF Running(q, at) THEN Tried(tree, q, at[Len(q) + 1]) ELSE Ended(tree, q)

\* What the rounds and the query leave for the proofs.
Given == InputHeld /\ RoundsInvariant /\ AnswersListed

LEMMA LoopClaims ==
    ASSUME Given, NEW tree, NEW begun \in 0..Len(answers), NodesMade(tree, begun),
           NEW q \in Loops(tree, begun)
    PROVE  /\ q \in Position /\ Len(q) >= 1
           /\ ClaimsOf(tree, q) \in Seq(Tuples)
           /\ Len(ClaimsOf(tree, q)) \in Nat \ {0}
           /\ \A n \in 1..Len(ClaimsOf(tree, q)) : ClaimsOf(tree, q)[n] \in Tuples
<1>1. ASSUME q \in {<<i>> : i \in 1..begun}
      PROVE  /\ q \in Position /\ Len(q) >= 1
             /\ ClaimsOf(tree, q) \in Seq(Tuples) /\ Len(ClaimsOf(tree, q)) \in Nat \ {0}
  <2>1. PICK i \in 1..begun : q = <<i>>
    BY <1>1
  <2>2. answers \in Seq([values: AnswersOf(Tuples), supportCount: Nat, match: QueryMatchesOf(Tuples)])
    BY DEF Given, AnswersListed
  <2>3. i \in 1..Len(answers) /\ i \in Nat \ {0}
    BY <2>2, LenProperties
  <2>4. answers[i] \in [values: AnswersOf(Tuples), supportCount: Nat, match: QueryMatchesOf(Tuples)]
    BY <2>2, <2>3, ElementOfSeq
  <2>5. answers[i].match \in Matches(Tuples, program.where)
    BY <2>4 DEF QueryMatchesOf
  <2>6. program.where \in Seq(Literal) /\ Len(program.where) \in Nat \ {0}
    BY InputFacts, BodyLengths DEF Given
  <2>7. answers[i].match \in Seq(Tuples) /\ Len(answers[i].match) \in Nat \ {0}
    BY <2>5, <2>6, MatchListed
  <2>8. q \in Position /\ Len(q) = 1 /\ ClaimsOf(tree, q) = answers[i].match
    BY <2>1, <2>3 DEF Position, ClaimsOf
  <2>9. QED
    BY <2>7, <2>8
<1>2. ASSUME q \in {p \in DOMAIN tree : tree[p].kind = "derived"}
      PROVE  /\ q \in Position /\ Len(q) >= 1
             /\ ClaimsOf(tree, q) \in Seq(Tuples) /\ Len(ClaimsOf(tree, q)) \in Nat \ {0}
  <2>1. /\ q \in Position /\ Len(q) \in Nat /\ Len(q) >= 2
        /\ tree[q].reference \in Tuples /\ known[tree[q].reference].kind = "derived"
    BY <1>2, AllOf DEF NodesMade, NodeFits
  <2> DEFINE t == tree[q].reference
  <2>2. known[t].premises \in Seq(Tuples) /\ Len(known[t].premises) = Len(known[t].rule.body)
        /\ known[t].rule \in program.rules
    BY <2>1, WitnessListed DEF Given
  <2>3. Len(known[t].rule.body) \in Nat \ {0}
    BY <2>2, BodyLengths DEF Given
  <2>4. ClaimsOf(tree, q) = known[t].premises
    <3>1. Len(q) # 1
      <4>1. SUFFICES ASSUME Len(q) = 1 PROVE FALSE
        OBVIOUS
      <4>2. QED
        BY <2>1, <4>1
    <3>2. QED
      BY <3>1, Zenon DEF ClaimsOf
  <2>5. q \in Position /\ Len(q) >= 1
    BY <2>1
  <2> HIDE DEF t
  <2>6. QED
    BY <2>2, <2>3, <2>4, <2>5
<1>3. /\ q \in Position /\ Len(q) >= 1
      /\ ClaimsOf(tree, q) \in Seq(Tuples) /\ Len(ClaimsOf(tree, q)) \in Nat \ {0}
  BY <1>1, <1>2 DEF Loops
<1>4. QED
  BY <1>3, ElementOfSeq

-----------------------------------------------------------------------------
(* How the recursion goes on.                                              *)

LEMMA Greatest ==
    ASSUME NEW n \in Nat, NEW S \in SUBSET (0..n), S # {}
    PROVE  Max(S) \in S /\ \A y \in S : y <= Max(S)
<1> DEFINE T == {n - y : y \in S}
<1>1. T \in SUBSET Nat /\ T # {}
  <2>1. \A y \in S : y \in 0..n
    OBVIOUS
  <2>2. \A y \in 0..n : n - y \in Nat
    OBVIOUS
  <2>3. QED
    BY <2>1, <2>2
<1>2. PICK m \in T : \A k \in T : m <= k
  BY <1>1, LeastNumber
<1>3. PICK x \in S : m = n - x
  OBVIOUS
<1>4. \A y \in S : x >= y
  <2>1. ASSUME NEW y \in S PROVE x >= y
    <3>1. n - y \in T /\ y \in 0..n /\ x \in 0..n
      OBVIOUS
    <3>2. n - x <= n - y
      BY <1>2, <1>3, <3>1
    <3>3. QED
      BY <3>1, <3>2
  <2>2. QED
    BY <2>1
<1>5. Max(S) \in S /\ \A y \in S : Max(S) >= y
  BY <1>3, <1>4, Zenon DEF Max
<1>6. QED
  BY <1>5

\* The next position differs from the last in its last number, which is one more,
\* and every loop below has come to its end.
LEMMA OnwardGoes ==
    ASSUME NEW c \in Position, Len(c) >= 1,
           \A n \in 2..Len(c) : /\ Len(Claims(SubSeq(c, 1, n - 1))) \in Nat
                                /\ c[n] <= Len(Claims(SubSeq(c, 1, n - 1)))
    PROVE  /\ Onward(c) \in Position
           /\ Len(Onward(c)) \in 1..Len(c)
           /\ \A m \in 0 .. Len(Onward(c)) - 1 : SubSeq(Onward(c), 1, m) = SubSeq(c, 1, m)
           /\ \A m \in 1 .. Len(Onward(c)) - 1 : Onward(c)[m] = c[m]
           /\ Onward(c)[1] = c[1] \/ Len(Onward(c)) > 1
           /\ Len(Onward(c)) > 1 =>
                 /\ Onward(c)[Len(Onward(c))] = c[Len(Onward(c))] + 1
                 /\ Onward(c)[Len(Onward(c))] <= Len(Claims(SubSeq(c, 1, Len(Onward(c)) - 1)))
           /\ \A m \in Len(Onward(c)) + 1 .. Len(c) : c[m] = Len(Claims(SubSeq(c, 1, m - 1)))
<1> DEFINE open == {n \in 2..Len(c) : c[n] < Len(Claims(SubSeq(c, 1, n - 1)))}
<1>1. Len(c) \in Nat /\ \A n \in 1..Len(c) : c[n] \in Nat \ {0}
  BY AllOf
<1>2. ASSUME NEW m \in 2..Len(c), m \notin open PROVE c[m] = Len(Claims(SubSeq(c, 1, m - 1)))
  <2>1. /\ Len(Claims(SubSeq(c, 1, m - 1))) \in Nat
        /\ c[m] <= Len(Claims(SubSeq(c, 1, m - 1)))
    OBVIOUS
  <2>2. ~(c[m] < Len(Claims(SubSeq(c, 1, m - 1)))) /\ c[m] \in Nat
    BY <1>1, <1>2
  <2>3. QED
    BY <2>1, <2>2
<1>3. CASE open = {}
  <2>1. Onward(c) = <<c[1]>>
    BY <1>3 DEF Onward
  <2>2. c[1] \in Nat \ {0}
    BY <1>1
  <2>3. Onward(c) \in Position /\ Len(Onward(c)) = 1 /\ Onward(c)[1] = c[1]
    BY <2>1, <2>2 DEF Position
  <2>4. SubSeq(Onward(c), 1, 0) = SubSeq(c, 1, 0)
    BY SubSeqEmpty
  <2>5. \A m \in 2..Len(c) : c[m] = Len(Claims(SubSeq(c, 1, m - 1)))
    BY <1>2, <1>3
  <2> HIDE DEF open
  <2>6. \A m \in 0 .. Len(Onward(c)) - 1 : SubSeq(Onward(c), 1, m) = SubSeq(c, 1, m)
    BY <2>3, <2>4
  <2>7. QED
    BY <1>1, <2>3, <2>5, <2>6
<1>4. CASE open # {}
  <2> DEFINE k == Max(open)
  <2>1. k \in open /\ \A y \in open : y <= k
    <3>1. open \in SUBSET (0..Len(c))
      BY <1>1
    <3> HIDE DEF open
    <3>2. QED
      BY <1>1, <1>4, <3>1, Greatest
  <2>2. k \in 2..Len(c) /\ c[k] < Len(Claims(SubSeq(c, 1, k - 1)))
    BY <2>1
  <2>3. Onward(c) = Append(SubSeq(c, 1, k - 1), c[k] + 1)
    BY <1>4 DEF Onward
  <2> HIDE DEF k
  <2>4. \A m \in k + 1 .. Len(c) : m \in 2..Len(c) /\ m \notin open
    BY <1>1, <2>1, <2>2
  <2> HIDE DEF open
  <2>5. k - 1 \in 0..Len(c) /\ c[k] + 1 \in Nat \ {0} /\ k \in Nat
    BY <1>1, <2>2
  <2> DEFINE front == SubSeq(c, 1, k - 1)
  <2>6. /\ front \in Position /\ Len(front) = k - 1
        /\ \A i \in 1 .. k - 1 : front[i] = c[i]
        /\ \A m \in 0 .. k - 1 : SubSeq(front, 1, m) = SubSeq(c, 1, m)
    BY <2>5, UpTo
  <2> HIDE DEF front
  <2>7. /\ Onward(c) \in Position /\ Len(Onward(c)) = k
        /\ Onward(c)[k] = c[k] + 1 /\ \A i \in 1 .. k - 1 : Onward(c)[i] = front[i]
        /\ \A i \in 0 .. k - 1 : SubSeq(Onward(c), 1, i) = SubSeq(front, 1, i)
    <3>1. Onward(c) = Append(front, c[k] + 1)
      BY <2>3 DEF front
    <3>2. LET q == Append(front, c[k] + 1)
          IN  /\ q \in Position /\ Len(q) = Len(front) + 1
              /\ q[Len(q)] = c[k] + 1 /\ \A i \in 1..Len(front) : q[i] = front[i]
              /\ \A i \in 0..Len(front) : SubSeq(q, 1, i) = SubSeq(front, 1, i)
      BY <2>5, <2>6, Extend
    <3>3. Len(front) + 1 = k /\ Len(front) = k - 1
      BY <2>5, <2>6
    <3>4. QED
      BY <3>1, <3>2, <3>3
  <2>8. Onward(c)[k] <= Len(Claims(SubSeq(c, 1, k - 1)))
    <3>1. Len(Claims(SubSeq(c, 1, k - 1))) \in Nat /\ c[k] \in Nat
      BY <1>1, <2>2
    <3>2. QED
      BY <2>2, <2>7, <3>1
  <2>9. \A m \in 0 .. k - 1 : SubSeq(Onward(c), 1, m) = SubSeq(c, 1, m)
    BY <2>6, <2>7
  <2>10. \A m \in 1 .. k - 1 : Onward(c)[m] = c[m]
    BY <2>6, <2>7
  <2>11. \A m \in k + 1 .. Len(c) : c[m] = Len(Claims(SubSeq(c, 1, m - 1)))
    BY <1>2, <2>4
  <2>12. k > 1 /\ k \in 1..Len(c)
    BY <1>1, <2>2
  <2>13. QED
    BY <2>7, <2>8, <2>9, <2>10, <2>11, <2>12
<1>5. QED
  BY <1>3, <1>4

\* The position is below loops, and within the claims of each.
LEMMA StandingLoops ==
    ASSUME Given, NEW tree, NEW begun \in 1..Len(answers), NodesMade(tree, begun),
           NEW at, Stands(tree, at, begun)
    PROVE  /\ at \in Position /\ Len(at) \in Nat \ {0}
           /\ \A n \in 1..Len(at) : at[n] \in Nat \ {0}
           /\ \A n \in 1 .. Len(at) - 1 :
                 /\ SubSeq(at, 1, n) \in Loops(tree, begun)
                 /\ Len(SubSeq(at, 1, n)) = n
                 /\ Running(SubSeq(at, 1, n), at)
                 /\ Len(ClaimsOf(tree, SubSeq(at, 1, n))) \in Nat
                 /\ at[n + 1] <= Len(ClaimsOf(tree, SubSeq(at, 1, n)))
<1>1. at \in Position /\ Len(at) >= 1 /\ at[1] = begun
  BY DEF Stands
<1>2. Len(at) \in Nat \ {0} /\ \A n \in 1..Len(at) : at[n] \in Nat \ {0}
  BY <1>1, AllOf
<1>3. ASSUME NEW n \in 1 .. Len(at) - 1
      PROVE  /\ SubSeq(at, 1, n) \in Loops(tree, begun)
             /\ Len(SubSeq(at, 1, n)) = n
             /\ Running(SubSeq(at, 1, n), at)
             /\ Len(ClaimsOf(tree, SubSeq(at, 1, n))) \in Nat
             /\ at[n + 1] <= Len(ClaimsOf(tree, SubSeq(at, 1, n)))
  <2> DEFINE q == SubSeq(at, 1, n)
  <2>1. n \in 0..Len(at) /\ n \in 1..Len(at) /\ n < Len(at) /\ n + 1 \in 2..Len(at) /\ (n + 1) - 1 = n
        /\ n \in Nat
    BY <1>2
  <2>2. q \in Position /\ Len(q) = n /\ \A i \in 1..n : q[i] = at[i]
    BY <1>1, <2>1, UpTo
  <2>3. q \in Loops(tree, begun)
    <3>1. CASE n = 1
      <4>1. q = <<begun>>
        <5>1. <<begun>> \in Position /\ Len(<<begun>>) = 1 /\ <<begun>>[1] = begun
          BY DEF Position
        <5>2. Len(q) = 1 /\ q[1] = begun
          BY <1>1, <2>2, <3>1
        <5> HIDE DEF q
        <5>3. QED
          BY <2>2, <5>1, <5>2, SamePosition
      <4>2. begun \in 1..begun
        OBVIOUS
      <4>3. QED
        BY <4>1, <4>2 DEF Loops
    <3>2. CASE n # 1
      <4>1. n \in 2 .. Len(at) - 1
        BY <3>2
      <4>2. QED
        BY <4>1 DEF Stands, Loops
    <3>3. QED
      BY <3>1, <3>2
  <2>4. at[n + 1] <= Len(ClaimsOf(tree, q))
    <3>1. at[n + 1] <= Len(ClaimsOf(tree, SubSeq(at, 1, (n + 1) - 1)))
      BY <2>1 DEF Stands
    <3>2. QED
      BY <2>1, <3>1
  <2>5. Len(ClaimsOf(tree, q)) \in Nat
    <3>1. begun \in 0..Len(answers)
      OBVIOUS
    <3> HIDE DEF q
    <3>2. QED
      BY <2>3, <3>1, LoopClaims
  <2>6. Running(q, at)
    BY <2>1, <2>2 DEF Running
  <2>7. QED
    BY <2>2, <2>3, <2>4, <2>5, <2>6
<1>4. QED
  BY <1>1, <1>2, <1>3

\* When all is done below a position, the recursion goes on where Onward says.
LEMMA GoesOn ==
    ASSUME Given, NEW tree, NEW begun \in 1..Len(answers), NodesMade(tree, begun),
           NEW c, Stands(tree, c, begun), LoopsPast(tree, c, begun),
           \A q \in Loops(tree, begun) : Claims(q) = ClaimsOf(tree, q)
    PROVE  Stands(tree, Onward(c), begun) /\ LoopsAt(tree, Onward(c), begun)
<1> DEFINE at == Onward(c)
<1>1. /\ c \in Position /\ Len(c) \in Nat \ {0} /\ c[1] = begun
      /\ \A n \in 1..Len(c) : c[n] \in Nat \ {0}
      /\ \A n \in 1 .. Len(c) - 1 :
            /\ SubSeq(c, 1, n) \in Loops(tree, begun)
            /\ Len(SubSeq(c, 1, n)) = n
            /\ Running(SubSeq(c, 1, n), c)
            /\ Len(Claims(SubSeq(c, 1, n))) \in Nat
            /\ c[n + 1] <= Len(Claims(SubSeq(c, 1, n)))
  <2>1. c[1] = begun
    BY DEF Stands
  <2>2. QED
    BY <2>1, StandingLoops
<1>2. ASSUME NEW n \in 2..Len(c)
      PROVE  /\ Len(Claims(SubSeq(c, 1, n - 1))) \in Nat
             /\ c[n] <= Len(Claims(SubSeq(c, 1, n - 1)))
  <2>1. n - 1 \in 1 .. Len(c) - 1 /\ (n - 1) + 1 = n
    BY <1>1
  <2>2. QED
    BY <1>1, <2>1
<1>3. Len(c) >= 1
  BY <1>1
<1>4. /\ at \in Position /\ Len(at) \in 1..Len(c)
      /\ \A m \in 0 .. Len(at) - 1 : SubSeq(at, 1, m) = SubSeq(c, 1, m)
      /\ \A m \in 1 .. Len(at) - 1 : at[m] = c[m]
      /\ at[1] = c[1] \/ Len(at) > 1
      /\ Len(at) > 1 =>
            /\ at[Len(at)] = c[Len(at)] + 1
            /\ at[Len(at)] <= Len(Claims(SubSeq(c, 1, Len(at) - 1)))
      /\ \A m \in Len(at) + 1 .. Len(c) : c[m] = Len(Claims(SubSeq(c, 1, m - 1)))
  BY <1>1, <1>2, <1>3, OnwardGoes
<1> HIDE DEF at
<1>5. Stands(tree, at, begun)
  <2>1. at[1] = begun /\ Len(at) >= 1
    <3>1. Len(at) \in Nat /\ Len(at) >= 1
      BY <1>1, <1>4
    <3>2. CASE Len(at) > 1
      <4>1. 1 \in 1 .. Len(at) - 1
        BY <3>1, <3>2
      <4>2. QED
        BY <1>1, <1>4, <3>1, <4>1
    <3>3. CASE ~(Len(at) > 1)
      BY <1>1, <1>4, <3>1, <3>3
    <3>4. QED
      BY <3>2, <3>3
  <2>2. ASSUME NEW n \in 2 .. Len(at) - 1
        PROVE  SubSeq(at, 1, n) \in DOMAIN tree /\ tree[SubSeq(at, 1, n)].kind = "derived"
    <3>1. n \in 0 .. Len(at) - 1 /\ n \in 2 .. Len(c) - 1
      BY <1>1, <1>4
    <3>2. QED
      BY <1>4, <3>1 DEF Stands
  <2>3. ASSUME NEW n \in 2..Len(at)
        PROVE  at[n] <= Len(ClaimsOf(tree, SubSeq(at, 1, n - 1)))
    <3>1. n - 1 \in 0 .. Len(at) - 1 /\ n - 1 \in 1 .. Len(c) - 1 /\ (n - 1) + 1 = n
      BY <1>1, <1>4
    <3>2. /\ SubSeq(at, 1, n - 1) = SubSeq(c, 1, n - 1)
          /\ ClaimsOf(tree, SubSeq(c, 1, n - 1)) = Claims(SubSeq(c, 1, n - 1))
      BY <1>1, <1>4, <3>1
    <3>3. CASE n = Len(at)
      <4>1. Len(at) > 1
        BY <1>1, <1>4
      <4>2. at[n] <= Len(Claims(SubSeq(c, 1, n - 1)))
        BY <1>4, <3>3, <4>1
      <4>3. QED
        BY <3>2, <4>2
    <3>4. CASE n # Len(at)
      <4>1. n \in 1 .. Len(at) - 1
        BY <1>4, <3>4
      <4>2. at[n] = c[n]
        BY <1>4, <4>1
      <4>3. c[n] <= Len(Claims(SubSeq(c, 1, n - 1)))
        BY <1>1, <3>1
      <4>4. QED
        BY <3>2, <4>2, <4>3
    <3>5. QED
      BY <3>3, <3>4
  <2>4. QED
    BY <1>4, <2>1, <2>2, <2>3 DEF Stands
<1>6. ASSUME NEW q \in Loops(tree, begun)
      PROVE  IF Running(q, at)
             THEN Tried(tree, q, IF Len(at) = Len(q) + 1 THEN at[Len(q) + 1] - 1
                                 ELSE at[Len(q) + 1])
             ELSE Ended(tree, q)
  <2>1. q \in Position /\ Len(q) \in Nat /\ Len(q) >= 1
    <3>1. begun \in 0..Len(answers)
      OBVIOUS
    <3>2. q \in Position /\ Len(q) >= 1
      BY <3>1, LoopClaims
    <3>3. QED
      BY <3>2, AllOf
  <2>2. IF Running(q, c) THEN Tried(tree, q, c[Len(q) + 1]) ELSE Ended(tree, q)
    BY DEF LoopsPast
  <2>3. Len(q) < Len(at) => (Running(q, at) <=> Running(q, c))
    <3>1. SUFFICES ASSUME Len(q) < Len(at) PROVE Running(q, at) <=> Running(q, c)
      OBVIOUS
    <3>2. Len(q) \in 0 .. Len(at) - 1 /\ Len(q) < Len(c)
      BY <1>1, <1>4, <2>1, <3>1
    <3>3. SubSeq(at, 1, Len(q)) = SubSeq(c, 1, Len(q))
      BY <1>4, <3>2
    <3>4. QED
      BY <3>1, <3>2, <3>3 DEF Running
  <2>4. CASE Running(q, at)
    <3>1. Len(q) < Len(at)
      BY <2>4 DEF Running
    <3>2. Tried(tree, q, c[Len(q) + 1])
      BY <2>2, <2>3, <2>4, <3>1
    <3>3. CASE Len(at) = Len(q) + 1
      <4>1. Len(at) > 1 /\ at[Len(at)] = c[Len(at)] + 1 /\ c[Len(at)] \in Nat
        BY <1>1, <1>4, <2>1, <3>3
      <4>2. at[Len(q) + 1] - 1 = c[Len(q) + 1]
        BY <3>3, <4>1
      <4>3. QED
        BY <2>4, <3>2, <3>3, <4>2
    <3>4. CASE Len(at) # Len(q) + 1
      <4>1. Len(q) + 1 \in 1 .. Len(at) - 1
        BY <1>4, <2>1, <3>1, <3>4
      <4>2. at[Len(q) + 1] = c[Len(q) + 1]
        BY <1>4, <4>1
      <4>3. QED
        BY <2>4, <3>2, <3>4, <4>2
    <3>5. QED
      BY <3>3, <3>4
  <2>5. CASE ~Running(q, at)
    <3>1. CASE ~Running(q, c)
      BY <2>2, <2>5, <3>1
    <3>2. CASE Running(q, c)
      <4>1. Len(q) < Len(c) /\ SubSeq(c, 1, Len(q)) = q /\ ~(Len(q) < Len(at))
        BY <2>3, <2>5, <3>2 DEF Running
      <4>2. Len(q) + 1 \in Len(at) + 1 .. Len(c) /\ (Len(q) + 1) - 1 = Len(q)
        BY <1>1, <1>4, <2>1, <4>1
      <4>3. c[Len(q) + 1] = Len(Claims(q))
        BY <1>4, <4>1, <4>2
      <4>4. Claims(q) = ClaimsOf(tree, q)
        OBVIOUS
      <4>5. Tried(tree, q, Len(ClaimsOf(tree, q)))
        BY <2>2, <3>2, <4>3, <4>4
      <4>6. Len(ClaimsOf(tree, q)) \in Nat
        <5>1. begun \in 0..Len(answers)
          OBVIOUS
        <5>2. QED
          BY <5>1, LoopClaims
      <4>7. Ended(tree, q)
        BY <4>5, <4>6 DEF Ended, Tried
      <4>8. QED
        BY <2>5, <4>7
    <3>3. QED
      BY <3>1, <3>2
  <2>6. QED
    BY <2>4, <2>5
<1>7. QED
  BY <1>5, <1>6 DEF at, LoopsAt

-----------------------------------------------------------------------------
(* A node more.                                                            *)

LEMMA BegunRows == \A begun \in 1..Len(answers) : begun \in 0..Len(answers)
  OBVIOUS

\* The loop the position is in has come to it, and nothing is there yet.
LEMMA FrontRuns ==
    ASSUME Given, NEW tree, NEW begun \in 1..Len(answers), NodesMade(tree, begun),
           NEW at, Stands(tree, at, begun), Len(at) > 1, LoopsAt(tree, at, begun)
    PROVE  /\ Front(at) \in Loops(tree, begun) /\ Running(Front(at), at)
           /\ Front(at) \in Position /\ Len(Front(at)) = Len(at) - 1
           /\ Last(at) \in Nat \ {0} /\ Last(at) = at[Len(at)]
           /\ Last(at) <= Len(ClaimsOf(tree, Front(at)))
           /\ at = Append(Front(at), Last(at))
           /\ Tried(tree, Front(at), Last(at) - 1)
           /\ at \notin DOMAIN tree
           /\ \A p \in DOMAIN tree : Front(p) # at
<1>1. /\ at \in Position /\ Len(at) \in Nat \ {0}
      /\ \A n \in 1 .. Len(at) - 1 :
            /\ SubSeq(at, 1, n) \in Loops(tree, begun)
            /\ Running(SubSeq(at, 1, n), at)
            /\ at[n + 1] <= Len(ClaimsOf(tree, SubSeq(at, 1, n)))
  BY StandingLoops
<1>2. /\ Front(at) \in Position /\ Len(Front(at)) = Len(at) - 1
      /\ Last(at) = at[Len(at)] /\ Last(at) \in Nat \ {0}
      /\ at = Append(Front(at), Last(at))
  BY <1>1, Parent
<1>3. /\ Front(at) \in Loops(tree, begun) /\ Running(Front(at), at)
      /\ Last(at) <= Len(ClaimsOf(tree, Front(at)))
  <2>1. Len(at) - 1 \in 1 .. Len(at) - 1 /\ (Len(at) - 1) + 1 = Len(at)
    BY <1>1
  <2>2. QED
    BY <1>1, <1>2, <2>1 DEF Front
<1>4. Tried(tree, Front(at), Last(at) - 1)
  <2>1. Len(at) = Len(Front(at)) + 1
    BY <1>1, <1>2
  <2>2. QED
    BY <1>2, <1>3, <2>1 DEF LoopsAt
<1>5. ASSUME at \in DOMAIN tree PROVE FALSE
  <2>1. Last(at) \in Below(tree, Front(at))
    BY <1>5 DEF Below
  <2>2. QED
    BY <1>2, <1>4, <2>1 DEF Tried
<1>6. ASSUME NEW p \in DOMAIN tree, Front(p) = at PROVE FALSE
  <2>1. p \in Position /\ Len(p) \in Nat /\ Len(p) >= 2
    BY AllOf DEF NodesMade, NodeFits
  <2>2. Len(at) = Len(p) - 1
    BY <1>6, <2>1, Parent
  <2>3. Len(p) - 1 \in 2 .. Len(p) - 1
    BY <1>1, <2>1, <2>2
  <2>4. SubSeq(p, 1, Len(p) - 1) \in DOMAIN tree
    BY <2>3 DEF NodesMade, NodeFits
  <2>5. QED
    BY <1>5, <1>6, <2>4 DEF Front
<1>7. QED
  BY <1>2, <1>3, <1>4, <1>5, <1>6

WithNode(tree, at, node) ==
    [p \in DOMAIN tree \cup {at} |-> IF p = at THEN node ELSE tree[p]]

\* What a node has to be.
Proving(tree, at, node) ==
    /\ DOMAIN node = NodeFields
    /\ node.reference = ClaimsOf(tree, Front(at))[Last(at)]
    /\ node.kind = IF Depth(at) = options.proofDepth THEN "depth" ELSE known[node.reference].kind
    /\ node.lanes = IF node.kind = "fact" THEN known[node.reference].lanes ELSE {}
    /\ node.rule = IF node.kind = "derived" THEN known[node.reference].rule ELSE Null
    /\ node.premisesTruncated = FALSE

LEMMA WithNodeBelow ==
    ASSUME NEW tree, NEW at, at \notin DOMAIN tree, NEW node, NEW q
    PROVE  Below(WithNode(tree, at, node), q) =
             IF q = Front(at) THEN Below(tree, q) \cup {Last(at)} ELSE Below(tree, q)
<1>1. DOMAIN WithNode(tree, at, node) = DOMAIN tree \cup {at}
  BY DEF WithNode
<1>2. QED
  BY <1>1, Zenon DEF Below

LEMMA WithNodeClaims ==
    ASSUME NEW tree, NEW at, at \notin DOMAIN tree, NEW node, NEW q,
           Len(q) = 1 \/ q \in DOMAIN tree
    PROVE  ClaimsOf(WithNode(tree, at, node), q) = ClaimsOf(tree, q)
<1>1. CASE Len(q) = 1
  BY <1>1, Zenon DEF ClaimsOf
<1>2. CASE q \in DOMAIN tree
  <2>1. WithNode(tree, at, node)[q] = tree[q]
    BY <1>2 DEF WithNode
  <2>2. QED
    BY <2>1, Zenon DEF ClaimsOf
<1>3. QED
  BY <1>1, <1>2

LEMMA LoopIsNode ==
    ASSUME NEW tree, NEW begun \in Nat, NEW q \in Loops(tree, begun)
    PROVE  Len(q) = 1 \/ (q \in DOMAIN tree /\ tree[q].kind = "derived")
  BY DEF Loops

\* A claim is of a known tuple, and not too deep.
LEMMA ClaimFits ==
    ASSUME Given, NEW tree, NEW begun \in 1..Len(answers), NodesMade(tree, begun),
           NEW at, Stands(tree, at, begun), Len(at) > 1, LoopsAt(tree, at, begun)
    PROVE  /\ ClaimsOf(tree, Front(at))[Last(at)] \in Tuples
           /\ Depth(at) \in Nat /\ options.proofDepth \in Nat /\ Depth(at) <= options.proofDepth
<1>1. /\ Front(at) \in Loops(tree, begun) /\ Len(Front(at)) = Len(at) - 1
      /\ Last(at) \in Nat \ {0} /\ Last(at) <= Len(ClaimsOf(tree, Front(at)))
  BY FrontRuns
<1>2. ClaimsOf(tree, Front(at))[Last(at)] \in Tuples
  <2>1. begun \in 0..Len(answers)
    OBVIOUS
  <2>2. /\ Len(ClaimsOf(tree, Front(at))) \in Nat
        /\ \A n \in 1..Len(ClaimsOf(tree, Front(at))) : ClaimsOf(tree, Front(at))[n] \in Tuples
    BY <1>1, <2>1, LoopClaims
  <2>3. Last(at) \in 1..Len(ClaimsOf(tree, Front(at)))
    BY <1>1, <2>2
  <2>4. QED
    BY <2>2, <2>3
<1>3. options.proofDepth \in Nat /\ Len(at) \in Nat
  BY InputFacts, StandingLoops DEF Given, Option
<1>4. Depth(at) <= options.proofDepth
  <2>1. CASE Len(at) <= 2
    BY <1>3, <2>1 DEF Depth
  <2>2. CASE ~(Len(at) <= 2)
    <3>1. Len(at) - 1 >= 2 /\ Len(at) - 1 \in 2 .. Len(at) - 1
      BY <1>3, <2>2
    <3>2. Front(at) \in DOMAIN tree /\ tree[Front(at)].kind = "derived"
      BY <3>1 DEF Stands, Front
    <3>3. /\ Depth(Front(at)) <= options.proofDepth
          /\ Depth(Front(at)) = options.proofDepth => tree[Front(at)].kind = "depth"
      BY <3>2 DEF NodesMade, NodeFits
    <3>4. Depth(Front(at)) # options.proofDepth
      BY <3>2, <3>3
    <3>5. QED
      BY <1>1, <1>3, <3>3, <3>4 DEF Depth
  <2>3. QED
    BY <2>1, <2>2
<1>5. Depth(at) \in Nat
  BY <1>3 DEF Depth
<1>6. QED
  BY <1>2, <1>3, <1>4, <1>5

\* The claims above a node do not change with another node.
LEMMA FrontClaims ==
    ASSUME NEW tree, NEW begun, NodesMade(tree, begun), NEW at, at \notin DOMAIN tree, NEW node,
           NEW p \in DOMAIN tree
    PROVE  ClaimsOf(WithNode(tree, at, node), Front(p)) = ClaimsOf(tree, Front(p))
<1>1. p \in Position /\ Len(p) \in Nat /\ Len(p) >= 2
  BY AllOf DEF NodesMade, NodeFits
<1>2. Len(Front(p)) = Len(p) - 1
  BY <1>1, Parent
<1>3. CASE Len(p) <= 2
  <2>1. Len(Front(p)) = 1
    BY <1>1, <1>2, <1>3
  <2>2. QED
    BY <2>1, WithNodeClaims
<1>4. CASE ~(Len(p) <= 2)
  <2>1. Len(p) - 1 \in 2 .. Len(p) - 1
    BY <1>1, <1>4
  <2>2. Front(p) \in DOMAIN tree
    BY <2>1 DEF NodesMade, NodeFits, Front
  <2>3. QED
    BY <2>2, WithNodeClaims
<1>5. QED
  BY <1>3, <1>4

LEMMA NodeMade ==
    ASSUME Given, NEW tree, NEW begun \in 1..Len(answers), NodesMade(tree, begun),
           NEW at, Stands(tree, at, begun), Len(at) > 1, LoopsAt(tree, at, begun),
           NEW node, Proving(tree, at, node)
    PROVE  NodesMade(WithNode(tree, at, node), begun)
<1> DEFINE more == WithNode(tree, at, node)
<1>1. /\ at \in Position /\ Len(at) \in Nat /\ Len(at) >= 2 /\ at[1] = begun /\ begun \in Nat
      /\ at \notin DOMAIN tree
  BY FrontRuns, StandingLoops DEF Stands
<1>2. DOMAIN more = DOMAIN tree \cup {at} /\ more[at] = node
      /\ \A p \in DOMAIN tree : more[p] = tree[p]
  BY <1>1 DEF WithNode
<1>3. ClaimsOf(more, Front(at)) = ClaimsOf(tree, Front(at))
  <2>1. begun \in Nat
    BY <1>1
  <2>2. Len(Front(at)) = 1 \/ Front(at) \in DOMAIN tree
    BY <2>1, FrontRuns, LoopIsNode
  <2>3. QED
    BY <1>1, <2>2, WithNodeClaims
<1>4. ASSUME NEW p \in DOMAIN tree PROVE ClaimsOf(more, Front(p)) = ClaimsOf(tree, Front(p))
  BY <1>1, FrontClaims
<1> HIDE DEF more
<1>5. ASSUME NEW p \in DOMAIN tree PROVE NodeFits(more, p, begun)
  <2>1. NodeFits(tree, p, begun)
    BY DEF NodesMade
  <2>2. /\ p \in DOMAIN more /\ more[p] = tree[p]
        /\ ClaimsOf(more, Front(p)) = ClaimsOf(tree, Front(p))
    BY <1>2, <1>4
  <2>3. \A n \in 2 .. Len(p) - 1 :
           SubSeq(p, 1, n) \in DOMAIN more /\ more[SubSeq(p, 1, n)].kind = "derived"
    BY <1>2, <2>1 DEF NodeFits
  <2>4. QED
    BY <2>1, <2>2, <2>3, Zenon DEF NodeFits
<1>6. \A n \in 2 .. Len(at) - 1 :
         SubSeq(at, 1, n) \in DOMAIN more /\ more[SubSeq(at, 1, n)].kind = "derived"
  BY <1>2 DEF Stands
<1>7. Last(at) <= Len(ClaimsOf(tree, Front(at)))
  BY FrontRuns
<1>8. ClaimsOf(tree, Front(at))[Last(at)] \in Tuples /\ Depth(at) <= options.proofDepth
  BY ClaimFits
<1>9. NodeFits(more, at, begun)
  <2>1. at[1] <= begun
    BY <1>1
  <2>2. node.premisesTruncated \in BOOLEAN /\ ~node.premisesTruncated
    BY DEF Proving
  <2>3. QED
    BY <1>1, <1>2, <1>3, <1>6, <1>7, <1>8, <2>1, <2>2, Zenon DEF NodeFits, Proving
<1>10. QED
  BY <1>2, <1>5, <1>9 DEF NodesMade, more

\* Where the loops are that were there before.
LEMMA OthersDone ==
    ASSUME Given, NEW tree, NEW begun \in 1..Len(answers), NodesMade(tree, begun),
           NEW at, Stands(tree, at, begun), Len(at) > 1, LoopsAt(tree, at, begun),
           NEW node, Proving(tree, at, node)
    PROVE  LET more == WithNode(tree, at, node)
           IN  /\ Stands(more, at, begun)
               /\ \A q \in Loops(tree, begun) :
                     /\ q # at /\ ClaimsOf(more, q) = ClaimsOf(tree, q)
                     /\ IF Running(q, at) THEN Tried(more, q, at[Len(q) + 1])
                        ELSE Ended(more, q)
<1> DEFINE more == WithNode(tree, at, node)
<1>1. /\ at \in Position /\ Len(at) \in Nat /\ Len(at) >= 2 /\ at[1] = begun /\ begun \in Nat
      /\ at \notin DOMAIN tree
  BY FrontRuns, StandingLoops DEF Stands
<1>2. DOMAIN more = DOMAIN tree \cup {at} /\ more[at] = node
      /\ \A p \in DOMAIN tree : more[p] = tree[p]
  BY <1>1 DEF WithNode
<1>3. \A q : Below(more, q) =
                 IF q = Front(at) THEN Below(tree, q) \cup {Last(at)} ELSE Below(tree, q)
  BY <1>1, WithNodeBelow
<1>4. \A q : Len(q) = 1 \/ q \in DOMAIN tree => ClaimsOf(more, q) = ClaimsOf(tree, q)
  BY <1>1, WithNodeClaims
<1> HIDE DEF more
<1>5. \A q \in Loops(tree, begun) : ClaimsOf(more, q) = ClaimsOf(tree, q)
  BY <1>1, <1>4, LoopIsNode
<1>7. Stands(more, at, begun)
  <2>1. \A n \in 2..Len(at) : SubSeq(at, 1, n - 1) \in Loops(tree, begun)
    <3>1. \A n \in 2..Len(at) : n - 1 \in 1 .. Len(at) - 1
      BY <1>1
    <3>2. QED
      BY <3>1, StandingLoops
  <2>2. \A n \in 2..Len(at) :
           ClaimsOf(more, SubSeq(at, 1, n - 1)) = ClaimsOf(tree, SubSeq(at, 1, n - 1))
    BY <1>5, <2>1
  <2>3. QED
    BY <1>2, <2>2 DEF Stands
<1>8. ASSUME NEW q \in Loops(tree, begun)
      PROVE  /\ q # at /\ ClaimsOf(more, q) = ClaimsOf(tree, q)
             /\ IF Running(q, at) THEN Tried(more, q, at[Len(q) + 1]) ELSE Ended(more, q)
  <2>1. q \in Loops(tree, begun) /\ ClaimsOf(more, q) = ClaimsOf(tree, q) /\ q # at
    <3>1. ClaimsOf(more, q) = ClaimsOf(tree, q)
      BY <1>5
    <3>2. Len(q) = 1 \/ q \in DOMAIN tree
      BY <1>1, LoopIsNode
    <3>3. ASSUME q = at PROVE FALSE
      <4>1. Len(at) = 1
        BY <1>1, <3>2, <3>3, Zenon
      <4>2. QED
        BY <1>1, <4>1
    <3>4. QED
      BY <3>1, <3>3
  <2>2. q \in DOMAIN more <=> q \in DOMAIN tree
    BY <1>2, <2>1
  <2>3. q \in DOMAIN tree => more[q].premisesTruncated = tree[q].premisesTruncated
    BY <1>2
  <2>4. CASE q = Front(at)
    <3>1. /\ Running(q, at) /\ Tried(tree, q, Last(at) - 1) /\ Last(at) = at[Len(q) + 1]
          /\ Last(at) \in Nat \ {0}
      BY <2>4, <1>1, FrontRuns
    <3>2. Below(more, q) = (1 .. Last(at) - 1) \cup {Last(at)}
      BY <1>3, <2>4, <3>1 DEF Tried
    <3>3. Below(more, q) = 1..Last(at)
      BY <3>1, <3>2
    <3>4. Tried(more, q, Last(at))
      BY <2>2, <2>3, <3>1, <3>3 DEF Tried
    <3>5. QED
      BY <2>1, <3>1, <3>4
  <2>5. CASE q # Front(at)
    <3>1. Below(more, q) = Below(tree, q)
      BY <1>3, <2>5
    <3>2. CASE Running(q, at)
      <4>1. Len(at) # Len(q) + 1
        <5>1. SUFFICES ASSUME Len(at) = Len(q) + 1 PROVE FALSE
          OBVIOUS
        <5>2. q \in Position /\ Len(q) \in Nat
          BY <2>1, BegunRows, LoopClaims, AllOf
        <5>3. Len(at) - 1 = Len(q)
          BY <5>1, <5>2
        <5>4. Front(at) = q
          BY <3>2, <5>3 DEF Running, Front
        <5>5. QED
          BY <2>5, <5>4
      <4>2. Tried(tree, q, at[Len(q) + 1])
        BY <2>1, <3>2, <4>1 DEF LoopsAt
      <4>3. Tried(more, q, at[Len(q) + 1])
        BY <2>2, <2>3, <3>1, <4>2 DEF Tried
      <4>4. QED
        BY <2>1, <3>2, <4>3
    <3>3. CASE ~Running(q, at)
      <4>1. Ended(tree, q)
        BY <2>1, <3>3 DEF LoopsAt
      <4>2. Ended(more, q)
        BY <2>1, <2>2, <2>3, <3>1, <4>1 DEF Ended
      <4>3. QED
        BY <2>1, <3>3, <4>2
    <3>4. QED
      BY <3>2, <3>3
  <2>6. QED
    BY <2>4, <2>5
<1>9. QED
  BY <1>7, <1>8 DEF more

\* A node that ends there: all is done below its position.
LEMMA LeafDone ==
    ASSUME Given, NEW tree, NEW begun \in 1..Len(answers), NodesMade(tree, begun),
           NEW at, Stands(tree, at, begun), Len(at) > 1, LoopsAt(tree, at, begun),
           NEW node, Proving(tree, at, node), node.kind # "derived"
    PROVE  LET more == WithNode(tree, at, node)
           IN  /\ Loops(more, begun) = Loops(tree, begun)
               /\ Stands(more, at, begun) /\ LoopsPast(more, at, begun)
               /\ \A q \in Loops(more, begun) : ClaimsOf(more, q) = ClaimsOf(tree, q)
<1> DEFINE more == WithNode(tree, at, node)
<1>1. Loops(more, begun) = Loops(tree, begun)
  <2>1. at \notin DOMAIN tree
    BY FrontRuns
  <2>2. DOMAIN more = DOMAIN tree \cup {at} /\ more[at] = node
        /\ \A p \in DOMAIN tree : more[p] = tree[p]
    BY <2>1 DEF WithNode
  <2> HIDE DEF more
  <2>3. QED
    BY <2>1, <2>2 DEF Loops
<1>2. /\ Stands(more, at, begun)
      /\ \A q \in Loops(tree, begun) :
            /\ ClaimsOf(more, q) = ClaimsOf(tree, q)
            /\ IF Running(q, at) THEN Tried(more, q, at[Len(q) + 1]) ELSE Ended(more, q)
  BY OthersDone
<1> HIDE DEF more
<1>3. QED
  BY <1>1, <1>2 DEF LoopsPast, more

\* A node that derives its tuple: its premises come next.
LEMMA PremisesNext ==
    ASSUME Given, NEW tree, NEW begun \in 1..Len(answers), NodesMade(tree, begun),
           NEW at, Stands(tree, at, begun), Len(at) > 1, LoopsAt(tree, at, begun),
           NEW node, Proving(tree, at, node), node.kind = "derived"
    PROVE  LET more == WithNode(tree, at, node)
           IN  Stands(more, Append(at, 1), begun) /\ LoopsAt(more, Append(at, 1), begun)
<1> DEFINE more == WithNode(tree, at, node)
<1> DEFINE next == Append(at, 1)
<1>1. /\ at \in Position /\ Len(at) \in Nat /\ Len(at) >= 2 /\ at[1] = begun /\ begun \in Nat
      /\ at \notin DOMAIN tree /\ Len(Front(at)) = Len(at) - 1
      /\ \A p \in DOMAIN tree : Front(p) # at
  BY FrontRuns, StandingLoops DEF Stands
<1>2. DOMAIN more = DOMAIN tree \cup {at} /\ more[at] = node
      /\ \A p \in DOMAIN tree : more[p] = tree[p]
  BY <1>1 DEF WithNode
<1>3. /\ Stands(more, at, begun)
      /\ \A q \in Loops(tree, begun) :
            /\ q # at /\ ClaimsOf(more, q) = ClaimsOf(tree, q)
            /\ IF Running(q, at) THEN Tried(more, q, at[Len(q) + 1]) ELSE Ended(more, q)
  BY OthersDone
<1>4. NodesMade(more, begun)
  BY NodeMade
<1>5. Below(more, at) = {}
  <2>1. Front(at) # at
    BY <1>1
  <2>2. Below(more, at) = Below(tree, at)
    BY <1>1, <2>1, WithNodeBelow
  <2> HIDE DEF more
  <2>3. QED
    BY <1>1, <2>2 DEF Below
<1>6. /\ next \in Position /\ Len(next) = Len(at) + 1
      /\ next[Len(next)] = 1 /\ \A i \in 1..Len(at) : next[i] = at[i]
      /\ \A i \in 0..Len(at) : SubSeq(next, 1, i) = SubSeq(at, 1, i)
      /\ SubSeq(at, 1, Len(at)) = at
  <2>1. 1 \in Nat \ {0}
    OBVIOUS
  <2>2. QED
    BY <1>1, <2>1, Extend, AllOf
<1> HIDE DEF more, next
<1>7. Loops(more, begun) = Loops(tree, begun) \cup {at}
  BY <1>1, <1>2 DEF Loops, Proving
<1>8. Len(ClaimsOf(more, at)) \in Nat \ {0}
  BY <1>4, <1>7, BegunRows, LoopClaims
<1>9. Stands(more, next, begun)
  <2>1. ASSUME NEW n \in 2 .. Len(next) - 1
        PROVE  SubSeq(next, 1, n) \in DOMAIN more /\ more[SubSeq(next, 1, n)].kind = "derived"
    <3>1. n \in 0..Len(at)
      BY <1>1, <1>6
    <3>2. SubSeq(next, 1, n) = SubSeq(at, 1, n)
      BY <1>6, <3>1
    <3>3. CASE n = Len(at)
      BY <1>2, <1>6, <3>2, <3>3
    <3>4. CASE n # Len(at)
      <4>1. n \in 2 .. Len(at) - 1
        BY <1>1, <1>6, <3>4
      <4>2. QED
        BY <1>3, <3>2, <4>1 DEF Stands
    <3>5. QED
      BY <3>3, <3>4
  <2>2. ASSUME NEW n \in 2..Len(next)
        PROVE  next[n] <= Len(ClaimsOf(more, SubSeq(next, 1, n - 1)))
    <3>1. n - 1 \in 0..Len(at)
      BY <1>1, <1>6
    <3>2. SubSeq(next, 1, n - 1) = SubSeq(at, 1, n - 1)
      BY <1>6, <3>1
    <3>3. CASE n = Len(next)
      <4>1. n - 1 = Len(at)
        BY <1>1, <1>6, <3>3
      <4>2. SubSeq(next, 1, n - 1) = at /\ next[n] = 1
        BY <1>6, <3>2, <3>3, <4>1
      <4>3. 1 <= Len(ClaimsOf(more, at))
        BY <1>8
      <4>4. QED
        BY <4>2, <4>3, Zenon
    <3>4. CASE n # Len(next)
      <4>1. n \in 2..Len(at) /\ n \in 1..Len(at)
        BY <1>1, <1>6, <3>4
      <4>2. next[n] = at[n]
        BY <1>6, <4>1
      <4>3. at[n] <= Len(ClaimsOf(more, SubSeq(at, 1, n - 1)))
        BY <1>3, <4>1 DEF Stands
      <4>4. QED
        BY <3>2, <4>2, <4>3
    <3>5. QED
      BY <3>3, <3>4
  <2>3. next[1] = begun /\ Len(next) >= 1
    BY <1>1, <1>6
  <2>4. QED
    BY <1>6, <2>1, <2>2, <2>3 DEF Stands
<1>10. ASSUME NEW q \in Loops(more, begun)
       PROVE  IF Running(q, next)
              THEN Tried(more, q, IF Len(next) = Len(q) + 1 THEN next[Len(q) + 1] - 1
                                  ELSE next[Len(q) + 1])
              ELSE Ended(more, q)
  <2>1. CASE q = at
    <3>1. Running(q, next)
      BY <1>1, <1>6, <2>1 DEF Running
    <3>2. Len(next) = Len(q) + 1 /\ next[Len(q) + 1] - 1 = 0
      BY <1>6, <2>1
    <3>3. Tried(more, q, 0)
      BY <1>2, <1>5, <2>1 DEF Tried, Proving
    <3>4. QED
      BY <3>1, <3>2, <3>3
  <2>2. CASE q # at
    <3>1. q \in Loops(tree, begun)
      BY <1>7, <2>2
    <3>2. IF Running(q, at) THEN Tried(more, q, at[Len(q) + 1]) ELSE Ended(more, q)
      BY <1>3, <3>1
    <3>3. q \in Position /\ Len(q) \in Nat
      BY <3>1, BegunRows, LoopClaims, AllOf
    <3>4. CASE Running(q, next)
      <4>1. Len(q) < Len(next) /\ SubSeq(next, 1, Len(q)) = q
        BY <3>4 DEF Running
      <4>2. Len(q) \in 0..Len(at)
        BY <1>1, <1>6, <3>3, <4>1
      <4>3. SubSeq(at, 1, Len(q)) = q
        BY <1>6, <4>1, <4>2, SMTT(30)
      <4>4. Len(q) # Len(at)
        BY <1>6, <2>2, <4>3
      <4>5. Len(q) < Len(at) /\ Running(q, at)
        <5>1. Len(q) < Len(at)
          BY <1>1, <3>3, <4>2, <4>4
        <5>2. QED
          BY <4>3, <5>1 DEF Running
      <4>6. Len(q) + 1 \in 1..Len(at) /\ Len(next) # Len(q) + 1
        BY <1>1, <1>6, <3>3, <4>5
      <4>7. next[Len(q) + 1] = at[Len(q) + 1]
        BY <1>6, <4>6
      <4>8. QED
        BY <3>2, <3>4, <4>5, <4>6, <4>7
    <3>5. CASE ~Running(q, next)
      <4>1. ~Running(q, at)
        <5>1. SUFFICES ASSUME Running(q, at) PROVE FALSE
          OBVIOUS
        <5>2. Len(q) < Len(at) /\ SubSeq(at, 1, Len(q)) = q /\ Len(q) \in 0..Len(at)
          BY <1>1, <3>3, <5>1 DEF Running
        <5>3. Len(q) < Len(next) /\ SubSeq(next, 1, Len(q)) = q
          BY <1>1, <1>6, <5>2
        <5>4. QED
          BY <3>5, <5>3 DEF Running
      <4>2. QED
        BY <3>2, <3>5, <4>1
    <3>6. QED
      BY <3>4, <3>5
  <2>3. QED
    BY <2>1, <2>2
<1>11. QED
  BY <1>9, <1>10 DEF LoopsAt, more, next

-----------------------------------------------------------------------------
(* A loop is cut.                                                          *)

CutAt(tree, q) ==
    [p \in DOMAIN tree |->
        IF p = q THEN [tree[p] EXCEPT !.premisesTruncated = TRUE] ELSE tree[p]]

\* A cut is all that changes.
OnlyCut(tree, q, cut) ==
    /\ DOMAIN cut = DOMAIN tree
    /\ \A p \in DOMAIN tree :
          /\ DOMAIN cut[p] = NodeFields
          /\ cut[p].kind = tree[p].kind
          /\ cut[p].reference = tree[p].reference
          /\ cut[p].lanes = tree[p].lanes
          /\ cut[p].rule = tree[p].rule
          /\ cut[p].premisesTruncated = IF p = q THEN TRUE ELSE tree[p].premisesTruncated

LEMMA CutFields ==
    ASSUME NEW tree, NEW begun, NodesMade(tree, begun), NEW q
    PROVE  OnlyCut(tree, q, CutAt(tree, q))
<1> DEFINE cut == CutAt(tree, q)
<1>1. DOMAIN cut = DOMAIN tree
      /\ \A p \in DOMAIN tree :
            cut[p] = IF p = q THEN [tree[p] EXCEPT !.premisesTruncated = TRUE] ELSE tree[p]
  BY DEF CutAt
<1> HIDE DEF cut
<1>2. ASSUME NEW p \in DOMAIN tree
      PROVE  /\ DOMAIN cut[p] = NodeFields
             /\ cut[p].kind = tree[p].kind
             /\ cut[p].reference = tree[p].reference
             /\ cut[p].lanes = tree[p].lanes
             /\ cut[p].rule = tree[p].rule
             /\ cut[p].premisesTruncated = IF p = q THEN TRUE ELSE tree[p].premisesTruncated
  <2>1. DOMAIN tree[p] = NodeFields
    BY DEF NodesMade, NodeFits
  <2>2. CASE p = q
    <3>1. cut[p] = [tree[p] EXCEPT !.premisesTruncated = TRUE]
      BY <1>1, <2>2
    <3>2. QED
      BY <2>1, <2>2, <3>1 DEF NodeFields
  <2>3. CASE p # q
    <3>1. cut[p] = tree[p]
      BY <1>1, <2>3
    <3>2. QED
      BY <2>1, <2>3, <3>1
  <2>4. QED
    BY <2>2, <2>3
<1>3. QED
  BY <1>1, <1>2 DEF OnlyCut, cut

LEMMA CutDone ==
    ASSUME Given, NEW tree, NEW begun \in 1..Len(answers), NodesMade(tree, begun),
           NEW at, Stands(tree, at, begun), Len(at) > 1, LoopsAt(tree, at, begun)
    PROVE  LET cut == CutAt(tree, Front(at))
           IN  /\ NodesMade(cut, begun) /\ Loops(cut, begun) = Loops(tree, begun)
               /\ \A q \in Loops(cut, begun) : ClaimsOf(cut, q) = ClaimsOf(tree, q)
               /\ Stands(cut, Front(at), begun) /\ LoopsPast(cut, Front(at), begun)
<1> DEFINE c == Front(at)
<1> DEFINE cut == CutAt(tree, c)
<1>1. /\ at \in Position /\ Len(at) \in Nat /\ Len(at) >= 2 /\ at[1] = begun /\ begun \in Nat
      /\ c \in Position /\ Len(c) = Len(at) - 1
      /\ \A i \in 1..Len(c) : c[i] = at[i]
      /\ \A i \in 0..Len(c) : SubSeq(c, 1, i) = SubSeq(at, 1, i)
  BY StandingLoops, Parent DEF Stands
<1>2. /\ c \in Loops(tree, begun) /\ Tried(tree, c, Last(at) - 1)
      /\ Last(at) \in Nat \ {0} /\ Last(at) <= Len(ClaimsOf(tree, c))
  BY FrontRuns
<1>3. OnlyCut(tree, c, cut)
  BY CutFields
<1> HIDE DEF cut, c
<1>4. Loops(cut, begun) = Loops(tree, begun) /\ \A q : Below(cut, q) = Below(tree, q)
  BY <1>3 DEF Loops, Below, OnlyCut
<1>5. \A q : Len(q) = 1 \/ q \in DOMAIN tree => ClaimsOf(cut, q) = ClaimsOf(tree, q)
  BY <1>3, Zenon DEF ClaimsOf, OnlyCut
<1>6. \A q \in Loops(tree, begun) : ClaimsOf(cut, q) = ClaimsOf(tree, q)
  BY <1>1, <1>5, LoopIsNode
<1>7. NodesMade(cut, begun)
  <2>1. SUFFICES ASSUME NEW p \in DOMAIN tree PROVE NodeFits(cut, p, begun)
    BY <1>3 DEF NodesMade, OnlyCut
  <2>2. NodeFits(tree, p, begun)
    BY DEF NodesMade
  <2>3. p \in Position /\ Len(p) \in Nat /\ Len(p) >= 2
    BY <2>2, AllOf DEF NodeFits
  <2>4. Len(Front(p)) = 1 \/ Front(p) \in DOMAIN tree
    <3>1. CASE Len(p) <= 2
      <4>1. Len(Front(p)) = Len(p) - 1
        BY <2>3, Parent
      <4>2. Len(Front(p)) = 1
        BY <2>3, <3>1, <4>1
      <4>3. QED
        BY <4>2, Zenon
    <3>2. CASE ~(Len(p) <= 2)
      <4>1. Len(p) - 1 \in 2 .. Len(p) - 1
        BY <2>3, <3>2
      <4>2. QED
        BY <2>2, <4>1 DEF NodeFits, Front
    <3>3. QED
      BY <3>1, <3>2
  <2>5. ClaimsOf(cut, Front(p)) = ClaimsOf(tree, Front(p))
    BY <1>5, <2>4
  <2>6. \A n \in 2 .. Len(p) - 1 :
           SubSeq(p, 1, n) \in DOMAIN cut /\ cut[SubSeq(p, 1, n)].kind = "derived"
    BY <1>3, <2>2 DEF NodeFits, OnlyCut
  <2>7. cut[p].premisesTruncated \in BOOLEAN
        /\ (cut[p].kind # "derived" => ~cut[p].premisesTruncated)
    <3>1. CASE p = c
      <4>1. cut[p].premisesTruncated = TRUE
        BY <1>3, <3>1 DEF OnlyCut
      <4>2. Len(c) # 1
        <5>1. SUFFICES ASSUME Len(c) = 1 PROVE FALSE
          OBVIOUS
        <5>2. QED
          BY <2>3, <3>1, <5>1
      <4>3. tree[p].kind = "derived"
        BY <1>1, <1>2, <3>1, <4>2, LoopIsNode
      <4>4. QED
        BY <1>3, <4>1, <4>3 DEF OnlyCut
    <3>2. CASE p # c
      BY <1>3, <2>2, <3>2 DEF NodeFits, OnlyCut
    <3>3. QED
      BY <3>1, <3>2
  <2>8. QED
    BY <1>3, <2>2, <2>5, <2>6, <2>7, Zenon DEF NodeFits, OnlyCut
<1>8. Stands(cut, c, begun)
  <2>1. ASSUME NEW n \in 2 .. Len(c) - 1
        PROVE  SubSeq(c, 1, n) \in DOMAIN cut /\ cut[SubSeq(c, 1, n)].kind = "derived"
    <3>1. n \in 0..Len(c) /\ n \in 2 .. Len(at) - 1
      BY <1>1
    <3>2. QED
      BY <1>1, <1>3, <3>1 DEF Stands, OnlyCut
  <2>2. ASSUME NEW n \in 2..Len(c)
        PROVE  c[n] <= Len(ClaimsOf(cut, SubSeq(c, 1, n - 1)))
    <3>1. /\ n \in 1..Len(c) /\ n - 1 \in 0..Len(c) /\ n \in 2..Len(at)
          /\ n - 1 \in 1 .. Len(at) - 1
      BY <1>1
    <3>2. at[n] <= Len(ClaimsOf(tree, SubSeq(at, 1, n - 1)))
      BY <3>1 DEF Stands
    <3>3. SubSeq(at, 1, n - 1) \in Loops(tree, begun)
      BY <3>1, StandingLoops
    <3>4. QED
      BY <1>1, <1>6, <3>1, <3>2, <3>3
  <2>3. c[1] = begun /\ Len(c) >= 1
    <3>1. Len(c) >= 1 /\ 1 \in 1..Len(c)
      BY <1>1
    <3>2. QED
      BY <1>1, <3>1
  <2>4. QED
    BY <1>1, <2>1, <2>2, <2>3 DEF Stands
<1>9. ASSUME NEW q \in Loops(tree, begun)
      PROVE  IF Running(q, c) THEN Tried(cut, q, c[Len(q) + 1]) ELSE Ended(cut, q)
  <2>1. q \in Position /\ Len(q) \in Nat /\ Len(q) >= 1 /\ Len(ClaimsOf(tree, q)) \in Nat
    BY BegunRows, LoopClaims, AllOf
  <2>2. CASE q = c
    <3>1. ~Running(q, c)
      BY <2>1, <2>2 DEF Running
    <3>2. /\ Last(at) - 1 \in 0..Len(ClaimsOf(tree, q))
          /\ Last(at) - 1 < Len(ClaimsOf(tree, q))
      BY <1>2, <2>1, <2>2
    <3>3. Below(cut, q) = 1 .. Last(at) - 1
      BY <1>2, <1>4, <2>2 DEF Tried
    <3>4. q \in DOMAIN cut => cut[q].premisesTruncated = TRUE
      BY <1>3, <2>2 DEF OnlyCut
    <3>5. Ended(cut, q)
      BY <1>6, <3>2, <3>3, <3>4 DEF Ended
    <3>6. QED
      BY <3>1, <3>5
  <2>3. CASE q # c
    <3>1. q \in DOMAIN cut <=> q \in DOMAIN tree
      BY <1>3 DEF OnlyCut
    <3>2. q \in DOMAIN tree => cut[q].premisesTruncated = tree[q].premisesTruncated
      BY <1>3, <2>3 DEF OnlyCut
    <3>3. CASE Running(q, c)
      <4>1. Len(q) < Len(c) /\ SubSeq(c, 1, Len(q)) = q
        BY <3>3 DEF Running
      <4>2. /\ Len(q) \in 0..Len(c) /\ Len(q) + 1 \in 1..Len(c) /\ Len(at) # Len(q) + 1
            /\ Len(q) < Len(at)
        BY <1>1, <2>1, <4>1
      <4>3. Running(q, at)
        BY <1>1, <4>1, <4>2 DEF Running
      <4>4. Tried(tree, q, at[Len(q) + 1])
        BY <4>2, <4>3 DEF LoopsAt
      <4>5. at[Len(q) + 1] = c[Len(q) + 1]
        BY <1>1, <4>2
      <4>6. Tried(cut, q, c[Len(q) + 1])
        BY <1>4, <3>1, <3>2, <4>4, <4>5 DEF Tried
      <4>7. QED
        BY <3>3, <4>6
    <3>4. CASE ~Running(q, c)
      <4>1. ~Running(q, at)
        <5>1. SUFFICES ASSUME Running(q, at) PROVE FALSE
          OBVIOUS
        <5>2. Len(q) < Len(at) /\ SubSeq(at, 1, Len(q)) = q
          BY <5>1 DEF Running
        <5>3. Len(q) \in 0..Len(c)
          BY <1>1, <2>1, <5>2
        <5>4. SubSeq(c, 1, Len(q)) = q
          BY <1>1, <5>2, <5>3
        <5>5. Len(q) # Len(c)
          <6>1. SubSeq(c, 1, Len(c)) = c
            BY <1>1, AllOf
          <6>2. SUFFICES ASSUME Len(q) = Len(c) PROVE FALSE
            OBVIOUS
          <6>3. QED
            BY <2>3, <5>4, <6>1, <6>2, Zenon
        <5>6. Len(q) < Len(c)
          BY <1>1, <2>1, <5>3, <5>5
        <5>7. QED
          BY <3>4, <5>4, <5>6 DEF Running
      <4>2. Ended(tree, q)
        BY <4>1 DEF LoopsAt
      <4>3. Ended(cut, q)
        BY <1>4, <1>6, <3>1, <3>2, <4>2 DEF Ended
      <4>4. QED
        BY <3>4, <4>3
    <3>5. QED
      BY <3>3, <3>4
  <2>4. QED
    BY <2>2, <2>3
<1>10. QED
  BY <1>4, <1>6, <1>7, <1>8, <1>9 DEF LoopsPast, cut, c

-----------------------------------------------------------------------------
(* Rows begin and end, and no proof goes round in circles.                 *)

LEMMA LoopsBegun ==
    ASSUME NEW tree, NEW begun \in Nat, NodesMade(tree, begun), NEW q \in Loops(tree, begun)
    PROVE  q[1] <= begun /\ q \in Position
<1>1. CASE q \in {<<i>> : i \in 1..begun}
  <2>1. PICK i \in 1..begun : q = <<i>>
    BY <1>1
  <2>2. i \in Nat \ {0} /\ i <= begun
    BY <2>1
  <2>3. <<i>> \in Seq(Nat \ {0}) /\ <<i>>[1] = i
    BY <2>2
  <2>4. QED
    BY <2>1, <2>2, <2>3 DEF Position
<1>2. CASE q \in {p \in DOMAIN tree : tree[p].kind = "derived"}
  BY <1>2 DEF NodesMade, NodeFits
<1>3. QED
  BY <1>1, <1>2 DEF Loops

LEMMA RowStarts ==
    ASSUME Given, NEW tree, NEW begun \in Nat, begun + 1 \in 1..Len(answers),
           NodesMade(tree, begun), \A q \in Loops(tree, begun) : Ended(tree, q)
    PROVE  /\ NodesMade(tree, begun + 1)
           /\ Stands(tree, <<begun + 1, 1>>, begun + 1)
           /\ LoopsAt(tree, <<begun + 1, 1>>, begun + 1)
<1> DEFINE at == <<begun + 1, 1>>
<1> DEFINE row == <<begun + 1>>
<1>1. /\ at \in Position /\ Len(at) = 2 /\ at[1] = begun + 1 /\ at[2] = 1
      /\ row \in Position /\ Len(row) = 1 /\ row[1] = begun + 1
  BY DEF Position
<1>2. /\ Len(at) = Len(row) + 1 /\ Len(row) \in Nat /\ at[Len(row) + 1] = 1
      /\ SubSeq(at, 1, Len(row)) = row
  <2>1. at = Append(row, 1)
    OBVIOUS
  <2>2. 1 \in Nat \ {0}
    OBVIOUS
  <2> HIDE DEF at, row
  <2>3. Len(row) \in Nat /\ SubSeq(row, 1, Len(row)) = row /\ Len(row) \in 0..Len(row)
    BY <1>1, AllOf
  <2>4. LET q == Append(row, 1)
        IN  /\ Len(q) = Len(row) + 1 /\ q[Len(q)] = 1
            /\ \A i \in 0..Len(row) : SubSeq(q, 1, i) = SubSeq(row, 1, i)
    BY <1>1, <2>2, Extend
  <2>5. QED
    BY <2>1, <2>3, <2>4
<1> HIDE DEF at, row
<1>3. NodesMade(tree, begun + 1)
  <2>1. ASSUME NEW p \in DOMAIN tree PROVE NodeFits(tree, p, begun + 1)
    <3>1. NodeFits(tree, p, begun)
      BY DEF NodesMade
    <3>2. p \in Position /\ Len(p) >= 2 /\ p[1] <= begun
      BY <3>1 DEF NodeFits
    <3>3. Len(p) \in Nat
      BY <3>2, AllOf
    <3>4. 1 \in 1..Len(p)
      BY <3>2, <3>3
    <3>5. p[1] \in Nat
      BY <3>2, <3>4, AllOf
    <3>6. p[1] <= begun + 1
      BY <3>2, <3>5
    <3>7. QED
      BY <3>1, <3>6, Zenon DEF NodeFits
  <2>2. QED
    BY <2>1 DEF NodesMade
<1>4. Loops(tree, begun + 1) = Loops(tree, begun) \cup {row}
  <2>1. 1 .. begun + 1 = (1..begun) \cup {begun + 1}
    OBVIOUS
  <2>2. QED
    BY <2>1, Zenon DEF Loops, row
<1>5. Below(tree, row) = {} /\ row \notin DOMAIN tree
  <2>1. ASSUME NEW p \in DOMAIN tree PROVE Front(p) # row /\ p # row
    <3>1. p \in Position /\ Len(p) >= 2 /\ p[1] <= begun
      BY DEF NodesMade, NodeFits
    <3>2. Len(p) \in Nat
      BY <3>1, AllOf
    <3>3. 1 \in 1..Len(p) - 1 /\ 1 \in 1..Len(p)
      BY <3>1, <3>2
    <3>4. p[1] \in Nat /\ Front(p)[1] = p[1]
      BY <3>1, <3>3, AllOf, Parent
    <3>5. QED
      BY <1>1, <3>1, <3>4
  <2>2. QED
    BY <2>1 DEF Below
<1>6. Stands(tree, at, begun + 1)
  <2>1. row \in Loops(tree, begun + 1)
    BY <1>4
  <2>2. Len(ClaimsOf(tree, row)) \in Nat \ {0}
    BY <1>3, <2>1, BegunRows, LoopClaims
  <2>3. 1 <= Len(ClaimsOf(tree, row))
    BY <2>2
  <2>4. ASSUME NEW n \in 2..Len(at) PROVE at[n] <= Len(ClaimsOf(tree, SubSeq(at, 1, n - 1)))
    <3>1. n = 2 /\ n - 1 = 1
      BY <1>1
    <3>2. at[n] = 1 /\ n - 1 = Len(row)
      BY <1>1, <3>1
    <3>3. SubSeq(at, 1, n - 1) = row
      BY <1>2, <3>2
    <3>4. QED
      BY <2>3, <3>2, <3>3, Zenon
  <2>5. Len(at) >= 1 /\ 2 .. Len(at) - 1 = {}
    BY <1>1
  <2>6. QED
    BY <1>1, <2>4, <2>5 DEF Stands
<1>7. ASSUME NEW q \in Loops(tree, begun + 1)
      PROVE  IF Running(q, at)
             THEN Tried(tree, q, IF Len(at) = Len(q) + 1 THEN at[Len(q) + 1] - 1
                                 ELSE at[Len(q) + 1])
             ELSE Ended(tree, q)
  <2>1. CASE q = row
    <3>1. Running(q, at) /\ Len(at) = Len(q) + 1 /\ at[Len(q) + 1] - 1 = 0
      BY <1>2, <2>1 DEF Running
    <3>2. Tried(tree, q, 0)
      BY <1>5, <2>1 DEF Tried
    <3>3. QED
      BY <3>1, <3>2
  <2>2. CASE q # row
    <3>1. q \in Loops(tree, begun)
      BY <1>4, <2>2
    <3>2. q \in Position /\ Len(q) \in Nat /\ Len(q) >= 1
      BY <1>3, BegunRows, LoopClaims, AllOf
    <3>3. ~Running(q, at)
      <4>1. SUFFICES ASSUME Running(q, at) PROVE FALSE
        OBVIOUS
      <4>2. Len(q) < Len(at) /\ SubSeq(at, 1, Len(q)) = q
        BY <4>1 DEF Running
      <4>3. Len(q) = Len(row)
        BY <1>1, <3>2, <4>2
      <4>4. QED
        BY <1>2, <2>2, <4>2, <4>3
    <3>4. QED
      BY <3>1, <3>3
  <2>3. QED
    BY <2>1, <2>2
<1>8. QED
  BY <1>3, <1>6, <1>7 DEF LoopsAt, at

LEMMA RowEnds ==
    ASSUME Given, NEW tree, NEW begun \in 1..Len(answers), NodesMade(tree, begun),
           NEW at, ~(Len(at) > 1), Len(at) \in Nat, LoopsAt(tree, at, begun)
    PROVE  \A q \in Loops(tree, begun) : Ended(tree, q)
<1>1. ASSUME NEW q \in Loops(tree, begun) PROVE Ended(tree, q)
  <2>1. Len(q) \in Nat /\ Len(q) >= 1
    BY BegunRows, LoopClaims, AllOf
  <2>2. ~Running(q, at)
    BY <2>1 DEF Running
  <2>3. QED
    BY <2>2 DEF LoopsAt
<1>2. QED
  BY <1>1

\* A claim is of no tuple that a node above it proves.
LEMMA NotVisited ==
    ASSUME Given, NoCircularSupport,
           NEW tree, NEW begun \in 1..Len(answers), NodesMade(tree, begun),
           NEW at, Stands(tree, at, begun), Len(at) > 1, LoopsAt(tree, at, begun)
    PROVE  ClaimsOf(tree, Front(at))[Last(at)] \notin
             {tree[SubSeq(at, 1, n)].reference : n \in 2 .. Len(at) - 1}
<1> DEFINE claim == ClaimsOf(tree, Front(at))[Last(at)]
<1>1. SUFFICES ASSUME NEW m \in 2 .. Len(at) - 1, claim = tree[SubSeq(at, 1, m)].reference
               PROVE  FALSE
  OBVIOUS
<1> DEFINE S == {tree[SubSeq(at, 1, n)].reference : n \in m .. Len(at) - 1}
<1>2. /\ at \in Position /\ Len(at) \in Nat /\ Last(at) = at[Len(at)]
      /\ \A n \in 1..Len(at) : at[n] \in Nat \ {0}
  BY StandingLoops, FrontRuns
<1>3. \A n \in m .. Len(at) - 1 :
         /\ n \in 2 .. Len(at) - 1
         /\ SubSeq(at, 1, n) \in DOMAIN tree /\ tree[SubSeq(at, 1, n)].kind = "derived"
  BY <1>2 DEF Stands
<1>4. \A n \in m .. Len(at) - 1 :
         /\ tree[SubSeq(at, 1, n)].reference \in Tuples
         /\ known[tree[SubSeq(at, 1, n)].reference].kind = "derived"
  BY <1>3 DEF NodesMade, NodeFits
<1>5. claim \in S /\ S \in SUBSET Tuples
  BY <1>1, <1>2, <1>4
<1>6. ASSUME NEW n \in m .. Len(at) - 1
      PROVE  LET premises == known[tree[SubSeq(at, 1, n)].reference].premises
             IN  at[n + 1] \in DOMAIN premises /\ premises[at[n + 1]] \in S
  <2> DEFINE q == SubSeq(at, 1, n)
  <2>1. /\ n \in 1 .. Len(at) - 1 /\ n + 1 \in 1..Len(at) /\ n \in 0..Len(at)
        /\ q \in DOMAIN tree
    BY <1>2, <1>3
  <2>2. /\ q \in Loops(tree, begun) /\ Len(q) = n
        /\ at[n + 1] <= Len(ClaimsOf(tree, q))
    BY <2>1, StandingLoops
  <2>3. ClaimsOf(tree, q) \in Seq(Tuples)
    <3> HIDE DEF q
    <3>1. QED
      BY <2>2, BegunRows, LoopClaims
  <2>4. ClaimsOf(tree, q) = known[tree[q].reference].premises
    <3>1. Len(q) # 1
      <4>1. SUFFICES ASSUME Len(q) = 1 PROVE FALSE
        OBVIOUS
      <4>2. QED
        BY <1>3, <2>2, <4>1
    <3>2. QED
      BY <3>1, Zenon DEF ClaimsOf
  <2>5. at[n + 1] \in DOMAIN ClaimsOf(tree, q)
    <3>1. /\ Len(ClaimsOf(tree, q)) \in Nat
          /\ DOMAIN ClaimsOf(tree, q) = 1..Len(ClaimsOf(tree, q))
      BY <2>3, LenProperties
    <3>2. at[n + 1] \in Nat \ {0}
      BY <1>2, <2>1
    <3>3. QED
      BY <2>2, <3>1, <3>2
  <2>6. ClaimsOf(tree, q)[at[n + 1]] \in S
    <3>1. CASE n = Len(at) - 1
      <4>1. q = Front(at) /\ n + 1 = Len(at)
        BY <1>2, <3>1 DEF Front
      <4>2. ClaimsOf(tree, q)[at[n + 1]] = claim
        BY <1>2, <4>1
      <4>3. QED
        BY <1>5, <4>2
    <3>2. CASE n # Len(at) - 1
      <4> DEFINE p == SubSeq(at, 1, n + 1)
      <4>1. n + 1 \in m .. Len(at) - 1 /\ n + 1 \in 0..Len(at) /\ n \in 0..n + 1 /\ (n + 1) - 1 = n
            /\ n + 1 \in 1..n + 1
        BY <1>2, <2>1, <3>2
      <4>2. /\ p \in Position /\ Len(p) = n + 1 /\ p[n + 1] = at[n + 1]
            /\ SubSeq(p, 1, n) = q
        BY <1>2, <4>1, UpTo
      <4>3. Front(p) = q /\ Last(p) = at[n + 1]
        BY <4>1, <4>2 DEF Front, Last
      <4>4. p \in DOMAIN tree
        BY <1>3, <4>1
      <4>5. tree[p].reference = ClaimsOf(tree, q)[at[n + 1]]
        BY <4>3, <4>4 DEF NodesMade, NodeFits
      <4>6. QED
        BY <4>1, <4>5
    <3>3. QED
      BY <3>1, <3>2
  <2>7. QED
    BY <2>4, <2>5, <2>6
<1>7. PICK t \in S : known[t].kind = "fact" \/ \A i \in DOMAIN known[t].premises : known[t].premises[i] \notin S
  BY <1>5 DEF NoCircularSupport
<1>8. PICK n \in m .. Len(at) - 1 : t = tree[SubSeq(at, 1, n)].reference
  OBVIOUS
<1>9. QED
  BY <1>4, <1>6, <1>7, <1>8

-----------------------------------------------------------------------------
(* Rows that are done stay as they are.                                    *)

LEMMA PrefixOf ==
    ASSUME NEW p \in Position, NEW q \in Position
    PROVE  IsPrefix(q, p) <=> Len(q) <= Len(p) /\ SubSeq(p, 1, Len(q)) = q
<1>1. SubSeq(q, 1, Len(q)) = q
  BY AllOf
<1>2. QED
  BY <1>1 DEF IsPrefix

LEMMA FirstOfPrefix ==
    ASSUME NEW p \in Position, NEW q \in Position, IsPrefix(q, p), Len(q) >= 1
    PROVE  p[1] = q[1]
<1>1. Len(q) \in Nat /\ Len(p) \in Nat
  BY AllOf
<1>2. Len(q) <= Len(p) /\ SubSeq(p, 1, Len(q)) = q
  BY PrefixOf
<1>3. Len(q) \in 0..Len(p) /\ 1 \in 1..Len(q)
  BY <1>1, <1>2
<1>4. SubSeq(p, 1, Len(q))[1] = p[1]
  BY <1>3, UpTo
<1>5. QED
  BY <1>2, <1>4

RowIn(tree, i) ==
    [values |-> answers[i].values, supportCount |-> answers[i].supportCount,
     proofsTruncated |->
        \/ Cardinality(Below(tree, <<i>>)) # Len(answers[i].match)
        \/ \E n \in Below(tree, <<i>>) : Truncated(tree, <<i, n>>)]

LEMMA PairPosition ==
    ASSUME NEW i \in Nat \ {0}, NEW n \in Nat \ {0}
    PROVE  /\ <<i>> \in Position /\ Len(<<i>>) >= 1 /\ <<i>>[1] = i
           /\ <<i, n>> \in Position /\ Len(<<i, n>>) >= 1 /\ <<i, n>>[1] = i
           /\ <<i, n>> = Append(<<i>>, n)
<1>1. <<i>> \in Position /\ <<i, n>> \in Position
  BY DEF Position
<1>2. Len(<<i>>) >= 1 /\ Len(<<i, n>>) >= 1
  OBVIOUS
<1>3. <<i>>[1] = i /\ <<i, n>>[1] = i
  OBVIOUS
<1>4. <<i, n>> = Append(<<i>>, n)
  OBVIOUS
<1>5. QED
  BY <1>1, <1>2, <1>3, <1>4

LEMMA BelowNumbers ==
    ASSUME NEW tree, NEW begun, NodesMade(tree, begun), NEW q, NEW n \in Below(tree, q)
    PROVE  n \in Nat \ {0}
<1>1. PICK p \in DOMAIN tree : Front(p) = q /\ n = Last(p)
  BY DEF Below
<1>2. p \in Position /\ Len(p) >= 2
  BY DEF NodesMade, NodeFits
<1>3. Len(p) >= 1
  BY <1>2, AllOf
<1>4. QED
  BY <1>1, <1>2, <1>3, Parent

LEMMA RowKept ==
    ASSUME NEW tree, NEW begun, NodesMade(tree, begun),
           NEW other, NEW later, NodesMade(other, later), NEW i \in Nat \ {0},
           \A p : p[1] = i => (p \in DOMAIN tree <=> p \in DOMAIN other),
           \A p \in DOMAIN tree : p[1] = i => CutOff(other[p]) = CutOff(tree[p])
    PROVE  RowIn(other, i) = RowIn(tree, i)
<1>1. \A p \in DOMAIN tree \cup DOMAIN other : p \in Position /\ Len(p) >= 1 /\ Len(p) \in Nat
  <2>1. \A p \in DOMAIN tree \cup DOMAIN other : p \in Position /\ Len(p) >= 2
    BY DEF NodesMade, NodeFits
  <2>2. QED
    BY <2>1, AllOf
<1>2. ASSUME NEW p \in DOMAIN tree \cup DOMAIN other, Front(p) = <<i>> PROVE p[1] = i
  <2>1. p \in Position /\ Len(p) >= 2 /\ Len(p) \in Nat
    BY AllOf DEF NodesMade, NodeFits
  <2>2. 1 \in 1 .. Len(p) - 1
    BY <2>1
  <2>3. Front(p)[1] = p[1]
    BY <2>1, <2>2, Parent
  <2>4. QED
    BY <1>2, <2>3
<1>3. Below(other, <<i>>) = Below(tree, <<i>>)
  BY <1>2 DEF Below
<1>4. ASSUME NEW n \in Below(tree, <<i>>)
      PROVE  Truncated(other, <<i, n>>) <=> Truncated(tree, <<i, n>>)
  <2>1. n \in Nat \ {0}
    BY BelowNumbers
  <2>2. <<i, n>> \in Position /\ Len(<<i, n>>) >= 1 /\ <<i, n>>[1] = i
    BY <2>1, PairPosition
  <2> DEFINE q == <<i, n>>
  <2> HIDE DEF q
  <2>3. \A p \in DOMAIN tree \cup DOMAIN other : IsPrefix(q, p) => p[1] = i
    BY <1>1, <2>2, FirstOfPrefix DEF q
  <2>4. Truncated(other, q) <=> Truncated(tree, q)
    BY <2>3, Zenon DEF Truncated
  <2>5. QED
    BY <2>4 DEF q
<1>5. QED
  BY <1>3, <1>4, Zenon DEF RowIn

-----------------------------------------------------------------------------
(* The budgets.                                                            *)

LEMMA CountTogether ==
    ASSUME NEW S, IsFiniteSet(S), NEW T, IsFiniteSet(T), S \cap T = {}
    PROVE  /\ IsFiniteSet(S \cup T) /\ Cardinality(S) \in Nat /\ Cardinality(T) \in Nat
           /\ Cardinality(S \cup T) = Cardinality(S) + Cardinality(T)
<1>1. Cardinality(S \cap T) = 0
  BY FS_EmptySet
<1>2. Cardinality(S) \in Nat /\ Cardinality(T) \in Nat
  BY FS_CardinalityType
<1>3. IsFiniteSet(S \cup T)
      /\ Cardinality(S \cup T) = Cardinality(S) + Cardinality(T) - Cardinality(S \cap T)
  BY FS_Union
<1>4. QED
  BY <1>1, <1>2, <1>3

LEMMA CountTagged ==
    ASSUME NEW x, NEW n \in Nat
    PROVE  IsFiniteSet({x} \X (1..n)) /\ Cardinality({x} \X (1..n)) = n
<1>1. IsFiniteSet({x}) /\ Cardinality({x}) = 1
  BY FS_Singleton
<1>2. IsFiniteSet(1..n) /\ Cardinality(1..n) = n
  BY FS_Interval
<1>3. IsFiniteSet({x} \X (1..n))
      /\ Cardinality({x} \X (1..n)) = Cardinality({x}) * Cardinality(1..n)
  BY <1>1, <1>2, FS_Product
<1>4. QED
  BY <1>1, <1>2, <1>3

NodesIn(tree, i) == {p \in DOMAIN tree : p[1] = i}

\* The envelopes of rows and nodes, one element for each byte.
NodeEnvelopes(tree) == UNION {{p} \X (1..NodeBytes(tree[p].kind)) : p \in DOMAIN tree}

Envelopes(tree, begun) == ({<<i>> : i \in 1..begun} \X (1..RowBytes)) \cup NodeEnvelopes(tree)

\* The budgets count what there is.
Counted(tree, begun, counts) ==
    /\ IsFiniteSet(DOMAIN tree) /\ IsFiniteSet(Envelopes(tree, begun))
    /\ counts.nodes = Cardinality(DOMAIN tree)
    /\ counts.nodes <= options.totalProofNodes
    /\ counts.bytes = Cardinality(Envelopes(tree, begun))
    /\ counts.bytes <= MaximumBytes
    /\ counts \in [row: Nat, nodes: Nat, bytes: Nat]
    /\ \A i \in 1..begun : Cardinality(NodesIn(tree, i)) <= options.proofNodes

LEMMA FiniteNodesIn ==
    ASSUME NEW tree, IsFiniteSet(DOMAIN tree), NEW i
    PROVE  IsFiniteSet(NodesIn(tree, i)) /\ Cardinality(NodesIn(tree, i)) \in Nat
<1>1. NodesIn(tree, i) \in SUBSET DOMAIN tree
  BY DEF NodesIn
<1>2. IsFiniteSet(NodesIn(tree, i))
  BY <1>1, FS_Subset
<1>3. QED
  BY <1>2, FS_CardinalityType

LEMMA Budgets ==
    ASSUME Given
    PROVE  /\ options.proofNodes \in Nat /\ options.totalProofNodes \in Nat
           /\ options.resultBytes \in Nat /\ options.proofDepth \in Nat
           /\ options.work \in Nat /\ options.derived \in Nat /\ options.rounds \in Nat
           /\ MaximumBytes \in Nat /\ MaximumBytes <= options.resultBytes
<1>1. options \in Option /\ Slack \in Nat /\ Slack <= options.resultBytes
  BY InputFacts, ResultAssumption DEF Given
<1>2. QED
  BY <1>1 DEF Option, MaximumBytes

LEMMA NodeCounted ==
    ASSUME Given, NEW tree, NEW begun \in Nat \ {0}, Counted(tree, begun, used),
           used.row = Cardinality(NodesIn(tree, begun)),
           NEW at, at \notin DOMAIN tree, at[1] = begun, \A i \in 1..begun : at # <<i>>,
           NEW node, Reservable(node.kind)
    PROVE  /\ Counted(WithNode(tree, at, node), begun, Reserve(node.kind))
           /\ Reserve(node.kind).row = Cardinality(NodesIn(WithNode(tree, at, node), begun))
<1> DEFINE more == WithNode(tree, at, node)
<1> DEFINE bytes == NodeBytes(node.kind)
<1>1. DOMAIN more = DOMAIN tree \cup {at} /\ more[at] = node
      /\ \A p \in DOMAIN tree : more[p] = tree[p]
  BY DEF WithNode
<1> HIDE DEF more
<1>2. bytes \in Nat
  BY DEF NodeBytes
<1> HIDE DEF bytes
<1>3. /\ Reserve(node.kind).row = used.row + 1
      /\ Reserve(node.kind).nodes = used.nodes + 1
      /\ Reserve(node.kind).bytes = used.bytes + bytes
  BY DEF Reserve, bytes
<1>4. /\ used.row < options.proofNodes /\ used.nodes < options.totalProofNodes
      /\ used.bytes + bytes <= MaximumBytes
  BY DEF Reservable, bytes
<1>5. /\ IsFiniteSet(DOMAIN more)
      /\ Cardinality(DOMAIN tree) \in Nat
      /\ Cardinality(DOMAIN more) = Cardinality(DOMAIN tree) + 1
  <2>1. IsFiniteSet(DOMAIN tree)
    BY DEF Counted
  <2>2. IsFiniteSet(DOMAIN tree \cup {at})
        /\ Cardinality(DOMAIN tree \cup {at}) = Cardinality(DOMAIN tree) + 1
    BY <2>1, FS_AddElement
  <2>3. QED
    BY <1>1, <2>1, <2>2, FS_CardinalityType
<1>6. /\ IsFiniteSet(Envelopes(more, begun))
      /\ Cardinality(Envelopes(tree, begun)) \in Nat
      /\ Cardinality(Envelopes(more, begun)) = Cardinality(Envelopes(tree, begun)) + bytes
  <2> DEFINE new == {at} \X (1..bytes)
  <2>1. IsFiniteSet(new) /\ Cardinality(new) = bytes
    BY <1>2, CountTagged
  <2>2. Envelopes(more, begun) = Envelopes(tree, begun) \cup new
    <3>1. NodeEnvelopes(more) = NodeEnvelopes(tree) \cup new
      <4>1. ASSUME NEW e PROVE e \in NodeEnvelopes(more) <=> e \in NodeEnvelopes(tree) \cup new
        <5>1. e \in NodeEnvelopes(more) <=>
                 \E p \in DOMAIN more : e \in {p} \X (1..NodeBytes(more[p].kind))
          BY Zenon DEF NodeEnvelopes
        <5>2. e \in NodeEnvelopes(tree) <=>
                 \E p \in DOMAIN tree : e \in {p} \X (1..NodeBytes(tree[p].kind))
          BY Zenon DEF NodeEnvelopes
        <5>3. e \in new <=> e \in {at} \X (1..NodeBytes(more[at].kind))
          BY <1>1 DEF bytes
        <5> HIDE DEF new
        <5>4. QED
          BY <1>1, <5>1, <5>2, <5>3, Zenon
      <4>2. QED
        BY <4>1
    <3> HIDE DEF new
    <3>2. QED
      BY <3>1, Zenon DEF Envelopes
  <2>3. Envelopes(tree, begun) \cap new = {}
    <3>1. ASSUME NEW e \in Envelopes(tree, begun) PROVE e[1] # at
      BY DEF Envelopes, NodeEnvelopes
    <3>2. \A e \in new : e[1] = at
      OBVIOUS
    <3>3. QED
      BY <3>1, <3>2
  <2>4. IsFiniteSet(Envelopes(tree, begun))
    BY DEF Counted
  <2> HIDE DEF new
  <2>5. /\ IsFiniteSet(Envelopes(tree, begun) \cup new)
        /\ Cardinality(Envelopes(tree, begun)) \in Nat
        /\ Cardinality(Envelopes(tree, begun) \cup new)
              = Cardinality(Envelopes(tree, begun)) + Cardinality(new)
    BY <2>1, <2>3, <2>4, CountTogether
  <2>6. QED
    BY <2>1, <2>2, <2>5
<1>7. /\ NodesIn(more, begun) = NodesIn(tree, begun) \cup {at} /\ at \notin NodesIn(tree, begun)
      /\ \A i \in 1..begun : i # begun => NodesIn(more, i) = NodesIn(tree, i)
  BY <1>1 DEF NodesIn
<1>8. /\ Cardinality(NodesIn(tree, begun)) \in Nat
      /\ Cardinality(NodesIn(more, begun)) = Cardinality(NodesIn(tree, begun)) + 1
  <2>1. IsFiniteSet(NodesIn(tree, begun)) /\ Cardinality(NodesIn(tree, begun)) \in Nat
    BY FiniteNodesIn DEF Counted
  <2>2. Cardinality(NodesIn(tree, begun) \cup {at}) = Cardinality(NodesIn(tree, begun)) + 1
    BY <1>7, <2>1, FS_AddElement
  <2>3. QED
    BY <1>7, <2>1, <2>2
<1>9. ASSUME NEW i \in 1..begun PROVE Cardinality(NodesIn(more, i)) <= options.proofNodes
  <2>1. CASE i = begun
    BY <1>4, <1>8, <2>1, Budgets DEF Counted
  <2>2. CASE i # begun
    BY <1>7, <2>2 DEF Counted
  <2>3. QED
    BY <2>1, <2>2
<1>10. Counted(more, begun, Reserve(node.kind))
  <2>1. /\ Reserve(node.kind).nodes = Cardinality(DOMAIN more)
        /\ Reserve(node.kind).bytes = Cardinality(Envelopes(more, begun))
    BY <1>3, <1>5, <1>6 DEF Counted
  <2>4. Reserve(node.kind) \in [row: Nat, nodes: Nat, bytes: Nat]
    BY <1>2 DEF Counted, Reserve, bytes
  <2>2. /\ Reserve(node.kind).nodes <= options.totalProofNodes
        /\ Reserve(node.kind).bytes <= MaximumBytes
    BY <1>3, <1>4, <1>5, Budgets DEF Counted
  <2>3. QED
    BY <1>5, <1>6, <1>9, <2>1, <2>2, <2>4 DEF Counted
<1>11. QED
  BY <1>3, <1>8, <1>10 DEF more

LEMMA RowCounted ==
    ASSUME Given, NEW tree, NEW begun \in Nat, NodesMade(tree, begun),
           Counted(tree, begun, used), RowFits
    PROVE  LET counts == [used EXCEPT !.row = 0, !.bytes = @ + RowBytes]
           IN  /\ Counted(tree, begun + 1, counts)
               /\ counts.row = Cardinality(NodesIn(tree, begun + 1))
<1> DEFINE counts == [used EXCEPT !.row = 0, !.bytes = @ + RowBytes]
<1> DEFINE new == {<<begun + 1>>} \X (1..1)
<1>1. used \in [row: Nat, nodes: Nat, bytes: Nat]
  BY DEF Counted
<1>2. /\ counts \in [row: Nat, nodes: Nat, bytes: Nat]
      /\ counts.row = 0 /\ counts.nodes = used.nodes /\ counts.bytes = used.bytes + 1
  <2>1. used = [row |-> used.row, nodes |-> used.nodes, bytes |-> used.bytes]
        /\ used.row \in Nat /\ used.nodes \in Nat /\ used.bytes \in Nat
    BY <1>1
  <2>2. counts = [row |-> 0, nodes |-> used.nodes, bytes |-> used.bytes + RowBytes]
    <3> DEFINE fresh == [used EXCEPT !.row = 0]
    <3>1. fresh = [row |-> 0, nodes |-> used.nodes, bytes |-> used.bytes]
      BY <2>1
    <3>2. counts = [fresh EXCEPT !.bytes = used.bytes + RowBytes]
      BY DEF counts
    <3> HIDE DEF fresh, counts
    <3>3. QED
      BY <3>1, <3>2
  <2>3. QED
    BY <2>1, <2>2 DEF RowBytes
<1>3. \A p \in DOMAIN tree : p[1] <= begun /\ p[1] \in Nat /\ p # <<begun + 1>>
  <2>1. ASSUME NEW p \in DOMAIN tree PROVE p[1] <= begun /\ p[1] \in Nat
    <3>1. p \in Position /\ Len(p) >= 2 /\ p[1] <= begun
      BY DEF NodesMade, NodeFits
    <3>2. 1 \in 1..Len(p)
      BY <3>1, AllOf
    <3>3. QED
      BY <3>1, <3>2, AllOf
  <2>2. <<begun + 1>>[1] = begun + 1
    OBVIOUS
  <2>3. QED
    BY <2>1, <2>2
<1>4. NodesIn(tree, begun + 1) = {}
  BY <1>3 DEF NodesIn
<1>5. IsFiniteSet(new) /\ Cardinality(new) = 1
  BY CountTagged
<1>6. Envelopes(tree, begun + 1) = Envelopes(tree, begun) \cup new
  <2>1. {<<i>> : i \in 1 .. begun + 1} = {<<i>> : i \in 1..begun} \cup {<<begun + 1>>}
    <3>1. 1 .. begun + 1 = (1..begun) \cup {begun + 1}
      OBVIOUS
    <3>2. QED
      BY <3>1, Zenon
  <2>2. QED
    BY <2>1, Zenon DEF Envelopes, RowBytes
<1>7. Envelopes(tree, begun) \cap new = {}
  <2>1. ASSUME NEW e \in Envelopes(tree, begun) PROVE e[1] # <<begun + 1>>
    <3>1. CASE e \in NodeEnvelopes(tree)
      <4>1. e[1] \in DOMAIN tree
        BY <3>1 DEF NodeEnvelopes
      <4>2. QED
        BY <1>3, <4>1
    <3>2. CASE e \in {<<i>> : i \in 1..begun} \X (1..RowBytes)
      <4>1. PICK i \in 1..begun : e[1] = <<i>>
        BY <3>2
      <4>2. <<i>>[1] = i /\ <<begun + 1>>[1] = begun + 1
        OBVIOUS
      <4>3. QED
        BY <4>1, <4>2
    <3>3. QED
      BY <3>1, <3>2 DEF Envelopes
  <2>2. \A e \in new : e[1] = <<begun + 1>>
    OBVIOUS
  <2>3. QED
    BY <2>1, <2>2
<1> HIDE DEF new, counts
<1>8. /\ IsFiniteSet(Envelopes(tree, begun + 1))
      /\ Cardinality(Envelopes(tree, begun)) \in Nat
      /\ Cardinality(Envelopes(tree, begun + 1)) = Cardinality(Envelopes(tree, begun)) + 1
  <2>1. IsFiniteSet(Envelopes(tree, begun))
    BY DEF Counted
  <2>2. /\ IsFiniteSet(Envelopes(tree, begun) \cup new)
        /\ Cardinality(Envelopes(tree, begun)) \in Nat
        /\ Cardinality(Envelopes(tree, begun) \cup new)
              = Cardinality(Envelopes(tree, begun)) + Cardinality(new)
    BY <1>5, <1>7, <2>1, CountTogether
  <2>3. QED
    BY <1>5, <1>6, <2>2
<1>9. ASSUME NEW i \in 1 .. begun + 1 PROVE Cardinality(NodesIn(tree, i)) <= options.proofNodes
  <2>1. CASE i = begun + 1
    <3>1. options.proofNodes >= 0
      BY Budgets
    <3>2. NodesIn(tree, i) = {}
      BY <1>4, <2>1
    <3>3. Cardinality(NodesIn(tree, i)) = 0
      BY <3>2, FS_EmptySet
    <3>4. QED
      BY <3>1, <3>3
  <2>2. CASE i # begun + 1
    <3>1. i \in 1..begun
      BY <2>2
    <3>2. QED
      BY <3>1 DEF Counted
  <2>3. QED
    BY <2>1, <2>2
<1>10. Counted(tree, begun + 1, counts)
  <2>1. counts.bytes = Cardinality(Envelopes(tree, begun + 1))
    BY <1>2, <1>8 DEF Counted
  <2>2. counts.bytes <= MaximumBytes
    BY <1>2 DEF RowFits, RowBytes
  <2>3. QED
    BY <1>2, <1>8, <1>9, <2>1, <2>2 DEF Counted
<1>11. QED
  BY <1>2, <1>4, <1>10, FS_EmptySet DEF counts

LEMMA CutCounted ==
    ASSUME NEW tree, NEW begun, NodesMade(tree, begun), NEW q, NEW counts
    PROVE  /\ Counted(tree, begun, counts) => Counted(CutAt(tree, q), begun, counts)
           /\ \A i : NodesIn(CutAt(tree, q), i) = NodesIn(tree, i)
<1> DEFINE cut == CutAt(tree, q)
<1>1. DOMAIN cut = DOMAIN tree /\ \A p \in DOMAIN tree : cut[p].kind = tree[p].kind
  <2>1. OnlyCut(tree, q, cut)
    BY CutFields
  <2> HIDE DEF cut
  <2>2. QED
    BY <2>1 DEF OnlyCut
<1> HIDE DEF cut
<1>2. NodeEnvelopes(cut) = NodeEnvelopes(tree)
  BY <1>1, Zenon DEF NodeEnvelopes
<1>3. \A i : NodesIn(cut, i) = NodesIn(tree, i)
  BY <1>1 DEF NodesIn
<1>4. Envelopes(cut, begun) = Envelopes(tree, begun)
  BY <1>2, Zenon DEF Envelopes
<1>5. QED
  BY <1>1, <1>3, <1>4, Zenon DEF Counted, cut

-----------------------------------------------------------------------------
(* Every step of the building keeps what is built in order.                *)

RowsBuilt(tree, list) ==
    /\ Len(list) \in Nat /\ Len(list) <= Shown
    /\ list = [i \in 1..Len(list) |-> RowIn(tree, i)]

\* Between rows ...
Between(tree, begun, counts) ==
    /\ NodesMade(tree, begun)
    /\ Counted(tree, begun, counts)
    /\ \A q \in Loops(tree, begun) : Ended(tree, q)

\* ... and during one.
During(tree, at, begun, counts) ==
    /\ begun <= Shown
    /\ NodesMade(tree, begun)
    /\ Counted(tree, begun, counts)
    /\ counts.row = Cardinality(NodesIn(tree, begun))
    /\ Stands(tree, at, begun)
    /\ LoopsAt(tree, at, begun)

Building(tree, list, at, counts) ==
    /\ RowsBuilt(tree, list)
    /\ IF at = <<>> THEN Between(tree, Len(list), counts)
       ELSE During(tree, at, Len(list) + 1, counts)

LEMMA ShownRows ==
    ASSUME Given
    PROVE  Len(answers) \in Nat /\ Shown \in Nat /\ Shown <= Len(answers)
<1>1. Len(answers) \in Nat
  BY LenProperties DEF Given, AnswersListed
<1>2. program.limit \in Nat
  BY InputFacts DEF Given, Program
<1>3. QED
  BY <1>1, <1>2 DEF Shown

LEMMA StartRowBuilds ==
    ASSUME Given, Building(proofs, rows, path, used), StartRow
    PROVE  Building(proofs', rows', path', used')
<1>1. /\ path = <<>> /\ Len(rows) < Shown /\ RowFits
      /\ used' = [used EXCEPT !.row = 0, !.bytes = @ + RowBytes]
      /\ path' = <<Len(rows) + 1, 1>>
      /\ rows' = rows /\ proofs' = proofs
  BY DEF StartRow
<1>2. RowsBuilt(proofs, rows) /\ Between(proofs, Len(rows), used)
  BY <1>1 DEF Building
<1>3. Len(rows) \in Nat /\ Len(rows) + 1 \in 1..Len(answers) /\ Len(rows) + 1 <= Shown
  <2>1. Len(rows) \in Nat
    BY <1>2 DEF RowsBuilt
  <2>2. QED
    BY <1>1, <2>1, ShownRows
<1>4. /\ NodesMade(proofs, Len(rows) + 1)
      /\ Stands(proofs, <<Len(rows) + 1, 1>>, Len(rows) + 1)
      /\ LoopsAt(proofs, <<Len(rows) + 1, 1>>, Len(rows) + 1)
  BY <1>2, <1>3, RowStarts DEF Between
<1>5. /\ Counted(proofs, Len(rows) + 1, used')
      /\ used'.row = Cardinality(NodesIn(proofs, Len(rows) + 1))
  BY <1>1, <1>2, <1>3, RowCounted DEF Between
<1>6. During(proofs, path', Len(rows) + 1, used')
  BY <1>1, <1>3, <1>4, <1>5 DEF During
<1>7. path' # <<>>
  BY <1>1
<1>8. QED
  BY <1>1, <1>2, <1>6, <1>7 DEF Building

LEMMA DuringRow ==
    ASSUME Given, Building(proofs, rows, path, used), path # <<>>
    PROVE  /\ RowsBuilt(proofs, rows) /\ During(proofs, path, Len(rows) + 1, used)
           /\ Len(rows) \in Nat /\ Len(rows) + 1 \in 1..Len(answers)
           /\ NodesMade(proofs, Len(rows) + 1)
           /\ Stands(proofs, path, Len(rows) + 1)
           /\ LoopsAt(proofs, path, Len(rows) + 1)
<1>1. RowsBuilt(proofs, rows) /\ During(proofs, path, Len(rows) + 1, used)
  BY DEF Building
<1>2. Len(rows) \in Nat /\ Len(rows) + 1 <= Shown
  BY <1>1 DEF RowsBuilt, During
<1>3. Len(rows) + 1 \in 1..Len(answers)
  BY <1>2, ShownRows
<1>4. QED
  BY <1>1, <1>2, <1>3 DEF During

\* Rows that are done keep what they show.
LEMMA RowsKept ==
    ASSUME NEW tree, NEW begun \in Nat, NodesMade(tree, begun), NEW other, NodesMade(other, begun),
           NEW list, RowsBuilt(tree, list), begun = Len(list) + 1,
           \A p : p[1] # begun =>
              /\ p \in DOMAIN tree <=> p \in DOMAIN other
              /\ p \in DOMAIN tree => CutOff(other[p]) = CutOff(tree[p])
    PROVE  RowsBuilt(other, list)
<1>1. ASSUME NEW i \in 1..Len(list) PROVE RowIn(other, i) = RowIn(tree, i)
  <2>1. i \in Nat \ {0} /\ i # begun
    BY DEF RowsBuilt
  <2>2. QED
    BY <2>1, RowKept
<1>2. QED
  BY <1>1, Zenon DEF RowsBuilt

LEMMA SameClaims == \A q : Claims(q) = ClaimsOf(proofs, q)
  BY DEF Claims, ClaimsOf

LEMMA NodeProves ==
    ASSUME Given, NoCircularSupport, Building(proofs, rows, path, used), Len(path) > 1
    PROVE  Proving(proofs, path, NodeAt(path))
<1>1. path # <<>>
  BY EmptySeq
<1>2. /\ Len(rows) + 1 \in 1..Len(answers) /\ NodesMade(proofs, Len(rows) + 1)
      /\ Stands(proofs, path, Len(rows) + 1) /\ LoopsAt(proofs, path, Len(rows) + 1)
  BY <1>1, DuringRow
<1>3. Claim(path) = ClaimsOf(proofs, Front(path))[Last(path)]
  BY SameClaims DEF Claim
<1>4. /\ Claim(path) \in Tuples
      /\ Depth(path) \in Nat /\ options.proofDepth \in Nat /\ Depth(path) <= options.proofDepth
  BY <1>2, <1>3, ClaimFits
<1>5. Claim(path) \notin Visiting(path)
  BY <1>2, <1>3, NotVisited, Zenon DEF Visiting
<1> DEFINE kind == KindOf(Claim(path), Depth(path), Visiting(path))
<1>6. kind = IF Depth(path) = options.proofDepth THEN "depth" ELSE known[Claim(path)].kind
  BY <1>4, <1>5 DEF KindOf
<1>7. NodeAt(path) =
        [kind |-> kind, reference |-> Claim(path),
         lanes |-> IF kind = "fact" THEN known[Claim(path)].lanes ELSE {},
         rule |-> IF kind = "derived" THEN known[Claim(path)].rule ELSE Null,
         premisesTruncated |-> FALSE]
  BY DEF NodeAt
<1> HIDE DEF kind
<1>8. /\ DOMAIN NodeAt(path) = NodeFields
      /\ NodeAt(path).kind = kind /\ NodeAt(path).reference = Claim(path)
      /\ NodeAt(path).lanes = IF kind = "fact" THEN known[Claim(path)].lanes ELSE {}
      /\ NodeAt(path).rule = IF kind = "derived" THEN known[Claim(path)].rule ELSE Null
      /\ NodeAt(path).premisesTruncated = FALSE
  BY <1>7 DEF NodeFields
<1>9. QED
  BY <1>3, <1>6, <1>8 DEF Proving

LEMMA ProveBuilds ==
    ASSUME Given, NoCircularSupport, Building(proofs, rows, path, used), Prove
    PROVE  Building(proofs', rows', path', used')
<1> DEFINE node == NodeAt(path)
<1> DEFINE more == WithNode(proofs, path, node)
<1> DEFINE begun == Len(rows) + 1
<1>1. /\ Len(path) > 1 /\ Reservable(node.kind) /\ used' = Reserve(node.kind)
      /\ proofs' = more /\ rows' = rows
      /\ path' = IF node.kind = "derived" THEN Append(path, 1) ELSE Onward(path)
  BY DEF Prove, WithNode
<1>2. path # <<>>
  BY <1>1, EmptySeq
<1>3. /\ RowsBuilt(proofs, rows) /\ During(proofs, path, begun, used)
      /\ Len(rows) \in Nat /\ begun \in 1..Len(answers) /\ begun \in Nat \ {0}
      /\ NodesMade(proofs, begun) /\ Stands(proofs, path, begun) /\ LoopsAt(proofs, path, begun)
  BY <1>2, DuringRow
<1>4. Proving(proofs, path, node)
  BY <1>1, NodeProves
<1> HIDE DEF node, begun
<1>5. NodesMade(more, begun)
  BY <1>1, <1>3, <1>4, NodeMade
<1>6. path \notin DOMAIN proofs /\ path \in Position /\ path[1] = begun
  BY <1>1, <1>3, FrontRuns DEF Stands
<1>7. /\ Counted(more, begun, used')
      /\ used'.row = Cardinality(NodesIn(more, begun))
  <2>1. \A i \in 1..begun : path # <<i>>
    BY <1>1
  <2>2. Counted(proofs, begun, used) /\ used.row = Cardinality(NodesIn(proofs, begun))
    BY <1>3 DEF During
  <2> HIDE DEF more
  <2>3. QED
    BY <1>1, <1>3, <1>6, <2>1, <2>2, NodeCounted DEF more
<1>8. /\ Stands(more, path', begun) /\ LoopsAt(more, path', begun)
      /\ Len(path') \in Nat /\ Len(path') >= 1
  <2>1. CASE node.kind = "derived"
    <3>1. path' = Append(path, 1)
      BY <1>1, <2>1
    <3>2. Stands(more, Append(path, 1), begun) /\ LoopsAt(more, Append(path, 1), begun)
      BY <1>1, <1>3, <1>4, <2>1, PremisesNext
    <3>3. Len(Append(path, 1)) \in Nat /\ Len(Append(path, 1)) >= 1
      BY <3>2, AllOf DEF Stands
    <3>4. QED
      BY <3>1, <3>2, <3>3
  <2>2. CASE node.kind # "derived"
    <3>1. path' = Onward(path)
      BY <1>1, <2>2
    <3>2. /\ Loops(more, begun) = Loops(proofs, begun)
          /\ Stands(more, path, begun) /\ LoopsPast(more, path, begun)
          /\ \A q \in Loops(more, begun) : ClaimsOf(more, q) = ClaimsOf(proofs, q)
      BY <1>1, <1>3, <1>4, <2>2, LeafDone
    <3> HIDE DEF more
    <3>3. \A q \in Loops(more, begun) : Claims(q) = ClaimsOf(more, q)
      BY <3>2, SameClaims
    <3>4. Stands(more, Onward(path), begun) /\ LoopsAt(more, Onward(path), begun)
      BY <1>3, <1>5, <3>2, <3>3, GoesOn
    <3>5. Len(Onward(path)) \in Nat /\ Len(Onward(path)) >= 1
      BY <3>4, AllOf DEF Stands
    <3>6. QED
      BY <3>1, <3>4, <3>5
  <2>3. QED
    BY <2>1, <2>2
<1>9. RowsBuilt(more, rows)
  <2>1. ASSUME NEW p, p[1] # begun
        PROVE  /\ p \in DOMAIN proofs <=> p \in DOMAIN more
               /\ p \in DOMAIN proofs => CutOff(more[p]) = CutOff(proofs[p])
    BY <1>6, <2>1 DEF WithNode
  <2> HIDE DEF more
  <2>2. QED
    BY <1>3, <1>5, <2>1, RowsKept DEF begun
<1>10. During(more, path', begun, used')
  BY <1>3, <1>5, <1>7, <1>8 DEF During
<1>11. path' # <<>>
  BY <1>8, EmptySeq
<1> HIDE DEF more
<1>12. QED
  BY <1>1, <1>9, <1>10, <1>11 DEF Building, begun

LEMMA CutBuilds ==
    ASSUME Given, Building(proofs, rows, path, used), Cut
    PROVE  Building(proofs', rows', path', used')
<1> DEFINE cut == CutAt(proofs, Front(path))
<1> DEFINE begun == Len(rows) + 1
<1>1. /\ Len(path) > 1 /\ proofs' = cut /\ rows' = rows /\ used' = used
      /\ path' = Onward(Front(path))
  BY DEF Cut, CutAt
<1>2. path # <<>>
  BY <1>1, EmptySeq
<1>3. /\ RowsBuilt(proofs, rows) /\ During(proofs, path, begun, used)
      /\ Len(rows) \in Nat /\ begun \in 1..Len(answers) /\ begun \in Nat \ {0}
      /\ NodesMade(proofs, begun) /\ Stands(proofs, path, begun) /\ LoopsAt(proofs, path, begun)
  BY <1>2, DuringRow
<1> HIDE DEF begun
<1>4. /\ NodesMade(cut, begun) /\ Loops(cut, begun) = Loops(proofs, begun)
      /\ \A q \in Loops(cut, begun) : ClaimsOf(cut, q) = ClaimsOf(proofs, q)
      /\ Stands(cut, Front(path), begun) /\ LoopsPast(cut, Front(path), begun)
  BY <1>1, <1>3, CutDone
<1>5. /\ Counted(cut, begun, used)
      /\ used.row = Cardinality(NodesIn(cut, begun))
  BY <1>3, CutCounted DEF During
<1>6. RowsBuilt(cut, rows)
  <2>1. OnlyCut(proofs, Front(path), cut)
    BY <1>3, CutFields
  <2>2. Front(path)[1] = begun
    BY <1>4 DEF Stands
  <2> HIDE DEF cut
  <2>3. ASSUME NEW p, p[1] # begun
        PROVE  /\ p \in DOMAIN proofs <=> p \in DOMAIN cut
               /\ p \in DOMAIN proofs => CutOff(cut[p]) = CutOff(proofs[p])
    <3>1. p # Front(path)
      BY <2>2, <2>3
    <3>2. QED
      BY <2>1, <3>1 DEF OnlyCut, CutOff
  <2>4. QED
    BY <1>3, <1>4, <2>3, RowsKept DEF begun
<1> HIDE DEF cut
<1>7. \A q \in Loops(cut, begun) : Claims(q) = ClaimsOf(cut, q)
  BY <1>4, SameClaims
<1>8. Stands(cut, path', begun) /\ LoopsAt(cut, path', begun)
  BY <1>1, <1>3, <1>4, <1>7, GoesOn
<1>9. path' # <<>>
  BY <1>8, AllOf, EmptySeq DEF Stands
<1>10. During(cut, path', begun, used)
  BY <1>3, <1>4, <1>5, <1>8 DEF During
<1>11. QED
  BY <1>1, <1>6, <1>9, <1>10 DEF Building, begun

LEMMA EndRowBuilds ==
    ASSUME Given, Building(proofs, rows, path, used), EndRow
    PROVE  Building(proofs', rows', path', used')
<1> DEFINE begun == Len(rows) + 1
<1> DEFINE longer == Append(rows, RowOf(begun))
<1>1. /\ Len(path) = 1 /\ rows' = longer /\ path' = <<>> /\ proofs' = proofs /\ used' = used
  BY DEF EndRow
<1>2. path # <<>>
  BY <1>1, EmptySeq
<1>3. /\ RowsBuilt(proofs, rows) /\ During(proofs, path, begun, used)
      /\ Len(rows) \in Nat /\ begun \in 1..Len(answers)
      /\ NodesMade(proofs, begun) /\ LoopsAt(proofs, path, begun)
  BY <1>2, DuringRow
<1>4. \A q \in Loops(proofs, begun) : Ended(proofs, q)
  <2>1. ~(Len(path) > 1) /\ Len(path) \in Nat
    BY <1>1
  <2> HIDE DEF begun
  <2>2. QED
    BY <1>3, <2>1, RowEnds
<1>5. RowOf(begun) = RowIn(proofs, begun)
  BY DEF RowOf, RowIn
<1>6. longer = [i \in 1..begun |-> RowIn(proofs, i)] /\ Len(longer) = begun
  <2>1. rows \in Seq({RowIn(proofs, i) : i \in 1..begun})
    <3>1. rows \in [1..Len(rows) -> {RowIn(proofs, i) : i \in 1..begun}]
      <4>1. rows = [i \in 1..Len(rows) |-> RowIn(proofs, i)]
        BY <1>3 DEF RowsBuilt
      <4>2. \A i \in 1..Len(rows) : i \in 1..begun
        BY <1>3
      <4>3. QED
        BY <4>1, <4>2, Zenon
    <3>2. QED
      BY <1>3, <3>1, ListOf
  <2>2. /\ Len(longer) = begun /\ DOMAIN longer = 1..begun
        /\ \A i \in 1..Len(rows) : longer[i] = rows[i]
        /\ longer[begun] = RowOf(begun)
        /\ longer = [i \in 1..begun |-> longer[i]]
    <3>1. RowOf(begun) \in {RowIn(proofs, i) : i \in 1..begun}
      BY <1>3, <1>5
    <3>2. longer \in Seq({RowIn(proofs, i) : i \in 1..begun})
      BY <2>1, <3>1, AppendProperties
    <3>3. /\ Len(longer) = begun /\ \A i \in 1..Len(rows) : longer[i] = rows[i]
          /\ longer[begun] = RowOf(begun)
      BY <2>1, <3>1, AppendProperties
    <3> HIDE DEF longer
    <3>4. QED
      BY <3>2, <3>3, LenProperties
  <2>3. ASSUME NEW i \in 1..begun PROVE longer[i] = RowIn(proofs, i)
    <3>1. CASE i = begun
      BY <1>5, <2>2, <3>1
    <3>2. CASE i # begun
      <4>1. i \in 1..Len(rows)
        BY <1>3, <3>2
      <4>2. rows[i] = RowIn(proofs, i)
        BY <1>3, <4>1 DEF RowsBuilt
      <4>3. QED
        BY <2>2, <4>1, <4>2
    <3>3. QED
      BY <3>1, <3>2
  <2> HIDE DEF longer, begun
  <2>4. QED
    BY <2>2, <2>3
<1> HIDE DEF longer
<1>7. RowsBuilt(proofs, longer)
  <2>1. begun \in Nat /\ begun <= Shown
    BY <1>3 DEF During
  <2> HIDE DEF begun
  <2>2. QED
    BY <1>6, <2>1 DEF RowsBuilt
<1>8. Between(proofs, begun, used)
  BY <1>3, <1>4 DEF Between, During
<1>9. QED
  BY <1>1, <1>6, <1>7, <1>8 DEF Building

-----------------------------------------------------------------------------
(* The invariant of the building.                                          *)

\* What is built is in order at every step, and the result is what is built.
ProofsInvariant ==
    /\ phase \in {"rows", "done"} => AnswersListed /\ Building(proofs, rows, path, used)
    /\ phase \in {"round", "result"} =>
          /\ rows = <<>> /\ proofs = <<>> /\ path = <<>>
          /\ used = [row |-> 0, nodes |-> 0, bytes |-> 0]
    /\ IF phase = "done"
       THEN /\ path = <<>> /\ result = Result /\ (Len(rows) < Shown => ~RowFits)
            /\ SizeOf(result) <= options.resultBytes
       ELSE result = Null

LEMMA AnswersStand ==
    ASSUME AnswersListed, UNCHANGED <<dataset, program, options, known, answers>>
    PROVE  AnswersListed'
<1>1. QueryMatchesOf(Tuples)' = QueryMatchesOf(Tuples)
  BY DEF QueryMatchesOf, Tuples
<1>2. \A values : ValuesOf(values)' = ValuesOf(values)
  BY DEF ValuesOf
<1>3. AnswersOf(Tuples)' = AnswersOf(Tuples)
  BY <1>1, <1>2 DEF AnswersOf, ValuesOf
<1>4. \A values : SupportOf(Tuples, values)' = SupportOf(Tuples, values)
  BY <1>1, <1>2 DEF SupportOf, ValuesOf
<1>5. QED
  BY <1>1, <1>3, <1>4 DEF AnswersListed

\* What is built depends on the input and the tuples, which stay.
LEMMA BuildingStands ==
    ASSUME Building(proofs', rows', path', used'),
           UNCHANGED <<dataset, program, options, known, answers>>
    PROVE  Building(proofs, rows, path, used)'
<1>1. Shown' = Shown
  BY DEF Shown
<1>2. RowsBuilt(proofs', rows') => RowsBuilt(proofs, rows)'
  BY <1>1 DEF RowsBuilt, RowIn
<1>3. /\ NodesMade(proofs', Len(rows')) => NodesMade(proofs, Len(rows))'
      /\ NodesMade(proofs', Len(rows') + 1) => NodesMade(proofs, Len(rows) + 1)'
  BY DEF NodesMade, NodeFits, ClaimsOf, Tuples
<1>4. /\ Counted(proofs', Len(rows'), used') => Counted(proofs, Len(rows), used)'
      /\ Counted(proofs', Len(rows') + 1, used') => Counted(proofs, Len(rows) + 1, used)'
  BY DEF Counted, MaximumBytes
<1>5. Stands(proofs', path', Len(rows') + 1) => Stands(proofs, path, Len(rows) + 1)'
  BY DEF Stands, ClaimsOf
<1>6. LoopsAt(proofs', path', Len(rows') + 1) => LoopsAt(proofs, path, Len(rows) + 1)'
  BY DEF LoopsAt, Ended, ClaimsOf
<1>7. (\A q \in Loops(proofs', Len(rows')) : Ended(proofs', q))
      => (\A q \in Loops(proofs, Len(rows)) : Ended(proofs, q))'
  BY DEF Ended, ClaimsOf
<1>8. QED
  BY <1>1, <1>2, <1>3, <1>4, <1>5, <1>6, <1>7 DEF Building, Between, During

LEMMA OrderedStands == (answers = Ordered)' => AnswersListed'
<1>1. (answers = Ordered) => AnswersListed
  BY AnswersOrdered
<1>2. QED
  BY <1>1, PTL

LEMMA QueryOrders ==
    ASSUME MatchQuery
    PROVE  AnswersListed'
<1>1. UNCHANGED <<dataset, program, known>> /\ answers' = Ordered
  BY DEF MatchQuery, input
<1>2. QueryMatchesOf(Tuples)' = QueryMatchesOf(Tuples)
  BY <1>1 DEF QueryMatchesOf, Tuples
<1>3. \A values : ValuesOf(values)' = ValuesOf(values)
  BY <1>1 DEF ValuesOf
<1>4. AnswersOf(Tuples)' = AnswersOf(Tuples)
  BY <1>1, <1>2, <1>3 DEF AnswersOf, ValuesOf
<1>5. \A values : SupportOf(Tuples, values)' = SupportOf(Tuples, values)
  BY <1>1, <1>2, <1>3 DEF SupportOf, ValuesOf
<1>6. Ordered' = Ordered
  BY <1>4, <1>5 DEF Ordered
<1>7. (answers = Ordered)'
  BY <1>1, <1>6
<1>8. QED
  BY <1>7, OrderedStands

\* Before the first row nothing is shown and nothing is used.
LEMMA NothingBuilt ==
    ASSUME Given, rows = <<>>, proofs = <<>>, path = <<>>,
           used = [row |-> 0, nodes |-> 0, bytes |-> 0]
    PROVE  Building(proofs, rows, path, used)
<1>1. Len(rows) = 0 /\ DOMAIN proofs = {} /\ 1..Len(rows) = {}
  BY EmptySeq
<1>2. RowsBuilt(proofs, rows)
  <2>1. rows = [i \in 1..Len(rows) |-> RowIn(proofs, i)]
    BY <1>1
  <2>2. QED
    BY <1>1, <2>1, ShownRows DEF RowsBuilt
<1>3. NodesMade(proofs, Len(rows))
  BY <1>1 DEF NodesMade
<1>4. Envelopes(proofs, Len(rows)) = {}
  BY <1>1 DEF Envelopes, NodeEnvelopes
<1>5. Counted(proofs, Len(rows), used)
  <2>1. options.totalProofNodes >= 0 /\ MaximumBytes >= 0
    BY Budgets
  <2>2. used.nodes = 0 /\ used.bytes = 0 /\ used \in [row: Nat, nodes: Nat, bytes: Nat]
    OBVIOUS
  <2>3. IsFiniteSet(DOMAIN proofs) /\ Cardinality(DOMAIN proofs) = 0
    BY <1>1, FS_EmptySet
  <2>4. /\ IsFiniteSet(Envelopes(proofs, Len(rows)))
        /\ Cardinality(Envelopes(proofs, Len(rows))) = 0
    BY <1>4, FS_EmptySet
  <2>5. \A i \in 1..Len(rows) : FALSE
    BY <1>1
  <2>6. QED
    BY <2>1, <2>2, <2>3, <2>4, <2>5 DEF Counted
<1>6. Loops(proofs, Len(rows)) = {}
  BY <1>1 DEF Loops
<1>7. QED
  BY <1>2, <1>3, <1>5, <1>6 DEF Building, Between

LEMMA NothingBuiltStands ==
    (/\ Given /\ rows = <<>> /\ proofs = <<>> /\ path = <<>>
     /\ used = [row |-> 0, nodes |-> 0, bytes |-> 0])'
      => Building(proofs, rows, path, used)'
<1>1. (/\ Given /\ rows = <<>> /\ proofs = <<>> /\ path = <<>>
       /\ used = [row |-> 0, nodes |-> 0, bytes |-> 0])
        => Building(proofs, rows, path, used)
  BY NothingBuilt
<1>2. QED
  BY <1>1, PTL

LEMMA BuildingBegins == ResultInit => ProofsInvariant
  BY DEF ResultInit, EvaluationInit, ProofsInvariant

LEMMA BuildingGoesOn ==
    InputHeld /\ RoundsInvariant /\ NoCircularSupport /\ ProofsInvariant /\ [ResultNext]_resultVars
      => ProofsInvariant'
<1> SUFFICES ASSUME InputHeld, RoundsInvariant, NoCircularSupport, ProofsInvariant,
                    [ResultNext]_resultVars
             PROVE  ProofsInvariant'
  OBVIOUS
<1>1. ASSUME StartRow \/ Prove \/ Cut \/ EndRow PROVE ProofsInvariant'
  <2>1. phase = "rows" /\ UNCHANGED <<dataset, program, options, known, answers, phase, result>>
    BY <1>1 DEF StartRow, Prove, Cut, EndRow, OnlyBuilding, evaluationVars, input
  <2>2. Given /\ Building(proofs, rows, path, used) /\ result = Null
    BY <2>1 DEF ProofsInvariant, Given
  <2>3. Building(proofs', rows', path', used')
    BY <1>1, <2>2, StartRowBuilds, ProveBuilds, CutBuilds, EndRowBuilds
  <2>4. Building(proofs, rows, path, used)'
    BY <2>1, <2>3, BuildingStands
  <2>5. AnswersListed'
    BY <2>1, <2>2, AnswersStand DEF Given
  <2>6. QED
    BY <2>1, <2>2, <2>4, <2>5 DEF ProofsInvariant
<1>2. ASSUME Finish PROVE ProofsInvariant'
  <2>1. /\ phase = "rows" /\ phase' = "done" /\ path = <<>> /\ (Len(rows) < Shown => ~RowFits)
        /\ result' = Result /\ SizeOf(Result) <= options.resultBytes
        /\ UNCHANGED <<dataset, program, options, known, rounds, work, answers, rows, proofs, path, used>>
    BY <1>2 DEF Finish, RowsMade, input, building
  <2>2. Given /\ Building(proofs, rows, path, used)
    BY <2>1 DEF ProofsInvariant, Given
  <2>3. Building(proofs, rows, path, used)'
    BY <2>1, <2>2, BuildingStands
  <2>4. AnswersListed'
    BY <2>1, <2>2, AnswersStand DEF Given
  <2>5. UNCHANGED <<Shown, RowFits>>
    BY <2>1 DEF Shown, RowFits, MaximumBytes
  <2>6. Result' = Result
    <3>1. Shown' = Shown /\ Derived' = Derived
      BY <2>1 DEF Shown, Derived, Tuples
    <3>2. QueryMatchesOf(Tuples)' = QueryMatchesOf(Tuples) /\ Tuples' = Tuples
      BY <2>1 DEF QueryMatchesOf, Tuples
    <3>3. QED
      BY <2>1, <3>1, <3>2 DEF Result
  <2>7. (SizeOf(result) <= options.resultBytes)'
    BY <2>1 DEF SizeOf, ResultBytes, Commas, Nodes, NodesOf
  <2>8. QED
    BY <2>1, <2>3, <2>4, <2>5, <2>6, <2>7 DEF ProofsInvariant
<1>3. ASSUME MatchQuery PROVE ProofsInvariant'
  <2>1. /\ phase = "result" /\ phase' = "rows"
        /\ UNCHANGED <<rows, proofs, path, used, result>>
    BY <1>3 DEF MatchQuery, building
  <2>2. /\ rows = <<>> /\ proofs = <<>> /\ path = <<>>
        /\ used = [row |-> 0, nodes |-> 0, bytes |-> 0] /\ result = Null
    BY <2>1 DEF ProofsInvariant
  <2>3. AnswersListed'
    BY <1>3, QueryOrders
  <2>4. InputHeld' /\ RoundsInvariant'
    BY InputKept, NextRounds
  <2>5. Building(proofs, rows, path, used)'
    <3>1. Given'
      BY <2>3, <2>4 DEF Given
    <3>2. (rows = <<>> /\ proofs = <<>> /\ path = <<>>
            /\ used = [row |-> 0, nodes |-> 0, bytes |-> 0])'
      BY <2>1, <2>2
    <3>3. QED
      BY <3>1, <3>2, NothingBuiltStands
  <2>6. QED
    BY <2>1, <2>2, <2>3, <2>5 DEF ProofsInvariant
<1>4. ASSUME Evaluate \/ QueryFails PROVE ProofsInvariant'
  <2>1. /\ phase \in {"round", "result"} /\ phase' \in {"round", "result", "failed"}
        /\ UNCHANGED <<rows, proofs, path, used, result>>
    BY <1>4 DEF Evaluate, EvaluationNext, Round, LastRound, RoundFails, QueryFails, building
  <2>2. QED
    BY <2>1 DEF ProofsInvariant
<1>5. ASSUME FinishFails PROVE ProofsInvariant'
  <2>1. phase = "rows" /\ phase' = "failed" /\ UNCHANGED result
    BY <1>5 DEF FinishFails, RowsMade
  <2>2. QED
    BY <2>1 DEF ProofsInvariant
<1>6. ASSUME UNCHANGED resultVars PROVE ProofsInvariant'
  <2>1. UNCHANGED <<dataset, program, options, known, rounds, work, phase, answers,
                    rows, proofs, path, used, result>>
    BY <1>6 DEF resultVars, evaluationVars, input, building
  <2>2. CASE phase \in {"rows", "done"}
    <3>1. AnswersListed /\ Building(proofs, rows, path, used)
      BY <2>2 DEF ProofsInvariant
    <3>2. AnswersListed'
      BY <2>1, <3>1, AnswersStand
    <3>3. Building(proofs, rows, path, used)'
      BY <2>1, <3>1, BuildingStands
    <3>4. UNCHANGED <<Shown, RowFits>>
      BY <2>1 DEF Shown, RowFits, MaximumBytes
    <3>5. Result' = Result
      <4>1. Shown' = Shown /\ Derived' = Derived
        BY <2>1 DEF Shown, Derived, Tuples
      <4>2. QueryMatchesOf(Tuples)' = QueryMatchesOf(Tuples) /\ Tuples' = Tuples
        BY <2>1 DEF QueryMatchesOf, Tuples
      <4>3. QED
        BY <2>1, <4>1, <4>2 DEF Result
    <3>6. SizeOf(result)' = SizeOf(result)
      BY <2>1 DEF SizeOf, ResultBytes, Commas, Nodes, NodesOf
    <3>7. QED
      BY <2>1, <2>2, <3>2, <3>3, <3>4, <3>5, <3>6 DEF ProofsInvariant
  <2>3. CASE phase \notin {"rows", "done"}
    BY <2>1, <2>3 DEF ProofsInvariant
  <2>4. QED
    BY <2>2, <2>3
<1>7. QED
  BY <1>1, <1>2, <1>3, <1>4, <1>5, <1>6 DEF ResultNext

-----------------------------------------------------------------------------
(* The result.                                                             *)

\* All that is known of a projection at any step.
ResultInvariant ==
    /\ InputHeld /\ RoundsInvariant /\ NoCircularSupport /\ WitnessesSuffice
    /\ StatsInvariant /\ ProofsInvariant

\* The inductive invariant of a result: its rows, its tree of proofs, its budgets
\* and the position of the recursion fit together after every call.
THEOREM ResultsHold == ResultSpec => []ResultInvariant
<1>1. ResultInit => InputHeld /\ StatsInvariant /\ ProofsInvariant
  BY InputKept, InitStats, BuildingBegins DEF ResultInit
<1>2. ResultSpec => [](InputHeld /\ StatsInvariant)
  BY <1>1, InputKept, NextStats, PTL DEF ResultSpec
<1>3. ResultSpec => []ProofsInvariant
  BY <1>1, <1>2, RoundsHold, ProofsEndInFacts, BuildingGoesOn, PTL DEF ResultSpec
<1>4. QED
  BY <1>2, <1>3, RoundsHold, ProofsEndInFacts, WitnessesAreEnough, PTL DEF ResultInvariant

LEMMA AtTheEnd ==
    ASSUME ResultInvariant, result # Null
    PROVE  /\ result = Result
           /\ result.rows = rows /\ result.proofs = proofs
           /\ Given /\ Tuples = LeastModel(DOMAIN dataset)
           /\ RowsBuilt(proofs, rows) /\ Between(proofs, Len(rows), used)
           /\ Len(rows) \in 0..Len(answers) /\ DOMAIN rows = 1..Len(rows)
           /\ Len(answers) \in Nat /\ Len(rows) \in Nat /\ Len(rows) <= Len(answers)
           /\ result.truncated = {} <=> Len(rows) = Len(answers)
           /\ JoinsWithin(Tuples, program.where) /\ QueryWork <= work
           /\ Len(rows) <= QueryResults /\ Cardinality(Uses) <= RelationLimit
           /\ SizeOf(result) <= options.resultBytes
<1>1. /\ phase = "done" /\ path = <<>> /\ result = Result
      /\ SizeOf(result) <= options.resultBytes
      /\ AnswersListed /\ Building(proofs, rows, path, used)
  BY DEF ResultInvariant, ProofsInvariant
<1>2. Given
  BY <1>1 DEF Given, ResultInvariant
<1>3. RowsBuilt(proofs, rows) /\ Between(proofs, Len(rows), used)
  BY <1>1 DEF Building
<1>4. /\ Len(rows) \in Nat /\ Len(rows) <= Shown /\ DOMAIN rows = 1..Len(rows)
      /\ Len(answers) \in Nat /\ Shown \in Nat /\ Shown <= Len(answers)
  BY <1>2, <1>3, ShownRows DEF RowsBuilt
<1>5. result.rows = rows /\ result.proofs = proofs
  BY <1>1 DEF Result
<1>6. Tuples = LeastModel(DOMAIN dataset)
  <2>1. /\ Candidates = {} /\ DOMAIN dataset \subseteq Tuples
        /\ Tuples \subseteq LeastModel(DOMAIN dataset)
    BY <1>1 DEF ResultInvariant, RoundsInvariant, WitnessesReal
  <2>2. QED
    BY <2>1, ModelAtTheEnd
<1>7. result.truncated = {} <=> Len(rows) = Len(answers)
  <2>1. result.truncated = {r \in {"query-limit", "result-bytes"} :
                              IF r = "query-limit" THEN Len(answers) > program.limit
                              ELSE Len(rows) < Shown}
    BY <1>1 DEF Result
  <2>2. result.truncated = {} <=> ~(Len(answers) > program.limit) /\ ~(Len(rows) < Shown)
    BY <2>1
  <2>3. program.limit \in Nat
    BY <1>2, InputFacts DEF Given
  <2>4. QED
    BY <1>4, <2>2, <2>3 DEF Shown
<1>8. /\ JoinsWithin(Tuples, program.where) /\ QueryWork <= work
      /\ Cardinality(Uses) <= RelationLimit
  BY <1>1 DEF ResultInvariant, StatsInvariant
<1>9. Len(rows) <= QueryResults
  <2>1. program.limit \in Nat /\ program.limit <= QueryResults /\ QueryResults \in Nat
    BY <1>2, InputFacts, ResultAssumption DEF Given
  <2>2. QED
    BY <1>4, <2>1 DEF Shown
<1>10. QED
  BY <1>1, <1>2, <1>3, <1>4, <1>5, <1>6, <1>7, <1>8, <1>9

\* A row shows the answer of its number.
LEMMA RowShows ==
    ASSUME ResultInvariant, result # Null, NEW i \in 1..Len(rows)
    PROVE  /\ rows[i] = RowIn(proofs, i)
           /\ rows[i].values = answers[i].values
           /\ rows[i].supportCount = answers[i].supportCount
           /\ i \in 1..Len(answers)
           /\ answers[i].values \in AnswersOf(Tuples)
           /\ answers[i].match \in SupportOf(Tuples, answers[i].values)
           /\ answers[i].supportCount = Cardinality(SupportOf(Tuples, answers[i].values))
<1>1. rows[i] = RowIn(proofs, i) /\ i \in 1..Len(answers)
  BY AtTheEnd DEF RowsBuilt
<1>2. AnswersListed
  BY AtTheEnd DEF Given
<1>3. answers[i] \in [values: AnswersOf(Tuples), supportCount: Nat, match: QueryMatchesOf(Tuples)]
  BY <1>1, <1>2, ElementOfSeq DEF AnswersListed
<1>4. rows[i].values = answers[i].values /\ rows[i].supportCount = answers[i].supportCount
  BY <1>1 DEF RowIn
<1>5. /\ answers[i].match \in SupportOf(Tuples, answers[i].values)
      /\ answers[i].supportCount = Cardinality(SupportOf(Tuples, answers[i].values))
  BY <1>1, <1>2 DEF AnswersListed
<1>6. answers[i].values \in AnswersOf(Tuples)
  BY <1>3
<1>7. QED
  BY <1>1, <1>4, <1>5, <1>6

LEMMA RowsDiffer ==
    ASSUME ResultInvariant, result # Null, NEW i \in 1..Len(answers), NEW j \in 1..Len(answers),
           answers[i].values = answers[j].values
    PROVE  i = j
  BY AtTheEnd DEF Given, AnswersListed

LEMMA AnswersAreExact == ResultInvariant => AnswersExact
<1> SUFFICES ASSUME ResultInvariant, result # Null
             PROVE  LET tuples == LeastModel(DOMAIN dataset)
                        values == {result.rows[i].values : i \in DOMAIN result.rows}
                    IN  /\ values \subseteq AnswersOf(tuples)
                        /\ Cardinality(values) = Len(result.rows)
                        /\ \A i \in DOMAIN result.rows :
                              LET row == result.rows[i]
                              IN  row.supportCount = Cardinality(SupportOf(tuples, row.values))
                        /\ result.truncated = {} <=> values = AnswersOf(tuples)
  BY Zenon DEF AnswersExact
<1> DEFINE values == {rows[i].values : i \in 1..Len(rows)}
<1>1. /\ result.rows = rows /\ DOMAIN rows = 1..Len(rows) /\ LeastModel(DOMAIN dataset) = Tuples
      /\ Len(rows) \in Nat /\ Len(answers) \in Nat /\ Len(rows) <= Len(answers)
      /\ result.truncated = {} <=> Len(rows) = Len(answers)
  BY AtTheEnd
<1>2. values \subseteq AnswersOf(Tuples)
  BY RowShows
<1>3. Cardinality(values) = Len(rows)
  <2> DEFINE f == [i \in 1..Len(rows) |-> rows[i].values]
  <2>1. f \in Surjection(1..Len(rows), values)
    BY DEF Surjection
  <2>2. f \in Injection(1..Len(rows), values)
    <3>1. ASSUME NEW i \in 1..Len(rows), NEW j \in 1..Len(rows), f[i] = f[j] PROVE i = j
      BY <3>1, RowShows, RowsDiffer
    <3>2. QED
      BY <3>1 DEF Injection, IsInjective
  <2>3. IsFiniteSet(1..Len(rows)) /\ Cardinality(1..Len(rows)) = Len(rows)
    <3>1. 1 \in Int /\ Len(rows) \in Int /\ Len(rows) - 1 + 1 = Len(rows)
      BY <1>1
    <3>2. /\ IsFiniteSet(1..Len(rows))
          /\ Cardinality(1..Len(rows)) = IF 1 > Len(rows) THEN 0 ELSE Len(rows) - 1 + 1
      BY <3>1, FS_Interval
    <3>3. QED
      BY <1>1, <3>1, <3>2
  <2> HIDE DEF f, values
  <2>4. QED
    BY <2>1, <2>2, <2>3, FS_Surjection
<1>4. \A i \in 1..Len(rows) : rows[i].supportCount = Cardinality(SupportOf(Tuples, rows[i].values))
  BY RowShows
<1>5. result.truncated = {} <=> values = AnswersOf(Tuples)
  <2>1. AnswersListed
    BY AtTheEnd DEF Given
  <2>2. ASSUME Len(rows) = Len(answers) PROVE values = AnswersOf(Tuples)
    <3>1. ASSUME NEW v \in AnswersOf(Tuples) PROVE v \in values
      <4>1. PICK i \in 1..Len(answers) : answers[i].values = v
        BY <2>1 DEF AnswersListed
      <4>2. QED
        BY <2>2, <4>1, RowShows
    <3>2. QED
      BY <1>2, <3>1
  <2>3. ASSUME values = AnswersOf(Tuples), Len(rows) # Len(answers) PROVE FALSE
    <3>1. Len(answers) \in 1..Len(answers)
      BY <1>1, <2>3
    <3>2. answers[Len(answers)].values \in AnswersOf(Tuples)
      <4>1. answers[Len(answers)] \in [values: AnswersOf(Tuples), supportCount: Nat,
                                       match: QueryMatchesOf(Tuples)]
        BY <2>1, <3>1, ElementOfSeq DEF AnswersListed
      <4>2. QED
        BY <4>1
    <3>3. PICK i \in 1..Len(rows) : rows[i].values = answers[Len(answers)].values
      BY <2>3, <3>2
    <3>4. answers[i].values = answers[Len(answers)].values /\ i \in 1..Len(answers)
      BY <3>3, RowShows
    <3>5. i = Len(answers)
      BY <3>1, <3>4, RowsDiffer
    <3>6. i \in Nat /\ i <= Len(rows)
      BY <1>1
    <3>7. Len(answers) <= Len(rows)
      BY <3>5, <3>6, Zenon
    <3>8. Len(rows) = Len(answers)
      BY <1>1, <3>7
    <3>9. QED
      BY <2>3, <3>8, Zenon
  <2>4. QED
    BY <1>1, <2>2, <2>3
<1>6. {result.rows[i].values : i \in DOMAIN result.rows} = values
  BY <1>1
<1> HIDE DEF values
<1>7. QED
  BY <1>1, <1>2, <1>3, <1>4, <1>5, <1>6

-----------------------------------------------------------------------------
(* What proofs that are done show.                                         *)

LEMMA Intervals ==
    ASSUME NEW n \in Nat, NEW m \in Nat, n <= m
    PROVE  1..n \subseteq 1..m /\ (1..n = 1..m <=> n = m)
<1>1. ASSUME 1..n = 1..m, n # m PROVE FALSE
  <2>1. m \in 1..m /\ m \notin 1..n
    BY <1>1
  <2>2. QED
    BY <1>1, <2>1
<1>2. QED
  BY <1>1

\* A loop that is over proves the first of its claims, all unless it was cut.
LEMMA LoopProves ==
    ASSUME Given, NEW tree, NEW begun \in 0..Len(answers), NodesMade(tree, begun),
           NEW q \in Loops(tree, begun), Ended(tree, q)
    PROVE  /\ Proves(tree, q, ClaimsOf(tree, q), Below(tree, q) = DOMAIN ClaimsOf(tree, q))
           /\ DOMAIN ClaimsOf(tree, q) = 1..Len(ClaimsOf(tree, q))
           /\ q \in DOMAIN tree =>
                 (~tree[q].premisesTruncated <=> Below(tree, q) = DOMAIN ClaimsOf(tree, q))
           /\ IsFiniteSet(Below(tree, q))
           /\ Cardinality(Below(tree, q)) <= Len(ClaimsOf(tree, q))
           /\ Cardinality(Below(tree, q)) = Len(ClaimsOf(tree, q))
                 <=> Below(tree, q) = DOMAIN ClaimsOf(tree, q)
<1> DEFINE claims == ClaimsOf(tree, q)
<1>1. /\ q \in Position /\ Len(q) >= 1 /\ claims \in Seq(Tuples) /\ Len(claims) \in Nat \ {0}
      /\ DOMAIN claims = 1..Len(claims)
  BY LoopClaims, LenProperties
<1>2. PICK n \in 0..Len(claims) :
        /\ Below(tree, q) = 1..n
        /\ q \in DOMAIN tree => (tree[q].premisesTruncated <=> n < Len(claims))
  BY DEF Ended
<1> HIDE DEF claims
<1>3. /\ n \in Nat /\ n <= Len(claims) /\ 1..n \subseteq 1..Len(claims)
      /\ 1..n = 1..Len(claims) <=> n = Len(claims)
  <2>1. Len(claims) \in Nat
    BY <1>1
  <2>2. n \in Nat /\ n <= Len(claims)
    BY <2>1
  <2>3. QED
    BY <2>1, <2>2, Intervals
<1>4. IsFiniteSet(1..n) /\ Cardinality(1..n) = n
  <2>1. 1 \in Int /\ n \in Int
    BY <1>3
  <2>2. IsFiniteSet(1..n) /\ Cardinality(1..n) = IF 1 > n THEN 0 ELSE n - 1 + 1
    BY <2>1, FS_Interval
  <2>3. QED
    BY <1>3, <2>2
<1>5. ASSUME NEW m \in Below(tree, q)
      PROVE  1..m \subseteq Below(tree, q) /\ tree[Append(q, m)].reference = claims[m]
  <2>1. m \in 1..n /\ 1..m \subseteq 1..n
    BY <1>2, <1>3
  <2>2. Append(q, m) \in DOMAIN tree
    <3>1. DOMAIN tree \subseteq Position \ {<<>>}
      <4>1. ASSUME NEW p \in DOMAIN tree PROVE p \in Position /\ Len(p) >= 2
        BY DEF NodesMade, NodeFits
      <4>2. QED
        BY <4>1, EmptySeq
    <3>2. QED
      BY <1>1, <3>1, Children
  <2>3. NodeFits(tree, Append(q, m), begun)
    BY <2>2 DEF NodesMade
  <2>4. Front(Append(q, m)) = q /\ Last(Append(q, m)) = m
    BY <1>1, <2>1, Extend
  <2>5. tree[Append(q, m)].reference = ClaimsOf(tree, q)[m]
    BY <2>3, <2>4 DEF NodeFits
  <2>6. QED
    BY <1>2, <2>1, <2>5 DEF claims
<1>6. Below(tree, q) \subseteq DOMAIN claims
  <2>1. Below(tree, q) = 1..n /\ DOMAIN claims = 1..Len(claims)
    BY <1>1, <1>2
  <2>2. QED
    BY <1>3, <2>1, Zenon
<1>7. Proves(tree, q, claims, Below(tree, q) = DOMAIN claims)
  BY <1>5, <1>6 DEF Proves
<1>8. q \in DOMAIN tree => (~tree[q].premisesTruncated <=> Below(tree, q) = DOMAIN claims)
  <2>1. Below(tree, q) = 1..n /\ DOMAIN claims = 1..Len(claims)
    BY <1>1, <1>2
  <2>2. n < Len(claims) <=> ~(n = Len(claims))
    <3>1. Len(claims) \in Nat
      BY <1>1
    <3>2. QED
      BY <1>3, <3>1
  <2>3. n < Len(claims) <=> ~(1..n = 1..Len(claims))
    BY <1>3, <2>2, Zenon
  <2>4. q \in DOMAIN tree => (tree[q].premisesTruncated <=> n < Len(claims))
    BY <1>2
  <2>5. QED
    BY <2>1, <2>3, <2>4, Zenon
<1>9. /\ IsFiniteSet(Below(tree, q)) /\ Cardinality(Below(tree, q)) <= Len(claims)
      /\ Cardinality(Below(tree, q)) = Len(claims) <=> Below(tree, q) = DOMAIN claims
  <2>1. Below(tree, q) = 1..n /\ DOMAIN claims = 1..Len(claims)
    BY <1>1, <1>2
  <2>2. IsFiniteSet(Below(tree, q)) /\ Cardinality(Below(tree, q)) = n
    BY <1>4, <2>1
  <2>3. QED
    BY <1>3, <2>1, <2>2, Zenon
<1>10. QED
  BY <1>1, <1>7, <1>8, <1>9 DEF claims

\* What a node that derives its tuple claims are the premises of its rule.
LEMMA RuleClaims ==
    ASSUME Given, NEW tree, NEW begun, NodesMade(tree, begun), NEW p \in DOMAIN tree
    PROVE  /\ tree[p].kind \in {"depth", "fact", "derived"}
           /\ tree[p].kind = "fact" =>
                 tree[p].reference \in DOMAIN dataset /\ tree[p].lanes = dataset[tree[p].reference]
           /\ tree[p].kind # "fact" => tree[p].lanes = {}
           /\ tree[p].kind # "derived" => ~tree[p].premisesTruncated
           /\ tree[p].kind = "derived" =>
                 /\ p \in Loops(tree, begun)
                 /\ tree[p].rule \in program.rules
                 /\ known[tree[p].reference].kind = "derived"
                 /\ ClaimsOf(tree, p) = known[tree[p].reference].premises
                 /\ Len(ClaimsOf(tree, p)) = Len(tree[p].rule.body)
                 /\ DOMAIN tree[p].rule.body = 1..Len(tree[p].rule.body)
                 /\ Len(tree[p].rule.body) \in Nat \ {0}
                 /\ Len(tree[p].rule.body) <= LiteralsPerRule
                 /\ \E b \in Bindings :
                       /\ Ground(tree[p].rule.head, b) = tree[p].reference
                       /\ ClaimsOf(tree, p) = Premises(tree[p].rule.body, b)
<1> DEFINE t == tree[p].reference
<1>1. /\ t \in Tuples /\ p \in Position /\ Len(p) >= 2
      /\ tree[p].kind = IF Depth(p) = options.proofDepth THEN "depth" ELSE known[t].kind
      /\ tree[p].lanes = IF tree[p].kind = "fact" THEN known[t].lanes ELSE {}
      /\ tree[p].rule = IF tree[p].kind = "derived" THEN known[t].rule ELSE Null
      /\ tree[p].kind # "derived" => ~tree[p].premisesTruncated
  BY DEF NodesMade, NodeFits
<1> HIDE DEF t
<1>2. /\ known[t].kind \in {"fact", "derived"}
      /\ known[t].kind = "fact" => t \in DOMAIN dataset /\ known[t].lanes = dataset[t]
      /\ known[t].kind = "derived" =>
            /\ known[t].rule \in program.rules
            /\ \E b \in Bindings :
                  /\ Ground(known[t].rule.head, b) = t
                  /\ known[t].premises = Premises(known[t].rule.body, b)
            /\ Len(known[t].premises) = Len(known[t].rule.body)
  BY <1>1, WitnessListed DEF Given
<1>3. ASSUME tree[p].kind = "derived"
      PROVE  /\ p \in Loops(tree, begun)
             /\ tree[p].rule \in program.rules
             /\ known[t].kind = "derived"
             /\ ClaimsOf(tree, p) = known[t].premises
             /\ Len(ClaimsOf(tree, p)) = Len(tree[p].rule.body)
             /\ DOMAIN tree[p].rule.body = 1..Len(tree[p].rule.body)
             /\ Len(tree[p].rule.body) \in Nat \ {0}
             /\ Len(tree[p].rule.body) <= LiteralsPerRule
             /\ \E b \in Bindings :
                   /\ Ground(tree[p].rule.head, b) = t
                   /\ ClaimsOf(tree, p) = Premises(tree[p].rule.body, b)
  <2>1. known[t].kind = "derived" /\ tree[p].rule = known[t].rule
    BY <1>1, <1>3
  <2>2. ClaimsOf(tree, p) = known[t].premises
    <3>1. ~(Len(p) = 1)
      <4> SUFFICES ASSUME Len(p) = 1 PROVE FALSE
        OBVIOUS
      <4>1. QED
        BY <1>1
    <3>2. QED
      BY <3>1, Zenon DEF ClaimsOf, t
  <2>3. tree[p].rule.body \in Seq(Literal)
    BY <1>2, <2>1, InputFacts DEF Given
  <2>4. /\ Len(tree[p].rule.body) \in Nat \ {0} /\ Len(tree[p].rule.body) <= LiteralsPerRule
    BY <1>2, <2>1, BodyLengths DEF Given
  <2>5. DOMAIN tree[p].rule.body = 1..Len(tree[p].rule.body)
    BY <2>3, LenProperties
  <2>6. p \in Loops(tree, begun)
    BY <1>3 DEF Loops
  <2>7. QED
    BY <1>2, <2>1, <2>2, <2>4, <2>5, <2>6
<1>4. QED
  BY <1>1, <1>2, <1>3 DEF t

LEMMA NothingBelow ==
    ASSUME NEW tree, NEW begun, NodesMade(tree, begun),
           NEW p \in DOMAIN tree, tree[p].kind # "derived"
    PROVE  Below(tree, p) = {}
<1> SUFFICES ASSUME NEW q \in DOMAIN tree, Front(q) = p PROVE FALSE
  BY DEF Below
<1>1. /\ q \in Position /\ Len(q) >= 2 /\ p \in Position /\ Len(p) >= 2
      /\ \A n \in 2 .. Len(q) - 1 : tree[SubSeq(q, 1, n)].kind = "derived"
  BY DEF NodesMade, NodeFits
<1>2. Len(q) \in Nat /\ Len(p) = Len(q) - 1
  BY <1>1, Parent, AllOf
<1>3. Len(q) - 1 \in 2 .. Len(q) - 1 /\ SubSeq(q, 1, Len(q) - 1) = p
  BY <1>1, <1>2 DEF Front
<1>4. QED
  BY <1>1, <1>3

LEMMA NodeDerives ==
    ASSUME Given, NEW tree, NEW begun \in 0..Len(answers), NodesMade(tree, begun),
           \A q \in Loops(tree, begun) : Ended(tree, q), NEW p \in DOMAIN tree
    PROVE  Derives(tree, p)
<1>1. Len(p) > 2 => Front(p) \in DOMAIN tree
  <2>1. /\ p \in Position /\ Len(p) >= 2
        /\ \A n \in 2 .. Len(p) - 1 : SubSeq(p, 1, n) \in DOMAIN tree
    BY DEF NodesMade, NodeFits
  <2>2. Len(p) \in Nat
    BY <2>1, AllOf
  <2>3. Len(p) > 2 => Len(p) - 1 \in 2 .. Len(p) - 1
    BY <2>2
  <2>4. QED
    BY <2>1, <2>3 DEF Front
<1>2. tree[p].kind # "derived" => Below(tree, p) = {}
  BY NothingBelow
<1>3. ASSUME tree[p].kind = "derived"
      PROVE  \E b \in Bindings :
                /\ tree[p].rule \in program.rules
                /\ Ground(tree[p].rule.head, b) = tree[p].reference
                /\ Proves(tree, p, Premises(tree[p].rule.body, b), ~tree[p].premisesTruncated)
  <2>1. p \in Loops(tree, begun) /\ tree[p].rule \in program.rules
    BY <1>3, RuleClaims
  <2>2. PICK b \in Bindings : /\ Ground(tree[p].rule.head, b) = tree[p].reference
                              /\ ClaimsOf(tree, p) = Premises(tree[p].rule.body, b)
    BY <1>3, RuleClaims
  <2>3. /\ Proves(tree, p, ClaimsOf(tree, p), Below(tree, p) = DOMAIN ClaimsOf(tree, p))
        /\ ~tree[p].premisesTruncated <=> Below(tree, p) = DOMAIN ClaimsOf(tree, p)
    BY <2>1, LoopProves
  <2>4. Proves(tree, p, ClaimsOf(tree, p), ~tree[p].premisesTruncated)
    BY <2>3 DEF Proves
  <2>5. QED
    BY <2>1, <2>2, <2>4
<1>4. /\ tree[p].kind # "cycle"
      /\ tree[p].kind = "fact" =>
            tree[p].reference \in DOMAIN dataset /\ tree[p].lanes = dataset[tree[p].reference]
  BY RuleClaims
<1>5. QED
  BY <1>1, <1>2, <1>3, <1>4, Zenon DEF Derives

\* A node shows a whole derivation unless it is cut off.
LEMMA NodeWhole ==
    ASSUME Given, NEW tree, NEW begun \in 0..Len(answers), NodesMade(tree, begun),
           \A q \in Loops(tree, begun) : Ended(tree, q), NEW p \in DOMAIN tree
    PROVE  CutOff(tree[p]) <=>
             ~(/\ tree[p].kind \in {"fact", "derived"}
               /\ tree[p].kind = "derived" => Below(tree, p) = DOMAIN tree[p].rule.body)
<1>1. tree[p].kind \in {"depth", "fact", "derived"}
      /\ (tree[p].kind # "derived" => ~tree[p].premisesTruncated)
  BY RuleClaims
<1>2. CASE tree[p].kind = "derived"
  <2>1. /\ p \in Loops(tree, begun)
        /\ Len(ClaimsOf(tree, p)) = Len(tree[p].rule.body)
        /\ DOMAIN tree[p].rule.body = 1..Len(tree[p].rule.body)
    BY <1>2, RuleClaims
  <2>2. /\ ~tree[p].premisesTruncated <=> Below(tree, p) = DOMAIN ClaimsOf(tree, p)
        /\ DOMAIN ClaimsOf(tree, p) = 1..Len(ClaimsOf(tree, p))
    BY <2>1, LoopProves
  <2>3. ~tree[p].premisesTruncated <=> Below(tree, p) = DOMAIN tree[p].rule.body
    BY <2>1, <2>2
  <2>4. QED
    BY <1>2, <2>3 DEF CutOff
<1>3. CASE tree[p].kind # "derived"
  BY <1>1, <1>3 DEF CutOff
<1>4. QED
  BY <1>2, <1>3

\* The literals of a row and their proofs, and whether anything is cut off.
LEMMA RowProofs ==
    ASSUME Given, NEW tree, NEW begun \in 0..Len(answers), NodesMade(tree, begun),
           \A q \in Loops(tree, begun) : Ended(tree, q), NEW i \in 1..begun
    PROVE  LET match == answers[i].match
               all == Below(tree, <<i>>) = DOMAIN match
           IN  /\ Proves(tree, <<i>>, match, all)
               /\ IsFiniteSet(Below(tree, <<i>>))
               /\ Cardinality(Below(tree, <<i>>)) <= Len(match)
               /\ Cardinality(Below(tree, <<i>>)) = Len(match) <=> all
<1>1. <<i>> \in Loops(tree, begun)
  BY DEF Loops
<1>2. ClaimsOf(tree, <<i>>) = answers[i].match
  BY DEF ClaimsOf
<1>3. QED
  BY <1>1, <1>2, LoopProves

LEMMA NodeInRow ==
    ASSUME NEW tree, NEW begun \in Nat, NodesMade(tree, begun), NEW p \in DOMAIN tree
    PROVE  /\ p[1] \in 1..begun
           /\ <<p[1], p[2]>> \in DOMAIN tree /\ IsPrefix(<<p[1], p[2]>>, p)
           /\ p[2] \in Below(tree, <<p[1]>>)
<1>1. /\ p \in Position /\ Len(p) >= 2 /\ p[1] <= begun
      /\ \A n \in 2 .. Len(p) - 1 : SubSeq(p, 1, n) \in DOMAIN tree
  BY DEF NodesMade, NodeFits
<1>2. Len(p) \in Nat /\ p[1] \in Nat \ {0} /\ p[2] \in Nat \ {0}
  BY <1>1, AllOf
<1>3. SubSeq(p, 1, 2) = <<p[1], p[2]>>
  <2>1. /\ SubSeq(p, 1, 2) \in Position /\ Len(SubSeq(p, 1, 2)) = 2
        /\ \A n \in 1..2 : SubSeq(p, 1, 2)[n] = p[n]
    BY <1>1, <1>2, UpTo
  <2> DEFINE short == SubSeq(p, 1, 2)
  <2> DEFINE pair == <<p[1], p[2]>>
  <2>2. pair \in Position /\ Len(pair) = 2 /\ \A n \in 1..2 : pair[n] = p[n]
    <3>1. pair \in Position
      BY <1>2, PairPosition
    <3>2. Len(pair) = 2 /\ pair[1] = p[1] /\ pair[2] = p[2]
      OBVIOUS
    <3> HIDE DEF pair
    <3>3. \A n \in 1..2 : n = 1 \/ n = 2
      OBVIOUS
    <3>4. QED
      BY <3>1, <3>2, <3>3
  <2>3. short \in Position /\ Len(short) = Len(pair) /\ \A n \in 1..Len(short) : short[n] = pair[n]
    BY <2>1, <2>2
  <2> HIDE DEF short, pair
  <2>4. short = pair
    BY <2>2, <2>3, SamePosition
  <2>5. QED
    BY <2>4 DEF short, pair
<1>4. <<p[1], p[2]>> \in DOMAIN tree
  <2>1. CASE Len(p) <= 2
    <3>1. SubSeq(p, 1, 2) = p
      <4> DEFINE n == Len(p)
      <4>1. n = 2
        <5>1. n \in Nat /\ n >= 2 /\ n <= 2
          BY <1>1, <1>2, <2>1
        <5> HIDE DEF n
        <5>2. QED
          BY <5>1
      <4>2. QED
        BY <1>1, <4>1, AllOf
    <3>2. QED
      BY <1>3, <3>1
  <2>2. CASE ~(Len(p) <= 2)
    <3>1. 2 \in 2 .. Len(p) - 1
      BY <1>2, <2>2
    <3>2. QED
      BY <1>1, <1>3, <3>1
  <2>3. QED
    BY <2>1, <2>2
<1>5. IsPrefix(<<p[1], p[2]>>, p)
  <2>1. <<p[1], p[2]>> \in Position /\ Len(<<p[1], p[2]>>) = 2
    BY <1>2, PairPosition
  <2>2. QED
    BY <1>1, <1>3, <2>1, PrefixOf
<1>6. p[2] \in Below(tree, <<p[1]>>)
  <2>1. <<p[1], p[2]>> = Append(<<p[1]>>, p[2]) /\ <<p[1]>> \in Position
    BY <1>2, PairPosition
  <2>2. Front(<<p[1], p[2]>>) = <<p[1]>> /\ Last(<<p[1], p[2]>>) = p[2]
    <3> DEFINE one == <<p[1]>>
    <3> DEFINE pair == <<p[1], p[2]>>
    <3>1. one \in Position /\ pair = Append(one, p[2])
      BY <2>1
    <3> HIDE DEF one, pair
    <3>2. Front(pair) = one /\ Last(pair) = p[2]
      BY <1>2, <3>1, Extend
    <3>3. QED
      BY <3>2 DEF one, pair
  <2>3. QED
    BY <1>4, <2>2 DEF Below
<1>7. QED
  BY <1>1, <1>2, <1>4, <1>5, <1>6

\* A row says its proofs are truncated just when a literal is missing or a node
\* of it is cut off.
LEMMA RowTruncated ==
    ASSUME NEW tree, NEW begun \in Nat, NodesMade(tree, begun), NEW i \in 1..begun
    PROVE  (\E n \in Below(tree, <<i>>) : Truncated(tree, <<i, n>>))
             <=> \E p \in NodesIn(tree, i) : CutOff(tree[p])
<1>1. ASSUME NEW n \in Below(tree, <<i>>), Truncated(tree, <<i, n>>)
      PROVE  \E p \in NodesIn(tree, i) : CutOff(tree[p])
  <2>1. PICK p \in DOMAIN tree : IsPrefix(<<i, n>>, p) /\ CutOff(tree[p])
    BY <1>1 DEF Truncated
  <2>2. n \in Nat \ {0}
    BY BelowNumbers
  <2>3. p \in Position
    BY DEF NodesMade, NodeFits
  <2>4. p[1] = i
    BY <2>1, <2>2, <2>3, PairPosition, FirstOfPrefix
  <2>5. QED
    BY <2>1, <2>4 DEF NodesIn
<1>2. ASSUME NEW p \in NodesIn(tree, i), CutOff(tree[p])
      PROVE  \E n \in Below(tree, <<i>>) : Truncated(tree, <<i, n>>)
  <2>1. p \in DOMAIN tree /\ p[1] = i
    BY DEF NodesIn
  <2>2. p[2] \in Below(tree, <<i>>) /\ IsPrefix(<<i, p[2]>>, p)
    BY <2>1, NodeInRow
  <2>3. QED
    BY <1>2, <2>1, <2>2 DEF Truncated
<1>3. QED
  BY <1>1, <1>2

LEMMA ProofsAreHonest == ResultInvariant => ProofsHonest
<1> SUFFICES ASSUME ResultInvariant, result # Null
             PROVE  /\ \A p \in DOMAIN result.proofs :
                          p[1] \in DOMAIN result.rows /\ Derives(result.proofs, p)
                    /\ \A i \in DOMAIN result.rows :
                          \E match \in SupportOf(LeastModel(DOMAIN dataset), result.rows[i].values) :
                             LET all == Below(result.proofs, <<i>>) = DOMAIN match
                             IN  /\ Proves(result.proofs, <<i>>, match, all)
                                 /\ result.rows[i].proofsTruncated <=>
                                       ~(all /\ Whole(result.proofs, NodesOf(result, i)))
  BY Zenon DEF ProofsHonest
<1>1. /\ result.rows = rows /\ result.proofs = proofs /\ Given
      /\ LeastModel(DOMAIN dataset) = Tuples
      /\ DOMAIN rows = 1..Len(rows) /\ Len(rows) \in 0..Len(answers) /\ Len(rows) \in Nat
      /\ NodesMade(proofs, Len(rows)) /\ \A q \in Loops(proofs, Len(rows)) : Ended(proofs, q)
  BY AtTheEnd DEF Between
<1>2. ASSUME NEW p \in DOMAIN proofs PROVE p[1] \in 1..Len(rows) /\ Derives(proofs, p)
  BY <1>1, NodeInRow, NodeDerives
<1>3. ASSUME NEW i \in 1..Len(rows)
      PROVE  \E match \in SupportOf(Tuples, rows[i].values) :
                LET all == Below(proofs, <<i>>) = DOMAIN match
                IN  /\ Proves(proofs, <<i>>, match, all)
                    /\ rows[i].proofsTruncated <=> ~(all /\ Whole(proofs, NodesOf(result, i)))
  <2> DEFINE match == answers[i].match
  <2> DEFINE all == Below(proofs, <<i>>) = DOMAIN match
  <2>1. rows[i] = RowIn(proofs, i) /\ match \in SupportOf(Tuples, rows[i].values)
    BY RowShows
  <2>2. /\ Proves(proofs, <<i>>, match, all)
        /\ Cardinality(Below(proofs, <<i>>)) = Len(match) <=> all
    BY <1>1, RowProofs
  <2>3. NodesOf(result, i) = NodesIn(proofs, i)
    BY <1>1 DEF NodesOf, NodesIn
  <2>4. Whole(proofs, NodesIn(proofs, i)) <=> ~\E p \in NodesIn(proofs, i) : CutOff(proofs[p])
    <3>1. ASSUME NEW p \in NodesIn(proofs, i)
          PROVE  CutOff(proofs[p]) <=>
                   ~(/\ proofs[p].kind \in {"fact", "derived"}
                     /\ proofs[p].kind = "derived" => Below(proofs, p) = DOMAIN proofs[p].rule.body)
      <4>1. p \in DOMAIN proofs
        BY DEF NodesIn
      <4>2. QED
        BY <1>1, <4>1, NodeWhole
    <3>2. QED
      BY <3>1, Zenon DEF Whole
  <2>5. rows[i].proofsTruncated <=>
          \/ Cardinality(Below(proofs, <<i>>)) # Len(match)
          \/ \E p \in NodesIn(proofs, i) : CutOff(proofs[p])
    <3>1. rows[i].proofsTruncated =
            (\/ Cardinality(Below(proofs, <<i>>)) # Len(match)
             \/ \E n \in Below(proofs, <<i>>) : Truncated(proofs, <<i, n>>))
      BY <2>1 DEF RowIn
    <3>2. (\E n \in Below(proofs, <<i>>) : Truncated(proofs, <<i, n>>))
            <=> \E p \in NodesIn(proofs, i) : CutOff(proofs[p])
      BY <1>1, RowTruncated
    <3> HIDE DEF match
    <3>3. QED
      BY <3>1, <3>2, Zenon
  <2>6. rows[i].proofsTruncated <=> ~(all /\ Whole(proofs, NodesOf(result, i)))
    <3> HIDE DEF match, all
    <3>1. QED
      BY <2>2, <2>3, <2>4, <2>5, Zenon
  <2>7. QED
    BY <2>1, <2>2, <2>6
<1>4. QED
  BY <1>1, <1>2, <1>3, Zenon

\* A result is exactly the answer it claims to be, with the proofs it claims,
\* whatever was cut off by a budget and wherever (buildProjectionResult).
THEOREM RowsAlwaysHonest == ResultSpec => []RowsHonest
<1>1. ResultInvariant => RowsHonest
  BY AnswersAreExact, ProofsAreHonest DEF RowsHonest
<1>2. QED
  BY <1>1, ResultsHold, PTL

-----------------------------------------------------------------------------
(* What is labelled canonical.                                             *)

LEMMA LeastMonotone ==
    ASSUME NEW F, NEW G, F \subseteq G
    PROVE  LeastModel(F) \subseteq LeastModel(G)
<1> DEFINE M == LeastModel(G) \cap (F \cup Concludable)
<1>1. IsModel(G, LeastModel(G))
  BY LeastIsModel
<1>2. F \subseteq M
  BY <1>1 DEF IsModel
<1>3. ASSUME NEW firing \in Firings(M) PROVE Conclusion(firing) \in M
  <2>1. firing \in Firings(LeastModel(G))
    BY FiringsMonotone
  <2>2. Conclusion(firing) \in LeastModel(G)
    BY <1>1, <2>1 DEF IsModel
  <2>3. Conclusion(firing) \in Concludable
    BY ConclusionsConcludable
  <2>4. QED
    BY <2>2, <2>3
<1>4. IsModel(F, M)
  <2> HIDE DEF M
  <2>1. QED
    BY <1>2, <1>3 DEF IsModel
<1>5. LeastModel(F) \subseteq M
  BY <1>4, LeastInModels
<1>6. QED
  BY <1>5

\* The tuples a row shows in its proofs.
ShownIn(i) == {proofs[p].reference : p \in NodesIn(proofs, i)}

\* A row that does not say it is truncated shows every premise of what it shows.
LEMMA WholeRow ==
    ASSUME ResultInvariant, result # Null, NEW i \in 1..Len(rows), ~rows[i].proofsTruncated
    PROVE  /\ \A k \in DOMAIN answers[i].match : answers[i].match[k] \in ShownIn(i)
           /\ ShownIn(i) \in SUBSET Tuples
           /\ SelfContained(ShownIn(i))
           /\ \A p \in NodesIn(proofs, i) :
                 proofs[p].kind \in {"fact", "derived"}
                 /\ proofs[p].kind = known[proofs[p].reference].kind
<1> DEFINE begun == Len(rows)
<1> DEFINE match == answers[i].match
<1>1. /\ Given /\ begun \in 0..Len(answers) /\ begun \in Nat
      /\ NodesMade(proofs, begun) /\ \A q \in Loops(proofs, begun) : Ended(proofs, q)
  BY AtTheEnd DEF Between
<1> HIDE DEF begun
<1>2. /\ Below(proofs, <<i>>) = DOMAIN match
      /\ \A p \in NodesIn(proofs, i) : ~CutOff(proofs[p])
  <2>1. rows[i].proofsTruncated =
          (\/ Cardinality(Below(proofs, <<i>>)) # Len(match)
           \/ \E n \in Below(proofs, <<i>>) : Truncated(proofs, <<i, n>>))
    <3>1. rows[i] = RowIn(proofs, i)
      BY RowShows
    <3>2. QED
      BY <3>1 DEF RowIn
  <2>2. Cardinality(Below(proofs, <<i>>)) = Len(match) <=> Below(proofs, <<i>>) = DOMAIN match
    BY <1>1, RowProofs DEF begun
  <2>3. (\E n \in Below(proofs, <<i>>) : Truncated(proofs, <<i, n>>))
          <=> \E p \in NodesIn(proofs, i) : CutOff(proofs[p])
    BY <1>1, RowTruncated DEF begun
  <2> HIDE DEF match
  <2>4. QED
    BY <2>1, <2>2, <2>3, Zenon
<1>3. ASSUME NEW q \in Loops(proofs, begun), NEW k \in Below(proofs, q), q[1] = i
      PROVE  ClaimsOf(proofs, q)[k] \in ShownIn(i)
  <2>1. /\ Proves(proofs, q, ClaimsOf(proofs, q), Below(proofs, q) = DOMAIN ClaimsOf(proofs, q))
    BY <1>1, LoopProves
  <2>2. proofs[Append(q, k)].reference = ClaimsOf(proofs, q)[k]
    BY <2>1 DEF Proves
  <2>3. q \in Position /\ Len(q) >= 1 /\ k \in Nat \ {0}
    BY <1>1, LoopClaims, BelowNumbers
  <2>4. Append(q, k) \in DOMAIN proofs
    <3>1. ASSUME NEW p \in DOMAIN proofs PROVE p \in Position \ {<<>>}
      <4>1. p \in Position /\ Len(p) >= 2
        BY <1>1 DEF NodesMade, NodeFits
      <4>2. QED
        BY <4>1, EmptySeq
    <3>2. QED
      BY <2>3, <3>1, Children
  <2>5. Append(q, k)[1] = i
    <3>1. 1 \in 1..Len(q)
      BY <2>3, AllOf
    <3>2. QED
      BY <1>3, <2>3, <3>1, Extend
  <2>6. QED
    BY <2>2, <2>4, <2>5 DEF ShownIn, NodesIn
<1>4. ASSUME NEW k \in DOMAIN match PROVE match[k] \in ShownIn(i)
  <2>1. <<i>> \in Loops(proofs, begun) /\ <<i>>[1] = i
    BY DEF Loops, begun
  <2>2. ClaimsOf(proofs, <<i>>) = match
    BY DEF ClaimsOf
  <2>3. k \in Below(proofs, <<i>>)
    BY <1>2
  <2> HIDE DEF match
  <2>4. ClaimsOf(proofs, <<i>>)[k] \in ShownIn(i)
    BY <1>3, <2>1, <2>3
  <2>5. QED
    BY <2>2, <2>4
<1>5. ASSUME NEW p \in NodesIn(proofs, i)
      PROVE  /\ proofs[p].kind \in {"fact", "derived"}
             /\ proofs[p].kind = known[proofs[p].reference].kind
             /\ proofs[p].reference \in Tuples
  <2>1. p \in DOMAIN proofs /\ ~CutOff(proofs[p])
    BY <1>2 DEF NodesIn
  <2>2. proofs[p].kind \in {"depth", "fact", "derived"}
    BY <1>1, <2>1, RuleClaims
  <2>3. proofs[p].kind # "depth"
    BY <2>1 DEF CutOff
  <2>4. /\ proofs[p].kind = IF Depth(p) = options.proofDepth THEN "depth"
                            ELSE known[proofs[p].reference].kind
        /\ proofs[p].reference \in Tuples
    BY <1>1, <2>1 DEF NodesMade, NodeFits
  <2>5. QED
    BY <2>2, <2>3, <2>4
<1>6. ShownIn(i) \in SUBSET Tuples
  BY <1>5 DEF ShownIn
<1>7. ASSUME NEW t \in ShownIn(i) \ FactsAmong(ShownIn(i)), NEW k \in DOMAIN known[t].premises
      PROVE  known[t].premises[k] \in ShownIn(i)
  <2>1. PICK p \in NodesIn(proofs, i) : proofs[p].reference = t
    BY DEF ShownIn
  <2>2. p \in DOMAIN proofs /\ p[1] = i /\ ~CutOff(proofs[p])
    BY <1>2 DEF NodesIn
  <2>3. proofs[p].kind = "derived"
    <3>1. known[t].kind # "fact"
      BY DEF FactsAmong
    <3>2. QED
      BY <1>5, <2>1, <3>1
  <2>4. /\ p \in Loops(proofs, begun)
        /\ ClaimsOf(proofs, p) = known[t].premises
    BY <1>1, <2>1, <2>2, <2>3, RuleClaims
  <2>5. ~proofs[p].premisesTruncated
    BY <2>2 DEF CutOff
  <2>6. Below(proofs, p) = DOMAIN ClaimsOf(proofs, p)
    BY <1>1, <2>2, <2>4, <2>5, LoopProves
  <2>7. ClaimsOf(proofs, p)[k] \in ShownIn(i)
    BY <1>3, <2>2, <2>4, <2>6
  <2>8. QED
    BY <2>4, <2>7
<1>8. SelfContained(ShownIn(i))
  BY <1>7, Zenon DEF SelfContained
<1>9. QED
  BY <1>4, <1>5, <1>6, <1>8

LEMMA CanonicalAlone == ResultInvariant => CanonicalStandsAlone
<1> SUFFICES ASSUME ResultInvariant, result # Null, NEW i \in DOMAIN result.rows,
                    PremiseAuthority(result, i) = "canonical"
             PROVE  result.rows[i].values \in AnswersOf(LeastModel(
                        {f \in DOMAIN dataset : dataset[f] = {"canonical"}}))
  BY Zenon DEF CanonicalStandsAlone
<1> DEFINE G == {f \in DOMAIN dataset : dataset[f] = {"canonical"}}
<1> DEFINE F == FactsAmong(ShownIn(i))
<1>1. result.rows = rows /\ result.proofs = proofs /\ i \in 1..Len(rows) /\ Given
      /\ NodesMade(proofs, Len(rows))
  BY AtTheEnd DEF Between
<1>2. ~rows[i].proofsTruncated /\ "working" \notin LanesIn(result, i)
  BY <1>1 DEF PremiseAuthority
<1>3. /\ \A k \in DOMAIN answers[i].match : answers[i].match[k] \in ShownIn(i)
      /\ ShownIn(i) \in SUBSET Tuples /\ SelfContained(ShownIn(i))
      /\ \A p \in NodesIn(proofs, i) :
            proofs[p].kind \in {"fact", "derived"}
            /\ proofs[p].kind = known[proofs[p].reference].kind
  BY <1>1, <1>2, WholeRow
<1>4. ShownIn(i) \subseteq LeastModel(F)
  BY <1>3, SufficesAsNamed DEF ResultInvariant
<1>5. ASSUME NEW t \in F PROVE t \in G
  <2>1. PICK p \in NodesIn(proofs, i) : proofs[p].reference = t /\ known[t].kind = "fact"
    BY DEF FactsAmong, ShownIn
  <2>2. p \in DOMAIN proofs /\ p \in NodesOf(result, i)
    BY <1>1 DEF NodesIn, NodesOf
  <2>3. proofs[p].kind = "fact"
    BY <1>3, <2>1
  <2>4. t \in DOMAIN dataset /\ proofs[p].lanes = dataset[t]
    BY <1>1, <2>1, <2>2, <2>3, RuleClaims
  <2>5. dataset[t] \subseteq LanesIn(result, i)
    BY <1>1, <2>2, <2>4 DEF LanesIn
  <2>6. dataset[t] \in (SUBSET Lanes) \ {{}}
    BY <1>1, <2>4, InputFacts DEF Given
  <2>7. Lanes \subseteq {"canonical", "working"}
    BY ResultAssumption
  <2>8. dataset[t] = {"canonical"}
    BY <1>2, <2>5, <2>6, <2>7
  <2>9. QED
    BY <2>4, <2>8
<1> HIDE DEF F, G
<1>6. LeastModel(F) \subseteq LeastModel(G)
  <2>1. F \subseteq G
    BY <1>5
  <2>2. QED
    BY <2>1, LeastMonotone
<1>7. /\ answers[i].match \in SupportOf(Tuples, answers[i].values)
      /\ rows[i].values = answers[i].values
  BY <1>1, RowShows
<1>8. PICK b \in Bindings : answers[i].match = Premises(program.where, b)
  BY <1>7, Zenon DEF SupportOf, QueryMatchesOf, Matches
<1>9. Satisfies(LeastModel(G), program.where, b)
  <2>1. ASSUME NEW k \in DOMAIN program.where
        PROVE  Ground(program.where[k], b) \in LeastModel(G)
    <3>1. k \in DOMAIN answers[i].match /\ answers[i].match[k] = Ground(program.where[k], b)
      BY <1>8 DEF Premises
    <3>2. QED
      BY <1>3, <1>4, <1>6, <3>1
  <2>2. QED
    BY <2>1 DEF Satisfies
<1>10. answers[i].match \in QueryMatchesOf(LeastModel(G))
  BY <1>8, <1>9 DEF QueryMatchesOf, Matches
<1>11. ValuesOf(answers[i].match) = answers[i].values
  BY <1>7 DEF SupportOf
<1>12. answers[i].values \in AnswersOf(LeastModel(G))
  BY <1>10, <1>11 DEF AnswersOf
<1>13. QED
  BY <1>1, <1>7, <1>12 DEF G

\* What publicRowV2 labels canonical is an answer over the facts all of whose
\* sources are canonical, whatever the working lane holds.
THEOREM CanonicalAlwaysStandsAlone == ResultSpec => []CanonicalStandsAlone
  BY CanonicalAlone, ResultsHold, PTL

-----------------------------------------------------------------------------
(* What the parser of cached results counts.                               *)

\* Every match was tried: it is one of the attempts at its last literal.
LEMMA MatchesTried ==
    ASSUME NEW tuples, IsFiniteSet(tuples), NEW body \in Seq(Literal), Len(body) >= 1
    PROVE  /\ Cardinality(Matches(tuples, body)) \in Nat
           /\ Cardinality(Matches(tuples, body)) <= Work(tuples, body)
<1> DEFINE n == Len(body)
<1> DEFINE try(m) == <<n, Prefix(m, n - 1), m[n]>>
<1> DEFINE f == [m \in Matches(tuples, body) |-> try(m)]
<1>1. n \in Nat /\ n \in 1..n /\ n - 1 \in 0..n /\ n - 1 \in Nat /\ DOMAIN body = 1..n
  BY LenProperties
<1> HIDE DEF n
<1>2. ASSUME NEW m \in Matches(tuples, body)
      PROVE  /\ m \in Seq(tuples) /\ Len(m) = n
             /\ Prefix(m, n - 1) \in Seq(tuples) /\ Len(Prefix(m, n - 1)) = n - 1
             /\ \A i \in 1 .. n - 1 : Prefix(m, n - 1)[i] = m[i]
  <2>1. m \in Seq(tuples) /\ Len(m) = n
    BY MatchListed DEF n
  <2>2. QED
    BY <1>1, <2>1, PrefixOfSeq
<1>3. ASSUME NEW m \in Matches(tuples, body) PROVE try(m) \in Attempts(tuples, body)
  <2>1. PICK b \in Bindings : m = Premises(body, b) /\ Satisfies(tuples, body, b)
    BY Zenon DEF Matches
  <2>2. \A i \in 1..n : m[i] = Ground(body[i], b) /\ Ground(body[i], b) \in tuples
    BY <1>1, <2>1 DEF Premises, Satisfies
  <2>3. m[n] \in {t \in tuples : t.relation = body[n].relation}
    <3>1. m[n] = Ground(body[n], b) /\ m[n] \in tuples
      BY <1>1, <2>2
    <3>2. Ground(body[n], b).relation = body[n].relation
      BY DEF Ground
    <3>3. QED
      BY <3>1, <3>2
  <2> DEFINE start == Start(body, n - 1)
  <2>4. /\ start \in Seq(Literal) /\ Len(start) = n - 1 /\ DOMAIN start = 1 .. n - 1
        /\ \A i \in 1 .. n - 1 : start[i] = body[i]
    <3>1. /\ start \in Seq(Literal) /\ Len(start) = n - 1
          /\ \A i \in 1 .. n - 1 : start[i] = body[i]
      BY <1>1, PrefixOfSeq DEF Start, Prefix, n
    <3>2. QED
      BY <3>1, LenProperties
  <2> HIDE DEF start
  <2>5. Satisfies(tuples, start, b)
    BY <1>1, <2>2, <2>4 DEF Satisfies
  <2>6. /\ Premises(start, b) \in Seq(tuples) /\ Len(Premises(start, b)) = n - 1
        /\ \A i \in 1 .. n - 1 : Premises(start, b)[i] = Ground(start[i], b)
    BY <2>4, <2>5, PremisesListed
  <2>7. Prefix(m, n - 1) = Premises(start, b)
    <3>1. \A i \in 1 .. n - 1 : Prefix(m, n - 1)[i] = Premises(start, b)[i]
      <4>1. ASSUME NEW i \in 1 .. n - 1 PROVE Prefix(m, n - 1)[i] = Premises(start, b)[i]
        <5>1. i \in 1..n
          BY <1>1
        <5>2. Prefix(m, n - 1)[i] = m[i]
          BY <1>2
        <5>3. m[i] = Ground(body[i], b)
          BY <2>2, <5>1
        <5>4. Premises(start, b)[i] = Ground(start[i], b) /\ start[i] = body[i]
          BY <2>4, <2>6
        <5>5. QED
          BY <5>2, <5>3, <5>4
      <4>2. QED
        BY <4>1
    <3>2. QED
      BY <1>2, <2>6, <3>1, SeqEqual
  <2>8. Prefix(m, n - 1) \in Matches(tuples, Start(body, n - 1))
    BY <2>5, <2>7 DEF Matches, start
  <2>9. QED
    BY <1>1, <2>3, <2>8 DEF Attempts
<1>4. f \in Injection(Matches(tuples, body), Attempts(tuples, body))
  <2>1. ASSUME NEW m \in Matches(tuples, body), NEW k \in Matches(tuples, body), try(m) = try(k)
        PROVE  m = k
    <3>1. Prefix(m, n - 1) = Prefix(k, n - 1) /\ m[n] = k[n]
      BY <2>1
    <3>2. ASSUME NEW i \in 1..n PROVE m[i] = k[i]
      <4>1. CASE i = n
        BY <3>1, <4>1
      <4>2. CASE i # n
        <5>1. i \in 1 .. n - 1
          BY <1>1, <4>2
        <5>2. QED
          BY <1>2, <3>1, <5>1
      <4>3. QED
        BY <4>1, <4>2
    <3>3. QED
      BY <1>2, <3>2, SeqEqual
  <2> HIDE DEF try
  <2>2. f \in [Matches(tuples, body) -> Attempts(tuples, body)]
    BY <1>3
  <2>3. QED
    BY <2>1, <2>2 DEF Injection, IsInjective
<1>5. IsFiniteSet(Attempts(tuples, body)) /\ IsFiniteSet(Matches(tuples, body))
  BY FiniteAttempts, FiniteMatches
<1> HIDE DEF f
<1>6. Cardinality(Matches(tuples, body)) <= Cardinality(Attempts(tuples, body))
  BY <1>4, <1>5, FS_Injection
<1>7. QED
  BY <1>5, <1>6, FS_CardinalityType DEF Work

LEMMA QueryCounts ==
    ASSUME ResultInvariant, result # Null
    PROVE  /\ IsFiniteSet(QueryMatchesOf(Tuples)) /\ Cardinality(QueryMatchesOf(Tuples)) \in Nat
           /\ Cardinality(QueryMatchesOf(Tuples)) <= QueryMatches
           /\ Cardinality(QueryMatchesOf(Tuples)) <= work
           /\ \A values : /\ IsFiniteSet(SupportOf(Tuples, values))
                          /\ Cardinality(SupportOf(Tuples, values)) \in Nat
                          /\ Cardinality(SupportOf(Tuples, values)) <= QueryMatches
<1>1. /\ IsFiniteSet(QueryMatchesOf(Tuples)) /\ Cardinality(QueryMatchesOf(Tuples)) \in Nat
  BY FiniteAnswers, FS_CardinalityType
<1>2. /\ Given /\ JoinsWithin(Tuples, program.where) /\ QueryWork <= work
      /\ IsFiniteSet(Tuples) /\ work \in Nat
  BY AtTheEnd DEF ResultInvariant, StatsInvariant
<1>3. program.where \in Seq(Literal) /\ Len(program.where) \in Nat \ {0}
  BY <1>2, InputFacts, BodyLengths DEF Given
<1>4. Cardinality(QueryMatchesOf(Tuples)) <= QueryMatches
  <2>1. Len(program.where) \in DOMAIN program.where
    BY <1>3, LenProperties
  <2>2. Start(program.where, Len(program.where)) = program.where
    BY <1>3, PrefixAll DEF Start, Prefix
  <2>3. QED
    BY <1>2, <2>1, <2>2 DEF JoinsWithin, QueryMatchesOf
<1>5. Cardinality(QueryMatchesOf(Tuples)) <= work
  <2>1. Cardinality(QueryMatchesOf(Tuples)) <= QueryWork
    BY <1>2, <1>3, MatchesTried DEF QueryMatchesOf, QueryWork
  <2>2. QueryWork \in Nat
    BY <1>2, WorkCounts DEF Given
  <2>3. QED
    BY <1>1, <1>2, <2>1, <2>2
<1>6. ASSUME NEW values
      PROVE  /\ IsFiniteSet(SupportOf(Tuples, values))
             /\ Cardinality(SupportOf(Tuples, values)) \in Nat
             /\ Cardinality(SupportOf(Tuples, values)) <= QueryMatches
  <2>1. SupportOf(Tuples, values) \subseteq QueryMatchesOf(Tuples)
    BY DEF SupportOf
  <2>2. /\ IsFiniteSet(SupportOf(Tuples, values))
        /\ Cardinality(SupportOf(Tuples, values)) <= Cardinality(QueryMatchesOf(Tuples))
    BY <1>1, <2>1, FS_Subset
  <2>3. Cardinality(SupportOf(Tuples, values)) \in Nat
    BY <2>2, FS_CardinalityType
  <2>4. QueryMatches \in Nat
    BY ProjectionAssumption
  <2>5. QED
    BY <1>1, <1>4, <2>2, <2>3, <2>4
<1>7. QED
  BY <1>1, <1>4, <1>5, <1>6

LEMMA NodesParse ==
    ASSUME Given, NEW tree, NEW begun \in 0..Len(answers), NodesMade(tree, begun),
           \A q \in Loops(tree, begun) : Ended(tree, q), NEW p \in DOMAIN tree
    PROVE  Depth(p) <= options.proofDepth /\ NodeParses(tree, p)
<1>1. Depth(p) <= options.proofDepth
  BY DEF NodesMade, NodeFits
<1>2. ASSUME tree[p].kind = "fact" PROVE tree[p].lanes # {}
  <2>1. tree[p].reference \in DOMAIN dataset /\ tree[p].lanes = dataset[tree[p].reference]
    BY <1>2, RuleClaims
  <2>2. dataset[tree[p].reference] \in (SUBSET Lanes) \ {{}}
    BY <2>1, InputFacts DEF Given
  <2>3. QED
    BY <2>1, <2>2
<1>3. ASSUME tree[p].kind = "derived"
      PROVE  /\ Cardinality(Below(tree, p)) <= LiteralsPerRule
             /\ ~tree[p].premisesTruncated => Cardinality(Below(tree, p)) # 0
             /\ tree[p].premisesTruncated => Cardinality(Below(tree, p)) # LiteralsPerRule
  <2> DEFINE claims == ClaimsOf(tree, p)
  <2> DEFINE many == Len(claims)
  <2> DEFINE some == Cardinality(Below(tree, p))
  <2>1. p \in Loops(tree, begun) /\ many \in Nat \ {0} /\ many <= LiteralsPerRule
    BY <1>3, RuleClaims
  <2>2. /\ ~tree[p].premisesTruncated <=> Below(tree, p) = DOMAIN claims
        /\ IsFiniteSet(Below(tree, p)) /\ some <= many
        /\ some = many <=> Below(tree, p) = DOMAIN claims
    BY <2>1, LoopProves
  <2>3. some \in Nat
    BY <2>2, FS_CardinalityType
  <2>4. LiteralsPerRule \in Nat
    BY ResultAssumption
  <2> HIDE DEF claims, many, some
  <2>5. ~tree[p].premisesTruncated <=> some = many
    BY <2>2, Zenon
  <2>6. some <= LiteralsPerRule /\ (some = many => some # 0)
        /\ (some # many => some # LiteralsPerRule)
    BY <2>1, <2>2, <2>3, <2>4
  <2>7. QED
    BY <2>5, <2>6, Zenon DEF some
<1>4. QED
  BY <1>1, <1>2, <1>3, Zenon DEF NodeParses

LEMMA RowsParse ==
    ASSUME ResultInvariant, result # Null, NEW i \in 1..Len(rows)
    PROVE  RowParses(result, i)
<1> DEFINE begun == Len(rows)
<1> DEFINE shown == Below(proofs, <<i>>)
<1> DEFINE some == Cardinality(shown)
<1> DEFINE many == Len(answers[i].match)
<1> DEFINE cut == \E n \in shown : Truncated(proofs, <<i, n>>)
<1>1. /\ result.rows = rows /\ result.proofs = proofs /\ Given
      /\ begun \in 0..Len(answers) /\ begun \in Nat
      /\ NodesMade(proofs, begun) /\ Counted(proofs, begun, used)
      /\ \A q \in Loops(proofs, begun) : Ended(proofs, q)
  BY AtTheEnd DEF Between
<1>2. /\ answers[i].match \in SupportOf(Tuples, answers[i].values)
      /\ rows[i] = RowIn(proofs, i)
      /\ rows[i].supportCount = Cardinality(SupportOf(Tuples, answers[i].values))
  BY RowShows
<1>3. many \in Nat \ {0} /\ many <= QueryLiterals /\ QueryLiterals \in Nat
      /\ DOMAIN answers[i].match = 1..many
  <2>1. answers[i].match \in Matches(Tuples, program.where)
    BY <1>2 DEF SupportOf, QueryMatchesOf
  <2>2. program.where \in Seq(Literal)
    BY <1>1, InputFacts DEF Given
  <2>3. answers[i].match \in Seq(Tuples) /\ many = Len(program.where)
    BY <2>1, <2>2, MatchListed
  <2>4. DOMAIN answers[i].match = 1..many
    BY <2>3, LenProperties
  <2>5. QED
    BY <1>1, <2>3, <2>4, BodyLengths DEF Given
<1>4. /\ IsFiniteSet(shown) /\ some <= many
      /\ some = many <=> shown = DOMAIN answers[i].match
  BY <1>1, RowProofs
<1>5. some \in Nat
  BY <1>4, FS_CardinalityType
<1>6. rows[i].proofsTruncated <=> (~(some = many) \/ cut)
  BY <1>2 DEF RowIn
<1>7. some = many => shown # {}
  <2>1. 1 \in DOMAIN answers[i].match
    <3> HIDE DEF many
    <3>1. QED
      BY <1>3
  <2> HIDE DEF shown, some, many
  <2>2. QED
    BY <1>4, <2>1
<1> HIDE DEF many, cut, begun
<1>8. some <= QueryLiterals /\ (some = QueryLiterals => some = many)
  <2> HIDE DEF some
  <2>1. QED
    BY <1>3, <1>4, <1>5
<1>9. /\ ~rows[i].proofsTruncated => shown # {} /\ ~cut
      /\ rows[i].proofsTruncated /\ some = QueryLiterals => cut
  BY <1>6, <1>7, <1>8, Zenon
<1>10. rows[i].supportCount \in 1..QueryMatches
  <2>1. /\ IsFiniteSet(SupportOf(Tuples, answers[i].values))
        /\ rows[i].supportCount \in Nat /\ rows[i].supportCount <= QueryMatches
    BY <1>2, QueryCounts
  <2>2. Cardinality(SupportOf(Tuples, answers[i].values)) # 0
    BY <1>2, <2>1, FS_EmptySet
  <2>3. QueryMatches \in Nat
    BY ProjectionAssumption
  <2>4. QED
    BY <1>2, <2>1, <2>2, <2>3
<1>11. NodesOf(result, i) = NodesIn(proofs, i)
  BY <1>1 DEF NodesOf, NodesIn
<1>12. Cardinality(NodesIn(proofs, i)) <= options.proofNodes
  BY <1>1 DEF Counted, begun
<1>13. ASSUME NEW p \in NodesIn(proofs, i)
       PROVE  Depth(p) <= options.proofDepth /\ NodeParses(proofs, p)
  <2>1. p \in DOMAIN proofs
    BY DEF NodesIn
  <2>2. QED
    BY <1>1, <2>1, NodesParse
<1>14. QED
  BY <1>1, <1>8, <1>9, <1>10, <1>11, <1>12, <1>13, Zenon DEF RowParses, some, shown, cut

\* The supports of the rows shown are different matches, all of them when all
\* answers are shown.
LEMMA SupportsCount ==
    ASSUME ResultInvariant, result # Null
    PROVE  IF result.truncated = {}
           THEN Cardinality(Supports(result)) = Cardinality(QueryMatchesOf(Tuples))
           ELSE Cardinality(Supports(result)) < Cardinality(QueryMatchesOf(Tuples))
<1> DEFINE S == Supports(result)
<1> DEFINE M == QueryMatchesOf(Tuples)
<1> DEFINE support(i) == SupportOf(Tuples, answers[i].values)
<1> DEFINE count == [i \in 1..Len(answers) |->
                        CHOOSE h : h \in Bijection(1..Cardinality(support(i)), support(i))]
<1> DEFINE f == [s \in S |-> count[s[1]][s[2]]]
<1>1. /\ result.rows = rows /\ DOMAIN rows = 1..Len(rows) /\ AnswersListed
      /\ Len(rows) \in Nat /\ Len(answers) \in Nat /\ Len(rows) <= Len(answers)
      /\ result.truncated = {} <=> Len(rows) = Len(answers)
  BY AtTheEnd DEF Given
<1>2. IsFiniteSet(M) /\ Cardinality(M) \in Nat
  BY QueryCounts
<1>3. ASSUME NEW i \in 1..Len(answers)
      PROVE  count[i] \in Bijection(1..Cardinality(support(i)), support(i))
  <2>1. IsFiniteSet(support(i))
    BY QueryCounts
  <2>2. ExistsBijection(1..Cardinality(support(i)), support(i))
    BY <2>1, FS_CardinalityType
  <2> HIDE DEF support
  <2>3. \E h : h \in Bijection(1..Cardinality(support(i)), support(i))
    BY <2>2, Zenon DEF ExistsBijection
  <2>4. (CHOOSE h : h \in Bijection(1..Cardinality(support(i)), support(i)))
          \in Bijection(1..Cardinality(support(i)), support(i))
    BY <2>3, Zenon
  <2>5. count[i] = CHOOSE h : h \in Bijection(1..Cardinality(support(i)), support(i))
    BY Zenon
  <2>6. QED
    BY <2>4, <2>5, Zenon
<1> HIDE DEF count
<1>4. ASSUME NEW s \in S
      PROVE  /\ s = <<s[1], s[2]>>
             /\ s[1] \in 1..Len(rows) /\ s[1] \in 1..Len(answers)
             /\ s[2] \in 1..Cardinality(support(s[1]))
             /\ f[s] \in support(s[1])
  <2>1. PICK i \in 1..Len(rows) : s \in {i} \X (1..rows[i].supportCount)
    BY <1>1 DEF Supports
  <2>2. s = <<s[1], s[2]>> /\ s[1] = i /\ s[2] \in 1..rows[i].supportCount
    BY <2>1
  <2>3. i \in 1..Len(answers) /\ rows[i].supportCount = Cardinality(support(i))
    BY RowShows
  <2>4. count[i] \in Bijection(1..Cardinality(support(i)), support(i))
    BY <1>3, <2>3
  <2>5. count[i][s[2]] \in support(i)
    BY <2>2, <2>3, <2>4 DEF Bijection, Injection
  <2>6. f[s] = count[i][s[2]]
    BY <2>2
  <2>7. QED
    BY <2>2, <2>3, <2>5, <2>6
<1>5. f \in Injection(S, M)
  <2>1. f \in [S -> M]
    <3>1. \A s \in S : f[s] \in M
      BY <1>4 DEF SupportOf
    <3> HIDE DEF S, M
    <3>2. QED
      BY <3>1
  <2>2. ASSUME NEW s \in S, NEW t \in S, f[s] = f[t] PROVE s = t
    <3>1. answers[s[1]].values = answers[t[1]].values
      BY <1>4, <2>2 DEF SupportOf
    <3>2. s[1] = t[1]
      BY <1>4, <3>1, RowsDiffer
    <3>3. count[s[1]] \in Bijection(1..Cardinality(support(s[1])), support(s[1]))
      BY <1>3, <1>4
    <3>4. count[s[1]][s[2]] = count[s[1]][t[2]]
      BY <2>2, <3>2
    <3>5. s[2] \in 1..Cardinality(support(s[1])) /\ t[2] \in 1..Cardinality(support(s[1]))
      BY <1>4, <3>2
    <3> HIDE DEF f, support
    <3>6. s[2] = t[2]
      BY <3>3, <3>4, <3>5 DEF Bijection, Injection, IsInjective
    <3>7. QED
      BY <1>4, <3>2, <3>6
  <2> HIDE DEF S, M, f
  <2>3. QED
    BY <2>1, <2>2 DEF Injection, IsInjective
<1>6. ASSUME Len(rows) = Len(answers) PROVE f \in Surjection(S, M)
  <2>1. ASSUME NEW m \in M PROVE \E s \in S : f[s] = m
    <3>1. ValuesOf(m) \in AnswersOf(Tuples)
      BY DEF AnswersOf
    <3>2. PICK i \in 1..Len(answers) : answers[i].values = ValuesOf(m)
      BY <1>1, <3>1 DEF AnswersListed
    <3>3. m \in support(i)
      BY <3>2 DEF SupportOf
    <3>4. count[i] \in Bijection(1..Cardinality(support(i)), support(i))
      BY <1>3
    <3>5. PICK k \in 1..Cardinality(support(i)) : count[i][k] = m
      <4> HIDE DEF support
      <4>1. QED
        BY <3>3, <3>4 DEF Bijection, Surjection
    <3>6. i \in 1..Len(rows) /\ rows[i].supportCount = Cardinality(support(i))
      BY <1>6, RowShows
    <3>7. <<i, k>> \in S
      BY <1>1, <3>6 DEF Supports
    <3>8. f[<<i, k>>] = m
      BY <3>5, <3>7
    <3>9. QED
      BY <3>7, <3>8
  <2> HIDE DEF S, M, f
  <2>2. QED
    BY <1>5, <2>1 DEF Injection, Surjection
<1>7. ASSUME Len(rows) # Len(answers) PROVE f \notin Surjection(S, M)
  <2> DEFINE last == Len(answers)
  <2>1. last \in 1..Len(answers) /\ last > Len(rows)
    BY <1>1, <1>7
  <2>2. answers[last].match \in M /\ ValuesOf(answers[last].match) = answers[last].values
    BY <1>1, <2>1 DEF AnswersListed, SupportOf
  <2> HIDE DEF last
  <2>3. ASSUME NEW s \in S, f[s] = answers[last].match PROVE FALSE
    <3>1. answers[s[1]].values = answers[last].values
      BY <1>4, <2>2, <2>3 DEF SupportOf
    <3>2. s[1] = last
      BY <1>4, <2>1, <3>1, RowsDiffer
    <3>3. s[1] \in 1..Len(rows)
      BY <1>4
    <3>4. QED
      BY <1>1, <2>1, <3>2, <3>3
  <2> HIDE DEF S, M, f
  <2>4. QED
    BY <2>2, <2>3 DEF Surjection
<1> HIDE DEF S, M, f
<1>8. /\ IsFiniteSet(S) /\ Cardinality(S) <= Cardinality(M)
      /\ Cardinality(S) = Cardinality(M) <=> f \in Surjection(S, M)
  BY <1>2, <1>5, FS_Injection
<1>9. Cardinality(S) \in Nat
  BY <1>8, FS_CardinalityType
<1>10. CASE result.truncated = {}
  BY <1>1, <1>6, <1>8, <1>10 DEF S, M
<1>11. CASE result.truncated # {}
  <2>1. ~(Cardinality(S) = Cardinality(M))
    BY <1>1, <1>7, <1>8, <1>11, Zenon
  <2> DEFINE s == Cardinality(S)
  <2> DEFINE m == Cardinality(M)
  <2>2. s \in Nat /\ m \in Nat /\ s <= m /\ s # m
    BY <1>2, <1>8, <1>9, <2>1
  <2>3. s < m
    <3> HIDE DEF s, m
    <3>1. QED
      BY <2>2
  <2>4. QED
    BY <1>11, <2>3 DEF S, M
<1>12. QED
  BY <1>10, <1>11

\* The relations of heads, bodies and facts are finitely many.
LEMMA FiniteUses ==
    ASSUME InputHeld
    PROVE  IsFiniteSet(Uses)
<1> DEFINE ruleBody == [rule \in program.rules |-> rule.body]
<1> DEFINE ruleHead == [rule \in program.rules |-> rule.head]
<1> DEFINE bodies == {program.where} \cup {rule.body : rule \in program.rules}
<1> DEFINE heads == {rule.head : rule \in program.rules}
<1> DEFINE inBodies == UNION {{body[i] : i \in DOMAIN body} : body \in bodies}
<1> DEFINE literals == heads \cup inBodies
<1>1. /\ IsFiniteSet(program.rules) /\ IsFiniteSet(DOMAIN dataset)
      /\ \A body \in bodies : body \in Seq(Literal)
  BY InputFacts
<1>2. IsFiniteSet({ruleBody[rule] : rule \in program.rules})
      /\ IsFiniteSet({ruleHead[rule] : rule \in program.rules})
  <2> HIDE DEF ruleBody, ruleHead
  <2>1. QED
    BY <1>1, FiniteImage
<1>3. /\ {ruleBody[rule] : rule \in program.rules} = {rule.body : rule \in program.rules}
      /\ {ruleHead[rule] : rule \in program.rules} = heads
  OBVIOUS
<1>4. IsFiniteSet(heads) /\ IsFiniteSet(bodies)
  BY <1>2, <1>3, FS_Singleton, FS_Union
<1> DEFINE members == [body \in bodies |-> {body[i] : i \in DOMAIN body}]
<1>5. IsFiniteSet(inBodies)
  <2>1. ASSUME NEW body \in bodies PROVE IsFiniteSet({body[i] : i \in DOMAIN body})
    <3>1. DOMAIN body = 1..Len(body) /\ Len(body) \in Nat
      BY <1>1, LenProperties
    <3>2. IsFiniteSet(DOMAIN body)
      BY <3>1, FS_Interval
    <3>3. QED
      BY <3>2, FiniteImage
  <2>2. IsFiniteSet({members[body] : body \in bodies})
    <3> HIDE DEF members, bodies
    <3>1. QED
      BY <1>4, FiniteImage
  <2>3. {members[body] : body \in bodies} = {{body[i] : i \in DOMAIN body} : body \in bodies}
    <3> HIDE DEF bodies
    <3>1. QED
      OBVIOUS
  <2> DEFINE M == {{body[i] : i \in DOMAIN body} : body \in bodies}
  <2>4. IsFiniteSet(M) /\ \A T \in M : IsFiniteSet(T)
    <3> HIDE DEF bodies
    <3>1. QED
      BY <2>1, <2>2, <2>3
  <2> HIDE DEF M
  <2>5. IsFiniteSet(UNION M)
    BY <2>4, FS_UNION
  <2>6. QED
    BY <2>5 DEF M
<1>6. IsFiniteSet(literals)
  BY <1>4, <1>5, FS_Union
<1> HIDE DEF heads, inBodies
<1> DEFINE f == [l \in literals |-> <<l.relation, Len(l.terms)>>]
<1> DEFINE g == [t \in DOMAIN dataset |-> <<t.relation, Len(t.tuple)>>]
<1>7. IsFiniteSet({f[l] : l \in literals}) /\ IsFiniteSet({g[t] : t \in DOMAIN dataset})
  <2> HIDE DEF f, g, literals
  <2>1. QED
    BY <1>1, <1>6, FiniteImage
<1>8. /\ {f[l] : l \in literals} = {<<l.relation, Len(l.terms)>> : l \in literals}
      /\ {g[t] : t \in DOMAIN dataset} = {<<t.relation, Len(t.tuple)>> : t \in DOMAIN dataset}
  OBVIOUS
<1>9. Uses = {f[l] : l \in literals} \cup {g[t] : t \in DOMAIN dataset}
  <2> HIDE DEF f, g
  <2>1. QED
    BY <1>8 DEF Uses, heads, inBodies
<1> HIDE DEF f, g, literals
<1>10. QED
  BY <1>7, <1>9, FS_Union

\* Every tuple is of a relation some fact or rule uses.
LEMMA RelationsUsed ==
    ASSUME InputHeld, WitnessesReal
    PROVE  /\ Cardinality({t.relation : t \in Tuples}) \in Nat
           /\ Cardinality({t.relation : t \in Tuples}) <= Cardinality(Uses)
<1> DEFINE f == [u \in Uses |-> u[1]]
<1>1. ASSUME NEW t \in Tuples PROVE \E u \in Uses : u[1] = t.relation
  <2>1. CASE t \in DOMAIN dataset
    <3>1. <<t.relation, Len(t.tuple)>> \in Uses
      BY <2>1 DEF Uses
    <3>2. QED
      BY <3>1
  <2>2. CASE t \notin DOMAIN dataset
    <3>1. PICK rule \in program.rules, b \in Bindings : Ground(rule.head, b) = t
      BY <2>2 DEF WitnessesReal, Witnessed
    <3>2. <<rule.head.relation, Len(rule.head.terms)>> \in Uses
      BY DEF Uses
    <3>3. t.relation = rule.head.relation
      BY <3>1 DEF Ground
    <3>4. QED
      BY <3>2, <3>3
  <2>3. QED
    BY <2>1, <2>2
<1>2. IsFiniteSet(Uses)
  BY FiniteUses
<1>3. {t.relation : t \in Tuples} \subseteq {f[u] : u \in Uses}
  BY <1>1
<1> HIDE DEF f
<1>4. IsFiniteSet({f[u] : u \in Uses}) /\ Cardinality({f[u] : u \in Uses}) <= Cardinality(Uses)
  BY <1>2, FiniteImage
<1>5. /\ IsFiniteSet({t.relation : t \in Tuples})
      /\ Cardinality({t.relation : t \in Tuples}) <= Cardinality({f[u] : u \in Uses})
  BY <1>3, <1>4, FS_Subset
<1>6. QED
  BY <1>2, <1>4, <1>5, FS_CardinalityType

\* The parser counts the nodes and bytes the budgets counted.
LEMMA NodesAndBytes ==
    ASSUME Given, Len(rows) \in Nat, DOMAIN rows = 1..Len(rows), NodesMade(proofs, Len(rows)),
           NEW r, r.rows = rows, r.proofs = proofs
    PROVE  Nodes(r) = DOMAIN proofs /\ ResultBytes(r) = Envelopes(proofs, Len(rows))
<1>1. Nodes(r) = DOMAIN proofs
  <2>1. ASSUME NEW p \in DOMAIN proofs PROVE p[1] \in 1..Len(rows)
    BY NodeInRow
  <2>2. \A i : NodesOf(r, i) = NodesIn(proofs, i)
    BY DEF NodesOf, NodesIn
  <2>3. Nodes(r) = UNION {NodesIn(proofs, i) : i \in 1..Len(rows)}
    BY <2>2 DEF Nodes
  <2>4. \A i : NodesIn(proofs, i) \subseteq DOMAIN proofs
    BY DEF NodesIn
  <2>5. \A p \in DOMAIN proofs : p \in NodesIn(proofs, p[1])
    BY DEF NodesIn
  <2>6. UNION {NodesIn(proofs, i) : i \in 1..Len(rows)} \subseteq DOMAIN proofs
    BY <2>4
  <2>7. DOMAIN proofs \subseteq UNION {NodesIn(proofs, i) : i \in 1..Len(rows)}
    BY <2>1, <2>5
  <2>8. QED
    BY <2>3, <2>6, <2>7
<1>2. ResultBytes(r) = Envelopes(proofs, Len(rows))
  BY <1>1 DEF ResultBytes, Envelopes, NodeEnvelopes
<1>3. QED
  BY <1>1, <1>2

\* There are no more commas than rows and nodes.
LEMMA CommasCounted ==
    ASSUME Given, RowsBuilt(proofs, rows), DOMAIN rows = 1..Len(rows),
           Between(proofs, Len(rows), used),
           NEW r, r.rows = rows, r.proofs = proofs
    PROVE  /\ Cardinality(Commas(r)) \in Nat
           /\ Cardinality(Commas(r)) <= program.limit + options.totalProofNodes
           /\ Cardinality(ResultBytes(r)) \in Nat
           /\ Cardinality(ResultBytes(r)) <= MaximumBytes
<1> DEFINE n == Len(rows)
<1> DEFINE f == [i \in 1..n |-> <<i>>]
<1> DEFINE T == {f[i] : i \in 1..n}
<1> DEFINE D == DOMAIN proofs
<1>1. /\ n \in Nat /\ NodesMade(proofs, n) /\ Counted(proofs, n, used)
      /\ n <= program.limit /\ program.limit \in Nat
  <2>1. n \in Nat /\ n <= Shown /\ NodesMade(proofs, n) /\ Counted(proofs, n, used)
    BY DEF RowsBuilt, Between
  <2>2. Len(answers) \in Nat /\ program.limit \in Nat
    BY InputFacts, ShownRows DEF Given
  <2>3. QED
    BY <2>1, <2>2 DEF Shown
<1>2. Nodes(r) = D /\ ResultBytes(r) = Envelopes(proofs, n)
  <2>1. Len(rows) \in Nat /\ NodesMade(proofs, Len(rows))
    BY <1>1
  <2>2. QED
    BY <2>1, NodesAndBytes
<1>3. IsFiniteSet(1..n)
  <2> HIDE DEF n
  <2>1. QED
    BY <1>1, FS_Interval
<1>4. IsFiniteSet(T) /\ Cardinality(T) <= n
  <2>1. Cardinality(1..n) = n
    <3> HIDE DEF n
    <3>1. QED
      BY <1>1, FS_Interval
  <2> HIDE DEF f, n
  <2>2. QED
    BY <1>3, <2>1, FiniteImage
<1>5. T = {<<i>> : i \in DOMAIN rows}
  OBVIOUS
<1> HIDE DEF T, n
<1>6. IsFiniteSet(D) /\ Cardinality(D) = used.nodes /\ used.nodes <= options.totalProofNodes
  BY <1>1 DEF Counted
<1> HIDE DEF D
<1>7. /\ IsFiniteSet(T \cup D)
      /\ Cardinality(T \cup D) <= Cardinality(T) + Cardinality(D)
  <2>1. IsFiniteSet(T \cap D)
    BY <1>4, FS_Subset
  <2>2. /\ Cardinality(T \cap D) \in Nat
        /\ Cardinality(T) \in Nat /\ Cardinality(D) \in Nat
    BY <1>4, <1>6, <2>1, FS_CardinalityType
  <2>3. /\ IsFiniteSet(T \cup D)
        /\ Cardinality(T \cup D) = Cardinality(T) + Cardinality(D) - Cardinality(T \cap D)
    BY <1>4, <1>6, FS_Union
  <2>4. QED
    BY <2>2, <2>3
<1>8. Commas(r) \subseteq T \cup D
  BY <1>2, <1>5 DEF Commas
<1>9. IsFiniteSet(Commas(r)) /\ Cardinality(Commas(r)) <= Cardinality(T \cup D)
  BY <1>7, <1>8, FS_Subset
<1>10. /\ Cardinality(Commas(r)) \in Nat /\ Cardinality(T \cup D) \in Nat
       /\ Cardinality(T) \in Nat /\ Cardinality(D) \in Nat
  BY <1>4, <1>6, <1>7, <1>9, FS_CardinalityType
<1>11. Cardinality(Commas(r)) <= program.limit + options.totalProofNodes
  <2>1. options.totalProofNodes \in Nat
    BY Budgets
  <2>2. QED
    BY <1>1, <1>4, <1>6, <1>7, <1>9, <1>10, <2>1
<1>12. Cardinality(ResultBytes(r)) \in Nat /\ Cardinality(ResultBytes(r)) <= MaximumBytes
  BY <1>1, <1>2, FS_CardinalityType DEF Counted
<1>13. QED
  BY <1>10, <1>11, <1>12

\* Where the slack holds the rest of a result and a comma for every row and node
\* it may have, no evaluation fails at the last check of its bytes.
THEOREM SlackSuffices ==
    ASSUME \A i \in Inputs : FrameBytes + i.program.limit + i.options.totalProofNodes <= Slack
    PROVE  ResultSpec => [][~FinishFails]_resultVars
<1>1. ASSUME ResultInvariant, FinishFails PROVE FALSE
  <2>1. /\ phase = "rows" /\ path = <<>> /\ SizeOf(Result) > options.resultBytes
    BY <1>1 DEF FinishFails, RowsMade
  <2>2. Given /\ Building(proofs, rows, path, used)
    BY <1>1, <2>1 DEF ResultInvariant, ProofsInvariant, Given
  <2>3. RowsBuilt(proofs, rows) /\ Between(proofs, Len(rows), used)
    BY <2>1, <2>2 DEF Building
  <2>4. DOMAIN rows = 1..Len(rows)
    BY <2>3 DEF RowsBuilt
  <2> DEFINE commas == Cardinality(Commas(Result))
  <2> DEFINE bytes == Cardinality(ResultBytes(Result))
  <2>5. Result.rows = rows /\ Result.proofs = proofs
    BY DEF Result
  <2>6. /\ commas \in Nat /\ commas <= program.limit + options.totalProofNodes
        /\ bytes \in Nat /\ bytes <= MaximumBytes
    <3> HIDE DEF Result
    <3>1. QED
      BY <2>2, <2>3, <2>4, <2>5, CommasCounted
  <2>7. FrameBytes + program.limit + options.totalProofNodes <= Slack
    BY <2>2 DEF Given, InputHeld
  <2>8. /\ program.limit \in Nat /\ options.totalProofNodes \in Nat /\ options.resultBytes \in Nat
        /\ FrameBytes \in Nat /\ Slack \in Nat /\ MaximumBytes = options.resultBytes - Slack
    BY <2>2, InputFacts, Budgets, ResultAssumption DEF Given, MaximumBytes
  <2>9. SizeOf(Result) = FrameBytes + bytes + commas
    BY DEF SizeOf
  <2> HIDE DEF commas, bytes
  <2>10. QED
    BY <2>1, <2>6, <2>7, <2>8, <2>9
<1>2. ResultInvariant /\ [ResultNext]_resultVars => [~FinishFails]_resultVars
  BY <1>1
<1>3. QED
  BY <1>2, ResultsHold, PTL DEF ResultSpec

LEMMA ResultAccepted == ResultInvariant => ResultParses
<1> SUFFICES ASSUME ResultInvariant, result # Null
             PROVE  Parses(result)
  BY Zenon DEF ResultParses
<1> DEFINE base == Cardinality(DOMAIN dataset)
<1> DEFINE all == Cardinality(Tuples)
<1>1. /\ result = Result /\ result.rows = rows /\ result.proofs = proofs /\ Given
      /\ DOMAIN rows = 1..Len(rows) /\ Len(rows) \in Nat
      /\ NodesMade(proofs, Len(rows)) /\ Counted(proofs, Len(rows), used)
  BY AtTheEnd DEF Between
<1>2. /\ result.proofNodes = used.nodes
      /\ result.baseFacts = base
      /\ result.derivedFacts = Derived
      /\ result.relations = Cardinality({t.relation : t \in Tuples})
      /\ result.rounds = rounds
      /\ result.queryMatches = Cardinality(QueryMatchesOf(Tuples))
      /\ result.workUnits = work
      /\ result.proofsTruncated = (\E i \in DOMAIN rows : rows[i].proofsTruncated)
  BY <1>1 DEF Result
<1>3. /\ IsFiniteSet(Tuples) /\ rounds \in Nat /\ work \in Nat
      /\ rounds <= options.rounds /\ rounds <= Derived /\ Derived <= options.derived
      /\ rounds = 0 => Derived = 0
      /\ work <= options.work
  BY DEF ResultInvariant, StatsInvariant
<1>4. base \in Nat /\ all \in Nat /\ Derived = all - base
  BY <1>1, <1>3, InputFacts, FS_CardinalityType DEF Given, Derived
<1>5. result.relations <= result.baseFacts + result.derivedFacts
  <2> DEFINE g == [t \in Tuples |-> t.relation]
  <2>1. Cardinality({g[t] : t \in Tuples}) <= Cardinality(Tuples)
    <3> HIDE DEF g
    <3>1. QED
      BY <1>3, FiniteImage
  <2>2. {g[t] : t \in Tuples} = {t.relation : t \in Tuples}
    OBVIOUS
  <2>3. result.relations <= all
    BY <1>2, <2>1, <2>2
  <2> HIDE DEF base, all
  <2>4. base + Derived = all
    BY <1>4
  <2>5. QED
    BY <1>2, <2>3, <2>4
<1>6. result.rounds <= result.derivedFacts /\ (result.rounds = 0 <=> result.derivedFacts = 0)
  <2>1. Derived \in Int
    BY <1>4
  <2>2. QED
    BY <1>2, <1>3, <2>1
<1>7. result.queryMatches <= QueryMatches /\ result.queryMatches <= result.workUnits
  BY <1>2, QueryCounts
<1>8. \A i \in DOMAIN result.rows : RowParses(result, i)
  BY <1>1, RowsParse
<1>9. \A i, j \in DOMAIN result.rows : result.rows[i].values = result.rows[j].values => i = j
  <2>1. ASSUME NEW i \in 1..Len(rows), NEW j \in 1..Len(rows), rows[i].values = rows[j].values
        PROVE  i = j
    BY <2>1, RowShows, RowsDiffer
  <2>2. QED
    BY <1>1, <2>1
<1>10. Nodes(result) = DOMAIN proofs /\ ResultBytes(result) = Envelopes(proofs, Len(rows))
  BY <1>1, NodesAndBytes
<1>12. /\ Cardinality(Nodes(result)) = result.proofNodes
       /\ result.proofNodes <= options.totalProofNodes
       /\ Cardinality(ResultBytes(result)) <= options.resultBytes
  BY <1>1, <1>2, <1>10, Budgets DEF Counted
<1>13. result.proofsTruncated <=> \E i \in DOMAIN result.rows : result.rows[i].proofsTruncated
  BY <1>1, <1>2
<1>14. IF result.truncated = {} THEN Cardinality(Supports(result)) = result.queryMatches
       ELSE Cardinality(Supports(result)) < result.queryMatches
  BY <1>2, SupportsCount
<1>15. /\ result.derivedFacts <= options.derived
       /\ result.rounds <= options.rounds
       /\ result.workUnits <= options.work
  BY <1>2, <1>3
<1>16. /\ Len(result.rows) <= QueryResults
       /\ result.baseFacts <= FactLimit
       /\ SizeOf(result) <= options.resultBytes
  BY <1>1, <1>2, AtTheEnd, InputFacts DEF Given
<1>17. result.relations <= RelationLimit
  <2>1. /\ Cardinality({t.relation : t \in Tuples}) \in Nat
        /\ Cardinality({t.relation : t \in Tuples}) <= Cardinality(Uses)
    BY <1>1, RelationsUsed DEF Given, RoundsInvariant
  <2>2. Cardinality(Uses) <= RelationLimit /\ Cardinality(Uses) \in Nat /\ RelationLimit \in Nat
    BY <1>1, AtTheEnd, FiniteUses, FS_CardinalityType, ProjectionAssumption DEF Given
  <2>3. QED
    BY <1>2, <2>1, <2>2
<1>18. QED
  BY <1>5, <1>6, <1>7, <1>8, <1>9, <1>12, <1>13, <1>14, <1>15, <1>16, <1>17, Zenon DEF Parses

\* The parser of cached results accepts what the evaluation builds: the bounds,
\* the counts of nodes, bytes and supports and the marks of truncation that
\* parseOhProjectionResultV1 checks hold of every result of buildProjectionResult.
THEOREM ResultsAlwaysParse == ResultSpec => []ResultParses
  BY ResultAccepted, ResultsHold, PTL
=============================================================================
