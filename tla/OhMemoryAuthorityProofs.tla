------------------------ MODULE OhMemoryAuthorityProofs ------------------------
(***************************************************************************)
(* Theorems about OhMemoryAuthority: pins move along the canonical         *)
(* history, receipts tell the truth and adoptions land as reviewed, for    *)
(* any number of authorities, host calls, records and operations.          *)
(***************************************************************************)
EXTENDS OhMemoryAuthority, OhHistoryProofs

-----------------------------------------------------------------------------
(* Histories and their records.                                            *)

LEMMA EmptyIsHistory == <<>> \in History
  BY EmptySeq DEF History

LEMMA Reflexive ==
    ASSUME NEW h \in History
    PROVE  IsPrefixOf(h, h) /\ IsPrefixOf(<<>>, h)
  BY ExtensionReflexive DEF History

LEMMA Transitive ==
    ASSUME NEW f \in History, NEW g \in History, NEW h \in History,
           IsPrefixOf(f, g), IsPrefixOf(g, h)
    PROVE  IsPrefixOf(f, h)
  BY ExtensionTransitive DEF History

\* A history and the history one operation longer.
LEMMA Extended ==
    ASSUME NEW h \in History, NEW body \in Body
    PROVE  /\ Append(h, body) \in History
           /\ IsPrefixOf(h, Append(h, body))
           /\ Append(h, body)[Len(Append(h, body))] = body
           /\ RecordsAt(Append(h, body)) = body.records
<1>1. Append(h, body) \in History /\ Len(Append(h, body)) = Len(h) + 1
      /\ IsPrefixOf(h, Append(h, body))
  BY ExtensionByAppend DEF History
<1>2. Len(h) \in Nat
  BY LenProperties DEF History
<1>3. Append(h, body)[Len(h) + 1] = body
  BY AppendProperties DEF History
<1> DEFINE g == Append(h, body)
<1>4. g # <<>> /\ g[Len(g)] = body
  BY <1>1, <1>2, <1>3, EmptySeq
<1> HIDE DEF g
<1>5. RecordsAt(g) = body.records
  BY <1>4 DEF RecordsAt
<1>6. QED
  BY <1>1, <1>4, <1>5 DEF g

LEMMA RecordsType ==
    ASSUME NEW h \in History
    PROVE  RecordsAt(h) \in Snapshot
<1>1. CASE h = <<>>
  BY <1>1 DEF RecordsAt, NoRecords, Snapshot
<1>2. CASE h # <<>>
  <2>1. Len(h) \in Nat /\ Len(h) # 0
    BY <1>2, LenProperties, EmptySeq DEF History
  <2>2. h[Len(h)] \in Body
    BY <2>1, ElementOfSeq DEF History
  <2>3. QED
    BY <1>2, <2>2 DEF RecordsAt, Body
<1>3. QED
  BY <1>1, <1>2

\* An adoption carries the nominated records and keeps the others.
LEMMA AdoptionCarries ==
    ASSUME NEW h \in History, NEW x \in Nominations
    PROVE  /\ Adoption(h, x) \in Body
           /\ Adoption(h, x).adopts = x
           /\ Differences(Adoption(h, x).records, x) = {}
           /\ \A k \in Keys : Adoption(h, x).records[k] =
                  IF k \in DOMAIN Nominated[x] THEN Nominated[x][k] ELSE RecordsAt(h)[k]
<1>1. RecordsAt(h) \in Snapshot
  BY RecordsType
<1>2. /\ DOMAIN Nominated[x] \subseteq Keys
      /\ \A k \in DOMAIN Nominated[x] : Nominated[x][k] \in Values
  BY AuthorityAssumption
<1>3. \A k \in Keys : Adoption(h, x).records[k] =
          IF k \in DOMAIN Nominated[x] THEN Nominated[x][k] ELSE RecordsAt(h)[k]
  BY DEF Adoption
<1>4. Adoption(h, x).records \in Snapshot
  BY <1>1, <1>2 DEF Adoption, Snapshot
<1>5. QED
  BY <1>2, <1>3, <1>4 DEF Adoption, Body, Differences

LEMMA OperationExtends ==
    ASSUME NEW h \in History, NEW x \in Nominations
    PROVE  /\ OperationOf(h, x) \in History
           /\ IsPrefixOf(h, OperationOf(h, x))
           /\ Differences(RecordsAt(OperationOf(h, x)), x) = {}
<1>1. Adoption(h, x) \in Body /\ Differences(Adoption(h, x).records, x) = {}
  BY AdoptionCarries
<1>2. QED
  BY <1>1, Extended DEF OperationOf

\* The heads a host may know are histories.
LEMMA HeadsAreHistories ==
    ASSUME canonical \in History
    PROVE  /\ Heads \subseteq History
           /\ \A h \in Heads : IsPrefixOf(h, canonical)
           /\ Forks \subseteq History
<1>1. Len(canonical) \in Nat
  BY LenProperties DEF History
<1>2. \A n \in 1..Len(canonical) :
          Prefix(canonical, n) \in History /\ IsPrefixOf(Prefix(canonical, n), canonical)
  <2>1. TAKE n \in 1..Len(canonical)
  <2>2. n \in 0..Len(canonical)
    BY <1>1
  <2>3. Prefix(canonical, n) \in History /\ Len(Prefix(canonical, n)) = n
    BY <2>2, PrefixOfSeq DEF History
  <2>4. QED
    BY <1>1, <2>2, <2>3 DEF IsPrefixOf
<1>3. Heads \subseteq History /\ \A h \in Heads : IsPrefixOf(h, canonical)
  BY <1>2, EmptyIsHistory, Reflexive DEF Heads, ChainOf
<1>4. \A w \in Writes : [adopts |-> None, records |-> w] \in Body
  BY AuthorityAssumption DEF Body
<1>5. \A h \in Heads : \A w \in Writes :
          Append(h, [adopts |-> None, records |-> w]) \in History
  BY <1>3, <1>4, Extended
<1>6. ASSUME NEW f \in Forks PROVE f \in History
  <2>1. PICK h \in Heads, w \in Writes : f = Append(h, [adopts |-> None, records |-> w])
    BY DEF Forks
  <2>2. QED
    BY <1>5, <2>1
<1>7. QED
  BY <1>3, <1>6

-----------------------------------------------------------------------------
(* Requests, receipts and calls.                                           *)

LEMMA RequestShape ==
    ASSUME NEW r \in Advances(History) \cup Adoptions(History)
    PROVE  /\ r.expected \in History
           /\ r.kind \in {"advance", "adopt"}
           /\ r.kind = "advance" => r.next \in History
           /\ r.kind = "adopt" =>
                 r \in Adoptions(History) /\ r.nomination \in Nominations
  BY DEF Advances, Adoptions

LEMMA Fields ==
    ASSUME AuthorityInvariant, NEW c \in Calls
    PROVE  /\ call[c] \in Call
           /\ call[c].step \in Steps
           /\ call[c].prior \in History /\ call[c].target \in History
           /\ call[c].cursor \in Nat /\ call[c].pages \in Nat
           /\ call[c].tried \in BOOLEAN
           /\ call[c].operation \in History \cup {None}
           /\ call[c].receipt \in Receipt \cup {None}
           /\ call[c].request \in Advances(History) \cup Adoptions(History) \cup {None}
           /\ AuthorityOf[c] \in Authorities
           /\ PinOf(c) \in History /\ IsPrefixOf(PinOf(c), canonical)
           /\ canonical \in History
           /\ CallInvariant(c)
<1>1. call[c] \in Call /\ pin \in [Authorities -> History] /\ canonical \in History
  BY DEF AuthorityInvariant, TypeOK
<1>2. AuthorityOf[c] \in Authorities
  BY AuthorityAssumption
<1>3. QED
  BY <1>1, <1>2 DEF AuthorityInvariant, Call, PinOf

LEMMA IdleShape ==
    ASSUME NEW receipt \in Receipt \cup {None}
    PROVE  /\ Idle(receipt) \in Call
           /\ Idle(receipt).step = "idle"
           /\ Idle(receipt).operation = None
           /\ Idle(receipt).receipt = receipt
  BY EmptyIsHistory DEF Idle, Call, Steps

\* A receipt that is true stays true while the canonical history grows.
LEMMA ReceiptsLast ==
    ASSUME canonical \in History, canonical' \in History, IsPrefixOf(canonical, canonical'),
           NEW receipt \in Receipt, ReceiptTrue(receipt)
    PROVE  ReceiptTrue(receipt)'
<1>1. receipt.head \in History /\ IsPrefixOf(receipt.head, canonical)
  BY DEF Receipt, ReceiptTrue
<1>2. IsPrefixOf(receipt.head, canonical')
  BY <1>1, Transitive
<1>3. QED
  BY <1>2 DEF ReceiptTrue

\* What a call relies on stays true while others move.
LEMMA Undisturbed ==
    ASSUME AuthorityInvariant, canonical' \in History, IsPrefixOf(canonical, canonical'),
           NEW c \in Calls, call'[c] = call[c],
           PinOf(c)' = PinOf(c) \/ ~Running(c)
    PROVE  CallInvariant(c)'
<1>1. /\ CallInvariant(c) /\ canonical \in History
      /\ call[c].target \in History
      /\ call[c].operation \in History \cup {None}
      /\ call[c].receipt \in Receipt \cup {None}
  BY Fields
<1>2. call[c].receipt # None => ReceiptTrue(call[c].receipt)'
  BY <1>1, ReceiptsLast DEF CallInvariant
<1>3. IsPrefixOf(call[c].target, canonical) => IsPrefixOf(call[c].target, canonical')
  BY <1>1, Transitive
<1>4. call[c].operation # None /\ IsPrefixOf(call[c].operation, canonical)
          => IsPrefixOf(call[c].operation, canonical')
  BY <1>1, Transitive
<1>5. QED
  BY <1>1, <1>2, <1>3, <1>4
  DEF CallInvariant, Running, X


-----------------------------------------------------------------------------
(* A step of one call.                                                     *)

\* A call that works from the pin of its authority works alone: the others
\* are idle or wait for the permit.
LEMMA OneCallMoves ==
    ASSUME AuthorityInvariant,
           NEW c \in Calls, NEW k \in Call, call' = [call EXCEPT ![c] = k],
           canonical' \in History, IsPrefixOf(canonical, canonical'),
           NEW p \in History, IsPrefixOf(p, canonical'),
           pin' = [pin EXCEPT ![AuthorityOf[c]] = p],
           p = PinOf(c) \/ Running(c),
           k.step \notin {"idle", "queued"} => Running(c) \/ PermitFree(c),
           late' \subseteq Adoptions(History), \A r \in late' : Reviewed(r),
           CallInvariant(c)'
    PROVE  AuthorityInvariant'
<1>1. /\ call \in [Calls -> Call] /\ pin \in [Authorities -> History]
      /\ canonical \in History
      /\ AuthorityOf \in [Calls -> Authorities]
  BY AuthorityAssumption DEF AuthorityInvariant, TypeOK
<1>2. TypeOK'
  BY <1>1 DEF TypeOK
<1>3. /\ call'[c] = k
      /\ \A d \in Calls \ {c} : call'[d] = call[d]
  BY <1>1
<1>4. \A a \in Authorities : IsPrefixOf(pin'[a], canonical')
  <2>1. TAKE a \in Authorities
  <2>2. IsPrefixOf(pin[a], canonical) /\ pin[a] \in History
    BY <1>1 DEF AuthorityInvariant
  <2>3. pin'[a] = p \/ pin'[a] = pin[a]
    BY <1>1
  <2>4. QED
    BY <1>1, <2>2, <2>3, Transitive
<1>5. \A d, e \in Calls : d # e /\ AuthorityOf[d] = AuthorityOf[e]
          => ~(Running(d)' /\ Running(e)')
  BY <1>3 DEF AuthorityInvariant, Running, PermitFree
<1>6. \A d \in Calls : CallInvariant(d)'
  <2>1. TAKE d \in Calls
  <2>2. CASE d = c
    BY <2>2
  <2>3. CASE d # c
    <3>1. call'[d] = call[d]
      BY <1>3, <2>3
    <3>2. pin'[AuthorityOf[d]] = pin[AuthorityOf[d]] \/ ~Running(d)
      <4>1. CASE AuthorityOf[d] = AuthorityOf[c]
        <5>1. Running(c) => ~Running(d)
          BY <2>3, <4>1 DEF AuthorityInvariant
        <5>2. p = PinOf(c) => pin'[AuthorityOf[d]] = pin[AuthorityOf[d]]
          BY <1>1, <4>1 DEF PinOf
        <5>3. QED
          BY <5>1, <5>2
      <4>2. CASE AuthorityOf[d] # AuthorityOf[c]
        BY <1>1, <4>2
      <4>3. QED
        BY <4>1, <4>2
    <3>3. QED
      BY <3>1, <3>2, Undisturbed DEF PinOf
  <2>4. QED
    BY <2>2, <2>3
<1>7. \A r \in late' : Reviewed(r)'
  OBVIOUS
<1>8. QED
  BY <1>2, <1>4, <1>5, <1>6, <1>7 DEF AuthorityInvariant

\* The same for a step that moves neither the pin nor the stores.
LEMMA OnlyTheCallMoves ==
    ASSUME AuthorityInvariant,
           NEW c \in Calls, NEW k \in Call, call' = [call EXCEPT ![c] = k],
           UNCHANGED pin, StoresUnchanged,
           k.step \notin {"idle", "queued"} => Running(c) \/ PermitFree(c),
           CallInvariant(c)'
    PROVE  AuthorityInvariant'
<1>1. /\ PinOf(c) \in History /\ IsPrefixOf(PinOf(c), canonical) /\ canonical \in History
      /\ AuthorityOf[c] \in Authorities
  BY Fields
<1>2. pin' = [pin EXCEPT ![AuthorityOf[c]] = PinOf(c)]
  BY DEF PinOf, AuthorityInvariant, TypeOK
<1>3. canonical' = canonical /\ late' = late
  BY DEF StoresUnchanged
<1>4. canonical' \in History /\ IsPrefixOf(canonical, canonical') /\ IsPrefixOf(PinOf(c), canonical')
  BY <1>1, <1>3, Reflexive
<1>5. late' \subseteq Adoptions(History) /\ \A r \in late' : Reviewed(r)
  BY <1>3 DEF AuthorityInvariant, TypeOK
<1>6. QED
  BY <1>1, <1>2, <1>4, <1>5, OneCallMoves

\* A call that ends, with a receipt that is true or without one.
LEMMA EndedCall ==
    ASSUME AuthorityInvariant, NEW c \in Calls,
           NEW receipt \in Receipt \cup {None}, End(c, receipt),
           receipt # None => ReceiptTrue(receipt)'
    PROVE  CallInvariant(c)'
<1>1. call'[c] = Idle(receipt)
  BY DEF End, AuthorityInvariant, TypeOK
<1>2. /\ Idle(receipt).step = "idle" /\ Idle(receipt).operation = None
      /\ Idle(receipt).receipt = receipt
  BY IdleShape
<1>3. QED
  BY <1>1, <1>2 DEF CallInvariant, Running

LEMMA EndKeeps ==
    ASSUME AuthorityInvariant, NEW c \in Calls,
           NEW receipt \in Receipt \cup {None}, End(c, receipt),
           receipt # None => ReceiptTrue(receipt),
           UNCHANGED pin, StoresUnchanged
    PROVE  AuthorityInvariant'
<1>1. receipt # None => ReceiptTrue(receipt)'
  BY DEF StoresUnchanged, ReceiptTrue
<1>2. CallInvariant(c)'
  BY <1>1, EndedCall
<1>3. Idle(receipt) \in Call /\ Idle(receipt).step = "idle"
  BY IdleShape
<1>4. call' = [call EXCEPT ![c] = Idle(receipt)]
  BY DEF End
<1>5. QED
  BY <1>2, <1>3, <1>4, OnlyTheCallMoves


-----------------------------------------------------------------------------
(* The steps of a host call.                                               *)

LEMMA AskKeeps ==
    ASSUME AuthorityInvariant, NEW c \in Calls, Ask(c)
    PROVE  AuthorityInvariant'
<1> DEFINE k == [Idle(None) EXCEPT !.step = "queued"]
<1>1. k \in Call /\ k.step = "queued" /\ k.operation = None /\ k.receipt = None
  BY IdleShape, EmptyIsHistory DEF Idle, Call, Steps
<1> HIDE DEF k
<1>2. call' = [call EXCEPT ![c] = k] /\ UNCHANGED pin /\ StoresUnchanged
  BY DEF Ask, k
<1>3. call'[c] = k
  BY <1>2 DEF AuthorityInvariant, TypeOK
<1>4. CallInvariant(c)'
  BY <1>1, <1>3 DEF CallInvariant, Running
<1>5. QED
  BY <1>1, <1>2, <1>4, OnlyTheCallMoves

\* A call that begins a proof from the pin of its authority.
LEMMA BeginProofKeeps ==
    ASSUME AuthorityInvariant, NEW c \in Calls, NEW began \in Call,
           BeginProof(c, began), UNCHANGED pin, StoresUnchanged,
           Running(c) \/ PermitFree(c),
           began.receipt = call[c].receipt, began.operation = call[c].operation,
           began.request \in Advances(History) \cup Adoptions(History),
           began.prior = PinOf(c),
           began.request.kind = "adopt" => began.request.nomination \in Exported,
           began.operation # None =>
              began.request = call[c].request /\ began.prior = call[c].prior
    PROVE  AuthorityInvariant'
<1> DEFINE k == [began EXCEPT !.step = "prove", !.pages = 0, !.cursor = Len(began.prior)]
<1>1. CASE Len(began.target) <= Len(began.prior) \/ TooFar(began.prior, began.target)
  BY <1>1, EndKeeps DEF BeginProof
<1>2. CASE ~(Len(began.target) <= Len(began.prior) \/ TooFar(began.prior, began.target))
  <2>1. call' = [call EXCEPT ![c] = k]
    BY <1>2 DEF BeginProof
  <2>2. began.prior \in History /\ Len(began.prior) \in Nat
    BY LenProperties DEF Call, History
  <2>3. /\ k \in Call /\ k.step = "prove" /\ k.request = began.request
        /\ k.prior = began.prior /\ k.operation = began.operation /\ k.receipt = began.receipt
    BY <2>2 DEF Call, Steps
  <2> HIDE DEF k
  <2>4. call'[c] = k
    BY <2>1 DEF AuthorityInvariant, TypeOK
  <2>5. CallInvariant(c)
    BY DEF AuthorityInvariant
  <2>6. /\ ReceiptTrue(k.receipt)' = ReceiptTrue(k.receipt)
        /\ canonical' = canonical /\ PinOf(c)' = PinOf(c)
    BY DEF StoresUnchanged, ReceiptTrue, PinOf
  <2>7. k.request \in Advances(History) \cup Adoptions(History)
    BY <2>3
  <2>8. k.request.kind \in {"advance", "adopt"}
    BY <2>7, RequestShape
  <2>9. CallInvariant(c)'
    BY <2>3, <2>4, <2>5, <2>6, <2>7, <2>8 DEF CallInvariant, Running, X
  <2>10. QED
    BY <2>1, <2>3, <2>9, OnlyTheCallMoves
<1>3. QED
  BY <1>1, <1>2

LEMMA StartAdvanceKeeps ==
    ASSUME AuthorityInvariant, NEW c \in Calls, StartAdvance(c)
    PROVE  AuthorityInvariant'
<1>1. /\ call[c] \in Call /\ PinOf(c) \in History /\ IsPrefixOf(PinOf(c), canonical)
      /\ canonical \in History /\ CallInvariant(c)
  BY Fields
<1>2. PICK request \in Advances(Heads)
                       \cup [kind: {"advance"}, expected: {PinOf(c)}, next: Forks] :
          LET began == [call[c] EXCEPT !.request = request, !.prior = PinOf(c),
                                       !.target = request.next]
          IN  IF request.expected # PinOf(c) THEN End(c, None)
              ELSE IF request.next = PinOf(c)
              THEN End(c, [status |-> "unchanged", nomination |-> None,
                           prior |-> PinOf(c), head |-> PinOf(c)])
              ELSE BeginProof(c, began)
  BY DEF StartAdvance
<1>3. UNCHANGED pin /\ StoresUnchanged /\ PermitFree(c) /\ call[c].step = "queued"
  BY DEF StartAdvance, At
<1>4. request \in Advances(History) /\ request.next \in History /\ request.kind = "advance"
  BY <1>1, HeadsAreHistories DEF Advances
<1> DEFINE began == [call[c] EXCEPT !.request = request, !.prior = PinOf(c),
                                    !.target = request.next]
           unchanged == [status |-> "unchanged", nomination |-> None,
                         prior |-> PinOf(c), head |-> PinOf(c)]
<1>5. CASE request.expected # PinOf(c)
  BY <1>2, <1>3, <1>5, EndKeeps
<1>6. CASE request.expected = PinOf(c) /\ request.next = PinOf(c)
  <2>1. unchanged \in Receipt
    BY <1>1 DEF Receipt
  <2>2. ReceiptTrue(unchanged)
    BY <1>1, Reflexive DEF ReceiptTrue
  <2>3. End(c, unchanged)
    BY <1>2, <1>6
  <2>4. QED
    BY <1>3, <2>1, <2>2, <2>3, EndKeeps
<1>7. CASE request.expected = PinOf(c) /\ request.next # PinOf(c)
  <2>1. BeginProof(c, began)
    BY <1>2, <1>7
  <2>2. /\ began \in Call /\ began.receipt = call[c].receipt
        /\ began.operation = call[c].operation
        /\ began.request = request /\ began.prior = PinOf(c)
    BY <1>1, <1>4 DEF Call
  <2>3. call[c].operation = None
    BY <1>1, <1>3 DEF CallInvariant, Running
  <2>4. request \in Advances(History) \cup Adoptions(History)
    BY <1>4
  <2> HIDE DEF began
  <2>5. QED
    BY <1>3, <1>4, <2>1, <2>2, <2>3, <2>4, BeginProofKeeps
<1>8. QED
  BY <1>5, <1>6, <1>7


LEMMA StartAdoptKeeps ==
    ASSUME AuthorityInvariant, NEW c \in Calls, StartAdopt(c)
    PROVE  AuthorityInvariant'
<1>1. call[c] \in Call /\ canonical \in History /\ CallInvariant(c)
  BY Fields
<1>2. PICK request \in Adoptions(Heads) :
          call' = [call EXCEPT ![c].step = "export", ![c].request = request]
  BY DEF StartAdopt
<1>3. UNCHANGED pin /\ StoresUnchanged /\ PermitFree(c) /\ call[c].step = "queued"
  BY DEF StartAdopt, At
<1>4. request \in Adoptions(History) /\ request.kind = "adopt"
  BY <1>1, HeadsAreHistories DEF Adoptions
<1> DEFINE k == [call[c] EXCEPT !.step = "export", !.request = request]
<1>5. call' = [call EXCEPT ![c] = k]
  BY <1>2 DEF AuthorityInvariant, TypeOK
<1>6. /\ k \in Call /\ k.step = "export" /\ k.request = request
      /\ k.operation = call[c].operation /\ k.receipt = call[c].receipt
  BY <1>1, <1>4 DEF Call, Steps
<1> HIDE DEF k
<1>7. call'[c] = k
  BY <1>5 DEF AuthorityInvariant, TypeOK
<1>8. k.operation = None
  BY <1>1, <1>3, <1>6 DEF CallInvariant, Running
<1>9. /\ call[c].receipt # None => ReceiptTrue(call[c].receipt)
      /\ canonical' = canonical
  BY <1>1, <1>3 DEF CallInvariant, StoresUnchanged
<1>10. CallInvariant(c)'
  BY <1>4, <1>6, <1>7, <1>8, <1>9 DEF CallInvariant, Running, ReceiptTrue
<1>11. QED
  BY <1>3, <1>5, <1>6, <1>10, OnlyTheCallMoves

\* A running call that only changes where it stands: the new state k keeps its
\* request, its operation and its receipt.
LEMMA StandsElsewhere ==
    ASSUME AuthorityInvariant, NEW c \in Calls, Running(c),
           NEW k \in Call, call' = [call EXCEPT ![c] = k],
           UNCHANGED pin, StoresUnchanged,
           k.request = call[c].request, k.operation = call[c].operation,
           k.receipt = call[c].receipt, k.prior = PinOf(c),
           k.operation # None => k.prior = call[c].prior,
           k.step \notin {"idle", "queued", "export"},
           k.request.kind = "advance" => k.step \in {"prove", "install"},
           k.request.kind = "adopt" => k.request.nomination \in Exported,
           k.step = "lane" => k.target = k.prior,
           k.step \in {"check", "install"} =>
              IsPrefixOf(k.prior, k.target) /\ IsPrefixOf(k.target, canonical),
           k.step = "commit" => k.request.expected = k.prior /\ Reviewed(k.request),
           k.step = "install" /\ k.request.kind = "adopt" =>
              Differences(RecordsAt(k.target), k.request.nomination) = {}
    PROVE  AuthorityInvariant'
<1>1. CallInvariant(c) /\ call'[c] = k
  BY DEF AuthorityInvariant, TypeOK
<1>2. canonical' = canonical /\ PinOf(c)' = PinOf(c)
  BY DEF StoresUnchanged, PinOf
<1>3. k.receipt # None => ReceiptTrue(k.receipt)'
  BY <1>1, <1>2 DEF CallInvariant, ReceiptTrue
<1>4. CallInvariant(c)'
  BY <1>1, <1>2, <1>3 DEF CallInvariant, Running, X
<1>5. QED
  BY <1>4, OnlyTheCallMoves

\* What holds of a running call that is past its export.
LEMMA RunningCall ==
    ASSUME AuthorityInvariant, NEW c \in Calls, Running(c)
    PROVE  /\ call[c].request \in Advances(History) \cup Adoptions(History)
           /\ call[c].request.kind \in {"advance", "adopt"}
           /\ call[c].request.kind = "adopt" =>
                 call[c].request \in Adoptions(History) /\ X(c) \in Nominations
           /\ call[c].step \notin {"prove", "install"} /\ call[c].step # "export" =>
                 call[c].request.kind = "adopt" /\ X(c) \in Exported
           /\ call[c].step # "export" =>
                 call[c].prior = PinOf(c) /\ (call[c].request.kind = "adopt" => X(c) \in Exported)
<1>1. CallInvariant(c)
  BY Fields
<1>2. call[c].request \in Advances(History) \cup Adoptions(History)
  BY <1>1 DEF CallInvariant
<1>3. /\ call[c].request.kind \in {"advance", "adopt"}
      /\ call[c].request.kind = "adopt" =>
            call[c].request \in Adoptions(History) /\ X(c) \in Nominations
  BY <1>2, RequestShape DEF X
<1>4. QED
  BY <1>1, <1>2, <1>3 DEF CallInvariant

LEMMA ReexportKeeps ==
    ASSUME AuthorityInvariant, NEW c \in Calls, Reexport(c)
    PROVE  AuthorityInvariant'
<1>1. call[c].step = "export" /\ Running(c) /\ UNCHANGED pin /\ StoresUnchanged
  BY DEF Reexport, At, Running
<1>2. call[c] \in Call /\ PinOf(c) \in History /\ CallInvariant(c)
  BY Fields
<1>3. CASE X(c) \notin Exported
  BY <1>1, <1>3, EndKeeps DEF Reexport
<1>4. CASE X(c) \in Exported
  <2> DEFINE k == [call[c] EXCEPT !.step = "head", !.prior = PinOf(c)]
  <2>1. call' = [call EXCEPT ![c] = k]
    BY <1>4 DEF Reexport, AuthorityInvariant, TypeOK
  <2>2. /\ k \in Call /\ k.step = "head" /\ k.request = call[c].request
        /\ k.operation = call[c].operation /\ k.receipt = call[c].receipt
        /\ k.prior = PinOf(c)
    BY <1>2 DEF Call, Steps
  <2>3. k.operation = None /\ k.request.kind # "advance"
    BY <1>1, <1>2, <2>2 DEF CallInvariant
  <2> HIDE DEF k
  <2>4. k.request.nomination \in Exported
    BY <1>4, <2>2 DEF X
  <2>5. QED
    BY <1>1, <2>1, <2>2, <2>3, <2>4, StandsElsewhere
<1>5. QED
  BY <1>3, <1>4

LEMMA ReadHeadKeeps ==
    ASSUME AuthorityInvariant, NEW c \in Calls, ReadHead(c)
    PROVE  AuthorityInvariant'
<1>1. call[c].step = "head" /\ Running(c) /\ UNCHANGED pin /\ StoresUnchanged
  BY DEF ReadHead, At, Running
<1>2. /\ call[c] \in Call /\ canonical \in History /\ CallInvariant(c)
      /\ call[c].prior = PinOf(c) /\ call[c].request.kind = "adopt" /\ X(c) \in Exported
      /\ call[c].request \in Advances(History) \cup Adoptions(History)
  BY <1>1, Fields, RunningCall
<1>3. CASE canonical = call[c].prior
  <2> DEFINE k == [call[c] EXCEPT !.step = "lane", !.target = canonical]
  <2>1. call' = [call EXCEPT ![c] = k]
    BY <1>3 DEF ReadHead, AuthorityInvariant, TypeOK
  <2>2. /\ k \in Call /\ k.step = "lane" /\ k.request = call[c].request
        /\ k.operation = call[c].operation /\ k.receipt = call[c].receipt
        /\ k.prior = call[c].prior /\ k.target = canonical
    BY <1>2 DEF Call, Steps
  <2> HIDE DEF k
  <2>3. QED
    BY <1>1, <1>2, <1>3, <2>1, <2>2, StandsElsewhere DEF X
<1>4. CASE canonical # call[c].prior
  <2> DEFINE began == [call[c] EXCEPT !.target = canonical]
  <2>1. BeginProof(c, began)
    BY <1>4 DEF ReadHead
  <2>2. /\ began \in Call /\ began.request = call[c].request
        /\ began.operation = call[c].operation /\ began.receipt = call[c].receipt
        /\ began.prior = call[c].prior
    BY <1>2 DEF Call
  <2> HIDE DEF began
  <2>3. QED
    BY <1>1, <1>2, <2>1, <2>2, BeginProofKeeps DEF X
<1>5. QED
  BY <1>3, <1>4


LEMMA ProvePageKeeps ==
    ASSUME AuthorityInvariant, NEW c \in Calls, ProvePage(c)
    PROVE  AuthorityInvariant'
<1>1. /\ call[c].step = "prove" /\ Running(c) /\ UNCHANGED pin /\ StoresUnchanged
      /\ IsPrefixOf(call[c].prior, call[c].target) /\ IsPrefixOf(call[c].target, canonical)
  BY DEF ProvePage, At, Running, Proven
<1>2. /\ call[c] \in Call /\ call[c].cursor \in Nat /\ call[c].pages \in Nat
      /\ call[c].prior = PinOf(c) /\ call[c].request.kind \in {"advance", "adopt"}
      /\ call[c].request.kind = "adopt" => X(c) \in Exported
  BY <1>1, Fields, RunningCall
<1>3. PICK n \in 1..PageLimit :
          LET reached == call[c].cursor + n
          IN  /\ reached <= Len(call[c].target)
              /\ call' = [call EXCEPT ![c].cursor = reached, ![c].pages = @ + 1,
                    ![c].step = IF reached < Len(call[c].target) THEN "prove"
                                ELSE IF call[c].request.kind = "advance" THEN "install"
                                ELSE "check"]
  BY DEF ProvePage
<1> DEFINE reached == call[c].cursor + n
           next == IF reached < Len(call[c].target) THEN "prove"
                   ELSE IF call[c].request.kind = "advance" THEN "install" ELSE "check"
           k == [call[c] EXCEPT !.cursor = reached, !.pages = call[c].pages + 1, !.step = next]
<1>4. call' = [call EXCEPT ![c] = k]
  BY <1>3 DEF AuthorityInvariant, TypeOK
<1>5. reached \in Nat
  BY SMTT(30), <1>2, AuthorityAssumption
<1>6. /\ next \in {"prove", "install", "check"}
      /\ next = "install" => call[c].request.kind = "advance"
      /\ next = "check" => call[c].request.kind # "advance"
  OBVIOUS
<1> HIDE DEF reached, next
<1>7. /\ k \in Call /\ k.request = call[c].request /\ k.step = next
      /\ k.operation = call[c].operation /\ k.receipt = call[c].receipt
      /\ k.prior = call[c].prior /\ k.target = call[c].target
  <2>1. next \in Steps /\ call[c].pages + 1 \in Nat
    BY <1>2, <1>6 DEF Steps
  <2>2. k \in Call
    BY <1>2, <1>5, <2>1 DEF Call
  <2>3. QED
    BY <1>2, <2>2 DEF Call
<1> HIDE DEF k
<1>8. QED
  BY <1>1, <1>2, <1>4, <1>6, <1>7, StandsElsewhere DEF X

LEMMA CheckMovedKeeps ==
    ASSUME AuthorityInvariant, NEW c \in Calls, CheckMoved(c)
    PROVE  AuthorityInvariant'
<1>1. call[c].step = "check" /\ Running(c) /\ UNCHANGED pin /\ StoresUnchanged
  BY DEF CheckMoved, At, Running
<1>2. /\ call[c] \in Call /\ CallInvariant(c)
      /\ call[c].prior = PinOf(c) /\ call[c].request.kind = "adopt" /\ X(c) \in Exported
  BY <1>1, Fields, RunningCall
<1>3. CASE End(c, None)
  BY <1>1, <1>3, EndKeeps
<1>4. CASE Agrees(RecordsAt(call[c].target), X(c)) /\ Go(c, "install")
  <2> DEFINE k == [call[c] EXCEPT !.step = "install"]
  <2>1. call' = [call EXCEPT ![c] = k]
    BY <1>4 DEF Go, AuthorityInvariant, TypeOK
  <2>2. /\ k \in Call /\ k.step = "install" /\ k.request = call[c].request
        /\ k.operation = call[c].operation /\ k.receipt = call[c].receipt
        /\ k.prior = call[c].prior /\ k.target = call[c].target
    BY <1>2 DEF Call, Steps
  <2> HIDE DEF k
  <2>3. /\ IsPrefixOf(k.prior, k.target) /\ IsPrefixOf(k.target, canonical)
        /\ Differences(RecordsAt(k.target), k.request.nomination) = {}
    BY <1>1, <1>2, <1>4, <2>2 DEF CallInvariant, Agrees, X
  <2>4. QED
    BY <1>1, <1>2, <2>1, <2>2, <2>3, StandsElsewhere DEF X
<1>5. QED
  BY <1>3, <1>4 DEF CheckMoved

LEMMA CheckLaneKeeps ==
    ASSUME AuthorityInvariant, NEW c \in Calls, CheckLane(c)
    PROVE  AuthorityInvariant'
<1>1. call[c].step = "lane" /\ Running(c) /\ UNCHANGED pin /\ StoresUnchanged
  BY DEF CheckLane, At, Running
<1>2. /\ call[c] \in Call /\ CallInvariant(c)
      /\ call[c].prior = PinOf(c) /\ call[c].request.kind = "adopt" /\ X(c) \in Exported
      /\ call[c].request \in Adoptions(History) /\ X(c) \in Nominations
      /\ call[c].target = call[c].prior
      /\ call[c].prior \in History /\ IsPrefixOf(call[c].prior, canonical)
  BY <1>1, Fields, RunningCall DEF CallInvariant
<1> DEFINE present == ReceiptOf(c, "already-present", call[c].prior, call[c].target)
<1>3. CASE End(c, None)
  BY <1>1, <1>3, EndKeeps
<1>4. CASE Agrees(RecordsAt(call[c].prior), X(c)) /\ End(c, present)
  <2>1. present \in Receipt /\ present.prior = call[c].prior /\ present.head = call[c].prior
        /\ present.status = "already-present" /\ present.nomination = X(c)
    BY <1>2 DEF ReceiptOf, Receipt
  <2>2. ReceiptTrue(present)
    BY <1>2, <1>4, <2>1, Reflexive DEF ReceiptTrue, Agrees
  <2> HIDE DEF present
  <2>3. QED
    BY <1>1, <1>4, <2>1, <2>2, EndKeeps
<1>5. CASE /\ ~Agrees(RecordsAt(call[c].prior), X(c))
           /\ call[c].request.expected = call[c].prior
           /\ Unauthorized(RecordsAt(call[c].prior), X(c), call[c].request.claims) = {}
           /\ Go(c, "commit")
  <2> DEFINE k == [call[c] EXCEPT !.step = "commit"]
  <2>1. call' = [call EXCEPT ![c] = k]
    BY <1>5 DEF Go, AuthorityInvariant, TypeOK
  <2>2. /\ k \in Call /\ k.step = "commit" /\ k.request = call[c].request
        /\ k.operation = call[c].operation /\ k.receipt = call[c].receipt
        /\ k.prior = call[c].prior /\ k.target = call[c].target
    BY <1>2 DEF Call, Steps
  <2> HIDE DEF k
  <2>3. Reviewed(k.request)
    BY <1>2, <1>5, <2>2 DEF Reviewed, Agrees, X
  <2>4. QED
    BY <1>1, <1>2, <1>5, <2>1, <2>2, <2>3, StandsElsewhere DEF X
<1>6. QED
  BY <1>3, <1>4, <1>5 DEF CheckLane

LEMMA InstallKeeps ==
    ASSUME AuthorityInvariant, NEW c \in Calls, Install(c)
    PROVE  AuthorityInvariant'
<1>0. PICK k, receipt :
          k = call[c] /\ receipt = ReceiptOf(c, IF k.request.kind = "advance" THEN "advanced"
                                   ELSE IF k.operation = k.target THEN "adopted"
                                   ELSE "already-present", k.prior, k.target)
  OBVIOUS
<1>1. /\ k.step = "install" /\ Running(c) /\ StoresUnchanged /\ End(c, receipt)
      /\ pin' = [pin EXCEPT ![AuthorityOf[c]] = k.target]
  BY <1>0 DEF Install, At, Running
<1>2. /\ k \in Call /\ CallInvariant(c) /\ k.target \in History /\ k.prior \in History
      /\ k.prior = PinOf(c) /\ k.request.kind \in {"advance", "adopt"}
      /\ k.request.kind = "adopt" => X(c) \in Nominations
      /\ canonical \in History
  BY <1>0, <1>1, Fields, RunningCall
<1>3. /\ IsPrefixOf(k.prior, k.target) /\ IsPrefixOf(k.target, canonical)
      /\ k.request.kind = "adopt" => Differences(RecordsAt(k.target), X(c)) = {}
      /\ k.operation # None => k.request.kind = "adopt" /\ k.operation = OperationOf(k.prior, X(c))
  BY <1>0, <1>1, <1>2 DEF CallInvariant
<1>4. k.target # None
  BY <1>2, AuthorityAssumption
<1>5. /\ receipt \in Receipt /\ receipt.prior = k.prior /\ receipt.head = k.target
      /\ receipt.status = "adopted" => k.request.kind = "adopt" /\ k.operation = k.target
      /\ receipt.nomination = IF k.request.kind = "adopt" THEN X(c) ELSE None
  BY <1>0, <1>2 DEF ReceiptOf, Receipt
<1>6. ReceiptTrue(receipt)
  BY <1>2, <1>3, <1>4, <1>5 DEF ReceiptTrue
<1>7. ReceiptTrue(receipt)'
  BY <1>1, <1>6 DEF StoresUnchanged, ReceiptTrue
<1>8. CallInvariant(c)'
  BY <1>1, <1>5, <1>7, EndedCall
<1>9. Idle(receipt) \in Call /\ Idle(receipt).step = "idle"
  BY <1>5, IdleShape
<1>10. call' = [call EXCEPT ![c] = Idle(receipt)] /\ canonical' = canonical /\ late' = late
  BY <1>1 DEF End, StoresUnchanged
<1>11. canonical' \in History /\ IsPrefixOf(canonical, canonical') /\ IsPrefixOf(k.target, canonical')
  BY <1>2, <1>3, <1>10, Reflexive
<1>12. late' \subseteq Adoptions(History) /\ \A r \in late' : Reviewed(r)
  BY <1>10 DEF AuthorityInvariant, TypeOK
<1>13. QED
  BY <1>1, <1>2, <1>8, <1>9, <1>10, <1>11, <1>12, OneCallMoves

LEMMA ReadHeadAfterCommitKeeps ==
    ASSUME AuthorityInvariant, NEW c \in Calls, ReadHeadAfterCommit(c)
    PROVE  AuthorityInvariant'
<1>1. call[c].step \in {"landed", "lost"} /\ Running(c) /\ UNCHANGED pin /\ StoresUnchanged
  BY DEF ReadHeadAfterCommit, At, Running
<1>2. /\ call[c] \in Call /\ CallInvariant(c) /\ canonical \in History
      /\ call[c].prior = PinOf(c) /\ call[c].prior \in History
      /\ call[c].request.kind = "adopt" /\ X(c) \in Exported /\ X(c) \in Nominations
      /\ call[c].request \in Advances(History) \cup Adoptions(History)
  BY <1>1, Fields, RunningCall
<1> DEFINE after == [call[c] EXCEPT !.target = canonical]
<1>3. /\ after \in Call /\ after.request = call[c].request
      /\ after.operation = call[c].operation /\ after.receipt = call[c].receipt
      /\ after.prior = call[c].prior
  BY <1>2 DEF Call
<1>4. CASE canonical = call[c].operation
  <2> DEFINE k == [after EXCEPT !.step = "install"]
  <2>1. call' = [call EXCEPT ![c] = k]
    BY <1>4 DEF ReadHeadAfterCommit
  <2>2. /\ k \in Call /\ k.step = "install" /\ k.request = call[c].request
        /\ k.operation = call[c].operation /\ k.receipt = call[c].receipt
        /\ k.prior = call[c].prior /\ k.target = canonical
    BY <1>2, <1>3 DEF Call, Steps
  <2>3. canonical = OperationOf(call[c].prior, X(c))
    BY <1>2, <1>4, AuthorityAssumption DEF CallInvariant
  <2>4. /\ IsPrefixOf(call[c].prior, canonical) /\ IsPrefixOf(canonical, canonical)
        /\ Differences(RecordsAt(canonical), X(c)) = {}
    BY <1>2, <2>3, OperationExtends, Reflexive
  <2> HIDE DEF k
  <2>5. QED
    BY <1>1, <1>2, <2>1, <2>2, <2>4, StandsElsewhere DEF X
<1>5. CASE canonical # call[c].operation /\ canonical = call[c].prior
  <2> DEFINE k == [after EXCEPT !.step = "lane"]
  <2>1. call' = [call EXCEPT ![c] = k]
    BY <1>5 DEF ReadHeadAfterCommit
  <2>2. /\ k \in Call /\ k.step = "lane" /\ k.request = call[c].request
        /\ k.operation = call[c].operation /\ k.receipt = call[c].receipt
        /\ k.prior = call[c].prior /\ k.target = canonical
    BY <1>2, <1>3 DEF Call, Steps
  <2> HIDE DEF k
  <2>3. QED
    BY <1>1, <1>2, <1>5, <2>1, <2>2, StandsElsewhere DEF X
<1>6. CASE canonical # call[c].operation /\ canonical # call[c].prior
  <2>1. BeginProof(c, after)
    BY <1>6 DEF ReadHeadAfterCommit
  <2> HIDE DEF after
  <2>2. QED
    BY <1>1, <1>2, <1>3, <2>1, BeginProofKeeps DEF X
<1>7. QED
  BY <1>4, <1>5, <1>6


\* A step that moves the canonical history and no pin.
LEMMA CanonicalMoves ==
    ASSUME AuthorityInvariant,
           NEW c \in Calls, NEW k \in Call, call' = [call EXCEPT ![c] = k],
           canonical' \in History, IsPrefixOf(canonical, canonical'), UNCHANGED pin,
           late' \subseteq Adoptions(History), \A r \in late' : Reviewed(r),
           k.step \notin {"idle", "queued"} => Running(c),
           CallInvariant(c)'
    PROVE  AuthorityInvariant'
<1>1. /\ PinOf(c) \in History /\ IsPrefixOf(PinOf(c), canonical) /\ canonical \in History
  BY Fields
<1>2. pin' = [pin EXCEPT ![AuthorityOf[c]] = PinOf(c)]
  BY DEF PinOf, AuthorityInvariant, TypeOK
<1>3. IsPrefixOf(PinOf(c), canonical')
  BY <1>1, Transitive
<1>4. QED
  BY <1>1, <1>2, <1>3, OneCallMoves

LEMMA CommitKeeps ==
    ASSUME AuthorityInvariant, NEW c \in Calls, Commit(c)
    PROVE  AuthorityInvariant'
<1>1. call[c].step = "commit" /\ Running(c) /\ UNCHANGED <<pin, late>>
  BY DEF Commit, At, Running
<1>2. /\ call[c] \in Call /\ CallInvariant(c) /\ canonical \in History
      /\ call[c].prior = PinOf(c) /\ call[c].prior \in History
      /\ call[c].request.kind = "adopt" /\ X(c) \in Exported /\ X(c) \in Nominations
      /\ call[c].request \in Advances(History) \cup Adoptions(History)
      /\ call[c].receipt # None => ReceiptTrue(call[c].receipt)
      /\ call[c].receipt \in Receipt \cup {None}
  BY <1>1, Fields, RunningCall DEF CallInvariant
<1>3. PICK operation : operation = OperationOf(call[c].prior, X(c))
  OBVIOUS
<1>4. operation \in History
  BY <1>2, <1>3, OperationExtends
<1>5. late' \subseteq Adoptions(History) /\ \A r \in late' : Reviewed(r)
  BY <1>1 DEF AuthorityInvariant, TypeOK
<1> DEFINE landed == [call[c] EXCEPT !.step = "landed", !.tried = TRUE, !.operation = operation]
           lost == [call[c] EXCEPT !.step = "lost", !.tried = TRUE]
<1>6. ASSUME canonical' \in History, IsPrefixOf(canonical, canonical'),
             IsPrefixOf(operation, canonical'), call' = [call EXCEPT ![c] = landed]
      PROVE  AuthorityInvariant'
  <2>1. landed \in Call
    BY <1>2, <1>4 DEF Call, Steps
  <2>2. /\ call'[c].step = "landed" /\ call'[c].request = call[c].request
        /\ call'[c].operation = operation /\ call'[c].receipt = call[c].receipt
        /\ call'[c].prior = call[c].prior
    BY <1>2, <1>6, <2>1 DEF AuthorityInvariant, TypeOK, Call
  <2>3. call[c].receipt # None => ReceiptTrue(call[c].receipt)'
    BY SMTT(30), <1>2, <1>6, ReceiptsLast
  <2>4. CallInvariant(c)'
    BY <1>1, <1>2, <1>3, <1>6, <2>2, <2>3 DEF CallInvariant, Running, X, PinOf, ReceiptTrue
  <2>5. landed.step = "landed"
    BY <1>2 DEF Call
  <2> HIDE DEF landed
  <2>6. QED
    BY <1>1, <1>5, <1>6, <2>1, <2>4, CanonicalMoves
<1>7. CASE IsPrefixOf(operation, canonical)
  <2>1. call' = [call EXCEPT ![c] = landed] /\ canonical' = canonical
    BY <1>3, <1>7 DEF Commit, AuthorityInvariant, TypeOK
  <2>2. QED
    BY <1>2, <1>6, <1>7, <2>1, Reflexive
<1>8. CASE canonical' = Append(canonical, Adoption(canonical, X(c))) /\ canonical = call[c].prior
  <2>1. canonical' = operation
    BY <1>3, <1>8 DEF OperationOf
  <2>2. /\ canonical' \in History /\ IsPrefixOf(canonical, canonical')
        /\ IsPrefixOf(operation, canonical')
    BY <1>2, <1>3, <1>4, <1>8, <2>1, OperationExtends, Reflexive
  <2>3. CASE call' = [call EXCEPT ![c] = landed]
    BY <1>6, <2>2, <2>3
  <2>4. CASE End(c, None)
    <3>1. CallInvariant(c)'
      BY <2>4, EndedCall
    <3>2. /\ Idle(None) \in Call /\ Idle(None).step = "idle"
          /\ call' = [call EXCEPT ![c] = Idle(None)]
      BY <2>4, IdleShape DEF End
    <3>3. QED
      BY <1>1, <1>5, <2>2, <3>1, <3>2, CanonicalMoves
  <2>5. call' = [call EXCEPT ![c] = landed] \/ End(c, None)
    <3>1. canonical' # canonical
      <4>1. Len(Append(canonical, Adoption(canonical, X(c)))) = Len(canonical) + 1
            /\ Len(canonical) \in Nat
        BY <1>2, AdoptionCarries, AppendProperties, LenProperties DEF History
      <4>2. QED
        BY <1>8, <4>1
    <3>2. QED
      BY <1>3, <3>1 DEF Commit, AuthorityInvariant, TypeOK
  <2>6. QED
    BY <2>3, <2>4, <2>5
<1>9. CASE canonical' = canonical /\ End(c, None)
  BY <1>1, <1>9, EndKeeps DEF StoresUnchanged
<1>10. CASE canonical' = canonical /\ call' = [call EXCEPT ![c] = lost]
  <2>1. /\ lost \in Call /\ lost.step = "lost" /\ lost.request = call[c].request
        /\ lost.operation = call[c].operation /\ lost.receipt = call[c].receipt
        /\ lost.prior = call[c].prior
    BY <1>2 DEF Call, Steps
  <2> HIDE DEF lost
  <2>2. QED
    BY <1>1, <1>2, <1>10, <2>1, StandsElsewhere DEF X, StoresUnchanged
<1>11. QED
  BY <1>3, <1>7, <1>8, <1>9, <1>10 DEF Commit, Executes, AuthorityInvariant, TypeOK

LEMMA CommitTimesOutKeeps ==
    ASSUME AuthorityInvariant, NEW c \in Calls, CommitTimesOut(c)
    PROVE  AuthorityInvariant'
<1>1. /\ call[c].step = "commit" /\ Running(c) /\ UNCHANGED <<canonical, pin>> /\ End(c, None)
      /\ late' = late \cup {call[c].request}
  BY DEF CommitTimesOut, At, Running
<1>2. /\ call[c].request.kind = "adopt" /\ call[c].request \in Adoptions(History)
      /\ Reviewed(call[c].request) /\ canonical \in History
  BY <1>1, Fields, RunningCall DEF CallInvariant
<1>3. late' \subseteq Adoptions(History) /\ \A r \in late' : Reviewed(r)
  BY <1>1, <1>2 DEF AuthorityInvariant, TypeOK
<1>4. CallInvariant(c)'
  BY <1>1, EndedCall
<1>5. /\ Idle(None) \in Call /\ Idle(None).step = "idle"
      /\ call' = [call EXCEPT ![c] = Idle(None)]
  BY <1>1, IdleShape DEF End
<1>6. canonical' \in History /\ IsPrefixOf(canonical, canonical')
  BY <1>1, <1>2, Reflexive
<1>7. QED
  BY <1>1, <1>3, <1>4, <1>5, <1>6, CanonicalMoves

-----------------------------------------------------------------------------
(* The steps of others.                                                    *)

LEMMA WorldKeeps ==
    ASSUME AuthorityInvariant, canonical' \in History, IsPrefixOf(canonical, canonical'),
           UNCHANGED <<pin, call>>, late' \subseteq late
    PROVE  AuthorityInvariant'
<1>1. TypeOK'
  BY DEF AuthorityInvariant, TypeOK
<1>2. \A a \in Authorities : IsPrefixOf(pin'[a], canonical')
  <2>1. TAKE a \in Authorities
  <2>2. pin[a] \in History /\ canonical \in History /\ IsPrefixOf(pin[a], canonical)
    BY DEF AuthorityInvariant, TypeOK
  <2>3. QED
    BY <2>2, Transitive
<1>3. \A c \in Calls : CallInvariant(c)'
  BY Undisturbed DEF PinOf
<1>4. QED
  BY <1>1, <1>2, <1>3 DEF AuthorityInvariant, Running

LEMMA WriteKeeps ==
    ASSUME AuthorityInvariant, Write
    PROVE  AuthorityInvariant'
<1>1. PICK w \in Writes : canonical' = Append(canonical, [adopts |-> None, records |-> w])
  BY DEF Write
<1>2. [adopts |-> None, records |-> w] \in Body /\ canonical \in History
  BY AuthorityAssumption DEF Body, AuthorityInvariant, TypeOK
<1>3. canonical' \in History /\ IsPrefixOf(canonical, canonical')
  BY <1>1, <1>2, Extended
<1>4. QED
  BY <1>3, WorldKeeps DEF Write

LEMMA LateCommitKeeps ==
    ASSUME AuthorityInvariant, LateCommit
    PROVE  AuthorityInvariant'
<1>1. PICK request \in late :
          /\ late' = late \ {request}
          /\ IF Executes(request.expected, request.nomination) /\ Len(canonical) < MaxSequence
             THEN canonical' = Append(canonical, Adoption(canonical, request.nomination))
             ELSE UNCHANGED canonical
  BY DEF LateCommit
<1>2. request \in Adoptions(History) /\ canonical \in History
  BY DEF AuthorityInvariant, TypeOK
<1>3. request.nomination \in Nominations
  BY <1>2 DEF Adoptions
<1>4. canonical' \in History /\ IsPrefixOf(canonical, canonical')
  BY ZenonT(60), <1>1, <1>2, <1>3, AdoptionCarries, Extended, Reflexive
<1>5. QED
  BY <1>1, <1>4, WorldKeeps DEF LateCommit

LEMMA RestartKeeps ==
    ASSUME AuthorityInvariant, NEW a \in Authorities, Restart(a)
    PROVE  AuthorityInvariant'
<1>1. PICK head \in Heads : pin' = [pin EXCEPT ![a] = head]
  BY DEF Restart
<1>2. /\ canonical' = canonical /\ late' = late
      /\ call' = [c \in Calls |-> IF AuthorityOf[c] = a THEN Idle(None) ELSE call[c]]
  BY DEF Restart, StoresUnchanged
<1>3. canonical \in History /\ pin \in [Authorities -> History] /\ call \in [Calls -> Call]
  BY DEF AuthorityInvariant, TypeOK
<1>4. head \in History /\ IsPrefixOf(head, canonical)
  BY <1>3, HeadsAreHistories
<1>5. /\ Idle(None) \in Call /\ Idle(None).step = "idle" /\ Idle(None).operation = None
      /\ Idle(None).receipt = None
  BY IdleShape
<1>6. TypeOK'
  BY <1>1, <1>2, <1>3, <1>4, <1>5 DEF TypeOK, AuthorityInvariant
<1>7. \A b \in Authorities : IsPrefixOf(pin'[b], canonical')
  BY <1>1, <1>2, <1>3, <1>4 DEF AuthorityInvariant
<1>8. \A c \in Calls : CallInvariant(c)'
  <2>1. TAKE c \in Calls
  <2>2. CASE AuthorityOf[c] = a
    <3>1. call'[c] = Idle(None)
      BY <1>2, <2>2
    <3>2. QED
      BY <1>5, <3>1 DEF CallInvariant, Running
  <2>3. CASE AuthorityOf[c] # a
    <3>1. call'[c] = call[c] /\ PinOf(c)' = PinOf(c)
      BY <1>1, <1>2, <1>3, <2>3, AuthorityAssumption DEF PinOf
    <3>2. QED
      BY <1>2, <1>3, <3>1, Undisturbed, Reflexive
  <2>4. QED
    BY <2>2, <2>3
<1>9. \A c \in Calls : Running(c)' => Running(c)
  BY <1>2, <1>5 DEF Running
<1>10. QED
  BY <1>2, <1>6, <1>7, <1>8, <1>9 DEF AuthorityInvariant


-----------------------------------------------------------------------------
(* The theorems.                                                           *)

LEMMA InitConsistent == Init => AuthorityInvariant
<1> SUFFICES ASSUME Init PROVE AuthorityInvariant
  OBVIOUS
<1>1. /\ Idle(None) \in Call /\ Idle(None).step = "idle" /\ Idle(None).operation = None
      /\ Idle(None).receipt = None
  BY IdleShape
<1>2. \A c \in Calls : call[c] = Idle(None)
  BY DEF Init
<1>3. TypeOK
  BY <1>1, EmptyIsHistory DEF Init, TypeOK
<1>4. \A a \in Authorities : IsPrefixOf(pin[a], canonical)
  BY EmptyIsHistory, Reflexive DEF Init
<1>5. \A c \in Calls : CallInvariant(c) /\ ~Running(c)
  BY <1>1, <1>2 DEF CallInvariant, Running
<1>6. QED
  BY <1>3, <1>4, <1>5 DEF Init, AuthorityInvariant

LEMMA StepConsistent == AuthorityInvariant /\ [Next]_vars => AuthorityInvariant'
<1> SUFFICES ASSUME AuthorityInvariant, [Next]_vars PROVE AuthorityInvariant'
  OBVIOUS
<1>1. ASSUME NEW c \in Calls, Ask(c) \/ Take(c) PROVE AuthorityInvariant'
  BY <1>1, AskKeeps, StartAdvanceKeeps, StartAdoptKeeps DEF Take
<1>2. ASSUME NEW c \in Calls, Proceed(c) PROVE AuthorityInvariant'
  <2>1. CASE ProofFails(c)
    BY <2>1, EndKeeps DEF ProofFails
  <2>2. QED
    BY <1>2, <2>1, ReexportKeeps, ReadHeadKeeps, ProvePageKeeps, CheckMovedKeeps, CheckLaneKeeps,
       CommitKeeps, ReadHeadAfterCommitKeeps, InstallKeeps DEF Proceed
<1>3. ASSUME NEW c \in Calls, CommitTimesOut(c) PROVE AuthorityInvariant'
  BY <1>3, CommitTimesOutKeeps
<1>4. ASSUME NEW c \in Calls, Fail(c) PROVE AuthorityInvariant'
  BY <1>4, EndKeeps DEF Fail, FailEnd
<1>5. ASSUME NEW a \in Authorities, Restart(a) PROVE AuthorityInvariant'
  BY <1>5, RestartKeeps
<1>6. CASE Write \/ LateCommit
  BY <1>6, WriteKeeps, LateCommitKeeps
<1>7. CASE UNCHANGED vars
  <2>1. canonical \in History /\ IsPrefixOf(canonical, canonical)
    BY Reflexive DEF AuthorityInvariant, TypeOK
  <2>2. QED
    BY <1>7, <2>1, WorldKeeps DEF vars
<1>8. QED
  BY <1>1, <1>2, <1>3, <1>4, <1>5, <1>6, <1>7 DEF Next

\* The inductive invariant: pins, permits, proofs, receipts and late adoptions
\* agree with the canonical history, whatever hosts, writers, failures and
\* restarts interleave.
THEOREM AuthorityConsistent == Spec => []AuthorityInvariant
<1>1. QED
  BY InitConsistent, StepConsistent, PTL DEF Spec

\* A receipt of a host call stays true of the canonical history.
THEOREM ReceiptsAlwaysTrue == Spec => []ReceiptsTrue
<1>1. AuthorityInvariant => ReceiptsTrue
  BY DEF AuthorityInvariant, CallInvariant, ReceiptsTrue
<1>2. QED
  BY <1>1, AuthorityConsistent, PTL

LEMMA PinStep ==
    ASSUME AuthorityInvariant, Next, NEW a \in Authorities
    PROVE  \/ pin'[a] = pin[a]
           \/ Restart(a)
           \/ IsPrefixOf(pin[a], pin'[a]) /\ IsPrefixOf(pin'[a], canonical)
<1>1. ASSUME NEW c \in Calls, Install(c) PROVE
          pin'[a] = pin[a] \/ (IsPrefixOf(pin[a], pin'[a]) /\ IsPrefixOf(pin'[a], canonical))
  <2>1. /\ call[c].step = "install" /\ Running(c)
        /\ pin' = [pin EXCEPT ![AuthorityOf[c]] = call[c].target]
    BY <1>1 DEF Install, At, Running
  <2>2. /\ call[c].prior = PinOf(c)
        /\ IsPrefixOf(call[c].prior, call[c].target) /\ IsPrefixOf(call[c].target, canonical)
    BY <2>1, Fields, RunningCall DEF CallInvariant
  <2>3. QED
    BY <2>1, <2>2 DEF PinOf, AuthorityInvariant, TypeOK
<1>2. ASSUME NEW b \in Authorities, Restart(b) PROVE pin'[a] = pin[a] \/ Restart(a)
  BY <1>2 DEF Restart, AuthorityInvariant, TypeOK
<1>3. CASE UNCHANGED pin
  BY <1>3
<1>4. (\E c \in Calls : Install(c)) \/ (\E b \in Authorities : Restart(b)) \/ UNCHANGED pin
  BY ZenonT(60) DEF Next, Ask, Take, StartAdvance, StartAdopt, Proceed, Reexport, ReadHead, ProvePage,
         ProofFails, CheckMoved, CheckLane, Commit, ReadHeadAfterCommit, CommitTimesOut, Fail,
         Write, LateCommit
<1>5. QED
  BY <1>1, <1>2, <1>3, <1>4

\* A pin only moves forward along the canonical history, or with a restart.
THEOREM PinsMoveForward == Spec => PinMovesAlongPath
<1>1. AuthorityInvariant /\ [Next]_vars
          => [\A a \in Authorities :
                \/ pin'[a] = pin[a]
                \/ Restart(a)
                \/ IsPrefixOf(pin[a], pin'[a]) /\ IsPrefixOf(pin'[a], canonical)]_vars
  BY PinStep
<1>2. QED
  BY <1>1, AuthorityConsistent, PTL DEF Spec, PinMovesAlongPath

\* An adoption that was reviewed at the canonical head and is executed there.
LEMMA ReviewedAdoption ==
    ASSUME canonical \in History, NEW request \in Adoptions(History),
           Reviewed(request), request.expected = canonical,
           canonical' = Append(canonical, Adoption(canonical, request.nomination))
    PROVE  LET body == canonical'[Len(canonical')]
               before == RecordsAt(canonical)
           IN  /\ body.adopts = request.nomination
               /\ body.adopts \in Exported
               /\ body.records # before
               /\ \A k \in Keys : body.records[k] # before[k] =>
                     \/ before[k] = Absent
                     \/ k \in DOMAIN request.claims /\ request.claims[k] = before[k]
<1> DEFINE x == request.nomination
           body == Adoption(canonical, x)
           before == RecordsAt(canonical)
<1>1. x \in Nominations /\ before \in Snapshot
  BY RecordsType DEF Adoptions
<1>2. /\ body \in Body /\ body.adopts = x
      /\ Differences(body.records, x) = {}
      /\ \A k \in Keys : body.records[k] =
             IF k \in DOMAIN Nominated[x] THEN Nominated[x][k] ELSE before[k]
  BY ZenonT(60), <1>1, AdoptionCarries
<1>3. canonical'[Len(canonical')] = body
  BY <1>2, Extended
<1>4. /\ x \in Exported /\ Differences(before, x) # {}
      /\ Unauthorized(before, x, request.claims) = {}
  BY DEF Reviewed
<1> HIDE DEF body, before, x
<1>5. body.records # before
  BY <1>2, <1>4 
<1>6. \A k \in Keys : body.records[k] # before[k] =>
          \/ before[k] = Absent
          \/ k \in DOMAIN request.claims /\ request.claims[k] = before[k]
  BY <1>2, <1>4 DEF Unauthorized
<1>7. QED
  BY <1>2, <1>3, <1>4, <1>5, <1>6 DEF x, before

LEMMA AdoptionStep ==
    ASSUME AuthorityInvariant, Next, canonical' # canonical
    PROVE  LET body == canonical'[Len(canonical')]
               before == RecordsAt(canonical)
           IN  body.adopts # None =>
                  /\ body.adopts \in Exported
                  /\ body.records # before
                  /\ \E request \in late \cup {call[c].request : c \in {d \in Calls : At(d, "commit")}} :
                        /\ request.nomination = body.adopts
                        /\ request.expected = canonical
                        /\ \A k \in Keys : body.records[k] # before[k] =>
                              \/ before[k] = Absent
                              \/ k \in DOMAIN request.claims /\ request.claims[k] = before[k]
<1>1. canonical \in History
  BY DEF AuthorityInvariant, TypeOK
<1>2. ASSUME NEW request \in late \cup {call[c].request : c \in {d \in Calls : At(d, "commit")}},
             request \in Adoptions(History), Reviewed(request), request.expected = canonical,
             canonical' = Append(canonical, Adoption(canonical, request.nomination))
      PROVE  LET body == canonical'[Len(canonical')]
                 before == RecordsAt(canonical)
             IN  /\ body.adopts \in Exported
                 /\ body.records # before
                 /\ request.nomination = body.adopts
                 /\ request.expected = canonical
                 /\ \A k \in Keys : body.records[k] # before[k] =>
                       \/ before[k] = Absent
                       \/ k \in DOMAIN request.claims /\ request.claims[k] = before[k]
  BY SMTT(30), <1>1, <1>2, ReviewedAdoption
<1>3. CASE \E c \in Calls : Commit(c)
  <2>1. PICK c \in Calls : Commit(c)
    BY <1>3
  <2>2. call[c].step = "commit" /\ Running(c)
    BY <2>1 DEF Commit, At, Running
  <2>3. /\ call[c].request \in Adoptions(History) /\ Reviewed(call[c].request)
        /\ call[c].request.expected = call[c].prior
    BY <2>2, Fields, RunningCall DEF CallInvariant
  <2>4. canonical = call[c].prior /\ canonical' = Append(canonical, Adoption(canonical, X(c)))
    BY <2>1 DEF Commit, Executes
  <2>5. call[c].request \in {call[d].request : d \in {d \in Calls : At(d, "commit")}}
    BY <2>2 DEF At
  <2>6. QED
    BY <1>2, <2>3, <2>4, <2>5 DEF X
<1>4. CASE LateCommit
  <2>1. PICK request \in late :
            /\ Executes(request.expected, request.nomination)
            /\ canonical' = Append(canonical, Adoption(canonical, request.nomination))
    BY <1>4 DEF LateCommit
  <2>2. request \in Adoptions(History) /\ Reviewed(request) /\ request.expected = canonical
    BY <2>1 DEF AuthorityInvariant, TypeOK, Executes
  <2>3. QED
    BY <1>2, <2>1, <2>2
<1>5. CASE Write
  <2>1. PICK w \in Writes : canonical' = Append(canonical, [adopts |-> None, records |-> w])
    BY <1>5 DEF Write
  <2>2. [adopts |-> None, records |-> w] \in Body
    BY AuthorityAssumption DEF Body
  <2>3. canonical'[Len(canonical')] = [adopts |-> None, records |-> w]
    BY SMTT(30), <1>1, <2>1, <2>2, Extended
  <2>4. QED
    BY <2>3
<1>6. (\E c \in Calls : Commit(c)) \/ LateCommit \/ Write
  BY ZenonT(60) DEF Next, Ask, Take, StartAdvance, StartAdopt, Proceed, Reexport, ReadHead, ProvePage,
         ProofFails, CheckMoved, CheckLane, Install, ReadHeadAfterCommit, CommitTimesOut, Fail,
         Restart, StoresUnchanged
<1>7. QED
  BY <1>3, <1>4, <1>5, <1>6

\* An adoption lands only on the head its host reviewed, changes what is there
\* and overwrites a record only under a claim of exactly that record.
THEOREM AdoptionsAsReviewed == Spec => AdoptedAsReviewed
<1>1. AuthorityInvariant /\ [Next]_vars
          => [canonical' # canonical =>
              LET body == canonical'[Len(canonical')]
                  before == RecordsAt(canonical)
              IN  body.adopts # None =>
                     /\ body.adopts \in Exported
                     /\ body.records # before
                     /\ \E request \in late \cup {call[c].request : c \in {d \in Calls : At(d, "commit")}} :
                           /\ request.nomination = body.adopts
                           /\ request.expected = canonical
                           /\ \A k \in Keys : body.records[k] # before[k] =>
                                 \/ before[k] = Absent
                                 \/ k \in DOMAIN request.claims /\ request.claims[k] = before[k]]_vars
  BY AdoptionStep
<1>2. QED
  BY <1>1, AuthorityConsistent, PTL DEF Spec, AdoptedAsReviewed
=============================================================================
