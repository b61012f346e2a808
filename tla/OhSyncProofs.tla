---------------------------- MODULE OhSyncProofs ----------------------------
(***************************************************************************)
(* Theorems about OhSync: calls, rows, stores and records agree at all     *)
(* times, sync implements fast-forward replication, and what a call nobody *)
(* disturbs promises its caller (OhSyncUndisturbed).                       *)
(***************************************************************************)
EXTENDS OhSyncUndisturbed, OhHistoryProofs

-----------------------------------------------------------------------------
(* Histories of the space.                                                 *)

LEMMA EmptyIsHistory == <<>> \in History /\ Len(<<>>) = 0
  BY EmptySeq DEF History

LEMMA LengthType ==
    ASSUME NEW h \in History
    PROVE  Len(h) \in Nat
  BY LenProperties DEF History

LEMMA PrefixType ==
    ASSUME NEW h \in History, NEW n \in 0..Len(h)
    PROVE  /\ Prefix(h, n) \in History
           /\ Len(Prefix(h, n)) = n
           /\ IsPrefixOf(Prefix(h, n), h)
<1>1. Len(h) \in Nat
  BY LengthType
<1>2. Prefix(h, n) \in History /\ Len(Prefix(h, n)) = n
  BY PrefixOfSeq DEF History
<1>3. QED
  BY <1>1, <1>2 DEF IsPrefixOf

LEMMA Reflexive ==
    ASSUME NEW h \in History
    PROVE  IsPrefixOf(h, h) /\ IsPrefixOf(<<>>, h)
  BY ExtensionReflexive DEF History

LEMMA Transitive ==
    ASSUME NEW f \in History, NEW g \in History, NEW h \in History,
           IsPrefixOf(f, g), IsPrefixOf(g, h)
    PROVE  IsPrefixOf(f, h)
  BY ExtensionTransitive DEF History

LEMMA Comparable ==
    ASSUME NEW f \in History, NEW g \in History, NEW h \in History,
           IsPrefixOf(f, h), IsPrefixOf(g, h), Len(f) <= Len(g)
    PROVE  IsPrefixOf(f, g)
  BY ExtensionComparable DEF History

LEMMA SameLength ==
    ASSUME NEW f \in History, NEW h \in History,
           IsPrefixOf(f, h), Len(h) <= Len(f)
    PROVE  f = h
  BY ExtensionSameLength DEF History

\* A chain holds the nonempty prefixes of its head.
LEMMA InChain ==
    ASSUME NEW h \in History, NEW o
    PROVE  o \in ChainOf(h) <=>
               o \in History /\ IsPrefixOf(o, h) /\ 0 < Len(o)
<1>1. Len(h) \in Nat
  BY LengthType
<1>2. ChainOf(h) = Segment(h, 0, Len(h))
  BY DEF ChainOf, Segment
<1>3. o \in Segment(h, 0, Len(h)) <=>
          o \in History /\ IsPrefixOf(o, h) /\ 0 < Len(o) /\ Len(o) <= Len(h)
  BY <1>1, InSegment DEF History
<1>4. QED
  BY <1>2, <1>3 DEF IsPrefixOf

-----------------------------------------------------------------------------
(* The rows of the remote.                                                 *)

\* The longest row of a chain is the head of the chain.
LEMMA HeadOfChain ==
    ASSUME NEW h \in History, NEW chain, chain = ChainOf(h)
    PROVE  (IF chain = {} THEN <<>> ELSE CHOOSE o \in chain : \A p \in chain : Len(p) <= Len(o))
           = h
<1>1. Len(h) \in Nat /\ IsPrefixOf(h, h)
  BY LengthType, Reflexive
<1>2. CASE h = <<>>
  <2>1. Len(h) = 0 /\ 1..Len(h) = {}
    BY <1>2, EmptyIsHistory
  <2>2. chain = {}
    BY <2>1 DEF ChainOf
  <2> QED
    BY <1>2, <2>2
<1>3. CASE h # <<>>
  <2>1. 0 < Len(h)
    BY <1>1, <1>3, EmptySeq DEF History
  <2>2. h \in chain
    BY <1>1, <2>1, InChain
  <2>3. \A p \in chain : Len(p) <= Len(h)
    BY InChain DEF IsPrefixOf
  <2> DEFINE o == CHOOSE q \in chain : \A p \in chain : Len(p) <= Len(q)
  <2>4. o \in chain /\ Len(h) <= Len(o)
    BY <2>2, <2>3
  <2> HIDE DEF o
  <2>5. o \in History /\ IsPrefixOf(o, h)
    BY <2>4, InChain
  <2>6. o = h
    BY <2>4, <2>5, SameLength
  <2> QED
    BY <2>2, <2>6 DEF o
<1>4. QED
  BY <1>2, <1>3

\* Rows inserted after a prefix of the chain's head, at sequences no row has,
\* continue the chain: the head has not moved past that prefix.
LEMMA InsertedRowsContinue ==
    ASSUME NEW head \in History, NEW tip \in History, NEW n \in Nat,
           n < Len(tip), IsPrefixOf(Prefix(tip, n), head),
           \A o \in Segment(tip, n, Len(tip)), p \in ChainOf(head) :
               Len(o) # Len(p)
    PROVE  /\ IsPrefixOf(head, tip)
           /\ ChainOf(head) \cup Segment(tip, n, Len(tip)) = ChainOf(tip)
<1> DEFINE front == Prefix(tip, n)
<1>1. Len(tip) \in Nat /\ Len(head) \in Nat
  BY LengthType
<1>2. front \in History /\ Len(front) = n /\ IsPrefixOf(front, tip)
  BY <1>1, PrefixType
<1>3. \A o : o \in Segment(tip, n, Len(tip)) <=>
          o \in History /\ IsPrefixOf(o, tip) /\ n < Len(o) /\ Len(o) <= Len(tip)
  BY <1>1, InSegment DEF History
<1> HIDE DEF front
<1>4. Len(head) <= n
  <2> SUFFICES ASSUME n < Len(head) PROVE FALSE
    BY <1>1
  <2>1. n + 1 \in 0..Len(head) /\ n + 1 \in 0..Len(tip)
    BY <1>1
  <2>2. /\ Prefix(head, n + 1) \in History /\ Len(Prefix(head, n + 1)) = n + 1
        /\ IsPrefixOf(Prefix(head, n + 1), head)
    BY <2>1, PrefixType
  <2>3. /\ Prefix(tip, n + 1) \in History /\ Len(Prefix(tip, n + 1)) = n + 1
        /\ IsPrefixOf(Prefix(tip, n + 1), tip)
    BY <2>1, PrefixType
  <2>4. Prefix(head, n + 1) \in ChainOf(head)
    BY <2>2, InChain
  <2>5. Prefix(tip, n + 1) \in Segment(tip, n, Len(tip))
    BY <1>1, <1>3, <2>3
  <2>6. QED
    BY <2>2, <2>3, <2>4, <2>5
<1>5. front = head
  BY <1>2, <1>4, SameLength DEF front
<1>6. IsPrefixOf(head, tip) /\ Len(head) = n
  BY <1>2, <1>5
<1>7. ASSUME NEW o \in ChainOf(head) \cup Segment(tip, n, Len(tip))
      PROVE  o \in ChainOf(tip)
  <2>1. o \in History /\ IsPrefixOf(o, tip) /\ 0 < Len(o)
    BY <1>3, <1>6, <1>7, InChain, Transitive, LengthType
  <2>2. QED
    BY <2>1, InChain
<1>8. ASSUME NEW o \in ChainOf(tip)
      PROVE  o \in ChainOf(head) \cup Segment(tip, n, Len(tip))
  <2>1. /\ o \in History /\ IsPrefixOf(o, tip) /\ 0 < Len(o)
        /\ Len(o) \in Nat /\ Len(o) <= Len(tip)
    BY InChain, LengthType DEF IsPrefixOf
  <2>2. CASE n < Len(o)
    BY <1>3, <2>1, <2>2
  <2>3. CASE Len(o) <= n
    <3>1. IsPrefixOf(o, head)
      BY <1>6, <2>1, <2>3, Comparable
    <3>2. QED
      BY <2>1, <3>1, InChain
  <2>4. QED
    BY <2>1, <2>2, <2>3
<1>9. QED
  BY <1>6, <1>7, <1>8

-----------------------------------------------------------------------------
(* Calls.                                                                  *)

LEMMA CallType ==
    ASSUME NEW k \in Call
    PROVE  /\ k.step \in Steps /\ k.outcome \in Outcomes
           /\ k.round \in 0..MaximumRounds
           /\ k.remote \in History /\ k.base \in History /\ k.tip \in History
           /\ k.together \in BOOLEAN
  BY DEF Call

\* What a call remembers still fits after either side has grown.
LEMMA FitsGrown ==
    ASSUME NEW k \in Call, NEW mine \in History, NEW mine2 \in History,
           NEW head \in History, NEW head2 \in History,
           IsPrefixOf(mine, mine2), IsPrefixOf(head, head2),
           Fits(k, mine, head)
    PROVE  Fits(k, mine2, head2)
<1>1. k.remote \in History /\ k.base \in History /\ k.tip \in History
  BY CallType
<1>2. \A h \in History : IsPrefixOf(h, mine) => IsPrefixOf(h, mine2)
  BY Transitive
<1>3. \A h \in History : IsPrefixOf(h, head) => IsPrefixOf(h, head2)
  BY Transitive
<1>4. Len(mine) <= Len(mine2) /\ Len(mine) \in Nat /\ Len(mine2) \in Nat
      /\ Len(k.tip) \in Nat
  BY <1>1, LengthType DEF IsPrefixOf
<1>5. QED
  BY <1>1, <1>2, <1>3, <1>4 DEF Fits

\* A call that remembers nothing, or one head it shares with both sides.
LEMMA FitsFresh ==
    ASSUME NEW k, NEW mine \in History, NEW head \in History,
           k.remote = <<>>, k.base = <<>>,
           \/ k.step \in {"idle", "head"}
           \/ /\ k.step \in {"settle", "confirm"}
              /\ IsPrefixOf(k.tip, mine) /\ IsPrefixOf(k.tip, head)
    PROVE  Fits(k, mine, head)
<1>1. IsPrefixOf(<<>>, mine) /\ IsPrefixOf(<<>>, head)
  BY Reflexive
<1>2. QED
  BY <1>1 DEF Fits

LEMMA IdleType ==
    ASSUME NEW outcome \in Outcomes
    PROVE  /\ Idle(outcome) \in Call
           /\ Idle(outcome).step = "idle"
           /\ Idle(outcome).remote = <<>> /\ Idle(outcome).base = <<>>
           /\ Idle(outcome).round = 0 /\ Idle(outcome).tip = <<>>
<1>1. 0 \in 0..MaximumRounds
  BY SyncAssumption
<1>2. QED
  BY <1>1, EmptyIsHistory DEF Idle, Call, Steps

-----------------------------------------------------------------------------
(* What one step may do without breaking the invariant.                    *)

\* Both sides grow, the rows stay one chain, and whatever is new fits.
LEMMA InvariantKept ==
    ASSUME SyncInvariant, TypeOK', RemoteHead' \in History, RemoteIsOneChain',
           \A r \in Replicas : IsPrefixOf(local[r], local'[r]),
           IsPrefixOf(RemoteHead, RemoteHead'),
           \A c \in Syncers : \/ call'[c] = call[c]
                              \/ Fits(call'[c], LocalOf(c)', RemoteHead'),
           \A batch \in late' : batch \in late \/ LateFits(batch)',
           \A r \in Replicas : \/ syncState'[r] = syncState[r]
                               \/ /\ IsPrefixOf(syncState'[r], local'[r])
                                  /\ IsPrefixOf(syncState'[r], RemoteHead')
    PROVE  SyncInvariant'
<1>1. /\ local \in [Replicas -> History] /\ local' \in [Replicas -> History]
      /\ call \in [Syncers -> Call] /\ RemoteHead \in History
      /\ syncState \in [Replicas -> History \cup {None}]
      /\ late \subseteq [from: Nat, tip: History]
  BY DEF SyncInvariant, TypeOK
<1>2. RecordedIsCommon'
  <2> SUFFICES ASSUME NEW r \in Replicas, syncState'[r] # None
               PROVE  /\ IsPrefixOf(syncState'[r], local'[r])
                      /\ IsPrefixOf(syncState'[r], RemoteHead')
    BY DEF RecordedIsCommon
  <2>1. CASE syncState'[r] = syncState[r]
    <3>1. /\ syncState[r] \in History
          /\ IsPrefixOf(syncState[r], local[r])
          /\ IsPrefixOf(syncState[r], RemoteHead)
      BY <1>1, <2>1 DEF SyncInvariant, RecordedIsCommon
    <3>2. QED
      BY <1>1, <2>1, <3>1, Transitive
  <2>2. CASE syncState'[r] # syncState[r]
    BY <2>2
  <2>3. QED
    BY <2>1, <2>2
<1>3. ASSUME NEW c \in Syncers
      PROVE  Fits(call'[c], LocalOf(c)', RemoteHead')
  <2>1. CASE call'[c] = call[c]
    <3>1. StoreOf[c] \in Replicas
      BY SyncAssumption
    <3>2. /\ LocalOf(c) \in History /\ LocalOf(c)' \in History
          /\ IsPrefixOf(LocalOf(c), LocalOf(c)')
      BY <1>1, <3>1 DEF LocalOf
    <3>3. call[c] \in Call /\ Fits(call[c], LocalOf(c), RemoteHead)
      BY <1>1 DEF SyncInvariant
    <3>4. QED
      BY <1>1, <2>1, <3>2, <3>3, FitsGrown
  <2>2. CASE call'[c] # call[c]
    BY <2>2
  <2>3. QED
    BY <2>1, <2>2
<1>4. ASSUME NEW batch \in late'
      PROVE  LateFits(batch)'
  <2>1. CASE batch \in late
    <3>1. batch.from \in Nat /\ batch.tip \in History /\ LateFits(batch)
      BY <1>1, <2>1 DEF SyncInvariant
    <3>2. Prefix(batch.tip, batch.from) \in History
      BY <3>1, PrefixType, LengthType DEF LateFits
    <3>3. IsPrefixOf(Prefix(batch.tip, batch.from), RemoteHead')
      BY <1>1, <3>1, <3>2, Transitive DEF LateFits
    <3>4. PICK r \in Replicas : IsPrefixOf(batch.tip, local[r])
      BY <3>1 DEF LateFits
    <3>5. IsPrefixOf(batch.tip, local'[r])
      BY <1>1, <3>1, <3>4, Transitive
    <3>6. QED
      BY <3>1, <3>3, <3>5 DEF LateFits
  <2>2. CASE batch \notin late
    BY <2>2
  <2>3. QED
    BY <2>1, <2>2
<1>5. QED
  BY <1>2, <1>3, <1>4 DEF SyncInvariant

\* A step of one call that leaves both sides alone.
LEMMA CallMoves ==
    ASSUME SyncInvariant, SidesUnchanged, NEW c \in Syncers, NEW k \in Call,
           call' = [call EXCEPT ![c] = k],
           Fits(k, LocalOf(c), RemoteHead)
    PROVE  SyncInvariant'
<1>1. /\ TypeOK /\ RemoteHead \in History /\ RemoteIsOneChain
      /\ call \in [Syncers -> Call]
  BY DEF SyncInvariant, TypeOK
<1>2. /\ local' = local /\ rows' = rows /\ late' = late /\ syncState' = syncState
      /\ RemoteHead' = RemoteHead
  BY DEF SidesUnchanged, RemoteHead
<1>3. call' \in [Syncers -> Call]
      /\ \A d \in Syncers : call'[d] = call[d] \/ (d = c /\ call'[d] = k)
  BY <1>1
<1>4. TypeOK' /\ RemoteIsOneChain'
  BY <1>1, <1>2, <1>3 DEF TypeOK, RemoteIsOneChain
<1>5. \A d \in Syncers : LocalOf(d)' = LocalOf(d)
  BY <1>2 DEF LocalOf
<1>6. \A r \in Replicas : IsPrefixOf(local[r], local'[r])
  BY <1>1, <1>2, Reflexive DEF TypeOK
<1>7. IsPrefixOf(RemoteHead, RemoteHead')
  BY <1>1, <1>2, Reflexive
<1>8. \A d \in Syncers : \/ call'[d] = call[d]
                         \/ Fits(call'[d], LocalOf(d)', RemoteHead')
  BY <1>2, <1>3, <1>5
<1>9. QED
  BY <1>1, <1>2, <1>4, <1>6, <1>7, <1>8, InvariantKept

\* Ends and new rounds forget everything; confirming and settling keep a head
\* both sides have.
LEMMA CallForgets ==
    ASSUME SyncInvariant, SidesUnchanged, NEW c \in Syncers,
           \/ \E outcome \in Outcomes : End(c, outcome)
           \/ NextRound(c)
           \/ \E tip \in History :
                 /\ SettleAt(c, tip) \/ ConfirmAt(c, tip)
                 /\ IsPrefixOf(tip, LocalOf(c)) /\ IsPrefixOf(tip, RemoteHead)
    PROVE  SyncInvariant'
<1>1. /\ call[c] \in Call /\ RemoteHead \in History /\ LocalOf(c) \in History
  BY SyncAssumption DEF SyncInvariant, TypeOK, LocalOf
<1>2. "none" \in Outcomes /\ "rounds" \in Outcomes
  BY DEF Outcomes
<1>3. ASSUME NEW outcome \in Outcomes, End(c, outcome)
      PROVE  SyncInvariant'
  <2>1. Idle(outcome) \in Call /\ Fits(Idle(outcome), LocalOf(c), RemoteHead)
    BY <1>1, IdleType, FitsFresh
  <2>2. QED
    BY <1>3, <2>1, CallMoves DEF End
<1>4. ASSUME NextRound(c) PROVE SyncInvariant'
  <2>1. CASE call[c].round = MaximumRounds
    BY <1>2, <1>3, <1>4, <2>1 DEF NextRound
  <2>2. CASE call[c].round # MaximumRounds
    <3> DEFINE k == [Idle("none") EXCEPT !.step = "head", !.round = call[c].round + 1]
    <3>1. call[c].round + 1 \in 0..MaximumRounds
      BY <1>1, <2>2, CallType, SyncAssumption
    <3>2. k \in Call /\ k.step = "head" /\ k.remote = <<>> /\ k.base = <<>>
      BY <3>1, EmptyIsHistory DEF Idle, Call, Steps, Outcomes
    <3>3. call' = [call EXCEPT ![c] = k]
      BY <1>4, <2>2 DEF NextRound
    <3> HIDE DEF k
    <3>4. Fits(k, LocalOf(c), RemoteHead)
      BY <1>1, <3>2, FitsFresh
    <3>5. QED
      BY <3>2, <3>3, <3>4, CallMoves
  <2>3. QED
    BY <2>1, <2>2
<1>5. ASSUME NEW tip \in History, IsPrefixOf(tip, LocalOf(c)),
             IsPrefixOf(tip, RemoteHead), SettleAt(c, tip)
      PROVE  SyncInvariant'
  <2> DEFINE k == [Idle("none") EXCEPT !.step = "settle", !.tip = tip]
  <2>1. 0 \in 0..MaximumRounds
    BY SyncAssumption
  <2>2. /\ k \in Call /\ k.step = "settle" /\ k.tip = tip
        /\ k.remote = <<>> /\ k.base = <<>>
    BY <2>1, EmptyIsHistory DEF Idle, Call, Steps, Outcomes
  <2>3. call' = [call EXCEPT ![c] = k]
    BY <1>5 DEF SettleAt
  <2> HIDE DEF k
  <2>4. Fits(k, LocalOf(c), RemoteHead)
    BY <1>1, <1>5, <2>2, FitsFresh
  <2>5. QED
    BY <2>2, <2>3, <2>4, CallMoves
<1>6. ASSUME NEW tip \in History, IsPrefixOf(tip, LocalOf(c)),
             IsPrefixOf(tip, RemoteHead), ConfirmAt(c, tip)
      PROVE  SyncInvariant'
  <2> DEFINE k == [Idle("none") EXCEPT !.step = "confirm", !.tip = tip,
                                       !.round = call[c].round]
  <2>1. call[c].round \in 0..MaximumRounds
    BY <1>1, CallType
  <2>2. /\ k \in Call /\ k.step = "confirm" /\ k.tip = tip
        /\ k.remote = <<>> /\ k.base = <<>>
    BY <2>1, EmptyIsHistory DEF Idle, Call, Steps, Outcomes
  <2>3. call' = [call EXCEPT ![c] = k]
    BY <1>6 DEF ConfirmAt
  <2> HIDE DEF k
  <2>4. Fits(k, LocalOf(c), RemoteHead)
    BY <1>1, <1>6, <2>2, FitsFresh
  <2>5. QED
    BY <2>2, <2>3, <2>4, CallMoves
<1>7. QED
  BY <1>3, <1>4, <1>5, <1>6

\* The facts about the call that acts which every step starts from.
LEMMA ActingCall ==
    ASSUME SyncInvariant, NEW c \in Syncers
    PROVE  /\ call \in [Syncers -> Call] /\ call[c] \in Call
           /\ call[c].remote \in History /\ call[c].base \in History
           /\ call[c].tip \in History
           /\ Len(call[c].remote) \in Nat /\ Len(call[c].base) \in Nat
           /\ Len(call[c].tip) \in Nat
           /\ StoreOf[c] \in Replicas
           /\ LocalOf(c) \in History /\ Len(LocalOf(c)) \in Nat
           /\ RemoteHead \in History /\ Len(RemoteHead) \in Nat
           /\ Fits(call[c], LocalOf(c), RemoteHead)
<1>1. call \in [Syncers -> Call] /\ local \in [Replicas -> History]
  BY DEF SyncInvariant, TypeOK
<1>2. StoreOf[c] \in Replicas
  BY SyncAssumption
<1>3. LocalOf(c) \in History /\ RemoteHead \in History
  BY <1>1, <1>2 DEF LocalOf, SyncInvariant
<1>4. call[c] \in Call /\ Fits(call[c], LocalOf(c), RemoteHead)
  BY <1>1 DEF SyncInvariant
<1>5. call[c].remote \in History /\ call[c].base \in History /\ call[c].tip \in History
  BY <1>4, CallType
<1>6. QED
  BY <1>1, <1>2, <1>3, <1>4, <1>5, LengthType

\* A call that only changes where it stands.
LEMMA CallGoes ==
    ASSUME SyncInvariant, SidesUnchanged, NEW c \in Syncers, NEW step \in Steps,
           Go(c, step),
           Fits([call[c] EXCEPT !.step = step], LocalOf(c), RemoteHead)
    PROVE  SyncInvariant'
<1> DEFINE k == [call[c] EXCEPT !.step = step]
<1>1. call[c] \in Call
  BY ActingCall
<1>2. k \in Call
  BY <1>1 DEF Call
<1>3. call' = [call EXCEPT ![c] = k]
  BY DEF Go
<1>4. QED
  BY <1>2, <1>3, CallMoves

-----------------------------------------------------------------------------
(* The steps of a call that leave both sides alone.                        *)

LEMMA BeginKeeps ==
    ASSUME SyncInvariant, NEW c \in Syncers, Begin(c)
    PROVE  SyncInvariant'
<1> DEFINE k == [Idle("none") EXCEPT !.step = "head", !.round = 1]
<1>1. LocalOf(c) \in History /\ RemoteHead \in History
  BY ActingCall
<1>2. 1 \in 0..MaximumRounds
  BY SyncAssumption
<1>3. k \in Call /\ k.step = "head" /\ k.remote = <<>> /\ k.base = <<>>
  BY <1>2, EmptyIsHistory DEF Idle, Call, Steps, Outcomes
<1>4. SidesUnchanged /\ call' = [call EXCEPT ![c] = k]
  BY DEF Begin
<1> HIDE DEF k
<1>5. Fits(k, LocalOf(c), RemoteHead)
  BY <1>1, <1>3, FitsFresh
<1>6. QED
  BY <1>3, <1>4, <1>5, CallMoves

LEMMA ReadRemoteKeeps ==
    ASSUME SyncInvariant, NEW c \in Syncers, ReadRemote(c)
    PROVE  SyncInvariant'
<1> DEFINE k == [call[c] EXCEPT !.step = "local", !.remote = RemoteHead]
<1>1. /\ call \in [Syncers -> Call] /\ call[c] \in Call /\ RemoteHead \in History
      /\ Fits(call[c], LocalOf(c), RemoteHead)
  BY ActingCall
<1>2. /\ k \in Call /\ k.step = "local" /\ k.remote = RemoteHead
      /\ k.base = call[c].base
  BY <1>1 DEF Call, Steps
<1>3. SidesUnchanged /\ call' = [call EXCEPT ![c] = k]
  BY <1>1 DEF ReadRemote
<1> HIDE DEF k
<1>4. Fits(k, LocalOf(c), RemoteHead)
  BY <1>1, <1>2, Reflexive DEF Fits
<1>5. QED
  BY <1>2, <1>3, <1>4, CallMoves

LEMMA SettledKeeps ==
    ASSUME SyncInvariant, NEW c \in Syncers, Settled(c)
    PROVE  SyncInvariant'
<1>1. /\ SidesUnchanged /\ SettleAt(c, call[c].remote)
      /\ LocalOf(c) = call[c].remote
  BY DEF Settled
<1>2. /\ call[c].remote \in History
      /\ IsPrefixOf(call[c].remote, LocalOf(c))
      /\ IsPrefixOf(call[c].remote, RemoteHead)
  BY <1>1, ActingCall, Reflexive DEF Fits
<1>3. QED
  BY <1>1, <1>2, CallForgets

LEMMA StartPullKeeps ==
    ASSUME SyncInvariant, NEW c \in Syncers, StartPull(c)
    PROVE  SyncInvariant'
<1> DEFINE k == [call[c] EXCEPT !.step = "pull", !.base = LocalOf(c)]
<1>1. /\ call \in [Syncers -> Call] /\ call[c] \in Call /\ LocalOf(c) \in History
      /\ Fits(call[c], LocalOf(c), RemoteHead)
  BY ActingCall
<1>2. /\ k \in Call /\ k.step = "pull" /\ k.remote = call[c].remote
      /\ k.base = LocalOf(c)
  BY <1>1 DEF Call, Steps
<1>3. SidesUnchanged /\ call' = [call EXCEPT ![c] = k]
  BY <1>1 DEF StartPull
<1> HIDE DEF k
<1>4. Fits(k, LocalOf(c), RemoteHead)
  BY <1>1, <1>2, Reflexive DEF Fits
<1>5. QED
  BY <1>2, <1>3, <1>4, CallMoves

LEMMA StartPushKeeps ==
    ASSUME SyncInvariant, NEW c \in Syncers, StartPush(c)
    PROVE  SyncInvariant'
<1>1. /\ call \in [Syncers -> Call] /\ call[c] \in Call /\ LocalOf(c) \in History
      /\ call[c].remote \in History
      /\ Len(call[c].remote) \in Nat /\ Len(LocalOf(c)) \in Nat
      /\ Fits(call[c], LocalOf(c), RemoteHead)
  BY ActingCall
<1>2. PICK n \in 1..BatchSize :
          /\ Len(call[c].remote) + n <= Len(LocalOf(c))
          /\ call' = [call EXCEPT ![c].step = "push", ![c].base = LocalOf(c),
                ![c].tip = Prefix(LocalOf(c), Len(call[c].remote) + n)]
  BY DEF StartPush
<1> DEFINE tip == Prefix(LocalOf(c), Len(call[c].remote) + n)
           k == [call[c] EXCEPT !.step = "push", !.base = LocalOf(c), !.tip = tip]
<1>3. n \in Nat /\ 0 < n /\ Len(call[c].remote) + n \in 0..Len(LocalOf(c))
  BY SMTT(30), <1>1, <1>2, SyncAssumption
<1>4. /\ tip \in History /\ IsPrefixOf(tip, LocalOf(c))
      /\ Len(call[c].remote) < Len(tip)
  BY <1>1, <1>3, PrefixType
<1>5. SidesUnchanged /\ IsPrefixOf(call[c].remote, LocalOf(c))
  BY DEF StartPush
<1>6. call' = [call EXCEPT ![c] = k]
  BY <1>1, <1>2
<1> HIDE DEF tip
<1>7. /\ k \in Call /\ k.step = "push" /\ k.remote = call[c].remote
      /\ k.base = LocalOf(c) /\ k.tip = tip
  BY <1>1, <1>4 DEF Call, Steps
<1>8. IsPrefixOf(call[c].remote, tip)
  BY <1>1, <1>4, <1>5, LengthType, Comparable
<1> HIDE DEF k
<1>9. Fits(k, LocalOf(c), RemoteHead)
  BY <1>1, <1>4, <1>7, <1>8, Reflexive DEF Fits
<1>10. QED
  BY <1>5, <1>6, <1>7, <1>9, CallMoves

LEMMA ServePullKeeps ==
    ASSUME SyncInvariant, NEW c \in Syncers, ServePull(c)
    PROVE  SyncInvariant'
<1>1. /\ call \in [Syncers -> Call] /\ call[c] \in Call /\ RemoteHead \in History
      /\ Len(call[c].base) \in Nat
      /\ Fits(call[c], LocalOf(c), RemoteHead)
  BY ActingCall
<1>2. PICK o \in rows :
          /\ Len(o) - Len(call[c].base) \in 1..BatchSize
          /\ call' = [call EXCEPT ![c].step = "import", ![c].tip = o]
  BY DEF ServePull
<1> DEFINE k == [call[c] EXCEPT !.step = "import", !.tip = o]
<1>3. o \in History /\ IsPrefixOf(o, RemoteHead)
  BY <1>1, InChain DEF SyncInvariant, RemoteIsOneChain
<1>4. Len(call[c].base) < Len(o)
  BY <1>1, <1>2, <1>3, LengthType, SyncAssumption
<1>5. /\ k \in Call /\ k.step = "import" /\ k.remote = call[c].remote
      /\ k.base = call[c].base /\ k.tip = o
  BY <1>1, <1>3 DEF Call, Steps
<1>6. SidesUnchanged /\ call' = [call EXCEPT ![c] = k]
  BY <1>1, <1>2 DEF ServePull
<1> HIDE DEF k
<1>7. Fits(k, LocalOf(c), RemoteHead)
  BY <1>1, <1>3, <1>4, <1>5 DEF Fits
<1>8. QED
  BY <1>5, <1>6, <1>7, CallMoves

LEMMA ServePushHeadKeeps ==
    ASSUME SyncInvariant, NEW c \in Syncers, ServePushHead(c)
    PROVE  SyncInvariant'
<1>1. SidesUnchanged /\ call[c].step = "push"
  BY DEF ServePushHead, At
<1>2. call[c] \in Call /\ Fits(call[c], LocalOf(c), RemoteHead)
  BY ActingCall
<1>3. ASSUME NEW step \in {"compare", "batch"}, Go(c, step)
      PROVE  SyncInvariant'
  <2> DEFINE k == [call[c] EXCEPT !.step = step]
  <2>1. /\ k.step = step /\ k.remote = call[c].remote /\ k.base = call[c].base
        /\ k.tip = call[c].tip
    BY <1>2 DEF Call
  <2>2. step \in Steps
    BY DEF Steps
  <2> HIDE DEF k
  <2>3. Fits(k, LocalOf(c), RemoteHead)
    BY <1>1, <1>2, <2>1 DEF Fits
  <2>4. QED
    BY <1>1, <1>3, <2>2, <2>3, CallGoes DEF k
<1>4. ASSUME End(c, "refused") PROVE SyncInvariant'
  BY <1>1, <1>4, CallForgets DEF Outcomes
<1>5. Go(c, "compare") \/ Go(c, "batch") \/ End(c, "refused")
  BY DEF ServePushHead
<1>6. QED
  BY <1>3, <1>4, <1>5

\* Every pushed operation is a row: the tip is, so it lies on the chain.
LEMMA ServeCompareKeeps ==
    ASSUME SyncInvariant, NEW c \in Syncers, ServeCompare(c)
    PROVE  SyncInvariant'
<1>1. SidesUnchanged /\ call[c].step = "compare"
  BY DEF ServeCompare, At
<1>2. /\ call[c] \in Call /\ Fits(call[c], LocalOf(c), RemoteHead)
      /\ call[c].tip \in History /\ RemoteHead \in History
      /\ Len(call[c].remote) \in Nat /\ Len(call[c].tip) \in Nat
  BY ActingCall
<1>3. Len(call[c].remote) < Len(call[c].tip) /\ IsPrefixOf(call[c].tip, LocalOf(c))
  BY <1>1, <1>2 DEF Fits
<1>4. CASE Pushed(c) \subseteq rows
  <2>1. call[c].tip \in Pushed(c)
    BY SMTT(30), <1>2, <1>3, InSegment, Reflexive DEF Pushed, History
  <2>2. IsPrefixOf(call[c].tip, RemoteHead)
    BY <1>2, <1>4, <2>1, InChain DEF SyncInvariant, RemoteIsOneChain
  <2> DEFINE k == [call[c] EXCEPT !.step = "after"]
  <2>3. /\ k.step = "after" /\ k.remote = call[c].remote /\ k.base = call[c].base
        /\ k.tip = call[c].tip
    BY <1>2 DEF Call
  <2> HIDE DEF k
  <2>4. Fits(k, LocalOf(c), RemoteHead)
    BY <1>2, <1>3, <2>2, <2>3 DEF Fits
  <2>5. Go(c, "after") /\ "after" \in Steps
    BY <1>4 DEF ServeCompare, Steps
  <2>6. QED
    BY <1>1, <2>4, <2>5, CallGoes DEF k
<1>5. CASE ~(Pushed(c) \subseteq rows)
  <2>1. End(c, "refused") /\ "refused" \in Outcomes
    BY <1>5 DEF ServeCompare, Outcomes
  <2>2. QED
    BY <1>1, <2>1, CallForgets
<1>6. QED
  BY <1>4, <1>5

LEMMA AfterTransferKeeps ==
    ASSUME SyncInvariant, NEW c \in Syncers, AfterTransfer(c)
    PROVE  SyncInvariant'
<1>1. SidesUnchanged /\ call[c].step = "after"
  BY DEF AfterTransfer, At
<1>2. /\ Fits(call[c], LocalOf(c), RemoteHead) /\ LocalOf(c) \in History
      /\ call[c].tip \in History /\ call[c].remote \in History
  BY ActingCall
<1>3. CASE LocalOf(c) = Target(c)
  <2>1. Target(c) \in History /\ IsPrefixOf(Target(c), RemoteHead)
    BY <1>1, <1>2 DEF Target, Fits
  <2>2. IsPrefixOf(Target(c), LocalOf(c))
    BY <1>2, <1>3, Reflexive
  <2>3. ConfirmAt(c, Target(c))
    BY <1>3 DEF AfterTransfer
  <2>4. QED
    BY <1>1, <2>1, <2>2, <2>3, CallForgets
<1>4. CASE LocalOf(c) # Target(c)
  <2>1. NextRound(c)
    BY <1>4 DEF AfterTransfer
  <2>2. QED
    BY <1>1, <2>1, CallForgets
<1>5. QED
  BY <1>3, <1>4

\* A remote at the confirmed head while the store is elsewhere means that the
\* store is already longer.
LEMMA ReadConfirmationKeeps ==
    ASSUME SyncInvariant, NEW c \in Syncers, ReadConfirmation(c)
    PROVE  SyncInvariant'
<1> DEFINE k == [call[c] EXCEPT !.step = "check", !.remote = RemoteHead,
                                !.together = LocalOf(c) = RemoteHead]
<1>1. /\ call \in [Syncers -> Call] /\ call[c] \in Call /\ RemoteHead \in History
      /\ LocalOf(c) \in History /\ call[c].tip \in History
      /\ Len(call[c].tip) \in Nat /\ Len(LocalOf(c)) \in Nat
      /\ Fits(call[c], LocalOf(c), RemoteHead)
  BY ActingCall
<1>2. SidesUnchanged /\ call[c].step = "confirm"
  BY DEF ReadConfirmation, At
<1>3. call' = [call EXCEPT ![c] = k]
  BY <1>1 DEF ReadConfirmation
<1>4. k \in Call
  BY <1>1 DEF Call, Steps
<1>5. /\ k.step = "check" /\ k.remote = RemoteHead /\ k.base = call[c].base
      /\ k.tip = call[c].tip
      /\ LocalOf(c) = RemoteHead => k.together
  BY <1>1 DEF Call
<1>6. IsPrefixOf(call[c].tip, LocalOf(c)) /\ IsPrefixOf(call[c].tip, RemoteHead)
      /\ IsPrefixOf(call[c].base, LocalOf(c))
  BY <1>1, <1>2 DEF Fits
<1>7. LocalOf(c) # call[c].tip => Len(call[c].tip) < Len(LocalOf(c))
  BY <1>1, <1>6, SameLength
<1> HIDE DEF k
<1>8. k.together \/ k.remote # k.tip \/ Len(k.tip) < Len(LocalOf(c))
  BY <1>5, <1>7
<1>9. Fits(k, LocalOf(c), RemoteHead)
  BY <1>1, <1>5, <1>6, <1>8, Reflexive DEF Fits
<1>10. QED
  BY <1>2, <1>3, <1>4, <1>9, CallMoves

LEMMA CheckConfirmationKeeps ==
    ASSUME SyncInvariant, NEW c \in Syncers, CheckConfirmation(c)
    PROVE  SyncInvariant'
<1>1. SidesUnchanged /\ call[c].step = "check"
  BY DEF CheckConfirmation, At
<1>2. /\ call[c].tip \in History
      /\ IsPrefixOf(call[c].tip, LocalOf(c)) /\ IsPrefixOf(call[c].tip, RemoteHead)
  BY <1>1, ActingCall DEF Fits
<1>3. SettleAt(c, call[c].tip) \/ NextRound(c)
  BY DEF CheckConfirmation
<1>4. QED
  BY <1>1, <1>2, <1>3, CallForgets

\* The refusals of synchronize, of the transport and of the store.
LEMMA RefusalsKeep ==
    ASSUME SyncInvariant, NEW c \in Syncers,
           \/ EqualHeadsConflict(c) \/ ChangesSinceFails(c)
           \/ PullConflict(c) \/ ImportFails(c) \/ BatchRefused(c)
    PROVE  SyncInvariant'
<1>1. SidesUnchanged /\ \E outcome \in Outcomes : End(c, outcome)
  BY DEF EqualHeadsConflict, ChangesSinceFails, PullConflict, ImportFails,
         BatchRefused, Outcomes
<1>2. QED
  BY <1>1, CallForgets

-----------------------------------------------------------------------------
(* The steps that move a side.                                             *)

\* An accepted page extends the store along the remote.
LEMMA ImportMoves ==
    ASSUME SyncInvariant, NEW c \in Syncers, Import(c)
    PROVE  /\ local' \in [Replicas -> History]
           /\ \/ local' = local
              \/ local' = [local EXCEPT ![StoreOf[c]] = call[c].tip]
           /\ \A r \in Replicas : IsPrefixOf(local[r], local'[r])
           /\ IsPrefixOf(call[c].tip, LocalOf(c)')
           /\ IsPrefixOf(call[c].tip, RemoteHead)
<1>1. /\ call[c].tip \in History /\ StoreOf[c] \in Replicas
      /\ Fits(call[c], LocalOf(c), RemoteHead)
      /\ local \in [Replicas -> History]
  BY ActingCall DEF SyncInvariant, TypeOK
<1>2. /\ IsPrefixOf(call[c].tip, RemoteHead) /\ IsPrefixOf(call[c].base, call[c].tip)
  BY <1>1 DEF Import, At, Fits, PageExtends
<1>3. CASE /\ LocalOf(c) = call[c].base
           /\ local' = [local EXCEPT ![StoreOf[c]] = call[c].tip]
  BY <1>1, <1>2, <1>3, Reflexive DEF LocalOf
<1>4. CASE IsPrefixOf(call[c].tip, LocalOf(c)) /\ local' = local
  BY <1>1, <1>2, <1>4, Reflexive DEF LocalOf
<1>5. QED
  BY <1>3, <1>4 DEF Import

LEMMA ImportKeeps ==
    ASSUME SyncInvariant, NEW c \in Syncers, Import(c)
    PROVE  SyncInvariant'
<1> DEFINE k == [call[c] EXCEPT !.step = "after"]
<1>1. /\ call \in [Syncers -> Call] /\ call[c] \in Call /\ RemoteHead \in History
      /\ call[c].base \in History /\ StoreOf[c] \in Replicas
      /\ Fits(call[c], LocalOf(c), RemoteHead)
      /\ local \in [Replicas -> History] /\ TypeOK /\ RemoteIsOneChain
  BY ActingCall DEF SyncInvariant, TypeOK
<1>2. /\ local' \in [Replicas -> History]
      /\ \A r \in Replicas : IsPrefixOf(local[r], local'[r])
      /\ IsPrefixOf(call[c].tip, LocalOf(c)')
      /\ IsPrefixOf(call[c].tip, RemoteHead)
  BY ImportMoves
<1>3. /\ rows' = rows /\ late' = late /\ syncState' = syncState
      /\ RemoteHead' = RemoteHead /\ call' = [call EXCEPT ![c] = k]
  BY DEF Import, Go, RemoteHead
<1>4. /\ k \in Call /\ k.step = "after" /\ k.remote = call[c].remote
      /\ k.base = call[c].base /\ k.tip = call[c].tip
  BY <1>1 DEF Call, Steps
<1> HIDE DEF k
<1>5. call' \in [Syncers -> Call]
      /\ \A d \in Syncers : call'[d] = call[d] \/ (d = c /\ call'[d] = k)
  BY <1>1, <1>3, <1>4
<1>6. TypeOK' /\ RemoteIsOneChain'
  BY <1>1, <1>2, <1>3, <1>5 DEF TypeOK, RemoteIsOneChain
<1>7. IsPrefixOf(call[c].base, LocalOf(c)')
  <2>1. LocalOf(c) \in History /\ LocalOf(c)' \in History
        /\ IsPrefixOf(LocalOf(c), LocalOf(c)')
    BY <1>1, <1>2 DEF LocalOf
  <2>2. QED
    BY <1>1, <2>1, Transitive DEF Fits
<1>8. Fits(k, LocalOf(c)', RemoteHead')
  BY <1>1, <1>2, <1>3, <1>4, <1>7 DEF Fits
<1>9. \A d \in Syncers : \/ call'[d] = call[d]
                         \/ Fits(call'[d], LocalOf(d)', RemoteHead')
  BY <1>5, <1>8
<1>10. QED
  BY <1>1, <1>2, <1>3, <1>6, <1>9, Reflexive, InvariantKept

\* A batch that inserts makes its tip the remote head.
LEMMA RowsInserted ==
    ASSUME SyncInvariant, NEW tip \in History, NEW n \in Nat, n < Len(tip),
           IsPrefixOf(Prefix(tip, n), RemoteHead),
           Insertable(Segment(tip, n, Len(tip))),
           rows' = rows \cup Segment(tip, n, Len(tip))
    PROVE  /\ RemoteHead' = tip /\ IsPrefixOf(RemoteHead, tip)
           /\ rows' = ChainOf(tip) /\ rows' \subseteq History \ {<<>>}
<1>1. RemoteHead \in History /\ rows = ChainOf(RemoteHead)
  BY DEF SyncInvariant, RemoteIsOneChain
<1>2. \A o \in Segment(tip, n, Len(tip)), p \in ChainOf(RemoteHead) : Len(o) # Len(p)
  BY <1>1 DEF Insertable
<1> DEFINE head == RemoteHead
<1>3. head \in History /\ IsPrefixOf(Prefix(tip, n), head)
      /\ \A o \in Segment(tip, n, Len(tip)), p \in ChainOf(head) : Len(o) # Len(p)
  BY <1>1, <1>2
<1> HIDE DEF head
<1>4. IsPrefixOf(head, tip)
      /\ ChainOf(head) \cup Segment(tip, n, Len(tip)) = ChainOf(tip)
  BY <1>3, InsertedRowsContinue
<1>5. rows' = ChainOf(tip)
  BY <1>1, <1>4 DEF head
<1>6. RemoteHead' = tip
  <2>1. (IF rows' = {} THEN <<>> ELSE CHOOSE o \in rows' : \A p \in rows' : Len(p) <= Len(o))
        = tip
    BY <1>5, HeadOfChain
  <2>2. QED
    BY <2>1 DEF RemoteHead
<1>7. ChainOf(tip) \subseteq History \ {<<>>}
  BY InChain, EmptyIsHistory
<1>8. QED
  BY <1>4, <1>5, <1>6, <1>7 DEF head

LEMMA ServeBatchInserts ==
    ASSUME SyncInvariant, NEW c \in Syncers, ServeBatch(c)
    PROVE  /\ RemoteHead' = call[c].tip /\ IsPrefixOf(RemoteHead, call[c].tip)
           /\ rows' = ChainOf(call[c].tip) /\ rows' \subseteq History \ {<<>>}
           /\ IsPrefixOf(call[c].tip, LocalOf(c))
<1>1. /\ call[c].tip \in History /\ Len(call[c].remote) \in Nat
      /\ Fits(call[c], LocalOf(c), RemoteHead)
  BY ActingCall
<1>2. call[c].step = "batch" /\ Insertable(Pushed(c)) /\ rows' = rows \cup Pushed(c)
  BY DEF ServeBatch, At
<1>3. /\ Len(call[c].remote) < Len(call[c].tip)
      /\ IsPrefixOf(call[c].tip, LocalOf(c))
      /\ IsPrefixOf(call[c].remote, RemoteHead)
      /\ call[c].remote = Prefix(call[c].tip, Len(call[c].remote))
  BY <1>1, <1>2 DEF Fits, IsPrefixOf
<1>4. QED
  BY <1>1, <1>2, <1>3, RowsInserted DEF Pushed

LEMMA ServeBatchKeeps ==
    ASSUME SyncInvariant, NEW c \in Syncers, ServeBatch(c)
    PROVE  SyncInvariant'
<1> DEFINE k == [call[c] EXCEPT !.step = "after"]
<1>1. /\ call \in [Syncers -> Call] /\ call[c] \in Call /\ RemoteHead \in History
      /\ call[c].tip \in History /\ call[c].remote \in History
      /\ Fits(call[c], LocalOf(c), RemoteHead)
      /\ local \in [Replicas -> History] /\ TypeOK
  BY ActingCall DEF SyncInvariant, TypeOK
<1>2. /\ RemoteHead' = call[c].tip /\ IsPrefixOf(RemoteHead, RemoteHead')
      /\ rows' = ChainOf(RemoteHead') /\ rows' \subseteq History \ {<<>>}
      /\ IsPrefixOf(call[c].tip, LocalOf(c))
  BY ServeBatchInserts
<1>3. /\ local' = local /\ late' = late /\ syncState' = syncState
      /\ call' = [call EXCEPT ![c] = k] /\ LocalOf(c)' = LocalOf(c)
  BY DEF ServeBatch, Go, LocalOf
<1>4. /\ k \in Call /\ k.step = "after" /\ k.remote = call[c].remote
      /\ k.base = call[c].base /\ k.tip = call[c].tip
  BY <1>1 DEF Call, Steps
<1> HIDE DEF k
<1>5. call' \in [Syncers -> Call]
      /\ \A d \in Syncers : call'[d] = call[d] \/ (d = c /\ call'[d] = k)
  BY <1>1, <1>3, <1>4
<1>6. TypeOK' /\ RemoteIsOneChain'
  BY <1>1, <1>2, <1>3, <1>5 DEF TypeOK, RemoteIsOneChain
<1>7. RemoteHead' \in History /\ IsPrefixOf(call[c].remote, RemoteHead')
  BY <1>1, <1>2, Transitive DEF Fits
<1>8. Fits(k, LocalOf(c)', RemoteHead')
  BY <1>1, <1>2, <1>3, <1>4, <1>7, Reflexive DEF Fits
<1>9. \A d \in Syncers : \/ call'[d] = call[d]
                         \/ Fits(call'[d], LocalOf(d)', RemoteHead')
  BY <1>5, <1>8
<1>10. \A r \in Replicas : IsPrefixOf(local[r], local'[r])
  BY <1>1, <1>3, Reflexive
<1>11. QED
  BY <1>2, <1>3, <1>6, <1>7, <1>9, <1>10, InvariantKept

LEMMA SettleKeeps ==
    ASSUME SyncInvariant, NEW c \in Syncers, Settle(c)
    PROVE  SyncInvariant'
<1>1. /\ call \in [Syncers -> Call] /\ RemoteHead \in History
      /\ call[c].tip \in History /\ LocalOf(c) \in History
      /\ StoreOf[c] \in Replicas
      /\ Fits(call[c], LocalOf(c), RemoteHead)
      /\ local \in [Replicas -> History] /\ TypeOK /\ RemoteIsOneChain
      /\ syncState \in [Replicas -> History \cup {None}]
  BY ActingCall DEF SyncInvariant, TypeOK
<1>2. /\ local' = local /\ rows' = rows /\ late' = late
      /\ RemoteHead' = RemoteHead
      /\ syncState' = [syncState EXCEPT ![StoreOf[c]] = call[c].tip]
      /\ call' = [call EXCEPT ![c] = Idle("none")]
  BY DEF Settle, End, RemoteHead
<1>3. IsPrefixOf(call[c].tip, LocalOf(c)) /\ IsPrefixOf(call[c].tip, RemoteHead)
  BY <1>1 DEF Settle, At, Fits
<1>4. Idle("none") \in Call /\ Fits(Idle("none"), LocalOf(c), RemoteHead)
  BY <1>1, IdleType, FitsFresh DEF Outcomes
<1>5. call' \in [Syncers -> Call]
      /\ \A d \in Syncers : call'[d] = call[d] \/ (d = c /\ call'[d] = Idle("none"))
  BY <1>1, <1>2, <1>4
<1>6. syncState' \in [Replicas -> History \cup {None}]
  BY <1>1, <1>2
<1>7. TypeOK' /\ RemoteIsOneChain'
  BY <1>1, <1>2, <1>5, <1>6 DEF TypeOK, RemoteIsOneChain
<1>8. LocalOf(c)' = LocalOf(c) /\ LocalOf(c) = local'[StoreOf[c]]
  BY <1>2 DEF LocalOf
<1>9. \A d \in Syncers : \/ call'[d] = call[d]
                         \/ Fits(call'[d], LocalOf(d)', RemoteHead')
  BY <1>2, <1>4, <1>5, <1>8
<1>10. \A r \in Replicas : \/ syncState'[r] = syncState[r]
                           \/ /\ IsPrefixOf(syncState'[r], local'[r])
                              /\ IsPrefixOf(syncState'[r], RemoteHead')
  BY <1>1, <1>2, <1>3, <1>8
<1>11. \A r \in Replicas : IsPrefixOf(local[r], local'[r])
  BY <1>1, <1>2, Reflexive
<1>12. QED
  BY <1>1, <1>2, <1>7, <1>9, <1>10, <1>11, Reflexive, InvariantKept

LEMMA LostKeeps ==
    ASSUME SyncInvariant, NEW c \in Syncers, Lost(c)
    PROVE  SyncInvariant'
<1> DEFINE batch == [from |-> Len(call[c].remote), tip |-> call[c].tip]
<1>1. /\ call \in [Syncers -> Call] /\ RemoteHead \in History
      /\ call[c].tip \in History /\ LocalOf(c) \in History
      /\ Len(call[c].remote) \in Nat /\ StoreOf[c] \in Replicas
      /\ Fits(call[c], LocalOf(c), RemoteHead)
      /\ local \in [Replicas -> History] /\ TypeOK /\ RemoteIsOneChain
      /\ late \subseteq [from: Nat, tip: History]
  BY ActingCall DEF SyncInvariant, TypeOK
<1>2. /\ local' = local /\ rows' = rows /\ syncState' = syncState
      /\ RemoteHead' = RemoteHead
      /\ call' = [call EXCEPT ![c] = Idle("none")]
      /\ late' = late \/ (call[c].step = "batch" /\ late' = late \cup {batch})
  BY DEF Lost, At, End, RemoteHead
<1>3. Idle("none") \in Call /\ Fits(Idle("none"), LocalOf(c), RemoteHead)
  BY <1>1, IdleType, FitsFresh DEF Outcomes
<1>4. call' \in [Syncers -> Call]
      /\ \A d \in Syncers : call'[d] = call[d] \/ (d = c /\ call'[d] = Idle("none"))
  BY <1>1, <1>2, <1>3
<1>5. late' \subseteq [from: Nat, tip: History]
  BY <1>1, <1>2
<1>6. TypeOK' /\ RemoteIsOneChain'
  BY <1>1, <1>2, <1>4, <1>5 DEF TypeOK, RemoteIsOneChain
<1>7. LocalOf(c)' = LocalOf(c) /\ LocalOf(c) = local'[StoreOf[c]]
  BY <1>2 DEF LocalOf
<1>8. \A d \in Syncers : \/ call'[d] = call[d]
                         \/ Fits(call'[d], LocalOf(d)', RemoteHead')
  BY <1>2, <1>3, <1>4, <1>7
<1>9. ASSUME NEW b \in late', b \notin late
      PROVE  LateFits(b)'
  <2>1. b = batch /\ call[c].step = "batch"
    BY <1>2, <1>9
  <2>2. /\ Len(call[c].remote) < Len(call[c].tip)
        /\ IsPrefixOf(call[c].tip, LocalOf(c))
        /\ IsPrefixOf(call[c].remote, RemoteHead)
        /\ call[c].remote = Prefix(call[c].tip, Len(call[c].remote))
    BY <1>1, <2>1 DEF Fits, IsPrefixOf
  <2>3. b.from = Len(call[c].remote) /\ b.tip = call[c].tip
    BY <2>1
  <2>4. QED
    BY <1>1, <1>2, <1>7, <2>2, <2>3 DEF LateFits
<1>10. \A r \in Replicas : IsPrefixOf(local[r], local'[r])
  BY <1>1, <1>2, Reflexive
<1>11. QED
  BY <1>1, <1>2, <1>6, <1>8, <1>9, <1>10, Reflexive, InvariantKept

\* A late batch inserts all of its operations or none.
LEMMA LateBatchMoves ==
    ASSUME SyncInvariant, NEW batch \in late, LateBatch(batch)
    PROVE  \/ rows' = rows /\ RemoteHead' = RemoteHead
           \/ /\ RemoteHead' = batch.tip /\ IsPrefixOf(RemoteHead, RemoteHead')
              /\ batch.tip \in History
              /\ rows' = ChainOf(RemoteHead') /\ rows' \subseteq History \ {<<>>}
              /\ \E r \in Replicas : IsPrefixOf(batch.tip, local[r])
<1>1. batch.from \in Nat /\ batch.tip \in History /\ LateFits(batch)
  BY DEF SyncInvariant, TypeOK
<1> DEFINE operations == Segment(batch.tip, batch.from, Len(batch.tip))
<1>2. CASE ~Insertable(operations)
  <2>1. rows' = rows
    BY <1>2 DEF LateBatch
  <2>2. QED
    BY <2>1 DEF RemoteHead
<1>3. CASE Insertable(operations)
  <2>1. rows' = rows \cup operations
    BY <1>3 DEF LateBatch
  <2>2. /\ RemoteHead' = batch.tip /\ IsPrefixOf(RemoteHead, batch.tip)
        /\ rows' = ChainOf(batch.tip) /\ rows' \subseteq History \ {<<>>}
    BY <1>1, <1>3, <2>1, RowsInserted DEF LateFits
  <2>3. QED
    BY <1>1, <2>2 DEF LateFits
<1>4. QED
  BY <1>2, <1>3

LEMMA LateBatchKeeps ==
    ASSUME SyncInvariant, NEW batch \in late, LateBatch(batch)
    PROVE  SyncInvariant'
<1>1. /\ RemoteHead \in History /\ TypeOK /\ RemoteIsOneChain
      /\ local \in [Replicas -> History]
  BY DEF SyncInvariant, TypeOK
<1>2. local' = local /\ syncState' = syncState /\ call' = call /\ late' \subseteq late
  BY DEF LateBatch
<1>3. /\ RemoteHead' \in History /\ IsPrefixOf(RemoteHead, RemoteHead')
      /\ rows' = ChainOf(RemoteHead') /\ rows' \subseteq History \ {<<>>}
  BY <1>1, LateBatchMoves, Reflexive DEF TypeOK, RemoteIsOneChain
<1>4. TypeOK' /\ RemoteIsOneChain'
  BY <1>1, <1>2, <1>3 DEF TypeOK, RemoteIsOneChain
<1>5. \A r \in Replicas : IsPrefixOf(local[r], local'[r])
  BY <1>1, <1>2, Reflexive
<1>6. QED
  BY <1>2, <1>3, <1>4, <1>5, InvariantKept

LEMMA CommitKeeps ==
    ASSUME SyncInvariant, NEW r \in Replicas, NEW body \in Bodies, Commit(r, body)
    PROVE  SyncInvariant'
<1>1. /\ RemoteHead \in History /\ TypeOK /\ RemoteIsOneChain
      /\ local \in [Replicas -> History]
  BY DEF SyncInvariant, TypeOK
<1>2. /\ rows' = rows /\ late' = late /\ syncState' = syncState /\ call' = call
      /\ local' = [local EXCEPT ![r] = Append(local[r], body)]
      /\ RemoteHead' = RemoteHead
  BY DEF Commit, RemoteHead
<1>3. Append(local[r], body) \in History /\ IsPrefixOf(local[r], Append(local[r], body))
  BY <1>1, ExtensionByAppend DEF History
<1>4. local' \in [Replicas -> History]
  BY <1>1, <1>2, <1>3
<1>5. TypeOK' /\ RemoteIsOneChain'
  BY <1>1, <1>2, <1>4 DEF TypeOK, RemoteIsOneChain
<1>6. \A s \in Replicas : IsPrefixOf(local[s], local'[s])
  BY <1>1, <1>2, <1>3, Reflexive
<1>7. QED
  BY <1>1, <1>2, <1>5, <1>6, Reflexive, InvariantKept

-----------------------------------------------------------------------------
(* The invariant.                                                          *)

LEMMA InitiallyConsistent == Init => SyncInvariant
<1> SUFFICES ASSUME Init PROVE SyncInvariant
  OBVIOUS
<1>1. /\ local = [r \in Replicas |-> <<>>] /\ rows = {} /\ late = {}
      /\ syncState = [r \in Replicas |-> None]
      /\ call = [c \in Syncers |-> Idle("none")]
  BY DEF Init
<1>2. RemoteHead = <<>> /\ RemoteHead \in History
  BY <1>1, EmptyIsHistory DEF RemoteHead
<1>3. Idle("none") \in Call
  BY IdleType DEF Outcomes
<1>4. TypeOK
  BY <1>1, <1>3, EmptyIsHistory DEF TypeOK
<1>5. RemoteIsOneChain
  <2>1. 1..Len(<<>>) = {}
    BY EmptyIsHistory
  <2>2. ChainOf(<<>>) = {}
    BY <2>1 DEF ChainOf
  <2>3. QED
    BY <1>1, <1>2, <2>2 DEF RemoteIsOneChain
<1>6. RecordedIsCommon
  BY <1>1 DEF RecordedIsCommon
<1>7. ASSUME NEW c \in Syncers
      PROVE  Fits(call[c], LocalOf(c), RemoteHead)
  <2>1. LocalOf(c) \in History
    BY <1>1, SyncAssumption, EmptyIsHistory DEF LocalOf
  <2>2. call[c] = Idle("none")
    BY <1>1
  <2>3. QED
    BY <1>2, <2>1, <2>2, IdleType, FitsFresh DEF Outcomes
<1>8. QED
  BY <1>1, <1>2, <1>4, <1>5, <1>6, <1>7 DEF SyncInvariant

LEMMA StutterKeeps == SyncInvariant /\ UNCHANGED vars => SyncInvariant'
<1> SUFFICES ASSUME SyncInvariant, UNCHANGED vars PROVE SyncInvariant'
  OBVIOUS
<1>1. /\ local' = local /\ rows' = rows /\ late' = late
      /\ syncState' = syncState /\ call' = call /\ RemoteHead' = RemoteHead
  BY DEF vars, RemoteHead
<1>2. TypeOK' /\ RemoteIsOneChain' /\ RemoteHead' \in History
  BY <1>1 DEF SyncInvariant, TypeOK, RemoteIsOneChain
<1>3. /\ \A r \in Replicas : IsPrefixOf(local[r], local'[r])
      /\ IsPrefixOf(RemoteHead, RemoteHead')
  BY <1>1, Reflexive DEF SyncInvariant, TypeOK
<1>4. QED
  BY <1>1, <1>2, <1>3, InvariantKept

LEMMA StepKeeps == SyncInvariant /\ [Next]_vars => SyncInvariant'
<1> SUFFICES ASSUME SyncInvariant, [Next]_vars PROVE SyncInvariant'
  OBVIOUS
<1>1. ASSUME NEW c \in Syncers, CallStep(c) PROVE SyncInvariant'
  <2>1. CASE Begin(c)
    BY <2>1, BeginKeeps
  <2>2. CASE ReadRemote(c)
    BY <2>2, ReadRemoteKeeps
  <2>3. CASE Settled(c)
    BY <2>3, SettledKeeps
  <2>4. CASE StartPull(c)
    BY <2>4, StartPullKeeps
  <2>5. CASE StartPush(c)
    BY <2>5, StartPushKeeps
  <2>6. CASE ServePull(c)
    BY <2>6, ServePullKeeps
  <2>7. CASE Import(c)
    BY <2>7, ImportKeeps
  <2>8. CASE ServePushHead(c)
    BY <2>8, ServePushHeadKeeps
  <2>9. CASE ServeCompare(c)
    BY <2>9, ServeCompareKeeps
  <2>10. CASE ServeBatch(c)
    BY <2>10, ServeBatchKeeps
  <2>11. CASE AfterTransfer(c)
    BY <2>11, AfterTransferKeeps
  <2>12. CASE ReadConfirmation(c)
    BY <2>12, ReadConfirmationKeeps
  <2>13. CASE CheckConfirmation(c)
    BY <2>13, CheckConfirmationKeeps
  <2>14. CASE Settle(c)
    BY <2>14, SettleKeeps
  <2>15. CASE Lost(c)
    BY <2>15, LostKeeps
  <2>16. CASE \/ EqualHeadsConflict(c) \/ ChangesSinceFails(c)
              \/ PullConflict(c) \/ ImportFails(c) \/ BatchRefused(c)
    BY <2>16, RefusalsKeep
  <2>17. QED
    BY <1>1, <2>1, <2>2, <2>3, <2>4, <2>5, <2>6, <2>7, <2>8, <2>9, <2>10,
       <2>11, <2>12, <2>13, <2>14, <2>15, <2>16 DEF CallStep, Proceed
<1>2. ASSUME NEW batch \in late, LateBatch(batch) PROVE SyncInvariant'
  BY <1>2, LateBatchKeeps
<1>3. ASSUME NEW r \in Replicas, NEW body \in Bodies, Commit(r, body)
      PROVE  SyncInvariant'
  BY <1>3, CommitKeeps
<1>4. CASE UNCHANGED vars
  BY <1>4, StutterKeeps
<1>5. QED
  BY <1>1, <1>2, <1>3, <1>4 DEF Next, Elsewhere

\* Calls, rows, stores and recorded heads agree at all times, for any number
\* of stores, calls, bodies, batch sizes and rounds, and any commits.
THEOREM AlwaysConsistent == Spec => []SyncInvariant
<1>1. Init => SyncInvariant
  BY InitiallyConsistent
<1>2. SyncInvariant /\ [Next]_vars => SyncInvariant'
  BY StepKeeps
<1>3. QED
  BY <1>1, <1>2, PTL DEF Spec

\* Every variable keeps its type: no call exceeds the round limit.
THEOREM AlwaysTyped == Spec => []TypeOK
<1>1. SyncInvariant => TypeOK
  BY DEF SyncInvariant
<1>2. QED
  BY <1>1, AlwaysConsistent, PTL

\* Nothing guards a push but the primary key, and the rows of the remote are
\* nevertheless the prefixes of one history at all times.
THEOREM AlwaysOneChain == Spec => []RemoteIsOneChain
<1>1. SyncInvariant => RemoteIsOneChain
  BY DEF SyncInvariant
<1>2. QED
  BY <1>1, AlwaysConsistent, PTL

\* The head oh_sync_state records is and stays common to both sides.
THEOREM AlwaysCommon == Spec => []RecordedIsCommon
<1>1. SyncInvariant => RecordedIsCommon
  BY DEF SyncInvariant
<1>2. QED
  BY <1>1, AlwaysConsistent, PTL

\* A confirmed transfer names a moment at which both sides were at one head.
THEOREM AlwaysConfirmedTogether == Spec => []ConfirmedTogether
<1>1. SyncInvariant => ConfirmedTogether
  <2> SUFFICES ASSUME SyncInvariant, NEW c \in Syncers, At(c, "check"), Confirms(c)
               PROVE  call[c].together
    BY DEF ConfirmedTogether
  <2>1. /\ Fits(call[c], LocalOf(c), RemoteHead) /\ Len(call[c].tip) \in Nat
    BY ActingCall
  <2>2. call[c].remote = call[c].tip /\ Len(LocalOf(c)) = Len(call[c].tip)
        /\ call[c].step = "check"
    BY DEF Confirms, At
  <2>3. QED
    BY <2>1, <2>2 DEF Fits
<1>2. QED
  BY <1>1, AlwaysConsistent, PTL

-----------------------------------------------------------------------------
(* Sync implements fast-forward replication.                               *)

LEMMA PrefixAgrees ==
    \A h, g : Replication!IsPrefixOf(h, g) <=> IsPrefixOf(h, g)
  BY DEF Replication!IsPrefixOf, Replication!Prefix, IsPrefixOf, Prefix

\* A store is only ever extended to a prefix of the remote, the remote only to
\* a prefix of a store; every other step leaves both as they are.
LEMMA StepReplicates ==
    SyncInvariant /\ [Next]_vars
        => [Replication!ReplicationNext]_(Replication!replicationVars)
<1> SUFFICES ASSUME SyncInvariant, [Next]_vars
             PROVE  \/ local' = local /\ RemoteHead' = RemoteHead
                    \/ \E r \in Replicas : \/ Replication!Author(r)
                                           \/ Replication!Publish(r)
                                           \/ Replication!Fetch(r)
  BY DEF Replication!ReplicationNext, Replication!replicationVars
<1>1. RemoteHead \in History /\ local \in [Replicas -> History]
  BY DEF SyncInvariant, TypeOK
<1>2. ASSUME NEW c \in Syncers, Import(c), local' # local
      PROVE  Replication!Fetch(StoreOf[c]) /\ StoreOf[c] \in Replicas
  <2>1. /\ local' = [local EXCEPT ![StoreOf[c]] = call[c].tip]
        /\ \A r \in Replicas : IsPrefixOf(local[r], local'[r])
        /\ IsPrefixOf(call[c].tip, RemoteHead)
    BY <1>2, ImportMoves
  <2>2. StoreOf[c] \in Replicas /\ RemoteHead' = RemoteHead
    BY <1>2, SyncAssumption DEF Import, RemoteHead
  <2>3. local'[StoreOf[c]] = call[c].tip
    BY <1>1, <2>1, <2>2
  <2>4. QED
    BY <2>1, <2>2, <2>3, PrefixAgrees DEF Replication!Fetch
<1>3. ASSUME NEW c \in Syncers, ServeBatch(c)
      PROVE  Replication!Publish(StoreOf[c]) /\ StoreOf[c] \in Replicas
  <2>1. /\ RemoteHead' = call[c].tip /\ IsPrefixOf(RemoteHead, RemoteHead')
        /\ IsPrefixOf(RemoteHead', LocalOf(c))
    BY <1>3, ServeBatchInserts
  <2>2. StoreOf[c] \in Replicas /\ local' = local /\ LocalOf(c) = local[StoreOf[c]]
    BY <1>3, SyncAssumption DEF ServeBatch, LocalOf
  <2>3. QED
    BY <2>1, <2>2, PrefixAgrees DEF Replication!Publish
<1>4. ASSUME NEW batch \in late, LateBatch(batch), RemoteHead' # RemoteHead
      PROVE  \E r \in Replicas : Replication!Publish(r)
  <2>1. /\ RemoteHead' = batch.tip /\ IsPrefixOf(RemoteHead, RemoteHead')
        /\ \E r \in Replicas : IsPrefixOf(batch.tip, local[r])
    BY <1>4, LateBatchMoves
  <2>2. PICK r \in Replicas : IsPrefixOf(RemoteHead', local[r])
    BY <2>1
  <2>3. local' = local
    BY <1>4 DEF LateBatch
  <2>4. Replication!Publish(r)
    BY <2>1, <2>2, <2>3, PrefixAgrees DEF Replication!Publish
  <2>5. QED
    BY <2>4
<1>5. ASSUME NEW r \in Replicas, NEW body \in Bodies, Commit(r, body)
      PROVE  Replication!Author(r)
  <2>1. rows' = rows /\ local' = [local EXCEPT ![r] = Append(local[r], body)]
    BY <1>5 DEF Commit
  <2>2. RemoteHead' = RemoteHead
    BY <2>1 DEF RemoteHead
  <2>3. QED
    BY <2>1, <2>2 DEF Replication!Author
<1>6. ASSUME NEW c \in Syncers, CallStep(c), ~Import(c), ~ServeBatch(c)
      PROVE  local' = local /\ RemoteHead' = RemoteHead
  <2> SUFFICES local' = local /\ rows' = rows
    BY DEF RemoteHead
  <2>1. CASE Begin(c) \/ Settle(c) \/ Lost(c)
    BY <2>1 DEF Begin, Settle, Lost, SidesUnchanged
  <2>2. CASE ReadRemote(c) \/ Settled(c) \/ EqualHeadsConflict(c) \/ StartPull(c)
             \/ StartPush(c) \/ ChangesSinceFails(c) \/ ServePull(c)
             \/ PullConflict(c) \/ ImportFails(c)
    BY <2>2 DEF ReadRemote, Settled, EqualHeadsConflict, StartPull, StartPush,
                ChangesSinceFails, ServePull, PullConflict, ImportFails,
                SidesUnchanged
  <2>3. CASE ServePushHead(c) \/ ServeCompare(c) \/ BatchRefused(c)
             \/ AfterTransfer(c) \/ ReadConfirmation(c) \/ CheckConfirmation(c)
    BY <2>3 DEF ServePushHead, ServeCompare, BatchRefused, AfterTransfer,
                ReadConfirmation, CheckConfirmation, SidesUnchanged
  <2>4. QED
    BY <1>6, <2>1, <2>2, <2>3 DEF CallStep, Proceed
<1>7. CASE UNCHANGED vars
  BY <1>7 DEF vars, RemoteHead
<1>8. ASSUME NEW batch \in late, LateBatch(batch)
      PROVE  local' = local
  BY <1>8 DEF LateBatch
<1>9. ASSUME NEW c \in Syncers, Import(c)
      PROVE  RemoteHead' = RemoteHead
  BY <1>9 DEF Import, RemoteHead
<1>10. QED
  BY <1>2, <1>3, <1>4, <1>5, <1>6, <1>7, <1>8, <1>9 DEF Next, Elsewhere

\* Sync is fast-forward replication.
THEOREM SyncReplicates == Spec => ImplementsReplication
<1>1. Init => Replication!ReplicationInit
  BY DEF Init, Replication!ReplicationInit, RemoteHead
<1>2. SyncInvariant /\ [Next]_vars
          => [Replication!ReplicationNext]_(Replication!replicationVars)
  BY StepReplicates
<1>3. QED
  BY <1>1, <1>2, AlwaysConsistent, PTL
  DEF Spec, ImplementsReplication, Replication!ReplicationSpec

-----------------------------------------------------------------------------
(* Calls nobody disturbs.                                                  *)

\* Where such a call stands, with its sides now at mine and head and d apart
\* when it began.  A round moves at least one operation.
Steady(k, mine, head, d) ==
    /\ k.step # "compare"
    /\ k.step \in {"head", "local", "pull", "import", "push", "batch"} =>
          /\ Distance(mine, head) = -1 <=> d = -1
          /\ d # -1 => Distance(mine, head) + k.round <= d + 1
    /\ k.step \in {"local", "pull", "import", "push", "batch"} => k.remote = head
    /\ k.step \in {"pull", "import", "push", "batch"} => k.base = mine
    /\ k.step \in {"pull", "import"} => Len(mine) < Len(head)
    /\ k.step = "after" =>
          /\ Distance(mine, head) # -1 /\ Distance(mine, head) + k.round <= d
          /\ k.base # mine => k.remote = head /\ Len(k.base) < Len(head)
          /\ k.base = mine => k.tip = head /\ Len(k.remote) <= Len(mine)
    /\ k.step \in {"confirm", "check"} => mine = head /\ k.tip = head
    /\ k.step = "check" => k.remote = head

\* The outcomes such a call may have.
Justified(outcome, d) ==
    /\ outcome \in {"refused", "constraint"} => d = -1
    /\ outcome = "rounds" => d > MaximumRounds

UndisturbedInvariant ==
    /\ SyncInvariant
    /\ disturbed \in [Syncers -> BOOLEAN]
    /\ distance \in [Syncers -> Int]
    /\ \A c \in Syncers : ~At(c, "idle") /\ ~disturbed[c] =>
          Steady(call[c], LocalOf(c), RemoteHead, distance[c])

LEMMA Apart ==
    ASSUME NEW h \in History, NEW g \in History
    PROVE  /\ Distance(h, g) \in Int /\ -1 <= Distance(h, g)
           /\ Distance(h, g) = -1 <=> ~(IsPrefixOf(h, g) \/ IsPrefixOf(g, h))
           /\ IsPrefixOf(h, g) => Distance(h, g) = Len(g) - Len(h)
           /\ IsPrefixOf(g, h) => Distance(h, g) = Len(h) - Len(g)
           /\ Distance(h, g) = 0 <=> h = g
<1>1. Len(h) \in Nat /\ Len(g) \in Nat
  BY LengthType
<1>2. /\ IsPrefixOf(h, g) => Len(h) <= Len(g)
      /\ IsPrefixOf(g, h) => Len(g) <= Len(h)
  BY DEF IsPrefixOf
<1>3. h = g <=> (IsPrefixOf(h, g) \/ IsPrefixOf(g, h)) /\ Len(h) = Len(g)
  BY <1>1, Reflexive, SameLength
<1>4. QED
  BY <1>1, <1>2, <1>3 DEF Distance

\* What the step of a call nobody disturbs does: it goes on so, or ends with
\* an outcome it may have.
Onward(c) ==
    \/ /\ call'[c].step # "idle"
       /\ Steady(call'[c], LocalOf(c)', RemoteHead', distance[c])
    \/ call'[c].step = "idle" /\ Justified(call'[c].outcome, distance[c])

\* What its step starts from.
Acting(c) ==
    /\ SyncInvariant /\ distance[c] \in Int
    /\ Steady(call[c], LocalOf(c), RemoteHead, distance[c])

LEMMA SidesStay ==
    ASSUME SidesUnchanged, NEW c \in Syncers
    PROVE  LocalOf(c)' = LocalOf(c) /\ RemoteHead' = RemoteHead
  BY DEF SidesUnchanged, LocalOf, RemoteHead

LEMMA EndsWell ==
    ASSUME NEW c \in Syncers, Acting(c), NEW outcome \in Outcomes, End(c, outcome),
           Justified(outcome, distance[c])
    PROVE  Onward(c)
<1>1. call \in [Syncers -> Call]
  BY ActingCall DEF Acting
<1>2. call'[c].step = "idle" /\ call'[c].outcome = outcome
  BY <1>1 DEF End, Idle
<1>3. QED
  BY <1>2 DEF Onward

\* Diverged sides are found out, and nothing else is refused.
LEMMA RefusalsUndisturbed ==
    ASSUME NEW c \in Syncers, Acting(c),
           \/ EqualHeadsConflict(c) \/ ChangesSinceFails(c) \/ PullConflict(c)
           \/ ImportFails(c) \/ BatchRefused(c) \/ ServeCompare(c)
    PROVE  Onward(c)
<1> DEFINE k == call[c]
           mine == LocalOf(c)
           head == RemoteHead
<1>1. /\ mine \in History /\ head \in History /\ k.tip \in History /\ k.remote \in History
      /\ Len(mine) \in Nat /\ Len(head) \in Nat /\ Len(k.tip) \in Nat /\ Len(k.base) \in Nat
      /\ Fits(k, mine, head) /\ SyncInvariant /\ Steady(k, mine, head, distance[c])
      /\ Len(k.remote) \in Nat
  BY ActingCall DEF Acting
<1> HIDE DEF k, mine, head
<1>2. CASE EqualHeadsConflict(c)
  <2>1. k.step = "local" /\ Len(mine) = Len(k.remote) /\ mine # k.remote
    BY <1>2 DEF EqualHeadsConflict, At, k, mine
  <2>2. ~IsPrefixOf(mine, head) /\ ~IsPrefixOf(head, mine)
    BY <1>1, <2>1, SameLength DEF Steady
  <2>3. distance[c] = -1
    BY <1>1, <2>1, <2>2, Apart DEF Steady
  <2>4. End(c, "refused")
    BY <1>2 DEF EqualHeadsConflict
  <2>5. QED
    BY <2>3, <2>4, EndsWell DEF Justified, Outcomes
<1>3. CASE ChangesSinceFails(c)
  <2>1. k.step = "local" /\ Len(mine) > Len(k.remote) /\ ~IsPrefixOf(k.remote, mine)
    BY <1>3 DEF ChangesSinceFails, At, k, mine
  <2>2. ~IsPrefixOf(mine, head) /\ ~IsPrefixOf(head, mine)
    BY <1>1, <2>1 DEF Steady, IsPrefixOf
  <2>3. distance[c] = -1
    BY <1>1, <2>1, <2>2, Apart DEF Steady
  <2>4. End(c, "refused")
    BY <1>3 DEF ChangesSinceFails
  <2>5. QED
    BY <2>3, <2>4, EndsWell DEF Justified, Outcomes
<1>4. CASE PullConflict(c)
  <2>1. k.step = "import" /\ ~PageExtends(c)
    BY <1>4 DEF PullConflict, At, k
  <2>2. /\ k.remote = head /\ k.base = mine /\ Len(mine) < Len(head)
        /\ IsPrefixOf(k.tip, head) /\ Len(mine) < Len(k.tip)
    BY <1>1, <2>1 DEF Steady, Fits
  <2>3. Len(k.tip) <= Len(head) /\ (Len(k.tip) = Len(head) => k.tip = head)
    BY <1>1, <2>2, SameLength DEF IsPrefixOf
  <2>4. ~IsPrefixOf(mine, k.tip)
    BY <2>1, <2>2, <2>3 DEF PageExtends, k
  <2>5. ~IsPrefixOf(mine, head)
    BY <1>1, <2>2, <2>4, Comparable
  <2>6. ~IsPrefixOf(head, mine)
    BY <1>1, <2>2 DEF IsPrefixOf
  <2>7. distance[c] = -1
    BY <1>1, <2>1, <2>5, <2>6, Apart DEF Steady
  <2>8. End(c, "refused")
    BY <1>4 DEF PullConflict
  <2>9. QED
    BY <2>7, <2>8, EndsWell DEF Justified, Outcomes
<1>5. CASE ImportFails(c)
  <2>1. k.step = "import" /\ mine # k.base
    BY <1>5 DEF ImportFails, At, k, mine
  <2>2. QED
    BY <1>1, <2>1 DEF Steady
<1>6. CASE BatchRefused(c)
  <2>1. k.step = "batch" /\ ~Insertable(Pushed(c))
    BY <1>6 DEF BatchRefused, At, k
  <2>2. k.remote = head
    BY <1>1, <2>1 DEF Steady
  <2>3. \A o \in Pushed(c) : o \in History /\ Len(head) < Len(o)
    <3>1. k.tip \in Seq(Bodies) /\ Len(k.tip) <= Len(k.tip)
      BY <1>1 DEF History
    <3>2. \A o : o \in Segment(k.tip, Len(k.remote), Len(k.tip)) =>
             o \in Seq(Bodies) /\ Len(k.remote) < Len(o)
      BY <1>1, <3>1, InSegment
    <3>3. QED
      BY <2>2, <3>2 DEF Pushed, k, History
  <2>4. \A p \in rows : Len(p) <= Len(head)
    BY <1>1, InChain DEF SyncInvariant, RemoteIsOneChain, head, IsPrefixOf
  <2>5. \A o \in Pushed(c), p \in rows : Len(o) # Len(p)
    <3>1. SUFFICES ASSUME NEW o \in Pushed(c), NEW p \in rows, Len(o) = Len(p) PROVE FALSE
      OBVIOUS
    <3>2. Len(head) < Len(o) /\ Len(o) <= Len(head)
      BY <2>3, <2>4, <3>1
    <3>3. QED
      BY <1>1, <2>3, <3>2, LengthType
  <2>6. QED
    BY <2>1, <2>5 DEF Insertable
<1>7. CASE ServeCompare(c)
  BY <1>1, <1>7 DEF ServeCompare, At, Steady, k
<1>8. QED
  BY <1>2, <1>3, <1>4, <1>5, <1>6, <1>7

\* The reads, the choice of a direction, and the page.
LEMMA ReadsUndisturbed ==
    ASSUME NEW c \in Syncers, Acting(c),
           \/ ReadRemote(c) \/ Settled(c) \/ StartPull(c) \/ StartPush(c)
           \/ ServePull(c) \/ ServePushHead(c) \/ ReadConfirmation(c)
    PROVE  Onward(c)
<1>1. /\ call[c] \in Call /\ call \in [Syncers -> Call]
      /\ Fits(call[c], LocalOf(c), RemoteHead) /\ SyncInvariant
      /\ Steady(call[c], LocalOf(c), RemoteHead, distance[c])
      /\ LocalOf(c) \in History /\ RemoteHead \in History
      /\ Len(LocalOf(c)) \in Nat /\ Len(RemoteHead) \in Nat
      /\ Len(call[c].remote) \in Nat /\ Len(call[c].tip) \in Nat
  BY ActingCall DEF Acting
<1>2. SidesUnchanged
  BY DEF ReadRemote, Settled, StartPull, StartPush, ServePull, ServePushHead,
     ReadConfirmation
<1>3. LocalOf(c)' = LocalOf(c) /\ RemoteHead' = RemoteHead
  BY <1>2, SidesStay
<1>4. SUFFICES call'[c].step # "idle" /\ Steady(call'[c], LocalOf(c), RemoteHead, distance[c])
  BY <1>3 DEF Onward
<1>5. CASE ReadRemote(c)
  BY <1>1, <1>5 DEF ReadRemote, At, Steady, Call
<1>6. CASE Settled(c)
  BY <1>1, <1>6 DEF Settled, SettleAt, Idle, At, Steady, Call
<1>7. CASE StartPull(c)
  BY <1>1, <1>7 DEF StartPull, At, Steady, Call
<1>8. CASE StartPush(c)
  <2> PICK tip :
         call' = [call EXCEPT ![c].step = "push", ![c].base = LocalOf(c), ![c].tip = tip]
    BY <1>8 DEF StartPush
  <2>1. /\ call[c].step = "local"
        /\ call'[c].step = "push" /\ call'[c].base = LocalOf(c)
        /\ call'[c].remote = call[c].remote /\ call'[c].round = call[c].round
    BY <1>1, <1>8 DEF StartPush, At, Call
  <2>2. QED
    BY <1>1, <2>1 DEF Steady
<1>9. CASE ServePull(c)
  <2> PICK tip : call' = [call EXCEPT ![c].step = "import", ![c].tip = tip]
    BY <1>9 DEF ServePull
  <2>1. /\ call[c].step = "pull"
        /\ call'[c].step = "import" /\ call'[c].base = call[c].base
        /\ call'[c].remote = call[c].remote /\ call'[c].round = call[c].round
    BY <1>1, <1>9 DEF ServePull, At, Call
  <2>2. QED
    BY <1>1, <2>1 DEF Steady
<1>10. CASE ServePushHead(c)
  <2>1. call[c].step = "push" /\ call[c].remote = RemoteHead
        /\ Len(call[c].remote) < Len(call[c].tip)
    BY <1>1, <1>10 DEF ServePushHead, At, Steady, Fits
  <2>2. Go(c, "batch")
    BY <1>1, <1>10, <2>1 DEF ServePushHead
  <2>3. QED
    BY <1>1, <2>1, <2>2 DEF Go, Steady, Call
<1>11. CASE ReadConfirmation(c)
  BY <1>1, <1>11 DEF ReadConfirmation, At, Steady, Call
<1>12. QED
  BY <1>5, <1>6, <1>7, <1>8, <1>9, <1>10, <1>11

\* A page moves the store towards the remote.
LEMMA ImportUndisturbed ==
    ASSUME NEW c \in Syncers, Acting(c), Import(c)
    PROVE  Onward(c)
<1> DEFINE k == call[c]
           mine == LocalOf(c)
           head == RemoteHead
           d == distance[c]
<1>1. /\ k \in Call /\ call \in [Syncers -> Call] /\ StoreOf[c] \in Replicas
      /\ mine \in History /\ head \in History /\ k.tip \in History
      /\ Len(mine) \in Nat /\ Len(head) \in Nat /\ Len(k.tip) \in Nat
      /\ Fits(k, mine, head) /\ Steady(k, mine, head, d) /\ d \in Int
      /\ local \in [Replicas -> History] /\ k.round \in 0..MaximumRounds
  BY ActingCall, CallType DEF Acting, SyncInvariant, TypeOK
<1>2. k.step = "import" /\ PageExtends(c)
  BY DEF Import, At
<1>3. /\ k.remote = head /\ k.base = mine /\ Len(mine) < Len(k.tip)
      /\ Len(mine) < Len(head) /\ IsPrefixOf(k.tip, head)
      /\ Distance(mine, head) = -1 <=> d = -1
      /\ d # -1 => Distance(mine, head) + k.round <= d + 1
  BY <1>1, <1>2 DEF Steady, Fits
<1>4. local' = [local EXCEPT ![StoreOf[c]] = k.tip] /\ rows' = rows /\ Go(c, "after")
  BY <1>3 DEF Import
<1>5. LocalOf(c)' = k.tip /\ RemoteHead' = head
  BY <1>1, <1>4 DEF LocalOf, RemoteHead
<1>6. /\ call'[c].step = "after" /\ call'[c].base = mine /\ call'[c].remote = head
      /\ call'[c].round = k.round
  BY <1>1, <1>3, <1>4 DEF Go, Call
<1> HIDE DEF k, mine, head, d
<1>7. IsPrefixOf(mine, k.tip)
  BY <1>2, <1>3 DEF PageExtends, k
<1>8. IsPrefixOf(mine, head)
  BY <1>1, <1>3, <1>7, Transitive
<1>9. /\ Distance(mine, head) = Len(head) - Len(mine)
      /\ Distance(k.tip, head) = Len(head) - Len(k.tip)
  BY <1>1, <1>3, <1>8, Apart
<1>10. k.round \in Nat
  BY <1>1, SyncAssumption
<1>11. /\ Distance(k.tip, head) # -1 /\ Distance(k.tip, head) + k.round <= d
  <2>1. Len(k.tip) <= Len(head)
    BY <1>3 DEF IsPrefixOf
  <2>2. QED
    BY <1>1, <1>3, <1>9, <1>10, <2>1
<1>12. mine # k.tip
  BY <1>1, <1>3
<1>13. Steady(call'[c], k.tip, head, d)
  BY <1>3, <1>6, <1>11, <1>12 DEF Steady
<1>14. QED
  BY <1>5, <1>6, <1>13 DEF Onward, d

\* A batch moves the remote towards the store.
LEMMA ServeBatchUndisturbed ==
    ASSUME NEW c \in Syncers, Acting(c), ServeBatch(c)
    PROVE  Onward(c)
<1> DEFINE k == call[c]
           mine == LocalOf(c)
           head == RemoteHead
           d == distance[c]
<1>1. /\ k \in Call /\ call \in [Syncers -> Call]
      /\ mine \in History /\ head \in History /\ k.tip \in History
      /\ Len(mine) \in Nat /\ Len(head) \in Nat /\ Len(k.tip) \in Nat
      /\ Fits(k, mine, head) /\ Steady(k, mine, head, d) /\ d \in Int
      /\ k.round \in 0..MaximumRounds /\ SyncInvariant
  BY ActingCall, CallType DEF Acting
<1>2. k.step = "batch" /\ Go(c, "after") /\ LocalOf(c)' = mine
  BY DEF ServeBatch, At, LocalOf
<1>3. RemoteHead' = k.tip
  BY <1>1, ServeBatchInserts
<1>4. /\ k.remote = head /\ k.base = mine
      /\ Len(head) < Len(k.tip) /\ IsPrefixOf(head, k.tip) /\ IsPrefixOf(k.tip, mine)
      /\ Distance(mine, head) = -1 <=> d = -1
      /\ d # -1 => Distance(mine, head) + k.round <= d + 1
  BY <1>1, <1>2 DEF Steady, Fits
<1>5. /\ call'[c].step = "after" /\ call'[c].base = mine /\ call'[c].remote = head
      /\ call'[c].tip = k.tip /\ call'[c].round = k.round
  BY <1>1, <1>2, <1>4 DEF Go, Call
<1> HIDE DEF k, mine, head, d
<1>6. IsPrefixOf(head, mine)
  BY <1>1, <1>4, Transitive
<1>7. /\ Distance(mine, head) = Len(mine) - Len(head)
      /\ Distance(mine, k.tip) = Len(mine) - Len(k.tip)
  BY <1>1, <1>4, <1>6, Apart
<1>8. k.round \in Nat
  BY <1>1, SyncAssumption
<1>9. Distance(mine, k.tip) # -1 /\ Distance(mine, k.tip) + k.round <= d
  <2>1. Len(k.tip) <= Len(mine)
    BY <1>4 DEF IsPrefixOf
  <2>2. QED
    BY <1>1, <1>4, <1>7, <1>8, <2>1
<1>10. Len(head) <= Len(mine)
  BY <1>6 DEF IsPrefixOf
<1>11. Steady(call'[c], mine, k.tip, d)
  BY <1>5, <1>9, <1>10 DEF Steady
<1>12. QED
  BY <1>2, <1>3, <1>5, <1>11 DEF Onward, d

\* The next round, or no more rounds: more than they could move was apart.
LEMMA NextRoundUndisturbed ==
    ASSUME NEW c \in Syncers, Acting(c), NextRound(c), SidesUnchanged,
           Distance(LocalOf(c), RemoteHead) \notin {-1, 0},
           Distance(LocalOf(c), RemoteHead) + call[c].round <= distance[c]
    PROVE  Onward(c)
<1> DEFINE apart == Distance(LocalOf(c), RemoteHead)
           d == distance[c]
<1>1. /\ call[c] \in Call /\ call \in [Syncers -> Call]
      /\ LocalOf(c) \in History /\ RemoteHead \in History /\ d \in Int
  BY ActingCall DEF Acting
<1>2. call[c].round \in Nat /\ MaximumRounds \in Nat /\ call[c].round <= MaximumRounds
  BY <1>1, CallType, SyncAssumption
<1>3. apart \in Int /\ apart >= 1 /\ apart + call[c].round <= d
  BY <1>1, Apart
<1>4. LocalOf(c)' = LocalOf(c) /\ RemoteHead' = RemoteHead
  BY SidesStay
<1> HIDE DEF apart, d
<1>5. CASE call[c].round = MaximumRounds
  <2>1. End(c, "rounds")
    BY <1>5 DEF NextRound
  <2>2. d > MaximumRounds
    BY <1>1, <1>2, <1>3, <1>5
  <2>3. QED
    BY <2>1, <2>2, EndsWell DEF Justified, Outcomes, d
<1>6. CASE call[c].round # MaximumRounds
  <2>1. call'[c].step = "head" /\ call'[c].round = call[c].round + 1
    BY <1>1, <1>6 DEF NextRound, Idle
  <2>2. apart # -1 /\ d # -1 /\ apart + (call[c].round + 1) <= d + 1
    BY <1>1, <1>2, <1>3
  <2>3. Steady(call'[c], LocalOf(c), RemoteHead, d)
    BY <2>1, <2>2 DEF Steady, apart
  <2>4. QED
    BY <1>4, <2>1, <2>3 DEF Onward, d
<1>7. QED
  BY <1>5, <1>6

\* After a transfer the sides are equal where the call stops transferring.
LEMMA AfterTransferUndisturbed ==
    ASSUME NEW c \in Syncers, Acting(c), AfterTransfer(c)
    PROVE  Onward(c)
<1> DEFINE k == call[c]
           mine == LocalOf(c)
           head == RemoteHead
<1>1. /\ k \in Call /\ call \in [Syncers -> Call]
      /\ mine \in History /\ head \in History
      /\ Len(mine) \in Nat /\ Len(head) \in Nat
      /\ Len(k.base) \in Nat /\ Len(k.remote) \in Nat
      /\ Steady(k, mine, head, distance[c]) /\ Fits(k, mine, head)
  BY ActingCall DEF Acting
<1>2. k.step = "after" /\ SidesUnchanged
  BY DEF AfterTransfer, At
<1>3. /\ Distance(mine, head) # -1 /\ Distance(mine, head) + k.round <= distance[c]
      /\ k.base # mine => k.remote = head /\ Len(k.base) < Len(head)
      /\ k.base = mine => k.tip = head /\ Len(k.remote) <= Len(mine)
  BY <1>1, <1>2 DEF Steady
<1>4. Target(c) = head
  BY <1>1, <1>3 DEF Target
<1>5. CASE mine = head
  <2>1. ConfirmAt(c, head)
    BY <1>4, <1>5 DEF AfterTransfer
  <2>2. call'[c].step = "confirm" /\ call'[c].tip = head
    BY <1>1, <2>1 DEF ConfirmAt, Idle
  <2>3. LocalOf(c)' = mine /\ RemoteHead' = head
    BY <1>2, SidesStay
  <2> HIDE DEF mine, head
  <2>4. Steady(call'[c], mine, head, distance[c])
    BY <1>5, <2>2 DEF Steady
  <2>5. QED
    BY <2>2, <2>3, <2>4 DEF Onward
<1>6. CASE mine # head
  <2>1. NextRound(c)
    BY <1>4, <1>6 DEF AfterTransfer
  <2>2. Distance(mine, head) # 0
    BY <1>1, <1>6, Apart
  <2>3. QED
    BY <1>2, <1>3, <2>1, <2>2, NextRoundUndisturbed
<1>7. QED
  BY <1>5, <1>6

\* A confirmation nobody disturbs succeeds.
LEMMA EndingsUndisturbed ==
    ASSUME NEW c \in Syncers, Acting(c),
           CheckConfirmation(c) \/ Settle(c) \/ Lost(c)
    PROVE  Onward(c)
<1>1. /\ call[c] \in Call /\ call \in [Syncers -> Call]
      /\ Steady(call[c], LocalOf(c), RemoteHead, distance[c])
  BY ActingCall DEF Acting
<1>2. CASE CheckConfirmation(c)
  <2>1. SidesUnchanged /\ SettleAt(c, call[c].tip)
    BY <1>1, <1>2 DEF CheckConfirmation, Confirms, Steady, At
  <2>2. call'[c].step = "settle"
    BY <1>1, <2>1 DEF SettleAt, Idle
  <2>3. QED
    BY <2>2 DEF Onward, Steady
<1>3. CASE Settle(c) \/ Lost(c)
  <2>1. End(c, "none")
    BY <1>3 DEF Settle, Lost
  <2>2. QED
    BY <2>1, EndsWell DEF Justified, Outcomes
<1>4. QED
  BY <1>2, <1>3

LEMMA BeginUndisturbed ==
    ASSUME SyncInvariant, NEW c \in Syncers, Begin(c)
    PROVE  /\ call'[c].step # "idle"
           /\ Steady(call'[c], LocalOf(c)', RemoteHead', Distance(LocalOf(c), RemoteHead))
<1>1. call \in [Syncers -> Call] /\ LocalOf(c) \in History /\ RemoteHead \in History
  BY ActingCall
<1>2. call'[c].step = "head" /\ call'[c].round = 1
  BY <1>1 DEF Begin, Idle
<1>3. LocalOf(c)' = LocalOf(c) /\ RemoteHead' = RemoteHead
  BY SidesStay DEF Begin
<1>4. Distance(LocalOf(c), RemoteHead) \in Int
  BY <1>1, Apart
<1>5. QED
  BY <1>2, <1>3, <1>4 DEF Steady

LEMMA ProceedsUndisturbed ==
    ASSUME NEW c \in Syncers, Acting(c), ~At(c, "idle"), CallStep(c)
    PROVE  Onward(c)
<1>1. Proceed(c) \/ Lost(c)
  BY DEF CallStep, Begin
<1>2. CASE \/ ReadRemote(c) \/ Settled(c) \/ StartPull(c) \/ StartPush(c)
           \/ ServePull(c) \/ ServePushHead(c) \/ ReadConfirmation(c)
  BY <1>2, ReadsUndisturbed
<1>3. CASE \/ EqualHeadsConflict(c) \/ ChangesSinceFails(c) \/ PullConflict(c)
           \/ ImportFails(c) \/ BatchRefused(c) \/ ServeCompare(c)
  BY <1>3, RefusalsUndisturbed
<1>4. CASE Import(c)
  BY <1>4, ImportUndisturbed
<1>5. CASE ServeBatch(c)
  BY <1>5, ServeBatchUndisturbed
<1>6. CASE AfterTransfer(c)
  BY <1>6, AfterTransferUndisturbed
<1>7. CASE CheckConfirmation(c) \/ Settle(c) \/ Lost(c)
  BY <1>7, EndingsUndisturbed
<1>8. QED
  BY <1>1, <1>2, <1>3, <1>4, <1>5, <1>6, <1>7 DEF Proceed

\* A call stands where it stood while neither side moves.
LEMMA ElsewhereUndisturbed ==
    ASSUME UndisturbedInvariant, NEW c \in Syncers, NEW actors, c \notin actors,
           Track(actors), call'[c] = call[c], ~At(c, "idle")', ~disturbed'[c]
    PROVE  Steady(call[c], LocalOf(c), RemoteHead, distance[c])' /\ ~disturbed[c]
<1>1. /\ ~At(c, "idle") /\ ~disturbed[c] /\ local'[StoreOf[c]] = LocalOf(c) /\ rows' = rows
  BY DEF Track, At
<1>2. distance'[c] = distance[c]
  BY <1>1 DEF Track, At
<1>3. LocalOf(c)' = LocalOf(c) /\ RemoteHead' = RemoteHead
  BY <1>1 DEF LocalOf, RemoteHead
<1>4. QED
  BY <1>1, <1>2, <1>3 DEF UndisturbedInvariant

\* A step of one call moves no other; an idle call only begins.
LEMMA OneCallSteps ==
    ASSUME SyncInvariant, NEW c \in Syncers, CallStep(c), NEW d \in Syncers, d # c
    PROVE  call'[d] = call[d]
<1>1. call \in [Syncers -> Call]
  BY ActingCall
<1>2. \A k : call' = [call EXCEPT ![c] = k] => call'[d] = call[d]
  BY <1>1
<1>3. \E k : call' = [call EXCEPT ![c] = k]
  <2>1. CASE Begin(c) \/ ReadRemote(c) \/ StartPull(c)
    BY <1>1, <2>1 DEF Begin, ReadRemote, StartPull
  <2>2. CASE Settled(c) \/ AfterTransfer(c) \/ CheckConfirmation(c)
    BY <1>1, <2>2 DEF Settled, AfterTransfer, CheckConfirmation, SettleAt, ConfirmAt,
       NextRound, End
  <2>3. CASE \/ EqualHeadsConflict(c) \/ ChangesSinceFails(c) \/ PullConflict(c)
             \/ ImportFails(c) \/ BatchRefused(c) \/ Settle(c) \/ Lost(c)
    BY <2>3 DEF EqualHeadsConflict, ChangesSinceFails, PullConflict, ImportFails,
       BatchRefused, Settle, Lost, End
  <2>4. CASE Import(c) \/ ServePushHead(c) \/ ServeCompare(c) \/ ServeBatch(c)
    BY <2>4 DEF Import, ServePushHead, ServeCompare, ServeBatch, Go, End
  <2>5. CASE StartPush(c)
    BY <2>5 DEF StartPush
  <2>6. CASE ServePull(c)
    BY <2>6 DEF ServePull
  <2>7. CASE ReadConfirmation(c)
    BY <2>7 DEF ReadConfirmation
  <2>8. QED
    BY <2>1, <2>2, <2>3, <2>4, <2>5, <2>6, <2>7 DEF CallStep, Proceed
<1>4. QED
  BY <1>2, <1>3

LEMMA IdleBegins ==
    ASSUME NEW c \in Syncers, CallStep(c), At(c, "idle")
    PROVE  Begin(c)
  BY DEF CallStep, Proceed, At, ReadRemote, Settled, EqualHeadsConflict, StartPull,
     StartPush, ChangesSinceFails, ServePull, PullConflict, Import, ImportFails,
     ServePushHead, ServeCompare, ServeBatch, BatchRefused, AfterTransfer,
     ReadConfirmation, CheckConfirmation, Settle, Lost

LEMMA HistoryBegins == HistoryInit => UndisturbedInvariant
<1> SUFFICES ASSUME HistoryInit PROVE UndisturbedInvariant
  OBVIOUS
<1>1. SyncInvariant
  BY InitiallyConsistent DEF HistoryInit
<1>2. \A c \in Syncers : At(c, "idle")
  BY IdleType DEF HistoryInit, Init, At, Outcomes
<1>3. QED
  BY <1>1, <1>2 DEF HistoryInit, UndisturbedInvariant

\* Every step of the actors is a step of OhSync.
LEMMA HistoryIsSync == [HistoryNext]_historyVars => [Next]_vars
  BY DEF HistoryNext, historyVars, Next, vars

LEMMA TrackTypes ==
    ASSUME SyncInvariant, SyncInvariant', distance \in [Syncers -> Int], NEW actors,
           Track(actors)
    PROVE  disturbed' \in [Syncers -> BOOLEAN] /\ distance' \in [Syncers -> Int]
<1>1. \A c \in Syncers : Distance(LocalOf(c), RemoteHead) \in Int
  BY ActingCall, Apart
<1>2. disturbed' \in [Syncers -> BOOLEAN]
  BY Zenon DEF Track
<1>3. distance' \in [Syncers -> Int]
  BY <1>1 DEF Track
<1>4. QED
  BY <1>2, <1>3

LEMMA HistoryStep == UndisturbedInvariant /\ [HistoryNext]_historyVars => UndisturbedInvariant'
<1> SUFFICES ASSUME UndisturbedInvariant, [HistoryNext]_historyVars
             PROVE  UndisturbedInvariant'
  OBVIOUS
<1>1. SyncInvariant /\ SyncInvariant'
  BY HistoryIsSync, StepKeeps DEF UndisturbedInvariant
<1>2. ASSUME NEW c \in Syncers, CallStep(c), Track({c})
      PROVE  UndisturbedInvariant'
  <2>1. disturbed' \in [Syncers -> BOOLEAN] /\ distance' \in [Syncers -> Int]
    BY <1>1, <1>2, TrackTypes DEF UndisturbedInvariant
  <2>2. \A d \in Syncers : d # c => call'[d] = call[d]
    BY <1>1, <1>2, OneCallSteps
  <2>3. ASSUME NEW d \in Syncers, d # c, ~At(d, "idle")', ~disturbed'[d]
        PROVE  Steady(call[d], LocalOf(d), RemoteHead, distance[d])'
    BY <1>2, <2>2, <2>3, ElsewhereUndisturbed
  <2>4. ASSUME ~At(c, "idle")', ~disturbed'[c]
        PROVE  Steady(call[c], LocalOf(c), RemoteHead, distance[c])'
    <3>1. CASE At(c, "idle")
      <4>1. Begin(c)
        BY <1>1, <1>2, <3>1, IdleBegins
      <4>2. distance'[c] = Distance(LocalOf(c), RemoteHead)
        BY <1>2, <2>4, <3>1 DEF Track, At
      <4>3. QED
        BY <1>1, <4>1, <4>2, BeginUndisturbed
    <3>2. CASE ~At(c, "idle")
      <4>1. ~disturbed[c] /\ distance'[c] = distance[c]
        BY <1>2, <2>4, <3>2 DEF Track, At
      <4>2. Acting(c)
        BY <3>2, <4>1 DEF Acting, UndisturbedInvariant
      <4>3. Onward(c) /\ call'[c].step # "idle"
        BY <1>2, <2>4, <3>2, <4>2, ProceedsUndisturbed DEF At
      <4>4. QED
        BY <4>1, <4>3 DEF Onward
    <3>3. QED
      BY <3>1, <3>2
  <2>5. QED
    BY <1>1, <2>1, <2>3, <2>4 DEF UndisturbedInvariant
<1>3. ASSUME Elsewhere, Track({})
      PROVE  UndisturbedInvariant'
  <2>1. disturbed' \in [Syncers -> BOOLEAN] /\ distance' \in [Syncers -> Int]
    BY <1>1, <1>3, TrackTypes DEF UndisturbedInvariant
  <2>2. call' = call
    BY <1>3 DEF Elsewhere, LateBatch, Commit
  <2>3. ASSUME NEW d \in Syncers, ~At(d, "idle")', ~disturbed'[d]
        PROVE  Steady(call[d], LocalOf(d), RemoteHead, distance[d])'
    BY <1>3, <2>2, <2>3, ElsewhereUndisturbed
  <2>4. QED
    BY <1>1, <2>1, <2>3 DEF UndisturbedInvariant
<1>4. CASE UNCHANGED historyVars
  BY <1>1, <1>4 DEF historyVars, UndisturbedInvariant, At, LocalOf, RemoteHead
<1>5. QED
  BY <1>2, <1>3, <1>4 DEF HistoryNext

\* What a call nobody disturbs relies on holds in every state.
THEOREM UndisturbedConsistent == HistorySpec => []UndisturbedInvariant
  BY HistoryBegins, HistoryStep, PTL DEF HistorySpec

\* How a call nobody disturbed ends.
LEMMA EndsJustified ==
    ASSUME UndisturbedInvariant, [HistoryNext]_historyVars, NEW c \in Syncers,
           ~At(c, "idle"), call'[c].step = "idle", ~disturbed[c]
    PROVE  Justified(call'[c].outcome, distance[c])
<1>1. SyncInvariant
  BY DEF UndisturbedInvariant
<1>2. call'[c] # call[c]
  BY DEF At
<1>3. CallStep(c)
  BY <1>1, <1>2, OneCallSteps DEF HistoryNext, historyVars, Elsewhere, LateBatch, Commit
<1>4. Acting(c)
  BY DEF Acting, UndisturbedInvariant
<1>5. QED
  BY <1>3, <1>4, ProceedsUndisturbed DEF Onward

\* Callers need no spare round: a call nobody disturbs runs out of rounds only
\* where more operations were apart than it has rounds.
THEOREM NoRoundIsSpare == HistorySpec => NoSpareRound
<1>1. UndisturbedInvariant /\ [HistoryNext]_historyVars =>
         [\A c \in Syncers : EndsUndisturbed(c, {"rounds"})
             => distance[c] > MaximumRounds]_historyVars
  BY EndsJustified DEF EndsUndisturbed, Justified
<1>2. QED
  BY <1>1, UndisturbedConsistent, PTL DEF HistorySpec, NoSpareRound

\* A call nobody disturbs is refused only where the histories have diverged.
THEOREM OnlyDivergedIsRefused == HistorySpec => RefusedOnlyIfDiverged
<1>1. UndisturbedInvariant /\ [HistoryNext]_historyVars =>
         [\A c \in Syncers : EndsUndisturbed(c, {"refused", "constraint"})
             => distance[c] = -1]_historyVars
  BY EndsJustified DEF EndsUndisturbed, Justified
<1>2. QED
  BY <1>1, UndisturbedConsistent, PTL DEF HistorySpec, RefusedOnlyIfDiverged
=============================================================================
