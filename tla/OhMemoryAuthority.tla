--------------------------- MODULE OhMemoryAuthority ---------------------------
(***************************************************************************)
(* The memory authority: host calls that move the canonical pin of an      *)
(* agent and adopt nominated working records into canonical memory         *)
(* (src/src/memory-authority-program.ts).                                  *)
(*                                                                         *)
(* An authority is one running host process.  Its host calls take turns on *)
(* one permit; its agent reads canonical memory at pin.  The canonical     *)
(* store is shared: other authorities adopt into it and other writers      *)
(* commit to it between any two answers a call waits for.  A head is the   *)
(* history it closes (OhHistory), so a descendant is an extension; a body  *)
(* keeps the nomination it adopts, which with the parent determines the    *)
(* operation identifier, and the snapshot after it.  Records are reduced   *)
(* to one value per key.                                                   *)
(***************************************************************************)
EXTENDS OhHistory, FiniteSets

CONSTANTS Authorities,   \* running host processes of one memory
          Calls,         \* their concurrent host calls
          AuthorityOf,   \* AuthorityOf[c]: the authority call c is made on
          Keys, Values,  \* record keys and contents
          Absent,        \* marks a key without a record
          Nominations,   \* nominations hosts submit
          Nominated,     \* Nominated[x]: the records of the closure of x
          Exported,      \* nominations the working store did export
          Claims,        \* replacement claims hosts submit: the record of each key
          Writes,        \* snapshots other writers may commit
          Capacity,      \* OH_MEMORY_LIMITS_V1.maximumRecordsPerLane
          PageLimit,     \* canonicalChangeFeedPage
          MaxPages,      \* canonicalAdvancePages
          MaxOperations, \* canonicalAdvanceOperations
          MaxSequence,   \* bound on the canonical history
          MaxLate,       \* bound on commits that land after their call failed
          None           \* null

Snapshot == [Keys -> Values \cup {Absent}]

Body == [adopts: Nominations \cup {None}, records: Snapshot]

History == Seq(Body)

ASSUME AuthorityAssumption ==
    /\ AuthorityOf \in [Calls -> Authorities]
    /\ Absent \notin Values
    /\ None \notin Nominations \cup History
    /\ Exported \subseteq Nominations
    /\ \A x \in Nominations :
          /\ DOMAIN Nominated[x] \in (SUBSET Keys) \ {{}}
          /\ Nominated[x] \in [DOMAIN Nominated[x] -> Values]
    /\ Claims \subseteq UNION {[K -> Values] : K \in SUBSET Keys}
    /\ Writes \subseteq Snapshot
    /\ {Capacity, PageLimit, MaxPages, MaxOperations, MaxSequence, MaxLate} \subseteq Nat

VARIABLES canonical, \* the history of the canonical store
          pin,       \* activeCanonicalHead of each authority
          call,      \* where each host call stands
          late       \* adoptions whose caller was told they failed, not yet executed

vars == <<canonical, pin, call, late>>

-----------------------------------------------------------------------------
(* Records and reviews.                                                    *)

NoRecords == [k \in Keys |-> Absent]

RecordsAt(head) == IF head = <<>> THEN NoRecords ELSE head[Len(head)].records

\* adoptionDifferences: the nominated keys whose record is not the nominated one.
Differences(records, x) ==
    {k \in DOMAIN Nominated[x] : records[k] # Nominated[x][k]}

\* unauthorizedAdoptionDifferences: a key without a record takes no claim, a
\* different record is replaced only under a claim of exactly that record.
Unauthorized_AnyClaim(reviewed, x, claims) ==
    {k \in DOMAIN Nominated[x] :
        ~ \/ reviewed[k] = Absent /\ k \notin DOMAIN claims
          \/ reviewed[k] = Nominated[x][k] /\ k \notin DOMAIN claims
          \/ reviewed[k] # Absent /\ k \in DOMAIN claims}

Unauthorized(reviewed, x, claims) ==
    {k \in DOMAIN Nominated[x] :
        ~ \/ reviewed[k] = Absent /\ k \notin DOMAIN claims
          \/ reviewed[k] = Nominated[x][k] /\ k \notin DOMAIN claims
          \/ reviewed[k] # Absent /\ k \in DOMAIN claims /\ claims[k] = reviewed[k]}

Adoption(head, x) ==
    [adopts |-> x,
     records |-> [k \in Keys |-> IF k \in DOMAIN Nominated[x]
                                 THEN Nominated[x][k] ELSE RecordsAt(head)[k]]]

\* assertAdoptionSnapshotCapacity: the record bound.
Fits(records) == Cardinality({k \in Keys : records[k] # Absent}) <= Capacity

-----------------------------------------------------------------------------
(* Requests and the state of a call.                                       *)

Advances(heads) == [kind: {"advance"}, expected: heads, next: heads]

\* A claim names a nominated key.
Adoptions(heads) ==
    {request \in [kind: {"adopt"}, expected: heads, nomination: Nominations, claims: Claims] :
        DOMAIN request.claims \subseteq DOMAIN Nominated[request.nomination]}

Steps == {"idle", "queued", "export", "head", "lane", "prove", "check", "commit",
          "landed", "lost", "install"}

Receipt == [status: {"unchanged", "advanced", "adopted", "already-present"},
            nomination: Nominations \cup {None}, prior: History, head: History]

Idle(receipt) ==
    [step |-> "idle", request |-> None, prior |-> <<>>, target |-> <<>>, cursor |-> 0,
     pages |-> 0, tried |-> FALSE, operation |-> None, receipt |-> receipt]

Call ==
    [step: Steps,
     request: Advances(History) \cup Adoptions(History) \cup {None},
     prior: History,                  \* the pin it began from
     target: History,                 \* the head it proves, checks and installs
     cursor: Nat, pages: Nat,         \* how far the proof has come
     tried: BOOLEAN,                  \* the commit was answered
     operation: History \cup {None},  \* the adoption that answer names
     receipt: Receipt \cup {None}]    \* of a call that has ended

TypeOK ==
    /\ canonical \in History
    /\ pin \in [Authorities -> History]
    /\ call \in [Calls -> Call]
    /\ late \subseteq Adoptions(History)

\* Every host pins a head its canonical store has.
Init ==
    /\ canonical = <<>>
    /\ pin = [a \in Authorities |-> <<>>]
    /\ call = [c \in Calls |-> Idle(None)]
    /\ late = {}

At(c, step) == call[c].step = step

PinOf(c) == pin[AuthorityOf[c]]

X(c) == call[c].request.nomination

Go(c, step) == call' = [call EXCEPT ![c].step = step]

\* The call ends and gives the permit back, with a receipt or by throwing.
End(c, receipt) == call' = [call EXCEPT ![c] = Idle(receipt)]

ReceiptOf(c, status, prior, head) ==
    [status |-> status, prior |-> prior, head |-> head,
     nomination |-> IF call[c].request.kind = "adopt" THEN X(c) ELSE None]

StoresUnchanged == UNCHANGED <<canonical, late>>

-----------------------------------------------------------------------------
(* A host call is made and takes the permit.                               *)

\* The heads a host may know: those the store has had, and heads of forks.
Heads == ChainOf(canonical) \cup {<<>>}

Forks ==
    UNION {{Append(h, [adopts |-> None, records |-> w]) : w \in Writes} : h \in Heads}

Ask(c) ==
    /\ At(c, "idle")
    /\ call' = [call EXCEPT ![c] = [Idle(None) EXCEPT !.step = "queued"]]
    /\ UNCHANGED pin
    /\ StoresUnchanged

\* hostOrder.withPermits(1).
PermitFree_Always(c) == TRUE

PermitFree(c) ==
    \A d \in Calls : AuthorityOf[d] = AuthorityOf[c] => call[d].step \in {"idle", "queued"}

\* proveCanonicalDescendant, as far as it goes without waiting.
TooFar(prior, target) ==
    LET distance == Len(target) - Len(prior)
    IN  \/ distance > MaxOperations
        \/ (distance + PageLimit - 1) \div PageLimit > MaxPages

BeginProof(c, began) ==
    IF Len(began.target) <= Len(began.prior) \/ TooFar(began.prior, began.target)
    THEN End(c, None)
    ELSE call' = [call EXCEPT ![c] = [began EXCEPT !.step = "prove", !.pages = 0,
                                                   !.cursor = Len(began.prior)]]

\* Nothing looks at a request before it has the permit, so it is chosen here.
StartAdvance(c) ==
    /\ At(c, "queued") /\ PermitFree(c)
    /\ \E request \in Advances(Heads) \cup [kind: {"advance"}, expected: {PinOf(c)}, next: Forks] :
          LET began == [call[c] EXCEPT !.request = request, !.prior = PinOf(c),
                                       !.target = request.next]
          IN  IF request.expected # PinOf(c) THEN End(c, None)
              ELSE IF request.next = PinOf(c)
              THEN End(c, [status |-> "unchanged", nomination |-> None,
                           prior |-> PinOf(c), head |-> PinOf(c)])
              ELSE BeginProof(c, began)
    /\ UNCHANGED pin
    /\ StoresUnchanged

StartAdopt(c) ==
    /\ At(c, "queued") /\ PermitFree(c)
    /\ \E request \in Adoptions(Heads) :
          call' = [call EXCEPT ![c].step = "export", ![c].request = request]
    /\ UNCHANGED pin
    /\ StoresUnchanged

\* The working authority must export the nominated closure again, exactly.
Reexport(c) ==
    /\ At(c, "export")
    /\ IF X(c) \in Exported
       THEN call' = [call EXCEPT ![c].step = "head", ![c].prior = PinOf(c)]
       ELSE End(c, None)
    /\ UNCHANGED pin
    /\ StoresUnchanged

ReadHead(c) ==
    /\ At(c, "head")
    /\ IF canonical = call[c].prior
       THEN call' = [call EXCEPT ![c].step = "lane", ![c].target = canonical]
       ELSE BeginProof(c, [call[c] EXCEPT !.target = canonical])
    /\ UNCHANGED pin
    /\ StoresUnchanged

-----------------------------------------------------------------------------
(* The proof that the target descends from the pin, page by page.          *)

\* The pages are linked from the prior head to the target, and the adoption
\* that was acknowledged is the first of their operations.
Proven(c) ==
    /\ IsPrefixOf(call[c].prior, call[c].target)
    /\ IsPrefixOf(call[c].target, canonical)
    /\ call[c].operation # None =>
          call[c].operation = Prefix(call[c].target, Len(call[c].prior) + 1)

\* changesSince returns a nonempty page, short where its byte bound falls.
ProvePage(c) ==
    /\ At(c, "prove")
    /\ Proven(c)
    /\ call[c].pages < MaxPages
    /\ \E n \in 1..PageLimit :
          LET reached == call[c].cursor + n
          IN  /\ reached <= Len(call[c].target)
              /\ call' = [call EXCEPT ![c].cursor = reached, ![c].pages = @ + 1,
                    ![c].step = IF reached < Len(call[c].target) THEN "prove"
                                ELSE IF call[c].request.kind = "advance" THEN "install"
                                ELSE "check"]
    /\ UNCHANGED pin
    /\ StoresUnchanged

ProofFails(c) ==
    /\ At(c, "prove")
    /\ ~Proven(c) \/ call[c].pages = MaxPages
    /\ End(c, None)
    /\ UNCHANGED pin
    /\ StoresUnchanged

-----------------------------------------------------------------------------
(* Adoption.                                                               *)

\* replacementConflictsAt: claims are held against the head they were
\* reviewed at, whose snapshot the store still has.
ClaimsHold(c, records) ==
    \/ call[c].request.claims = <<>>
    \/ LET reviewed == IF call[c].request.expected = call[c].target THEN records
                       ELSE RecordsAt(call[c].request.expected)
       IN  Unauthorized(reviewed, X(c), call[c].request.claims) = {}

\* Whether a record of each nominated key is there.
Agrees_ByKey(records, x) == \A k \in DOMAIN Nominated[x] : records[k] # Absent

Agrees(records, x) == Differences(records, x) = {}

\* The lane at a head other writers moved to: before the commit, after it was
\* refused as a conflict, or after it landed.
CheckMoved(c) ==
    /\ At(c, "check")
    /\ LET records == RecordsAt(call[c].target)
       IN  IF /\ Agrees(records, X(c))
              /\ call[c].tried \/ ClaimsHold(c, records)
           THEN Go(c, "install")
           ELSE End(c, None)
    /\ UNCHANGED pin
    /\ StoresUnchanged

\* The lane at the pin, which is the head of the store.
CheckLane(c) ==
    /\ At(c, "lane")
    /\ LET records == RecordsAt(call[c].prior)
       IN  IF Agrees(records, X(c))
           THEN End(c, IF call[c].tried \/ ClaimsHold(c, records)
                       THEN ReceiptOf(c, "already-present", call[c].prior, call[c].target)
                       ELSE None)
           ELSE IF /\ ~call[c].tried
                   /\ call[c].request.expected = call[c].prior
                   /\ Unauthorized(records, X(c), call[c].request.claims) = {}
                   /\ Fits(Adoption(call[c].prior, X(c)).records)
           THEN Go(c, "commit")
           ELSE End(c, None)
    /\ UNCHANGED pin
    /\ StoresUnchanged

\* The store executes an adoption of x that expects the head prior.
Executes(prior, x) == canonical = prior

\* The operation identifier names the nomination and the prior head.
OperationOf(prior, x) == Append(prior, Adoption(prior, x))

Commit(c) ==
    /\ At(c, "commit")
    /\ LET operation == OperationOf(call[c].prior, X(c))
       IN  IF IsPrefixOf(operation, canonical) \* exact replay
           THEN /\ call' = [call EXCEPT ![c].step = "landed", ![c].tried = TRUE,
                                        ![c].operation = operation]
                /\ UNCHANGED canonical
           ELSE IF Executes(call[c].prior, X(c))
           THEN IF Len(canonical) < MaxSequence
                THEN /\ canonical' = Append(canonical, Adoption(canonical, X(c)))
                     /\ \/ call' = [call EXCEPT ![c].step = "landed", ![c].tried = TRUE,
                                                ![c].operation = operation]
                        \/ End(c, None) \* the answer is lost
                ELSE End(c, None) /\ UNCHANGED canonical
           ELSE /\ call' = [call EXCEPT ![c].step = "lost", ![c].tried = TRUE]
                /\ UNCHANGED canonical
    /\ UNCHANGED <<pin, late>>

\* The caller is told the commit failed while it is still on its way.
CommitTimesOut(c) ==
    /\ At(c, "commit")
    /\ Cardinality(late) < MaxLate
    /\ late' = late \cup {call[c].request}
    /\ End(c, None)
    /\ UNCHANGED <<canonical, pin>>

\* The physical head is read again after the commit was answered.
ReadHeadAfterCommit(c) ==
    /\ At(c, "landed") \/ At(c, "lost")
    /\ LET after == [call[c] EXCEPT !.target = canonical]
       IN  IF canonical = call[c].operation
           THEN call' = [call EXCEPT ![c] = [after EXCEPT !.step = "install"]]
           ELSE IF canonical = call[c].prior
           THEN call' = [call EXCEPT ![c] = [after EXCEPT !.step = "lane"]]
           ELSE BeginProof(c, after)
    /\ UNCHANGED pin
    /\ StoresUnchanged

\* installCanonicalHead: the next agent verifies the snapshot before both
\* references are replaced.
Install(c) ==
    /\ At(c, "install")
    /\ pin' = [pin EXCEPT ![AuthorityOf[c]] = call[c].target]
    /\ End(c, ReceiptOf(c, IF call[c].request.kind = "advance" THEN "advanced"
                           ELSE IF call[c].operation = call[c].target THEN "adopted"
                           ELSE "already-present", call[c].prior, call[c].target))
    /\ StoresUnchanged

\* Any answer a call waits for may be a failure; withPermits gives the permit
\* back and the pin stays.
FailEnd_KeepsPermit(c) == Go(c, "holding")

FailEnd(c) == End(c, None)

Fail(c) ==
    /\ call[c].step \notin {"idle", "queued"}
    /\ FailEnd(c)
    /\ UNCHANGED pin
    /\ StoresUnchanged

-----------------------------------------------------------------------------
(* The rest of the world.                                                  *)

Write ==
    /\ Len(canonical) < MaxSequence
    /\ \E w \in Writes : canonical' = Append(canonical, [adopts |-> None, records |-> w])
    /\ UNCHANGED <<pin, call, late>>

LateCommit ==
    /\ \E request \in late :
          /\ late' = late \ {request}
          /\ IF Executes(request.expected, request.nomination) /\ Len(canonical) < MaxSequence
             THEN canonical' = Append(canonical, Adoption(canonical, request.nomination))
             ELSE UNCHANGED canonical
    /\ UNCHANGED <<pin, call>>

\* The process ends; its host starts it again at a head the store has.
Restart(a) ==
    /\ \E head \in Heads : pin' = [pin EXCEPT ![a] = head]
    /\ call' = [c \in Calls |-> IF AuthorityOf[c] = a THEN Idle(None) ELSE call[c]]
    /\ StoresUnchanged

Proceed(c) ==
    \/ Reexport(c) \/ ReadHead(c) \/ ProvePage(c) \/ ProofFails(c) \/ CheckMoved(c)
    \/ CheckLane(c) \/ Commit(c) \/ ReadHeadAfterCommit(c) \/ Install(c)

Take(c) == StartAdvance(c) \/ StartAdopt(c)

Next ==
    \/ \E c \in Calls : Ask(c) \/ Take(c) \/ Proceed(c) \/ CommitTimesOut(c) \/ Fail(c)
    \/ \E a \in Authorities : Restart(a)
    \/ Write \/ LateCommit

Spec == Init /\ [][Next]_vars

\* Every foreign call settles, and the permit is handed on in turn.
FairSpec ==
    /\ Spec
    /\ \A c \in Calls : WF_vars(Proceed(c)) /\ SF_vars(Take(c))

-----------------------------------------------------------------------------
(* Properties.                                                             *)

Running(c) == call[c].step \notin {"idle", "queued"}

\* What a receipt says of the canonical history.
ReceiptTrue(receipt) ==
    /\ IsPrefixOf(receipt.prior, receipt.head)
    /\ IsPrefixOf(receipt.head, canonical)
    /\ receipt.nomination # None =>
          Differences(RecordsAt(receipt.head), receipt.nomination) = {}
    /\ receipt.status = "adopted" =>
          receipt.head = OperationOf(receipt.prior, receipt.nomination)

\* An adoption its host reviewed at the head it expects.
Reviewed(request) ==
    LET records == RecordsAt(request.expected)
    IN  /\ request.nomination \in Exported
        /\ Differences(records, request.nomination) # {}
        /\ Unauthorized(records, request.nomination, request.claims) = {}

CallInvariant(c) ==
    LET k == call[c]
    IN  /\ k.receipt # None => ReceiptTrue(k.receipt)
        /\ Running(c) => k.request \in Advances(History) \cup Adoptions(History)
        /\ Running(c) /\ k.step # "export" => k.prior = PinOf(c)
        /\ Running(c) /\ k.request.kind = "advance" => k.step \in {"prove", "install"}
        /\ Running(c) /\ k.request.kind = "adopt" /\ k.step # "export" => X(c) \in Exported
        /\ k.step = "export" => k.operation = None
        /\ k.step = "lane" => k.target = k.prior
        /\ k.step \in {"check", "install"} =>
              IsPrefixOf(k.prior, k.target) /\ IsPrefixOf(k.target, canonical)
        /\ k.step = "commit" => k.request.expected = k.prior /\ Reviewed(k.request)
        /\ k.step = "install" /\ k.request.kind = "adopt" =>
              Differences(RecordsAt(k.target), X(c)) = {}
        /\ k.operation # None =>
              /\ Running(c) /\ k.request.kind = "adopt"
              /\ k.operation = OperationOf(k.prior, X(c))
              /\ IsPrefixOf(k.operation, canonical)

\* The pin of an authority is a head of the canonical store, one host call at
\* a time works from it, and what a call has verified stays true while other
\* writers commit.
AuthorityInvariant ==
    /\ TypeOK
    /\ \A a \in Authorities : IsPrefixOf(pin[a], canonical)
    /\ \A c, d \in Calls :
          c # d /\ AuthorityOf[c] = AuthorityOf[d] => ~(Running(c) /\ Running(d))
    /\ \A c \in Calls : CallInvariant(c)
    /\ \A request \in late : Reviewed(request)

\* The pin of a running authority only moves forward along the history of the
\* canonical store, however its host calls, other authorities and other
\* writers interleave.
PinMovesAlongPath ==
    [][\A a \in Authorities :
          \/ pin'[a] = pin[a]
          \/ Restart(a)
          \/ IsPrefixOf(pin[a], pin'[a]) /\ IsPrefixOf(pin'[a], canonical)]_vars

\* A receipt tells the truth about the canonical history: its head descends
\* from the pin the call began with and is of that history, and the nominated
\* records are there; an adoption is the one operation between the two.
ReceiptsTrue ==
    \A c \in Calls : call[c].receipt # None => ReceiptTrue(call[c].receipt)

\* An adoption lands only on the head its host reviewed it at, changes what
\* is there, and overwrites a record only where the host claimed exactly that
\* record, also when its answer was lost or it executes late.
AdoptedAsReviewed ==
    [][canonical' # canonical =>
       LET body == canonical'[Len(canonical')]
           before == RecordsAt(canonical)
       IN  body.adopts # None =>
              /\ body.adopts \in Exported
              /\ body.records # before
              /\ \E request \in late \cup {call[c].request : c \in {d \in Calls : At(d, "commit")}} :
                    /\ request.nomination = body.adopts
                    /\ request.expected = canonical
                    /\ \A k \in Keys : body.records[k] # before[k] =>
                          \/ before[k] = Absent
                          \/ k \in DOMAIN request.claims /\ request.claims[k] = before[k]]_vars

\* Every host call is answered: no failure keeps the permit.
EveryHostCallSettles == \A c \in Calls : ~At(c, "idle") ~> At(c, "idle")
=============================================================================
