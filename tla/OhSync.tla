-------------------------------- MODULE OhSync --------------------------------
(***************************************************************************)
(* Fast-forward sync of the SQLite stores of one space with one libSQL     *)
(* remote: synchronize (src/src/sync-program.ts) over the transport of     *)
(* src/src/sync-libsql-program.ts.                                         *)
(*                                                                         *)
(* A syncer is a running synchronize call; several may share a store.      *)
(* Every request to the remote is served in one step and its answer is     *)
(* acted on in a later one, so commits, other syncers and late requests    *)
(* fall in between.  An operation is its history, as in OhGraph: a         *)
(* sequence of bodies whose front is its parent digest.  A local store is  *)
(* its history, which OhStore shows it to be; import is one transaction.   *)
(***************************************************************************)
EXTENDS OhHistory, FiniteSets

CONSTANTS Replicas,      \* local stores of the space
          Syncers,       \* concurrent synchronize calls
          StoreOf,       \* StoreOf[c]: the store call c borrows
          Bodies,        \* bodies of operations callers commit
          BatchSize,     \* options.batchSize
          MaximumRounds, \* options.maximumRounds
          MaxSequence,   \* bound on the length of local histories
          MaxLate,       \* bound on the batches that may execute late
          None           \* null

History == Seq(Bodies)

ASSUME SyncAssumption ==
    /\ StoreOf \in [Syncers -> Replicas]
    /\ BatchSize \in Nat \ {0}
    /\ MaximumRounds \in Nat \ {0}
    /\ MaxSequence \in Nat
    /\ MaxLate \in Nat
    /\ None \notin History

VARIABLES local,      \* local[r]: the history of store r
          rows,       \* oh_sync_operations of the space
          late,       \* batches whose sender gave up and that may yet execute
          syncState,  \* syncState[r]: the head oh_sync_state records, or None
          call        \* call[c]: where synchronize stands

vars == <<local, rows, late, syncState, call>>

-----------------------------------------------------------------------------
(* The rows of the remote.                                                 *)

\* ORDER BY sequence DESC LIMIT 1; the empty history where there is no row.
RemoteHead ==
    IF rows = {} THEN <<>>
    ELSE CHOOSE o \in rows : \A p \in rows : Len(p) <= Len(o)

\* PRIMARY KEY (space_id, sequence) and UNIQUE (operation_sha256).
Insertable(operations) ==
    \A o \in operations, p \in rows : Len(o) # Len(p)

-----------------------------------------------------------------------------
(* The state of a call.  remote and base are the two heads its round read; *)
(* tip is the last operation of the page it pulls or pushes and, once that *)
(* is transferred, the head both sides must confirm.                       *)

Steps == {"idle", "head", "local", "pull", "import", "push", "compare",
          "batch", "after", "confirm", "check", "settle"}

Outcomes == {"none", "refused", "constraint", "rounds"}

Idle(outcome) ==
    [step |-> "idle", outcome |-> outcome, round |-> 0, remote |-> <<>>,
     base |-> <<>>, tip |-> <<>>, together |-> FALSE]

Call ==
    [step: Steps,
     outcome: Outcomes,  \* of the last call: its failure, or none
     round: 0..MaximumRounds, remote: History, base: History, tip: History,
     together: BOOLEAN]  \* ghost: the sides were equal at the confirming read

TypeOK ==
    /\ local \in [Replicas -> History]
    /\ rows \subseteq History \ {<<>>}
    /\ late \subseteq [from: Nat, tip: History]
    /\ syncState \in [Replicas -> History \cup {None}]
    /\ call \in [Syncers -> Call]

Init ==
    /\ local = [r \in Replicas |-> <<>>]
    /\ rows = {}
    /\ late = {}
    /\ syncState = [r \in Replicas |-> None]
    /\ call = [c \in Syncers |-> Idle("none")]

LocalOf(c) == local[StoreOf[c]]

At(c, step) == call[c].step = step

\* c goes on with the fields of its call that change.
Go(c, step) == call' = [call EXCEPT ![c].step = step]

End(c, outcome) == call' = [call EXCEPT ![c] = Idle(outcome)]

NextRound(c) ==
    IF call[c].round = MaximumRounds THEN End(c, "rounds")
    ELSE call' = [call EXCEPT ![c] =
            [Idle("none") EXCEPT !.step = "head", !.round = call[c].round + 1]]

\* Both sides were seen at the head.
SettleAt(c, head) ==
    call' = [call EXCEPT ![c] = [Idle("none") EXCEPT !.step = "settle", !.tip = head]]

\* Ask the remote once more whether it is at the head.
ConfirmAt(c, head) ==
    call' = [call EXCEPT ![c] = [Idle("none") EXCEPT !.step = "confirm", !.tip = head,
                                                     !.round = call[c].round]]

SidesUnchanged == UNCHANGED <<local, rows, late, syncState>>

-----------------------------------------------------------------------------
(* The start of a call and of a round.                                     *)

Begin(c) ==
    /\ At(c, "idle")
    /\ call' = [call EXCEPT ![c] = [Idle("none") EXCEPT !.step = "head", !.round = 1]]
    /\ SidesUnchanged

ReadRemote(c) ==
    /\ At(c, "head")
    /\ call' = [call EXCEPT ![c].step = "local", ![c].remote = RemoteHead]
    /\ SidesUnchanged

\* The local head is read only now, after the remote's answer.
Settled(c) ==
    /\ At(c, "local")
    /\ LocalOf(c) = call[c].remote
    /\ SettleAt(c, call[c].remote)
    /\ SidesUnchanged

EqualHeadsConflict(c) ==
    /\ At(c, "local")
    /\ Len(LocalOf(c)) = Len(call[c].remote)
    /\ LocalOf(c) # call[c].remote
    /\ End(c, "refused")
    /\ SidesUnchanged

StartPull(c) ==
    /\ At(c, "local")
    /\ Len(LocalOf(c)) < Len(call[c].remote)
    /\ call' = [call EXCEPT ![c].step = "pull", ![c].base = LocalOf(c)]
    /\ SidesUnchanged

\* changesSince: the remote head must be a local operation.  The bundle is a
\* nonempty prefix of the page, cut where the byte limit falls.
StartPush(c) ==
    /\ At(c, "local")
    /\ Len(LocalOf(c)) > Len(call[c].remote)
    /\ IsPrefixOf(call[c].remote, LocalOf(c))
    /\ \E n \in 1..BatchSize :
          /\ Len(call[c].remote) + n <= Len(LocalOf(c))
          /\ call' = [call EXCEPT ![c].step = "push", ![c].base = LocalOf(c),
                ![c].tip = Prefix(LocalOf(c), Len(call[c].remote) + n)]
    /\ SidesUnchanged

ChangesSinceFails(c) ==
    /\ At(c, "local")
    /\ Len(LocalOf(c)) > Len(call[c].remote)
    /\ ~IsPrefixOf(call[c].remote, LocalOf(c))
    /\ End(c, "refused")
    /\ SidesUnchanged

-----------------------------------------------------------------------------
(* Pull.                                                                   *)

\* The rows after the local sequence, cut at the batch size and the byte
\* limit; the page is empty only where no row follows.
ServePull(c) ==
    /\ At(c, "pull")
    /\ \E o \in rows :
          /\ Len(o) - Len(call[c].base) \in 1..BatchSize
          /\ call' = [call EXCEPT ![c].step = "import", ![c].tip = o]
    /\ SidesUnchanged

\* What synchronize checks of a page before it imports.
PageExtends_RejectsTerminal(c) ==
    /\ IsPrefixOf(call[c].base, call[c].tip)
    /\ Len(call[c].tip) < Len(call[c].remote)

PageExtends(c) ==
    /\ IsPrefixOf(call[c].base, call[c].tip)
    /\ Len(call[c].tip) <= Len(call[c].remote)
    /\ Len(call[c].tip) = Len(call[c].remote) => call[c].tip = call[c].remote

PullConflict(c) ==
    /\ At(c, "import")
    /\ ~PageExtends(c)
    /\ End(c, "refused")
    /\ SidesUnchanged

\* importOperations onto the head the round read, or an exact replay of
\* operations another call has imported meanwhile.
Import_AnyHead(c) ==
    /\ At(c, "import")
    /\ PageExtends(c)
    /\ local' = [local EXCEPT ![StoreOf[c]] = call[c].tip]
    /\ Go(c, "after")
    /\ UNCHANGED <<rows, late, syncState>>

Import(c) ==
    /\ At(c, "import")
    /\ PageExtends(c)
    /\ \/ /\ LocalOf(c) = call[c].base
          /\ local' = [local EXCEPT ![StoreOf[c]] = call[c].tip]
       \/ /\ LocalOf(c) # call[c].base
          /\ IsPrefixOf(call[c].tip, LocalOf(c))
          /\ UNCHANGED local
    /\ Go(c, "after")
    /\ UNCHANGED <<rows, late, syncState>>

ImportFails(c) ==
    /\ At(c, "import")
    /\ PageExtends(c)
    /\ LocalOf(c) # call[c].base
    /\ ~IsPrefixOf(call[c].tip, LocalOf(c))
    /\ End(c, "refused")
    /\ SidesUnchanged

-----------------------------------------------------------------------------
(* Push: the transport reads the remote head, then compares or inserts.    *)

ServePushHead(c) ==
    /\ At(c, "push")
    /\ IF Len(RemoteHead) >= Len(call[c].tip) THEN Go(c, "compare")
       ELSE IF RemoteHead = call[c].remote THEN Go(c, "batch")
       ELSE End(c, "refused")
    /\ SidesUnchanged

Pushed_SkipsFirst(c) ==
    Segment(call[c].tip, Len(call[c].remote) + 1, Len(call[c].tip))

Pushed(c) == Segment(call[c].tip, Len(call[c].remote), Len(call[c].tip))

\* Every pushed operation is already an exact row: acknowledged again.
ServeCompare(c) ==
    /\ At(c, "compare")
    /\ IF Pushed(c) \subseteq rows THEN Go(c, "after") ELSE End(c, "refused")
    /\ SidesUnchanged

\* One transactional batch of INSERTs; the primary key is all that guards it
\* against rows written since the head was read.
ServeBatch(c) ==
    /\ At(c, "batch")
    /\ Insertable(Pushed(c))
    /\ rows' = rows \cup Pushed(c)
    /\ Go(c, "after")
    /\ UNCHANGED <<local, late, syncState>>

\* The client's constraint error reaches the caller as it is.
BatchRefused(c) ==
    /\ At(c, "batch")
    /\ ~Insertable(Pushed(c))
    /\ End(c, "constraint")
    /\ SidesUnchanged

-----------------------------------------------------------------------------
(* After a transfer.                                                       *)

\* The head the other side had: reaching it starts the confirmation.
Target(c) == IF Len(call[c].base) < Len(call[c].remote) THEN call[c].remote
             ELSE call[c].tip

AfterTransfer_SkipsLocal(c) ==
    /\ At(c, "after")
    /\ ConfirmAt(c, Target(c))
    /\ SidesUnchanged

AfterTransfer(c) ==
    /\ At(c, "after")
    /\ IF LocalOf(c) = Target(c) THEN ConfirmAt(c, Target(c)) ELSE NextRound(c)
    /\ SidesUnchanged

ReadConfirmation(c) ==
    /\ At(c, "confirm")
    /\ call' = [call EXCEPT ![c].step = "check", ![c].remote = RemoteHead,
                            ![c].together = LocalOf(c) = RemoteHead]
    /\ SidesUnchanged

Confirms(c) == call[c].remote = call[c].tip /\ LocalOf(c) = call[c].tip

CheckConfirmation_AsksAgain(c) ==
    /\ At(c, "check")
    /\ IF Confirms(c) THEN SettleAt(c, call[c].tip) ELSE ConfirmAt(c, call[c].tip)
    /\ SidesUnchanged

CheckConfirmation_SpendsRound(c) ==
    /\ At(c, "check")
    /\ NextRound(c)
    /\ SidesUnchanged

CheckConfirmation(c) ==
    /\ At(c, "check")
    /\ IF Confirms(c) THEN SettleAt(c, call[c].tip) ELSE NextRound(c)
    /\ SidesUnchanged

\* updateSyncState, then the result.
Settle(c) ==
    /\ At(c, "settle")
    /\ syncState' = [syncState EXCEPT ![StoreOf[c]] = call[c].tip]
    /\ End(c, "none")
    /\ UNCHANGED <<local, rows, late>>

-----------------------------------------------------------------------------
(* Failures and the world around a call.                                   *)

\* A request fails, its answer is lost, or the process dies.  A batch whose
\* sender is gone may still be executed.
Lost(c) ==
    /\ ~At(c, "idle")
    /\ \/ UNCHANGED late
       \/ /\ At(c, "batch") /\ Cardinality(late) < MaxLate
          /\ late' = late \cup {[from |-> Len(call[c].remote), tip |-> call[c].tip]}
    /\ End(c, "none")
    /\ UNCHANGED <<local, rows, syncState>>

LateBatch(batch) ==
    LET operations == Segment(batch.tip, batch.from, Len(batch.tip))
    IN  /\ rows' = IF Insertable(operations) THEN rows \cup operations ELSE rows
        /\ late' = late \ {batch}
        /\ UNCHANGED <<local, syncState, call>>

Commit(r, body) ==
    /\ Len(local[r]) < MaxSequence
    /\ local' = [local EXCEPT ![r] = Append(@, body)]
    /\ UNCHANGED <<rows, late, syncState, call>>

Proceed(c) ==
    \/ ReadRemote(c)
    \/ Settled(c) \/ EqualHeadsConflict(c)
    \/ StartPull(c) \/ StartPush(c) \/ ChangesSinceFails(c)
    \/ ServePull(c) \/ PullConflict(c) \/ Import(c) \/ ImportFails(c)
    \/ ServePushHead(c) \/ ServeCompare(c) \/ ServeBatch(c) \/ BatchRefused(c)
    \/ AfterTransfer(c) \/ ReadConfirmation(c) \/ CheckConfirmation(c)
    \/ Settle(c)

CallStep(c) == Begin(c) \/ Proceed(c) \/ Lost(c)

Elsewhere ==
    \/ \E batch \in late : LateBatch(batch)
    \/ \E r \in Replicas, body \in Bodies : Commit(r, body)

Next == (\E c \in Syncers : CallStep(c)) \/ Elsewhere

Spec == Init /\ [][Next]_vars

\* The runtime keeps a started call going, and the client settles each of its
\* requests.
FairSpec ==
    /\ Spec
    /\ \A c \in Syncers : WF_vars(Proceed(c))

-----------------------------------------------------------------------------
(* Properties.                                                             *)

\* The remote's rows are the prefixes of one history, although every push
\* decides on a head it read earlier and only a primary key guards its batch.
RemoteIsOneChain == rows = ChainOf(RemoteHead)

\* What oh_sync_state records is common to both sides, whatever either side
\* did after the heads were compared.
RecordedIsCommon ==
    \A r \in Replicas :
        syncState[r] # None =>
            /\ IsPrefixOf(syncState[r], local[r])
            /\ IsPrefixOf(syncState[r], RemoteHead)

\* A call that settles after a transfer confirmed a moment at which both sides
\* were at one head: the three reads around that moment cannot be fooled by
\* commits, pushes or another call on the same store.
ConfirmedTogether ==
    \A c \in Syncers : At(c, "check") /\ Confirms(c) => call[c].together

\* Every call ends, whoever moves the sides meanwhile.
EveryCallEnds == \A c \in Syncers : ~At(c, "idle") ~> At(c, "idle")

\* Sync is fast-forward replication: histories only grow, and only along the
\* other side's.
Replication == INSTANCE OhReplication WITH
    Operations <- Bodies, history <- local, published <- RemoteHead
ImplementsReplication == Replication!ReplicationSpec

-----------------------------------------------------------------------------
(* The inductive invariant.                                                *)

\* What a call remembers fits the history of its store and the remote head,
\* as they are now: both may have grown, never changed, since it read them.
Fits(k, mine, head) ==
    /\ IsPrefixOf(k.remote, head)
    /\ IsPrefixOf(k.base, mine)
    /\ k.step = "import" =>
          IsPrefixOf(k.tip, head) /\ Len(k.base) < Len(k.tip)
    /\ k.step \in {"push", "compare", "batch"} =>
          /\ IsPrefixOf(k.remote, k.tip)
          /\ Len(k.remote) < Len(k.tip)
          /\ IsPrefixOf(k.tip, mine)
    /\ k.step \in {"after", "confirm", "check", "settle"} =>
          IsPrefixOf(k.tip, mine) /\ IsPrefixOf(k.tip, head)
    /\ k.step = "check" =>
          k.together \/ k.remote # k.tip \/ Len(k.tip) < Len(mine)

\* A batch that may execute late continues the chain and is some store's own.
LateFits(batch) ==
    /\ batch.from < Len(batch.tip)
    /\ IsPrefixOf(Prefix(batch.tip, batch.from), RemoteHead)
    /\ \E r \in Replicas : IsPrefixOf(batch.tip, local[r])

\* Calls, rows, stores and records agree at all times.
SyncInvariant ==
    /\ TypeOK
    /\ RemoteHead \in History
    /\ RemoteIsOneChain
    /\ RecordedIsCommon
    /\ \A c \in Syncers : Fits(call[c], LocalOf(c), RemoteHead)
    /\ \A batch \in late : LateFits(batch)

=============================================================================
