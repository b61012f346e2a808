---------------------------- MODULE OhLibSqlOwner ----------------------------
(***************************************************************************)
(* The lifetime of one opened libSQL authority (makeLibSqlOwner): calls    *)
(* are admitted until close() begins, close() waits until every admitted   *)
(* call has settled, and only then closes the client.  The gate does not   *)
(* serialise calls.                                                        *)
(***************************************************************************)
EXTENDS Integers

CONSTANT Authorities  \* opened authorities, each with its owner

VARIABLES active,       \* active[a]: the number of admitted calls
          closing,      \* closing[a]: close() was called
          drained,      \* drained[a]: the Deferred close() awaits succeeded
          clientClosed  \* clientClosed[a]: the client's close ran

ownerVars == <<active, closing, drained, clientClosed>>

OwnerTypeOK ==
    /\ active \in [Authorities -> Nat]
    /\ closing \in [Authorities -> BOOLEAN]
    /\ drained \in [Authorities -> BOOLEAN]
    /\ clientClosed \in [Authorities -> BOOLEAN]

OwnerInit ==
    /\ active = [a \in Authorities |-> 0]
    /\ closing = [a \in Authorities |-> FALSE]
    /\ drained = [a \in Authorities |-> FALSE]
    /\ clientClosed = [a \in Authorities |-> FALSE]

\* A call made after close() began is rejected instead.
Admit(a) ==
    /\ ~closing[a]
    /\ active' = [active EXCEPT ![a] = @ + 1]
    /\ UNCHANGED <<closing, drained, clientClosed>>

\* The last admitted call to settle wakes the close that waits for it.
Release(a) ==
    /\ active' = [active EXCEPT ![a] = @ - 1]
    /\ drained' = [drained EXCEPT ![a] = @ \/ (active[a] = 1 /\ closing[a])]
    /\ UNCHANGED <<closing, clientClosed>>

\* close(): later calls of close() return the promise of the first.
BeginClose_Drained(a) ==
    /\ ~closing[a]
    /\ closing' = [closing EXCEPT ![a] = TRUE]
    /\ drained' = [drained EXCEPT ![a] = TRUE]
    /\ UNCHANGED <<active, clientClosed>>

BeginClose(a) ==
    /\ ~closing[a]
    /\ closing' = [closing EXCEPT ![a] = TRUE]
    /\ drained' = [drained EXCEPT ![a] = (active[a] = 0)]
    /\ UNCHANGED <<active, clientClosed>>

CloseClient(a) ==
    /\ drained[a] /\ ~clientClosed[a]
    /\ clientClosed' = [clientClosed EXCEPT ![a] = TRUE]
    /\ UNCHANGED <<active, closing, drained>>

\* A new owner for an authority opened anew.
ResetOwner(a) ==
    /\ active' = [active EXCEPT ![a] = 0]
    /\ closing' = [closing EXCEPT ![a] = FALSE]
    /\ drained' = [drained EXCEPT ![a] = FALSE]
    /\ clientClosed' = [clientClosed EXCEPT ![a] = FALSE]
=============================================================================
