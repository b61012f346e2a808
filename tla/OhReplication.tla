---------------------------- MODULE OhReplication ----------------------------
(***************************************************************************)
(* What fast-forward replication promises: replicas and one published      *)
(* remote hold append-only histories, and the only way an operation moves  *)
(* is that the shorter side is extended to a prefix of the longer one.     *)
(* Diverged histories stay as they are.                                    *)
(***************************************************************************)
EXTENDS OhHistory

CONSTANTS Replicas,   \* local stores
          Operations  \* bodies of operations

VARIABLES history,    \* history[r]: what replica r holds
          published   \* what the remote holds

replicationVars == <<history, published>>

ReplicationInit ==
    /\ history = [r \in Replicas |-> <<>>]
    /\ published = <<>>

Author(r) ==
    /\ \E body \in Operations :
          history' = [history EXCEPT ![r] = Append(@, body)]
    /\ UNCHANGED published

Publish(r) ==
    /\ IsPrefixOf(published, published')
    /\ IsPrefixOf(published', history[r])
    /\ UNCHANGED history

Fetch(r) ==
    /\ IsPrefixOf(history[r], history'[r])
    /\ IsPrefixOf(history'[r], published)
    /\ history' = [history EXCEPT ![r] = history'[r]]
    /\ UNCHANGED published

ReplicationNext == \E r \in Replicas : Author(r) \/ Publish(r) \/ Fetch(r)

ReplicationSpec == ReplicationInit /\ [][ReplicationNext]_replicationVars
=============================================================================
