-------------------------------- MODULE OhLog --------------------------------
(***************************************************************************)
(* What one Oh space promises whatever store keeps it: a single            *)
(* append-only history that replays, and, for a working space, a purge     *)
(* that is final and leaves only a receipt for the head it removed.        *)
(***************************************************************************)
EXTENDS OhGraph

VARIABLES phase,    \* "absent", "live" or "purged"
          history,  \* the authority history; its last operation is the head
          receipt   \* the purge receipts written for the space

logVars == <<phase, history, receipt>>

LogInit == phase = "absent" /\ history = <<>> /\ receipt = {}

Create ==
    /\ phase = "absent"
    /\ phase' = "live"
    /\ UNCHANGED <<history, receipt>>

\* One atomic extension, of one operation or of a whole imported interval.
Extend ==
    /\ phase = "live"
    /\ IsPrefixOf(history, history')
    /\ history # history'
    /\ ValidHistory(history')
    /\ UNCHANGED <<phase, receipt>>

PurgeSpace ==
    /\ phase = "live"
    /\ phase' = "purged"
    /\ receipt' = {history}
    /\ history' = <<>>

\* The purge of a space whose creation never completed.
FenceSpace ==
    /\ phase = "absent"
    /\ phase' = "purged"
    /\ receipt' = {<<>>}
    /\ UNCHANGED history

LogNext == Create \/ Extend \/ PurgeSpace \/ FenceSpace

LogSpec == LogInit /\ [][LogNext]_logVars
=============================================================================
