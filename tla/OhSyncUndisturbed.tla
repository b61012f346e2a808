--------------------------- MODULE OhSyncUndisturbed ---------------------------
(***************************************************************************)
(* OhSync with two history variables that tell the calls nobody interfered *)
(* with from the others, to say what such a call promises its caller.      *)
(***************************************************************************)
EXTENDS OhSync

VARIABLES disturbed, \* disturbed[c]: another actor moved a side since c began
          distance   \* distance[c]: operations apart when c began; -1: diverged

historyVars == <<local, rows, late, syncState, call, disturbed, distance>>

Distance(h, g) ==
    IF IsPrefixOf(h, g) THEN Len(g) - Len(h)
    ELSE IF IsPrefixOf(g, h) THEN Len(h) - Len(g) ELSE -1

\* The history variables over a step of the actors.
Track(actors) ==
    /\ disturbed' = [c \in Syncers |->
          /\ ~At(c, "idle") /\ call'[c].step # "idle"
          /\ \/ disturbed[c]
             \/ c \notin actors /\ (local'[StoreOf[c]] # LocalOf(c) \/ rows' # rows)]
    /\ distance' = [c \in Syncers |->
          IF disturbed'[c] \/ call'[c].step = "idle" THEN 0
          ELSE IF At(c, "idle") THEN Distance(LocalOf(c), RemoteHead)
          ELSE distance[c]]

HistoryInit ==
    /\ Init
    /\ disturbed = [c \in Syncers |-> FALSE]
    /\ distance = [c \in Syncers |-> 0]

HistoryNext ==
    \/ \E c \in Syncers : CallStep(c) /\ Track({c})
    \/ Elsewhere /\ Track({})

HistorySpec == HistoryInit /\ [][HistoryNext]_historyVars

FairHistorySpec ==
    /\ HistorySpec
    /\ \A c \in Syncers : WF_vars(Proceed(c))

EndsUndisturbed(c, outcomes) ==
    /\ ~At(c, "idle") /\ call'[c].step = "idle"
    /\ call'[c].outcome \in outcomes
    /\ ~disturbed[c]

\* Callers need no spare round (sync.md): a call nobody disturbs runs out of
\* rounds only where it had more operations to move than rounds, since every
\* round moves at least one and the confirmation takes no round of its own.
NoSpareRound ==
    [][\A c \in Syncers :
          EndsUndisturbed(c, {"rounds"}) => distance[c] > MaximumRounds]_historyVars

\* A call nobody disturbs is refused only where the histories have diverged:
\* pages, bundles and checks fit together at every boundary.
RefusedOnlyIfDiverged ==
    [][\A c \in Syncers :
          EndsUndisturbed(c, {"refused", "constraint"})
              => distance[c] = -1]_historyVars
=============================================================================
