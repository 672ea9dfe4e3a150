-------------------------- MODULE PublishedReplays --------------------------
(***************************************************************************)
(* What a portfolio's users are shown, with no workers, no transactions    *)
(* and no rows: the read models and the snapshot of a day are each one     *)
(* replay, put in place in one step.  The read models are replayed from a  *)
(* ledger as it was once posted and only move forward; a refresh copies    *)
(* them, as they stand, to a day; a backfill replays a ledger, up to the   *)
(* end of the day, for the day.                                            *)
(***************************************************************************)
EXTENDS Naturals

CONSTANTS
    Operations,
    DayOf,       \* DayOf[o]: the day operation o was executed
    Days,
    CreatedOn,   \* no day before it has a snapshot
    Current      \* the read models

VARIABLES
    ledger,      \* the posted operations
    shown        \* shown[t]: the operations of the replay that t shows, if any

publishedVars == <<ledger, shown>>

Init ==
    /\ ledger = {}
    /\ shown = [t \in {Current} \cup Days |-> {}]

Post(o) ==
    /\ o \notin ledger
    /\ ledger' = ledger \cup {o}
    /\ UNCHANGED shown

Shows(t, replayed) ==
    /\ shown' = [shown EXCEPT ![t] = {replayed}]
    /\ UNCHANGED ledger

Rebuild ==
    \E replayed \in SUBSET ledger :
        /\ \A before \in shown[Current] : before \subseteq replayed
        /\ Shows(Current, replayed)

Copy(d) == \E replayed \in shown[Current] : Shows(d, replayed)

Recompute(d) ==
    \E posted \in SUBSET ledger : Shows(d, {o \in posted : DayOf[o] <= d})

Next ==
    \/ \E o \in Operations : Post(o)
    \/ Rebuild
    \/ \E d \in Days : d >= CreatedOn /\ (Copy(d) \/ Recompute(d))

Spec == Init /\ [][Next]_publishedVars
=============================================================================
