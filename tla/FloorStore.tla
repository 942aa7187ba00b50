----------------------------- MODULE FloorStore -----------------------------
(***************************************************************************)
(* What the floor log promises to every command that uses it: one store    *)
(* per machine, to which each commit is joined at once and whole, however  *)
(* many processes commit (CRYPTO_SPEC 6.3; FloorStoreShape in              *)
(* apps/cli/src/floor.ts).  FloorLog implements it with appends, snapshots *)
(* and folds over a file.                                                  *)
(***************************************************************************)
EXTENDS Floors

CONSTANT Observations   \* the floors a verified observation may have
CONSTANT IntentIds      \* the ids an intent may have

VARIABLE store          \* the joined observations, conflicts and open intents

Commits ==
    {Observation(floor) : floor \in Observations}
      \cup {Intent(id) : id \in IntentIds} \cup {Resolution(id) : id \in IntentIds}

Init == store = EmptyFold

Commit(record) == store' = Applied(store, record)

Next == \E record \in Commits : Commit(record)

Spec == Init /\ [][Next]_store
=============================================================================
