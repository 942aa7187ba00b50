----------------------------- MODULE MCFloorLog -----------------------------
(***************************************************************************)
(* Two processes commit to one floor log.  The observations are a pull,    *)
(* the same version pulled with another content, a push of the next        *)
(* version and a pull of the deleted variable, so that folds both join and *)
(* conflict.                                                               *)
(***************************************************************************)
EXTENDS FloorLog, TLC

HeadAt(seq) == [version |-> seq, hash |-> 1]

Active(version, hash) ==
    [status |-> "active",
     value  |-> [version |-> version, epoch |-> 1, hash |-> hash],
     meta   |-> [version |-> 1, hash |-> 1]]

Deleted == [status |-> "deleted", value |-> NoEpochEvidence, meta |-> [version |-> 2, hash |-> 1]]

Pulled(variable) ==
    [BottomFloor EXCEPT
        !.head = HeadAt(1), !.pullEpoch = 1, !.observedEpoch = 1,
        !.meta = [version |-> 1, hash |-> 1],
        !.manifest = [version |-> 1, epoch |-> 1, hash |-> 1],
        !.variable = variable]

MCObservations ==
    {Pulled(Active(1, 1)), Pulled(Active(1, 2)), PushObservation(HeadAt(1), Active(2, 1)),
     PushObservation(HeadAt(1), Deleted)}

ProcessSymmetry == Permutations(Processes)
=============================================================================
