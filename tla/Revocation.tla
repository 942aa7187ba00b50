------------------------------- MODULE Revocation -------------------------------
(***************************************************************************)
(* What a rotation owes to a departure (CRYPTO_SPEC 7, as                  *)
(* apps/cli/src/rotation-sweep.ts and env.package/env-rotate*.ts keep it): *)
(* once somebody who held the DEK has left, a new epoch fences the         *)
(* environment off, from then on ever fewer current values can be read     *)
(* with what was taken along, and done is said of it only when none can.   *)
(***************************************************************************)
CONSTANTS
    Machines,   \* who may report the departure dealt with
    Variables   \* the variables of one environment

VARIABLES
    owed,       \* somebody has left
    fenced,     \* the current epoch began after the last departure
    exposed,    \* variables whose current value an old DEK opens
    claimed     \* machines that reported the last departure dealt with

revocationVars == <<owed, fenced, exposed, claimed>>

Init ==
    /\ owed \in BOOLEAN /\ fenced = FALSE /\ claimed = {}
    /\ exposed \in SUBSET Variables
    /\ exposed # {} => owed

\* Somebody leaves: all that was done is undone.
Depart ==
    /\ owed' = TRUE /\ fenced' = FALSE /\ claimed' = {}
    /\ exposed' \in SUBSET Variables
    /\ exposed \subseteq exposed'

\* Until the fence stands, writers seal with the DEK that was taken along.
Drift ==
    /\ owed /\ ~fenced
    /\ exposed' \in SUBSET Variables
    /\ UNCHANGED <<owed, fenced, claimed>>

\* The new epoch, or the end of the environment.
Fence ==
    /\ owed /\ ~fenced
    /\ fenced' = TRUE
    /\ exposed' \in SUBSET exposed
    /\ UNCHANGED <<owed, claimed>>

Cover ==
    /\ fenced
    /\ exposed' \in SUBSET exposed
    /\ UNCHANGED <<owed, fenced, claimed>>

Claim(m) ==
    /\ owed /\ fenced /\ exposed = {}
    /\ claimed' = claimed \cup {m}
    /\ UNCHANGED <<owed, fenced, exposed>>

Next == Depart \/ Drift \/ Fence \/ Cover \/ \E m \in Machines : Claim(m)

Spec == Init /\ [][Next]_revocationVars

\* Nobody has to be left able to read.
Revoked == fenced /\ exposed = {}

=============================================================================
