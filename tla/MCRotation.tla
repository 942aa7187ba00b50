------------------------------- MODULE MCRotation -------------------------------
(* Instances of EnvRotation. *)
EXTENDS EnvRotation

CONSTANTS alice, bob, x, y

TwoMachines == {alice, bob}
OneVariable == {x}
TwoVariables == {x, y}

\* bob joined after the first epoch began, and nobody has wrapped it for him.
BobLacksFirst == {<<bob, 1>>}

(***************************************************************************)
(* Two instances in one state space.  In "races" two machines sweep at the  *)
(* same time, nothing fails and y is never created; in "faults" alice is on *)
(* her own, and crashes, lost answers and rotations nobody owes happen.     *)
(***************************************************************************)

VARIABLE instance

instanceVars == <<rotationVars, instance>>

InBounds ==
    /\ UNCHANGED instance
    /\ instance = "races" =>
           spent'.manual = 0 /\ spent'.faults = 0 /\ values'[y] = <<>>
    /\ instance = "faults" => UNCHANGED <<run[bob], reported[bob]>>

InstancesInit == Init /\ instance \in {"races", "faults"}

InstancesNext == Next /\ InBounds

\* FairSpec of EnvRotation within the bounds of the instance.
InstancesSpec ==
    /\ InstancesInit
    /\ [][InstancesNext]_instanceVars
    /\ \A m \in Machines : /\ WF_instanceVars(Works(m) /\ InBounds)
                           /\ WF_instanceVars(Sweep(m) /\ InBounds)
    /\ WF_instanceVars(Serves /\ InBounds)

=============================================================================
