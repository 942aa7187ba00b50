----------------------------- MODULE MCInvitations -----------------------------
(***************************************************************************)
(* Two instances.  In "requests" two invitations for one person are issued, *)
(* accepted and revoked by two requests at a time while the clock runs; one *)
(* admin adds the person and the chain gets no other entry than the         *)
(* environment.  In "adds" the clock stands and there is one invitation,    *)
(* but two admins add the person to a chain on which that person comes and  *)
(* goes, an owner joins and is demoted, four-eyes is switched on and the    *)
(* environment of the invitation deleted.                                   *)
(***************************************************************************)
EXTENDS Invitations

Genesis1 == {[user |-> "ann", enc |-> "k1", sig |-> "s1"]}

OnlyE1 == [kind |-> "listed", ids |-> {"e1"}]

OfferedTerms == {[role |-> "member", scope |-> OnlyE1]}

BobAccepts == {[user |-> "bob", enc |-> "k3", sig |-> "s3"]}

OtherOperations ==
         {[op |-> "add_member", target |-> "amy", enc |-> "k2", sig |-> "s2",
           role |-> "owner", scope |-> ALL_SCOPE]}
    \cup {[op |-> "add_member", target |-> "bob", enc |-> "k4", sig |-> "s3",
           role |-> "reader", scope |-> OnlyE1]}
    \cup {[op |-> "change_role", target |-> "amy", role |-> "admin", scope |-> [kind |-> "listed", ids |-> {}]]}
    \cup {[op |-> "remove_member", target |-> "bob"]}
    \cup {[op |-> o, env |-> "e1"] : o \in {"create_environment", "delete_environment"}}
    \cup {[op |-> "set_approval_policy", policy |-> [ops |-> {"add_member"}, required |-> 2]]}

-----------------------------------------------------------------------------

VARIABLE instance

instanceVars == <<allVars, instance>>

InBounds ==
    IF instance = "requests"
    THEN /\ headSeq <= 3
         /\ DOMAIN members \subseteq {"ann", "bob"}
         /\ applied.operation.op \in {"genesis", "create_environment", "add_member"}
         /\ approvalPolicy = NoPolicy
         /\ pendingProposals = [i \in {} |-> Nothing]
         /\ adding["amy"] = Idle
    ELSE /\ clock = 1
         /\ DOMAIN invitations \subseteq {"i1"}
         /\ \E w \in Workers : work[w] = Idle

InstancesInit == InvitationsInit /\ instance \in {"requests", "adds"}

InstancesNext == InvitationsNext /\ UNCHANGED instance /\ InBounds'

InstancesSpec == InstancesInit /\ [][InstancesNext]_instanceVars

RequestSymmetry == Permutations(Workers)
=============================================================================
