------------------------------ MODULE MCFourEyes ------------------------------
(***************************************************************************)
(* Model of MembershipChain about four-eyes approval: up to three owners    *)
(* vote while owners are demoted, removed, come back under the same or      *)
(* another key and move to another device, and while the policy itself is   *)
(* tightened, loosened and switched off.                                    *)
(***************************************************************************)
EXTENDS MembershipChain

Genesis1 == {[user |-> "ann", enc |-> "k1", sig |-> "s1"]}

ApprovalOperations ==
         {[op |-> "add_member", target |-> m[1], enc |-> m[2], sig |-> m[3],
           role |-> "owner", scope |-> ALL_SCOPE] :
             m \in {<<"bob", "k2", "s2">>, <<"bob", "k4", "s4">>, <<"cat", "k3", "s3">>}}
    \cup {[op |-> "add_member", target |-> "dan", enc |-> "k6", sig |-> "s6",
           role |-> "reader", scope |-> ALL_SCOPE]}
    \cup {[op |-> "change_role", target |-> "cat", role |-> r, scope |-> ALL_SCOPE] :
             r \in {"owner", "admin"}}
    \cup {[op |-> "remove_member", target |-> "bob"]}
    \cup {[op |-> "add_device", enc |-> "k4", sig |-> "s4",
           roleCap |-> r, scope |-> ALL_SCOPE] : r \in {"owner", "admin"}}
    \cup {[op |-> "revoke_device", target |-> "bob", fps |-> {[enc |-> "k2", sig |-> "s2"]}]}
    \cup {[op |-> "set_approval_policy", policy |-> p] :
             p \in {NoPolicy, [ops |-> {"add_member"}, required |-> 2],
                    [ops |-> {"add_member"}, required |-> 3]}}

\* One proposal at a time, so that the histories can be longer.
OneProposal == Cardinality(DOMAIN pendingProposals) <= 1
=============================================================================
