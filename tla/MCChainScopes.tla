----------------------------- MODULE MCChainScopes -----------------------------
(***************************************************************************)
(* Model of MembershipChain about permissions: owners, admins and members   *)
(* with listed scopes and capped devices, while environments are created    *)
(* and deleted under them.                                                  *)
(***************************************************************************)
EXTENDS MembershipChain

Genesis1 == {[user |-> "ann", enc |-> "k1", sig |-> "s1"]}

SomeScopes == {ALL_SCOPE, Listed({"e1"}), Listed({"e1", "e2"})}

ScopeOperations ==
         {[op |-> "add_member", target |-> "bob", enc |-> "k2", sig |-> "s2",
           role |-> r, scope |-> s] : r \in {"admin", "owner"}, s \in SomeScopes}
    \cup {[op |-> "add_member", target |-> "cat", enc |-> "k3", sig |-> "s3",
           role |-> r, scope |-> s] : r \in {"admin", "reader"}, s \in SomeScopes}
    \cup {[op |-> "change_role", target |-> u, role |-> r, scope |-> s] :
             u \in {"bob", "cat"}, r \in {"admin", "member"}, s \in SomeScopes}
    \cup {[op |-> "remove_member", target |-> u] : u \in Users}
    \cup {[op |-> "add_device", enc |-> "k4", sig |-> "s4",
           roleCap |-> r, scope |-> s] : r \in {"owner", "member"}, s \in SomeScopes}
    \cup {[op |-> "add_device", enc |-> "k3", sig |-> "s3",
           roleCap |-> "member", scope |-> ALL_SCOPE]}
    \cup {[op |-> "revoke_device", target |-> u, fps |-> {[enc |-> "k4", sig |-> "s4"]}] :
             u \in Users}
    \cup {[op |-> "revoke_device", target |-> "bob", fps |-> {[enc |-> "k2", sig |-> "s2"]}]}
    \cup [op : {"create_environment", "delete_environment"}, env : Envs]
=============================================================================
