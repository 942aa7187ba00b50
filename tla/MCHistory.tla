------------------------------- MODULE MCHistory -------------------------------
(***************************************************************************)
(* One model of RotationMandates over two kinds of chain: those founded     *)
(* with k1, where people and devices leave and come back while environments *)
(* are rotated and deleted; and those founded with k3, about epochs and     *)
(* checkpoints.                                                             *)
(***************************************************************************)
EXTENDS RotationMandates

Founders == {[user |-> "ann", enc |-> "k1", sig |-> "s1"], [user |-> "ann", enc |-> "k3", sig |-> "s3"]}

SomeScopes == {ALL_SCOPE, Listed({"e1", "e2"})}

PeopleOperations ==
         {[op |-> "add_member", target |-> "bob", enc |-> "k2", sig |-> "s2",
           role |-> "admin", scope |-> s] : s \in SomeScopes}
    \cup {[op |-> "add_member", target |-> "bob", enc |-> "k3", sig |-> "s2",
           role |-> "admin", scope |-> ALL_SCOPE]}
    \cup {[op |-> "change_role", target |-> "bob", role |-> "member", scope |-> s] :
             s \in {ALL_SCOPE, Listed({"e2"})}}
    \cup {[op |-> "remove_member", target |-> "bob"]}
    \cup {[op |-> "add_device", enc |-> "k3", sig |-> "s3",
           roleCap |-> "member", scope |-> Listed(X)] : X \in {{}, {"e1"}}}
    \cup {[op |-> "revoke_device", target |-> u, fps |-> {[enc |-> "k3", sig |-> "s3"]}] :
             u \in {"ann", "bob"}}
    \cup {[op |-> "create_environment", env |-> e] : e \in {"e1", "e2"}}
    \cup {[op |-> "delete_environment", env |-> "e1"],
          [op |-> "rotate_epoch", env |-> "e1", epoch |-> 2],
          [op |-> "grant_server", enc |-> "k3", ids |-> {"e1"}],
          [op |-> "revoke_server", enc |-> "k3"]}

\* With bob an owner, a role change goes through a proposal, and the device that
\* proposed it may be revoked.
ApprovedOperations == PeopleOperations \cup
    {[op |-> "add_member", target |-> "bob", enc |-> "k2", sig |-> "s2",
      role |-> "owner", scope |-> ALL_SCOPE],
     [op |-> "revoke_device", target |-> "ann", fps |-> {[enc |-> "k1", sig |-> "s1"]}],
     [op |-> "set_approval_policy", policy |-> [ops |-> {"change_role"}, required |-> 2]]}

EpochOperations ==
         [op : {"create_environment", "delete_environment"}, env : {"e1", "e2"}]
    \cup {[op |-> "rotate_epoch", env |-> "e1", epoch |-> n] : n \in 2..3}
    \cup {[op |-> "checkpoint", auditHead |-> FALSE,
           tuples |-> {[env |-> e, epoch |-> n, version |-> v, hash |-> h]}] :
             e \in {"e1"}, n \in 1..2, v \in 1..2, h \in ManifestHashes}
    \cup {[op |-> "checkpoint", auditHead |-> TRUE,
           tuples |-> {[env |-> e, epoch |-> 1, version |-> 1, hash |-> "h1"] : e \in {"e1", "e2"}}]}
HistoryOperations == ApprovedOperations \cup EpochOperations

\* What a chain is about, by the key it was founded with.
Subject ==
    IF \E d \in snapshots[1].devices : d.enc = "k1" THEN ApprovedOperations ELSE EpochOperations

OneSubject == applied.operation \in Subject \cup {Nothing, Genesis}

=============================================================================
