-------------------------------- MODULE MCStore --------------------------------
(***************************************************************************)
(* Models of ProjectStore: DEK wraps while people, server keys and epochs   *)
(* come and go, and, on chains founded with the key k2, head attestations   *)
(* with four-eyes on; values and manifests while their writers leave and    *)
(* come back; capped devices.                                               *)
(***************************************************************************)
EXTENDS ProjectStore

Genesis1 == {[user |-> "ann", enc |-> "k1", sig |-> "s1"]}

AddMember(u, keys, role, scope) ==
    [op |-> "add_member", target |-> u, enc |-> keys[1], sig |-> keys[2],
     role |-> role, scope |-> scope]

RemoveMember(u) == [op |-> "remove_member", target |-> u]

Rotate(n) == [op |-> "rotate_epoch", env |-> "e1", epoch |-> n]

OnEnvironment(op) == [op |-> op, env |-> "e1"]

Attest(n, v, h) ==
    [op |-> "checkpoint", auditHead |-> FALSE,
     tuples |-> {[env |-> "e1", epoch |-> n, version |-> v, hash |-> h]}]

\* A user whose id is the name of the key k2, which a grant may name once it is free.
WrapOperations ==
    {AddMember("k2", <<"k2", "s2">>, "member", ALL_SCOPE),
     AddMember("k2", <<"k3", "s3">>, "member", ALL_SCOPE),
     RemoveMember("k2"),
     [op |-> "change_role", target |-> "k2", role |-> "reader", scope |-> Listed({})],
     [op |-> "grant_server", enc |-> "k2", ids |-> {"e1"}],
     [op |-> "revoke_server", enc |-> "k2"],
     OnEnvironment("create_environment"), OnEnvironment("delete_environment"), Rotate(2)}

\* A writer who leaves and comes back, in an environment that is rotated.
ValueOperations ==
    {AddMember("bob", <<"k2", "s2">>, "member", ALL_SCOPE), RemoveMember("bob"),
     OnEnvironment("create_environment"), Rotate(2)}

\* Checkpoints of an environment that is written, rotated and deleted.
CheckpointOperations ==
    {OnEnvironment("create_environment"), OnEnvironment("delete_environment"), Rotate(2)}
    \cup {Attest(n, v, h) : n \in 1..2, v \in 1..3, h \in ManifestHashes}

\* Owners who must agree on a removal, attesting heads all the while.
AttestOperations ==
    {AddMember("k2", <<"k1", "s1">>, "owner", ALL_SCOPE), RemoveMember("k2"),
     [op |-> "add_device", enc |-> "k3", sig |-> "s3", roleCap |-> "owner", scope |-> ALL_SCOPE],
     [op |-> "revoke_device", target |-> "ann", fps |-> {[enc |-> "k3", sig |-> "s3"]}],
     [op |-> "set_approval_policy", policy |-> [ops |-> {"remove_member"}, required |-> 2]]}

AccessOperations == WrapOperations \cup AttestOperations

Founders == Genesis1 \cup {[user |-> "ann", enc |-> "k2", sig |-> "s2"]}

\* Chains about wraps carry no attestations; the others are shorter, with the
\* heads of two devices at a time.
OneSubject ==
    IF \E d \in snapshots[1].devices : d.enc = "k1"
    THEN /\ applied.operation \in WrapOperations \/ applied.operation.op \in {"genesis", "checkpoint"}
         /\ headAttestations = [v \in {} |-> Nothing]
    ELSE /\ applied.operation \in AttestOperations \cup {Genesis, Nothing}
         /\ headSeq <= 7
         /\ Cardinality(DOMAIN headAttestations) <= 2

ContentOperations == ValueOperations \cup CheckpointOperations

EpochStartsAt(e, seq) ==
    \E i \in DOMAIN environmentStarts[e].epochStarts : environmentStarts[e].epochStarts[i].start = seq

\* Chains founded with k1 are about the writers of values and have no checkpoints but
\* the boundary ones; those founded with k2 are about what is attested, with one value.
OneContent ==
    IF \E d \in snapshots[1].devices : d.enc = "k1"
    THEN /\ applied.operation \in ValueOperations \/ applied.operation.op \in {"genesis", "checkpoint"}
         /\ \A e \in DOMAIN checkpoints :
               checkpoints[e].hash = "h1" /\ EpochStartsAt(e, checkpoints[e].seq - 1)
         /\ \A e \in DOMAIN manifests : manifests[e].hash = "h1"
    ELSE /\ applied.operation \in CheckpointOperations \/ applied.operation.op \in {"genesis", "checkpoint"}
         /\ \A e \in DOMAIN environmentRows : environmentRows[e].metaVersion <= 1
         /\ \A k \in DOMAIN variableRows :
               /\ variableRows[k].status # "deleted" => variableRows[k].metaVersion <= 1
               /\ Len(variableRows[k].versions) <= 1

\* What decides the rows of an environment: no request reads the other variables
\* to write one, and the properties of the run do not mention them.
ContentView ==
    <<members, devices, environments, checkpoints, headSeq, indexVars, rowVars>>

\* One device whose key is registered again with a narrower cap.
DeviceOperations ==
    {[op |-> "add_device", enc |-> "k2", sig |-> "s2", roleCap |-> r, scope |-> ALL_SCOPE] :
        r \in {"owner", "reader"}}
    \cup {[op |-> "revoke_device", target |-> "ann", fps |-> {[enc |-> "k2", sig |-> "s2"]}],
          OnEnvironment("create_environment")}

=============================================================================
