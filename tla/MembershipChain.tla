---------------------------- MODULE MembershipChain ----------------------------
(***************************************************************************)
(* The membership chain of a maruhi project as its verifier computes it     *)
(* (packages/crypto/src/internal.package/chain-verify.ts).  The server runs *)
(* the same function on every append, so a step of this module is one       *)
(* accepted entry; a rejected entry changes nothing and is no step.         *)
(*                                                                         *)
(* Kept: who is a member and with which (role, scope), every device key and *)
(* its cap, server grants, environments with their epochs and deletion,     *)
(* latest checkpoints, the four-eyes policy and the pending proposals, the  *)
(* key indexes, and every condition under which an entry is accepted.       *)
(* Left out: the order in which several reasons to reject are reported,     *)
(* hashes and signatures (an entry is signed by a device on the chain; the  *)
(* fingerprint of a device is its key pair; a proposal is named by the seq  *)
(* of its entry), lease policies (data that no chain rule reads) and DEK    *)
(* commitments (one per epoch start, named by that entry's seq).            *)
(***************************************************************************)
EXTENDS ScopeAlgebra, Sequences

CONSTANTS
    Users,            \* user ids
    EncKeys,          \* encryption public keys, of devices and of servers
    SigKeys,          \* signature public keys
    ManifestHashes,   \* hashes a checkpoint tuple may carry
    Operations,       \* the operations entries may carry
    GenesisEntries,   \* the genesis entries a chain may start with
    Timestamps,       \* timestamp_ms / expires_at_ms values
    MaxChainEntries   \* capacity: entries a chain may hold

(***************************************************************************)
(* Entry payloads (PAYLOAD_SHAPES).                                        *)
(***************************************************************************)

APPROVAL_TARGET_OPS == {"grant_server", "revoke_server", "remove_member",
                        "change_role", "add_member", "set_approval_policy"}

\* A fingerprint names a key pair; a device and a vote are looked up by it.
Fingerprints == [enc : EncKeys, sig : SigKeys]

\* At most one tuple per environment.
CheckpointTuples == {T \in SUBSET [env : Envs, epoch : Nat, version : Nat, hash : ManifestHashes] :
                        \A s, t \in T : s.env = t.env => s = t}

Policies == {p \in [ops : SUBSET APPROVAL_TARGET_OPS, required : Nat] : p.required # 1}

AddMemberOps == [op : {"add_member"}, target : Users, enc : EncKeys, sig : SigKeys,
                 role : Roles, scope : Scopes]

ChangeRoleOps == [op : {"change_role"}, target : Users, role : Roles, scope : Scopes]

RemoveMemberOps == [op : {"remove_member"}, target : Users]

AddDeviceOps == [op : {"add_device"}, enc : EncKeys, sig : SigKeys,
                 roleCap : Roles, scope : Scopes]

RevokeDeviceOps == [op : {"revoke_device"}, target : Users, fps : (SUBSET Fingerprints) \ {{}}]

GrantServerOps == [op : {"grant_server"}, enc : EncKeys, ids : SUBSET Envs]

RevokeServerOps == [op : {"revoke_server"}, enc : EncKeys]

EnvironmentOps == [op : {"create_environment", "delete_environment"}, env : Envs]

RotateEpochOps == [op : {"rotate_epoch"}, env : Envs, epoch : Nat]

CheckpointOps == [op : {"checkpoint"}, tuples : CheckpointTuples, auditHead : BOOLEAN]

PolicyOps == [op : {"set_approval_policy"}, policy : Policies]

WellFormedOperations ==
    AddMemberOps \cup ChangeRoleOps \cup RemoveMemberOps \cup AddDeviceOps \cup RevokeDeviceOps
    \cup GrantServerOps \cup RevokeServerOps \cup EnvironmentOps \cup RotateEpochOps
    \cup CheckpointOps \cup PolicyOps

ASSUME OperationsAssumption == \A op \in Operations : op \in WellFormedOperations

ASSUME GenesisAssumption == GenesisEntries \subseteq [user : Users, enc : EncKeys, sig : SigKeys]

ASSUME TimestampsAssumption == Timestamps \subseteq Nat

ASSUME CapacityAssumption == MaxChainEntries \in Nat \ {0}

(***************************************************************************)
(* State (MutableChainState).                                              *)
(***************************************************************************)

VARIABLES
    members,           \* user -> its (role, scope); a partial function
    devices,           \* every device of every member, with its cap and added seq
    serverGrants,      \* server key -> active grant
    environments,      \* environment ever created -> epochs and deletion
    checkpoints,       \* environment -> latest checkpoint tuple
    memberEncPubs,     \* index of the enc keys of the current devices
    memberSigPubs,     \* index of the sig keys of the current devices
    namedServerKeys,   \* every server key a grant has named
    approvalPolicy,    \* required = 0: four-eyes is off
    pendingProposals,  \* seq of the propose entry -> pending proposal
    headSeq,           \* seq of the last accepted entry
    applied,           \* AppliedOperation of the last entry, with the acting device
    ballots            \* history variable: votes signed while holding the owner role

memberVars  == <<members, devices, memberEncPubs, memberSigPubs>>
grantVars   == <<serverGrants, namedServerKeys>>
envVars     == <<environments, checkpoints>>
vars == <<memberVars, grantVars, envVars, approvalPolicy, pendingProposals,
          headSeq, applied, ballots>>

\* A Map from (some of) S to T.
IsMap(f, S, T) == DOMAIN f \subseteq S /\ f \in [DOMAIN f -> T]

\* Map.set and Map.delete.
WithKey(f, k, v) == [x \in DOMAIN f \cup {k} |-> IF x = k THEN v ELSE f[x]]

\* Variant: the entry is blanked instead of deleted.
BlankedKey(f, k) == [f EXCEPT ![k] = [op |-> "none"]]

WithoutKey(f, k) == [x \in DOMAIN f \ {k} |-> f[x]]

NoPolicy == [ops |-> {}, required |-> 0]

Nothing == [op |-> "none"]

Genesis == [op |-> "genesis"]

MemberStates == [role : Roles, scope : Scopes]

DeviceRecords == [user : Users, enc : EncKeys, sig : SigKeys,
                  roleCap : Roles, scope : Scopes, addedSeq : Nat]

Votes == [user : Users, enc : EncKeys, sig : SigKeys]

Grants == [ids : SUBSET Envs, grantSeq : Nat]

EnvironmentStates == [epoch : Nat, createdAt : Nat, deletedAt : Nat, epochStarts : Seq(Nat)]

CheckpointStates == [seq : Nat, epoch : Nat, version : Nat, hash : ManifestHashes]

Proposals == [proposer : Votes, roleAtProposal : Roles, inner : Operations,
              expiresAt : Timestamps, approvals : SUBSET Votes]

Ballots == [proposal : Nat, vote : Votes]

\* Which shape every part of the verified state has.
TypeOK ==
    /\ IsMap(members, Users, MemberStates)
    /\ devices \in SUBSET DeviceRecords
    /\ IsMap(serverGrants, EncKeys, Grants)
    /\ IsMap(environments, Envs, EnvironmentStates)
    /\ IsMap(checkpoints, Envs, CheckpointStates)
    /\ memberEncPubs \in SUBSET EncKeys
    /\ memberSigPubs \in SUBSET SigKeys
    /\ namedServerKeys \in SUBSET EncKeys
    /\ approvalPolicy \in Policies
    /\ IsMap(pendingProposals, Nat, Proposals)
    /\ headSeq \in Nat
    /\ applied.operation \in WellFormedOperations \cup {Nothing, Genesis}
    /\ applied.by \in DeviceRecords
    /\ ballots \in SUBSET Ballots

(***************************************************************************)
(* Derived state.                                                          *)
(***************************************************************************)

\* Approval votes and signers are (user, fingerprint) pairs.
VoteOf(d) == [user |-> d.user, enc |-> d.enc, sig |-> d.sig]

DevicesOf(u) == {d \in devices : d.user = u}

\* effectivePermissionOf(member, device) of a device on the chain.
PermissionOf(d) == EffectivePermission(members[d.user], d)

Owners == {u \in DOMAIN members : members[u].role = "owner"}

IsDeleted(e) == e \in DOMAIN environments /\ environments[e].deletedAt # 0

LiveEnvironments == {e \in DOMAIN environments : environments[e].deletedAt = 0}

\* Variant: keys that only a grant has named count as free.
RegistersDeviceKey(op) == op.enc \in memberEncPubs \/ op.sig \in memberSigPubs

\* Key uniqueness for an entry that registers a device key.
RegistersTakenKey(op) ==
    \/ op.enc \in memberEncPubs
    \/ op.sig \in memberSigPubs
    \/ op.enc \in namedServerKeys

(***************************************************************************)
(* Four-eyes (principle 2).                                                *)
(***************************************************************************)

EstablishesOwner(op) == op.op \in {"add_member", "change_role"} /\ op.role = "owner"

IsApprovalTarget(op, policy) ==
    /\ policy.required # 0
    /\ \/ op.op = "set_approval_policy"
       \/ EstablishesOwner(op)
       \/ op.op \in policy.ops

\* S: the proposer if the proposal was signed as an owner, and the approvers.
ApprovalSigners(p) ==
    p.approvals \cup {v \in {p.proposer} : p.roleAtProposal = "owner"}

\* The vote's device is now a device of that person.
IsLiveVote(v) == \E d \in devices : VoteOf(d) = v

\* Variant: votes are counted as they were signed, not as they stand now.
SignedVoters(signers) == {v.user : v \in signers}

OwnerVoters(signers) ==
    {u \in Users : \E d \in devices : /\ d.user = u
                                      /\ VoteOf(d) \in signers
                                      /\ PermissionOf(d).role = "owner"}

OwnersRemovedBy(op) ==
    IF /\ op.target \in Owners
       /\ op.op = "remove_member" \/ (op.op = "change_role" /\ op.role # "owner")
    THEN 1 ELSE 0

\* Variant: the owners are counted before the operation.
QuorumReachableBefore(required, removed) == required = 0 \/ Cardinality(Owners) >= required

QuorumReachableAfter(required, removed) ==
    required = 0 \/ Cardinality(Owners) - removed >= required

(***************************************************************************)
(* Role rules: the part of the permission table the actor alone decides.   *)
(***************************************************************************)

MinimumRole(op) ==
    CASE op.op = "add_member" -> IF AtLeast(op.role, "admin") THEN "owner" ELSE "admin"
      [] op.op \in {"remove_member", "change_role", "delete_environment"} -> "admin"
      [] op.op \in {"create_environment", "rotate_epoch"} -> "member"
      [] op.op = "checkpoint" -> IF op.auditHead THEN "admin" ELSE "member"
      [] op.op \in {"grant_server", "revoke_server", "set_approval_policy"} -> "owner"
      [] op.op \in {"add_device", "revoke_device"} -> "reader"

RoleRule(op, d) == AtLeast(PermissionOf(d).role, MinimumRole(op))

\* Variant: only the new role is looked at, not the target's current one.
NewRoleRule(op, d) ==
    \/ PermissionOf(d).role = "owner"
    \/ op.op = "change_role" => ~AtLeast(op.role, "admin")

\* Changes that involve an admin or an owner are owner-only.
TargetRoleRule(op, d) ==
    \/ PermissionOf(d).role = "owner"
    \/ /\ ~AtLeast(members[op.target].role, "admin")
       /\ op.op = "change_role" => ~AtLeast(op.role, "admin")

(***************************************************************************)
(* Consensus rules.                                                        *)
(***************************************************************************)

\* Scopes name environments that exist and are not deleted.
ScopeEnvironmentsRule(op) == op.scope.ids \subseteq LiveEnvironments

ScopeRoleRule(op) == op.role = "owner" => op.scope.kind = "all"

\* Variant: a role change inside an unchanged scope counts as no change.
ChangedByScopeChange(old, op) == SymmetricDifference(old.scope, op.scope)

\* Principle 1: the environments whose permissions a change_role changes.
ChangedByRoleChange(old, op) ==
    IF old.role = op.role THEN SymmetricDifference(old.scope, op.scope)
                          ELSE UnionEnvironmentSets(old.scope, op.scope)

AddMemberRule(op, d) ==
    /\ op.target \notin DOMAIN members
    /\ ~RegistersTakenKey(op)
    /\ ScopeEnvironmentsRule(op)
    /\ ScopeRoleRule(op)
    /\ ScopeContains(PermissionOf(d).scope, op.scope)

\* resolveTargetedOp: an existing target, within rank, not the last owner.
TargetedRule(op, d) ==
    /\ op.target \in DOMAIN members
    /\ TargetRoleRule(op, d)
    /\ ~(OwnersRemovedBy(op) = 1 /\ Cardinality(Owners) = 1)

ChangeRoleRule(op, d) ==
    /\ TargetedRule(op, d)
    /\ ScopeEnvironmentsRule(op)
    /\ ScopeRoleRule(op)
    /\ ScopeContains(PermissionOf(d).scope, ChangedByRoleChange(members[op.target], op))
    /\ QuorumReachableAfter(approvalPolicy.required, OwnersRemovedBy(op))

RemoveMemberRule(op, d) ==
    /\ TargetedRule(op, d)
    /\ ScopeContains(PermissionOf(d).scope, members[op.target].scope)
    /\ QuorumReachableAfter(approvalPolicy.required, OwnersRemovedBy(op))

\* Principle D2: the new cap is within the cap of the signing device.
AddDeviceRule(op, d) ==
    /\ ~RegistersTakenKey(op)
    /\ ScopeEnvironmentsRule(op)
    /\ CapWithinCap([roleCap |-> op.roleCap, scope |-> op.scope], d)

\* The devices of the target that a revoke_device names.
RevokedDevices(op) ==
    {x \in DevicesOf(op.target) : [enc |-> x.enc, sig |-> x.sig] \in op.fps}

RevokeDeviceRule(op, d) ==
    /\ op.target \in DOMAIN members
    /\ \A fp \in op.fps : \E x \in DevicesOf(op.target) : [enc |-> x.enc, sig |-> x.sig] = fp
    /\ DevicesOf(op.target) # RevokedDevices(op)
    /\ op.target # d.user =>
          /\ AtLeast(PermissionOf(d).role, "admin")
          /\ TargetRoleRule(op, d)
          /\ ScopeContains(PermissionOf(d).scope, members[op.target].scope)

\* Variant: a deleted environment may be named again.
GrantAnyIdsRule(op) ==
    /\ op.enc \in DOMAIN serverGrants => serverGrants[op.enc].ids \subseteq op.ids
    /\ op.enc \notin memberEncPubs

\* A re-grant only widens; ids that were never created are accepted.
GrantServerRule(op) ==
    /\ \A e \in op.ids : ~IsDeleted(e)
    /\ op.enc \in DOMAIN serverGrants => serverGrants[op.enc].ids \subseteq op.ids
    /\ op.enc \notin memberEncPubs

CreateEnvironmentRule(op, d) ==
    /\ op.env \notin DOMAIN environments
    /\ ScopeIncludesEnvironment(PermissionOf(d).scope, op.env)

\* Variant: epochs may jump.
RotateForwardRule(op, d) ==
    /\ op.env \in LiveEnvironments
    /\ ScopeIncludesEnvironment(PermissionOf(d).scope, op.env)
    /\ op.epoch > environments[op.env].epoch

RotateEpochRule(op, d) ==
    /\ op.env \in LiveEnvironments
    /\ ScopeIncludesEnvironment(PermissionOf(d).scope, op.env)
    /\ op.epoch = environments[op.env].epoch + 1

DeleteEnvironmentRule(op, d) ==
    /\ op.env \in LiveEnvironments
    /\ ScopeIncludesEnvironment(PermissionOf(d).scope, op.env)

\* Re-attesting the version of the latest checkpoint is accepted.
CheckpointRule(op, d) ==
    \A t \in op.tuples :
        /\ t.env \in LiveEnvironments
        /\ ScopeIncludesEnvironment(PermissionOf(d).scope, t.env)
        /\ t.epoch = environments[t.env].epoch
        /\ t.env \in DOMAIN checkpoints => t.version >= checkpoints[t.env].version

ConsensusRule(op, d) ==
    \/ op.op = "add_member" /\ AddMemberRule(op, d)
    \/ op.op = "change_role" /\ ChangeRoleRule(op, d)
    \/ op.op = "remove_member" /\ RemoveMemberRule(op, d)
    \/ op.op = "add_device" /\ AddDeviceRule(op, d)
    \/ op.op = "revoke_device" /\ RevokeDeviceRule(op, d)
    \/ op.op = "grant_server" /\ GrantServerRule(op)
    \/ op.op = "revoke_server" /\ op.enc \in DOMAIN serverGrants
    \/ op.op = "create_environment" /\ CreateEnvironmentRule(op, d)
    \/ op.op = "rotate_epoch" /\ RotateEpochRule(op, d)
    \/ op.op = "delete_environment" /\ DeleteEnvironmentRule(op, d)
    \/ op.op = "checkpoint" /\ CheckpointRule(op, d)
    \/ op.op = "set_approval_policy" /\ QuorumReachableAfter(op.policy.required, 0)

(***************************************************************************)
(* State transitions.  seq is the entry that applies the operation (for a  *)
(* proposal, the approve that reached the quorum), d the device it is      *)
(* attributed to (for a proposal, the proposer's).                         *)
(***************************************************************************)

\* The first key of a member has the cap (owner, all).
FirstDevice(u, keys, seq) ==
    [user |-> u, enc |-> keys.enc, sig |-> keys.sig,
     roleCap |-> "owner", scope |-> ALL_SCOPE, addedSeq |-> seq]

ApplyAddMember(op, seq) ==
    /\ members' = WithKey(members, op.target, [role |-> op.role, scope |-> op.scope])
    /\ devices' = devices \cup {FirstDevice(op.target, op, seq)}
    /\ memberEncPubs' = memberEncPubs \cup {op.enc}
    /\ memberSigPubs' = memberSigPubs \cup {op.sig}
    /\ UNCHANGED <<grantVars, envVars, approvalPolicy>>

\* Full replacement with the new (role, scope).
ApplyChangeRole(op) ==
    /\ members' = WithKey(members, op.target, [role |-> op.role, scope |-> op.scope])
    /\ UNCHANGED <<devices, memberEncPubs, memberSigPubs, grantVars, envVars, approvalPolicy>>

\* Devices leave the chain and the key indexes together.
DropDevices(D) ==
    /\ devices' = devices \ D
    /\ memberEncPubs' = memberEncPubs \ {x.enc : x \in D}
    /\ memberSigPubs' = memberSigPubs \ {x.sig : x \in D}

\* Variant: the person goes, the device keys stay.
RemoveMemberOnly(op) ==
    /\ members' = WithoutKey(members, op.target)
    /\ UNCHANGED <<devices, memberEncPubs, memberSigPubs, grantVars, envVars, approvalPolicy>>

ApplyRemoveMember(op) ==
    /\ members' = WithoutKey(members, op.target)
    /\ DropDevices(DevicesOf(op.target))
    /\ UNCHANGED <<grantVars, envVars, approvalPolicy>>

ApplyAddDevice(op, d, seq) ==
    /\ devices' = devices \cup {[user |-> d.user, enc |-> op.enc, sig |-> op.sig,
                                 roleCap |-> op.roleCap, scope |-> op.scope, addedSeq |-> seq]}
    /\ memberEncPubs' = memberEncPubs \cup {op.enc}
    /\ memberSigPubs' = memberSigPubs \cup {op.sig}
    /\ UNCHANGED <<members, grantVars, envVars, approvalPolicy>>

ApplyRevokeDevice(op) ==
    /\ DropDevices(RevokedDevices(op))
    /\ UNCHANGED <<members, grantVars, envVars, approvalPolicy>>

ApplyGrantServer(op, seq) ==
    /\ serverGrants' = WithKey(serverGrants, op.enc, [ids |-> op.ids, grantSeq |-> seq])
    /\ namedServerKeys' = namedServerKeys \cup {op.enc}
    /\ UNCHANGED <<memberVars, envVars, approvalPolicy>>

ApplyRevokeServer(op) ==
    /\ serverGrants' = WithoutKey(serverGrants, op.enc)
    /\ UNCHANGED <<memberVars, namedServerKeys, envVars, approvalPolicy>>

EnvironmentsAfterCreate(op, seq) ==
    WithKey(environments, op.env,
        [epoch |-> 1, createdAt |-> seq, deletedAt |-> 0, epochStarts |-> <<seq>>])

ApplyCreateEnvironment(op, seq) ==
    /\ environments' = EnvironmentsAfterCreate(op, seq)
    /\ UNCHANGED <<memberVars, grantVars, checkpoints, approvalPolicy>>

EnvironmentsAfterRotate(op, seq) ==
    [environments EXCEPT ![op.env].epoch = op.epoch,
                         ![op.env].epochStarts = Append(@, seq)]

ApplyRotateEpoch(op, seq) ==
    /\ environments' = EnvironmentsAfterRotate(op, seq)
    /\ UNCHANGED <<memberVars, grantVars, checkpoints, approvalPolicy>>

\* The environment stays, marked deleted; its id leaves every listed scope.
ApplyDeleteEnvironment(op, seq) ==
    /\ environments' = [environments EXCEPT ![op.env].deletedAt = seq]
    /\ members' = [u \in DOMAIN members |->
           [role |-> members[u].role, scope |-> ScopeWithout(members[u].scope, op.env)]]
    /\ devices' = {[x EXCEPT !.scope = ScopeWithout(x.scope, op.env)] : x \in devices}
    /\ serverGrants' = [k \in DOMAIN serverGrants |->
           [ids |-> serverGrants[k].ids \ {op.env}, grantSeq |-> serverGrants[k].grantSeq]]
    /\ checkpoints' = WithoutKey(checkpoints, op.env)
    /\ UNCHANGED <<memberEncPubs, memberSigPubs, namedServerKeys, approvalPolicy>>

CheckpointOf(t, seq) ==
    [seq |-> seq, epoch |-> t.epoch, version |-> t.version, hash |-> t.hash]

\* The latest checkpoints (a map as checkpoints) with those of op in place.
WithTuples(latest, op, seq) ==
    LET attested == {t.env : t \in op.tuples}
    IN  [e \in DOMAIN latest \cup attested |->
            IF e \in attested
            THEN CheckpointOf(CHOOSE t \in op.tuples : t.env = e, seq)
            ELSE latest[e]]

ApplyCheckpoint(op, seq) ==
    /\ checkpoints' = WithTuples(checkpoints, op, seq)
    /\ UNCHANGED <<memberVars, grantVars, environments, approvalPolicy>>

\* Zero required approvals is the same as a policy never established.
ApplySetApprovalPolicy(op) ==
    /\ approvalPolicy' = IF op.policy.required = 0 THEN NoPolicy ELSE op.policy
    /\ UNCHANGED <<memberVars, grantVars, envVars>>

Apply(op, d, seq) ==
    /\ \/ op.op = "add_member" /\ ApplyAddMember(op, seq)
       \/ op.op = "change_role" /\ ApplyChangeRole(op)
       \/ op.op = "remove_member" /\ ApplyRemoveMember(op)
       \/ op.op = "add_device" /\ ApplyAddDevice(op, d, seq)
       \/ op.op = "revoke_device" /\ ApplyRevokeDevice(op)
       \/ op.op = "grant_server" /\ ApplyGrantServer(op, seq)
       \/ op.op = "revoke_server" /\ ApplyRevokeServer(op)
       \/ op.op = "create_environment" /\ ApplyCreateEnvironment(op, seq)
       \/ op.op = "rotate_epoch" /\ ApplyRotateEpoch(op, seq)
       \/ op.op = "delete_environment" /\ ApplyDeleteEnvironment(op, seq)
       \/ op.op = "checkpoint" /\ ApplyCheckpoint(op, seq)
       \/ op.op = "set_approval_policy" /\ ApplySetApprovalPolicy(op)
    /\ applied' = [operation |-> op, by |-> d]

\* An entry that records or closes a proposal applies nothing.
ApplyNothing(d) ==
    /\ applied' = [operation |-> Nothing, by |-> d]
    /\ UNCHANGED <<memberVars, grantVars, envVars, approvalPolicy>>

(***************************************************************************)
(* Entries.  d is the device that signs: one on the chain (actor           *)
(* resolution), so a removed member or a revoked device signs no entry.    *)
(***************************************************************************)

Signs(d) ==
    /\ headSeq < MaxChainEntries
    /\ d \in devices
    /\ headSeq' = headSeq + 1

\* History variable: what an owner has signed for a proposal, whatever the rules make of it.
Ballot(id, d) ==
    {b \in {[proposal |-> id, vote |-> VoteOf(d)]} : PermissionOf(d).role = "owner"}

Direct(d, op) ==
    /\ Signs(d)
    /\ RoleRule(op, d)
    /\ ~IsApprovalTarget(op, approvalPolicy)
    /\ ConsensusRule(op, d)
    /\ Apply(op, d, headSeq + 1)
    /\ UNCHANGED <<pendingProposals, ballots>>

Propose(d, op, expires) ==
    /\ Signs(d)
    /\ RoleRule(op, d)
    /\ IsApprovalTarget(op, approvalPolicy)
    /\ ConsensusRule(op, d)
    /\ pendingProposals' = WithKey(pendingProposals, headSeq + 1,
           [proposer |-> VoteOf(d), roleAtProposal |-> PermissionOf(d).role,
            inner |-> op, expiresAt |-> expires, approvals |-> {}])
    /\ ballots' = ballots \cup Ballot(headSeq + 1, d)
    /\ ApplyNothing(d)

\* Checks on an approve before it is counted.
ApproveVoteRule(d, id, now) ==
    /\ PermissionOf(d).role = "owner"
    /\ id \in DOMAIN pendingProposals
    /\ ~\E v \in ApprovalSigners(pendingProposals[id]) : v.user = d.user /\ IsLiveVote(v)
    /\ IsApprovalTarget(pendingProposals[id].inner, approvalPolicy)
    /\ now <= pendingProposals[id].expiresAt

ReachesQuorum(d, id) ==
    Cardinality(OwnerVoters(ApprovalSigners(pendingProposals[id]) \cup {VoteOf(d)}))
        >= approvalPolicy.required

ApproveVote(d, id, now) ==
    /\ Signs(d)
    /\ ApproveVoteRule(d, id, now)
    /\ ~ReachesQuorum(d, id)
    /\ pendingProposals' = [pendingProposals EXCEPT ![id].approvals = @ \cup {VoteOf(d)}]
    /\ ballots' = ballots \cup Ballot(id, d)
    /\ ApplyNothing(d)

\* The proposer's device must still be valid and still allowed to do this.
ApproveComplete(d, id, now) ==
    /\ Signs(d)
    /\ ApproveVoteRule(d, id, now)
    /\ ReachesQuorum(d, id)
    /\ \E proposer \in devices :
          /\ VoteOf(proposer) = pendingProposals[id].proposer
          /\ RoleRule(pendingProposals[id].inner, proposer)
          /\ ConsensusRule(pendingProposals[id].inner, proposer)
          /\ Apply(pendingProposals[id].inner, proposer, headSeq + 1)
    /\ pendingProposals' = WithoutKey(pendingProposals, id)
    /\ ballots' = ballots \cup Ballot(id, d)

Withdraw(d, id) ==
    /\ Signs(d)
    /\ id \in DOMAIN pendingProposals
    /\ PermissionOf(d).role = "owner" \/ pendingProposals[id].proposer.user = d.user
    /\ pendingProposals' = WithoutKey(pendingProposals, id)
    /\ ApplyNothing(d)
    /\ UNCHANGED ballots

\* The state the genesis entry leaves.
Init ==
    \E g \in GenesisEntries :
        /\ members = [u \in {g.user} |-> [role |-> "owner", scope |-> ALL_SCOPE]]
        /\ devices = {FirstDevice(g.user, g, 1)}
        /\ memberEncPubs = {g.enc}
        /\ memberSigPubs = {g.sig}
        /\ serverGrants = [k \in {} |-> Nothing]
        /\ environments = [e \in {} |-> Nothing]
        /\ checkpoints = [e \in {} |-> Nothing]
        /\ namedServerKeys = {}
        /\ approvalPolicy = NoPolicy
        /\ pendingProposals = [i \in {} |-> Nothing]
        /\ headSeq = 1
        /\ applied = [operation |-> Genesis, by |-> FirstDevice(g.user, g, 1)]
        /\ ballots = {}

Next ==
    \E d \in devices :
        \/ \E op \in Operations : Direct(d, op)
        \/ \E op \in Operations, expires \in Timestamps : Propose(d, op, expires)
        \/ \E id \in DOMAIN pendingProposals, now \in Timestamps : ApproveVote(d, id, now)
        \/ \E id \in DOMAIN pendingProposals, now \in Timestamps : ApproveComplete(d, id, now)
        \/ \E id \in DOMAIN pendingProposals : Withdraw(d, id)

Spec == Init /\ [][Next]_vars

(***************************************************************************)
(* Safety invariants.                                                      *)
(***************************************************************************)

\* Every public key on the chain leads back to one subject: no two devices share
\* an enc or a sig key, no device holds a key that a grant has ever named, and the
\* indexes that the uniqueness rule reads hold exactly the keys of the current
\* devices (indexDeviceKeys, unindexDeviceKeys, registersTakenKey).
KeySubjectsUnique ==
    /\ \A c, d \in devices : c.enc = d.enc \/ c.sig = d.sig => c = d
    /\ memberEncPubs = {d.enc : d \in devices}
    /\ memberSigPubs = {d.sig : d \in devices}
    /\ namedServerKeys \cap memberEncPubs = {}
    /\ DOMAIN serverGrants \subseteq namedServerKeys

\* Nobody is left on the chain without a key and no key without its person, so
\* every member can still sign and a removed one cannot (last-device-protected,
\* remove_member ending all devices at once).
PeopleMatchDevices == {d.user : d \in devices} = DOMAIN members

\* There is always an owner, an owner always holds scope "all", and while
\* four-eyes is on there are enough owners to approve something
\* (last-owner-protected, scope-role-mismatch, approval-quorum-unreachable).
GovernanceReachable ==
    /\ Owners # {}
    /\ \A u \in Owners : members[u].scope = ALL_SCOPE
    /\ Cardinality(Owners) >= approvalPolicy.required

\* No scope a right is derived from names a deleted environment, and those of
\* people and devices name only created ones; nothing attests a deleted
\* environment (the pruning of delete_environment).
DeletedEnvironmentsForgotten ==
    /\ \A u \in DOMAIN members : members[u].scope.ids \subseteq LiveEnvironments
    /\ \A d \in devices : d.scope.ids \subseteq LiveEnvironments
    /\ \A k \in DOMAIN serverGrants, e \in Envs : e \in serverGrants[k].ids => ~IsDeleted(e)
    /\ DOMAIN checkpoints \subseteq LiveEnvironments

\* Epochs are numbered from 1 without gaps and start in chain order inside the
\* life of their environment; the latest checkpoint of an environment attests
\* the epoch that was current at the entry carrying it.
EpochsAndCheckpointsOrdered ==
    /\ \A e \in DOMAIN environments :
          LET env == environments[e]
          IN  /\ env.epoch = Len(env.epochStarts)
              /\ env.epochStarts[1] = env.createdAt
              /\ \A i, j \in 1..env.epoch : i < j => env.epochStarts[i] < env.epochStarts[j]
              /\ env.deletedAt # 0 => env.epochStarts[env.epoch] < env.deletedAt
    /\ \A e \in DOMAIN checkpoints :
          LET env == environments[e]
              c   == checkpoints[e]
          IN  /\ c.epoch \in 1..env.epoch
              /\ env.epochStarts[c.epoch] < c.seq
              /\ c.epoch < env.epoch => c.seq < env.epochStarts[c.epoch + 1]

(***************************************************************************)
(* Action properties.                                                      *)
(***************************************************************************)

\* The rank a device acts with in environment e (the future ones included), -1 if it has no access.
RankIn(d, e) ==
    IF e \in Denotation(PermissionOf(d).scope) THEN ROLE_RANK(PermissionOf(d).role) ELSE -1

\* The rank of the device with d's keys (-1 if there is none).
RankOfKey(v, e) ==
    IF IsLiveVote(v) THEN RankIn(CHOOSE d \in devices : VoteOf(d) = v, e) ELSE -1

EscalatesNothing ==
    \A d \in devices', e \in Universe :
        RankIn(d, e)' > RankOfKey(VoteOf(d), e) =>
            RankOfKey(VoteOf(applied'.by), e) >= RankIn(d, e)'

\* No privilege out of nothing: when an entry raises what some device may do in
\* some environment, created or not, the device the entry is attributed to had
\* at least that rank in that same environment just before (the role table,
\* principle 1 and principle D2 taken together).
NoEscalation == [][EscalatesNothing]_vars

ShieldsAdmins ==
    \A d \in devices, e \in Universe :
        /\ AtLeast(members[d.user].role, "admin")
        /\ ~IsDeleted(e)'
        /\ RankOfKey(VoteOf(d), e)' < RankIn(d, e)
        => \/ applied'.by.user = d.user
           \/ PermissionOf(applied'.by).role = "owner"

\* An admin or an owner loses rights in a live environment, or a device, only by
\* an act of an owner's device or of their own (targetRoleReason).
AdminsShielded == [][ShieldsAdmins]_vars

\* The rank of a person in environment e, -1 if it is outside their scope.
PersonRank(u, e) ==
    IF u \in DOMAIN members /\ e \in Denotation(members[u].scope)
    THEN ROLE_RANK(members[u].role) ELSE -1

ChangesWithinScope ==
    \A u \in Users, e \in Universe :
        PersonRank(u, e)' # PersonRank(u, e) =>
            e \in Denotation(PermissionOf(applied'.by).scope)

\* Principle 1 for people: an entry changes a person's role or reach only in
\* environments within the effective scope of the device it is attributed to.
ChangesContained == [][ChangesWithinScope]_vars

\* What a policy in force protects: itself, the set of owners from growing, and
\* the operations it lists.
ProtectedChange ==
    LET listed(op) == op \in approvalPolicy.ops
        current == DOMAIN members \cap DOMAIN members'
    IN  \/ approvalPolicy' # approvalPolicy
        \/ ~(Owners' \subseteq Owners)
        \/ listed("add_member") /\ ~(DOMAIN members' \subseteq DOMAIN members)
        \/ listed("remove_member") /\ ~(DOMAIN members \subseteq DOMAIN members')
        \/ /\ listed("change_role")
           /\ \E u \in current : \/ members[u].role # members'[u].role
                                 \/ ~ScopeContains(members[u].scope, members'[u].scope)
        \/ /\ listed("grant_server")
           /\ \E k \in DOMAIN serverGrants' : \/ k \notin DOMAIN serverGrants
                                              \/ ~(serverGrants'[k].ids \subseteq serverGrants[k].ids)
        \/ listed("revoke_server") /\ ~(DOMAIN serverGrants \subseteq DOMAIN serverGrants')

ApprovedByOwners ==
    approvalPolicy.required # 0 /\ ProtectedChange =>
        \E id \in DOMAIN pendingProposals \ DOMAIN pendingProposals' :
            Cardinality({u \in Owners : \E b \in ballots' : /\ b.proposal = id
                                                            /\ b.vote.user = u
                                                            /\ IsLiveVote(b.vote)})
                >= approvalPolicy.required

\* Four eyes: while a policy is in force, nothing it protects changes unless the
\* entry closes a proposal for which as many distinct people as the policy asks,
\* all of them owners now and voting from devices that are theirs now, have put
\* an owner's signature (isApprovalTarget, approveVoteReason, countOwnerVotes).
FourEyes == [][ApprovedByOwners]_vars

=============================================================================
