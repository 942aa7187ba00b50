------------------------------ MODULE ChainProofs ------------------------------
(***************************************************************************)
(* Theorems about MembershipChain and ChainHistory: what holds of every    *)
(* chain the verifier accepts, however many people, keys, environments and *)
(* entries it has.                                                         *)
(*                                                                         *)
(* First what is well formed: types, keys, the order of epochs, what is    *)
(* forgotten with an environment.  Then authority and consent: that        *)
(* governance never locks itself out, that no entry creates rights its     *)
(* signer lacks, that an entry changes what people may do only within the  *)
(* reach of the device it is attributed to, that admins lose rights only   *)
(* through owners or themselves, and that what a policy protects changes   *)
(* only with as many owners' signatures as the policy asks for.  Last the  *)
(* history index: equivocation is never forgotten and never invented, and  *)
(* time travel is exact.                                                   *)
(***************************************************************************)
EXTENDS ChainHistory, FiniteSetTheorems, TLAPS

(***************************************************************************)
(* Typing.                                                                 *)
(***************************************************************************)

\* An operation is of the shape its tag announces (checkPayloadShape).
LEMMA OperationShapes ==
    ASSUME NEW op \in Operations
    PROVE  /\ op.op = "add_member" => op \in AddMemberOps
           /\ op.op = "change_role" => op \in ChangeRoleOps
           /\ op.op = "remove_member" => op \in RemoveMemberOps
           /\ op.op = "add_device" => op \in AddDeviceOps
           /\ op.op = "revoke_device" => op \in RevokeDeviceOps
           /\ op.op = "grant_server" => op \in GrantServerOps
           /\ op.op = "revoke_server" => op \in RevokeServerOps
           /\ op.op = "create_environment" => op \in EnvironmentOps
           /\ op.op = "delete_environment" => op \in EnvironmentOps
           /\ op.op = "rotate_epoch" => op \in RotateEpochOps
           /\ op.op = "checkpoint" => op \in CheckpointOps
           /\ op.op = "set_approval_policy" => op \in PolicyOps
<1>1. op \in WellFormedOperations
  BY OperationsAssumption
<1>2. QED
  BY <1>1 DEF WellFormedOperations, AddMemberOps, ChangeRoleOps, RemoveMemberOps, AddDeviceOps,
     RevokeDeviceOps, GrantServerOps, RevokeServerOps, EnvironmentOps, RotateEpochOps,
     CheckpointOps, PolicyOps

\* Map.set keeps a map a map.
LEMMA WithKeyType ==
    ASSUME NEW f, NEW S, NEW T, NEW k \in S, NEW v \in T, IsMap(f, S, T)
    PROVE  IsMap(WithKey(f, k, v), S, T)
BY DEF IsMap, WithKey

\* Map.delete keeps a map a map.
LEMMA WithoutKeyType ==
    ASSUME NEW f, NEW S, NEW T, NEW k, IsMap(f, S, T)
    PROVE  IsMap(WithoutKey(f, k), S, T)
BY DEF IsMap, WithoutKey

\* Scopes are closed under the operations the chain applies to them.
LEMMA ScopeTypes ==
    /\ ALL_SCOPE \in Scopes
    /\ \A s \in Scopes, e \in Envs : ScopeWithout(s, e) \in Scopes
    /\ \A s, t \in Scopes : IntersectScopes(s, t) \in Scopes
BY DEF Scopes, ALL_SCOPE, ScopeWithout, Listed, IntersectScopes

\* The part of the type invariant that an applied operation may disturb.
StateType ==
    /\ IsMap(members, Users, MemberStates)
    /\ devices \in SUBSET DeviceRecords
    /\ IsMap(serverGrants, EncKeys, Grants)
    /\ IsMap(environments, Envs, EnvironmentStates)
    /\ IsMap(checkpoints, Envs, CheckpointStates)
    /\ memberEncPubs \in SUBSET EncKeys
    /\ memberSigPubs \in SUBSET SigKeys
    /\ namedServerKeys \in SUBSET EncKeys
    /\ approvalPolicy \in Policies

\* The first device of a member is a device record.
LEMMA FirstDeviceType ==
    ASSUME NEW u \in Users, NEW k, k.enc \in EncKeys, k.sig \in SigKeys, NEW seq \in Nat
    PROVE  FirstDevice(u, k, seq) \in DeviceRecords
BY ScopeTypes DEF FirstDevice, DeviceRecords, Roles

\* Applying a well-formed operation that passed its consensus rule keeps every
\* part of the state well-formed.
LEMMA ApplyType ==
    ASSUME StateType, NEW op \in Operations, NEW d \in devices, NEW seq \in Nat,
           ConsensusRule(op, d), Apply(op, d, seq)
    PROVE  StateType'
<1> USE DEF StateType
<1>0. d \in DeviceRecords
  OBVIOUS
<1>1. CASE op.op = "add_member" /\ ApplyAddMember(op, seq)
  <2>1. op \in AddMemberOps
    BY <1>1, OperationShapes
  <2>2. IsMap(members', Users, MemberStates)
    BY <1>1, <2>1, WithKeyType DEF ApplyAddMember, AddMemberOps, MemberStates
  <2>3. devices' \in SUBSET DeviceRecords
    BY <1>1, <2>1, FirstDeviceType DEF ApplyAddMember, AddMemberOps
  <2>4. QED
    BY <1>1, <2>1, <2>2, <2>3 DEF ApplyAddMember, AddMemberOps, grantVars, envVars
<1>2. CASE op.op = "change_role" /\ ApplyChangeRole(op)
  <2>1. op \in ChangeRoleOps
    BY <1>2, OperationShapes
  <2>2. IsMap(members', Users, MemberStates)
    BY <1>2, <2>1, WithKeyType DEF ApplyChangeRole, ChangeRoleOps, MemberStates
  <2>3. QED
    BY <1>2, <2>2 DEF ApplyChangeRole, grantVars, envVars
<1>3. CASE op.op = "remove_member" /\ ApplyRemoveMember(op)
  <2>1. IsMap(members', Users, MemberStates)
    BY <1>3, WithoutKeyType DEF ApplyRemoveMember
  <2>2. QED
    BY <1>3, <2>1 DEF ApplyRemoveMember, DropDevices, grantVars, envVars
<1>4. CASE op.op = "add_device" /\ ApplyAddDevice(op, d, seq)
  <2>1. op \in AddDeviceOps
    BY <1>4, OperationShapes
  <2>2. devices' \in SUBSET DeviceRecords
    BY <1>0, <1>4, <2>1 DEF ApplyAddDevice, AddDeviceOps, DeviceRecords
  <2>3. QED
    BY <1>4, <2>1, <2>2 DEF ApplyAddDevice, AddDeviceOps, grantVars, envVars
<1>5. CASE op.op = "revoke_device" /\ ApplyRevokeDevice(op)
  BY <1>5 DEF ApplyRevokeDevice, DropDevices, grantVars, envVars
<1>6. CASE op.op = "grant_server" /\ ApplyGrantServer(op, seq)
  <2>1. op \in GrantServerOps
    BY <1>6, OperationShapes
  <2>2. IsMap(serverGrants', EncKeys, Grants)
    BY <1>6, <2>1, WithKeyType DEF ApplyGrantServer, GrantServerOps, Grants
  <2>3. QED
    BY <1>6, <2>1, <2>2 DEF ApplyGrantServer, GrantServerOps, memberVars, envVars
<1>7. CASE op.op = "revoke_server" /\ ApplyRevokeServer(op)
  <2>1. IsMap(serverGrants', EncKeys, Grants)
    BY <1>7, WithoutKeyType DEF ApplyRevokeServer
  <2>2. QED
    BY <1>7, <2>1 DEF ApplyRevokeServer, memberVars, envVars
<1>8. CASE op.op = "create_environment" /\ ApplyCreateEnvironment(op, seq)
  <2>1. op \in EnvironmentOps
    BY <1>8, OperationShapes
  <2>2. [epoch |-> 1, createdAt |-> seq, deletedAt |-> 0, epochStarts |-> <<seq>>]
            \in EnvironmentStates
    BY DEF EnvironmentStates
  <2>3. IsMap(environments', Envs, EnvironmentStates)
    BY <1>8, <2>1, <2>2, WithKeyType DEF ApplyCreateEnvironment, EnvironmentsAfterCreate, EnvironmentOps
  <2>4. QED
    BY <1>8, <2>3 DEF ApplyCreateEnvironment, EnvironmentsAfterCreate, memberVars, grantVars
<1>9. CASE op.op = "rotate_epoch" /\ ApplyRotateEpoch(op, seq)
  <2>1. op \in RotateEpochOps /\ op.env \in DOMAIN environments
    BY <1>9, OperationShapes DEF ConsensusRule, RotateEpochRule, LiveEnvironments
  <2>2. environments[op.env] \in EnvironmentStates
    BY <2>1 DEF IsMap
  <2>3. Append(environments[op.env].epochStarts, seq) \in Seq(Nat)
    BY <2>2 DEF EnvironmentStates
  <2>4. IsMap(environments', Envs, EnvironmentStates)
    BY <1>9, <2>1, <2>2, <2>3
    DEF ApplyRotateEpoch, EnvironmentsAfterRotate, RotateEpochOps, EnvironmentStates, IsMap
  <2>5. QED
    BY <1>9, <2>4 DEF ApplyRotateEpoch, EnvironmentsAfterRotate, memberVars, grantVars
<1>10. CASE op.op = "delete_environment" /\ ApplyDeleteEnvironment(op, seq)
  <2>1. op \in EnvironmentOps /\ op.env \in Envs
    BY <1>10, OperationShapes DEF EnvironmentOps
  <2>2. IsMap(members', Users, MemberStates)
    BY <1>10, <2>1, ScopeTypes DEF ApplyDeleteEnvironment, IsMap, MemberStates
  <2>3. devices' \in SUBSET DeviceRecords
    BY <1>10, <2>1, ScopeTypes DEF ApplyDeleteEnvironment, DeviceRecords
  <2>4. IsMap(serverGrants', EncKeys, Grants)
    BY <1>10 DEF ApplyDeleteEnvironment, IsMap, Grants
  <2>5. IsMap(environments', Envs, EnvironmentStates)
    BY <1>10 DEF ApplyDeleteEnvironment, IsMap, EnvironmentStates
  <2>6. IsMap(checkpoints', Envs, CheckpointStates)
    BY <1>10, WithoutKeyType DEF ApplyDeleteEnvironment
  <2>7. QED
    BY <1>10, <2>2, <2>3, <2>4, <2>5, <2>6 DEF ApplyDeleteEnvironment
<1>11. CASE op.op = "checkpoint" /\ ApplyCheckpoint(op, seq)
  <2>1. op.tuples \in CheckpointTuples
    BY <1>11, OperationShapes DEF CheckpointOps
  <2>2. \A t \in op.tuples : t \in [env : Envs, epoch : Nat, version : Nat, hash : ManifestHashes]
    BY <2>1 DEF CheckpointTuples
  <2>3. \A t \in op.tuples : CheckpointOf(t, seq) \in CheckpointStates /\ t.env \in Envs
    BY <2>2 DEF CheckpointOf, CheckpointStates
  <2> DEFINE attested == {t.env : t \in op.tuples}
  <2>4. \A e \in attested : (CHOOSE t \in op.tuples : t.env = e) \in op.tuples
    OBVIOUS
  <2>5. IsMap(checkpoints', Envs, CheckpointStates)
    <3>1. checkpoints' = [e \in DOMAIN checkpoints \cup attested |->
                            IF e \in attested
                            THEN CheckpointOf(CHOOSE t \in op.tuples : t.env = e, seq)
                            ELSE checkpoints[e]]
      BY <1>11 DEF ApplyCheckpoint, WithTuples
    <3>2. attested \subseteq Envs
      BY <2>3
    <3> HIDE DEF attested
    <3>3. QED
      BY <2>3, <2>4, <3>1, <3>2 DEF IsMap
  <2>6. QED
    BY <1>11, <2>5 DEF ApplyCheckpoint, WithTuples, memberVars, grantVars
<1>12. CASE op.op = "set_approval_policy" /\ ApplySetApprovalPolicy(op)
  <2>1. op.policy \in Policies
    BY <1>12, OperationShapes DEF PolicyOps
  <2>2. NoPolicy \in Policies
    BY DEF NoPolicy, Policies
  <2>3. QED
    BY <1>12, <2>1, <2>2 DEF ApplySetApprovalPolicy, memberVars, grantVars, envVars
<1>13. QED
  BY <1>1, <1>2, <1>3, <1>4, <1>5, <1>6, <1>7, <1>8, <1>9, <1>10, <1>11, <1>12 DEF Apply

\* A device signs with a vote.
LEMMA VoteType ==
    ASSUME NEW d \in DeviceRecords
    PROVE  VoteOf(d) \in Votes
BY DEF VoteOf, Votes, DeviceRecords

\* What a device of a member may do is a role in a scope.
LEMMA EffectiveRoleType ==
    ASSUME StateType, NEW d \in devices, d.user \in DOMAIN members
    PROVE  PermissionOf(d).role \in Roles /\ PermissionOf(d).scope \in Scopes
<1>1. d \in DeviceRecords /\ members[d.user] \in MemberStates
  BY DEF StateType, IsMap
<1>2. QED
  BY <1>1, ScopeTypes
  DEF PermissionOf, EffectivePermission, MinRole, DeviceRecords, MemberStates

\* Typing needs to know that a device's person is a member, because a proposal
\* records the effective role its device had.
TypeInvariant == TypeOK /\ PeopleMatchDevices

\* The chain state stays well-formed under every accepted entry.
LEMMA TypeStep ==
    ASSUME TypeInvariant, [Next]_vars
    PROVE  TypeOK'
<1> SUFFICES ASSUME Next PROVE TypeOK'
  BY DEF TypeInvariant, TypeOK, vars, memberVars, grantVars, envVars, IsMap
<1>0. StateType /\ headSeq \in Nat /\ headSeq + 1 \in Nat
  BY DEF TypeInvariant, TypeOK, StateType
<1>1. ASSUME NEW d \in devices, NEW op \in Operations, Direct(d, op)
      PROVE  TypeOK'
  <2>1. StateType'
    BY <1>0, <1>1, ApplyType DEF Direct
  <2>2. applied' = [operation |-> op, by |-> d]
    BY <1>1 DEF Direct, Apply
  <2>3. op \in WellFormedOperations
    BY OperationsAssumption
  <2>4. QED
    BY <1>0, <1>1, <2>1, <2>2, <2>3 DEF Direct, Signs, TypeOK, StateType, TypeInvariant
<1>2. ASSUME NEW d \in devices, NEW op \in Operations, NEW expires \in Timestamps,
             Propose(d, op, expires)
      PROVE  TypeOK'
  <2>1. d \in DeviceRecords /\ d.user \in DOMAIN members
    BY <1>0 DEF StateType, TypeInvariant, PeopleMatchDevices
  <2>2. VoteOf(d) \in Votes /\ PermissionOf(d).role \in Roles
    BY <1>0, <2>1, VoteType, EffectiveRoleType
  <2>3. [proposer |-> VoteOf(d), roleAtProposal |-> PermissionOf(d).role,
         inner |-> op, expiresAt |-> expires, approvals |-> {}] \in Proposals
    BY <2>2 DEF Proposals
  <2>4. IsMap(pendingProposals', Nat, Proposals)
    BY <1>0, <1>2, <2>3, WithKeyType DEF Propose, TypeInvariant, TypeOK
  <2>5. ballots' \in SUBSET Ballots
    BY <1>0, <1>2, <2>2 DEF Propose, Ballot, Ballots, TypeInvariant, TypeOK
  <2>6. StateType'
    BY <1>0, <1>2 DEF Propose, ApplyNothing, StateType, memberVars, grantVars, envVars, IsMap
  <2>7. QED
    BY <1>0, <1>2, <2>1, <2>4, <2>5, <2>6
    DEF Propose, Signs, ApplyNothing, TypeOK, StateType
<1>3. ASSUME NEW d \in devices, NEW id \in DOMAIN pendingProposals, NEW now \in Timestamps,
             ApproveVote(d, id, now)
      PROVE  TypeOK'
  <2>1. d \in DeviceRecords
    BY <1>0 DEF StateType
  <2>2. VoteOf(d) \in Votes
    BY <2>1, VoteType
  <2>3. IsMap(pendingProposals', Nat, Proposals)
    BY <1>3, <2>2 DEF ApproveVote, TypeInvariant, TypeOK, IsMap, Proposals
  <2>4. ballots' \in SUBSET Ballots
    BY <1>3, <2>2 DEF ApproveVote, Ballot, Ballots, TypeInvariant, TypeOK, IsMap
  <2>5. StateType'
    BY <1>0, <1>3 DEF ApproveVote, ApplyNothing, StateType, memberVars, grantVars, envVars, IsMap
  <2>6. QED
    BY <1>0, <1>3, <2>1, <2>3, <2>4, <2>5
    DEF ApproveVote, Signs, ApplyNothing, TypeOK, StateType
<1>4. ASSUME NEW d \in devices, NEW id \in DOMAIN pendingProposals, NEW now \in Timestamps,
             ApproveComplete(d, id, now)
      PROVE  TypeOK'
  <2>1. pendingProposals[id] \in Proposals /\ id \in Nat
    BY DEF TypeInvariant, TypeOK, IsMap
  <2>2. PICK proposer \in devices :
            /\ ConsensusRule(pendingProposals[id].inner, proposer)
            /\ Apply(pendingProposals[id].inner, proposer, headSeq + 1)
    BY <1>4 DEF ApproveComplete
  <2>3. /\ pendingProposals[id].inner \in Operations
        /\ pendingProposals[id].inner \in WellFormedOperations
    BY <2>1, OperationsAssumption DEF Proposals
  <2>4. StateType'
    BY <1>0, <2>2, <2>3, ApplyType
  <2>5. applied' = [operation |-> pendingProposals[id].inner, by |-> proposer]
    BY <2>2 DEF Apply
  <2>6. IsMap(pendingProposals', Nat, Proposals)
    BY <1>4, WithoutKeyType DEF ApproveComplete, TypeInvariant, TypeOK
  <2>7. VoteOf(d) \in Votes
    BY <1>0, VoteType DEF StateType
  <2>8. ballots' \in SUBSET Ballots
    BY <1>4, <2>1, <2>7 DEF ApproveComplete, Ballot, Ballots, TypeInvariant, TypeOK
  <2>9. QED
    BY <1>0, <1>4, <2>3, <2>4, <2>5, <2>6, <2>8
    DEF ApproveComplete, Signs, TypeOK, StateType
<1>5. ASSUME NEW d \in devices, NEW id \in DOMAIN pendingProposals, Withdraw(d, id)
      PROVE  TypeOK'
  <2>1. IsMap(pendingProposals', Nat, Proposals)
    BY <1>5, WithoutKeyType DEF Withdraw, TypeInvariant, TypeOK
  <2>2. StateType'
    BY <1>0, <1>5 DEF Withdraw, ApplyNothing, StateType, memberVars, grantVars, envVars, IsMap
  <2>3. QED
    BY <1>0, <1>5, <2>1, <2>2
    DEF Withdraw, Signs, ApplyNothing, TypeOK, StateType, TypeInvariant
<1>6. QED
  BY <1>1, <1>2, <1>3, <1>4, <1>5 DEF Next

(***************************************************************************)
(* Every accepted entry either applies one operation, attributed to a      *)
(* device on the chain that passed the operation's rules in the state      *)
(* before it, or leaves everything but the proposals alone.                *)
(***************************************************************************)

StateUnchanged == UNCHANGED <<memberVars, grantVars, envVars, approvalPolicy>>

\* An entry applies an operation that passed its rules, or leaves the derived state alone.
LEMMA StepCases ==
    ASSUME TypeOK, [Next]_vars
    PROVE  \/ \E d \in devices, op \in Operations :
                 RoleRule(op, d) /\ ConsensusRule(op, d) /\ Apply(op, d, headSeq + 1)
           \/ StateUnchanged
<1>1. ASSUME NEW d \in devices, NEW op \in Operations, Direct(d, op)
      PROVE  RoleRule(op, d) /\ ConsensusRule(op, d) /\ Apply(op, d, headSeq + 1)
  BY <1>1 DEF Direct
<1>2. ASSUME NEW d \in devices, NEW op \in Operations, NEW expires \in Timestamps,
             Propose(d, op, expires)
      PROVE  StateUnchanged
  BY <1>2 DEF Propose, ApplyNothing, StateUnchanged
<1>3. ASSUME NEW d \in devices, NEW id \in DOMAIN pendingProposals, NEW now \in Timestamps,
             ApproveVote(d, id, now)
      PROVE  StateUnchanged
  BY <1>3 DEF ApproveVote, ApplyNothing, StateUnchanged
<1>4. ASSUME NEW d \in devices, NEW id \in DOMAIN pendingProposals, NEW now \in Timestamps,
             ApproveComplete(d, id, now)
      PROVE  \E p \in devices, op \in Operations :
                 RoleRule(op, p) /\ ConsensusRule(op, p) /\ Apply(op, p, headSeq + 1)
  <2>1. pendingProposals[id].inner \in Operations
    BY DEF TypeOK, IsMap, Proposals
  <2>2. QED
    BY <1>4, <2>1 DEF ApproveComplete
<1>5. ASSUME NEW d \in devices, NEW id \in DOMAIN pendingProposals, Withdraw(d, id)
      PROVE  StateUnchanged
  BY <1>5 DEF Withdraw, ApplyNothing, StateUnchanged
<1>6. CASE UNCHANGED vars
  BY <1>6 DEF vars, StateUnchanged
<1>7. QED
  BY <1>1, <1>2, <1>3, <1>4, <1>5, <1>6 DEF Next

(***************************************************************************)
(* Keys and people.                                                        *)
(***************************************************************************)

KeyInvariant == KeySubjectsUnique /\ PeopleMatchDevices

\* A device is added with keys that are in neither index nor named by a grant.
LEMMA RegisterKeys ==
    ASSUME TypeOK, KeySubjectsUnique, NEW x, x.enc \notin memberEncPubs, x.sig \notin memberSigPubs,
           x.enc \notin namedServerKeys,
           devices' = devices \cup {x},
           memberEncPubs' = memberEncPubs \cup {x.enc},
           memberSigPubs' = memberSigPubs \cup {x.sig},
           UNCHANGED grantVars
    PROVE  KeySubjectsUnique'
BY DEF KeySubjectsUnique, grantVars

\* Dropping devices takes out of the indexes only keys that nobody else holds.
LEMMA UnregisterKeys ==
    ASSUME TypeOK, KeySubjectsUnique, NEW D \in SUBSET devices, DropDevices(D), UNCHANGED grantVars
    PROVE  KeySubjectsUnique'
BY DEF KeySubjectsUnique, DropDevices, grantVars

\* What an applied operation does to keys and people.
LEMMA ApplyKeys ==
    ASSUME TypeOK, KeyInvariant, NEW op \in Operations, NEW d \in devices, NEW seq \in Nat,
           ConsensusRule(op, d), Apply(op, d, seq)
    PROVE  KeyInvariant'
<1> USE DEF KeyInvariant
<1>0. IsMap(members, Users, MemberStates) /\ devices \in SUBSET DeviceRecords
  BY DEF TypeOK
<1>1. CASE op.op = "add_member" /\ ApplyAddMember(op, seq)
  <2>1. op.target \notin DOMAIN members /\ ~RegistersTakenKey(op)
    BY <1>1 DEF ConsensusRule, AddMemberRule
  <2> DEFINE x == FirstDevice(op.target, op, seq)
  <2>2. x.enc = op.enc /\ x.sig = op.sig /\ x.user = op.target
    BY DEF FirstDevice
  <2>3. devices' = devices \cup {x} /\ memberEncPubs' = memberEncPubs \cup {op.enc}
        /\ memberSigPubs' = memberSigPubs \cup {op.sig} /\ UNCHANGED grantVars
    BY <1>1 DEF ApplyAddMember
  <2>4. DOMAIN members' = DOMAIN members \cup {op.target}
    BY <1>1 DEF ApplyAddMember, WithKey
  <2> HIDE DEF x
  <2>5. KeySubjectsUnique'
    BY <2>1, <2>2, <2>3, RegisterKeys DEF RegistersTakenKey
  <2>6. PeopleMatchDevices'
    BY <2>2, <2>3, <2>4 DEF PeopleMatchDevices
  <2>7. QED
    BY <2>5, <2>6
<1>2. CASE op.op = "change_role" /\ ApplyChangeRole(op)
  <2>1. op.target \in DOMAIN members
    BY <1>2 DEF ConsensusRule, ChangeRoleRule, TargetedRule
  <2>2. QED
    BY <1>2, <2>1 DEF ApplyChangeRole, WithKey, KeySubjectsUnique, PeopleMatchDevices, grantVars
<1>3. CASE op.op = "remove_member" /\ ApplyRemoveMember(op)
  <2>1. DevicesOf(op.target) \in SUBSET devices
    BY DEF DevicesOf
  <2>2. KeySubjectsUnique'
    BY <1>3, <2>1, UnregisterKeys DEF ApplyRemoveMember
  <2>3. DOMAIN members' = DOMAIN members \ {op.target}
    BY <1>3 DEF ApplyRemoveMember, WithoutKey
  <2>4. devices' = {x \in devices : x.user # op.target}
    BY <1>3 DEF ApplyRemoveMember, DropDevices, DevicesOf
  <2>5. QED
    BY <2>2, <2>3, <2>4 DEF PeopleMatchDevices
<1>4. CASE op.op = "add_device" /\ ApplyAddDevice(op, d, seq)
  <2>1. ~RegistersTakenKey(op)
    BY <1>4 DEF ConsensusRule, AddDeviceRule
  <2> DEFINE x == [user |-> d.user, enc |-> op.enc, sig |-> op.sig,
                   roleCap |-> op.roleCap, scope |-> op.scope, addedSeq |-> seq]
  <2>2. x.enc = op.enc /\ x.sig = op.sig /\ x.user = d.user
    OBVIOUS
  <2>3. devices' = devices \cup {x} /\ memberEncPubs' = memberEncPubs \cup {op.enc}
        /\ memberSigPubs' = memberSigPubs \cup {op.sig} /\ UNCHANGED grantVars
        /\ members' = members
    BY <1>4 DEF ApplyAddDevice
  <2> HIDE DEF x
  <2>4. KeySubjectsUnique'
    BY <2>1, <2>2, <2>3, RegisterKeys DEF RegistersTakenKey
  <2>5. QED
    BY <2>2, <2>3, <2>4 DEF PeopleMatchDevices
<1>5. CASE op.op = "revoke_device" /\ ApplyRevokeDevice(op)
  <2>1. RevokedDevices(op) \in SUBSET DevicesOf(op.target) /\ DevicesOf(op.target) \in SUBSET devices
    BY DEF RevokedDevices, DevicesOf
  <2>2. KeySubjectsUnique'
    BY <1>5, <2>1, UnregisterKeys DEF ApplyRevokeDevice
  <2>3. DevicesOf(op.target) # RevokedDevices(op)
    BY <1>5 DEF ConsensusRule, RevokeDeviceRule
  <2>4. PICK kept \in DevicesOf(op.target) : kept \notin RevokedDevices(op)
    BY <2>1, <2>3
  <2>5. devices' = devices \ RevokedDevices(op) /\ members' = members
    BY <1>5 DEF ApplyRevokeDevice, DropDevices
  <2>6. kept \in devices' /\ kept.user = op.target
    BY <2>1, <2>4, <2>5 DEF DevicesOf
  <2>7. \A x \in devices : x \notin devices' => x.user = op.target
    BY <2>1, <2>5 DEF DevicesOf
  <2>8. PeopleMatchDevices'
    BY <2>5, <2>6, <2>7 DEF PeopleMatchDevices
  <2>9. QED
    BY <2>2, <2>8
<1>6. CASE op.op = "grant_server" /\ ApplyGrantServer(op, seq)
  <2>1. op.enc \notin memberEncPubs
    BY <1>6 DEF ConsensusRule, GrantServerRule
  <2>2. DOMAIN serverGrants' = DOMAIN serverGrants \cup {op.enc}
    BY <1>6 DEF ApplyGrantServer, WithKey
  <2>3. QED
    BY <1>6, <2>1, <2>2 DEF ApplyGrantServer, KeySubjectsUnique, PeopleMatchDevices, memberVars
<1>7. CASE op.op = "revoke_server" /\ ApplyRevokeServer(op)
  <2>1. DOMAIN serverGrants' \subseteq DOMAIN serverGrants
    BY <1>7 DEF ApplyRevokeServer, WithoutKey
  <2>2. QED
    BY <1>7, <2>1 DEF ApplyRevokeServer, KeySubjectsUnique, PeopleMatchDevices, memberVars
<1>8. CASE op.op = "delete_environment" /\ ApplyDeleteEnvironment(op, seq)
  <2> DEFINE pruned(x) == [x EXCEPT !.scope = ScopeWithout(x.scope, op.env)]
  <2>1. devices' = {pruned(x) : x \in devices}
    BY <1>8 DEF ApplyDeleteEnvironment
  <2>2. \A x \in devices : pruned(x).user = x.user /\ pruned(x).enc = x.enc /\ pruned(x).sig = x.sig
    BY <1>0 DEF DeviceRecords
  <2>3. DOMAIN members' = DOMAIN members /\ DOMAIN serverGrants' = DOMAIN serverGrants
        /\ UNCHANGED <<memberEncPubs, memberSigPubs, namedServerKeys>>
    BY <1>8 DEF ApplyDeleteEnvironment
  <2> HIDE DEF pruned
  <2>4. {x.user : x \in devices'} = {x.user : x \in devices}
        /\ {x.enc : x \in devices'} = {x.enc : x \in devices}
        /\ {x.sig : x \in devices'} = {x.sig : x \in devices}
    BY <2>1, <2>2
  <2>5. \A c, x \in devices' : c.enc = x.enc \/ c.sig = x.sig => c = x
    BY <2>1, <2>2 DEF KeySubjectsUnique
  <2>6. QED
    BY <2>3, <2>4, <2>5 DEF KeySubjectsUnique, PeopleMatchDevices
<1>9. CASE UNCHANGED <<memberVars, grantVars>>
  BY <1>9 DEF KeySubjectsUnique, PeopleMatchDevices, memberVars, grantVars
<1>10. QED
  <2>1. op.op \in {"create_environment", "rotate_epoch", "checkpoint", "set_approval_policy"} =>
            UNCHANGED <<memberVars, grantVars>>
    BY DEF Apply, ApplyCreateEnvironment, ApplyRotateEpoch, ApplyCheckpoint, ApplySetApprovalPolicy
  <2>2. QED
    BY <1>1, <1>2, <1>3, <1>4, <1>5, <1>6, <1>7, <1>8, <1>9, <2>1 DEF Apply

\* The state the genesis entry leaves is typed, and its one person has its one key.
LEMMA InitTypeAndKeys == Init => TypeOK /\ KeyInvariant
<1> SUFFICES ASSUME Init PROVE TypeOK /\ KeyInvariant
  OBVIOUS
<1>1. PICK g \in GenesisEntries :
        /\ members = [u \in {g.user} |-> [role |-> "owner", scope |-> ALL_SCOPE]]
        /\ devices = {FirstDevice(g.user, g, 1)}
        /\ memberEncPubs = {g.enc}
        /\ memberSigPubs = {g.sig}
        /\ applied = [operation |-> Genesis, by |-> FirstDevice(g.user, g, 1)]
  BY DEF Init
<1>2. g \in [user : Users, enc : EncKeys, sig : SigKeys]
  BY GenesisAssumption
<1>3. FirstDevice(g.user, g, 1) \in DeviceRecords
  BY <1>2, FirstDeviceType
<1>4. FirstDevice(g.user, g, 1).enc = g.enc /\ FirstDevice(g.user, g, 1).sig = g.sig
      /\ FirstDevice(g.user, g, 1).user = g.user
  BY DEF FirstDevice
<1>5. IsMap(members, Users, MemberStates)
  BY <1>1, <1>2, ScopeTypes DEF IsMap, MemberStates, Roles
<1>6. /\ IsMap(serverGrants, EncKeys, Grants)
      /\ IsMap(environments, Envs, EnvironmentStates)
      /\ IsMap(checkpoints, Envs, CheckpointStates)
      /\ IsMap(pendingProposals, Nat, Proposals)
      /\ namedServerKeys = {} /\ ballots = {} /\ headSeq = 1 /\ DOMAIN serverGrants = {}
  BY DEF Init, IsMap
<1>7. approvalPolicy \in Policies
  BY DEF Init, NoPolicy, Policies
<1>8. TypeOK
  BY <1>1, <1>2, <1>3, <1>5, <1>6, <1>7 DEF TypeOK
<1>9. KeyInvariant
  BY <1>1, <1>4, <1>6 DEF KeyInvariant, KeySubjectsUnique, PeopleMatchDevices
<1>10. QED
  BY <1>8, <1>9

\* Every entry keeps both.
LEMMA TypeAndKeysStep ==
    ASSUME TypeOK, KeyInvariant, [Next]_vars
    PROVE  TypeOK' /\ KeyInvariant'
<1>1. TypeOK'
  BY TypeStep DEF TypeInvariant, KeyInvariant
<1>2. CASE \E d \in devices, op \in Operations :
             RoleRule(op, d) /\ ConsensusRule(op, d) /\ Apply(op, d, headSeq + 1)
  <2>1. headSeq + 1 \in Nat
    BY DEF TypeOK
  <2>2. QED
    BY <1>1, <1>2, <2>1, ApplyKeys
<1>3. CASE StateUnchanged
  BY <1>1, <1>3 DEF StateUnchanged, KeyInvariant, KeySubjectsUnique, PeopleMatchDevices,
     memberVars, grantVars
<1>4. QED
  BY <1>2, <1>3, StepCases

\* The verified state has its type on every chain.
THEOREM TypeCorrect == Spec => []TypeOK
<1>1. TypeOK /\ KeyInvariant /\ [Next]_vars => (TypeOK /\ KeyInvariant)'
  BY TypeAndKeysStep
<1>2. QED
  BY <1>1, InitTypeAndKeys, PTL DEF Spec

\* On every chain each public key leads back to one subject, and the indexes the
\* uniqueness rule reads are exact.
THEOREM KeysUnique == Spec => []KeySubjectsUnique
<1>1. TypeOK /\ KeyInvariant /\ [Next]_vars => (TypeOK /\ KeyInvariant)'
  BY TypeAndKeysStep
<1>2. KeyInvariant => KeySubjectsUnique
  BY DEF KeyInvariant
<1>3. QED
  BY <1>1, <1>2, InitTypeAndKeys, PTL DEF Spec

\* On every chain the people and the holders of device keys are the same.
THEOREM EveryMemberSigns == Spec => []PeopleMatchDevices
<1>1. TypeOK /\ KeyInvariant /\ [Next]_vars => (TypeOK /\ KeyInvariant)'
  BY TypeAndKeysStep
<1>2. KeyInvariant => PeopleMatchDevices
  BY DEF KeyInvariant
<1>3. QED
  BY <1>1, <1>2, InitTypeAndKeys, PTL DEF Spec

(***************************************************************************)
(* Deleted environments.                                                   *)
(***************************************************************************)

\* Whatever is applied, deleted environments stay out of every scope.
LEMMA ApplyForgets ==
    ASSUME TypeOK, DeletedEnvironmentsForgotten, NEW op \in Operations, NEW d \in devices,
           NEW seq \in Nat, seq # 0, ConsensusRule(op, d), Apply(op, d, seq)
    PROVE  DeletedEnvironmentsForgotten'
<1>0. /\ IsMap(members, Users, MemberStates) /\ devices \in SUBSET DeviceRecords
      /\ IsMap(environments, Envs, EnvironmentStates) /\ IsMap(serverGrants, EncKeys, Grants)
  BY DEF TypeOK
<1>1. CASE op.op = "add_member" /\ ApplyAddMember(op, seq)
  <2>1. op.scope.ids \subseteq LiveEnvironments
    BY <1>1 DEF ConsensusRule, AddMemberRule, ScopeEnvironmentsRule
  <2>2. FirstDevice(op.target, op, seq).scope.ids = {}
    BY DEF FirstDevice, ALL_SCOPE
  <2>3. QED
    BY <1>1, <2>1, <2>2 DEF ApplyAddMember, WithKey, DeletedEnvironmentsForgotten,
       LiveEnvironments, IsDeleted, grantVars, envVars
<1>2. CASE op.op = "change_role" /\ ApplyChangeRole(op)
  <2>1. op.scope.ids \subseteq LiveEnvironments
    BY <1>2 DEF ConsensusRule, ChangeRoleRule, ScopeEnvironmentsRule
  <2>2. QED
    BY <1>2, <2>1 DEF ApplyChangeRole, WithKey, DeletedEnvironmentsForgotten,
       LiveEnvironments, IsDeleted, grantVars, envVars
<1>3. CASE op.op = "remove_member" /\ ApplyRemoveMember(op)
  BY <1>3 DEF ApplyRemoveMember, DropDevices, WithoutKey, DeletedEnvironmentsForgotten,
     LiveEnvironments, IsDeleted, grantVars, envVars
<1>4. CASE op.op = "add_device" /\ ApplyAddDevice(op, d, seq)
  <2>1. op.scope.ids \subseteq LiveEnvironments
    BY <1>4 DEF ConsensusRule, AddDeviceRule, ScopeEnvironmentsRule
  <2>2. QED
    BY <1>4, <2>1 DEF ApplyAddDevice, DeletedEnvironmentsForgotten,
       LiveEnvironments, IsDeleted, grantVars, envVars
<1>5. CASE op.op = "revoke_device" /\ ApplyRevokeDevice(op)
  BY <1>5 DEF ApplyRevokeDevice, DropDevices, DeletedEnvironmentsForgotten,
     LiveEnvironments, IsDeleted, grantVars, envVars
<1>6. CASE op.op = "grant_server" /\ ApplyGrantServer(op, seq)
  <2>1. \A e \in op.ids : ~IsDeleted(e)
    BY <1>6 DEF ConsensusRule, GrantServerRule
  <2>2. QED
    BY <1>6, <2>1 DEF ApplyGrantServer, WithKey, DeletedEnvironmentsForgotten,
       LiveEnvironments, IsDeleted, memberVars, envVars
<1>7. CASE op.op = "revoke_server" /\ ApplyRevokeServer(op)
  BY <1>7 DEF ApplyRevokeServer, WithoutKey, DeletedEnvironmentsForgotten,
     LiveEnvironments, IsDeleted, memberVars, envVars
<1>8. CASE op.op = "create_environment" /\ ApplyCreateEnvironment(op, seq)
  <2>1. op.env \notin DOMAIN environments
    BY <1>8 DEF ConsensusRule, CreateEnvironmentRule
  <2>2. LiveEnvironments \subseteq LiveEnvironments' /\ \A e : IsDeleted(e)' => IsDeleted(e)
    BY <1>8, <2>1 DEF ApplyCreateEnvironment, EnvironmentsAfterCreate, WithKey, LiveEnvironments, IsDeleted
  <2>3. QED
    BY <1>8, <2>2 DEF ApplyCreateEnvironment, EnvironmentsAfterCreate, DeletedEnvironmentsForgotten, memberVars, grantVars
<1>9. CASE op.op = "rotate_epoch" /\ ApplyRotateEpoch(op, seq)
  <2>1. op.env \in DOMAIN environments /\ environments[op.env] \in EnvironmentStates
    BY <1>0, <1>9 DEF ConsensusRule, RotateEpochRule, LiveEnvironments, IsMap
  <2>2. LiveEnvironments = LiveEnvironments' /\ \A e : IsDeleted(e)' <=> IsDeleted(e)
    BY <1>9, <2>1 DEF ApplyRotateEpoch, EnvironmentsAfterRotate, LiveEnvironments, IsDeleted, EnvironmentStates
  <2>3. QED
    BY <1>9, <2>2 DEF ApplyRotateEpoch, EnvironmentsAfterRotate, DeletedEnvironmentsForgotten, memberVars, grantVars
<1>10. CASE op.op = "delete_environment" /\ ApplyDeleteEnvironment(op, seq)
  <2>1. op.env \in LiveEnvironments /\ op.env \in DOMAIN environments
    BY <1>10 DEF ConsensusRule, DeleteEnvironmentRule, LiveEnvironments
  <2>2. /\ LiveEnvironments' = LiveEnvironments \ {op.env}
        /\ \A e : IsDeleted(e)' <=> (IsDeleted(e) \/ e = op.env)
    <3>1. environments' = [environments EXCEPT ![op.env].deletedAt = seq]
      BY <1>10 DEF ApplyDeleteEnvironment
    <3>2. environments[op.env] \in EnvironmentStates
      BY <1>0, <2>1 DEF IsMap
    <3>3. QED
      BY <2>1, <3>1, <3>2 DEF LiveEnvironments, IsDeleted, EnvironmentStates
  <2>3. \A s \in Scopes : s.ids \subseteq LiveEnvironments =>
            ScopeWithout(s, op.env).ids \subseteq LiveEnvironments'
    BY <2>2 DEF Scopes, ScopeWithout, Listed
  <2>4. \A u \in DOMAIN members' : members'[u].scope.ids \subseteq LiveEnvironments'
    <3>1. \A u \in DOMAIN members : members[u].scope \in Scopes
      BY <1>0 DEF IsMap, MemberStates
    <3>2. QED
      BY <1>10, <2>3, <3>1 DEF ApplyDeleteEnvironment, DeletedEnvironmentsForgotten
  <2>5. \A x \in devices' : x.scope.ids \subseteq LiveEnvironments'
    <3>1. \A x \in devices : /\ x.scope \in Scopes
                             /\ [x EXCEPT !.scope = ScopeWithout(x.scope, op.env)].scope
                                   = ScopeWithout(x.scope, op.env)
      BY <1>0 DEF DeviceRecords
    <3>2. QED
      BY <1>10, <2>3, <3>1 DEF ApplyDeleteEnvironment, DeletedEnvironmentsForgotten
  <2>6. \A k \in DOMAIN serverGrants', e \in Envs : e \in serverGrants'[k].ids => ~IsDeleted(e)'
    BY <1>10, <2>2 DEF ApplyDeleteEnvironment, DeletedEnvironmentsForgotten
  <2>7. DOMAIN checkpoints' \subseteq LiveEnvironments'
    BY <1>10, <2>2 DEF ApplyDeleteEnvironment, WithoutKey, DeletedEnvironmentsForgotten
  <2>8. QED
    BY <2>4, <2>5, <2>6, <2>7 DEF DeletedEnvironmentsForgotten
<1>11. CASE op.op = "checkpoint" /\ ApplyCheckpoint(op, seq)
  <2>1. \A t \in op.tuples : t.env \in LiveEnvironments
    BY <1>11 DEF ConsensusRule, CheckpointRule
  <2>2. DOMAIN checkpoints' = DOMAIN checkpoints \cup {t.env : t \in op.tuples}
    BY <1>11 DEF ApplyCheckpoint, WithTuples
  <2>3. UNCHANGED <<memberVars, grantVars, environments>>
    BY <1>11 DEF ApplyCheckpoint, WithTuples
  <2>4. QED
    BY <2>1, <2>2, <2>3 DEF DeletedEnvironmentsForgotten, LiveEnvironments, IsDeleted,
       memberVars, grantVars
<1>12. CASE op.op = "set_approval_policy" /\ ApplySetApprovalPolicy(op)
  BY <1>12 DEF ApplySetApprovalPolicy, DeletedEnvironmentsForgotten, LiveEnvironments, IsDeleted,
     memberVars, grantVars, envVars
<1>13. QED
  BY <1>1, <1>2, <1>3, <1>4, <1>5, <1>6, <1>7, <1>8, <1>9, <1>10, <1>11, <1>12 DEF Apply

\* At genesis there is no environment to forget.
LEMMA InitForgets == Init => DeletedEnvironmentsForgotten
BY DEF Init, DeletedEnvironmentsForgotten, FirstDevice, ALL_SCOPE

\* Every entry keeps deleted environments forgotten (delete_environment pruning the rest).
LEMMA ForgetsStep ==
    ASSUME TypeOK, DeletedEnvironmentsForgotten, [Next]_vars
    PROVE  DeletedEnvironmentsForgotten'
<1>1. headSeq + 1 \in Nat /\ headSeq + 1 # 0
  BY DEF TypeOK
<1>2. CASE StateUnchanged
  BY <1>2 DEF StateUnchanged, DeletedEnvironmentsForgotten, LiveEnvironments, IsDeleted,
     memberVars, grantVars, envVars
<1>3. QED
  BY <1>1, <1>2, StepCases, ApplyForgets

\* On every chain a deleted environment is gone from every right and every baseline.
THEOREM DeletionForgets == Spec => []DeletedEnvironmentsForgotten
<1> DEFINE Inv == TypeOK /\ KeyInvariant /\ DeletedEnvironmentsForgotten
<1>1. Init => Inv
  BY InitTypeAndKeys, InitForgets
<1>2. Inv /\ [Next]_vars => Inv'
  BY TypeAndKeysStep, ForgetsStep
<1>3. QED
  BY <1>1, <1>2, PTL DEF Spec

(***************************************************************************)
(* Epochs and checkpoints in chain order.                                  *)
(***************************************************************************)

\* What an environment's record says when every entry it speaks of is at most bound.
EpochsInOrder(env, bound) ==
    /\ env.epoch = Len(env.epochStarts) /\ env.epoch >= 1
    /\ env.epochStarts[1] = env.createdAt
    /\ \A i, j \in 1..env.epoch : i < j => env.epochStarts[i] < env.epochStarts[j]
    /\ \A i \in 1..env.epoch : env.epochStarts[i] <= bound
    /\ env.deletedAt # 0 => env.epochStarts[env.epoch] < env.deletedAt

\* The checkpoint lies in the epoch it attests.
CheckpointInOrder(c, env, bound) ==
    /\ c.epoch \in 1..env.epoch
    /\ env.epochStarts[c.epoch] < c.seq
    /\ c.seq <= bound
    /\ c.epoch < env.epoch => c.seq < env.epochStarts[c.epoch + 1]

\* The order of the entries is kept because every recorded seq is one of the chain.
OrderInvariant ==
    /\ \A e \in DOMAIN environments : EpochsInOrder(environments[e], headSeq)
    /\ \A e \in DOMAIN checkpoints :
          /\ e \in DOMAIN environments
          /\ CheckpointInOrder(checkpoints[e], environments[e], headSeq)

\* What is in order up to an entry is in order up to a later one.
LEMMA LaterBound ==
    ASSUME NEW env \in EnvironmentStates, NEW m \in Nat, NEW n \in Nat, m <= n
    PROVE  /\ EpochsInOrder(env, m) => EpochsInOrder(env, n)
           /\ \A c \in CheckpointStates : CheckpointInOrder(c, env, m) => CheckpointInOrder(c, env, n)
<1>1. EpochsInOrder(env, m) => \A i \in 1..env.epoch : env.epochStarts[i] \in Nat
  BY DEF EpochsInOrder, EnvironmentStates
<1>2. QED
  BY <1>1 DEF EpochsInOrder, CheckpointInOrder, EnvironmentStates, CheckpointStates

\* A new epoch starts after every earlier one and after the latest checkpoint.
LEMMA RotationKeepsOrder ==
    ASSUME NEW env \in EnvironmentStates, NEW m \in Nat, EpochsInOrder(env, m), env.deletedAt = 0,
           NEW next \in EnvironmentStates,
           next = [env EXCEPT !.epoch = env.epoch + 1, !.epochStarts = Append(@, m + 1)]
    PROVE  /\ EpochsInOrder(next, m + 1)
           /\ \A c \in CheckpointStates :
                 CheckpointInOrder(c, env, m) => CheckpointInOrder(c, next, m + 1)
<1>1. /\ env.epochStarts \in Seq(Nat) /\ env.epoch = Len(env.epochStarts) /\ env.epoch \in Nat \ {0}
      /\ next.epoch = env.epoch + 1 /\ next.createdAt = env.createdAt /\ next.deletedAt = 0
      /\ next.epochStarts = Append(env.epochStarts, m + 1)
  BY DEF EpochsInOrder, EnvironmentStates
<1>2. /\ Len(next.epochStarts) = env.epoch + 1
      /\ next.epochStarts[env.epoch + 1] = m + 1
      /\ \A i \in 1..env.epoch : next.epochStarts[i] = env.epochStarts[i]
                                 /\ env.epochStarts[i] \in Nat
  BY <1>1
<1>3. EpochsInOrder(next, m + 1)
  BY <1>1, <1>2 DEF EpochsInOrder
<1>4. ASSUME NEW c \in CheckpointStates, CheckpointInOrder(c, env, m)
      PROVE  CheckpointInOrder(c, next, m + 1)
  <2>1. c.epoch \in 1..env.epoch /\ c.seq \in Nat /\ c.seq <= m
        /\ env.epochStarts[c.epoch] < c.seq
        /\ (c.epoch < env.epoch => c.seq < env.epochStarts[c.epoch + 1])
    BY <1>4 DEF CheckpointInOrder, CheckpointStates
  <2>2. next.epochStarts[c.epoch] < c.seq
    BY <1>2, <2>1
  <2>3. c.seq < next.epochStarts[c.epoch + 1]
    <3>1. CASE c.epoch = env.epoch
      BY <1>1, <1>2, <2>1, <3>1
    <3>2. CASE c.epoch < env.epoch
      <4>1. c.epoch + 1 \in 1..env.epoch
        BY <1>1, <2>1, <3>2
      <4>2. QED
        BY <1>2, <2>1, <3>2, <4>1
    <3>3. QED
      BY <1>1, <2>1, <3>1, <3>2
  <2>4. QED
    BY <1>1, <2>1, <2>2, <2>3 DEF CheckpointInOrder
<1>5. QED
  BY <1>3, <1>4

\* Applying an operation keeps epochs and checkpoints in the order of the chain.
LEMMA ApplyKeepsOrder ==
    ASSUME TypeOK, TypeOK', DeletedEnvironmentsForgotten, OrderInvariant, headSeq' = headSeq + 1,
           NEW op \in Operations, NEW d \in devices,
           ConsensusRule(op, d), Apply(op, d, headSeq + 1)
    PROVE  OrderInvariant'
<1> DEFINE seq == headSeq + 1
<1>0. /\ headSeq \in Nat /\ seq \in Nat /\ seq # 0
      /\ \A e \in DOMAIN environments : environments[e] \in EnvironmentStates
      /\ \A e \in DOMAIN environments' : environments'[e] \in EnvironmentStates
      /\ \A e \in DOMAIN checkpoints : checkpoints[e] \in CheckpointStates
  BY DEF TypeOK, IsMap
<1>a. \A e \in DOMAIN environments : EpochsInOrder(environments[e], seq)
  BY <1>0, LaterBound DEF OrderInvariant
<1>b. \A e \in DOMAIN checkpoints : /\ e \in DOMAIN environments
                                    /\ CheckpointInOrder(checkpoints[e], environments[e], seq)
  BY <1>0, LaterBound DEF OrderInvariant
<1>1. CASE op.op = "create_environment" /\ ApplyCreateEnvironment(op, seq)
  <2> DEFINE new == [epoch |-> 1, createdAt |-> seq, deletedAt |-> 0, epochStarts |-> <<seq>>]
  <2>1. op.env \notin DOMAIN environments
    BY <1>1 DEF ConsensusRule, CreateEnvironmentRule
  <2>2. environments' = WithKey(environments, op.env, new) /\ checkpoints' = checkpoints
    BY <1>1 DEF ApplyCreateEnvironment, EnvironmentsAfterCreate
  <2>3. EpochsInOrder(new, seq)
    BY <1>0 DEF EpochsInOrder
  <2> HIDE DEF new
  <2>4. QED
    BY <1>a, <1>b, <2>1, <2>2, <2>3 DEF OrderInvariant, WithKey
<1>2. CASE op.op = "rotate_epoch" /\ ApplyRotateEpoch(op, seq)
  <2> DEFINE env  == environments[op.env]
             next == environments'[op.env]
  <2>1. op.env \in DOMAIN environments /\ env.deletedAt = 0 /\ op.epoch = env.epoch + 1
    BY <1>2 DEF ConsensusRule, RotateEpochRule, LiveEnvironments
  <2>2. /\ environments' = [environments EXCEPT ![op.env].epoch = op.epoch,
                                                ![op.env].epochStarts = Append(@, seq)]
        /\ checkpoints' = checkpoints
    BY <1>2 DEF ApplyRotateEpoch, EnvironmentsAfterRotate
  <2>3. next = [env EXCEPT !.epoch = env.epoch + 1, !.epochStarts = Append(@, headSeq + 1)]
    BY <1>0, <2>1, <2>2 DEF EnvironmentStates
  <2>4. DOMAIN environments' = DOMAIN environments
        /\ \A e \in DOMAIN environments : e # op.env => environments'[e] = environments[e]
    BY <2>2
  <2>5. env \in EnvironmentStates /\ next \in EnvironmentStates /\ EpochsInOrder(env, headSeq)
    BY <1>0, <2>1, <2>4 DEF OrderInvariant
  <2> HIDE DEF env, next
  <2>6. /\ EpochsInOrder(next, seq)
        /\ \A c \in CheckpointStates : CheckpointInOrder(c, env, headSeq) => CheckpointInOrder(c, next, seq)
    BY <1>0, <2>1, <2>3, <2>5, RotationKeepsOrder
  <2>7. \A e \in DOMAIN environments' : EpochsInOrder(environments'[e], seq)
    BY <1>a, <2>4, <2>6 DEF next
  <2>8. ASSUME NEW e \in DOMAIN checkpoints
        PROVE  e \in DOMAIN environments' /\ CheckpointInOrder(checkpoints[e], environments'[e], seq)
    <3>1. CASE e = op.env
      BY <1>0, <2>1, <2>4, <2>6, <3>1 DEF OrderInvariant, env, next
    <3>2. CASE e # op.env
      BY <1>b, <2>4, <3>2
    <3>3. QED
      BY <3>1, <3>2
  <2>9. QED
    BY <2>2, <2>7, <2>8 DEF OrderInvariant
<1>3. CASE op.op = "delete_environment" /\ ApplyDeleteEnvironment(op, seq)
  <2>1. op.env \in DOMAIN environments
    BY <1>3 DEF ConsensusRule, DeleteEnvironmentRule, LiveEnvironments
  <2>2. environments' = [environments EXCEPT ![op.env].deletedAt = seq]
        /\ checkpoints' = WithoutKey(checkpoints, op.env)
    BY <1>3 DEF ApplyDeleteEnvironment
  <2>3. ASSUME NEW e \in DOMAIN environments
        PROVE  EpochsInOrder(environments'[e], seq)
    <3>1. environments[e] \in EnvironmentStates /\ EpochsInOrder(environments[e], headSeq)
      BY <1>0 DEF OrderInvariant
    <3>2. /\ environments'[e].epoch = environments[e].epoch
          /\ environments'[e].epochStarts = environments[e].epochStarts
          /\ environments'[e].createdAt = environments[e].createdAt
          /\ environments'[e].deletedAt = IF e = op.env THEN seq ELSE environments[e].deletedAt
      BY <2>1, <2>2, <3>1 DEF EnvironmentStates
    <3>3. environments[e].epoch \in 1..environments[e].epoch
          /\ \A i \in 1..environments[e].epoch : environments[e].epochStarts[i] \in Nat
      BY <3>1 DEF EpochsInOrder, EnvironmentStates
    <3>4. environments[e].epochStarts[environments[e].epoch] < seq
      BY <1>0, <3>1, <3>3 DEF EpochsInOrder
    <3>5. EpochsInOrder(environments[e], seq)
      BY <1>a
    <3>6. QED
      BY <3>2, <3>4, <3>5 DEF EpochsInOrder
  <2>4. DOMAIN environments' = DOMAIN environments
        /\ \A e \in DOMAIN environments : e # op.env => environments'[e] = environments[e]
    BY <2>2
  <2>5. \A e \in DOMAIN checkpoints' :
            e \in DOMAIN checkpoints /\ e # op.env /\ checkpoints'[e] = checkpoints[e]
    BY <2>2 DEF WithoutKey
  <2>6. QED
    BY <1>b, <2>3, <2>4, <2>5 DEF OrderInvariant
<1>4. CASE op.op = "checkpoint" /\ ApplyCheckpoint(op, seq)
  <2> DEFINE attested == {t.env : t \in op.tuples}
  <2>1. \A t \in op.tuples : /\ t.env \in DOMAIN environments
                             /\ t.epoch = environments[t.env].epoch
    BY <1>4 DEF ConsensusRule, CheckpointRule, LiveEnvironments
  <2>2. /\ checkpoints' = [e \in DOMAIN checkpoints \cup attested |->
                              IF e \in attested
                              THEN CheckpointOf(CHOOSE t \in op.tuples : t.env = e, seq)
                              ELSE checkpoints[e]]
        /\ environments' = environments
    BY <1>4 DEF ApplyCheckpoint, WithTuples
  <2>3. ASSUME NEW e \in attested
        PROVE  /\ e \in DOMAIN environments
               /\ CheckpointInOrder(CheckpointOf(CHOOSE t \in op.tuples : t.env = e, seq),
                                    environments[e], seq)
    <3>1. PICK t \in op.tuples : t.env = e /\ t = CHOOSE s \in op.tuples : s.env = e
      OBVIOUS
    <3>2. environments[e] \in EnvironmentStates /\ EpochsInOrder(environments[e], headSeq)
          /\ t.epoch = environments[e].epoch
      BY <1>0, <2>1, <3>1 DEF OrderInvariant
    <3>3. t.epoch \in 1..environments[e].epoch /\ environments[e].epochStarts[t.epoch] \in Nat
          /\ environments[e].epochStarts[t.epoch] <= headSeq
      BY <3>2 DEF EpochsInOrder, EnvironmentStates
    <3>4. CheckpointInOrder(CheckpointOf(t, seq), environments[e], seq)
      BY <1>0, <3>2, <3>3 DEF CheckpointOf, CheckpointInOrder, EnvironmentStates
    <3>5. QED
      BY <2>1, <3>1, <3>4
  <2> HIDE DEF attested
  <2>4. QED
    BY <1>a, <1>b, <2>2, <2>3 DEF OrderInvariant
<1>5. CASE UNCHANGED envVars
  BY <1>a, <1>b, <1>5 DEF OrderInvariant, envVars
<1>6. QED
  <2>1. op.op \in {"add_member", "change_role", "remove_member", "add_device", "revoke_device",
                   "grant_server", "revoke_server", "set_approval_policy"} => UNCHANGED envVars
    BY DEF Apply, ApplyAddMember, ApplyChangeRole, ApplyRemoveMember, ApplyAddDevice,
       ApplyRevokeDevice, ApplyGrantServer, ApplyRevokeServer, ApplySetApprovalPolicy
  <2>2. QED
    BY <1>1, <1>2, <1>3, <1>4, <1>5, <2>1 DEF Apply

\* Every entry takes the next seq.
LEMMA HeadAdvances ==
    ASSUME [Next]_vars
    PROVE  headSeq' = headSeq + 1 \/ UNCHANGED vars
BY DEF Next, Direct, Propose, ApproveVote, ApproveComplete, Withdraw, Signs

\* Every entry keeps epochs and checkpoints in order.
LEMMA OrderStep ==
    ASSUME TypeOK, KeyInvariant, DeletedEnvironmentsForgotten, OrderInvariant, [Next]_vars
    PROVE  OrderInvariant'
<1>1. CASE UNCHANGED vars
  BY <1>1 DEF OrderInvariant, vars, envVars
<1>2. CASE headSeq' = headSeq + 1
  <2>1. TypeOK' /\ headSeq \in Nat /\ headSeq + 1 \in Nat
    BY TypeAndKeysStep DEF TypeOK
  <2>2. CASE StateUnchanged
    <3>1. \A e \in DOMAIN environments : environments[e] \in EnvironmentStates
      BY DEF TypeOK, IsMap
    <3>2. \A e \in DOMAIN checkpoints : checkpoints[e] \in CheckpointStates
      BY DEF TypeOK, IsMap
    <3>3. QED
      BY <1>2, <2>1, <2>2, <3>1, <3>2, LaterBound DEF StateUnchanged, OrderInvariant, envVars
  <2>3. QED
    BY <1>2, <2>1, <2>2, StepCases, ApplyKeepsOrder
<1>3. QED
  BY <1>1, <1>2, HeadAdvances

\* On every chain epochs are numbered without gaps, start in chain order inside the
\* life of their environment, and a checkpoint attests the epoch current at its entry.
THEOREM ChainOrderKept == Spec => []EpochsAndCheckpointsOrdered
<1> DEFINE Inv == TypeOK /\ KeyInvariant /\ DeletedEnvironmentsForgotten /\ OrderInvariant
<1>1. Init => Inv
  <2>1. ASSUME Init PROVE OrderInvariant
    BY <2>1 DEF Init, OrderInvariant
  <2>2. QED
    BY <2>1, InitTypeAndKeys, InitForgets
<1>2. Inv /\ [Next]_vars => Inv'
  BY TypeAndKeysStep, ForgetsStep, OrderStep
<1>3. Inv => EpochsAndCheckpointsOrdered
  BY DEF OrderInvariant, EpochsInOrder, CheckpointInOrder, EpochsAndCheckpointsOrdered
<1>4. QED
  BY <1>1, <1>2, <1>3, PTL DEF Spec

(***************************************************************************)
(* Governance stays reachable.                                             *)
(***************************************************************************)

\* The owners can only be counted because the members are finitely many.
GovernanceInvariant == IsFiniteSet(DOMAIN members) /\ GovernanceReachable

\* There is one scope "all": it carries no list.
LEMMA AllScopeUnique ==
    ASSUME NEW s \in Scopes, s.kind = "all"
    PROVE  s = ALL_SCOPE
BY DEF Scopes, ALL_SCOPE

\* Owners can be counted.
LEMMA OwnersFinite ==
    ASSUME IsFiniteSet(DOMAIN members)
    PROVE  IsFiniteSet(Owners) /\ Cardinality(Owners) \in Nat
<1>1. Owners \subseteq DOMAIN members
  BY DEF Owners
<1>2. QED
  BY <1>1, FS_Subset, FS_CardinalityType

\* Gaining an owner with scope "all" keeps the quorum within reach.
LEMMA GovernanceGain ==
    ASSUME GovernanceInvariant, approvalPolicy \in Policies, IsFiniteSet(DOMAIN members'),
           NEW u, Owners' = Owners \cup {u},
           \A x \in Owners' : members'[x].scope = ALL_SCOPE,
           approvalPolicy' = approvalPolicy
    PROVE  GovernanceInvariant'
<1>1. IsFiniteSet(Owners) /\ Cardinality(Owners) \in Nat /\ Cardinality(Owners') \in Nat
  BY OwnersFinite, FS_AddElement, FS_CardinalityType DEF GovernanceInvariant
<1>2. Cardinality(Owners') >= Cardinality(Owners)
  <2>1. CASE u \in Owners
    <3>1. Owners' = Owners
      BY <2>1
    <3>2. QED
      BY <1>1, <3>1
  <2>2. CASE u \notin Owners
    <3>1. Cardinality(Owners \cup {u}) = Cardinality(Owners) + 1
      BY <1>1, <2>2, FS_AddElement
    <3>2. QED
      BY <1>1, <3>1
  <2>3. QED
    BY <2>1, <2>2
<1>3. QED
  BY <1>1, <1>2 DEF GovernanceInvariant, GovernanceReachable, Policies

\* Losing one owner is accepted only if that was neither the last nor a needed one.
LEMMA GovernanceLoss ==
    ASSUME GovernanceInvariant, approvalPolicy \in Policies, IsFiniteSet(DOMAIN members'),
           NEW u \in Owners, Owners' = Owners \ {u},
           Cardinality(Owners) # 1, QuorumReachableAfter(approvalPolicy.required, 1),
           \A x \in Owners' : members'[x].scope = ALL_SCOPE,
           approvalPolicy' = approvalPolicy
    PROVE  GovernanceInvariant'
<1>1. IsFiniteSet(Owners) /\ Cardinality(Owners) \in Nat
  BY OwnersFinite DEF GovernanceInvariant
<1>2. Cardinality(Owners') = Cardinality(Owners) - 1 /\ IsFiniteSet(Owners')
  BY <1>1, FS_RemoveElement
<1>3. Cardinality(Owners) > 0
  BY <1>1, FS_EmptySet
<1>4. Owners' # {}
  BY <1>1, <1>2, <1>3, FS_EmptySet
<1>5. Cardinality(Owners') >= approvalPolicy.required
  BY <1>1, <1>2, <1>3 DEF QuorumReachableAfter, Policies
<1>6. QED
  BY <1>4, <1>5 DEF GovernanceInvariant, GovernanceReachable

\* An operation that leaves owners and policy alone keeps governance reachable.
LEMMA GovernanceKept ==
    ASSUME GovernanceInvariant, IsFiniteSet(DOMAIN members'), Owners' = Owners,
           \A x \in Owners' : members'[x].scope = ALL_SCOPE,
           approvalPolicy' = approvalPolicy
    PROVE  GovernanceInvariant'
BY DEF GovernanceInvariant, GovernanceReachable

\* So does every operation that passed its consensus rule.
LEMMA ApplyGovernance ==
    ASSUME TypeOK, GovernanceInvariant, NEW op \in Operations, NEW d \in devices, NEW seq \in Nat,
           ConsensusRule(op, d), Apply(op, d, seq)
    PROVE  GovernanceInvariant'
<1>0. /\ IsMap(members, Users, MemberStates) /\ approvalPolicy \in Policies
      /\ IsFiniteSet(DOMAIN members)
      /\ \A x \in Owners : members[x].scope = ALL_SCOPE
  BY DEF TypeOK, GovernanceInvariant, GovernanceReachable
<1>1. CASE op.op = "add_member" /\ ApplyAddMember(op, seq)
  <2>1. op \in AddMemberOps /\ op.target \notin DOMAIN members /\ ScopeRoleRule(op)
    BY <1>1, OperationShapes DEF ConsensusRule, AddMemberRule
  <2>2. members' = WithKey(members, op.target, [role |-> op.role, scope |-> op.scope])
        /\ approvalPolicy' = approvalPolicy
    BY <1>1 DEF ApplyAddMember
  <2>3. IsFiniteSet(DOMAIN members')
    BY <1>0, <2>2, FS_AddElement DEF WithKey
  <2>4. op.role = "owner" => op.scope = ALL_SCOPE
    BY <2>1, AllScopeUnique DEF ScopeRoleRule, AddMemberOps
  <2>5. \A x \in Owners' : members'[x].scope = ALL_SCOPE
    BY <1>0, <2>2, <2>4 DEF Owners, WithKey
  <2>6. CASE op.role = "owner"
    <3>1. Owners' = Owners \cup {op.target}
      BY <2>2, <2>6 DEF Owners, WithKey
    <3>2. QED
      BY <1>0, <2>2, <2>3, <2>5, <3>1, GovernanceGain
  <2>7. CASE op.role # "owner"
    <3>1. Owners' = Owners
      BY <2>1, <2>2, <2>7 DEF Owners, WithKey
    <3>2. QED
      BY <2>2, <2>3, <2>5, <3>1, GovernanceKept
  <2>8. QED
    BY <2>6, <2>7
<1>2. CASE op.op = "change_role" /\ ApplyChangeRole(op)
  <2>1. op \in ChangeRoleOps /\ op.target \in DOMAIN members /\ ScopeRoleRule(op)
        /\ ~(OwnersRemovedBy(op) = 1 /\ Cardinality(Owners) = 1)
        /\ QuorumReachableAfter(approvalPolicy.required, OwnersRemovedBy(op))
    BY <1>2, OperationShapes DEF ConsensusRule, ChangeRoleRule, TargetedRule
  <2>2. members' = WithKey(members, op.target, [role |-> op.role, scope |-> op.scope])
        /\ approvalPolicy' = approvalPolicy
    BY <1>2 DEF ApplyChangeRole
  <2>3. IsFiniteSet(DOMAIN members')
    BY <1>0, <2>2, FS_AddElement DEF WithKey
  <2>4. op.role = "owner" => op.scope = ALL_SCOPE
    BY <2>1, AllScopeUnique DEF ScopeRoleRule, ChangeRoleOps
  <2>5. \A x \in Owners' : members'[x].scope = ALL_SCOPE
    BY <1>0, <2>2, <2>4 DEF Owners, WithKey
  <2>6. CASE op.role = "owner"
    <3>1. Owners' = Owners \cup {op.target}
      BY <2>2, <2>6 DEF Owners, WithKey
    <3>2. QED
      BY <1>0, <2>2, <2>3, <2>5, <3>1, GovernanceGain
  <2>7. CASE op.role # "owner" /\ op.target \notin Owners
    <3>1. Owners' = Owners
      BY <2>1, <2>2, <2>7 DEF Owners, WithKey
    <3>2. QED
      BY <2>2, <2>3, <2>5, <3>1, GovernanceKept
  <2>8. CASE op.role # "owner" /\ op.target \in Owners
    <3>1. Owners' = Owners \ {op.target}
      BY <2>1, <2>2, <2>8 DEF Owners, WithKey
    <3>2. OwnersRemovedBy(op) = 1
      BY <1>2, <2>8 DEF OwnersRemovedBy
    <3>3. QED
      BY <1>0, <2>1, <2>2, <2>3, <2>5, <2>8, <3>1, <3>2, GovernanceLoss
  <2>9. QED
    BY <2>6, <2>7, <2>8
<1>3. CASE op.op = "remove_member" /\ ApplyRemoveMember(op)
  <2>1. op.target \in DOMAIN members
        /\ ~(OwnersRemovedBy(op) = 1 /\ Cardinality(Owners) = 1)
        /\ QuorumReachableAfter(approvalPolicy.required, OwnersRemovedBy(op))
    BY <1>3 DEF ConsensusRule, RemoveMemberRule, TargetedRule
  <2>2. members' = WithoutKey(members, op.target) /\ approvalPolicy' = approvalPolicy
    BY <1>3 DEF ApplyRemoveMember
  <2>3. IsFiniteSet(DOMAIN members')
    BY <1>0, <2>2, FS_RemoveElement DEF WithoutKey
  <2>4. Owners' = Owners \ {op.target}
    BY <2>2 DEF Owners, WithoutKey
  <2>5. \A x \in Owners' : members'[x].scope = ALL_SCOPE
    BY <1>0, <2>2 DEF Owners, WithoutKey
  <2>6. CASE op.target \notin Owners
    BY <2>2, <2>3, <2>4, <2>5, <2>6, GovernanceKept
  <2>7. CASE op.target \in Owners
    <3>1. OwnersRemovedBy(op) = 1
      BY <1>3, <2>7 DEF OwnersRemovedBy
    <3>2. QED
      BY <1>0, <2>1, <2>2, <2>3, <2>4, <2>5, <2>7, <3>1, GovernanceLoss
  <2>8. QED
    BY <2>6, <2>7
<1>4. CASE op.op = "delete_environment" /\ ApplyDeleteEnvironment(op, seq)
  <2>1. members' = [u \in DOMAIN members |->
            [role |-> members[u].role, scope |-> ScopeWithout(members[u].scope, op.env)]]
        /\ approvalPolicy' = approvalPolicy
    BY <1>4 DEF ApplyDeleteEnvironment
  <2>2. Owners' = Owners
    BY <2>1 DEF Owners
  <2>3. ScopeWithout(ALL_SCOPE, op.env) = ALL_SCOPE
    BY DEF ScopeWithout, ALL_SCOPE
  <2>4. \A x \in Owners' : members'[x].scope = ALL_SCOPE
    BY <1>0, <2>1, <2>2, <2>3 DEF Owners
  <2>5. QED
    BY <1>0, <2>1, <2>2, <2>4, GovernanceKept
<1>5. CASE op.op = "set_approval_policy" /\ ApplySetApprovalPolicy(op)
  <2>1. op.policy \in Policies /\ QuorumReachableAfter(op.policy.required, 0)
    BY <1>5, OperationShapes DEF ConsensusRule, PolicyOps
  <2>2. members' = members
        /\ approvalPolicy' = IF op.policy.required = 0 THEN NoPolicy ELSE op.policy
    BY <1>5 DEF ApplySetApprovalPolicy, memberVars
  <2>3. Cardinality(Owners) \in Nat
    BY <1>0, OwnersFinite
  <2>4. Cardinality(Owners) >= approvalPolicy'.required
    BY <2>1, <2>2, <2>3 DEF QuorumReachableAfter, NoPolicy, Policies
  <2>5. QED
    BY <2>2, <2>4 DEF GovernanceInvariant, GovernanceReachable, Owners
<1>6. CASE UNCHANGED <<members, approvalPolicy>>
  BY <1>6 DEF GovernanceInvariant, GovernanceReachable, Owners
<1>7. QED
  <2>1. op.op \in {"add_device", "revoke_device", "grant_server", "revoke_server",
                   "create_environment", "rotate_epoch", "checkpoint"} =>
            UNCHANGED <<members, approvalPolicy>>
    BY DEF Apply, ApplyAddDevice, ApplyRevokeDevice, ApplyGrantServer, ApplyRevokeServer,
       ApplyCreateEnvironment, ApplyRotateEpoch, ApplyCheckpoint, memberVars
  <2>2. QED
    BY <1>1, <1>2, <1>3, <1>4, <1>5, <1>6, <2>1 DEF Apply

\* At genesis one owner governs, with no policy.
LEMMA InitGovernance == Init => GovernanceInvariant
<1> SUFFICES ASSUME Init PROVE GovernanceInvariant
  OBVIOUS
<1>1. PICK g \in GenesisEntries :
        members = [u \in {g.user} |-> [role |-> "owner", scope |-> ALL_SCOPE]]
  BY DEF Init
<1>2. Owners = {g.user} /\ DOMAIN members = {g.user}
  BY <1>1 DEF Owners
<1>3. IsFiniteSet({g.user}) /\ Cardinality({g.user}) = 1
  BY FS_Singleton
<1>4. approvalPolicy.required = 0
  BY DEF Init, NoPolicy
<1>5. QED
  BY <1>1, <1>2, <1>3, <1>4 DEF GovernanceInvariant, GovernanceReachable

\* Every entry keeps governance reachable.
LEMMA GovernanceStep ==
    ASSUME TypeOK, GovernanceInvariant, [Next]_vars
    PROVE  GovernanceInvariant'
<1>1. headSeq + 1 \in Nat
  BY DEF TypeOK
<1>2. CASE StateUnchanged
  BY <1>2 DEF StateUnchanged, GovernanceInvariant, GovernanceReachable, Owners, memberVars
<1>3. QED
  BY <1>1, <1>2, StepCases, ApplyGovernance

\* On every chain there is an owner, owners hold every environment, and a policy
\* in force can be met by the owners there are.
THEOREM GovernanceNeverLocksOut == Spec => []GovernanceReachable
<1> DEFINE Inv == TypeOK /\ KeyInvariant /\ GovernanceInvariant
<1>1. Init => Inv
  BY InitTypeAndKeys, InitGovernance
<1>2. Inv /\ [Next]_vars => Inv'
  BY TypeAndKeysStep, GovernanceStep
<1>3. Inv => GovernanceReachable
  BY DEF GovernanceInvariant
<1>4. QED
  BY <1>1, <1>2, <1>3, PTL DEF Spec

(***************************************************************************)
(* The scope algebra computes what it denotes.                             *)
(***************************************************************************)

\* The ranks of the roles.
LEMMA Ranks ==
    /\ ROLE_RANK("reader") = 0 /\ ROLE_RANK("member") = 1
    /\ ROLE_RANK("admin") = 2 /\ ROLE_RANK("owner") = 3
    /\ \A r \in Roles : ROLE_RANK(r) \in 0..3 /\ (ROLE_RANK(r) = 3 => r = "owner")
BY DEF ROLE_RANK, Roles

\* The scope of a device is exactly what person and device both cover.
LEMMA IntersectDenotes ==
    ASSUME NEW s \in Scopes, NEW t \in Scopes
    PROVE  Denotation(IntersectScopes(s, t)) = Denotation(s) \cap Denotation(t)
BY DEF Denotation, IntersectScopes, Scopes, Universe, Listed

\* Containment, as the rules test it, is containment of what is covered.
LEMMA ContainsDenotes ==
    ASSUME NEW s \in Scopes, NEW t \in Scopes, ScopeContains(s, t)
    PROVE  Denotation(t) \subseteq Denotation(s)
BY DEF Denotation, ScopeContains, Scopes, Universe

\* The set a scope change is judged by covers every environment gained or lost.
LEMMA DifferenceDenotes ==
    ASSUME NEW s \in Scopes, NEW t \in Scopes
    PROVE  /\ SymmetricDifference(s, t) \in Scopes
           /\ (Denotation(s) \ Denotation(t)) \cup (Denotation(t) \ Denotation(s))
                  \subseteq Denotation(SymmetricDifference(s, t))
BY DEF Denotation, SymmetricDifference, Scopes, Universe, Listed, ALL_SCOPE

\* The set a role change is judged by covers the old and the new scope.
LEMMA UnionDenotes ==
    ASSUME NEW s \in Scopes, NEW t \in Scopes
    PROVE  /\ UnionEnvironmentSets(s, t) \in Scopes
           /\ Denotation(s) \cup Denotation(t) = Denotation(UnionEnvironmentSets(s, t))
BY DEF Denotation, UnionEnvironmentSets, Scopes, Universe, Listed, ALL_SCOPE

\* Pruning only takes the deleted environment away.
LEMMA WithoutDenotes ==
    ASSUME NEW s \in Scopes, NEW e \in Envs
    PROVE  /\ Denotation(ScopeWithout(s, e)) \subseteq Denotation(s)
           /\ Denotation(s) \subseteq Denotation(ScopeWithout(s, e)) \cup {e}
BY DEF Denotation, ScopeWithout, Scopes, Listed

(***************************************************************************)
(* No privilege out of nothing.                                            *)
(***************************************************************************)

\* The rank a device with this cap has in e when its person is m.
CapRank(m, x, e) ==
    IF e \in Denotation(m.scope) /\ e \in Denotation(x.scope)
    THEN ROLE_RANK(MinRole(m.role, x.roleCap)) ELSE -1

\* A rank is at most that of the person and that of the device, and none outside both scopes.
LEMMA CapRankType ==
    ASSUME NEW m \in MemberStates, NEW x \in DeviceRecords, NEW e
    PROVE  /\ CapRank(m, x, e) \in -1..3
           /\ CapRank(m, x, e) <= ROLE_RANK(m.role)
           /\ CapRank(m, x, e) <= ROLE_RANK(x.roleCap)
           /\ CapRank(m, x, e) >= 0 <=> e \in Denotation(m.scope) /\ e \in Denotation(x.scope)
<1>1. m.role \in Roles /\ x.roleCap \in Roles
  BY DEF MemberStates, DeviceRecords
<1>2. MinRole(m.role, x.roleCap) \in Roles
      /\ ROLE_RANK(MinRole(m.role, x.roleCap)) <= ROLE_RANK(m.role)
      /\ ROLE_RANK(MinRole(m.role, x.roleCap)) <= ROLE_RANK(x.roleCap)
  BY <1>1, Ranks DEF MinRole
<1>3. QED
  BY <1>1, <1>2, Ranks DEF CapRank

\* The rank the properties speak of, in the state and in the next one.
LEMMA RankInIs ==
    ASSUME NEW m \in MemberStates, NEW x \in DeviceRecords, NEW e
    PROVE  LET p == EffectivePermission(m, x)
           IN  (IF e \in Denotation(p.scope) THEN ROLE_RANK(p.role) ELSE -1) = CapRank(m, x, e)
<1>1. m.scope \in Scopes /\ x.scope \in Scopes
  BY DEF MemberStates, DeviceRecords
<1>2. QED
  BY <1>1, IntersectDenotes DEF EffectivePermission, CapRank

\* The rank of a device on the chain, and of its key.
LEMMA RankNow ==
    ASSUME TypeOK, KeyInvariant, NEW x \in devices, NEW e
    PROVE  /\ x \in DeviceRecords /\ x.user \in DOMAIN members /\ members[x.user] \in MemberStates
           /\ RankIn(x, e) = CapRank(members[x.user], x, e)
           /\ RankOfKey(VoteOf(x), e) = RankIn(x, e)
<1>1. x \in DeviceRecords /\ x.user \in DOMAIN members /\ members[x.user] \in MemberStates
  BY DEF TypeOK, IsMap, KeyInvariant, PeopleMatchDevices
<1>2. RankIn(x, e) = CapRank(members[x.user], x, e)
  BY <1>1, RankInIs DEF RankIn, PermissionOf
<1>3. \A y \in devices : VoteOf(y) = VoteOf(x) => y = x
  BY DEF KeyInvariant, KeySubjectsUnique, VoteOf
<1>4. IsLiveVote(VoteOf(x)) /\ (CHOOSE y \in devices : VoteOf(y) = VoteOf(x)) = x
  BY <1>3 DEF IsLiveVote
<1>5. QED
  BY <1>1, <1>2, <1>4 DEF RankOfKey

\* The same in the state after an entry.
LEMMA RankNext ==
    ASSUME TypeOK', KeyInvariant', NEW x \in devices', NEW e
    PROVE  /\ x \in DeviceRecords /\ x.user \in DOMAIN members' /\ members'[x.user] \in MemberStates
           /\ RankIn(x, e)' = CapRank(members'[x.user], x, e)
<1>1. x \in DeviceRecords /\ x.user \in DOMAIN members' /\ members'[x.user] \in MemberStates
  BY DEF TypeOK, IsMap, KeyInvariant, PeopleMatchDevices
<1>2. QED
  BY <1>1, RankInIs DEF RankIn, PermissionOf

\* The rank of a key is that of its device, or none.
LEMMA RankOfKeyType ==
    ASSUME TypeOK, KeyInvariant, NEW v, NEW e
    PROVE  RankOfKey(v, e) \in -1..3
<1>1. CASE IsLiveVote(v)
  <2>1. PICK x \in devices : VoteOf(x) = v
    BY <1>1 DEF IsLiveVote
  <2>2. RankOfKey(v, e) = CapRank(members[x.user], x, e) /\ x \in DeviceRecords
        /\ members[x.user] \in MemberStates
    BY <2>1, RankNow
  <2>3. QED
    BY <2>2, CapRankType
<1>2. CASE ~IsLiveVote(v)
  BY <1>2 DEF RankOfKey
<1>3. QED
  BY <1>1, <1>2

\* A device whose person and cap an entry leaves alone is not raised by it.
LEMMA NotRaised ==
    ASSUME TypeOK, KeyInvariant, TypeOK', KeyInvariant', NEW x \in devices, x \in devices',
           members'[x.user] = members[x.user], NEW e
    PROVE  ~(RankIn(x, e)' > RankOfKey(VoteOf(x), e))
<1>1. RankIn(x, e)' = CapRank(members[x.user], x, e)
  BY RankNext
<1>2. RankOfKey(VoteOf(x), e) = CapRank(members[x.user], x, e)
  BY RankNow
<1>3. CapRank(members[x.user], x, e) \in -1..3
  BY RankNow, CapRankType
<1>4. QED
  BY <1>1, <1>2, <1>3

\* What the acting device's own rank is at least, wherever its scope reaches.
LEMMA ActorRank ==
    ASSUME TypeOK, KeyInvariant, NEW d \in devices, NEW e
    PROVE  /\ PermissionOf(d).scope \in Scopes /\ PermissionOf(d).role \in Roles
           /\ e \in Denotation(PermissionOf(d).scope) =>
                 RankOfKey(VoteOf(d), e) = ROLE_RANK(PermissionOf(d).role)
<1>1. d \in DeviceRecords /\ members[d.user] \in MemberStates /\ d.user \in DOMAIN members
  BY RankNow
<1>2. PermissionOf(d).scope \in Scopes /\ PermissionOf(d).role \in Roles
  BY <1>1, EffectiveRoleType DEF TypeOK, StateType
<1>3. RankOfKey(VoteOf(d), e) = RankIn(d, e)
  BY RankNow
<1>4. QED
  BY <1>2, <1>3 DEF RankIn

\* The role table: what is granted is below, or at, the actor's own role.
LEMMA GrantedRoleBelow ==
    ASSUME TypeOK, KeyInvariant, NEW d \in devices, NEW op \in Operations,
           RoleRule(op, d),
           \/ op.op = "add_member"
           \/ op.op = "change_role" /\ TargetRoleRule(op, d)
    PROVE  op.role \in Roles /\ ROLE_RANK(PermissionOf(d).role) >= ROLE_RANK(op.role)
<1>1. PermissionOf(d).role \in Roles
  BY ActorRank
<1>2. CASE op.op = "add_member"
  <2>1. op.role \in Roles
    BY <1>2, OperationShapes DEF AddMemberOps
  <2>2. AtLeast(PermissionOf(d).role, IF AtLeast(op.role, "admin") THEN "owner" ELSE "admin")
    BY <1>2 DEF RoleRule, MinimumRole
  <2>3. QED
    BY <1>1, <2>1, <2>2, Ranks DEF AtLeast
<1>3. CASE op.op = "change_role" /\ TargetRoleRule(op, d)
  <2>1. op.role \in Roles
    BY <1>3, OperationShapes DEF ChangeRoleOps
  <2>2. AtLeast(PermissionOf(d).role, "admin")
    BY <1>3 DEF RoleRule, MinimumRole
  <2>3. PermissionOf(d).role = "owner" \/ ~AtLeast(op.role, "admin")
    BY <1>3 DEF TargetRoleRule
  <2>4. QED
    BY <1>1, <2>1, <2>2, <2>3, Ranks DEF AtLeast
<1>4. QED
  BY <1>2, <1>3

\* An operation gives a device more than its key had only if the signer could.
LEMMA ApplyEscalatesNothing ==
    ASSUME TypeOK, KeyInvariant, TypeOK', KeyInvariant',
           NEW op \in Operations, NEW d \in devices, NEW seq \in Nat,
           RoleRule(op, d), ConsensusRule(op, d), Apply(op, d, seq)
    PROVE  EscalatesNothing
<1> SUFFICES ASSUME NEW x \in devices', NEW e \in Universe,
                    RankIn(x, e)' > RankOfKey(VoteOf(x), e)
             PROVE  RankOfKey(VoteOf(d), e) >= RankIn(x, e)'
  <2>1. applied'.by = d
    BY DEF Apply
  <2>2. QED
    BY <2>1 DEF EscalatesNothing
<1>0. /\ x \in DeviceRecords /\ members'[x.user] \in MemberStates
      /\ RankIn(x, e)' = CapRank(members'[x.user], x, e)
      /\ RankOfKey(VoteOf(x), e) \in -1..3
      /\ d \in DeviceRecords /\ d.user \in DOMAIN members /\ members[d.user] \in MemberStates
      /\ RankOfKey(VoteOf(d), e) = CapRank(members[d.user], d, e)
  BY RankNext, RankNow, RankOfKeyType
<1>1. /\ e \in Denotation(members'[x.user].scope) /\ e \in Denotation(x.scope)
      /\ RankIn(x, e)' \in 0..3
      /\ RankIn(x, e)' <= ROLE_RANK(members'[x.user].role)
      /\ RankIn(x, e)' <= ROLE_RANK(x.roleCap)
  BY <1>0, CapRankType
<1>2. CASE op.op = "add_member" /\ ApplyAddMember(op, seq)
  <2>1. op \in AddMemberOps /\ op.target \notin DOMAIN members
        /\ ScopeContains(PermissionOf(d).scope, op.scope)
    BY <1>2, OperationShapes DEF ConsensusRule, AddMemberRule
  <2>2. members' = WithKey(members, op.target, [role |-> op.role, scope |-> op.scope])
        /\ devices' = devices \cup {FirstDevice(op.target, op, seq)}
    BY <1>2 DEF ApplyAddMember
  <2>3. CASE x \in devices
    <3>1. x.user \in DOMAIN members
      BY <2>3, RankNow
    <3>2. members'[x.user] = members[x.user]
      BY <2>1, <2>2, <3>1 DEF WithKey
    <3>3. QED
      BY <2>3, <3>2, NotRaised
  <2>4. CASE x = FirstDevice(op.target, op, seq)
    <3>1. members'[x.user] = [role |-> op.role, scope |-> op.scope]
      BY <2>2, <2>4 DEF WithKey, FirstDevice
    <3>2. e \in Denotation(PermissionOf(d).scope)
      <4>1. op.scope \in Scopes /\ e \in Denotation(op.scope)
        BY <1>1, <2>1, <3>1 DEF AddMemberOps
      <4>2. QED
        BY <2>1, <4>1, ActorRank, ContainsDenotes
    <3>3. op.role \in Roles /\ ROLE_RANK(PermissionOf(d).role) >= ROLE_RANK(op.role)
      BY <1>2, GrantedRoleBelow
    <3>4. RankIn(x, e)' <= ROLE_RANK(op.role)
      BY <1>1, <3>1
    <3>5. RankOfKey(VoteOf(d), e) = ROLE_RANK(PermissionOf(d).role)
          /\ PermissionOf(d).role \in Roles
      BY <3>2, ActorRank
    <3>6. QED
      BY <1>1, <3>3, <3>4, <3>5, Ranks
  <2>5. QED
    BY <2>2, <2>3, <2>4
<1>3. CASE op.op = "change_role" /\ ApplyChangeRole(op)
  <2>1. op \in ChangeRoleOps /\ op.target \in DOMAIN members /\ TargetRoleRule(op, d)
        /\ ScopeContains(PermissionOf(d).scope, ChangedByRoleChange(members[op.target], op))
    BY <1>3, OperationShapes DEF ConsensusRule, ChangeRoleRule, TargetedRule
  <2>2. members' = WithKey(members, op.target, [role |-> op.role, scope |-> op.scope])
        /\ devices' = devices
    BY <1>3 DEF ApplyChangeRole
  <2>3. x \in devices /\ x.user \in DOMAIN members
    BY <2>2, RankNow
  <2>4. CASE x.user # op.target
    <3>1. members'[x.user] = members[x.user]
      BY <2>2, <2>3, <2>4 DEF WithKey
    <3>2. QED
      BY <2>3, <3>1, NotRaised
  <2>5. CASE x.user = op.target
    <3> DEFINE old == members[op.target]
    <3>1. members'[x.user] = [role |-> op.role, scope |-> op.scope]
      BY <2>2, <2>5 DEF WithKey
    <3>2. old \in MemberStates /\ old.scope \in Scopes /\ op.scope \in Scopes /\ op.role \in Roles
      BY <2>1 DEF TypeOK, IsMap, MemberStates, ChangeRoleOps
    <3>3. e \in Denotation(op.scope)
      BY <1>1, <3>1
    <3>4. e \in Denotation(ChangedByRoleChange(old, op)) /\ ChangedByRoleChange(old, op) \in Scopes
      <4>1. CASE old.role # op.role
        BY <3>2, <3>3, <4>1, UnionDenotes DEF ChangedByRoleChange
      <4>2. CASE old.role = op.role
        <5>1. e \notin Denotation(old.scope)
          <6>1. SUFFICES ASSUME e \in Denotation(old.scope) PROVE FALSE
            OBVIOUS
          <6>2. CapRank(old, x, e) = CapRank(members'[x.user], x, e)
            BY <3>1, <3>3, <4>2, <6>1 DEF CapRank
          <6>3. RankOfKey(VoteOf(x), e) = CapRank(old, x, e)
            BY <2>3, <2>5, RankNow
          <6>4. QED
            BY <1>0, <1>1, <6>2, <6>3
        <5>2. QED
          BY <3>2, <3>3, <4>2, <5>1, DifferenceDenotes DEF ChangedByRoleChange
      <4>3. QED
        BY <4>1, <4>2
    <3>5. e \in Denotation(PermissionOf(d).scope)
      BY <2>1, <3>4, ActorRank, ContainsDenotes
    <3>6. ROLE_RANK(PermissionOf(d).role) >= ROLE_RANK(op.role)
      BY <1>3, <2>1, GrantedRoleBelow
    <3>7. RankIn(x, e)' <= ROLE_RANK(op.role)
      BY <1>1, <3>1
    <3>8. RankOfKey(VoteOf(d), e) = ROLE_RANK(PermissionOf(d).role)
          /\ PermissionOf(d).role \in Roles
      BY <3>5, ActorRank
    <3>9. QED
      BY <1>1, <3>2, <3>6, <3>7, <3>8, Ranks
  <2>6. QED
    BY <2>4, <2>5
<1>4. CASE op.op = "remove_member" /\ ApplyRemoveMember(op)
  <2>1. members' = WithoutKey(members, op.target)
        /\ devices' = devices \ DevicesOf(op.target)
    BY <1>4 DEF ApplyRemoveMember, DropDevices
  <2>2. x \in devices /\ x.user # op.target /\ x.user \in DOMAIN members
    BY <2>1, RankNow DEF DevicesOf
  <2>3. members'[x.user] = members[x.user]
    BY <2>1, <2>2 DEF WithoutKey
  <2>4. QED
    BY <2>2, <2>3, NotRaised
<1>5. CASE op.op = "add_device" /\ ApplyAddDevice(op, d, seq)
  <2> DEFINE n == [user |-> d.user, enc |-> op.enc, sig |-> op.sig,
                   roleCap |-> op.roleCap, scope |-> op.scope, addedSeq |-> seq]
  <2>1. members' = members /\ devices' = devices \cup {n}
    BY <1>5 DEF ApplyAddDevice
  <2>2. CASE x \in devices
    BY <2>1, <2>2, NotRaised
  <2>3. CASE x = n
    <3>1. CapWithinCap([roleCap |-> op.roleCap, scope |-> op.scope], d)
      BY <1>5 DEF ConsensusRule, AddDeviceRule
    <3>2. op.roleCap \in Roles /\ op.scope \in Scopes /\ d.roleCap \in Roles /\ d.scope \in Scopes
      BY <1>0, <1>5, OperationShapes DEF AddDeviceOps, DeviceRecords
    <3>3. ROLE_RANK(op.roleCap) <= ROLE_RANK(d.roleCap) /\ Denotation(op.scope) \subseteq Denotation(d.scope)
      BY <3>1, <3>2, ContainsDenotes DEF CapWithinCap
    <3>4. x.user = d.user /\ x.roleCap = op.roleCap /\ x.scope = op.scope
      BY <2>3
    <3>5. members[d.user].role \in Roles
      BY <1>0 DEF MemberStates
    <3>6. CapRank(members[d.user], d, e) >= CapRank(members[d.user], x, e)
      BY <1>1, <2>1, <3>2, <3>3, <3>4, <3>5, Ranks DEF CapRank, MinRole
    <3>7. QED
      BY <1>0, <2>1, <3>4, <3>6
  <2>4. QED
    BY <2>1, <2>2, <2>3
<1>6. CASE op.op = "revoke_device" /\ ApplyRevokeDevice(op)
  <2>1. members' = members /\ devices' \subseteq devices
    BY <1>6 DEF ApplyRevokeDevice, DropDevices
  <2>2. QED
    BY <2>1, NotRaised
<1>7. CASE op.op = "delete_environment" /\ ApplyDeleteEnvironment(op, seq)
  <2>1. op.env \in Envs
    BY <1>7, OperationShapes DEF EnvironmentOps
  <2>2. PICK y \in devices : x = [y EXCEPT !.scope = ScopeWithout(y.scope, op.env)]
    BY <1>7 DEF ApplyDeleteEnvironment
  <2>3. y \in DeviceRecords /\ y.user \in DOMAIN members /\ members[y.user] \in MemberStates
        /\ RankOfKey(VoteOf(y), e) = CapRank(members[y.user], y, e)
    BY RankNow
  <2>4. x.user = y.user /\ x.roleCap = y.roleCap /\ VoteOf(x) = VoteOf(y)
        /\ x.scope = ScopeWithout(y.scope, op.env)
    BY <2>2, <2>3 DEF DeviceRecords, VoteOf
  <2>5. members'[x.user] = [role |-> members[y.user].role,
                            scope |-> ScopeWithout(members[y.user].scope, op.env)]
    BY <1>7, <2>3, <2>4 DEF ApplyDeleteEnvironment
  <2>6. e \in Denotation(members[y.user].scope) /\ e \in Denotation(y.scope)
    BY <1>1, <2>1, <2>3, <2>4, <2>5, WithoutDenotes DEF MemberStates, DeviceRecords
  <2>7. CapRank(members[y.user], y, e) = CapRank(members'[x.user], x, e)
    BY <1>1, <2>4, <2>5, <2>6 DEF CapRank
  <2>8. QED
    BY <1>0, <1>1, <2>3, <2>4, <2>7
<1>8. CASE UNCHANGED memberVars
  BY <1>8, NotRaised DEF memberVars
<1>9. QED
  <2>1. op.op \in {"grant_server", "revoke_server", "create_environment", "rotate_epoch",
                   "checkpoint", "set_approval_policy"} => UNCHANGED memberVars
    BY DEF Apply, ApplyGrantServer, ApplyRevokeServer, ApplyCreateEnvironment, ApplyRotateEpoch,
       ApplyCheckpoint, ApplySetApprovalPolicy
  <2>2. QED
    BY <1>2, <1>3, <1>4, <1>5, <1>6, <1>7, <1>8, <2>1 DEF Apply

\* On every chain, no entry gives any device more than the device it is
\* attributed to had itself.
THEOREM PrivilegesNeverEscalate == Spec => NoEscalation
<1> DEFINE Inv == TypeOK /\ KeyInvariant
<1>1. Inv /\ [Next]_vars => Inv'
  BY TypeAndKeysStep
<1>2. Inv /\ [Next]_vars => [EscalatesNothing]_vars
  <2> SUFFICES ASSUME Inv, [Next]_vars PROVE EscalatesNothing
    OBVIOUS
  <2>1. Inv' /\ headSeq + 1 \in Nat
    BY <1>1 DEF TypeOK
  <2>2. CASE StateUnchanged
    BY <2>1, <2>2, NotRaised DEF StateUnchanged, memberVars, EscalatesNothing
  <2>3. QED
    BY <2>1, <2>2, StepCases, ApplyEscalatesNothing
<1>3. QED
  BY <1>1, <1>2, InitTypeAndKeys, PTL DEF Spec, NoEscalation

(***************************************************************************)
(* Changes stay within the scope of their author (principle 1).            *)
(***************************************************************************)

\* A scope that includes an environment covers it.
LEMMA IncludesDenotes ==
    ASSUME NEW s \in Scopes, NEW e \in Envs, ScopeIncludesEnvironment(s, e)
    PROVE  e \in Denotation(s)
BY DEF Denotation, ScopeIncludesEnvironment, Universe

\* Whoever keeps role and scope keeps the rank everywhere.
LEMMA SamePersonRank ==
    ASSUME NEW u, NEW e, u \in DOMAIN members' <=> u \in DOMAIN members,
           u \in DOMAIN members => members'[u] = members[u]
    PROVE  PersonRank(u, e)' = PersonRank(u, e)
BY DEF PersonRank

\* What a role change is judged by covers every environment where it changes a rank.
LEMMA RoleChangeCovers ==
    ASSUME NEW old \in MemberStates, NEW op \in ChangeRoleOps, NEW e,
           (IF e \in Denotation(op.scope) THEN ROLE_RANK(op.role) ELSE -1)
             # (IF e \in Denotation(old.scope) THEN ROLE_RANK(old.role) ELSE -1)
    PROVE  /\ ChangedByRoleChange(old, op) \in Scopes
           /\ e \in Denotation(ChangedByRoleChange(old, op))
<1>1. old.scope \in Scopes /\ op.scope \in Scopes
  BY DEF MemberStates, ChangeRoleOps
<1>2. e \in Denotation(op.scope) \/ e \in Denotation(old.scope)
  OBVIOUS
<1>3. CASE old.role = op.role
  <2>1. e \in (Denotation(old.scope) \ Denotation(op.scope))
              \cup (Denotation(op.scope) \ Denotation(old.scope))
    BY <1>2, <1>3
  <2>2. QED
    BY <1>1, <1>3, <2>1, DifferenceDenotes DEF ChangedByRoleChange
<1>4. CASE old.role # op.role
  BY <1>1, <1>2, <1>4, UnionDenotes DEF ChangedByRoleChange
<1>5. QED
  BY <1>3, <1>4

\* What an applied operation changes about people, its author's scope covers.
LEMMA ApplyWithinScope ==
    ASSUME TypeOK, KeyInvariant, NEW op \in Operations, NEW d \in devices, NEW seq \in Nat,
           ConsensusRule(op, d), Apply(op, d, seq)
    PROVE  ChangesWithinScope
<1> SUFFICES ASSUME NEW u \in Users, NEW e \in Universe, PersonRank(u, e)' # PersonRank(u, e)
             PROVE  e \in Denotation(PermissionOf(d).scope)
  <2>1. applied'.by = d
    BY DEF Apply
  <2>2. QED
    BY <2>1 DEF ChangesWithinScope
<1>0. IsMap(members, Users, MemberStates) /\ PermissionOf(d).scope \in Scopes
  BY ActorRank DEF TypeOK
<1>1. CASE op.op = "add_member" /\ ApplyAddMember(op, seq)
  <2>1. op.scope \in Scopes /\ op.target \notin DOMAIN members
        /\ ScopeContains(PermissionOf(d).scope, op.scope)
    BY <1>1, OperationShapes DEF ConsensusRule, AddMemberRule, AddMemberOps
  <2>2. members' = WithKey(members, op.target, [role |-> op.role, scope |-> op.scope])
    BY <1>1 DEF ApplyAddMember
  <2>3. u = op.target
    BY <2>2, SamePersonRank DEF WithKey
  <2>4. e \in Denotation(op.scope)
    BY <2>1, <2>2, <2>3 DEF PersonRank, WithKey
  <2>5. QED
    BY <1>0, <2>1, <2>4, ContainsDenotes
<1>2. CASE op.op = "change_role" /\ ApplyChangeRole(op)
  <2>1. op \in ChangeRoleOps /\ op.target \in DOMAIN members
        /\ ScopeContains(PermissionOf(d).scope, ChangedByRoleChange(members[op.target], op))
    BY <1>2, OperationShapes DEF ConsensusRule, ChangeRoleRule, TargetedRule
  <2>2. members' = WithKey(members, op.target, [role |-> op.role, scope |-> op.scope])
    BY <1>2 DEF ApplyChangeRole
  <2>3. u = op.target
    BY <2>1, <2>2, SamePersonRank DEF WithKey
  <2> DEFINE old == members[op.target]
  <2>4. old \in MemberStates
    BY <1>0, <2>1 DEF IsMap
  <2>5. (IF e \in Denotation(op.scope) THEN ROLE_RANK(op.role) ELSE -1)
          # (IF e \in Denotation(old.scope) THEN ROLE_RANK(old.role) ELSE -1)
    BY <2>1, <2>2, <2>3 DEF PersonRank, WithKey
  <2>6. ChangedByRoleChange(old, op) \in Scopes /\ e \in Denotation(ChangedByRoleChange(old, op))
    BY <2>1, <2>4, <2>5, RoleChangeCovers
  <2>7. QED
    BY <1>0, <2>1, <2>6, ContainsDenotes
<1>3. CASE op.op = "remove_member" /\ ApplyRemoveMember(op)
  <2>1. op.target \in DOMAIN members
        /\ ScopeContains(PermissionOf(d).scope, members[op.target].scope)
    BY <1>3 DEF ConsensusRule, RemoveMemberRule, TargetedRule
  <2>2. members' = WithoutKey(members, op.target)
    BY <1>3 DEF ApplyRemoveMember
  <2>3. u = op.target
    BY <2>2, SamePersonRank DEF WithoutKey
  <2>4. members[op.target].scope \in Scopes /\ e \in Denotation(members[op.target].scope)
    BY <1>0, <2>1, <2>2, <2>3 DEF PersonRank, WithoutKey, IsMap, MemberStates
  <2>5. QED
    BY <1>0, <2>1, <2>4, ContainsDenotes
<1>4. CASE op.op = "delete_environment" /\ ApplyDeleteEnvironment(op, seq)
  <2>1. op.env \in Envs /\ ScopeIncludesEnvironment(PermissionOf(d).scope, op.env)
    BY <1>4, OperationShapes DEF ConsensusRule, DeleteEnvironmentRule, EnvironmentOps
  <2>2. members' = [p \in DOMAIN members |->
            [role |-> members[p].role, scope |-> ScopeWithout(members[p].scope, op.env)]]
    BY <1>4 DEF ApplyDeleteEnvironment
  <2>3. u \in DOMAIN members /\ members[u].scope \in Scopes
    BY <1>0, <2>2 DEF PersonRank, IsMap, MemberStates
  <2>4. members'[u].role = members[u].role /\ DOMAIN members' = DOMAIN members
        /\ members'[u].scope = ScopeWithout(members[u].scope, op.env)
    BY <2>2, <2>3
  <2>5. e = op.env
    BY <2>1, <2>3, <2>4, WithoutDenotes DEF PersonRank
  <2>6. QED
    BY <1>0, <2>1, <2>5, IncludesDenotes
<1>5. CASE members' = members
  BY <1>5, SamePersonRank
<1>6. QED
  <2>1. op.op \in {"add_device", "revoke_device", "grant_server", "revoke_server",
                   "create_environment", "rotate_epoch", "checkpoint", "set_approval_policy"} =>
            members' = members
    BY DEF Apply, ApplyAddDevice, ApplyRevokeDevice, ApplyGrantServer, ApplyRevokeServer,
       ApplyCreateEnvironment, ApplyRotateEpoch, ApplyCheckpoint, ApplySetApprovalPolicy, memberVars
  <2>2. QED
    BY <1>1, <1>2, <1>3, <1>4, <1>5, <2>1 DEF Apply

\* On every chain an entry changes people only where its author's device reaches.
THEOREM ChangesStayInScope == Spec => ChangesContained
<1> DEFINE Inv == TypeOK /\ KeyInvariant
<1>1. Inv /\ [Next]_vars => Inv'
  BY TypeAndKeysStep
<1>2. Inv /\ [Next]_vars => [ChangesWithinScope]_vars
  <2> SUFFICES ASSUME Inv, [Next]_vars PROVE ChangesWithinScope
    OBVIOUS
  <2>1. headSeq + 1 \in Nat
    BY DEF TypeOK
  <2>2. CASE StateUnchanged
    BY <2>2, SamePersonRank DEF StateUnchanged, memberVars, ChangesWithinScope
  <2>3. QED
    BY <2>1, <2>2, StepCases, ApplyWithinScope
<1>3. QED
  BY <1>1, <1>2, InitTypeAndKeys, PTL DEF Spec, ChangesContained

(***************************************************************************)
(* Admins are shielded from other admins.                                  *)
(***************************************************************************)

\* After a step, too, the key pair of a device leads to that device's own rank.
LEMMA RankOfKeyNext ==
    ASSUME TypeOK', KeyInvariant', NEW x \in devices', NEW v, VoteOf(x) = v, NEW e
    PROVE  RankOfKey(v, e)' = CapRank(members'[x.user], x, e)
<1>1. \A y \in devices' : VoteOf(y) = v => y = x
  BY DEF KeyInvariant, KeySubjectsUnique, VoteOf
<1>2. IsLiveVote(v)' /\ (CHOOSE y \in devices' : VoteOf(y) = v) = x
  BY <1>1 DEF IsLiveVote
<1>3. RankOfKey(v, e)' = RankIn(x, e)'
  BY <1>2 DEF RankOfKey
<1>4. QED
  BY <1>3, RankNext

\* A device whose person and cap an entry leaves alone is not lowered by it.
LEMMA NotLowered ==
    ASSUME TypeOK, KeyInvariant, TypeOK', KeyInvariant', NEW x \in devices, x \in devices',
           members'[x.user] = members[x.user], NEW e
    PROVE  ~(RankOfKey(VoteOf(x), e)' < RankIn(x, e))
<1>1. RankOfKey(VoteOf(x), e)' = CapRank(members[x.user], x, e)
  BY RankOfKeyNext
<1>2. RankIn(x, e) = CapRank(members[x.user], x, e) /\ CapRank(members[x.user], x, e) \in -1..3
  BY RankNow, CapRankType
<1>3. QED
  BY <1>1, <1>2

\* An act on an admin or an owner is an owner's (targetRoleReason).
LEMMA TargetRuleShields ==
    ASSUME NEW op, NEW d, TargetRoleRule(op, d), AtLeast(members[op.target].role, "admin")
    PROVE  PermissionOf(d).role = "owner"
BY DEF TargetRoleRule

\* An operation takes something from an admin or an owner only if an owner signed it or they did.
LEMMA ApplyShieldsAdmins ==
    ASSUME TypeOK, KeyInvariant, TypeOK', KeyInvariant',
           NEW op \in Operations, NEW d \in devices, NEW seq \in Nat, seq # 0,
           ConsensusRule(op, d), Apply(op, d, seq)
    PROVE  ShieldsAdmins
<1> SUFFICES ASSUME NEW x \in devices, NEW e \in Universe,
                    AtLeast(members[x.user].role, "admin"), ~IsDeleted(e)',
                    RankOfKey(VoteOf(x), e)' < RankIn(x, e),
                    d.user # x.user
             PROVE  PermissionOf(d).role = "owner"
  <2>1. applied'.by = d
    BY DEF Apply
  <2>2. QED
    BY <2>1 DEF ShieldsAdmins
<1>0. x \in DeviceRecords /\ x.user \in DOMAIN members
  BY RankNow
<1>1. CASE op.op = "add_member" /\ ApplyAddMember(op, seq)
  <2>1. op.target \notin DOMAIN members
    BY <1>1 DEF ConsensusRule, AddMemberRule
  <2>2. x \in devices' /\ members'[x.user] = members[x.user]
    BY <1>0, <1>1, <2>1 DEF ApplyAddMember, WithKey
  <2>3. QED
    BY <2>2, NotLowered
<1>2. CASE op.op = "change_role" /\ ApplyChangeRole(op)
  <2>1. TargetRoleRule(op, d)
    BY <1>2 DEF ConsensusRule, ChangeRoleRule, TargetedRule
  <2>2. CASE x.user = op.target
    BY <2>1, <2>2, TargetRuleShields
  <2>3. CASE x.user # op.target
    <3>1. x \in devices' /\ members'[x.user] = members[x.user]
      BY <1>0, <1>2, <2>3 DEF ApplyChangeRole, WithKey
    <3>2. QED
      BY <3>1, NotLowered
  <2>4. QED
    BY <2>2, <2>3
<1>3. CASE op.op = "remove_member" /\ ApplyRemoveMember(op)
  <2>1. TargetRoleRule(op, d)
    BY <1>3 DEF ConsensusRule, RemoveMemberRule, TargetedRule
  <2>2. CASE x.user = op.target
    BY <2>1, <2>2, TargetRuleShields
  <2>3. CASE x.user # op.target
    <3>1. x \in devices' /\ members'[x.user] = members[x.user]
      BY <1>0, <1>3, <2>3 DEF ApplyRemoveMember, DropDevices, DevicesOf, WithoutKey
    <3>2. QED
      BY <3>1, NotLowered
  <2>4. QED
    BY <2>2, <2>3
<1>4. CASE op.op = "add_device" /\ ApplyAddDevice(op, d, seq)
  <2>1. x \in devices' /\ members' = members
    BY <1>4 DEF ApplyAddDevice
  <2>2. QED
    BY <2>1, NotLowered
<1>5. CASE op.op = "revoke_device" /\ ApplyRevokeDevice(op)
  <2>1. op.target # d.user => TargetRoleRule(op, d)
    BY <1>5 DEF ConsensusRule, RevokeDeviceRule
  <2>2. CASE x.user = op.target
    BY <2>1, <2>2, TargetRuleShields
  <2>3. CASE x.user # op.target
    <3>1. x \in devices' /\ members' = members
      BY <1>5, <2>3 DEF ApplyRevokeDevice, DropDevices, RevokedDevices, DevicesOf
    <3>2. QED
      BY <3>1, NotLowered
  <2>4. QED
    BY <2>2, <2>3
<1>6. CASE op.op = "delete_environment" /\ ApplyDeleteEnvironment(op, seq)
  <2> DEFINE y == [x EXCEPT !.scope = ScopeWithout(x.scope, op.env)]
  <2>1. op.env \in Envs /\ op.env \in DOMAIN environments
    BY <1>6, OperationShapes DEF ConsensusRule, DeleteEnvironmentRule, EnvironmentOps, LiveEnvironments
  <2>2. IsDeleted(op.env)'
    <3>1. environments[op.env] \in EnvironmentStates
      BY <2>1 DEF TypeOK, IsMap
    <3>2. environments' = [environments EXCEPT ![op.env].deletedAt = seq]
      BY <1>6 DEF ApplyDeleteEnvironment
    <3>3. QED
      BY <2>1, <3>1, <3>2 DEF IsDeleted, EnvironmentStates
  <2>3. e # op.env
    BY <2>2
  <2>4. y \in devices' /\ VoteOf(y) = VoteOf(x)
    BY <1>0, <1>6 DEF ApplyDeleteEnvironment, VoteOf, DeviceRecords
  <2>5. y.user = x.user /\ y.roleCap = x.roleCap /\ y.scope = ScopeWithout(x.scope, op.env)
    BY <1>0 DEF DeviceRecords
  <2>6. members'[y.user] = [role |-> members[x.user].role,
                            scope |-> ScopeWithout(members[x.user].scope, op.env)]
    BY <1>0, <1>6, <2>5 DEF ApplyDeleteEnvironment
  <2>7. members[x.user] \in MemberStates
    BY RankNow
  <2>8. /\ e \in Denotation(members[x.user].scope) <=> e \in Denotation(members'[y.user].scope)
        /\ e \in Denotation(x.scope) <=> e \in Denotation(y.scope)
    BY <1>0, <2>1, <2>3, <2>5, <2>6, <2>7, WithoutDenotes DEF MemberStates, DeviceRecords
  <2>9. CapRank(members'[y.user], y, e) = CapRank(members[x.user], x, e)
    BY <2>5, <2>6, <2>8 DEF CapRank
  <2>10. RankOfKey(VoteOf(x), e)' = CapRank(members[x.user], x, e)
    <3> HIDE DEF y
    <3>1. QED
      BY <2>4, <2>9, RankOfKeyNext
  <2>11. RankIn(x, e) = CapRank(members[x.user], x, e) /\ CapRank(members[x.user], x, e) \in -1..3
    BY <1>0, <2>7, RankNow, CapRankType
  <2>12. QED
    BY <2>10, <2>11
<1>7. CASE UNCHANGED memberVars
  BY <1>7, NotLowered DEF memberVars
<1>8. QED
  <2>1. op.op \in {"grant_server", "revoke_server", "create_environment", "rotate_epoch",
                   "checkpoint", "set_approval_policy"} => UNCHANGED memberVars
    BY DEF Apply, ApplyGrantServer, ApplyRevokeServer, ApplyCreateEnvironment, ApplyRotateEpoch,
       ApplyCheckpoint, ApplySetApprovalPolicy
  <2>2. QED
    BY <1>1, <1>2, <1>3, <1>4, <1>5, <1>6, <1>7, <2>1 DEF Apply

\* On every chain an admin or an owner loses rights in a live environment, or a
\* device, only by an owner's act or their own.
THEOREM AdminsAreShielded == Spec => AdminsShielded
<1> DEFINE Inv == TypeOK /\ KeyInvariant
<1>1. Inv /\ [Next]_vars => Inv'
  BY TypeAndKeysStep
<1>2. Inv /\ [Next]_vars => [ShieldsAdmins]_vars
  <2> SUFFICES ASSUME Inv, [Next]_vars PROVE ShieldsAdmins
    OBVIOUS
  <2>1. Inv' /\ headSeq + 1 \in Nat /\ headSeq + 1 # 0
    BY <1>1 DEF TypeOK
  <2>2. CASE StateUnchanged
    BY <2>1, <2>2, NotLowered DEF StateUnchanged, memberVars, ShieldsAdmins
  <2>3. QED
    BY <2>1, <2>2, StepCases, ApplyShieldsAdmins
<1>3. QED
  BY <1>1, <1>2, InitTypeAndKeys, PTL DEF Spec, AdminsShielded

(***************************************************************************)
(* Four eyes.                                                              *)
(***************************************************************************)

\* Every signature a pending proposal counts was put while holding the owner role:
\* the proposer's (roleAtProposal) and every approver's (approveVoteReason).
SignaturesBallotted ==
    \A id \in DOMAIN pendingProposals :
        \A v \in ApprovalSigners(pendingProposals[id]) : [proposal |-> id, vote |-> v] \in ballots

\* A scope contains itself, and what is left of it without an environment.
LEMMA ScopeContainsItself ==
    ASSUME NEW s \in Scopes
    PROVE  /\ ScopeContains(s, s)
           /\ \A e \in Envs : ScopeContains(s, ScopeWithout(s, e))
BY DEF ScopeContains, ScopeWithout, Scopes, Listed

\* An entry that applies no operation changes nothing a policy protects.
LEMMA UnchangedNotProtected ==
    ASSUME TypeOK, StateUnchanged
    PROVE  ~ProtectedChange
<1>1. \A u \in DOMAIN members : members[u].scope \in Scopes
  BY DEF TypeOK, IsMap, MemberStates
<1>2. QED
  BY <1>1, ScopeContainsItself
  DEF StateUnchanged, memberVars, grantVars, ProtectedChange, Owners

\* An operation that needs no approval changes nothing a policy protects
\* (isApprovalTarget).
LEMMA DirectNotProtected ==
    ASSUME TypeOK, NEW op \in Operations, NEW d \in devices, NEW seq \in Nat,
           ConsensusRule(op, d), Apply(op, d, seq),
           ~IsApprovalTarget(op, approvalPolicy), approvalPolicy.required # 0
    PROVE  ~ProtectedChange
<1>0. /\ op.op # "set_approval_policy" /\ ~EstablishesOwner(op)
      /\ op.op \notin approvalPolicy.ops
  BY DEF IsApprovalTarget
<1>a. /\ \A u \in DOMAIN members : members[u].scope \in Scopes
      /\ \A s \in Scopes : ScopeContains(s, s)
  BY ScopeContainsItself DEF TypeOK, IsMap, MemberStates
<1>1. CASE op.op = "add_member" /\ ApplyAddMember(op, seq)
  <2>1. op.role # "owner" /\ op.target \notin DOMAIN members
    BY <1>0, <1>1 DEF EstablishesOwner, ConsensusRule, AddMemberRule
  <2>2. /\ members' = WithKey(members, op.target, [role |-> op.role, scope |-> op.scope])
        /\ serverGrants' = serverGrants /\ approvalPolicy' = approvalPolicy
    BY <1>1 DEF ApplyAddMember, grantVars
  <2>3. Owners' = Owners
    BY <2>1, <2>2 DEF Owners, WithKey
  <2>4. \A u \in DOMAIN members : u \in DOMAIN members' /\ members'[u] = members[u]
    BY <2>1, <2>2 DEF WithKey
  <2>5. QED
    BY <1>0, <1>a, <1>1, <2>2, <2>3, <2>4 DEF ProtectedChange
<1>2. CASE op.op = "change_role" /\ ApplyChangeRole(op)
  <2>1. op.role # "owner" /\ op.target \in DOMAIN members
    BY <1>0, <1>2 DEF EstablishesOwner, ConsensusRule, ChangeRoleRule, TargetedRule
  <2>2. /\ members' = WithKey(members, op.target, [role |-> op.role, scope |-> op.scope])
        /\ serverGrants' = serverGrants /\ approvalPolicy' = approvalPolicy
    BY <1>2 DEF ApplyChangeRole, grantVars
  <2>3. Owners' \subseteq Owners
    BY <2>1, <2>2 DEF Owners, WithKey
  <2>4. DOMAIN members' = DOMAIN members
    BY <2>1, <2>2 DEF WithKey
  <2>5. QED
    BY <1>0, <1>2, <2>2, <2>3, <2>4 DEF ProtectedChange
<1>3. CASE op.op = "remove_member" /\ ApplyRemoveMember(op)
  <2>1. /\ members' = WithoutKey(members, op.target)
        /\ serverGrants' = serverGrants /\ approvalPolicy' = approvalPolicy
    BY <1>3 DEF ApplyRemoveMember, grantVars
  <2>2. Owners' \subseteq Owners /\ DOMAIN members' \subseteq DOMAIN members
    BY <2>1 DEF Owners, WithoutKey
  <2>3. \A u \in DOMAIN members' : members'[u] = members[u]
    BY <2>1 DEF WithoutKey
  <2>4. QED
    BY <1>0, <1>a, <1>3, <2>1, <2>2, <2>3 DEF ProtectedChange
<1>4. CASE op.op = "grant_server" /\ ApplyGrantServer(op, seq)
  <2>1. /\ members' = members /\ approvalPolicy' = approvalPolicy
        /\ DOMAIN serverGrants \subseteq DOMAIN serverGrants'
    BY <1>4 DEF ApplyGrantServer, memberVars, WithKey
  <2>2. QED
    BY <1>0, <1>a, <1>4, <2>1 DEF ProtectedChange, Owners
<1>5. CASE op.op = "revoke_server" /\ ApplyRevokeServer(op)
  <2>1. /\ members' = members /\ approvalPolicy' = approvalPolicy
        /\ DOMAIN serverGrants' \subseteq DOMAIN serverGrants
        /\ \A k \in DOMAIN serverGrants' : serverGrants'[k] = serverGrants[k]
    BY <1>5 DEF ApplyRevokeServer, memberVars, WithoutKey
  <2>2. QED
    BY <1>0, <1>a, <1>5, <2>1 DEF ProtectedChange, Owners
<1>6. CASE op.op = "delete_environment" /\ ApplyDeleteEnvironment(op, seq)
  <2>1. op.env \in Envs
    BY <1>6, OperationShapes DEF EnvironmentOps
  <2>2. /\ members' = [u \in DOMAIN members |->
               [role |-> members[u].role, scope |-> ScopeWithout(members[u].scope, op.env)]]
        /\ serverGrants' = [k \in DOMAIN serverGrants |->
               [ids |-> serverGrants[k].ids \ {op.env}, grantSeq |-> serverGrants[k].grantSeq]]
        /\ approvalPolicy' = approvalPolicy
    BY <1>6 DEF ApplyDeleteEnvironment
  <2>3. Owners' = Owners /\ DOMAIN members' = DOMAIN members
        /\ DOMAIN serverGrants' = DOMAIN serverGrants
    BY <2>2 DEF Owners
  <2>4. \A u \in DOMAIN members : /\ members'[u].role = members[u].role
                                  /\ ScopeContains(members[u].scope, members'[u].scope)
    BY <1>a, <2>1, <2>2, ScopeContainsItself
  <2>5. \A k \in DOMAIN serverGrants : serverGrants'[k].ids \subseteq serverGrants[k].ids
    BY <2>2
  <2>6. QED
    BY <2>2, <2>3, <2>4, <2>5 DEF ProtectedChange
<1>7. CASE UNCHANGED <<members, serverGrants, approvalPolicy>>
  BY <1>a, <1>7 DEF ProtectedChange, Owners
<1>8. QED
  <2>1. op.op \in {"add_device", "revoke_device", "create_environment", "rotate_epoch",
                   "checkpoint"} => UNCHANGED <<members, serverGrants, approvalPolicy>>
    BY DEF Apply, ApplyAddDevice, ApplyRevokeDevice, ApplyCreateEnvironment, ApplyRotateEpoch,
       ApplyCheckpoint, memberVars, grantVars
  <2>2. QED
    BY <1>0, <1>1, <1>2, <1>3, <1>4, <1>5, <1>6, <1>7, <2>1 DEF Apply

\* A device that acts as an owner belongs to an owner: a cap only lowers a role.
LEMMA OwnerDevice ==
    ASSUME TypeOK, KeyInvariant, NEW d \in devices, PermissionOf(d).role = "owner"
    PROVE  d.user \in Owners
<1>1. d \in DeviceRecords /\ d.user \in DOMAIN members /\ members[d.user] \in MemberStates
  BY RankNow
<1>2. members[d.user].role \in Roles /\ d.roleCap \in Roles
  BY <1>1 DEF MemberStates, DeviceRecords
<1>3. MinRole(members[d.user].role, d.roleCap) = "owner"
  BY DEF PermissionOf, EffectivePermission
<1>4. members[d.user].role = "owner"
  BY <1>2, <1>3, Ranks DEF MinRole
<1>5. QED
  BY <1>1, <1>4 DEF Owners

\* When an approve reaches the quorum, the people counted are owners now, each with
\* a ballot for this proposal from a device that is theirs now (countOwnerVotes).
LEMMA QuorumIsBallotted ==
    ASSUME TypeOK, KeyInvariant, IsFiniteSet(DOMAIN members), SignaturesBallotted,
           NEW d \in devices, NEW id \in DOMAIN pendingProposals,
           PermissionOf(d).role = "owner", ReachesQuorum(d, id),
           ballots' = ballots \cup Ballot(id, d)
    PROVE  Cardinality({u \in Owners : \E b \in ballots' : /\ b.proposal = id
                                                           /\ b.vote.user = u
                                                           /\ IsLiveVote(b.vote)})
               >= approvalPolicy.required
<1> DEFINE signers == ApprovalSigners(pendingProposals[id]) \cup {VoteOf(d)}
           counted == {u \in Owners : \E b \in ballots' : /\ b.proposal = id
                                                          /\ b.vote.user = u
                                                          /\ IsLiveVote(b.vote)}
<1>1. \A v \in signers : [proposal |-> id, vote |-> v] \in ballots'
  BY DEF SignaturesBallotted, Ballot
<1>2. OwnerVoters(signers) \subseteq counted
  <2>1. SUFFICES ASSUME NEW u \in OwnerVoters(signers) PROVE u \in counted
    OBVIOUS
  <2>2. PICK x \in devices : x.user = u /\ VoteOf(x) \in signers /\ PermissionOf(x).role = "owner"
    BY <2>1 DEF OwnerVoters
  <2>3. u \in Owners
    BY <2>2, OwnerDevice
  <2>4. [proposal |-> id, vote |-> VoteOf(x)] \in ballots'
    BY <1>1, <2>2
  <2>5. IsLiveVote(VoteOf(x)) /\ VoteOf(x).user = u
    BY <2>2 DEF IsLiveVote, VoteOf
  <2>6. QED
    BY <2>3, <2>4, <2>5
<1>3. IsFiniteSet(counted)
  BY OwnersFinite, FS_Subset
<1>4. /\ Cardinality(OwnerVoters(signers)) \in Nat /\ Cardinality(counted) \in Nat
      /\ Cardinality(OwnerVoters(signers)) <= Cardinality(counted)
  BY <1>2, <1>3, FS_Subset, FS_CardinalityType
<1>5. Cardinality(OwnerVoters(signers)) >= approvalPolicy.required
  BY DEF ReachesQuorum
<1>6. approvalPolicy.required \in Nat
  BY DEF TypeOK, Policies
<1>7. QED
  BY <1>4, <1>5, <1>6

\* No step loses a ballot or counts a signature without one.
LEMMA SignaturesBallottedStep ==
    ASSUME TypeOK, SignaturesBallotted, [Next]_vars
    PROVE  SignaturesBallotted'
<1>1. ASSUME NEW d \in devices, NEW op \in Operations, Direct(d, op)
      PROVE  SignaturesBallotted'
  BY <1>1 DEF Direct, SignaturesBallotted
<1>2. ASSUME NEW d \in devices, NEW op \in Operations, NEW expires \in Timestamps,
             Propose(d, op, expires)
      PROVE  SignaturesBallotted'
  <2> DEFINE p == [proposer |-> VoteOf(d), roleAtProposal |-> PermissionOf(d).role,
                   inner |-> op, expiresAt |-> expires, approvals |-> {}]
  <2>1. pendingProposals' = WithKey(pendingProposals, headSeq + 1, p)
        /\ ballots' = ballots \cup Ballot(headSeq + 1, d)
    BY <1>2 DEF Propose
  <2>2. \A v \in ApprovalSigners(p) : v = VoteOf(d) /\ PermissionOf(d).role = "owner"
    BY DEF ApprovalSigners
  <2>3. \A v \in ApprovalSigners(p) : [proposal |-> headSeq + 1, vote |-> v] \in ballots'
    BY <2>1, <2>2 DEF Ballot
  <2> HIDE DEF p
  <2>4. QED
    BY <2>1, <2>3 DEF SignaturesBallotted, WithKey
<1>3. ASSUME NEW d \in devices, NEW id \in DOMAIN pendingProposals, NEW now \in Timestamps,
             ApproveVote(d, id, now)
      PROVE  SignaturesBallotted'
  <2>1. PermissionOf(d).role = "owner"
    BY <1>3 DEF ApproveVote, ApproveVoteRule
  <2>2. pendingProposals' = [pendingProposals EXCEPT ![id].approvals = @ \cup {VoteOf(d)}]
        /\ ballots' = ballots \cup Ballot(id, d)
    BY <1>3 DEF ApproveVote
  <2>3. [proposal |-> id, vote |-> VoteOf(d)] \in ballots'
    BY <2>1, <2>2 DEF Ballot
  <2>4. pendingProposals[id] \in Proposals
    BY DEF TypeOK, IsMap
  <2>5. ApprovalSigners(pendingProposals'[id]) = ApprovalSigners(pendingProposals[id]) \cup {VoteOf(d)}
    BY <2>2, <2>4 DEF ApprovalSigners, Proposals
  <2>6. \A i \in DOMAIN pendingProposals : i # id => pendingProposals'[i] = pendingProposals[i]
    BY <2>2
  <2>7. DOMAIN pendingProposals' = DOMAIN pendingProposals
    BY <2>2
  <2>8. QED
    BY <2>2, <2>3, <2>5, <2>6, <2>7 DEF SignaturesBallotted
<1>4. ASSUME NEW d \in devices, NEW id \in DOMAIN pendingProposals, NEW now \in Timestamps,
             ApproveComplete(d, id, now)
      PROVE  SignaturesBallotted'
  BY <1>4 DEF ApproveComplete, WithoutKey, SignaturesBallotted
<1>5. ASSUME NEW d \in devices, NEW id \in DOMAIN pendingProposals, Withdraw(d, id)
      PROVE  SignaturesBallotted'
  BY <1>5 DEF Withdraw, WithoutKey, SignaturesBallotted
<1>6. CASE UNCHANGED vars
  BY <1>6 DEF vars, SignaturesBallotted
<1>7. QED
  BY <1>1, <1>2, <1>3, <1>4, <1>5, <1>6 DEF Next

\* On every chain, while a policy is in force, what it protects changes only with
\* the signatures of as many owners as it asks for.
THEOREM FourEyesHold == Spec => FourEyes
<1> DEFINE Inv == TypeOK /\ KeyInvariant /\ GovernanceInvariant /\ SignaturesBallotted
<1>1. Init => Inv
  <2>1. ASSUME Init PROVE SignaturesBallotted
    BY <2>1 DEF Init, SignaturesBallotted
  <2>2. QED
    BY <2>1, InitTypeAndKeys, InitGovernance
<1>2. Inv /\ [Next]_vars => Inv'
  BY TypeAndKeysStep, GovernanceStep, SignaturesBallottedStep
<1>3. Inv /\ [Next]_vars => [ApprovedByOwners]_vars
  <2> SUFFICES ASSUME Inv, [Next]_vars, approvalPolicy.required # 0, ProtectedChange
               PROVE  ApprovedByOwners
    BY DEF ApprovedByOwners
  <2>1. headSeq + 1 \in Nat
    BY DEF TypeOK
  <2>2. ASSUME NEW d \in devices, NEW op \in Operations, Direct(d, op) PROVE ApprovedByOwners
    BY <2>1, <2>2, DirectNotProtected DEF Direct
  <2>3. ASSUME NEW d \in devices, NEW id \in DOMAIN pendingProposals, NEW now \in Timestamps,
               ApproveComplete(d, id, now)
        PROVE  ApprovedByOwners
    <3>1. PermissionOf(d).role = "owner" /\ ReachesQuorum(d, id)
          /\ ballots' = ballots \cup Ballot(id, d)
      BY <2>3 DEF ApproveComplete, ApproveVoteRule
    <3>2. id \in DOMAIN pendingProposals \ DOMAIN pendingProposals'
      BY <2>3 DEF ApproveComplete, WithoutKey
    <3>3. IsFiniteSet(DOMAIN members)
      BY DEF GovernanceInvariant
    <3>4. QED
      BY <3>1, <3>2, <3>3, QuorumIsBallotted DEF ApprovedByOwners
  <2>4. CASE StateUnchanged
    BY <2>4, UnchangedNotProtected
  <2>5. QED
    <3>1. ASSUME NEW d \in devices, NEW op \in Operations, NEW expires \in Timestamps,
                 Propose(d, op, expires)
          PROVE  StateUnchanged
      BY <3>1 DEF Propose, ApplyNothing, StateUnchanged
    <3>2. ASSUME NEW d \in devices, NEW id \in DOMAIN pendingProposals, NEW now \in Timestamps,
                 ApproveVote(d, id, now)
          PROVE  StateUnchanged
      BY <3>2 DEF ApproveVote, ApplyNothing, StateUnchanged
    <3>3. ASSUME NEW d \in devices, NEW id \in DOMAIN pendingProposals, Withdraw(d, id)
          PROVE  StateUnchanged
      BY <3>3 DEF Withdraw, ApplyNothing, StateUnchanged
    <3>4. UNCHANGED vars => StateUnchanged
      BY DEF vars, StateUnchanged
    <3>5. QED
      BY <2>2, <2>3, <2>4, <3>1, <3>2, <3>3, <3>4 DEF Next
<1>4. QED
  BY <1>1, <1>2, <1>3, PTL DEF Spec, FourEyes

(***************************************************************************)
(* The history index: entries and what is recorded of them.                *)
(***************************************************************************)

NextSeq == headSeq + 1

\* An entry that applies an operation, and one that applies none.
AppliedEntry(op, d) ==
    /\ ConsensusRule(op, d) /\ Apply(op, d, NextSeq) /\ RecordHistory(op, d, NextSeq)
    /\ headSeq' = NextSeq
    /\ snapshots' = Append(snapshots, Snapshot')
    /\ attestations' = attestations \cup
           (IF op.op = "checkpoint"
            THEN {[seq |-> NextSeq, tuple |-> t] : t \in op.tuples} ELSE {})

EmptyEntry ==
    /\ StateUnchanged /\ UNCHANGED <<indexVars, attestations>>
    /\ headSeq' = NextSeq
    /\ snapshots' = Append(snapshots, Snapshot')

\* A transition leaves the operation and the device it is attributed to.
LEMMA ApplyLeavesOperation ==
    ASSUME NEW op, NEW d, NEW seq, Apply(op, d, seq)
    PROVE  applied' = [operation |-> op, by |-> d]
BY DEF Apply

\* Every step records the operation it applies, or applies and records none.
LEMMA HistoryCases ==
    ASSUME TypeOK, [HistoryNext]_historyVars
    PROVE  \/ \E d \in devices, op \in Operations : AppliedEntry(op, d)
           \/ EmptyEntry
           \/ UNCHANGED historyVars
<1>1. SUFFICES ASSUME Next, Record
               PROVE  \/ \E d \in devices, op \in Operations : AppliedEntry(op, d)
                      \/ EmptyEntry
  BY DEF HistoryNext
<1>2. headSeq' = NextSeq
  BY <1>1 DEF Next, Direct, Propose, ApproveVote, ApproveComplete, Withdraw, Signs, NextSeq
<1>3. ASSUME NEW d \in devices, NEW op \in Operations, ConsensusRule(op, d), Apply(op, d, NextSeq)
      PROVE  AppliedEntry(op, d)
  <2>1. applied'.operation = op /\ applied'.by = d
    BY <1>3, ApplyLeavesOperation
  <2>2. QED
    BY <1>1, <1>2, <1>3, <2>1 DEF Record, AppliedEntry
<1>4. ASSUME NEW d, ApplyNothing(d) PROVE EmptyEntry
  <2>1. applied'.operation = Nothing /\ applied'.operation.op = "none"
    BY <1>4 DEF ApplyNothing, Nothing
  <2>2. RecordHistory(applied'.operation, applied'.by, headSeq')
    BY <1>1 DEF Record
  <2>3. UNCHANGED indexVars
    BY <2>1, <2>2 DEF RecordHistory
  <2>4. UNCHANGED attestations /\ snapshots' = Append(snapshots, Snapshot')
    BY <1>1, <2>1 DEF Record
  <2>5. QED
    BY <1>2, <1>4, <2>3, <2>4 DEF EmptyEntry, ApplyNothing, StateUnchanged
<1>5. PICK d \in devices :
        \/ \E op \in Operations : Direct(d, op)
        \/ \E op \in Operations, expires \in Timestamps : Propose(d, op, expires)
        \/ \E id \in DOMAIN pendingProposals, now \in Timestamps : ApproveVote(d, id, now)
        \/ \E id \in DOMAIN pendingProposals, now \in Timestamps : ApproveComplete(d, id, now)
        \/ \E id \in DOMAIN pendingProposals : Withdraw(d, id)
  BY <1>1 DEF Next
<1>6. CASE \E op \in Operations : Direct(d, op)
  BY <1>3, <1>6 DEF Direct, NextSeq
<1>7. CASE \E id \in DOMAIN pendingProposals, now \in Timestamps : ApproveComplete(d, id, now)
  <2>1. PICK id \in DOMAIN pendingProposals, now \in Timestamps : ApproveComplete(d, id, now)
    BY <1>7
  <2>2. pendingProposals[id].inner \in Operations
    BY DEF TypeOK, IsMap, Proposals
  <2>3. \E p \in devices : /\ ConsensusRule(pendingProposals[id].inner, p)
                           /\ Apply(pendingProposals[id].inner, p, NextSeq)
    BY <2>1 DEF ApproveComplete, NextSeq
  <2>4. QED
    BY <1>3, <2>2, <2>3
<1>8. CASE ApplyNothing(d)
  BY <1>4, <1>8
<1>9. QED
  BY <1>5, <1>6, <1>7, <1>8 DEF Propose, ApproveVote, Withdraw

(***************************************************************************)
(* Equivocation.                                                           *)
(***************************************************************************)

\* The tuples that checkpoints have carried at a coordinate <<environment, version>>.
Carried(c) == {a \in attestations : <<a.tuple.env, a.tuple.version>> = c}

Agree(all) == \A a, b \in all : a.tuple.epoch = b.tuple.epoch /\ a.tuple.hash = b.tuple.hash

\* What is found for tuples that agree, and for tuples that differ.
Evidence(found, all) ==
    IF Agree(all)
    THEN \E a \in all : /\ \A b \in all : a.seq <= b.seq
                        /\ found = [kind |-> "unique", seq |-> a.seq,
                                    epoch |-> a.tuple.epoch, hash |-> a.tuple.hash]
    ELSE found = Conflict

Evident(c) ==
    /\ c \in DOMAIN checkpointTuples <=> Carried(c) # {}
    /\ c \in DOMAIN checkpointTuples => Evidence(checkpointTuples[c], Carried(c))

EvidenceInvariant ==
    /\ latestCheckpoints = checkpoints
    /\ \A a \in attestations : a.seq \in Nat /\ a.seq <= headSeq
    /\ \A c : Evident(c)

\* One more tuple at a coordinate: the first of those that agree stays the one found.
LEMMA MergeKeepsEvidence ==
    ASSUME headSeq \in Nat, NEW t, NEW c, c = <<t.env, t.version>>,
           NEW all, \A b \in all : b.seq \in Nat /\ b.seq <= NextSeq,
           c \in DOMAIN checkpointTuples <=> all # {},
           c \in DOMAIN checkpointTuples => Evidence(checkpointTuples[c], all),
           NEW a, a.seq = NextSeq, a.tuple = t
    PROVE  Evidence(MergedTuple(t, NextSeq), all \cup {a})
<1>1. NextSeq \in Nat
  BY DEF NextSeq
<1> DEFINE new == [kind |-> "unique", seq |-> NextSeq, epoch |-> t.epoch, hash |-> t.hash]
<1>5. CASE c \notin DOMAIN checkpointTuples
  <2>1. Agree(all \cup {a})
    BY <1>5 DEF Agree
  <2>2. MergedTuple(t, NextSeq) = new
    BY <1>5 DEF MergedTuple
  <2>3. all \cup {a} = {a}
    BY <1>5
  <2>4. Evidence(new, {a})
    BY <1>1, <2>1, <2>3 DEF Evidence
  <2>5. QED
    BY <2>2, <2>3, <2>4
<1>6. CASE c \in DOMAIN checkpointTuples /\ ~Agree(all)
  <2>1. checkpointTuples[c] = Conflict
    BY <1>6 DEF Evidence
  <2>2. MergedTuple(t, NextSeq) = Conflict
    BY <1>6, <2>1 DEF MergedTuple
  <2>3. ~Agree(all \cup {a})
    BY <1>6 DEF Agree
  <2>4. QED
    BY <2>2, <2>3 DEF Evidence
<1>7. CASE c \in DOMAIN checkpointTuples /\ Agree(all)
  <2>1. PICK first \in all :
           /\ \A b \in all : first.seq <= b.seq
           /\ checkpointTuples[c] = [kind |-> "unique", seq |-> first.seq,
                                     epoch |-> first.tuple.epoch, hash |-> first.tuple.hash]
    BY <1>7 DEF Evidence
  <2>2. /\ checkpointTuples[c] # Conflict
        /\ checkpointTuples[c].epoch = first.tuple.epoch
        /\ checkpointTuples[c].hash = first.tuple.hash
    BY <2>1 DEF Conflict
  <2>3. CASE first.tuple.epoch = t.epoch /\ first.tuple.hash = t.hash
    <3>1. MergedTuple(t, NextSeq) = checkpointTuples[c]
      BY <1>7, <2>2, <2>3 DEF MergedTuple
    <3>2. Agree(all \cup {a})
      BY <1>7, <2>3 DEF Agree
    <3>3. \A b \in all \cup {a} : first.seq <= b.seq
      BY <1>1, <2>1
    <3>4. QED
      BY <2>1, <3>1, <3>2, <3>3 DEF Evidence
  <2>4. CASE ~(first.tuple.epoch = t.epoch /\ first.tuple.hash = t.hash)
    <3>1. MergedTuple(t, NextSeq) = Conflict
      BY <1>7, <2>2, <2>4 DEF MergedTuple
    <3>2. ~Agree(all \cup {a})
      BY <2>4 DEF Agree
    <3>3. QED
      BY <3>1, <3>2 DEF Evidence
  <2>5. QED
    BY <2>3, <2>4
<1>8. QED
  BY <1>5, <1>6, <1>7

\* A checkpoint carries one tuple per environment; what it finds is what it adds.
LEMMA CheckpointKeepsEvidence ==
    ASSUME TypeOK, EvidenceInvariant, NEW op \in Operations, NEW d, AppliedEntry(op, d),
           op.op = "checkpoint"
    PROVE  \A c : Evident(c)'
<1>1. headSeq \in Nat /\ NextSeq = headSeq + 1
  BY DEF TypeOK, NextSeq
<1>2. op.tuples \in CheckpointTuples
  BY OperationShapes DEF AppliedEntry, CheckpointOps
<1>3. checkpointTuples' = TuplesAfterCheckpoint(op, NextSeq)
  BY DEF AppliedEntry, RecordHistory, RecordCheckpoint
<1>4. attestations' = attestations \cup {[seq |-> NextSeq, tuple |-> t] : t \in op.tuples}
  BY DEF AppliedEntry
<1>5. SUFFICES ASSUME NEW c PROVE Evident(c)'
  OBVIOUS
<1>6. CASE \E t \in op.tuples : <<t.env, t.version>> = c
  <2>1. PICK t \in op.tuples : <<t.env, t.version>> = c
    BY <1>6
  <2>2. \A s \in op.tuples : <<s.env, s.version>> = c => s = t
    BY <1>2, <2>1 DEF CheckpointTuples
  <2>3. PICK a : a = [seq |-> NextSeq, tuple |-> t]
    OBVIOUS
  <2>4. a.seq = NextSeq /\ a.tuple = t
    BY <2>3
  <2>5. Carried(c)' = Carried(c) \cup {a}
    BY <1>4, <2>1, <2>2, <2>3 DEF Carried
  <2>6. /\ c \in DOMAIN checkpointTuples'
        /\ checkpointTuples'[c] = MergedTuple(t, NextSeq)
    <3>1. (CHOOSE s \in op.tuples : <<s.env, s.version>> = c) = t
      BY <2>1, <2>2
    <3>2. QED
      BY <1>3, <2>1, <3>1 DEF TuplesAfterCheckpoint
  <2>7. PICK all : all = Carried(c)
    OBVIOUS
  <2>8. /\ \A b \in all : b.seq \in Nat /\ b.seq <= NextSeq
        /\ c \in DOMAIN checkpointTuples <=> all # {}
        /\ c \in DOMAIN checkpointTuples => Evidence(checkpointTuples[c], all)
    <3>1. \A b \in all : b.seq \in Nat /\ b.seq <= headSeq
      BY <2>7 DEF EvidenceInvariant, Carried
    <3>2. Evident(c)
      BY DEF EvidenceInvariant
    <3>3. QED
      BY <1>1, <2>7, <3>1, <3>2 DEF Evident
  <2>9. Evidence(MergedTuple(t, NextSeq), all \cup {a})
    BY <1>1, <2>1, <2>4, <2>8, MergeKeepsEvidence
  <2>10. QED
    BY <2>5, <2>6, <2>7, <2>9 DEF Evident, Evidence, Agree
<1>7. CASE ~\E t \in op.tuples : <<t.env, t.version>> = c
  <2>1. Carried(c)' = Carried(c)
    <3>1. Carried(c)' = {a \in attestations' : <<a.tuple.env, a.tuple.version>> = c}
      BY DEF Carried
    <3>2. ASSUME NEW a \in attestations', <<a.tuple.env, a.tuple.version>> = c
          PROVE  a \in attestations
      BY <1>4, <1>7, <3>2
    <3>3. QED
      BY <1>4, <3>1, <3>2 DEF Carried
  <2>2. /\ c \in DOMAIN checkpointTuples' <=> c \in DOMAIN checkpointTuples
        /\ c \in DOMAIN checkpointTuples => checkpointTuples'[c] = checkpointTuples[c]
    BY <1>3, <1>7 DEF TuplesAfterCheckpoint
  <2>3. Evident(c)
    BY DEF EvidenceInvariant
  <2>4. QED
    BY <2>1, <2>2, <2>3 DEF Evident, Evidence, Agree
<1>8. QED
  BY <1>6, <1>7

\* The latest checkpoints stay those of the chain state.
LEMMA LatestStay ==
    ASSUME NEW op, NEW d, AppliedEntry(op, d), latestCheckpoints = checkpoints
    PROVE  latestCheckpoints' = checkpoints'
<1>1. CASE op.op = "checkpoint"
  BY <1>1 DEF AppliedEntry, Apply, ApplyCheckpoint, RecordHistory, RecordCheckpoint
<1>2. CASE op.op = "delete_environment"
  BY <1>2 DEF AppliedEntry, Apply, ApplyDeleteEnvironment, RecordHistory, RecordEnvironmentDeleted
<1>3. CASE op.op \notin {"checkpoint", "delete_environment"}
  <2>1. UNCHANGED checkpoints
    BY <1>3 DEF AppliedEntry, Apply, ApplyAddMember, ApplyChangeRole, ApplyRemoveMember,
       ApplyAddDevice, ApplyRevokeDevice, ApplyGrantServer, ApplyRevokeServer,
       ApplyCreateEnvironment, ApplyRotateEpoch, ApplySetApprovalPolicy, envVars
  <2>2. UNCHANGED latestCheckpoints
    BY <1>3 DEF AppliedEntry, RecordHistory, RecordTenureStart, RecordRoleChange,
       RecordTenureEnd, RecordDeviceAdded, RecordDevicesRevoked, RecordEnvironmentCreated,
       RecordEpochRotated, indexVars
  <2>3. QED
    BY <2>1, <2>2
<1>4. QED
  BY <1>1, <1>2, <1>3

\* Every step keeps the evidence, and the latest checkpoints those of the chain state.
LEMMA EvidenceStep ==
    ASSUME TypeOK, EvidenceInvariant, [HistoryNext]_historyVars
    PROVE  EvidenceInvariant'
<1>1. headSeq \in Nat /\ NextSeq \in Nat /\ headSeq <= NextSeq
  BY DEF TypeOK, NextSeq
<1>2. ASSUME UNCHANGED <<checkpointTuples, attestations>> PROVE \A c : Evident(c)'
  BY <1>2 DEF EvidenceInvariant, Evident, Evidence, Agree, Carried
<1>3. ASSUME NEW d \in devices, NEW op \in Operations, AppliedEntry(op, d)
      PROVE  EvidenceInvariant'
  <2>1. latestCheckpoints' = checkpoints'
    BY <1>3, LatestStay DEF EvidenceInvariant
  <2>2. \A a \in attestations' : a.seq \in Nat /\ a.seq <= headSeq'
    BY <1>1, <1>3 DEF AppliedEntry, EvidenceInvariant
  <2>3. CASE op.op = "checkpoint"
    BY <1>3, <2>1, <2>2, <2>3, CheckpointKeepsEvidence DEF EvidenceInvariant
  <2>4. CASE op.op # "checkpoint"
    <3>1. UNCHANGED checkpointTuples
      BY <1>3, <2>4 DEF AppliedEntry, RecordHistory, RecordTenureStart, RecordRoleChange,
         RecordTenureEnd, RecordDeviceAdded, RecordDevicesRevoked, RecordEnvironmentCreated,
         RecordEpochRotated, RecordEnvironmentDeleted, indexVars
    <3>2. UNCHANGED attestations
      BY <1>3, <2>4 DEF AppliedEntry
    <3>3. QED
      BY <1>2, <2>1, <2>2, <3>1, <3>2 DEF EvidenceInvariant
  <2>5. QED
    BY <2>3, <2>4
<1>4. CASE EmptyEntry
  BY <1>1, <1>2, <1>4 DEF EmptyEntry, EvidenceInvariant, indexVars, StateUnchanged, envVars
<1>5. CASE UNCHANGED historyVars
  BY <1>2, <1>5 DEF historyVars, EvidenceInvariant, indexVars, vars, envVars
<1>6. QED
  BY <1>3, <1>4, <1>5, HistoryCases

\* A chain with a history is a chain.
LEMMA HistoryIsChain == HistorySpec => Spec
<1>1. HistoryInit => Init
  BY DEF HistoryInit
<1>2. [HistoryNext]_historyVars => [Next]_vars
  BY DEF HistoryNext, historyVars
<1>3. QED
  BY <1>1, <1>2, PTL DEF HistorySpec, Spec

\* Equivocation is never forgotten and never invented: a version is "unique" only if all
\* checkpoints that ever carried it agree, "conflicting" only if two of them differ; the
\* latest checkpoints are those of the chain state (checkpointTupleFor, latestCheckpointFor).
THEOREM EquivocationIsEvident == HistorySpec => []EquivocationEvident
<1>1. HistoryInit => EvidenceInvariant
  BY DEF HistoryInit, Init, EvidenceInvariant, Evident, Carried
<1>2. EvidenceInvariant => EquivocationEvident
  <2> SUFFICES ASSUME EvidenceInvariant, NEW e \in Envs, NEW v PROVE
        LET all == {a \in attestations : a.tuple.env = e /\ a.tuple.version = v}
            found == CheckpointTupleFor(e, v)
            agree == \A a, b \in all : /\ a.tuple.epoch = b.tuple.epoch
                                       /\ a.tuple.hash = b.tuple.hash
        IN  /\ all = {} <=> found = Absent
            /\ all # {} /\ ~agree => found = Conflict
            /\ all # {} /\ agree => \E a \in all :
                  /\ \A b \in all : a.seq <= b.seq
                  /\ found = [kind |-> "unique", seq |-> a.seq,
                              epoch |-> a.tuple.epoch, hash |-> a.tuple.hash]
    BY DEF EquivocationEvident, EvidenceInvariant
  <2>1. PICK all, found : /\ all = {a \in attestations : a.tuple.env = e /\ a.tuple.version = v}
                          /\ found = CheckpointTupleFor(e, v)
    OBVIOUS
  <2>2. all = Carried(<<e, v>>)
    BY <2>1 DEF Carried
  <2>3. Evident(<<e, v>>)
    BY DEF EvidenceInvariant
  <2>4. CASE all = {}
    BY <2>1, <2>2, <2>3, <2>4 DEF Evident, CheckpointTupleFor
  <2>5. CASE all # {}
    <3>1. Evidence(found, all)
      BY <2>1, <2>2, <2>3, <2>5 DEF Evident, CheckpointTupleFor
    <3>2. found # Absent
      BY <3>1 DEF Evidence, Absent, Conflict
    <3>3. QED
      BY <2>1, <2>5, <3>1, <3>2 DEF Evidence, Agree
  <2>6. QED
    BY <2>4, <2>5
<1>3. TypeOK /\ EvidenceInvariant /\ [HistoryNext]_historyVars => EvidenceInvariant'
  BY EvidenceStep
<1>4. QED
  BY <1>1, <1>2, <1>3, HistoryIsChain, TypeCorrect, PTL DEF HistorySpec

(***************************************************************************)
(* Searching intervals.                                                    *)
(***************************************************************************)

\* Positions have a first one: of the intervals 0..k one contains no other.
LEMMA FirstPosition ==
    ASSUME NEW S, S \subseteq Nat, S # {}
    PROVE  \E m \in S : \A k \in S : m <= k
<1>1. PICK R, F : R = StrictSubsetOrdering(Nat) /\ F = FiniteSubsetsOf(Nat)
  OBVIOUS
<1>2. PICK T : T = {0..k : k \in S}
  OBVIOUS
<1>3. T # {} /\ T \subseteq F
  <2>1. \A k \in Nat : IsFiniteSet(0..k) /\ 0..k \subseteq Nat
    BY FS_Interval
  <2>2. QED
    BY <1>1, <1>2, <2>1 DEF FiniteSubsetsOf
<1>4. IsWellFoundedOn(R, F)
  BY <1>1, FS_StrictSubsetOrderingWellFounded
<1>5. PICK x \in T : \A y \in T : ~(<<y, x>> \in R)
  BY <1>3, <1>4, WFMin
<1>6. PICK m \in S : x = 0..m
  BY <1>2
<1>7. ASSUME NEW k \in S, ~(m <= k) PROVE FALSE
  <2>1. 0..k \in T /\ 0..k \subseteq 0..m /\ 0..k # 0..m
    <3>1. k \in Nat /\ m \in Nat /\ m \in 0..m /\ m \notin 0..k
      BY <1>7
    <3>2. QED
      BY <1>2, <3>1, <1>7
  <2>2. <<0..k, x>> \in R
    BY <1>1, <1>6, <2>1 DEF StrictSubsetOrdering
  <2>3. QED
    BY <1>5, <2>1, <2>2
<1>8. QED
  BY <1>7

\* The same from the other end.
LEMMA LastPosition ==
    ASSUME NEW n \in Nat, NEW S, S \subseteq 1..n, S # {}
    PROVE  \E m \in S : \A k \in S : k <= m
<1>1. PICK D : D = {n - k : k \in S}
  OBVIOUS
<1>2. D \subseteq Nat /\ D # {}
  <2>1. \A k \in S : k \in 1..n /\ n - k \in Nat
    OBVIOUS
  <2>2. QED
    BY <1>1, <2>1
<1>3. PICK d \in D : \A k \in D : d <= k
  BY <1>2, FirstPosition
<1>4. PICK m \in S : d = n - m
  BY <1>1
<1>5. \A k \in S : n - k \in D /\ d <= n - k
  BY <1>1, <1>3
<1>6. \A k \in S : k <= m
  BY <1>4, <1>5
<1>7. QED
  BY <1>6

\* The last of all positions is their number.
LEMMA LastOfAll ==
    ASSUME NEW n \in Nat, n # 0
    PROVE  (CHOOSE i \in 1..n : \A j \in 1..n : j <= i) = n
<1>1. n \in 1..n /\ \A j \in 1..n : j <= n
  OBVIOUS
<1>2. ASSUME NEW i \in 1..n, \A j \in 1..n : j <= i PROVE i = n
  <2>1. n <= i /\ i <= n
    BY <1>1, <1>2
  <2>2. QED
    BY <2>1
<1>3. QED
  BY <1>1, <1>2

\* Appending leaves what was there where it was.
LEMMA Appending ==
    ASSUME NEW S, NEW list \in Seq(S), NEW x
    PROVE  /\ DOMAIN list = 1..Len(list) /\ Len(list) \in Nat
           /\ DOMAIN Append(list, x) = 1..Len(list) + 1
           /\ Len(Append(list, x)) = Len(list) + 1
           /\ \A i \in 1..Len(list) : Append(list, x)[i] = list[i]
           /\ Append(list, x)[Len(list) + 1] = x
           /\ Last(Append(list, x)) = x
           /\ x \in S => Append(list, x) \in Seq(S)
BY DEF Last

\* What starts after seq is not found at seq.
LEMMA LaterNotFound ==
    ASSUME NEW S, NEW list \in Seq(S), NEW x, NEW seq \in Nat,
           \A i \in 1..Len(list) : list[i].from \in Nat,
           x.from \in Nat, seq < x.from
    PROVE  /\ IntervalsUpTo(Append(list, x), seq) = IntervalsUpTo(list, seq)
           /\ IntervalsUpTo(list, seq) # {} =>
                 CurrentAt(Append(list, x), seq) = CurrentAt(list, seq)
<1>1. PICK new : new = Append(list, x)
  OBVIOUS
<1>2. /\ DOMAIN list = 1..Len(list) /\ DOMAIN new = 1..Len(list) + 1 /\ Len(list) \in Nat
      /\ \A i \in 1..Len(list) : new[i] = list[i]
      /\ new[Len(list) + 1] = x
  BY <1>1, Appending
<1>3. IntervalsUpTo(new, seq) = IntervalsUpTo(list, seq)
  <2>1. \A i \in 1..Len(list) + 1 : i \in 1..Len(list) \/ i = Len(list) + 1
    BY <1>2
  <2>2. ~(x.from <= seq)
    OBVIOUS
  <2>3. QED
    BY <1>2, <2>1, <2>2 DEF IntervalsUpTo
<1>4. ASSUME IntervalsUpTo(list, seq) # {} PROVE CurrentAt(new, seq) = CurrentAt(list, seq)
  <2>1. IntervalsUpTo(list, seq) \subseteq 1..Len(list)
    BY <1>2 DEF IntervalsUpTo
  <2>2. \E i \in IntervalsUpTo(list, seq) : \A j \in IntervalsUpTo(list, seq) : j <= i
    BY <1>2, <1>4, <2>1, LastPosition
  <2>3. PICK k : k = CHOOSE i \in IntervalsUpTo(list, seq) :
                        \A j \in IntervalsUpTo(list, seq) : j <= i
    OBVIOUS
  <2>4. k \in 1..Len(list)
    BY <2>1, <2>2, <2>3
  <2>5. QED
    BY <1>2, <1>3, <2>3, <2>4 DEF CurrentAt
<1>5. QED
  BY <1>1, <1>3, <1>4

\* When all have started, the last is the current one.
LEMMA LastIsCurrent ==
    ASSUME NEW S, NEW list \in Seq(S), list # <<>>, NEW seq,
           \A i \in 1..Len(list) : list[i].from <= seq
    PROVE  CurrentAt(list, seq) = Last(list) /\ IntervalsUpTo(list, seq) # {}
<1>1. DOMAIN list = 1..Len(list) /\ Len(list) \in Nat /\ Len(list) # 0
  OBVIOUS
<1>2. IntervalsUpTo(list, seq) = 1..Len(list)
  BY <1>1 DEF IntervalsUpTo
<1>3. (CHOOSE i \in 1..Len(list) : \A j \in 1..Len(list) : j <= i) = Len(list)
  BY <1>1, LastOfAll
<1>4. QED
  BY <1>1, <1>2, <1>3 DEF CurrentAt, Last

(***************************************************************************)
(* Environments: the answer for a seq is that of the chain state of the    *)
(* seq.                                                                    *)
(***************************************************************************)

EpochStarts == [epoch : Nat, start : Nat]

StartRecords == [createdAt : Nat, epochStarts : Seq(EpochStarts), deletedAt : Nat]

\* The record of an environment, as the index keeps it and as the chain state has it.
ShowsEnvironment(ix, env, seq) ==
    /\ ix.createdAt = env.createdAt /\ ix.deletedAt = env.deletedAt
    /\ ix.createdAt <= seq /\ ix.deletedAt <= seq
    /\ ix.epochStarts # <<>> /\ Last(ix.epochStarts).epoch = env.epoch
    /\ ix.epochStarts[1].start = ix.createdAt
    /\ \A i \in 1..Len(ix.epochStarts) : ix.epochStarts[i].start <= seq

\* What the index answers for an environment with this record.
EnvironmentAnswer(ix, seq) ==
    LET starts == {i \in DOMAIN ix.epochStarts : ix.epochStarts[i].start <= seq}
    IN  [kind |-> "environment", createdAt |-> ix.createdAt,
         epoch |-> ix.epochStarts[CHOOSE i \in starts : \A j \in starts : j <= i].epoch,
         deletedAt |-> IF ix.deletedAt <= seq THEN ix.deletedAt ELSE 0]

\* The answer for the head is what the chain state has.
LEMMA EnvironmentAnswerNow ==
    ASSUME NEW ix \in StartRecords, NEW env, NEW seq \in Nat, ShowsEnvironment(ix, env, seq)
    PROVE  EnvironmentAnswer(ix, seq) =
             [kind |-> "environment", createdAt |-> env.createdAt,
              epoch |-> env.epoch, deletedAt |-> env.deletedAt]
<1>1. PICK list : list = ix.epochStarts
  OBVIOUS
<1>2. /\ list \in Seq(EpochStarts) /\ list # <<>> /\ Last(list).epoch = env.epoch
      /\ \A i \in 1..Len(list) : list[i].start <= seq
  BY <1>1 DEF StartRecords, ShowsEnvironment
<1>3. DOMAIN list = 1..Len(list) /\ Len(list) \in Nat /\ Len(list) # 0
  BY <1>2
<1>4. {i \in DOMAIN list : list[i].start <= seq} = 1..Len(list)
  BY <1>2, <1>3
<1>5. (CHOOSE i \in 1..Len(list) : \A j \in 1..Len(list) : j <= i) = Len(list)
  BY <1>3, LastOfAll
<1>6. ix.deletedAt <= seq
  BY DEF ShowsEnvironment
<1>7. QED
  BY <1>1, <1>2, <1>4, <1>5, <1>6 DEF EnvironmentAnswer, ShowsEnvironment, Last

\* What starts after seq is not seen at seq.
LEMMA EnvironmentAnswerKept ==
    ASSUME NEW ix \in StartRecords, NEW env, NEW head \in Nat, ShowsEnvironment(ix, env, head),
           NEW seq \in Nat, ix.createdAt <= seq, seq <= head
    PROVE  /\ \A start \in EpochStarts : start.start = head + 1 =>
                 EnvironmentAnswer([ix EXCEPT !.epochStarts = Append(@, start)], seq)
                    = EnvironmentAnswer(ix, seq)
           /\ ix.deletedAt = 0 =>
                 EnvironmentAnswer([ix EXCEPT !.deletedAt = head + 1], seq)
                    = EnvironmentAnswer(ix, seq)
<1>1. PICK list : list = ix.epochStarts
  OBVIOUS
<1>2. list \in Seq(EpochStarts) /\ list # <<>> /\ list[1].start <= seq
  BY <1>1 DEF StartRecords, ShowsEnvironment
<1>3. ASSUME NEW start \in EpochStarts, start.start = head + 1
      PROVE  EnvironmentAnswer([ix EXCEPT !.epochStarts = Append(@, start)], seq)
                = EnvironmentAnswer(ix, seq)
  <2>1. PICK new : new = Append(list, start)
    OBVIOUS
  <2>2. /\ DOMAIN list = 1..Len(list) /\ DOMAIN new = 1..Len(list) + 1 /\ Len(list) \in Nat
        /\ \A i \in 1..Len(list) : new[i] = list[i]
        /\ new[Len(list) + 1] = start
    BY <1>2, <2>1, Appending
  <2>3. PICK starts : starts = {i \in DOMAIN list : list[i].start <= seq}
    OBVIOUS
  <2>4. {i \in DOMAIN new : new[i].start <= seq} = starts
    <3>1. \A i \in 1..Len(list) + 1 : i \in 1..Len(list) \/ i = Len(list) + 1
      BY <2>2
    <3>2. ~(start.start <= seq)
      BY <1>3
    <3>3. QED
      BY <2>2, <2>3, <3>1, <3>2
  <2>5. starts \subseteq 1..Len(list) /\ 1 \in starts
    BY <1>2, <2>2, <2>3
  <2>6. \E i \in starts : \A j \in starts : j <= i
    BY <2>2, <2>5, LastPosition
  <2>7. PICK k : k = CHOOSE i \in starts : \A j \in starts : j <= i
    OBVIOUS
  <2>8. k \in 1..Len(list)
    BY <2>5, <2>6, <2>7
  <2>9. PICK after : after = [ix EXCEPT !.epochStarts = Append(@, start)]
    OBVIOUS
  <2>10. after.epochStarts = new /\ after.createdAt = ix.createdAt /\ after.deletedAt = ix.deletedAt
    BY <1>1, <2>1, <2>9 DEF StartRecords
  <2>11. QED
    BY <1>1, <2>2, <2>3, <2>4, <2>7, <2>8, <2>9, <2>10 DEF EnvironmentAnswer
<1>4. ASSUME ix.deletedAt = 0
      PROVE  EnvironmentAnswer([ix EXCEPT !.deletedAt = head + 1], seq)
                = EnvironmentAnswer(ix, seq)
  <2>1. PICK after : after = [ix EXCEPT !.deletedAt = head + 1]
    OBVIOUS
  <2>2. /\ after.epochStarts = ix.epochStarts /\ after.createdAt = ix.createdAt
        /\ after.deletedAt = head + 1
    BY <2>1 DEF StartRecords
  <2>3. ~(head + 1 <= seq) /\ 0 <= seq
    OBVIOUS
  <2>4. QED
    BY <1>4, <2>1, <2>2, <2>3 DEF EnvironmentAnswer
<1>5. QED
  BY <1>3, <1>4

\* The index has the environments of the chain state, each with its record.
EnvironmentIndex ==
    /\ DOMAIN environmentStarts = DOMAIN environments
    /\ \A e \in DOMAIN environments :
          /\ environmentStarts[e] \in StartRecords
          /\ ShowsEnvironment(environmentStarts[e], environments[e], headSeq)

\* Every record of the next state is that of the index, by the next seq.
EnvironmentsShown ==
    /\ DOMAIN environmentStarts' = DOMAIN environments'
    /\ \A e \in DOMAIN environments' :
          /\ environmentStarts'[e] \in StartRecords
          /\ ShowsEnvironment(environmentStarts'[e], environments'[e], NextSeq)

EnvironmentPastKept ==
    \A e, s : s \in 1..headSeq => EnvironmentStateAt(e, s)' = EnvironmentStateAt(e, s)

\* The seqs of a record are numbers.
LEMMA StartRecordShape ==
    ASSUME NEW ix \in StartRecords
    PROVE  /\ ix.createdAt \in Nat /\ ix.deletedAt \in Nat
           /\ \A i \in 1..Len(ix.epochStarts) : ix.epochStarts[i].start \in Nat
<1>1. PICK list : list = ix.epochStarts
  OBVIOUS
<1>2. list \in Seq(EpochStarts)
  BY <1>1 DEF StartRecords
<1>3. \A i \in 1..Len(list) : list[i] \in EpochStarts
  BY <1>2
<1>4. \A i \in 1..Len(list) : list[i].start \in Nat
  BY <1>3 DEF EpochStarts
<1>5. QED
  BY <1>1, <1>4 DEF StartRecords

\* A later head shows the same environment.
LEMMA ShowsLater ==
    ASSUME NEW ix \in StartRecords, NEW env, NEW m \in Nat, NEW n \in Nat, m <= n,
           ShowsEnvironment(ix, env, m)
    PROVE  ShowsEnvironment(ix, env, n)
<1>1. /\ ix.createdAt \in Nat /\ ix.deletedAt \in Nat
      /\ \A i \in 1..Len(ix.epochStarts) : ix.epochStarts[i].start \in Nat
  BY StartRecordShape
<1>2. QED
  BY <1>1 DEF ShowsEnvironment

\* An entry about something else.
LEMMA EnvironmentsLeftAlone ==
    ASSUME headSeq \in Nat, EnvironmentIndex, headSeq' = headSeq + 1,
           UNCHANGED <<environments, environmentStarts>>
    PROVE  EnvironmentIndex' /\ EnvironmentPastKept
<1>1. \A e \in DOMAIN environments :
         /\ environmentStarts[e] \in StartRecords
         /\ ShowsEnvironment(environmentStarts[e], environments[e], headSeq')
  BY ShowsLater DEF EnvironmentIndex
<1>2. EnvironmentIndex'
  BY <1>1 DEF EnvironmentIndex, ShowsEnvironment
<1>3. EnvironmentPastKept
  BY DEF EnvironmentPastKept, EnvironmentStateAt
<1>4. QED
  BY <1>2, <1>3

\* The record of one environment changes: so does its record in the index.
LEMMA OneEnvironmentRecorded ==
    ASSUME headSeq \in Nat, EnvironmentIndex,
           NEW e \in DOMAIN environments,
           DOMAIN environments' = DOMAIN environments,
           DOMAIN environmentStarts' = DOMAIN environmentStarts,
           \A x \in DOMAIN environments : x # e =>
              environments'[x] = environments[x] /\ environmentStarts'[x] = environmentStarts[x],
           environmentStarts'[e] \in StartRecords,
           ShowsEnvironment(environmentStarts'[e], environments'[e], headSeq + 1),
           environmentStarts'[e].createdAt = environmentStarts[e].createdAt,
           \A s \in Nat : environmentStarts[e].createdAt <= s /\ s <= headSeq =>
              EnvironmentAnswer(environmentStarts'[e], s) = EnvironmentAnswer(environmentStarts[e], s)
    PROVE  EnvironmentsShown /\ EnvironmentPastKept
<1>1. \A x \in DOMAIN environments :
         /\ environmentStarts[x] \in StartRecords
         /\ ShowsEnvironment(environmentStarts[x], environments[x], headSeq)
  BY DEF EnvironmentIndex
<1>2. ASSUME NEW x \in DOMAIN environments
      PROVE  /\ environmentStarts'[x] \in StartRecords
             /\ ShowsEnvironment(environmentStarts'[x], environments'[x], NextSeq)
  <2>1. CASE x = e
    BY <2>1 DEF NextSeq
  <2>2. CASE x # e
    <3>1. PICK ix, env : ix = environmentStarts[x] /\ env = environments[x]
      OBVIOUS
    <3>2. ix \in StartRecords /\ ShowsEnvironment(ix, env, headSeq)
      BY <1>1, <3>1
    <3>3. ShowsEnvironment(ix, env, headSeq + 1)
      BY <3>2, ShowsLater
    <3>4. QED
      BY <2>2, <3>1, <3>2, <3>3 DEF NextSeq
  <2>3. QED
    BY <2>1, <2>2
<1>3. EnvironmentsShown
  BY <1>2 DEF EnvironmentsShown, EnvironmentIndex
<1>4. ASSUME NEW x, NEW s \in 1..headSeq PROVE EnvironmentStateAt(x, s)' = EnvironmentStateAt(x, s)
  <2>1. EnvironmentStateAt(x, s) =
           IF x \notin DOMAIN environmentStarts \/ s < environmentStarts[x].createdAt THEN Absent
           ELSE EnvironmentAnswer(environmentStarts[x], s)
    BY DEF EnvironmentStateAt, EnvironmentAnswer
  <2>2. EnvironmentStateAt(x, s)' =
           IF x \notin DOMAIN environmentStarts' \/ s < environmentStarts'[x].createdAt THEN Absent
           ELSE EnvironmentAnswer(environmentStarts'[x], s)
    BY DEF EnvironmentStateAt, EnvironmentAnswer
  <2>3. CASE x \notin DOMAIN environmentStarts
    BY <2>1, <2>2, <2>3
  <2>4. CASE x \in DOMAIN environmentStarts /\ x # e
    BY <2>1, <2>2, <2>4 DEF EnvironmentIndex
  <2>5. CASE x = e
    <3>1. s < environmentStarts[e].createdAt \/ environmentStarts[e].createdAt <= s
      BY <1>1 DEF StartRecords
    <3>2. CASE s < environmentStarts[e].createdAt
      BY <2>1, <2>2, <2>5, <3>2
    <3>3. CASE environmentStarts[e].createdAt <= s
      <4>1. environmentStarts[e].createdAt \in Nat
        BY <1>1 DEF StartRecords
      <4>2. ~(s < environmentStarts[e].createdAt)
        BY <3>3, <4>1
      <4>3. e \in DOMAIN environmentStarts
        BY DEF EnvironmentIndex
      <4>4. EnvironmentAnswer(environmentStarts'[e], s) = EnvironmentAnswer(environmentStarts[e], s)
        BY <3>3
      <4>5. QED
        BY <2>1, <2>2, <2>5, <4>2, <4>3, <4>4
    <3>4. QED
      BY <3>1, <3>2, <3>3
  <2>6. QED
    BY <2>3, <2>4, <2>5
<1>5. QED
  BY <1>3, <1>4 DEF EnvironmentPastKept

\* The creation of an environment is recorded.
LEMMA EnvironmentCreated ==
    ASSUME TypeOK, EnvironmentIndex, NEW op, op.env \notin DOMAIN environments,
           environments' = EnvironmentsAfterCreate(op, NextSeq),
           environmentStarts' = StartsAfterCreate(op, NextSeq)
    PROVE  EnvironmentsShown /\ EnvironmentPastKept
<1>1. headSeq \in Nat /\ NextSeq = headSeq + 1 /\ NextSeq \in Nat
  BY DEF TypeOK, NextSeq
<1>2. \A e \in DOMAIN environments :
         /\ environmentStarts[e] \in StartRecords
         /\ environments[e] \in EnvironmentStates
         /\ ShowsEnvironment(environmentStarts[e], environments[e], headSeq)
  BY DEF EnvironmentIndex, TypeOK, IsMap
<1>3. op.env \notin DOMAIN environments
  OBVIOUS
<1>4. PICK e, ix, env : /\ e = op.env
             /\ ix = [createdAt |-> NextSeq, epochStarts |-> <<[epoch |-> 1, start |-> NextSeq]>>,
                      deletedAt |-> 0]
             /\ env = [epoch |-> 1, createdAt |-> NextSeq, deletedAt |-> 0,
                       epochStarts |-> <<NextSeq>>]
  OBVIOUS
<1>5. environments' = WithKey(environments, e, env)
  BY <1>4 DEF EnvironmentsAfterCreate
<1>6. environmentStarts' = WithKey(environmentStarts, e, ix)
  BY <1>4 DEF StartsAfterCreate
<1>7. ix \in StartRecords /\ ShowsEnvironment(ix, env, NextSeq) /\ ix.createdAt = NextSeq
  <2>1. ix.epochStarts \in Seq(EpochStarts)
    BY <1>1, <1>4 DEF EpochStarts
  <2>2. /\ Len(ix.epochStarts) = 1 /\ ix.epochStarts[1] = [epoch |-> 1, start |-> NextSeq]
        /\ ix.epochStarts # <<>> /\ Last(ix.epochStarts).epoch = 1
    BY <1>4 DEF Last
  <2>3. ix \in StartRecords
    BY <1>1, <1>4, <2>1 DEF StartRecords
  <2>4. QED
    BY <1>1, <1>4, <2>2, <2>3 DEF ShowsEnvironment
<1>8. ASSUME NEW x \in DOMAIN environments, NEW y, y = environmentStarts[x]
      PROVE  ShowsEnvironment(y, environments[x], NextSeq)
  BY <1>1, <1>2, <1>8, ShowsLater
<1>9. /\ DOMAIN environments' = DOMAIN environments \cup {e}
      /\ DOMAIN environmentStarts' = DOMAIN environments \cup {e}
      /\ environments'[e] = env /\ environmentStarts'[e] = ix
      /\ \A x \in DOMAIN environments :
            environments'[x] = environments[x] /\ environmentStarts'[x] = environmentStarts[x]
  BY <1>3, <1>4, <1>5, <1>6 DEF WithKey, EnvironmentIndex
<1>10. EnvironmentsShown
  <2>1. ASSUME NEW x \in DOMAIN environments'
        PROVE  /\ environmentStarts'[x] \in StartRecords
               /\ ShowsEnvironment(environmentStarts'[x], environments'[x], NextSeq)
    <3>1. CASE x = e
      BY <1>1, <1>7, <1>9, <3>1
    <3>2. CASE x \in DOMAIN environments
      BY <1>1, <1>2, <1>8, <1>9, <3>2
    <3>3. QED
      BY <1>9, <3>1, <3>2
  <2>2. QED
    BY <1>9, <2>1 DEF EnvironmentsShown
<1>11. ASSUME NEW x, NEW s \in 1..headSeq
      PROVE  EnvironmentStateAt(x, s)' = EnvironmentStateAt(x, s)
  <2>1. EnvironmentStateAt(x, s) =
           IF x \notin DOMAIN environmentStarts \/ s < environmentStarts[x].createdAt THEN Absent
           ELSE EnvironmentAnswer(environmentStarts[x], s)
    BY DEF EnvironmentStateAt, EnvironmentAnswer
  <2>2. EnvironmentStateAt(x, s)' =
           IF x \notin DOMAIN environmentStarts' \/ s < environmentStarts'[x].createdAt THEN Absent
           ELSE EnvironmentAnswer(environmentStarts'[x], s)
    BY DEF EnvironmentStateAt, EnvironmentAnswer
  <2>3. CASE x = e
    <3>1. s < environmentStarts'[x].createdAt
      BY <1>1, <1>7, <1>9, <2>3
    <3>2. x \notin DOMAIN environmentStarts
      BY <1>3, <1>4, <2>3 DEF EnvironmentIndex
    <3>3. QED
      BY <2>1, <2>2, <3>1, <3>2
  <2>4. CASE x # e
    BY <1>9, <2>1, <2>2, <2>4 DEF EnvironmentIndex
  <2>5. QED
    BY <2>3, <2>4
<1>12. QED
  BY <1>10, <1>11 DEF EnvironmentPastKept

\* The start of an epoch is recorded.
LEMMA EpochStarted ==
    ASSUME TypeOK, EnvironmentIndex, NEW op, op.env \in DOMAIN environments, op.epoch \in Nat,
           environments' = EnvironmentsAfterRotate(op, NextSeq),
           environmentStarts' = StartsAfterRotate(op, NextSeq)
    PROVE  EnvironmentsShown /\ EnvironmentPastKept
<1>1. headSeq \in Nat /\ NextSeq = headSeq + 1 /\ NextSeq \in Nat
  BY DEF TypeOK, NextSeq
<1>2. \A e \in DOMAIN environments :
         /\ environmentStarts[e] \in StartRecords
         /\ environments[e] \in EnvironmentStates
         /\ ShowsEnvironment(environmentStarts[e], environments[e], headSeq)
  BY DEF EnvironmentIndex, TypeOK, IsMap
<1>3. PICK e : e = op.env
  OBVIOUS
<1>4. /\ e \in DOMAIN environments /\ op.epoch \in Nat
  BY <1>3
<1>5. PICK ix, env, start :
        ix = environmentStarts[e] /\ env = environments[e]
        /\ start = [epoch |-> op.epoch, start |-> NextSeq]
  OBVIOUS
<1>6. environments' = [environments EXCEPT ![e].epoch = op.epoch,
                                           ![e].epochStarts = Append(@, NextSeq)]
  BY <1>3 DEF EnvironmentsAfterRotate
<1>7. environmentStarts' = [environmentStarts EXCEPT ![e].epochStarts = Append(@, start)]
  BY <1>3, <1>5 DEF StartsAfterRotate
<1>8. /\ ix \in StartRecords /\ env \in EnvironmentStates /\ ShowsEnvironment(ix, env, headSeq)
      /\ start \in EpochStarts /\ start.start = headSeq + 1 /\ start.epoch = op.epoch
  BY <1>1, <1>2, <1>4, <1>5 DEF EpochStarts
<1>9. PICK after : after = [ix EXCEPT !.epochStarts = Append(@, start)]
  OBVIOUS
<1>10. /\ after.createdAt = ix.createdAt /\ after.deletedAt = ix.deletedAt
       /\ after.epochStarts = Append(ix.epochStarts, start)
  BY <1>8, <1>9 DEF StartRecords
<1>11. /\ ix.epochStarts \in Seq(EpochStarts) /\ Len(ix.epochStarts) \in Nat
       /\ Len(after.epochStarts) = Len(ix.epochStarts) + 1
       /\ \A i \in 1..Len(ix.epochStarts) : after.epochStarts[i] = ix.epochStarts[i]
       /\ after.epochStarts[Len(ix.epochStarts) + 1] = start
       /\ Last(after.epochStarts) = start /\ after.epochStarts \in Seq(EpochStarts)
  BY <1>8, <1>10, Appending DEF StartRecords
<1>12. after \in StartRecords
  <2>1. after = [ix EXCEPT !.epochStarts = after.epochStarts]
    BY <1>8, <1>9, <1>10 DEF StartRecords
  <2>2. QED
    BY <1>8, <1>11, <2>1 DEF StartRecords
<1>13. ShowsEnvironment(after, [env EXCEPT !.epoch = op.epoch,
                                           !.epochStarts = Append(@, NextSeq)], headSeq + 1)
  <2>1. PICK b : b = [env EXCEPT !.epoch = op.epoch, !.epochStarts = Append(@, NextSeq)]
    OBVIOUS
  <2>2. b.createdAt = env.createdAt /\ b.deletedAt = env.deletedAt /\ b.epoch = op.epoch
    BY <1>8, <2>1 DEF EnvironmentStates
  <2>3. /\ ix.createdAt \in Nat /\ ix.deletedAt \in Nat
        /\ \A i \in 1..Len(ix.epochStarts) : ix.epochStarts[i].start \in Nat
    BY <1>8, StartRecordShape
  <2>4. ix.epochStarts # <<>> => 1 \in 1..Len(ix.epochStarts)
    BY <1>11
  <2>5. \A i \in 1..Len(ix.epochStarts) + 1 : after.epochStarts[i].start <= headSeq + 1
    <3>1. TAKE i \in 1..Len(ix.epochStarts) + 1
    <3>2. CASE i \in 1..Len(ix.epochStarts)
      BY <1>1, <1>8, <1>11, <2>3, <3>2 DEF ShowsEnvironment
    <3>3. CASE i = Len(ix.epochStarts) + 1
      <4>1. after.epochStarts[i] = start
        BY <1>11, <3>3
      <4>2. QED
        BY <1>1, <1>8, <4>1
    <3>4. QED
      BY <1>11, <3>2, <3>3
  <2>6. after.epochStarts # <<>>
    BY <1>11
  <2>7. after.createdAt <= headSeq + 1 /\ after.deletedAt <= headSeq + 1
    BY <1>1, <1>8, <1>10, <2>3 DEF ShowsEnvironment
  <2>8. after.epochStarts[1].start = after.createdAt
    BY <1>8, <1>10, <1>11, <2>4 DEF ShowsEnvironment
  <2>9. QED
    BY <1>8, <1>10, <1>11, <2>1, <2>2, <2>5, <2>6, <2>7, <2>8 DEF ShowsEnvironment
<1>14. \A s \in Nat : ix.createdAt <= s /\ s <= headSeq =>
          EnvironmentAnswer(after, s) = EnvironmentAnswer(ix, s)
  BY <1>1, <1>8, <1>9, EnvironmentAnswerKept
<1>15. /\ environmentStarts'[e] = after
       /\ environments'[e] = [env EXCEPT !.epoch = op.epoch, !.epochStarts = Append(@, NextSeq)]
       /\ DOMAIN environments' = DOMAIN environments
       /\ DOMAIN environmentStarts' = DOMAIN environmentStarts
       /\ \A x \in DOMAIN environments : x # e =>
             environments'[x] = environments[x] /\ environmentStarts'[x] = environmentStarts[x]
  BY <1>4, <1>5, <1>6, <1>7, <1>9 DEF EnvironmentIndex
<1>16. QED
  BY <1>1, <1>4, <1>5, <1>10, <1>12, <1>13, <1>14, <1>15, OneEnvironmentRecorded

\* What an entry records of environments is what it does to them.
LEMMA EnvironmentsRecorded ==
    ASSUME TypeOK, EnvironmentIndex, NEW op \in Operations, NEW d, AppliedEntry(op, d)
    PROVE  EnvironmentIndex' /\ EnvironmentPastKept
<1>1. headSeq \in Nat /\ NextSeq = headSeq + 1 /\ headSeq' = headSeq + 1
  BY DEF TypeOK, NextSeq, AppliedEntry
<1>2. \A e \in DOMAIN environments :
         /\ environmentStarts[e] \in StartRecords
         /\ environments[e] \in EnvironmentStates
         /\ ShowsEnvironment(environmentStarts[e], environments[e], headSeq)
  BY DEF EnvironmentIndex, TypeOK, IsMap
<1>3. EnvironmentsShown => EnvironmentIndex'
  BY <1>1 DEF EnvironmentsShown, EnvironmentIndex, ShowsEnvironment
<1>4. CASE op.op = "create_environment"
  <2>1. op.env \notin DOMAIN environments
    BY <1>4 DEF AppliedEntry, ConsensusRule, CreateEnvironmentRule
  <2>2. environments' = EnvironmentsAfterCreate(op, NextSeq)
    BY <1>4 DEF AppliedEntry, Apply, ApplyCreateEnvironment
  <2>3. environmentStarts' = StartsAfterCreate(op, NextSeq)
    BY <1>4 DEF AppliedEntry, RecordHistory, RecordEnvironmentCreated
  <2>4. QED
    BY <1>3, <2>1, <2>2, <2>3, EnvironmentCreated
<1>5. CASE op.op = "rotate_epoch"
  <2>1. op.env \in DOMAIN environments /\ op.epoch \in Nat
    BY <1>5, OperationShapes
    DEF AppliedEntry, ConsensusRule, RotateEpochRule, LiveEnvironments, RotateEpochOps
  <2>2. environments' = EnvironmentsAfterRotate(op, NextSeq)
    BY <1>5 DEF AppliedEntry, Apply, ApplyRotateEpoch
  <2>3. environmentStarts' = StartsAfterRotate(op, NextSeq)
    BY <1>5 DEF AppliedEntry, RecordHistory, RecordEpochRotated
  <2>4. QED
    BY <1>3, <2>1, <2>2, <2>3, EpochStarted
<1>6. CASE op.op = "delete_environment"
  <2>1. PICK e : e = op.env
    OBVIOUS
  <2>2. e \in DOMAIN environments /\ environments[e].deletedAt = 0
    BY <1>6, <2>1 DEF AppliedEntry, ConsensusRule, DeleteEnvironmentRule, LiveEnvironments
  <2>3. PICK ix, env : ix = environmentStarts[e] /\ env = environments[e]
    OBVIOUS
  <2>4. environments' = [environments EXCEPT ![e].deletedAt = NextSeq]
    BY <1>6, <2>1 DEF AppliedEntry, Apply, ApplyDeleteEnvironment
  <2>5. environmentStarts' = [environmentStarts EXCEPT ![e].deletedAt = NextSeq]
    BY <1>6, <2>1 DEF AppliedEntry, RecordHistory, RecordEnvironmentDeleted
  <2>6. /\ ix \in StartRecords /\ env \in EnvironmentStates /\ ShowsEnvironment(ix, env, headSeq)
        /\ ix.deletedAt = 0
    BY <1>2, <2>2, <2>3 DEF ShowsEnvironment
  <2>7. PICK after, b : /\ after = [ix EXCEPT !.deletedAt = headSeq + 1]
                        /\ b = [env EXCEPT !.deletedAt = headSeq + 1]
    OBVIOUS
  <2>8. /\ after.createdAt = ix.createdAt /\ after.deletedAt = headSeq + 1
        /\ after.epochStarts = ix.epochStarts
        /\ b.createdAt = env.createdAt /\ b.deletedAt = headSeq + 1 /\ b.epoch = env.epoch
    BY <2>6, <2>7 DEF StartRecords, EnvironmentStates
  <2>9. after \in StartRecords
    BY <1>1, <2>6, <2>7 DEF StartRecords
  <2>10. ShowsEnvironment(after, b, headSeq + 1)
    <3>1. /\ ix.createdAt \in Nat
          /\ \A i \in 1..Len(ix.epochStarts) : ix.epochStarts[i].start \in Nat
      BY <2>6, StartRecordShape
    <3>2. QED
      BY <1>1, <2>6, <2>8, <3>1 DEF ShowsEnvironment
  <2>11. \A s \in Nat : ix.createdAt <= s /\ s <= headSeq =>
            EnvironmentAnswer(after, s) = EnvironmentAnswer(ix, s)
    BY <1>1, <2>6, <2>7, EnvironmentAnswerKept
  <2>12. /\ environmentStarts'[e] = after /\ environments'[e] = b
         /\ DOMAIN environments' = DOMAIN environments
         /\ DOMAIN environmentStarts' = DOMAIN environmentStarts
         /\ \A x \in DOMAIN environments : x # e =>
               environments'[x] = environments[x] /\ environmentStarts'[x] = environmentStarts[x]
    BY <1>1, <2>2, <2>3, <2>4, <2>5, <2>7 DEF EnvironmentIndex
  <2>13. QED
    BY <1>1, <1>3, <2>2, <2>3, <2>8, <2>9, <2>10, <2>11, <2>12, OneEnvironmentRecorded
<1>7. CASE op.op \notin {"create_environment", "rotate_epoch", "delete_environment"}
  <2>1. UNCHANGED environments
    BY <1>7 DEF AppliedEntry, Apply, ApplyAddMember, ApplyChangeRole, ApplyRemoveMember,
       ApplyAddDevice, ApplyRevokeDevice, ApplyGrantServer, ApplyRevokeServer, ApplyCheckpoint,
       ApplySetApprovalPolicy, envVars
  <2>2. UNCHANGED environmentStarts
    BY <1>7 DEF AppliedEntry, RecordHistory, RecordTenureStart, RecordRoleChange,
       RecordTenureEnd, RecordDeviceAdded, RecordDevicesRevoked, RecordCheckpoint, indexVars
  <2>3. QED
    BY <1>1, <2>1, <2>2, EnvironmentsLeftAlone
<1>8. QED
  BY <1>4, <1>5, <1>6, <1>7

(***************************************************************************)
(* People.  What one tenure answers.                                       *)
(***************************************************************************)

Spans == [from : Nat, role : Roles, scope : Scopes]

CapChanges == [from : Nat, scope : Scopes]

IndexedDevices == [device : DeviceRecords, revoked : Nat, capChanges : Seq(CapChanges)]

TenureRecords == [start : Nat, end : Nat, devices : Seq(IndexedDevices), spans : Seq(Spans)]

\* Everything recorded of a device, and of a tenure, was recorded by seq n.
DeviceBy(r, n) ==
    /\ r.device.addedSeq <= n /\ r.revoked <= n
    /\ \A i \in 1..Len(r.capChanges) : r.capChanges[i].from <= n

TenureBy(t, n) ==
    /\ t.start <= n /\ t.end <= n
    /\ t.spans # <<>> /\ t.spans[1].from <= t.start
    /\ \A i \in 1..Len(t.spans) : t.spans[i].from <= n
    /\ \A i \in 1..Len(t.devices) : DeviceBy(t.devices[i], n)

\* A device with the cap last recorded for it.
CurrentDevice(r) ==
    IF r.capChanges = <<>> THEN r.device
    ELSE [r.device EXCEPT !.scope = Last(r.capChanges).scope]

\* The tenure shows a person with the state m and the devices D.
ShowsMember(t, m, D) ==
    /\ Last(t.spans).role = m.role /\ Last(t.spans).scope = m.scope
    /\ {CurrentDevice(t.devices[i]) : i \in {j \in DOMAIN t.devices : t.devices[j].revoked = 0}} = D

ActiveIn(t, seq) == {i \in DOMAIN t.devices : DeviceActiveAt(t.devices[i], seq)}

\* What the index answers for a person in this tenure.
TenureAnswer(t, seq) ==
    [kind |-> "member", role |-> CurrentAt(t.spans, seq).role, scope |-> CurrentAt(t.spans, seq).scope,
     devices |-> {DeviceAt(t.devices[i], seq) : i \in ActiveIn(t, seq)}, tenureStart |-> t.start]

\* What is recorded of a device or tenure after seq h changes no answer up to h.
DeviceKept(r, after, h) ==
    \A seq \in Nat : seq <= h =>
        /\ DeviceActiveAt(after, seq) <=> DeviceActiveAt(r, seq)
        /\ DeviceAt(after, seq) = DeviceAt(r, seq)

TenureKept(t, after, h) ==
    \A seq \in Nat : seq <= h =>
        /\ TenureCovers(after, seq) <=> TenureCovers(t, seq)
        /\ TenureCovers(t, seq) => TenureAnswer(after, seq) = TenureAnswer(t, seq)

\* The types of the parts of a device's record.
LEMMA IndexedDeviceShape ==
    ASSUME NEW r \in IndexedDevices
    PROVE  /\ r.device \in DeviceRecords /\ r.revoked \in Nat /\ r.capChanges \in Seq(CapChanges)
           /\ \A i \in 1..Len(r.capChanges) : r.capChanges[i] \in CapChanges
           /\ \A i \in 1..Len(r.capChanges) : r.capChanges[i].from \in Nat
<1>1. PICK list : list = r.capChanges
  OBVIOUS
<1>2. list \in Seq(CapChanges)
  BY <1>1 DEF IndexedDevices
<1>3. \A i \in 1..Len(list) : list[i] \in CapChanges
  BY <1>2
<1>4. \A i \in 1..Len(list) : list[i].from \in Nat
  BY <1>3 DEF CapChanges
<1>5. QED
  BY <1>1, <1>2, <1>3, <1>4 DEF IndexedDevices

\* The types of the parts of a tenure.
LEMMA TenureShape ==
    ASSUME NEW t \in TenureRecords
    PROVE  /\ t.start \in Nat /\ t.end \in Nat
           /\ t.spans \in Seq(Spans) /\ DOMAIN t.spans = 1..Len(t.spans) /\ Len(t.spans) \in Nat
           /\ \A i \in 1..Len(t.spans) : t.spans[i] \in Spans
           /\ \A i \in 1..Len(t.spans) : t.spans[i].from \in Nat
           /\ t.devices \in Seq(IndexedDevices) /\ DOMAIN t.devices = 1..Len(t.devices)
           /\ Len(t.devices) \in Nat
           /\ \A i \in 1..Len(t.devices) : t.devices[i] \in IndexedDevices
<1>1. PICK spans, held : spans = t.spans /\ held = t.devices
  OBVIOUS
<1>2. spans \in Seq(Spans) /\ held \in Seq(IndexedDevices)
  BY <1>1 DEF TenureRecords
<1>3. /\ DOMAIN spans = 1..Len(spans) /\ DOMAIN held = 1..Len(held)
      /\ Len(spans) \in Nat /\ Len(held) \in Nat
      /\ \A i \in 1..Len(spans) : spans[i] \in Spans
      /\ \A i \in 1..Len(held) : held[i] \in IndexedDevices
  BY <1>2
<1>4. \A i \in 1..Len(spans) : spans[i].from \in Nat
  BY <1>3 DEF Spans
<1>5. QED
  BY <1>1, <1>2, <1>3, <1>4 DEF TenureRecords

\* The answer for the head about a device is what was last recorded of it.
LEMMA DeviceNow ==
    ASSUME NEW r \in IndexedDevices, NEW n \in Nat, DeviceBy(r, n)
    PROVE  /\ DeviceAt(r, n) = CurrentDevice(r)
           /\ DeviceActiveAt(r, n) <=> r.revoked = 0
<1>1. PICK list : list = r.capChanges
  OBVIOUS
<1>2. list \in Seq(CapChanges) /\ \A i \in 1..Len(list) : list[i].from <= n
  BY <1>1, IndexedDeviceShape DEF DeviceBy
<1>3. ASSUME list = <<>> PROVE DeviceAt(r, n) = CurrentDevice(r)
  <2>1. IntervalsUpTo(list, n) = {}
    BY <1>3 DEF IntervalsUpTo
  <2>2. DeviceAt(r, n) = r.device
    BY <1>1, <2>1 DEF DeviceAt
  <2>3. CurrentDevice(r) = r.device
    BY <1>1, <1>3 DEF CurrentDevice
  <2>4. QED
    BY <2>2, <2>3
<1>4. ASSUME list # <<>> PROVE DeviceAt(r, n) = CurrentDevice(r)
  <2>1. CurrentAt(list, n) = Last(list) /\ IntervalsUpTo(list, n) # {}
    BY <1>2, <1>4, LastIsCurrent
  <2>2. DeviceAt(r, n) = [r.device EXCEPT !.scope = CurrentAt(list, n).scope]
    BY <1>1, <2>1 DEF DeviceAt
  <2>3. CurrentDevice(r) = [r.device EXCEPT !.scope = Last(list).scope]
    BY <1>1, <1>4 DEF CurrentDevice
  <2>4. QED
    BY <2>1, <2>2, <2>3
<1>5. DeviceActiveAt(r, n) <=> r.revoked = 0
  BY IndexedDeviceShape DEF DeviceBy, DeviceActiveAt
<1>6. QED
  BY <1>3, <1>4, <1>5

\* The answer for the head about a member is what the open tenure shows.
LEMMA TenureNow ==
    ASSUME NEW t \in TenureRecords, NEW n \in Nat, TenureBy(t, n), t.end = 0,
           NEW m, NEW D, ShowsMember(t, m, D)
    PROVE  /\ TenureCovers(t, n)
           /\ TenureAnswer(t, n) = [kind |-> "member", role |-> m.role, scope |-> m.scope,
                                    devices |-> D, tenureStart |-> t.start]
<1>1. TenureCovers(t, n)
  BY DEF TenureBy, TenureCovers
<1>2. PICK spans, held : spans = t.spans /\ held = t.devices
  OBVIOUS
<1>3. CurrentAt(spans, n) = Last(spans)
  <2>1. /\ spans \in Seq(Spans) /\ spans # <<>>
        /\ \A i \in 1..Len(spans) : spans[i].from <= n
    BY <1>2, TenureShape DEF TenureBy
  <2>2. QED
    BY <2>1, LastIsCurrent
<1>4. \A i \in DOMAIN held : /\ DeviceAt(held[i], n) = CurrentDevice(held[i])
                             /\ DeviceActiveAt(held[i], n) <=> held[i].revoked = 0
  <2>1. \A i \in DOMAIN held : held[i] \in IndexedDevices /\ DeviceBy(held[i], n)
    BY <1>2, TenureShape DEF TenureBy
  <2>2. QED
    BY <2>1, DeviceNow
<1>5. ActiveIn(t, n) = {j \in DOMAIN held : held[j].revoked = 0}
  BY <1>2, <1>4 DEF ActiveIn
<1>6. {DeviceAt(held[i], n) : i \in ActiveIn(t, n)} = D
  BY <1>2, <1>4, <1>5 DEF ShowsMember
<1>7. QED
  BY <1>1, <1>2, <1>3, <1>6 DEF TenureAnswer, ShowsMember

\* A tenure that changes at h + 1, if at all: ends there, changes the role there,
\* gets a device there or changes what is known of its devices.
ChangesAfter(t, after, h) ==
    /\ after.start = t.start
    /\ after.end = t.end \/ (t.end = 0 /\ after.end = h + 1)
    /\ \/ after.spans = t.spans
       \/ \E x : x.from = h + 1 /\ after.spans = Append(t.spans, x)
    /\ \/ /\ DOMAIN after.devices = DOMAIN t.devices
          /\ \A i \in DOMAIN t.devices : DeviceKept(t.devices[i], after.devices[i], h)
       \/ \E r : r.device.addedSeq = h + 1 /\ after.devices = Append(t.devices, r)

\* Such a tenure answers the same up to h.
LEMMA TenureStaysTrue ==
    ASSUME NEW h \in Nat, NEW t \in TenureRecords, TenureBy(t, h), NEW after,
           ChangesAfter(t, after, h)
    PROVE  TenureKept(t, after, h)
<1> USE DEF ChangesAfter
<1>1. SUFFICES ASSUME NEW seq \in Nat, seq <= h
               PROVE  /\ TenureCovers(after, seq) <=> TenureCovers(t, seq)
                      /\ TenureCovers(t, seq) => TenureAnswer(after, seq) = TenureAnswer(t, seq)
  BY DEF TenureKept
<1>2. seq <= h
  BY <1>1
<1>3. TenureCovers(after, seq) <=> TenureCovers(t, seq)
  BY <1>2, TenureShape DEF TenureCovers
<1>4. ASSUME TenureCovers(t, seq) PROVE TenureAnswer(after, seq) = TenureAnswer(t, seq)
  <2>1. PICK spans, held : spans = t.spans /\ held = t.devices
    OBVIOUS
  <2>2. /\ spans \in Seq(Spans) /\ Len(spans) \in Nat /\ DOMAIN spans = 1..Len(spans)
        /\ \A i \in 1..Len(spans) : spans[i].from \in Nat
        /\ held \in Seq(IndexedDevices) /\ DOMAIN held = 1..Len(held) /\ Len(held) \in Nat
    BY <2>1, TenureShape
  <2>3. IntervalsUpTo(spans, seq) # {}
    <3>1. spans # <<>> /\ spans[1].from <= t.start /\ t.start <= seq /\ t.start \in Nat
      BY <1>4, <2>1, TenureShape DEF TenureBy, TenureCovers
    <3>2. 1 \in 1..Len(spans)
      BY <2>2, <3>1
    <3>3. spans[1].from <= seq
      BY <2>2, <3>1, <3>2
    <3>4. QED
      BY <2>2, <3>2, <3>3 DEF IntervalsUpTo
  <2>4. CurrentAt(after.spans, seq) = CurrentAt(spans, seq)
    <3>1. CASE after.spans = spans
      BY <3>1
    <3>2. CASE \E x : x.from = h + 1 /\ after.spans = Append(spans, x)
      <4>1. PICK x : x.from = h + 1 /\ after.spans = Append(spans, x)
        BY <3>2
      <4>2. x.from \in Nat /\ seq < x.from
        BY <1>2, <4>1
      <4>3. CurrentAt(Append(spans, x), seq) = CurrentAt(spans, seq)
        BY <2>2, <2>3, <4>2, LaterNotFound
      <4>4. QED
        BY <4>1, <4>3
    <3>3. QED
      BY <2>1, <3>1, <3>2
  <2>5. {DeviceAt(after.devices[i], seq) : i \in ActiveIn(after, seq)}
           = {DeviceAt(held[i], seq) : i \in ActiveIn(t, seq)}
    <3>1. CASE /\ DOMAIN after.devices = DOMAIN held
               /\ \A i \in DOMAIN held : DeviceKept(held[i], after.devices[i], h)
      <4>1. \A i \in DOMAIN held :
               /\ DeviceActiveAt(after.devices[i], seq) <=> DeviceActiveAt(held[i], seq)
               /\ DeviceAt(after.devices[i], seq) = DeviceAt(held[i], seq)
        BY <1>2, <3>1 DEF DeviceKept
      <4>2. ActiveIn(after, seq) = ActiveIn(t, seq)
        BY <2>1, <3>1, <4>1 DEF ActiveIn
      <4>3. ActiveIn(t, seq) \subseteq DOMAIN held
        BY <2>1 DEF ActiveIn
      <4>4. QED
        BY <4>1, <4>2, <4>3
    <3>2. CASE \E r : r.device.addedSeq = h + 1 /\ after.devices = Append(held, r)
      <4>1. PICK r : r.device.addedSeq = h + 1 /\ after.devices = Append(held, r)
        BY <3>2
      <4>2. PICK more : more = after.devices
        OBVIOUS
      <4>3. /\ DOMAIN more = 1..Len(held) + 1
            /\ \A i \in 1..Len(held) : more[i] = held[i]
            /\ more[Len(held) + 1] = r
        BY <2>2, <4>1, <4>2, Appending
      <4>4. ~DeviceActiveAt(r, seq)
        <5>1. ~(h + 1 <= seq)
          BY <1>2
        <5>2. QED
          BY <4>1, <5>1 DEF DeviceActiveAt
      <4>5. \A i \in 1..Len(held) + 1 : i \in 1..Len(held) \/ i = Len(held) + 1
        BY <2>2
      <4>6. ActiveIn(after, seq) = ActiveIn(t, seq)
        BY <2>1, <2>2, <4>2, <4>3, <4>4, <4>5 DEF ActiveIn
      <4>7. ActiveIn(t, seq) \subseteq 1..Len(held)
        BY <2>1, <2>2 DEF ActiveIn
      <4>8. QED
        BY <4>2, <4>3, <4>6, <4>7
    <3>3. QED
      BY <2>1, <3>1, <3>2
  <2>6. QED
    BY <2>1, <2>4, <2>5 DEF TenureAnswer
<1>5. QED
  BY <1>3, <1>4

(***************************************************************************)
(* People.  What all tenures of a person answer.                           *)
(***************************************************************************)

CoveringIn(T, seq) == {i \in DOMAIN T : TenureCovers(T[i], seq)}

\* What the index answers for a person with the tenures T.
Answer(T, seq) ==
    IF CoveringIn(T, seq) = {} THEN Absent
    ELSE TenureAnswer(T[CHOOSE i \in CoveringIn(T, seq) :
                           \A j \in CoveringIn(T, seq) : i <= j], seq)

\* Recorded by seq n, and all but the last tenure have ended.
IndexedBy(T, n) ==
    /\ T \in Seq(TenureRecords)
    /\ \A i \in 1..Len(T) : TenureBy(T[i], n)
    /\ \A i \in 1..Len(T) : i # Len(T) => T[i].end # 0

Open(T) == T # <<>> /\ Last(T).end = 0

\* The tenures with the last one replaced.
WithLast(T, t) == [T EXCEPT ![Len(T)] = t]

\* The query is the answer from the tenures of the person.
LEMMA QueryAnswers ==
    ASSUME NEW u, NEW seq
    PROVE  MemberStateAt(u, seq) = Answer(TenuresOf(u), seq)
BY DEF MemberStateAt, Answer, TenureIndexesAt, CoveringIn, TenureAt, TenureAnswer, ActiveIn

\* A later head knows the same of a tenure.
LEMMA TenureByLater ==
    ASSUME NEW t \in TenureRecords, NEW m \in Nat, NEW n \in Nat, m <= n, TenureBy(t, m)
    PROVE  TenureBy(t, n)
<1>1. \A i \in 1..Len(t.devices) : DeviceBy(t.devices[i], n)
  <2>1. TAKE i \in 1..Len(t.devices)
  <2>2. PICK r \in IndexedDevices : r = t.devices[i]
    BY TenureShape
  <2>3. DeviceBy(r, m)
    BY <2>2 DEF TenureBy
  <2>4. r.device.addedSeq \in Nat /\ r.revoked \in Nat
    BY IndexedDeviceShape DEF DeviceRecords
  <2>5. \A j \in 1..Len(r.capChanges) : r.capChanges[j].from \in Nat
    BY IndexedDeviceShape
  <2>6. QED
    BY <2>2, <2>3, <2>4, <2>5 DEF DeviceBy
<1>2. /\ t.start \in Nat /\ t.end \in Nat
      /\ \A i \in 1..Len(t.spans) : t.spans[i].from \in Nat
  BY TenureShape
<1>3. QED
  BY <1>1, <1>2 DEF TenureBy

\* A tenure that starts after seq is not seen at seq.
LEMMA NewTenureKeepsAnswers ==
    ASSUME NEW h \in Nat, NEW T \in Seq(TenureRecords), NEW t, t.start = h + 1,
           NEW seq \in Nat, seq <= h
    PROVE  Answer(Append(T, t), seq) = Answer(T, seq)
<1>1. DOMAIN T = 1..Len(T) /\ Len(T) \in Nat
  OBVIOUS
<1>2. PICK after : after = Append(T, t)
  OBVIOUS
<1>3. /\ DOMAIN after = 1..Len(T) + 1
      /\ \A i \in 1..Len(T) : after[i] = T[i]
      /\ after[Len(T) + 1] = t
  BY <1>2, Appending
<1>4. ~TenureCovers(t, seq)
  <2>1. ~(h + 1 <= seq)
    OBVIOUS
  <2>2. QED
    BY <1>2, <2>1 DEF TenureCovers
<1>5. \A i \in 1..Len(T) + 1 : i \in 1..Len(T) \/ i = Len(T) + 1
  BY <1>1
<1>6. CoveringIn(after, seq) = CoveringIn(T, seq)
  <2>1. CoveringIn(after, seq) = {i \in 1..Len(T) + 1 : TenureCovers(after[i], seq)}
    BY <1>3 DEF CoveringIn
  <2>2. CoveringIn(T, seq) = {i \in 1..Len(T) : TenureCovers(T[i], seq)}
    BY <1>1 DEF CoveringIn
  <2>3. \A i \in 1..Len(T) : i \in 1..Len(T) + 1
    BY <1>1
  <2>4. QED
    BY <1>3, <1>4, <1>5, <2>1, <2>2, <2>3
<1>7. ASSUME CoveringIn(T, seq) # {} PROVE Answer(after, seq) = Answer(T, seq)
  <2>1. CoveringIn(T, seq) \subseteq Nat /\ CoveringIn(T, seq) \subseteq 1..Len(T)
    BY <1>1 DEF CoveringIn
  <2>2. \E i \in CoveringIn(T, seq) : \A j \in CoveringIn(T, seq) : i <= j
    BY <1>7, <2>1, FirstPosition
  <2>3. PICK k : k = CHOOSE i \in CoveringIn(T, seq) : \A j \in CoveringIn(T, seq) : i <= j
    OBVIOUS
  <2>4. k \in 1..Len(T)
    BY <2>1, <2>2, <2>3
  <2>5. QED
    BY <1>3, <1>6, <2>3, <2>4 DEF Answer
<1>8. QED
  BY <1>2, <1>6, <1>7 DEF Answer

\* What happens to the last tenure after seq is not seen at seq.
LEMMA ChangedTenureKeepsAnswers ==
    ASSUME NEW h \in Nat, NEW T \in Seq(TenureRecords), T # <<>>, NEW t, TenureKept(Last(T), t, h),
           NEW seq \in Nat, seq <= h
    PROVE  Answer(WithLast(T, t), seq) = Answer(T, seq)
<1>1. DOMAIN T = 1..Len(T) /\ Len(T) \in Nat
  OBVIOUS
<1>2. PICK after : after = WithLast(T, t)
  OBVIOUS
<1>3. DOMAIN after = DOMAIN T /\ after[Len(T)] = t /\ Last(T) = T[Len(T)]
  <2>1. Len(T) \in DOMAIN T
    <3>1. T # <<>>
      BY <1>2
    <3>2. QED
      BY <1>1, <3>1
  <2>2. QED
    BY <1>2, <2>1 DEF Last, WithLast
<1>4. \A i \in DOMAIN T : i # Len(T) => after[i] = T[i]
  BY <1>2 DEF WithLast
<1>5. \A i \in DOMAIN T :
         /\ TenureCovers(after[i], seq) <=> TenureCovers(T[i], seq)
         /\ TenureCovers(T[i], seq) => TenureAnswer(after[i], seq) = TenureAnswer(T[i], seq)
  <2>1. TAKE i \in DOMAIN T
  <2>2. CASE i = Len(T)
    BY <1>2, <1>3, <2>2 DEF TenureKept
  <2>3. CASE i # Len(T)
    BY <1>4, <2>3
  <2>4. QED
    BY <2>2, <2>3
<1>6. CoveringIn(after, seq) = CoveringIn(T, seq)
  BY <1>3, <1>5 DEF CoveringIn
<1>7. ASSUME CoveringIn(T, seq) # {} PROVE Answer(after, seq) = Answer(T, seq)
  <2>1. CoveringIn(T, seq) \subseteq Nat
    BY <1>1 DEF CoveringIn
  <2>2. \E i \in CoveringIn(T, seq) : \A j \in CoveringIn(T, seq) : i <= j
    BY <1>7, <2>1, FirstPosition
  <2>3. PICK k : k = CHOOSE i \in CoveringIn(T, seq) : \A j \in CoveringIn(T, seq) : i <= j
    OBVIOUS
  <2>4. k \in CoveringIn(T, seq)
    BY <2>2, <2>3
  <2>5. TenureAnswer(after[k], seq) = TenureAnswer(T[k], seq)
    BY <1>5, <2>4 DEF CoveringIn
  <2>6. QED
    BY <1>6, <2>3, <2>5 DEF Answer
<1>8. QED
  BY <1>2, <1>6, <1>7 DEF Answer

\* At the head only the last tenure counts.
LEMMA AnswerNow ==
    ASSUME NEW n \in Nat, NEW T, IndexedBy(T, n)
    PROVE  /\ ~Open(T) => Answer(T, n) = Absent
           /\ Open(T) => /\ Last(T) \in TenureRecords /\ TenureBy(Last(T), n)
                         /\ Answer(T, n) = TenureAnswer(Last(T), n)
<1>1. T \in Seq(TenureRecords) /\ DOMAIN T = 1..Len(T) /\ Len(T) \in Nat
  BY DEF IndexedBy
<1>2. \A i \in 1..Len(T) : T[i] \in TenureRecords
  BY <1>1
<1>3. \A i \in 1..Len(T) : T[i].end # 0 => ~TenureCovers(T[i], n)
  <2>1. TAKE i \in 1..Len(T)
  <2>2. T[i].end \in Nat /\ T[i].end <= n
    BY <1>2, TenureShape DEF IndexedBy, TenureBy
  <2>3. QED
    BY <2>2 DEF TenureCovers
<1>4. ASSUME ~Open(T) PROVE Answer(T, n) = Absent
  <2>1. \A i \in 1..Len(T) : T[i].end # 0
    <3>1. CASE T = <<>>
      BY <3>1
    <3>2. CASE T # <<>>
      BY <1>4, <3>2 DEF Open, IndexedBy, Last
    <3>3. QED
      BY <3>1, <3>2
  <2>2. CoveringIn(T, n) = {}
    BY <1>1, <1>3, <2>1 DEF CoveringIn
  <2>3. QED
    BY <2>2 DEF Answer
<1>5. ASSUME Open(T)
      PROVE  /\ Last(T) \in TenureRecords /\ TenureBy(Last(T), n)
             /\ Answer(T, n) = TenureAnswer(Last(T), n)
  <2>1. Len(T) \in 1..Len(T) /\ Last(T) = T[Len(T)]
    BY <1>1, <1>5 DEF Open, Last
  <2>2. Last(T) \in TenureRecords /\ TenureBy(Last(T), n)
    BY <1>2, <2>1 DEF IndexedBy
  <2>3. TenureCovers(Last(T), n)
    BY <1>5, <2>2 DEF TenureBy, TenureCovers, Open
  <2>4. CoveringIn(T, n) = {Len(T)}
    <3>1. \A i \in 1..Len(T) : i # Len(T) => ~TenureCovers(T[i], n)
      BY <1>3 DEF IndexedBy
    <3>2. QED
      BY <1>1, <2>1, <2>3, <3>1 DEF CoveringIn
  <2>5. (CHOOSE i \in CoveringIn(T, n) : \A j \in CoveringIn(T, n) : i <= j) = Len(T)
    <3>1. Len(T) <= Len(T)
      BY <1>1
    <3>2. QED
      BY <2>4, <3>1
  <2>6. CoveringIn(T, n) # {}
    BY <2>4
  <2>7. QED
    BY <2>1, <2>2, <2>5, <2>6 DEF Answer
<1>6. QED
  BY <1>4, <1>5

(***************************************************************************)
(* The chain state of every seq, and since when someone is a member.       *)
(***************************************************************************)

SnapshotRecords ==
    [members : UNION {[U -> MemberStates] : U \in SUBSET Users},
     devices : SUBSET DeviceRecords,
     environments : UNION {[E -> EnvironmentStates] : E \in SUBSET Envs},
     serverGrants : UNION {[K -> Grants] : K \in SUBSET EncKeys}]

\* Every seq up to the head has its state, with unique keys, all held by members.
SnapshotInvariant ==
    /\ headSeq \in Nat \ {0}
    /\ snapshots \in Seq(SnapshotRecords)
    /\ Len(snapshots) = headSeq
    /\ snapshots[headSeq] = Snapshot
    /\ \A s \in 1..headSeq :
          /\ \A c, d \in snapshots[s].devices : c.enc = d.enc => c = d
          /\ \A d \in snapshots[s].devices : d.user \in DOMAIN snapshots[s].members

\* The head moves on by one entry.
Advances == headSeq' = headSeq + 1 /\ snapshots' = Append(snapshots, Snapshot')

MemberFrom(a, u, s) ==
    /\ a \in 1..s
    /\ \A b \in a..s : u \in DOMAIN snapshots[b].members
    /\ a = 1 \/ u \notin DOMAIN snapshots[a - 1].members

\* A new entry adds the state it leaves and changes no earlier one.
LEMMA SnapshotsGrow ==
    ASSUME SnapshotInvariant, Advances
    PROVE  /\ \A s \in 1..headSeq : snapshots'[s] = snapshots[s]
           /\ snapshots'[headSeq + 1] = Snapshot'
           /\ Len(snapshots') = headSeq + 1
BY Appending DEF SnapshotInvariant, Advances

\* Somebody who stays a member is one since the same seq.
LEMMA MembershipGoesOn ==
    ASSUME SnapshotInvariant, Advances, NEW u, NEW a, MemberFrom(a, u, headSeq),
           u \in DOMAIN members'
    PROVE  MemberFrom(a, u, headSeq)'
<1>1. a \in 1..headSeq + 1 /\ a - 1 \in 0..headSeq /\ headSeq \in Nat /\ a \in Nat
  BY DEF MemberFrom, SnapshotInvariant
<1>2. \A b \in a..headSeq + 1 : (b \in 1..headSeq /\ b \in a..headSeq) \/ b = headSeq + 1
  BY <1>1
<1>3. \A b \in a..headSeq + 1 : u \in DOMAIN snapshots'[b].members
  BY <1>2, SnapshotsGrow DEF MemberFrom, Snapshot
<1>4. a = 1 \/ u \notin DOMAIN snapshots'[a - 1].members
  <2>1. a = 1 \/ a - 1 \in 1..headSeq
    BY <1>1
  <2>2. QED
    BY <2>1, SnapshotsGrow DEF MemberFrom
<1>5. QED
  BY <1>1, <1>3, <1>4 DEF MemberFrom, Advances

\* Somebody who was none becomes a member with the new entry.
LEMMA MembershipBegins ==
    ASSUME SnapshotInvariant, Advances, NEW u, u \notin DOMAIN members, u \in DOMAIN members',
           NEW a, a = headSeq + 1
    PROVE  MemberFrom(a, u, headSeq)'
<1>1. headSeq \in Nat \ {0} /\ a \in 1..a /\ a - 1 = headSeq /\ headSeq \in 1..headSeq
  BY DEF SnapshotInvariant
<1>2. snapshots'[a - 1].members = members
  BY <1>1, SnapshotsGrow DEF SnapshotInvariant, Snapshot
<1>3. \A b \in a..a : b = a
  BY <1>1
<1>4. snapshots'[a].members = members'
  BY SnapshotsGrow DEF Snapshot
<1>5. QED
  BY <1>1, <1>2, <1>3, <1>4 DEF MemberFrom, Advances

\* There is only one such seq.
LEMMA MembershipSince ==
    ASSUME NEW u, NEW s \in Nat, NEW a, MemberFrom(a, u, s)
    PROVE  MemberSince(u, s) = a
<1>1. ASSUME NEW b, MemberFrom(b, u, s) PROVE a = b
  <2>1. a \in 1..s /\ b \in 1..s
    BY <1>1 DEF MemberFrom
  <2>2. CASE a < b
    <3>1. b - 1 \in a..s /\ b # 1
      BY <2>1, <2>2
    <3>2. QED
      BY <1>1, <3>1 DEF MemberFrom
  <2>3. CASE b < a
    <3>1. a - 1 \in b..s /\ a # 1
      BY <2>1, <2>3
    <3>2. QED
      BY <1>1, <3>1 DEF MemberFrom
  <2>4. QED
    BY <2>1, <2>2, <2>3
<1>2. \A b \in 1..s : (/\ \A k \in b..s : u \in DOMAIN snapshots[k].members
                       /\ b = 1 \/ u \notin DOMAIN snapshots[b - 1].members)
                      <=> MemberFrom(b, u, s)
  BY DEF MemberFrom
<1>3. a \in 1..s
  BY DEF MemberFrom
<1>4. QED
  BY <1>1, <1>2, <1>3 DEF MemberSince

(***************************************************************************)
(* People.  What the index has of a person, and how an entry changes it.   *)
(***************************************************************************)

\* The tenures of a person are those the chain states show.
PersonIndexed(u) ==
    /\ IndexedBy(TenuresOf(u), headSeq)
    /\ u \in DOMAIN members <=> Open(TenuresOf(u))
    /\ u \in DOMAIN members =>
          /\ ShowsMember(Last(TenuresOf(u)), members[u], DevicesOf(u))
          /\ MemberFrom(Last(TenuresOf(u)).start, u, headSeq)

PersonPastKept(u) ==
    \A s \in 1..headSeq : MemberStateAt(u, s)' = MemberStateAt(u, s)

\* The head moves on, and the index has this person still.
PersonStep(u) == PersonIndexed(u)' /\ PersonPastKept(u)

\* The first position and the last one of a sequence with more in it.
LEMMA LastReplaced ==
    ASSUME NEW S, NEW T \in Seq(S), T # <<>>, NEW t \in S
    PROVE  /\ WithLast(T, t) \in Seq(S) /\ Len(WithLast(T, t)) = Len(T)
           /\ WithLast(T, t) # <<>> /\ Last(WithLast(T, t)) = t
           /\ Last(T) = T[Len(T)] /\ Last(T) \in S
           /\ \A i \in 1..Len(T) : WithLast(T, t)[i] = IF i = Len(T) THEN t ELSE T[i]
<1>1. Len(T) \in 1..Len(T) /\ DOMAIN T = 1..Len(T) /\ Len(T) \in Nat
  OBVIOUS
<1>2. PICK after : after = WithLast(T, t) /\ after = [T EXCEPT ![Len(T)] = t]
  BY DEF WithLast
<1>3. \A i \in 1..Len(T) : after[i] = IF i = Len(T) THEN t ELSE T[i]
  BY <1>1, <1>2
<1>4. after = [i \in 1..Len(T) |-> after[i]]
  BY <1>1, <1>2
<1>5. \A i \in 1..Len(T) : after[i] \in S
  BY <1>3
<1>6. after \in Seq(S) /\ Len(after) = Len(T)
  BY <1>1, <1>4, <1>5
<1>7. after # <<>>
  BY <1>1, <1>6
<1>8. QED
  BY <1>1, <1>2, <1>3, <1>6, <1>7 DEF Last

\* An entry that has nothing to do with the person.
LEMMA PersonUntouched ==
    ASSUME SnapshotInvariant, Advances, NEW u, PersonIndexed(u),
           TenuresOf(u)' = TenuresOf(u),
           u \in DOMAIN members' <=> u \in DOMAIN members,
           u \in DOMAIN members => members'[u] = members[u] /\ DevicesOf(u)' = DevicesOf(u)
    PROVE  PersonStep(u)
<1>1. headSeq \in Nat /\ headSeq' = headSeq + 1
  BY DEF SnapshotInvariant, Advances
<1>2. PICK T : T = TenuresOf(u)
  OBVIOUS
<1>3. IndexedBy(T, headSeq)
  BY <1>2 DEF PersonIndexed
<1>4. IndexedBy(T, headSeq + 1)
  <2>1. \A i \in 1..Len(T) : T[i] \in TenureRecords
    BY <1>3 DEF IndexedBy
  <2>2. \A i \in 1..Len(T) : TenureBy(T[i], headSeq + 1)
    BY <1>1, <1>3, <2>1, TenureByLater DEF IndexedBy
  <2>3. QED
    BY <1>3, <2>2 DEF IndexedBy
<1>5. ASSUME u \in DOMAIN members
      PROVE  /\ ShowsMember(Last(T), members'[u], DevicesOf(u)')
             /\ MemberFrom(Last(T).start, u, headSeq)'
  <2>1. PICK a : a = Last(T).start
    OBVIOUS
  <2>2. MemberFrom(a, u, headSeq)
    BY <1>2, <1>5, <2>1 DEF PersonIndexed
  <2>3. MemberFrom(a, u, headSeq)'
    BY <1>5, <2>2, MembershipGoesOn
  <2>4. QED
    BY <1>2, <1>5, <2>1, <2>3 DEF PersonIndexed
<1>6. PersonIndexed(u)'
  BY <1>1, <1>2, <1>4, <1>5 DEF PersonIndexed
<1>7. PersonPastKept(u)
  <2>1. ASSUME NEW s \in 1..headSeq PROVE MemberStateAt(u, s)' = MemberStateAt(u, s)
    <3>1. MemberStateAt(u, s) = Answer(T, s)
      BY <1>2, QueryAnswers
    <3>2. MemberStateAt(u, s)' = Answer(TenuresOf(u)', s)
      BY DEF MemberStateAt, Answer, TenureIndexesAt, CoveringIn, TenureAt, TenureAnswer, ActiveIn,
         TenuresOf
    <3>3. QED
      BY <1>2, <3>1, <3>2
  <2>2. QED
    BY <2>1 DEF PersonPastKept
<1>8. QED
  BY <1>6, <1>7 DEF PersonStep

\* An entry that changes the open tenure of a member, or ends it.
LEMMA PersonChanged ==
    ASSUME SnapshotInvariant, Advances, NEW u \in DOMAIN members, PersonIndexed(u),
           NEW after \in TenureRecords,
           TenuresOf(u)' = WithLast(TenuresOf(u), after),
           TenureBy(after, headSeq + 1),
           after.start = Last(TenuresOf(u)).start,
           TenureKept(Last(TenuresOf(u)), after, headSeq),
           \/ after.end # 0 /\ u \notin DOMAIN members'
           \/ /\ after.end = 0 /\ u \in DOMAIN members'
              /\ ShowsMember(after, members'[u], DevicesOf(u)')
    PROVE  PersonStep(u)
<1>1. headSeq \in Nat /\ headSeq' = headSeq + 1
  BY DEF SnapshotInvariant, Advances
<1>2. PICK T, new : T = TenuresOf(u) /\ new = WithLast(T, after)
  OBVIOUS
<1>3. IndexedBy(T, headSeq) /\ Open(T) /\ T # <<>> /\ T \in Seq(TenureRecords)
  BY <1>2 DEF PersonIndexed, Open, IndexedBy
<1>4. /\ new \in Seq(TenureRecords) /\ Len(new) = Len(T) /\ new # <<>> /\ Last(new) = after
      /\ \A i \in 1..Len(T) : new[i] = IF i = Len(T) THEN after ELSE T[i]
  <2>1. T # <<>> /\ T \in Seq(TenureRecords)
    BY <1>3
  <2>2. /\ WithLast(T, after) \in Seq(TenureRecords) /\ Len(WithLast(T, after)) = Len(T)
        /\ WithLast(T, after) # <<>> /\ Last(WithLast(T, after)) = after
        /\ \A i \in 1..Len(T) : WithLast(T, after)[i] = IF i = Len(T) THEN after ELSE T[i]
    BY <2>1, LastReplaced
  <2>3. QED
    BY <1>2, <2>2
<1>5. IndexedBy(new, headSeq + 1)
  <2>1. \A i \in 1..Len(T) : T[i] \in TenureRecords
    BY <1>3
  <2>2. \A i \in 1..Len(T) : TenureBy(T[i], headSeq + 1)
    BY <1>1, <1>3, <2>1, TenureByLater DEF IndexedBy
  <2>3. \A i \in 1..Len(T) : TenureBy(new[i], headSeq + 1)
    BY <1>4, <2>2
  <2>4. \A i \in 1..Len(T) : i # Len(T) => new[i].end # 0
    BY <1>3, <1>4 DEF IndexedBy
  <2>5. QED
    BY <1>4, <2>3, <2>4 DEF IndexedBy
<1>6. TenuresOf(u)' = new
  BY <1>2
<1>7. ASSUME u \in DOMAIN members'
      PROVE  /\ ShowsMember(Last(new), members'[u], DevicesOf(u)')
             /\ MemberFrom(Last(new).start, u, headSeq)'
  <2>1. PICK a : a = after.start
    OBVIOUS
  <2>2. MemberFrom(a, u, headSeq)
    BY <1>2, <2>1 DEF PersonIndexed
  <2>3. MemberFrom(a, u, headSeq)'
    BY <1>7, <2>2, MembershipGoesOn
  <2>4. QED
    BY <1>4, <1>7, <2>1, <2>3
<1>8. u \in DOMAIN members' <=> Open(new)
  BY <1>4 DEF Open
<1>9. PersonIndexed(u)'
  BY <1>1, <1>5, <1>6, <1>7, <1>8 DEF PersonIndexed
<1>10. PersonPastKept(u)
  <2>1. ASSUME NEW s \in 1..headSeq PROVE MemberStateAt(u, s)' = MemberStateAt(u, s)
    <3>1. MemberStateAt(u, s) = Answer(T, s)
      BY <1>2, QueryAnswers
    <3>2. MemberStateAt(u, s)' = Answer(TenuresOf(u)', s)
      BY DEF MemberStateAt, Answer, TenureIndexesAt, CoveringIn, TenureAt, TenureAnswer, ActiveIn,
         TenuresOf
    <3>3. s \in Nat /\ s <= headSeq
      BY <1>1
    <3>4. TenureKept(Last(T), after, headSeq)
      BY <1>2
    <3>5. Answer(new, s) = Answer(T, s)
      <4>1. T # <<>> /\ TenureKept(Last(T), after, headSeq) /\ T \in Seq(TenureRecords)
        BY <1>3, <3>4
      <4>2. Answer(WithLast(T, after), s) = Answer(T, s)
        BY <1>1, <3>3, <4>1, ChangedTenureKeepsAnswers
      <4>3. QED
        BY <1>2, <4>2
    <3>6. QED
      BY <1>6, <3>1, <3>2, <3>5
  <2>2. QED
    BY <2>1 DEF PersonPastKept
<1>11. QED
  BY <1>9, <1>10 DEF PersonStep

\* An entry that makes somebody a member.
LEMMA PersonEntered ==
    ASSUME SnapshotInvariant, Advances, NEW u, u \notin DOMAIN members, PersonIndexed(u),
           NEW t \in TenureRecords, t.start = headSeq + 1, t.end = 0, TenureBy(t, headSeq + 1),
           TenuresOf(u)' = Append(TenuresOf(u), t),
           u \in DOMAIN members', ShowsMember(t, members'[u], DevicesOf(u)')
    PROVE  PersonStep(u)
<1>1. headSeq \in Nat /\ headSeq' = headSeq + 1
  BY DEF SnapshotInvariant, Advances
<1>2. PICK T, new : T = TenuresOf(u) /\ new = Append(T, t)
  OBVIOUS
<1>3. IndexedBy(T, headSeq) /\ ~Open(T) /\ T \in Seq(TenureRecords)
  BY <1>2 DEF PersonIndexed, IndexedBy
<1>4. /\ new \in Seq(TenureRecords) /\ Len(new) = Len(T) + 1 /\ Len(T) \in Nat /\ Last(new) = t
      /\ \A i \in 1..Len(T) : new[i] = T[i]
      /\ new[Len(T) + 1] = t
  BY <1>2, <1>3, Appending
<1>5. \A i \in 1..Len(T) + 1 : i \in 1..Len(T) \/ i = Len(T) + 1
  BY <1>4
<1>6. \A i \in 1..Len(T) : T[i].end # 0
  <2>1. CASE T = <<>>
    BY <2>1
  <2>2. CASE T # <<>>
    BY <1>3, <2>2 DEF Open, IndexedBy, Last
  <2>3. QED
    BY <2>1, <2>2
<1>7. IndexedBy(new, headSeq + 1)
  <2>1. \A i \in 1..Len(T) : T[i] \in TenureRecords
    BY <1>3
  <2>2. \A i \in 1..Len(T) : TenureBy(T[i], headSeq + 1)
    BY <1>1, <1>3, <2>1, TenureByLater DEF IndexedBy
  <2>3. \A i \in 1..Len(new) : TenureBy(new[i], headSeq + 1)
    BY <1>4, <1>5, <2>2
  <2>4. \A i \in 1..Len(new) : i # Len(new) => new[i].end # 0
    BY <1>4, <1>5, <1>6
  <2>5. QED
    BY <1>4, <2>3, <2>4 DEF IndexedBy
<1>8. TenuresOf(u)' = new
  BY <1>2
<1>9. new # <<>>
  BY <1>4
<1>10. MemberFrom(Last(new).start, u, headSeq)'
  <2>1. PICK a : a = headSeq + 1
    OBVIOUS
  <2>2. MemberFrom(a, u, headSeq)'
    BY <2>1, MembershipBegins
  <2>3. QED
    BY <1>4, <2>1, <2>2
<1>11. PersonIndexed(u)'
  BY <1>1, <1>4, <1>7, <1>8, <1>9, <1>10 DEF PersonIndexed, Open
<1>12. PersonPastKept(u)
  <2>1. ASSUME NEW s \in 1..headSeq PROVE MemberStateAt(u, s)' = MemberStateAt(u, s)
    <3>1. MemberStateAt(u, s) = Answer(T, s)
      BY <1>2, QueryAnswers
    <3>2. MemberStateAt(u, s)' = Answer(TenuresOf(u)', s)
      BY DEF MemberStateAt, Answer, TenureIndexesAt, CoveringIn, TenureAt, TenureAnswer, ActiveIn,
         TenuresOf
    <3>3. s \in Nat /\ s <= headSeq
      BY <1>1
    <3>4. Answer(new, s) = Answer(T, s)
      <4>1. t.start = headSeq + 1 /\ T \in Seq(TenureRecords)
        BY <1>3
      <4>2. Answer(Append(T, t), s) = Answer(T, s)
        BY <1>1, <3>3, <4>1, NewTenureKeepsAnswers
      <4>3. QED
        BY <1>2, <4>2
    <3>5. QED
      BY <1>8, <3>1, <3>2, <3>4
  <2>2. QED
    BY <2>1 DEF PersonPastKept
<1>13. QED
  BY <1>11, <1>12 DEF PersonStep

(***************************************************************************)
(* People.  What each operation records.                                   *)
(***************************************************************************)

PeopleIndexed == \A u \in Users : PersonIndexed(u)

\* The open tenure of a member, and what it shows.
LEMMA MemberTenure ==
    ASSUME headSeq \in Nat, NEW u \in DOMAIN members, PersonIndexed(u)
    PROVE  LET t == Last(TenuresOf(u))
           IN  /\ HasOpenTenure(u) /\ u \in DOMAIN tenures /\ TenuresOf(u) = tenures[u]
               /\ t \in TenureRecords /\ TenureBy(t, headSeq) /\ t.end = 0
               /\ ShowsMember(t, members[u], DevicesOf(u))
<1>1. IndexedBy(TenuresOf(u), headSeq) /\ Open(TenuresOf(u))
  BY DEF PersonIndexed
<1>2. Last(TenuresOf(u)) \in TenureRecords /\ TenureBy(Last(TenuresOf(u)), headSeq)
  BY <1>1, AnswerNow
<1>3. HasOpenTenure(u) /\ u \in DOMAIN tenures /\ TenuresOf(u) = tenures[u]
  BY <1>1 DEF Open, HasOpenTenure, TenuresOf
<1>4. QED
  BY <1>1, <1>2, <1>3 DEF PersonIndexed, Open

\* Nothing is recorded of people.
LEMMA PeopleLeftAlone ==
    ASSUME SnapshotInvariant, Advances, PeopleIndexed, UNCHANGED <<members, devices, tenures>>
    PROVE  \A u \in Users : PersonStep(u)
<1>1. TAKE u \in Users
<1>2. /\ PersonIndexed(u) /\ TenuresOf(u)' = TenuresOf(u) /\ members' = members
      /\ DevicesOf(u)' = DevicesOf(u)
  BY DEF PeopleIndexed, TenuresOf, DevicesOf
<1>3. QED
  BY <1>2, PersonUntouched

\* One open tenure changes; nothing is recorded of the others.
LEMMA OneTenureChanged ==
    ASSUME SnapshotInvariant, Advances, PeopleIndexed,
           NEW u \in DOMAIN members, u \in Users, NEW after \in TenureRecords,
           tenures' = WithOpenTenure(u, after),
           TenureBy(after, headSeq + 1),
           ChangesAfter(Last(TenuresOf(u)), after, headSeq),
           \/ after.end # 0 /\ u \notin DOMAIN members'
           \/ /\ after.end = 0 /\ u \in DOMAIN members'
              /\ ShowsMember(after, members'[u], DevicesOf(u)'),
           \A x \in Users : x # u =>
              /\ x \in DOMAIN members' <=> x \in DOMAIN members
              /\ x \in DOMAIN members =>
                    members'[x] = members[x] /\ DevicesOf(x)' = DevicesOf(x)
    PROVE  \A x \in Users : PersonStep(x)
<1>1. headSeq \in Nat
  BY DEF SnapshotInvariant
<1>2. PersonIndexed(u)
  BY DEF PeopleIndexed
<1>3. /\ Last(TenuresOf(u)) \in TenureRecords /\ TenureBy(Last(TenuresOf(u)), headSeq)
      /\ u \in DOMAIN tenures /\ TenuresOf(u) = tenures[u]
  BY <1>1, <1>2, MemberTenure
<1>4. TenuresOf(u)' = WithLast(TenuresOf(u), after)
  BY <1>3 DEF WithOpenTenure, WithLast, TenuresOf
<1>5. TenureKept(Last(TenuresOf(u)), after, headSeq)
  BY <1>1, <1>3, TenureStaysTrue
<1>6. after.start = Last(TenuresOf(u)).start
  BY DEF ChangesAfter
<1>7. PersonStep(u)
  BY <1>2, <1>4, <1>5, <1>6, PersonChanged
<1>8. ASSUME NEW x \in Users, x # u PROVE PersonStep(x)
  <2>1. PersonIndexed(x)
    BY DEF PeopleIndexed
  <2>2. TenuresOf(x)' = TenuresOf(x)
    BY <1>8 DEF WithOpenTenure, TenuresOf
  <2>3. /\ x \in DOMAIN members' <=> x \in DOMAIN members
        /\ x \in DOMAIN members => members'[x] = members[x] /\ DevicesOf(x)' = DevicesOf(x)
    BY <1>8
  <2>4. QED
    BY <2>1, <2>2, <2>3, PersonUntouched
<1>9. QED
  BY <1>7, <1>8

\* A device of which nothing is recorded answers the same.
LEMMA SameDevicesKept ==
    ASSUME NEW held, NEW h
    PROVE  \A i \in DOMAIN held : DeviceKept(held[i], held[i], h)
BY DEF DeviceKept

\* remove_member ends the tenure.
LEMMA TenureEnds ==
    ASSUME SnapshotInvariant, Advances, PeopleIndexed, TypeOK,
           NEW op, op.target \in DOMAIN members, op.target \in Users,
           ApplyRemoveMember(op), RecordTenureEnd(op.target, headSeq + 1)
    PROVE  \A u \in Users : PersonStep(u)
<1>1. headSeq \in Nat
  BY DEF SnapshotInvariant
<1>2. PICK u : u = op.target
  OBVIOUS
<1>3. PersonIndexed(u) /\ u \in DOMAIN members /\ u \in Users
  BY <1>2 DEF PeopleIndexed
<1>4. PICK t : t = Last(TenuresOf(u))
  OBVIOUS
<1>5. /\ HasOpenTenure(u) /\ TenuresOf(u) = tenures[u]
      /\ t \in TenureRecords /\ TenureBy(t, headSeq) /\ t.end = 0
  BY <1>1, <1>3, <1>4, MemberTenure
<1>6. PICK after : after = [t EXCEPT !.end = headSeq + 1]
  OBVIOUS
<1>7. /\ after \in TenureRecords /\ after.start = t.start /\ after.end = headSeq + 1
      /\ after.spans = t.spans /\ after.devices = t.devices
  BY <1>1, <1>5, <1>6 DEF TenureRecords
<1>8. TenureBy(after, headSeq + 1)
  <2>1. TenureBy(t, headSeq + 1)
    BY <1>1, <1>5, TenureByLater
  <2>2. QED
    BY <1>1, <1>7, <2>1 DEF TenureBy
<1>9. ChangesAfter(t, after, headSeq)
  BY <1>5, <1>7, SameDevicesKept DEF ChangesAfter
<1>10. tenures' = WithOpenTenure(u, after)
  BY <1>2, <1>4, <1>5, <1>6 DEF RecordTenureEnd
<1>11. after.end # 0
  BY <1>1, <1>7
<1>12. u \notin DOMAIN members'
  BY <1>2 DEF ApplyRemoveMember, WithoutKey
<1>13. \A x \in Users : x # u =>
          /\ x \in DOMAIN members' <=> x \in DOMAIN members
          /\ x \in DOMAIN members => members'[x] = members[x] /\ DevicesOf(x)' = DevicesOf(x)
  BY <1>2 DEF ApplyRemoveMember, WithoutKey, DropDevices, DevicesOf
<1>14. QED
  BY <1>3, <1>4, <1>7, <1>8, <1>9, <1>10, <1>11, <1>12, <1>13, OneTenureChanged

\* change_role adds a span to the open tenure.
LEMMA SpanBegins ==
    ASSUME SnapshotInvariant, Advances, PeopleIndexed, TypeOK,
           NEW op, op.target \in DOMAIN members, op.target \in Users,
           op.role \in Roles, op.scope \in Scopes,
           ApplyChangeRole(op), RecordRoleChange(op, headSeq + 1)
    PROVE  \A u \in Users : PersonStep(u)
<1>1. headSeq \in Nat /\ headSeq + 1 \in Nat
  BY DEF SnapshotInvariant
<1>2. PICK u : u = op.target
  OBVIOUS
<1>3. PersonIndexed(u) /\ u \in DOMAIN members /\ u \in Users
  BY <1>2 DEF PeopleIndexed
<1>4. PICK t, x : /\ t = Last(TenuresOf(u))
                  /\ x = [from |-> headSeq + 1, role |-> op.role, scope |-> op.scope]
  OBVIOUS
<1>5. /\ HasOpenTenure(u) /\ TenuresOf(u) = tenures[u]
      /\ t \in TenureRecords /\ TenureBy(t, headSeq) /\ t.end = 0
      /\ ShowsMember(t, members[u], DevicesOf(u))
  BY <1>1, <1>3, <1>4, MemberTenure
<1>6. x \in Spans /\ x.from = headSeq + 1 /\ x.role = op.role /\ x.scope = op.scope
  BY <1>1, <1>4 DEF Spans
<1>7. PICK after : after = [t EXCEPT !.spans = Append(@, x)]
  OBVIOUS
<1>8. /\ after.start = t.start /\ after.end = 0
      /\ after.spans = Append(t.spans, x) /\ after.devices = t.devices
  BY <1>5, <1>7 DEF TenureRecords
<1>9. PICK spans : spans = t.spans
  OBVIOUS
<1>10. spans \in Seq(Spans) /\ Len(spans) \in Nat
  BY <1>5, <1>9, TenureShape
<1>11. /\ Append(spans, x) \in Seq(Spans) /\ Len(Append(spans, x)) = Len(spans) + 1
       /\ \A i \in 1..Len(spans) : Append(spans, x)[i] = spans[i]
       /\ Append(spans, x)[Len(spans) + 1] = x /\ Last(Append(spans, x)) = x
  BY <1>6, <1>10, Appending
<1>12. after \in TenureRecords
  BY <1>5, <1>7, <1>9, <1>11 DEF TenureRecords
<1>13. TenureBy(after, headSeq + 1)
  <2>1. TenureBy(t, headSeq + 1)
    BY <1>1, <1>5, TenureByLater
  <2>2. \A i \in 1..Len(spans) + 1 : i \in 1..Len(spans) \/ i = Len(spans) + 1
    BY <1>10
  <2>3. \A i \in 1..Len(Append(spans, x)) : Append(spans, x)[i].from <= headSeq + 1
    BY <1>1, <1>6, <1>9, <1>11, <2>1, <2>2 DEF TenureBy
  <2>4. 1 \in 1..Len(spans) /\ Append(spans, x) # <<>>
    <3>1. spans # <<>>
      BY <1>5, <1>9 DEF TenureBy
    <3>2. QED
      BY <1>10, <1>11, <3>1
  <2>5. QED
    BY <1>1, <1>8, <1>9, <1>11, <2>1, <2>3, <2>4 DEF TenureBy
<1>14. ChangesAfter(t, after, headSeq)
  BY <1>5, <1>6, <1>8, SameDevicesKept DEF ChangesAfter
<1>15. tenures' = WithOpenTenure(u, after)
  BY <1>2, <1>4, <1>5, <1>7 DEF RecordRoleChange
<1>16. /\ u \in DOMAIN members' /\ members'[u] = [role |-> op.role, scope |-> op.scope]
       /\ devices' = devices
  BY <1>2 DEF ApplyChangeRole, WithKey
<1>17. ShowsMember(after, members'[u], DevicesOf(u)')
  <2>1. DevicesOf(u)' = DevicesOf(u)
    BY <1>16 DEF DevicesOf
  <2>2. QED
    BY <1>5, <1>6, <1>8, <1>9, <1>11, <1>16, <2>1 DEF ShowsMember
<1>18. \A y \in Users : y # u =>
          /\ y \in DOMAIN members' <=> y \in DOMAIN members
          /\ y \in DOMAIN members => members'[y] = members[y] /\ DevicesOf(y)' = DevicesOf(y)
  BY <1>2 DEF ApplyChangeRole, WithKey, DevicesOf
<1>19. QED
  BY <1>3, <1>4, <1>8, <1>12, <1>13, <1>14, <1>15, <1>16, <1>17, <1>18, OneTenureChanged

\* A device just added is shown as it is.
LEMMA NewDeviceShape ==
    ASSUME NEW x \in DeviceRecords, NEW n \in Nat, x.addedSeq <= n
    PROVE  /\ NewDeviceRecord(x) \in IndexedDevices /\ DeviceBy(NewDeviceRecord(x), n)
           /\ CurrentDevice(NewDeviceRecord(x)) = x /\ NewDeviceRecord(x).revoked = 0
           /\ NewDeviceRecord(x).device = x
<1>1. PICK r : r = [device |-> x, revoked |-> 0, capChanges |-> <<>>]
  OBVIOUS
<1>2. r.device = x /\ r.revoked = 0 /\ r.capChanges = <<>>
  BY <1>1
<1>3. <<>> \in Seq(CapChanges) /\ Len(<<>>) = 0
  OBVIOUS
<1>4. r \in IndexedDevices
  BY <1>1, <1>3 DEF IndexedDevices
<1>5. \A i \in 1..Len(r.capChanges) : FALSE
  BY <1>2, <1>3
<1>6. DeviceBy(r, n)
  BY <1>2, <1>5 DEF DeviceBy
<1>7. QED
  BY <1>1, <1>2, <1>4, <1>6 DEF NewDeviceRecord, CurrentDevice

\* add_device adds the device to the open tenure.
LEMMA DeviceJoins ==
    ASSUME SnapshotInvariant, Advances, PeopleIndexed, TypeOK, KeyInvariant,
           NEW op, NEW d \in devices, d.user \in DOMAIN members, d.user \in Users,
           op.enc \in EncKeys, op.sig \in SigKeys, op.roleCap \in Roles, op.scope \in Scopes,
           op.enc \notin memberEncPubs,
           ApplyAddDevice(op, d, headSeq + 1), RecordDeviceAdded(d.user, op.enc)
    PROVE  \A u \in Users : PersonStep(u)
<1>1. headSeq \in Nat /\ headSeq + 1 \in Nat
  BY DEF SnapshotInvariant
<1>2. PICK u, x : /\ u = d.user
                  /\ x = [user |-> u, enc |-> op.enc, sig |-> op.sig, roleCap |-> op.roleCap,
                          scope |-> op.scope, addedSeq |-> headSeq + 1]
  OBVIOUS
<1>3. PersonIndexed(u) /\ u \in DOMAIN members /\ u \in Users
  BY <1>2 DEF PeopleIndexed
<1>4. PICK t, r : t = Last(TenuresOf(u)) /\ r = NewDeviceRecord(x)
  OBVIOUS
<1>5. /\ HasOpenTenure(u) /\ TenuresOf(u) = tenures[u]
      /\ t \in TenureRecords /\ TenureBy(t, headSeq) /\ t.end = 0
      /\ ShowsMember(t, members[u], DevicesOf(u))
  BY <1>1, <1>3, <1>4, MemberTenure
<1>6. /\ x \in DeviceRecords /\ x.user = u /\ x.enc = op.enc /\ x.addedSeq = headSeq + 1
  BY <1>1, <1>2, <1>3 DEF DeviceRecords
<1>7. /\ r \in IndexedDevices /\ DeviceBy(r, headSeq + 1) /\ CurrentDevice(r) = x
      /\ r.revoked = 0 /\ r.device = x
  <2>1. x.addedSeq <= headSeq + 1
    BY <1>1, <1>6
  <2>2. QED
    BY <1>1, <1>4, <1>6, <2>1, NewDeviceShape
<1>8. devices' = devices \cup {x} /\ members' = members
  BY <1>2 DEF ApplyAddDevice
<1>9. {y \in devices' : y.user = u /\ y.enc = op.enc} = {x}
  <2>1. \A y \in devices : y.enc # op.enc
    BY DEF KeyInvariant, KeySubjectsUnique
  <2>2. QED
    BY <1>6, <1>8, <2>1
<1>10. PICK after : after = [t EXCEPT !.devices = Append(@, r)]
  OBVIOUS
<1>11. /\ after.start = t.start /\ after.end = 0
       /\ after.spans = t.spans /\ after.devices = Append(t.devices, r)
  BY <1>5, <1>10 DEF TenureRecords
<1>12. PICK held, more : held = t.devices /\ more = Append(held, r)
  OBVIOUS
<1>13. held \in Seq(IndexedDevices) /\ Len(held) \in Nat /\ DOMAIN held = 1..Len(held)
  BY <1>5, <1>12, TenureShape
<1>14. /\ more \in Seq(IndexedDevices) /\ Len(more) = Len(held) + 1 /\ DOMAIN more = 1..Len(held) + 1
       /\ \A i \in 1..Len(held) : more[i] = held[i]
       /\ more[Len(held) + 1] = r
  BY <1>7, <1>12, <1>13, Appending
<1>15. \A i \in 1..Len(held) + 1 : i \in 1..Len(held) \/ i = Len(held) + 1
  BY <1>13
<1>16. after \in TenureRecords
  BY <1>5, <1>10, <1>12, <1>14 DEF TenureRecords
<1>17. TenureBy(after, headSeq + 1)
  <2>1. TenureBy(t, headSeq + 1)
    BY <1>1, <1>5, TenureByLater
  <2>2. \A i \in 1..Len(more) : DeviceBy(more[i], headSeq + 1)
    BY <1>7, <1>12, <1>14, <1>15, <2>1 DEF TenureBy
  <2>3. after.end <= headSeq + 1
    BY <1>1, <1>11
  <2>4. QED
    BY <1>11, <1>12, <2>1, <2>2, <2>3 DEF TenureBy
<1>18. ChangesAfter(t, after, headSeq)
  BY <1>5, <1>6, <1>7, <1>11 DEF ChangesAfter
<1>19. tenures' = WithOpenTenure(u, after)
  <2>1. (CHOOSE y \in {z \in devices' : z.user = u /\ z.enc = op.enc} : TRUE) = x
    BY <1>9
  <2>2. QED
    BY <1>2, <1>4, <1>5, <1>9, <1>10, <2>1 DEF RecordDeviceAdded
<1>20. DevicesOf(u)' = DevicesOf(u) \cup {x}
  BY <1>6, <1>8 DEF DevicesOf
<1>21. ShowsMember(after, members'[u], DevicesOf(u)')
  <2>1. {CurrentDevice(more[i]) : i \in {j \in DOMAIN more : more[j].revoked = 0}}
           = {CurrentDevice(held[i]) : i \in {j \in DOMAIN held : held[j].revoked = 0}} \cup {x}
    <3>1. \A i \in 1..Len(held) : i \in 1..Len(held) + 1
      BY <1>13
    <3>2. Len(held) + 1 \in 1..Len(held) + 1
      BY <1>13
    <3>3. {j \in DOMAIN more : more[j].revoked = 0}
             = {j \in DOMAIN held : held[j].revoked = 0} \cup {Len(held) + 1}
      BY <1>7, <1>13, <1>14, <1>15, <3>1, <3>2
    <3>4. \A i \in DOMAIN held : CurrentDevice(more[i]) = CurrentDevice(held[i])
      BY <1>13, <1>14
    <3>5. CurrentDevice(more[Len(held) + 1]) = x
      BY <1>7, <1>14
    <3>6. QED
      BY <3>3, <3>4, <3>5
  <2>2. {CurrentDevice(held[i]) : i \in {j \in DOMAIN held : held[j].revoked = 0}} = DevicesOf(u)
    BY <1>5, <1>12 DEF ShowsMember
  <2>3. {CurrentDevice(after.devices[i]) :
            i \in {j \in DOMAIN after.devices : after.devices[j].revoked = 0}} = DevicesOf(u)'
    <3>1. after.devices = more
      BY <1>11, <1>12
    <3>2. {CurrentDevice(more[i]) : i \in {j \in DOMAIN more : more[j].revoked = 0}}
             = DevicesOf(u) \cup {x}
      BY <2>1, <2>2, Zenon
    <3>3. {CurrentDevice(more[i]) : i \in {j \in DOMAIN more : more[j].revoked = 0}}
             = DevicesOf(u)'
      BY <1>20, <3>2, Zenon
    <3>4. QED
      BY <3>1, <3>3, Zenon
  <2>4. Last(after.spans).role = members'[u].role /\ Last(after.spans).scope = members'[u].scope
    BY <1>5, <1>8, <1>11 DEF ShowsMember
  <2>5. QED
    BY <2>3, <2>4 DEF ShowsMember
<1>22. \A y \in Users : y # u =>
          /\ y \in DOMAIN members' <=> y \in DOMAIN members
          /\ y \in DOMAIN members => members'[y] = members[y] /\ DevicesOf(y)' = DevicesOf(y)
  BY <1>6, <1>8 DEF DevicesOf
<1>23. u \in DOMAIN members'
  BY <1>3, <1>8
<1>24. QED
  BY <1>3, <1>4, <1>11, <1>16, <1>17, <1>18, <1>19, <1>21, <1>22, <1>23, OneTenureChanged

\* revoke_device ends the devices it names, in the open tenure.
LEMMA DevicesLeave ==
    ASSUME SnapshotInvariant, Advances, PeopleIndexed, TypeOK,
           NEW op, op.target \in DOMAIN members, op.target \in Users,
           ApplyRevokeDevice(op), RecordDevicesRevoked(op, headSeq + 1)
    PROVE  \A u \in Users : PersonStep(u)
<1>1. headSeq \in Nat /\ headSeq + 1 \in Nat /\ headSeq + 1 # 0
  BY DEF SnapshotInvariant
<1>2. PICK u : u = op.target
  OBVIOUS
<1>3. PersonIndexed(u) /\ u \in DOMAIN members /\ u \in Users
  BY <1>2 DEF PeopleIndexed
<1>4. PICK t, held : t = Last(TenuresOf(u)) /\ held = t.devices
  OBVIOUS
<1>5. /\ HasOpenTenure(u) /\ TenuresOf(u) = tenures[u]
      /\ t \in TenureRecords /\ TenureBy(t, headSeq) /\ t.end = 0
      /\ ShowsMember(t, members[u], DevicesOf(u))
  BY <1>1, <1>3, <1>4, MemberTenure
<1>6. /\ held \in Seq(IndexedDevices) /\ Len(held) \in Nat /\ DOMAIN held = 1..Len(held)
      /\ \A i \in DOMAIN held : held[i] \in IndexedDevices /\ DeviceBy(held[i], headSeq)
  BY <1>4, <1>5, TenureShape DEF TenureBy
<1>7. PICK left : left = [i \in DOMAIN held |->
             IF held[i].revoked = 0 /\ FingerprintOf(held[i].device) \in op.fps
             THEN [held[i] EXCEPT !.revoked = headSeq + 1] ELSE held[i]]
  OBVIOUS
<1>8. DOMAIN left = DOMAIN held
  BY <1>7
<1>9. ASSUME NEW i \in DOMAIN held
      PROVE  /\ left[i] \in IndexedDevices /\ DeviceBy(left[i], headSeq + 1)
             /\ DeviceKept(held[i], left[i], headSeq)
             /\ CurrentDevice(left[i]) = CurrentDevice(held[i])
             /\ left[i].revoked = 0 <=>
                   held[i].revoked = 0 /\ FingerprintOf(held[i].device) \notin op.fps
  <2>1. PICK r, after : r = held[i] /\ after = left[i]
    OBVIOUS
  <2>2. r \in IndexedDevices /\ DeviceBy(r, headSeq)
    BY <1>6, <2>1
  <2>3. /\ r.device \in DeviceRecords /\ r.device.addedSeq \in Nat /\ r.revoked \in Nat
        /\ \A j \in 1..Len(r.capChanges) : r.capChanges[j].from \in Nat
    BY <2>2, IndexedDeviceShape DEF DeviceRecords
  <2>4. DeviceBy(r, headSeq + 1)
    BY <1>1, <2>2, <2>3 DEF DeviceBy
  <2>5. CASE r.revoked = 0 /\ FingerprintOf(r.device) \in op.fps
    <3>1. after = [r EXCEPT !.revoked = headSeq + 1]
      BY <1>7, <2>1, <2>5
    <3>2. /\ after.device = r.device /\ after.revoked = headSeq + 1
          /\ after.capChanges = r.capChanges
      BY <2>2, <3>1 DEF IndexedDevices
    <3>3. after \in IndexedDevices
      BY <1>1, <2>2, <3>1 DEF IndexedDevices
    <3>4. DeviceBy(after, headSeq + 1)
      BY <1>1, <2>4, <3>2 DEF DeviceBy
    <3>5. DeviceKept(r, after, headSeq)
      <4>1. \A seq \in Nat : DeviceAt(after, seq) = DeviceAt(r, seq)
        BY <3>2 DEF DeviceAt
      <4>2. \A seq \in Nat : seq <= headSeq =>
               (DeviceActiveAt(after, seq) <=> DeviceActiveAt(r, seq))
        BY <1>1, <2>3, <2>5, <3>2 DEF DeviceActiveAt
      <4>3. QED
        BY <4>1, <4>2 DEF DeviceKept
    <3>6. CurrentDevice(after) = CurrentDevice(r)
      BY <3>2 DEF CurrentDevice
    <3>7. QED
      BY <1>1, <2>1, <2>5, <3>2, <3>3, <3>4, <3>5, <3>6
  <2>6. CASE ~(r.revoked = 0 /\ FingerprintOf(r.device) \in op.fps)
    <3>1. after = r
      BY <1>7, <2>1, <2>6
    <3>2. DeviceKept(r, r, headSeq)
      BY DEF DeviceKept
    <3>3. QED
      BY <2>1, <2>2, <2>4, <2>6, <3>1, <3>2
  <2>7. QED
    BY <2>5, <2>6
<1>10. left \in Seq(IndexedDevices) /\ Len(left) = Len(held)
  <2>1. \A i \in 1..Len(held) : left[i] \in IndexedDevices
    BY <1>6, <1>9
  <2>2. left = [i \in 1..Len(held) |-> left[i]]
    BY <1>6, <1>7
  <2>3. QED
    BY <1>6, <2>1, <2>2
<1>11. PICK after : after = [t EXCEPT !.devices = left]
  OBVIOUS
<1>12. /\ after.start = t.start /\ after.end = 0
       /\ after.spans = t.spans /\ after.devices = left
  BY <1>5, <1>11 DEF TenureRecords
<1>13. after \in TenureRecords
  BY <1>5, <1>10, <1>11 DEF TenureRecords
<1>14. TenureBy(after, headSeq + 1)
  <2>1. TenureBy(t, headSeq + 1)
    BY <1>1, <1>5, TenureByLater
  <2>2. \A i \in 1..Len(left) : DeviceBy(left[i], headSeq + 1)
    BY <1>6, <1>9, <1>10
  <2>3. after.end <= headSeq + 1
    BY <1>1, <1>12
  <2>4. QED
    BY <1>12, <2>1, <2>2, <2>3 DEF TenureBy
<1>15. ChangesAfter(t, after, headSeq)
  BY <1>4, <1>5, <1>8, <1>9, <1>12 DEF ChangesAfter
<1>16. tenures' = WithOpenTenure(u, after)
  BY <1>2, <1>4, <1>5, <1>7, <1>11 DEF RecordDevicesRevoked
<1>17. devices' = devices \ RevokedDevices(op) /\ members' = members
  BY DEF ApplyRevokeDevice, DropDevices
<1>18. DevicesOf(u)' = {x \in DevicesOf(u) : FingerprintOf(x) \notin op.fps}
  BY <1>2, <1>17 DEF DevicesOf, RevokedDevices, FingerprintOf
<1>19. ShowsMember(after, members'[u], DevicesOf(u)')
  <2>1. \A i \in DOMAIN held : FingerprintOf(CurrentDevice(held[i])) = FingerprintOf(held[i].device)
    <3>1. TAKE i \in DOMAIN held
    <3>2. held[i].device \in DeviceRecords
      BY <1>6, IndexedDeviceShape
    <3>3. QED
      BY <3>2 DEF FingerprintOf, CurrentDevice, DeviceRecords
  <2>2. PICK open : open = {j \in DOMAIN held : held[j].revoked = 0}
    OBVIOUS
  <2>3. {CurrentDevice(held[i]) : i \in open} = DevicesOf(u)
    BY <1>4, <1>5, <2>2 DEF ShowsMember
  <2>4. {j \in DOMAIN left : left[j].revoked = 0}
           = {j \in open : FingerprintOf(held[j].device) \notin op.fps}
    BY <1>8, <1>9, <2>2
  <2>5. {CurrentDevice(left[i]) : i \in {j \in DOMAIN left : left[j].revoked = 0}}
           = {CurrentDevice(held[i]) : i \in {j \in open : FingerprintOf(held[j].device) \notin op.fps}}
    BY <1>9, <2>2, <2>4
  <2>6. {CurrentDevice(held[i]) : i \in {j \in open : FingerprintOf(held[j].device) \notin op.fps}}
           = {x \in DevicesOf(u) : FingerprintOf(x) \notin op.fps}
    BY <2>1, <2>2, <2>3
  <2>7. QED
    BY <1>5, <1>12, <1>17, <1>18, <2>5, <2>6 DEF ShowsMember
<1>20. \A y \in Users : y # u =>
          /\ y \in DOMAIN members' <=> y \in DOMAIN members
          /\ y \in DOMAIN members => members'[y] = members[y] /\ DevicesOf(y)' = DevicesOf(y)
  BY <1>2, <1>17 DEF DevicesOf, RevokedDevices
<1>21. u \in DOMAIN members'
  BY <1>3, <1>17
<1>22. QED
  BY <1>3, <1>4, <1>12, <1>13, <1>14, <1>15, <1>16, <1>19, <1>20, <1>21, OneTenureChanged

\* Taking an environment out of a scope that does not list it changes nothing.
LEMMA ScopeWithoutOther ==
    ASSUME NEW s \in Scopes, NEW e, e \notin s.ids
    PROVE  ScopeWithout(s, e) = s
<1>1. CASE s.kind = "all"
  BY <1>1 DEF ScopeWithout
<1>2. CASE s.kind = "listed"
  <2>1. s.ids \ {e} = s.ids
    OBVIOUS
  <2>2. s = [kind |-> "listed", ids |-> s.ids]
    BY <1>2 DEF Scopes
  <2>3. QED
    BY <1>2, <2>1, <2>2 DEF ScopeWithout, Listed
<1>3. QED
  BY <1>1, <1>2 DEF Scopes

\* What pruneTenureAt makes of a device of the open tenure.
PrunedDevice(r, e, seq) ==
    IF r.revoked = 0 /\ e \in DeviceAt(r, seq).scope.ids
    THEN [r EXCEPT !.capChanges = Append(@,
             [from |-> seq, scope |-> ScopeWithout(DeviceAt(r, seq).scope, e)])]
    ELSE r

\* The device as last recorded is a device with a scope.
LEMMA CurrentDeviceType ==
    ASSUME NEW r \in IndexedDevices
    PROVE  CurrentDevice(r) \in DeviceRecords
<1>1. PICK list : list = r.capChanges
  OBVIOUS
<1>2. r.device \in DeviceRecords /\ list \in Seq(CapChanges)
  BY <1>1, IndexedDeviceShape
<1>3. CASE list = <<>>
  BY <1>1, <1>2, <1>3 DEF CurrentDevice
<1>4. CASE list # <<>>
  <2>1. Len(list) \in 1..Len(list)
    BY <1>2, <1>4
  <2>2. Last(list) \in CapChanges
    BY <1>2, <2>1 DEF Last
  <2>3. Last(list).scope \in Scopes
    BY <2>2 DEF CapChanges
  <2>4. [r.device EXCEPT !.scope = Last(list).scope] \in DeviceRecords
    BY <1>2, <2>3 DEF DeviceRecords
  <2>5. QED
    BY <1>1, <1>4, <2>4 DEF CurrentDevice
<1>5. QED
  BY <1>3, <1>4

\* The device loses the environment from the entry on, and answers as before for
\* every earlier seq.
LEMMA DevicePruned ==
    ASSUME NEW h \in Nat, NEW r \in IndexedDevices, DeviceBy(r, h), NEW e \in Envs
    PROVE  /\ PrunedDevice(r, e, h + 1) \in IndexedDevices
           /\ DeviceBy(PrunedDevice(r, e, h + 1), h + 1)
           /\ DeviceKept(r, PrunedDevice(r, e, h + 1), h)
           /\ PrunedDevice(r, e, h + 1).revoked = r.revoked
           /\ r.revoked = 0 => CurrentDevice(PrunedDevice(r, e, h + 1)) =
                 [CurrentDevice(r) EXCEPT !.scope = ScopeWithout(CurrentDevice(r).scope, e)]
<1>1. /\ r.device \in DeviceRecords /\ r.device.addedSeq \in Nat /\ r.revoked \in Nat
      /\ r.capChanges \in Seq(CapChanges)
      /\ \A j \in 1..Len(r.capChanges) : r.capChanges[j].from \in Nat
  BY IndexedDeviceShape DEF DeviceRecords
<1>2. DeviceBy(r, h + 1) /\ h + 1 \in Nat
  BY <1>1 DEF DeviceBy
<1>3. DeviceAt(r, h + 1) = CurrentDevice(r) /\ CurrentDevice(r) \in DeviceRecords
  BY <1>2, DeviceNow, CurrentDeviceType
<1>4. PICK cur, after : cur = CurrentDevice(r) /\ after = PrunedDevice(r, e, h + 1)
  OBVIOUS
<1>5. cur.scope \in Scopes
  BY <1>3, <1>4 DEF DeviceRecords
<1>6. CASE r.revoked = 0 /\ e \in cur.scope.ids
  <2>1. PICK list, x : /\ list = r.capChanges
                       /\ x = [from |-> h + 1, scope |-> ScopeWithout(cur.scope, e)]
    OBVIOUS
  <2>2. after = [r EXCEPT !.capChanges = Append(@, x)]
    BY <1>3, <1>4, <1>6, <2>1 DEF PrunedDevice
  <2>3. /\ after.device = r.device /\ after.revoked = r.revoked
        /\ after.capChanges = Append(list, x)
    BY <2>1, <2>2 DEF IndexedDevices
  <2>4. x \in CapChanges /\ x.from = h + 1 /\ x.scope = ScopeWithout(cur.scope, e)
    BY <1>2, <1>5, <2>1, ScopeTypes DEF CapChanges
  <2>5. list \in Seq(CapChanges) /\ Len(list) \in Nat
    BY <1>1, <2>1
  <2>6. /\ Append(list, x) \in Seq(CapChanges) /\ Len(Append(list, x)) = Len(list) + 1
        /\ \A i \in 1..Len(list) : Append(list, x)[i] = list[i]
        /\ Append(list, x)[Len(list) + 1] = x /\ Last(Append(list, x)) = x
    BY <2>4, <2>5, Appending
  <2>7. after \in IndexedDevices
    BY <2>1, <2>2, <2>6 DEF IndexedDevices
  <2>8. DeviceBy(after, h + 1)
    <3>1. \A i \in 1..Len(list) + 1 : i \in 1..Len(list) \/ i = Len(list) + 1
      BY <2>5
    <3>2. \A i \in 1..Len(Append(list, x)) : Append(list, x)[i].from <= h + 1
      BY <1>2, <2>1, <2>4, <2>6, <3>1 DEF DeviceBy
    <3>3. QED
      BY <1>2, <2>3, <3>2 DEF DeviceBy
  <2>9. DeviceKept(r, after, h)
    <3>1. ASSUME NEW seq \in Nat, seq <= h PROVE DeviceAt(after, seq) = DeviceAt(r, seq)
      <4>1. x.from \in Nat /\ seq < x.from
        BY <2>4, <3>1
      <4>2. \A i \in 1..Len(list) : list[i].from \in Nat
        BY <1>1, <2>1
      <4>3. /\ IntervalsUpTo(Append(list, x), seq) = IntervalsUpTo(list, seq)
            /\ IntervalsUpTo(list, seq) # {} =>
                  CurrentAt(Append(list, x), seq) = CurrentAt(list, seq)
        BY <2>5, <4>1, <4>2, LaterNotFound
      <4>4. QED
        BY <2>1, <2>3, <4>3 DEF DeviceAt
    <3>2. \A seq : DeviceActiveAt(after, seq) <=> DeviceActiveAt(r, seq)
      BY <2>3 DEF DeviceActiveAt
    <3>3. QED
      BY <3>1, <3>2 DEF DeviceKept
  <2>10. CurrentDevice(after) = [cur EXCEPT !.scope = ScopeWithout(cur.scope, e)]
    <3>1. Append(list, x) # <<>>
      BY <2>5, <2>6
    <3>2. CurrentDevice(after) = [r.device EXCEPT !.scope = ScopeWithout(cur.scope, e)]
      BY <2>3, <2>4, <2>6, <3>1 DEF CurrentDevice
    <3>3. \A s : [cur EXCEPT !.scope = s] = [r.device EXCEPT !.scope = s]
      BY <1>1, <1>4 DEF CurrentDevice, DeviceRecords
    <3>4. QED
      BY <3>2, <3>3
  <2>11. QED
    BY <1>4, <2>3, <2>7, <2>8, <2>9, <2>10
<1>7. CASE ~(r.revoked = 0 /\ e \in cur.scope.ids)
  <2>1. after = r
    BY <1>3, <1>4, <1>7 DEF PrunedDevice
  <2>2. DeviceKept(r, r, h)
    BY DEF DeviceKept
  <2>3. ASSUME r.revoked = 0 PROVE cur = [cur EXCEPT !.scope = ScopeWithout(cur.scope, e)]
    <3>1. ScopeWithout(cur.scope, e) = cur.scope
      BY <1>5, <1>7, <2>3, ScopeWithoutOther
    <3>2. QED
      BY <1>3, <1>4, <3>1 DEF DeviceRecords
  <2>4. QED
    BY <1>2, <1>4, <2>1, <2>2, <2>3
<1>8. QED
  BY <1>6, <1>7

\* The open tenure loses the environment from the entry on.
LEMMA TenurePruned ==
    ASSUME NEW h \in Nat, NEW t \in TenureRecords, TenureBy(t, h), t.end = 0, NEW e \in Envs,
           NEW m \in MemberStates, NEW D \in SUBSET DeviceRecords, ShowsMember(t, m, D)
    PROVE  LET after == PruneTenure(t, e, h + 1)
           IN  /\ after \in TenureRecords /\ TenureBy(after, h + 1) /\ after.end = 0
               /\ ChangesAfter(t, after, h)
               /\ ShowsMember(after, [role |-> m.role, scope |-> ScopeWithout(m.scope, e)],
                     {[x EXCEPT !.scope = ScopeWithout(x.scope, e)] : x \in D})
<1>1. h + 1 \in Nat /\ h + 1 # 0
  OBVIOUS
<1>2. PICK spans, held, span : spans = t.spans /\ held = t.devices /\ span = Last(spans)
  OBVIOUS
<1>3. /\ spans \in Seq(Spans) /\ Len(spans) \in Nat
      /\ held \in Seq(IndexedDevices) /\ Len(held) \in Nat /\ DOMAIN held = 1..Len(held)
      /\ \A i \in DOMAIN held : held[i] \in IndexedDevices /\ DeviceBy(held[i], h)
  BY <1>2, TenureShape DEF TenureBy
<1>4. PICK left, more, after :
         /\ left = [i \in DOMAIN held |-> PrunedDevice(held[i], e, h + 1)]
         /\ more = IF e \in span.scope.ids
                   THEN Append(spans, [from |-> h + 1, role |-> span.role,
                                       scope |-> ScopeWithout(span.scope, e)])
                   ELSE spans
         /\ after = [t EXCEPT !.spans = more, !.devices = left]
  OBVIOUS
<1>5. PruneTenure(t, e, h + 1) = after
  BY <1>2, <1>4 DEF PruneTenure, PrunedDevice
<1>6. /\ after.start = t.start /\ after.end = t.end /\ after.spans = more /\ after.devices = left
  BY <1>4 DEF TenureRecords
<1>7. /\ spans # <<>> /\ Len(spans) \in 1..Len(spans) /\ span \in Spans
      /\ span.role = m.role /\ span.scope = m.scope
  <2>1. spans # <<>>
    BY <1>2 DEF TenureBy
  <2>2. Len(spans) \in 1..Len(spans)
    BY <1>3, <2>1
  <2>3. span \in Spans
    BY <1>2, <1>3, <2>2 DEF Last
  <2>4. QED
    BY <1>2, <2>1, <2>2, <2>3 DEF ShowsMember
<1>8. /\ more \in Seq(Spans) /\ more # <<>> /\ more[1] = spans[1]
      /\ \A i \in 1..Len(more) : more[i].from <= h + 1
      /\ Last(more).role = m.role /\ Last(more).scope = ScopeWithout(m.scope, e)
      /\ more = spans \/ \E x : x.from = h + 1 /\ more = Append(spans, x)
  <2>1. \A i \in 1..Len(spans) : spans[i].from \in Nat /\ spans[i].from <= h
    BY <1>2, TenureShape DEF TenureBy
  <2>2. CASE e \in span.scope.ids
    <3>1. PICK x : x = [from |-> h + 1, role |-> span.role, scope |-> ScopeWithout(span.scope, e)]
      OBVIOUS
    <3>2. x \in Spans /\ x.from = h + 1 /\ x.role = m.role /\ x.scope = ScopeWithout(m.scope, e)
      BY <1>1, <1>7, <3>1, ScopeTypes DEF Spans
    <3>3. more = Append(spans, x)
      BY <1>4, <2>2, <3>1
    <3>4. /\ Append(spans, x) \in Seq(Spans) /\ Len(Append(spans, x)) = Len(spans) + 1
          /\ \A i \in 1..Len(spans) : Append(spans, x)[i] = spans[i]
          /\ Append(spans, x)[Len(spans) + 1] = x /\ Last(Append(spans, x)) = x
      BY <1>3, <3>2, Appending
    <3>5. \A i \in 1..Len(spans) + 1 : i \in 1..Len(spans) \/ i = Len(spans) + 1
      BY <1>3
    <3>6. \A i \in 1..Len(spans) + 1 : Append(spans, x)[i].from <= h + 1
      BY <1>1, <2>1, <3>2, <3>4, <3>5
    <3>7. 1 \in 1..Len(spans)
      BY <1>3, <1>7
    <3>8. Append(spans, x) # <<>>
      BY <1>3, <3>4
    <3>9. QED
      BY <3>2, <3>3, <3>4, <3>6, <3>7, <3>8
  <2>3. CASE e \notin span.scope.ids
    <3>1. more = spans
      BY <1>4, <2>3
    <3>2. ScopeWithout(m.scope, e) = m.scope
      BY <1>7, <2>3, ScopeWithoutOther DEF Spans
    <3>3. \A i \in 1..Len(spans) : spans[i].from <= h + 1
      BY <2>1
    <3>4. QED
      BY <1>2, <1>3, <1>7, <3>1, <3>2, <3>3
  <2>4. QED
    BY <2>2, <2>3
<1>9. DOMAIN left = DOMAIN held
  BY <1>4
<1>10. \A i \in DOMAIN held :
         /\ left[i] \in IndexedDevices /\ DeviceBy(left[i], h + 1) /\ DeviceKept(held[i], left[i], h)
         /\ left[i].revoked = held[i].revoked
         /\ held[i].revoked = 0 => CurrentDevice(left[i]) =
              [CurrentDevice(held[i]) EXCEPT !.scope = ScopeWithout(CurrentDevice(held[i]).scope, e)]
  <2>1. TAKE i \in DOMAIN held
  <2>2. left[i] = PrunedDevice(held[i], e, h + 1)
    BY <1>4
  <2>3. held[i] \in IndexedDevices /\ DeviceBy(held[i], h)
    BY <1>3
  <2>4. QED
    BY <2>2, <2>3, DevicePruned
<1>11. left \in Seq(IndexedDevices) /\ Len(left) = Len(held)
  <2>1. \A i \in 1..Len(held) : left[i] \in IndexedDevices
    BY <1>3, <1>10
  <2>2. left = [i \in 1..Len(held) |-> left[i]]
    BY <1>3, <1>4
  <2>3. QED
    BY <1>3, <2>1, <2>2
<1>12. after \in TenureRecords
  BY <1>4, <1>8, <1>11 DEF TenureRecords
<1>13. TenureBy(after, h + 1)
  <2>1. TenureBy(t, h + 1)
    BY <1>1, TenureByLater
  <2>2. \A i \in 1..Len(left) : DeviceBy(left[i], h + 1)
    BY <1>3, <1>10, <1>11
  <2>3. QED
    BY <1>2, <1>6, <1>8, <2>1, <2>2 DEF TenureBy
<1>14. ChangesAfter(t, after, h)
  BY <1>2, <1>6, <1>8, <1>9, <1>10 DEF ChangesAfter
<1>15. ShowsMember(after, [role |-> m.role, scope |-> ScopeWithout(m.scope, e)],
             {[x EXCEPT !.scope = ScopeWithout(x.scope, e)] : x \in D})
  <2>1. PICK open : open = {j \in DOMAIN held : held[j].revoked = 0}
    OBVIOUS
  <2>2. {CurrentDevice(held[i]) : i \in open} = D
    BY <1>2, <2>1 DEF ShowsMember
  <2>3. {j \in DOMAIN left : left[j].revoked = 0} = open
    BY <1>9, <1>10, <2>1
  <2>4. \A i \in open : CurrentDevice(left[i]) =
           [CurrentDevice(held[i]) EXCEPT !.scope = ScopeWithout(CurrentDevice(held[i]).scope, e)]
    BY <1>10, <2>1
  <2>5. {CurrentDevice(left[i]) : i \in open}
           = {[x EXCEPT !.scope = ScopeWithout(x.scope, e)] : x \in D}
    <3>1. \A i \in open : CurrentDevice(left[i])
             \in {[x EXCEPT !.scope = ScopeWithout(x.scope, e)] : x \in D}
      BY <2>2, <2>4
    <3>2. \A x \in D : \E i \in open :
             [x EXCEPT !.scope = ScopeWithout(x.scope, e)] = CurrentDevice(left[i])
      BY <2>2, <2>4
    <3>3. QED
      BY <3>1, <3>2
  <2>6. QED
    BY <1>6, <1>8, <2>3, <2>5 DEF ShowsMember
<1>16. QED
  BY <1>5, <1>6, <1>12, <1>13, <1>14, <1>15

\* delete_environment takes the environment out of every open tenure.
LEMMA EnvironmentLeaves ==
    ASSUME SnapshotInvariant, Advances, PeopleIndexed, TypeOK,
           NEW op, op.env \in Envs,
           ApplyDeleteEnvironment(op, headSeq + 1), RecordEnvironmentDeleted(op, headSeq + 1)
    PROVE  \A u \in Users : PersonStep(u)
<1>1. headSeq \in Nat
  BY DEF SnapshotInvariant
<1>2. PICK e : e = op.env
  OBVIOUS
<1>3. /\ e \in Envs
      /\ members' = [u \in DOMAIN members |->
             [role |-> members[u].role, scope |-> ScopeWithout(members[u].scope, e)]]
      /\ devices' = {[x EXCEPT !.scope = ScopeWithout(x.scope, e)] : x \in devices}
      /\ tenures' = [u \in DOMAIN tenures |->
             IF HasOpenTenure(u)
             THEN [tenures[u] EXCEPT ![Len(tenures[u])] = PruneTenure(@, e, headSeq + 1)]
             ELSE tenures[u]]
  BY <1>2 DEF ApplyDeleteEnvironment, RecordEnvironmentDeleted
<1>4. TAKE u \in Users
<1>5. PersonIndexed(u)
  BY DEF PeopleIndexed
<1>6. CASE u \notin DOMAIN members
  <2>1. ~HasOpenTenure(u)
    BY <1>5, <1>6 DEF PersonIndexed, Open, HasOpenTenure
  <2>2. TenuresOf(u)' = TenuresOf(u)
    BY <1>3, <2>1 DEF TenuresOf
  <2>3. u \notin DOMAIN members'
    BY <1>3, <1>6
  <2>4. QED
    BY <1>5, <1>6, <2>2, <2>3, PersonUntouched
<1>7. CASE u \in DOMAIN members
  <2>1. PICK t, after : t = Last(TenuresOf(u)) /\ after = PruneTenure(t, e, headSeq + 1)
    OBVIOUS
  <2>2. /\ HasOpenTenure(u) /\ u \in DOMAIN tenures /\ TenuresOf(u) = tenures[u]
        /\ t \in TenureRecords /\ TenureBy(t, headSeq) /\ t.end = 0
        /\ ShowsMember(t, members[u], DevicesOf(u))
    BY <1>1, <1>5, <1>7, <2>1, MemberTenure
  <2>3. members[u] \in MemberStates /\ DevicesOf(u) \in SUBSET DeviceRecords
    BY <1>7 DEF TypeOK, IsMap, DevicesOf
  <2>4. /\ after \in TenureRecords /\ TenureBy(after, headSeq + 1) /\ after.end = 0
        /\ ChangesAfter(t, after, headSeq)
        /\ ShowsMember(after,
              [role |-> members[u].role, scope |-> ScopeWithout(members[u].scope, e)],
              {[x EXCEPT !.scope = ScopeWithout(x.scope, e)] : x \in DevicesOf(u)})
    BY <1>1, <1>3, <2>1, <2>2, <2>3, TenurePruned
  <2>5. TenuresOf(u)' = WithLast(TenuresOf(u), after)
    BY <1>3, <2>1, <2>2 DEF TenuresOf, WithLast, Last
  <2>6. TenureKept(t, after, headSeq)
    BY <1>1, <2>2, <2>4, TenureStaysTrue
  <2>7. after.start = t.start
    BY <2>4 DEF ChangesAfter
  <2>8. /\ u \in DOMAIN members'
        /\ members'[u] = [role |-> members[u].role, scope |-> ScopeWithout(members[u].scope, e)]
    BY <1>3, <1>7
  <2>9. DevicesOf(u)' = {[x EXCEPT !.scope = ScopeWithout(x.scope, e)] : x \in DevicesOf(u)}
    <3>1. \A x \in devices : [x EXCEPT !.scope = ScopeWithout(x.scope, e)].user = x.user
      BY DEF TypeOK, DeviceRecords
    <3>2. QED
      BY <1>3, <3>1 DEF DevicesOf
  <2>10. ShowsMember(after, members'[u], DevicesOf(u)')
    BY <2>4, <2>8, <2>9
  <2>11. QED
    BY <1>5, <1>7, <2>1, <2>4, <2>5, <2>6, <2>7, <2>8, <2>10, PersonChanged
<1>8. QED
  BY <1>6, <1>7

\* add_member opens a tenure with the one device the person has.
LEMMA TenureBegins ==
    ASSUME SnapshotInvariant, Advances, PeopleIndexed, TypeOK, KeyInvariant,
           NEW op, op.target \in Users, op.target \notin DOMAIN members,
           op.enc \in EncKeys, op.sig \in SigKeys, op.role \in Roles, op.scope \in Scopes,
           ApplyAddMember(op, headSeq + 1), RecordTenureStart(op.target, headSeq + 1)
    PROVE  \A u \in Users : PersonStep(u)
<1>1. headSeq \in Nat /\ headSeq + 1 \in Nat
  BY DEF SnapshotInvariant
<1>2. PICK u, m, x : /\ u = op.target /\ m = [role |-> op.role, scope |-> op.scope]
                     /\ x = FirstDevice(u, op, headSeq + 1)
  OBVIOUS
<1>3. u \in Users /\ u \notin DOMAIN members
  BY <1>2
<1>4. /\ x \in DeviceRecords /\ x.user = u /\ x.addedSeq = headSeq + 1
  BY <1>1, <1>2, FirstDeviceType DEF FirstDevice
<1>5. /\ members' = WithKey(members, u, m) /\ devices' = devices \cup {x}
  BY <1>2 DEF ApplyAddMember
<1>6. /\ DOMAIN members' = DOMAIN members \cup {u} /\ members'[u] = m
      /\ \A y \in DOMAIN members : members'[y] = members[y]
  BY <1>3, <1>5 DEF WithKey
<1>7. \A y \in devices : y.user # u
  BY <1>3 DEF KeyInvariant, PeopleMatchDevices
<1>8. {y \in devices' : y.user = u} = {x}
  BY <1>4, <1>5, <1>7
<1>9. PICK r, t : r = NewDeviceRecord(x) /\ t = NewTenure(m, x, headSeq + 1)
  OBVIOUS
<1>10. /\ r \in IndexedDevices /\ DeviceBy(r, headSeq + 1) /\ CurrentDevice(r) = x /\ r.revoked = 0
  <2>1. x.addedSeq <= headSeq + 1
    BY <1>1, <1>4
  <2>2. QED
    BY <1>1, <1>4, <1>9, <2>1, NewDeviceShape
<1>11. PICK span, spans, held :
          /\ span = [from |-> headSeq + 1, role |-> op.role, scope |-> op.scope]
          /\ spans = <<span>> /\ held = <<r>>
  OBVIOUS
<1>12. /\ t.start = headSeq + 1 /\ t.end = 0 /\ t.devices = held /\ t.spans = spans
       /\ t = [start |-> headSeq + 1, end |-> 0, devices |-> held, spans |-> spans]
  BY <1>2, <1>9, <1>11 DEF NewTenure
<1>13. span \in Spans /\ span.from = headSeq + 1 /\ span.role = m.role /\ span.scope = m.scope
  BY <1>1, <1>2, <1>11 DEF Spans
<1>14. /\ spans \in Seq(Spans) /\ spans # <<>> /\ Len(spans) = 1 /\ spans[1] = span
       /\ Last(spans) = span
       /\ held \in Seq(IndexedDevices) /\ Len(held) = 1 /\ held[1] = r /\ DOMAIN held = 1..1
  BY <1>10, <1>11, <1>13 DEF Last
<1>15. t \in TenureRecords
  BY <1>1, <1>12, <1>14 DEF TenureRecords
<1>16. TenureBy(t, headSeq + 1)
  <2>1. \A i \in 1..1 : i = 1
    OBVIOUS
  <2>2. \A i \in 1..Len(spans) : spans[i].from <= headSeq + 1
    BY <1>1, <1>13, <1>14, <2>1
  <2>3. \A i \in 1..Len(held) : DeviceBy(held[i], headSeq + 1)
    BY <1>10, <1>14, <2>1
  <2>4. spans[1].from <= t.start /\ t.start <= headSeq + 1 /\ t.end <= headSeq + 1
    BY <1>1, <1>12, <1>13, <1>14
  <2>5. QED
    BY <1>12, <1>14, <2>2, <2>3, <2>4 DEF TenureBy
<1>17. ShowsMember(t, m, {x})
  <2>1. 1 \in 1..1 /\ \A i \in 1..1 : i = 1
    OBVIOUS
  <2>2. {j \in DOMAIN held : held[j].revoked = 0} = {1}
    BY <1>10, <1>14, <2>1
  <2>3. {CurrentDevice(held[i]) : i \in {j \in DOMAIN held : held[j].revoked = 0}} = {x}
    BY <1>10, <1>14, <2>2
  <2>4. QED
    BY <1>12, <1>13, <1>14, <2>3 DEF ShowsMember
<1>18. DevicesOf(u)' = {x}
  BY <1>8 DEF DevicesOf
<1>19. tenures' = WithKey(tenures, u, Append(TenuresOf(u), t))
  <2>1. Cardinality({x}) = 1
    BY FS_Singleton
  <2>2. (CHOOSE d \in {x} : TRUE) = x
    OBVIOUS
  <2>3. tenures' = IF Cardinality({y \in devices' : y.user = u}) = 1
                   THEN WithKey(tenures, u, Append(TenuresOf(u),
                           NewTenure(members'[u], CHOOSE d \in {y \in devices' : y.user = u} : TRUE,
                                     headSeq + 1)))
                   ELSE tenures
    BY <1>2 DEF RecordTenureStart
  <2>4. QED
    BY <1>6, <1>8, <1>9, <2>1, <2>2, <2>3
<1>20. PersonIndexed(u)
  BY <1>3 DEF PeopleIndexed
<1>21. TenuresOf(u)' = Append(TenuresOf(u), t)
  BY <1>19 DEF TenuresOf, WithKey
<1>22. PersonStep(u)
  BY <1>3, <1>6, <1>12, <1>15, <1>16, <1>17, <1>18, <1>20, <1>21, PersonEntered
<1>23. ASSUME NEW y \in Users, y # u PROVE PersonStep(y)
  <2>1. PersonIndexed(y)
    BY DEF PeopleIndexed
  <2>2. TenuresOf(y)' = TenuresOf(y)
    BY <1>19, <1>23 DEF TenuresOf, WithKey
  <2>3. DevicesOf(y)' = DevicesOf(y)
    BY <1>4, <1>5, <1>23 DEF DevicesOf
  <2>4. QED
    BY <1>6, <1>23, <2>1, <2>2, <2>3, PersonUntouched
<1>24. QED
  BY <1>22, <1>23

\* Every entry records of people what it does to them.
LEMMA PeopleRecorded ==
    ASSUME SnapshotInvariant, Advances, PeopleIndexed, TypeOK, KeyInvariant,
           NEW op \in Operations, NEW d \in devices, AppliedEntry(op, d)
    PROVE  \A u \in Users : PersonStep(u)
<1>1. NextSeq = headSeq + 1
  BY DEF NextSeq
<1>2. \A u \in DOMAIN members : u \in Users
  BY DEF TypeOK, IsMap
<1>3. /\ ConsensusRule(op, d) /\ Apply(op, d, headSeq + 1) /\ RecordHistory(op, d, headSeq + 1)
  BY <1>1 DEF AppliedEntry
<1>4. CASE op.op = "add_member"
  <2>1. /\ op.target \in Users /\ op.enc \in EncKeys /\ op.sig \in SigKeys
        /\ op.role \in Roles /\ op.scope \in Scopes
    BY <1>4, OperationShapes DEF AddMemberOps
  <2>2. op.target \notin DOMAIN members
    BY <1>3, <1>4 DEF ConsensusRule, AddMemberRule
  <2>3. ApplyAddMember(op, headSeq + 1) /\ RecordTenureStart(op.target, headSeq + 1)
    BY <1>3, <1>4 DEF Apply, RecordHistory
  <2>4. QED
    BY <2>1, <2>2, <2>3, TenureBegins
<1>5. CASE op.op = "change_role"
  <2>1. op.target \in Users /\ op.role \in Roles /\ op.scope \in Scopes
    BY <1>5, OperationShapes DEF ChangeRoleOps
  <2>2. op.target \in DOMAIN members
    BY <1>3, <1>5 DEF ConsensusRule, ChangeRoleRule, TargetedRule
  <2>3. ApplyChangeRole(op) /\ RecordRoleChange(op, headSeq + 1)
    BY <1>3, <1>5 DEF Apply, RecordHistory
  <2>4. QED
    BY <2>1, <2>2, <2>3, SpanBegins
<1>6. CASE op.op = "remove_member"
  <2>1. op.target \in DOMAIN members /\ op.target \in Users
    BY <1>2, <1>3, <1>6 DEF ConsensusRule, RemoveMemberRule, TargetedRule
  <2>2. ApplyRemoveMember(op) /\ RecordTenureEnd(op.target, headSeq + 1)
    BY <1>3, <1>6 DEF Apply, RecordHistory
  <2>3. QED
    BY <2>1, <2>2, TenureEnds
<1>7. CASE op.op = "add_device"
  <2>1. /\ op.enc \in EncKeys /\ op.sig \in SigKeys
        /\ op.roleCap \in Roles /\ op.scope \in Scopes
    BY <1>7, OperationShapes DEF AddDeviceOps
  <2>2. op.enc \notin memberEncPubs
    BY <1>3, <1>7 DEF ConsensusRule, AddDeviceRule, RegistersTakenKey
  <2>3. d.user \in DOMAIN members /\ d.user \in Users
    BY <1>2 DEF KeyInvariant, PeopleMatchDevices
  <2>4. ApplyAddDevice(op, d, headSeq + 1) /\ RecordDeviceAdded(d.user, op.enc)
    BY <1>3, <1>7 DEF Apply, RecordHistory
  <2>5. QED
    BY <2>1, <2>2, <2>3, <2>4, DeviceJoins
<1>8. CASE op.op = "revoke_device"
  <2>1. op.target \in DOMAIN members /\ op.target \in Users
    BY <1>2, <1>3, <1>8 DEF ConsensusRule, RevokeDeviceRule
  <2>2. ApplyRevokeDevice(op) /\ RecordDevicesRevoked(op, headSeq + 1)
    BY <1>3, <1>8 DEF Apply, RecordHistory
  <2>3. QED
    BY <2>1, <2>2, DevicesLeave
<1>9. CASE op.op = "delete_environment"
  <2>1. op.env \in Envs
    BY <1>9, OperationShapes DEF EnvironmentOps
  <2>2. ApplyDeleteEnvironment(op, headSeq + 1) /\ RecordEnvironmentDeleted(op, headSeq + 1)
    BY <1>3, <1>9 DEF Apply, RecordHistory
  <2>3. QED
    BY <2>1, <2>2, EnvironmentLeaves
<1>10. CASE op.op \notin {"add_member", "change_role", "remove_member", "add_device",
                          "revoke_device", "delete_environment"}
  <2>1. UNCHANGED <<members, devices>>
    BY <1>3, <1>10 DEF Apply, ApplyGrantServer, ApplyRevokeServer, ApplyCreateEnvironment,
       ApplyRotateEpoch, ApplyCheckpoint, ApplySetApprovalPolicy, memberVars
  <2>2. UNCHANGED tenures
    BY <1>3, <1>10 DEF RecordHistory, RecordEnvironmentCreated, RecordEpochRotated,
       RecordCheckpoint, indexVars
  <2>3. QED
    BY <2>1, <2>2, PeopleLeftAlone
<1>11. QED
  BY <1>4, <1>5, <1>6, <1>7, <1>8, <1>9, <1>10

(***************************************************************************)
(* The agreement of the index with the chain states.                       *)
(***************************************************************************)

\* a is the first seq of the unbroken membership of u at s, in these chain states.
BeginsAt(states, u, s, a) ==
    /\ \A b \in a..s : u \in DOMAIN states[b].members
    /\ a = 1 \/ u \notin DOMAIN states[a - 1].members

SinceIn(states, u, s) == CHOOSE a \in 1..s : BeginsAt(states, u, s, a)

\* Since when u is a member at s depends on the states up to s only.
LEMMA SinceDependsOnPast ==
    ASSUME NEW f, NEW g, NEW u, NEW s \in Nat, \A b \in 1..s : f[b] = g[b]
    PROVE  SinceIn(f, u, s) = SinceIn(g, u, s)
<1>1. ASSUME NEW a \in 1..s PROVE BeginsAt(f, u, s, a) <=> BeginsAt(g, u, s, a)
  <2>1. \A b \in a..s : b \in 1..s
    OBVIOUS
  <2>2. a = 1 \/ a - 1 \in 1..s
    OBVIOUS
  <2>3. QED
    BY <2>1, <2>2 DEF BeginsAt
<1>2. QED
  BY <1>1 DEF SinceIn

\* What the chain said of a person at a seq stays what it said.
LEMMA MemberInKept ==
    ASSUME SnapshotInvariant, Advances, NEW s \in 1..headSeq, NEW u
    PROVE  MemberIn(s, u)' = MemberIn(s, u)
<1>1. s \in Nat /\ \A b \in 1..s : b \in 1..headSeq
  BY DEF SnapshotInvariant
<1>2. \A b \in 1..s : snapshots'[b] = snapshots[b]
  BY <1>1, SnapshotsGrow
<1>3. SinceIn(snapshots', u, s) = SinceIn(snapshots, u, s)
  BY <1>1, <1>2, SinceDependsOnPast
<1>4. MemberSince(u, s)' = MemberSince(u, s)
  BY <1>3 DEF MemberSince, SinceIn, BeginsAt
<1>5. snapshots'[s] = snapshots[s]
  BY SnapshotsGrow
<1>6. QED
  BY <1>4, <1>5 DEF MemberIn

\* At the head the index says of people what the chain state says.
LEMMA PeopleAtHead ==
    ASSUME SnapshotInvariant, PeopleIndexed, NEW u \in Users
    PROVE  MemberStateAt(u, headSeq) = MemberIn(headSeq, u)
<1>1. PersonIndexed(u) /\ headSeq \in Nat /\ snapshots[headSeq] = Snapshot
  BY DEF PeopleIndexed, SnapshotInvariant
<1>2. PICK T : T = TenuresOf(u)
  OBVIOUS
<1>3. IndexedBy(T, headSeq) /\ MemberStateAt(u, headSeq) = Answer(T, headSeq)
  BY <1>1, <1>2, QueryAnswers DEF PersonIndexed
<1>4. CASE u \notin DOMAIN members
  <2>1. Answer(T, headSeq) = Absent
    BY <1>1, <1>2, <1>3, <1>4, AnswerNow DEF PersonIndexed
  <2>2. MemberIn(headSeq, u) = Absent
    BY <1>1, <1>4 DEF MemberIn, Snapshot
  <2>3. QED
    BY <1>3, <2>1, <2>2
<1>5. CASE u \in DOMAIN members
  <2>1. PICK t : t = Last(T)
    OBVIOUS
  <2>2. Open(T) /\ t.end = 0
    BY <1>1, <1>2, <1>5, <2>1 DEF PersonIndexed, Open
  <2>3. t \in TenureRecords /\ TenureBy(t, headSeq) /\ Answer(T, headSeq) = TenureAnswer(t, headSeq)
    BY <1>1, <1>3, <2>1, <2>2, AnswerNow
  <2>4. ShowsMember(t, members[u], DevicesOf(u))
    BY <1>1, <1>2, <1>5, <2>1 DEF PersonIndexed
  <2>5. TenureAnswer(t, headSeq) =
           [kind |-> "member", role |-> members[u].role, scope |-> members[u].scope,
            devices |-> DevicesOf(u), tenureStart |-> t.start]
    BY <1>1, <2>2, <2>3, <2>4, TenureNow
  <2>6. PICK a : a = t.start
    OBVIOUS
  <2>7. MemberFrom(a, u, headSeq)
    BY <1>1, <1>2, <1>5, <2>1, <2>6 DEF PersonIndexed
  <2>8. MemberSince(u, headSeq) = a
    BY <1>1, <2>7, MembershipSince
  <2>9. MemberIn(headSeq, u) =
           [kind |-> "member", role |-> members[u].role, scope |-> members[u].scope,
            devices |-> DevicesOf(u), tenureStart |-> a]
    BY <1>1, <1>5, <2>8 DEF MemberIn, Snapshot, DevicesOf
  <2>10. QED
    BY <1>3, <2>3, <2>5, <2>6, <2>9
<1>6. QED
  BY <1>4, <1>5

\* At the head the index says of environments what the chain state says.
LEMMA EnvironmentsAtHead ==
    ASSUME SnapshotInvariant, EnvironmentIndex, NEW e
    PROVE  EnvironmentStateAt(e, headSeq) = EnvironmentIn(snapshots[headSeq], e)
<1>1. headSeq \in Nat /\ snapshots[headSeq].environments = environments
  BY DEF SnapshotInvariant, Snapshot
<1>2. CASE e \notin DOMAIN environments
  BY <1>1, <1>2 DEF EnvironmentIndex, EnvironmentStateAt, EnvironmentIn
<1>3. CASE e \in DOMAIN environments
  <2>1. PICK ix, env : ix = environmentStarts[e] /\ env = environments[e]
    OBVIOUS
  <2>2. ix \in StartRecords /\ ShowsEnvironment(ix, env, headSeq) /\ e \in DOMAIN environmentStarts
    BY <1>3, <2>1 DEF EnvironmentIndex
  <2>3. ix.createdAt \in Nat /\ ix.createdAt <= headSeq
    BY <2>2, StartRecordShape DEF ShowsEnvironment
  <2>4. ~(headSeq < ix.createdAt)
    BY <1>1, <2>3
  <2>5. EnvironmentStateAt(e, headSeq) = EnvironmentAnswer(ix, headSeq)
    BY <2>1, <2>2, <2>4 DEF EnvironmentStateAt, EnvironmentAnswer
  <2>6. EnvironmentAnswer(ix, headSeq) =
           [kind |-> "environment", createdAt |-> env.createdAt,
            epoch |-> env.epoch, deletedAt |-> env.deletedAt]
    BY <1>1, <2>2, EnvironmentAnswerNow
  <2>7. EnvironmentIn(snapshots[headSeq], e) =
           [kind |-> "environment", createdAt |-> env.createdAt,
            epoch |-> env.epoch, deletedAt |-> env.deletedAt]
    BY <1>1, <1>3, <2>1 DEF EnvironmentIn
  <2>8. QED
    BY <2>5, <2>6, <2>7
<1>4. QED
  BY <1>2, <1>3

\* The agreement about every seq before the head; about the head it follows.
PastAgrees ==
    \A s \in 1..headSeq - 1 :
        /\ \A u \in Users : MemberStateAt(u, s) = MemberIn(s, u)
        /\ \A e \in Envs : EnvironmentStateAt(e, s) = EnvironmentIn(snapshots[s], e)

IndexInvariant == SnapshotInvariant /\ EnvironmentIndex /\ PeopleIndexed /\ PastAgrees

\* The agreement of the past and of the head is that of every seq.
LEMMA AgreesUpToHead ==
    ASSUME IndexInvariant
    PROVE  MembersAgree /\ EnvironmentsAgree
<1>1. \A s \in 1..headSeq : s \in 1..headSeq - 1 \/ s = headSeq
  BY DEF IndexInvariant, SnapshotInvariant
<1>2. MembersAgree
  BY <1>1, PeopleAtHead DEF MembersAgree, IndexInvariant, PastAgrees
<1>3. EnvironmentsAgree
  BY <1>1, EnvironmentsAtHead DEF EnvironmentsAgree, IndexInvariant, PastAgrees
<1>4. QED
  BY <1>2, <1>3

\* What is said of a person at a seq says what is said of a device: keys are unique.
LEMMA DeviceFollows ==
    ASSUME SnapshotInvariant, PeopleIndexed, NEW s \in 1..headSeq, NEW u \in Users,
           MemberStateAt(u, s) = MemberIn(s, u), NEW fp
    PROVE  LET held == {d \in snapshots[s].devices : d.user = u /\ FingerprintOf(d) = fp}
           IN  IF held = {} THEN DeviceStateAt(u, fp, s) = Absent
               ELSE \A d \in held : DeviceStateAt(u, fp, s) =
                       [kind |-> "device", device |-> d,
                        permission |-> EffectivePermission(snapshots[s].members[u], d)]
<1>1. PICK held, D : /\ held = {d \in snapshots[s].devices : d.user = u /\ FingerprintOf(d) = fp}
                     /\ D = {d \in snapshots[s].devices : d.user = u}
  OBVIOUS
<1>2. CASE TenureIndexesAt(u, s) = {}
  <2>1. MemberStateAt(u, s) = Absent /\ DeviceStateAt(u, fp, s) = Absent
    BY <1>2 DEF MemberStateAt, DeviceStateAt
  <2>2. u \notin DOMAIN snapshots[s].members
    BY <2>1 DEF MemberIn, Absent
  <2>3. held = {}
    BY <1>1, <2>2 DEF SnapshotInvariant
  <2>4. QED
    BY <1>1, <2>1, <2>3
<1>3. CASE TenureIndexesAt(u, s) # {}
  <2>1. PICK T, t : T = TenuresOf(u) /\ t = TenureAt(u, s)
    OBVIOUS
  <2>2. t \in TenureRecords
    <3>1. T \in Seq(TenureRecords) /\ DOMAIN T = 1..Len(T) /\ Len(T) \in Nat
      BY <2>1 DEF PeopleIndexed, PersonIndexed, IndexedBy
    <3>2. PICK I : I = TenureIndexesAt(u, s)
      OBVIOUS
    <3>3. I \subseteq DOMAIN T /\ I \subseteq Nat /\ I # {}
      BY <1>3, <2>1, <3>1, <3>2 DEF TenureIndexesAt
    <3>4. \E i \in I : \A j \in I : i <= j
      BY <3>3, FirstPosition
    <3>5. PICK k : k = CHOOSE i \in I : \A j \in I : i <= j
      OBVIOUS
    <3>6. k \in DOMAIN T
      BY <3>3, <3>4, <3>5
    <3>7. t = T[k]
      BY <2>1, <3>2, <3>5 DEF TenureAt
    <3>8. QED
      BY <3>1, <3>6, <3>7
  <2>3. PICK list : list = t.devices
    OBVIOUS
  <2>4. /\ DOMAIN list = 1..Len(list) /\ Len(list) \in Nat
        /\ \A i \in DOMAIN list : list[i] \in IndexedDevices
    BY <2>2, <2>3, TenureShape
  <2>5. MemberStateAt(u, s) = TenureAnswer(t, s)
    BY <1>3, <2>1 DEF MemberStateAt, TenureAnswer, ActiveIn
  <2>6. u \in DOMAIN snapshots[s].members
    BY <2>5 DEF MemberIn, Absent, TenureAnswer
  <2>7. /\ {DeviceAt(list[i], s) : i \in ActiveIn(t, s)} = D
        /\ CurrentAt(t.spans, s).role = snapshots[s].members[u].role
        /\ CurrentAt(t.spans, s).scope = snapshots[s].members[u].scope
    BY <1>1, <2>3, <2>5, <2>6 DEF MemberIn, TenureAnswer
  <2>8. \A i \in DOMAIN list : FingerprintOf(DeviceAt(list[i], s)) = FingerprintOf(list[i].device)
    <3>1. TAKE i \in DOMAIN list
    <3>2. list[i].device \in DeviceRecords
      BY <2>4, IndexedDeviceShape
    <3>3. QED
      BY <3>2 DEF FingerprintOf, DeviceAt, DeviceRecords
  <2>9. PICK active : active = {i \in DOMAIN list : /\ FingerprintOf(list[i].device) = fp
                                                    /\ DeviceActiveAt(list[i], s)}
    OBVIOUS
  <2>10. \A i \in active : DeviceAt(list[i], s) \in held
    <3>1. TAKE i \in active
    <3>2. i \in ActiveIn(t, s) /\ i \in DOMAIN list /\ FingerprintOf(list[i].device) = fp
      BY <2>3, <2>9 DEF ActiveIn
    <3>3. DeviceAt(list[i], s) \in D
      BY <2>7, <3>2
    <3>4. QED
      BY <1>1, <2>8, <3>2, <3>3
  <2>11. \A d \in held : active # {}
    <3>1. TAKE d \in held
    <3>2. d \in D /\ FingerprintOf(d) = fp
      BY <1>1
    <3>3. PICK i \in ActiveIn(t, s) : d = DeviceAt(list[i], s)
      BY <2>7, <3>2
    <3>4. i \in DOMAIN list /\ DeviceActiveAt(list[i], s)
      BY <2>3 DEF ActiveIn
    <3>5. FingerprintOf(list[i].device) = fp
      BY <2>8, <3>2, <3>3, <3>4
    <3>6. QED
      BY <2>9, <3>4, <3>5
  <2>12. CASE held = {}
    <3>1. active = {}
      BY <2>10, <2>12
    <3>2. DeviceStateAt(u, fp, s) = Absent
      BY <2>1, <2>3, <2>9, <3>1 DEF DeviceStateAt
    <3>3. QED
      BY <1>1, <2>12, <3>2
  <2>13. CASE held # {}
    <3>1. active # {} /\ active \subseteq Nat
      BY <2>4, <2>9, <2>11, <2>13
    <3>2. \E i \in active : \A j \in active : i <= j
      BY <3>1, FirstPosition
    <3>3. PICK k : k = CHOOSE i \in active : \A j \in active : i <= j
      OBVIOUS
    <3>4. k \in active
      BY <3>2, <3>3
    <3>5. PICK c : c = DeviceAt(list[k], s)
      OBVIOUS
    <3>6. c \in held
      BY <2>10, <3>4, <3>5
    <3>7. \A d \in held : c = d
      <4>1. TAKE d \in held
      <4>2. c.enc = d.enc
        BY <1>1, <3>6 DEF FingerprintOf
      <4>3. c \in snapshots[s].devices /\ d \in snapshots[s].devices
        BY <1>1, <3>6
      <4>4. QED
        BY <4>2, <4>3 DEF SnapshotInvariant
    <3>8. DeviceStateAt(u, fp, s) =
             [kind |-> "device", device |-> c,
              permission |-> EffectivePermission(CurrentAt(t.spans, s), c)]
      BY <1>3, <2>1, <2>3, <2>9, <3>1, <3>3, <3>5 DEF DeviceStateAt
    <3>9. EffectivePermission(CurrentAt(t.spans, s), c)
             = EffectivePermission(snapshots[s].members[u], c)
      BY <2>7 DEF EffectivePermission
    <3>10. QED
      BY <1>1, <2>13, <3>7, <3>8, <3>9
  <2>14. QED
    BY <2>12, <2>13
<1>4. QED
  BY <1>2, <1>3

\* The state that a new entry leaves is well-formed, and its keys lead to one device.
LEMMA SnapshotStep ==
    ASSUME SnapshotInvariant, Advances, TypeOK', KeyInvariant'
    PROVE  SnapshotInvariant'
<1>1. headSeq \in Nat \ {0} /\ headSeq + 1 \in Nat \ {0} /\ headSeq' = headSeq + 1
  BY DEF SnapshotInvariant, Advances
<1>2. Snapshot' \in SnapshotRecords
  BY DEF Snapshot, SnapshotRecords, TypeOK, IsMap
<1>3. snapshots' \in Seq(SnapshotRecords) /\ Len(snapshots') = headSeq + 1
  BY <1>2, Appending DEF SnapshotInvariant, Advances
<1>4. /\ \A s \in 1..headSeq : snapshots'[s] = snapshots[s]
      /\ snapshots'[headSeq + 1] = Snapshot'
  BY SnapshotsGrow
<1>5. /\ \A c, d \in devices' : c.enc = d.enc => c = d
      /\ \A d \in devices' : d.user \in DOMAIN members'
  BY DEF KeyInvariant, KeySubjectsUnique, PeopleMatchDevices
<1>6. ASSUME NEW s \in 1..headSeq + 1
      PROVE  /\ \A c, d \in snapshots'[s].devices : c.enc = d.enc => c = d
             /\ \A d \in snapshots'[s].devices : d.user \in DOMAIN snapshots'[s].members
  <2>1. CASE s \in 1..headSeq
    BY <1>4, <2>1 DEF SnapshotInvariant
  <2>2. CASE s = headSeq + 1
    BY <1>4, <1>5, <2>2 DEF Snapshot
  <2>3. QED
    BY <1>1, <2>1, <2>2
<1>7. QED
  BY <1>1, <1>3, <1>4, <1>6 DEF SnapshotInvariant

\* Every entry keeps the index what it is.
LEMMA IndexStep ==
    ASSUME TypeOK, KeyInvariant, TypeOK', KeyInvariant', IndexInvariant, [HistoryNext]_historyVars
    PROVE  IndexInvariant'
<1>1. SnapshotInvariant /\ EnvironmentIndex /\ PeopleIndexed /\ PastAgrees /\ headSeq \in Nat \ {0}
  BY DEF IndexInvariant, SnapshotInvariant
<1>2. ASSUME Advances, EnvironmentIndex', EnvironmentPastKept, \A u \in Users : PersonStep(u)
      PROVE  IndexInvariant'
  <2>1. SnapshotInvariant'
    BY <1>1, <1>2, SnapshotStep
  <2>2. PeopleIndexed'
    BY <1>2 DEF PeopleIndexed, PersonStep
  <2>3. ASSUME NEW s \in 1..headSeq, NEW u \in Users
        PROVE  MemberStateAt(u, s)' = MemberIn(s, u)'
    <3>1. MemberStateAt(u, s) = MemberIn(s, u)
      BY AgreesUpToHead DEF MembersAgree
    <3>2. MemberStateAt(u, s)' = MemberStateAt(u, s)
      BY <1>2 DEF PersonStep, PersonPastKept
    <3>3. MemberIn(s, u)' = MemberIn(s, u)
      BY <1>1, <1>2, MemberInKept
    <3>4. QED
      BY <3>1, <3>2, <3>3
  <2>4. ASSUME NEW s \in 1..headSeq, NEW e \in Envs
        PROVE  EnvironmentStateAt(e, s)' = EnvironmentIn(snapshots'[s], e)
    <3>1. EnvironmentStateAt(e, s) = EnvironmentIn(snapshots[s], e)
      BY AgreesUpToHead DEF EnvironmentsAgree
    <3>2. EnvironmentStateAt(e, s)' = EnvironmentStateAt(e, s)
      BY <1>2 DEF EnvironmentPastKept
    <3>3. snapshots'[s] = snapshots[s]
      BY <1>1, <1>2, SnapshotsGrow
    <3>4. QED
      BY <3>1, <3>2, <3>3
  <2>5. headSeq' - 1 = headSeq
    BY <1>1, <1>2 DEF Advances
  <2>6. PastAgrees'
    BY <2>3, <2>4, <2>5 DEF PastAgrees
  <2>7. QED
    BY <1>2, <2>1, <2>2, <2>6 DEF IndexInvariant
<1>3. CASE \E d \in devices, op \in Operations : AppliedEntry(op, d)
  <2>1. PICK d \in devices, op \in Operations : AppliedEntry(op, d)
    BY <1>3
  <2>2. Advances
    BY <2>1 DEF AppliedEntry, Advances, NextSeq
  <2>3. EnvironmentIndex' /\ EnvironmentPastKept
    BY <1>1, <2>1, EnvironmentsRecorded
  <2>4. \A u \in Users : PersonStep(u)
    BY <1>1, <2>1, <2>2, PeopleRecorded
  <2>5. QED
    BY <1>2, <2>2, <2>3, <2>4
<1>4. CASE EmptyEntry
  <2>1. Advances
    BY <1>4 DEF EmptyEntry, Advances, NextSeq
  <2>2. UNCHANGED <<members, devices, environments, tenures, environmentStarts>>
    BY <1>4 DEF EmptyEntry, StateUnchanged, memberVars, envVars, indexVars
  <2>3. EnvironmentIndex' /\ EnvironmentPastKept
    BY <1>1, <2>1, <2>2, EnvironmentsLeftAlone DEF Advances
  <2>4. \A u \in Users : PersonStep(u)
    BY <1>1, <2>1, <2>2, PeopleLeftAlone
  <2>5. QED
    BY <1>2, <2>1, <2>3, <2>4
<1>5. CASE UNCHANGED historyVars
  <2>1. UNCHANGED <<members, devices, serverGrants, environments, headSeq, tenures,
                    environmentStarts, snapshots>>
    BY <1>5 DEF historyVars, vars, memberVars, grantVars, envVars, indexVars
  <2>2. SnapshotInvariant' /\ EnvironmentIndex'
    BY <1>1, <2>1 DEF SnapshotInvariant, Snapshot, EnvironmentIndex, ShowsEnvironment
  <2>3. PeopleIndexed'
    BY <1>1, <2>1 DEF PeopleIndexed, PersonIndexed, TenuresOf, DevicesOf, MemberFrom
  <2>4. PastAgrees'
    <3>1. \A u, s : MemberStateAt(u, s)' = MemberStateAt(u, s)
      BY <2>1 DEF MemberStateAt, TenureIndexesAt, TenureAt, TenuresOf
    <3>2. \A u, s : MemberIn(s, u)' = MemberIn(s, u)
      <4>1. \A u, s : MemberSince(u, s)' = MemberSince(u, s)
        BY <2>1 DEF MemberSince
      <4>2. QED
        BY <2>1, <4>1 DEF MemberIn
    <3>3. \A e, s : EnvironmentStateAt(e, s)' = EnvironmentStateAt(e, s)
      BY <2>1 DEF EnvironmentStateAt
    <3>4. snapshots' = snapshots /\ headSeq' = headSeq
      BY <2>1
    <3>5. QED
      BY <1>1, <3>1, <3>2, <3>3, <3>4 DEF PastAgrees
  <2>5. QED
    BY <2>2, <2>3, <2>4 DEF IndexInvariant
<1>6. QED
  BY <1>3, <1>4, <1>5, HistoryCases

\* The genesis entry leaves one member with one device and no environment.
LEMMA IndexInit == HistoryInit => IndexInvariant
<1> SUFFICES ASSUME HistoryInit PROVE IndexInvariant
  OBVIOUS
<1>1. TypeOK /\ KeyInvariant
  BY InitTypeAndKeys DEF HistoryInit
<1>2. PICK g \in GenesisEntries :
        /\ members = [u \in {g.user} |-> [role |-> "owner", scope |-> ALL_SCOPE]]
        /\ devices = {FirstDevice(g.user, g, 1)}
        /\ environments = [e \in {} |-> Nothing]
        /\ headSeq = 1
        /\ applied = [operation |-> Genesis, by |-> FirstDevice(g.user, g, 1)]
  BY DEF HistoryInit, Init
<1>3. /\ tenures = [u \in DOMAIN members |-> <<NewTenure(members[u], applied.by, 1)>>]
      /\ environmentStarts = [e \in {} |-> Nothing] /\ snapshots = <<Snapshot>>
  BY DEF HistoryInit
<1>4. PICK v, m, x : /\ v = g.user /\ m = [role |-> "owner", scope |-> ALL_SCOPE]
                     /\ x = FirstDevice(v, g, 1)
  OBVIOUS
<1>5. /\ DOMAIN members = {v} /\ members[v] = m /\ devices = {x} /\ applied.by = x
  BY <1>2, <1>4
<1>6. v \in Users /\ x \in DeviceRecords /\ x.user = v /\ x.addedSeq = 1
  BY <1>1, <1>4, <1>5 DEF TypeOK, IsMap, FirstDevice
<1>7. m \in MemberStates /\ m.role = "owner" /\ m.scope = ALL_SCOPE
  BY <1>1, <1>4, <1>5 DEF TypeOK, IsMap
<1>8. SnapshotInvariant
  <2>1. Snapshot \in SnapshotRecords
    BY <1>1 DEF Snapshot, SnapshotRecords, TypeOK, IsMap
  <2>2. snapshots \in Seq(SnapshotRecords) /\ Len(snapshots) = 1 /\ snapshots[1] = Snapshot
    BY <1>3, <2>1
  <2>3. \A s \in 1..1 : s = 1
    OBVIOUS
  <2>4. /\ \A c, d \in devices : c.enc = d.enc => c = d
        /\ \A d \in devices : d.user \in DOMAIN members
    BY <1>5, <1>6
  <2>5. QED
    BY <1>2, <2>2, <2>3, <2>4 DEF SnapshotInvariant, Snapshot
<1>9. EnvironmentIndex
  BY <1>2, <1>3 DEF EnvironmentIndex
<1>10. PICK r, t : r = NewDeviceRecord(x) /\ t = NewTenure(m, x, 1)
  OBVIOUS
<1>11. /\ r \in IndexedDevices /\ DeviceBy(r, 1) /\ CurrentDevice(r) = x /\ r.revoked = 0
  BY <1>6, <1>10, NewDeviceShape
<1>12. PICK span, spans, held :
          /\ span = [from |-> 1, role |-> m.role, scope |-> m.scope]
          /\ spans = <<span>> /\ held = <<r>>
  OBVIOUS
<1>13. /\ t.start = 1 /\ t.end = 0 /\ t.devices = held /\ t.spans = spans
       /\ t = [start |-> 1, end |-> 0, devices |-> held, spans |-> spans]
  BY <1>10, <1>12 DEF NewTenure
<1>14. span \in Spans /\ span.from = 1 /\ span.role = m.role /\ span.scope = m.scope
  BY <1>7, <1>12 DEF Spans, MemberStates
<1>15. /\ spans \in Seq(Spans) /\ spans # <<>> /\ Len(spans) = 1 /\ spans[1] = span
       /\ Last(spans) = span
       /\ held \in Seq(IndexedDevices) /\ Len(held) = 1 /\ held[1] = r /\ DOMAIN held = 1..1
  BY <1>11, <1>12, <1>14 DEF Last
<1>16. \A i \in 1..1 : i = 1
  OBVIOUS
<1>17. t \in TenureRecords
  BY <1>13, <1>15 DEF TenureRecords
<1>18. TenureBy(t, 1)
  BY <1>11, <1>13, <1>14, <1>15, <1>16 DEF TenureBy
<1>19. ShowsMember(t, m, {x})
  <2>1. {j \in DOMAIN held : held[j].revoked = 0} = {1}
    BY <1>11, <1>15, <1>16
  <2>2. {CurrentDevice(held[i]) : i \in {j \in DOMAIN held : held[j].revoked = 0}} = {x}
    BY <1>11, <1>15, <2>1
  <2>3. QED
    BY <1>13, <1>14, <1>15, <2>2 DEF ShowsMember
<1>20. PersonIndexed(v)
  <2>1. PICK T : T = <<t>>
    OBVIOUS
  <2>2. TenuresOf(v) = T
    BY <1>3, <1>5, <1>10, <2>1 DEF TenuresOf
  <2>3. /\ T \in Seq(TenureRecords) /\ Len(T) = 1 /\ T[1] = t /\ T # <<>> /\ Last(T) = t
    BY <1>17, <2>1 DEF Last
  <2>4. IndexedBy(T, 1)
    BY <1>16, <1>18, <2>3 DEF IndexedBy
  <2>5. DevicesOf(v) = {x}
    BY <1>5, <1>6 DEF DevicesOf
  <2>6. MemberFrom(1, v, 1)
    <3>1. snapshots[1].members = members
      BY <1>3 DEF Snapshot
    <3>2. 1 \in 1..1
      OBVIOUS
    <3>3. QED
      BY <1>5, <1>16, <3>1, <3>2 DEF MemberFrom
  <2>7. QED
    BY <1>2, <1>5, <1>13, <1>19, <2>2, <2>3, <2>4, <2>5, <2>6 DEF PersonIndexed, Open
<1>21. ASSUME NEW u \in Users, u # v PROVE PersonIndexed(u)
  <2>1. u \notin DOMAIN members /\ TenuresOf(u) = <<>>
    BY <1>3, <1>5, <1>21 DEF TenuresOf
  <2>2. IndexedBy(<<>>, 1)
    <3>1. <<>> \in Seq(TenureRecords) /\ \A i \in 1..Len(<<>>) : FALSE
      OBVIOUS
    <3>2. QED
      BY <3>1 DEF IndexedBy
  <2>3. QED
    BY <1>2, <2>1, <2>2 DEF PersonIndexed, Open
<1>22. PeopleIndexed
  BY <1>20, <1>21 DEF PeopleIndexed
<1>23. PastAgrees
  BY <1>2 DEF PastAgrees
<1>24. QED
  BY <1>8, <1>9, <1>22, <1>23 DEF IndexInvariant

\* On every chain the index answers for every person, device and environment, at every
\* seq up to the head, what the chain state of that seq said: time travel is exact.
THEOREM TimeTravelIsExact == HistorySpec => []IndexAgrees
<1> DEFINE Inv == TypeOK /\ KeyInvariant /\ IndexInvariant
<1>1. HistoryInit => Inv
  BY InitTypeAndKeys, IndexInit DEF HistoryInit
<1>2. Inv /\ [HistoryNext]_historyVars => Inv'
  <2> SUFFICES ASSUME Inv, [HistoryNext]_historyVars PROVE Inv'
    OBVIOUS
  <2>1. [Next]_vars
    BY DEF HistoryNext, historyVars
  <2>2. TypeOK' /\ KeyInvariant'
    BY <2>1, TypeAndKeysStep
  <2>3. QED
    BY <2>2, IndexStep
<1>3. Inv => IndexAgrees
  <2> SUFFICES ASSUME Inv PROVE IndexAgrees
    OBVIOUS
  <2>1. MembersAgree /\ EnvironmentsAgree
    BY AgreesUpToHead
  <2>2. ASSUME NEW s \in 1..headSeq, NEW u \in Users, NEW fp
        PROVE  LET held == {d \in snapshots[s].devices : d.user = u /\ FingerprintOf(d) = fp}
               IN  IF held = {} THEN DeviceStateAt(u, fp, s) = Absent
                   ELSE \A d \in held : DeviceStateAt(u, fp, s) =
                           [kind |-> "device", device |-> d,
                            permission |-> EffectivePermission(snapshots[s].members[u], d)]
    BY <2>1, DeviceFollows DEF MembersAgree, IndexInvariant
  <2>3. DevicesAgree
    BY <2>2 DEF DevicesAgree
  <2>4. QED
    BY <2>1, <2>3 DEF IndexAgrees
<1>4. QED
  BY <1>1, <1>2, <1>3, PTL DEF HistorySpec
================================================================================
