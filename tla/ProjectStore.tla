------------------------------ MODULE ProjectStore ------------------------------
(***************************************************************************)
(* The Durable Object of one project (apps/server/src): the membership      *)
(* chain together with the tables the server keeps beside it (environment   *)
(* rows, DEK wraps, manifests, variables and their versions, checkpoint     *)
(* snapshots, head attestations), and every request that writes one of      *)
(* them.  A request runs alone (the DO serialises requests with a one-      *)
(* permit semaphore) and writes in a single synchronous block, so it is one *)
(* step; a rejected request changes nothing and is no step.                 *)
(*                                                                         *)
(* Left out: the parent-head CAS (an entry here is signed over the current  *)
(* head; an entry signed over another is rejected), names, schemas and      *)
(* descriptions, ciphertexts and signatures (a signed object carries the    *)
(* device that signed it and the chain head it declares), sizes and byte    *)
(* quotas, the audit log, and the token scopes checked before the DO.       *)
(***************************************************************************)
EXTENDS ChainHistory

CONSTANTS
    Variables,            \* variable ids
    MaxDevicesPerMember,  \* MAX_DEVICES_PER_MEMBER
    MaxPendingProposals,  \* MAX_PENDING_PROPOSALS
    MaxProposalLifetime,  \* MAX_PROPOSAL_LIFETIME_MS
    MaxMetaVersion,       \* bound on the meta statements of an environment or a variable
    MaxValueVersion       \* MAX_VERSIONS_PER_VARIABLE

ASSUME LimitsAssumption ==
    /\ MaxDevicesPerMember \in Nat \ {0}
    /\ MaxPendingProposals \in Nat
    /\ MaxProposalLifetime \in Nat
    /\ MaxMetaVersion \in Nat \ {0}
    /\ MaxValueVersion \in Nat

VARIABLES
    environmentRows,      \* environment -> latest meta version, deleted or not
    dekWraps,             \* rows of dek_wraps: environment, epoch, recipient class, id and key
    manifests,            \* environment -> its latest manifest
    variableRows,         \* <<environment, variable>> -> status, meta version, versions
    checkpointSnapshots,  \* environment -> latest tuple and the values it covers
    headAttestations      \* (user, device key) -> attested head seq

rowVars   == <<environmentRows, manifests, variableRows, checkpointSnapshots>>
storeVars == <<rowVars, dekWraps, headAttestations>>
allVars   == <<historyVars, storeVars>>

(***************************************************************************)
(* Authorization (data-guards.ts).  First stage: the person; second stage: *)
(* the device that signed.                                                 *)
(***************************************************************************)

RequireRoleInScope(u, minimum, e) ==
    /\ u \in DOMAIN members
    /\ AtLeast(members[u].role, minimum)
    /\ ScopeIncludesEnvironment(members[u].scope, e)

EnsureDevicePermission(d, minimum, e) ==
    /\ AtLeast(PermissionOf(d).role, minimum)
    /\ ScopeIncludesEnvironment(PermissionOf(d).scope, e)

\* The row exists and is no tombstone.
RequireActiveEnvironment(e) == e \in DOMAIN environmentRows /\ ~environmentRows[e].deleted

RequireActiveVariable(e, v) ==
    <<e, v>> \in DOMAIN variableRows /\ variableRows[<<e, v>>].status # "deleted"

(***************************************************************************)
(* Verification against the chain history (crypto package): what the       *)
(* server applies on acceptance and a client on every pull.                *)
(***************************************************************************)

\* The signing device was, at the declared head, one of that person, with role
\* member and the environment in scope.
HeadAuthorized(v, e, head) ==
    LET at == DeviceStateAt(v.user, FingerprintOf(v), head)
    IN  /\ head \in 1..headSeq
        /\ at # Absent
        /\ AtLeast(at.permission.role, "member")
        /\ ScopeIncludesEnvironment(at.permission.scope, e)

EpochCurrentAt(e, head, epoch) ==
    LET at == EnvironmentStateAt(e, head) IN at # Absent /\ at.epoch = epoch

\* verifyDistributedValue without the predecessor.
ValueVerifies(e, value) ==
    /\ HeadAuthorized(value.writer, e, value.head)
    /\ EpochCurrentAt(e, value.head, value.epoch)

\* A checkpoint of this version binds the epoch and the hash; without one, the
\* epoch is the one current at the declared head.
EpochIntegrity(e, m) ==
    LET tuple == CheckpointTupleFor(e, m.version)
    IN  IF tuple = Absent THEN EpochCurrentAt(e, m.head, m.epoch)
        ELSE tuple # Conflict /\ tuple.epoch = m.epoch /\ tuple.hash = m.hash

CheckpointIntegrity(e, m) ==
    e \in DOMAIN latestCheckpoints =>
        m.version >= latestCheckpoints[e].version /\ m.epoch >= latestCheckpoints[e].epoch

\* The meta state a manifest commits to, tombstones included.
DigestOf(e) ==
    [environment |-> environmentRows[e].metaVersion,
     variables |-> {<<k[2], variableRows[k].status, variableRows[k].metaVersion>> :
                       k \in {x \in DOMAIN variableRows : x[1] = e}}]

\* verifyDistributedEnvManifest without the digest and the predecessor.
ManifestVerifies(e, m) ==
    /\ HeadAuthorized(m.issuer, e, m.head)
    /\ EpochIntegrity(e, m)
    /\ CheckpointIntegrity(e, m)

(***************************************************************************)
(* Chain entries (programs-chain.ts, chain-accept.ts).                     *)
(***************************************************************************)

CompositeOps == {"create_environment", "rotate_epoch", "delete_environment"}

\* The limit counts the caller's devices before the entry.
DeviceAdmitted(d, op) ==
    op.op = "add_device" => Cardinality(DevicesOf(d.user)) < MaxDevicesPerMember

ProposalAdmitted(expires, now) ==
    /\ expires <= now + MaxProposalLifetime
    /\ Cardinality({id \in DOMAIN pendingProposals : pendingProposals[id].expiresAt >= now})
           < MaxPendingProposals

\* Variant: a member who comes back finds the wraps to the old keys again.
KeptMemberWraps(op) == dekWraps

\* deleteStaleMemberWraps: on an addition, the rows to the person's other keys go.
FreshMemberWraps(op) ==
    {r \in dekWraps : ~(/\ op.op = "add_member"
                        /\ r.kind = "member" /\ r.id = op.target /\ r.enc # op.enc)}

\* Variant: only a removed member's attestations go.
EndsMembershipOf(op, v) == op.op = "remove_member" /\ v.user = op.target

\* deleteHeadAttestation, deleteDeviceHeadAttestation.
EndsAttestationOf(op, v) ==
    \/ op.op = "remove_member" /\ v.user = op.target
    \/ op.op = "revoke_device" /\ v.user = op.target /\ FingerprintOf(v) \in op.fps

\* applyAcceptanceSideEffectsSync, on what the entry applied: for a completing
\* approve, the inner operation.
SideEffects(op) ==
    /\ dekWraps' = FreshMemberWraps(op)
    /\ headAttestations' = [v \in {w \in DOMAIN headAttestations : ~EndsAttestationOf(op, w)} |->
                               headAttestations[v]]
    /\ UNCHANGED rowVars

\* appendProgram: the entries that need no composite request.
AcceptEntry(d) ==
    \/ \E op \in Operations :
          /\ op.op \notin CompositeOps \cup {"checkpoint"}
          /\ DeviceAdmitted(d, op)
          /\ Direct(d, op)
    \/ \E op \in Operations, expires, now \in Timestamps :
          ProposalAdmitted(expires, now) /\ Propose(d, op, expires)
    \/ \E id \in DOMAIN pendingProposals, now \in Timestamps : ApproveVote(d, id, now)
    \/ \E id \in DOMAIN pendingProposals, now \in Timestamps : ApproveComplete(d, id, now)
    \/ \E id \in DOMAIN pendingProposals : Withdraw(d, id)

AppendEntry(d) ==
    /\ AcceptEntry(d)
    /\ Record
    /\ SideEffects(applied'.operation)

(***************************************************************************)
(* Composite requests (composite-programs.ts).                             *)
(***************************************************************************)

\* Variant: a new epoch is sealed to everybody who held the one before it.
HolderSet(e, epoch) ==
    {[r EXCEPT !.epoch = epoch] : r \in {x \in dekWraps : x.env = e /\ x.epoch = epoch - 1}}

\* The complete wrap set for R(E), as rows.
WrapSet(e, epoch) ==
    {[env |-> e, epoch |-> epoch, kind |-> r.kind, id |-> r.id, enc |-> r.enc] :
        r \in RecipientsIn(Snapshot, e)}

\* checkpointValueEntries: the latest version of every variable that has one.
CurrentValues(e) ==
    [v \in {w \in Variables : /\ RequireActiveVariable(e, w)
                              /\ variableRows[<<e, w>>].versions # <<>>} |->
        [version |-> Len(variableRows[<<e, v>>].versions),
         value |-> Last(variableRows[<<e, v>>].versions)]]

\* upsertCheckpointSnapshot for every tuple of a checkpoint at seq.
SnapshotsAfter(op, seq) ==
    LET attested == {t.env : t \in op.tuples}
        tupleOf(e) == CHOOSE t \in op.tuples : t.env = e
    IN  [e \in DOMAIN checkpointSnapshots \cup attested |->
            IF e \in attested
            THEN [checkpoint |-> CheckpointOf(tupleOf(e), seq), values |-> CurrentValues(e)]
            ELSE checkpointSnapshots[e]]

\* insertAcceptedEntryPairSync: the entry op at H+1, signed by d, and a checkpoint of
\* its environment at H+2, signed by a device c of the same person.
EntryPair(d, op, after, starts, checkpoint) ==
    /\ headSeq + 2 <= MaxChainEntries
    /\ RoleRule(op, d)
    /\ ConsensusRule(op, d)
    /\ \E c \in DevicesOf(d.user) :
          /\ RoleRule(checkpoint, c)
          /\ ScopeIncludesEnvironment(PermissionOf(c).scope, op.env)
          /\ applied' = [operation |-> checkpoint, by |-> c]
    /\ \A t \in checkpoint.tuples :
          op.env \in DOMAIN checkpoints => t.version >= checkpoints[op.env].version
    /\ headSeq' = headSeq + 2
    /\ environments' = after
    /\ environmentStarts' = starts
    /\ checkpoints' = WithTuples(checkpoints, checkpoint, headSeq + 2)
    /\ latestCheckpoints' = WithTuples(latestCheckpoints, checkpoint, headSeq + 2)
    /\ checkpointTuples' = TuplesAfterCheckpoint(checkpoint, headSeq + 2)
    /\ checkpointSnapshots' = SnapshotsAfter(checkpoint, headSeq + 2)
    /\ UNCHANGED <<memberVars, grantVars, approvalPolicy, pendingProposals, ballots, tenures>>
    /\ snapshots' = snapshots \o <<Snapshot', Snapshot'>>
    /\ attestations' = attestations \cup
           {[seq |-> headSeq + 2, tuple |-> t] : t \in checkpoint.tuples}

\* ensureBoundaryCheckpointShape: one tuple, at the epoch and version of the manifest.
BoundaryCheckpoint(e, m, hash) ==
    [op |-> "checkpoint", auditHead |-> FALSE,
     tuples |-> {[env |-> e, epoch |-> m.epoch, version |-> m.version, hash |-> hash]}]

\* The manifest that d issues for e over the present head, or the declared one.
Manifest(e, d, version, epoch, hash, head) ==
    [version |-> version, epoch |-> epoch, hash |-> hash, head |-> head,
     issuer |-> VoteOf(d), digest |-> DigestOf(e)']

\* acceptBoundaryCheckpointPair: the entry, its checkpoint and the manifest m, which
\* is verified against the chain with both in it (its declared head lies before them).
AcceptPair(d, op, after, starts, m, tupleHash) ==
    /\ EntryPair(d, op, after, starts, BoundaryCheckpoint(op.env, m, tupleHash))
    /\ HeadAuthorized(m.issuer, op.env, m.head)
    /\ EpochIntegrity(op.env, m)'
    /\ CheckpointIntegrity(op.env, m)'
    /\ manifests' = WithKey(manifests, op.env, m)
    /\ dekWraps' = dekWraps \cup WrapSet(op.env, m.epoch)

CreateEnvironment(d, op, hash, tupleHash) ==
    /\ op.op = "create_environment"
    /\ RequireRoleInScope(d.user, "member", op.env)
    /\ EnsureDevicePermission(d, "member", op.env)
    /\ HeadAuthorized(VoteOf(d), op.env, headSeq)
    /\ environmentRows' = WithKey(environmentRows, op.env, [metaVersion |-> 1, deleted |-> FALSE])
    /\ UNCHANGED <<variableRows, headAttestations>>
    /\ \E m \in {Manifest(op.env, d, 1, 1, hash, headSeq)} :
          AcceptPair(d, op, EnvironmentsAfterCreate(op, headSeq + 1),
                     StartsAfterCreate(op, headSeq + 1), m, tupleHash)

RotateEpoch(d, op, hash, tupleHash) ==
    /\ op.op = "rotate_epoch"
    /\ RequireRoleInScope(d.user, "member", op.env)
    /\ EnsureDevicePermission(d, "member", op.env)
    /\ RequireActiveEnvironment(op.env)
    /\ op.epoch >= manifests[op.env].epoch
    /\ UNCHANGED <<environmentRows, variableRows, headAttestations>>
    /\ \E m \in {Manifest(op.env, d, manifests[op.env].version + 1, op.epoch, hash, headSeq)} :
          AcceptPair(d, op, EnvironmentsAfterRotate(op, headSeq + 1),
                     StartsAfterRotate(op, headSeq + 1), m, tupleHash)

\* Variant: the wraps of the environment are left behind.
RetireEnvironmentRows(e) ==
    /\ environmentRows' = [environmentRows EXCEPT ![e].deleted = TRUE]
    /\ variableRows' = [k \in {x \in DOMAIN variableRows : x[1] # e} |-> variableRows[k]]
    /\ manifests' = WithoutKey(manifests, e)
    /\ checkpointSnapshots' = WithoutKey(checkpointSnapshots, e)
    /\ UNCHANGED dekWraps

\* retireEnvironment: a tombstone, and nothing else of the environment.
RetireEnvironment(e) ==
    /\ environmentRows' = [environmentRows EXCEPT ![e].deleted = TRUE]
    /\ variableRows' = [k \in {x \in DOMAIN variableRows : x[1] # e} |-> variableRows[k]]
    /\ manifests' = WithoutKey(manifests, e)
    /\ checkpointSnapshots' = WithoutKey(checkpointSnapshots, e)
    /\ dekWraps' = {r \in dekWraps : r.env # e}

DeleteEnvironment(d, op) ==
    /\ op.op = "delete_environment"
    /\ EnsureDevicePermission(d, "admin", op.env)
    /\ Direct(d, op)
    /\ Record
    /\ RetireEnvironment(op.env)
    /\ UNCHANGED headAttestations

\* Variant: any hash is notarised for the stored version.
AttestsVersion(t) == manifests[t.env].version = t.version

\* ensureCheckpointTupleState: the tuple names the stored manifest.
AttestsStored(t) == manifests[t.env].version = t.version /\ manifests[t.env].hash = t.hash

\* standaloneCheckpointProgram.
StandaloneCheckpoint(d, op) ==
    /\ op.op = "checkpoint"
    /\ Direct(d, op)
    /\ \A t \in op.tuples : AttestsStored(t)
    /\ Record
    /\ checkpointSnapshots' = SnapshotsAfter(op, headSeq + 1)
    /\ UNCHANGED <<environmentRows, manifests, variableRows, dekWraps, headAttestations>>

(***************************************************************************)
(* DEK wraps (programs-dek.ts, dek-wraps.ts).                              *)
(***************************************************************************)

CheckServerRecipient(e, r) ==
    r.id \in DOMAIN serverGrants /\ r.enc = r.id /\ e \in serverGrants[r.id].ids

\* Variant: any device of a member, whatever the scopes.
CheckMemberKey(e, r) == \E d \in DevicesOf(r.id) : d.enc = r.enc

CheckMemberRecipient(e, r) ==
    \E d \in DevicesOf(r.id) :
        d.enc = r.enc /\ ScopeIncludesEnvironment(PermissionOf(d).scope, e)

\* Every row a request may carry that names a current recipient of e.
AcceptableRows(e) ==
         {r \in [env : {e}, epoch : 1..environments[e].epoch, kind : {"member"},
                 id : DOMAIN members, enc : memberEncPubs] : CheckMemberRecipient(e, r)}
    \cup {r \in [env : {e}, epoch : 1..environments[e].epoch, kind : {"server"},
                 id : DOMAIN serverGrants, enc : DOMAIN serverGrants] : CheckServerRecipient(e, r)}

\* The primary key: no recipient class in it.
WrapStorageKey(r) == <<r.env, r.epoch, r.id, r.enc>>

\* Variant: a row of the other class does not occupy the slot.
RowStored(r) == r \in dekWraps

SlotTaken(r) == \E s \in dekWraps : WrapStorageKey(s) = WrapStorageKey(r)

\* An epoch without rows takes a complete set only, one with rows no taken slot.
CheckWrapSets(e, rows) ==
    \A n \in {r.epoch : r \in rows} :
        IF \E r \in dekWraps : r.env = e /\ r.epoch = n
        THEN \A r \in rows : r.epoch = n => ~SlotTaken(r)
        ELSE Cardinality({r \in rows : r.epoch = n}) = Cardinality(RecipientsIn(Snapshot, e))

AllRecipientsAreOwnDevices(u, rows) ==
    \A r \in rows : r.kind = "member" /\ r.id = u /\ \E d \in DevicesOf(u) : d.enc = r.enc

RegisterDekWraps(d, e, rows) ==
    LET required == IF AllRecipientsAreOwnDevices(d.user, rows) THEN "reader" ELSE "member"
    IN  /\ rows # {}
        /\ RequireRoleInScope(d.user, required, e)
        /\ RequireActiveEnvironment(e)
        /\ \A q, r \in rows : WrapStorageKey(q) = WrapStorageKey(r) => q = r
        /\ CheckWrapSets(e, rows)
        /\ EnsureDevicePermission(d, required, e)
        /\ dekWraps' = dekWraps \cup rows
        /\ UNCHANGED <<historyVars, rowVars, headAttestations>>

\* Unsigned: judged on the person alone.
DeleteDekWraps(u, e, rows) ==
    /\ rows # {}
    /\ RequireRoleInScope(u, "admin", e)
    /\ RequireActiveEnvironment(e)
    /\ dekWraps' = {s \in dekWraps : \A r \in rows : WrapStorageKey(s) # WrapStorageKey(r)}
    /\ UNCHANGED <<historyVars, rowVars, headAttestations>>

(***************************************************************************)
(* Variables, values and manifests (programs-variable.ts,                  *)
(* programs-environment.ts).                                               *)
(***************************************************************************)

\* What every signed write of environment data needs; the statement may declare
\* any head at which its author was authorised.
MayWrite(d, e) ==
    /\ RequireRoleInScope(d.user, "member", e)
    /\ RequireActiveEnvironment(e)
    /\ EnsureDevicePermission(d, "member", e)

\* The heads d may declare in what it signs for e.
DeclarableHeads(d, e) == {head \in 1..headSeq : HeadAuthorized(VoteOf(d), e, head)}

StatementAccepted(d, e) == DeclarableHeads(d, e) # {}

\* acceptManifestForMetaOp: the next manifest verifies against the chain, and is stored
\* over the state the operation leaves.
ManifestAcceptable(d, e, epoch, hash, head) ==
    /\ epoch >= manifests[e].epoch
    /\ ManifestVerifies(e, [version |-> manifests[e].version + 1, epoch |-> epoch, hash |-> hash,
                            head |-> head, issuer |-> VoteOf(d)])

AcceptManifest(d, e, epoch, hash, head) ==
    manifests' = [manifests EXCEPT ![e] =
        Manifest(e, d, manifests[e].version + 1, epoch, hash, head)]

\* Variant: the writer is judged by the present only.
AcceptValueNow(e, versions, value) ==
    /\ value.epoch = environments[e].epoch
    /\ versions # <<>> => value.epoch >= Last(versions).epoch
    /\ Len(versions) < MaxValueVersion

\* ensureValueCas, ensureValueSignature.
AcceptValue(e, versions, value) ==
    /\ value.epoch = environments[e].epoch
    /\ ValueVerifies(e, value)
    /\ versions # <<>> => value.epoch >= Last(versions).epoch
    /\ Len(versions) < MaxValueVersion

Value(d, epoch, head) == [epoch |-> epoch, head |-> head, writer |-> VoteOf(d)]

\* Variant: the id of a deleted variable can be used again.
VariableIdExists(e, v) == RequireActiveVariable(e, v)

\* A tombstone keeps its id.
VariableIdUnavailable(e, v) == <<e, v>> \in DOMAIN variableRows

\* With a value the variable starts active, without one declared.
CreateVariable(d, e, v, values) ==
    /\ MayWrite(d, e)
    /\ StatementAccepted(d, e)
    /\ ~VariableIdUnavailable(e, v)
    /\ \A i \in DOMAIN values : AcceptValue(e, <<>>, values[i])
    /\ variableRows' = WithKey(variableRows, <<e, v>>,
           [status |-> IF values = <<>> THEN "declared" ELSE "active",
            metaVersion |-> 1, versions |-> values])

\* Declared to active, with the first value.
ActivateVariable(d, e, v, value) ==
    /\ MayWrite(d, e)
    /\ StatementAccepted(d, e)
    /\ RequireActiveVariable(e, v)
    /\ variableRows[<<e, v>>].status = "declared"
    /\ variableRows[<<e, v>>].metaVersion < MaxMetaVersion
    /\ AcceptValue(e, variableRows[<<e, v>>].versions, value)
    /\ variableRows' = [variableRows EXCEPT ![<<e, v>>] =
           [status |-> "active", metaVersion |-> @.metaVersion + 1,
            versions |-> Append(@.versions, value)]]

\* A rename or a schema reissue keeps the status.
RenameVariable(d, e, v) ==
    /\ MayWrite(d, e)
    /\ StatementAccepted(d, e)
    /\ RequireActiveVariable(e, v)
    /\ variableRows[<<e, v>>].metaVersion < MaxMetaVersion
    /\ variableRows' = [variableRows EXCEPT ![<<e, v>>].metaVersion = @ + 1]

\* The limit on meta versions never blocks a deletion.
DeleteVariable(d, e, v) ==
    /\ MayWrite(d, e)
    /\ StatementAccepted(d, e)
    /\ RequireActiveVariable(e, v)
    /\ variableRows' = [variableRows EXCEPT ![<<e, v>>] =
           [status |-> "deleted", metaVersion |-> @.metaVersion + 1, versions |-> <<>>]]

\* A meta operation: the variable's row changes and a manifest covers it.
VariableMetaOp(d, e, v, epoch, hash, head) ==
    /\ ManifestAcceptable(d, e, epoch, hash, head)
    /\ \/ CreateVariable(d, e, v, <<>>)
       \/ \E at \in 1..headSeq : CreateVariable(d, e, v, <<Value(d, environments[e].epoch, at)>>)
       \/ \E at \in 1..headSeq : ActivateVariable(d, e, v, Value(d, environments[e].epoch, at))
       \/ RenameVariable(d, e, v)
       \/ DeleteVariable(d, e, v)
    /\ UNCHANGED <<historyVars, environmentRows, checkpointSnapshots, dekWraps, headAttestations>>
    /\ AcceptManifest(d, e, epoch, hash, head)

\* A push bundles neither a statement nor a manifest.
PushVersion(d, e, v, value) ==
    /\ MayWrite(d, e)
    /\ RequireActiveVariable(e, v)
    /\ variableRows[<<e, v>>].status # "declared"
    /\ AcceptValue(e, variableRows[<<e, v>>].versions, value)
    /\ variableRows' = [variableRows EXCEPT ![<<e, v>>].versions = Append(@, value)]
    /\ UNCHANGED <<historyVars, environmentRows, manifests, checkpointSnapshots,
                   dekWraps, headAttestations>>

RenameEnvironment(d, e, epoch, hash, head) ==
    /\ MayWrite(d, e)
    /\ StatementAccepted(d, e)
    /\ ManifestAcceptable(d, e, epoch, hash, head)
    /\ environmentRows[e].metaVersion < MaxMetaVersion
    /\ environmentRows' = [environmentRows EXCEPT ![e].metaVersion = @ + 1]
    /\ UNCHANGED <<historyVars, variableRows, checkpointSnapshots, dekWraps, headAttestations>>
    /\ AcceptManifest(d, e, epoch, hash, head)

\* putHeadAttestationProgram: only a later head replaces the stored one.
PutHeadAttestation(d, head) ==
    /\ DeviceStateAt(d.user, FingerprintOf(d), head) # Absent
    /\ VoteOf(d) \in DOMAIN headAttestations => headAttestations[VoteOf(d)] < head
    /\ headAttestations' = WithKey(headAttestations, VoteOf(d), head)
    /\ UNCHANGED <<historyVars, rowVars, dekWraps>>

(***************************************************************************)
(* The specification.                                                      *)
(***************************************************************************)

StoreInit ==
    /\ HistoryInit
    /\ environmentRows = [e \in {} |-> Nothing]
    /\ dekWraps = {}
    /\ manifests = [e \in {} |-> Nothing]
    /\ variableRows = [k \in {} |-> Nothing]
    /\ checkpointSnapshots = [e \in {} |-> Nothing]
    /\ headAttestations = [v \in {} |-> Nothing]

CompositeRequest(d) ==
    \E op \in Operations, hash, tupleHash \in ManifestHashes :
        \/ CreateEnvironment(d, op, hash, tupleHash)
        \/ RotateEpoch(d, op, hash, tupleHash)

ChainRequest(d) ==
    \E op \in Operations : DeleteEnvironment(d, op) \/ StandaloneCheckpoint(d, op)

WrapRequest(d) ==
    \E e \in LiveEnvironments :
        \/ \E rows \in SUBSET AcceptableRows(e) : RegisterDekWraps(d, e, rows)
        \/ \E rows \in SUBSET {r \in dekWraps : r.env = e} : DeleteDekWraps(d.user, e, rows)

\* (A manifest of an epoch older than the stored one, or over a head its issuer was
\* not authorised at, is rejected: not enumerated.)
DataRequest(d) ==
    \E e \in LiveEnvironments :
        \/ \E v \in Variables, at \in 1..headSeq :
              PushVersion(d, e, v, Value(d, environments[e].epoch, at))
        \/ /\ MayWrite(d, e)
           /\ \E at \in DeclarableHeads(d, e), hash \in ManifestHashes,
                 epoch \in manifests[e].epoch..environments[e].epoch :
                 \/ RenameEnvironment(d, e, epoch, hash, at)
                 \/ \E v \in Variables : VariableMetaOp(d, e, v, epoch, hash, at)

StoreNext ==
    \E d \in devices :
        \/ AppendEntry(d)
        \/ CompositeRequest(d)
        \/ ChainRequest(d)
        \/ WrapRequest(d)
        \/ DataRequest(d)
        \/ \E head \in 1..headSeq : PutHeadAttestation(d, head)

StoreSpec == StoreInit /\ [][StoreNext]_allVars

(***************************************************************************)
(* Properties.                                                             *)
(***************************************************************************)

\* No two rows share a primary key, even when a removed member's user id is the
\* name of a server key granted later: an accepted request never fails on insert
\* (wrapStorageKey, checkWrapSets).
SlotsUnique == \A r, s \in dekWraps : WrapStorageKey(r) = WrapStorageKey(s) => r = s

\* The tables and the chain agree: an environment is live on the chain exactly if
\* it has a live row, a manifest and a checkpoint snapshot, and that snapshot
\* mirrors the chain's latest checkpoint; a deleted one keeps its tombstone and
\* owns nothing; wraps name epochs that have begun, each in a slot of its own.  (So the server's "composite
\* atomicity" faults in composite-programs.ts and checkpoint-accept.ts are unreachable.)
StoreMatchesChain ==
    /\ DOMAIN environmentRows = DOMAIN environments
    /\ \A e \in DOMAIN environments : environmentRows[e].deleted <=> IsDeleted(e)
    /\ DOMAIN manifests = LiveEnvironments
    /\ DOMAIN checkpointSnapshots = LiveEnvironments
    /\ \A e \in LiveEnvironments :
          /\ checkpointSnapshots[e].checkpoint = checkpoints[e]
          /\ manifests[e].epoch = environments[e].epoch
    /\ \A k \in DOMAIN variableRows : k[1] \in LiveEnvironments
    /\ \A r \in dekWraps : r.env \in LiveEnvironments /\ r.epoch \in 1..environments[r.env].epoch
    /\ SlotsUnique

\* Rotation cuts off: the key of an epoch is only ever wrapped to recipients that
\* were in R(E) at some head since that epoch began, so who left before a rotation
\* holds nothing of what came after it (ensureCompositeWrapSet, checkWrapRecipient).
SealedWithinReach ==
    \A r \in dekWraps :
        \E s \in environments[r.env].epochStarts[r.epoch]..headSeq :
            [kind |-> r.kind, id |-> r.id, enc |-> r.enc] \in RecipientsIn(snapshots[s], r.env)

\* A member who left and came back is never offered a wrap sealed to a key of an
\* earlier membership: every member row of a current member names a key that the
\* present tenure has registered (deleteStaleMemberWraps).
WrapsOfPresentTenure ==
    \A r \in dekWraps :
        r.kind = "member" /\ r.id \in DOMAIN members =>
            \E i \in DOMAIN Last(tenures[r.id]).devices :
                Last(tenures[r.id]).devices[i].device.enc = r.enc

\* Every stored head attestation is of a device that is on the chain now and was
\* on it, for that same person, at the head it attests (deleteHeadAttestation,
\* deleteDeviceHeadAttestation, putHeadAttestationProgram).
AttestationsCurrent ==
    \A v \in DOMAIN headAttestations :
        /\ IsLiveVote(v)
        /\ DeviceStateAt(v.user, FingerprintOf(v), headAttestations[v]) # Absent

\* Whatever is stored still passes the verification a client runs on it against
\* the chain of now, however the chain has grown since it was accepted: the
\* manifest of every live environment, and every version of every value, with
\* epochs that never fall (acceptEnvManifest, ensureValueSignature).
ServedVerifies ==
    /\ \A e \in LiveEnvironments : /\ ManifestVerifies(e, manifests[e])
                                  /\ manifests[e].digest = DigestOf(e)
    /\ \A k \in DOMAIN variableRows :
          LET versions == variableRows[k].versions
          IN  /\ \A i \in DOMAIN versions : ValueVerifies(k[1], versions[i])
              /\ \A i, j \in DOMAIN versions : i < j => versions[i].epoch <= versions[j].epoch

\* The server never makes the chain contradict itself or its tables: no manifest
\* version is attested with two contents, none that is not yet stored, and the
\* stored one only as it is stored (ensureCheckpointTupleState).
NoEquivocation ==
    \A c \in DOMAIN checkpointTuples :
        /\ checkpointTuples[c] # Conflict
        /\ c[1] \in LiveEnvironments =>
              /\ c[2] <= manifests[c[1]].version
              /\ c[2] = manifests[c[1]].version =>
                    /\ checkpointTuples[c].epoch = manifests[c[1]].epoch
                    /\ checkpointTuples[c].hash = manifests[c[1]].hash

\* What a checkpoint covered is never rewritten or rolled back: a variable in the
\* latest snapshot either still has that very version, followed by newer ones, or
\* is a tombstone (variableIdUnavailable, ensureValueCas).
CheckpointedValuesKept ==
    \A e \in DOMAIN checkpointSnapshots : \A v \in DOMAIN checkpointSnapshots[e].values :
        LET covered == checkpointSnapshots[e].values[v]
            row == variableRows[<<e, v>>]
        IN  \/ row.status = "deleted"
            \/ covered.version \in DOMAIN row.versions /\ row.versions[covered.version] = covered.value

\* What data-guards.ts says of its second stage: whoever passes the person check
\* and the declared-head check of a value also passes the device check.
SecondStageRedundant ==
    \A d \in devices, e \in LiveEnvironments, head \in 1..headSeq :
        /\ RequireRoleInScope(d.user, "member", e)
        /\ ValueVerifies(e, Value(d, environments[e].epoch, head))
        => EnsureDevicePermission(d, "member", e)

=============================================================================
