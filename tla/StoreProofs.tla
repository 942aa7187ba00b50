------------------------------ MODULE StoreProofs ------------------------------
(***************************************************************************)
(* Theorems about ProjectStore: the tables of the Durable Object agree with *)
(* the chain, keys are sealed only within reach, and what was accepted once *)
(* still verifies, whatever entries and requests follow.                    *)
(***************************************************************************)
EXTENDS ProjectStore, ChainProofs

(***************************************************************************)
(* Requests.  One that is only an entry of the chain is a step of           *)
(* ChainHistory, a composite one brings two entries at once, every other    *)
(* one leaves the chain alone.                                              *)
(***************************************************************************)

\* An entry that is only appended, with its side effects.
Appended ==
    /\ HistoryNext
    /\ applied'.operation.op \notin CompositeOps \cup {"checkpoint"}
    /\ SideEffects(applied'.operation)

BoundaryTuple(e, m, h) == [env |-> e, epoch |-> m.epoch, version |-> m.version, hash |-> h]

\* What creating and rotating have in common: a checkpoint of the manifest m with hash h.
PairStep(d, e, m, h) ==
    /\ headSeq' = headSeq + 2
    /\ UNCHANGED <<memberVars, grantVars, approvalPolicy, pendingProposals, ballots, tenures>>
    /\ UNCHANGED <<variableRows, headAttestations>>
    /\ snapshots' = snapshots \o <<Snapshot', Snapshot'>>
    /\ \E c \in DevicesOf(d.user) : applied' = [operation |-> BoundaryCheckpoint(e, m, h), by |-> c]
    /\ checkpoints' = WithKey(checkpoints, e, CheckpointOf(BoundaryTuple(e, m, h), headSeq + 2))
    /\ latestCheckpoints' =
          WithKey(latestCheckpoints, e, CheckpointOf(BoundaryTuple(e, m, h), headSeq + 2))
    /\ checkpointTuples' =
          WithKey(checkpointTuples, <<e, m.version>>,
                  MergedTuple(BoundaryTuple(e, m, h), headSeq + 2))
    /\ checkpointSnapshots' =
          WithKey(checkpointSnapshots, e,
                  [checkpoint |-> CheckpointOf(BoundaryTuple(e, m, h), headSeq + 2),
                   values |-> CurrentValues(e)])
    /\ manifests' = WithKey(manifests, e, m)
    /\ m.issuer = VoteOf(d) /\ m.head = headSeq /\ m.hash \in ManifestHashes
    /\ m.digest = DigestOf(e)'
    /\ HeadAuthorized(m.issuer, e, m.head)
    /\ EpochIntegrity(e, m)'
    /\ CheckpointIntegrity(e, m)'
    /\ dekWraps' = dekWraps \cup WrapSet(e, m.epoch)

Created(op, m) ==
    /\ op.op = "create_environment" /\ op.env \notin DOMAIN environments
    /\ environments' = EnvironmentsAfterCreate(op, NextSeq)
    /\ environmentStarts' = StartsAfterCreate(op, NextSeq)
    /\ environmentRows' = WithKey(environmentRows, op.env, [metaVersion |-> 1, deleted |-> FALSE])
    /\ m.epoch = 1 /\ m.version = 1

Rotated(op, m) ==
    /\ op.op = "rotate_epoch" /\ op.env \in LiveEnvironments
    /\ op.epoch = environments[op.env].epoch + 1
    /\ environments' = EnvironmentsAfterRotate(op, NextSeq)
    /\ environmentStarts' = StartsAfterRotate(op, NextSeq)
    /\ UNCHANGED environmentRows
    /\ m.epoch = op.epoch /\ m.version = manifests[op.env].version + 1

\* With one tuple, a checkpoint sets one entry of every table of checkpoints.
LEMMA BoundarySets ==
    ASSUME NEW e, NEW m, NEW h, NEW seq, NEW latest
    PROVE  /\ WithTuples(latest, BoundaryCheckpoint(e, m, h), seq)
                 = WithKey(latest, e, CheckpointOf(BoundaryTuple(e, m, h), seq))
           /\ TuplesAfterCheckpoint(BoundaryCheckpoint(e, m, h), seq)
                 = WithKey(checkpointTuples, <<e, m.version>>,
                           MergedTuple(BoundaryTuple(e, m, h), seq))
           /\ SnapshotsAfter(BoundaryCheckpoint(e, m, h), seq)
                 = WithKey(checkpointSnapshots, e,
                           [checkpoint |-> CheckpointOf(BoundaryTuple(e, m, h), seq),
                            values |-> CurrentValues(e)])
<1>1. PICK t : t = BoundaryTuple(e, m, h)
  OBVIOUS
<1>2. t.env = e /\ t.version = m.version
  BY <1>1 DEF BoundaryTuple
<1>3. BoundaryCheckpoint(e, m, h).tuples = {t}
  BY <1>1 DEF BoundaryCheckpoint, BoundaryTuple
<1>4. /\ {x.env : x \in {t}} = {e}
      /\ {<<x.env, x.version>> : x \in {t}} = {<<e, m.version>>}
      /\ (CHOOSE x \in {t} : x.env = e) = t
      /\ (CHOOSE x \in {t} : <<x.env, x.version>> = <<e, m.version>>) = t
  BY <1>2
<1>5. WithTuples(latest, BoundaryCheckpoint(e, m, h), seq) = WithKey(latest, e, CheckpointOf(t, seq))
  BY <1>3, <1>4 DEF WithTuples, WithKey
<1>6. TuplesAfterCheckpoint(BoundaryCheckpoint(e, m, h), seq)
         = WithKey(checkpointTuples, <<e, m.version>>, MergedTuple(t, seq))
  BY <1>3, <1>4 DEF TuplesAfterCheckpoint, WithKey
<1>7. SnapshotsAfter(BoundaryCheckpoint(e, m, h), seq)
         = WithKey(checkpointSnapshots, e,
                   [checkpoint |-> CheckpointOf(t, seq), values |-> CurrentValues(e)])
  BY <1>3, <1>4 DEF SnapshotsAfter, WithKey
<1>8. QED
  BY <1>1, <1>5, <1>6, <1>7

\* A composite request is the creation or the rotation of one environment.
LEMMA CompositeCases ==
    ASSUME NEW d \in devices, CompositeRequest(d)
    PROVE  \E op \in Operations : \E m, h :
              /\ h \in ManifestHashes
              /\ PairStep(d, op.env, m, h)
              /\ Created(op, m) \/ Rotated(op, m)
<1>1. PICK op \in Operations, hash, h \in ManifestHashes :
         CreateEnvironment(d, op, hash, h) \/ RotateEpoch(d, op, hash, h)
  BY DEF CompositeRequest
<1>2. PICK e : e = op.env
  OBVIOUS
<1>3. ASSUME NEW m, NEW version, NEW epoch, NEW after, NEW starts, hash \in ManifestHashes,
             m = Manifest(e, d, version, epoch, hash, headSeq),
             AcceptPair(d, op, after, starts, m, h),
             UNCHANGED <<variableRows, headAttestations>>
      PROVE  /\ PairStep(d, e, m, h) /\ m.version = version /\ m.epoch = epoch
             /\ environments' = after /\ environmentStarts' = starts /\ ConsensusRule(op, d)
  <2>1. /\ m.version = version /\ m.epoch = epoch /\ m.hash = hash /\ m.head = headSeq
        /\ m.issuer = VoteOf(d) /\ m.digest = DigestOf(e)'
    BY <1>3 DEF Manifest
  <2>2. PICK checkpoint : checkpoint = BoundaryCheckpoint(e, m, h)
    OBVIOUS
  <2>3. EntryPair(d, op, after, starts, checkpoint)
    BY <1>2, <1>3, <2>2 DEF AcceptPair
  <2>4. /\ checkpoints' = WithKey(checkpoints, e, CheckpointOf(BoundaryTuple(e, m, h), headSeq + 2))
        /\ latestCheckpoints' =
              WithKey(latestCheckpoints, e, CheckpointOf(BoundaryTuple(e, m, h), headSeq + 2))
        /\ checkpointTuples' =
              WithKey(checkpointTuples, <<e, m.version>>,
                      MergedTuple(BoundaryTuple(e, m, h), headSeq + 2))
        /\ checkpointSnapshots' =
              WithKey(checkpointSnapshots, e,
                      [checkpoint |-> CheckpointOf(BoundaryTuple(e, m, h), headSeq + 2),
                       values |-> CurrentValues(e)])
    BY <2>2, <2>3, BoundarySets DEF EntryPair
  <2>5. /\ headSeq' = headSeq + 2 /\ environments' = after /\ environmentStarts' = starts
        /\ ConsensusRule(op, d)
        /\ UNCHANGED <<memberVars, grantVars, approvalPolicy, pendingProposals, ballots, tenures>>
        /\ snapshots' = snapshots \o <<Snapshot', Snapshot'>>
        /\ \E c \in DevicesOf(d.user) : applied' = [operation |-> checkpoint, by |-> c]
    BY <2>3 DEF EntryPair
  <2>6. /\ HeadAuthorized(m.issuer, e, m.head)
        /\ EpochIntegrity(e, m)' /\ CheckpointIntegrity(e, m)'
        /\ manifests' = WithKey(manifests, e, m)
        /\ dekWraps' = dekWraps \cup WrapSet(e, m.epoch)
    BY <1>2, <1>3 DEF AcceptPair
  <2>7. QED
    BY <1>3, <2>1, <2>2, <2>4, <2>5, <2>6 DEF PairStep
<1>4. CASE CreateEnvironment(d, op, hash, h)
  <2>1. PICK m : m = Manifest(e, d, 1, 1, hash, headSeq)
    OBVIOUS
  <2>2. AcceptPair(d, op, EnvironmentsAfterCreate(op, headSeq + 1),
                   StartsAfterCreate(op, headSeq + 1), m, h)
    BY <1>2, <1>4, <2>1 DEF CreateEnvironment
  <2>3. /\ UNCHANGED <<variableRows, headAttestations>>
        /\ op.op = "create_environment"
        /\ environmentRows' = WithKey(environmentRows, e, [metaVersion |-> 1, deleted |-> FALSE])
    BY <1>2, <1>4 DEF CreateEnvironment
  <2>4. /\ PairStep(d, e, m, h) /\ m.version = 1 /\ m.epoch = 1
        /\ environments' = EnvironmentsAfterCreate(op, headSeq + 1)
        /\ environmentStarts' = StartsAfterCreate(op, headSeq + 1) /\ ConsensusRule(op, d)
    BY <1>1, <1>3, <2>1, <2>2, <2>3
  <2>5. e \notin DOMAIN environments
    BY <1>2, <2>3, <2>4 DEF ConsensusRule, CreateEnvironmentRule
  <2>6. QED
    BY <1>1, <1>2, <2>3, <2>4, <2>5 DEF Created, NextSeq
<1>5. CASE RotateEpoch(d, op, hash, h)
  <2>1. PICK m : m = Manifest(e, d, manifests[e].version + 1, op.epoch, hash, headSeq)
    OBVIOUS
  <2>2. AcceptPair(d, op, EnvironmentsAfterRotate(op, headSeq + 1),
                   StartsAfterRotate(op, headSeq + 1), m, h)
    BY <1>2, <1>5, <2>1 DEF RotateEpoch
  <2>3. /\ UNCHANGED <<environmentRows, variableRows, headAttestations>>
        /\ op.op = "rotate_epoch"
    BY <1>2, <1>5 DEF RotateEpoch
  <2>4. /\ PairStep(d, e, m, h) /\ m.version = manifests[e].version + 1 /\ m.epoch = op.epoch
        /\ environments' = EnvironmentsAfterRotate(op, headSeq + 1)
        /\ environmentStarts' = StartsAfterRotate(op, headSeq + 1) /\ ConsensusRule(op, d)
    BY <1>1, <1>3, <2>1, <2>2, <2>3
  <2>5. e \in LiveEnvironments /\ op.epoch = environments[e].epoch + 1
    BY <1>2, <2>3, <2>4 DEF ConsensusRule, RotateEpochRule
  <2>6. QED
    BY <1>1, <1>2, <2>3, <2>4, <2>5 DEF Rotated, NextSeq
<1>6. QED
  BY <1>1, <1>4, <1>5

\* A proposal that is completed is none of the composite requests, and no checkpoint.
LEMMA AppendCases ==
    ASSUME TypeOK, NEW d \in devices, AppendEntry(d)
    PROVE  Appended
<1>1. AcceptEntry(d) /\ Record /\ SideEffects(applied'.operation)
  BY DEF AppendEntry
<1>2. CASE \E op \in Operations :
              op.op \notin CompositeOps \cup {"checkpoint"} /\ Direct(d, op)
  <2>1. PICK op \in Operations :
           op.op \notin CompositeOps \cup {"checkpoint"} /\ Direct(d, op)
    BY <1>2
  <2>2. Next
    BY <2>1 DEF Next
  <2>3. applied'.operation = op
    BY <2>1, ApplyLeavesOperation DEF Direct
  <2>4. QED
    BY <1>1, <2>1, <2>2, <2>3 DEF Appended, HistoryNext
<1>3. CASE \E id \in DOMAIN pendingProposals, now \in Timestamps : ApproveComplete(d, id, now)
  <2>1. PICK id \in DOMAIN pendingProposals, now \in Timestamps : ApproveComplete(d, id, now)
    BY <1>3
  <2>2. Next
    BY <2>1 DEF Next
  <2>3. PICK op : op = pendingProposals[id].inner
    OBVIOUS
  <2>4. applied'.operation = op
    BY <2>1, <2>3, ApplyLeavesOperation DEF ApproveComplete
  <2>5. IsApprovalTarget(op, approvalPolicy)
    BY <2>1, <2>3 DEF ApproveComplete, ApproveVoteRule
  <2>6. approvalPolicy.ops \subseteq APPROVAL_TARGET_OPS
    BY DEF TypeOK, Policies
  <2>7. op.op \notin CompositeOps \cup {"checkpoint"}
    BY <2>5, <2>6 DEF IsApprovalTarget, EstablishesOwner, APPROVAL_TARGET_OPS, CompositeOps
  <2>8. QED
    BY <1>1, <2>2, <2>4, <2>7 DEF Appended, HistoryNext
<1>4. CASE \/ \E op \in Operations, expires, now \in Timestamps : Propose(d, op, expires)
           \/ \E id \in DOMAIN pendingProposals, now \in Timestamps : ApproveVote(d, id, now)
           \/ \E id \in DOMAIN pendingProposals : Withdraw(d, id)
  <2>1. Next
    BY <1>4 DEF Next
  <2>2. ApplyNothing(d)
    BY <1>4 DEF Propose, ApproveVote, Withdraw
  <2>3. applied'.operation = Nothing
    BY <2>2 DEF ApplyNothing
  <2>4. QED
    BY <1>1, <2>1, <2>3 DEF Appended, HistoryNext, Nothing, CompositeOps
<1>5. QED
  BY <1>1, <1>2, <1>3, <1>4 DEF AcceptEntry

\* An entry that is signed directly is one that applies its operation.
LEMMA DirectIsEntry ==
    ASSUME NEW d \in devices, NEW op \in Operations, Direct(d, op), Record
    PROVE  HistoryNext /\ AppliedEntry(op, d)
<1>1. Next
  BY DEF Next
<1>2. applied'.operation = op /\ applied'.by = d /\ headSeq' = NextSeq
  BY ApplyLeavesOperation DEF Direct, Signs, NextSeq
<1>3. QED
  BY <1>1, <1>2 DEF HistoryNext, AppliedEntry, Record, Direct, NextSeq

\* What an appended entry leaves alone.
LEMMA AppendedKeeps ==
    ASSUME TypeOK, Appended
    PROVE  /\ UNCHANGED <<environments, checkpoints, environmentStarts,
                          checkpointTuples, latestCheckpoints>>
           /\ UNCHANGED rowVars
           /\ headSeq' = headSeq + 1 /\ snapshots' = Append(snapshots, Snapshot')
<1>1. UNCHANGED rowVars
  BY DEF Appended, SideEffects
<1>2. headSeq' = headSeq + 1 /\ snapshots' = Append(snapshots, Snapshot')
  BY DEF Appended, HistoryNext, Record, Next, Direct, Propose, ApproveVote, ApproveComplete,
     Withdraw, Signs
<1>3. headSeq' # headSeq
  BY <1>2 DEF TypeOK
<1>4. CASE EmptyEntry
  BY <1>1, <1>2, <1>4 DEF EmptyEntry, StateUnchanged, envVars, indexVars
<1>5. CASE \E d \in devices, op \in Operations : AppliedEntry(op, d)
  <2>1. PICK d \in devices, op \in Operations : AppliedEntry(op, d)
    BY <1>5
  <2>2. applied' = [operation |-> op, by |-> d]
    BY <2>1 DEF AppliedEntry, Apply
  <2>3. op.op \notin CompositeOps \cup {"checkpoint"}
    BY <2>2 DEF Appended
  <2>4. UNCHANGED envVars
    BY <2>1, <2>3 DEF AppliedEntry, Apply, ApplyAddMember, ApplyChangeRole, ApplyRemoveMember,
       ApplyAddDevice, ApplyRevokeDevice, ApplyGrantServer, ApplyRevokeServer,
       ApplySetApprovalPolicy, CompositeOps
  <2>5. UNCHANGED <<environmentStarts, checkpointTuples, latestCheckpoints>>
    BY <2>1, <2>3 DEF AppliedEntry, RecordHistory, RecordTenureStart, RecordRoleChange,
       RecordTenureEnd, RecordDeviceAdded, RecordDevicesRevoked, indexVars, CompositeOps
  <2>6. QED
    BY <1>1, <1>2, <2>4, <2>5 DEF envVars
<1>6. QED
  BY <1>3, <1>4, <1>5, HistoryCases DEF Appended, historyVars, vars

(***************************************************************************)
(* The chain of a store.  Everything proved of a chain with a history holds *)
(* of the chain of a store too: the pair of entries has to be looked at.    *)
(***************************************************************************)

StoreChain ==
    /\ TypeOK /\ KeyInvariant /\ DeletedEnvironmentsForgotten
    /\ OrderInvariant /\ IndexInvariant
    /\ latestCheckpoints = checkpoints

\* Epoch n of e begins with the next entry.
Begins(e, n) ==
    /\ e \in Envs /\ n \in Nat \ {0}
    /\ DOMAIN environments' = DOMAIN environments \cup {e}
    /\ \A x \in DOMAIN environments : x # e => environments'[x] = environments[x]
    /\ IsMap(environments', Envs, EnvironmentStates)
    /\ environments'[e].epoch = n /\ environments'[e].deletedAt = 0
    /\ environments'[e].epochStarts[n] = NextSeq
    /\ EpochsInOrder(environments'[e], NextSeq)
    /\ e \notin DOMAIN environments => n = 1
    /\ e \in DOMAIN environments =>
          /\ environments[e].deletedAt = 0 /\ n = environments[e].epoch + 1
          /\ \A i \in 1..environments[e].epoch :
                environments'[e].epochStarts[i] = environments[e].epochStarts[i]

\* A pair of entries begins an epoch.
LEMMA PairBegins ==
    ASSUME TypeOK, OrderInvariant, NEW op \in Operations, NEW m, Created(op, m) \/ Rotated(op, m)
    PROVE  Begins(op.env, m.epoch)
<1>1. PICK e : e = op.env
  OBVIOUS
<1>2. headSeq \in Nat /\ NextSeq = headSeq + 1 /\ NextSeq \in Nat
  BY DEF TypeOK, NextSeq
<1>3. CASE Created(op, m)
  <2>1. op \in EnvironmentOps
    BY <1>3, OperationShapes DEF Created
  <2>2. e \in Envs
    BY <1>1, <2>1 DEF EnvironmentOps
  <2>3. PICK new : new = [epoch |-> 1, createdAt |-> NextSeq, deletedAt |-> 0,
                          epochStarts |-> <<NextSeq>>]
    OBVIOUS
  <2>4. new \in EnvironmentStates /\ EpochsInOrder(new, NextSeq)
    BY <1>2, <2>3 DEF EnvironmentStates, EpochsInOrder
  <2>5. environments' = WithKey(environments, e, new)
    BY <1>1, <1>3, <2>3 DEF Created, EnvironmentsAfterCreate
  <2>6. m.epoch = 1 /\ e \notin DOMAIN environments
    BY <1>1, <1>3 DEF Created
  <2>7. new.epoch = 1 /\ new.deletedAt = 0 /\ new.epochStarts[1] = NextSeq
    BY <2>3
  <2>8. /\ DOMAIN environments' = DOMAIN environments \cup {e} /\ environments'[e] = new
        /\ \A x \in DOMAIN environments : x # e => environments'[x] = environments[x]
    BY <2>5 DEF WithKey
  <2>9. IsMap(environments', Envs, EnvironmentStates)
    BY <2>2, <2>4, <2>5, WithKeyType DEF TypeOK
  <2>10. QED
    BY <1>1, <2>2, <2>4, <2>6, <2>7, <2>8, <2>9 DEF Begins
<1>4. CASE Rotated(op, m)
  <2>1. e \in DOMAIN environments /\ environments[e].deletedAt = 0
    BY <1>1, <1>4 DEF Rotated, LiveEnvironments
  <2>2. PICK env : env = environments[e]
    OBVIOUS
  <2>3. env \in EnvironmentStates /\ EpochsInOrder(env, headSeq) /\ e \in Envs
    BY <2>1, <2>2 DEF TypeOK, IsMap, OrderInvariant
  <2>4. m.epoch = env.epoch + 1 /\ op.epoch = env.epoch + 1
    BY <1>1, <1>4, <2>2 DEF Rotated
  <2>5. PICK next : next = [env EXCEPT !.epoch = env.epoch + 1,
                                       !.epochStarts = Append(@, headSeq + 1)]
    OBVIOUS
  <2>6. environments' = [environments EXCEPT ![e].epoch = op.epoch,
                                             ![e].epochStarts = Append(@, NextSeq)]
    BY <1>1, <1>4 DEF Rotated, EnvironmentsAfterRotate
  <2>7. /\ DOMAIN environments' = DOMAIN environments /\ environments'[e] = next
        /\ \A x \in DOMAIN environments : x # e => environments'[x] = environments[x]
    BY <1>2, <2>1, <2>2, <2>3, <2>4, <2>5, <2>6 DEF EnvironmentStates
  <2>8. /\ env.epochStarts \in Seq(Nat) /\ env.epoch \in Nat /\ env.epoch = Len(env.epochStarts)
        /\ next.epoch = env.epoch + 1 /\ next.deletedAt = env.deletedAt
        /\ next.epochStarts = Append(env.epochStarts, headSeq + 1)
    BY <2>3, <2>5 DEF EnvironmentStates, EpochsInOrder
  <2>9. next \in EnvironmentStates
    <3>1. Append(env.epochStarts, headSeq + 1) \in Seq(Nat) /\ env.epoch + 1 \in Nat
      BY <1>2, <2>8
    <3>2. QED
      BY <2>3, <2>5, <3>1 DEF EnvironmentStates
  <2>10. EpochsInOrder(next, headSeq + 1)
    BY <1>2, <2>1, <2>2, <2>3, <2>5, <2>9, RotationKeepsOrder
  <2>11. /\ next.epochStarts[env.epoch + 1] = NextSeq
         /\ \A i \in 1..env.epoch : next.epochStarts[i] = env.epochStarts[i]
    BY <1>2, <2>8
  <2>12. env.epoch + 1 \in Nat \ {0} /\ DOMAIN environments = DOMAIN environments \cup {e}
    <3>1. env.epoch \in Nat
      BY <2>8
    <3>2. QED
      BY <2>1, <3>1
  <2>13. IsMap(environments', Envs, EnvironmentStates)
    <3>1. environments' = [environments EXCEPT ![e] = next]
      BY <2>1, <2>6, <2>7
    <3>2. QED
      BY <2>9, <3>1 DEF TypeOK, IsMap
  <2>14. QED
    BY <1>1, <1>2, <2>1, <2>2, <2>3, <2>4, <2>7, <2>8, <2>10, <2>11, <2>12, <2>13 DEF Begins
<1>5. QED
  BY <1>3, <1>4

\* The rest of the derived state is typed, its keys are unique, and nothing names a deleted
\* environment.
LEMMA PairTypes ==
    ASSUME TypeOK, KeyInvariant, DeletedEnvironmentsForgotten, NEW d \in devices, NEW e, NEW m,
           NEW h \in ManifestHashes, m.version \in Nat, PairStep(d, e, m, h), Begins(e, m.epoch)
    PROVE  TypeOK' /\ KeyInvariant' /\ DeletedEnvironmentsForgotten'
<1>1. UNCHANGED <<members, devices, memberEncPubs, memberSigPubs, serverGrants, namedServerKeys,
                  approvalPolicy, pendingProposals, ballots>>
  BY DEF PairStep, memberVars, grantVars
<1>2. e \in Envs /\ m.epoch \in Nat /\ headSeq \in Nat /\ headSeq' = headSeq + 2
  BY DEF Begins, PairStep, TypeOK
<1>3. PICK new : new = CheckpointOf(BoundaryTuple(e, m, h), headSeq + 2)
  OBVIOUS
<1>4. checkpoints' = WithKey(checkpoints, e, new) /\ new \in CheckpointStates
  BY <1>2, <1>3 DEF PairStep, CheckpointOf, BoundaryTuple, CheckpointStates
<1>5. IsMap(checkpoints', Envs, CheckpointStates)
  BY <1>2, <1>4, WithKeyType DEF TypeOK
<1>6. PICK c \in DevicesOf(d.user) :
         applied' = [operation |-> BoundaryCheckpoint(e, m, h), by |-> c]
  BY DEF PairStep
<1> DEFINE op == BoundaryCheckpoint(e, m, h)
<1>7. op \in CheckpointOps
  <2>1. PICK t : t = BoundaryTuple(e, m, h)
    OBVIOUS
  <2>2. t \in [env : Envs, epoch : Nat, version : Nat, hash : ManifestHashes]
    BY <1>2, <2>1 DEF BoundaryTuple
  <2>3. {t} \in CheckpointTuples
    BY <2>2 DEF CheckpointTuples
  <2>4. op = [op |-> "checkpoint", auditHead |-> FALSE, tuples |-> {t}]
    BY <2>1 DEF BoundaryCheckpoint, BoundaryTuple
  <2>5. QED
    BY <2>3, <2>4 DEF CheckpointOps
<1>8. op \in WellFormedOperations
  BY <1>7 DEF WellFormedOperations
<1>9. c \in DeviceRecords
  BY DEF DevicesOf, TypeOK
<1>10. applied'.operation = op /\ applied'.by = c
  BY <1>6
<1>11. TypeOK'
  BY <1>1, <1>2, <1>5, <1>8, <1>9, <1>10 DEF TypeOK, Begins
<1>12. KeyInvariant'
  BY <1>1 DEF KeyInvariant, KeySubjectsUnique, PeopleMatchDevices
<1>13. LiveEnvironments' = LiveEnvironments \cup {e}
  BY DEF LiveEnvironments, Begins
<1>14. \A x : IsDeleted(x)' => IsDeleted(x)
  BY DEF IsDeleted, Begins
<1>15. DOMAIN checkpoints' = DOMAIN checkpoints \cup {e}
  BY <1>4 DEF WithKey
<1>16. DeletedEnvironmentsForgotten'
  BY <1>1, <1>13, <1>14, <1>15 DEF DeletedEnvironmentsForgotten
<1>17. QED
  BY <1>11, <1>12, <1>16

\* Epochs and checkpoints stay in the order of the chain.
LEMMA PairOrder ==
    ASSUME TypeOK, OrderInvariant, NEW d \in devices, NEW e, NEW m,
           NEW h \in ManifestHashes, m.version \in Nat, PairStep(d, e, m, h), Begins(e, m.epoch)
    PROVE  OrderInvariant'
<1>1. /\ headSeq \in Nat /\ headSeq' = headSeq + 2 /\ NextSeq = headSeq + 1
      /\ headSeq + 2 \in Nat /\ NextSeq \in Nat
  BY DEF TypeOK, PairStep, NextSeq
<1>2. PICK env : env = environments'[e]
  OBVIOUS
<1>3. /\ env \in EnvironmentStates /\ EpochsInOrder(env, NextSeq) /\ env.epoch = m.epoch
      /\ m.epoch \in Nat \ {0} /\ env.epochStarts[m.epoch] = NextSeq
  BY <1>2 DEF Begins, IsMap
<1>4. EpochsInOrder(env, headSeq + 2)
  BY <1>1, <1>3, LaterBound
<1>5. PICK new : new = CheckpointOf(BoundaryTuple(e, m, h), headSeq + 2)
  OBVIOUS
<1>6. new.epoch = m.epoch /\ new.seq = headSeq + 2
  BY <1>5 DEF CheckpointOf, BoundaryTuple
<1>7. CheckpointInOrder(new, env, headSeq + 2)
  BY <1>1, <1>3, <1>6 DEF CheckpointInOrder
<1>8. checkpoints' = WithKey(checkpoints, e, new)
  BY <1>5 DEF PairStep
<1>9. ASSUME NEW x \in DOMAIN environments'
      PROVE  EpochsInOrder(environments'[x], headSeq + 2)
  <2>1. CASE x = e
    BY <1>2, <1>4, <2>1
  <2>2. CASE x # e
    <3>1. x \in DOMAIN environments /\ environments'[x] = environments[x]
      BY <2>2 DEF Begins
    <3>2. environments[x] \in EnvironmentStates /\ EpochsInOrder(environments[x], headSeq)
      BY <3>1 DEF TypeOK, IsMap, OrderInvariant
    <3>3. QED
      BY <1>1, <3>1, <3>2, LaterBound
  <2>3. QED
    BY <2>1, <2>2
<1>10. ASSUME NEW x \in DOMAIN checkpoints'
       PROVE  /\ x \in DOMAIN environments'
              /\ CheckpointInOrder(checkpoints'[x], environments'[x], headSeq + 2)
  <2>1. CASE x = e
    BY <1>2, <1>7, <1>8, <2>1 DEF WithKey, Begins
  <2>2. CASE x # e
    <3>1. x \in DOMAIN checkpoints /\ checkpoints'[x] = checkpoints[x]
      BY <1>8, <2>2 DEF WithKey
    <3>2. x \in DOMAIN environments /\ CheckpointInOrder(checkpoints[x], environments[x], headSeq)
      BY <3>1 DEF OrderInvariant
    <3>3. environments[x] \in EnvironmentStates /\ checkpoints[x] \in CheckpointStates
      BY <3>1, <3>2 DEF TypeOK, IsMap
    <3>4. CheckpointInOrder(checkpoints[x], environments[x], headSeq + 2)
      BY <1>1, <3>2, <3>3, LaterBound
    <3>5. QED
      BY <2>2, <3>1, <3>2, <3>4 DEF Begins
  <2>3. QED
    BY <2>1, <2>2
<1>11. QED
  BY <1>1, <1>9, <1>10 DEF OrderInvariant

\* Both entries of a pair leave the state of their seq.
LEMMA PairSnapshots ==
    ASSUME SnapshotInvariant, headSeq' = headSeq + 2, snapshots' = snapshots \o <<Snapshot', Snapshot'>>,
           TypeOK', KeyInvariant'
    PROVE  /\ SnapshotInvariant'
           /\ \A s \in 1..headSeq : snapshots'[s] = snapshots[s]
           /\ snapshots'[headSeq + 1] = Snapshot' /\ snapshots'[headSeq + 2] = Snapshot'
<1>1. headSeq \in Nat \ {0} /\ headSeq + 2 \in Nat \ {0}
  BY DEF SnapshotInvariant
<1>2. PICK new : new = Snapshot'
  OBVIOUS
<1>3. new \in SnapshotRecords
  BY <1>2 DEF Snapshot, SnapshotRecords, TypeOK, IsMap
<1>4. snapshots \in Seq(SnapshotRecords) /\ Len(snapshots) = headSeq
  BY DEF SnapshotInvariant
<1>5. snapshots' = snapshots \o <<new, new>>
  BY <1>2
<1>6. /\ <<new, new>> \in Seq(SnapshotRecords) /\ Len(<<new, new>>) = 2
      /\ <<new, new>>[1] = new /\ <<new, new>>[2] = new
  BY <1>3
<1>7. snapshots' \in Seq(SnapshotRecords) /\ Len(snapshots') = headSeq + 2
  BY <1>4, <1>5, <1>6
<1>8. /\ \A s \in 1..headSeq : snapshots'[s] = snapshots[s]
      /\ snapshots'[headSeq + 1] = new /\ snapshots'[headSeq + 2] = new
  BY <1>1, <1>4, <1>5, <1>6
<1>9. /\ \A c, d \in devices' : c.enc = d.enc => c = d
      /\ \A d \in devices' : d.user \in DOMAIN members'
  BY DEF KeyInvariant, KeySubjectsUnique, PeopleMatchDevices
<1>10. ASSUME NEW s \in 1..headSeq + 2
       PROVE  /\ \A c, d \in snapshots'[s].devices : c.enc = d.enc => c = d
              /\ \A d \in snapshots'[s].devices : d.user \in DOMAIN snapshots'[s].members
  <2>1. CASE s \in 1..headSeq
    <3>1. snapshots'[s] = snapshots[s]
      BY <1>8, <2>1
    <3>2. /\ \A c, d \in snapshots[s].devices : c.enc = d.enc => c = d
          /\ \A d \in snapshots[s].devices : d.user \in DOMAIN snapshots[s].members
      BY <2>1 DEF SnapshotInvariant
    <3>3. QED
      BY <3>1, <3>2
  <2>2. CASE s = headSeq + 1 \/ s = headSeq + 2
    <3>1. new.devices = devices' /\ new.members = members'
      BY <1>2 DEF Snapshot
    <3>2. snapshots'[s] = new
      BY <1>8, <2>2
    <3>3. QED
      BY <1>9, <3>1, <3>2
  <2>3. s \in 1..headSeq \/ s = headSeq + 1 \/ s = headSeq + 2
    BY <1>1
  <2>4. QED
    BY <2>1, <2>2, <2>3
<1>11. QED
  BY <1>1, <1>2, <1>7, <1>8, <1>10 DEF SnapshotInvariant

\* What these chain states say of a person at a seq.
SaidIn(states, s, u) ==
    IF u \notin DOMAIN states[s].members THEN Absent
    ELSE [kind |-> "member", role |-> states[s].members[u].role,
          scope |-> states[s].members[u].scope,
          devices |-> {d \in states[s].devices : d.user = u},
          tenureStart |-> SinceIn(states, u, s)]

\* There is only one seq at which an unbroken membership begins.
LEMMA BeginsOnce ==
    ASSUME NEW states, NEW u, NEW s \in Nat, NEW a \in 1..s, BeginsAt(states, u, s, a)
    PROVE  SinceIn(states, u, s) = a
<1>1. ASSUME NEW b \in 1..s, BeginsAt(states, u, s, b) PROVE a = b
  <2>1. CASE a < b
    <3>1. b - 1 \in a..s /\ b # 1
      BY <2>1
    <3>2. QED
      BY <1>1, <3>1 DEF BeginsAt
  <2>2. CASE b < a
    <3>1. a - 1 \in b..s /\ a # 1
      BY <2>2
    <3>2. QED
      BY <1>1, <3>1 DEF BeginsAt
  <2>3. QED
    BY <2>1, <2>2
<1>2. QED
  BY <1>1 DEF SinceIn

\* Tenures that show a person as a state does answer for its seq what it says.
LEMMA PersonShown ==
    ASSUME NEW n \in Nat, NEW T, IndexedBy(T, n), NEW states, NEW u,
           u \in DOMAIN states[n].members <=> Open(T),
           u \in DOMAIN states[n].members =>
              /\ ShowsMember(Last(T), states[n].members[u], {d \in states[n].devices : d.user = u})
              /\ Last(T).start \in 1..n /\ BeginsAt(states, u, n, Last(T).start)
    PROVE  Answer(T, n) = SaidIn(states, n, u)
<1>1. CASE u \notin DOMAIN states[n].members
  BY <1>1, AnswerNow DEF SaidIn
<1>2. CASE u \in DOMAIN states[n].members
  <2>1. PICK t, m, D : /\ t = Last(T) /\ m = states[n].members[u]
                       /\ D = {d \in states[n].devices : d.user = u}
    OBVIOUS
  <2>2. Open(T) /\ t.end = 0
    BY <1>2, <2>1 DEF Open
  <2>3. t \in TenureRecords /\ TenureBy(t, n) /\ Answer(T, n) = TenureAnswer(t, n)
    BY <2>1, <2>2, AnswerNow
  <2>4. ShowsMember(t, m, D)
    BY <1>2, <2>1
  <2>5. TenureAnswer(t, n) = [kind |-> "member", role |-> m.role, scope |-> m.scope,
                              devices |-> D, tenureStart |-> t.start]
    BY <2>2, <2>3, <2>4, TenureNow
  <2>6. SinceIn(states, u, n) = t.start
    BY <1>2, <2>1, BeginsOnce
  <2>7. QED
    BY <1>2, <2>1, <2>3, <2>5, <2>6 DEF SaidIn
<1>3. QED
  BY <1>1, <1>2

\* Members, devices and tenures stay as they are while two entries are added.
LEMMA PairPeople ==
    ASSUME SnapshotInvariant, PeopleIndexed, headSeq' = headSeq + 2,
           UNCHANGED <<members, devices, tenures>>,
           \A s \in 1..headSeq : snapshots'[s] = snapshots[s],
           snapshots'[headSeq + 1] = Snapshot', snapshots'[headSeq + 2] = Snapshot'
    PROVE  /\ PeopleIndexed'
           /\ \A u \in Users : \A n : n = headSeq + 1 => MemberStateAt(u, n)' = MemberIn(n, u)'
<1>1. /\ headSeq \in Nat \ {0} /\ headSeq + 1 \in Nat /\ headSeq + 2 \in Nat
      /\ headSeq <= headSeq + 1 /\ headSeq <= headSeq + 2
  BY DEF SnapshotInvariant
<1>2. SUFFICES ASSUME NEW u \in Users, NEW n, n = headSeq + 1
               PROVE  PersonIndexed(u)' /\ MemberStateAt(u, n)' = MemberIn(n, u)'
  BY DEF PeopleIndexed
<1>3. PersonIndexed(u)
  BY DEF PeopleIndexed
<1>4. PICK T : T = TenuresOf(u)
  OBVIOUS
<1>5. TenuresOf(u)' = T /\ DevicesOf(u)' = DevicesOf(u) /\ members' = members
  BY <1>4 DEF TenuresOf, DevicesOf
<1>6. ASSUME NEW s \in Nat, headSeq <= s PROVE IndexedBy(T, s)
  <2>1. IndexedBy(T, headSeq)
    BY <1>3, <1>4 DEF PersonIndexed
  <2>2. \A i \in 1..Len(T) : T[i] \in TenureRecords
    BY <2>1 DEF IndexedBy
  <2>3. \A i \in 1..Len(T) : TenureBy(T[i], s)
    BY <1>1, <1>6, <2>1, <2>2, TenureByLater DEF IndexedBy
  <2>4. QED
    BY <2>1, <2>3 DEF IndexedBy
<1>7. PICK a : a = Last(T).start
  OBVIOUS
<1>8. \A s \in headSeq..headSeq + 2 : snapshots'[s].members = members
  <2>1. \A s \in headSeq..headSeq + 2 : s = headSeq \/ s = headSeq + 1 \/ s = headSeq + 2
    BY <1>1
  <2>2. headSeq \in 1..headSeq /\ snapshots[headSeq].members = members
    BY <1>1 DEF SnapshotInvariant, Snapshot
  <2>3. snapshots'[headSeq + 1].members = members /\ snapshots'[headSeq + 2].members = members
    BY DEF Snapshot
  <2>4. QED
    BY <2>1, <2>2, <2>3
<1>9. ASSUME u \in DOMAIN members, NEW s \in headSeq..headSeq + 2
      PROVE  a \in 1..s /\ BeginsAt(snapshots', u, s, a)
  <2>1. MemberFrom(a, u, headSeq)
    BY <1>3, <1>4, <1>7, <1>9 DEF PersonIndexed
  <2>2. a \in 1..headSeq /\ \A b \in a..headSeq : u \in DOMAIN snapshots[b].members
    BY <2>1 DEF MemberFrom
  <2>3. a \in 1..s /\ a \in Nat
    BY <1>1, <2>2
  <2>4. \A b \in a..s : u \in DOMAIN snapshots'[b].members
    <3>1. TAKE b \in a..s
    <3>2. (b \in a..headSeq /\ b \in 1..headSeq) \/ b \in headSeq..headSeq + 2
      BY <1>1, <2>2
    <3>3. QED
      BY <1>8, <1>9, <2>2, <3>2
  <2>5. a = 1 \/ a - 1 \in 1..headSeq
    BY <1>1, <2>2
  <2>6. a = 1 \/ u \notin DOMAIN snapshots'[a - 1].members
    BY <2>1, <2>5 DEF MemberFrom
  <2>7. QED
    BY <2>3, <2>4, <2>6 DEF BeginsAt
<1>10. PersonIndexed(u)'
  <2>1. headSeq + 2 \in headSeq..headSeq + 2
    BY <1>1
  <2>2. u \in DOMAIN members => MemberFrom(a, u, headSeq)'
    BY <1>9, <2>1 DEF MemberFrom, BeginsAt
  <2>3. IndexedBy(T, headSeq')
    BY <1>1, <1>6
  <2>4. QED
    BY <1>3, <1>4, <1>5, <1>7, <2>2, <2>3 DEF PersonIndexed
<1>11. MemberStateAt(u, n)' = MemberIn(n, u)'
  <2>1. n \in headSeq..headSeq + 2 /\ n \in Nat
    BY <1>1, <1>2
  <2>2. /\ snapshots'[n].members = members
        /\ {d \in snapshots'[n].devices : d.user = u} = DevicesOf(u)
    BY <1>2 DEF Snapshot, DevicesOf
  <2>3. IndexedBy(T, n)
    BY <1>1, <1>2, <1>6
  <2>4. Answer(T, n) = SaidIn(snapshots', n, u)
    <3>1. u \in DOMAIN snapshots'[n].members <=> Open(T)
      BY <1>3, <1>4, <2>2 DEF PersonIndexed
    <3>2. u \in DOMAIN snapshots'[n].members =>
             /\ ShowsMember(Last(T), snapshots'[n].members[u],
                            {d \in snapshots'[n].devices : d.user = u})
             /\ Last(T).start \in 1..n /\ BeginsAt(snapshots', u, n, Last(T).start)
      BY <1>3, <1>4, <1>7, <1>9, <2>1, <2>2 DEF PersonIndexed
    <3>3. QED
      BY <2>1, <2>3, <3>1, <3>2, PersonShown
  <2>5. MemberStateAt(u, n)' = Answer(T, n)
    BY <1>5 DEF MemberStateAt, Answer, TenureIndexesAt, CoveringIn, TenureAt, TenureAnswer, ActiveIn
  <2>6. MemberIn(n, u)' = SaidIn(snapshots', n, u)
    BY DEF MemberIn, MemberSince, SaidIn, SinceIn, BeginsAt
  <2>7. QED
    BY <2>4, <2>5, <2>6
<1>12. QED
  BY <1>10, <1>11

\* What the environments show by the next seq they are found to have been at that seq.
LEMMA EnvironmentsAtNext ==
    ASSUME headSeq \in Nat, EnvironmentsShown, NEW n, n = NextSeq,
           snapshots'[n].environments = environments', NEW e
    PROVE  EnvironmentStateAt(e, n)' = EnvironmentIn(snapshots'[n], e)
<1>1. n \in Nat
  BY DEF NextSeq
<1>2. CASE e \notin DOMAIN environments'
  BY <1>2 DEF EnvironmentsShown, EnvironmentStateAt, EnvironmentIn
<1>3. CASE e \in DOMAIN environments'
  <2>1. PICK ix, env : ix = environmentStarts'[e] /\ env = environments'[e]
    OBVIOUS
  <2>2. ix \in StartRecords /\ ShowsEnvironment(ix, env, n) /\ e \in DOMAIN environmentStarts'
    BY <1>3, <2>1 DEF EnvironmentsShown
  <2>3. ix.createdAt \in Nat /\ ix.createdAt <= n
    BY <2>2, StartRecordShape DEF ShowsEnvironment
  <2>4. ~(n < ix.createdAt)
    BY <1>1, <2>3
  <2>5. EnvironmentStateAt(e, n)' = EnvironmentAnswer(ix, n)
    BY <2>1, <2>2, <2>4 DEF EnvironmentStateAt, EnvironmentAnswer
  <2>6. EnvironmentAnswer(ix, n) =
           [kind |-> "environment", createdAt |-> env.createdAt,
            epoch |-> env.epoch, deletedAt |-> env.deletedAt]
    BY <1>1, <2>2, EnvironmentAnswerNow
  <2>7. EnvironmentIn(snapshots'[n], e) =
           [kind |-> "environment", createdAt |-> env.createdAt,
            epoch |-> env.epoch, deletedAt |-> env.deletedAt]
    BY <1>3, <2>1 DEF EnvironmentIn
  <2>8. QED
    BY <2>5, <2>6, <2>7
<1>4. QED
  BY <1>2, <1>3

\* A pair of entries keeps the index what it is.
LEMMA PairIndex ==
    ASSUME IndexInvariant, TypeOK', KeyInvariant', EnvironmentsShown, EnvironmentPastKept,
           NEW d, NEW e, NEW m, NEW h, PairStep(d, e, m, h)
    PROVE  IndexInvariant'
<1>1. /\ SnapshotInvariant /\ EnvironmentIndex /\ PeopleIndexed
      /\ MembersAgree /\ EnvironmentsAgree
  BY AgreesUpToHead DEF IndexInvariant
<1>2. /\ headSeq' = headSeq + 2 /\ snapshots' = snapshots \o <<Snapshot', Snapshot'>>
      /\ UNCHANGED <<members, devices, tenures>>
  BY DEF PairStep, memberVars
<1>3. /\ headSeq \in Nat /\ NextSeq \in Nat /\ headSeq' \in Nat /\ NextSeq <= headSeq'
      /\ NextSeq = headSeq + 1
  BY <1>1, <1>2 DEF SnapshotInvariant, NextSeq
<1>4. /\ SnapshotInvariant' /\ \A s \in 1..headSeq : snapshots'[s] = snapshots[s]
      /\ snapshots'[headSeq + 1] = Snapshot' /\ snapshots'[headSeq + 2] = Snapshot'
  BY <1>1, <1>2, PairSnapshots
<1>5. /\ PeopleIndexed'
      /\ \A u \in Users : \A n : n = headSeq + 1 => MemberStateAt(u, n)' = MemberIn(n, u)'
  BY <1>1, <1>2, <1>4, PairPeople
<1>6. EnvironmentIndex'
  BY <1>3, ShowsLater DEF EnvironmentsShown, EnvironmentIndex
<1>7. ASSUME NEW s \in 1..headSeq, NEW u \in Users
      PROVE  MemberStateAt(u, s)' = MemberIn(s, u)'
  <2>1. MemberStateAt(u, s)' = MemberStateAt(u, s)
    BY <1>2 DEF MemberStateAt, TenureIndexesAt, TenureAt, TenuresOf
  <2>2. \A b \in 1..s : snapshots'[b] = snapshots[b]
    BY <1>3, <1>4
  <2>3. SinceIn(snapshots', u, s) = SinceIn(snapshots, u, s)
    BY <1>3, <2>2, SinceDependsOnPast
  <2>4. MemberSince(u, s)' = MemberSince(u, s)
    BY <2>3 DEF MemberSince, SinceIn, BeginsAt
  <2>5. MemberIn(s, u)' = MemberIn(s, u)
    BY <1>4, <2>4 DEF MemberIn
  <2>6. QED
    BY <1>1, <2>1, <2>5 DEF MembersAgree
<1>8. ASSUME NEW s \in 1..headSeq, NEW x \in Envs
      PROVE  EnvironmentStateAt(x, s)' = EnvironmentIn(snapshots'[s], x)
  BY <1>1, <1>4, <1>8 DEF EnvironmentPastKept, EnvironmentsAgree
<1>9. ASSUME NEW s, s = headSeq + 1, NEW x \in Envs
      PROVE  EnvironmentStateAt(x, s)' = EnvironmentIn(snapshots'[s], x)
  <2>1. snapshots'[s].environments = environments'
    BY <1>4, <1>9 DEF Snapshot
  <2>2. QED
    BY <1>3, <1>9, <2>1, EnvironmentsAtNext
<1>10. \A s \in 1..headSeq' - 1 : s \in 1..headSeq \/ s = headSeq + 1
  BY <1>2, <1>3
<1>11. PastAgrees'
  <2>1. ASSUME NEW s \in 1..headSeq' - 1
        PROVE  /\ \A u \in Users : MemberStateAt(u, s)' = MemberIn(s, u)'
               /\ \A x \in Envs : EnvironmentStateAt(x, s)' = EnvironmentIn(snapshots'[s], x)
    <3>1. CASE s \in 1..headSeq
      BY <1>7, <1>8, <3>1
    <3>2. CASE s = headSeq + 1
      BY <1>5, <1>9, <3>2
    <3>3. QED
      BY <1>10, <2>1, <3>1, <3>2
  <2>2. QED
    BY <2>1 DEF PastAgrees
<1>12. QED
  BY <1>4, <1>5, <1>6, <1>11 DEF IndexInvariant

\* An entry that is only an entry keeps the chain of the store.
LEMMA EntryKeepsChain ==
    ASSUME StoreChain, [HistoryNext]_historyVars
    PROVE  StoreChain'
<1>1. [Next]_vars
  BY DEF HistoryNext, historyVars
<1>2. TypeOK' /\ KeyInvariant' /\ DeletedEnvironmentsForgotten' /\ OrderInvariant'
  BY <1>1, TypeAndKeysStep, ForgetsStep, OrderStep DEF StoreChain
<1>3. IndexInvariant'
  BY <1>2, IndexStep DEF StoreChain
<1>4. latestCheckpoints' = checkpoints'
  <2>1. CASE \E d \in devices, op \in Operations : AppliedEntry(op, d)
    BY <2>1, LatestStay DEF StoreChain
  <2>2. CASE EmptyEntry \/ UNCHANGED historyVars
    BY <2>2 DEF StoreChain, EmptyEntry, StateUnchanged, envVars, indexVars, historyVars, vars
  <2>3. QED
    BY <2>1, <2>2, HistoryCases DEF StoreChain
<1>5. QED
  BY <1>2, <1>3, <1>4 DEF StoreChain

\* What a pair of entries leaves of the epochs and of the past.
LEMMA PairEnvironments ==
    ASSUME TypeOK, EnvironmentIndex, NEW op \in Operations, NEW m, Created(op, m) \/ Rotated(op, m)
    PROVE  EnvironmentsShown /\ EnvironmentPastKept
<1>1. CASE Created(op, m)
  BY <1>1, EnvironmentCreated DEF Created
<1>2. CASE Rotated(op, m)
  <2>1. op \in RotateEpochOps
    BY <1>2, OperationShapes DEF Rotated
  <2>2. op.epoch \in Nat /\ op.env \in DOMAIN environments
    BY <1>2, <2>1 DEF Rotated, RotateEpochOps, LiveEnvironments
  <2>3. QED
    BY <1>2, <2>2, EpochStarted DEF Rotated
<1>3. QED
  BY <1>1, <1>2

\* A pair of entries keeps the chain of the store.
LEMMA PairKeepsChain ==
    ASSUME StoreChain, NEW d \in devices, NEW op \in Operations, NEW m, NEW h \in ManifestHashes,
           m.version \in Nat, PairStep(d, op.env, m, h), Created(op, m) \/ Rotated(op, m)
    PROVE  StoreChain' /\ Begins(op.env, m.epoch)
<1>1. /\ TypeOK /\ KeyInvariant /\ DeletedEnvironmentsForgotten /\ OrderInvariant
      /\ IndexInvariant /\ latestCheckpoints = checkpoints /\ EnvironmentIndex
  BY DEF StoreChain, IndexInvariant
<1>2. Begins(op.env, m.epoch)
  BY <1>1, PairBegins
<1>3. TypeOK' /\ KeyInvariant' /\ DeletedEnvironmentsForgotten'
  BY <1>1, <1>2, PairTypes
<1>4. OrderInvariant'
  BY <1>1, <1>2, PairOrder
<1>5. EnvironmentsShown /\ EnvironmentPastKept
  BY <1>1, PairEnvironments
<1>6. IndexInvariant'
  BY <1>1, <1>3, <1>5, PairIndex
<1>7. latestCheckpoints' = checkpoints'
  BY <1>1 DEF PairStep
<1>8. QED
  BY <1>2, <1>3, <1>4, <1>6, <1>7 DEF StoreChain

(***************************************************************************)
(* The rows of environments, manifests, snapshots and variables.           *)
(***************************************************************************)

EnvironmentRecords == [metaVersion : Nat, deleted : BOOLEAN]

ValueRecords == [epoch : Nat, head : Nat, writer : Votes]

VariableRecords == [status : {"declared", "active", "deleted"}, metaVersion : Nat,
                    versions : Seq(ValueRecords)]

IsManifest(m) ==
    m.version \in Nat /\ m.epoch \in Nat /\ m.head \in Nat /\ m.issuer \in Votes

RowInvariant ==
    /\ DOMAIN environmentRows = DOMAIN environments
    /\ \A e \in DOMAIN environments :
          /\ environmentRows[e] \in EnvironmentRecords
          /\ environmentRows[e].deleted <=> environments[e].deletedAt # 0
    /\ DOMAIN manifests = LiveEnvironments
    /\ DOMAIN checkpointSnapshots = LiveEnvironments
    /\ \A e \in LiveEnvironments :
          /\ IsManifest(manifests[e]) /\ manifests[e].epoch = environments[e].epoch
          /\ e \in DOMAIN checkpoints /\ checkpointSnapshots[e].checkpoint = checkpoints[e]
    /\ \A k \in DOMAIN variableRows :
          k \in LiveEnvironments \X Variables /\ variableRows[k] \in VariableRecords

\* The versions stored of a variable.
VersionsOf(e, v) ==
    IF <<e, v>> \in DOMAIN variableRows THEN variableRows[<<e, v>>].versions ELSE <<>>

\* One variable gets a row: a tombstone, or one with at most one version more.
RowWritten(e, v, row) ==
    /\ v \in Variables /\ row \in VariableRecords
    /\ variableRows' = WithKey(variableRows, <<e, v>>, row)
    /\ <<e, v>> \in DOMAIN variableRows => variableRows[<<e, v>>].status # "deleted"
    /\ \/ row.status = "deleted" /\ row.versions = <<>>
       \/ row.status # "deleted" /\ row.versions = VersionsOf(e, v)
       \/ /\ row.status # "deleted"
          /\ \E value \in ValueRecords : /\ AcceptValue(e, VersionsOf(e, v), value)
                                         /\ row.versions = Append(VersionsOf(e, v), value)

\* A push leaves the meta state.
Pushed(e, v, row) ==
    /\ RowWritten(e, v, row) /\ UNCHANGED <<environmentRows, manifests>>
    /\ <<e, v>> \in DOMAIN variableRows
    /\ row.status = variableRows[<<e, v>>].status
    /\ row.metaVersion = variableRows[<<e, v>>].metaVersion

\* The manifest m takes the place of the one before it.
Issued(e, m) ==
    /\ IsManifest(m) /\ m.version = manifests[e].version + 1
    /\ m.epoch \in manifests[e].epoch..environments[e].epoch
    /\ ManifestVerifies(e, m) /\ m.digest = DigestOf(e)'
    /\ manifests' = [manifests EXCEPT ![e] = m]

Renamed(e) ==
    /\ environmentRows' = [environmentRows EXCEPT ![e].metaVersion = @ + 1]
    /\ UNCHANGED variableRows

\* A request that writes environment data pushes a version, or changes the meta state
\* under a new manifest.
DataWritten(e) ==
    /\ e \in LiveEnvironments
    /\ UNCHANGED <<historyVars, checkpointSnapshots, dekWraps, headAttestations>>
    /\ \/ \E v, row : Pushed(e, v, row)
       \/ \E m : /\ Issued(e, m)
                 /\ \/ Renamed(e)
                    \/ UNCHANGED environmentRows /\ \E v, row : RowWritten(e, v, row)

\* Setting a key that is there is a replacement.
LEMMA ReplacedKey ==
    ASSUME NEW f, NEW k \in DOMAIN f, NEW x
    PROVE  [f EXCEPT ![k] = x] = WithKey(f, k, x)
BY DEF WithKey

\* Values are typed, at whatever head they are declared.
LEMMA ValueType ==
    ASSUME TypeOK, NEW d \in devices, NEW e \in DOMAIN environments, NEW at \in 1..headSeq
    PROVE  Value(d, environments[e].epoch, at) \in ValueRecords
<1>1. VoteOf(d) \in Votes
  BY VoteType DEF TypeOK
<1>2. environments[e].epoch \in Nat
  BY DEF TypeOK, IsMap, EnvironmentStates
<1>3. at \in Nat
  BY DEF TypeOK
<1>4. QED
  BY <1>1, <1>2, <1>3 DEF Value, ValueRecords

\* Every request about a variable writes its row so.
LEMMA VariableWrites ==
    ASSUME TypeOK, RowInvariant, NEW d \in devices, NEW e \in LiveEnvironments, NEW v \in Variables,
           \/ CreateVariable(d, e, v, <<>>)
           \/ \E at \in 1..headSeq : CreateVariable(d, e, v, <<Value(d, environments[e].epoch, at)>>)
           \/ \E at \in 1..headSeq : ActivateVariable(d, e, v, Value(d, environments[e].epoch, at))
           \/ RenameVariable(d, e, v)
           \/ DeleteVariable(d, e, v)
    PROVE  \E row : RowWritten(e, v, row)
<1>1. e \in DOMAIN environments
  BY DEF LiveEnvironments
<1>2. PICK k : k = <<e, v>>
  OBVIOUS
<1>3. CASE CreateVariable(d, e, v, <<>>)
  <2>1. PICK row : row = [status |-> "declared", metaVersion |-> 1, versions |-> <<>>]
    OBVIOUS
  <2>2. row \in VariableRecords /\ row.status = "declared" /\ row.versions = <<>>
    BY <2>1 DEF VariableRecords
  <2>3. k \notin DOMAIN variableRows /\ variableRows' = WithKey(variableRows, k, row)
    BY <1>2, <1>3, <2>1 DEF CreateVariable, VariableIdUnavailable
  <2>4. QED
    BY <1>2, <2>2, <2>3 DEF RowWritten, VersionsOf
<1>4. ASSUME NEW at \in 1..headSeq,
             CreateVariable(d, e, v, <<Value(d, environments[e].epoch, at)>>)
      PROVE  \E row : RowWritten(e, v, row)
  <2>1. PICK value : value = Value(d, environments[e].epoch, at)
    OBVIOUS
  <2>2. value \in ValueRecords
    BY <1>1, <2>1, ValueType
  <2>3. PICK row : row = [status |-> "active", metaVersion |-> 1, versions |-> <<value>>]
    OBVIOUS
  <2>4. row \in VariableRecords /\ row.status = "active" /\ row.versions = Append(<<>>, value)
    BY <2>2, <2>3 DEF VariableRecords
  <2>5. k \notin DOMAIN variableRows /\ variableRows' = WithKey(variableRows, k, row)
    BY <1>2, <1>4, <2>1, <2>3 DEF CreateVariable, VariableIdUnavailable
  <2>6. AcceptValue(e, <<>>, value)
    BY <1>4, <2>1 DEF CreateVariable
  <2>7. QED
    BY <1>2, <2>2, <2>4, <2>5, <2>6 DEF RowWritten, VersionsOf
<1>5. ASSUME k \in DOMAIN variableRows
      PROVE  /\ variableRows[k] \in VariableRecords
             /\ VersionsOf(e, v) = variableRows[k].versions
             /\ variableRows[k].versions \in Seq(ValueRecords)
             /\ variableRows[k].metaVersion + 1 \in Nat
  BY <1>2, <1>5 DEF RowInvariant, VersionsOf, VariableRecords
<1>6. ASSUME NEW at \in 1..headSeq,
             ActivateVariable(d, e, v, Value(d, environments[e].epoch, at))
      PROVE  \E row : RowWritten(e, v, row)
  <2>1. PICK value : value = Value(d, environments[e].epoch, at)
    OBVIOUS
  <2>2. value \in ValueRecords
    BY <1>1, <2>1, ValueType
  <2>3. k \in DOMAIN variableRows /\ variableRows[k].status # "deleted"
    BY <1>2, <1>6 DEF ActivateVariable, RequireActiveVariable
  <2>4. PICK old, row : /\ old = variableRows[k]
                        /\ row = [status |-> "active", metaVersion |-> old.metaVersion + 1,
                                  versions |-> Append(old.versions, value)]
    OBVIOUS
  <2>5. /\ row \in VariableRecords /\ row.status = "active"
        /\ row.versions = Append(VersionsOf(e, v), value)
    BY <1>5, <2>2, <2>3, <2>4 DEF VariableRecords
  <2>6. variableRows' = [variableRows EXCEPT ![k] = row]
    BY <1>2, <1>6, <2>1, <2>4 DEF ActivateVariable
  <2>7. variableRows' = WithKey(variableRows, k, row)
    BY <2>3, <2>6, ReplacedKey
  <2>8. AcceptValue(e, VersionsOf(e, v), value)
    BY <1>2, <1>5, <1>6, <2>1, <2>3 DEF ActivateVariable
  <2>9. QED
    BY <1>2, <2>2, <2>3, <2>5, <2>7, <2>8 DEF RowWritten
<1>7. CASE RenameVariable(d, e, v)
  <2>1. k \in DOMAIN variableRows /\ variableRows[k].status # "deleted"
    BY <1>2, <1>7 DEF RenameVariable, RequireActiveVariable
  <2>2. PICK old, row : /\ old = variableRows[k]
                        /\ row = [old EXCEPT !.metaVersion = old.metaVersion + 1]
    OBVIOUS
  <2>3. row \in VariableRecords /\ row.status # "deleted" /\ row.versions = VersionsOf(e, v)
    BY <1>5, <2>1, <2>2 DEF VariableRecords
  <2>4. variableRows' = [variableRows EXCEPT ![k] = row]
    BY <1>2, <1>7, <2>2 DEF RenameVariable
  <2>5. variableRows' = WithKey(variableRows, k, row)
    BY <2>1, <2>4, ReplacedKey
  <2>6. QED
    BY <1>2, <2>1, <2>3, <2>5 DEF RowWritten
<1>8. CASE DeleteVariable(d, e, v)
  <2>1. k \in DOMAIN variableRows /\ variableRows[k].status # "deleted"
    BY <1>2, <1>8 DEF DeleteVariable, RequireActiveVariable
  <2>2. PICK old, row : /\ old = variableRows[k]
                        /\ row = [status |-> "deleted", metaVersion |-> old.metaVersion + 1,
                                  versions |-> <<>>]
    OBVIOUS
  <2>3. row \in VariableRecords /\ row.status = "deleted" /\ row.versions = <<>>
    BY <1>5, <2>1, <2>2 DEF VariableRecords
  <2>4. variableRows' = [variableRows EXCEPT ![k] = row]
    BY <1>2, <1>8, <2>2 DEF DeleteVariable
  <2>5. variableRows' = WithKey(variableRows, k, row)
    BY <2>1, <2>4, ReplacedKey
  <2>6. QED
    BY <1>2, <2>1, <2>3, <2>5 DEF RowWritten
<1>9. QED
  BY <1>3, <1>4, <1>6, <1>7, <1>8

\* The manifest of a request is the next one, and verifies.
LEMMA ManifestIssued ==
    ASSUME TypeOK, RowInvariant, NEW d \in devices, NEW e \in LiveEnvironments,
           NEW epoch \in manifests[e].epoch..environments[e].epoch, NEW hash, NEW head \in 1..headSeq,
           ManifestAcceptable(d, e, epoch, hash, head), AcceptManifest(d, e, epoch, hash, head)
    PROVE  \E m : Issued(e, m)
<1>1. PICK m, n : /\ m = Manifest(e, d, manifests[e].version + 1, epoch, hash, head)
                  /\ n = [version |-> manifests[e].version + 1, epoch |-> epoch, hash |-> hash,
                          head |-> head, issuer |-> VoteOf(d)]
  OBVIOUS
<1>2. /\ m.version = manifests[e].version + 1 /\ m.epoch = epoch /\ m.hash = hash
      /\ m.head = head /\ m.issuer = VoteOf(d) /\ m.digest = DigestOf(e)'
  BY <1>1 DEF Manifest
<1>3. /\ n.version = m.version /\ n.epoch = m.epoch /\ n.hash = m.hash
      /\ n.head = m.head /\ n.issuer = m.issuer
  BY <1>1, <1>2
<1>4. IsManifest(manifests[e]) /\ manifests[e].epoch = environments[e].epoch
  BY DEF RowInvariant
<1>5. manifests[e].version + 1 \in Nat /\ epoch \in Nat /\ head \in Nat
  BY <1>4 DEF IsManifest, TypeOK
<1>6. VoteOf(d) \in Votes
  BY VoteType DEF TypeOK
<1>7. IsManifest(m)
  BY <1>2, <1>5, <1>6 DEF IsManifest
<1>8. ManifestVerifies(e, n)
  BY <1>1 DEF ManifestAcceptable
<1>9. ManifestVerifies(e, m)
  BY <1>3, <1>8 DEF ManifestVerifies, EpochIntegrity, CheckpointIntegrity
<1>10. manifests' = [manifests EXCEPT ![e] = m]
  BY <1>1 DEF AcceptManifest
<1>11. QED
  BY <1>2, <1>7, <1>9, <1>10 DEF Issued

\* What a request that writes environment data comes to.
LEMMA DataCases ==
    ASSUME TypeOK, RowInvariant, NEW d \in devices, DataRequest(d)
    PROVE  \E e : DataWritten(e)
<1>1. PICK e \in LiveEnvironments :
        \/ \E v \in Variables, at \in 1..headSeq :
              PushVersion(d, e, v, Value(d, environments[e].epoch, at))
        \/ /\ MayWrite(d, e)
           /\ \E at \in DeclarableHeads(d, e), hash \in ManifestHashes,
                 epoch \in manifests[e].epoch..environments[e].epoch :
                 \/ RenameEnvironment(d, e, epoch, hash, at)
                 \/ \E v \in Variables : VariableMetaOp(d, e, v, epoch, hash, at)
  BY DEF DataRequest
<1>2. ASSUME NEW v \in Variables, NEW at \in 1..headSeq,
             PushVersion(d, e, v, Value(d, environments[e].epoch, at))
      PROVE  DataWritten(e)
  <2>1. PICK k, value : k = <<e, v>> /\ value = Value(d, environments[e].epoch, at)
    OBVIOUS
  <2>2. value \in ValueRecords
    BY <1>1, <2>1, ValueType DEF LiveEnvironments
  <2>3. k \in DOMAIN variableRows /\ variableRows[k].status # "deleted"
    BY <1>2, <2>1 DEF PushVersion, RequireActiveVariable
  <2>4. PICK old, row : /\ old = variableRows[k]
                        /\ row = [old EXCEPT !.versions = Append(old.versions, value)]
    OBVIOUS
  <2>5. old \in VariableRecords /\ VersionsOf(e, v) = old.versions
    BY <2>1, <2>3, <2>4 DEF RowInvariant, VersionsOf
  <2>6. /\ row \in VariableRecords /\ row.status = old.status /\ row.metaVersion = old.metaVersion
        /\ row.versions = Append(old.versions, value)
    <3>1. old.versions \in Seq(ValueRecords)
      BY <2>5 DEF VariableRecords
    <3>2. Append(old.versions, value) \in Seq(ValueRecords)
      BY <2>2, <3>1
    <3>3. QED
      BY <2>4, <2>5, <3>2 DEF VariableRecords
  <2>7. variableRows' = [variableRows EXCEPT ![k] = row]
    BY <1>2, <2>1, <2>4 DEF PushVersion
  <2>8. variableRows' = WithKey(variableRows, k, row)
    BY <2>3, <2>7, ReplacedKey
  <2>9. AcceptValue(e, VersionsOf(e, v), value)
    BY <1>2, <2>1, <2>4, <2>5 DEF PushVersion
  <2>10. UNCHANGED <<historyVars, environmentRows, manifests, checkpointSnapshots,
                     dekWraps, headAttestations>>
    BY <1>2 DEF PushVersion
  <2>11. RowWritten(e, v, row)
    BY <2>1, <2>2, <2>3, <2>4, <2>5, <2>6, <2>8, <2>9 DEF RowWritten
  <2>12. QED
    BY <1>1, <2>1, <2>3, <2>4, <2>6, <2>10, <2>11 DEF DataWritten, Pushed
<1>3. ASSUME NEW at \in DeclarableHeads(d, e), NEW hash,
             NEW epoch \in manifests[e].epoch..environments[e].epoch,
             \/ RenameEnvironment(d, e, epoch, hash, at)
             \/ \E v \in Variables : VariableMetaOp(d, e, v, epoch, hash, at)
      PROVE  DataWritten(e)
  <2>1. /\ ManifestAcceptable(d, e, epoch, hash, at) /\ AcceptManifest(d, e, epoch, hash, at)
        /\ UNCHANGED <<historyVars, checkpointSnapshots, dekWraps, headAttestations>>
    BY <1>3 DEF RenameEnvironment, VariableMetaOp
  <2>2. at \in 1..headSeq
    BY DEF DeclarableHeads
  <2>3. \E m : Issued(e, m)
    BY <1>1, <2>1, <2>2, ManifestIssued
  <2>4. CASE RenameEnvironment(d, e, epoch, hash, at)
    <3>1. Renamed(e)
      BY <2>4 DEF RenameEnvironment, Renamed
    <3>2. QED
      BY <1>1, <2>1, <2>3, <3>1 DEF DataWritten
  <2>5. ASSUME NEW v \in Variables, VariableMetaOp(d, e, v, epoch, hash, at)
        PROVE  DataWritten(e)
    <3>1. UNCHANGED environmentRows /\ \E row : RowWritten(e, v, row)
      BY <1>1, <2>5, VariableWrites DEF VariableMetaOp
    <3>2. QED
      BY <1>1, <2>1, <2>3, <3>1 DEF DataWritten
  <2>6. QED
    BY <1>3, <2>4, <2>5
<1>4. QED
  BY <1>1, <1>2, <1>3

(***************************************************************************)
(* The requests, one at a time.                                            *)
(***************************************************************************)

\* The environment of op is retired.
Retired(op) ==
    /\ op.env \in LiveEnvironments
    /\ environments' = [environments EXCEPT ![op.env].deletedAt = headSeq + 1]
    /\ checkpoints' = WithoutKey(checkpoints, op.env)
    /\ RetireEnvironment(op.env)
    /\ UNCHANGED headAttestations

\* The checkpoint op attests what is stored.
Attested(op) ==
    /\ op \in CheckpointOps
    /\ \A t \in op.tuples :
          t.env \in LiveEnvironments /\ t.epoch = environments[t.env].epoch /\ AttestsStored(t)
    /\ UNCHANGED <<members, devices, tenures, environments>>
    /\ checkpoints' = WithTuples(checkpoints, op, headSeq + 1)
    /\ checkpointTuples' = TuplesAfterCheckpoint(op, headSeq + 1)
    /\ checkpointSnapshots' = SnapshotsAfter(op, headSeq + 1)
    /\ UNCHANGED <<environmentRows, manifests, variableRows, dekWraps, headAttestations>>

PairRequest ==
    \E d \in devices, op \in Operations : \E m, h :
        /\ h \in ManifestHashes /\ PairStep(d, op.env, m, h)
        /\ Created(op, m) \/ Rotated(op, m)

\* A request that brings one entry: only the entry, a deletion or a checkpoint.
EntryRequest ==
    \/ Appended
    \/ \E d \in devices, op \in Operations :
          /\ HistoryNext /\ AppliedEntry(op, d)
          /\ (op.op = "delete_environment" /\ Retired(op)) \/ (op.op = "checkpoint" /\ Attested(op))

\* A request that brings none.
RowRequest ==
    \/ UNCHANGED allVars
    \/ \E d \in devices : WrapRequest(d)
    \/ \E e : DataWritten(e)
    \/ \E d \in devices, head \in 1..headSeq : PutHeadAttestation(d, head)

\* A deletion is a step of the chain that retires the environment.
LEMMA DeletionCase ==
    ASSUME NEW d \in devices, NEW op \in Operations, DeleteEnvironment(d, op)
    PROVE  EntryRequest
<1>1. HistoryNext /\ AppliedEntry(op, d)
  BY DirectIsEntry DEF DeleteEnvironment
<1>2. op.op = "delete_environment"
  BY DEF DeleteEnvironment
<1>3. op.env \in LiveEnvironments
  BY <1>1, <1>2 DEF AppliedEntry, ConsensusRule, DeleteEnvironmentRule
<1>4. /\ environments' = [environments EXCEPT ![op.env].deletedAt = headSeq + 1]
      /\ checkpoints' = WithoutKey(checkpoints, op.env)
  BY <1>1, <1>2 DEF AppliedEntry, Apply, ApplyDeleteEnvironment, NextSeq
<1>5. Retired(op)
  BY <1>3, <1>4 DEF DeleteEnvironment, Retired
<1>6. QED
  BY <1>1, <1>2, <1>5 DEF EntryRequest

\* A checkpoint is a step of the chain that attests what is stored.
LEMMA CheckpointCase ==
    ASSUME NEW d \in devices, NEW op \in Operations, StandaloneCheckpoint(d, op)
    PROVE  EntryRequest
<1>1. HistoryNext /\ AppliedEntry(op, d)
  BY DirectIsEntry DEF StandaloneCheckpoint
<1>2. op.op = "checkpoint"
  BY DEF StandaloneCheckpoint
<1>3. \A t \in op.tuples :
         t.env \in LiveEnvironments /\ t.epoch = environments[t.env].epoch
  BY <1>1, <1>2 DEF AppliedEntry, ConsensusRule, CheckpointRule
<1>4. /\ checkpoints' = WithTuples(checkpoints, op, headSeq + 1)
      /\ UNCHANGED <<memberVars, environments>>
  BY <1>1, <1>2 DEF AppliedEntry, Apply, ApplyCheckpoint, NextSeq
<1>5. checkpointTuples' = TuplesAfterCheckpoint(op, headSeq + 1) /\ UNCHANGED tenures
  BY <1>1, <1>2 DEF AppliedEntry, RecordHistory, RecordCheckpoint, NextSeq
<1>6. op \in CheckpointOps
  BY <1>2, OperationShapes
<1>7. Attested(op)
  BY <1>3, <1>4, <1>5, <1>6 DEF StandaloneCheckpoint, Attested, memberVars
<1>8. QED
  BY <1>1, <1>2, <1>7 DEF EntryRequest

\* Every request is one of these.
LEMMA RequestCases ==
    ASSUME TypeOK, RowInvariant, [StoreNext]_allVars
    PROVE  EntryRequest \/ PairRequest \/ RowRequest
<1>1. CASE UNCHANGED allVars
  BY <1>1 DEF RowRequest
<1>2. ASSUME NEW d \in devices, AppendEntry(d) PROVE EntryRequest
  BY <1>2, AppendCases DEF EntryRequest
<1>3. ASSUME NEW d \in devices, CompositeRequest(d) PROVE PairRequest
  BY <1>3, CompositeCases DEF PairRequest
<1>4. ASSUME NEW d \in devices, ChainRequest(d) PROVE EntryRequest
  BY <1>4, DeletionCase, CheckpointCase DEF ChainRequest
<1>5. ASSUME NEW d \in devices, WrapRequest(d) PROVE RowRequest
  BY <1>5 DEF RowRequest
<1>6. ASSUME NEW d \in devices, DataRequest(d) PROVE RowRequest
  BY <1>6, DataCases DEF RowRequest
<1>7. ASSUME NEW d \in devices, NEW head \in 1..headSeq, PutHeadAttestation(d, head)
      PROVE  RowRequest
  BY <1>7 DEF RowRequest
<1>8. QED
  BY <1>1, <1>2, <1>3, <1>4, <1>5, <1>6, <1>7 DEF StoreNext

\* Requests without an entry leave the chain alone.
LEMMA RowRequestsKeepChain ==
    ASSUME RowRequest
    PROVE  UNCHANGED historyVars
BY DEF RowRequest, allVars, WrapRequest, RegisterDekWraps, DeleteDekWraps, DataWritten,
   PutHeadAttestation

\* The chain of a store stays one.
LEMMA StoreChainStep ==
    ASSUME StoreChain, RowInvariant, [StoreNext]_allVars
    PROVE  StoreChain'
<1>1. CASE EntryRequest
  <2>1. [HistoryNext]_historyVars
    BY <1>1 DEF EntryRequest, Appended
  <2>2. QED
    BY <2>1, EntryKeepsChain
<1>2. CASE PairRequest
  <2>1. PICK d \in devices, op \in Operations :
           \E m, h : /\ h \in ManifestHashes /\ PairStep(d, op.env, m, h)
                     /\ Created(op, m) \/ Rotated(op, m)
    BY <1>2 DEF PairRequest
  <2>2. PICK m, h : /\ h \in ManifestHashes /\ PairStep(d, op.env, m, h)
                    /\ Created(op, m) \/ Rotated(op, m)
    BY <2>1
  <2>3. m.version \in Nat
    BY <2>2 DEF Created, Rotated, RowInvariant, IsManifest
  <2>4. QED
    BY <2>2, <2>3, PairKeepsChain
<1>3. CASE RowRequest
  BY <1>3, RowRequestsKeepChain, EntryKeepsChain
<1>4. QED
  BY <1>1, <1>2, <1>3, RequestCases DEF StoreChain

\* A deletion takes its environment out of the live ones, and changes no epoch.
LEMMA RetiredEnvironments ==
    ASSUME TypeOK, NEW op, Retired(op)
    PROVE  /\ LiveEnvironments' = LiveEnvironments \ {op.env}
           /\ DOMAIN environments' = DOMAIN environments
           /\ \A x \in DOMAIN environments : x # op.env => environments'[x] = environments[x]
           /\ environments'[op.env].deletedAt # 0
<1>1. PICK e, env, after : /\ e = op.env /\ env = environments[e]
                           /\ after = [env EXCEPT !.deletedAt = headSeq + 1]
  OBVIOUS
<1>2. e \in DOMAIN environments /\ env \in EnvironmentStates /\ headSeq + 1 # 0
  BY <1>1 DEF Retired, LiveEnvironments, TypeOK, IsMap
<1>3. after.deletedAt # 0
  BY <1>1, <1>2 DEF EnvironmentStates
<1>4. environments' = [environments EXCEPT ![e] = after]
  BY <1>1 DEF Retired
<1>5. /\ DOMAIN environments' = DOMAIN environments /\ environments'[e] = after
      /\ \A x \in DOMAIN environments : x # e => environments'[x] = environments[x]
  BY <1>2, <1>4
<1>6. LiveEnvironments' = LiveEnvironments \ {e}
  BY <1>3, <1>5 DEF LiveEnvironments
<1>7. QED
  BY <1>1, <1>3, <1>5, <1>6

\* A retired environment leaves a tombstone and none of its other rows.
LEMMA RetiredRows ==
    ASSUME TypeOK, RowInvariant, NEW op, Retired(op)
    PROVE  RowInvariant'
<1>1. PICK e : e = op.env
  OBVIOUS
<1>2. /\ LiveEnvironments' = LiveEnvironments \ {e}
      /\ DOMAIN environments' = DOMAIN environments
      /\ \A x \in DOMAIN environments : x # e => environments'[x] = environments[x]
      /\ environments'[e].deletedAt # 0
  BY <1>1, RetiredEnvironments
<1>3. e \in DOMAIN environments /\ e \in DOMAIN environmentRows
  BY <1>1 DEF Retired, LiveEnvironments, RowInvariant
<1>4. /\ environmentRows' = [environmentRows EXCEPT ![e].deleted = TRUE]
      /\ variableRows' = [k \in {x \in DOMAIN variableRows : x[1] # e} |-> variableRows[k]]
      /\ manifests' = WithoutKey(manifests, e)
      /\ checkpointSnapshots' = WithoutKey(checkpointSnapshots, e)
      /\ checkpoints' = WithoutKey(checkpoints, e)
  BY <1>1 DEF Retired, RetireEnvironment
<1>5. DOMAIN environmentRows' = DOMAIN environments'
  BY <1>2, <1>4 DEF RowInvariant
<1>6. ASSUME NEW x \in DOMAIN environments'
      PROVE  /\ environmentRows'[x] \in EnvironmentRecords
             /\ environmentRows'[x].deleted <=> environments'[x].deletedAt # 0
  <2>1. environmentRows[x] \in EnvironmentRecords
    BY <1>2 DEF RowInvariant
  <2>2. CASE x = e
    <3>1. environmentRows'[x] = [environmentRows[x] EXCEPT !.deleted = TRUE]
      BY <1>3, <1>4, <2>2
    <3>2. QED
      BY <1>2, <2>1, <2>2, <3>1 DEF EnvironmentRecords
  <2>3. CASE x # e
    <3>1. environmentRows'[x] = environmentRows[x]
      BY <1>2, <1>4, <2>3 DEF RowInvariant
    <3>2. QED
      BY <1>2, <2>3, <3>1 DEF RowInvariant
  <2>4. QED
    BY <2>2, <2>3
<1>7. DOMAIN manifests' = LiveEnvironments' /\ DOMAIN checkpointSnapshots' = LiveEnvironments'
  BY <1>2, <1>4 DEF RowInvariant, WithoutKey
<1>8. ASSUME NEW x \in LiveEnvironments'
      PROVE  /\ IsManifest(manifests'[x]) /\ manifests'[x].epoch = environments'[x].epoch
             /\ x \in DOMAIN checkpoints' /\ checkpointSnapshots'[x].checkpoint = checkpoints'[x]
  <2>1. x \in LiveEnvironments /\ x # e /\ x \in DOMAIN environments
    BY <1>2 DEF LiveEnvironments
  <2>2. x \in DOMAIN manifests /\ x \in DOMAIN checkpointSnapshots /\ x \in DOMAIN checkpoints
    BY <2>1 DEF RowInvariant
  <2>3. /\ manifests'[x] = manifests[x] /\ environments'[x] = environments[x]
        /\ x \in DOMAIN checkpoints' /\ checkpoints'[x] = checkpoints[x]
        /\ checkpointSnapshots'[x] = checkpointSnapshots[x]
    BY <1>2, <1>4, <2>1, <2>2 DEF WithoutKey
  <2>4. QED
    BY <2>1, <2>3 DEF RowInvariant
<1>9. ASSUME NEW k \in DOMAIN variableRows'
      PROVE  k \in LiveEnvironments' \X Variables /\ variableRows'[k] \in VariableRecords
  <2>1. k \in DOMAIN variableRows /\ k[1] # e /\ variableRows'[k] = variableRows[k]
    BY <1>4
  <2>2. k \in LiveEnvironments \X Variables /\ variableRows[k] \in VariableRecords
    BY <2>1 DEF RowInvariant
  <2>3. QED
    BY <1>2, <2>1, <2>2
<1>10. QED
  BY <1>5, <1>6, <1>7, <1>8, <1>9 DEF RowInvariant

\* The snapshots of a checkpoint are those of the chain's latest checkpoints.
LEMMA AttestedRows ==
    ASSUME TypeOK, RowInvariant, NEW op, Attested(op)
    PROVE  RowInvariant'
<1>1. PICK T : T = {t.env : t \in op.tuples}
  OBVIOUS
<1>2. T \subseteq LiveEnvironments
  BY <1>1 DEF Attested
<1>3. /\ UNCHANGED <<environments, environmentRows, manifests, variableRows>>
      /\ LiveEnvironments' = LiveEnvironments
  BY DEF Attested, LiveEnvironments
<1>4. /\ DOMAIN checkpoints' = DOMAIN checkpoints \cup T
      /\ \A x \in T : checkpoints'[x] = CheckpointOf(CHOOSE t \in op.tuples : t.env = x, headSeq + 1)
      /\ \A x \in DOMAIN checkpoints \ T : checkpoints'[x] = checkpoints[x]
  BY <1>1 DEF Attested, WithTuples
<1>5. /\ DOMAIN checkpointSnapshots' = DOMAIN checkpointSnapshots \cup T
      /\ \A x \in T : checkpointSnapshots'[x].checkpoint
                         = CheckpointOf(CHOOSE t \in op.tuples : t.env = x, headSeq + 1)
      /\ \A x \in DOMAIN checkpointSnapshots \ T : checkpointSnapshots'[x] = checkpointSnapshots[x]
  BY <1>1 DEF Attested, SnapshotsAfter
<1>6. DOMAIN checkpointSnapshots' = LiveEnvironments'
  BY <1>2, <1>3, <1>5 DEF RowInvariant
<1>7. ASSUME NEW x \in LiveEnvironments
      PROVE  x \in DOMAIN checkpoints' /\ checkpointSnapshots'[x].checkpoint = checkpoints'[x]
  <2>1. x \in DOMAIN checkpoints /\ x \in DOMAIN checkpointSnapshots
    BY DEF RowInvariant
  <2>2. CASE x \in T
    BY <1>4, <1>5, <2>2
  <2>3. CASE x \notin T
    BY <1>4, <1>5, <2>1, <2>3 DEF RowInvariant
  <2>4. QED
    BY <2>2, <2>3
<1>8. QED
  BY <1>3, <1>6, <1>7 DEF RowInvariant

\* A pair of entries gives its environment its rows, or replaces them.
LEMMA PairRows ==
    ASSUME TypeOK, RowInvariant, NEW d \in devices, NEW op \in Operations, NEW m,
           NEW h \in ManifestHashes,
           PairStep(d, op.env, m, h), Created(op, m) \/ Rotated(op, m), Begins(op.env, m.epoch)
    PROVE  RowInvariant' /\ LiveEnvironments' = LiveEnvironments \cup {op.env}
<1>1. PICK e : e = op.env
  OBVIOUS
<1>2. /\ DOMAIN environments' = DOMAIN environments \cup {e}
      /\ \A x \in DOMAIN environments : x # e => environments'[x] = environments[x]
      /\ environments'[e].epoch = m.epoch /\ environments'[e].deletedAt = 0 /\ m.epoch \in Nat
  BY <1>1 DEF Begins
<1>3. LiveEnvironments' = LiveEnvironments \cup {e}
  BY <1>2 DEF LiveEnvironments
<1>4. /\ manifests' = WithKey(manifests, e, m) /\ UNCHANGED variableRows
      /\ checkpoints' = WithKey(checkpoints, e, CheckpointOf(BoundaryTuple(e, m, h), headSeq + 2))
      /\ checkpointSnapshots' =
            WithKey(checkpointSnapshots, e,
                    [checkpoint |-> CheckpointOf(BoundaryTuple(e, m, h), headSeq + 2),
                     values |-> CurrentValues(e)])
      /\ m.issuer = VoteOf(d) /\ m.head = headSeq
  BY <1>1 DEF PairStep
<1>5. IsManifest(m)
  <2>1. m.version \in Nat
    BY DEF Created, Rotated, RowInvariant, IsManifest
  <2>2. VoteOf(d) \in Votes /\ headSeq \in Nat
    BY VoteType DEF TypeOK
  <2>3. QED
    BY <1>2, <1>4, <2>1, <2>2 DEF IsManifest
<1>6. /\ DOMAIN environmentRows' = DOMAIN environments'
      /\ \A x \in DOMAIN environments' :
            /\ environmentRows'[x] \in EnvironmentRecords
            /\ environmentRows'[x].deleted <=> environments'[x].deletedAt # 0
  <2>1. CASE Created(op, m)
    <3>1. PICK row : row = [metaVersion |-> 1, deleted |-> FALSE]
      OBVIOUS
    <3>2. row \in EnvironmentRecords /\ ~row.deleted
      BY <3>1 DEF EnvironmentRecords
    <3>3. environmentRows' = WithKey(environmentRows, e, row)
      BY <1>1, <2>1, <3>1 DEF Created
    <3>4. QED
      BY <1>2, <3>2, <3>3 DEF RowInvariant, WithKey
  <2>2. CASE Rotated(op, m)
    <3>1. UNCHANGED environmentRows /\ e \in LiveEnvironments
      BY <1>1, <2>2 DEF Rotated
    <3>2. e \in DOMAIN environments /\ environments[e].deletedAt = 0
      BY <3>1 DEF LiveEnvironments
    <3>3. DOMAIN environmentRows' = DOMAIN environments'
      BY <1>2, <3>1, <3>2 DEF RowInvariant
    <3>4. ASSUME NEW x \in DOMAIN environments'
          PROVE  /\ environmentRows'[x] \in EnvironmentRecords
                 /\ environmentRows'[x].deleted <=> environments'[x].deletedAt # 0
      <4>1. x \in DOMAIN environments /\ environmentRows'[x] = environmentRows[x]
        BY <1>2, <3>1, <3>2
      <4>2. environments'[x].deletedAt = environments[x].deletedAt
        BY <1>2, <3>2, <4>1
      <4>3. QED
        BY <4>1, <4>2 DEF RowInvariant
    <3>5. QED
      BY <3>3, <3>4
  <2>3. QED
    BY <2>1, <2>2
<1>7. DOMAIN manifests' = LiveEnvironments' /\ DOMAIN checkpointSnapshots' = LiveEnvironments'
  BY <1>3, <1>4 DEF RowInvariant, WithKey
<1>8. ASSUME NEW x \in LiveEnvironments'
      PROVE  /\ IsManifest(manifests'[x]) /\ manifests'[x].epoch = environments'[x].epoch
             /\ x \in DOMAIN checkpoints' /\ checkpointSnapshots'[x].checkpoint = checkpoints'[x]
  <2>1. CASE x = e
    BY <1>2, <1>4, <1>5, <2>1 DEF WithKey
  <2>2. CASE x # e
    <3>1. x \in LiveEnvironments /\ x \in DOMAIN environments
      BY <1>3, <2>2 DEF LiveEnvironments
    <3>2. x \in DOMAIN manifests /\ x \in DOMAIN checkpointSnapshots /\ x \in DOMAIN checkpoints
      BY <3>1 DEF RowInvariant
    <3>3. /\ manifests'[x] = manifests[x] /\ environments'[x] = environments[x]
          /\ x \in DOMAIN checkpoints' /\ checkpoints'[x] = checkpoints[x]
          /\ checkpointSnapshots'[x] = checkpointSnapshots[x]
      BY <1>2, <1>4, <2>2, <3>1, <3>2 DEF WithKey
    <3>4. QED
      BY <3>1, <3>3 DEF RowInvariant
  <2>3. QED
    BY <2>1, <2>2
<1>9. \A k \in DOMAIN variableRows' :
         k \in LiveEnvironments' \X Variables /\ variableRows'[k] \in VariableRecords
  BY <1>3, <1>4 DEF RowInvariant
<1>10. QED
  BY <1>1, <1>3, <1>6, <1>7, <1>8, <1>9 DEF RowInvariant

\* Writing environment data leaves the rows in agreement with the chain.
LEMMA WrittenRows ==
    ASSUME TypeOK, RowInvariant, NEW e, DataWritten(e)
    PROVE  RowInvariant'
<1>1. /\ e \in LiveEnvironments /\ UNCHANGED <<environments, checkpoints, checkpointSnapshots>>
      /\ LiveEnvironments' = LiveEnvironments /\ e \in DOMAIN manifests
      /\ e \in DOMAIN environmentRows
  BY DEF DataWritten, historyVars, vars, envVars, LiveEnvironments, RowInvariant
<1>2. ASSUME NEW v, NEW row, RowWritten(e, v, row)
      PROVE  \A k \in DOMAIN variableRows' :
                k \in LiveEnvironments \X Variables /\ variableRows'[k] \in VariableRecords
  <2>1. <<e, v>> \in LiveEnvironments \X Variables /\ row \in VariableRecords
    BY <1>1, <1>2 DEF RowWritten
  <2>2. variableRows' = WithKey(variableRows, <<e, v>>, row)
    BY <1>2 DEF RowWritten
  <2>3. QED
    BY <2>1, <2>2 DEF RowInvariant, WithKey
<1>3. ASSUME NEW m, Issued(e, m)
      PROVE  /\ DOMAIN manifests' = LiveEnvironments
             /\ \A x \in LiveEnvironments :
                   IsManifest(manifests'[x]) /\ manifests'[x].epoch = environments[x].epoch
  <2>1. manifests' = [manifests EXCEPT ![e] = m] /\ IsManifest(m)
    BY <1>3 DEF Issued
  <2>2. m.epoch = environments[e].epoch
    <3>1. manifests[e].epoch = environments[e].epoch /\ manifests[e].epoch \in Nat
      BY <1>1 DEF RowInvariant, IsManifest
    <3>2. m.epoch \in manifests[e].epoch..environments[e].epoch
      BY <1>3 DEF Issued
    <3>3. QED
      BY <3>1, <3>2
  <2>3. QED
    BY <1>1, <2>1, <2>2 DEF RowInvariant
<1>4. CASE \E v, row : Pushed(e, v, row)
  <2>1. PICK v, row : Pushed(e, v, row)
    BY <1>4
  <2>2. QED
    BY <1>1, <1>2, <2>1 DEF Pushed, RowInvariant
<1>5. ASSUME NEW m, Issued(e, m), Renamed(e) PROVE RowInvariant'
  <2>1. UNCHANGED variableRows /\ DOMAIN environmentRows' = DOMAIN environmentRows
    BY <1>5 DEF Renamed
  <2>2. ASSUME NEW x \in DOMAIN environments
        PROVE  /\ environmentRows'[x] \in EnvironmentRecords
               /\ environmentRows'[x].deleted = environmentRows[x].deleted
    <3>1. x \in DOMAIN environmentRows /\ environmentRows[x] \in EnvironmentRecords
      BY DEF RowInvariant
    <3>2. \/ environmentRows'[x] = environmentRows[x]
          \/ environmentRows'[x] = [environmentRows[x] EXCEPT
                                       !.metaVersion = environmentRows[x].metaVersion + 1]
      BY <1>5, <3>1 DEF Renamed
    <3>3. QED
      BY <3>1, <3>2 DEF EnvironmentRecords
  <2>3. QED
    BY <1>1, <1>3, <1>5, <2>1, <2>2 DEF RowInvariant
<1>6. ASSUME NEW m, Issued(e, m), UNCHANGED environmentRows, NEW v, NEW row, RowWritten(e, v, row)
      PROVE  RowInvariant'
  BY <1>1, <1>2, <1>3, <1>6 DEF RowInvariant
<1>7. QED
  BY <1>4, <1>5, <1>6 DEF DataWritten

\* Requests about wraps and attestations touch none of these rows.
LEMMA OtherRequestsKeepRows ==
    ASSUME UNCHANGED <<environments, checkpoints, rowVars>>, RowInvariant
    PROVE  RowInvariant'
BY DEF RowInvariant, rowVars, LiveEnvironments

\* Every request keeps the rows in agreement with the chain.
LEMMA RowStep ==
    ASSUME StoreChain, RowInvariant, [StoreNext]_allVars
    PROVE  RowInvariant'
<1>1. TypeOK /\ OrderInvariant
  BY DEF StoreChain
<1>2. CASE EntryRequest
  <2>1. CASE Appended
    BY <1>1, <2>1, AppendedKeeps, OtherRequestsKeepRows
  <2>2. CASE \E op : Retired(op)
    BY <1>1, <2>2, RetiredRows
  <2>3. CASE \E op : Attested(op)
    BY <1>1, <2>3, AttestedRows
  <2>4. QED
    BY <1>2, <2>1, <2>2, <2>3 DEF EntryRequest
<1>3. CASE PairRequest
  BY <1>1, <1>3, PairBegins, PairRows DEF PairRequest
<1>4. CASE RowRequest
  <2>1. CASE \E e : DataWritten(e)
    BY <1>1, <2>1, WrittenRows
  <2>2. CASE UNCHANGED rowVars
    <3>1. UNCHANGED <<environments, checkpoints>>
      BY <1>4, RowRequestsKeepChain DEF historyVars, vars, envVars
    <3>2. QED
      BY <2>2, <3>1, OtherRequestsKeepRows
  <2>3. UNCHANGED rowVars \/ \E e : DataWritten(e)
    BY <1>4 DEF RowRequest, allVars, storeVars, WrapRequest, RegisterDekWraps, DeleteDekWraps,
       PutHeadAttestation
  <2>4. QED
    BY <2>1, <2>2, <2>3
<1>5. QED
  BY <1>1, <1>2, <1>3, <1>4, RequestCases

(***************************************************************************)
(* DEK wraps.                                                              *)
(***************************************************************************)

\* The recipient a row is sealed to.
AddressOf(r) == [kind |-> r.kind, id |-> r.id, enc |-> r.enc]

\* The row is of an epoch that has begun, sealed to a recipient of then or later.
InReach(r) ==
    /\ r.env \in LiveEnvironments /\ r.epoch \in 1..environments[r.env].epoch
    /\ \E s \in 1..headSeq :
          /\ environments[r.env].epochStarts[r.epoch] <= s
          /\ AddressOf(r) \in RecipientsIn(snapshots[s], r.env)

\* Wraps are in reach, each in a slot of its own.
WrapInvariant == (\A r \in dekWraps : InReach(r)) /\ SlotsUnique

\* The rows that are sealed to recipients of now: for an epoch, each recipient once.
LEMMA RecipientsApart ==
    ASSUME TypeOK, KeyInvariant, NEW e, NEW n
    PROVE  /\ \A q, r \in WrapSet(e, n) : WrapStorageKey(q) = WrapStorageKey(r) => q = r
           /\ \A r \in WrapSet(e, n) : /\ r.env = e /\ r.epoch = n
                                       /\ AddressOf(r) \in RecipientsIn(Snapshot, e)
<1>1. \A a \in RecipientsIn(Snapshot, e) :
         \/ /\ a.kind = "member" /\ a = [kind |-> a.kind, id |-> a.id, enc |-> a.enc]
            /\ \E d \in devices : a.id = d.user /\ a.enc = d.enc
         \/ /\ a.kind = "server" /\ a = [kind |-> a.kind, id |-> a.id, enc |-> a.enc]
            /\ a.id \in DOMAIN serverGrants /\ a.enc = a.id
  BY DEF RecipientsIn, Snapshot
<1>2. /\ \A c, d \in devices : c.enc = d.enc => c = d
      /\ \A d \in devices : d.enc \notin DOMAIN serverGrants
  BY DEF KeyInvariant, KeySubjectsUnique
<1>3. \A a, b \in RecipientsIn(Snapshot, e) : a.id = b.id /\ a.enc = b.enc => a = b
  BY <1>1, <1>2
<1>4. ASSUME NEW r \in WrapSet(e, n)
      PROVE  \E a \in RecipientsIn(Snapshot, e) :
                r = [env |-> e, epoch |-> n, kind |-> a.kind, id |-> a.id, enc |-> a.enc]
  BY DEF WrapSet
<1>5. ASSUME NEW r \in WrapSet(e, n)
      PROVE  /\ r.env = e /\ r.epoch = n /\ AddressOf(r) \in RecipientsIn(Snapshot, e)
             /\ r = [env |-> e, epoch |-> n, kind |-> r.kind, id |-> r.id, enc |-> r.enc]
  <2>1. PICK a \in RecipientsIn(Snapshot, e) :
           r = [env |-> e, epoch |-> n, kind |-> a.kind, id |-> a.id, enc |-> a.enc]
    BY <1>4
  <2>2. r.env = e /\ r.epoch = n /\ r.kind = a.kind /\ r.id = a.id /\ r.enc = a.enc
    BY <2>1
  <2>3. a = [kind |-> a.kind, id |-> a.id, enc |-> a.enc]
    BY <1>1
  <2>4. AddressOf(r) = a
    BY <2>2, <2>3 DEF AddressOf
  <2>5. QED
    BY <2>1, <2>2, <2>4
<1>6. ASSUME NEW q \in WrapSet(e, n), NEW r \in WrapSet(e, n), WrapStorageKey(q) = WrapStorageKey(r)
      PROVE  q = r
  <2>1. q.id = r.id /\ q.enc = r.enc
    BY <1>6 DEF WrapStorageKey
  <2>2. AddressOf(q) = AddressOf(r)
    BY <1>3, <1>5, <2>1 DEF AddressOf
  <2>3. q.kind = r.kind
    BY <2>2 DEF AddressOf
  <2>4. QED
    BY <1>5, <2>1, <2>3
<1>7. QED
  BY <1>5, <1>6

\* What a registration stores: rows of this environment for epochs that have begun, each
\* sealed to a recipient of now.
LEMMA AcceptableShape ==
    ASSUME TypeOK, NEW e, NEW r \in AcceptableRows(e)
    PROVE  /\ r.env = e /\ r.epoch \in 1..environments[e].epoch
           /\ AddressOf(r) \in RecipientsIn(Snapshot, e)
           /\ r.kind \in {"member", "server"}
           /\ r.kind = "member" => \E d \in devices : d.user = r.id /\ d.enc = r.enc
<1>1. CASE /\ r \in [env : {e}, epoch : 1..environments[e].epoch, kind : {"member"},
                     id : DOMAIN members, enc : memberEncPubs]
           /\ CheckMemberRecipient(e, r)
  <2>1. r.env = e /\ r.epoch \in 1..environments[e].epoch /\ r.kind = "member"
    BY <1>1
  <2>2. PICK d \in DevicesOf(r.id) :
           d.enc = r.enc /\ ScopeIncludesEnvironment(PermissionOf(d).scope, e)
    BY <1>1 DEF CheckMemberRecipient
  <2>3. d \in devices /\ d.user = r.id
    BY <2>2 DEF DevicesOf
  <2>4. ScopeIncludesEnvironment(EffectivePermission(members[d.user], d).scope, e)
    BY <2>2 DEF PermissionOf
  <2>5. [kind |-> "member", id |-> d.user, enc |-> d.enc] \in RecipientsIn(Snapshot, e)
    BY <2>3, <2>4 DEF RecipientsIn, Snapshot
  <2>6. QED
    BY <2>1, <2>2, <2>3, <2>5 DEF AddressOf
<1>2. CASE /\ r \in [env : {e}, epoch : 1..environments[e].epoch, kind : {"server"},
                     id : DOMAIN serverGrants, enc : DOMAIN serverGrants]
           /\ CheckServerRecipient(e, r)
  <2>1. r.env = e /\ r.epoch \in 1..environments[e].epoch /\ r.kind = "server"
    BY <1>2
  <2>2. r.id \in DOMAIN serverGrants /\ r.enc = r.id /\ e \in serverGrants[r.id].ids
    BY <1>2 DEF CheckServerRecipient
  <2>3. [kind |-> "server", id |-> r.id, enc |-> r.id] \in RecipientsIn(Snapshot, e)
    BY <2>2 DEF RecipientsIn, Snapshot
  <2>4. QED
    BY <2>1, <2>2, <2>3 DEF AddressOf
<1>3. QED
  BY <1>1, <1>2 DEF AcceptableRows

\* The chain only grows: what was said of a seq, and the epochs that began, stay.
Grown ==
    /\ headSeq \in Nat \ {0} /\ headSeq' \in Nat \ {0} /\ headSeq <= headSeq'
    /\ \A s \in 1..headSeq : s \in 1..headSeq' /\ snapshots'[s] = snapshots[s]
    /\ \A x \in DOMAIN environments :
          /\ x \in DOMAIN environments'
          /\ environments[x].epoch \in Nat /\ environments'[x].epoch \in Nat
          /\ environments[x].epoch <= environments'[x].epoch
          /\ \A i \in 1..environments[x].epoch :
                environments'[x].epochStarts[i] = environments[x].epochStarts[i]

\* Every request extends the chain and forgets nothing of it: no snapshot and no begun
\* epoch changes (acceptEntry, acceptComposite).
LEMMA ChainGrows ==
    ASSUME StoreChain, RowInvariant, [StoreNext]_allVars
    PROVE  Grown
<1>1. TypeOK /\ OrderInvariant /\ SnapshotInvariant
  BY DEF StoreChain, IndexInvariant
<1>2. headSeq \in Nat \ {0} /\ headSeq <= headSeq
  BY <1>1 DEF SnapshotInvariant
<1>3. \A x \in DOMAIN environments : environments[x] \in EnvironmentStates
  BY <1>1 DEF TypeOK, IsMap
<1>4. \A x \in DOMAIN environments :
         environments[x].epoch \in Nat /\ environments[x].epoch <= environments[x].epoch
  BY <1>3 DEF EnvironmentStates
<1>5. CASE EntryRequest
  <2>1. Advances
    <3>1. CASE Appended
      BY <1>1, <3>1, AppendedKeeps DEF Advances
    <3>2. CASE \E d \in devices, op \in Operations : AppliedEntry(op, d)
      BY <3>2 DEF AppliedEntry, Advances, NextSeq
    <3>3. QED
      BY <1>5, <3>1, <3>2 DEF EntryRequest
  <2>2. \A s \in 1..headSeq : snapshots'[s] = snapshots[s]
    BY <1>1, <2>1, SnapshotsGrow
  <2>3. /\ headSeq' \in Nat \ {0} /\ headSeq <= headSeq'
        /\ \A s \in 1..headSeq : s \in 1..headSeq'
    BY <1>2, <2>1 DEF Advances
  <2>4. CASE UNCHANGED environments
    BY <1>2, <1>4, <2>2, <2>3, <2>4 DEF Grown
  <2>5. ASSUME NEW op, Retired(op) PROVE Grown
    <3>1. ASSUME NEW x \in DOMAIN environments
          PROVE  /\ x \in DOMAIN environments'
                 /\ environments'[x].epoch = environments[x].epoch
                 /\ environments'[x].epochStarts = environments[x].epochStarts
      BY <1>3, <2>5 DEF Retired, EnvironmentStates
    <3>2. QED
      BY <1>2, <1>4, <2>2, <2>3, <3>1 DEF Grown
  <2>6. UNCHANGED environments \/ \E op : Retired(op)
    BY <1>1, <1>5, AppendedKeeps DEF EntryRequest, Attested
  <2>7. QED
    BY <2>4, <2>5, <2>6
<1>6. CASE PairRequest
  <2>1. PICK d \in devices, op \in Operations :
           \E m, h : /\ h \in ManifestHashes /\ PairStep(d, op.env, m, h)
                     /\ Created(op, m) \/ Rotated(op, m)
    BY <1>6 DEF PairRequest
  <2>2. PICK m, h : PairStep(d, op.env, m, h) /\ (Created(op, m) \/ Rotated(op, m))
    BY <2>1
  <2>3. Begins(op.env, m.epoch)
    BY <1>1, <2>2, PairBegins
  <2>4. headSeq' = headSeq + 2 /\ snapshots' = snapshots \o <<Snapshot', Snapshot'>>
    BY <2>2 DEF PairStep
  <2>5. \A s \in 1..headSeq : snapshots'[s] = snapshots[s]
    <3>1. PICK new : new = <<Snapshot', Snapshot'>>
      OBVIOUS
    <3>2. new \in Seq({Snapshot'})
      BY <3>1
    <3>3. snapshots \in Seq(SnapshotRecords) /\ Len(snapshots) = headSeq
      BY <1>1 DEF SnapshotInvariant
    <3>4. QED
      BY <2>4, <3>1, <3>2, <3>3
  <2>6. /\ headSeq' \in Nat \ {0} /\ headSeq <= headSeq'
        /\ \A s \in 1..headSeq : s \in 1..headSeq'
    BY <1>2, <2>4
  <2>7. ASSUME NEW x \in DOMAIN environments
        PROVE  /\ x \in DOMAIN environments'
               /\ environments'[x].epoch \in Nat /\ environments[x].epoch <= environments'[x].epoch
               /\ \A i \in 1..environments[x].epoch :
                     environments'[x].epochStarts[i] = environments[x].epochStarts[i]
    BY <1>4, <2>3 DEF Begins
  <2>8. QED
    BY <1>2, <1>4, <2>5, <2>6, <2>7 DEF Grown
<1>7. CASE RowRequest
  <2>1. UNCHANGED <<environments, headSeq, snapshots>>
    BY <1>7, RowRequestsKeepChain DEF historyVars, vars, envVars
  <2>2. QED
    BY <1>2, <1>4, <2>1 DEF Grown
<1>8. QED
  BY <1>1, <1>5, <1>6, <1>7, RequestCases

\* A row stays in reach as long as its environment lives.
LEMMA ReachKept ==
    ASSUME Grown, NEW r, InReach(r), r.env \in LiveEnvironments'
    PROVE  InReach(r)'
<1>1. PICK e, n : e = r.env /\ n = r.epoch
  OBVIOUS
<1>2. e \in DOMAIN environments /\ n \in 1..environments[e].epoch
  BY <1>1 DEF InReach, LiveEnvironments
<1>3. n \in 1..environments'[e].epoch
  BY <1>2 DEF Grown
<1>4. environments'[e].epochStarts[n] = environments[e].epochStarts[n]
  BY <1>2 DEF Grown
<1>5. PICK s \in 1..headSeq :
         /\ environments[e].epochStarts[n] <= s
         /\ AddressOf(r) \in RecipientsIn(snapshots[s], e)
  BY <1>1 DEF InReach
<1>6. s \in 1..headSeq' /\ snapshots'[s] = snapshots[s]
  BY <1>5 DEF Grown
<1>7. AddressOf(r) \in RecipientsIn(snapshots'[s], e)
  BY <1>5, <1>6
<1>8. QED
  BY <1>1, <1>3, <1>4, <1>5, <1>6, <1>7 DEF InReach

\* Rows that go leave the others where they are.
LEMMA FewerWraps ==
    ASSUME Grown, WrapInvariant, dekWraps' \subseteq dekWraps,
           \A r \in dekWraps' : r.env \in LiveEnvironments'
    PROVE  WrapInvariant'
<1>1. \A r \in dekWraps' : InReach(r)'
  BY ReachKept DEF WrapInvariant
<1>2. SlotsUnique'
  BY DEF WrapInvariant, SlotsUnique, WrapStorageKey
<1>3. QED
  BY <1>1, <1>2 DEF WrapInvariant

\* New rows come in free slots.
LEMMA MoreWraps ==
    ASSUME Grown, WrapInvariant, LiveEnvironments \subseteq LiveEnvironments',
           NEW rows, dekWraps' = dekWraps \cup rows,
           \A r \in rows : InReach(r)',
           \A q, r \in rows : WrapStorageKey(q) = WrapStorageKey(r) => q = r,
           \A r \in rows, s \in dekWraps : WrapStorageKey(s) # WrapStorageKey(r)
    PROVE  WrapInvariant'
<1>1. \A r \in dekWraps : InReach(r) /\ r.env \in LiveEnvironments'
  BY DEF WrapInvariant, InReach
<1>2. \A r \in dekWraps' : InReach(r)'
  BY <1>1, ReachKept
<1>3. SlotsUnique'
  BY DEF WrapInvariant, SlotsUnique, WrapStorageKey
<1>4. QED
  BY <1>2, <1>3 DEF WrapInvariant

\* The wraps of a new epoch are complete, and the first of that epoch.
LEMMA PairWraps ==
    ASSUME StoreChain, Grown, WrapInvariant, NEW d, NEW e, NEW m, NEW h, PairStep(d, e, m, h),
           Begins(e, m.epoch), LiveEnvironments' = LiveEnvironments \cup {e}
    PROVE  WrapInvariant'
<1>1. PICK n, rows : n = m.epoch /\ rows = WrapSet(e, n)
  OBVIOUS
<1>2. dekWraps' = dekWraps \cup rows
  BY <1>1 DEF PairStep
<1>3. TypeOK /\ KeyInvariant /\ SnapshotInvariant
  BY DEF StoreChain, IndexInvariant
<1>4. /\ \A q, r \in rows : WrapStorageKey(q) = WrapStorageKey(r) => q = r
      /\ \A r \in rows : r.env = e /\ r.epoch = n /\ AddressOf(r) \in RecipientsIn(Snapshot, e)
  BY <1>1, <1>3, RecipientsApart
<1>5. \A r \in rows, s \in dekWraps : WrapStorageKey(s) # WrapStorageKey(r)
  <2>1. SUFFICES ASSUME NEW r \in rows, NEW s \in dekWraps, WrapStorageKey(s) = WrapStorageKey(r)
                 PROVE  FALSE
    OBVIOUS
  <2>2. s.env = e /\ s.epoch = n
    BY <1>4, <2>1 DEF WrapStorageKey
  <2>3. e \in LiveEnvironments /\ n \in 1..environments[e].epoch
    BY <2>2 DEF WrapInvariant, InReach
  <2>4. e \in DOMAIN environments /\ environments[e].epoch \in Nat
    BY <2>3 DEF LiveEnvironments, Grown
  <2>5. n = environments[e].epoch + 1
    BY <1>1, <2>4 DEF Begins
  <2>6. QED
    BY <2>3, <2>4, <2>5
<1>6. ASSUME NEW r \in rows PROVE InReach(r)'
  <2>1. PICK s : s = headSeq + 1
    OBVIOUS
  <2>2. s \in 1..headSeq' /\ s \in Nat
    BY <2>1 DEF PairStep, Grown
  <2>3. snapshots'[s] = Snapshot'
    <3>1. PICK new : new = <<Snapshot', Snapshot'>>
      OBVIOUS
    <3>2. new \in Seq({Snapshot'}) /\ Len(new) = 2 /\ new[1] = Snapshot'
      BY <3>1
    <3>3. snapshots \in Seq(SnapshotRecords) /\ Len(snapshots) = headSeq
      BY <1>3 DEF SnapshotInvariant
    <3>4. snapshots' = snapshots \o new
      BY <3>1 DEF PairStep
    <3>5. (snapshots \o new)[Len(snapshots) + 1] = Snapshot'
      <4>1. PICK S, x : S = SnapshotRecords \cup {x} /\ x = Snapshot'
        OBVIOUS
      <4>2. snapshots \in Seq(S)
        BY <3>3, <4>1
      <4>3. new = <<x, x>> /\ <<x, x>> \in Seq(S) /\ Len(<<x, x>>) = 2 /\ <<x, x>>[1] = x
        BY <3>1, <4>1
      <4>4. (snapshots \o <<x, x>>)[Len(snapshots) + 1] = x
        BY <4>2, <4>3
      <4>5. QED
        BY <4>1, <4>3, <4>4
    <3>6. QED
      BY <2>1, <3>2, <3>3, <3>4, <3>5
  <2>4. RecipientsIn(snapshots'[s], e) = RecipientsIn(Snapshot, e)
    <3>1. UNCHANGED <<members, devices, serverGrants>>
      BY DEF PairStep, memberVars, grantVars
    <3>2. /\ Snapshot'.members = members' /\ Snapshot'.devices = devices'
          /\ Snapshot'.serverGrants = serverGrants'
      BY DEF Snapshot
    <3>3. /\ Snapshot.members = members /\ Snapshot.devices = devices
          /\ Snapshot.serverGrants = serverGrants
      BY DEF Snapshot
    <3>4. RecipientsIn(Snapshot', e) = RecipientsIn(Snapshot, e)
      BY <3>1, <3>2, <3>3 DEF RecipientsIn
    <3>5. QED
      BY <2>3, <3>4
  <2>5. /\ n \in 1..environments'[e].epoch /\ environments'[e].epochStarts[n] = s
        /\ e \in LiveEnvironments' /\ s <= s
    BY <1>1, <2>1, <2>2 DEF Begins, NextSeq
  <2>6. r.env = e /\ r.epoch = n /\ AddressOf(r) \in RecipientsIn(snapshots'[s], e)
    BY <1>4, <2>4
  <2>7. QED
    BY <2>2, <2>5, <2>6 DEF InReach
<1>7. QED
  BY <1>2, <1>4, <1>5, <1>6, MoreWraps

\* A registration fills free slots, with wraps sealed to recipients of now.
LEMMA RegisteredWraps ==
    ASSUME StoreChain, Grown, WrapInvariant, NEW d, NEW e \in LiveEnvironments,
           NEW rows \in SUBSET AcceptableRows(e), RegisterDekWraps(d, e, rows)
    PROVE  WrapInvariant'
<1>1. /\ dekWraps' = dekWraps \cup rows /\ CheckWrapSets(e, rows)
      /\ \A q, r \in rows : WrapStorageKey(q) = WrapStorageKey(r) => q = r
      /\ UNCHANGED historyVars
  BY DEF RegisterDekWraps
<1>2. UNCHANGED <<environments, headSeq, snapshots>> /\ LiveEnvironments' = LiveEnvironments
  BY <1>1 DEF historyVars, vars, envVars, LiveEnvironments
<1>3. TypeOK /\ SnapshotInvariant /\ OrderInvariant
  BY DEF StoreChain, IndexInvariant
<1>4. \A r \in rows : /\ r.env = e /\ r.epoch \in 1..environments[e].epoch
                      /\ AddressOf(r) \in RecipientsIn(Snapshot, e)
  BY <1>3, AcceptableShape
<1>5. ASSUME NEW r \in rows, NEW s \in dekWraps, WrapStorageKey(s) = WrapStorageKey(r)
      PROVE  FALSE
  <2>1. s.env = e /\ s.epoch = r.epoch
    BY <1>4, <1>5 DEF WrapStorageKey
  <2>2. r.epoch \in {x.epoch : x \in rows}
    OBVIOUS
  <2>3. ~SlotTaken(r)
    BY <1>1, <2>1, <2>2 DEF CheckWrapSets
  <2>4. QED
    BY <1>5, <2>3 DEF SlotTaken
<1>6. ASSUME NEW r \in rows PROVE InReach(r)
  <2>1. PICK n : n = r.epoch
    OBVIOUS
  <2>2. n \in 1..environments[e].epoch /\ r.env = e
    BY <1>4, <2>1
  <2>3. EpochsInOrder(environments[e], headSeq)
    BY <1>3 DEF OrderInvariant, LiveEnvironments
  <2>4. environments[e].epochStarts[n] <= headSeq
    BY <2>2, <2>3 DEF EpochsInOrder
  <2>5. headSeq \in 1..headSeq /\ snapshots[headSeq] = Snapshot
    BY <1>3 DEF SnapshotInvariant
  <2>6. AddressOf(r) \in RecipientsIn(snapshots[headSeq], e)
    BY <1>4, <2>5
  <2>7. QED
    BY <2>1, <2>2, <2>4, <2>5, <2>6 DEF InReach
<1>7. \A r \in rows : InReach(r)'
  BY <1>2, <1>6 DEF InReach
<1>8. QED
  BY <1>1, <1>2, <1>5, <1>7, MoreWraps

\* Every request leaves the wraps within reach and in slots of their own.
LEMMA WrapStep ==
    ASSUME StoreChain, RowInvariant, WrapInvariant, [StoreNext]_allVars
    PROVE  WrapInvariant'
<1>1. Grown /\ TypeOK /\ OrderInvariant
  BY ChainGrows DEF StoreChain
<1>2. \A r \in dekWraps : r.env \in LiveEnvironments
  BY DEF WrapInvariant, InReach
<1>3. ASSUME dekWraps' \subseteq dekWraps, UNCHANGED environments PROVE WrapInvariant'
  BY <1>1, <1>2, <1>3, FewerWraps DEF LiveEnvironments
<1>4. CASE EntryRequest
  <2>1. CASE Appended
    <3>1. dekWraps' \subseteq dekWraps
      BY <2>1 DEF Appended, SideEffects, FreshMemberWraps
    <3>2. QED
      BY <1>1, <1>3, <2>1, <3>1, AppendedKeeps
  <2>2. ASSUME NEW op, Retired(op) PROVE WrapInvariant'
    <3>1. dekWraps' = {r \in dekWraps : r.env # op.env}
      BY <2>2 DEF Retired, RetireEnvironment
    <3>2. LiveEnvironments' = LiveEnvironments \ {op.env}
      BY <1>1, <2>2, RetiredEnvironments
    <3>3. QED
      BY <1>1, <1>2, <3>1, <3>2, FewerWraps
  <2>3. CASE \E op : Attested(op)
    BY <1>3, <2>3 DEF Attested
  <2>4. QED
    BY <1>4, <2>1, <2>2, <2>3 DEF EntryRequest
<1>5. CASE PairRequest
  <2>1. PICK d \in devices, op \in Operations :
           \E m, h : /\ h \in ManifestHashes /\ PairStep(d, op.env, m, h)
                     /\ Created(op, m) \/ Rotated(op, m)
    BY <1>5 DEF PairRequest
  <2>2. PICK m, h : /\ h \in ManifestHashes /\ PairStep(d, op.env, m, h)
                    /\ Created(op, m) \/ Rotated(op, m)
    BY <2>1
  <2>3. Begins(op.env, m.epoch)
    BY <1>1, <2>2, PairBegins
  <2>4. LiveEnvironments' = LiveEnvironments \cup {op.env}
    BY <1>1, <2>2, <2>3, PairRows
  <2>5. QED
    BY <1>1, <2>2, <2>3, <2>4, PairWraps
<1>6. CASE RowRequest
  <2>1. UNCHANGED environments
    BY <1>6, RowRequestsKeepChain DEF historyVars, vars, envVars
  <2>2. ASSUME NEW d \in devices, NEW e \in LiveEnvironments, NEW rows \in SUBSET AcceptableRows(e),
               RegisterDekWraps(d, e, rows)
        PROVE  WrapInvariant'
    BY <1>1, <2>2, RegisteredWraps
  <2>3. CASE dekWraps' \subseteq dekWraps
    BY <1>3, <2>1, <2>3
  <2>4. \/ dekWraps' \subseteq dekWraps
        \/ \E d \in devices, e \in LiveEnvironments : \E rows \in SUBSET AcceptableRows(e) :
              RegisterDekWraps(d, e, rows)
    BY <1>6 DEF RowRequest, allVars, storeVars, WrapRequest, DeleteDekWraps, DataWritten,
       PutHeadAttestation
  <2>5. QED
    BY <2>2, <2>3, <2>4
<1>7. QED
  BY <1>1, <1>4, <1>5, <1>6, RequestCases

(***************************************************************************)
(* The first theorems.                                                     *)
(***************************************************************************)

StoreInvariant == StoreChain /\ RowInvariant /\ WrapInvariant

\* The invariants the chain, the rows and the wraps need hold when the project starts.
LEMMA StoreInitial == StoreInit => StoreInvariant
<1> SUFFICES ASSUME StoreInit PROVE StoreInvariant
  OBVIOUS
<1>1. HistoryInit /\ Init
  BY DEF StoreInit, HistoryInit
<1>2. TypeOK /\ KeyInvariant /\ DeletedEnvironmentsForgotten /\ IndexInvariant
  BY <1>1, InitTypeAndKeys, InitForgets, IndexInit
<1>3. /\ DOMAIN environments = {} /\ DOMAIN checkpoints = {} /\ checkpoints = latestCheckpoints
  BY <1>1 DEF Init, HistoryInit
<1>4. OrderInvariant
  BY <1>3 DEF OrderInvariant
<1>5. LiveEnvironments = {}
  BY <1>3 DEF LiveEnvironments
<1>6. RowInvariant
  BY <1>3, <1>5 DEF StoreInit, RowInvariant
<1>7. WrapInvariant
  BY DEF StoreInit, WrapInvariant, SlotsUnique
<1>8. QED
  BY <1>2, <1>3, <1>4, <1>6, <1>7 DEF StoreInvariant, StoreChain

\* No request breaks them.
LEMMA StoreStep == StoreInvariant /\ [StoreNext]_allVars => StoreInvariant'
BY StoreChainStep, RowStep, WrapStep DEF StoreInvariant

\* In every store the tables agree with the chain: live environments have their row, manifest
\* and snapshot, which mirrors the latest checkpoint, deleted ones a tombstone only, and
\* wraps name epochs that have begun, each in a slot of its own (composite-programs.ts,
\* checkpoint-accept.ts: the faults about missing rows are unreachable).
THEOREM TablesMatchChain == StoreSpec => []StoreMatchesChain
<1>1. StoreInvariant => StoreMatchesChain
  <2> SUFFICES ASSUME StoreInvariant PROVE StoreMatchesChain
    OBVIOUS
  <2>1. RowInvariant /\ WrapInvariant
    BY DEF StoreInvariant
  <2>2. \A e \in DOMAIN environments : environmentRows[e].deleted <=> IsDeleted(e)
    BY <2>1 DEF RowInvariant, IsDeleted
  <2>3. \A k \in DOMAIN variableRows : k[1] \in LiveEnvironments
    BY <2>1 DEF RowInvariant
  <2>4. QED
    BY <2>1, <2>2, <2>3 DEF StoreMatchesChain, RowInvariant, WrapInvariant, InReach
<1>2. QED
  BY <1>1, StoreInitial, StoreStep, PTL DEF StoreSpec

\* In every store the key of an epoch is wrapped only to recipients the environment had at
\* some head since that epoch began: a rotation cuts off who left before it
\* (ensureCompositeWrapSet, checkWrapRecipient).
THEOREM RotationCutsOff == StoreSpec => []SealedWithinReach
<1>1. StoreInvariant => SealedWithinReach
  <2> SUFFICES ASSUME StoreInvariant, NEW r \in dekWraps
               PROVE  \E s \in environments[r.env].epochStarts[r.epoch]..headSeq :
                         AddressOf(r) \in RecipientsIn(snapshots[s], r.env)
    BY DEF SealedWithinReach, AddressOf
  <2>1. InReach(r) /\ TypeOK
    BY DEF StoreInvariant, WrapInvariant, StoreChain
  <2>2. environments[r.env] \in EnvironmentStates /\ OrderInvariant
    BY <2>1 DEF InReach, LiveEnvironments, TypeOK, IsMap, StoreInvariant, StoreChain
  <2>3. PICK n, from : n = r.epoch /\ from = environments[r.env].epochStarts[n]
    OBVIOUS
  <2>4. from \in Nat
    <3>1. EpochsInOrder(environments[r.env], headSeq)
      BY <2>1, <2>2 DEF InReach, LiveEnvironments, OrderInvariant
    <3>2. n \in 1..Len(environments[r.env].epochStarts)
      BY <2>1, <2>3, <3>1 DEF InReach, EpochsInOrder
    <3>3. QED
      BY <2>2, <2>3, <3>2 DEF EnvironmentStates
  <2>5. PICK s \in 1..headSeq : from <= s /\ AddressOf(r) \in RecipientsIn(snapshots[s], r.env)
    BY <2>1, <2>3 DEF InReach
  <2>6. s \in from..headSeq
    BY <2>4, <2>5
  <2>7. QED
    BY <2>3, <2>5, <2>6
<1>2. QED
  BY <1>1, StoreInitial, StoreStep, PTL DEF StoreSpec

(***************************************************************************)
(* What verification reads stays: the answers of the index about the past   *)
(* never change, so a signature that verified once verifies ever after.     *)
(***************************************************************************)

\* The index says of a device, at every seq, what the chain state of that seq said.
DevicesSaid ==
    \A s \in 1..headSeq, u \in Users : \A fp :
        LET held == {d \in snapshots[s].devices : d.user = u /\ FingerprintOf(d) = fp}
        IN  IF held = {} THEN DeviceStateAt(u, fp, s) = Absent
            ELSE \A d \in held : DeviceStateAt(u, fp, s) =
                    [kind |-> "device", device |-> d,
                     permission |-> EffectivePermission(snapshots[s].members[u], d)]

\* What the other invariants of a store rest on.
Known == StoreInvariant /\ DevicesSaid /\ EnvironmentsAgree

\* The index of a store answers truthfully.
LEMMA StoreKnown == StoreInvariant => Known
<1> SUFFICES ASSUME StoreInvariant PROVE Known
  OBVIOUS
<1>1. IndexInvariant
  BY DEF StoreInvariant, StoreChain
<1>2. MembersAgree /\ EnvironmentsAgree
  BY <1>1, AgreesUpToHead
<1>3. ASSUME NEW s \in 1..headSeq, NEW u \in Users, NEW fp
      PROVE  LET held == {d \in snapshots[s].devices : d.user = u /\ FingerprintOf(d) = fp}
             IN  IF held = {} THEN DeviceStateAt(u, fp, s) = Absent
                 ELSE \A d \in held : DeviceStateAt(u, fp, s) =
                         [kind |-> "device", device |-> d,
                          permission |-> EffectivePermission(snapshots[s].members[u], d)]
  BY <1>1, <1>2, DeviceFollows DEF MembersAgree, IndexInvariant
<1>4. DevicesSaid
  BY <1>3 DEF DevicesSaid
<1>5. QED
  BY <1>2, <1>4 DEF Known

\* No answer about a seq up to the head changes.
PastKept ==
    /\ \A s \in 1..headSeq, u \in Users :
          \A fp : DeviceStateAt(u, fp, s)' = DeviceStateAt(u, fp, s)
    /\ \A s \in 1..headSeq, e \in Envs : EnvironmentStateAt(e, s)' = EnvironmentStateAt(e, s)

\* While the chain grows, the answers about the past stay.
LEMMA PastStays ==
    ASSUME Known, Known', Grown
    PROVE  PastKept
<1>1. ASSUME NEW s \in 1..headSeq, NEW u \in Users, NEW fp
      PROVE  DeviceStateAt(u, fp, s)' = DeviceStateAt(u, fp, s)
  <2>1. s \in 1..headSeq' /\ snapshots'[s] = snapshots[s]
    BY DEF Grown
  <2>2. PICK held : held = {d \in snapshots[s].devices : d.user = u /\ FingerprintOf(d) = fp}
    OBVIOUS
  <2>3. IF held = {} THEN DeviceStateAt(u, fp, s) = Absent
        ELSE \A d \in held : DeviceStateAt(u, fp, s) =
                [kind |-> "device", device |-> d,
                 permission |-> EffectivePermission(snapshots[s].members[u], d)]
    BY <2>2 DEF Known, DevicesSaid
  <2>4. held = {d \in snapshots'[s].devices : d.user = u /\ FingerprintOf(d) = fp}
    BY <2>1, <2>2
  <2>5. IF held = {} THEN DeviceStateAt(u, fp, s)' = Absent
        ELSE \A d \in held : DeviceStateAt(u, fp, s)' =
                [kind |-> "device", device |-> d,
                 permission |-> EffectivePermission(snapshots'[s].members[u], d)]
    BY <2>1, <2>4 DEF Known, DevicesSaid
  <2>6. QED
    BY <2>1, <2>3, <2>5
<1>2. ASSUME NEW s \in 1..headSeq, NEW e \in Envs
      PROVE  EnvironmentStateAt(e, s)' = EnvironmentStateAt(e, s)
  <2>1. s \in 1..headSeq' /\ snapshots'[s] = snapshots[s]
    BY DEF Grown
  <2>2. EnvironmentStateAt(e, s) = EnvironmentIn(snapshots[s], e)
    BY DEF Known, EnvironmentsAgree
  <2>3. EnvironmentStateAt(e, s)' = EnvironmentIn(snapshots'[s], e)
    BY <2>1 DEF Known, EnvironmentsAgree
  <2>4. QED
    BY <2>1, <2>2, <2>3
<1>3. QED
  BY <1>1, <1>2 DEF PastKept

\* A signature that verified at its declared head still does.
LEMMA SignatureKept ==
    ASSUME PastKept, Grown, NEW v \in Votes, NEW e, NEW head, HeadAuthorized(v, e, head)
    PROVE  HeadAuthorized(v, e, head)'
<1>1. head \in 1..headSeq /\ head \in 1..headSeq'
  BY DEF HeadAuthorized, Grown
<1>2. v.user \in Users
  BY DEF Votes
<1>3. PICK at : at = DeviceStateAt(v.user, FingerprintOf(v), head)
  OBVIOUS
<1>4. at = DeviceStateAt(v.user, FingerprintOf(v), head)'
  BY <1>1, <1>2, <1>3 DEF PastKept
<1>5. QED
  BY <1>1, <1>3, <1>4 DEF HeadAuthorized

\* The epoch that was current at a head is that ever after.
LEMMA EpochKept ==
    ASSUME PastKept, NEW e \in Envs, NEW head \in 1..headSeq, NEW epoch,
           EpochCurrentAt(e, head, epoch)
    PROVE  EpochCurrentAt(e, head, epoch)'
<1>1. PICK at : at = EnvironmentStateAt(e, head)
  OBVIOUS
<1>2. at = EnvironmentStateAt(e, head)'
  BY <1>1 DEF PastKept
<1>3. QED
  BY <1>1, <1>2 DEF EpochCurrentAt

\* A value that verified once still does.
LEMMA ValueKept ==
    ASSUME PastKept, Grown, NEW e \in Envs, NEW value \in ValueRecords, ValueVerifies(e, value)
    PROVE  ValueVerifies(e, value)'
<1>1. value.writer \in Votes
  BY DEF ValueRecords
<1>2. HeadAuthorized(value.writer, e, value.head) /\ EpochCurrentAt(e, value.head, value.epoch)
  BY DEF ValueVerifies
<1>3. value.head \in 1..headSeq
  BY <1>2 DEF HeadAuthorized
<1>4. QED
  BY <1>1, <1>2, <1>3, SignatureKept, EpochKept DEF ValueVerifies

(***************************************************************************)
(* Head attestations.                                                      *)
(***************************************************************************)

\* Attestations are of heads of the chain, by devices of now that were there then.
MayAttest(v, head) ==
    /\ v \in Votes /\ head \in 1..headSeq /\ IsLiveVote(v)
    /\ DeviceStateAt(v.user, FingerprintOf(v), head) # Absent

AttestInvariant == \A v \in DOMAIN headAttestations : MayAttest(v, headAttestations[v])

\* A device that an entry takes off the chain is one whose attestation ends.
LEMMA VotesStay ==
    ASSUME TypeOK, NEW op, NEW d, AppliedEntry(op, d), NEW v,
           IsLiveVote(v), ~EndsAttestationOf(op, v)
    PROVE  IsLiveVote(v)'
<1>1. PICK c \in devices : VoteOf(c) = v
  BY DEF IsLiveVote
<1>2. v.user = c.user /\ FingerprintOf(v) = FingerprintOf(c)
  BY <1>1 DEF VoteOf, FingerprintOf
<1>3. CASE c \in devices'
  BY <1>1, <1>3 DEF IsLiveVote
<1>4. CASE op.op = "remove_member"
  <2>1. devices' = devices \ DevicesOf(op.target)
    BY <1>4 DEF AppliedEntry, Apply, ApplyRemoveMember, DropDevices
  <2>2. v.user # op.target
    BY <1>4 DEF EndsAttestationOf
  <2>3. QED
    BY <1>2, <1>3, <2>1, <2>2 DEF DevicesOf
<1>5. CASE op.op = "revoke_device"
  <2>1. devices' = devices \ RevokedDevices(op)
    BY <1>5 DEF AppliedEntry, Apply, ApplyRevokeDevice, DropDevices
  <2>2. ~(v.user = op.target /\ FingerprintOf(v) \in op.fps)
    BY <1>5 DEF EndsAttestationOf
  <2>3. c \notin RevokedDevices(op)
    BY <1>2, <2>2 DEF RevokedDevices, DevicesOf, FingerprintOf
  <2>4. QED
    BY <1>3, <2>1, <2>3
<1>6. CASE op.op = "delete_environment"
  <2>1. PICK after : after = [c EXCEPT !.scope = ScopeWithout(c.scope, op.env)]
    OBVIOUS
  <2>2. after \in devices'
    BY <1>6, <2>1 DEF AppliedEntry, Apply, ApplyDeleteEnvironment
  <2>3. c \in DeviceRecords
    BY DEF TypeOK
  <2>4. VoteOf(after) = v
    BY <1>1, <2>1, <2>3 DEF VoteOf, DeviceRecords
  <2>5. QED
    BY <2>2, <2>4 DEF IsLiveVote
<1>7. CASE op.op \notin {"remove_member", "revoke_device", "delete_environment"}
  <2>1. devices \subseteq devices'
    BY <1>7 DEF AppliedEntry, Apply, ApplyAddMember, ApplyChangeRole, ApplyAddDevice,
       ApplyGrantServer, ApplyRevokeServer, ApplyCreateEnvironment, ApplyRotateEpoch,
       ApplyCheckpoint, ApplySetApprovalPolicy, memberVars
  <2>2. QED
    BY <1>3, <2>1
<1>8. QED
  BY <1>4, <1>5, <1>6, <1>7

\* Attestations that stay, of devices that stay, are as good as they were.
LEMMA AttestationsKept ==
    ASSUME AttestInvariant, PastKept, Grown,
           DOMAIN headAttestations' \subseteq DOMAIN headAttestations,
           \A v \in DOMAIN headAttestations' :
              headAttestations'[v] = headAttestations[v] /\ IsLiveVote(v)'
    PROVE  AttestInvariant'
<1>1. SUFFICES ASSUME NEW v \in DOMAIN headAttestations'
               PROVE  MayAttest(v, headAttestations[v])'
  BY DEF AttestInvariant
<1>2. PICK head : head = headAttestations[v]
  OBVIOUS
<1>3. /\ v \in Votes /\ head \in 1..headSeq
      /\ DeviceStateAt(v.user, FingerprintOf(v), head) # Absent
  BY <1>2 DEF AttestInvariant, MayAttest
<1>4. v.user \in Users /\ head \in 1..headSeq'
  BY <1>3 DEF Votes, Grown
<1>5. DeviceStateAt(v.user, FingerprintOf(v), head)' # Absent
  BY <1>3, <1>4 DEF PastKept
<1>6. headAttestations'[v] = head
  BY <1>2
<1>7. QED
  BY <1>3, <1>4, <1>5, <1>6 DEF MayAttest

\* Every request leaves only such attestations.
LEMMA AttestStep ==
    ASSUME Known, Known', AttestInvariant, [StoreNext]_allVars
    PROVE  AttestInvariant'
<1>1. StoreChain /\ RowInvariant /\ TypeOK /\ TypeOK'
  BY DEF Known, StoreInvariant, StoreChain
<1>2. Grown /\ PastKept
  BY <1>1, ChainGrows, PastStays
<1>3. \A v \in DOMAIN headAttestations : IsLiveVote(v)
  BY DEF AttestInvariant, MayAttest
<1>4. ASSUME UNCHANGED headAttestations, \A v : IsLiveVote(v) => IsLiveVote(v)'
      PROVE  AttestInvariant'
  BY <1>2, <1>3, <1>4, AttestationsKept
<1>5. CASE EntryRequest
  <2>1. CASE Appended
    <3>1. headAttestations' =
             [v \in {w \in DOMAIN headAttestations : ~EndsAttestationOf(applied'.operation, w)} |->
                 headAttestations[v]]
      BY <2>1 DEF Appended, SideEffects
    <3>2. ASSUME NEW v \in DOMAIN headAttestations' PROVE IsLiveVote(v)'
      <4>1. IsLiveVote(v) /\ ~EndsAttestationOf(applied'.operation, v)
        BY <1>3, <3>1
      <4>2. CASE \E d \in devices, op \in Operations : AppliedEntry(op, d)
        <5>1. PICK d \in devices, op \in Operations : AppliedEntry(op, d)
          BY <4>2
        <5>2. applied'.operation = op
          BY <5>1, ApplyLeavesOperation DEF AppliedEntry
        <5>3. QED
          BY <1>1, <4>1, <5>1, <5>2, VotesStay
      <4>3. CASE UNCHANGED devices
        BY <4>1, <4>3 DEF IsLiveVote
      <4>4. QED
        BY <1>1, <2>1, <4>2, <4>3, HistoryCases
           DEF Appended, EmptyEntry, StateUnchanged, memberVars, historyVars, vars
    <3>3. /\ DOMAIN headAttestations' \subseteq DOMAIN headAttestations
          /\ \A v \in DOMAIN headAttestations' : headAttestations'[v] = headAttestations[v]
      BY <3>1
    <3>4. QED
      BY <1>2, <3>2, <3>3, AttestationsKept
  <2>2. ASSUME NEW d \in devices, NEW op \in Operations, AppliedEntry(op, d),
               op.op = "delete_environment", Retired(op)
        PROVE  AttestInvariant'
    <3>1. \A v : ~EndsAttestationOf(op, v)
      BY <2>2 DEF EndsAttestationOf
    <3>2. \A v : IsLiveVote(v) => IsLiveVote(v)'
      BY <1>1, <2>2, <3>1, VotesStay
    <3>3. UNCHANGED headAttestations
      BY <2>2 DEF Retired
    <3>4. QED
      BY <1>4, <3>2, <3>3
  <2>3. CASE \E op : Attested(op)
    BY <1>4, <2>3 DEF Attested, IsLiveVote
  <2>4. QED
    BY <1>5, <2>1, <2>2, <2>3 DEF EntryRequest
<1>6. CASE PairRequest
  <2>1. UNCHANGED <<headAttestations, devices>>
    BY <1>6 DEF PairRequest, PairStep, memberVars
  <2>2. QED
    BY <1>4, <2>1 DEF IsLiveVote
<1>7. CASE RowRequest
  <2>1. UNCHANGED historyVars /\ UNCHANGED devices
    BY <1>7, RowRequestsKeepChain DEF historyVars, vars, memberVars
  <2>2. ASSUME NEW d \in devices, NEW head \in 1..headSeq, PutHeadAttestation(d, head)
        PROVE  AttestInvariant'
    <3>1. PICK v : v = VoteOf(d)
      OBVIOUS
    <3>2. headAttestations' = WithKey(headAttestations, v, head)
      BY <2>2, <3>1 DEF PutHeadAttestation
    <3>3. v \in Votes /\ v.user = d.user /\ FingerprintOf(v) = FingerprintOf(d)
      BY <1>1, <3>1, VoteType DEF TypeOK, VoteOf, FingerprintOf
    <3>4. d.user \in Users
      BY <1>1 DEF TypeOK, DeviceRecords
    <3>5. DeviceStateAt(v.user, FingerprintOf(v), head)' # Absent
      BY <1>2, <2>2, <3>3, <3>4 DEF PutHeadAttestation, PastKept
    <3>6. IsLiveVote(v)' /\ head \in 1..headSeq'
      BY <1>2, <2>1, <3>1 DEF IsLiveVote, Grown
    <3>7. ASSUME NEW w \in DOMAIN headAttestations', w # v
          PROVE  MayAttest(w, headAttestations[w])'
      <4>1. w \in DOMAIN headAttestations /\ headAttestations'[w] = headAttestations[w]
        BY <3>2, <3>7 DEF WithKey
      <4>2. PICK at : at = headAttestations[w]
        OBVIOUS
      <4>3. /\ w \in Votes /\ at \in 1..headSeq /\ IsLiveVote(w)
            /\ DeviceStateAt(w.user, FingerprintOf(w), at) # Absent
        BY <4>1, <4>2 DEF AttestInvariant, MayAttest
      <4>4. w.user \in Users /\ at \in 1..headSeq' /\ IsLiveVote(w)'
        BY <1>2, <2>1, <4>3 DEF Votes, Grown, IsLiveVote
      <4>5. DeviceStateAt(w.user, FingerprintOf(w), at)' # Absent
        BY <1>2, <4>3, <4>4 DEF PastKept
      <4>6. QED
        BY <4>1, <4>2, <4>3, <4>4, <4>5 DEF MayAttest
    <3>8. headAttestations'[v] = head
      BY <3>2 DEF WithKey
    <3>9. QED
      BY <3>3, <3>5, <3>6, <3>7, <3>8 DEF AttestInvariant, MayAttest
  <2>3. CASE UNCHANGED headAttestations
    BY <1>4, <2>1, <2>3 DEF IsLiveVote
  <2>4. \/ UNCHANGED headAttestations
        \/ \E d \in devices, head \in 1..headSeq : PutHeadAttestation(d, head)
    BY <1>7 DEF RowRequest, allVars, storeVars, WrapRequest, RegisterDekWraps, DeleteDekWraps,
       DataWritten
  <2>5. QED
    BY <2>2, <2>3, <2>4
<1>8. QED
  BY <1>1, <1>5, <1>6, <1>7, RequestCases

\* In every store, an attestation is of a device that is on the chain now and was, for the
\* same person, at the head it attests (deleteHeadAttestation, deleteDeviceHeadAttestation,
\* putHeadAttestationProgram).
THEOREM AttestationsHold == StoreSpec => []AttestationsCurrent
<1>1. StoreInit => AttestInvariant
  BY DEF StoreInit, AttestInvariant
<1>2. Known /\ Known' /\ AttestInvariant /\ [StoreNext]_allVars => AttestInvariant'
  BY AttestStep
<1>3. AttestInvariant => AttestationsCurrent
  BY DEF AttestInvariant, MayAttest, AttestationsCurrent
<1>4. QED
  BY <1>1, <1>2, <1>3, StoreInitial, StoreStep, StoreKnown, PTL DEF StoreSpec

(***************************************************************************)
(* Wraps and tenures.                                                      *)
(***************************************************************************)

\* The last tenure of u has registered the key enc.
OfTenure(u, enc) ==
    \E i \in DOMAIN Last(tenures[u]).devices : Last(tenures[u]).devices[i].device.enc = enc

\* The key of a device is one that the tenure of its person has registered.
LEMMA HeldShown ==
    ASSUME headSeq \in Nat, NEW u \in DOMAIN members, PersonIndexed(u), NEW d \in DevicesOf(u)
    PROVE  OfTenure(u, d.enc)
<1>1. PICK t : t = Last(tenures[u])
  OBVIOUS
<1>2. t \in TenureRecords /\ ShowsMember(t, members[u], DevicesOf(u))
  BY <1>1, MemberTenure
<1>3. PICK i \in DOMAIN t.devices : d = CurrentDevice(t.devices[i])
  BY <1>2 DEF ShowsMember
<1>4. t.devices[i] \in IndexedDevices
  BY <1>2, TenureShape
<1>5. t.devices[i].device \in DeviceRecords
  BY <1>4, IndexedDeviceShape
<1>6. d.enc = t.devices[i].device.enc
  BY <1>3, <1>5 DEF CurrentDevice, DeviceRecords
<1>7. QED
  BY <1>1, <1>6 DEF OfTenure

\* An entry that changes one open tenure, and takes no device out of its record.
LEMMA OpenTenureGrows ==
    ASSUME headSeq \in Nat, NEW u \in DOMAIN members, PersonIndexed(u),
           NEW x, NEW after, tenures' = WithOpenTenure(x, after),
           x = u => \A i \in DOMAIN Last(tenures[u]).devices :
                       /\ i \in DOMAIN after.devices
                       /\ after.devices[i].device.enc = Last(tenures[u]).devices[i].device.enc,
           NEW enc, OfTenure(u, enc)
    PROVE  OfTenure(u, enc)'
<1>1. CASE x # u
  <2>1. tenures'[u] = tenures[u]
    BY <1>1, MemberTenure DEF WithOpenTenure
  <2>2. QED
    BY <2>1 DEF OfTenure
<1>2. CASE x = u
  <2>1. PICK T, S : T = tenures[u] /\ S = TenureRecords \cup {after}
    OBVIOUS
  <2>2. u \in DOMAIN tenures /\ T = TenuresOf(u) /\ HasOpenTenure(u)
    BY <2>1, MemberTenure
  <2>3. T \in Seq(TenureRecords) /\ T # <<>>
    BY <2>2 DEF PersonIndexed, IndexedBy, HasOpenTenure
  <2>4. T \in Seq(S) /\ after \in S
    BY <2>1, <2>3
  <2>5. tenures'[u] = WithLast(T, after)
    BY <1>2, <2>1, <2>2 DEF WithOpenTenure, WithLast
  <2>6. Last(tenures'[u]) = after
    BY <2>3, <2>4, <2>5, LastReplaced
  <2>7. QED
    BY <1>2, <2>6 DEF OfTenure
<1>3. QED
  BY <1>1, <1>2

\* The keys of a tenure that goes on stay on its record.
LEMMA TenureGrows ==
    ASSUME headSeq \in Nat, NEW op, NEW d, AppliedEntry(op, d),
           NEW u \in DOMAIN members, PersonIndexed(u), u \in DOMAIN members',
           NEW enc, OfTenure(u, enc)
    PROVE  OfTenure(u, enc)'
<1>1. PICK t : t = Last(tenures[u])
  OBVIOUS
<1>2. t \in TenureRecords /\ HasOpenTenure(u) /\ u \in DOMAIN tenures
  BY <1>1, MemberTenure
<1>3. /\ t.devices \in Seq(IndexedDevices) /\ DOMAIN t.devices = 1..Len(t.devices)
      /\ \A i \in DOMAIN t.devices : t.devices[i] \in IndexedDevices
  BY <1>2, TenureShape
<1>4. CASE tenures'[u] = tenures[u]
  BY <1>4 DEF OfTenure
<1>5. RecordHistory(op, d, NextSeq)
  BY DEF AppliedEntry
<1>6. CASE op.op = "add_member"
  <2>1. RecordTenureStart(op.target, NextSeq)
    BY <1>5, <1>6 DEF RecordHistory
  <2>2. u # op.target
    BY <1>6 DEF AppliedEntry, ConsensusRule, AddMemberRule
  <2>3. QED
    BY <1>2, <1>4, <2>1, <2>2 DEF RecordTenureStart, WithKey
<1>7. CASE op.op = "change_role"
  <2>1. RecordRoleChange(op, NextSeq)
    BY <1>5, <1>7 DEF RecordHistory
  <2>2. CASE HasOpenTenure(op.target)
    <3>1. PICK after :
             /\ tenures' = WithOpenTenure(op.target, after)
             /\ after = [Last(tenures[op.target]) EXCEPT
                            !.spans = Append(@, [from |-> NextSeq, role |-> op.role,
                                                 scope |-> op.scope])]
      BY <2>1, <2>2 DEF RecordRoleChange
    <3>2. op.target = u => after.devices = t.devices
      BY <1>1, <1>2, <3>1 DEF TenureRecords
    <3>3. QED
      BY <1>1, <3>1, <3>2, OpenTenureGrows
  <2>3. QED
    BY <1>4, <2>1, <2>2 DEF RecordRoleChange
<1>8. CASE op.op = "remove_member"
  <2>1. RecordTenureEnd(op.target, NextSeq)
    BY <1>5, <1>8 DEF RecordHistory
  <2>2. u # op.target
    BY <1>8 DEF AppliedEntry, Apply, ApplyRemoveMember, WithoutKey
  <2>3. QED
    BY <1>2, <1>4, <2>1, <2>2 DEF RecordTenureEnd, WithOpenTenure
<1>9. CASE op.op = "add_device"
  <2>1. RecordDeviceAdded(d.user, op.enc)
    BY <1>5, <1>9 DEF RecordHistory
  <2>2. CASE tenures' = tenures
    BY <1>4, <2>2
  <2>3. CASE tenures' # tenures
    <3>1. PICK new, after :
             /\ tenures' = WithOpenTenure(d.user, after)
             /\ after = [Last(tenures[d.user]) EXCEPT !.devices = Append(@, new)]
      BY <2>1, <2>3 DEF RecordDeviceAdded
    <3>2. d.user = u => after.devices = Append(t.devices, new)
      BY <1>1, <1>2, <3>1 DEF TenureRecords
    <3>3. ASSUME d.user = u, NEW i \in DOMAIN t.devices
          PROVE  i \in DOMAIN after.devices /\ after.devices[i] = t.devices[i]
      <4>1. i \in 1..Len(t.devices)
        BY <1>3
      <4>2. i \in DOMAIN Append(t.devices, new) /\ Append(t.devices, new)[i] = t.devices[i]
        BY <1>3, <4>1, Appending
      <4>3. QED
        BY <3>2, <3>3, <4>2
    <3>4. QED
      BY <1>1, <3>1, <3>3, OpenTenureGrows
  <2>4. QED
    BY <2>2, <2>3
<1>10. CASE op.op = "revoke_device"
  <2>1. RecordDevicesRevoked(op, NextSeq)
    BY <1>5, <1>10 DEF RecordHistory
  <2>2. CASE HasOpenTenure(op.target)
    <3>1. PICK open, after :
             /\ open = Last(tenures[op.target])
             /\ tenures' = WithOpenTenure(op.target, after)
             /\ after = [open EXCEPT !.devices = [i \in DOMAIN open.devices |->
                            IF open.devices[i].revoked = 0
                               /\ FingerprintOf(open.devices[i].device) \in op.fps
                            THEN [open.devices[i] EXCEPT !.revoked = NextSeq]
                            ELSE open.devices[i]]]
      BY <2>1, <2>2 DEF RecordDevicesRevoked
    <3>2. ASSUME op.target = u, NEW i \in DOMAIN t.devices
          PROVE  /\ i \in DOMAIN after.devices
                 /\ after.devices[i].device.enc = t.devices[i].device.enc
      <4>1. open = t
        BY <1>1, <3>1, <3>2
      <4>2. /\ DOMAIN after.devices = DOMAIN t.devices
            /\ after.devices[i] = IF t.devices[i].revoked = 0
                                     /\ FingerprintOf(t.devices[i].device) \in op.fps
                                  THEN [t.devices[i] EXCEPT !.revoked = NextSeq]
                                  ELSE t.devices[i]
        BY <1>2, <3>1, <4>1 DEF TenureRecords
      <4>3. t.devices[i] \in IndexedDevices
        BY <1>3
      <4>4. after.devices[i].device = t.devices[i].device
        BY <4>2, <4>3 DEF IndexedDevices
      <4>5. QED
        BY <4>2, <4>4
    <3>3. QED
      BY <1>1, <3>1, <3>2, OpenTenureGrows
  <2>3. QED
    BY <1>4, <2>1, <2>2 DEF RecordDevicesRevoked
<1>11. CASE op.op = "delete_environment"
  <2>1. RecordEnvironmentDeleted(op, NextSeq)
    BY <1>5, <1>11 DEF RecordHistory
  <2>2. PICK after : after = PruneTenure(t, op.env, NextSeq)
    OBVIOUS
  <2>3. PICK T : T = tenures[u]
    OBVIOUS
  <2>4. T = TenuresOf(u) /\ T \in Seq(TenureRecords) /\ T # <<>>
    BY <1>2, <2>3 DEF PersonIndexed, IndexedBy, HasOpenTenure, TenuresOf
  <2>5. t = T[Len(T)]
    BY <1>1, <1>2, <2>3, <2>4, LastReplaced
  <2>6. tenures'[u] = WithLast(T, after)
    BY <1>2, <2>1, <2>2, <2>3, <2>5 DEF RecordEnvironmentDeleted, WithLast
  <2>7. Last(tenures'[u]) = after
    <3>1. PICK S : S = TenureRecords \cup {after}
      OBVIOUS
    <3>2. T \in Seq(S) /\ after \in S
      BY <2>4, <3>1
    <3>3. QED
      BY <2>4, <2>6, <3>2, LastReplaced
  <2>8. ASSUME NEW i \in DOMAIN t.devices
        PROVE  /\ i \in DOMAIN after.devices
               /\ after.devices[i].device.enc = t.devices[i].device.enc
    <3>1. PICK r : r = t.devices[i]
      OBVIOUS
    <3>2. r \in IndexedDevices
      BY <1>3, <3>1
    <3>3. /\ DOMAIN after.devices = DOMAIN t.devices
          /\ after.devices[i] =
                IF r.revoked = 0 /\ op.env \in DeviceAt(r, NextSeq).scope.ids
                THEN [r EXCEPT !.capChanges =
                         Append(@, [from |-> NextSeq,
                                    scope |-> ScopeWithout(DeviceAt(r, NextSeq).scope, op.env)])]
                ELSE r
      BY <1>2, <2>2, <3>1 DEF PruneTenure, TenureRecords
    <3>4. after.devices[i].device = r.device
      BY <3>2, <3>3 DEF IndexedDevices
    <3>5. QED
      BY <3>1, <3>3, <3>4
  <2>9. QED
    BY <1>1, <2>7, <2>8 DEF OfTenure
<1>12. CASE op.op \notin {"add_member", "change_role", "remove_member", "add_device",
                          "revoke_device", "delete_environment"}
  BY <1>4, <1>5, <1>12 DEF RecordHistory, RecordEnvironmentCreated, RecordEpochRotated,
     RecordCheckpoint, indexVars
<1>13. QED
  BY <1>6, <1>7, <1>8, <1>9, <1>10, <1>11, <1>12

\* Nobody becomes a member but by an addition, with the device key it names.
LEMMA NewcomerAdded ==
    ASSUME NEW op, NEW d, AppliedEntry(op, d), NEW u \in DOMAIN members', u \notin DOMAIN members
    PROVE  /\ op.op = "add_member" /\ u = op.target
           /\ \E x \in DevicesOf(u)' : x.enc = op.enc
<1>1. op.op = "add_member" /\ u = op.target
  <2>1. op.op = "change_role" => op.target \in DOMAIN members
    BY DEF AppliedEntry, ConsensusRule, ChangeRoleRule, TargetedRule
  <2>2. QED
    BY <2>1 DEF AppliedEntry, Apply, ApplyAddMember, ApplyChangeRole, ApplyRemoveMember,
       ApplyAddDevice, ApplyRevokeDevice, ApplyGrantServer, ApplyRevokeServer,
       ApplyCreateEnvironment, ApplyRotateEpoch, ApplyDeleteEnvironment, ApplyCheckpoint,
       ApplySetApprovalPolicy, memberVars, WithKey, WithoutKey
<1>2. FirstDevice(u, op, NextSeq) \in devices'
  BY <1>1 DEF AppliedEntry, Apply, ApplyAddMember
<1>3. QED
  BY <1>1, <1>2 DEF DevicesOf, FirstDevice

\* A member row that names a recipient of now is sealed to the key of a device of that person.
LEMMA RecipientIsDevice ==
    ASSUME NEW r, NEW e, AddressOf(r) \in RecipientsIn(Snapshot, e), r.kind = "member"
    PROVE  \E x \in DevicesOf(r.id) : x.enc = r.enc
<1>1. PICK a : a = AddressOf(r)
  OBVIOUS
<1>2. a.kind = "member" /\ a.id = r.id /\ a.enc = r.enc
  BY <1>1 DEF AddressOf
<1>3. \E x \in devices : a = [kind |-> "member", id |-> x.user, enc |-> x.enc]
  BY <1>1, <1>2 DEF RecipientsIn, Snapshot
<1>4. QED
  BY <1>2, <1>3 DEF DevicesOf

\* The keys of the devices of now are all on the record.
KeysRecorded == \A u \in DOMAIN members : \A d \in DevicesOf(u) : OfTenure(u, d.enc)

\* The index knows each key from the entry that registered it in the open tenure
\* (recordTenureStart, recordDeviceAdd).
LEMMA StoreKeysRecorded == StoreInvariant => KeysRecorded
<1> SUFFICES ASSUME StoreInvariant, NEW u \in DOMAIN members, NEW d \in DevicesOf(u)
             PROVE  OfTenure(u, d.enc)
  BY DEF KeysRecorded
<1>1. TypeOK /\ IndexInvariant
  BY DEF StoreInvariant, StoreChain
<1>2. headSeq \in Nat /\ u \in Users
  BY <1>1 DEF TypeOK, IsMap
<1>3. PersonIndexed(u)
  BY <1>1, <1>2 DEF IndexInvariant, PeopleIndexed
<1>4. QED
  BY <1>2, <1>3, HeldShown

\* The part of the wraps that is about tenures: WrapsOfPresentTenure, row by row.
RowOfTenure(r) == r.kind = "member" /\ r.id \in DOMAIN members => OfTenure(r.id, r.enc)

\* An entry keeps the rows of people who stay, and of newcomers those of the new key.
LEMMA EntryWraps ==
    ASSUME StoreInvariant, KeysRecorded', NEW op, NEW d, AppliedEntry(op, d),
           NEW r, RowOfTenure(r), ~(op.op = "add_member" /\ r.id = op.target /\ r.enc # op.enc)
    PROVE  RowOfTenure(r)'
<1> SUFFICES ASSUME r.kind = "member", r.id \in DOMAIN members'
             PROVE  OfTenure(r.id, r.enc)'
  BY DEF RowOfTenure
<1>1. TypeOK /\ IndexInvariant
  BY DEF StoreInvariant, StoreChain
<1>2. PICK u, enc : u = r.id /\ enc = r.enc
  OBVIOUS
<1>3. CASE u \in DOMAIN members
  <2>1. headSeq \in Nat /\ u \in Users
    BY <1>1, <1>3 DEF TypeOK, IsMap
  <2>2. PersonIndexed(u)
    BY <1>1, <2>1 DEF IndexInvariant, PeopleIndexed
  <2>3. OfTenure(u, enc)
    BY <1>2, <1>3 DEF RowOfTenure
  <2>4. OfTenure(u, enc)'
    BY <1>2, <1>3, <2>1, <2>2, <2>3, TenureGrows
  <2>5. QED
    BY <1>2, <2>4
<1>4. CASE u \notin DOMAIN members
  <2>1. op.op = "add_member" /\ u = op.target /\ \E x \in DevicesOf(u)' : x.enc = op.enc
    BY <1>2, <1>4, NewcomerAdded
  <2>2. PICK x \in DevicesOf(u)' : x.enc = enc
    BY <1>2, <2>1
  <2>3. OfTenure(u, enc)'
    BY <1>2, <2>2 DEF KeysRecorded
  <2>4. QED
    BY <1>2, <2>3
<1>5. QED
  BY <1>3, <1>4

\* Every request leaves people the wraps of their present tenure only.
LEMMA TenureStep ==
    ASSUME StoreInvariant, KeysRecorded, KeysRecorded', WrapsOfPresentTenure, [StoreNext]_allVars
    PROVE  WrapsOfPresentTenure'
<1>1. StoreChain /\ RowInvariant /\ TypeOK
  BY DEF StoreInvariant, StoreChain
<1>2. \A r \in dekWraps : RowOfTenure(r)
  BY DEF WrapsOfPresentTenure, RowOfTenure, OfTenure
<1>3. SUFFICES ASSUME NEW r \in dekWraps' PROVE RowOfTenure(r)'
  BY DEF WrapsOfPresentTenure, RowOfTenure, OfTenure
<1>4. ASSUME UNCHANGED <<members, tenures>>, RowOfTenure(r) PROVE RowOfTenure(r)'
  BY <1>4 DEF RowOfTenure, OfTenure
<1>5. ASSUME NEW e, AddressOf(r) \in RecipientsIn(Snapshot, e), UNCHANGED <<members, tenures>>
      PROVE  RowOfTenure(r)'
  <2>1. RowOfTenure(r)
    BY <1>5, RecipientIsDevice DEF RowOfTenure, KeysRecorded
  <2>2. QED
    BY <1>4, <1>5, <2>1
<1>6. CASE EntryRequest
  <2>1. CASE Appended
    <3>1. r \in FreshMemberWraps(applied'.operation)
      BY <2>1 DEF Appended, SideEffects
    <3>2. /\ r \in dekWraps
          /\ ~(/\ applied'.operation.op = "add_member" /\ r.kind = "member"
               /\ r.id = applied'.operation.target /\ r.enc # applied'.operation.enc)
      BY <3>1 DEF FreshMemberWraps
    <3>3. CASE \E d \in devices, op \in Operations : AppliedEntry(op, d)
      <4>1. PICK d \in devices, op \in Operations : AppliedEntry(op, d)
        BY <3>3
      <4>2. applied'.operation = op
        BY <4>1, ApplyLeavesOperation DEF AppliedEntry
      <4>3. CASE r.kind = "member"
        BY <1>2, <3>2, <4>1, <4>2, <4>3, EntryWraps
      <4>4. QED
        BY <4>3 DEF RowOfTenure
    <3>4. CASE EmptyEntry \/ UNCHANGED historyVars
      BY <1>2, <1>4, <3>2, <3>4
         DEF EmptyEntry, StateUnchanged, memberVars, indexVars, historyVars, vars
    <3>5. QED
      BY <1>1, <2>1, <3>3, <3>4, HistoryCases DEF Appended
  <2>2. ASSUME NEW d \in devices, NEW op \in Operations, AppliedEntry(op, d),
               op.op = "delete_environment", Retired(op)
        PROVE  RowOfTenure(r)'
    <3>1. r \in dekWraps
      BY <2>2 DEF Retired, RetireEnvironment
    <3>2. QED
      BY <1>2, <2>2, <3>1, EntryWraps
  <2>3. CASE \E op : Attested(op)
    BY <1>2, <1>4, <2>3 DEF Attested
  <2>4. QED
    BY <1>6, <2>1, <2>2, <2>3 DEF EntryRequest
<1>7. CASE PairRequest
  <2>1. PICK e, n : dekWraps' = dekWraps \cup WrapSet(e, n)
    BY <1>7 DEF PairRequest, PairStep
  <2>2. UNCHANGED <<members, tenures>>
    BY <1>7 DEF PairRequest, PairStep, memberVars
  <2>3. KeyInvariant
    BY <1>1 DEF StoreChain
  <2>4. \A q \in WrapSet(e, n) : AddressOf(q) \in RecipientsIn(Snapshot, e)
    BY <1>1, <2>3, RecipientsApart
  <2>5. QED
    BY <1>2, <1>4, <1>5, <2>1, <2>2, <2>4
<1>8. CASE RowRequest
  <2>1. UNCHANGED historyVars /\ UNCHANGED <<members, tenures>>
    BY <1>8, RowRequestsKeepChain DEF historyVars, vars, memberVars, indexVars
  <2>2. CASE r \in dekWraps
    BY <1>2, <1>4, <2>1, <2>2
  <2>3. CASE r \notin dekWraps
    <3>1. PICK d \in devices, e \in LiveEnvironments :
             \E rows \in SUBSET AcceptableRows(e) : RegisterDekWraps(d, e, rows)
      BY <1>8, <2>3 DEF RowRequest, allVars, storeVars, WrapRequest, DeleteDekWraps, DataWritten,
         PutHeadAttestation
    <3>2. r \in AcceptableRows(e)
      BY <2>3, <3>1 DEF RegisterDekWraps
    <3>3. AddressOf(r) \in RecipientsIn(Snapshot, e)
      BY <1>1, <3>2, AcceptableShape
    <3>4. QED
      BY <1>5, <2>1, <3>3
  <2>4. QED
    BY <2>2, <2>3
<1>9. QED
  BY <1>1, <1>6, <1>7, <1>8, RequestCases

\* In every store, the wraps of a member are sealed to keys the present tenure registered:
\* who comes back is never offered one sealed to a key of an earlier membership
\* (deleteStaleMemberWraps).
THEOREM ReturningStartsAfresh == StoreSpec => []WrapsOfPresentTenure
<1>1. StoreInit => WrapsOfPresentTenure
  BY DEF StoreInit, WrapsOfPresentTenure
<1>2. StoreInvariant /\ KeysRecorded /\ KeysRecorded' /\ WrapsOfPresentTenure
         /\ [StoreNext]_allVars => WrapsOfPresentTenure'
  BY TenureStep
<1>3. QED
  BY <1>1, <1>2, StoreInitial, StoreStep, StoreKeysRecorded, PTL DEF StoreSpec

(***************************************************************************)
(* Versions of values.                                                     *)
(***************************************************************************)

\* Every version verifies, and the epochs never fall.
VersionsVerify(e, versions) ==
    /\ \A i \in DOMAIN versions : ValueVerifies(e, versions[i])
    /\ \A i, j \in DOMAIN versions : i < j => versions[i].epoch <= versions[j].epoch

ValueInvariant == \A k \in DOMAIN variableRows : VersionsVerify(k[1], variableRows[k].versions)

\* Versions go on verifying.
LEMMA VersionsKept ==
    ASSUME PastKept, Grown, NEW e \in Envs, NEW versions \in Seq(ValueRecords),
           VersionsVerify(e, versions)
    PROVE  VersionsVerify(e, versions)'
<1>1. \A i \in DOMAIN versions : versions[i] \in ValueRecords
  OBVIOUS
<1>2. \A i \in DOMAIN versions : ValueVerifies(e, versions[i])
  BY DEF VersionsVerify
<1>3. \A i \in DOMAIN versions : ValueVerifies(e, versions[i])'
  <2>1. TAKE i \in DOMAIN versions
  <2>2. PICK value : value = versions[i]
    OBVIOUS
  <2>3. value \in ValueRecords /\ ValueVerifies(e, value)
    BY <1>1, <1>2, <2>2
  <2>4. ValueVerifies(e, value)'
    BY <2>3, ValueKept
  <2>5. QED
    BY <2>2, <2>4
<1>4. QED
  BY <1>3 DEF VersionsVerify

\* A version that is accepted comes after the others, with an epoch no older.
LEMMA VersionAdded ==
    ASSUME NEW e, NEW versions \in Seq(ValueRecords), VersionsVerify(e, versions),
           NEW value \in ValueRecords, AcceptValue(e, versions, value)
    PROVE  VersionsVerify(e, Append(versions, value))
<1>1. PICK list, n : list = Append(versions, value) /\ n = Len(versions)
  OBVIOUS
<1>2. /\ n \in Nat /\ DOMAIN versions = 1..n /\ DOMAIN list = 1..n + 1
      /\ \A i \in 1..n : list[i] = versions[i] /\ versions[i] \in ValueRecords
      /\ list[n + 1] = value
  BY <1>1
<1>3. ValueVerifies(e, value) /\ (versions # <<>> => value.epoch >= Last(versions).epoch)
  BY DEF AcceptValue
<1>4. \A i \in DOMAIN list : ValueVerifies(e, list[i])
  BY <1>2, <1>3 DEF VersionsVerify
<1>5. \A i \in 1..n : versions[i].epoch \in Nat /\ value.epoch \in Nat
  BY <1>2 DEF ValueRecords
<1>6. ASSUME NEW i \in 1..n PROVE versions[i].epoch <= value.epoch
  <2>1. versions # <<>> /\ Last(versions) = versions[n] /\ n \in 1..n
    BY <1>1, <1>2, <1>6 DEF Last
  <2>2. versions[i].epoch <= versions[n].epoch
    <3>1. CASE i = n
      BY <1>5, <3>1
    <3>2. CASE i # n
      BY <1>2, <2>1, <3>2 DEF VersionsVerify
    <3>3. QED
      BY <3>1, <3>2
  <2>3. QED
    BY <1>3, <1>5, <2>1, <2>2
<1>7. ASSUME NEW i \in DOMAIN list, NEW j \in DOMAIN list, i < j
      PROVE  list[i].epoch <= list[j].epoch
  <2>1. i \in 1..n
    BY <1>2, <1>7
  <2>2. CASE j = n + 1
    BY <1>2, <1>6, <2>1, <2>2
  <2>3. CASE j \in 1..n
    <3>1. i \in DOMAIN versions /\ j \in DOMAIN versions
      BY <1>2, <2>1, <2>3
    <3>2. versions[i].epoch <= versions[j].epoch
      BY <1>7, <3>1 DEF VersionsVerify
    <3>3. QED
      BY <1>2, <2>1, <2>3, <3>2
  <2>4. QED
    BY <1>2, <2>2, <2>3
<1>8. QED
  BY <1>1, <1>4, <1>7 DEF VersionsVerify

\* A variable's row that is written verifies.
LEMMA WrittenVersions ==
    ASSUME RowInvariant, ValueInvariant, NEW e, NEW v, NEW row, RowWritten(e, v, row)
    PROVE  VersionsVerify(e, row.versions)
<1>1. PICK k : k = <<e, v>>
  OBVIOUS
<1>2. VersionsOf(e, v) \in Seq(ValueRecords) /\ VersionsVerify(e, VersionsOf(e, v))
  <2>1. CASE k \in DOMAIN variableRows
    <3>1. variableRows[k] \in VariableRecords /\ VersionsVerify(k[1], variableRows[k].versions)
      BY <2>1 DEF RowInvariant, ValueInvariant
    <3>2. variableRows[k].versions \in Seq(ValueRecords) /\ k[1] = e
      BY <1>1, <3>1 DEF VariableRecords
    <3>3. QED
      BY <1>1, <2>1, <3>1, <3>2 DEF VersionsOf
  <2>2. CASE k \notin DOMAIN variableRows
    BY <1>1, <2>2 DEF VersionsOf, VersionsVerify
  <2>3. QED
    BY <2>1, <2>2
<1>3. CASE row.versions = <<>>
  BY <1>3 DEF VersionsVerify
<1>4. CASE row.versions = VersionsOf(e, v)
  BY <1>2, <1>4
<1>5. ASSUME NEW value \in ValueRecords, AcceptValue(e, VersionsOf(e, v), value),
             row.versions = Append(VersionsOf(e, v), value)
      PROVE  VersionsVerify(e, row.versions)
  BY <1>2, <1>5, VersionAdded
<1>6. QED
  BY <1>3, <1>4, <1>5 DEF RowWritten

\* What a request makes of the rows of variables: one is written, those of an
\* environment go, or nothing.
LEMMA VariableCases ==
    ASSUME TypeOK, RowInvariant, [StoreNext]_allVars
    PROVE  \/ UNCHANGED variableRows
           \/ \E e : variableRows' = [k \in {x \in DOMAIN variableRows : x[1] # e} |-> variableRows[k]]
           \/ \E e, v, row : e \in LiveEnvironments /\ RowWritten(e, v, row)
<1>1. CASE EntryRequest
  BY <1>1, AppendedKeeps DEF EntryRequest, Retired, RetireEnvironment, Attested, rowVars
<1>2. CASE PairRequest
  BY <1>2 DEF PairRequest, PairStep
<1>3. CASE RowRequest
  BY <1>3 DEF RowRequest, allVars, storeVars, rowVars, WrapRequest, RegisterDekWraps,
     DeleteDekWraps, PutHeadAttestation, DataWritten, Pushed, Renamed
<1>4. QED
  BY <1>1, <1>2, <1>3, RequestCases

\* Every request leaves only versions that verify.
LEMMA ValueStep ==
    ASSUME Known, Known', ValueInvariant, [StoreNext]_allVars
    PROVE  ValueInvariant'
<1>1. StoreChain /\ RowInvariant /\ TypeOK /\ RowInvariant'
  BY DEF Known, StoreInvariant, StoreChain
<1>2. Grown /\ PastKept
  BY <1>1, ChainGrows, PastStays
<1>3. \A e \in LiveEnvironments : e \in Envs
  BY <1>1 DEF TypeOK, IsMap, LiveEnvironments
<1>4. ASSUME NEW k \in DOMAIN variableRows
      PROVE  VersionsVerify(k[1], variableRows[k].versions)'
             \/ variableRows'[k] # variableRows[k]
  <2>1. PICK e, versions : e = k[1] /\ versions = variableRows[k].versions
    OBVIOUS
  <2>2. k \in LiveEnvironments \X Variables /\ variableRows[k] \in VariableRecords
    BY <1>1 DEF RowInvariant
  <2>3. e \in Envs /\ versions \in Seq(ValueRecords)
    BY <1>3, <2>1, <2>2 DEF VariableRecords
  <2>4. VersionsVerify(e, versions)
    BY <2>1 DEF ValueInvariant
  <2>5. VersionsVerify(e, versions)'
    BY <1>2, <2>3, <2>4, VersionsKept
  <2>6. QED
    BY <2>1, <2>5
<1>5. SUFFICES ASSUME NEW k \in DOMAIN variableRows'
               PROVE  VersionsVerify(k[1], variableRows[k].versions)'
  BY DEF ValueInvariant
<1>6. CASE UNCHANGED variableRows
  BY <1>4, <1>6
<1>7. ASSUME NEW e, variableRows' = [x \in {y \in DOMAIN variableRows : y[1] # e} |-> variableRows[x]]
      PROVE  VersionsVerify(k[1], variableRows[k].versions)'
  BY <1>4, <1>7
<1>8. ASSUME NEW e \in LiveEnvironments, NEW v, NEW row, RowWritten(e, v, row)
      PROVE  VersionsVerify(k[1], variableRows[k].versions)'
  <2>1. variableRows' = WithKey(variableRows, <<e, v>>, row) /\ row \in VariableRecords
    BY <1>8 DEF RowWritten
  <2>2. CASE k # <<e, v>>
    BY <1>4, <2>1, <2>2 DEF WithKey
  <2>3. CASE k = <<e, v>>
    <3>1. PICK versions : versions = row.versions
      OBVIOUS
    <3>2. VersionsVerify(e, versions)
      BY <1>1, <1>8, <3>1, WrittenVersions
    <3>3. e \in Envs /\ versions \in Seq(ValueRecords)
      BY <1>3, <2>1, <3>1 DEF VariableRecords
    <3>4. VersionsVerify(e, versions)'
      BY <1>2, <3>2, <3>3, VersionsKept
    <3>5. variableRows'[k].versions = versions /\ k[1] = e
      BY <2>1, <2>3, <3>1 DEF WithKey
    <3>6. QED
      BY <3>4, <3>5
  <2>4. QED
    BY <2>2, <2>3
<1>9. QED
  BY <1>1, <1>6, <1>7, <1>8, VariableCases

(***************************************************************************)
(* Manifests.                                                              *)
(***************************************************************************)

\* Every live environment is served a manifest that verifies, over the state stored.
ManifestInvariant ==
    \A e \in LiveEnvironments :
        ManifestVerifies(e, manifests[e]) /\ manifests[e].digest = DigestOf(e)

\* Nothing that the manifest of e is judged by is touched.
SameFor(e) ==
    /\ manifests'[e] = manifests[e] /\ DigestOf(e)' = DigestOf(e)
    /\ \A n : CheckpointTupleFor(e, n)' = CheckpointTupleFor(e, n)
    /\ e \in DOMAIN latestCheckpoints' =>
          e \in DOMAIN latestCheckpoints /\ latestCheckpoints'[e] = latestCheckpoints[e]

\* A manifest verifies as long as no checkpoint of its environment comes after it.
LEMMA ManifestKept ==
    ASSUME PastKept, Grown, NEW e \in Envs, NEW m, IsManifest(m), ManifestVerifies(e, m),
           \A n : CheckpointTupleFor(e, n)' = CheckpointTupleFor(e, n),
           e \in DOMAIN latestCheckpoints' =>
              e \in DOMAIN latestCheckpoints /\ latestCheckpoints'[e] = latestCheckpoints[e]
    PROVE  ManifestVerifies(e, m)'
<1>1. HeadAuthorized(m.issuer, e, m.head) /\ m.issuer \in Votes
  BY DEF ManifestVerifies, IsManifest
<1>2. HeadAuthorized(m.issuer, e, m.head)'
  BY <1>1, SignatureKept
<1>3. m.head \in 1..headSeq
  BY <1>1 DEF HeadAuthorized
<1>4. EpochIntegrity(e, m)'
  <2>1. PICK tuple : tuple = CheckpointTupleFor(e, m.version)
    OBVIOUS
  <2>2. tuple = CheckpointTupleFor(e, m.version)'
    BY <2>1
  <2>3. IF tuple = Absent THEN EpochCurrentAt(e, m.head, m.epoch)
        ELSE tuple # Conflict /\ tuple.epoch = m.epoch /\ tuple.hash = m.hash
    BY <2>1 DEF ManifestVerifies, EpochIntegrity
  <2>4. EpochCurrentAt(e, m.head, m.epoch) => EpochCurrentAt(e, m.head, m.epoch)'
    BY <1>3, EpochKept
  <2>5. QED
    BY <2>2, <2>3, <2>4 DEF EpochIntegrity
<1>5. CheckpointIntegrity(e, m)'
  BY DEF ManifestVerifies, CheckpointIntegrity
<1>6. QED
  BY <1>2, <1>4, <1>5 DEF ManifestVerifies

\* The digest is over the meta state of the environment and its variables.
LEMMA DigestKept ==
    ASSUME NEW e, environmentRows'[e].metaVersion = environmentRows[e].metaVersion,
           \A k : k[1] = e =>
              /\ k \in DOMAIN variableRows' <=> k \in DOMAIN variableRows
              /\ k \in DOMAIN variableRows =>
                    /\ variableRows'[k].status = variableRows[k].status
                    /\ variableRows'[k].metaVersion = variableRows[k].metaVersion
    PROVE  DigestOf(e)' = DigestOf(e)
<1>1. PICK K : K = {x \in DOMAIN variableRows : x[1] = e}
  OBVIOUS
<1>2. K = {x \in DOMAIN variableRows' : x[1] = e}
  BY <1>1
<1>3. \A k \in K : <<k[2], variableRows'[k].status, variableRows'[k].metaVersion>>
                      = <<k[2], variableRows[k].status, variableRows[k].metaVersion>>
  BY <1>1
<1>4. {<<k[2], variableRows'[k].status, variableRows'[k].metaVersion>> : k \in K}
         = {<<k[2], variableRows[k].status, variableRows[k].metaVersion>> : k \in K}
  BY <1>3
<1>5. DigestOf(e) = [environment |-> environmentRows[e].metaVersion,
                     variables |-> {<<k[2], variableRows[k].status, variableRows[k].metaVersion>> :
                                       k \in K}]
  BY <1>1 DEF DigestOf
<1>6. DigestOf(e)' = [environment |-> environmentRows'[e].metaVersion,
                      variables |-> {<<k[2], variableRows'[k].status, variableRows'[k].metaVersion>> :
                                        k \in K}]
  BY <1>2 DEF DigestOf
<1>7. QED
  BY <1>4, <1>5, <1>6

\* With no row of the environment changed, the digest is the same.
LEMMA SameRowsSameDigest ==
    ASSUME NEW e, environmentRows'[e] = environmentRows[e],
           \A k : k[1] = e =>
              /\ k \in DOMAIN variableRows' <=> k \in DOMAIN variableRows
              /\ k \in DOMAIN variableRows => variableRows'[k] = variableRows[k]
    PROVE  DigestOf(e)' = DigestOf(e)
BY DigestKept

\* A manifest that nothing touches goes on verifying.
LEMMA ManifestUntouched ==
    ASSUME TypeOK, RowInvariant, ManifestInvariant, PastKept, Grown,
           NEW e \in LiveEnvironments, SameFor(e)
    PROVE  ManifestVerifies(e, manifests[e])' /\ (manifests[e].digest = DigestOf(e))'
<1>1. PICK m : m = manifests[e] /\ m = manifests'[e]
  BY DEF SameFor
<1>2. IsManifest(m) /\ ManifestVerifies(e, m) /\ m.digest = DigestOf(e)
  BY <1>1 DEF RowInvariant, ManifestInvariant
<1>3. e \in Envs
  BY DEF TypeOK, IsMap, LiveEnvironments
<1>4. ManifestVerifies(e, m)'
  BY <1>2, <1>3, ManifestKept DEF SameFor
<1>5. QED
  BY <1>1, <1>2, <1>4 DEF SameFor

\* What a checkpoint leaves of the tuple of a coordinate.
LEMMA CheckpointLeaves ==
    ASSUME NEW op \in CheckpointOps, NEW seq,
           checkpointTuples' = TuplesAfterCheckpoint(op, seq),
           latestCheckpoints' = WithTuples(latestCheckpoints, op, seq)
    PROVE  /\ \A e : (\A t \in op.tuples : t.env # e) =>
                 /\ \A n : CheckpointTupleFor(e, n)' = CheckpointTupleFor(e, n)
                 /\ e \in DOMAIN latestCheckpoints' <=> e \in DOMAIN latestCheckpoints
                 /\ e \in DOMAIN latestCheckpoints =>
                       latestCheckpoints'[e] = latestCheckpoints[e]
           /\ \A t \in op.tuples :
                 /\ CheckpointTupleFor(t.env, t.version)' = MergedTuple(t, seq)
                 /\ t.env \in DOMAIN latestCheckpoints'
                 /\ latestCheckpoints'[t.env] = CheckpointOf(t, seq)
<1>1. op.tuples \in CheckpointTuples
  BY DEF CheckpointOps
<1>2. \A s, t \in op.tuples : s.env = t.env => s = t
  BY <1>1 DEF CheckpointTuples
<1>3. PICK C : C = {<<t.env, t.version>> : t \in op.tuples}
  OBVIOUS
<1>4. /\ DOMAIN checkpointTuples' = DOMAIN checkpointTuples \cup C
      /\ \A c \in DOMAIN checkpointTuples :
            c \notin C => checkpointTuples'[c] = checkpointTuples[c]
      /\ \A c \in C : checkpointTuples'[c] =
            MergedTuple(CHOOSE t \in op.tuples : <<t.env, t.version>> = c, seq)
  BY <1>3 DEF TuplesAfterCheckpoint
<1>5. ASSUME NEW e, \A t \in op.tuples : t.env # e
      PROVE  /\ \A n : CheckpointTupleFor(e, n)' = CheckpointTupleFor(e, n)
             /\ e \in DOMAIN latestCheckpoints' <=> e \in DOMAIN latestCheckpoints
             /\ e \in DOMAIN latestCheckpoints =>
                   latestCheckpoints'[e] = latestCheckpoints[e]
  <2>1. \A n : <<e, n>> \notin C
    BY <1>3, <1>5
  <2>2. e \notin {t.env : t \in op.tuples}
    BY <1>5
  <2>3. QED
    BY <1>4, <2>1, <2>2 DEF CheckpointTupleFor, WithTuples
<1>6. ASSUME NEW t \in op.tuples
      PROVE  /\ CheckpointTupleFor(t.env, t.version)' = MergedTuple(t, seq)
             /\ t.env \in DOMAIN latestCheckpoints'
             /\ latestCheckpoints'[t.env] = CheckpointOf(t, seq)
  <2>1. PICK c : c = <<t.env, t.version>>
    OBVIOUS
  <2>2. c \in C
    BY <1>3, <2>1
  <2>3. \A x \in op.tuples : <<x.env, x.version>> = c => x = t
    BY <1>2, <2>1
  <2>4. (CHOOSE x \in op.tuples : <<x.env, x.version>> = c) = t
    BY <2>1, <2>3
  <2>5. checkpointTuples'[c] = MergedTuple(t, seq) /\ c \in DOMAIN checkpointTuples'
    BY <1>4, <2>2, <2>4
  <2>6. (CHOOSE x \in op.tuples : x.env = t.env) = t
    BY <1>2
  <2>7. QED
    BY <2>1, <2>5, <2>6 DEF CheckpointTupleFor, WithTuples
<1>7. QED
  BY <1>5, <1>6

\* Attested tuples name versions stored of environments created; that of the stored
\* manifest says what the manifest says.
TupleInvariant ==
    \A c \in DOMAIN checkpointTuples :
        /\ c \in (DOMAIN environments) \X Nat /\ checkpointTuples[c] \notin {Absent, Conflict}
        /\ c[1] \in LiveEnvironments =>
              /\ c[2] <= manifests[c[1]].version
              /\ c[2] = manifests[c[1]].version =>
                    /\ checkpointTuples[c].epoch = manifests[c[1]].epoch
                    /\ checkpointTuples[c].hash = manifests[c[1]].hash

\* A tuple that attests what is stored agrees with the one there was.
LEMMA AttestedTuple ==
    ASSUME RowInvariant, TupleInvariant, NEW op, Attested(op), NEW t \in op.tuples, NEW seq
    PROVE  LET m == manifests[t.env]
               after == MergedTuple(t, seq)
           IN  after \notin {Absent, Conflict} /\ after.epoch = m.epoch /\ after.hash = m.hash
<1>1. PICK e, m, at : e = t.env /\ m = manifests[e] /\ at = <<t.env, t.version>>
  OBVIOUS
<1>2. /\ e \in LiveEnvironments /\ t.epoch = environments[e].epoch
      /\ m.version = t.version /\ m.hash = t.hash
  BY <1>1 DEF Attested, AttestsStored
<1>3. m.epoch = t.epoch
  BY <1>1, <1>2 DEF RowInvariant
<1>4. CASE at \notin DOMAIN checkpointTuples
  <2>1. MergedTuple(t, seq) = [kind |-> "unique", seq |-> seq, epoch |-> t.epoch, hash |-> t.hash]
    BY <1>1, <1>4 DEF MergedTuple
  <2>2. QED
    BY <1>1, <1>2, <1>3, <2>1 DEF Absent, Conflict
<1>5. CASE at \in DOMAIN checkpointTuples
  <2>1. at[1] = e /\ at[2] = m.version
    BY <1>1, <1>2
  <2>2. /\ checkpointTuples[at] \notin {Absent, Conflict}
        /\ checkpointTuples[at].epoch = m.epoch /\ checkpointTuples[at].hash = m.hash
    BY <1>1, <1>2, <1>5, <2>1 DEF TupleInvariant
  <2>3. MergedTuple(t, seq) = checkpointTuples[at]
    BY <1>1, <1>2, <1>3, <1>5, <2>2 DEF MergedTuple
  <2>4. QED
    BY <1>1, <2>2, <2>3
<1>6. QED
  BY <1>4, <1>5

\* With the tuples as they are, a manifest may only be followed by a later version.
LEMMA TuplesKept ==
    ASSUME TypeOK, RowInvariant, TupleInvariant, UNCHANGED checkpointTuples,
           DOMAIN environments \subseteq DOMAIN environments',
           LiveEnvironments' \subseteq LiveEnvironments,
           \A e \in LiveEnvironments' :
              \/ manifests'[e] = manifests[e]
              \/ manifests'[e].version = manifests[e].version + 1
    PROVE  TupleInvariant'
<1>1. SUFFICES ASSUME NEW c \in DOMAIN checkpointTuples, c[1] \in LiveEnvironments'
               PROVE  /\ c[2] <= manifests'[c[1]].version
                      /\ c[2] = manifests'[c[1]].version =>
                            /\ checkpointTuples[c].epoch = manifests'[c[1]].epoch
                            /\ checkpointTuples[c].hash = manifests'[c[1]].hash
  BY DEF TupleInvariant
<1>2. PICK e, n, m : e = c[1] /\ n = c[2] /\ m = manifests[e]
  OBVIOUS
<1>3. n \in Nat /\ n <= m.version
  BY <1>1, <1>2 DEF TupleInvariant
<1>4. m.version \in Nat
  BY <1>1, <1>2 DEF RowInvariant, IsManifest
<1>5. CASE manifests'[e] = m
  BY <1>1, <1>2, <1>5 DEF TupleInvariant
<1>6. CASE manifests'[e].version = m.version + 1
  BY <1>2, <1>3, <1>4, <1>6
<1>7. QED
  BY <1>1, <1>2, <1>5, <1>6

\* A checkpoint adds tuples that say what is stored.
LEMMA TuplesAttested ==
    ASSUME TypeOK, RowInvariant, TupleInvariant, NEW op, Attested(op)
    PROVE  TupleInvariant'
<1>1. PICK C : C = {<<t.env, t.version>> : t \in op.tuples}
  OBVIOUS
<1>2. /\ op.tuples \in CheckpointTuples
      /\ UNCHANGED <<environments, manifests>> /\ LiveEnvironments' = LiveEnvironments
      /\ checkpointTuples' = TuplesAfterCheckpoint(op, headSeq + 1)
  BY DEF Attested, CheckpointOps, LiveEnvironments
<1>3. \A s, t \in op.tuples : s.env = t.env => s = t
  BY <1>2 DEF CheckpointTuples
<1>4. SUFFICES ASSUME NEW c \in DOMAIN checkpointTuples'
               PROVE  /\ c \in (DOMAIN environments) \X Nat
                      /\ checkpointTuples'[c] \notin {Absent, Conflict}
                      /\ c[1] \in LiveEnvironments =>
                            /\ c[2] <= manifests[c[1]].version
                            /\ c[2] = manifests[c[1]].version =>
                                  /\ checkpointTuples'[c].epoch = manifests[c[1]].epoch
                                  /\ checkpointTuples'[c].hash = manifests[c[1]].hash
  BY <1>2 DEF TupleInvariant
<1>5. CASE c \notin C
  <2>1. c \in DOMAIN checkpointTuples /\ checkpointTuples'[c] = checkpointTuples[c]
    BY <1>1, <1>2, <1>5 DEF TuplesAfterCheckpoint
  <2>2. QED
    BY <2>1 DEF TupleInvariant
<1>6. CASE c \in C
  <2>1. PICK t \in op.tuples : c = <<t.env, t.version>>
    BY <1>1, <1>6
  <2>2. \A x \in op.tuples : <<x.env, x.version>> = c => x = t
    BY <1>3, <2>1
  <2>3. (CHOOSE x \in op.tuples : <<x.env, x.version>> = c) = t
    BY <2>1, <2>2
  <2>4. checkpointTuples'[c] = MergedTuple(t, headSeq + 1)
    BY <1>1, <1>2, <1>6, <2>3 DEF TuplesAfterCheckpoint
  <2>5. PICK after, m : after = MergedTuple(t, headSeq + 1) /\ m = manifests[t.env]
    OBVIOUS
  <2>6. after \notin {Absent, Conflict} /\ after.epoch = m.epoch /\ after.hash = m.hash
    BY <2>5, AttestedTuple
  <2>7. t.env \in LiveEnvironments /\ m.version = t.version
    BY <2>5 DEF Attested, AttestsStored
  <2>8. m.version \in Nat /\ t.env \in DOMAIN environments
    BY <2>5, <2>7 DEF RowInvariant, IsManifest, LiveEnvironments
  <2>9. c[1] = t.env /\ c[2] = t.version
    BY <2>1
  <2>10. QED
    BY <2>1, <2>4, <2>5, <2>6, <2>7, <2>8, <2>9
<1>7. QED
  BY <1>5, <1>6

\* A new epoch comes with the tuple of its manifest, the first of that version.
LEMMA TuplesBegun ==
    ASSUME TypeOK, RowInvariant, TupleInvariant, NEW d, NEW op, NEW m, NEW h,
           PairStep(d, op.env, m, h), Created(op, m) \/ Rotated(op, m), Begins(op.env, m.epoch),
           LiveEnvironments' = LiveEnvironments \cup {op.env}
    PROVE  TupleInvariant'
<1>1. PICK e, n, at : e = op.env /\ n = m.version /\ at = <<e, m.version>>
  OBVIOUS
<1>2. /\ checkpointTuples' = WithKey(checkpointTuples, at, MergedTuple(BoundaryTuple(e, m, h), headSeq + 2))
      /\ manifests' = WithKey(manifests, e, m) /\ EpochIntegrity(e, m)'
  BY <1>1 DEF PairStep
<1>3. DOMAIN environments' = DOMAIN environments \cup {e}
  BY <1>1 DEF Begins
<1>4. n \in Nat /\ \A c \in DOMAIN checkpointTuples : c[1] = e => c[2] < n
  <2>1. CASE Created(op, m)
    <3>1. e \notin DOMAIN environments /\ n = 1
      BY <1>1, <2>1 DEF Created
    <3>2. QED
      BY <3>1 DEF TupleInvariant
  <2>2. CASE Rotated(op, m)
    <3>1. e \in LiveEnvironments /\ n = manifests[e].version + 1
      BY <1>1, <2>2 DEF Rotated
    <3>2. manifests[e].version \in Nat
      BY <3>1 DEF RowInvariant, IsManifest
    <3>3. \A c \in DOMAIN checkpointTuples : c[1] = e => c[2] \in Nat /\ c[2] <= manifests[e].version
      BY <3>1 DEF TupleInvariant
    <3>4. QED
      BY <3>1, <3>2, <3>3
  <2>3. QED
    BY <2>1, <2>2
<1>5. at \notin DOMAIN checkpointTuples
  BY <1>1, <1>4
<1>6. MergedTuple(BoundaryTuple(e, m, h), headSeq + 2) =
         [kind |-> "unique", seq |-> headSeq + 2, epoch |-> m.epoch, hash |-> h]
  BY <1>1, <1>5 DEF MergedTuple, BoundaryTuple
<1>7. checkpointTuples'[at] = [kind |-> "unique", seq |-> headSeq + 2, epoch |-> m.epoch, hash |-> h]
  BY <1>2, <1>6 DEF WithKey
<1>8. CheckpointTupleFor(e, m.version)' = checkpointTuples'[at]
  BY <1>1, <1>2 DEF CheckpointTupleFor, WithKey
<1>9. h = m.hash
  BY <1>2, <1>7, <1>8 DEF EpochIntegrity, Absent
<1>10. SUFFICES ASSUME NEW c \in DOMAIN checkpointTuples'
                PROVE  /\ c \in (DOMAIN environments') \X Nat
                       /\ checkpointTuples'[c] \notin {Absent, Conflict}
                       /\ c[1] \in LiveEnvironments' =>
                             /\ c[2] <= manifests'[c[1]].version
                             /\ c[2] = manifests'[c[1]].version =>
                                   /\ checkpointTuples'[c].epoch = manifests'[c[1]].epoch
                                   /\ checkpointTuples'[c].hash = manifests'[c[1]].hash
  BY DEF TupleInvariant
<1>11. CASE c = at
  <2>1. manifests'[e] = m /\ c[1] = e /\ c[2] = n
    BY <1>1, <1>2, <1>11 DEF WithKey
  <2>2. QED
    BY <1>1, <1>3, <1>4, <1>7, <1>9, <1>11, <2>1 DEF Absent, Conflict
<1>12. CASE c # at
  <2>1. c \in DOMAIN checkpointTuples /\ checkpointTuples'[c] = checkpointTuples[c]
    BY <1>2, <1>12 DEF WithKey
  <2>2. c \in (DOMAIN environments) \X Nat /\ checkpointTuples[c] \notin {Absent, Conflict}
    BY <2>1 DEF TupleInvariant
  <2>3. CASE c[1] = e
    <3>1. c[2] < n /\ c[2] \in Nat /\ manifests'[e].version = n
      BY <1>1, <1>2, <1>4, <2>1, <2>2, <2>3 DEF WithKey
    <3>2. QED
      BY <1>3, <1>4, <2>1, <2>2, <2>3, <3>1
  <2>4. CASE c[1] # e
    <3>1. c[1] \in LiveEnvironments' =>
             c[1] \in LiveEnvironments /\ manifests'[c[1]] = manifests[c[1]]
      BY <1>1, <1>2, <2>4 DEF WithKey, RowInvariant
    <3>2. QED
      BY <1>3, <2>1, <2>2, <3>1 DEF TupleInvariant
  <2>5. QED
    BY <2>3, <2>4
<1>13. QED
  BY <1>11, <1>12

\* Every request leaves the tuples and the manifests in agreement.
LEMMA TupleStep ==
    ASSUME StoreInvariant, TupleInvariant, [StoreNext]_allVars
    PROVE  TupleInvariant'
<1>1. StoreChain /\ RowInvariant /\ TypeOK /\ OrderInvariant
  BY DEF StoreInvariant, StoreChain
<1>2. DOMAIN environments \subseteq DOMAIN environments'
  BY <1>1, ChainGrows DEF Grown
<1>3. CASE EntryRequest
  <2>1. CASE Appended
    <3>1. UNCHANGED <<environments, checkpointTuples, manifests>>
      BY <1>1, <2>1, AppendedKeeps DEF rowVars
    <3>2. LiveEnvironments' = LiveEnvironments
      BY <3>1 DEF LiveEnvironments
    <3>3. QED
      BY <1>1, <1>2, <3>1, <3>2, TuplesKept
  <2>2. ASSUME NEW d \in devices, NEW op \in Operations, AppliedEntry(op, d),
               op.op = "delete_environment", Retired(op)
        PROVE  TupleInvariant'
    <3>1. UNCHANGED checkpointTuples
      BY <2>2 DEF AppliedEntry, RecordHistory, RecordEnvironmentDeleted
    <3>2. LiveEnvironments' = LiveEnvironments \ {op.env}
      BY <1>1, <2>2, RetiredEnvironments
    <3>3. \A e \in LiveEnvironments' : manifests'[e] = manifests[e]
      BY <1>1, <2>2, <3>2 DEF Retired, RetireEnvironment, WithoutKey, RowInvariant
    <3>4. QED
      BY <1>1, <1>2, <3>1, <3>2, <3>3, TuplesKept
  <2>3. CASE \E op : Attested(op)
    BY <1>1, <2>3, TuplesAttested
  <2>4. QED
    BY <1>3, <2>1, <2>2, <2>3 DEF EntryRequest
<1>4. CASE PairRequest
  <2>1. PICK d \in devices, op \in Operations :
           \E m, h : /\ h \in ManifestHashes /\ PairStep(d, op.env, m, h)
                     /\ Created(op, m) \/ Rotated(op, m)
    BY <1>4 DEF PairRequest
  <2>2. PICK m, h : /\ h \in ManifestHashes /\ PairStep(d, op.env, m, h)
                    /\ Created(op, m) \/ Rotated(op, m)
    BY <2>1
  <2>3. Begins(op.env, m.epoch)
    BY <1>1, <2>2, PairBegins
  <2>4. LiveEnvironments' = LiveEnvironments \cup {op.env}
    BY <1>1, <2>2, <2>3, PairRows
  <2>5. QED
    BY <1>1, <2>2, <2>3, <2>4, TuplesBegun
<1>5. CASE RowRequest
  <2>1. UNCHANGED <<environments, checkpointTuples>> /\ LiveEnvironments' = LiveEnvironments
    BY <1>5, RowRequestsKeepChain DEF historyVars, vars, envVars, indexVars, LiveEnvironments
  <2>2. CASE UNCHANGED manifests
    BY <1>1, <1>2, <2>1, <2>2, TuplesKept
  <2>3. ASSUME NEW e, NEW m, e \in LiveEnvironments, Issued(e, m) PROVE TupleInvariant'
    <3>1. \A x \in LiveEnvironments' :
             manifests'[x] = manifests[x] \/ manifests'[x].version = manifests[x].version + 1
      BY <1>1, <2>1, <2>3 DEF Issued, RowInvariant
    <3>2. QED
      BY <1>1, <1>2, <2>1, <3>1, TuplesKept
  <2>4. UNCHANGED manifests \/ \E e, m : e \in LiveEnvironments /\ Issued(e, m)
    BY <1>5 DEF RowRequest, allVars, storeVars, rowVars, WrapRequest, RegisterDekWraps,
       DeleteDekWraps, PutHeadAttestation, DataWritten, Pushed
  <2>5. QED
    BY <2>2, <2>3, <2>4
<1>6. QED
  BY <1>1, <1>3, <1>4, <1>5, RequestCases

\* In every store, no manifest version is attested with two contents, none that is not
\* stored yet, and the stored one only as it is stored (ensureCheckpointTupleState).
THEOREM ServerNeverEquivocates == StoreSpec => []NoEquivocation
<1>1. StoreInit => TupleInvariant
  BY DEF StoreInit, HistoryInit, TupleInvariant
<1>2. StoreInvariant /\ TupleInvariant /\ [StoreNext]_allVars => TupleInvariant'
  BY TupleStep
<1>3. TupleInvariant => NoEquivocation
  BY DEF TupleInvariant, NoEquivocation
<1>4. QED
  BY <1>1, <1>2, <1>3, StoreInitial, StoreStep, PTL DEF StoreSpec

\* A manifest whose version a checkpoint attests as it is stored goes on verifying.
LEMMA ManifestAttested ==
    ASSUME StoreChain, StoreChain', RowInvariant, TupleInvariant, ManifestInvariant,
           PastKept, Grown, NEW op, Attested(op), NEW t \in op.tuples
    PROVE  ManifestVerifies(t.env, manifests[t.env])'
<1>1. PICK e, m, seq : e = t.env /\ m = manifests[e] /\ seq = headSeq + 1
  OBVIOUS
<1>2. /\ e \in LiveEnvironments /\ t.epoch = environments[e].epoch
      /\ m.version = t.version /\ op \in CheckpointOps /\ manifests' = manifests
  BY <1>1 DEF Attested, AttestsStored
<1>3. IsManifest(m) /\ m.epoch = t.epoch /\ ManifestVerifies(e, m)
  BY <1>1, <1>2 DEF RowInvariant, ManifestInvariant
<1>4. /\ checkpointTuples' = TuplesAfterCheckpoint(op, seq)
      /\ latestCheckpoints' = WithTuples(latestCheckpoints, op, seq)
  BY <1>1 DEF Attested, StoreChain
<1>5. /\ CheckpointTupleFor(e, m.version)' = MergedTuple(t, seq)
      /\ e \in DOMAIN latestCheckpoints' /\ latestCheckpoints'[e] = CheckpointOf(t, seq)
  BY <1>1, <1>2, <1>4, CheckpointLeaves
<1>6. HeadAuthorized(m.issuer, e, m.head)'
  BY <1>3, SignatureKept DEF ManifestVerifies, IsManifest
<1>7. EpochIntegrity(e, m)'
  <2>1. PICK after : after = MergedTuple(t, seq)
    OBVIOUS
  <2>2. after \notin {Absent, Conflict} /\ after.epoch = m.epoch /\ after.hash = m.hash
    BY <1>1, <2>1, AttestedTuple
  <2>3. QED
    BY <1>5, <2>1, <2>2 DEF EpochIntegrity
<1>8. CheckpointIntegrity(e, m)'
  <2>1. latestCheckpoints'[e].version = m.version /\ latestCheckpoints'[e].epoch = m.epoch
    BY <1>2, <1>3, <1>5 DEF CheckpointOf
  <2>2. QED
    BY <1>3, <2>1 DEF CheckpointIntegrity, IsManifest
<1>9. ManifestVerifies(e, m)'
  BY <1>6, <1>7, <1>8 DEF ManifestVerifies
<1>10. QED
  BY <1>1, <1>2, <1>9

\* The manifest of a new epoch verifies on the chain with both entries in it.
LEMMA ManifestBegun ==
    ASSUME PastKept, Grown, NEW d, NEW e, NEW m, IsManifest(m), NEW h, PairStep(d, e, m, h)
    PROVE  ManifestVerifies(e, manifests[e])' /\ (manifests[e].digest = DigestOf(e))'
<1>1. manifests'[e] = m
  BY DEF PairStep, WithKey
<1>2. HeadAuthorized(m.issuer, e, m.head) /\ m.issuer \in Votes
  BY DEF PairStep, IsManifest
<1>3. HeadAuthorized(m.issuer, e, m.head)'
  BY <1>2, SignatureKept
<1>4. ManifestVerifies(e, m)' /\ m.digest = DigestOf(e)'
  BY <1>3 DEF PairStep, ManifestVerifies
<1>5. QED
  BY <1>1, <1>4

\* Beginning an epoch touches no other environment.
LEMMA OthersBegun ==
    ASSUME RowInvariant, NEW d, NEW op, NEW m, NEW h, PairStep(d, op.env, m, h),
           Created(op, m) \/ Rotated(op, m), NEW e \in LiveEnvironments, e # op.env
    PROVE  SameFor(e)
<1>1. manifests'[e] = manifests[e]
  BY DEF PairStep, WithKey, RowInvariant
<1>2. environmentRows'[e] = environmentRows[e] /\ UNCHANGED variableRows
  BY DEF PairStep, Created, Rotated, WithKey, RowInvariant, LiveEnvironments
<1>3. DigestOf(e)' = DigestOf(e)
  BY <1>2, SameRowsSameDigest
<1>4. \A n : CheckpointTupleFor(e, n)' = CheckpointTupleFor(e, n)
  <2>1. PICK at, tuple : at = <<op.env, m.version>>
                         /\ checkpointTuples' = WithKey(checkpointTuples, at, tuple)
    BY DEF PairStep
  <2>2. \A n : <<e, n>> # at
    BY <2>1
  <2>3. QED
    BY <2>1, <2>2 DEF CheckpointTupleFor, WithKey
<1>5. e \in DOMAIN latestCheckpoints' =>
         e \in DOMAIN latestCheckpoints /\ latestCheckpoints'[e] = latestCheckpoints[e]
  BY DEF PairStep, WithKey
<1>6. QED
  BY <1>1, <1>3, <1>4, <1>5 DEF SameFor

\* What a data write leaves of the manifests: verified ones, over the state stored.
LEMMA ManifestsWritten ==
    ASSUME TypeOK, RowInvariant, ManifestInvariant, PastKept, Grown,
           NEW x, DataWritten(x), NEW e \in LiveEnvironments
    PROVE  ManifestVerifies(e, manifests[e])' /\ (manifests[e].digest = DigestOf(e))'
<1>1. UNCHANGED <<checkpointTuples, latestCheckpoints>>
  BY DEF DataWritten, historyVars, indexVars
<1>2. /\ \A n : CheckpointTupleFor(e, n)' = CheckpointTupleFor(e, n)
      /\ e \in DOMAIN latestCheckpoints' =>
            e \in DOMAIN latestCheckpoints /\ latestCheckpoints'[e] = latestCheckpoints[e]
  BY <1>1 DEF CheckpointTupleFor
<1>3. ASSUME manifests'[e] = manifests[e], DigestOf(e)' = DigestOf(e)
      PROVE  ManifestVerifies(e, manifests[e])' /\ (manifests[e].digest = DigestOf(e))'
  BY <1>2, <1>3, ManifestUntouched DEF SameFor
<1>4. ASSUME NEW v, NEW row, Pushed(x, v, row)
      PROVE  ManifestVerifies(e, manifests[e])' /\ (manifests[e].digest = DigestOf(e))'
  <2>1. PICK at : at = <<x, v>>
    OBVIOUS
  <2>2. /\ variableRows' = WithKey(variableRows, at, row) /\ at \in DOMAIN variableRows
        /\ row.status = variableRows[at].status
        /\ row.metaVersion = variableRows[at].metaVersion
        /\ UNCHANGED <<environmentRows, manifests>>
    BY <1>4, <2>1 DEF Pushed, RowWritten
  <2>3. DigestOf(e)' = DigestOf(e)
    BY <2>2, DigestKept DEF WithKey
  <2>4. QED
    BY <1>3, <2>2, <2>3
<1>5. ASSUME NEW m, Issued(x, m),
             Renamed(x) \/ (UNCHANGED environmentRows /\ \E v, row : RowWritten(x, v, row))
      PROVE  ManifestVerifies(e, manifests[e])' /\ (manifests[e].digest = DigestOf(e))'
  <2>1. /\ IsManifest(m) /\ ManifestVerifies(x, m) /\ m.digest = DigestOf(x)'
        /\ manifests' = [manifests EXCEPT ![x] = m]
    BY <1>5 DEF Issued
  <2>2. CASE e = x
    <3>1. e \in Envs /\ e \in DOMAIN manifests
      BY DEF TypeOK, IsMap, LiveEnvironments, RowInvariant
    <3>2. manifests'[e] = m
      BY <2>1, <2>2, <3>1
    <3>3. ManifestVerifies(e, m)'
      BY <1>2, <2>1, <2>2, <3>1, ManifestKept
    <3>4. QED
      BY <2>1, <2>2, <3>2, <3>3
  <2>3. CASE e # x
    <3>1. manifests'[e] = manifests[e]
      BY <2>1, <2>3
    <3>2. CASE Renamed(x)
      <4>1. environmentRows'[e] = environmentRows[e] /\ UNCHANGED variableRows
        BY <2>3, <3>2 DEF Renamed
      <4>2. QED
        BY <1>3, <3>1, <4>1, SameRowsSameDigest
    <3>3. ASSUME NEW v, NEW row, RowWritten(x, v, row), UNCHANGED environmentRows
          PROVE  DigestOf(e)' = DigestOf(e)
      <4>1. PICK at : at = <<x, v>>
        OBVIOUS
      <4>2. variableRows' = WithKey(variableRows, at, row)
        BY <3>3, <4>1 DEF RowWritten
      <4>3. \A k : k[1] = e => k # at
        BY <2>3, <4>1
      <4>4. \A k : k[1] = e =>
               /\ k \in DOMAIN variableRows' <=> k \in DOMAIN variableRows
               /\ k \in DOMAIN variableRows => variableRows'[k] = variableRows[k]
        BY <4>2, <4>3 DEF WithKey
      <4>5. QED
        BY <3>3, <4>4, SameRowsSameDigest
    <3>4. QED
      BY <1>3, <1>5, <3>1, <3>2, <3>3
  <2>4. QED
    BY <2>2, <2>3
<1>6. QED
  BY <1>4, <1>5 DEF DataWritten

\* Every request leaves manifests that verify.
LEMMA ManifestStep ==
    ASSUME Known, Known', TupleInvariant, ManifestInvariant, [StoreNext]_allVars
    PROVE  ManifestInvariant'
<1>1. /\ StoreInvariant /\ StoreChain /\ StoreChain' /\ RowInvariant /\ RowInvariant'
      /\ TypeOK /\ OrderInvariant
  BY DEF Known, StoreInvariant, StoreChain
<1>2. Grown /\ PastKept
  BY <1>1, ChainGrows, PastStays
<1>3. SUFFICES ASSUME NEW e \in LiveEnvironments'
               PROVE  ManifestVerifies(e, manifests[e])' /\ (manifests[e].digest = DigestOf(e))'
  BY DEF ManifestInvariant
<1>4. ASSUME e \in LiveEnvironments, SameFor(e)
      PROVE  ManifestVerifies(e, manifests[e])' /\ (manifests[e].digest = DigestOf(e))'
  BY <1>1, <1>2, <1>4, ManifestUntouched
<1>5. ASSUME UNCHANGED <<environments, rowVars, checkpointTuples, latestCheckpoints>>
      PROVE  ManifestVerifies(e, manifests[e])' /\ (manifests[e].digest = DigestOf(e))'
  <2>1. UNCHANGED <<environmentRows, manifests, variableRows>> /\ e \in LiveEnvironments
    BY <1>5 DEF rowVars, LiveEnvironments
  <2>2. SameFor(e)
    BY <1>5, <2>1, SameRowsSameDigest DEF SameFor, CheckpointTupleFor
  <2>3. QED
    BY <1>4, <2>1, <2>2
<1>6. CASE EntryRequest
  <2>1. CASE Appended
    BY <1>1, <1>5, <2>1, AppendedKeeps
  <2>2. ASSUME NEW d \in devices, NEW op \in Operations, AppliedEntry(op, d),
               op.op = "delete_environment", Retired(op)
        PROVE  ManifestVerifies(e, manifests[e])' /\ (manifests[e].digest = DigestOf(e))'
    <3>1. e \in LiveEnvironments /\ e # op.env
      BY <1>1, <2>2, RetiredEnvironments
    <3>2. UNCHANGED checkpointTuples
      BY <2>2 DEF AppliedEntry, RecordHistory, RecordEnvironmentDeleted
    <3>3. \A n : CheckpointTupleFor(e, n)' = CheckpointTupleFor(e, n)
      BY <3>2 DEF CheckpointTupleFor
    <3>4. latestCheckpoints' = WithoutKey(latestCheckpoints, op.env)
      BY <1>1, <2>2 DEF Retired, StoreChain
    <3>5. e \in DOMAIN latestCheckpoints' =>
             e \in DOMAIN latestCheckpoints /\ latestCheckpoints'[e] = latestCheckpoints[e]
      BY <3>4 DEF WithoutKey
    <3>6. manifests'[e] = manifests[e]
      BY <1>1, <2>2, <3>1 DEF Retired, RetireEnvironment, WithoutKey, RowInvariant
    <3>7. environmentRows'[e] = environmentRows[e]
      BY <2>2, <3>1 DEF Retired, RetireEnvironment
    <3>8. \A k : k[1] = e =>
             /\ k \in DOMAIN variableRows' <=> k \in DOMAIN variableRows
             /\ k \in DOMAIN variableRows => variableRows'[k] = variableRows[k]
      BY <2>2, <3>1 DEF Retired, RetireEnvironment
    <3>9. SameFor(e)
      BY <3>3, <3>5, <3>6, <3>7, <3>8, SameRowsSameDigest DEF SameFor
    <3>10. QED
      BY <1>4, <3>1, <3>9
  <2>3. ASSUME NEW op, Attested(op)
        PROVE  ManifestVerifies(e, manifests[e])' /\ (manifests[e].digest = DigestOf(e))'
    <3>1. /\ e \in LiveEnvironments /\ UNCHANGED <<environmentRows, manifests, variableRows>>
          /\ op \in CheckpointOps
      BY <2>3 DEF Attested, LiveEnvironments
    <3>2. DigestOf(e)' = DigestOf(e)
      BY <3>1, SameRowsSameDigest
    <3>3. CASE \E t \in op.tuples : t.env = e
      <4>1. PICK t \in op.tuples : t.env = e
        BY <3>3
      <4>2. ManifestVerifies(t.env, manifests[t.env])'
        BY <1>1, <1>2, <2>3, ManifestAttested
      <4>3. manifests[e].digest = DigestOf(e)
        BY <3>1 DEF ManifestInvariant
      <4>4. QED
        BY <3>1, <3>2, <4>1, <4>2, <4>3
    <3>4. CASE \A t \in op.tuples : t.env # e
      <4>1. PICK seq : /\ checkpointTuples' = TuplesAfterCheckpoint(op, seq)
                       /\ latestCheckpoints' = WithTuples(latestCheckpoints, op, seq)
        BY <1>1, <2>3 DEF Attested, StoreChain
      <4>2. /\ \A n : CheckpointTupleFor(e, n)' = CheckpointTupleFor(e, n)
            /\ e \in DOMAIN latestCheckpoints' <=> e \in DOMAIN latestCheckpoints
            /\ e \in DOMAIN latestCheckpoints => latestCheckpoints'[e] = latestCheckpoints[e]
        BY <3>1, <3>4, <4>1, CheckpointLeaves
      <4>3. SameFor(e)
        BY <3>1, <3>2, <4>2 DEF SameFor
      <4>4. QED
        BY <1>4, <3>1, <4>3
    <3>5. QED
      BY <3>3, <3>4
  <2>4. QED
    BY <1>6, <2>1, <2>2, <2>3 DEF EntryRequest
<1>7. CASE PairRequest
  <2>1. PICK d \in devices, op \in Operations :
           \E m, h : /\ h \in ManifestHashes /\ PairStep(d, op.env, m, h)
                     /\ Created(op, m) \/ Rotated(op, m)
    BY <1>7 DEF PairRequest
  <2>2. PICK m, h : /\ h \in ManifestHashes /\ PairStep(d, op.env, m, h)
                    /\ Created(op, m) \/ Rotated(op, m)
    BY <2>1
  <2>3. Begins(op.env, m.epoch)
    BY <1>1, <2>2, PairBegins
  <2>4. LiveEnvironments' = LiveEnvironments \cup {op.env}
    BY <1>1, <2>2, <2>3, PairRows
  <2>5. CASE e = op.env
    <3>1. manifests'[e] = m
      BY <2>2, <2>5 DEF PairStep, WithKey
    <3>2. IsManifest(m)
      BY <1>1, <3>1 DEF RowInvariant, IsManifest
    <3>3. QED
      BY <1>2, <2>2, <2>5, <3>2, ManifestBegun
  <2>6. CASE e # op.env
    <3>1. e \in LiveEnvironments
      BY <2>4, <2>6
    <3>2. SameFor(e)
      BY <1>1, <2>2, <2>6, <3>1, OthersBegun
    <3>3. QED
      BY <1>4, <3>1, <3>2
  <2>7. QED
    BY <2>5, <2>6
<1>8. CASE RowRequest
  <2>1. UNCHANGED historyVars /\ UNCHANGED <<environments, checkpointTuples, latestCheckpoints>>
    BY <1>8, RowRequestsKeepChain DEF historyVars, vars, envVars, indexVars
  <2>2. e \in LiveEnvironments
    BY <2>1 DEF LiveEnvironments
  <2>3. CASE UNCHANGED rowVars
    BY <1>5, <2>1, <2>3
  <2>4. CASE \E x : DataWritten(x)
    BY <1>1, <1>2, <2>2, <2>4, ManifestsWritten DEF Known, StoreInvariant
  <2>5. QED
    BY <1>8, <2>3, <2>4 DEF RowRequest, allVars, storeVars, WrapRequest, RegisterDekWraps,
       DeleteDekWraps, PutHeadAttestation
<1>9. QED
  BY <1>1, <1>6, <1>7, <1>8, RequestCases

\* In every store, whatever is stored passes the verification that a client runs against
\* the chain of now: manifests over the state they are served with, and all versions of
\* all values, with epochs that never fall (acceptEnvManifest, ensureValueSignature).
THEOREM StoredStaysVerifiable == StoreSpec => []ServedVerifies
<1>1. StoreInit => ValueInvariant /\ TupleInvariant /\ ManifestInvariant
  <2>1. StoreInit => DOMAIN variableRows = {} /\ DOMAIN checkpointTuples = {} /\ LiveEnvironments = {}
    BY DEF StoreInit, HistoryInit, Init, LiveEnvironments
  <2>2. QED
    BY <2>1 DEF ValueInvariant, TupleInvariant, ManifestInvariant
<1>2. StoreInvariant /\ TupleInvariant /\ [StoreNext]_allVars => TupleInvariant'
  BY TupleStep
<1>3. Known /\ Known' /\ ValueInvariant /\ [StoreNext]_allVars => ValueInvariant'
  BY ValueStep
<1>4. Known /\ Known' /\ TupleInvariant /\ ManifestInvariant /\ [StoreNext]_allVars
         => ManifestInvariant'
  BY ManifestStep
<1>5. ValueInvariant /\ ManifestInvariant => ServedVerifies
  BY DEF ValueInvariant, ManifestInvariant, ServedVerifies, VersionsVerify
<1>6. QED
  BY <1>1, <1>2, <1>3, <1>4, <1>5, StoreInitial, StoreStep, StoreKnown, PTL DEF StoreSpec

(***************************************************************************)
(* Values that checkpoints cover.                                          *)
(***************************************************************************)

\* The variable has the version covered, with the same value, or is a tombstone.
StillCovered(e, v, covered) ==
    /\ <<e, v>> \in DOMAIN variableRows
    /\ \/ variableRows[<<e, v>>].status = "deleted"
       \/ /\ covered.version \in DOMAIN variableRows[<<e, v>>].versions
          /\ variableRows[<<e, v>>].versions[covered.version] = covered.value

CoverInvariant ==
    \A e \in DOMAIN checkpointSnapshots :
        \A v \in DOMAIN checkpointSnapshots[e].values :
            StillCovered(e, v, checkpointSnapshots[e].values[v])

\* A checkpoint covers what is stored.
LEMMA CurrentCovered ==
    ASSUME RowInvariant, NEW e, NEW v \in DOMAIN CurrentValues(e)
    PROVE  StillCovered(e, v, CurrentValues(e)[v])
<1>1. PICK row, covered : row = variableRows[<<e, v>>] /\ covered = CurrentValues(e)[v]
  OBVIOUS
<1>2. /\ RequireActiveVariable(e, v) /\ row.versions # <<>>
      /\ covered = [version |-> Len(row.versions), value |-> Last(row.versions)]
  BY <1>1 DEF CurrentValues
<1>3. <<e, v>> \in DOMAIN variableRows
  BY <1>2 DEF RequireActiveVariable
<1>4. row \in VariableRecords
  BY <1>1, <1>3 DEF RowInvariant
<1>5. PICK list : list = row.versions
  OBVIOUS
<1>6. list \in Seq(ValueRecords) /\ list # <<>>
  BY <1>2, <1>4, <1>5 DEF VariableRecords
<1>7. Len(list) \in DOMAIN list /\ list[Len(list)] = Last(list)
  BY <1>6 DEF Last
<1>8. covered.version = Len(list) /\ covered.value = Last(list)
  BY <1>2, <1>5
<1>9. QED
  BY <1>1, <1>3, <1>5, <1>7, <1>8 DEF StillCovered

\* A write appends a version or leaves a tombstone.
LEMMA CoverSurvives ==
    ASSUME RowInvariant, NEW x, NEW y, NEW row, RowWritten(x, y, row),
           NEW e, NEW v, NEW covered, StillCovered(e, v, covered)
    PROVE  StillCovered(e, v, covered)'
<1>1. PICK k, at : k = <<e, v>> /\ at = <<x, y>>
  OBVIOUS
<1>2. variableRows' = WithKey(variableRows, at, row) /\ k \in DOMAIN variableRows
  BY <1>1 DEF RowWritten, StillCovered
<1>3. k \in DOMAIN variableRows'
  BY <1>2 DEF WithKey
<1>4. CASE k # at
  <2>1. variableRows'[k] = variableRows[k]
    BY <1>2, <1>4 DEF WithKey
  <2>2. QED
    BY <1>1, <1>3, <2>1 DEF StillCovered
<1>5. CASE k = at
  <2>1. e = x /\ v = y
    BY <1>1, <1>5
  <2>2. PICK list : list = variableRows[k].versions
    OBVIOUS
  <2>3. variableRows'[k] = row /\ variableRows[k].status # "deleted" /\ list = VersionsOf(x, y)
    BY <1>1, <1>2, <1>5, <2>2 DEF WithKey, RowWritten, VersionsOf
  <2>4. covered.version \in DOMAIN list /\ list[covered.version] = covered.value
    BY <1>1, <2>2, <2>3 DEF StillCovered
  <2>5. list \in Seq(ValueRecords)
    BY <1>2, <2>2 DEF RowInvariant, VariableRecords
  <2>6. CASE row.status = "deleted"
    BY <1>1, <1>3, <2>3, <2>6 DEF StillCovered
  <2>7. CASE row.versions = list
    BY <1>1, <1>3, <2>3, <2>4, <2>7 DEF StillCovered
  <2>8. ASSUME NEW value \in ValueRecords, row.versions = Append(list, value)
        PROVE  StillCovered(e, v, covered)'
    <3>1. /\ covered.version \in 1..Len(list)
          /\ DOMAIN Append(list, value) = 1..Len(list) + 1
          /\ \A i \in 1..Len(list) : Append(list, value)[i] = list[i]
      BY <2>4, <2>5, Appending
    <3>2. covered.version \in 1..Len(list) + 1
      BY <2>5, <3>1
    <3>3. covered.version \in DOMAIN row.versions /\ row.versions[covered.version] = covered.value
      BY <2>4, <2>8, <3>1, <3>2
    <3>4. QED
      BY <1>1, <1>3, <2>3, <3>3 DEF StillCovered
  <2>9. QED
    BY <2>3, <2>6, <2>7, <2>8 DEF RowWritten
<1>6. QED
  BY <1>4, <1>5

\* Every request leaves what checkpoints cover.
LEMMA CoverStep ==
    ASSUME StoreInvariant, CoverInvariant, [StoreNext]_allVars
    PROVE  CoverInvariant'
<1>1. StoreChain /\ RowInvariant /\ TypeOK
  BY DEF StoreInvariant, StoreChain
<1>2. ASSUME UNCHANGED variableRows, NEW e, NEW v, NEW covered, StillCovered(e, v, covered)
      PROVE  StillCovered(e, v, covered)'
  BY <1>2 DEF StillCovered
<1>3. ASSUME UNCHANGED <<variableRows, checkpointSnapshots>> PROVE CoverInvariant'
  BY <1>3 DEF CoverInvariant, StillCovered
<1>4. SUFFICES ASSUME NEW e \in DOMAIN checkpointSnapshots',
                      NEW v \in DOMAIN checkpointSnapshots'[e].values
               PROVE  StillCovered(e, v, checkpointSnapshots[e].values[v])'
  BY DEF CoverInvariant
<1>5. PICK covered : covered = checkpointSnapshots'[e].values[v]
  OBVIOUS
<1>6. SUFFICES StillCovered(e, v, covered)'
  BY <1>5
<1>7. ASSUME e \in DOMAIN checkpointSnapshots, checkpointSnapshots'[e] = checkpointSnapshots[e]
      PROVE  StillCovered(e, v, covered)
  BY <1>4, <1>5, <1>7 DEF CoverInvariant
<1>8. ASSUME checkpointSnapshots'[e].values = CurrentValues(e) PROVE StillCovered(e, v, covered)
  BY <1>1, <1>4, <1>5, <1>8, CurrentCovered
<1>9. CASE EntryRequest
  <2>1. CASE Appended
    BY <1>1, <1>2, <1>7, <2>1, AppendedKeeps DEF rowVars
  <2>2. ASSUME NEW op, Retired(op) PROVE StillCovered(e, v, covered)'
    <3>1. /\ e # op.env /\ e \in DOMAIN checkpointSnapshots
          /\ checkpointSnapshots'[e] = checkpointSnapshots[e]
      BY <1>4, <2>2 DEF Retired, RetireEnvironment, WithoutKey
    <3>2. StillCovered(e, v, covered)
      BY <1>7, <3>1
    <3>3. PICK k : k = <<e, v>>
      OBVIOUS
    <3>4. k[1] = e
      BY <3>3
    <3>5. k \in DOMAIN variableRows => k \in DOMAIN variableRows' /\ variableRows'[k] = variableRows[k]
      BY <2>2, <3>1, <3>4 DEF Retired, RetireEnvironment
    <3>6. QED
      BY <3>2, <3>3, <3>5 DEF StillCovered
  <2>3. ASSUME NEW op, Attested(op) PROVE StillCovered(e, v, covered)'
    <3>1. UNCHANGED variableRows /\ checkpointSnapshots' = SnapshotsAfter(op, headSeq + 1)
      BY <2>3 DEF Attested
    <3>2. \/ checkpointSnapshots'[e].values = CurrentValues(e)
          \/ e \in DOMAIN checkpointSnapshots /\ checkpointSnapshots'[e] = checkpointSnapshots[e]
      BY <1>4, <3>1 DEF SnapshotsAfter
    <3>3. QED
      BY <1>2, <1>7, <1>8, <3>1, <3>2
  <2>4. QED
    BY <1>9, <2>1, <2>2, <2>3 DEF EntryRequest
<1>10. CASE PairRequest
  <2>1. UNCHANGED variableRows
    BY <1>10 DEF PairRequest, PairStep
  <2>2. \/ checkpointSnapshots'[e].values = CurrentValues(e)
        \/ e \in DOMAIN checkpointSnapshots /\ checkpointSnapshots'[e] = checkpointSnapshots[e]
    BY <1>4, <1>10 DEF PairRequest, PairStep, WithKey
  <2>3. QED
    BY <1>2, <1>7, <1>8, <2>1, <2>2
<1>11. CASE RowRequest
  <2>1. UNCHANGED checkpointSnapshots
    BY <1>11 DEF RowRequest, allVars, storeVars, rowVars, WrapRequest, RegisterDekWraps,
       DeleteDekWraps, PutHeadAttestation, DataWritten
  <2>2. StillCovered(e, v, covered)
    BY <1>4, <1>7, <2>1
  <2>3. UNCHANGED variableRows \/ \E x, y, row : RowWritten(x, y, row)
    BY <1>11 DEF RowRequest, allVars, storeVars, rowVars, WrapRequest, RegisterDekWraps,
       DeleteDekWraps, PutHeadAttestation, DataWritten, Pushed, Renamed
  <2>4. QED
    BY <1>1, <1>2, <2>2, <2>3, CoverSurvives
<1>12. QED
  BY <1>1, <1>9, <1>10, <1>11, RequestCases

\* In every store, a variable in the latest snapshot of its environment still has the very
\* version it was covered with, or is a tombstone: no request rewrites or rolls back what a
\* checkpoint covers (variableIdUnavailable, ensureValueCas).
THEOREM CheckpointsAreKept == StoreSpec => []CheckpointedValuesKept
<1>1. StoreInit => CoverInvariant
  BY DEF StoreInit, CoverInvariant
<1>2. StoreInvariant /\ CoverInvariant /\ [StoreNext]_allVars => CoverInvariant'
  BY CoverStep
<1>3. CoverInvariant => CheckpointedValuesKept
  BY DEF CoverInvariant, StillCovered, CheckpointedValuesKept
<1>4. QED
  BY <1>1, <1>2, <1>3, StoreInitial, StoreStep, PTL DEF StoreSpec

=============================================================================
