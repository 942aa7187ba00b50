----------------------------- MODULE ChainHistory -----------------------------
(***************************************************************************)
(* The history index that verification builds beside the chain state        *)
(* (packages/crypto/src/internal.package/chain-history.ts, fed by           *)
(* recordHistory in chain-verify.ts).  Every value, manifest and proposal   *)
(* signature is judged by it, at the chain head the writer declared: was    *)
(* this person a member then, was this device theirs, with which rights,    *)
(* which epoch was current.                                                 *)
(*                                                                         *)
(* The index keeps intervals (tenures, spans of (role, scope), device       *)
(* validity, cap changes, epoch starts) and answers by interval search; the *)
(* history variables below keep the chain state of every seq, which is what *)
(* the answers must agree with.                                             *)
(***************************************************************************)
EXTENDS MembershipChain, SequencesExt

VARIABLES
    tenures,           \* user -> its tenures, oldest first
    environmentStarts, \* environment -> creation, epoch starts, deletion
    checkpointTuples,  \* <<environment, manifest version>> -> tuple or conflict
    latestCheckpoints, \* environment -> latest checkpoint
    snapshots,         \* history variable: the chain state as of every seq
    attestations       \* history variable: every tuple a checkpoint has carried

indexVars == <<tenures, environmentStarts, checkpointTuples, latestCheckpoints>>
historyVars == <<vars, indexVars, snapshots, attestations>>

Conflict == [kind |-> "conflicting"]

Absent == [kind |-> "absent"]

(***************************************************************************)
(* Recording (ChainHistoryBuilder).  A seq of 0 stands for null.           *)
(***************************************************************************)

TenuresOf(u) == IF u \in DOMAIN tenures THEN tenures[u] ELSE <<>>

HasOpenTenure(u) == TenuresOf(u) # <<>> /\ Last(TenuresOf(u)).end = 0

\* tenures with the open tenure of u replaced.
WithOpenTenure(u, t) == [tenures EXCEPT ![u][Len(tenures[u])] = t]

NewDeviceRecord(d) == [device |-> d, revoked |-> 0, capChanges |-> <<>>]

NewTenure(m, d, seq) ==
    [start |-> seq, end |-> 0, devices |-> <<NewDeviceRecord(d)>>,
     spans |-> <<[from |-> seq, role |-> m.role, scope |-> m.scope]>>]

\* The tenure starts with the one device the applied entry gave the person
\* (soleDeviceOf: were there more than one, nothing would be recorded).
RecordTenureStart(u, seq) ==
    LET held == {x \in devices' : x.user = u}
        sole == CHOOSE d \in held : TRUE
    IN  /\ tenures' = IF Cardinality(held) = 1
                      THEN WithKey(tenures, u,
                               Append(TenuresOf(u), NewTenure(members'[u], sole, seq)))
                      ELSE tenures
        /\ UNCHANGED <<environmentStarts, checkpointTuples, latestCheckpoints>>

RecordTenureEnd(u, seq) ==
    /\ tenures' = IF HasOpenTenure(u)
                  THEN WithOpenTenure(u, [Last(tenures[u]) EXCEPT !.end = seq])
                  ELSE tenures
    /\ UNCHANGED <<environmentStarts, checkpointTuples, latestCheckpoints>>

RecordRoleChange(op, seq) ==
    /\ tenures' = IF HasOpenTenure(op.target)
                  THEN WithOpenTenure(op.target, [Last(tenures[op.target]) EXCEPT
                           !.spans = Append(@, [from |-> seq, role |-> op.role, scope |-> op.scope])])
                  ELSE tenures
    /\ UNCHANGED <<environmentStarts, checkpointTuples, latestCheckpoints>>

\* The added device is found in the applied state by its enc key.
RecordDeviceAdded(u, enc) ==
    LET found == {d \in devices' : d.user = u /\ d.enc = enc}
        added == CHOOSE d \in found : TRUE
    IN  /\ tenures' = IF found # {} /\ HasOpenTenure(u)
                      THEN WithOpenTenure(u, [Last(tenures[u]) EXCEPT
                               !.devices = Append(@, NewDeviceRecord(added))])
                      ELSE tenures
        /\ UNCHANGED <<environmentStarts, checkpointTuples, latestCheckpoints>>

FingerprintOf(d) == [enc |-> d.enc, sig |-> d.sig]

RecordDevicesRevoked(op, seq) ==
    LET revoke(r) == IF r.revoked = 0 /\ FingerprintOf(r.device) \in op.fps
                     THEN [r EXCEPT !.revoked = seq] ELSE r
        open == Last(tenures[op.target])
    IN  /\ tenures' = IF HasOpenTenure(op.target)
                      THEN WithOpenTenure(op.target, [open EXCEPT
                               !.devices = [i \in DOMAIN open.devices |-> revoke(open.devices[i])]])
                      ELSE tenures
        /\ UNCHANGED <<environmentStarts, checkpointTuples, latestCheckpoints>>

StartsAfterCreate(op, seq) ==
    WithKey(environmentStarts, op.env,
        [createdAt |-> seq, epochStarts |-> <<[epoch |-> 1, start |-> seq]>>, deletedAt |-> 0])

RecordEnvironmentCreated(op, seq) ==
    /\ environmentStarts' = StartsAfterCreate(op, seq)
    /\ UNCHANGED <<tenures, checkpointTuples, latestCheckpoints>>

StartsAfterRotate(op, seq) ==
    [environmentStarts EXCEPT
        ![op.env].epochStarts = Append(@, [epoch |-> op.epoch, start |-> seq])]

RecordEpochRotated(op, seq) ==
    /\ environmentStarts' = StartsAfterRotate(op, seq)
    /\ UNCHANGED <<tenures, checkpointTuples, latestCheckpoints>>

\* The last element of an ascending interval list that starts at or before seq.
IntervalsUpTo(intervals, seq) == {i \in DOMAIN intervals : intervals[i].from <= seq}

CurrentAt(intervals, seq) ==
    intervals[CHOOSE i \in IntervalsUpTo(intervals, seq) :
                 \A j \in IntervalsUpTo(intervals, seq) : j <= i]

\* deviceAt: the cap as of seq.
DeviceAt(r, seq) ==
    IF IntervalsUpTo(r.capChanges, seq) = {} THEN r.device
    ELSE [r.device EXCEPT !.scope = CurrentAt(r.capChanges, seq).scope]

\* pruneTenureAt: only what actually listed the environment gets a change point.
PruneTenure(t, e, seq) ==
    LET span == Last(t.spans)
        prune(r) == IF r.revoked = 0 /\ e \in DeviceAt(r, seq).scope.ids
                    THEN [r EXCEPT !.capChanges = Append(@,
                             [from |-> seq, scope |-> ScopeWithout(DeviceAt(r, seq).scope, e)])]
                    ELSE r
    IN  [t EXCEPT
           !.spans = IF e \in span.scope.ids
                     THEN Append(@, [from |-> seq, role |-> span.role,
                                     scope |-> ScopeWithout(span.scope, e)])
                     ELSE @,
           !.devices = [i \in DOMAIN @ |-> prune(@[i])]]

RecordEnvironmentDeleted(op, seq) ==
    /\ environmentStarts' = [environmentStarts EXCEPT ![op.env].deletedAt = seq]
    /\ latestCheckpoints' = WithoutKey(latestCheckpoints, op.env)
    /\ tenures' = [u \in DOMAIN tenures |->
           IF HasOpenTenure(u)
           THEN [tenures[u] EXCEPT ![Len(tenures[u])] = PruneTenure(@, op.env, seq)]
           ELSE tenures[u]]
    /\ UNCHANGED checkpointTuples

\* Variant: the latest tuple wins.
LatestTuple(t, seq) == [kind |-> "unique", seq |-> seq, epoch |-> t.epoch, hash |-> t.hash]

\* One tuple per (environment, version); a differing one demotes it to conflict.
MergedTuple(t, seq) ==
    LET at == <<t.env, t.version>>
        new == [kind |-> "unique", seq |-> seq, epoch |-> t.epoch, hash |-> t.hash]
    IN  IF at \notin DOMAIN checkpointTuples THEN new
        ELSE IF \/ checkpointTuples[at] = Conflict
                \/ checkpointTuples[at].epoch # t.epoch
                \/ checkpointTuples[at].hash # t.hash
        THEN Conflict
        ELSE checkpointTuples[at]

TuplesAfterCheckpoint(op, seq) ==
    LET tupleAt(c) == CHOOSE t \in op.tuples : <<t.env, t.version>> = c
        coordinates == {<<t.env, t.version>> : t \in op.tuples}
    IN  [c \in DOMAIN checkpointTuples \cup coordinates |->
            IF c \in coordinates THEN MergedTuple(tupleAt(c), seq) ELSE checkpointTuples[c]]

RecordCheckpoint(op, seq) ==
    /\ checkpointTuples' = TuplesAfterCheckpoint(op, seq)
    /\ latestCheckpoints' = WithTuples(latestCheckpoints, op, seq)
    /\ UNCHANGED <<tenures, environmentStarts>>

\* recordHistory: what the entry applied, if anything, is recorded at its own seq.
RecordHistory(op, by, seq) ==
    \/ op.op = "add_member" /\ RecordTenureStart(op.target, seq)
    \/ op.op = "change_role" /\ RecordRoleChange(op, seq)
    \/ op.op = "remove_member" /\ RecordTenureEnd(op.target, seq)
    \/ op.op = "add_device" /\ RecordDeviceAdded(by.user, op.enc)
    \/ op.op = "revoke_device" /\ RecordDevicesRevoked(op, seq)
    \/ op.op = "create_environment" /\ RecordEnvironmentCreated(op, seq)
    \/ op.op = "rotate_epoch" /\ RecordEpochRotated(op, seq)
    \/ op.op = "delete_environment" /\ RecordEnvironmentDeleted(op, seq)
    \/ op.op = "checkpoint" /\ RecordCheckpoint(op, seq)
    \/ /\ op.op \in {"grant_server", "revoke_server", "set_approval_policy", "none"}
       /\ UNCHANGED indexVars

(***************************************************************************)
(* Queries (ChainHistory).                                                 *)
(***************************************************************************)

TenureCovers(t, seq) == t.start <= seq /\ (t.end = 0 \/ seq < t.end)

\* tenures.find(...): the first tenure that covers seq.
TenureIndexesAt(u, seq) == {i \in DOMAIN TenuresOf(u) : TenureCovers(TenuresOf(u)[i], seq)}

TenureAt(u, seq) ==
    TenuresOf(u)[CHOOSE i \in TenureIndexesAt(u, seq) :
                    \A j \in TenureIndexesAt(u, seq) : i <= j]

\* Variant: the revoking entry itself still counts as valid.
DeviceActiveThrough(r, seq) == r.device.addedSeq <= seq /\ (r.revoked = 0 \/ seq <= r.revoked)

DeviceActiveAt(r, seq) == r.device.addedSeq <= seq /\ (r.revoked = 0 \/ seq < r.revoked)

MemberStateAt(u, seq) ==
    IF TenureIndexesAt(u, seq) = {} THEN Absent
    ELSE LET t == TenureAt(u, seq)
             span == CurrentAt(t.spans, seq)
             active == {i \in DOMAIN t.devices : DeviceActiveAt(t.devices[i], seq)}
         IN  [kind |-> "member", role |-> span.role, scope |-> span.scope,
              devices |-> {DeviceAt(t.devices[i], seq) : i \in active},
              tenureStart |-> t.start]

DeviceStateAt(u, fp, seq) ==
    LET t == TenureAt(u, seq)
        active == {i \in DOMAIN t.devices : /\ FingerprintOf(t.devices[i].device) = fp
                                            /\ DeviceActiveAt(t.devices[i], seq)}
        device == DeviceAt(t.devices[CHOOSE i \in active : \A j \in active : i <= j], seq)
    IN  IF TenureIndexesAt(u, seq) = {} \/ active = {} THEN Absent
        ELSE [kind |-> "device", device |-> device,
              permission |-> EffectivePermission(CurrentAt(t.spans, seq), device)]

EnvironmentStateAt(e, seq) ==
    IF e \notin DOMAIN environmentStarts \/ seq < environmentStarts[e].createdAt THEN Absent
    ELSE LET env == environmentStarts[e]
             starts == {i \in DOMAIN env.epochStarts : env.epochStarts[i].start <= seq}
         IN  [kind |-> "environment", createdAt |-> env.createdAt,
              epoch |-> env.epochStarts[CHOOSE i \in starts : \A j \in starts : j <= i].epoch,
              deletedAt |-> IF env.deletedAt <= seq THEN env.deletedAt ELSE 0]

CheckpointTupleFor(e, version) ==
    IF <<e, version>> \in DOMAIN checkpointTuples THEN checkpointTuples[<<e, version>>] ELSE Absent

(***************************************************************************)
(* The recipient set R(E) (recipient-set.ts).                              *)
(***************************************************************************)

\* R(E) of a chain state (a record with members, devices and serverGrants): the
\* devices and the server keys a complete DEK wrap set is sealed to, each as its
\* address (recipient class and id, enc key).
RecipientsIn(state, e) ==
         {[kind |-> "member", id |-> d.user, enc |-> d.enc] :
             d \in {x \in state.devices : ScopeIncludesEnvironment(
                        EffectivePermission(state.members[x.user], x).scope, e)}}
    \cup {[kind |-> "server", id |-> k, enc |-> k] :
             k \in {x \in DOMAIN state.serverGrants : e \in state.serverGrants[x].ids}}

(***************************************************************************)
(* The specification.                                                      *)
(***************************************************************************)

Snapshot == [members |-> members, devices |-> devices, environments |-> environments,
             serverGrants |-> serverGrants]

HistoryInit ==
    /\ Init
    /\ tenures = [u \in DOMAIN members |-> <<NewTenure(members[u], applied.by, 1)>>]
    /\ environmentStarts = [e \in {} |-> Nothing]
    /\ checkpointTuples = [c \in {} |-> Nothing]
    /\ latestCheckpoints = [e \in {} |-> Nothing]
    /\ snapshots = <<Snapshot>>
    /\ attestations = {}

\* What every accepted entry adds to the index and to the history variables.
Record ==
    /\ RecordHistory(applied'.operation, applied'.by, headSeq')
    /\ snapshots' = Append(snapshots, Snapshot')
    /\ attestations' = attestations \cup
           (IF applied'.operation.op = "checkpoint"
            THEN {[seq |-> headSeq', tuple |-> t] : t \in applied'.operation.tuples} ELSE {})

HistoryNext == Next /\ Record

HistorySpec == HistoryInit /\ [][HistoryNext]_historyVars

(***************************************************************************)
(* Properties.                                                             *)
(***************************************************************************)

\* Since when u, a member at seq s, has been one without a break.
MemberSince(u, s) ==
    CHOOSE a \in 1..s : /\ \A b \in a..s : u \in DOMAIN snapshots[b].members
                        /\ a = 1 \/ u \notin DOMAIN snapshots[a - 1].members

MemberIn(s, u) ==
    IF u \notin DOMAIN snapshots[s].members THEN Absent
    ELSE [kind |-> "member", role |-> snapshots[s].members[u].role,
          scope |-> snapshots[s].members[u].scope,
          devices |-> {d \in snapshots[s].devices : d.user = u},
          tenureStart |-> MemberSince(u, s)]

\* Time travel is exact: for every person and every seq up to the head, the index
\* gives the role, the scope, the devices with their caps and the start of the
\* tenure that the chain state had with that entry applied, however the person left, came back, changed
\* devices or lost an environment since (memberStateAt).
MembersAgree ==
    \A s \in 1..headSeq, u \in Users : MemberStateAt(u, s) = MemberIn(s, u)

KeysEverHeld == {FingerprintOf(d) : d \in UNION {snapshots[s].devices : s \in 1..headSeq}}

\* The device a signature is attributed to has, at the declared head, exactly the
\* effective permission the chain gave it there, and is unknown when the chain did
\* not hold it, even if the same key was registered before or after (deviceStateAt).
DevicesAgree ==
    \A s \in 1..headSeq, u \in Users, fp \in KeysEverHeld :
        LET held == {d \in snapshots[s].devices : d.user = u /\ FingerprintOf(d) = fp}
        IN  IF held = {} THEN DeviceStateAt(u, fp, s) = Absent
            ELSE \A d \in held : DeviceStateAt(u, fp, s) =
                    [kind |-> "device", device |-> d,
                     permission |-> EffectivePermission(snapshots[s].members[u], d)]

EnvironmentIn(snapshot, e) ==
    IF e \notin DOMAIN snapshot.environments THEN Absent
    ELSE LET env == snapshot.environments[e]
         IN  [kind |-> "environment", createdAt |-> env.createdAt,
              epoch |-> env.epoch, deletedAt |-> env.deletedAt]

\* The epoch current at a seq, the creation and the deletion are those of the
\* chain state of that seq (environmentStateAt).
EnvironmentsAgree ==
    \A s \in 1..headSeq, e \in Envs : EnvironmentStateAt(e, s) = EnvironmentIn(snapshots[s], e)

\* The index answers for every past seq what the chain state of that seq said of
\* people, their devices and environments (ChainHistory).
IndexAgrees == MembersAgree /\ DevicesAgree /\ EnvironmentsAgree

\* Equivocation is never forgotten and never invented: a version of an
\* environment's manifest is "unique" only if all checkpoints that ever carried it
\* agree on epoch and hash, and then names the first of them; "conflicting" only
\* if two of them differ (checkpointTupleFor).  The latest checkpoints kept beside
\* the index are those of the chain state (latestCheckpointFor).
EquivocationEvident ==
    /\ latestCheckpoints = checkpoints
    /\ \A e \in Envs, v \in {a.tuple.version : a \in attestations} :
          LET all == {a \in attestations : a.tuple.env = e /\ a.tuple.version = v}
              found == CheckpointTupleFor(e, v)
              agree == \A a, b \in all : /\ a.tuple.epoch = b.tuple.epoch
                                         /\ a.tuple.hash = b.tuple.hash
          IN  /\ all = {} <=> found = Absent
              /\ all # {} /\ ~agree => found = Conflict
              /\ all # {} /\ agree => \E a \in all :
                    /\ \A b \in all : a.seq <= b.seq
                    /\ found = [kind |-> "unique", seq |-> a.seq,
                                epoch |-> a.tuple.epoch, hash |-> a.tuple.hash]

=============================================================================
