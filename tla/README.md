# maruhi: specifications and proofs

maruhi is an end-to-end encrypted secrets manager. A command-line client does all
of the cryptography; a Cloudflare Worker stores what the clients sign and seal,
with one Durable Object (DO) per project and a D1 database for accounts, tokens
and invites. What ties a project together is its **membership chain**: an
append-only log of signed entries that says who is a member with which role and
scope, which device keys act for whom, which server keys are granted, which
environments exist and in which epoch their data encryption keys (DEKs) are. The
server verifies the chain on every append with the same function the client runs
on every download (`packages/crypto`), so the rules of the chain are the core of
the system: this project starts there and goes on to what the client does with it.

Paths below are relative to `src/`. *server* is `apps/server/src`, *cli* is
`apps/cli/src`, *crypto* is `packages/crypto/src/internal.package`.

## 1. Inventory

| Part | State | Operations | What makes it hard | What makes it correct |
|---|---|---|---|---|
| Membership chain (*crypto* `chain-verify.ts`, `chain-types.ts`, `chain-device.ts`, `member-scope.ts`) | members, devices, grants, environments, latest checkpoints, key indexes, four-eyes policy, pending proposals | one per entry kind: members, devices, grants, environments, epochs, checkpoints, policy, propose/approve/withdraw | long legal sequences; deferred effects of proposals; indexes and scopes that must be kept in step by every operation | a key leads to one subject; no escalation; owners stay reachable; four eyes; nothing names a deleted environment |
| Chain history (*crypto* `chain-history.ts`) | tenures, spans, device registrations, cap changes, epoch starts, checkpoint tuples | indexing each entry; queries at a past seq | half-open intervals, re-joins and re-registrations, pruning of history only where it is still open | the answer for a seq is what the chain state was at that seq |
| Project DO (*server* `do/`, `programs/`, `data/`, `dek-wraps.ts`, `checkpoint-accept.ts`, `attestation-accept.ts`) | the chain, environment rows, DEK wraps, manifests, variables and versions, checkpoint snapshots, head attestations, audit log | append, composite create/rotate/delete, wrap registration and deletion, value and meta writes, checkpoints, attestations, reads | one request spans many tables; what is signed over an old head arrives late; side effects of removal and revocation on other tables | tables agree with the chain; sealed only within reach; what is served verifies; no equivocation |
| Rotation duty (*cli* `rotation.ts`, `rotation-sweep.ts`, `sweep-rotate.ts`; *server* `rotation-detect.ts`, `programs-rotation.ts`) | none of its own: mandates are derived from the chain, proposals from the audit log | removal or revocation, sweep over environments, re-run after a stop | a crash in the middle, several mandates of different age, other writers | in the end every environment is rotated after each departure |
| Client append (*cli* `chain-append.ts`, `chain-sync.ts`) | the verified view of one run | view, decide, sign over the head, submit, retry | head conflicts, lost answers, decisions made on an older view | an entry lands once; the decision holds for the view it lands on |
| Floors (*cli* `floor*.ts`, `pins.ts`, `attestation.ts`) | an append-only log per project: heads, versions, intents | observe, push intent, resolve, compact, fold | two processes, torn lines, snapshots, a server that serves older state | a floor only rises; a conflict once seen is never forgotten |
| Leases and OIDC (*server* `programs-lease.ts`, `oidc.package`) | JWKS cache, issued leases awaiting audit | verify token, check grant, seal to an ephemeral key | fetches in flight, cooldowns, key rotation at the issuer | a lease only within the grant in force |
| Accounts: device-code sign-in, tokens, sessions (*server* `auth.package`, `db.package`) | flows, tokens, sessions, windows (D1) | start, approve, poll, issue, revoke | requests interleave between D1 batches; polling races | a flow yields at most one token; limits hold |
| Invites (*server* `db.package/invites.ts`, `handlers-invites.ts`; *cli* `invite.package`, `member.package`) | invite rows | create, accept, complete, revoke, expire | compare-and-set races with their audit rows; an acceptance turned into a chain entry much later | limits hold, one acceptance, one audit row per change, completed only what the chain took |
| Master key, devices, recovery (*cli* `key.package`, `master-ops.ts`; *server* `db.package/key-wraps.ts`) | wraps, generations, guardian shares, fixed windows | register, rotate, recover, hand over | partial failure between client and D1 | the ledger opens with a current wrap |
| Audit log and mirrors (*server* `audit-store*.ts`, `do-mirror.ts`; *cli* `mirror.package`) | hash-chained rows, mirror cursors | append, page, mirror | audit heads in checkpoints against rows appended since | an attested head stays in the log |
| Snapshots, export, restore (*server* `do/do-snapshot*.ts`, `restore-worker.ts`) | none of its own | export, import | size limits and streaming | a restore accepts what an append would |
| Quotas, alerts, backups; HTTP handlers; commands; connectors, proxy, keychain; web; primitives; schemas | rows, files, processes outside the protocol | decoding, presentation, I/O | third parties | out of scope, see section 7 |

How they interact. A client synchronises the chain, verifies it, decides,
signs an entry over the head it saw and submits it. The DO of the project takes a
one-permit semaphore (`do/chain-do.ts:276`, `384`), loads the derived state,
runs the verifier's step on the entry, checks its own rules against its tables,
and writes entry and tables in one synchronous block. A data write (value,
statement, manifest, wrap) is signed over a chain head the client *declares*: the
DO checks the person against the chain of now, the signature against the chain
at the declared head through the history index, and the device against the chain
of now. What a client downloads it verifies with the same functions.
D1 is reached from the Worker, not from the DO, in batches that are atomic each
but interleave with one another.

## 2. Modules

    ScopeAlgebra              sets of environments with "all" symbolic
      MembershipChain         the verified state, one step per accepted entry
        ChainHistory          + the history index, and snapshots of the past to compare it with
          ProjectStore        + the tables of the DO, one step per request
          RotationMandates    + the entries, and what a client derives from them
        Invitations           + the invitation rows in D1, and `member add`
    ChainProofs               theorems about MembershipChain and ChainHistory
    StoreProofs               theorems about ProjectStore
    MandateProofs             theorems about RotationMandates
    InvitationProofs          theorems about Invitations

    Revocation                what a rotation owes to a departure
      EnvRotation             the rotation of one environment, implements Revocation
    RotationProofs            theorems about EnvRotation

    Floors                    the join of floors and the fold of the observation log
      FloorStore              one store, commits joined at once
      FloorLog                the file several processes append to, implements FloorStore
      PullVerification        commands that pull, over the store
    FloorProofs               theorems about FloorLog
    PullProofs                theorems about PullVerification

    CliSignIn                 sign-in flows and API tokens in D1
    SignInProofs              theorems about CliSignIn

    MCChainScopes, MCFourEyes, MCHistory, MCStore, MCRotation, MCFloorLog, MCPulls, MCSignIn,
    MCInvitations             instances for TLC

**ScopeAlgebra** is `member-scope.ts`: roles and ranks, scopes (`all` or a list),
containment, intersection, union, symmetric difference, effective permission of a
device. `Universe` adds `Future`, an environment not created yet, so that "all"
differs from a list of everything that exists: the difference matters as soon as an
environment is created. `Denotation` is the reference meaning; properties are
stated with it, the rules with the code's own operators.

**MembershipChain** is `verifyChain`, folded over entries. A step is one accepted
entry; a rejected one changes nothing. Each operation has its payload shape, its
rule (`*Rule`: key uniqueness, role table, scope principles, consensus rules) and
its `Apply*`. The three ways an operation is applied are `Direct`, `Propose`
followed by `ApproveVote`, and `ApproveComplete`, which judges the inner operation
again at completion. `applied` is the verifier's `AppliedOperation`, the device it is
attributed to included. `ballots` is a history variable: who signed a vote while
being an owner.

**ChainHistory** is the index the verifier builds beside the state: tenures with
role spans and device registrations, cap changes, epoch starts, deletion, every
checkpoint tuple and the latest. `snapshots` is a history variable with the state
at every seq; the queries (`MemberStateAt`, `DeviceStateAt`, `EnvironmentStateAt`,
`CheckpointTupleFor`) are compared with it. It also holds the recipient set `R(E)`
(`recipient-set.ts`).

**ProjectStore** is the DO. Each request is one action because the semaphore
admits one request at a time and the write phase is one synchronous block; a
defect inside it drops the cache and writes nothing. `AppendEntry` covers the entries that are only appended, with their effects on wraps
and attestations; `CreateEnvironment` and `RotateEpoch` are the composite requests that carry
an entry and its checkpoint, statement, manifest and wraps together; then
`DeleteEnvironment`, `StandaloneCheckpoint`, `RegisterDekWraps`,
`DeleteDekWraps`, `PushVersion`, `RenameEnvironment`, `VariableMetaOp`,
`PutHeadAttestation`. A signed object is a record with the device that signed it and
the head it declares; a manifest's two possible contents are model values of `ManifestHashes`.

**RotationMandates** is what a client reads off a verified chain: which operations
were applied and when (`indexProposals` in `packages/core/src/audit.ts`, without
judging the consensus rules again), the mandates they leave (`rotationMandates`) and
which of them no rotation has discharged (`isPendingAt`). Nothing of it is stored.

**EnvRotation** is `maruhi env rotate` and the sweep for one environment. A machine's
`run` is the command in progress: open (resolve the journal from the chain), pull,
journal, send, wait, probe after a lost answer, push every stale value, pull again (the rescan),
report. A pull, the first one and the rescan alike, is `Fetch` on a chain read before, and
`Resync` if what was served is ahead of it; both are judged by `Verified`: the declared heads, the
epoch the manifest claims against the one the view has at its declared head
(`EpochExplained`), the baseline of the view (`Regressed`), the position of the checkpoint. A
pull refused as evidence ends in the phase `abort` (`Accuse`), and
`SettlePass` has the accusation that follows a claimed epoch conflict. A rescan after such a
claim reads the chain first (`ForceResync`). Requests on their way are a set from which the server takes them at any later
time, also when the command that sent them has given up. Others write values,
variables and entries in between; a crash may end a run at any step. The server is seen from
outside here (it takes a composite or refuses it whole); its insides are ProjectStore.
**Revocation** is its abstract specification: departures, a fence, ever fewer
exposed values, and claims that are made only when nothing is exposed.

**Floors** is the join of `floor.ts` with the conflicts it detects and the fold of
`floor-log-fold.ts`, over one environment with one variable. **FloorLog** is the file:
`Write`, `WriteShort` (a torn line, or a whole line without its newline, then the
payload again), `Compact` and the reads around it, by several processes without a
lock. **FloorStore** is what the commands rely on.

**PullVerification** composes chain, floor and distribution: a command syncs, loads
the floor, commits the head, fetches, verifies, syncs once more when the answer is
ahead of its view, compares with the floor it loaded and commits. Members
push, rotate, attest, delete the variable and delete the environment in between. The server answers truthfully, or at most `MaxLies` times with an
old distribution, a forged value or manifest of a colluding member, without its enumeration, or with a shortened chain. It uses
the atomic store that FloorLog is shown to implement. Values and manifests keep what the checks tell apart: version, epoch, hash and declared head.

**CliSignIn** is the CLI sign-in: `Start`, the arrival of the browser (`Admit`,
`Match`), `Decide`, the poll (`Poll`, `Find`, `Consume`) and the issuance of the token
(`Rotate`, `Create`, `RotateAgain`), and the revocation of tokens. A D1 batch is one
step, and every step of a request may be the last (`End`). A request compares with a
time it read before its batch (`RecentTimes`).

**Invitations** composes the chain with the invitation rows of D1. The server's side is
requests of two or three steps: check, conditional batch with its audit row (`Insert`,
`AcceptCas`, `RevokeCas`), and a second look when the batch changed nothing
(`ExplainAccept`, `ExplainRevoke`); `Reconcile` is the completion after an `add_member`,
whose failure the worker swallows (`SkipReconcile`). The client's side is `member add`: it
decides on the view it took (`StartAdd`), a person compares a fingerprint for any length of
time, and the entry or the proposal is accepted on the head it was signed on (`AppendAdd`,
`ProposeAdd`), refused (`RefuseAdd`) or met by a head conflict, after which the pre-checks
run again on the fresh view (`ConflictAdd`). Entries of others are steps of
MembershipChain (`OtherEntry`).

What the models leave out throughout: signatures and hashes (ideal), the order in
which several reasons to reject are reported, names, descriptions, schemas,
ciphertexts, byte quotas, predecessor hashes of values and statements (version numbers stand for
them), the audit log of the DO, lease policies, token scopes checked before the DO, and the answer
a stale writer gets (its entry is rejected and it signs anew).

Some definitions have a sibling just before them that no specification uses, marked
"Variant:" or named for the mistake (`AppendedUnprefixed`, `PurgedAtExpiry`, ...): a plausible mistake in the
definition that follows. Each property was seen to fail when the variant stands in
for the definition.

## 3. Runs

Deadlock is not checked in any run. A chain has a capacity (`MaxChainEntries`, after the server's
limit on entries), and writes, faults, fetches and time are bounded, so every
behaviour of an instance has an end that says nothing about the system.

| Run | Question | Bounds |
|---|---|---|
| `scopes` | Can a sequence of role, scope and device changes raise anyone above its author, reach outside the author's scope or disarm an admin? | an owner and two people who between them take every role, two environments created and deleted under them, two keys for capped second devices, 6 entries: an escalation in two hops needs an owner, two additions, a device and two changes |
| `four_eyes` | Can anything protected change without the quorum of present owners, can the quorum become unreachable? | three owners with a spare device, one non-owner, policies of 0, 2 and 3 votes, 8 entries, one pending proposal at a time (`OneProposal`): votes of different proposals do not meet, the verifier counts each by its own id |
| `history` | Does a key ever lead to two subjects? Does the index reproduce the state at each past seq? Do conflicting checkpoints stay visible? Are applied operations and mandates what the entries did, and is nobody's departure missed? | two kinds of chain, told apart by the founder's key (`OneSubject`): people, devices and a grant that compete for three key pairs over two environments with `change_role` under four eyes; or three epochs of one environment with two versions of two contents each. 7 entries: leave, come back with another key, prune or rotate while away |
| `access` | Do the tables agree with the chain, are DEKs sealed only within reach, does an attestation outlive its device? | again two kinds of chain: wraps of one environment over two epochs, with an owner and a person whose *id is the name of the key* `k2` that can be granted as a server key, all subsets of rows registered and deleted, 8 entries; or two owners with three devices, a removal under four eyes and at most two attestations, 7 entries |
| `contents` | Does what was accepted keep verifying? Is a manifest version ever attested twice, or a covered value rewritten? | two kinds of chain: two writers, one of whom leaves and returns, two epochs, one variable with two statements and two versions, every head a writer may have signed at; or two contents per manifest with checkpoints of any tuple. 6 entries |
| `second_stage` | Is the device check of the data routes redundant, as its comment says? (It is not, section 6.) | one person, one spare key registered with cap owner or reader |
| `rotation` | When is an honest server accused while two machines rotate against each other and against writers? Is the journal resolved one way only, is the floor true, does a re-encryption keep the text, does every run end, is every departure revoked in the end? | two instances (`InBounds`): two machines, one of which lacks the first DEK, one variable, one request of others, no faults; or one machine, two variables, one manual rotation besides the sweeps, one request of others, two faults (crash, lost answer, failed write). Every budget of the code reduced to 2 |
| `floor_log` | Does an acknowledged commit survive torn lines, crashes and compaction by another process? | two processes, four observations (two of which disagree), one intent, three commits, one fault, compaction after more than one record, two attempts to write |
| `pulls` | When is an honest server accused while chain, floor and distribution move under a pull? Is anything accepted that goes back? | two commands of one machine, three writes of others, one fetch each, one lie: two writes between the requests of one command, and one before, are what a stale locator, a shortened view and a moved baseline need |
| `pulls_manifest` | Does a refused manifest always prove something, as a comment says? (No, section 6.) | one command, no lies |
| `sign_in` | One flow, one token, for whoever approved; polls that are told the truth; tokens accounted for | two flows, two people, two names, two requests at a time, a limit of one token, a cap of two flows, lifetime and grace of one unit each, time to 3 |
| `invitations` | Do the limits on invitations hold under any overlap? Is every transition recorded once? Is an invitation completed by anything but its own keys? Does anything fail without a reason? | two instances: two invitations, two requests at a time, limits of one, a lifetime of three windows and time to 4, so that each limit alone holds an issue back; or one invitation, two admins who add, and 6 entries in which the person comes and goes, an admin is demoted, four-eyes is switched on and an addition completed under it, and the environment is deleted; two attempts to append |

Bounds named in the modules: `MaxChainEntries`, `Timestamps`
(values of `timestamp_ms` and `expires_at_ms`; one before and one after expiry where
expiry matters), `MaxMetaVersion`, `MaxValueVersion`, `MaxDevicesPerMember`,
`MaxPendingProposals`, `MaxProposalLifetime` (the server's limits, made small so that
they are reached); `MaxOther`, `MaxManual`, `MaxFaults` of EnvRotation; `MaxCommits`,
`MaxFaults` of FloorLog; `MaxWrites`, `MaxFetches`, `MaxLies` of PullVerification;
`MaxTime`, `MaxTickets` of CliSignIn; `MaxTime` of Invitations. Operations are enumerated from the set
`Operations` of each MC module.

Two runs use a `VIEW`. `contents` leaves out the server grants, the key indexes, the
policy and proposals, `applied`, `ballots`, wraps and attestations: in this run no
operation grants a key or sets a policy, the key indexes are a function of the devices,
and no request reads the others to write what the view keeps; nor do its properties.
`pulls` keeps of an ended command its outcome, and the past distributions while a lie
is still allowed, since nothing else is read again. Symmetry is used over commands,
processes, requests, flows, people and names, which occur in no fairness condition.

What the properties say, in the order of what they protect:

* *Identity*: `KeySubjectsUnique`, `PeopleMatchDevices`.
* *Authority*: `NoEscalation` (an entry that raises a device's rank somewhere is
  attributed to a device that had that rank there), `ChangesContained` (nobody's
  reach changes outside the author's scope), `AdminsShielded`.
* *Governance*: `GovernanceReachable`, `FourEyes` (at the moment of completion, as
  many *present* owners as required, by *present* devices, had signed as owners).
* *Forgetting*: `DeletedEnvironmentsForgotten`.
* *History*: `IndexAgrees` (members, devices and environments at every past seq),
  `EpochsAndCheckpointsOrdered`, `EquivocationEvident`.
* *Duties*: `AppliedDerivable`, `MandatesExact`, `LeaversPending` (whoever could open
  the current epoch and no longer may is behind a mandate that is still open).
* *Store*: `StoreMatchesChain` (which includes `SlotsUnique`), `SealedWithinReach`,
  `WrapsOfPresentTenure`, `AttestationsCurrent`, `ServedVerifies`,
  `NoEquivocation`, `CheckpointedValuesKept`.
* *Rotation*: `RevocationKept` (the refinement),
  `IntentsTruthful`, `FloorTrue`, `ReencryptionKeepsText`,
  `AccusedOnlyWhenOvertaken` (an abort with evidence against the honest server implies that a
  rotation, a checkpoint or the deletion landed behind the chain the command had read; section 6),
  `RunsEnd` and `DeparturesRevoked` (liveness).
* *Floors*: `FoldIsStore` (the refinement), `AcknowledgedSurvives`, `EvidenceKept`.
* *Pulls*: `AccusedOnlyInRaces` (an honest server is accused over a manifest when its answer
  is not of the same moment as the chain, over a checkpoint when the environment was deleted
  meanwhile, and over nothing else), `AcceptedAscends`.
* *Sign-in*: `TokensFollowApprovals`, `PollsTruthful`, `TokensAccounted`.
* *Invitations*: `IssuanceBounded`, `InvitationsAccounted`, `FailuresExplained`.

The refinements. `RevocationKept` maps the chain and the values of EnvRotation to four
facts: somebody left (`owed`), the epoch began after the last departure (`fenced`),
the variables whose current value an old DEK opens (`exposed`) and who reported the
departure as dealt with (`claimed`); a re-encryption, a composite and a write of another member are each
a step of Revocation or a stutter. `FoldIsStore` maps the file to its fold: an append is a
commit, a snapshot, a torn line or a rewrite of the same line is a stutter.

## 4. Fairness

Safety runs assume none: nobody is obliged to append anything. `FairSpec` of
EnvRotation has three conditions.

* `WF(Works(m))`: a command that neither waits for the server nor for the operator goes
  on. It is a sequential program, and a crash, which takes it out of that state, is a
  separate bounded action.
* `WF(Serves)`: the server takes some request that has reached it. Answers may still be
  lost (`TimeOut`), so the client is not promised one.
* `WF(Sweep(m))`: while a departure is not dealt with, the operator runs the sweep
  again, also after a run that ended with an accusation, which tells the operator not to. The
  code prints a standing warning for each open mandate and says so after
  each incomplete rotation (`warnUnconvergedMandates`); without an operator who
  heeds it nothing rotates, and no property says otherwise.

`RunsEnd` follows from the budgets of the code (`MAX_ATTEMPTS`,
`MAX_VALUES_CONFLICT_ATTEMPTS`, `MAX_REENCRYPT_PASSES`) and the first two;
`DeparturesRevoked` needs the third, and that faults, requests of others and manual rotations are
finite in number, as they are in every instance.

CliSignIn assumes that a poll takes at most `MaxPollTime` from the check of its token
to the lookup of its row, and that this is within `CLI_FLOW_DELETE_GRACE_MS` (five minutes; a
Worker request ends far earlier); the proofs assume the same of `MaxLag`, the age of a clock
reading. These are assumptions about time, stated as ones on the constants; `PollsTruthful`
holds, and is proved, under them only.

## 5. Theorems

Proved with TLAPS for every value of the constants that satisfies the assumptions of the
modules: any number of people, keys, environments, entries, machines, requests and faults.
The assumptions: on the chain `OperationsAssumption` (operations are well-formed, as
`checkPayloadShape` demands), `GenesisAssumption`, `TimestampsAssumption` and
`CapacityAssumption`; on the rest, that limits, lifetimes and budgets are natural numbers,
and one that carries an argument: `SignInAssumption` has `MaxPollTime` and the age of a
clock reading (`MaxLag`) within `CLI_FLOW_DELETE_GRACE` (five minutes, `cli-flows.ts:41`;
were a request slower, a purged flow could be admitted and decided a second time).

| Theorem | States |
|---|---|
| `ChainProofs!TypeCorrect` | `Spec => []TypeOK` |
| `ChainProofs!KeysUnique` | `Spec => []KeySubjectsUnique` |
| `ChainProofs!EveryMemberSigns` | `Spec => []PeopleMatchDevices` |
| `ChainProofs!DeletionForgets` | `Spec => []DeletedEnvironmentsForgotten` |
| `ChainProofs!ChainOrderKept` | `Spec => []EpochsAndCheckpointsOrdered` |
| `ChainProofs!GovernanceNeverLocksOut` | `Spec => []GovernanceReachable` |
| `ChainProofs!PrivilegesNeverEscalate` | `Spec => NoEscalation` |
| `ChainProofs!ChangesStayInScope` | `Spec => ChangesContained` |
| `ChainProofs!AdminsAreShielded` | `Spec => AdminsShielded` |
| `ChainProofs!FourEyesHold` | `Spec => FourEyes` |
| `ChainProofs!EquivocationIsEvident` | `HistorySpec => []EquivocationEvident` |
| `ChainProofs!TimeTravelIsExact` | `HistorySpec => []IndexAgrees` |
| `MandateProofs!AppliedIsDerivable` | `MandatesSpec => []AppliedDerivable` |
| `MandateProofs!MandatesAreExact` | `MandatesSpec => []MandatesExact` |
| `MandateProofs!NoDepartureIsMissed` | `MandatesSpec => []LeaversPending` |
| `StoreProofs!TablesMatchChain` | `StoreSpec => []StoreMatchesChain` |
| `StoreProofs!RotationCutsOff` | `StoreSpec => []SealedWithinReach` |
| `StoreProofs!ReturningStartsAfresh` | `StoreSpec => []WrapsOfPresentTenure` |
| `StoreProofs!AttestationsHold` | `StoreSpec => []AttestationsCurrent` |
| `StoreProofs!ServerNeverEquivocates` | `StoreSpec => []NoEquivocation` |
| `StoreProofs!StoredStaysVerifiable` | `StoreSpec => []ServedVerifies` |
| `StoreProofs!CheckpointsAreKept` | `StoreSpec => []CheckpointedValuesKept` |
| `RotationProofs!RotationRefinesRevocation` | `Spec => RevocationKept`, the refinement |
| `RotationProofs!JournalIsTruthful` | `Spec => []IntentsTruthful` |
| `RotationProofs!FloorIsTrue` | `Spec => []FloorTrue` |
| `RotationProofs!TextsAreKept` | `Spec => []ReencryptionKeepsText` |
| `RotationProofs!AccusationsHaveARace` | `Spec => []AccusedOnlyWhenOvertaken` |
| `FloorProofs!LogRefinesStore` | `Spec => FoldIsStore`, the refinement |
| `FloorProofs!EvidenceIsKept` | `Spec => EvidenceKept` |
| `FloorProofs!AcknowledgedNeverLost` | `Spec => []AcknowledgedSurvives` |
| `PullProofs!HonestServersAreAccusedOnlyInRaces` | `Spec => AccusedOnlyInRaces` |
| `PullProofs!AcceptanceAscends` | `Spec => AcceptedAscends` |
| `PullProofs!CommandsAreSound` | `Spec => []Invariant`, what commands hold and what the store is |
| `SignInProofs!PollsAreTruthful` | `Spec => []PollsTruthful` |
| `SignInProofs!TokensAreApproved` | `Spec => []TokensFollowApprovals` |
| `SignInProofs!TokensAreAccounted` | `Spec => []TokensAccounted` |
| `InvitationProofs!InvitationsAreAccounted` | `InvitationsSpec => []InvitationsAccounted` |
| `InvitationProofs!IssuanceStaysBounded` | `InvitationsSpec => []IssuanceBounded` |
| `InvitationProofs!FailuresAreExplained` | `InvitationsSpec => []FailuresExplained` |

### The chain

`TypeOK` alone is not inductive: that the inner operation of a completed proposal can be
judged needs its proposer to be a member, which follows from `PeopleMatchDevices`, so
`TypeInvariant` is both. `KeySubjectsUnique` with `PeopleMatchDevices` is `KeyInvariant`:
revoking a device may clear its two index entries only because no other device shares
them. `DeletedEnvironmentsForgotten` follows once scopes are known to name created
environments only. `EpochsAndCheckpointsOrdered` speaks of the head of now;
`OrderInvariant` states each environment's part with the head as a parameter, so that
what is in order up to one entry is in order up to the next (`LaterBound`).
`GovernanceReachable` is strengthened by the finiteness of the set of members, which the
induction carries along (one member in `Init`, one more per entry at most); the cases are
an owner gained, an owner lost under the quorum rule, and owners kept.

The action properties use the type and key invariants of the state before the step, and
after it. `NoEscalation`, `ChangesContained` and `AdminsShielded` split by operation, after
lemmas on what the scope algebra denotes (`IntersectDenotes`, `UnionDenotes`, ...), on
ranks (`CapRank`, the rank a role, a scope and a cap give) and on what each role rule
leaves to its author (`ActorRank`, `GrantedRoleBelow`). Completion of a proposal is reduced
to the operation it carries, judged again for its proposer, which is the reason the code
repeats the checks at completion. `FourEyes` needs `SignaturesBallotted`: every signature
kept with a proposal was cast by somebody who was an owner then. What completion counts
are signatures of present devices of present owners, so each of them is a ballot.

### History and mandates

`EquivocationEvident` compares a table with a set that only grows; `EvidenceInvariant` says
for each coordinate whether the tuples carried so far agree, and what is recorded then. The
earliest of them exists because seqs are numbers with a least element.

`IndexAgrees` is about every past seq. `IndexInvariant` is what one more entry can keep:
`SnapshotInvariant` (the last snapshot is the state of now), `EnvironmentIndex` and
`PeopleIndexed` (the records are well ordered, the last tenure is open exactly for members,
and an open record shows the state of now), and `PastAgrees` (the answers about every
earlier seq are those of the snapshots). A step then has two duties: the records show the
new state, and no answer about an earlier seq changes (`PersonPastKept`,
`EnvironmentPastKept`). The second one is where the half-open intervals matter: what a
change closes or prunes lies at or after the new seq.

Mandates are read off entries without judging rules. `EntryInvariant` says that a proposal
is pending, withdrawn or completed and that the entries which name it say which;
`EffectInvariant` says that each effect applied to the state before it (`AppliesTo`), which
makes the client's reconstruction of the people and devices concerned exact.
`LeaversInvariant` strengthens `LeaversPending` from the state of now to every seq since the
epoch began: recipients of then are recipients of now, or an entry since then took
them away and its loss names the environment. A rotation begins a new epoch and empties
the interval.

### The store

`StoreChain` is everything proved of chain and history. A composite request appends two
entries at once, so it is not a step of ChainHistory: it is treated as one begun epoch
(`Begins`) followed by a checkpoint at the next seq (`PairStep`). `RequestCases` splits a
request into a pair, a plain entry with its side effects, or a write of rows.
`StoreInvariant` adds `RowInvariant` (rows, manifests and snapshots of the live
environments, tombstones of the others) and the invariant of the wrap table. From it the
index answers truthfully (`Known`), and while the chain only grows (`Grown`) no answer
about the past changes (`PastKept`). Hence a signature that verified once verifies ever
after, which gives `ValueInvariant` and, with the digest of what is stored,
`ManifestInvariant`. `TupleInvariant` gives `NoEquivocation`: an attested tuple names a
version already stored, and the tuple of the stored version says what is stored; a new
manifest has the next version, which nobody has attested. `CoverInvariant` says of every
snapshot that versions are appended and never rewritten. `AttestInvariant` needs that
whatever takes a device off the chain also ends its attestation, `KeysRecorded` that the
present tenure of a member has registered the keys of the devices of now, which the wraps of the
member are sealed to.

### The rotation

The refinement `RevocationKept` is proved by cases (`StepRefines`): an entry by which
nobody leaves keeps what is owed or fences it (`NobodyLeaves`), one by which somebody leaves
raises it (`SomebodyLeaves`), a report claims only what is safe (`ClaimedMoves`). The
last one needs the invariant `Promise`: what a run in progress believes of the chain
(its baseline is a departure, the epoch it checks or seals under began after it, and at the
report no value is sealed under an older one) is true of the chain of now, although others
rotated and wrote since it looked. `Shapes` holds what both rest on: a view is a prefix of the
chain, a re-encryption on its way repeats the version before it (`ReencryptionKeepsText`), and a run
whose value is refused for its epoch seals under an epoch that is over. After such a refusal
`ForceResync` gives the run a view that shows it, so the rescan finds another epoch and
does not accuse. What is left of `AccusedOnlyWhenOvertaken` is a pull refused as evidence. At the fetch (`AccusedAtFetch`)
the manifest served is the newest, and only a rotation's manifest can be of an epoch the view does not explain: its
rotation is the entry after the view. At the second look (`AccusedAtResync`) the invariant remembers that up to
the first view nothing had come after the checkpoint served (`Settled`), so whatever is behind
the refusal came after it. An abort keeps the view it was fetched on, and chains only grow.

`Journalled` is the life of a data key. A key is made for one run and one epoch; it
is on the chain at most after the head the run signed at, at most one request carries it,
and every intent that names it is of the same attempt. It follows that an intent once
settled stays true when a request that was given up on arrives late, and that the floor
records the manifest the server accepted (`FloorTrue`).

### The floor log

A reader folds from the latest snapshot on. `FoldInvariant` compares that with the *true*
fold, of all records from the first one: there is a sequence of its states such that every
snapshot in the file, and every one a process is about to write, holds the true fold of
the prefix it names. So a reader gets the last state of the true fold whichever
snapshot it starts at (`ReadersFold`), and a snapshot of an older prefix that lands late changes nothing.
One line more extends the true fold by one application (`FoldGoesOn`), which is `FoldIsStore`
and `EvidenceKept`. `AcknowledgedSurvives` is inductive when it is said of every commit in
the file instead of the acknowledged ones (`SurvivalInvariant`), and needs two laws of the join:
a floor has what it joined in (`FloorAbsorbs`), and what it has it keeps (`FloorKeeps`). They
hold for the floor's shapes, which `FloorLogAssumption` asks of observations.

### Pulls

Of the server (`ServerInvariant`): what it served before is related to what it serves now by
`Later`, so any two of its distributions are compatible (`Recorded`), and what it serves is
attested by the last checkpoint of the chain (`Attested`). Each of the five writes keeps that.

Of a server that lies (`FloorInvariant`): whatever it answers with, somebody signed it, an honest
member or a colluding one (`Genuine...`). Evidence of that kind is determined by version and hash, so
floors that join without a conflict are ordered (`FollowsFloor`), and the check against a floor
lets through only what follows it. The store without a conflict is the join of what was
accepted, but for the head of the chain, which is committed first; a command's floor lies
between what it was promised and that. `AcceptedAscends` follows. Its last clause speaks
of a value that nobody had accepted. One that was accepted may be accepted again under an
epoch below the baseline: against a server that holds back the end of the chain between a
rotation and its checkpoint, a command that loaded its floor before the baseline rose may
still accept a colluding member's value of the old epoch; a command that began after the baseline
rose, but loads its floor only then, finds the value there, and `StaleEpoch` speaks of
versions newer than the floor's only. It takes three commands, more than the run has.

Of a server that has not lied (`HonestInvariant`, which says nothing once `lies > 0`): every
floor is below what the server serves (`FloorBelow`), a view ends in a checkpoint or the deletion, and a
fetched response is an attested one that the floor it is compared with is below. Later
writes keep that because a value pushed since was encrypted under no earlier epoch (`EpochsOfValues`); joins
keep it because evidence that no colluding member signed never disagrees
(`UncolludedAgree`). Then each accusation but two is excluded (`AnswerIsNoEvidence`,
`NoFloorViolated`, `TrueSync`), and the two are shown to come of their race:
a response that comes with the latest checkpoint of a view in which the environment lives is not refused over its manifest
(`ManifestOfOneMoment`), and one judged in a view in which it lives is not refused over its checkpoint. The case that needs `locatorOutcome` is a response whose
enumeration is of an earlier checkpoint than the view's: the view moved after the fetch, so
the answer is "retriable".

### Sign-in and invitations

Three invariants, one per theorem. `PollInvariant`: a decided flow keeps its row until the
grace is over, and a poll in progress began before the expiry and not long ago.
`ApprovalInvariant`: an approval is held by the row, by one request that has consumed it, or by one
token (`OneSpender`), and no login is on record before the decision. `AccountInvariant`: ids are drawn in
order, each id ever issued has one creation in the audit log, and each id that is gone
without a revocation one replacement.

Every step of Invitations is an entry of the chain or leaves the chain alone.
`RowInvariant` says what a status implies of a row's acceptance; `InvitationsAccounted` is inductive with it.
`IssuanceBounded` speaks of the window that ends now; `IssuanceInvariant` bounds *every*
window, past ones included, which is what a conditional insert preserves.
`RunInvariant` says of `member add` that as long as the head is the one it signed on, the entry would be accepted, and of a refused
run that its scope names a deleted environment, which it never stops doing.

### Only model-checked

* `RunsEnd` and `DeparturesRevoked`: liveness under fairness and `ENABLED` are beyond the
  prover.

Induction over data is limited: the library's induction theorems take an operator as a parameter, which the
installed provers cannot instantiate. An argument by a least counterexample replaces
it where a set of numbers or finite sets will do (`FS_WellFounded...` and `WFMin` of the library,
used in ChainProofs, RotationProofs and FloorProofs; the existence of a function defined by
recursion over positions is proved this way). RotationProofs, SignInProofs and the
others state facts about one step and leave the induction over behaviours to temporal
logic. No module that is proved about has a `RECURSIVE` operator.

## 6. Where a comment and the code disagree

**The second stage of the data routes.** `apps/server/src/data/data-guards.ts:163` says of the value, statement and manifest
routes that "a device cap is immutable and the person's role is bounded by the first
stage, so no request passes the declared-head check and fails here". A cap is immutable
within one registration. A revoked key may be registered again with another cap
(`chain-verify.ts:639` reads the indexes of the current devices, `chain-verify.ts:627`
frees the key). A value that declares a head of the first registration is judged there with
the old cap and is refused by the second stage alone. The run `second_stage` shows
the six entries. The code is right to keep the check; the comment understates it.

**The manifest stage of a pull.** `apps/cli/src/values.ts:154` says that a manifest
refusal is "a contradiction between signed distributed data = evidence" and that "there is no honest
breaking mode at this stage". In `pulls_manifest` a command syncs the chain, a member rotates,
and the command fetches. The manifest of the new epoch declares the head *before* the
rotation, so it is not ahead of the view and no second sync follows; its epoch is not that of the
view at this head, and `epochIntegrityReason` (*crypto* `manifest-verify.ts:182`) refuses it.
The user is told of evidence against an honest server. `locatorOutcome`
(`checkpoint-integrity.ts:131`) knows the same race and answers that a second pull can
resolve it. A checkpoint that lands between the fetch and the second sync has the same effect through
`checkpointIntegrityReason`, and so has the deletion of the environment in that window, through `noBaselineOutcome`
(`checkpoint-integrity.ts:96`): the view has dropped the checkpoint that the response enumerates.
`AccusedOnlyInRaces` states that these are the only ways to accuse a server that has not lied.

In a rotation this has a consequence. The rescan after a pass pulls on the view the rotation
was accepted at, unless an epoch conflict was claimed. If another machine rotates before that fetch, the pull is refused as
evidence, and `settlePass` (`env-rotate-pass.ts:371`) does not report an unverified pass but
aborts: "This is evidence that re-running will not resolve — investigate the server's
responses". The server is honest, and running again does resolve it: the next run reads the chain of
then, which is how `DeparturesRevoked` holds all the same. EnvRotation has this branch (`Accuse`), and `AccusedOnlyWhenOvertaken` says that
it is taken in no other circumstances. That the comparison of epochs in `rescanEnvironment` (lines 335 to
341) is meant to catch "a concurrent rotation by another member" shows what was
intended; the pull before it is refused first.

Smaller observations that no run states:

* `db.package/tokens.ts:187` takes a failed third batch for the limit. When a token of the
  same name appears before the second batch and is revoked before the third, issuance is refused
  as over the limit with room to spare. CliSignIn has this behaviour
  (`RotateAgain` answers "token limit"), and `TokensAccounted` holds with it.
* The header of `floor-log.ts` (lines 8 to 11) says that disagreeing observations of two processes surface as
  a conflict at fold time. They do when they are folded next to each other; when a later version of
  the coordinate lies between them the join has moved on (`floor.ts:467`) and shows
  none. `EvidenceKept` is the part that holds: a conflict once shown stays.
* After an accepted append `member add` syncs again and, when the new member is not on the
  chain, says that "the server's response contradicts the chain" (`member-add.ts:644`). A concurrent
  removal between the two has the same effect.
* `completeAccepted` (`db.package/invites.ts:505`) completes every accepted row with the keys of the new
  member, whatever role and scope it offers: two accepted invitations of one person are both
  completed by one addition. Invitations has this behaviour.

## 7. Not modelled, and why

Primitives and encodings (assumed ideal), request decoding, single-row D1 queries, quotas and
alerts (numbers around the operations, no protocol state), streaming of
snapshots, command parsing and prompts, connectors to third-party services,
proxy, agent and keychain (I/O of the client's machine), the web dashboard and packaging. They are
most of the lines of the repository, which is why the modules cover a small share of it.
Parts that do carry protocol and are still to be modelled are in the plan.

In the DO: the audit log (and with it the audit head in a checkpoint and rotation
detection), the derived-state cache, quotas, the parent-head answer and the live feed.

In the client: the retry of a plain chain append outside `member add`, backfill of wraps, pins and gossip of head attestations, forked chains in a pull
(PullVerification has one chain of which a server may serve a prefix; forks are
ruled out by the prefix check on entry hashes), the intents a pull of metadata resolves, and in
EnvRotation the floor check of a rescan and the comparison of a conflict's winner with what was known (`reconcileKnown`).
That `retryOnConflict` stops after its attempts is a constant of the loop in Invitations (`MAX_APPEND_ATTEMPTS`); no property asserts it.

Of the accounts: web sessions, identities, the row of the flow-signing key, rate limits. Of the
invitations: the invitee's side of a link (pins, fingerprints), and the listing of what
cannot be verified. Key wraps have the same form (conditional statements in batches with
their audit row) and come next.

## 8. Plan

Done: the modules of section 2, their runs, and the proofs of section 5.

Models, in this order:

1. **KeyWraps**: the D1 repository of the account keys, one step per batch, on the pattern of CliSignIn.
2. **ChainAppend**: clients with a view, the parent-head comparison of the DO, the
   derived-state cache with its invalidation, lost answers and retries
   (`chain-append.ts`, `chain-store.ts`), implementing MembershipChain: each accepted entry
   is one step of it, everything else stutters.
3. **Lease** and **JwksCache**: the fetch in flight, cooldowns, the grant in force.
4. Audit heads in checkpoints, rotation proposals, mirrors; the key ledger.

Proofs: what the models above add; every safety property of the runs is proved.
