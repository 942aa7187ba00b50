-------------------------- MODULE PullVerification --------------------------
(***************************************************************************)
(* Commands of one machine that pull an environment while its chain, its   *)
(* manifest and its variable move on, or it is deleted                     *)
(* (apps/cli/src/context.ts, values.ts, manifest.ts,                       *)
(* checkpoint-integrity.ts, floor-check.ts, values-floor.ts).              *)
(*                                                                         *)
(* A command syncs the chain, loads the floor, commits the head, fetches   *)
(* a distribution, verifies it against its view, syncs once more when the  *)
(* distribution is ahead of that view, checks it against the floor and     *)
(* commits what it saw.  Every one of these is a request of its own, so    *)
(* what it compares was true at different moments.                         *)
(*                                                                         *)
(* The server is honest until it lies: it may then serve an earlier        *)
(* distribution, or one that a colluding member signed: another content    *)
(* for a version, or a later version under an old epoch, or it may hold    *)
(* back the end of the chain or a checkpoint's enumeration.                *)
(*                                                                         *)
(* The floor log is the store FloorLog shows it to be: commits are joined  *)
(* at once.  A view is the number of entries of the one chain; forked      *)
(* chains are left to the chain verification.                              *)
(***************************************************************************)
EXTENDS Floors

CONSTANTS
    Commands,     \* commands, each run once
    MaxWrites,    \* bound: writes of other members
    MaxFetches,   \* bound: distributions one command fetches
    MaxLies       \* bound: answers of the server that are not true

ASSUME PullAssumption == MaxWrites \in Nat /\ MaxFetches \in Nat /\ MaxLies \in Nat

VARIABLES
    chain,          \* the server's chain, entries of the environment told apart
    distribution,   \* what an honest server serves now
    past,           \* the distributions it served before each write
    store,          \* the floor of the machine
    accepted,       \* the join of the distributions that commands have accepted
    command,        \* what each command is doing
    lies            \* how often the server has departed from the truth

serverVars == <<chain, distribution, past>>
vars == <<chain, distribution, past, store, accepted, command, lies>>

(***************************************************************************)
(* The chain up to a view.                                                 *)
(***************************************************************************)

Entry(op) == [op |-> op]
CheckpointEntry(manifest, value) ==
    [op |-> "checkpoint", manifest |-> manifest, value |-> value]

IsCheckpoint(i) == chain[i].op = "checkpoint"

LiveAt(view) == \A i \in 1 .. view : chain[i].op # "delete"

EpochAt(view) == Cardinality({i \in 1 .. view : chain[i].op \in {"create", "rotate"}})

CheckpointsAt(view) == {i \in 1 .. view : IsCheckpoint(i)}

LatestCheckpoint(view) == CHOOSE i \in CheckpointsAt(view) : \A j \in CheckpointsAt(view) : j <= i

(* The checkpoints of the view that attest the manifest of this version. *)
TuplesFor(view, version) == {i \in CheckpointsAt(view) : chain[i].manifest.version = version}

(***************************************************************************)
(* The server and the other members.  A manifest declares the head it was  *)
(* signed at; that of a rotation declares the head before the rotation.    *)
(***************************************************************************)

Manifest(version, epoch, head) ==
    [version |-> version, epoch |-> epoch, hash |-> 1, prev |-> 1, head |-> head]

NoValue == [version |-> 0, epoch |-> 0, hash |-> 0, head |-> 0]

Now == Len(chain)

Evidence(signed) == [version |-> signed.version, epoch |-> signed.epoch, hash |-> signed.hash]
Enumerated(value) == [version |-> value.version, hash |-> value.hash]

Nothing == [status |-> "none"]

NewCommand ==
    [phase |-> "new", view |-> 0, current |-> BottomFloor, promised |-> BottomFloor,
     fetches |-> 0, kind |-> "none", response |-> Nothing, fetchedAt |-> 0, resynced |-> FALSE,
     reason |-> "none"]

(* The environment is created with its first checkpoint; its variable is    *)
(* declared, or it has its first value.                                     *)
Init ==
    LET first == Manifest(1, 1, 0) IN
    /\ chain = <<Entry("create"), CheckpointEntry(Evidence(first), Enumerated(NoValue))>>
    /\ \E value \in {NoValue, [version |-> 1, epoch |-> 1, hash |-> 1, head |-> 2]} :
          distribution =
             [status |-> IF value = NoValue THEN "declared" ELSE "active",
              meta |-> [version |-> 1, hash |-> 1], value |-> value,
              manifest |-> Manifest(2, 1, 2),
              snapshot |-> [seq |-> 2, value |-> Enumerated(NoValue)]]
    /\ past = <<>>
    /\ store = EmptyFold
    /\ accepted = BottomFloor
    /\ command = [c \in Commands |-> NewCommand]
    /\ lies = 0

(* Nothing is written to an environment that is deleted. *)
Write(newChain, newDistribution) ==
    /\ Len(past) < MaxWrites
    /\ LiveAt(Now)
    /\ past' = Append(past, distribution)
    /\ chain' = newChain
    /\ distribution' = newDistribution
    /\ UNCHANGED <<store, accepted, command, lies>>

NextManifest == Manifest(distribution.manifest.version + 1, EpochAt(Now), Now)

NextValue ==
    [version |-> distribution.value.version + 1, epoch |-> EpochAt(Now), hash |-> 1, head |-> Now]

NextMeta == [version |-> distribution.meta.version + 1, hash |-> 1]

PushValue ==
    /\ distribution.status = "active"
    /\ Write(chain, [distribution EXCEPT !.value = NextValue])

(* The first value comes with an active statement and the next manifest. *)
Activate ==
    /\ distribution.status = "declared"
    /\ Write(chain, [distribution EXCEPT !.status = "active", !.value = NextValue,
                                         !.meta = NextMeta, !.manifest = NextManifest])

DeleteVariable ==
    /\ distribution.status # "deleted"
    /\ Write(chain, [distribution EXCEPT !.status = "deleted", !.value = NoValue,
                                         !.meta = NextMeta, !.manifest = NextManifest])

(* A rotation and its boundary checkpoint are appended together, with the *)
(* manifest of the new epoch; values are encrypted again by later pushes.  *)
Rotate ==
    LET manifest == [NextManifest EXCEPT !.epoch = @ + 1] IN
    Write(chain \o <<Entry("rotate"),
                     CheckpointEntry(Evidence(manifest), Enumerated(distribution.value))>>,
          [distribution EXCEPT !.manifest = manifest,
                !.snapshot = [seq |-> Now + 2, value |-> Enumerated(distribution.value)]])

(* An unchanged environment is not attested again. *)
Checkpoint ==
    LET latest == chain[LatestCheckpoint(Now)]
        new    == CheckpointEntry(Evidence(distribution.manifest), Enumerated(distribution.value))
    IN  /\ latest # new
        /\ Write(Append(chain, new),
                 [distribution EXCEPT
                    !.snapshot = [seq |-> Now + 1, value |-> Enumerated(distribution.value)]])

(* What was served last is a lie from now on. *)
DeleteEnvironment == Write(Append(chain, Entry("delete")), distribution)

OldHead(epoch) == CHOOSE n \in 1 .. Now : EpochAt(n) = epoch /\ (n = Now \/ EpochAt(n + 1) > epoch)

(* What a lying server serves: what it served before, no enumeration, or   *)
(* what a colluding member signed: other content for the latest version,    *)
(* or the next version under an epoch that a rotation ended.                *)
OldEpochs == 1 .. EpochAt(Now) - 1

Forged(version, epoch, head) ==
    [version |-> version, epoch |-> epoch, hash |-> 1 + epoch, head |-> head]

ForgedValues(value) ==
    {Forged(value.version, value.epoch, value.head)}
      \cup {Forged(value.version + 1, e, OldHead(e)) : e \in OldEpochs}

ForgedManifests(manifest) ==
    {[Manifest(manifest.version + 1, e, OldHead(e)) EXCEPT !.hash = 1 + e] : e \in OldEpochs}

Lies ==
    {past[i] : i \in DOMAIN past}
      \cup {[distribution EXCEPT !.snapshot.seq = 0]}
      \cup (IF distribution.status = "active"
            THEN {[distribution EXCEPT !.value = v] : v \in ForgedValues(distribution.value)}
            ELSE {})
      \cup {[distribution EXCEPT !.manifest = m] : m \in ForgedManifests(distribution.manifest)}

(***************************************************************************)
(* Verification of a distribution against a view.  An outcome is "ok",     *)
(* "future" (sync once more), "retriable", or a refusal with evidence.     *)
(***************************************************************************)

(* Of the outcomes of the stages, in their order, the first that is not "ok". *)
FirstOf(a, b) == IF a = "ok" THEN b ELSE a

ValueOutcome(view, d) ==
    CASE d.status # "active"                        -> "ok"
      [] d.status = "active" /\ d.value.head > view -> "future"
      [] d.status = "active" /\ d.value.head <= view ->
            IF EpochAt(d.value.head) = d.value.epoch THEN "ok" ELSE "value-refused"

(* The floor's manifest is the predecessor when it is the version just before. *)
BreaksManifestChain(manifest, known) ==
    /\ known.version > 0
    /\ manifest.version = known.version + 1
    /\ manifest.prev # known.hash \/ manifest.epoch < known.epoch

(* A version the view attests must be the one attested; any other must have *)
(* been signed under the epoch of its declared head.                        *)
EpochIntegrity(view, manifest) ==
    LET tuples == TuplesFor(view, manifest.version)
    IN  IF tuples # {}
        THEN \A i \in tuples : chain[i].manifest = Evidence(manifest)
        ELSE EpochAt(manifest.head) = manifest.epoch

(* A deleted environment has no baseline. *)
BelowCheckpoint(view, manifest) ==
    /\ LiveAt(view)
    /\ LET baseline == chain[LatestCheckpoint(view)].manifest
       IN  manifest.version < baseline.version \/ manifest.epoch < baseline.epoch

ManifestOutcome(view, manifest, known) ==
    IF manifest.head > view
    THEN "future"
    ELSE IF \/ BreaksManifestChain(manifest, known)
            \/ ~ EpochIntegrity(view, manifest)
            \/ BelowCheckpoint(view, manifest)
         THEN "manifest-refused"
         ELSE "ok"

(* One served value against what the baseline enumerates for it. *)
ContradictsCheckpoint(d, entry, baselineEpoch) ==
    IF d.status = "active"
    THEN \/ d.value.version < entry.version
         \/ d.value.version = entry.version /\ d.value.hash # entry.hash
         \/ d.value.version > entry.version /\ d.value.epoch < baselineEpoch
    ELSE entry.version > 0 /\ d.status # "deleted"

LocatorWithoutRace(snapshotSeq, baseline, fetchedAt) == "checkpoint-refused"

(* An enumeration of an earlier checkpoint, or none, can be explained when *)
(* the baseline is newer than the view the distribution was fetched under. *)
StaleLocator(snapshotSeq, baseline, fetchedAt) ==
    IF snapshotSeq < baseline /\ baseline > fetchedAt THEN "retriable" ELSE "checkpoint-refused"

(* Without a baseline, an enumeration is taken for a fabrication. *)
UnattestedOutcome(view, d) ==
    CASE d.snapshot.seq = 0           -> "ok"
      [] d.snapshot.seq > view        -> "future"
      [] d.snapshot.seq \in 1 .. view -> "checkpoint-refused"

AttestedOutcome(view, fetchedAt, d) ==
    LET baseline == LatestCheckpoint(view)
    IN  CASE d.snapshot.seq > view -> "future"
          [] d.snapshot.seq <= view /\ d.snapshot.seq # baseline ->
                StaleLocator(d.snapshot.seq, baseline, fetchedAt)
          [] d.snapshot.seq = baseline ->
                IF \/ d.snapshot.value # chain[baseline].value
                   \/ ContradictsCheckpoint(d, d.snapshot.value, chain[baseline].manifest.epoch)
                THEN "checkpoint-refused"
                ELSE "ok"

CheckpointOutcome(view, fetchedAt, d) ==
    IF LiveAt(view) THEN AttestedOutcome(view, fetchedAt, d) ELSE UnattestedOutcome(view, d)

Outcome(c) ==
    LET d == command[c].response
        v == command[c].view
        manifest == ManifestOutcome(v, d.manifest, command[c].current.manifest)
    IN  IF command[c].kind = "values"
        THEN FirstOf(ValueOutcome(v, d),
                     FirstOf(manifest, CheckpointOutcome(v, command[c].fetchedAt, d)))
        ELSE manifest

(***************************************************************************)
(* The floor check of a verified distribution: rules (a) no rollback, (b)  *)
(* one content per version, (c) nothing newer under an epoch below the     *)
(* baseline.                                                               *)
(***************************************************************************)

MetaViolated(floor, served) ==
    \/ served.version < floor.version
    \/ served.version = floor.version /\ served.hash # floor.hash

ValueOrderOnly(floor, served) ==
    \/ served.version = floor.version /\ served.hash # floor.hash
    \/ served.version > floor.version /\ served.epoch < floor.epoch

ValueViolated(floor, served) ==
    \/ served.version < floor.version
    \/ served.version = floor.version /\ served.hash # floor.hash
    \/ served.version > floor.version /\ served.epoch < floor.epoch

(* A metadata-only pull carries statements and no values. *)
ActiveViolated(floor, d, kind) ==
    CASE d.status = "active" ->
            MetaViolated(floor.meta, d.meta) \/ (kind = "values" /\ ValueViolated(floor.value, d.value))
      [] d.status = "deleted"  -> MetaViolated(floor.meta, d.meta)
      [] d.status = "declared" -> IF kind = "values" THEN TRUE ELSE MetaViolated(floor.meta, d.meta)

VariableViolated(floor, d, kind) ==
    CASE floor.status = "unseen"   -> FALSE
      [] floor.status = "declared" -> MetaViolated(floor.meta, d.meta)
      [] floor.status = "deleted"  -> d.status # "deleted" \/ d.meta # floor.meta
      [] floor.status = "active"   -> ActiveViolated(floor, d, kind)

ManifestBaseline(floor) ==
    MaxOf(MaxOf(floor.pullEpoch, floor.observedEpoch), floor.manifest.epoch)

ManifestViolated(floor, served) ==
    \/ floor.manifest.version > 0 /\ MetaViolated(floor.manifest, served)
    \/ served.version > floor.manifest.version /\ served.epoch < ManifestBaseline(floor)

(* A variable the floor has no value of counts as version 0. *)
StaleEpoch(floor, d) ==
    /\ d.status = "active"
    /\ d.value.version > (IF floor.variable.status = "active" THEN floor.variable.value.version ELSE 0)
    /\ d.value.epoch < floor.pullEpoch

FloorViolated(floor, d, kind) ==
    \/ VariableViolated(floor.variable, d, kind)
    \/ ManifestViolated(floor, d.manifest)
    \/ kind = "values" /\ StaleEpoch(floor, d)

(***************************************************************************)
(* Commands.                                                               *)
(***************************************************************************)

Become(c, state) == command' = [command EXCEPT ![c] = state]

Refuse(c, reason) == Become(c, [NewCommand EXCEPT !.phase = "refused", !.reason = reason])

(* An answer that is not true counts against the bound. *)
Answers(truthful) ==
    /\ truthful \/ lies < MaxLies
    /\ lies' = IF truthful THEN lies ELSE lies + 1

(* A sync yields the whole chain, or a prefix of it from a server that lies. *)
Synced(c, view) ==
    /\ view \in 2 .. Now
    /\ Answers(view = Now)
    /\ UNCHANGED serverVars

Sync(c, view) ==
    /\ command[c].phase = "new"
    /\ Synced(c, view)
    /\ Become(c, [command[c] EXCEPT !.phase = "synced", !.view = view, !.promised = accepted])
    /\ UNCHANGED <<store, accepted>>

(* A floor with a conflict is not used.  A head beyond the view may be that  *)
(* of a command that ran in between, so the chain is synced once more.       *)
LoadFloor(c) ==
    /\ command[c].phase = "synced"
    /\ IF store.conflicts # {}
       THEN Refuse(c, "conflict")
       ELSE Become(c, [command[c] EXCEPT
                !.phase = IF store.floor.head.version > command[c].view THEN "shortened" ELSE "checked",
                !.current = store.floor])
    /\ UNCHANGED <<serverVars, store, accepted, lies>>

ResyncShortened(c, view) ==
    /\ command[c].phase = "shortened"
    /\ Synced(c, view)
    /\ IF view < command[c].view \/ view < command[c].current.head.version
       THEN Refuse(c, "chain-shortened")
       ELSE Become(c, [command[c] EXCEPT !.phase = "checked", !.view = view])
    /\ UNCHANGED <<store, accepted>>

HeadAt(view) == [version |-> view, hash |-> 1]

(* The head is committed once every check of the chain has passed; the      *)
(* floor loaded before stays the one the command compares with.             *)
CommitHead(c) ==
    /\ command[c].phase = "checked"
    /\ store' = Applied(store, Observation([BottomFloor EXCEPT !.head = HeadAt(command[c].view)]))
    /\ IF store'.conflicts = {}
       THEN Become(c, [command[c] EXCEPT !.phase = "open"])
       ELSE Refuse(c, "conflict")
    /\ UNCHANGED <<serverVars, accepted, lies>>

Fetch(c, kind, response) ==
    /\ command[c].phase = "open"
    /\ command[c].fetches < MaxFetches
    /\ Become(c, [command[c] EXCEPT !.phase = "fetched", !.kind = kind, !.response = response,
                        !.fetchedAt = command[c].view, !.resynced = FALSE, !.fetches = @ + 1])
    /\ Answers(response = distribution /\ LiveAt(Now))
    /\ UNCHANGED <<serverVars, store, accepted>>

(* An honest server has nothing to serve of a deleted environment. *)
NotFound(c) ==
    /\ command[c].phase = "open"
    /\ command[c].fetches < MaxFetches
    /\ ~ LiveAt(Now)
    /\ Refuse(c, "not-found")
    /\ UNCHANGED <<serverVars, store, accepted, lies>>

(* One more sync of the chain, which must extend the view; the distribution *)
(* is not fetched again.                                                    *)
ResyncAhead(c, view) ==
    /\ command[c].phase = "fetched"
    /\ Outcome(c) = "future"
    /\ ~ command[c].resynced
    /\ Synced(c, view)
    /\ IF view < command[c].view
       THEN Refuse(c, "chain-shortened")
       ELSE Become(c, [command[c] EXCEPT !.view = view, !.resynced = TRUE])
    /\ UNCHANGED <<store, accepted>>

VariableFloor(d) == [status |-> d.status, value |-> Evidence(d.value), meta |-> d.meta]

EnvironmentMeta == [version |-> 1, hash |-> 1]

(* The baseline of a pull is the epoch of the view it was fetched under. *)
PullBaseline(c) == EpochAt(command[c].fetchedAt)

(* What a command commits: a pull its values with the baseline, a           *)
(* metadata-only pull neither.                                              *)
Observed(c) ==
    LET d    == command[c].response
        head == HeadAt(command[c].view)
        manifest == Evidence(d.manifest)
    IN  IF command[c].kind = "values"
        THEN [head |-> head, pullEpoch |-> PullBaseline(c), observedEpoch |-> PullBaseline(c),
              meta |-> EnvironmentMeta, manifest |-> manifest, variable |-> VariableFloor(d)]
        ELSE MetadataObservation(head, EpochAt(command[c].view), EnvironmentMeta, manifest)

(* The floor is checked before the environment is looked up in the view. *)
RefuseFetched(c) ==
    /\ command[c].phase = "fetched"
    /\ LET outcome == Outcome(c) IN
       \/ /\ outcome \notin {"ok", "future"}
          /\ Refuse(c, outcome)
       \/ /\ outcome = "future" /\ command[c].resynced
          /\ Refuse(c, "diverged")
       \/ /\ outcome = "ok"
          /\ FloorViolated(command[c].current, command[c].response, command[c].kind)
          /\ Refuse(c, "floor-violated")
       \/ /\ outcome = "ok"
          /\ ~ FloorViolated(command[c].current, command[c].response, command[c].kind)
          /\ ~ LiveAt(command[c].view)
          /\ Refuse(c, "not-found")
    /\ UNCHANGED <<serverVars, store, accepted, lies>>

Accept(c) ==
    /\ command[c].phase = "fetched"
    /\ Outcome(c) = "ok"
    /\ ~ FloorViolated(command[c].current, command[c].response, command[c].kind)
    /\ LiveAt(command[c].view)
    /\ store' = Applied(store, Observation(Observed(c)))
    /\ IF store'.conflicts = {}
       THEN /\ Become(c,
                    [command[c] EXCEPT !.phase = "open", !.current = store'.floor, !.kind = "none",
                        !.response = Nothing, !.fetchedAt = 0, !.resynced = FALSE])
            /\ accepted' = JoinedFloor(accepted, Observed(c))
       ELSE /\ Refuse(c, "conflict")
            /\ UNCHANGED accepted
    /\ UNCHANGED <<serverVars, lies>>

Writes ==
    PushValue \/ Activate \/ DeleteVariable \/ Rotate \/ Checkpoint \/ DeleteEnvironment

Next ==
    \/ Writes
    \/ \E c \in Commands :
          \/ \E view \in 2 .. Now :
                Sync(c, view) \/ ResyncShortened(c, view) \/ ResyncAhead(c, view)
          \/ LoadFloor(c)
          \/ CommitHead(c)
          \/ \E kind \in {"values", "metadata"}, response \in {distribution} \cup Lies :
                Fetch(c, kind, response)
          \/ NotFound(c)
          \/ RefuseFetched(c)
          \/ Accept(c)

Spec == Init /\ [][Next]_vars

(***************************************************************************)
(* Properties.                                                             *)
(***************************************************************************)

(* Refusals that a user is told are evidence of a dishonest server. *)
Accusations == {"conflict", "chain-shortened", "value-refused", "manifest-refused",
                "checkpoint-refused", "diverged", "floor-violated"}

Accused(c) == command[c].phase # "refused" /\ command'[c].reason \in Accusations

(* The response comes with the latest checkpoint of the view. *)
OfOneMoment(c) ==
    /\ LiveAt(command[c].view)
    /\ command[c].response.snapshot.seq = LatestCheckpoint(command[c].view)

(* A server that has not lied is accused in two races only, whatever other  *)
(* members write and other commands of the machine commit between the       *)
(* requests of a command: over a manifest, when a checkpoint (that of a     *)
(* rotation, say) came between the chain and the response that the command  *)
(* holds, and over a checkpoint, when the environment was deleted between   *)
(* the fetch and the second sync (loadCheckedFloor, pullWithBoundedResync,  *)
(* locatorOutcome, noBaselineOutcome, enforceFloor).                        *)
AccusedOnlyInRaces ==
    [][\A c \in Commands : Accused(c) /\ lies' = 0 =>
          \/ command'[c].reason = "manifest-refused" /\ ~ OfOneMoment(c)
          \/ command'[c].reason = "checkpoint-refused" /\ ~ LiveAt(command[c].view)]_vars

(* A comment of values.ts says that a refused manifest is a contradiction   *)
(* between signed data and that no honest server is refused at that stage.  *)
ManifestRefusalsAreEvidence ==
    \A c \in Commands : command[c].reason = "manifest-refused" => lies > 0

(* What a command accepts is nowhere behind or beside what any command that *)
(* ended before it began had accepted: no older version, no other content,  *)
(* no variable back from deletion; and a value that nobody had accepted is  *)
(* not under an epoch below the earlier baseline (checkEnvironmentPull and  *)
(* the join of the commits).                                                *)
AcceptedAscends ==
    [][\A c \in Commands : Accept(c) /\ store'.conflicts = {} =>
          LET seen == Observed(c)
              promised == command[c].promised
          IN  /\ FloorConflicts(promised, seen) = {}
              /\ Joined(promised.manifest, seen.manifest) = seen.manifest
              /\ command[c].kind = "values" =>
                    /\ JoinedVariable(promised.variable, seen.variable) = seen.variable
                    /\ seen.variable.status = "active"
                          /\ accepted'.variable.value # accepted.variable.value
                        => seen.variable.value.epoch >= promised.pullEpoch]_vars
=============================================================================
