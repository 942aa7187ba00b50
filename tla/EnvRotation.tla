------------------------------ MODULE EnvRotation ------------------------------
(***************************************************************************)
(* `maruhi env rotate` and the sweep after a departure, for one environment *)
(* (apps/cli/src: env.package/env-rotate*.ts, rotation-sweep.ts,            *)
(* sweep-rotate.ts, retry.ts, context.ts).  A rotation has two stages: the  *)
(* composite that starts the epoch, and ordinary pushes that seal every     *)
(* current value again under the new DEK.  Between the stages, and inside   *)
(* them, the command may stop, lose an answer, or meet other writers; a     *)
(* later run takes over from what the server serves.                        *)
(*                                                                         *)
(* The server is seen from outside: it takes a composite or refuses it      *)
(* whole (ProjectStore has its insides).  One chain position stands for one *)
(* accepted request, with the boundary checkpoint it brings; every value    *)
(* carries the version whose plaintext it holds; a manifest is named by the *)
(* request that issued it.  A pull is two or three steps: the chain was read *)
(* before, the wire is fetched, and the chain may be read once more.  Left  *)
(* out: wrap sets, signatures, the winners a rescan compares with what it   *)
(* knew (reconcileKnown), what a pull commits to the floor                  *)
(* (PullVerification has it), warnings and wording.                         *)
(***************************************************************************)
EXTENDS Naturals, FiniteSets, Sequences

CONSTANTS
    Machines,                     \* command-line installations, each with a floor of its own
    Variables,                    \* variable ids
    MissingWraps,                 \* <<machine, epoch>>: wrapped to others only, unless it made the epoch
    Initial,                      \* variables that have a value from the start
    AlreadyLeft,                  \* whether somebody has left before anything else
    MAX_ATTEMPTS,                 \* composites per rotation, head conflicts included
    MAX_VALUES_CONFLICT_ATTEMPTS, \* rotations per run, values conflicts included
    MAX_REENCRYPT_PASSES,         \* push passes per run
    MaxOther,                     \* bound on the requests of others
    MaxManual,                    \* bound on rotations nobody owes
    MaxFaults                     \* bound on crashes, lost answers and failed writes

ASSUME RetryAssumption ==
    /\ {MAX_ATTEMPTS, MAX_VALUES_CONFLICT_ATTEMPTS, MAX_REENCRYPT_PASSES} \subseteq Nat \ {0}
    /\ {MaxOther, MaxManual, MaxFaults} \subseteq Nat
    /\ MissingWraps \subseteq Machines \X Nat
    /\ Initial \subseteq Variables
    /\ AlreadyLeft \in BOOLEAN

VARIABLES
    chain,      \* the accepted entries
    values,     \* variable -> its versions
    deleted,    \* deleted variables
    manifests,  \* the manifests accepted, by version
    requests,   \* composites on their way to the server
    pushes,     \* pushes whose answer was not awaited any longer, on their way too
    deks,       \* DEKs generated so far; a DEK is named by its maker and its number
    run,        \* machine -> the command it is running
    intents,    \* machine -> its journal of intents, with their resolutions
    floors,     \* machine -> the manifest its floor records
    reported,   \* machine -> what its last complete run has reported
    spent       \* how much of the bounds is used up

serverVars == <<chain, values, deleted, manifests>>
floorVars  == <<intents, floors>>
rotationVars == <<serverVars, requests, pushes, deks, run, floorVars, reported, spent>>

(***************************************************************************)
(* The chain as a view of its first v entries.                             *)
(***************************************************************************)

HeadSeq == Len(chain)

Entry(op, epoch, dek) == [op |-> op, epoch |-> epoch, dek |-> dek, attests |-> 0]

\* The seq at which each epoch starts.
EpochStarts(v) == {i \in 1..v : chain[i].op \in {"create_environment", "rotate_epoch"}}

EpochAt(v) == Cardinality(EpochStarts(v))

EpochStart(n) == CHOOSE i \in EpochStarts(HeadSeq) : chain[i].epoch = n

\* dekCommitments.get(epoch): commitments are as distinct as the DEKs.
DekOf(n) == chain[EpochStart(n)].dek

\* latestCheckpointFor: what begins an epoch brings a checkpoint of its own.
LatestCheckpoint(v) ==
    CHOOSE i \in 1..v : /\ chain[i].op \in {"create_environment", "rotate_epoch", "checkpoint"}
                        /\ \A j \in i + 1..v : chain[j].op \notin {"rotate_epoch", "checkpoint"}

\* Not deleted (requireChainEnvironment).
LiveAt(v) == \A i \in 1..v : chain[i].op # "delete_environment"

\* baselinesOf: the last departure that obliges to rotate, 0 if there is none.
Baseline(v) ==
    LET departures == {i \in 1..v : chain[i].op = "remove_member"}
    IN  IF departures = {} THEN 0 ELSE CHOOSE i \in departures : \A j \in departures : j <= i

\* Variant: the epoch number is compared instead of the start of the epoch.
IsPendingByEpoch(v, baseline) == EpochAt(v) = 1

\* isPendingAt: the current epoch began before the baseline.
IsPendingAt(v, baseline) == EpochStart(EpochAt(v)) < baseline

(***************************************************************************)
(* The values as a pull serves them.                                       *)
(***************************************************************************)

Active == {v \in Variables : values[v] # <<>> /\ v \notin deleted}

Latest(v) == values[v][Len(values[v])]

\* The version of every active variable, 0 for the others.
Served == [v \in Variables |-> IF v \in Active THEN Len(values[v]) ELSE 0]

HoldsDek(m, epoch) == <<m, epoch>> \notin MissingWraps \/ DekOf(epoch).maker = m

(***************************************************************************)
(* Runs.                                                                   *)
(***************************************************************************)

NoDek == [maker |-> "none", number |-> 0]

Idle == [phase |-> "idle", mode |-> "none", baseline |-> 0, opened |-> 0, view |-> 0,
         seen |-> [v \in Variables |-> 0], manifest |-> 0, snapshot |-> 0,
         epoch |-> 0, dek |-> NoDek,
         todo |-> {}, claimed |-> {}, pass |-> 0, attempt |-> 0, round |-> 0, answer |-> "none"]

Enter(m, r) == run' = [run EXCEPT ![m] = r]

\* The command ends with an error or a partial completion.
Ends(m) == Enter(m, Idle)

MayFault == spent.faults < MaxFaults

Faults == spent' = [spent EXCEPT !.faults = @ + 1]

\* RotationSummary with nothing remaining and no failure; that of a sweep covers
\* the departures up to its baseline.
Reports(m, r) ==
    reported' = [reported EXCEPT ![m] =
        [epoch |-> r.epoch, baseline |-> IF r.mode = "rotate" THEN @.baseline ELSE r.baseline]]

(***************************************************************************)
(* The intent journal and the floor (3-F).                                 *)
(***************************************************************************)

SETTLED_IN   == {"accepted", "accepted-superseded"}
SETTLED_OUT  == {"rejected", "not-accepted"}

IntentOf(r) == [declaredHead |-> r.view, epoch |-> r.epoch, dek |-> r.dek,
                manifest |-> r.manifest + 1, outcome |-> "open"]

Resolved(m, i, outcome) ==
    (intents[m] \ {i}) \cup {[i EXCEPT !.outcome = outcome]}

\* The composite of an intent names its manifest by where and with what it was signed.
ManifestId(i) == [declaredHead |-> i.declaredHead, dek |-> i.dek]

ManifestOf(i) == [version |-> i.manifest, id |-> ManifestId(i)]

\* commitManifest: the floor only moves forward.
Promoted(floor, candidates) ==
    LET newest == CHOOSE f \in candidates \cup {floor} :
                      \A g \in candidates \cup {floor} : g.version <= f.version
    IN  IF newest.version > floor.version THEN newest ELSE floor

\* Variant: an intent is matched by its commitment alone.
IntentByCommitment(i) ==
    IF \E s \in EpochStarts(HeadSeq) : chain[s].dek = i.dek THEN "accepted"
    ELSE IF i.declaredHead < HeadSeq THEN "rejected" ELSE "pending"

\* intentEntryState: what fills the slot after the declared head.
IntentEntryState(i) ==
    IF i.declaredHead = HeadSeq THEN "pending"
    ELSE IF chain[i.declaredHead + 1] = Entry("rotate_epoch", i.epoch, i.dek)
    THEN "accepted" ELSE "rejected"

Reconciled(i) ==
    CASE i.outcome # "open" \/ IntentEntryState(i) = "pending" -> i
      [] i.outcome = "open" /\ IntentEntryState(i) = "rejected" ->
            [i EXCEPT !.outcome = "not-accepted"]
      [] i.outcome = "open" /\ IntentEntryState(i) = "accepted" ->
            [i EXCEPT !.outcome = IF EpochAt(HeadSeq) = i.epoch THEN "accepted"
                                  ELSE "accepted-superseded"]

\* reconcileCompositeIntents, on the chain synced by the command's prologue.
ReconcileIntents(m) ==
    LET landed == {i \in intents[m] : i.outcome = "open" /\ IntentEntryState(i) = "accepted"}
    IN  /\ intents' = [intents EXCEPT ![m] = {Reconciled(i) : i \in @}]
        /\ floors' = [floors EXCEPT ![m] = Promoted(@, {ManifestOf(i) : i \in landed})]

\* resolveIntent and commitManifest after an answer: either write may fail, with a warning.
Settles(m, outcome) ==
    LET i == IntentOf(run[m])
        closed == [intents EXCEPT ![m] = Resolved(m, i, outcome)]
        moved == IF outcome \in SETTLED_IN
                 THEN [floors EXCEPT ![m] = Promoted(@, {ManifestOf(i)})] ELSE floors
    IN  \/ /\ intents' = closed /\ floors' = moved
           /\ UNCHANGED spent
        \/ /\ MayFault /\ Faults
           /\ intents' \in {intents, closed} /\ floors' \in {floors, moved}
           /\ <<intents', floors'>> # <<closed, moved>>

(***************************************************************************)
(* Opening a project and choosing what to do.                              *)
(***************************************************************************)

\* A round of rotateAttempt starts from the chain as it was read at the opening.
Round(mode, baseline, opened, round) ==
    [Idle EXCEPT !.phase = "pull", !.mode = mode, !.baseline = baseline,
                 !.opened = opened, !.view = opened, !.round = round]

Opens(m, mode, baseline) ==
    /\ run[m].phase = "idle"
    /\ LiveAt(HeadSeq)
    /\ ReconcileIntents(m)
    /\ Enter(m, Round(mode, baseline, HeadSeq, 1))
    /\ UNCHANGED <<serverVars, requests, pushes, deks, reported>>

\* sweepRotations: pending is rotated by force, the rest only checked, and resumed.
Sweep(m) ==
    LET baseline == Baseline(HeadSeq)
    IN  /\ reported[m].baseline < baseline
        /\ Opens(m, IF IsPendingAt(HeadSeq, baseline) THEN "force" ELSE "verify", baseline)
        /\ UNCHANGED spent

\* `env rotate --reason` that no departure asks for.
ManualRotate(m) ==
    /\ spent.manual < MaxManual
    /\ spent' = [spent EXCEPT !.manual = @ + 1]
    /\ Opens(m, "rotate", 0)

(***************************************************************************)
(* A verified pull (pullWithBoundedResync): the wire is fetched on a chain  *)
(* read before, and judged on it.                                          *)
(***************************************************************************)

Brought(r) == {v \in Variables : r.seen[v] # 0}

Seen(r, v) == values[v][r.seen[v]]

StaleIn(r, epoch) == {v \in Brought(r) : Seen(r, v).epoch < epoch}

Openable(m, r, vs) == {v \in vs : HoldsDek(m, Seen(r, v).epoch)}

Fetched(r) == [r EXCEPT !.seen = Served, !.manifest = Len(manifests),
                        !.snapshot = LatestCheckpoint(HeadSeq)]

Newest(r) == manifests[r.manifest]

\* Something served declares a head beyond the view.
Ahead(r) == Newest(r).declaredHead > r.view \/ \E v \in Brought(r) : Seen(r, v).head > r.view

\* epochIntegrityReason: the manifest of a rotation declares the head before it, and
\* only the checkpoint that came with the rotation explains its epoch.
EpochExplained(r) == Newest(r).dek = NoDek \/ Newest(r).declaredHead < r.view

\* checkpointIntegrityReason, for a checkpoint that came between fetch and resync.
Regressed(r) ==
    LET latest == LatestCheckpoint(r.view)
    IN  latest > r.snapshot /\ (chain[latest].op = "rotate_epoch" \/ chain[latest].attests > r.manifest)

\* verifyAll: the values, the manifest (refused with evidence, whatever the reason),
\* then the position of the checkpoint; a deleted environment has none.
Verified(r) ==
    IF Ahead(r) THEN "future"
    ELSE IF ~EpochExplained(r) \/ ~LiveAt(r.view) \/ Regressed(r) THEN "evidence"
    ELSE IF r.snapshot > r.view THEN "future"
    ELSE IF r.snapshot # LatestCheckpoint(r.view) THEN "retriable" ELSE "ok"

(***************************************************************************)
(* What rotateWithWarnings does with the pull it opens with.               *)
(***************************************************************************)

\* rotatePathOf.
RotatePath(mode, stale) ==
    CASE mode = "force" -> "rotate"
      [] mode # "force" /\ stale # {} -> "resume"
      [] mode = "rotate" /\ stale = {} -> "rotate"
      [] mode = "verify" /\ stale = {} -> "up-to-date"

\* resumeReencryption: without the DEK, or with nothing to push, the run ends incomplete.
Resume(m, r) ==
    /\ IF HoldsDek(m, r.epoch) /\ r.todo # {}
       THEN Enter(m, [r EXCEPT !.phase = "push", !.pass = 1, !.dek = DekOf(r.epoch)])
       ELSE Ends(m)
    /\ UNCHANGED deks

\* ensureRotationIsUseful: an epoch nothing would be sealed under is not started.
Useful(r) == r.todo # {} \/ Brought(r) = {}

\* A new DEK for the next epoch.
Rotate(m, r) ==
    IF Useful(r)
    THEN /\ deks' = deks + 1
         /\ Enter(m, [r EXCEPT !.phase = "journal", !.epoch = @ + 1, !.attempt = 1,
                               !.dek = [maker |-> m, number |-> deks + 1]])
    ELSE Ends(m) /\ UNCHANGED deks

\* rotateWithWarnings up to the composite.
Decide(m, pulled) ==
    LET current == EpochAt(pulled.view)
        stale == StaleIn(pulled, current)
        path == RotatePath(pulled.mode, stale)
        targets == IF path = "resume" THEN stale ELSE Brought(pulled)
        r == [pulled EXCEPT !.epoch = current, !.todo = Openable(m, pulled, targets), !.snapshot = 0]
    IN  \/ path = "up-to-date" /\ Ends(m) /\ Reports(m, r) /\ UNCHANGED deks
        \/ path = "resume" /\ Resume(m, r) /\ UNCHANGED reported
        \/ path = "rotate" /\ Rotate(m, r) /\ UNCHANGED reported

(***************************************************************************)
(* The end of a pass (settlePass), on what the rescan pulled.              *)
(***************************************************************************)

PassesLeft(r) == r.pass < MAX_REENCRYPT_PASSES

\* The command stops with "evidence that re-running will not resolve"; the record
\* keeps the view its wire was fetched on.
Accuse(m, view) == Enter(m, [Idle EXCEPT !.phase = "abort", !.view = view])

\* Variant: complete when every push of the pass was made.
SettledByPushes(m, r) ==
    IF r.claimed = {} THEN Enter(m, [run[m] EXCEPT !.phase = "notarize"]) ELSE Ends(m)

\* Variant: the epoch of the resynced chain is not compared with that of the run.
SettledAtAnyEpoch(m, r) ==
    LET stale == StaleIn(r, EpochAt(r.view))
    IN  IF r.claimed \cap stale # {} THEN Accuse(m, r.view)
        ELSE IF stale = {} THEN Enter(m, [run[m] EXCEPT !.phase = "notarize"]) ELSE Ends(m)

\* Another epoch leaves the pass unverified; a claimed conflict that the chain denies
\* is an accusation if the variable is still stale.
SettlePass(m, r) ==
    LET stale == StaleIn(r, r.epoch)
        targets == Openable(m, r, stale)
    IN  CASE EpochAt(r.view) # r.epoch -> Ends(m)
          [] EpochAt(r.view) = r.epoch /\ r.claimed \cap stale # {} -> Accuse(m, r.view)
          [] EpochAt(r.view) = r.epoch /\ r.claimed \cap stale = {} ->
               IF stale = {}
               THEN Enter(m, [r EXCEPT !.phase = "notarize", !.claimed = {}, !.snapshot = 0])
               ELSE IF PassesLeft(r) /\ targets # {}
               THEN Enter(m, [r EXCEPT !.phase = "push", !.pass = @ + 1, !.todo = targets,
                                       !.claimed = {}, !.snapshot = 0])
               ELSE Ends(m)

(***************************************************************************)
(* The steps of a pull: the first of a run, and the rescan after a pass.   *)
(***************************************************************************)

\* The wire is refused, needs a second look at the chain, or serves its purpose.
Judge(m, r, fetchView) ==
    LET verdict == IF Verified(r) = "future" /\ r.phase = "ahead" THEN "evidence" ELSE Verified(r)
    IN  \/ verdict = "ok" /\ r.pass = 0 /\ Decide(m, r)
        \/ /\ verdict # "ok" \/ r.pass # 0
           /\ CASE verdict = "ok" -> SettlePass(m, r)
                [] verdict = "future" -> Enter(m, [r EXCEPT !.phase = "ahead"])
                [] verdict = "retriable" -> Ends(m)
                [] verdict = "evidence" -> Accuse(m, fetchView)
           /\ UNCHANGED <<deks, reported>>

Pulls == <<serverVars, requests, pushes, floorVars, spent>>

\* rescanEnvironment: the chain is read again before the fetch whenever the server
\* claimed another epoch.
ForceResync(m) ==
    /\ run[m].phase = "push" /\ run[m].todo = {} /\ run[m].claimed # {}
    /\ Enter(m, [run[m] EXCEPT !.phase = "pull", !.view = HeadSeq])
    /\ UNCHANGED <<Pulls, deks, reported>>

PassOver(r) == r.phase = "push" /\ r.todo = {} /\ r.claimed = {}

Fetch(m) ==
    /\ run[m].phase = "pull" \/ PassOver(run[m])
    /\ IF LiveAt(HeadSeq)
       THEN \E r \in {Fetched(run[m])} : Judge(m, r, run[m].view)
       ELSE Ends(m) /\ UNCHANGED <<deks, reported>>
    /\ UNCHANGED Pulls

\* The one bounded resync; the same wire is judged again.
Resync(m) ==
    /\ run[m].phase = "ahead"
    /\ \E r \in {[run[m] EXCEPT !.view = HeadSeq]} : Judge(m, r, run[m].view)
    /\ UNCHANGED Pulls

\* The message is shown, and the command is over.
Abort(m) ==
    /\ run[m].phase = "abort"
    /\ Ends(m)
    /\ UNCHANGED <<Pulls, deks, reported>>

(***************************************************************************)
(* The composite: journalled, sent, answered.                              *)
(***************************************************************************)

\* appendIntent comes before the send; without its line nothing is sent.
Journal(m) ==
    /\ run[m].phase = "journal"
    /\ \/ /\ intents' = [intents EXCEPT ![m] = @ \cup {IntentOf(run[m])}]
          /\ Enter(m, [run[m] EXCEPT !.phase = "send"])
          /\ UNCHANGED spent
       \/ MayFault /\ Faults /\ Ends(m) /\ UNCHANGED intents
    /\ UNCHANGED <<serverVars, requests, pushes, deks, floors, reported>>

RequestOf(m) ==
    [from |-> m, declaredHead |-> run[m].view, epoch |-> run[m].epoch, dek |-> run[m].dek,
     manifest |-> run[m].manifest + 1, values |-> run[m].seen]

Send(m) ==
    /\ run[m].phase = "send"
    /\ requests' = requests \cup {RequestOf(m)}
    /\ Enter(m, [run[m] EXCEPT !.phase = "wait", !.answer = "none"])
    /\ UNCHANGED <<serverVars, pushes, deks, floorVars, reported, spent>>

\* The server's checks in their order.  (A deletion moves the head.)
Verdict(q) ==
    IF q.declaredHead # HeadSeq THEN "head-conflict"
    ELSE IF q.epoch # EpochAt(HeadSeq) + 1 THEN "refused"
    ELSE IF q.manifest # Len(manifests) + 1 THEN "manifest-conflict"
    ELSE IF q.values = Served THEN "ok" ELSE "values-conflict"

AwaitedBy(q) ==
    LET r == run[q.from] IN r.phase = "wait" /\ r.answer = "none" /\ q = RequestOf(q.from)

ServeComposite(q) ==
    /\ q \in requests
    /\ requests' = requests \ {q}
    /\ IF Verdict(q) = "ok"
       THEN /\ chain' = Append(chain, Entry("rotate_epoch", q.epoch, q.dek))
            /\ manifests' = Append(manifests, [declaredHead |-> q.declaredHead, dek |-> q.dek])
       ELSE UNCHANGED <<chain, manifests>>
    /\ IF AwaitedBy(q) THEN Enter(q.from, [run[q.from] EXCEPT !.answer = Verdict(q)])
       ELSE UNCHANGED run
    /\ UNCHANGED <<values, deleted, pushes, deks, floorVars, reported, spent>>

\* No answer: the request is lost, still on its way, or was served and only its
\* answer is lost.
TimeOut(m) ==
    /\ run[m].phase = "wait"
    /\ MayFault /\ Faults
    /\ requests' \in {requests, requests \ {RequestOf(m)}}
    /\ Enter(m, [run[m] EXCEPT !.phase = "probe"])
    /\ UNCHANGED <<serverVars, pushes, deks, floorVars, reported>>

(***************************************************************************)
(* What the command makes of the answer.                                   *)
(***************************************************************************)

Answered(m, answer) == run[m].phase = "wait" /\ run[m].answer = answer

Unserved == <<serverVars, requests, pushes, deks, reported>>

\* Whose DEK the chain has for the epoch.
Landed(r) == EpochAt(HeadSeq) >= r.epoch /\ DekOf(r.epoch) = r.dek

\* confirmAcceptedRotation.
Confirm(m) ==
    /\ Answered(m, "ok")
    /\ CASE ~LiveAt(HeadSeq) -> Ends(m) /\ UNCHANGED <<floorVars, spent>>
         [] LiveAt(HeadSeq) /\ ~Landed(run[m]) -> Settles(m, "not-accepted") /\ Ends(m)
         [] LiveAt(HeadSeq) /\ Landed(run[m]) /\ EpochAt(HeadSeq) # run[m].epoch ->
               Settles(m, "accepted-superseded") /\ Ends(m)
         [] LiveAt(HeadSeq) /\ Landed(run[m]) /\ EpochAt(HeadSeq) = run[m].epoch ->
               /\ Settles(m, "accepted")
               /\ Enter(m, [run[m] EXCEPT !.phase = "push", !.view = HeadSeq, !.pass = 1])
    /\ UNCHANGED Unserved

\* The recheck of recoverComposite: the DEK is for the next epoch, or for nothing.
Recheck(r) == LiveAt(HeadSeq) /\ EpochAt(HeadSeq) + 1 = r.epoch

\* recoverComposite: everything but the DEK is made anew for the present head.
Resigned(r) == [r EXCEPT !.phase = "journal", !.view = HeadSeq, !.attempt = @ + 1]

\* retryOnConflict: the same DEK is signed again at the new head.
HeadConflict(m) ==
    /\ Answered(m, "head-conflict")
    /\ Settles(m, "rejected")
    /\ IF Recheck(run[m]) /\ run[m].attempt < MAX_ATTEMPTS
       THEN Enter(m, Resigned(run[m])) ELSE Ends(m)
    /\ UNCHANGED Unserved

\* Variant: the composite is sent again over the same values.
RepeatComposite(m) ==
    /\ Answered(m, "values-conflict")
    /\ Settles(m, "rejected")
    /\ Enter(m, [run[m] EXCEPT !.phase = "journal"])
    /\ UNCHANGED Unserved

\* RotateValuesConflictError, caught by rotateAttempt: all over again, with a new DEK.
ValuesConflict(m) ==
    /\ Answered(m, "values-conflict")
    /\ Settles(m, "rejected")
    /\ IF run[m].round < MAX_VALUES_CONFLICT_ATTEMPTS
       THEN Enter(m, Round(run[m].mode, run[m].baseline, run[m].opened, run[m].round + 1))
       ELSE Ends(m)
    /\ UNCHANGED Unserved

Rejected(m) ==
    /\ Answered(m, "manifest-conflict") \/ Answered(m, "refused")
    /\ Settles(m, "rejected")
    /\ Ends(m)
    /\ UNCHANGED Unserved

\* Variant: an epoch that has not come means the composite was not accepted.
ProbedByEpoch(r) ==
    CASE ~LiveAt(HeadSeq) -> "unknown"
      [] LiveAt(HeadSeq) /\ Landed(r) ->
            IF EpochAt(HeadSeq) > r.epoch THEN "accepted-superseded" ELSE "accepted"
      [] LiveAt(HeadSeq) /\ ~Landed(r) -> "not-accepted"

\* probeAmbiguousSend: while the chain is at the declared head the request may
\* still arrive.
Probed(r) ==
    CASE ~LiveAt(HeadSeq) -> "unknown"
      [] LiveAt(HeadSeq) /\ Landed(r) ->
            IF EpochAt(HeadSeq) > r.epoch THEN "accepted-superseded" ELSE "accepted"
      [] LiveAt(HeadSeq) /\ ~Landed(r) ->
            IF EpochAt(HeadSeq) >= r.epoch \/ HeadSeq > r.view THEN "not-accepted"
            ELSE "send-pending"

\* settleAmbiguousRotation: the command fails whatever the probe finds.
Probe(m) ==
    /\ run[m].phase = "probe"
    /\ IF Probed(run[m]) \in {"unknown", "send-pending"}
       THEN UNCHANGED <<floorVars, spent>>
       ELSE Settles(m, Probed(run[m]))
    /\ Ends(m)
    /\ UNCHANGED Unserved

(***************************************************************************)
(* Re-encryption: the ordinary pushes of a pass.                           *)
(***************************************************************************)

Value(epoch, text, same, head) == [epoch |-> epoch, text |-> text, same |-> same, head |-> head]

Extended(v, value) == values' = [values EXCEPT ![v] = Append(@, value)]

\* Variant: no compare-and-set on the version.
CasOfEpoch(v, epoch, version) == epoch = EpochAt(HeadSeq)

\* checkValueCas: the current epoch and the next version.
ValueCas(v, epoch, version) == epoch = EpochAt(HeadSeq) /\ version = Len(values[v]) + 1

\* pushReencrypted: the text that was read, at the epoch of the run, marked as the
\* same value as the version it was read from.
PushOf(m, v) ==
    [var |-> v, version |-> run[m].seen[v] + 1,
     value |-> Value(run[m].epoch, Seen(run[m], v).text, TRUE, run[m].view)]

Present(v) == v \in Active /\ LiveAt(HeadSeq)

Tried(m, v, claimed) ==
    Enter(m, [run[m] EXCEPT !.todo = @ \ {v}, !.claimed = @ \cup claimed])

\* One push of a pass.  An answer that does not arrive leaves the run as any other
\* failure does: the rescan decides.
Push(m, v) ==
    /\ run[m].phase = "push" /\ v \in run[m].todo
    /\ LET p == PushOf(m, v)
       IN  \/ /\ Present(v) /\ ValueCas(v, p.value.epoch, p.version)
              /\ Extended(v, p.value) /\ Tried(m, v, {})
              /\ UNCHANGED <<pushes, spent>>
           \/ /\ ~(Present(v) /\ ValueCas(v, p.value.epoch, p.version))
              /\ Tried(m, v, IF Present(v) /\ p.value.epoch # EpochAt(HeadSeq) THEN {v} ELSE {})
              /\ UNCHANGED <<values, pushes, spent>>
           \/ /\ MayFault /\ Faults
              /\ pushes' \in {pushes, pushes \cup {p}} /\ Tried(m, v, {})
              /\ UNCHANGED values
    /\ UNCHANGED <<chain, deleted, manifests, requests, deks, floorVars, reported>>

\* A push whose sender has given up waiting arrives after all.
ServePush(p) ==
    /\ p \in pushes
    /\ pushes' = pushes \ {p}
    /\ IF Present(p.var) /\ ValueCas(p.var, p.value.epoch, p.version)
       THEN Extended(p.var, p.value) ELSE UNCHANGED values
    /\ UNCHANGED <<chain, deleted, manifests, requests, deks, run, floorVars, reported, spent>>

Attestation == [Entry("checkpoint", 0, NoDek) EXCEPT !.attests = Len(manifests)]

\* issuePostRotationCheckpoint: its failure is a warning; then the result is shown.
Notarize(m) ==
    /\ run[m].phase = "notarize"
    /\ \/ LiveAt(HeadSeq) /\ chain' = Append(chain, Attestation)
       \/ UNCHANGED chain
    /\ Reports(m, run[m])
    /\ Ends(m)
    /\ UNCHANGED <<values, deleted, manifests, requests, pushes, deks, floorVars, spent>>

Crash(m) ==
    /\ run[m].phase # "idle"
    /\ MayFault /\ Faults
    /\ Ends(m)
    /\ UNCHANGED <<serverVars, requests, pushes, deks, floorVars, reported>>

(***************************************************************************)
(* Everybody else, as the server takes their requests.                     *)
(***************************************************************************)

OtherEntry(op) ==
    /\ LiveAt(HeadSeq)
    /\ chain' = Append(chain, Entry(op, 0, NoDek))
    /\ UNCHANGED <<values, deleted, manifests>>

\* The heads a client that has seen the current epoch may declare.
Heads == EpochStart(EpochAt(HeadSeq))..HeadSeq

\* Its issuer has verified the manifest it follows.
OtherManifest(head) ==
    /\ head >= manifests[Len(manifests)].declaredHead
    /\ manifests' = Append(manifests, [declaredHead |-> head, dek |-> NoDek])

\* A departure of somebody who held the current DEK.
Depart == OtherEntry("remove_member")

DeleteEnvironment == OtherEntry("delete_environment")

\* An entry about something else.
AppendOther == OtherEntry("other")

WriteValue(v, head) ==
    /\ Present(v)
    /\ Extended(v, Value(EpochAt(HeadSeq), Len(values[v]) + 1, FALSE, head))
    /\ UNCHANGED <<chain, deleted, manifests>>

CreateVariable(v, head) ==
    /\ LiveAt(HeadSeq) /\ v \notin deleted /\ values[v] = <<>>
    /\ Extended(v, Value(EpochAt(HeadSeq), 1, FALSE, head))
    /\ OtherManifest(head)
    /\ UNCHANGED <<chain, deleted>>

DeleteVariable(v, head) ==
    /\ Present(v)
    /\ deleted' = deleted \cup {v}
    /\ OtherManifest(head)
    /\ UNCHANGED <<chain, values>>

Others ==
    /\ spent.other < MaxOther
    /\ spent' = [spent EXCEPT !.other = @ + 1]
    /\ \/ Depart
       \/ DeleteEnvironment
       \/ AppendOther
       \/ \E v \in Variables, head \in Heads :
              WriteValue(v, head) \/ CreateVariable(v, head) \/ DeleteVariable(v, head)
    /\ UNCHANGED <<requests, pushes, deks, run, floorVars, reported>>

-----------------------------------------------------------------------------

Init ==
    /\ chain = <<Entry("create_environment", 1, NoDek)>>
               \o IF AlreadyLeft THEN <<Entry("remove_member", 0, NoDek)>> ELSE <<>>
    /\ values = [v \in Variables |-> IF v \in Initial THEN <<Value(1, 1, FALSE, 1)>> ELSE <<>>]
    /\ deleted = {}
    /\ manifests = <<[declaredHead |-> 0, dek |-> NoDek]>>
    /\ requests = {} /\ pushes = {} /\ deks = 0
    /\ run = [m \in Machines |-> Idle]
    /\ intents = [m \in Machines |-> {}]
    /\ floors = [m \in Machines |-> [version |-> 1, id |-> manifests[1]]]
    /\ reported = [m \in Machines |-> [epoch |-> 0, baseline |-> 0]]
    /\ spent = [other |-> 0, manual |-> 0, faults |-> 0]

\* A command at work: it neither waits for the operator nor for the server.
Works(m) ==
    \/ ForceResync(m) \/ Fetch(m) \/ Resync(m) \/ Abort(m) \/ Journal(m) \/ Send(m)
    \/ Confirm(m) \/ HeadConflict(m) \/ ValuesConflict(m) \/ Rejected(m) \/ Probe(m)
    \/ \E v \in Variables : Push(m, v)
    \/ Notarize(m)

Serves == (\E q \in requests : ServeComposite(q)) \/ (\E p \in pushes : ServePush(p))

Next ==
    \/ \E m \in Machines : Sweep(m) \/ ManualRotate(m) \/ Works(m) \/ TimeOut(m) \/ Crash(m)
    \/ Serves
    \/ Others

Spec == Init /\ [][Next]_rotationVars

-----------------------------------------------------------------------------
(***************************************************************************)
(* Properties.                                                             *)
(***************************************************************************)

Epochs == 1..EpochAt(HeadSeq)

HasLanded(i) ==
    i.declaredHead < HeadSeq /\ chain[i.declaredHead + 1] = Entry("rotate_epoch", i.epoch, i.dek)

\* What the journal says of a composite is so, for good: one settled as accepted is
\* on the chain, and one settled as refused or lost is not and never gets there,
\* however late its request arrives (probeAmbiguousSend, reconcileCompositeIntents).
IntentsTruthful ==
    \A m \in Machines : \A i \in intents[m] :
        /\ i.outcome \in SETTLED_IN => HasLanded(i)
        /\ i.outcome \in SETTLED_OUT => ~HasLanded(i)

\* The manifest a floor records is the one the server accepted under that version, so
\* the next pull is not taken for a forgery (promoteAcceptedManifest,
\* settleManifestIntent): a manifest signed for a refused attempt never gets in.
FloorTrue ==
    \A m \in Machines :
        /\ floors[m].version \in DOMAIN manifests
        /\ floors[m].id = manifests[floors[m].version]

\* A re-encryption says "same value", and it is: whatever else was written between the
\* read and the push, nobody's newer text is buried under an older one, not even by a
\* push that arrives after its run is over (pushReencrypted, checkValueCas).
ReencryptionKeepsText ==
    \A v \in Variables : \A n \in 1..Len(values[v]) :
        values[v][n].same => n > 1 /\ values[v][n].text = values[v][n - 1].text

\* The server is honest here, and a command accuses it all the same ("evidence that
\* re-running will not resolve") when it is overtaken: only if a rotation, a checkpoint
\* or the deletion of the environment landed after the chain it had read before its
\* fetch.  A claimed epoch conflict is never turned against the server: the chain read
\* again bears the claim out (rescanEnvironment, settlePass).
AccusedOnlyWhenOvertaken ==
    \A m \in Machines : run[m].phase = "abort" =>
        \E i \in run[m].view + 1..HeadSeq :
            chain[i].op \in {"rotate_epoch", "checkpoint", "delete_environment"}

-----------------------------------------------------------------------------
(***************************************************************************)
(* The promise of Revocation.                                              *)
(***************************************************************************)

LastDeparture == Baseline(HeadSeq)

owed == LastDeparture # 0

fenced ==
    owed /\ (LiveAt(HeadSeq) => EpochStart(EpochAt(HeadSeq)) > LastDeparture)

exposed ==
    {v \in Active : owed /\ LiveAt(HeadSeq) /\ EpochStart(Latest(v).epoch) < LastDeparture}

claimed == {m \in Machines : owed /\ reported[m].baseline = LastDeparture}

R == INSTANCE Revocation

\* The sweep keeps the promise: after the new epoch no value becomes readable with an
\* old DEK again, whoever writes, and a departure is reported dealt with only when no
\* value is (sweepRotations, rotateWithWarnings, reencryptCurrentValues).
RevocationKept == R!Spec

\* Commands and the server get on with their work.
Diligent == \A m \in Machines : WF_rotationVars(Works(m))

\* Whoever has not seen the departure dealt with runs the sweep again, as the standing
\* warning and the reports of incomplete rotations ask (warnUnconvergedMandates).
Operated == \A m \in Machines : WF_rotationVars(Sweep(m))

FairSpec == Spec /\ Diligent /\ WF_rotationVars(Serves) /\ Operated

\* Every run ends: retries, pulls and passes are bounded, and no one of them waits for
\* another (retryOnConflict, rotateAttempt, reencryptCurrentValues).
RunsEnd == \A m \in Machines : run[m].phase # "idle" ~> run[m].phase = "idle"

\* In the end nobody who left can read a current value, whatever crashes, conflicts
\* and lost answers the sweeps met on the way.
DeparturesRevoked == owed ~> R!Revoked

=============================================================================
