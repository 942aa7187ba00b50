------------------------------- MODULE Floors -------------------------------
(***************************************************************************)
(* The local floor of one environment (apps/cli/src/floor.ts) and the fold *)
(* of the observation log it is derived from (floor-log-fold.ts).          *)
(*                                                                         *)
(* A floor is the join of everything one CLI has verified.  A coordinate   *)
(* that carries evidence is a record with a version and a hash; version 0  *)
(* is its bottom, "not observed yet".  Two verified observations with the  *)
(* same version and different hashes have no join: they are a conflict,    *)
(* and the larger hash stands for the pair.                                *)
(*                                                                         *)
(* Hashes are numbers, a log line is a record or Torn.  One environment    *)
(* with one variable is enough: coordinates join independently.            *)
(***************************************************************************)
EXTENDS Naturals, Sequences, FiniteSets

MaxOf(m, n) == IF m >= n THEN m ELSE n

(***************************************************************************)
(* Versioned evidence.                                                     *)
(***************************************************************************)

Joined(a, b) ==
    IF a.version = b.version
    THEN IF a.hash >= b.hash THEN a ELSE b
    ELSE IF a.version > b.version THEN a ELSE b

Disagree(a, b) == a.version = b.version /\ a.hash # b.hash

(* A conflict is identified by its coordinate and its two witnesses, in no order. *)
ConflictAt(kind, a, b) ==
    [kind |-> kind,
     evidence |-> {<<a.version, a.hash>>, <<b.version, b.hash>>}]

ConflictsAt(kind, a, b) == IF Disagree(a, b) THEN {ConflictAt(kind, a, b)} ELSE {}

NoEvidence == [version |-> 0, hash |-> 0]
NoEpochEvidence == [version |-> 0, epoch |-> 0, hash |-> 0]

(***************************************************************************)
(* The floor of the variable: its status, the value side, which only an    *)
(* active variable has, and the side of the metadata statement.            *)
(***************************************************************************)

NoVariable == [status |-> "unseen", value |-> NoEpochEvidence, meta |-> NoEvidence]

JoinedVariable(a, b) ==
    CASE a.status = "unseen" -> b
      [] b.status = "unseen" -> a
      [] a.status = "deleted" /\ b.status = "deleted" ->
            [a EXCEPT !.meta = Joined(a.meta, b.meta)]
      [] a.status = "deleted" /\ b.status # "deleted" -> a
      [] b.status = "deleted" /\ a.status # "deleted" -> b
      [] OTHER ->
            [status |-> IF "active" \in {a.status, b.status} THEN "active" ELSE "declared",
             value  |-> Joined(a.value, b.value),
             meta   |-> Joined(a.meta, b.meta)]

(* A live statement after a deletion is an undeletion, beside it an equivocation. *)
DeletionConflicts(deleted, live) ==
    CASE live.meta.version > deleted.meta.version ->
            {ConflictAt("undeletion", deleted.meta, live.meta)}
      [] live.meta.version = deleted.meta.version ->
            {ConflictAt("variable-meta", deleted.meta, live.meta)}
      [] OTHER -> {}

VariableConflicts(a, b) ==
    CASE "unseen" \in {a.status, b.status} -> {}
      [] a.status = "deleted" /\ b.status = "deleted" -> ConflictsAt("variable-meta", a.meta, b.meta)
      [] a.status = "deleted" /\ b.status \in {"declared", "active"} -> DeletionConflicts(a, b)
      [] b.status = "deleted" /\ a.status \in {"declared", "active"} -> DeletionConflicts(b, a)
      [] OTHER -> ConflictsAt("variable-meta", a.meta, b.meta)
                    \cup ConflictsAt("value", a.value, b.value)

(* The shapes of the evidence, and of the floor of a variable.              *)
PlainEvidence == [version : Nat, hash : Nat]
EpochEvidence == [version : Nat, epoch : Nat, hash : Nat]

VariableFloors ==
    {NoVariable}
      \cup [status : {"declared", "active", "deleted"}, value : EpochEvidence, meta : PlainEvidence]

(***************************************************************************)
(* The floor: chain head, the two epoch coordinates, environment metadata, *)
(* manifest, variable.  pullEpoch is the baseline of the value rule and    *)
(* only moves together with observed values; observedEpoch takes any       *)
(* observation.                                                            *)
(***************************************************************************)

EnvironmentFloors ==
    [head : PlainEvidence, pullEpoch : Nat, observedEpoch : Nat, meta : PlainEvidence,
     manifest : EpochEvidence, variable : VariableFloors]

BottomFloor ==
    [head |-> NoEvidence, pullEpoch |-> 0, observedEpoch |-> 0, meta |-> NoEvidence,
     manifest |-> NoEpochEvidence, variable |-> NoVariable]

JoinedFloor(a, b) ==
    [head          |-> Joined(a.head, b.head),
     pullEpoch     |-> MaxOf(a.pullEpoch, b.pullEpoch),
     observedEpoch |-> MaxOf(a.observedEpoch, b.observedEpoch),
     meta          |-> Joined(a.meta, b.meta),
     manifest      |-> Joined(a.manifest, b.manifest),
     variable      |-> JoinedVariable(a.variable, b.variable)]

FloorConflicts(a, b) ==
    ConflictsAt("chain-head", a.head, b.head)
      \cup ConflictsAt("environment-meta", a.meta, b.meta)
      \cup ConflictsAt("manifest", a.manifest, b.manifest)
      \cup VariableConflicts(a.variable, b.variable)

(* The observation of a metadata-only pull: no values, so no pull baseline. *)
MetadataObservation(head, epoch, meta, manifest) ==
    [BottomFloor EXCEPT !.head = head, !.observedEpoch = epoch, !.meta = meta,
                        !.manifest = manifest]

(* The observation of an accepted push. *)
PushObservation(head, variable) == [BottomFloor EXCEPT !.head = head, !.variable = variable]

(***************************************************************************)
(* Log records and their fold.  A record is an observation (of any of the  *)
(* shapes above), an intent, a resolution, or a snapshot of a fold with    *)
(* the number of records it folded.                                        *)
(***************************************************************************)

Torn == [r |-> "torn"]
Observation(floor) == [r |-> "observation", floor |-> floor]
Intent(id) == [r |-> "intent", id |-> id]
Resolution(id) == [r |-> "resolution", id |-> id]
Snapshot(folded, state) == [r |-> "snapshot", folded |-> folded, state |-> state]

EmptyFold == [floor |-> BottomFloor, conflicts |-> {}, intents |-> {}]

Applied(state, record) ==
    CASE record.r = "observation" ->
            [state EXCEPT !.floor = JoinedFloor(@, record.floor),
                          !.conflicts = @ \cup FloorConflicts(state.floor, record.floor)]
      [] record.r = "intent"     -> [state EXCEPT !.intents = @ \cup {record.id}]
      [] record.r = "resolution" -> [state EXCEPT !.intents = @ \ {record.id}]
      [] record.r = "snapshot"   -> state

\* The lines that decode, in their order.
Records(lines) ==
    LET kept[i \in 0 .. Len(lines)] ==
            IF i = 0 THEN <<>>
            ELSE IF lines[i].r = "torn" THEN kept[i - 1]
            ELSE Append(kept[i - 1], lines[i])
    IN  kept[Len(lines)]

(* The position of the latest snapshot among the records, 0 when there is none. *)
LatestSnapshot(records) ==
    LET before[i \in 0 .. Len(records)] ==
            IF i = 0 \/ records[i].r = "snapshot" THEN i ELSE before[i - 1]
    IN  before[Len(records)]

(* A snapshot that claims to have folded more than what precedes it is not used. *)
UsableSnapshot(records) ==
    LET at == LatestSnapshot(records) IN at > 0 /\ records[at].folded < at

FoldBase(records) ==
    IF UsableSnapshot(records)
    THEN LET snapshot == records[LatestSnapshot(records)]
         IN  [from |-> snapshot.folded, state |-> snapshot.state]
    ELSE [from |-> 0, state |-> EmptyFold]

(* Record after record from the base on; a set binds each state, and the    *)
(* records, to a value.                                                    *)
FoldFrom(base, records) ==
    LET upTo[i \in base.from .. Len(records)] ==
            IF i = base.from
            THEN base.state
            ELSE CHOOSE state \in {Applied(s, records[i]) : s \in {upTo[i - 1]}} : TRUE
    IN  upTo[Len(records)]

FoldRecords(lines) ==
    CHOOSE state \in {FoldFrom(FoldBase(records), records) : records \in {Records(lines)}} : TRUE

RecordsSinceSnapshot(lines) ==
    LET records == Records(lines) IN Len(records) - LatestSnapshot(records)
=============================================================================
