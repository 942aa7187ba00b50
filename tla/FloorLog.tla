------------------------------ MODULE FloorLog ------------------------------
(***************************************************************************)
(* The append-only file behind the local floor (apps/cli/src/floor-log.ts) *)
(* under several CLI processes that share it without a lock.               *)
(*                                                                         *)
(* A commit appends its record, waits for the disk, reads the whole file   *)
(* back and folds it; when too many records follow the latest snapshot it  *)
(* appends a snapshot of that fold and reads once more.  A write may come  *)
(* out short: what reached the file stays there, as a torn line or as the  *)
(* whole record without its final newline, and the record is written again *)
(* from its start.  A process may crash at any step.                       *)
(*                                                                         *)
(* Every write starts with a newline, so a line of the model is a line of  *)
(* the file; empty lines are left out.                                     *)
(***************************************************************************)
EXTENDS Floors, SequencesExt

CONSTANTS
    Processes,             \* CLI processes that share the floor directory
    Observations,          \* the floors a verified observation may have
    IntentIds,             \* intents: one id per appendIntent, never reused
    CompactionThreshold,   \* records after the latest snapshot before a compaction
    MaxWriteAttempts,      \* MAX_APPEND_WRITE_ATTEMPTS
    MaxCommits,            \* bound: commits begun
    MaxFaults              \* bound: short writes and crashes

ASSUME FloorLogAssumption ==
    /\ Observations \subseteq EnvironmentFloors
    /\ CompactionThreshold \in Nat
    /\ MaxWriteAttempts \in Nat \ {0}
    /\ MaxCommits \in Nat
    /\ MaxFaults \in Nat

VARIABLES
    log,            \* the lines of the file
    process,        \* what each process is doing
    acknowledged,   \* records whose commit has returned without an error
    begun,          \* the records of all commits begun, in order
    faults          \* short writes and crashes so far

vars == <<log, process, acknowledged, begun, faults>>

Idle == [phase |-> "idle", commit |-> Torn, line |-> Torn, attempts |-> 0]

Init ==
    /\ log = <<>>
    /\ process = [p \in Processes |-> Idle]
    /\ acknowledged = {}
    /\ begun = <<>>
    /\ faults = 0

(***************************************************************************)
(* Properties of the file itself.                                          *)
(***************************************************************************)

(* A line after a torn one glued to it: the newline in front left out. *)
AppendedUnprefixed(lines, line) ==
    IF lines # <<>> /\ Last(lines) = Torn THEN lines ELSE Append(lines, line)

(* The file after a write: the newline in front isolates a torn line before it. *)
Appended(lines, line) == Append(lines, line)

(* The position taken when the snapshot is written instead of when it was folded. *)
LineOfWriteTime(p) ==
    IF process[p].line.r = "snapshot"
    THEN Snapshot(Len(Records(log)), process[p].line.state)
    ELSE process[p].line

(* What p writes: a snapshot keeps the position its fold was taken at. *)
LineOf(p) == process[p].line

SnapshotWithoutConflicts(lines) ==
    Snapshot(Len(Records(lines)), [FoldRecords(lines) EXCEPT !.conflicts = {}])

(* The snapshot of what was just read: fold, conflicts, open intents, position. *)
SnapshotOf(lines) == Snapshot(Len(Records(lines)), FoldRecords(lines))

(***************************************************************************)
(* Steps of one process.                                                   *)
(***************************************************************************)

Become(p, state) == process' = [process EXCEPT ![p] = state]

(* The commits a process may ask for: an observation, an intent of its own *)
(* or the resolution of an intent that the log shows open.                 *)
Requests ==
    {Observation(floor) : floor \in Observations}
      \cup {Intent(id) : id \in {i \in IntentIds : ~ Contains(begun, Intent(i))}}
      \cup {Resolution(id) : id \in FoldRecords(log).intents}

Begin(p, record) ==
    /\ process[p].phase = "idle"
    /\ Len(begun) < MaxCommits
    /\ record \in Requests
    /\ begun' = Append(begun, record)
    /\ Become(p, [phase |-> "writing", commit |-> record, line |-> record, attempts |-> 0])
    /\ UNCHANGED <<log, acknowledged, faults>>

(* A resolution closes an intent and is not read back. *)
AfterWrite(p) ==
    CASE process[p].line.r = "snapshot"   -> "rereading"
      [] process[p].line.r = "resolution" -> "idle"
      [] OTHER                            -> "reading"

Write(p) ==
    /\ process[p].phase = "writing"
    /\ log' = Appended(log, LineOf(p))
    /\ IF AfterWrite(p) = "idle"
       THEN /\ Become(p, Idle)
            /\ acknowledged' = acknowledged \cup {process[p].commit}
       ELSE /\ Become(p, [process[p] EXCEPT !.phase = AfterWrite(p)])
            /\ UNCHANGED acknowledged
    /\ UNCHANGED <<begun, faults>>

(* The whole payload is tried again, up to the budget; then the commit fails. *)
WriteShort(p, fragment) ==
    /\ process[p].phase = "writing"
    /\ faults < MaxFaults
    /\ fragment \in {Torn, LineOf(p)}
    /\ log' = Appended(log, fragment)
    /\ IF process[p].attempts + 1 < MaxWriteAttempts
       THEN Become(p, [process[p] EXCEPT !.attempts = @ + 1])
       ELSE Become(p, Idle)
    /\ faults' = faults + 1
    /\ UNCHANGED <<acknowledged, begun>>

(* A fold with a conflict fails the commit; its record stays in the log. *)
Return(p) ==
    /\ Become(p, Idle)
    /\ acknowledged' = IF FoldRecords(log).conflicts = {}
                       THEN acknowledged \cup {process[p].commit}
                       ELSE acknowledged
    /\ UNCHANGED <<log, begun, faults>>

ReadBack(p) ==
    /\ process[p].phase = "reading"
    /\ RecordsSinceSnapshot(log) <= CompactionThreshold
    /\ Return(p)

Compact(p) ==
    /\ process[p].phase = "reading"
    /\ RecordsSinceSnapshot(log) > CompactionThreshold
    /\ Become(p, [process[p] EXCEPT !.phase = "writing", !.line = SnapshotOf(log), !.attempts = 0])
    /\ UNCHANGED <<log, acknowledged, begun, faults>>

ReadAgain(p) ==
    /\ process[p].phase = "rereading"
    /\ Return(p)

(* The process dies, or a write of no bytes or an I/O error ends the commit. *)
Crash(p) ==
    /\ process[p].phase # "idle"
    /\ faults < MaxFaults
    /\ Become(p, Idle)
    /\ faults' = faults + 1
    /\ UNCHANGED <<log, acknowledged, begun>>

Next ==
    \E p \in Processes :
        \/ \E record \in Requests : Begin(p, record)
        \/ Write(p)
        \/ \E fragment \in {Torn, LineOf(p)} : WriteShort(p, fragment)
        \/ ReadBack(p)
        \/ Compact(p)
        \/ ReadAgain(p)
        \/ Crash(p)

Spec == Init /\ [][Next]_vars

(***************************************************************************)
(* Properties.                                                             *)
(***************************************************************************)

(* The log implements the abstract store: whatever order appends, folds    *)
(* and snapshots of several processes take, each line either joins one     *)
(* commit to what the fold yields or changes nothing.  A snapshot of a     *)
(* fold taken before another process appended neither loses that append    *)
(* nor undoes a resolution (readAndFold and mutate in floor-log.ts).       *)
Store == INSTANCE FloorStore WITH store <- FoldRecords(log)

FoldIsStore == Store!Spec

(* A commit that returned is never lost: what the log yields absorbs the   *)
(* observation, and an acknowledged intent is open until somebody wrote    *)
(* its resolution, through torn lines, rewrites, crashes and compactions   *)
(* (appendAll and appendRecords in floor-log.ts).                          *)
AcknowledgedSurvives ==
    LET fold == FoldRecords(log)
    IN  \A record \in acknowledged :
            /\ record.r = "observation" =>
                  JoinedFloor(fold.floor, record.floor) = fold.floor
            /\ record.r = "intent" =>
                  record.id \in fold.intents \/ Contains(log, Resolution(record.id))

(* Evidence of equivocation is never forgotten: a conflict that one fold   *)
(* showed is in every later fold, compaction included (the snapshot record *)
(* in floor-log.ts).                                                       *)
EvidenceKept ==
    [][FoldRecords(log).conflicts \subseteq FoldRecords(log)'.conflicts]_vars
=============================================================================
