------------------------------ MODULE FloorProofs ------------------------------
(***************************************************************************)
(* Theorems about the floor log: that the file, whatever several processes  *)
(* append to it in whatever order, implements one store to which each       *)
(* commit is joined at once; that evidence of equivocation is never lost;   *)
(* and that an acknowledged commit survives.                                *)
(*                                                                         *)
(* The fold a reader takes starts at the latest snapshot.  It is compared   *)
(* with the true fold, that of all records from the first one on: every     *)
(* snapshot in the file or on its way holds the true fold of the prefix it  *)
(* names, so the two never differ.                                          *)
(***************************************************************************)
EXTENDS FloorLog, FiniteSetTheorems, WellFoundedInduction, TLAPS

(***************************************************************************)
(* Recursion over positions.                                               *)
(***************************************************************************)

\* A set of positions has a first one.
LEMMA FirstPosition ==
    ASSUME NEW S, S \subseteq Nat, S # {}
    PROVE  \E m \in S : \A k \in S : m <= k
<1>1. PICK R, F : R = StrictSubsetOrdering(Nat) /\ F = FiniteSubsetsOf(Nat)
  OBVIOUS
<1>2. PICK T : T = {0..k : k \in S}
  OBVIOUS
<1>3. T # {} /\ T \subseteq F
  <2>1. \A k \in Nat : IsFiniteSet(0..k) /\ 0..k \subseteq Nat
    BY FS_Interval
  <2>2. QED
    BY <1>1, <1>2, <2>1 DEF FiniteSubsetsOf
<1>4. IsWellFoundedOn(R, F)
  BY <1>1, FS_StrictSubsetOrderingWellFounded
<1>5. PICK x \in T : \A y \in T : ~(<<y, x>> \in R)
  BY <1>3, <1>4, WFMin
<1>6. PICK m \in S : x = 0..m
  BY <1>2
<1>7. ASSUME NEW k \in S, ~(m <= k) PROVE FALSE
  <2>1. 0..k \in T /\ 0..k \subseteq 0..m /\ 0..k # 0..m
    <3>1. k \in Nat /\ m \in Nat /\ m \in 0..m /\ m \notin 0..k
      BY <1>7
    <3>2. QED
      BY <1>2, <3>1, <1>7
  <2>2. <<0..k, x>> \in R
    BY <1>1, <1>6, <2>1 DEF StrictSubsetOrdering
  <2>3. QED
    BY <1>5, <2>1, <2>2
<1>8. QED
  BY <1>7

\* The function kept that Records takes its last value of.
Keeps(kept, lines, n) ==
    kept = [i \in 0..n |->
                IF i = 0 THEN <<>>
                ELSE IF lines[i].r = "torn" THEN kept[i - 1]
                ELSE Append(kept[i - 1], lines[i])]

\* It exists for every number of lines.
LEMMA KeptExists ==
    ASSUME NEW lines, NEW n \in Nat
    PROVE  \E kept : Keeps(kept, lines, n)
<1> SUFFICES ASSUME ~ \E kept : Keeps(kept, lines, n) PROVE FALSE
  OBVIOUS
<1>1. PICK S : S = {m \in Nat : ~ \E kept : Keeps(kept, lines, m)}
  OBVIOUS
<1>2. PICK m \in S : \A k \in S : m <= k
  BY <1>1, FirstPosition
<1>3. m # 0
  <2>1. PICK kept : kept = [i \in 0..0 |-> <<>>]
    OBVIOUS
  <2>2. Keeps(kept, lines, 0)
    BY <2>1 DEF Keeps
  <2>3. QED
    BY <1>1, <2>2
<1>4. PICK kept : Keeps(kept, lines, m - 1)
  BY <1>1, <1>2, <1>3
<1>5. PICK longer : longer = [i \in 0..m |->
            IF i < m THEN kept[i]
            ELSE IF lines[i].r = "torn" THEN kept[i - 1] ELSE Append(kept[i - 1], lines[i])]
  OBVIOUS
<1>6. m \in Nat
  BY <1>1
<1>7. ASSUME NEW i \in 0..m
      PROVE  longer[i] = IF i = 0 THEN <<>>
                         ELSE IF lines[i].r = "torn" THEN longer[i - 1]
                         ELSE Append(longer[i - 1], lines[i])
  <2>1. CASE i = m
    <3>1. longer[i - 1] = kept[i - 1]
      BY <1>3, <1>5, <1>6, <2>1
    <3>2. QED
      BY <1>3, <1>5, <2>1, <3>1
  <2>2. CASE i < m
    <3>1. i \in 0..m - 1 /\ (i # 0 => i - 1 \in 0..m - 1)
      BY <1>6, <2>2
    <3>2. longer[i] = kept[i] /\ (i # 0 => longer[i - 1] = kept[i - 1])
      BY <1>5, <1>6, <2>2, <3>1
    <3>3. QED
      BY <1>4, <3>1, <3>2 DEF Keeps
  <2>3. QED
    BY <1>6, <2>1, <2>2
<1>8. Keeps(longer, lines, m)
  BY <1>5, <1>7 DEF Keeps
<1>9. QED
  BY <1>1, <1>8

\* Records is the last value of such a function.
LEMMA RecordsAreKept ==
    ASSUME NEW S, NEW lines \in Seq(S)
    PROVE  \E kept : Keeps(kept, lines, Len(lines)) /\ Records(lines) = kept[Len(lines)]
<1> DEFINE K == CHOOSE kept : Keeps(kept, lines, Len(lines))
<1>1. Keeps(K, lines, Len(lines))
  BY KeptExists
<1>2. Records(lines) = K[Len(lines)]
  BY DEF Records, Keeps
<1>3. QED
  BY <1>1, <1>2

\* The values of two such functions agree as far as the lines do.
LEMMA KeptAgree ==
    ASSUME NEW m \in Nat, NEW n \in Nat, m <= n, NEW a, NEW b, NEW f, NEW g,
           Keeps(f, a, m), Keeps(g, b, n), \A i \in 1..m : a[i] = b[i]
    PROVE  f[m] = g[m]
<1> SUFFICES ASSUME f[m] # g[m] PROVE FALSE
  OBVIOUS
<1>1. PICK S : S = {i \in 0..m : f[i] # g[i]}
  OBVIOUS
<1>2. PICK k \in S : \A i \in S : k <= i
  BY <1>1, FirstPosition
<1>3. k \in 0..m /\ k \in 0..n /\ f[k] # g[k]
  BY <1>1
<1>4. k # 0
  BY <1>3 DEF Keeps
<1>5. k - 1 \in 0..m /\ k - 1 \in 0..n /\ f[k - 1] = g[k - 1] /\ a[k] = b[k]
  BY <1>1, <1>2, <1>3, <1>4
<1>6. QED
  BY <1>3, <1>4, <1>5 DEF Keeps

\* One line more is one record more, if it is not torn.
LEMMA RecordsAppended ==
    ASSUME NEW S, NEW lines \in Seq(S), NEW line \in S
    PROVE  Records(Append(lines, line)) =
               IF line.r = "torn" THEN Records(lines) ELSE Append(Records(lines), line)
<1>1. PICK longer : longer = Append(lines, line)
  OBVIOUS
<1>2. /\ longer \in Seq(S) /\ Len(longer) = Len(lines) + 1 /\ Len(lines) \in Nat
      /\ longer[Len(lines) + 1] = line
      /\ \A i \in 1..Len(lines) : lines[i] = longer[i]
  BY <1>1
<1>3. PICK f : Keeps(f, lines, Len(lines)) /\ Records(lines) = f[Len(lines)]
  BY RecordsAreKept
<1>4. PICK g : Keeps(g, longer, Len(lines) + 1) /\ Records(longer) = g[Len(lines) + 1]
  BY <1>2, RecordsAreKept
<1>5. f[Len(lines)] = g[Len(lines)]
  BY <1>2, <1>3, <1>4, KeptAgree
<1>6. g[Len(lines) + 1] = IF line.r = "torn" THEN g[Len(lines)] ELSE Append(g[Len(lines)], line)
  <2>1. PICK n : n = Len(lines) + 1 /\ n \in 0..n /\ n # 0 /\ n - 1 = Len(lines)
    BY <1>2
  <2>2. longer[n] = line /\ Keeps(g, longer, n)
    BY <1>2, <1>4, <2>1
  <2>3. g[n] = IF longer[n].r = "torn" THEN g[n - 1] ELSE Append(g[n - 1], longer[n])
    BY <2>1, <2>2 DEF Keeps
  <2>4. QED
    BY <2>1, <2>2, <2>3
<1>7. QED
  BY <1>1, <1>3, <1>4, <1>5, <1>6

\* An empty file has no records.
LEMMA NoRecords == Records(<<>>) = <<>>
<1>1. PICK kept : Keeps(kept, <<>>, 0) /\ Records(<<>>) = kept[0]
  <2>1. <<>> \in Seq({}) /\ Len(<<>>) = 0
    OBVIOUS
  <2>2. QED
    BY <2>1, RecordsAreKept
<1>2. QED
  BY <1>1 DEF Keeps

(***************************************************************************)
(* The latest snapshot.                                                    *)
(***************************************************************************)

\* The function before that LatestSnapshot takes its last value of.
Precedes(before, records, n) ==
    before = [i \in 0..n |->
                  IF i = 0 \/ records[i].r = "snapshot" THEN i ELSE before[i - 1]]

\* It exists for every number of records.
LEMMA PrecedesExists ==
    ASSUME NEW records, NEW n \in Nat
    PROVE  \E before : Precedes(before, records, n)
<1> SUFFICES ASSUME ~ \E before : Precedes(before, records, n) PROVE FALSE
  OBVIOUS
<1>1. PICK S : S = {m \in Nat : ~ \E before : Precedes(before, records, m)}
  OBVIOUS
<1>2. PICK m \in S : \A k \in S : m <= k
  BY <1>1, FirstPosition
<1>3. m # 0
  <2>1. PICK before : before = [i \in 0..0 |-> i]
    OBVIOUS
  <2>2. \A i \in 0..0 : i = 0
    OBVIOUS
  <2>3. Precedes(before, records, 0)
    BY <2>1, <2>2 DEF Precedes
  <2>4. QED
    BY <1>1, <2>3
<1>4. PICK before : Precedes(before, records, m - 1)
  BY <1>1, <1>2, <1>3
<1>5. PICK longer : longer = [i \in 0..m |->
            IF i < m THEN before[i]
            ELSE IF records[i].r = "snapshot" THEN i ELSE before[i - 1]]
  OBVIOUS
<1>6. m \in Nat
  BY <1>1
<1>7. ASSUME NEW i \in 0..m
      PROVE  longer[i] = IF i = 0 \/ records[i].r = "snapshot" THEN i ELSE longer[i - 1]
  <2>1. CASE i = m
    <3>1. longer[i - 1] = before[i - 1]
      BY <1>3, <1>5, <1>6, <2>1
    <3>2. QED
      BY <1>3, <1>5, <2>1, <3>1
  <2>2. CASE i < m
    <3>1. i \in 0..m - 1 /\ (i # 0 => i - 1 \in 0..m - 1)
      BY <1>6, <2>2
    <3>2. longer[i] = before[i] /\ (i # 0 => longer[i - 1] = before[i - 1])
      BY <1>5, <1>6, <2>2, <3>1
    <3>3. QED
      BY <1>4, <3>1, <3>2 DEF Precedes
  <2>3. QED
    BY <1>6, <2>1, <2>2
<1>8. Precedes(longer, records, m)
  BY <1>5, <1>7 DEF Precedes
<1>9. QED
  BY <1>1, <1>8

\* The latest snapshot is one, or there is none.
LEMMA LatestIsSnapshot ==
    ASSUME NEW S, NEW records \in Seq(S)
    PROVE  /\ LatestSnapshot(records) \in 0..Len(records)
           /\ LatestSnapshot(records) # 0 => records[LatestSnapshot(records)].r = "snapshot"
<1> DEFINE B == CHOOSE before : Precedes(before, records, Len(records))
<1>1. Precedes(B, records, Len(records)) /\ Len(records) \in Nat
  BY PrecedesExists
<1>2. LatestSnapshot(records) = B[Len(records)]
  BY DEF LatestSnapshot, Precedes
<1> HIDE DEF B
<1>3. PICK wrong : wrong = {i \in 0..Len(records) :
            ~(B[i] \in 0..i /\ (B[i] # 0 => records[B[i]].r = "snapshot"))}
  OBVIOUS
<1>4. wrong = {}
  <2> SUFFICES ASSUME wrong # {} PROVE FALSE
    OBVIOUS
  <2>0. wrong \subseteq Nat
    BY <1>1, <1>3
  <2>1. PICK k \in wrong : \A i \in wrong : k <= i
    BY <2>0, FirstPosition
  <2>2. k \in 0..Len(records)
    BY <1>3
  <2>3. k # 0 /\ records[k].r # "snapshot"
    <3>1. k = 0 \/ records[k].r = "snapshot" => B[k] = k
      BY <1>1, <2>2 DEF Precedes
    <3>2. QED
      BY <1>3, <2>2, <3>1
  <2>4. B[k] = B[k - 1] /\ k - 1 \in 0..Len(records) /\ k - 1 \notin wrong
    BY <1>1, <2>1, <2>2, <2>3 DEF Precedes
  <2>5. B[k - 1] \in 0..k - 1 /\ (B[k - 1] # 0 => records[B[k - 1]].r = "snapshot")
    BY <1>3, <2>4
  <2>6. QED
    BY <1>3, <2>2, <2>4, <2>5
<1>5. QED
  BY <1>1, <1>2, <1>3, <1>4

(***************************************************************************)
(* The true fold, and the fold of a reader.                                *)
(***************************************************************************)

\* The states of folding the records one by one, from the first.
TrueFold(fold, records) ==
    /\ fold = [i \in 0..Len(records) |-> fold[i]]
    /\ fold[0] = EmptyFold
    /\ \A i \in 1..Len(records) : fold[i] = Applied(fold[i - 1], records[i])

\* Every snapshot holds the true fold of as many records as it says, all of them before it.
SnapshotsTrue(fold, records) ==
    \A i \in 1..Len(records) : records[i].r = "snapshot" =>
        records[i].folded \in 0..i - 1 /\ records[i].state = fold[records[i].folded]

\* The function upTo that FoldFrom takes its last value of.
Folds(upTo, base, records) ==
    upTo = [i \in base.from .. Len(records) |->
                IF i = base.from
                THEN base.state
                ELSE CHOOSE state \in {Applied(s, records[i]) : s \in {upTo[i - 1]}} : TRUE]

\* The set binds the state to a value and no more.
LEMMA BoundValue ==
    ASSUME NEW x, NEW record
    PROVE  (CHOOSE state \in {Applied(s, record) : s \in {x}} : TRUE) = Applied(x, record)
OBVIOUS

\* From a base that is a state of the true fold, the records after it lead to its last one.
LEMMA FoldFromTrue ==
    ASSUME NEW S, NEW records \in Seq(S), NEW fold, TrueFold(fold, records),
           NEW from \in 0..Len(records)
    PROVE  FoldFrom([from |-> from, state |-> fold[from]], records) = fold[Len(records)]
<1> DEFINE base == [from |-> from, state |-> fold[from]]
           U    == CHOOSE upTo : Folds(upTo, base, records)
<1>1. base.from = from /\ base.state = fold[from] /\ Len(records) \in Nat
  OBVIOUS
<1>2. Folds(U, base, records)
  <2>1. PICK f : f = [i \in from..Len(records) |-> fold[i]]
    OBVIOUS
  <2>2. ASSUME NEW i \in from..Len(records)
        PROVE  f[i] = IF i = from THEN fold[from]
                      ELSE CHOOSE state \in {Applied(s, records[i]) : s \in {f[i - 1]}} : TRUE
    <3>1. CASE i = from
      BY <2>1, <3>1
    <3>2. CASE i # from
      <4>1. i \in 1..Len(records) /\ i - 1 \in from..Len(records)
        BY <1>1, <3>2
      <4>2. f[i] = Applied(f[i - 1], records[i])
        BY <2>1, <4>1 DEF TrueFold
      <4>3. QED
        BY <3>2, <4>2, BoundValue
    <3>3. QED
      BY <3>1, <3>2
  <2>3. Folds(f, base, records)
    BY <1>1, <2>1, <2>2 DEF Folds
  <2>4. QED
    BY <2>3
<1>3. FoldFrom(base, records) = U[Len(records)]
  BY DEF FoldFrom, Folds
<1> HIDE DEF U
<1>4. PICK wrong : wrong = {i \in from..Len(records) : U[i] # fold[i]}
  OBVIOUS
<1>5. wrong = {}
  <2> SUFFICES ASSUME wrong # {} PROVE FALSE
    OBVIOUS
  <2>1. wrong \subseteq Nat
    BY <1>1, <1>4
  <2>2. PICK k \in wrong : \A i \in wrong : k <= i
    BY <2>1, FirstPosition
  <2>3. k \in from..Len(records) /\ U[k] # fold[k]
    BY <1>4
  <2>4. k # from
    BY <1>1, <1>2, <2>3 DEF Folds
  <2>5. k \in 1..Len(records) /\ k - 1 \in from..Len(records) /\ k - 1 \notin wrong
    BY <1>1, <2>2, <2>3, <2>4
  <2>6. U[k - 1] = fold[k - 1]
    BY <1>4, <2>5
  <2>7. U[k] = CHOOSE state \in {Applied(s, records[k]) : s \in {U[k - 1]}} : TRUE
    BY <1>1, <1>2, <2>3, <2>4 DEF Folds
  <2>8. U[k] = Applied(fold[k - 1], records[k])
    BY <2>6, <2>7, BoundValue
  <2>9. QED
    BY <2>3, <2>5, <2>8 DEF TrueFold
<1>6. Len(records) \in from..Len(records)
  BY <1>1
<1>7. QED
  BY <1>3, <1>4, <1>5, <1>6

\* What a reader folds is the true fold.
LEMMA ReadersFold ==
    ASSUME NEW S, NEW lines, Records(lines) \in Seq(S), NEW fold,
           TrueFold(fold, Records(lines)), SnapshotsTrue(fold, Records(lines))
    PROVE  FoldRecords(lines) = fold[Len(Records(lines))]
<1>1. PICK records : records = Records(lines)
  OBVIOUS
<1>2. FoldRecords(lines) = FoldFrom(FoldBase(records), records)
  BY <1>1 DEF FoldRecords
<1>3. PICK at : at = LatestSnapshot(records)
  OBVIOUS
<1>4. at \in 0..Len(records) /\ (at # 0 => records[at].r = "snapshot") /\ Len(records) \in Nat
  BY <1>1, <1>3, LatestIsSnapshot
<1>5. \E from \in 0..Len(records) : FoldBase(records) = [from |-> from, state |-> fold[from]]
  <2>1. CASE at > 0
    <3>1. at \in 1..Len(records) /\ records[at].r = "snapshot"
      BY <1>4, <2>1
    <3>2. records[at].folded \in 0..at - 1 /\ records[at].state = fold[records[at].folded]
      BY <1>1, <3>1 DEF SnapshotsTrue
    <3>3. UsableSnapshot(records)
      BY <1>3, <1>4, <2>1, <3>2 DEF UsableSnapshot
    <3>4. FoldBase(records) = [from |-> records[at].folded, state |-> records[at].state]
      BY <1>3, <3>3 DEF FoldBase
    <3>5. records[at].folded \in 0..Len(records)
      BY <1>4, <3>2
    <3>6. QED
      BY <3>2, <3>4, <3>5
  <2>2. CASE ~(at > 0)
    <3>1. FoldBase(records) = [from |-> 0, state |-> EmptyFold]
      BY <1>3, <2>2 DEF FoldBase, UsableSnapshot
    <3>2. fold[0] = EmptyFold /\ 0 \in 0..Len(records)
      BY <1>1, <1>4 DEF TrueFold
    <3>3. QED
      BY <3>1, <3>2
  <2>3. QED
    BY <2>1, <2>2
<1>6. QED
  BY <1>1, <1>2, <1>5, FoldFromTrue

(***************************************************************************)
(* What the file and the processes hold.                                   *)
(***************************************************************************)

ConflictKinds ==
    {"chain-head", "environment-meta", "manifest", "variable-meta", "value", "undeletion"}

ConflictRecords == [kind : ConflictKinds, evidence : SUBSET (Nat \X Nat)]

FoldStates ==
    [floor : EnvironmentFloors, conflicts : SUBSET ConflictRecords, intents : SUBSET IntentIds]

Snapshots == {Snapshot(n, state) : n \in Nat, state \in FoldStates}

\* What a line that decodes may hold, and what a line may be.
LogRecords == Store!Commits \cup Snapshots
Lines == LogRecords \cup {Torn}

\* What the kind of a record says of it.
LEMMA RecordKinds ==
    /\ \A x \in Store!Commits : x.r \in {"observation", "intent", "resolution"}
    /\ \A x \in Store!Commits : x.r = "observation" =>
          x.floor \in Observations /\ x = Observation(x.floor)
    /\ \A x \in Store!Commits : x.r = "intent" => x.id \in IntentIds /\ x = Intent(x.id)
    /\ \A x \in Store!Commits : x.r = "resolution" => x.id \in IntentIds /\ x = Resolution(x.id)
    /\ \A x \in Snapshots : x.r = "snapshot" /\ x.folded \in Nat /\ x.state \in FoldStates
    /\ \A x \in Lines : x.r = "torn" <=> x = Torn
    /\ \A x \in LogRecords : x \in Lines /\ x.r # "torn" /\ x # Torn
    /\ \A x \in LogRecords : x.r # "snapshot" => x \in Store!Commits
BY DEF LogRecords, Lines, Snapshots, Snapshot, Store!Commits, Store!Observation, Store!Intent,
       Store!Resolution, Observation, Intent, Resolution, Torn

\* The join of evidence.
LEMMA JoinedShape ==
    /\ \A a, b \in PlainEvidence : Joined(a, b) \in PlainEvidence
    /\ \A a, b \in EpochEvidence : Joined(a, b) \in EpochEvidence
    /\ \A a, b : Joined(a, b) \in {a, b}
BY DEF Joined

\* Of floors of a variable: a shape each.
LEMMA VariableShapes ==
    ASSUME NEW v \in VariableFloors
    PROVE  /\ v.status \in {"unseen", "declared", "active", "deleted"}
           /\ v.value \in EpochEvidence /\ v.meta \in PlainEvidence
           /\ v = [status |-> v.status, value |-> v.value, meta |-> v.meta]
           /\ v.status = "unseen" <=> v = NoVariable
BY DEF VariableFloors, NoVariable, EpochEvidence, PlainEvidence, NoEpochEvidence, NoEvidence

\* The join of two floors of a variable is one.
LEMMA JoinedVariableShape ==
    ASSUME NEW a \in VariableFloors, NEW b \in VariableFloors
    PROVE  JoinedVariable(a, b) \in VariableFloors
<1>1. CASE a.status = "unseen" \/ b.status = "unseen"
  BY <1>1, VariableShapes DEF JoinedVariable
<1>2. CASE a.status # "unseen" /\ b.status # "unseen"
  <2>1. {a, b} \subseteq [status : {"declared", "active", "deleted"}, value : EpochEvidence,
                          meta : PlainEvidence]
    BY <1>2 DEF VariableFloors, NoVariable
  <2>2. Joined(a.meta, b.meta) \in PlainEvidence /\ Joined(a.value, b.value) \in EpochEvidence
    BY <2>1, JoinedShape
  <2>3. QED
    BY <1>2, <2>1, <2>2 DEF JoinedVariable, VariableFloors
<1>3. QED
  BY <1>1, <1>2, VariableShapes

\* The join of two floors is one.
LEMMA JoinedFloorShape ==
    ASSUME NEW a \in EnvironmentFloors, NEW b \in EnvironmentFloors
    PROVE  JoinedFloor(a, b) \in EnvironmentFloors
<1>1. /\ Joined(a.head, b.head) \in PlainEvidence /\ Joined(a.meta, b.meta) \in PlainEvidence
      /\ Joined(a.manifest, b.manifest) \in EpochEvidence
  BY JoinedShape DEF EnvironmentFloors
<1>2. /\ MaxOf(a.pullEpoch, b.pullEpoch) \in Nat
      /\ MaxOf(a.observedEpoch, b.observedEpoch) \in Nat
  BY DEF EnvironmentFloors, MaxOf
<1>3. JoinedVariable(a.variable, b.variable) \in VariableFloors
  BY JoinedVariableShape DEF EnvironmentFloors
<1>4. QED
  BY <1>1, <1>2, <1>3 DEF JoinedFloor, EnvironmentFloors

\* The floor nothing was observed for.
LEMMA EmptyFoldShape == EmptyFold \in FoldStates
<1>1. BottomFloor \in EnvironmentFloors
  BY DEF BottomFloor, EnvironmentFloors, NoEvidence, NoEpochEvidence, VariableFloors,
         PlainEvidence, EpochEvidence
<1>2. QED
  BY <1>1 DEF EmptyFold, FoldStates

\* The conflicts of two pieces of evidence.
LEMMA ConflictShapes ==
    ASSUME NEW a \in PlainEvidence \cup EpochEvidence, NEW b \in PlainEvidence \cup EpochEvidence,
           NEW kind \in ConflictKinds
    PROVE  /\ ConflictAt(kind, a, b) \in ConflictRecords
           /\ ConflictsAt(kind, a, b) \subseteq ConflictRecords
<1>1. <<a.version, a.hash>> \in Nat \X Nat /\ <<b.version, b.hash>> \in Nat \X Nat
  BY DEF PlainEvidence, EpochEvidence
<1>2. ConflictAt(kind, a, b) \in ConflictRecords
  BY <1>1 DEF ConflictAt, ConflictRecords
<1>3. QED
  BY <1>2 DEF ConflictsAt

\* The conflicts of two floors.
LEMMA FloorConflictShapes ==
    ASSUME NEW a \in EnvironmentFloors, NEW b \in EnvironmentFloors
    PROVE  FloorConflicts(a, b) \subseteq ConflictRecords
<1>1. ASSUME NEW v \in VariableFloors, NEW w \in VariableFloors
      PROVE  VariableConflicts(v, w) \subseteq ConflictRecords
  <2>1. /\ v.meta \in PlainEvidence /\ w.meta \in PlainEvidence
        /\ v.value \in EpochEvidence /\ w.value \in EpochEvidence
    BY <1>1, VariableShapes
  <2>2. {"variable-meta", "value", "undeletion"} \subseteq ConflictKinds
    BY DEF ConflictKinds
  <2>3. /\ ConflictsAt("variable-meta", v.meta, w.meta) \subseteq ConflictRecords
        /\ ConflictsAt("value", v.value, w.value) \subseteq ConflictRecords
    BY <2>1, <2>2, ConflictShapes
  <2>4. DeletionConflicts(v, w) \subseteq ConflictRecords
    BY <2>1, <2>2, ConflictShapes DEF DeletionConflicts
  <2>5. DeletionConflicts(w, v) \subseteq ConflictRecords
    BY <2>1, <2>2, ConflictShapes DEF DeletionConflicts
  <2>6. QED
    BY <2>3, <2>4, <2>5 DEF VariableConflicts
<1>2. VariableConflicts(a.variable, b.variable) \subseteq ConflictRecords
  BY <1>1 DEF EnvironmentFloors
<1>3. {"chain-head", "environment-meta", "manifest"} \subseteq ConflictKinds
  BY DEF ConflictKinds
<1>4. /\ ConflictsAt("chain-head", a.head, b.head) \subseteq ConflictRecords
      /\ ConflictsAt("environment-meta", a.meta, b.meta) \subseteq ConflictRecords
      /\ ConflictsAt("manifest", a.manifest, b.manifest) \subseteq ConflictRecords
  BY <1>3, ConflictShapes DEF EnvironmentFloors
<1>5. QED
  BY <1>2, <1>4 DEF FloorConflicts

\* What applying a record does to a state of the fold.
LEMMA AppliedShape ==
    ASSUME NEW state \in FoldStates, NEW record \in LogRecords
    PROVE  /\ Applied(state, record) \in FoldStates
           /\ state.conflicts \subseteq Applied(state, record).conflicts
           /\ Applied(state, record).floor =
                 IF record.r = "observation" THEN JoinedFloor(state.floor, record.floor)
                 ELSE state.floor
           /\ Applied(state, record).intents =
                 CASE record.r = "intent"     -> state.intents \cup {record.id}
                   [] record.r = "resolution" -> state.intents \ {record.id}
                   [] OTHER                   -> state.intents
           /\ record.r = "snapshot" => Applied(state, record) = state
<1>1. CASE record.r = "observation"
  <2>1. record.floor \in EnvironmentFloors
    BY <1>1, RecordKinds, FloorLogAssumption
  <2>2. state.floor \in EnvironmentFloors
    BY DEF FoldStates
  <2>3. /\ JoinedFloor(state.floor, record.floor) \in EnvironmentFloors
        /\ FloorConflicts(state.floor, record.floor) \subseteq ConflictRecords
    BY <2>1, <2>2, JoinedFloorShape, FloorConflictShapes
  <2>4. Applied(state, record) = [state EXCEPT
            !.floor = JoinedFloor(state.floor, record.floor),
            !.conflicts = state.conflicts \cup FloorConflicts(state.floor, record.floor)]
    BY <1>1 DEF Applied, FoldStates
  <2>5. QED
    BY <1>1, <2>3, <2>4 DEF FoldStates
<1>2. CASE record.r = "intent"
  BY <1>2, RecordKinds DEF Applied, FoldStates
<1>3. CASE record.r = "resolution"
  BY <1>3, RecordKinds DEF Applied, FoldStates
<1>4. CASE record.r = "snapshot"
  BY <1>4 DEF Applied
<1>5. QED
  BY <1>1, <1>2, <1>3, <1>4, RecordKinds

(***************************************************************************)
(* The invariants.                                                         *)
(***************************************************************************)

ProcessStates ==
    [phase : {"idle", "writing", "reading", "rereading"}, commit : Lines, line : Lines,
     attempts : Nat]

\* What has been written of the commit a process is busy with.
Busy(s) ==
    /\ s.phase # "idle" => s.commit \in Store!Commits
    /\ s.phase = "writing" => s.line = s.commit \/ (s.line \in Snapshots /\ Contains(log, s.commit))
    /\ s.phase \in {"reading", "rereading"} => Contains(log, s.commit)

\* Data the code can hold, and every acknowledged commit in the file.
FileInvariant ==
    /\ log \in Seq(Lines)
    /\ Records(log) \in Seq(LogRecords)
    /\ process \in [Processes -> ProcessStates]
    /\ \A p \in Processes : Busy(process[p])
    /\ acknowledged \subseteq Store!Commits
    /\ \A record \in acknowledged : Contains(log, record)

\* The true fold of a file: its states, the snapshots in the file and those on their way.
FoldOf(fold, records) ==
    /\ TrueFold(fold, records)
    /\ \A i \in 0..Len(records) : fold[i] \in FoldStates
    /\ SnapshotsTrue(fold, records)

OnItsWay(fold, records, line) ==
    line.r = "snapshot" => line.folded \in 0..Len(records) /\ line.state = fold[line.folded]

FoldInvariant ==
    \E fold : /\ FoldOf(fold, Records(log))
              /\ \A p \in Processes : OnItsWay(fold, Records(log), process[p].line)

\* The readers' fold is the last state of the true one.
LEMMA ReadersFoldOf ==
    ASSUME FileInvariant, NEW fold, FoldOf(fold, Records(log))
    PROVE  FoldRecords(log) = fold[Len(Records(log))] /\ FoldRecords(log) \in FoldStates
<1>1. Records(log) \in Seq(LogRecords) /\ Len(Records(log)) \in 0..Len(Records(log))
  BY DEF FileInvariant
<1>2. FoldRecords(log) = fold[Len(Records(log))]
  BY <1>1, ReadersFold DEF FoldOf
<1>3. QED
  BY <1>1, <1>2 DEF FoldOf

\* One line more: the true fold goes on by it, and so do all snapshots of it.
LEMMA FoldGoesOn ==
    ASSUME FileInvariant, NEW fold, FoldOf(fold, Records(log)), NEW line \in Lines,
           OnItsWay(fold, Records(log), line), log' = Append(log, line)
    PROVE  /\ log' \in Seq(Lines) /\ Records(log)' \in Seq(LogRecords)
           /\ \E longer : /\ FoldOf(longer, Records(log)')
                          /\ \A s : OnItsWay(fold, Records(log), s)
                                        => OnItsWay(longer, Records(log)', s)
           /\ FoldRecords(log)' = IF line = Torn THEN FoldRecords(log)
                                  ELSE Applied(FoldRecords(log), line)
<1>1. PICK old, new : old = Records(log) /\ new = Records(log')
  OBVIOUS
<1>2. log \in Seq(Lines) /\ old \in Seq(LogRecords) /\ Len(old) \in Nat /\ log' \in Seq(Lines)
  BY <1>1 DEF FileInvariant
<1>3. new = IF line.r = "torn" THEN old ELSE Append(old, line)
  BY <1>1, <1>2, RecordsAppended
<1>4. FoldRecords(log) = fold[Len(old)] /\ FoldRecords(log) \in FoldStates
  BY <1>1, ReadersFoldOf
<1>5. CASE line.r = "torn"
  <2>1. new = old /\ line = Torn
    BY <1>3, <1>5, RecordKinds
  <2>2. FoldRecords(log') = FoldRecords(log)
    BY <1>1, <2>1 DEF FoldRecords
  <2>3. QED
    BY <1>1, <1>2, <2>1, <2>2
<1>6. CASE line.r # "torn"
  <2>1. /\ new = Append(old, line) /\ line \in LogRecords /\ line # Torn
        /\ new \in Seq(LogRecords) /\ Len(new) = Len(old) + 1 /\ new[Len(new)] = line
        /\ \A i \in 1..Len(old) : new[i] = old[i]
    BY <1>2, <1>3, <1>6, RecordKinds DEF Lines
  <2>2. PICK longer : longer = [i \in 0..Len(new) |->
              IF i <= Len(old) THEN fold[i] ELSE Applied(fold[Len(old)], line)]
    OBVIOUS
  <2>3. /\ \A i \in 0..Len(old) : longer[i] = fold[i] /\ i \in 0..Len(new)
        /\ longer[Len(new)] = Applied(fold[Len(old)], line)
        /\ Len(new) \in 0..Len(new)
    BY <1>2, <2>1, <2>2
  <2>4. TrueFold(longer, new)
    <3>1. longer[0] = EmptyFold
      <4>1. fold[0] = EmptyFold /\ 0 \in 0..Len(old)
        BY <1>1, <1>2 DEF FoldOf, TrueFold
      <4>2. QED
        BY <2>3, <4>1
    <3>2. ASSUME NEW i \in 1..Len(new) PROVE longer[i] = Applied(longer[i - 1], new[i])
      <4>1. CASE i = Len(new)
        BY <1>2, <2>1, <2>3, <4>1
      <4>2. CASE i # Len(new)
        <5>1. i \in 1..Len(old) /\ i \in 0..Len(old) /\ i - 1 \in 0..Len(old)
          BY <1>2, <2>1, <4>2
        <5>2. fold[i] = Applied(fold[i - 1], old[i])
          BY <1>1, <5>1 DEF FoldOf, TrueFold
        <5>3. QED
          BY <2>1, <2>3, <5>1, <5>2
      <4>3. QED
        BY <4>1, <4>2
    <3>3. longer = [i \in 0..Len(new) |-> longer[i]]
      BY <2>2
    <3>4. QED
      BY <3>1, <3>2, <3>3 DEF TrueFold
  <2>5. \A i \in 0..Len(new) : longer[i] \in FoldStates
    <3>1. fold[Len(old)] \in FoldStates
      BY <1>4
    <3>2. Applied(fold[Len(old)], line) \in FoldStates
      BY <2>1, <3>1, AppliedShape
    <3>3. \A i \in 0..Len(new) : i \in 0..Len(old) \/ i = Len(new)
      BY <1>2, <2>1
    <3>4. QED
      BY <1>1, <2>3, <3>2, <3>3 DEF FoldOf
  <2>6. ASSUME NEW s, OnItsWay(fold, old, s) PROVE OnItsWay(longer, new, s)
    BY <2>3, <2>6 DEF OnItsWay
  <2>7. SnapshotsTrue(longer, new)
    <3>1. ASSUME NEW i \in 1..Len(new), new[i].r = "snapshot"
          PROVE  new[i].folded \in 0..i - 1 /\ new[i].state = longer[new[i].folded]
      <4>1. CASE i = Len(new)
        <5>1. line.folded \in 0..Len(old) /\ line.state = fold[line.folded]
          BY <1>1, <2>1, <3>1, <4>1 DEF OnItsWay
        <5>2. QED
          BY <1>2, <2>1, <2>3, <4>1, <5>1
      <4>2. CASE i # Len(new)
        <5>1. i \in 1..Len(old) /\ new[i] = old[i]
          BY <1>2, <2>1, <4>2
        <5>2. old[i].folded \in 0..i - 1 /\ old[i].state = fold[old[i].folded]
          BY <1>1, <3>1, <5>1 DEF FoldOf, SnapshotsTrue
        <5>3. old[i].folded \in 0..Len(old)
          BY <1>2, <5>1, <5>2
        <5>4. QED
          BY <2>3, <5>1, <5>2, <5>3
      <4>3. QED
        BY <4>1, <4>2
    <3>2. QED
      BY <3>1 DEF SnapshotsTrue
  <2>8. FoldOf(longer, new)
    BY <2>4, <2>5, <2>7 DEF FoldOf
  <2>9. FoldRecords(log') = longer[Len(new)]
    BY <1>1, <2>1, <2>4, <2>7, ReadersFold
  <2>10. QED
    BY <1>1, <1>2, <1>4, <2>1, <2>3, <2>6, <2>8, <2>9
<1>7. QED
  BY <1>5, <1>6

\* A file holds what it held, and the line it got.
LEMMA ContainsMore ==
    ASSUME NEW S, NEW lines \in Seq(S), NEW line \in S
    PROVE  /\ Contains(Append(lines, line), line)
           /\ \A x : Contains(lines, x) => Contains(Append(lines, line), x)
<1>1. /\ Len(Append(lines, line)) = Len(lines) + 1 /\ Len(lines) \in Nat
      /\ Append(lines, line)[Len(lines) + 1] = line
      /\ \A i \in 1..Len(lines) : Append(lines, line)[i] = lines[i]
  OBVIOUS
<1>2. Len(lines) + 1 \in 1..Len(lines) + 1 /\ 1..Len(lines) \subseteq 1..Len(lines) + 1
  BY <1>1
<1>3. QED
  BY <1>1, <1>2 DEF Contains

\* A request is for a commit.
LEMMA RequestsAreCommits ==
    ASSUME FileInvariant, FoldInvariant
    PROVE  Requests \subseteq Store!Commits
<1>1. FoldRecords(log).intents \subseteq IntentIds
  BY ReadersFoldOf DEF FoldInvariant, FoldStates
<1>2. QED
  BY <1>1 DEF Requests, Store!Commits, Store!Observation, Store!Intent, Store!Resolution,
              Observation, Intent, Resolution

\* The snapshot a process takes is of the true fold.
LEMMA SnapshotTaken ==
    ASSUME FileInvariant, NEW fold, FoldOf(fold, Records(log))
    PROVE  SnapshotOf(log) \in Snapshots /\ OnItsWay(fold, Records(log), SnapshotOf(log))
<1>1. Len(Records(log)) \in Nat /\ FoldRecords(log) \in FoldStates
  BY ReadersFoldOf DEF FileInvariant
<1>2. SnapshotOf(log) = Snapshot(Len(Records(log)), FoldRecords(log))
  BY DEF SnapshotOf
<1>3. QED
  BY <1>1, <1>2, ReadersFoldOf DEF Snapshots, Snapshot, OnItsWay

\* A step of the process p.
Steps(p) ==
    \/ \E record \in Requests : Begin(p, record)
    \/ Write(p)
    \/ \E fragment \in {Torn, LineOf(p)} : WriteShort(p, fragment)
    \/ ReadBack(p)
    \/ Compact(p)
    \/ ReadAgain(p)
    \/ Crash(p)

\* What it does to the file, to the process and to the acknowledged commits.
StepKeeps(p) ==
    /\ \/ log' = log
       \/ \E line \in {Torn, process[p].line} : log' = Append(log, line)
    /\ process' \in [Processes -> ProcessStates]
    /\ \A q \in Processes \ {p} : process'[q] = process[q]
    /\ \/ process'[p].line \in {Torn, process[p].line} \cup Store!Commits
       \/ log' = log /\ process'[p].line = SnapshotOf(log)
    /\ Busy(process[p])'
    /\ \/ acknowledged' = acknowledged
       \/ /\ acknowledged' = acknowledged \cup {process[p].commit}
          /\ process[p].commit \in Store!Commits /\ Contains(log', process[p].commit)

\* The idle process is one.
LEMMA IdleShape == Idle \in ProcessStates /\ Idle.phase = "idle" /\ Idle.line = Torn
BY DEF Idle, ProcessStates, Lines

\* A step writes the line of the process or a fragment of it, and what is acknowledged is
\* in the file.
LEMMA StepShape ==
    ASSUME FileInvariant, FoldInvariant, NEW p \in Processes, Steps(p)
    PROVE  StepKeeps(p)
<1>1. /\ process \in [Processes -> ProcessStates] /\ process[p] \in ProcessStates
      /\ Busy(process[p]) /\ log \in Seq(Lines) /\ process[p].line \in Lines
      /\ Torn \in Lines
  BY DEF FileInvariant, ProcessStates, Lines
<1>2. ASSUME NEW state \in ProcessStates, Become(p, state)
      PROVE  /\ process' \in [Processes -> ProcessStates] /\ process'[p] = state
             /\ \A q \in Processes \ {p} : process'[q] = process[q]
  BY <1>1, <1>2 DEF Become
<1>3. ASSUME NEW record \in Requests, Begin(p, record) PROVE StepKeeps(p)
  <2>1. PICK state : state = [phase |-> "writing", commit |-> record, line |-> record,
                              attempts |-> 0]
    OBVIOUS
  <2>2. record \in Store!Commits /\ record \in Lines
    BY RequestsAreCommits DEF Lines, LogRecords
  <2>3. state \in ProcessStates /\ Become(p, state)
    BY <1>3, <2>1, <2>2 DEF ProcessStates, Begin
  <2>4. Busy(process[p])'
    BY <1>2, <2>1, <2>2, <2>3 DEF Busy
  <2>5. process'[p].line \in Store!Commits
    BY <1>2, <2>1, <2>2, <2>3
  <2>6. log' = log /\ acknowledged' = acknowledged
    BY <1>3 DEF Begin
  <2>7. QED
    BY <1>2, <2>3, <2>4, <2>5, <2>6 DEF StepKeeps
<1>4. ASSUME Write(p) PROVE StepKeeps(p)
  <2>1. process[p].phase = "writing" /\ log' = Append(log, process[p].line)
    BY <1>4 DEF Write, Appended, LineOf
  <2>2. /\ process[p].commit \in Store!Commits
        /\ process[p].line = process[p].commit
           \/ (process[p].line \in Snapshots /\ Contains(log, process[p].commit))
    BY <1>1, <2>1 DEF Busy
  <2>3. Contains(log', process[p].commit)
    BY <1>1, <2>1, <2>2, ContainsMore
  <2>4. CASE AfterWrite(p) = "idle"
    <3>1. Become(p, Idle) /\ acknowledged' = acknowledged \cup {process[p].commit}
      BY <1>4, <2>4 DEF Write
    <3>2. process'[p] = Idle
      BY <1>2, <3>1, IdleShape
    <3>3. Busy(process[p])'
      BY <3>2, IdleShape DEF Busy
    <3>4. QED
      BY <1>2, <2>1, <2>2, <2>3, <3>1, <3>2, <3>3, IdleShape DEF StepKeeps
  <2>5. CASE AfterWrite(p) # "idle"
    <3>1. AfterWrite(p) \in {"rereading", "reading"}
      BY <2>5 DEF AfterWrite
    <3>2. PICK state : state = [process[p] EXCEPT !.phase = AfterWrite(p)]
      OBVIOUS
    <3>3. /\ state \in ProcessStates /\ state.phase \in {"rereading", "reading"}
          /\ state.commit = process[p].commit /\ state.line = process[p].line
      BY <1>1, <3>1, <3>2 DEF ProcessStates
    <3>4. Become(p, state) /\ acknowledged' = acknowledged
      BY <1>4, <2>5, <3>2 DEF Write
    <3>5. process'[p] = state
      BY <1>2, <3>3, <3>4
    <3>6. Busy(process[p])'
      BY <2>2, <2>3, <3>3, <3>5 DEF Busy
    <3>7. QED
      BY <1>2, <2>1, <3>3, <3>4, <3>5, <3>6 DEF StepKeeps
  <2>6. QED
    BY <2>4, <2>5
<1>5. ASSUME NEW fragment \in {Torn, LineOf(p)}, WriteShort(p, fragment) PROVE StepKeeps(p)
  <2>1. /\ fragment \in {Torn, process[p].line} /\ fragment \in Lines
        /\ log' = Append(log, fragment) /\ process[p].phase = "writing"
        /\ acknowledged' = acknowledged
    BY <1>1, <1>5 DEF WriteShort, Appended, LineOf
  <2>2. PICK state : state = IF process[p].attempts + 1 < MaxWriteAttempts
                             THEN [process[p] EXCEPT !.attempts = @ + 1] ELSE Idle
    OBVIOUS
  <2>3. Become(p, state)
    BY <1>5, <2>2 DEF WriteShort
  <2>4. /\ state \in ProcessStates
        /\ \/ state.phase = "idle" /\ state.line = Torn
           \/ /\ state.phase = "writing" /\ state.line = process[p].line
              /\ state.commit = process[p].commit
    BY <1>1, <2>1, <2>2, IdleShape DEF ProcessStates
  <2>5. process'[p] = state
    BY <1>2, <2>3, <2>4
  <2>6. Contains(log, process[p].commit) => Contains(log', process[p].commit)
    BY <1>1, <2>1, ContainsMore
  <2>7. Busy(process[p])'
    BY <1>1, <2>1, <2>4, <2>5, <2>6 DEF Busy
  <2>8. process'[p].line \in {Torn, process[p].line}
    BY <2>4, <2>5
  <2>9. QED
    BY <1>2, <2>1, <2>3, <2>4, <2>7, <2>8 DEF StepKeeps
<1>6. ASSUME Return(p), process[p].phase \in {"reading", "rereading"} PROVE StepKeeps(p)
  <2>1. Become(p, Idle) /\ log' = log
    BY <1>6 DEF Return
  <2>2. process'[p] = Idle
    BY <1>2, <2>1, IdleShape
  <2>3. Busy(process[p])'
    BY <2>2, IdleShape DEF Busy
  <2>4. process[p].commit \in Store!Commits /\ Contains(log', process[p].commit)
    BY <1>1, <1>6, <2>1 DEF Busy
  <2>5. QED
    BY <1>2, <1>6, <2>1, <2>2, <2>3, <2>4, IdleShape DEF StepKeeps, Return
<1>7. ASSUME Compact(p) PROVE StepKeeps(p)
  <2>1. PICK state : state = [process[p] EXCEPT !.phase = "writing", !.line = SnapshotOf(log),
                                                !.attempts = 0]
    OBVIOUS
  <2>2. SnapshotOf(log) \in Snapshots
    BY SnapshotTaken DEF FoldInvariant
  <2>3. /\ state \in ProcessStates /\ state.phase = "writing" /\ state.line = SnapshotOf(log)
        /\ state.commit = process[p].commit
    BY <1>1, <2>1, <2>2 DEF ProcessStates, Lines, LogRecords
  <2>4. Become(p, state) /\ log' = log /\ acknowledged' = acknowledged
    BY <1>7, <2>1 DEF Compact
  <2>5. process'[p] = state
    BY <1>2, <2>3, <2>4
  <2>6. process[p].commit \in Store!Commits /\ Contains(log, process[p].commit)
    BY <1>1, <1>7 DEF Busy, Compact
  <2>7. Busy(process[p])'
    BY <2>2, <2>3, <2>4, <2>5, <2>6 DEF Busy
  <2>8. QED
    BY <1>2, <2>3, <2>4, <2>5, <2>7 DEF StepKeeps
<1>8. ASSUME Crash(p) PROVE StepKeeps(p)
  <2>1. Become(p, Idle) /\ log' = log /\ acknowledged' = acknowledged
    BY <1>8 DEF Crash
  <2>2. process'[p] = Idle
    BY <1>2, <2>1, IdleShape
  <2>3. Busy(process[p])'
    BY <2>2, IdleShape DEF Busy
  <2>4. QED
    BY <1>2, <2>1, <2>2, <2>3, IdleShape DEF StepKeeps
<1>9. QED
  BY <1>3, <1>4, <1>5, <1>6, <1>7, <1>8 DEF Steps, ReadBack, ReadAgain

\* What a step does to the fold: a line that is a commit is applied, no other one matters.
FoldMoves ==
    \/ log' = log
    \/ \E line \in Lines :
          /\ log' = Append(log, line)
          /\ FoldRecords(log)' = IF line \in Store!Commits THEN Applied(FoldRecords(log), line)
                                 ELSE FoldRecords(log)

\* A step keeps the invariants, and moves the fold by at most one commit.
LEMMA StepHolds ==
    ASSUME FileInvariant, FoldInvariant, NEW p \in Processes, Steps(p)
    PROVE  FileInvariant' /\ FoldInvariant' /\ FoldMoves
<1>1. StepKeeps(p)
  BY StepShape
<1>2. PICK fold : /\ FoldOf(fold, Records(log))
                  /\ \A q \in Processes : OnItsWay(fold, Records(log), process[q].line)
  BY DEF FoldInvariant
<1>3. /\ log \in Seq(Lines) /\ Records(log) \in Seq(LogRecords) /\ Torn \in Lines
      /\ process[p].line \in Lines
      /\ FoldRecords(log) \in FoldStates
  BY <1>2, ReadersFoldOf DEF FileInvariant, ProcessStates, Lines
<1>4. /\ \A line : line \in {Torn} \cup Store!Commits => OnItsWay(fold, Records(log), line)
      /\ OnItsWay(fold, Records(log), SnapshotOf(log))
  BY <1>2, SnapshotTaken, RecordKinds DEF OnItsWay, Torn
<1>5. \A q \in Processes : OnItsWay(fold, Records(log), process'[q].line)
  <2>1. OnItsWay(fold, Records(log), process'[p].line)
    BY <1>1, <1>2, <1>4 DEF StepKeeps
  <2>2. QED
    BY <1>1, <1>2, <2>1 DEF StepKeeps
<1>6. /\ log' \in Seq(Lines) /\ Records(log)' \in Seq(LogRecords)
      /\ FoldInvariant' /\ FoldMoves
      /\ \A x : Contains(log, x) => Contains(log', x)
  <2>1. CASE log' = log
    BY <1>2, <1>3, <1>5, <2>1 DEF FoldInvariant, FoldMoves, FoldRecords
  <2>2. ASSUME NEW line \in {Torn, process[p].line}, log' = Append(log, line)
        PROVE  /\ log' \in Seq(Lines) /\ Records(log)' \in Seq(LogRecords)
               /\ FoldInvariant' /\ FoldMoves
               /\ \A x : Contains(log, x) => Contains(log', x)
    <3>1. line \in Lines /\ OnItsWay(fold, Records(log), line)
      BY <1>2, <1>3, <1>4, <2>2
    <3>2. /\ log' \in Seq(Lines) /\ Records(log)' \in Seq(LogRecords)
          /\ FoldRecords(log)' = IF line = Torn THEN FoldRecords(log)
                                 ELSE Applied(FoldRecords(log), line)
      BY <1>2, <2>2, <3>1, FoldGoesOn
    <3>3. PICK longer : /\ FoldOf(longer, Records(log)')
                        /\ \A s : OnItsWay(fold, Records(log), s)
                                      => OnItsWay(longer, Records(log)', s)
      BY <1>2, <2>2, <3>1, FoldGoesOn
    <3>4. FoldInvariant'
      BY <1>5, <3>3 DEF FoldInvariant
    <3>5. FoldMoves
      <4>1. CASE line = Torn
        <5>1. line \notin Store!Commits
          BY <4>1, RecordKinds DEF Torn
        <5>2. QED
          BY <2>2, <3>1, <3>2, <4>1, <5>1 DEF FoldMoves
      <4>2. CASE line # Torn
        <5>1. line \in LogRecords
          BY <3>1, <4>2 DEF Lines
        <5>2. CASE line.r = "snapshot"
          <6>1. line \notin Store!Commits /\ Applied(FoldRecords(log), line) = FoldRecords(log)
            BY <1>3, <5>1, <5>2, AppliedShape, RecordKinds
          <6>2. QED
            BY <2>2, <3>1, <3>2, <4>2, <6>1 DEF FoldMoves
        <5>3. CASE line.r # "snapshot"
          BY <2>2, <3>1, <3>2, <4>2, <5>1, <5>3, RecordKinds DEF FoldMoves
        <5>4. QED
          BY <5>2, <5>3
      <4>3. QED
        BY <4>1, <4>2
    <3>6. QED
      BY <1>3, <2>2, <3>1, <3>2, <3>4, <3>5, ContainsMore
  <2>3. QED
    BY <1>1, <2>1, <2>2 DEF StepKeeps
<1>7. process' \in [Processes -> ProcessStates]
  BY <1>1 DEF StepKeeps
<1>8. ASSUME NEW q \in Processes PROVE Busy(process[q])'
  <2>1. CASE q = p
    BY <1>1, <2>1 DEF StepKeeps
  <2>2. CASE q # p
    <3>1. process'[q] = process[q] /\ Busy(process[q])
      BY <1>1, <2>2 DEF StepKeeps, FileInvariant
    <3>2. QED
      BY <1>6, <3>1 DEF Busy
  <2>3. QED
    BY <2>1, <2>2
<1>9. /\ acknowledged' \subseteq Store!Commits
      /\ \A record \in acknowledged' : Contains(log', record)
  <2>1. /\ acknowledged \subseteq Store!Commits
        /\ \A record \in acknowledged : Contains(log, record)
    BY DEF FileInvariant
  <2>2. CASE acknowledged' = acknowledged
    BY <1>6, <2>1, <2>2
  <2>3. CASE acknowledged' # acknowledged
    <3>1. /\ acknowledged' = acknowledged \cup {process[p].commit}
          /\ process[p].commit \in Store!Commits /\ Contains(log', process[p].commit)
      BY <1>1, <2>3 DEF StepKeeps
    <3>2. QED
      BY <1>6, <2>1, <3>1
  <2>4. QED
    BY <2>2, <2>3
<1>10. QED
  BY <1>6, <1>7, <1>8, <1>9 DEF FileInvariant

\* In the beginning the file is empty.
LEMMA FileInitial == Init => FileInvariant /\ FoldInvariant /\ FoldRecords(log) = EmptyFold
<1> SUFFICES ASSUME Init PROVE FileInvariant /\ FoldInvariant /\ FoldRecords(log) = EmptyFold
  OBVIOUS
<1>1. log = <<>> /\ Records(log) = <<>> /\ acknowledged = {}
  BY NoRecords DEF Init
<1>2. process \in [Processes -> ProcessStates] /\ \A p \in Processes : process[p] = Idle
  BY IdleShape DEF Init
<1>3. FileInvariant
  <2>1. <<>> \in Seq(Lines) /\ <<>> \in Seq(LogRecords)
    OBVIOUS
  <2>2. \A p \in Processes : Busy(process[p])
    BY <1>2, IdleShape DEF Busy
  <2>3. QED
    BY <1>1, <1>2, <2>1, <2>2 DEF FileInvariant
<1>4. PICK fold : fold = [i \in 0..0 |-> EmptyFold]
  OBVIOUS
<1>5. FoldOf(fold, <<>>)
  <2>1. Len(<<>>) = 0 /\ fold[0] = EmptyFold /\ \A i \in 0..0 : fold[i] = EmptyFold
    BY <1>4
  <2>2. QED
    BY <1>4, <2>1, EmptyFoldShape DEF FoldOf, TrueFold, SnapshotsTrue
<1>6. FoldInvariant
  BY <1>1, <1>2, <1>5, IdleShape DEF FoldInvariant, OnItsWay, Torn
<1>7. FoldRecords(log) = EmptyFold
  <2>1. FoldRecords(log) = fold[Len(Records(log))]
    BY <1>1, <1>3, <1>5, ReadersFoldOf
  <2>2. Len(<<>>) = 0
    OBVIOUS
  <2>3. QED
    BY <1>1, <1>4, <2>1, <2>2
<1>8. QED
  BY <1>3, <1>6, <1>7

\* Every step keeps the invariants.
LEMMA FileStep ==
    ASSUME FileInvariant, FoldInvariant, [Next]_vars
    PROVE  FileInvariant' /\ FoldInvariant' /\ FoldMoves
<1>1. CASE Next
  BY <1>1, StepHolds DEF Next, Steps
<1>2. CASE UNCHANGED vars
  BY <1>2 DEF vars, FileInvariant, FoldInvariant, FoldMoves, Busy
<1>3. QED
  BY <1>1, <1>2

\* In every reachable state the readers' fold is the true one.
THEOREM FoldIsTrue == Spec => [](FileInvariant /\ FoldInvariant)
<1>1. Init => FileInvariant /\ FoldInvariant
  BY FileInitial
<1>2. FileInvariant /\ FoldInvariant /\ [Next]_vars => (FileInvariant /\ FoldInvariant)'
  BY FileStep
<1>3. QED
  BY <1>1, <1>2, PTL DEF Spec

(***************************************************************************)
(* The file implements the store, and keeps the evidence.                  *)
(***************************************************************************)

\* The store joins what a reader joins.
LEMMA SameStore ==
    /\ Store!EmptyFold = EmptyFold
    /\ \A state, record : Store!Applied(state, record) = Applied(state, record)
<1>1. Store!EmptyFold = EmptyFold
  BY DEF Store!EmptyFold, Store!BottomFloor, Store!NoEvidence, Store!NoEpochEvidence,
         Store!NoVariable, EmptyFold, BottomFloor, NoEvidence, NoEpochEvidence, NoVariable
<1>2. \A a, b : Store!Joined(a, b) = Joined(a, b)
  BY DEF Store!Joined, Joined
<1>3. \A a, b : Store!MaxOf(a, b) = MaxOf(a, b)
  BY DEF Store!MaxOf, MaxOf
<1>4. \A kind, a, b : Store!ConflictsAt(kind, a, b) = ConflictsAt(kind, a, b)
  BY DEF Store!ConflictsAt, ConflictsAt, Store!ConflictAt, ConflictAt, Store!Disagree, Disagree
<1>5. \A a, b : Store!DeletionConflicts(a, b) = DeletionConflicts(a, b)
  BY DEF Store!DeletionConflicts, DeletionConflicts, Store!ConflictAt, ConflictAt
<1>6. \A a, b : Store!JoinedVariable(a, b) = JoinedVariable(a, b)
  BY <1>2 DEF Store!JoinedVariable, JoinedVariable
<1>7. \A a, b : Store!VariableConflicts(a, b) = VariableConflicts(a, b)
  BY <1>4, <1>5 DEF Store!VariableConflicts, VariableConflicts
<1>8. \A a, b : Store!JoinedFloor(a, b) = JoinedFloor(a, b)
  BY <1>2, <1>3, <1>6 DEF Store!JoinedFloor, JoinedFloor
<1>9. \A a, b : Store!FloorConflicts(a, b) = FloorConflicts(a, b)
  BY <1>4, <1>7 DEF Store!FloorConflicts, FloorConflicts
<1>10. \A state, record : Store!Applied(state, record) = Applied(state, record)
  BY <1>8, <1>9 DEF Store!Applied, Applied
<1>11. QED
  BY <1>1, <1>10

\* However many processes append, fold and compact, in whatever order and over torn lines,
\* rewrites and crashes, each line joins one commit to what the file yields or changes
\* nothing (readAndFold and mutate in floor-log.ts).
THEOREM LogRefinesStore == Spec => FoldIsStore
<1>1. Init => Store!Init
  BY FileInitial, SameStore DEF Store!Init
<1>2. FileInvariant /\ FoldInvariant /\ [Next]_vars => [Store!Next]_(FoldRecords(log))
  <2> SUFFICES ASSUME FileInvariant, FoldInvariant, [Next]_vars
               PROVE  [Store!Next]_(FoldRecords(log))
    OBVIOUS
  <2>1. FoldMoves
    BY FileStep
  <2>2. \/ FoldRecords(log)' = FoldRecords(log)
        \/ \E record \in Store!Commits : FoldRecords(log)' = Applied(FoldRecords(log), record)
    BY <2>1 DEF FoldMoves, FoldRecords
  <2>3. QED
    BY <2>2, SameStore DEF Store!Next, Store!Commit
<1>3. QED
  BY <1>1, <1>2, FoldIsTrue, PTL DEF Spec, FoldIsStore, Store!Spec

\* A conflict that one reader was shown is shown to every later one, whatever joins and
\* compactions follow (the snapshot record in floor-log.ts).
THEOREM EvidenceIsKept == Spec => EvidenceKept
<1>1. FileInvariant /\ FoldInvariant /\ [Next]_vars
          => FoldRecords(log).conflicts \subseteq FoldRecords(log)'.conflicts
  <2> SUFFICES ASSUME FileInvariant, FoldInvariant, [Next]_vars
               PROVE  FoldRecords(log).conflicts \subseteq FoldRecords(log)'.conflicts
    OBVIOUS
  <2>1. FoldMoves /\ FoldRecords(log) \in FoldStates
    BY FileStep, ReadersFoldOf DEF FoldInvariant
  <2>2. \/ FoldRecords(log)' = FoldRecords(log)
        \/ \E record \in LogRecords : FoldRecords(log)' = Applied(FoldRecords(log), record)
    BY <2>1 DEF FoldMoves, FoldRecords, LogRecords
  <2>3. QED
    BY <2>1, <2>2, AppliedShape
<1>2. QED
  BY <1>1, FoldIsTrue, PTL DEF Spec, EvidenceKept

(***************************************************************************)
(* Acknowledged commits.                                                   *)
(***************************************************************************)

\* What a joins in from b it has.
LEMMA JoinedAbsorbs ==
    /\ \A a, b \in PlainEvidence : Joined(Joined(a, b), b) = Joined(a, b)
    /\ \A a, b \in EpochEvidence : Joined(Joined(a, b), b) = Joined(a, b)
BY DEF Joined, PlainEvidence, EpochEvidence

\* What a has of b, it goes on having.
LEMMA JoinedKeeps ==
    /\ \A a, b, c \in PlainEvidence : Joined(a, b) = a => Joined(Joined(a, c), b) = Joined(a, c)
    /\ \A a, b, c \in EpochEvidence : Joined(a, b) = a => Joined(Joined(a, c), b) = Joined(a, c)
BY DEF Joined, PlainEvidence, EpochEvidence

Live == {"declared", "active"}

\* The join of two floors of a variable, by what they say of it.
LEMMA JoinedVariableCases ==
    ASSUME NEW a \in VariableFloors, NEW b \in VariableFloors
    PROVE  /\ a.status = "unseen" => JoinedVariable(a, b) = b
           /\ b.status = "unseen" => JoinedVariable(a, b) = a
           /\ a.status = "deleted" /\ b.status = "deleted" =>
                 JoinedVariable(a, b) =
                    [status |-> "deleted", value |-> a.value, meta |-> Joined(a.meta, b.meta)]
           /\ a.status = "deleted" /\ b.status \in Live => JoinedVariable(a, b) = a
           /\ a.status \in Live /\ b.status = "deleted" => JoinedVariable(a, b) = b
           /\ a.status \in Live /\ b.status \in Live =>
                 JoinedVariable(a, b) =
                    [status |-> IF "active" \in {a.status, b.status} THEN "active" ELSE "declared",
                     value |-> Joined(a.value, b.value), meta |-> Joined(a.meta, b.meta)]
<1>1. a.status = "unseen" => JoinedVariable(a, b) = b
  BY VariableShapes DEF JoinedVariable
<1>2. b.status = "unseen" => JoinedVariable(a, b) = a
  BY VariableShapes DEF JoinedVariable
<1>3. ASSUME a.status = "deleted", b.status = "deleted"
      PROVE  JoinedVariable(a, b) =
                [status |-> "deleted", value |-> a.value, meta |-> Joined(a.meta, b.meta)]
  <2>1. JoinedVariable(a, b) = [a EXCEPT !.meta = Joined(a.meta, b.meta)]
    BY <1>3 DEF JoinedVariable
  <2>2. a = [status |-> "deleted", value |-> a.value, meta |-> a.meta]
    BY <1>3, VariableShapes
  <2>3. QED
    BY <2>1, <2>2
<1>4. /\ a.status = "deleted" /\ b.status \in Live => JoinedVariable(a, b) = a
      /\ a.status \in Live /\ b.status = "deleted" => JoinedVariable(a, b) = b
  BY DEF JoinedVariable, Live
<1>5. a.status \in Live /\ b.status \in Live =>
         JoinedVariable(a, b) =
            [status |-> IF "active" \in {a.status, b.status} THEN "active" ELSE "declared",
             value |-> Joined(a.value, b.value), meta |-> Joined(a.meta, b.meta)]
  BY DEF JoinedVariable, Live
<1>6. QED
  BY <1>1, <1>2, <1>3, <1>4, <1>5

\* The floor of a variable has what it joined in.
LEMMA VariableAbsorbs ==
    ASSUME NEW a \in VariableFloors, NEW b \in VariableFloors
    PROVE  JoinedVariable(JoinedVariable(a, b), b) = JoinedVariable(a, b)
<1>1. PICK j \in VariableFloors : j = JoinedVariable(a, b)
  BY JoinedVariableShape
<1>2. /\ a.value \in EpochEvidence /\ a.meta \in PlainEvidence
      /\ a.status \in {"unseen", "deleted"} \cup Live
      /\ b.value \in EpochEvidence /\ b.meta \in PlainEvidence
      /\ b.status \in {"unseen", "deleted"} \cup Live
      /\ b = [status |-> b.status, value |-> b.value, meta |-> b.meta]
  BY VariableShapes DEF Live
<1>3. /\ Joined(b.value, b.value) = b.value /\ Joined(b.meta, b.meta) = b.meta
      /\ Joined(Joined(a.value, b.value), b.value) = Joined(a.value, b.value)
      /\ Joined(Joined(a.meta, b.meta), b.meta) = Joined(a.meta, b.meta)
  BY <1>2, JoinedAbsorbs, JoinedShape
<1>4. JoinedVariable(b, b) = b
  BY <1>2, <1>3, JoinedVariableCases DEF Live
<1>5. CASE b.status = "unseen"
  BY <1>1, <1>5, JoinedVariableCases
<1>6. CASE a.status = "unseen"
  BY <1>4, <1>6, JoinedVariableCases
<1>7. CASE a.status \in Live /\ b.status = "deleted"
  BY <1>4, <1>7, JoinedVariableCases
<1>8. CASE a.status = "deleted" /\ b.status \in Live
  BY <1>8, JoinedVariableCases
<1>9. CASE a.status = "deleted" /\ b.status = "deleted"
  <2>1. j = [status |-> "deleted", value |-> a.value, meta |-> Joined(a.meta, b.meta)]
    BY <1>1, <1>9, JoinedVariableCases
  <2>2. JoinedVariable(j, b) =
            [status |-> "deleted", value |-> j.value, meta |-> Joined(j.meta, b.meta)]
    BY <1>9, <2>1, JoinedVariableCases
  <2>3. QED
    BY <1>1, <1>3, <2>1, <2>2
<1>10. CASE a.status \in Live /\ b.status \in Live
  <2>1. j = [status |-> IF "active" \in {a.status, b.status} THEN "active" ELSE "declared",
             value |-> Joined(a.value, b.value), meta |-> Joined(a.meta, b.meta)]
    BY <1>1, <1>10, JoinedVariableCases
  <2>2. j.status \in Live
    BY <2>1 DEF Live
  <2>3. JoinedVariable(j, b) =
            [status |-> IF "active" \in {j.status, b.status} THEN "active" ELSE "declared",
             value |-> Joined(j.value, b.value), meta |-> Joined(j.meta, b.meta)]
    BY <1>10, <2>2, JoinedVariableCases
  <2>4. QED
    BY <1>1, <1>3, <1>10, <2>1, <2>3 DEF Live
<1>11. QED
  BY <1>2, <1>5, <1>6, <1>7, <1>8, <1>9, <1>10

\* What the floor of a variable has, it goes on having.
LEMMA VariableKeeps ==
    ASSUME NEW a \in VariableFloors, NEW b \in VariableFloors, NEW c \in VariableFloors,
           JoinedVariable(a, b) = a
    PROVE  JoinedVariable(JoinedVariable(a, c), b) = JoinedVariable(a, c)
<1>1. PICK j \in VariableFloors : j = JoinedVariable(a, c)
  BY JoinedVariableShape
<1>2. ASSUME NEW v \in {a, b, c}
      PROVE  /\ v.value \in EpochEvidence /\ v.meta \in PlainEvidence
             /\ v.status \in {"unseen", "deleted"} \cup Live
             /\ v = [status |-> v.status, value |-> v.value, meta |-> v.meta]
             /\ v.status = "unseen" <=> v = NoVariable
  BY VariableShapes DEF Live
<1>3. CASE b.status = "unseen"
  BY <1>1, <1>3, JoinedVariableCases
<1>4. CASE b.status # "unseen"
  <2>1. a.status # "unseen"
    BY <1>4, JoinedVariableCases
  <2>2. CASE c.status = "unseen"
    BY <2>2, JoinedVariableCases
  <2>3. CASE a.status = "deleted" /\ c.status \in Live
    BY <2>3, JoinedVariableCases
  <2>4. CASE b.status = "deleted" /\ a.status \in Live
    <3>1. a = b
      BY <2>4, JoinedVariableCases
    <3>2. QED
      BY <2>4, <3>1 DEF Live
  <2>5. CASE a.status = "deleted" /\ c.status = "deleted"
    <3>1. j = [status |-> "deleted", value |-> a.value, meta |-> Joined(a.meta, c.meta)]
      BY <1>1, <2>5, JoinedVariableCases
    <3>2. CASE b.status \in Live
      BY <1>1, <3>1, <3>2, JoinedVariableCases
    <3>3. CASE b.status = "deleted"
      <4>1. Joined(a.meta, b.meta) = a.meta
        <5>1. a = [status |-> "deleted", value |-> a.value, meta |-> Joined(a.meta, b.meta)]
          BY <2>5, <3>3, JoinedVariableCases
        <5>2. QED
          BY <5>1
      <4>2. Joined(Joined(a.meta, c.meta), b.meta) = Joined(a.meta, c.meta)
        BY <1>2, <4>1, JoinedKeeps
      <4>3. JoinedVariable(j, b) =
                [status |-> "deleted", value |-> j.value, meta |-> Joined(j.meta, b.meta)]
        BY <3>1, <3>3, JoinedVariableCases
      <4>4. QED
        BY <1>1, <3>1, <4>2, <4>3
    <3>4. QED
      BY <1>2, <1>4, <3>2, <3>3
  <2>6. CASE a.status \in Live /\ b.status \in Live /\ c.status = "deleted"
    <3>1. j = c
      BY <1>1, <2>6, JoinedVariableCases
    <3>2. QED
      BY <1>1, <2>6, <3>1, JoinedVariableCases
  <2>7. CASE a.status \in Live /\ b.status \in Live /\ c.status \in Live
    <3>1. a = [status |-> IF "active" \in {a.status, b.status} THEN "active" ELSE "declared",
               value |-> Joined(a.value, b.value), meta |-> Joined(a.meta, b.meta)]
      BY <2>7, JoinedVariableCases
    <3>2. /\ b.status = "active" => a.status = "active"
          /\ Joined(a.value, b.value) = a.value /\ Joined(a.meta, b.meta) = a.meta
      BY <3>1
    <3>3. /\ Joined(Joined(a.value, c.value), b.value) = Joined(a.value, c.value)
          /\ Joined(Joined(a.meta, c.meta), b.meta) = Joined(a.meta, c.meta)
      BY <1>2, <3>2, JoinedKeeps
    <3>4. j = [status |-> IF "active" \in {a.status, c.status} THEN "active" ELSE "declared",
               value |-> Joined(a.value, c.value), meta |-> Joined(a.meta, c.meta)]
      BY <1>1, <2>7, JoinedVariableCases
    <3>5. j.status \in Live
      BY <3>4 DEF Live
    <3>6. JoinedVariable(j, b) =
              [status |-> IF "active" \in {j.status, b.status} THEN "active" ELSE "declared",
               value |-> Joined(j.value, b.value), meta |-> Joined(j.meta, b.meta)]
      BY <2>7, <3>5, JoinedVariableCases
    <3>7. (IF "active" \in {j.status, b.status} THEN "active" ELSE "declared") = j.status
      BY <2>7, <3>2, <3>4 DEF Live
    <3>8. QED
      BY <1>1, <3>3, <3>4, <3>6, <3>7
  <2>8. QED
    BY <1>2, <1>4, <2>1, <2>2, <2>3, <2>4, <2>5, <2>6, <2>7
<1>5. QED
  BY <1>3, <1>4

\* A floor has what it joined in.
LEMMA FloorAbsorbs ==
    ASSUME NEW a \in EnvironmentFloors, NEW b \in EnvironmentFloors
    PROVE  JoinedFloor(JoinedFloor(a, b), b) = JoinedFloor(a, b)
<1>1. /\ Joined(Joined(a.head, b.head), b.head) = Joined(a.head, b.head)
      /\ Joined(Joined(a.meta, b.meta), b.meta) = Joined(a.meta, b.meta)
      /\ Joined(Joined(a.manifest, b.manifest), b.manifest) = Joined(a.manifest, b.manifest)
  BY JoinedAbsorbs DEF EnvironmentFloors
<1>2. \A m, n \in Nat : MaxOf(MaxOf(m, n), n) = MaxOf(m, n)
  BY DEF MaxOf
<1>3. /\ MaxOf(MaxOf(a.pullEpoch, b.pullEpoch), b.pullEpoch) = MaxOf(a.pullEpoch, b.pullEpoch)
      /\ MaxOf(MaxOf(a.observedEpoch, b.observedEpoch), b.observedEpoch)
            = MaxOf(a.observedEpoch, b.observedEpoch)
  BY <1>2 DEF EnvironmentFloors
<1>4. JoinedVariable(JoinedVariable(a.variable, b.variable), b.variable)
          = JoinedVariable(a.variable, b.variable)
  BY VariableAbsorbs DEF EnvironmentFloors
<1>5. QED
  BY <1>1, <1>3, <1>4 DEF JoinedFloor

\* What a floor has, it goes on having.
LEMMA FloorKeeps ==
    ASSUME NEW a \in EnvironmentFloors, NEW b \in EnvironmentFloors, NEW c \in EnvironmentFloors,
           JoinedFloor(a, b) = a
    PROVE  JoinedFloor(JoinedFloor(a, c), b) = JoinedFloor(a, c)
<1>1. /\ Joined(a.head, b.head) = a.head /\ Joined(a.meta, b.meta) = a.meta
      /\ Joined(a.manifest, b.manifest) = a.manifest
      /\ MaxOf(a.pullEpoch, b.pullEpoch) = a.pullEpoch
      /\ MaxOf(a.observedEpoch, b.observedEpoch) = a.observedEpoch
      /\ JoinedVariable(a.variable, b.variable) = a.variable
  BY DEF JoinedFloor
<1>2. /\ Joined(Joined(a.head, c.head), b.head) = Joined(a.head, c.head)
      /\ Joined(Joined(a.meta, c.meta), b.meta) = Joined(a.meta, c.meta)
      /\ Joined(Joined(a.manifest, c.manifest), b.manifest) = Joined(a.manifest, c.manifest)
  BY <1>1, JoinedKeeps DEF EnvironmentFloors
<1>3. \A m, n, k \in Nat : MaxOf(m, n) = m => MaxOf(MaxOf(m, k), n) = MaxOf(m, k)
  BY DEF MaxOf
<1>4. /\ MaxOf(MaxOf(a.pullEpoch, c.pullEpoch), b.pullEpoch) = MaxOf(a.pullEpoch, c.pullEpoch)
      /\ MaxOf(MaxOf(a.observedEpoch, c.observedEpoch), b.observedEpoch)
            = MaxOf(a.observedEpoch, c.observedEpoch)
  BY <1>1, <1>3 DEF EnvironmentFloors
<1>5. JoinedVariable(JoinedVariable(a.variable, c.variable), b.variable)
          = JoinedVariable(a.variable, c.variable)
  BY <1>1, VariableKeeps DEF EnvironmentFloors
<1>6. QED
  BY <1>2, <1>4, <1>5 DEF JoinedFloor

\* The fold has the record.
Held(record) ==
    /\ record.r = "observation" =>
          JoinedFloor(FoldRecords(log).floor, record.floor) = FoldRecords(log).floor
    /\ record.r = "intent" =>
          record.id \in FoldRecords(log).intents \/ Contains(log, Resolution(record.id))

\* It has every commit in the file, acknowledged or not.
SurvivalInvariant == \A record \in Store!Commits : Contains(log, record) => Held(record)

\* A line more takes no commit away.
LEMMA SurvivalStep ==
    ASSUME FileInvariant, FoldInvariant, SurvivalInvariant, [Next]_vars
    PROVE  SurvivalInvariant'
<1>1. CASE log' = log
  BY <1>1 DEF SurvivalInvariant, Held, FoldRecords
<1>2. ASSUME NEW line \in Lines, log' = Append(log, line),
             FoldRecords(log)' = IF line \in Store!Commits THEN Applied(FoldRecords(log), line)
                                 ELSE FoldRecords(log),
             NEW record \in Store!Commits, Contains(log', record)
      PROVE  Held(record)'
  <2>1. PICK old, new : old = FoldRecords(log) /\ new = FoldRecords(log)'
    OBVIOUS
  <2>2. log \in Seq(Lines) /\ old \in FoldStates /\ old.floor \in EnvironmentFloors
    BY <2>1, ReadersFoldOf DEF FileInvariant, FoldInvariant, FoldStates
  <2>3. \A x : Contains(log, x) => Contains(log', x)
    BY <1>2, <2>2, ContainsMore
  <2>4. Contains(log', line)
    BY <1>2, <2>2, ContainsMore
  <2>5. Contains(log, record) \/ record = line
    <3>1. PICK i \in 1..Len(log') : log'[i] = record
      BY <1>2 DEF Contains
    <3>2. (i \in 1..Len(log) /\ log[i] = record) \/ (i = Len(log) + 1 /\ record = line)
      BY <1>2, <2>2, <3>1
    <3>3. QED
      BY <3>2 DEF Contains
  <2>6. ASSUME record.r = "observation" PROVE JoinedFloor(new.floor, record.floor) = new.floor
    <3>1. record.floor \in EnvironmentFloors
      BY <2>6, RecordKinds, FloorLogAssumption
    <3>2. CASE record = line
      <4>1. new.floor = JoinedFloor(old.floor, record.floor)
        BY <1>2, <2>1, <2>2, <2>6, <3>2, AppliedShape DEF LogRecords
      <4>2. QED
        BY <2>2, <3>1, <4>1, FloorAbsorbs
    <3>3. CASE record # line
      <4>1. JoinedFloor(old.floor, record.floor) = old.floor
        BY <1>2, <2>1, <2>5, <2>6, <3>3 DEF SurvivalInvariant, Held
      <4>2. CASE line \in Store!Commits /\ line.r = "observation"
        <5>1. line.floor \in EnvironmentFloors
          BY <4>2, RecordKinds, FloorLogAssumption
        <5>2. new.floor = JoinedFloor(old.floor, line.floor)
          BY <1>2, <2>1, <2>2, <4>2, AppliedShape DEF LogRecords
        <5>3. QED
          BY <2>2, <3>1, <4>1, <5>1, <5>2, FloorKeeps
      <4>3. CASE ~(line \in Store!Commits /\ line.r = "observation")
        <5>1. new.floor = old.floor
          BY <1>2, <2>1, <2>2, <4>3, AppliedShape DEF LogRecords
        <5>2. QED
          BY <4>1, <5>1
      <4>4. QED
        BY <4>2, <4>3
    <3>4. QED
      BY <3>2, <3>3
  <2>7. ASSUME record.r = "intent"
        PROVE  record.id \in new.intents \/ Contains(log', Resolution(record.id))
    <3>1. CASE record = line
      BY <1>2, <2>1, <2>2, <2>7, <3>1, AppliedShape DEF LogRecords
    <3>2. CASE record # line
      <4>1. record.id \in old.intents \/ Contains(log, Resolution(record.id))
        BY <1>2, <2>1, <2>5, <2>7, <3>2 DEF SurvivalInvariant, Held
      <4>2. CASE line \in Store!Commits /\ line.r = "resolution" /\ line.id = record.id
        <5>1. line = Resolution(record.id)
          BY <4>2, RecordKinds
        <5>2. QED
          BY <2>4, <5>1
      <4>3. CASE ~(line \in Store!Commits /\ line.r = "resolution" /\ line.id = record.id)
        <5>1. record.id \in old.intents => record.id \in new.intents
          <6>1. CASE line \in Store!Commits
            <7>1. new = Applied(old, line) /\ line \in LogRecords
              BY <1>2, <2>1, <6>1 DEF LogRecords
            <7>2. /\ line.r = "intent" => new.intents = old.intents \cup {line.id}
                  /\ line.r = "resolution" => new.intents = old.intents \ {line.id}
                  /\ line.r \notin {"intent", "resolution"} => new.intents = old.intents
              BY <2>2, <7>1, AppliedShape
            <7>3. QED
              BY <4>3, <6>1, <7>2
          <6>2. CASE line \notin Store!Commits
            BY <1>2, <2>1, <6>2
          <6>3. QED
            BY <6>1, <6>2
        <5>2. QED
          BY <2>3, <4>1, <5>1
      <4>4. QED
        BY <4>2, <4>3
    <3>3. QED
      BY <3>1, <3>2
  <2>8. QED
    BY <2>1, <2>6, <2>7 DEF Held
<1>3. QED
  BY <1>1, <1>2, FileStep DEF FoldMoves, SurvivalInvariant

\* A commit that returned is never lost: what the log yields has the observation, and the
\* intent is open until somebody wrote its resolution, through torn lines, rewrites,
\* crashes and compactions (appendAll and appendRecords in floor-log.ts).
THEOREM AcknowledgedNeverLost == Spec => []AcknowledgedSurvives
<1>1. Init => SurvivalInvariant
  <2> SUFFICES ASSUME Init PROVE SurvivalInvariant
    OBVIOUS
  <2>1. \A x : ~ Contains(log, x)
    BY DEF Init, Contains
  <2>2. QED
    BY <2>1 DEF SurvivalInvariant
<1>2. FileInvariant /\ FoldInvariant /\ SurvivalInvariant /\ [Next]_vars => SurvivalInvariant'
  BY SurvivalStep
<1>3. FileInvariant /\ SurvivalInvariant => AcknowledgedSurvives
  BY DEF FileInvariant, SurvivalInvariant, Held, AcknowledgedSurvives
<1>4. QED
  BY <1>1, <1>2, <1>3, FoldIsTrue, PTL DEF Spec

================================================================================
