----------------------------- MODULE PullProofs -----------------------------
(***************************************************************************)
(* Theorems about the commands that pull, for any number of commands,       *)
(* writes and lies.                                                        *)
(*                                                                         *)
(* Of a server that lies as it likes: whatever it serves was signed by an   *)
(* honest member or by a colluding one, so evidence that is joined without *)
(* a conflict only moves forward, and the store is the join of what was    *)
(* accepted but for the head of the chain.  What a command accepts then    *)
(* follows what it was promised when it began.                             *)
(*                                                                         *)
(* Of a server that has not lied: what commands hold is below what it      *)
(* serves, so that what is evidence against it comes of a race.            *)
(***************************************************************************)
EXTENDS PullVerification, FiniteSetTheorems, TLAPS

(***************************************************************************)
(* What an honest server has served, in the order in which it served it.   *)
(***************************************************************************)

Statuses == {"declared", "active", "deleted"}
SignedMetas == [version : Nat \ {0}, hash : {1}]
SignedManifests == [version : Nat \ {0}, epoch : Nat \ {0}, hash : {1}, prev : {1}, head : Nat]
SignedValues == [version : Nat \ {0}, epoch : Nat \ {0}, hash : {1}, head : Nat]
Enumerations == [seq : Nat, value : PlainEvidence]

Distributions ==
    [status : Statuses, meta : SignedMetas, value : SignedValues \cup {NoValue},
     manifest : SignedManifests, snapshot : Enumerations]

ValueMatchesStatus(d) == d.status = "active" <=> d.value # NoValue

(* y may be what is served some time after x was. *)
Later(x, y) ==
    /\ x.snapshot.seq <= y.snapshot.seq
    /\ x.manifest.version < y.manifest.version \/ x.manifest = y.manifest
    /\ x.manifest.epoch <= y.manifest.epoch
    /\ \/ x.status = "deleted" /\ y.status = "deleted" /\ x.meta = y.meta
       \/ x.status # "deleted" /\ y.status = "deleted" /\ x.meta.version < y.meta.version
       \/ /\ x.status # "deleted" /\ y.status # "deleted"
          /\ x.status = "active" => y.status = "active"
          /\ x.meta.version <= y.meta.version
    /\ y.status = "active" =>
          \/ x.status = "active" /\ x.value = y.value
          \/ /\ x.status = "active" => x.value.version < y.value.version
             /\ x.snapshot.seq <= y.value.head

(* What two distributions of one server have in common, whichever came first. *)
Compatible(x, y) ==
    /\ x.manifest.version = y.manifest.version => x.manifest = y.manifest
    /\ x.status = "active" /\ y.status = "active" /\ x.value.version = y.value.version
          => x.value = y.value
    /\ x.status = "deleted" /\ y.status = "deleted" => x.meta = y.meta
    /\ x.status = "deleted" /\ y.status # "deleted" => y.meta.version < x.meta.version
    /\ x.status # "deleted" /\ y.status = "deleted" => x.meta.version < y.meta.version

(***************************************************************************)
(* Evidence that was signed by somebody: of an honest member, when its     *)
(* hash is 1, or of a colluding one.                                       *)
(***************************************************************************)

Colluding(evidence) == evidence.version > 0 /\ evidence.epoch > 0 /\ evidence.hash = 1 + evidence.epoch

GenuineManifest(history, m) ==
    /\ m \in EpochEvidence
    /\ \/ m = NoEpochEvidence
       \/ Colluding(m)
       \/ \E x \in history : m = Evidence(x.manifest)

GenuineValue(history, v) ==
    /\ v \in EpochEvidence
    /\ v.version > 0
    /\ \/ Colluding(v)
       \/ \E x \in history : x.status = "active" /\ v = Evidence(x.value)

GenuineVariable(history, v) ==
    \/ v = NoVariable
    \/ /\ v \in VariableFloors
       /\ v.status \in Statuses
       /\ IF v.status = "active" THEN GenuineValue(history, v.value) ELSE v.value = NoEpochEvidence
       /\ \E x \in history : v.meta = x.meta /\ (v.status = "deleted" <=> x.status = "deleted")

Heads == [version : Nat \ {0}, hash : {1}] \cup {NoEvidence}

GenuineFloor(history, f) ==
    /\ f \in EnvironmentFloors
    /\ f.head \in Heads
    /\ f.meta \in {NoEvidence, EnvironmentMeta}
    /\ GenuineManifest(history, f.manifest)
    /\ GenuineVariable(history, f.variable)

GenuineResponse(history, d) ==
    /\ GenuineManifest(history, Evidence(d.manifest)) /\ d.manifest.version > 0
    /\ GenuineVariable(history, VariableFloor(d)) /\ d.status \in Statuses
    /\ d.meta \in SignedMetas

(***************************************************************************)
(* The order of floors.                                                    *)
(***************************************************************************)

Follows(a, b) == a.version < b.version \/ a = b

FollowsVariable(a, b) ==
    \/ a = NoVariable
    \/ a.status = "deleted" /\ b = a
    \/ a.status \in {"declared", "active"} /\ b.status = "deleted" /\ a.meta.version < b.meta.version
    \/ /\ a.status \in {"declared", "active"} /\ b.status \in {"declared", "active"}
       /\ a.status = "active" => b.status = "active"
       /\ Follows(a.meta, b.meta)
       /\ Follows(a.value, b.value)

(* All of a floor but the head of the chain. *)
FollowsFloor(a, b) ==
    /\ a.pullEpoch <= b.pullEpoch
    /\ a.observedEpoch <= b.observedEpoch
    /\ Follows(a.meta, b.meta)
    /\ Follows(a.manifest, b.manifest)
    /\ FollowsVariable(a.variable, b.variable)

SameButHead(a, b) ==
    /\ a.pullEpoch = b.pullEpoch
    /\ a.observedEpoch = b.observedEpoch
    /\ a.meta = b.meta
    /\ a.manifest = b.manifest
    /\ a.variable = b.variable

(***************************************************************************)
(* An honest server.                                                       *)
(***************************************************************************)

EpochIn(entries, view) ==
    Cardinality({i \in 1 .. view : entries[i].op \in {"create", "rotate"}})

(* No checkpoint is ahead of the manifest or beside it, and the manifest is *)
(* attested or was signed under the epoch of its head.                      *)
ManifestAttested(entries, d) ==
    LET upTo == {i \in 1 .. d.snapshot.seq : entries[i].op = "checkpoint"} IN
    /\ \A i \in upTo :
          \/ entries[i].manifest.version < d.manifest.version
          \/ entries[i].manifest = Evidence(d.manifest)
    /\ \/ EpochIn(entries, d.manifest.head) = d.manifest.epoch
       \/ \E i \in upTo : entries[i].manifest = Evidence(d.manifest)

Attested(entries, d) ==
    LET s == d.snapshot.seq IN
    /\ s \in 2 .. Len(entries)
    /\ entries[s].op = "checkpoint"
    /\ entries[s].value = d.snapshot.value
    /\ entries[s].manifest.epoch = EpochIn(entries, s)
    /\ d.manifest.epoch = EpochIn(entries, s)
    /\ d.manifest.head <= s
    /\ d.status = "active" =>
          /\ d.value.head \in 1 .. s
          /\ d.value.epoch = EpochIn(entries, d.value.head)
          /\ \/ d.value.version > d.snapshot.value.version /\ d.value.head = s
             \/ Enumerated(d.value) = d.snapshot.value
    /\ d.snapshot.value.version > 0 => d.status \in {"active", "deleted"}
    /\ ManifestAttested(entries, d)

Entries ==
    {Entry("create"), Entry("rotate"), Entry("delete")}
      \cup [op : {"checkpoint"}, manifest : EpochEvidence, value : PlainEvidence]

(***************************************************************************)
(* Evidence and its order.                                                 *)
(***************************************************************************)

Recorded(history) ==
    /\ history \subseteq Distributions
    /\ \A x \in history : ValueMatchesStatus(x)
    /\ \A x \in history, y \in history : Compatible(x, y)

\* The parts of a distribution of an honest server.
LEMMA DistributionShape ==
    ASSUME NEW d \in Distributions
    PROVE  /\ d.status \in Statuses
           /\ d.meta \in SignedMetas /\ d.meta \in PlainEvidence /\ d.meta = [version |-> d.meta.version, hash |-> 1]
           /\ d.manifest \in SignedManifests
           /\ d.value \in SignedValues \cup {NoValue}
           /\ d.snapshot \in Enumerations
           /\ d = [status |-> d.status, meta |-> d.meta, value |-> d.value,
                   manifest |-> d.manifest, snapshot |-> d.snapshot]
BY DEF Distributions, Enumerations, SignedMetas, PlainEvidence

\* The numbers of a distribution.
LEMMA DistributionNumbers ==
    ASSUME NEW d \in Distributions
    PROVE  /\ d.meta.version \in Nat
           /\ d.manifest.version \in Nat /\ d.manifest.epoch \in Nat
           /\ d.value.version \in Nat /\ d.value.epoch \in Nat /\ d.value.head \in Nat
           /\ d.snapshot.seq \in Nat /\ d.snapshot.value \in PlainEvidence
<1>1. d.meta \in SignedMetas /\ d.manifest \in SignedManifests /\ d.snapshot \in Enumerations
  BY DistributionShape
<1>2. \A v \in SignedValues : v.version \in Nat /\ v.epoch \in Nat /\ v.head \in Nat
  BY DEF SignedValues
<1>3. NoValue.version \in Nat /\ NoValue.epoch \in Nat /\ NoValue.head \in Nat
  BY DEF NoValue
<1>4. d.value \in SignedValues \/ d.value = NoValue
  BY DistributionShape
<1>5. QED
  BY <1>1, <1>2, <1>3, <1>4 DEF SignedMetas, SignedManifests, Enumerations

\* What an honest member signs, as evidence.
LEMMA SignedEvidence ==
    /\ \A m \in SignedManifests :
          /\ Evidence(m) \in EpochEvidence /\ Evidence(m).version > 0 /\ Evidence(m).hash = 1
          /\ Evidence(m) = [version |-> m.version, epoch |-> m.epoch, hash |-> 1]
    /\ \A v \in SignedValues :
          /\ Evidence(v) \in EpochEvidence /\ Evidence(v).version > 0 /\ Evidence(v).hash = 1
          /\ Evidence(v) = [version |-> v.version, epoch |-> v.epoch, hash |-> 1]
          /\ v # NoValue
    /\ Evidence(NoValue) = NoEpochEvidence
BY DEF SignedManifests, SignedValues, Evidence, EpochEvidence, NoValue, NoEpochEvidence

\* The parts of the floor of a variable.
LEMMA VariableShape ==
    ASSUME NEW v \in VariableFloors
    PROVE  /\ v = [status |-> v.status, value |-> v.value, meta |-> v.meta]
           /\ v.status \in {"unseen"} \cup Statuses
           /\ v.value \in EpochEvidence /\ v.meta \in PlainEvidence
           /\ v.status = "unseen" <=> v = NoVariable
BY DEF VariableFloors, NoVariable, NoEpochEvidence, NoEvidence, EpochEvidence, PlainEvidence, Statuses

\* Of what was signed, version and hash determine the rest.
LEMMA ManifestDetermined ==
    ASSUME NEW history, Recorded(history), NEW a, NEW b,
           GenuineManifest(history, a), GenuineManifest(history, b),
           a.version = b.version, a.hash = b.hash
    PROVE  a = b
<1>1. /\ a \in EpochEvidence /\ a = [version |-> a.version, epoch |-> a.epoch, hash |-> a.hash]
      /\ b \in EpochEvidence /\ b = [version |-> b.version, epoch |-> b.epoch, hash |-> b.hash]
  BY DEF GenuineManifest, EpochEvidence
<1>2. \A x \in history : x.manifest \in SignedManifests
  BY DistributionShape DEF Recorded
<1>3. ASSUME NEW x \in history, a = Evidence(x.manifest), NEW y \in history, b = Evidence(y.manifest)
      PROVE  a = b
  <2>1. x.manifest.version = y.manifest.version
    BY <1>2, <1>3, SignedEvidence
  <2>2. x.manifest = y.manifest
    BY <2>1 DEF Recorded, Compatible
  <2>3. QED
    BY <1>3, <2>2
<1>4. \A x \in history : Evidence(x.manifest).hash = 1 /\ Evidence(x.manifest).version > 0
  BY <1>2, SignedEvidence
<1>5. CASE a = NoEpochEvidence
  BY <1>1, <1>4, <1>5 DEF GenuineManifest, Colluding, NoEpochEvidence, EpochEvidence
<1>6. CASE Colluding(a)
  <2>1. a.hash > 1 /\ a.version > 0
    BY <1>1, <1>6 DEF Colluding, EpochEvidence
  <2>2. Colluding(b)
    BY <1>4, <2>1 DEF GenuineManifest, NoEpochEvidence
  <2>3. a.epoch = b.epoch
    BY <1>1, <1>6, <2>2 DEF Colluding, EpochEvidence
  <2>4. QED
    BY <1>1, <2>3
<1>7. CASE \E x \in history : a = Evidence(x.manifest)
  BY <1>1, <1>3, <1>4, <1>7 DEF GenuineManifest, Colluding, NoEpochEvidence, EpochEvidence
<1>8. QED
  BY <1>5, <1>6, <1>7 DEF GenuineManifest

\* The same of values.
LEMMA ValueDetermined ==
    ASSUME NEW history, Recorded(history), NEW a, NEW b,
           GenuineValue(history, a), GenuineValue(history, b),
           a.version = b.version, a.hash = b.hash
    PROVE  a = b
<1>1. /\ a \in EpochEvidence /\ a = [version |-> a.version, epoch |-> a.epoch, hash |-> a.hash]
      /\ b \in EpochEvidence /\ b = [version |-> b.version, epoch |-> b.epoch, hash |-> b.hash]
  BY DEF GenuineValue, EpochEvidence
<1>2. \A x \in history : x.status = "active" => x.value \in SignedValues
  BY DistributionShape DEF Recorded, ValueMatchesStatus
<1>3. ASSUME NEW x \in history, x.status = "active", a = Evidence(x.value),
             NEW y \in history, y.status = "active", b = Evidence(y.value)
      PROVE  a = b
  <2>1. x.value.version = y.value.version
    BY <1>2, <1>3, SignedEvidence
  <2>2. x.value = y.value
    BY <1>3, <2>1 DEF Recorded, Compatible
  <2>3. QED
    BY <1>3, <2>2
<1>4. \A x \in history : x.status = "active" => Evidence(x.value).hash = 1
  BY <1>2, SignedEvidence
<1>5. CASE Colluding(a)
  <2>1. a.hash > 1
    BY <1>1, <1>5 DEF Colluding, EpochEvidence
  <2>2. Colluding(b)
    BY <1>4, <2>1 DEF GenuineValue
  <2>3. a.epoch = b.epoch
    BY <1>1, <1>5, <2>2 DEF Colluding, EpochEvidence
  <2>4. QED
    BY <1>1, <2>3
<1>6. CASE \E x \in history : x.status = "active" /\ a = Evidence(x.value)
  BY <1>1, <1>3, <1>4, <1>6 DEF GenuineValue, Colluding, EpochEvidence
<1>7. QED
  BY <1>5, <1>6 DEF GenuineValue

\* A status and a statement are of one distribution; the deleting statement is the last.
LEMMA StatementsOrdered ==
    ASSUME NEW history, Recorded(history), NEW a \in VariableFloors, NEW b \in VariableFloors,
           GenuineVariable(history, a), GenuineVariable(history, b), a # NoVariable, b # NoVariable
    PROVE  /\ a.meta.version \in Nat \ {0} /\ a.meta = [version |-> a.meta.version, hash |-> 1]
           /\ a.status = "deleted" /\ b.status = "deleted" => a = b
           /\ a.status # "deleted" /\ b.status = "deleted" => a.meta.version < b.meta.version
<1>1. PICK x \in history : a.meta = x.meta /\ (a.status = "deleted" <=> x.status = "deleted")
  BY DEF GenuineVariable
<1>2. PICK y \in history : b.meta = y.meta /\ (b.status = "deleted" <=> y.status = "deleted")
  BY DEF GenuineVariable
<1>3. Compatible(x, y) /\ x \in Distributions
  BY DEF Recorded
<1>4. a.meta.version \in Nat \ {0} /\ a.meta = [version |-> a.meta.version, hash |-> 1]
  BY <1>1, <1>3, DistributionShape DEF SignedMetas
<1>5. ASSUME a.status = "deleted", b.status = "deleted" PROVE a = b
  <2>1. a.meta = b.meta
    BY <1>1, <1>2, <1>3, <1>5 DEF Compatible
  <2>2. a.value = NoEpochEvidence /\ b.value = NoEpochEvidence
    BY <1>5 DEF GenuineVariable
  <2>3. QED
    BY <1>5, <2>1, <2>2, VariableShape
<1>6. a.status # "deleted" /\ b.status = "deleted" => a.meta.version < b.meta.version
  BY <1>1, <1>2, <1>3 DEF Compatible
<1>7. QED
  BY <1>4, <1>5, <1>6

\* What was signed stays signed as the history grows.
LEMMA GenuineGrows ==
    ASSUME NEW history, NEW longer, history \subseteq longer
    PROVE  /\ \A f : GenuineFloor(history, f) => GenuineFloor(longer, f)
           /\ \A d : GenuineResponse(history, d) => GenuineResponse(longer, d)
<1>1. \A m : GenuineManifest(history, m) => GenuineManifest(longer, m)
  BY DEF GenuineManifest
<1>2. \A v : GenuineValue(history, v) => GenuineValue(longer, v)
  BY DEF GenuineValue
<1>3. \A v : GenuineVariable(history, v) => GenuineVariable(longer, v)
  BY <1>2 DEF GenuineVariable
<1>4. QED
  BY <1>1, <1>3 DEF GenuineFloor, GenuineResponse

\* Evidence that follows is what the join takes, and no conflict.
LEMMA FollowingEvidence ==
    /\ \A a, b \in PlainEvidence : Follows(a, b) => Joined(a, b) = b /\ ~ Disagree(a, b)
    /\ \A a, b \in EpochEvidence : Follows(a, b) => Joined(a, b) = b /\ ~ Disagree(a, b)
    /\ \A a, b, c \in PlainEvidence : Follows(a, b) /\ Follows(b, c) => Follows(a, c)
    /\ \A a, b, c \in EpochEvidence : Follows(a, b) /\ Follows(b, c) => Follows(a, c)
    /\ \A a, b \in PlainEvidence : Follows(a, b) => a.version <= b.version
    /\ \A a, b \in EpochEvidence : Follows(a, b) => a.version <= b.version
BY DEF Follows, Joined, Disagree, PlainEvidence, EpochEvidence

\* The order of the floors of a variable.
LEMMA VariablesOrdered ==
    ASSUME NEW a \in VariableFloors, NEW b \in VariableFloors, NEW c \in VariableFloors,
           FollowsVariable(a, b), FollowsVariable(b, c)
    PROVE  FollowsVariable(a, c)
<1>1. /\ a.meta \in PlainEvidence /\ b.meta \in PlainEvidence /\ c.meta \in PlainEvidence
      /\ a.value \in EpochEvidence /\ b.value \in EpochEvidence /\ c.value \in EpochEvidence
  BY VariableShape
<1>2. \A m, n \in PlainEvidence : m.version \in Nat /\ n.version \in Nat
  BY DEF PlainEvidence
<1>3. /\ Follows(a.meta, b.meta) /\ Follows(b.meta, c.meta) => Follows(a.meta, c.meta)
      /\ Follows(a.value, b.value) /\ Follows(b.value, c.value) => Follows(a.value, c.value)
      /\ Follows(a.meta, b.meta) => a.meta.version <= b.meta.version
  BY <1>1, FollowingEvidence
<1>4. NoVariable.status = "unseen"
  BY DEF NoVariable
<1>5. CASE a = NoVariable \/ a.status = "deleted"
  BY <1>4, <1>5 DEF FollowsVariable
<1>6. CASE a # NoVariable /\ a.status # "deleted" /\ b.status = "deleted"
  BY <1>4, <1>6 DEF FollowsVariable
<1>7. CASE a # NoVariable /\ a.status # "deleted" /\ b.status # "deleted"
  <2>1. /\ a.status \in {"declared", "active"} /\ b.status \in {"declared", "active"}
        /\ a.status = "active" => b.status = "active"
        /\ Follows(a.meta, b.meta) /\ Follows(a.value, b.value)
    BY <1>7 DEF FollowsVariable
  <2>2. CASE c.status = "deleted"
    <3>1. b.meta.version < c.meta.version
      BY <1>4, <2>1, <2>2 DEF FollowsVariable
    <3>2. a.meta.version < c.meta.version
      BY <1>1, <1>2, <1>3, <2>1, <3>1
    <3>3. QED
      BY <2>1, <2>2, <3>2 DEF FollowsVariable
  <2>3. CASE c.status # "deleted"
    <3>1. /\ c.status \in {"declared", "active"} /\ (b.status = "active" => c.status = "active")
          /\ Follows(b.meta, c.meta) /\ Follows(b.value, c.value)
      BY <1>4, <2>1, <2>3 DEF FollowsVariable
    <3>2. QED
      BY <1>3, <2>1, <3>1 DEF FollowsVariable
  <2>4. QED
    BY <2>2, <2>3
<1>8. QED
  BY <1>5, <1>6, <1>7

\* A floor of a variable that follows is what the join takes, and no conflict.
LEMMA FollowingVariable ==
    ASSUME NEW a \in VariableFloors, NEW b \in VariableFloors, FollowsVariable(a, b)
    PROVE  JoinedVariable(a, b) = b /\ VariableConflicts(a, b) = {}
<1>1. /\ a.meta \in PlainEvidence /\ b.meta \in PlainEvidence
      /\ a.value \in EpochEvidence /\ b.value \in EpochEvidence
      /\ b = [status |-> b.status, value |-> b.value, meta |-> b.meta]
      /\ a = [status |-> a.status, value |-> a.value, meta |-> a.meta]
  BY VariableShape
<1>2. CASE a = NoVariable
  <2>1. a.status = "unseen" /\ (b.status = "unseen" => b = a)
    BY <1>2, VariableShape DEF NoVariable
  <2>2. JoinedVariable(a, b) = b
    BY <2>1 DEF JoinedVariable
  <2>3. VariableConflicts(a, b) = {}
    BY <2>1 DEF VariableConflicts
  <2>4. QED
    BY <2>2, <2>3
<1>3. CASE a.status = "deleted" /\ b = a
  <2>1. Joined(a.meta, a.meta) = a.meta /\ ConflictsAt("variable-meta", a.meta, a.meta) = {}
    BY DEF Joined, ConflictsAt, Disagree
  <2>2. JoinedVariable(a, b) = [a EXCEPT !.meta = Joined(a.meta, a.meta)]
    BY <1>3 DEF JoinedVariable
  <2>3. VariableConflicts(a, b) = ConflictsAt("variable-meta", a.meta, a.meta)
    BY <1>3 DEF VariableConflicts
  <2>4. QED
    BY <1>1, <1>3, <2>1, <2>2, <2>3
<1>4. CASE a.status \in {"declared", "active"} /\ b.status = "deleted" /\ a.meta.version < b.meta.version
  <2>1. JoinedVariable(a, b) = b
    BY <1>4 DEF JoinedVariable
  <2>2. VariableConflicts(a, b) = DeletionConflicts(b, a)
    BY <1>4 DEF VariableConflicts
  <2>3. DeletionConflicts(b, a) = {}
    BY <1>1, <1>4 DEF DeletionConflicts, PlainEvidence
  <2>4. QED
    BY <2>1, <2>2, <2>3
<1>5. CASE /\ a.status \in {"declared", "active"} /\ b.status \in {"declared", "active"}
           /\ a.status = "active" => b.status = "active"
           /\ Follows(a.meta, b.meta) /\ Follows(a.value, b.value)
  <2>1. /\ Joined(a.meta, b.meta) = b.meta /\ Joined(a.value, b.value) = b.value
        /\ ~ Disagree(a.meta, b.meta) /\ ~ Disagree(a.value, b.value)
    BY <1>1, <1>5, FollowingEvidence
  <2>2. JoinedVariable(a, b) =
           [status |-> IF "active" \in {a.status, b.status} THEN "active" ELSE "declared",
            value |-> Joined(a.value, b.value), meta |-> Joined(a.meta, b.meta)]
    BY <1>5 DEF JoinedVariable
  <2>3. VariableConflicts(a, b) =
           ConflictsAt("variable-meta", a.meta, b.meta) \cup ConflictsAt("value", a.value, b.value)
    BY <1>5 DEF VariableConflicts
  <2>4. (IF "active" \in {a.status, b.status} THEN "active" ELSE "declared") = b.status
    BY <1>5
  <2>5. JoinedVariable(a, b) = b
    BY <1>1, <2>1, <2>2, <2>4
  <2>6. VariableConflicts(a, b) = {}
    BY <2>1, <2>3 DEF ConflictsAt
  <2>7. QED
    BY <2>5, <2>6
<1>6. QED
  BY <1>2, <1>3, <1>4, <1>5 DEF FollowsVariable

(***************************************************************************)
(* Joins without a conflict.                                               *)
(***************************************************************************)

\* Evidence that does not conflict has a join that follows both.
LEMMA JoinedPlain ==
    ASSUME NEW a \in PlainEvidence, NEW b \in PlainEvidence, ~ Disagree(a, b)
    PROVE  /\ Joined(a, b) \in {a, b}
           /\ Follows(a, Joined(a, b)) /\ Follows(b, Joined(a, b))
<1>1. a.version = b.version => a = b
  BY DEF Disagree, PlainEvidence
<1>2. QED
  BY <1>1 DEF Joined, Follows, PlainEvidence

\* Of two manifests without conflict the join takes the later one.
LEMMA JoinedManifests ==
    ASSUME NEW history, Recorded(history), NEW a, NEW b,
           GenuineManifest(history, a), GenuineManifest(history, b), ~ Disagree(a, b)
    PROVE  /\ Joined(a, b) \in {a, b}
           /\ Follows(a, Joined(a, b)) /\ Follows(b, Joined(a, b))
<1>1. a.version = b.version => a = b
  BY ManifestDetermined DEF Disagree
<1>2. a \in EpochEvidence /\ b \in EpochEvidence
  BY DEF GenuineManifest
<1>3. QED
  BY <1>1, <1>2 DEF Joined, Follows, EpochEvidence

\* What the value side of a floor holds.
HeldValue(history, v) == v = NoEpochEvidence \/ GenuineValue(history, v)

\* The same of values, one of which may be missing.
LEMMA JoinedValues ==
    ASSUME NEW history, Recorded(history), NEW a, NEW b,
           HeldValue(history, a), HeldValue(history, b), ~ Disagree(a, b)
    PROVE  /\ Joined(a, b) \in {a, b}
           /\ Joined(a, b) = NoEpochEvidence => a = NoEpochEvidence /\ b = NoEpochEvidence
           /\ Follows(a, Joined(a, b)) /\ Follows(b, Joined(a, b))
<1>1. /\ a \in EpochEvidence /\ b \in EpochEvidence
      /\ a = NoEpochEvidence <=> a.version = 0
      /\ b = NoEpochEvidence <=> b.version = 0
  BY DEF HeldValue, GenuineValue, NoEpochEvidence, EpochEvidence
<1>2. a.version = b.version => a = b
  BY <1>1, ValueDetermined DEF Disagree, HeldValue
<1>3. QED
  BY <1>1, <1>2 DEF Joined, Follows, EpochEvidence

\* The same of the floor of a variable.
LEMMA JoinedVariables ==
    ASSUME NEW history, Recorded(history), NEW a \in VariableFloors, NEW b \in VariableFloors,
           GenuineVariable(history, a), GenuineVariable(history, b), VariableConflicts(a, b) = {}
    PROVE  /\ JoinedVariable(a, b) \in VariableFloors
           /\ GenuineVariable(history, JoinedVariable(a, b))
           /\ FollowsVariable(a, JoinedVariable(a, b)) /\ FollowsVariable(b, JoinedVariable(a, b))
<1> DEFINE j == JoinedVariable(a, b)
<1>1. /\ a.meta \in PlainEvidence /\ b.meta \in PlainEvidence
      /\ a.value \in EpochEvidence /\ b.value \in EpochEvidence
      /\ a.status \in {"unseen"} \cup Statuses /\ b.status \in {"unseen"} \cup Statuses
      /\ a.status = "unseen" <=> a = NoVariable
      /\ b.status = "unseen" <=> b = NoVariable
      /\ b = [status |-> b.status, value |-> b.value, meta |-> b.meta]
      /\ a = [status |-> a.status, value |-> a.value, meta |-> a.meta]
  BY VariableShape
<1>2. \A v \in VariableFloors : FollowsVariable(v, v)
  BY VariableShape DEF FollowsVariable, Follows, Statuses
<1>3. CASE a.status = "unseen"
  <2>1. j = b
    BY <1>1, <1>3 DEF JoinedVariable
  <2>2. QED
    BY <1>1, <1>2, <1>3, <2>1 DEF FollowsVariable
<1>4. CASE a.status # "unseen" /\ b.status = "unseen"
  <2>1. j = a
    BY <1>4 DEF JoinedVariable
  <2>2. QED
    BY <1>1, <1>2, <1>4, <2>1 DEF FollowsVariable
<1>5. CASE a.status = "deleted" /\ b.status = "deleted"
  <2>1. a = b
    BY <1>1, <1>5, StatementsOrdered
  <2>2. FollowsVariable(b, b)
    BY <1>2
  <2>3. VariableConflicts(a, b) = {} /\ JoinedVariable(a, b) = b
    <3>1. FollowsVariable(a, b)
      BY <2>1, <2>2
    <3>2. QED
      BY <3>1, FollowingVariable
  <2>4. QED
    BY <2>1, <2>2, <2>3
<1>6. CASE a.status = "deleted" /\ b.status \in {"declared", "active"}
  <2>1. j = a
    BY <1>6 DEF JoinedVariable
  <2>2. b.meta.version < a.meta.version
    BY <1>1, <1>6, StatementsOrdered
  <2>3. QED
    BY <1>2, <1>6, <2>1, <2>2 DEF FollowsVariable
<1>7. CASE a.status \in {"declared", "active"} /\ b.status = "deleted"
  <2>1. j = b
    BY <1>7 DEF JoinedVariable
  <2>2. a.meta.version < b.meta.version
    BY <1>1, <1>7, StatementsOrdered
  <2>3. QED
    BY <1>2, <1>7, <2>1, <2>2 DEF FollowsVariable
<1>8. CASE a.status \in {"declared", "active"} /\ b.status \in {"declared", "active"}
  <2>1. j = [status |-> IF "active" \in {a.status, b.status} THEN "active" ELSE "declared",
             value |-> Joined(a.value, b.value), meta |-> Joined(a.meta, b.meta)]
    BY <1>8 DEF JoinedVariable
  <2>2. ~ Disagree(a.meta, b.meta) /\ ~ Disagree(a.value, b.value)
    <3>1. VariableConflicts(a, b) =
             ConflictsAt("variable-meta", a.meta, b.meta) \cup ConflictsAt("value", a.value, b.value)
      BY <1>8 DEF VariableConflicts
    <3>2. ConflictsAt("variable-meta", a.meta, b.meta) = {} /\ ConflictsAt("value", a.value, b.value) = {}
      BY <3>1
    <3>3. QED
      BY <3>2 DEF ConflictsAt
  <2>3. /\ a.status = "active" => GenuineValue(history, a.value)
        /\ a.status # "active" => a.value = NoEpochEvidence
        /\ b.status = "active" => GenuineValue(history, b.value)
        /\ b.status # "active" => b.value = NoEpochEvidence
    BY <1>1, <1>8 DEF GenuineVariable
  <2>4. HeldValue(history, a.value) /\ HeldValue(history, b.value)
    BY <2>3 DEF HeldValue
  <2>5. /\ j.value \in {a.value, b.value}
        /\ j.value = NoEpochEvidence => a.value = NoEpochEvidence /\ b.value = NoEpochEvidence
        /\ Follows(a.value, j.value) /\ Follows(b.value, j.value)
    BY <2>1, <2>2, <2>4, JoinedValues
  <2>6. j.meta \in {a.meta, b.meta} /\ Follows(a.meta, j.meta) /\ Follows(b.meta, j.meta)
    BY <1>1, <2>1, <2>2, JoinedPlain
  <2>7. /\ j.status \in {"declared", "active"}
        /\ j.status = "active" <=> a.status = "active" \/ b.status = "active"
    BY <1>8, <2>1
  <2>8. j \in VariableFloors
    BY <1>1, <2>1, <2>5, <2>6, <2>7 DEF VariableFloors
  <2>9. IF j.status = "active" THEN GenuineValue(history, j.value) ELSE j.value = NoEpochEvidence
    <3>1. GenuineValue(history, a.value) => a.value # NoEpochEvidence
      BY DEF GenuineValue, NoEpochEvidence
    <3>2. GenuineValue(history, b.value) => b.value # NoEpochEvidence
      BY DEF GenuineValue, NoEpochEvidence
    <3>3. QED
      BY <2>3, <2>5, <2>7, <3>1, <3>2
  <2>10. \E x \in history : j.meta = x.meta /\ (j.status = "deleted" <=> x.status = "deleted")
    BY <1>1, <1>8, <2>6, <2>7 DEF GenuineVariable
  <2>11. GenuineVariable(history, j)
    BY <2>7, <2>8, <2>9, <2>10 DEF GenuineVariable, Statuses
  <2>12. FollowsVariable(a, j) /\ FollowsVariable(b, j)
    BY <1>8, <2>5, <2>6, <2>7 DEF FollowsVariable
  <2>13. QED
    BY <2>8, <2>11, <2>12
<1>9. QED
  BY <1>1, <1>3, <1>4, <1>5, <1>6, <1>7, <1>8 DEF Statuses

\* The parts of a floor.
LEMMA FloorShape ==
    ASSUME NEW history, NEW f, GenuineFloor(history, f)
    PROVE  /\ f = [head |-> f.head, pullEpoch |-> f.pullEpoch, observedEpoch |-> f.observedEpoch,
                   meta |-> f.meta, manifest |-> f.manifest, variable |-> f.variable]
           /\ f.head \in PlainEvidence /\ f.pullEpoch \in Nat /\ f.observedEpoch \in Nat
           /\ f.meta \in PlainEvidence /\ f.manifest \in EpochEvidence /\ f.variable \in VariableFloors
BY DEF GenuineFloor, EnvironmentFloors

\* The order of floors.
LEMMA FloorsOrdered ==
    ASSUME NEW history, NEW a, NEW b, NEW c, GenuineFloor(history, a), GenuineFloor(history, b),
           GenuineFloor(history, c), FollowsFloor(a, b), FollowsFloor(b, c)
    PROVE  FollowsFloor(a, c)
<1>1. /\ Follows(a.meta, c.meta)
      /\ Follows(a.manifest, c.manifest)
  BY FloorShape, FollowingEvidence DEF FollowsFloor
<1>2. FollowsVariable(a.variable, c.variable)
  BY FloorShape, VariablesOrdered DEF FollowsFloor
<1>3. a.pullEpoch <= c.pullEpoch /\ a.observedEpoch <= c.observedEpoch
  <2>1. /\ a.pullEpoch \in Nat /\ b.pullEpoch \in Nat /\ c.pullEpoch \in Nat
        /\ a.observedEpoch \in Nat /\ b.observedEpoch \in Nat /\ c.observedEpoch \in Nat
    BY FloorShape
  <2>2. QED
    BY <2>1 DEF FollowsFloor
<1>4. QED
  BY <1>1, <1>2, <1>3 DEF FollowsFloor

\* Every floor follows itself.
LEMMA FollowsItself ==
    ASSUME NEW history, NEW a, GenuineFloor(history, a)
    PROVE  FollowsFloor(a, a)
<1>1. a.variable \in VariableFloors /\ a.pullEpoch \in Nat /\ a.observedEpoch \in Nat
  BY FloorShape
<1>2. FollowsVariable(a.variable, a.variable)
  BY <1>1, VariableShape DEF FollowsVariable, Follows, Statuses
<1>3. QED
  BY <1>1, <1>2 DEF FollowsFloor, Follows

\* Heads of the one chain, and metadata of the one environment, never disagree.
LEMMA HeadsAgree ==
    /\ Heads \subseteq PlainEvidence
    /\ {NoEvidence, EnvironmentMeta} \subseteq PlainEvidence
    /\ \A a, b \in Heads : ~ Disagree(a, b) /\ Joined(a, b) \in Heads
    /\ \A a, b \in {NoEvidence, EnvironmentMeta} : ~ Disagree(a, b)
BY DEF Heads, PlainEvidence, NoEvidence, EnvironmentMeta, Disagree, Joined

\* Two floors have a conflict in their manifests or in their variables, or none.
LEMMA ConflictsOfFloors ==
    ASSUME NEW history, NEW a, NEW b, GenuineFloor(history, a), GenuineFloor(history, b)
    PROVE  FloorConflicts(a, b) = {} <=>
              ~ Disagree(a.manifest, b.manifest) /\ VariableConflicts(a.variable, b.variable) = {}
<1>1. ~ Disagree(a.head, b.head) /\ ~ Disagree(a.meta, b.meta)
  BY HeadsAgree DEF GenuineFloor
<1>2. /\ ConflictsAt("chain-head", a.head, b.head) = {}
      /\ ConflictsAt("environment-meta", a.meta, b.meta) = {}
      /\ ConflictsAt("manifest", a.manifest, b.manifest) = {} <=> ~ Disagree(a.manifest, b.manifest)
  BY <1>1 DEF ConflictsAt
<1>3. QED
  BY <1>2 DEF FloorConflicts

\* The join of floors that have no conflict follows both.
LEMMA JoinedFloors ==
    ASSUME NEW history, Recorded(history), NEW a, NEW b,
           GenuineFloor(history, a), GenuineFloor(history, b), FloorConflicts(a, b) = {}
    PROVE  /\ GenuineFloor(history, JoinedFloor(a, b))
           /\ FollowsFloor(a, JoinedFloor(a, b)) /\ FollowsFloor(b, JoinedFloor(a, b))
<1> DEFINE j == JoinedFloor(a, b)
<1>1. /\ j = [head |-> j.head, pullEpoch |-> j.pullEpoch, observedEpoch |-> j.observedEpoch,
              meta |-> j.meta, manifest |-> j.manifest, variable |-> j.variable]
      /\ j.head = Joined(a.head, b.head)
      /\ j.pullEpoch = MaxOf(a.pullEpoch, b.pullEpoch)
      /\ j.observedEpoch = MaxOf(a.observedEpoch, b.observedEpoch)
      /\ j.meta = Joined(a.meta, b.meta)
      /\ j.manifest = Joined(a.manifest, b.manifest)
      /\ j.variable = JoinedVariable(a.variable, b.variable)
  BY DEF JoinedFloor
<1>2. ~ Disagree(a.manifest, b.manifest) /\ VariableConflicts(a.variable, b.variable) = {}
  BY ConflictsOfFloors
<1>3. j.head \in Heads /\ j.head \in PlainEvidence
  BY <1>1, HeadsAgree DEF GenuineFloor
<1>4. j.meta \in {NoEvidence, EnvironmentMeta} /\ Follows(a.meta, j.meta) /\ Follows(b.meta, j.meta)
  <2>1. /\ a.meta \in {NoEvidence, EnvironmentMeta} /\ b.meta \in {NoEvidence, EnvironmentMeta}
        /\ a.meta \in PlainEvidence /\ b.meta \in PlainEvidence
    BY FloorShape DEF GenuineFloor
  <2>2. ~ Disagree(a.meta, b.meta)
    BY <2>1, HeadsAgree
  <2>3. QED
    BY <1>1, <2>1, <2>2, JoinedPlain
<1>5. GenuineManifest(history, j.manifest) /\ Follows(a.manifest, j.manifest) /\ Follows(b.manifest, j.manifest)
  <2>1. GenuineManifest(history, a.manifest) /\ GenuineManifest(history, b.manifest)
    BY DEF GenuineFloor
  <2>2. QED
    BY <1>1, <1>2, <2>1, JoinedManifests
<1>6. /\ j.variable \in VariableFloors /\ GenuineVariable(history, j.variable)
      /\ FollowsVariable(a.variable, j.variable) /\ FollowsVariable(b.variable, j.variable)
  <2>1. /\ GenuineVariable(history, a.variable) /\ GenuineVariable(history, b.variable)
        /\ a.variable \in VariableFloors /\ b.variable \in VariableFloors
    BY FloorShape DEF GenuineFloor
  <2>2. QED
    BY <1>1, <1>2, <2>1, JoinedVariables
<1>7. /\ j.pullEpoch \in Nat /\ j.observedEpoch \in Nat
      /\ a.pullEpoch <= j.pullEpoch /\ b.pullEpoch <= j.pullEpoch
      /\ a.observedEpoch <= j.observedEpoch /\ b.observedEpoch <= j.observedEpoch
  <2>1. /\ a.pullEpoch \in Nat /\ b.pullEpoch \in Nat
        /\ a.observedEpoch \in Nat /\ b.observedEpoch \in Nat
    BY FloorShape
  <2>2. QED
    BY <1>1, <2>1 DEF MaxOf
<1>8. j.meta \in PlainEvidence /\ j.manifest \in EpochEvidence
  BY <1>4, <1>5, HeadsAgree DEF GenuineManifest
<1>9. j \in EnvironmentFloors
  BY <1>1, <1>3, <1>6, <1>7, <1>8 DEF EnvironmentFloors
<1>10. GenuineFloor(history, j)
  BY <1>3, <1>4, <1>5, <1>6, <1>9 DEF GenuineFloor
<1>11. FollowsFloor(a, j) /\ FollowsFloor(b, j)
  BY <1>4, <1>5, <1>6, <1>7 DEF FollowsFloor
<1>12. QED
  BY <1>10, <1>11

(***************************************************************************)
(* The check against the floor.                                            *)
(***************************************************************************)

\* What passes the check follows the floor it was checked against.
LEMMA CheckedManifest ==
    ASSUME NEW history, Recorded(history), NEW f, NEW d,
           GenuineFloor(history, f), GenuineResponse(history, d), ~ ManifestViolated(f, d.manifest)
    PROVE  Follows(f.manifest, Evidence(d.manifest))
<1> DEFINE m == Evidence(d.manifest)
<1>1. /\ GenuineManifest(history, m) /\ GenuineManifest(history, f.manifest)
      /\ m \in EpochEvidence /\ f.manifest \in EpochEvidence
      /\ m.version = d.manifest.version /\ m.hash = d.manifest.hash /\ m.version > 0
  BY DEF GenuineResponse, GenuineFloor, GenuineManifest, Evidence
<1>2. m.version \in Nat /\ f.manifest.version \in Nat
  BY <1>1 DEF EpochEvidence
<1>3. CASE f.manifest.version = 0
  BY <1>1, <1>2, <1>3 DEF Follows
<1>4. CASE f.manifest.version > 0
  <2>1. /\ f.manifest.version <= m.version
        /\ f.manifest.version = m.version => f.manifest.hash = m.hash
    BY <1>1, <1>2, <1>4 DEF ManifestViolated, MetaViolated
  <2>2. f.manifest.version = m.version => f.manifest = m
    BY <1>1, <2>1, ManifestDetermined
  <2>3. QED
    BY <1>2, <2>1, <2>2 DEF Follows
<1>5. QED
  BY <1>2, <1>3, <1>4

\* The same of the variable (checkFloorActive, checkFloorDeclared, checkFloorDeleted).
LEMMA CheckedVariable ==
    ASSUME NEW history, Recorded(history), NEW f, NEW d,
           GenuineFloor(history, f), GenuineResponse(history, d),
           ~ VariableViolated(f.variable, d, "values")
    PROVE  FollowsVariable(f.variable, VariableFloor(d))
<1> DEFINE a == f.variable
           b == VariableFloor(d)
<1>1. /\ a \in VariableFloors /\ GenuineVariable(history, a)
      /\ GenuineVariable(history, b) /\ d.status \in Statuses
      /\ b.status = d.status /\ b.value = Evidence(d.value) /\ b.meta = d.meta
      /\ d.meta = [version |-> d.meta.version, hash |-> 1] /\ d.meta.version \in Nat \ {0}
  BY FloorShape DEF GenuineResponse, GenuineFloor, VariableFloor, SignedMetas
<1>2. b \in VariableFloors /\ b # NoVariable
  BY <1>1 DEF GenuineVariable, NoVariable, Statuses
<1>3. CASE a = NoVariable
  BY <1>3 DEF FollowsVariable
<1>4. CASE a # NoVariable
  <2>1. /\ a.meta.version \in Nat \ {0} /\ a.meta = [version |-> a.meta.version, hash |-> 1]
        /\ a.status = "deleted" /\ b.status = "deleted" => a = b
        /\ a.status # "deleted" /\ b.status = "deleted" => a.meta.version < b.meta.version
    BY <1>1, <1>2, <1>4, StatementsOrdered
  <2>2. a.status \in Statuses
    BY <1>1, <1>4, VariableShape
  <2>3. ~ MetaViolated(a.meta, d.meta) => Follows(a.meta, b.meta)
    BY <1>1, <2>1 DEF MetaViolated, Follows
  <2>4. /\ a.status = "active" => GenuineValue(history, a.value)
        /\ a.status # "active" => a.value = NoEpochEvidence
        /\ b.status = "active" => GenuineValue(history, b.value)
        /\ b.status # "active" => b.value = NoEpochEvidence
    BY <1>1, <1>2, <1>4 DEF GenuineVariable
  <2>5. CASE a.status = "deleted"
    <3>1. d.status = "deleted"
      BY <2>5 DEF VariableViolated
    <3>2. QED
      BY <1>1, <2>1, <2>5, <3>1 DEF FollowsVariable
  <2>6. CASE a.status # "deleted" /\ d.status = "deleted"
    BY <1>1, <2>1, <2>2, <2>6 DEF FollowsVariable, Statuses
  <2>7. CASE a.status = "declared" /\ d.status # "deleted"
    <3>1. Follows(a.meta, b.meta)
      BY <2>3, <2>7 DEF VariableViolated
    <3>2. Follows(a.value, b.value)
      BY <1>1, <2>4, <2>7 DEF Follows, GenuineValue, NoEpochEvidence
    <3>3. QED
      BY <1>1, <2>7, <3>1, <3>2 DEF FollowsVariable, Statuses
  <2>8. CASE a.status = "active" /\ d.status # "deleted"
    <3>1. ~ ActiveViolated(a, d, "values")
      BY <2>8 DEF VariableViolated
    <3>2. d.status = "active"
      BY <1>1, <2>8, <3>1 DEF ActiveViolated, Statuses
    <3>3. ~ MetaViolated(a.meta, d.meta) /\ ~ ValueViolated(a.value, d.value)
      BY <3>1, <3>2 DEF ActiveViolated
    <3>4. GenuineValue(history, a.value) /\ GenuineValue(history, b.value)
      BY <1>1, <2>4, <2>8, <3>2
    <3>5. /\ a.value.version \in Nat /\ b.value.version \in Nat
          /\ b.value.version = d.value.version /\ b.value.hash = d.value.hash
      BY <1>1, <3>4 DEF GenuineValue, EpochEvidence, Evidence
    <3>6. a.value.version = b.value.version => a.value = b.value
      BY <3>3, <3>4, <3>5, ValueDetermined DEF ValueViolated
    <3>7. Follows(a.value, b.value)
      BY <3>3, <3>5, <3>6 DEF ValueViolated, Follows
    <3>8. QED
      BY <1>1, <2>3, <2>8, <3>2, <3>3, <3>7 DEF FollowsVariable
  <2>9. QED
    BY <2>2, <2>5, <2>6, <2>7, <2>8 DEF Statuses
<1>5. QED
  BY <1>3, <1>4

(***************************************************************************)
(* Epochs of the chain.                                                    *)
(***************************************************************************)

Extends(entries, longer) ==
    /\ Len(entries) <= Len(longer)
    /\ \A i \in 1 .. Len(entries) : longer[i] = entries[i]

EpochOps(entries, view) == {i \in 1 .. view : entries[i].op \in {"create", "rotate"}}

\* An epoch is a number, and no later view has an earlier epoch.
LEMMA EpochsCounted ==
    ASSUME NEW entries, NEW m \in Nat, NEW n \in Nat, m <= n
    PROVE  /\ EpochIn(entries, m) \in Nat
           /\ EpochIn(entries, m) <= EpochIn(entries, n)
           /\ IsFiniteSet(EpochOps(entries, m))
<1>1. \A k \in Nat : IsFiniteSet(EpochOps(entries, k))
  <2>1. \A k \in Nat : IsFiniteSet(1 .. k) /\ EpochOps(entries, k) \subseteq 1 .. k
    BY FS_Interval DEF EpochOps
  <2>2. QED
    BY <2>1, FS_Subset
<1>2. EpochOps(entries, m) \subseteq EpochOps(entries, n)
  BY DEF EpochOps
<1>3. /\ Cardinality(EpochOps(entries, m)) \in Nat
      /\ Cardinality(EpochOps(entries, m)) <= Cardinality(EpochOps(entries, n))
  BY <1>1, <1>2, FS_CardinalityType, FS_Subset
<1>4. QED
  BY <1>1, <1>3 DEF EpochIn, EpochOps

\* What is appended leaves the epochs of earlier views.
LEMMA EpochsKept ==
    ASSUME NEW entries, NEW longer, Extends(entries, longer), Len(entries) \in Nat,
           NEW view \in Nat, view <= Len(entries)
    PROVE  EpochIn(longer, view) = EpochIn(entries, view)
<1>1. \A i \in 1 .. view : longer[i] = entries[i]
  BY DEF Extends
<1>2. EpochOps(longer, view) = EpochOps(entries, view)
  BY <1>1 DEF EpochOps
<1>3. QED
  BY <1>2 DEF EpochIn, EpochOps

\* A checkpoint has the epoch it was appended in, and a rotation begins the next one; a deletion
\* begins none.
LEMMA EpochOfNext ==
    ASSUME NEW entries, NEW n \in Nat
    PROVE  /\ entries[n + 1].op \in {"checkpoint", "delete"} =>
                 EpochIn(entries, n + 1) = EpochIn(entries, n)
           /\ entries[n + 1].op = "rotate" => EpochIn(entries, n + 1) = EpochIn(entries, n) + 1
<1>1. ASSUME entries[n + 1].op \in {"checkpoint", "delete"}
      PROVE  EpochOps(entries, n + 1) = EpochOps(entries, n)
  <2>1. \A i : i \in 1 .. n + 1 <=> i \in 1 .. n \/ i = n + 1
    OBVIOUS
  <2>2. QED
    BY <1>1, <2>1 DEF EpochOps
<1>2. ASSUME entries[n + 1].op = "rotate"
      PROVE  EpochOps(entries, n + 1) = EpochOps(entries, n) \cup {n + 1} /\ n + 1 \notin EpochOps(entries, n)
  <2>1. \A i : i \in 1 .. n + 1 <=> i \in 1 .. n \/ i = n + 1
    OBVIOUS
  <2>2. n + 1 \notin 1 .. n
    OBVIOUS
  <2>3. QED
    BY <1>2, <2>1, <2>2 DEF EpochOps
<1>3. IsFiniteSet(EpochOps(entries, n))
  BY EpochsCounted
<1>4. QED
  BY <1>1, <1>2, <1>3, FS_AddElement DEF EpochIn, EpochOps

(***************************************************************************)
(* The server.                                                             *)
(***************************************************************************)

\* The order in which distributions are served.
LEMMA LaterAgrees ==
    ASSUME NEW x \in Distributions, NEW y \in Distributions, Later(x, y)
    PROVE  Compatible(x, y) /\ Compatible(y, x)
<1>1. /\ x.meta.version \in Nat /\ y.meta.version \in Nat
      /\ x.manifest.version \in Nat /\ y.manifest.version \in Nat
  BY DistributionNumbers
<1>2. x.value.version \in Nat /\ y.value.version \in Nat
  BY DistributionNumbers
<1>3. x.manifest.version = y.manifest.version => x.manifest = y.manifest
  BY <1>1 DEF Later
<1>4. x.status = "active" /\ y.status = "active" /\ x.value.version = y.value.version
         => x.value = y.value
  BY <1>2 DEF Later
<1>5. /\ x.status = "deleted" => y.status = "deleted" /\ x.meta = y.meta
      /\ x.status # "deleted" /\ y.status = "deleted" => x.meta.version < y.meta.version
  BY DEF Later
<1>6. QED
  BY <1>3, <1>4, <1>5 DEF Compatible

\* What is served after something later is later.
LEMMA LaterOrdered ==
    ASSUME NEW x \in Distributions, NEW y \in Distributions, NEW z \in Distributions,
           Later(x, y), Later(y, z)
    PROVE  Later(x, z)
<1>1. /\ x.meta.version \in Nat /\ y.meta.version \in Nat /\ z.meta.version \in Nat
      /\ x.manifest.version \in Nat /\ y.manifest.version \in Nat /\ z.manifest.version \in Nat
      /\ x.manifest.epoch \in Nat /\ y.manifest.epoch \in Nat /\ z.manifest.epoch \in Nat
      /\ x.snapshot.seq \in Nat /\ y.snapshot.seq \in Nat /\ z.snapshot.seq \in Nat
  BY DistributionNumbers
<1>2. /\ x.value.version \in Nat /\ y.value.version \in Nat /\ z.value.version \in Nat
      /\ y.value.head \in Nat /\ z.value.head \in Nat /\ x.snapshot.seq \in Nat
  BY DistributionNumbers
<1>3. /\ x.snapshot.seq <= z.snapshot.seq
      /\ x.manifest.version < z.manifest.version \/ x.manifest = z.manifest
      /\ x.manifest.epoch <= z.manifest.epoch
  BY <1>1 DEF Later
<1>4. \/ x.status = "deleted" /\ z.status = "deleted" /\ x.meta = z.meta
      \/ x.status # "deleted" /\ z.status = "deleted" /\ x.meta.version < z.meta.version
      \/ /\ x.status # "deleted" /\ z.status # "deleted"
         /\ x.status = "active" => z.status = "active"
         /\ x.meta.version <= z.meta.version
  BY <1>1 DEF Later
<1>5. ASSUME z.status = "active"
      PROVE  \/ x.status = "active" /\ x.value = z.value
             \/ /\ x.status = "active" => x.value.version < z.value.version
                /\ x.snapshot.seq <= z.value.head
  <2>1. CASE y.status = "active" /\ y.value = z.value
    BY <2>1 DEF Later
  <2>2. CASE /\ y.status = "active" => y.value.version < z.value.version
             /\ y.snapshot.seq <= z.value.head
    <3>1. x.snapshot.seq <= z.value.head
      BY <1>1, <1>2, <2>2 DEF Later
    <3>2. ASSUME x.status = "active" PROVE x.value.version < z.value.version
      <4>1. y.status = "active"
        BY <1>5, <3>2 DEF Later
      <4>2. x.value.version <= y.value.version
        BY <1>2, <3>2, <4>1 DEF Later
      <4>3. QED
        BY <1>2, <2>2, <4>1, <4>2
    <3>3. QED
      BY <3>1, <3>2
  <2>3. QED
    BY <1>5, <2>1, <2>2 DEF Later
<1>6. QED
  BY <1>3, <1>4, <1>5 DEF Later

\* A distribution may be served twice.
LEMMA LaterItself ==
    ASSUME NEW x \in Distributions
    PROVE  Later(x, x)
BY DistributionNumbers DEF Later

\* The entries that are appended to the chain.
LEMMA EntryShapes ==
    /\ Entry("create") \in Entries /\ Entry("rotate") \in Entries /\ Entry("delete") \in Entries
    /\ Entry("create").op = "create" /\ Entry("rotate").op = "rotate" /\ Entry("delete").op = "delete"
    /\ \A m \in EpochEvidence, v \in PlainEvidence :
          /\ CheckpointEntry(m, v) \in Entries
          /\ CheckpointEntry(m, v).op = "checkpoint"
          /\ CheckpointEntry(m, v).manifest = m /\ CheckpointEntry(m, v).value = v
BY DEF Entries, Entry, CheckpointEntry

\* What a checkpoint enumerates of a value.
LEMMA EnumeratedShape ==
    ASSUME NEW d \in Distributions, ValueMatchesStatus(d)
    PROVE  /\ Enumerated(d.value) \in PlainEvidence
           /\ Enumerated(d.value).version = d.value.version
           /\ d.value.version > 0 <=> d.status = "active"
<1>1. \A v \in SignedValues : Enumerated(v) \in PlainEvidence /\ v.version > 0
  BY DEF SignedValues, Enumerated, PlainEvidence
<1>2. Enumerated(NoValue) \in PlainEvidence /\ ~ (NoValue.version > 0)
  BY DEF NoValue, Enumerated, PlainEvidence
<1>3. d.value \in SignedValues \/ d.value = NoValue
  BY DistributionShape
<1>4. \A v \in SignedValues : v # NoValue
  BY SignedEvidence
<1>5. QED
  BY <1>1, <1>2, <1>3, <1>4 DEF Enumerated, ValueMatchesStatus

ServerTypes ==
    /\ distribution \in Distributions /\ ValueMatchesStatus(distribution)
    /\ chain \in Seq(Entries)
    /\ chain[Now].op \in {"checkpoint", "delete"}
    /\ LiveAt(Now) => distribution.snapshot.seq = Now
    /\ distribution.manifest.epoch = EpochIn(chain, Now)
    /\ Attested(chain, distribution)

\* What the server state is after a write, and how it follows from the one before.
ServerMoves ==
    /\ ServerTypes'
    /\ Extends(chain, chain')
    /\ Later(distribution, distribution')

\* The epoch and the head of what is signed now.
LEMMA SignedNow ==
    ASSUME ServerTypes
    PROVE  /\ Now \in Nat /\ Now >= 2
           /\ EpochAt(Now) = EpochIn(chain, Now) /\ EpochAt(Now) \in Nat
           /\ distribution.manifest.epoch = EpochAt(Now)
           /\ NextManifest \in SignedManifests
           /\ NextManifest.version = distribution.manifest.version + 1
           /\ NextManifest.epoch = EpochAt(Now) /\ NextManifest.head = Now
           /\ NextValue \in SignedValues
           /\ NextValue.version = distribution.value.version + 1
           /\ NextValue.epoch = EpochAt(Now) /\ NextValue.head = Now
<1>1. Now \in Nat /\ Now >= 2 /\ distribution.manifest.epoch = EpochIn(chain, Now)
  BY DEF ServerTypes, Attested, Now
<1>2. EpochAt(Now) = EpochIn(chain, Now) /\ EpochIn(chain, Now) \in Nat
  <2>1. EpochIn(chain, Now) \in Nat
    BY <1>1, EpochsCounted
  <2>2. EpochAt(Now) = EpochIn(chain, Now)
    BY DEF EpochAt, EpochIn
  <2>3. QED
    BY <2>1, <2>2
<1>3. /\ distribution.manifest.version \in Nat /\ distribution.value.version \in Nat
      /\ distribution.manifest.epoch \in Nat \ {0}
  BY DistributionNumbers, DistributionShape DEF ServerTypes, SignedManifests
<1>4. QED
  BY <1>1, <1>2, <1>3 DEF NextManifest, NextValue, Manifest, SignedManifests, SignedValues

\* What the chain attests of manifests, with the versions as numbers.
LEMMA AttestedVersions ==
    ASSUME ServerTypes, NEW i \in 1 .. distribution.snapshot.seq, chain[i].op = "checkpoint"
    PROVE  /\ chain[i].manifest.version \in Nat
           /\ chain[i].manifest.version <= distribution.manifest.version
           /\ \/ chain[i].manifest.version < distribution.manifest.version
              \/ chain[i].manifest = Evidence(distribution.manifest)
<1>1. distribution.manifest.version \in Nat /\ distribution.snapshot.seq \in 2 .. Len(chain)
  BY DistributionNumbers DEF ServerTypes, Attested
<1>2. chain \in Seq(Entries) /\ i \in 1 .. Len(chain)
  BY <1>1 DEF ServerTypes
<1>3. chain[i] \in Entries
  BY <1>2
<1>4. chain[i].manifest \in EpochEvidence
  BY <1>3 DEF Entries, Entry
<1>5. \/ chain[i].manifest.version < distribution.manifest.version
      \/ chain[i].manifest = Evidence(distribution.manifest)
  BY DEF ServerTypes, Attested, ManifestAttested
<1>6. QED
  BY <1>1, <1>4, <1>5 DEF EpochEvidence, Evidence

\* A manifest that is signed now is attested by its epoch.
LEMMA NextIsAttested ==
    ASSUME ServerTypes, NEW d, d.manifest = NextManifest, d.snapshot = distribution.snapshot
    PROVE  ManifestAttested(chain, d)
<1>1. /\ NextManifest.version = distribution.manifest.version + 1
      /\ NextManifest.epoch = EpochIn(chain, NextManifest.head)
      /\ distribution.manifest.version \in Nat
  BY SignedNow, DistributionNumbers DEF ServerTypes
<1>2. \A i \in 1 .. d.snapshot.seq :
         chain[i].op = "checkpoint" => chain[i].manifest.version < d.manifest.version
  BY <1>1, AttestedVersions
<1>3. QED
  BY <1>1, <1>2 DEF ManifestAttested

\* A manifest that is attested now, by a checkpoint that is appended, is so from then on.
LEMMA AppendedIsAttested ==
    ASSUME ServerTypes, LiveAt(Now), NEW longer, Extends(chain, longer), NEW d,
           d.snapshot.seq \in {Now + 1, Now + 2},
           Now + 1 < d.snapshot.seq => longer[Now + 1].op = "rotate",
           longer[d.snapshot.seq].op = "checkpoint",
           longer[d.snapshot.seq].manifest = Evidence(d.manifest),
           \/ d.manifest.version = distribution.manifest.version + 1
           \/ d.manifest = distribution.manifest
    PROVE  ManifestAttested(longer, d)
<1>1. Now \in Nat /\ distribution.manifest.version \in Nat /\ distribution.snapshot.seq = Now
  BY SignedNow, DistributionNumbers DEF ServerTypes
<1>2. ASSUME NEW i \in 1 .. d.snapshot.seq, longer[i].op = "checkpoint"
      PROVE  \/ longer[i].manifest.version < d.manifest.version
             \/ longer[i].manifest = Evidence(d.manifest)
  <2>1. CASE i = d.snapshot.seq
    BY <2>1
  <2>2. CASE i \in 1 .. Now
    <3>1. longer[i] = chain[i]
      BY <2>2 DEF Extends, Now
    <3>2. QED
      BY <1>1, <1>2, <2>2, <3>1, AttestedVersions
  <2>3. i = d.snapshot.seq \/ i \in 1 .. Now
    BY <1>1, <1>2
  <2>4. QED
    BY <2>1, <2>2, <2>3
<1>3. d.snapshot.seq \in 1 .. d.snapshot.seq
  BY <1>1
<1>4. QED
  BY <1>2, <1>3 DEF ManifestAttested

\* A pushed value is signed at the last checkpoint, under the epoch of now.
LEMMA ValueIsPushed ==
    ASSUME ServerTypes, PushValue
    PROVE  ServerMoves
<1> DEFINE d == distribution
<1>9. /\ d = [status |-> d.status, meta |-> d.meta, value |-> d.value,
              manifest |-> d.manifest, snapshot |-> d.snapshot]
      /\ d.meta = [version |-> d.meta.version, hash |-> 1]
  BY DistributionShape DEF ServerTypes
<1>1. /\ d \in Distributions /\ ValueMatchesStatus(d) /\ d.status = "active" /\ LiveAt(Now)
      /\ chain' = chain /\ distribution' = [d EXCEPT !.value = NextValue]
  BY DEF ServerTypes, PushValue, Write
<1>2. distribution' = [status |-> d.status, meta |-> d.meta, value |-> NextValue,
                       manifest |-> d.manifest, snapshot |-> d.snapshot]
  BY <1>1, <1>9
<1>3. distribution' \in Distributions /\ ValueMatchesStatus(distribution')
  <2>1. NextValue \in SignedValues /\ NextValue # NoValue
    BY SignedNow, SignedEvidence
  <2>2. QED
    BY <1>1, <1>2, <2>1, DistributionShape DEF Distributions, ValueMatchesStatus
<1>4. d.value.version \in Nat /\ d.meta.version \in Nat /\ d.manifest.epoch \in Nat
  BY <1>1, DistributionNumbers
<1>5. Later(d, distribution')
  <2>1. /\ NextValue.version = d.value.version + 1
        /\ NextValue.head = d.snapshot.seq /\ d.snapshot.seq \in Nat
    BY <1>1, SignedNow DEF ServerTypes
  <2>2. d.manifest.version \in Nat
    BY <1>1, DistributionNumbers
  <2>3. QED
    BY <1>1, <1>2, <1>4, <2>1, <2>2 DEF Later
<1>6. Attested(chain', distribution')
  <2>1. d.value.version >= d.snapshot.value.version
    <3>1. \/ d.value.version > d.snapshot.value.version
          \/ Enumerated(d.value) = d.snapshot.value
      BY <1>1 DEF ServerTypes, Attested
    <3>2. Enumerated(d.value).version = d.value.version
      BY DEF Enumerated
    <3>3. d.snapshot.value.version \in Nat
      BY <1>1, DistributionNumbers DEF PlainEvidence
    <3>4. QED
      BY <1>4, <3>1, <3>2, <3>3
  <2>2. d.snapshot.value.version \in Nat
    BY <1>1, DistributionNumbers DEF PlainEvidence
  <2>3. Now \in 1 .. Now /\ EpochAt(Now) = EpochIn(chain, Now)
    BY SignedNow
  <2>4. ManifestAttested(chain', distribution')
    BY <1>1, <1>2 DEF ServerTypes, Attested, ManifestAttested
  <2>5. QED
    BY <1>1, <1>2, <1>4, <2>1, <2>2, <2>3, <2>4, SignedNow DEF ServerTypes, Attested
<1>7. Extends(chain, chain')
  BY <1>1, SignedNow DEF Extends, Now
<1>8. distribution'.manifest.epoch = EpochIn(chain', Now') /\ Now' = Now
  BY <1>1, <1>2 DEF ServerTypes, Now
<1>10. QED
  BY <1>1, <1>2, <1>3, <1>5, <1>6, <1>7, <1>8 DEF ServerMoves, ServerTypes

\* A first value comes with an active statement and a next manifest.
LEMMA VariableIsActivated ==
    ASSUME ServerTypes, Activate
    PROVE  ServerMoves
<1> DEFINE d == distribution
<1>9. /\ d = [status |-> d.status, meta |-> d.meta, value |-> d.value,
              manifest |-> d.manifest, snapshot |-> d.snapshot]
      /\ d.meta = [version |-> d.meta.version, hash |-> 1]
  BY DistributionShape DEF ServerTypes
<1>1. /\ d \in Distributions /\ ValueMatchesStatus(d) /\ d.status = "declared" /\ LiveAt(Now)
      /\ chain' = chain
      /\ distribution' = [d EXCEPT !.status = "active", !.value = NextValue,
                                   !.meta = NextMeta, !.manifest = NextManifest]
  BY DEF ServerTypes, Activate, Write
<1>2. distribution' = [status |-> "active", meta |-> NextMeta,
                       value |-> NextValue, manifest |-> NextManifest, snapshot |-> d.snapshot]
  BY <1>1, <1>9
<1>3. d.value.version \in Nat /\ d.meta.version \in Nat /\ d.manifest.epoch \in Nat
      /\ d.manifest.version \in Nat
  BY <1>1, DistributionNumbers
<1>4. distribution' \in Distributions /\ ValueMatchesStatus(distribution')
  <2>1. NextValue \in SignedValues /\ NextValue # NoValue /\ NextManifest \in SignedManifests
    BY SignedNow, SignedEvidence
  <2>2. NextMeta \in SignedMetas
    BY <1>3 DEF NextMeta, SignedMetas
  <2>3. QED
    BY <1>1, <1>2, <2>1, <2>2, DistributionShape DEF Distributions, ValueMatchesStatus, Statuses
<1>5. Later(d, distribution')
  <2>1. /\ NextManifest.version = d.manifest.version + 1 /\ NextManifest.epoch = d.manifest.epoch
        /\ NextValue.head = d.snapshot.seq /\ d.snapshot.seq \in Nat
        /\ NextMeta.version = d.meta.version + 1
    BY <1>1, SignedNow DEF ServerTypes, NextMeta
  <2>2. QED
    BY <1>1, <1>2, <1>3, <2>1 DEF Later
<1>6. Attested(chain', distribution')
  <2>1. d.snapshot.value.version \in Nat
    BY <1>1, DistributionNumbers DEF PlainEvidence
  <2>2. ~ (d.snapshot.value.version > 0)
    BY <1>1 DEF ServerTypes, Attested
  <2>3. Now \in 1 .. Now /\ EpochAt(Now) = EpochIn(chain, Now)
    BY SignedNow
  <2>4. ManifestAttested(chain', distribution')
    BY <1>1, <1>2, NextIsAttested
  <2>5. QED
    BY <1>1, <1>2, <1>3, <2>1, <2>2, <2>3, <2>4, SignedNow DEF ServerTypes, Attested
<1>7. Extends(chain, chain')
  BY <1>1, SignedNow DEF Extends, Now
<1>8. distribution'.manifest.epoch = EpochIn(chain', Now') /\ Now' = Now
  BY <1>1, <1>2, SignedNow DEF Now
<1>10. QED
  BY <1>1, <1>2, <1>4, <1>5, <1>6, <1>7, <1>8 DEF ServerMoves, ServerTypes

\* A deleting statement is newer than every statement before it.
LEMMA VariableIsDeleted ==
    ASSUME ServerTypes, DeleteVariable
    PROVE  ServerMoves
<1> DEFINE d == distribution
<1>9. /\ d = [status |-> d.status, meta |-> d.meta, value |-> d.value,
              manifest |-> d.manifest, snapshot |-> d.snapshot]
      /\ d.meta = [version |-> d.meta.version, hash |-> 1]
  BY DistributionShape DEF ServerTypes
<1>1. /\ d \in Distributions /\ ValueMatchesStatus(d) /\ d.status # "deleted" /\ LiveAt(Now)
      /\ chain' = chain
      /\ distribution' = [d EXCEPT !.status = "deleted", !.value = NoValue,
                                   !.meta = NextMeta, !.manifest = NextManifest]
  BY DEF ServerTypes, DeleteVariable, Write
<1>2. distribution' = [status |-> "deleted", meta |-> NextMeta,
                       value |-> NoValue, manifest |-> NextManifest, snapshot |-> d.snapshot]
  BY <1>1, <1>9
<1>3. d.value.version \in Nat /\ d.meta.version \in Nat /\ d.manifest.epoch \in Nat
      /\ d.manifest.version \in Nat
  BY <1>1, DistributionNumbers
<1>4. distribution' \in Distributions /\ ValueMatchesStatus(distribution')
  <2>1. NextManifest \in SignedManifests
    BY SignedNow
  <2>2. NextMeta \in SignedMetas
    BY <1>3 DEF NextMeta, SignedMetas
  <2>3. QED
    BY <1>1, <1>2, <2>1, <2>2, DistributionShape DEF Distributions, ValueMatchesStatus, Statuses
<1>5. Later(d, distribution')
  <2>1. /\ NextManifest.version = d.manifest.version + 1 /\ NextManifest.epoch = d.manifest.epoch
        /\ NextValue.head = d.snapshot.seq /\ d.snapshot.seq \in Nat
        /\ NextMeta.version = d.meta.version + 1
    BY <1>1, SignedNow DEF ServerTypes, NextMeta
  <2>2. QED
    BY <1>1, <1>2, <1>3, <2>1 DEF Later
<1>6. Attested(chain', distribution')
  <2>1. ManifestAttested(chain', distribution')
    BY <1>1, <1>2, NextIsAttested
  <2>2. QED
    BY <1>1, <1>2, <1>3, <2>1, SignedNow DEF ServerTypes, Attested
<1>7. Extends(chain, chain')
  BY <1>1, SignedNow DEF Extends, Now
<1>8. distribution'.manifest.epoch = EpochIn(chain', Now') /\ Now' = Now
  BY <1>1, <1>2, SignedNow DEF Now
<1>10. QED
  BY <1>1, <1>2, <1>4, <1>5, <1>6, <1>7, <1>8 DEF ServerMoves, ServerTypes

\* A rotation attests the manifest of its new epoch in the checkpoint appended with it.
LEMMA EpochIsRotated ==
    ASSUME ServerTypes, Rotate
    PROVE  ServerMoves
<1> DEFINE d == distribution
           m == [NextManifest EXCEPT !.epoch = @ + 1]
           attested == CheckpointEntry(Evidence(m), Enumerated(d.value))
<1>1. /\ d \in Distributions /\ ValueMatchesStatus(d) /\ chain \in Seq(Entries) /\ LiveAt(Now)
      /\ chain' = chain \o <<Entry("rotate"), attested>>
      /\ distribution' = [d EXCEPT !.manifest = m,
                                   !.snapshot = [seq |-> Now + 2, value |-> Enumerated(d.value)]]
  BY DEF ServerTypes, Rotate, Write
<1>2. d = [status |-> d.status, meta |-> d.meta, value |-> d.value,
           manifest |-> d.manifest, snapshot |-> d.snapshot]
  BY <1>1, DistributionShape
<1>3. distribution' = [status |-> d.status, meta |-> d.meta, value |-> d.value, manifest |-> m,
                       snapshot |-> [seq |-> Now + 2, value |-> Enumerated(d.value)]]
  BY <1>1, <1>2
<1>4. /\ Now \in Nat /\ Now >= 2 /\ EpochIn(chain, Now) \in Nat
      /\ d.manifest.epoch = EpochIn(chain, Now) /\ d.snapshot.seq = Now
      /\ NextManifest \in SignedManifests
      /\ NextManifest.version = d.manifest.version + 1
      /\ NextManifest.epoch = EpochIn(chain, Now) /\ NextManifest.head = Now
  BY <1>1, SignedNow DEF ServerTypes
<1>5. /\ m \in SignedManifests /\ m.version = d.manifest.version + 1
      /\ m.epoch = EpochIn(chain, Now) + 1 /\ m.head = Now
  BY <1>4 DEF SignedManifests
<1>6. /\ Evidence(m) \in EpochEvidence /\ Evidence(m).epoch = m.epoch
      /\ Enumerated(d.value) \in PlainEvidence
      /\ Enumerated(d.value).version = d.value.version
      /\ d.value.version > 0 <=> d.status = "active"
  <2>1. Evidence(m) \in EpochEvidence
    BY <1>5, SignedEvidence
  <2>2. Evidence(m).epoch = m.epoch
    BY DEF Evidence
  <2>3. QED
    BY <1>1, <2>1, <2>2, EnumeratedShape
<1>7. /\ attested \in Entries /\ attested.op = "checkpoint"
      /\ attested.manifest = Evidence(m) /\ attested.value = Enumerated(d.value)
      /\ Entry("rotate") \in Entries /\ Entry("rotate").op = "rotate"
  BY <1>6, EntryShapes
<1>8. /\ chain' \in Seq(Entries) /\ Len(chain') = Now + 2
      /\ chain'[Now + 1] = Entry("rotate") /\ chain'[Now + 2] = attested
      /\ \A i \in 1 .. Now : chain'[i] = chain[i]
  <2> DEFINE added == <<Entry("rotate"), attested>>
  <2>1. added \in Seq(Entries) /\ Len(added) = 2 /\ added[1] = Entry("rotate") /\ added[2] = attested
    BY <1>7
  <2>2. chain' = chain \o added
    BY <1>1
  <2> HIDE DEF added
  <2>3. /\ chain' \in Seq(Entries) /\ Len(chain') = Len(chain) + Len(added)
        /\ \A i \in 1 .. Len(chain) + Len(added) :
              chain'[i] = IF i <= Len(chain) THEN chain[i] ELSE added[i - Len(chain)]
    <3>1. \A s, t \in Seq(Entries) :
             /\ s \o t \in Seq(Entries) /\ Len(s \o t) = Len(s) + Len(t)
             /\ \A i \in 1 .. Len(s) + Len(t) :
                   (s \o t)[i] = IF i <= Len(s) THEN s[i] ELSE t[i - Len(s)]
      OBVIOUS
    <3>2. chain \in Seq(Entries)
      BY <1>1
    <3>3. QED
      BY <2>1, <2>2, <3>1, <3>2
  <2>4. Now + 1 \in 1 .. Now + 2 /\ Now + 2 \in 1 .. Now + 2 /\ Now \in Nat
    BY <1>4
  <2>5. chain'[Now + 1] = added[1] /\ chain'[Now + 2] = added[2]
    BY <2>1, <2>3, <2>4 DEF Now
  <2>6. QED
    BY <2>1, <2>3, <2>4, <2>5 DEF Now
<1>9. Extends(chain, chain')
  BY <1>4, <1>8 DEF Extends, Now
<1>10. /\ EpochIn(chain', Now) = EpochIn(chain, Now)
       /\ EpochIn(chain', Now + 1) = EpochIn(chain, Now) + 1
       /\ EpochIn(chain', Now + 2) = EpochIn(chain, Now) + 1
  <2>1. EpochIn(chain', Now) = EpochIn(chain, Now)
    BY <1>4, <1>9, EpochsKept DEF Now
  <2>2. EpochIn(chain', Now + 1) = EpochIn(chain', Now) + 1
    BY <1>4, <1>7, <1>8, EpochOfNext
  <2>3. EpochIn(chain', (Now + 1) + 1) = EpochIn(chain', Now + 1)
    <3>1. (Now + 1) + 1 = Now + 2 /\ Now + 1 \in Nat
      BY <1>4
    <3>2. chain'[(Now + 1) + 1].op = "checkpoint"
      BY <1>7, <1>8, <3>1
    <3>3. QED
      BY <3>1, <3>2, EpochOfNext
  <2>4. (Now + 1) + 1 = Now + 2
    BY <1>4
  <2>5. QED
    BY <2>1, <2>2, <2>3, <2>4
<1>11. distribution' \in Distributions /\ ValueMatchesStatus(distribution')
  <2>1. [seq |-> Now + 2, value |-> Enumerated(d.value)] \in Enumerations
    BY <1>4, <1>6 DEF Enumerations
  <2>2. QED
    BY <1>1, <1>3, <1>5, <2>1, DistributionShape DEF Distributions, ValueMatchesStatus
<1>12. Later(d, distribution')
  <2>1. /\ d.manifest.version \in Nat /\ d.meta.version \in Nat /\ d.value.version \in Nat
    BY <1>1, DistributionNumbers
  <2>2. /\ d.manifest.epoch <= m.epoch /\ d.manifest.version < m.version
        /\ d.snapshot.seq <= Now + 2
    BY <1>4, <1>5, <2>1
  <2> HIDE DEF m
  <2>3. QED
    BY <1>3, <2>1, <2>2 DEF Later
<1>13. Attested(chain', distribution')
  <2>1. ASSUME d.status = "active"
        PROVE  /\ d.value.head \in 1 .. Now + 2
               /\ d.value.epoch = EpochIn(chain', d.value.head)
    <3>1. d.value.head \in 1 .. Now /\ d.value.epoch = EpochIn(chain, d.value.head)
      BY <1>4, <2>1 DEF ServerTypes, Attested
    <3>2. EpochIn(chain', d.value.head) = EpochIn(chain, d.value.head)
      BY <1>4, <1>9, <3>1, EpochsKept DEF Now
    <3>3. QED
      BY <1>4, <3>1, <3>2
  <2>2. Now + 2 \in 2 .. Now + 2 /\ m.head <= Now + 2
    BY <1>4, <1>5
  <2>3. ManifestAttested(chain', distribution')
    <3>1. PICK e, longer : e = distribution' /\ longer = chain'
      OBVIOUS
    <3>2. e.manifest = m /\ e.snapshot.seq = Now + 2
      BY <1>3, <3>1
    <3>3. /\ e.manifest.version = d.manifest.version + 1
          /\ longer[Now + 1].op = "rotate" /\ longer[e.snapshot.seq].op = "checkpoint"
          /\ longer[e.snapshot.seq].manifest = Evidence(e.manifest)
      BY <1>5, <1>7, <1>8, <3>1, <3>2
    <3>4. Extends(chain, longer) /\ LiveAt(Now)
      BY <1>1, <1>9, <3>1
    <3> HIDE DEF m, attested
    <3>5. ManifestAttested(longer, e)
      BY <3>2, <3>3, <3>4, AppendedIsAttested
    <3>6. QED
      BY <3>1, <3>5
  <2>4. QED
    BY <1>3, <1>5, <1>6, <1>7, <1>8, <1>10, <2>1, <2>2, <2>3 DEF Attested
<1>14. chain'[Now'].op = "checkpoint" /\ distribution'.snapshot.seq = Now'
       /\ distribution'.manifest.epoch = EpochIn(chain', Now')
  BY <1>3, <1>5, <1>7, <1>8, <1>10 DEF Now
<1>15. QED
  BY <1>8, <1>9, <1>11, <1>12, <1>13, <1>14 DEF ServerMoves, ServerTypes

\* A checkpoint attests what is served when it is appended.
LEMMA StateIsCheckpointed ==
    ASSUME ServerTypes, Checkpoint
    PROVE  ServerMoves
<1> DEFINE d == distribution
           attested == CheckpointEntry(Evidence(d.manifest), Enumerated(d.value))
<1>1. /\ d \in Distributions /\ ValueMatchesStatus(d) /\ chain \in Seq(Entries) /\ LiveAt(Now)
      /\ chain' = Append(chain, attested)
      /\ distribution' = [d EXCEPT !.snapshot = [seq |-> Now + 1, value |-> Enumerated(d.value)]]
  BY DEF ServerTypes, Checkpoint, Write
<1>2. d = [status |-> d.status, meta |-> d.meta, value |-> d.value,
           manifest |-> d.manifest, snapshot |-> d.snapshot]
  BY <1>1, DistributionShape
<1>3. distribution' = [status |-> d.status, meta |-> d.meta, value |-> d.value,
                       manifest |-> d.manifest,
                       snapshot |-> [seq |-> Now + 1, value |-> Enumerated(d.value)]]
  BY <1>1, <1>2
<1>4. /\ Now \in Nat /\ Now >= 2 /\ EpochIn(chain, Now) \in Nat
      /\ d.manifest.epoch = EpochIn(chain, Now) /\ d.snapshot.seq = Now /\ d.manifest.head <= Now
      /\ d.manifest \in SignedManifests /\ d.manifest.head \in Nat
  <2>1. d.manifest \in SignedManifests
    BY <1>1, DistributionShape
  <2>2. d.manifest.head \in Nat
    BY <2>1 DEF SignedManifests
  <2>3. QED
    BY <1>1, <2>1, <2>2, SignedNow DEF ServerTypes, Attested
<1>5. /\ Evidence(d.manifest) \in EpochEvidence /\ Evidence(d.manifest).epoch = d.manifest.epoch
      /\ Enumerated(d.value) \in PlainEvidence
      /\ Enumerated(d.value).version = d.value.version
      /\ d.value.version > 0 <=> d.status = "active"
  BY <1>1, <1>4, SignedEvidence, EnumeratedShape
<1>6. /\ attested \in Entries /\ attested.op = "checkpoint"
      /\ attested.manifest = Evidence(d.manifest) /\ attested.value = Enumerated(d.value)
  BY <1>5, EntryShapes
<1>7. /\ chain' \in Seq(Entries) /\ Len(chain') = Now + 1 /\ chain'[Now + 1] = attested
      /\ \A i \in 1 .. Now : chain'[i] = chain[i]
  <2> HIDE DEF attested
  <2>1. QED
    BY <1>1, <1>6 DEF Now
<1>8. Extends(chain, chain')
  BY <1>4, <1>7 DEF Extends, Now
<1>9. EpochIn(chain', Now + 1) = EpochIn(chain, Now)
  <2>1. EpochIn(chain', Now) = EpochIn(chain, Now)
    BY <1>4, <1>8, EpochsKept DEF Now
  <2>2. EpochIn(chain', Now + 1) = EpochIn(chain', Now)
    BY <1>4, <1>6, <1>7, EpochOfNext
  <2>3. QED
    BY <2>1, <2>2
<1>10. distribution' \in Distributions /\ ValueMatchesStatus(distribution')
  <2>1. [seq |-> Now + 1, value |-> Enumerated(d.value)] \in Enumerations
    BY <1>4, <1>5 DEF Enumerations
  <2>2. QED
    BY <1>1, <1>3, <2>1, DistributionShape DEF Distributions, ValueMatchesStatus
<1>11. Later(d, distribution')
  <2>1. /\ d.manifest.version \in Nat /\ d.meta.version \in Nat /\ d.value.version \in Nat
    BY <1>1, DistributionNumbers
  <2>2. QED
    BY <1>3, <1>4, <2>1 DEF Later
<1>12. Attested(chain', distribution')
  <2>1. ASSUME d.status = "active"
        PROVE  /\ d.value.head \in 1 .. Now + 1
               /\ d.value.epoch = EpochIn(chain', d.value.head)
    <3>1. d.value.head \in 1 .. Now /\ d.value.epoch = EpochIn(chain, d.value.head)
      BY <1>4, <2>1 DEF ServerTypes, Attested
    <3>2. EpochIn(chain', d.value.head) = EpochIn(chain, d.value.head)
      BY <1>4, <1>8, <3>1, EpochsKept DEF Now
    <3>3. QED
      BY <1>4, <3>1, <3>2
  <2>2. Now + 1 \in 2 .. Now + 1 /\ d.manifest.head <= Now + 1
    BY <1>4
  <2>3. ManifestAttested(chain', distribution')
    <3>1. PICK e, longer : e = distribution' /\ longer = chain'
      OBVIOUS
    <3>2. e.manifest = d.manifest /\ e.snapshot.seq = Now + 1
      BY <1>3, <3>1
    <3>3. /\ ~ (Now + 1 < e.snapshot.seq) /\ longer[e.snapshot.seq].op = "checkpoint"
          /\ longer[e.snapshot.seq].manifest = Evidence(e.manifest)
      BY <1>4, <1>6, <1>7, <3>1, <3>2
    <3>4. Extends(chain, longer) /\ LiveAt(Now)
      BY <1>1, <1>8, <3>1
    <3> HIDE DEF attested
    <3>5. ManifestAttested(longer, e)
      BY <3>2, <3>3, <3>4, AppendedIsAttested
    <3>6. QED
      BY <3>1, <3>5
  <2>4. QED
    BY <1>3, <1>4, <1>5, <1>6, <1>7, <1>9, <2>1, <2>2, <2>3 DEF Attested
<1>13. chain'[Now'].op = "checkpoint" /\ distribution'.snapshot.seq = Now'
       /\ distribution'.manifest.epoch = EpochIn(chain', Now')
  BY <1>3, <1>4, <1>6, <1>7, <1>9 DEF Now
<1>14. QED
  BY <1>7, <1>8, <1>10, <1>11, <1>12, <1>13 DEF ServerMoves, ServerTypes

\* What attests a distribution goes on attesting it as the chain grows.
LEMMA AttestedKept ==
    ASSUME NEW entries, NEW longer, Extends(entries, longer),
           Len(entries) \in Nat, Len(longer) \in Nat,
           NEW d \in Distributions, Attested(entries, d)
    PROVE  Attested(longer, d)
<1> DEFINE s == d.snapshot.seq
<1>1. s \in 2 .. Len(entries) /\ s \in Nat /\ d.manifest.head \in Nat
  <2>1. d.manifest \in SignedManifests
    BY DistributionShape
  <2>2. d.manifest.head \in Nat
    BY <2>1 DEF SignedManifests
  <2>3. QED
    BY <2>2 DEF Attested
<1>2. /\ longer[s] = entries[s] /\ s \in 2 .. Len(longer)
      /\ EpochIn(longer, s) = EpochIn(entries, s)
      /\ \A i \in 1 .. s : longer[i] = entries[i]
  BY <1>1, EpochsKept DEF Extends
<1>3. ASSUME d.status = "active"
      PROVE  EpochIn(longer, d.value.head) = EpochIn(entries, d.value.head)
  <2>1. d.value.head \in 1 .. s
    BY <1>3 DEF Attested
  <2>2. QED
    BY <1>1, <2>1, EpochsKept
<1>4. EpochIn(longer, d.manifest.head) = EpochIn(entries, d.manifest.head)
  BY <1>1, EpochsKept DEF Attested
<1>5. ManifestAttested(longer, d)
  BY <1>2, <1>4 DEF Attested, ManifestAttested
<1>6. QED
  BY <1>1, <1>2, <1>3, <1>5 DEF Attested

\* A deletion is the end of the chain, and what was served before it is served no more.
LEMMA EnvironmentIsDeleted ==
    ASSUME ServerTypes, DeleteEnvironment
    PROVE  ServerMoves
<1>1. /\ distribution \in Distributions /\ chain \in Seq(Entries)
      /\ chain' = Append(chain, Entry("delete")) /\ distribution' = distribution
      /\ Now \in Nat /\ distribution.manifest.epoch = EpochIn(chain, Now)
  BY SignedNow DEF ServerTypes, DeleteEnvironment, Write
<1>2. Entry("delete") \in Entries /\ Entry("delete").op = "delete"
  BY EntryShapes
<1>3. /\ chain' \in Seq(Entries) /\ Now' = Now + 1 /\ chain'[Now + 1] = Entry("delete")
      /\ \A i \in 1 .. Now : chain'[i] = chain[i]
  BY <1>1, <1>2 DEF Now
<1>4. Extends(chain, chain')
  BY <1>1, <1>3 DEF Extends, Now
<1>5. EpochIn(chain', Now + 1) = EpochIn(chain, Now)
  <2>1. EpochIn(chain', Now) = EpochIn(chain, Now)
    BY <1>1, <1>4, EpochsKept DEF Now
  <2>2. EpochIn(chain', Now + 1) = EpochIn(chain', Now)
    BY <1>1, <1>2, <1>3, EpochOfNext
  <2>3. QED
    BY <2>1, <2>2
<1>6. ~ LiveAt(Now)'
  <2>1. PICK n, longer : n = Now' /\ longer = chain'
    OBVIOUS
  <2>2. n = Now + 1 /\ Now \in Nat /\ longer[Now + 1] = Entry("delete")
    BY <1>1, <1>3, <2>1
  <2>3. n \in 1 .. n /\ longer[n].op = "delete"
    BY <1>2, <2>2
  <2>4. QED
    BY <2>1, <2>3 DEF LiveAt
<1>7. Attested(chain', distribution)
  BY <1>1, <1>3, <1>4, AttestedKept DEF ServerTypes, Now
<1>8. Later(distribution, distribution')
  BY <1>1, LaterItself
<1>9. QED
  BY <1>1, <1>2, <1>3, <1>4, <1>5, <1>6, <1>7, <1>8 DEF ServerMoves, ServerTypes

History == {past[i] : i \in DOMAIN past} \cup {distribution}

(* The state of the server: what it has served, and the chain that attests it. *)
ServerInvariant ==
    /\ ServerTypes
    /\ past \in Seq(Distributions)
    /\ Recorded(History)
    /\ \A x \in History : Later(x, distribution)

\* The writes of other members leave the commands alone.
LEMMA WritesMove ==
    ASSUME ServerTypes, Writes
    PROVE  /\ ServerMoves /\ past' = Append(past, distribution)
           /\ UNCHANGED <<store, accepted, command, lies>>
<1>1. past' = Append(past, distribution) /\ UNCHANGED <<store, accepted, command, lies>>
  BY DEF Writes, PushValue, Activate, DeleteVariable, Rotate, Checkpoint, DeleteEnvironment, Write
<1>2. ServerMoves
  BY ValueIsPushed, VariableIsActivated, VariableIsDeleted, EpochIsRotated, StateIsCheckpointed,
     EnvironmentIsDeleted
     DEF Writes
<1>3. QED
  BY <1>1, <1>2

\* A step of the server, or of nobody but commands.
LEMMA ServerStep ==
    ASSUME ServerInvariant, Writes \/ UNCHANGED serverVars
    PROVE  /\ ServerInvariant' /\ History \subseteq History'
           /\ Extends(chain, chain') /\ Later(distribution, distribution')
<1>1. Now \in Nat /\ distribution \in Distributions
  BY SignedNow DEF ServerInvariant, ServerTypes
<1>2. CASE Writes
  <2>1. ServerMoves /\ past' = Append(past, distribution)
    BY <1>2, WritesMove DEF ServerInvariant
  <2>2. past' \in Seq(Distributions) /\ History' = History \cup {distribution'}
    <3>1. past \in Seq(Distributions)
      BY DEF ServerInvariant
    <3>2. /\ past' \in Seq(Distributions) /\ Len(past') = Len(past) + 1
          /\ \A i \in 1 .. Len(past) : past'[i] = past[i]
          /\ past'[Len(past) + 1] = distribution
      BY <1>1, <2>1, <3>1
    <3>3. DOMAIN past' = DOMAIN past \cup {Len(past) + 1} /\ DOMAIN past = 1 .. Len(past)
      BY <3>1, <3>2
    <3>4. {past'[i] : i \in DOMAIN past'} = {past[i] : i \in DOMAIN past} \cup {distribution}
      BY <3>2, <3>3
    <3>5. QED
      BY <3>2, <3>4 DEF History
  <2>3. \A x \in History : x \in Distributions /\ ValueMatchesStatus(x) /\ Later(x, distribution)
    BY DEF ServerInvariant, Recorded
  <2>4. distribution' \in Distributions /\ ValueMatchesStatus(distribution') /\ ServerTypes'
    BY <2>1 DEF ServerMoves, ServerTypes
  <2>5. \A x \in History' : Later(x, distribution')
    BY <1>1, <2>1, <2>2, <2>3, <2>4, LaterOrdered, LaterItself DEF ServerMoves
  <2>6. \A x \in History', y \in History' : Compatible(x, y)
    <3>1. \A x \in History' : x \in Distributions /\ Compatible(x, distribution') /\ Compatible(distribution', x)
      BY <2>2, <2>3, <2>4, <2>5, LaterAgrees
    <3>2. QED
      BY <2>2, <3>1 DEF ServerInvariant, Recorded
  <2>7. Recorded(History')
    BY <2>2, <2>3, <2>4, <2>6 DEF Recorded
  <2>8. QED
    BY <2>1, <2>2, <2>4, <2>5, <2>7 DEF ServerInvariant, ServerMoves
<1>3. CASE UNCHANGED serverVars
  <2>1. ServerInvariant' /\ History' = History
    BY <1>3 DEF serverVars, ServerInvariant, ServerTypes, History, Now, LiveAt
  <2>2. Extends(chain, chain')
    BY <1>1, <1>3 DEF serverVars, Extends, Now
  <2>3. Later(distribution, distribution')
    BY <1>1, <1>3, LaterItself DEF serverVars
  <2>4. QED
    BY <2>1, <2>2, <2>3
<1>4. QED
  BY <1>2, <1>3

\* The environment as it is created has its first checkpoint.
LEMMA ServerInitial ==
    ASSUME Init
    PROVE  ServerInvariant
<1> DEFINE first == Manifest(1, 1, 0)
<1>1. PICK value \in {NoValue, [version |-> 1, epoch |-> 1, hash |-> 1, head |-> 2]} :
         distribution =
             [status |-> IF value = NoValue THEN "declared" ELSE "active",
              meta |-> [version |-> 1, hash |-> 1], value |-> value,
              manifest |-> Manifest(2, 1, 2),
              snapshot |-> [seq |-> 2, value |-> Enumerated(NoValue)]]
  BY DEF Init
<1>2. chain = <<Entry("create"), CheckpointEntry(Evidence(first), Enumerated(NoValue))>> /\ past = <<>>
  BY DEF Init
<1>3. /\ Evidence(first) = [version |-> 1, epoch |-> 1, hash |-> 1]
      /\ Enumerated(NoValue) = [version |-> 0, hash |-> 0]
      /\ Manifest(2, 1, 2) \in SignedManifests
      /\ Manifest(2, 1, 2).epoch = 1 /\ Manifest(2, 1, 2).head = 2
  BY DEF Manifest, Evidence, Enumerated, NoValue, SignedManifests
<1>4. /\ value \in SignedValues \cup {NoValue}
      /\ value # NoValue => value.version = 1 /\ value.epoch = 1 /\ value.head = 2
  BY DEF SignedValues
<1>5. distribution \in Distributions /\ ValueMatchesStatus(distribution)
  <2>1. [version |-> 1, hash |-> 1] \in SignedMetas
    BY DEF SignedMetas
  <2>2. [seq |-> 2, value |-> Enumerated(NoValue)] \in Enumerations
    BY <1>3 DEF Enumerations, PlainEvidence
  <2>3. QED
    BY <1>1, <1>3, <1>4, <2>1, <2>2 DEF Distributions, Statuses, ValueMatchesStatus
<1>6. /\ chain \in Seq(Entries) /\ Len(chain) = 2 /\ chain[1].op = "create"
      /\ chain[2].op = "checkpoint" /\ chain[2].manifest.epoch = 1
      /\ chain[2].manifest.version = 1 /\ chain[2].value = Enumerated(NoValue)
  <2>1. Evidence(first) \in EpochEvidence /\ Enumerated(NoValue) \in PlainEvidence
    BY <1>3 DEF EpochEvidence, PlainEvidence
  <2> DEFINE x == Entry("create")
             y == CheckpointEntry(Evidence(first), Enumerated(NoValue))
  <2>2. /\ x \in Entries /\ y \in Entries /\ x.op = "create" /\ y.op = "checkpoint"
        /\ y.manifest = Evidence(first) /\ y.value = Enumerated(NoValue)
    BY <2>1, EntryShapes
  <2>3. chain = <<x, y>>
    BY <1>2
  <2> HIDE DEF x, y
  <2>4. QED
    BY <1>3, <2>2, <2>3
<1>7. EpochIn(chain, 2) = 1
  <2>1. EpochOps(chain, 2) = {1}
    <3>1. 1 .. 2 = {1, 2}
      OBVIOUS
    <3>2. QED
      BY <1>6, <3>1 DEF EpochOps
  <2>2. QED
    BY <2>1, FS_Singleton DEF EpochIn, EpochOps
<1>8. Attested(chain, distribution)
  <2>1. distribution.snapshot.seq = 2 /\ distribution.manifest = Manifest(2, 1, 2)
    BY <1>1
  <2>2. Manifest(2, 1, 2).version = 2
    BY DEF Manifest
  <2>3. \A i \in 1 .. 2 : chain[i].op = "checkpoint" => chain[i].manifest.version < 2
    <3>1. \A i \in 1 .. 2 : i = 1 \/ i = 2
      OBVIOUS
    <3>2. QED
      BY <1>6, <3>1
  <2>4. ManifestAttested(chain, distribution)
    BY <1>3, <1>7, <2>1, <2>2, <2>3 DEF ManifestAttested
  <2>5. QED
    BY <1>1, <1>3, <1>4, <1>6, <1>7, <2>4 DEF Attested
<1>9. ServerTypes
  BY <1>1, <1>3, <1>5, <1>6, <1>7, <1>8 DEF ServerTypes, Now
<1>10. History = {distribution}
  BY <1>2 DEF History
<1>11. Later(distribution, distribution) /\ Compatible(distribution, distribution)
  BY <1>5, LaterItself, LaterAgrees
<1>12. past \in Seq(Distributions)
  BY <1>2
<1>13. QED
  BY <1>5, <1>9, <1>10, <1>11, <1>12 DEF ServerInvariant, Recorded

(***************************************************************************)
(* Commands.  What a command was promised is below what it loaded, that is  *)
(* below everything accepted, and all of it was signed by somebody.        *)
(***************************************************************************)

CommandShape(s) ==
    s = [phase |-> s.phase, view |-> s.view, current |-> s.current, promised |-> s.promised,
         fetches |-> s.fetches, kind |-> s.kind, response |-> s.response,
         fetchedAt |-> s.fetchedAt, resynced |-> s.resynced, reason |-> s.reason]

Holding == {"shortened", "checked", "open", "fetched"}

Sound(history, all, s) ==
    /\ CommandShape(s)
    /\ s.view \in Nat /\ s.fetchedAt \in Nat
    /\ s.phase \notin {"new", "refused"} => s.view > 0
    /\ GenuineFloor(history, s.current) /\ FollowsFloor(s.current, all)
    /\ GenuineFloor(history, s.promised) /\ FollowsFloor(s.promised, all)
    /\ s.phase \in Holding => FollowsFloor(s.promised, s.current)
    /\ s.phase = "fetched" =>
          GenuineResponse(history, s.response) /\ s.kind \in {"values", "metadata"}

(* While it has no conflict, the store is the join of what was accepted,    *)
(* but for the head, which is committed before anything is accepted.        *)
FloorInvariant ==
    /\ store = [floor |-> store.floor, conflicts |-> store.conflicts, intents |-> store.intents]
    /\ GenuineFloor(History, accepted)
    /\ store.conflicts = {} => GenuineFloor(History, store.floor) /\ SameButHead(store.floor, accepted)
    /\ command = [c \in Commands |-> command[c]]
    /\ \A c \in Commands : Sound(History, accepted, command[c])

\* A floor that has observed nothing comes before every other.
LEMMA BottomIsGenuine ==
    ASSUME NEW history, Recorded(history)
    PROVE  /\ GenuineFloor(history, BottomFloor)
           /\ \A f : GenuineFloor(history, f) => FollowsFloor(BottomFloor, f)
<1>1. BottomFloor \in EnvironmentFloors
  BY DEF BottomFloor, EnvironmentFloors, NoEvidence, NoEpochEvidence, PlainEvidence, EpochEvidence,
         VariableFloors
<1>2. GenuineFloor(history, BottomFloor)
  BY <1>1 DEF BottomFloor, GenuineFloor, GenuineManifest, GenuineVariable, Heads, EnvironmentFloors
<1>3. ASSUME NEW f, GenuineFloor(history, f) PROVE FollowsFloor(BottomFloor, f)
  <2>1. /\ f.pullEpoch \in Nat /\ f.observedEpoch \in Nat
        /\ f.manifest \in EpochEvidence /\ GenuineManifest(history, f.manifest)
        /\ f.meta \in {NoEvidence, EnvironmentMeta}
    BY <1>3, FloorShape DEF GenuineFloor
  <2>2. Follows(NoEpochEvidence, f.manifest)
    <3>1. \A x \in history : Evidence(x.manifest).version > 0
      BY DistributionShape, SignedEvidence DEF Recorded
    <3>2. f.manifest.version = 0 => f.manifest = NoEpochEvidence
      BY <2>1, <3>1 DEF GenuineManifest, Colluding
    <3>3. QED
      BY <2>1, <3>2 DEF Follows, NoEpochEvidence, EpochEvidence
  <2>3. Follows(NoEvidence, f.meta)
    BY <2>1 DEF Follows, NoEvidence, EnvironmentMeta
  <2>4. QED
    BY <2>1, <2>2, <2>3 DEF FollowsFloor, FollowsVariable, BottomFloor
<1>4. QED
  BY <1>2, <1>3

\* Before any command has begun nothing has been accepted.
LEMMA CommandInitial ==
    ASSUME Init
    PROVE  FloorInvariant
<1>1. Recorded(History)
  BY ServerInitial DEF ServerInvariant
<1>2. /\ store = EmptyFold /\ accepted = BottomFloor /\ command = [c \in Commands |-> NewCommand]
  BY DEF Init
<1>3. GenuineFloor(History, BottomFloor) /\ FollowsFloor(BottomFloor, BottomFloor)
  BY <1>1, BottomIsGenuine
<1>4. Sound(History, BottomFloor, NewCommand)
  BY <1>3 DEF NewCommand, Sound, CommandShape, Holding
<1>5. QED
  BY <1>2, <1>3, <1>4 DEF FloorInvariant, EmptyFold, SameButHead

\* What a command may be while others go on.
LEMMA StaysSound ==
    ASSUME NEW history, NEW longer, history \subseteq longer, NEW all, NEW more,
           GenuineFloor(longer, all), GenuineFloor(longer, more), FollowsFloor(all, more),
           NEW s, Sound(history, all, s)
    PROVE  Sound(longer, more, s)
<1>1. GenuineFloor(longer, s.current) /\ GenuineFloor(longer, s.promised)
  BY GenuineGrows DEF Sound
<1>2. FollowsFloor(s.current, more) /\ FollowsFloor(s.promised, more)
  BY <1>1, FloorsOrdered DEF Sound
<1>3. s.phase = "fetched" => GenuineResponse(longer, s.response)
  BY GenuineGrows DEF Sound
<1>4. QED
  BY <1>1, <1>2, <1>3 DEF Sound

\* A command that has given up holds nothing.
LEMMA RefusedIsSound ==
    ASSUME NEW history, Recorded(history), NEW all, GenuineFloor(history, all), NEW reason,
           NEW s, s = [NewCommand EXCEPT !.phase = "refused", !.reason = reason]
    PROVE  Sound(history, all, s)
<1>1. PICK n : n = NewCommand
  OBVIOUS
<1>2. /\ CommandShape(n) /\ n.view = 0 /\ n.fetchedAt = 0
      /\ n.current = BottomFloor /\ n.promised = BottomFloor
  BY <1>1 DEF NewCommand, CommandShape
<1>3. s = [n EXCEPT !.phase = "refused", !.reason = reason]
  BY <1>1
<1>4. /\ CommandShape(s) /\ s.phase = "refused" /\ s.view = 0 /\ s.fetchedAt = 0
      /\ s.current = BottomFloor /\ s.promised = BottomFloor
  BY <1>2, <1>3 DEF CommandShape
<1>5. GenuineFloor(history, BottomFloor) /\ FollowsFloor(BottomFloor, all)
  BY BottomIsGenuine
<1>6. QED
  BY <1>4, <1>5 DEF Sound, Holding

\* One command moves, the server and what was accepted do not.
LEMMA OneMoves ==
    ASSUME FloorInvariant, NEW c \in Commands, NEW s, Become(c, s), UNCHANGED <<serverVars, accepted>>,
           Sound(History, accepted, s)
    PROVE  /\ command' = [o \in Commands |-> command'[o]]
           /\ History' = History
           /\ \A o \in Commands : Sound(History', accepted', command'[o])
<1>1. command' = [command EXCEPT ![c] = s] /\ command = [o \in Commands |-> command[o]]
  BY DEF Become, FloorInvariant
<1>2. command' = [o \in Commands |-> IF o = c THEN s ELSE command[o]]
  BY <1>1
<1>3. History' = History /\ accepted' = accepted
  BY DEF serverVars, History
<1>4. QED
  BY <1>2, <1>3 DEF FloorInvariant

\* The store is left alone, or takes a head.
LEMMA HeadIsTaken ==
    ASSUME NEW history, Recorded(history), NEW f, GenuineFloor(history, f), NEW n \in Nat \ {0}
    PROVE  LET observed == [BottomFloor EXCEPT !.head = HeadAt(n)] IN
           /\ GenuineFloor(history, observed)
           /\ FloorConflicts(f, observed) = {}
           /\ SameButHead(JoinedFloor(f, observed), f)
<1> DEFINE observed == [BottomFloor EXCEPT !.head = HeadAt(n)]
           j == JoinedFloor(f, observed)
<1>1. observed = [head |-> HeadAt(n), pullEpoch |-> 0, observedEpoch |-> 0, meta |-> NoEvidence,
                  manifest |-> NoEpochEvidence, variable |-> NoVariable]
  BY DEF BottomFloor
<1>2. GenuineFloor(history, BottomFloor) /\ FollowsFloor(BottomFloor, f)
  BY BottomIsGenuine
<1>3. HeadAt(n) \in Heads /\ HeadAt(n) \in PlainEvidence
  BY DEF HeadAt, Heads, PlainEvidence
<1> HIDE DEF observed
<1>4. GenuineFloor(history, observed)
  BY <1>1, <1>2, <1>3 DEF GenuineFloor, BottomFloor, EnvironmentFloors
<1>5. /\ f.manifest \in EpochEvidence /\ f.meta \in PlainEvidence /\ f.variable \in VariableFloors
      /\ f.pullEpoch \in Nat /\ f.observedEpoch \in Nat
  BY FloorShape
<1>6. Follows(NoEpochEvidence, f.manifest) /\ Follows(NoEvidence, f.meta)
  BY <1>2 DEF FollowsFloor, BottomFloor
<1>7. ~ Disagree(f.manifest, NoEpochEvidence) /\ VariableConflicts(f.variable, NoVariable) = {}
  BY <1>6 DEF Disagree, Follows, NoEpochEvidence, VariableConflicts, NoVariable
<1>8. FloorConflicts(f, observed) = {}
  BY <1>1, <1>4, <1>7, ConflictsOfFloors
<1>9. Joined(f.manifest, NoEpochEvidence) = f.manifest /\ Joined(f.meta, NoEvidence) = f.meta
  BY <1>5, <1>6 DEF Joined, Follows, NoEpochEvidence, NoEvidence, EpochEvidence, PlainEvidence
<1>10. JoinedVariable(f.variable, NoVariable) = f.variable
  <2>1. NoVariable.status = "unseen" /\ (f.variable.status = "unseen" => f.variable = NoVariable)
    BY <1>5, VariableShape DEF NoVariable
  <2>2. QED
    BY <2>1 DEF JoinedVariable
<1>11. MaxOf(f.pullEpoch, 0) = f.pullEpoch /\ MaxOf(f.observedEpoch, 0) = f.observedEpoch
  BY <1>5 DEF MaxOf
<1>12. SameButHead(j, f)
  BY <1>1, <1>9, <1>10, <1>11 DEF SameButHead, JoinedFloor
<1>13. QED
  BY <1>4, <1>8, <1>12 DEF observed

(***************************************************************************)
(* What the server serves, whether it lies or not, was signed by somebody. *)
(***************************************************************************)

\* What an honest server has served.
LEMMA HonestIsGenuine ==
    ASSUME NEW history, Recorded(history), NEW x \in history
    PROVE  GenuineResponse(history, x)
<1>1. x \in Distributions /\ ValueMatchesStatus(x)
  BY DEF Recorded
<1>2. x.manifest \in SignedManifests /\ x.status \in Statuses /\ x.meta \in SignedMetas /\ x.meta \in PlainEvidence
  BY <1>1, DistributionShape
<1>3. GenuineManifest(history, Evidence(x.manifest)) /\ x.manifest.version > 0
  BY <1>2, SignedEvidence DEF GenuineManifest, SignedManifests
<1>4. PICK v : v = VariableFloor(x)
  OBVIOUS
<1>5. v.status = x.status /\ v.value = Evidence(x.value) /\ v.meta = x.meta
  BY <1>4 DEF VariableFloor
<1>6. IF x.status = "active" THEN GenuineValue(history, v.value) ELSE v.value = NoEpochEvidence
  <2>1. x.status = "active" => x.value \in SignedValues
    BY <1>1, DistributionShape DEF ValueMatchesStatus
  <2>2. x.status # "active" => x.value = NoValue
    BY <1>1 DEF ValueMatchesStatus
  <2>3. QED
    BY <1>5, <2>1, <2>2, SignedEvidence DEF GenuineValue
<1>7. v.value \in EpochEvidence
  BY <1>6 DEF GenuineValue, NoEpochEvidence, EpochEvidence
<1>8. v \in VariableFloors
  BY <1>2, <1>4, <1>5, <1>7 DEF VariableFloor, VariableFloors, Statuses
<1>9. QED
  BY <1>2, <1>3, <1>4, <1>5, <1>6, <1>8 DEF GenuineResponse, GenuineVariable

\* A distribution that differs from an honest one in what a colluding member signed.
LEMMA ForgedValueIsGenuine ==
    ASSUME NEW history, NEW x, GenuineResponse(history, x), x.status = "active",
           NEW n \in Nat \ {0}, NEW e \in Nat \ {0}, NEW h,
           NEW d, d.status = x.status, d.meta = x.meta, d.manifest = x.manifest,
           d.value = Forged(n, e, h)
    PROVE  GenuineResponse(history, d)
<1>1. PICK v : v = VariableFloor(d)
  OBVIOUS
<1>2. PICK w : w = VariableFloor(x)
  OBVIOUS
<1>3. /\ v = [status |-> "active", value |-> Evidence(d.value), meta |-> x.meta]
      /\ w = [status |-> "active", value |-> Evidence(x.value), meta |-> x.meta]
  BY <1>1, <1>2 DEF VariableFloor
<1>4. v.value = [version |-> n, epoch |-> e, hash |-> 1 + e]
  BY <1>3 DEF Evidence, Forged
<1>5. GenuineValue(history, v.value)
  BY <1>4 DEF GenuineValue, Colluding, EpochEvidence
<1>6. GenuineVariable(history, w) /\ w # NoVariable
  BY <1>2, <1>3 DEF GenuineResponse, NoVariable
<1>7. x.meta \in PlainEvidence
  BY <1>3, <1>6 DEF GenuineVariable, VariableFloors
<1>8. v \in VariableFloors
  BY <1>3, <1>5, <1>7 DEF VariableFloors, GenuineValue
<1>9. GenuineVariable(history, v)
  BY <1>3, <1>5, <1>6, <1>8 DEF GenuineVariable, Statuses
<1>10. QED
  BY <1>1, <1>9 DEF GenuineResponse

\* The same of a manifest.
LEMMA ForgedManifestIsGenuine ==
    ASSUME NEW history, NEW x, GenuineResponse(history, x),
           NEW n \in Nat \ {0}, NEW e \in Nat \ {0},
           NEW d, d.status = x.status, d.meta = x.meta, d.value = x.value,
           d.manifest.version = n, d.manifest.epoch = e, d.manifest.hash = 1 + e
    PROVE  GenuineResponse(history, d)
<1>1. Evidence(d.manifest) = [version |-> n, epoch |-> e, hash |-> 1 + e]
  BY DEF Evidence
<1>2. GenuineManifest(history, Evidence(d.manifest))
  BY <1>1 DEF GenuineManifest, Colluding, EpochEvidence
<1>3. VariableFloor(d) = VariableFloor(x)
  BY DEF VariableFloor
<1>4. QED
  BY <1>2, <1>3 DEF GenuineResponse

\* Everything that a server can answer with, Lies included.
LEMMA ServedIsGenuine ==
    ASSUME ServerInvariant, NEW r \in {distribution} \cup Lies
    PROVE  GenuineResponse(History, r)
<1> DEFINE d == distribution
<1>1. /\ Recorded(History) /\ d \in Distributions /\ ValueMatchesStatus(d)
      /\ \A i \in DOMAIN past : past[i] \in History
      /\ d \in History
  BY DEF ServerInvariant, ServerTypes, History
<1>2. GenuineResponse(History, d)
  BY <1>1, HonestIsGenuine
<1>3. d = [status |-> d.status, meta |-> d.meta, value |-> d.value,
           manifest |-> d.manifest, snapshot |-> d.snapshot]
  BY <1>1, DistributionShape
<1>4. EpochAt(Now) \in Nat /\ \A e \in OldEpochs : e \in Nat \ {0}
  BY SignedNow DEF OldEpochs, ServerInvariant
<1>5. CASE r = d
  BY <1>2, <1>5
<1>6. CASE \E i \in DOMAIN past : r = past[i]
  BY <1>1, <1>6, HonestIsGenuine
<1>7. CASE r = [d EXCEPT !.snapshot.seq = 0]
  <2>1. /\ r.status = d.status /\ r.meta = d.meta /\ r.value = d.value /\ r.manifest = d.manifest
    BY <1>3, <1>7
  <2>2. VariableFloor(r) = VariableFloor(d)
    BY <2>1 DEF VariableFloor
  <2>3. QED
    BY <1>2, <2>1, <2>2 DEF GenuineResponse
<1>8. ASSUME d.status = "active", NEW v \in ForgedValues(d.value), r = [d EXCEPT !.value = v]
      PROVE  GenuineResponse(History, r)
  <2>1. /\ r.status = d.status /\ r.meta = d.meta /\ r.value = v /\ r.manifest = d.manifest
    BY <1>3, <1>8
  <2>2. d.value.version \in Nat \ {0} /\ d.value.epoch \in Nat \ {0}
    <3>1. d.value \in SignedValues
      BY <1>1, <1>8, DistributionShape DEF ValueMatchesStatus
    <3>2. QED
      BY <3>1 DEF SignedValues
  <2>3. \E n \in Nat \ {0}, e \in Nat \ {0} : \E h : v = Forged(n, e, h)
    <3>1. CASE v = Forged(d.value.version, d.value.epoch, d.value.head)
      BY <2>2, <3>1
    <3>2. CASE \E e \in OldEpochs : v = Forged(d.value.version + 1, e, OldHead(e))
      <4>1. d.value.version + 1 \in Nat \ {0}
        BY <2>2
      <4>2. QED
        BY <1>4, <3>2, <4>1
    <3>3. QED
      BY <1>8, <3>1, <3>2 DEF ForgedValues
  <2>4. QED
    BY <1>2, <1>8, <2>1, <2>3, ForgedValueIsGenuine
<1>9. ASSUME NEW m \in ForgedManifests(d.manifest), r = [d EXCEPT !.manifest = m]
      PROVE  GenuineResponse(History, r)
  <2>1. /\ r.status = d.status /\ r.meta = d.meta /\ r.value = d.value /\ r.manifest = m
    BY <1>3, <1>9
  <2>2. PICK e \in OldEpochs :
           m = [Manifest(d.manifest.version + 1, e, OldHead(e)) EXCEPT !.hash = 1 + e]
    BY <1>9 DEF ForgedManifests
  <2>3. m.version = d.manifest.version + 1 /\ m.epoch = e /\ m.hash = 1 + e
    BY <2>2 DEF Manifest
  <2>4. d.manifest.version + 1 \in Nat \ {0}
    BY <1>1, DistributionNumbers
  <2>5. QED
    BY <1>2, <1>4, <2>1, <2>3, <2>4, ForgedManifestIsGenuine
<1>10. QED
  BY <1>5, <1>6, <1>7, <1>8, <1>9 DEF Lies

(***************************************************************************)
(* The steps of a command.                                                 *)
(***************************************************************************)

\* What an observation does to the store.
LEMMA ObservationApplied ==
    ASSUME NEW s, s = [floor |-> s.floor, conflicts |-> s.conflicts, intents |-> s.intents], NEW f,
           NEW t, t = Applied(s, Observation(f))
    PROVE  /\ t = [floor |-> t.floor, conflicts |-> t.conflicts, intents |-> t.intents]
           /\ t.floor = JoinedFloor(s.floor, f)
           /\ t.conflicts = s.conflicts \cup FloorConflicts(s.floor, f)
<1>1. Observation(f).r = "observation" /\ Observation(f).floor = f
  BY DEF Observation
<1>2. t = [s EXCEPT !.floor = JoinedFloor(s.floor, f),
                    !.conflicts = s.conflicts \cup FloorConflicts(s.floor, f)]
  BY <1>1 DEF Applied
<1>3. t = [floor |-> JoinedFloor(s.floor, f),
           conflicts |-> s.conflicts \cup FloorConflicts(s.floor, f), intents |-> s.intents]
  BY <1>2
<1>4. QED
  BY <1>3

Invariant == ServerInvariant /\ FloorInvariant

\* A command that begins is promised what has been accepted so far.
LEMMA SyncSound ==
    ASSUME Invariant, NEW c \in Commands, NEW view \in 2 .. Now, Sync(c, view)
    PROVE  FloorInvariant'
<1>1. PICK n : n = command[c]
  OBVIOUS
<1>2. PICK s : s = [n EXCEPT !.phase = "synced", !.view = view, !.promised = accepted]
  OBVIOUS
<1>3. Sound(History, accepted, n) /\ n.phase = "new" /\ Recorded(History) /\ GenuineFloor(History, accepted)
  BY <1>1 DEF Invariant, FloorInvariant, ServerInvariant, Sync
<1>4. /\ CommandShape(s) /\ s.phase = "synced" /\ s.view = view /\ s.promised = accepted
      /\ s.current = n.current /\ s.fetchedAt = n.fetchedAt
  BY <1>2, <1>3 DEF CommandShape, Sound
<1>5. view \in Nat /\ view > 0
  BY SignedNow DEF Invariant, ServerInvariant
<1>6. Sound(History, accepted, s)
  BY <1>3, <1>4, <1>5, FollowsItself DEF Sound, Holding
<1>7. Become(c, s) /\ UNCHANGED <<serverVars, accepted, store>>
  BY <1>1, <1>2 DEF Sync, Synced
<1>8. QED
  BY <1>6, <1>7, OneMoves DEF Invariant, FloorInvariant

\* A refusal.
LEMMA RefuseSound ==
    ASSUME Invariant, NEW c \in Commands, NEW reason, Refuse(c, reason),
           UNCHANGED <<serverVars, accepted>>
    PROVE  /\ command' = [o \in Commands |-> command'[o]]
           /\ History' = History
           /\ \A o \in Commands : Sound(History', accepted', command'[o])
<1>1. PICK s : s = [NewCommand EXCEPT !.phase = "refused", !.reason = reason]
  OBVIOUS
<1>2. Become(c, s)
  BY <1>1 DEF Refuse
<1>3. Sound(History, accepted, s)
  BY <1>1, RefusedIsSound DEF Invariant, FloorInvariant, ServerInvariant
<1>4. QED
  BY <1>2, <1>3, OneMoves DEF Invariant

\* A floor that is loaded follows what the command was promised.
LEMMA LoadSound ==
    ASSUME Invariant, NEW c \in Commands, LoadFloor(c)
    PROVE  FloorInvariant'
<1>1. CASE store.conflicts # {}
  <2>1. Refuse(c, "conflict") /\ UNCHANGED <<serverVars, accepted, store>>
    BY <1>1 DEF LoadFloor
  <2>2. QED
    BY <2>1, RefuseSound DEF Invariant, FloorInvariant
<1>2. CASE store.conflicts = {}
  <2>1. PICK n : n = command[c]
    OBVIOUS
  <2>2. PICK phase \in {"shortened", "checked"} :
           phase = IF store.floor.head.version > command[c].view THEN "shortened" ELSE "checked"
    OBVIOUS
  <2>3. PICK s : s = [n EXCEPT !.phase = phase, !.current = store.floor]
    OBVIOUS
  <2>4. /\ Sound(History, accepted, n) /\ n.phase = "synced"
        /\ GenuineFloor(History, store.floor) /\ SameButHead(store.floor, accepted)
        /\ GenuineFloor(History, accepted)
    BY <1>2, <2>1 DEF Invariant, FloorInvariant, LoadFloor
  <2>5. /\ CommandShape(s) /\ s.phase = phase /\ s.view = n.view /\ s.promised = n.promised
        /\ s.current = store.floor /\ s.fetchedAt = n.fetchedAt
    BY <2>3, <2>4 DEF CommandShape, Sound
  <2>6. FollowsFloor(accepted, accepted)
    BY <2>4, FollowsItself
  <2>7. FollowsFloor(store.floor, accepted) /\ FollowsFloor(n.promised, store.floor)
    BY <2>4, <2>6 DEF SameButHead, FollowsFloor, Sound
  <2>8. Sound(History, accepted, s)
    BY <2>2, <2>4, <2>5, <2>7 DEF Sound, Holding
  <2>9. Become(c, s) /\ UNCHANGED <<serverVars, accepted, store>>
    BY <1>2, <2>1, <2>2, <2>3 DEF LoadFloor
  <2>10. QED
    BY <2>8, <2>9, OneMoves DEF Invariant, FloorInvariant
<1>3. QED
  BY <1>1, <1>2

\* The two syncs of a command that has begun move its view, or end it.
LEMMA ResyncSound ==
    ASSUME Invariant, NEW c \in Commands, NEW view \in 2 .. Now,
           ResyncShortened(c, view) \/ ResyncAhead(c, view)
    PROVE  FloorInvariant'
<1>1. UNCHANGED <<serverVars, accepted, store>>
  BY DEF ResyncShortened, ResyncAhead, Synced
<1>2. CASE Refuse(c, "chain-shortened")
  BY <1>1, <1>2, RefuseSound DEF Invariant, FloorInvariant
<1>3. CASE ~ Refuse(c, "chain-shortened")
  <2>1. PICK n : n = command[c]
    OBVIOUS
  <2>2. PICK s : Become(c, s) /\ \/ s = [n EXCEPT !.phase = "checked", !.view = view]
                                    /\ n.phase = "shortened"
                                 \/ s = [n EXCEPT !.view = view, !.resynced = TRUE]
                                    /\ n.phase = "fetched"
    BY <1>3, <2>1 DEF ResyncShortened, ResyncAhead
  <2>3. Sound(History, accepted, n)
    BY <2>1 DEF Invariant, FloorInvariant
  <2>4. /\ CommandShape(s) /\ s.view = view /\ s.promised = n.promised
        /\ s.current = n.current /\ s.fetchedAt = n.fetchedAt
        /\ s.response = n.response /\ s.kind = n.kind
        /\ n.phase \in Holding /\ s.phase \in Holding
        /\ s.phase = "fetched" => n.phase = "fetched"
    <3>1. CASE s = [n EXCEPT !.phase = "checked", !.view = view] /\ n.phase = "shortened"
      BY <2>3, <3>1 DEF CommandShape, Sound, Holding
    <3>2. CASE s = [n EXCEPT !.view = view, !.resynced = TRUE] /\ n.phase = "fetched"
      BY <2>3, <3>2 DEF CommandShape, Sound, Holding
    <3>3. QED
      BY <2>2, <3>1, <3>2
  <2>5. view \in Nat /\ view > 0
    BY SignedNow DEF Invariant, ServerInvariant
  <2>6. Sound(History, accepted, s)
    BY <2>3, <2>4, <2>5 DEF Sound
  <2>7. QED
    BY <1>1, <2>2, <2>6, OneMoves DEF Invariant, FloorInvariant
<1>4. QED
  BY <1>2, <1>3

\* A committed head leaves the rest of the floor as it was.
LEMMA CommitSound ==
    ASSUME Invariant, NEW c \in Commands, CommitHead(c)
    PROVE  FloorInvariant'
<1>1. PICK n : n = command[c]
  OBVIOUS
<1>2. Sound(History, accepted, n) /\ n.phase = "checked" /\ n.view \in Nat \ {0}
  BY <1>1 DEF Invariant, FloorInvariant, CommitHead, Sound
<1>3. PICK observed : observed = [BottomFloor EXCEPT !.head = HeadAt(n.view)]
  OBVIOUS
<1>4. /\ store = [floor |-> store.floor, conflicts |-> store.conflicts, intents |-> store.intents]
      /\ store' = Applied(store, Observation(observed))
      /\ Recorded(History) /\ GenuineFloor(History, accepted)
  BY <1>1, <1>3 DEF Invariant, FloorInvariant, CommitHead, ServerInvariant
<1>5. /\ store' = [floor |-> store'.floor, conflicts |-> store'.conflicts, intents |-> store'.intents]
      /\ store'.floor = JoinedFloor(store.floor, observed)
      /\ store'.conflicts = store.conflicts \cup FloorConflicts(store.floor, observed)
  <2>1. PICK t : t = store'
    OBVIOUS
  <2>2. QED
    BY <1>4, <2>1, ObservationApplied
<1>6. ASSUME store'.conflicts = {}
      PROVE  GenuineFloor(History, store'.floor) /\ SameButHead(store'.floor, accepted)
  <2>1. GenuineFloor(History, store.floor) /\ SameButHead(store.floor, accepted)
    BY <1>5, <1>6 DEF Invariant, FloorInvariant
  <2>2. /\ GenuineFloor(History, observed) /\ FloorConflicts(store.floor, observed) = {}
        /\ SameButHead(JoinedFloor(store.floor, observed), store.floor)
    BY <1>2, <1>3, <1>4, <2>1, HeadIsTaken
  <2>3. GenuineFloor(History, store'.floor)
    BY <1>4, <1>5, <2>1, <2>2, JoinedFloors
  <2>4. SameButHead(store'.floor, accepted)
    BY <1>5, <2>1, <2>2 DEF SameButHead
  <2>5. QED
    BY <2>3, <2>4
<1>7. /\ command' = [o \in Commands |-> command'[o]] /\ History' = History
      /\ \A o \in Commands : Sound(History', accepted', command'[o])
  <2>1. UNCHANGED <<serverVars, accepted>>
    BY DEF CommitHead
  <2>2. CASE store'.conflicts = {}
    <3>1. PICK s : s = [n EXCEPT !.phase = "open"]
      OBVIOUS
    <3>2. /\ CommandShape(s) /\ s.phase = "open" /\ s.view = n.view /\ s.promised = n.promised
          /\ s.current = n.current /\ s.fetchedAt = n.fetchedAt
      BY <1>2, <3>1 DEF CommandShape, Sound
    <3>3. Sound(History, accepted, s)
      BY <1>2, <3>2 DEF Sound, Holding
    <3>4. Become(c, s)
      BY <1>1, <2>2, <3>1 DEF CommitHead
    <3>5. QED
      BY <2>1, <3>3, <3>4, OneMoves DEF Invariant
  <2>3. CASE store'.conflicts # {}
    BY <2>1, <2>3, RefuseSound DEF CommitHead
  <2>4. QED
    BY <2>2, <2>3
<1>8. accepted' = accepted
  BY DEF CommitHead
<1>9. QED
  BY <1>4, <1>5, <1>6, <1>7, <1>8 DEF FloorInvariant

\* A fetched distribution is not trusted, but somebody signed it.
LEMMA FetchSound ==
    ASSUME Invariant, NEW c \in Commands, NEW kind \in {"values", "metadata"},
           NEW response \in {distribution} \cup Lies, Fetch(c, kind, response)
    PROVE  FloorInvariant'
<1>1. PICK n : n = command[c]
  OBVIOUS
<1>2. PICK s : s = [n EXCEPT !.phase = "fetched", !.kind = kind, !.response = response,
                       !.fetchedAt = n.view, !.resynced = FALSE, !.fetches = n.fetches + 1]
  OBVIOUS
<1>3. Sound(History, accepted, n) /\ n.phase = "open"
  BY <1>1 DEF Invariant, FloorInvariant, Fetch
<1>4. /\ CommandShape(s) /\ s.phase = "fetched" /\ s.view = n.view /\ s.promised = n.promised
      /\ s.current = n.current /\ s.fetchedAt = n.view /\ s.response = response /\ s.kind = kind
  BY <1>2, <1>3 DEF CommandShape, Sound
<1>5. GenuineResponse(History, response)
  BY ServedIsGenuine DEF Invariant
<1>6. Sound(History, accepted, s)
  BY <1>3, <1>4, <1>5 DEF Sound, Holding
<1>7. Become(c, s) /\ UNCHANGED <<serverVars, accepted, store>>
  BY <1>1, <1>2 DEF Fetch
<1>8. QED
  BY <1>6, <1>7, OneMoves DEF Invariant, FloorInvariant

\* An answer that the environment is gone leaves no trace.
LEMMA NotFoundSound ==
    ASSUME Invariant, NEW c \in Commands, NotFound(c)
    PROVE  FloorInvariant'
<1>1. Refuse(c, "not-found") /\ UNCHANGED <<serverVars, accepted, store>>
  BY DEF NotFound
<1>2. QED
  BY <1>1, RefuseSound DEF Invariant, FloorInvariant

\* Neither does a refused distribution.
LEMMA RefuseFetchedSound ==
    ASSUME Invariant, NEW c \in Commands, RefuseFetched(c)
    PROVE  FloorInvariant'
<1>1. \E reason : Refuse(c, reason)
  BY DEF RefuseFetched
<1>2. UNCHANGED <<serverVars, accepted, store>>
  BY DEF RefuseFetched
<1>3. QED
  BY <1>1, <1>2, RefuseSound DEF Invariant, FloorInvariant

\* What a command commits was signed by somebody.
LEMMA ObservedIsGenuine ==
    ASSUME Invariant, NEW c \in Commands, command[c].phase = "fetched"
    PROVE  /\ GenuineFloor(History, Observed(c))
           /\ Observed(c).manifest = Evidence(command[c].response.manifest)
           /\ command[c].kind = "values" =>
                 Observed(c).variable = VariableFloor(command[c].response)
           /\ command[c].kind # "values" => Observed(c).variable = NoVariable
<1>1. PICK n : n = command[c]
  OBVIOUS
<1>2. Sound(History, accepted, n) /\ n.phase = "fetched" /\ n.view \in Nat \ {0} /\ n.fetchedAt \in Nat
  BY <1>1 DEF Invariant, FloorInvariant, Sound
<1>3. GenuineResponse(History, n.response) /\ n.kind \in {"values", "metadata"}
  BY <1>2 DEF Sound
<1>4. PICK baseline, epoch : baseline = PullBaseline(c) /\ epoch = EpochAt(n.view)
  OBVIOUS
<1>5. baseline \in Nat /\ epoch \in Nat
  <2>1. EpochIn(chain, n.fetchedAt) \in Nat /\ EpochIn(chain, n.view) \in Nat
    BY <1>2, EpochsCounted
  <2>2. baseline = EpochIn(chain, n.fetchedAt) /\ epoch = EpochIn(chain, n.view)
    BY <1>1, <1>4 DEF PullBaseline, EpochAt, EpochIn
  <2>3. QED
    BY <2>1, <2>2
<1>6. HeadAt(n.view) \in Heads /\ HeadAt(n.view) \in PlainEvidence
  BY <1>2 DEF HeadAt, Heads, PlainEvidence
<1>7. EnvironmentMeta \in PlainEvidence
  BY DEF EnvironmentMeta, PlainEvidence
<1>8. PICK m, v : m = Evidence(n.response.manifest) /\ v = VariableFloor(n.response)
  OBVIOUS
<1>9. /\ GenuineManifest(History, m) /\ m \in EpochEvidence
      /\ GenuineVariable(History, v) /\ v \in VariableFloors
  <2>1. v # NoVariable
    BY <1>3, <1>8 DEF GenuineResponse, VariableFloor, NoVariable, Statuses
  <2>2. QED
    BY <1>3, <1>8, <2>1 DEF GenuineResponse, GenuineManifest, GenuineVariable
<1>10. NoVariable \in VariableFloors /\ GenuineVariable(History, NoVariable)
  BY DEF VariableFloors, GenuineVariable
<1>11. CASE n.kind = "values"
  <2>1. PICK o : o = Observed(c)
    OBVIOUS
  <2>2. o = [head |-> HeadAt(n.view), pullEpoch |-> baseline, observedEpoch |-> baseline,
             meta |-> EnvironmentMeta, manifest |-> m, variable |-> v]
    BY <1>1, <1>4, <1>8, <1>11, <2>1 DEF Observed
  <2>3. GenuineFloor(History, o)
    BY <1>5, <1>6, <1>7, <1>9, <2>2 DEF GenuineFloor, EnvironmentFloors
  <2>4. QED
    BY <1>1, <1>8, <1>11, <2>1, <2>2, <2>3
<1>12. CASE n.kind = "metadata"
  <2>1. PICK o : o = Observed(c)
    OBVIOUS
  <2>2. o = [head |-> HeadAt(n.view), pullEpoch |-> 0, observedEpoch |-> epoch,
             meta |-> EnvironmentMeta, manifest |-> m, variable |-> NoVariable]
    BY <1>1, <1>4, <1>8, <1>12, <2>1 DEF Observed, MetadataObservation, BottomFloor
  <2>3. GenuineFloor(History, o)
    BY <1>5, <1>6, <1>7, <1>9, <1>10, <2>2 DEF GenuineFloor, EnvironmentFloors
  <2>4. QED
    BY <1>1, <1>8, <1>12, <2>1, <2>2, <2>3
<1>13. QED
  BY <1>3, <1>11, <1>12

\* Joins of floors that are the same but for their heads.
LEMMA JoinedAlike ==
    ASSUME NEW a, NEW b, NEW o, SameButHead(a, b)
    PROVE  SameButHead(JoinedFloor(a, o), JoinedFloor(b, o))
BY DEF SameButHead, JoinedFloor

\* What is known when a distribution is accepted.
LEMMA Acceptance ==
    ASSUME Invariant, NEW c \in Commands, Accept(c)
    PROVE  /\ GenuineFloor(History, Observed(c))
           /\ store' = [floor |-> store'.floor, conflicts |-> store'.conflicts,
                        intents |-> store'.intents]
           /\ store'.conflicts = {} =>
                 /\ accepted' = JoinedFloor(accepted, Observed(c))
                 /\ FloorConflicts(accepted, Observed(c)) = {}
                 /\ GenuineFloor(History, accepted')
                 /\ FollowsFloor(accepted, accepted') /\ FollowsFloor(Observed(c), accepted')
                 /\ GenuineFloor(History, store'.floor) /\ SameButHead(store'.floor, accepted')
           /\ store'.conflicts # {} => accepted' = accepted
<1>1. PICK o : o = Observed(c)
  OBVIOUS
<1>2. /\ store' = Applied(store, Observation(o)) /\ GenuineFloor(History, o)
      /\ store = [floor |-> store.floor, conflicts |-> store.conflicts, intents |-> store.intents]
      /\ GenuineFloor(History, accepted) /\ Recorded(History)
  BY <1>1, ObservedIsGenuine DEF Accept, Invariant, FloorInvariant, ServerInvariant
<1>3. /\ store' = [floor |-> store'.floor, conflicts |-> store'.conflicts, intents |-> store'.intents]
      /\ store'.floor = JoinedFloor(store.floor, o)
      /\ store'.conflicts = store.conflicts \cup FloorConflicts(store.floor, o)
  <2>1. PICK t : t = store'
    OBVIOUS
  <2>2. QED
    BY <1>2, <2>1, ObservationApplied
<1>4. ASSUME store'.conflicts = {}
      PROVE  /\ accepted' = JoinedFloor(accepted, o)
             /\ FloorConflicts(accepted, o) = {}
             /\ GenuineFloor(History, accepted')
             /\ FollowsFloor(accepted, accepted') /\ FollowsFloor(o, accepted')
             /\ GenuineFloor(History, store'.floor) /\ SameButHead(store'.floor, accepted')
  <2>1. /\ accepted' = JoinedFloor(accepted, o)
        /\ store.conflicts = {} /\ FloorConflicts(store.floor, o) = {}
    BY <1>1, <1>3, <1>4 DEF Accept
  <2>2. GenuineFloor(History, store.floor) /\ SameButHead(store.floor, accepted)
    BY <2>1 DEF Invariant, FloorInvariant
  <2>3. FloorConflicts(accepted, o) = {}
    BY <1>2, <2>1, <2>2, ConflictsOfFloors DEF SameButHead
  <2>4. /\ GenuineFloor(History, JoinedFloor(accepted, o))
        /\ FollowsFloor(accepted, JoinedFloor(accepted, o))
        /\ FollowsFloor(o, JoinedFloor(accepted, o))
    BY <1>2, <2>3, JoinedFloors
  <2>5. GenuineFloor(History, JoinedFloor(store.floor, o))
    BY <1>2, <2>1, <2>2, JoinedFloors
  <2>6. QED
    BY <1>3, <2>1, <2>2, <2>3, <2>4, <2>5, JoinedAlike
<1>5. store'.conflicts # {} => accepted' = accepted
  BY DEF Accept
<1>6. QED
  BY <1>1, <1>2, <1>3, <1>4, <1>5

\* What is accepted is joined to the store, and the command goes on from there.
LEMMA AcceptSound ==
    ASSUME Invariant, NEW c \in Commands, Accept(c)
    PROVE  FloorInvariant'
<1>1. UNCHANGED serverVars /\ History' = History /\ Recorded(History)
  BY DEF Accept, serverVars, History, Invariant, ServerInvariant
<1>2. CASE store'.conflicts # {}
  <2>1. \E reason : Refuse(c, reason)
    BY <1>2 DEF Accept
  <2>2. accepted' = accepted
    BY <1>2, Acceptance
  <2>3. /\ command' = [o \in Commands |-> command'[o]]
        /\ \A o \in Commands : Sound(History', accepted', command'[o])
    BY <1>1, <2>1, <2>2, RefuseSound
  <2>4. QED
    BY <1>1, <1>2, <2>2, <2>3, Acceptance DEF FloorInvariant, Invariant
<1>3. CASE store'.conflicts = {}
  <2>1. PICK n : n = command[c]
    OBVIOUS
  <2>2. PICK s : s = [n EXCEPT !.phase = "open", !.current = store'.floor, !.kind = "none",
                         !.response = Nothing, !.fetchedAt = 0, !.resynced = FALSE]
    OBVIOUS
  <2>3. Sound(History, accepted, n) /\ n.phase = "fetched"
    BY <2>1 DEF Invariant, FloorInvariant, Accept
  <2>4. /\ CommandShape(s) /\ s.phase = "open" /\ s.view = n.view /\ s.promised = n.promised
        /\ s.current = store'.floor /\ s.fetchedAt = 0
    BY <2>2, <2>3 DEF CommandShape, Sound
  <2>5. /\ GenuineFloor(History, accepted) /\ GenuineFloor(History, accepted')
        /\ FollowsFloor(accepted, accepted')
        /\ GenuineFloor(History, store'.floor) /\ SameButHead(store'.floor, accepted')
    BY <1>3, Acceptance DEF Invariant, FloorInvariant
  <2>6. GenuineFloor(History, n.promised) /\ FollowsFloor(n.promised, accepted')
    BY <2>3, <2>5, FloorsOrdered DEF Sound
  <2>7. FollowsFloor(accepted', accepted')
    BY <2>5, FollowsItself
  <2>8. FollowsFloor(n.promised, store'.floor) /\ FollowsFloor(store'.floor, accepted')
    BY <2>5, <2>6, <2>7 DEF SameButHead, FollowsFloor
  <2>9. n.view \in Nat /\ n.view > 0
    BY <2>3 DEF Sound
  <2>10. Sound(History, accepted', s)
    BY <2>4, <2>5, <2>6, <2>8, <2>9 DEF Sound, Holding
  <2>11. command' = [command EXCEPT ![c] = s] /\ command = [o \in Commands |-> command[o]]
    BY <1>3, <2>1, <2>2 DEF Accept, Become, Invariant, FloorInvariant
  <2>12. command' = [o \in Commands |-> IF o = c THEN s ELSE command[o]]
    BY <2>11
  <2>13. \A o \in Commands : Sound(History, accepted', command[o])
    <3>1. \A o \in Commands : Sound(History, accepted, command[o])
      BY DEF Invariant, FloorInvariant
    <3>2. QED
      BY <2>5, <3>1, StaysSound
  <2>14. QED
    BY <1>1, <1>3, <2>5, <2>10, <2>12, <2>13, Acceptance DEF FloorInvariant
<1>4. QED
  BY <1>2, <1>3

\* Every step keeps the invariant.
LEMMA PullStep ==
    ASSUME Invariant, [Next]_vars
    PROVE  Invariant'
<1>1. Writes \/ UNCHANGED serverVars
  BY DEF Next, vars, serverVars, Sync, ResyncShortened, ResyncAhead, Synced, LoadFloor, CommitHead,
         Fetch, NotFound, RefuseFetched, Accept
<1>2. ServerInvariant' /\ History \subseteq History'
  BY <1>1, ServerStep DEF Invariant
<1>3. CASE Writes \/ UNCHANGED vars
  <2>1. UNCHANGED <<store, accepted, command>>
    BY <1>3, WritesMove DEF vars, Invariant, ServerInvariant
  <2>2. \A f : GenuineFloor(History, f) => GenuineFloor(History', f)
    BY <1>2, GenuineGrows
  <2>3. GenuineFloor(History', accepted) /\ FollowsFloor(accepted, accepted)
    BY <2>2, FollowsItself DEF Invariant, FloorInvariant
  <2>4. \A c \in Commands : Sound(History', accepted, command[c])
    BY <1>2, <2>3, StaysSound DEF Invariant, FloorInvariant
  <2>5. QED
    BY <1>2, <2>1, <2>2, <2>3, <2>4 DEF Invariant, FloorInvariant
<1>4. ASSUME NEW c \in Commands,
             \/ \E view \in 2 .. Now :
                   Sync(c, view) \/ ResyncShortened(c, view) \/ ResyncAhead(c, view)
             \/ LoadFloor(c) \/ CommitHead(c)
             \/ \E kind \in {"values", "metadata"}, response \in {distribution} \cup Lies :
                   Fetch(c, kind, response)
             \/ NotFound(c) \/ RefuseFetched(c) \/ Accept(c)
      PROVE  FloorInvariant'
  BY <1>4, SyncSound, ResyncSound, LoadSound, CommitSound, FetchSound, NotFoundSound,
     RefuseFetchedSound, AcceptSound
<1>5. QED
  BY <1>2, <1>3, <1>4 DEF Next, Invariant

\* Whatever the server serves, evidence stays consistent, and the store holds what was accepted.
THEOREM CommandsAreSound == Spec => []Invariant
<1>1. Init => Invariant
  BY ServerInitial, CommandInitial DEF Invariant
<1>2. Invariant /\ [Next]_vars => Invariant'
  BY PullStep
<1>3. QED
  BY <1>1, <1>2, PTL DEF Spec

(***************************************************************************)
(* What is accepted ascends.                                               *)
(***************************************************************************)

\* The value of the join is another one only when the value joined in is newer.
LEMMA NewValueIsNewer ==
    ASSUME NEW history, Recorded(history), NEW a \in VariableFloors, NEW b \in VariableFloors,
           GenuineVariable(history, a), GenuineVariable(history, b), VariableConflicts(a, b) = {},
           b.status = "active", JoinedVariable(a, b).value # a.value
    PROVE  a.status # "deleted" /\ a.value.version < b.value.version
<1>1. /\ a.status \in {"unseen"} \cup Statuses /\ a.value \in EpochEvidence
      /\ b.value \in EpochEvidence /\ (a.status = "unseen" => a = NoVariable)
  BY VariableShape
<1>2. GenuineValue(history, b.value) /\ b.value.version > 0 /\ b # NoVariable
  BY DEF GenuineVariable, GenuineValue, NoVariable
<1>3. CASE a.status = "unseen"
  <2>1. a.value.version = 0
    BY <1>1, <1>3 DEF NoVariable, NoEpochEvidence
  <2>2. QED
    BY <1>2, <1>3, <2>1
<1>4. CASE a.status = "deleted"
  <2>1. JoinedVariable(a, b) = a
    BY <1>4 DEF JoinedVariable
  <2>2. QED
    BY <2>1
<1>5. CASE a.status \in {"declared", "active"}
  <2>1. JoinedVariable(a, b).value = Joined(a.value, b.value)
    BY <1>5 DEF JoinedVariable
  <2>2. ~ Disagree(a.value, b.value)
    <3>1. VariableConflicts(a, b) =
             ConflictsAt("variable-meta", a.meta, b.meta) \cup ConflictsAt("value", a.value, b.value)
      BY <1>5 DEF VariableConflicts
    <3>2. QED
      BY <3>1 DEF ConflictsAt
  <2>3. HeldValue(history, a.value) /\ HeldValue(history, b.value)
    <3>1. a # NoVariable
      BY <1>5 DEF NoVariable
    <3>2. QED
      BY <1>2, <3>1 DEF HeldValue, GenuineVariable
  <2>4. a.value.version = b.value.version => a.value = b.value
    BY <1>2, <2>2, <2>3, ValueDetermined DEF Disagree, HeldValue, NoEpochEvidence
  <2>5. a.value.version \in Nat /\ b.value.version \in Nat
    BY <1>1 DEF EpochEvidence
  <2>6. QED
    BY <1>5, <2>1, <2>4, <2>5 DEF Joined
<1>6. QED
  BY <1>1, <1>3, <1>4, <1>5 DEF Statuses

Ascends(c) ==
    LET seen == Observed(c)
        promised == command[c].promised
    IN  /\ FloorConflicts(promised, seen) = {}
        /\ Joined(promised.manifest, seen.manifest) = seen.manifest
        /\ command[c].kind = "values" =>
              /\ JoinedVariable(promised.variable, seen.variable) = seen.variable
              /\ seen.variable.status = "active"
                    /\ accepted'.variable.value # accepted.variable.value
                  => seen.variable.value.epoch >= promised.pullEpoch

\* An accepted distribution follows the floor the command holds, and what it was promised.
LEMMA AcceptAscends ==
    ASSUME Invariant, NEW c \in Commands, Accept(c), store'.conflicts = {}
    PROVE  Ascends(c)
<1>1. PICK n, o, d : n = command[c] /\ o = Observed(c) /\ d = command[c].response
  OBVIOUS
<1>2. /\ Sound(History, accepted, n) /\ n.phase = "fetched" /\ Recorded(History)
      /\ ~ FloorViolated(n.current, d, n.kind)
  BY <1>1 DEF Invariant, FloorInvariant, ServerInvariant, Accept
<1>3. /\ GenuineFloor(History, n.current) /\ GenuineFloor(History, n.promised)
      /\ GenuineResponse(History, d) /\ FollowsFloor(n.promised, n.current)
      /\ FollowsFloor(n.current, accepted) /\ n.kind \in {"values", "metadata"}
      /\ GenuineFloor(History, accepted)
  BY <1>1, <1>2 DEF Sound, Holding, Invariant, FloorInvariant
<1>4. /\ GenuineFloor(History, o) /\ o.manifest = Evidence(d.manifest)
      /\ n.kind = "values" => o.variable = VariableFloor(d)
      /\ n.kind # "values" => o.variable = NoVariable
  BY <1>1, <1>2, ObservedIsGenuine
<1>5. /\ n.promised.manifest \in EpochEvidence /\ n.current.manifest \in EpochEvidence
      /\ o.manifest \in EpochEvidence
      /\ n.promised.variable \in VariableFloors /\ n.current.variable \in VariableFloors
      /\ o.variable \in VariableFloors /\ accepted.variable \in VariableFloors
      /\ n.promised.pullEpoch \in Nat /\ n.current.pullEpoch \in Nat
  BY <1>3, <1>4, FloorShape
<1>6. Joined(n.promised.manifest, o.manifest) = o.manifest /\ ~ Disagree(n.promised.manifest, o.manifest)
  <2>1. Follows(n.current.manifest, o.manifest)
    BY <1>2, <1>3, <1>4, CheckedManifest DEF FloorViolated
  <2>2. Follows(n.promised.manifest, o.manifest)
    BY <1>3, <1>5, <2>1, FollowingEvidence DEF FollowsFloor
  <2>3. QED
    BY <1>5, <2>2, FollowingEvidence
<1>7. ASSUME n.kind = "values"
      PROVE  /\ FollowsVariable(n.current.variable, o.variable)
             /\ JoinedVariable(n.promised.variable, o.variable) = o.variable
             /\ VariableConflicts(n.promised.variable, o.variable) = {}
  <2>1. FollowsVariable(n.current.variable, o.variable)
    BY <1>2, <1>3, <1>4, <1>7, CheckedVariable DEF FloorViolated
  <2>2. FollowsVariable(n.promised.variable, o.variable)
    BY <1>3, <1>5, <2>1, VariablesOrdered DEF FollowsFloor
  <2>3. QED
    BY <1>5, <2>1, <2>2, FollowingVariable
<1>8. FloorConflicts(n.promised, o) = {}
  <2>1. n.kind # "values" => VariableConflicts(n.promised.variable, o.variable) = {}
    BY <1>4 DEF VariableConflicts, NoVariable
  <2>2. QED
    BY <1>3, <1>4, <1>6, <1>7, <2>1, ConflictsOfFloors
<1>9. ASSUME n.kind = "values", o.variable.status = "active",
             accepted'.variable.value # accepted.variable.value
      PROVE  o.variable.value.epoch >= n.promised.pullEpoch
  <2>1. /\ accepted'.variable = JoinedVariable(accepted.variable, o.variable)
        /\ VariableConflicts(accepted.variable, o.variable) = {}
    <3>1. accepted' = JoinedFloor(accepted, o) /\ FloorConflicts(accepted, o) = {}
      BY <1>1, Acceptance
    <3>2. QED
      BY <1>3, <1>4, <3>1, ConflictsOfFloors DEF JoinedFloor
  <2>2. GenuineVariable(History, accepted.variable) /\ GenuineVariable(History, o.variable)
    BY <1>3, <1>4 DEF GenuineFloor
  <2>3. /\ accepted.variable.status # "deleted"
        /\ accepted.variable.value.version < o.variable.value.version
    BY <1>2, <1>5, <1>9, <2>1, <2>2, NewValueIsNewer
  <2>4. ~ StaleEpoch(n.current, d)
    BY <1>2, <1>9 DEF FloorViolated
  <2>5. /\ o.variable.status = d.status /\ o.variable.value = Evidence(d.value)
        /\ o.variable.value.version = d.value.version /\ o.variable.value.epoch = d.value.epoch
    BY <1>4, <1>9 DEF VariableFloor, Evidence
  <2>6. d.value.version \in Nat \ {0} /\ d.value.epoch \in Nat
    <3>1. GenuineValue(History, o.variable.value)
      BY <1>9, <2>2 DEF GenuineVariable, NoVariable
    <3>2. QED
      BY <2>5, <3>1 DEF GenuineValue, EpochEvidence
  <2>7. n.current.variable.status = "active" => n.current.variable.value.version < d.value.version
    <3>1. ASSUME n.current.variable.status = "active"
          PROVE  n.current.variable.value.version <= accepted.variable.value.version
      <4>1. FollowsVariable(n.current.variable, accepted.variable)
        BY <1>3 DEF FollowsFloor
      <4>2. Follows(n.current.variable.value, accepted.variable.value)
        BY <2>3, <3>1, <4>1 DEF FollowsVariable, NoVariable
      <4>3. QED
        BY <1>5, <4>2, VariableShape, FollowingEvidence
    <3>2. n.current.variable.value.version \in Nat /\ accepted.variable.value.version \in Nat
      BY <1>5, VariableShape DEF EpochEvidence
    <3>3. QED
      BY <2>3, <2>5, <2>6, <3>1, <3>2
  <2>8. d.value.epoch >= n.current.pullEpoch
    BY <1>5, <1>9, <2>4, <2>5, <2>6, <2>7 DEF StaleEpoch
  <2>9. n.promised.pullEpoch <= n.current.pullEpoch
    BY <1>3 DEF FollowsFloor
  <2>10. QED
    BY <1>5, <2>5, <2>6, <2>8, <2>9
<1>10. QED
  BY <1>1, <1>6, <1>7, <1>8, <1>9 DEF Ascends

\* What commands accept ascends (checkEnvironmentPull against the floor that was loaded).
THEOREM AcceptanceAscends == Spec => AcceptedAscends
<1>1. Invariant /\ [Next]_vars =>
         [\A c \in Commands : Accept(c) /\ store'.conflicts = {} => Ascends(c)]_vars
  BY AcceptAscends
<1>2. QED
  BY <1>1, CommandsAreSound, PTL DEF Spec, AcceptedAscends, Ascends

(***************************************************************************)
(* A server that has not lied.  What its commands hold is below what it    *)
(* serves, and a view that it answered ends in a checkpoint or in the      *)
(* deletion of the environment.                                            *)
(***************************************************************************)

Served(entries, d) == d \in Distributions /\ ValueMatchesStatus(d) /\ Attested(entries, d)

VariableBelow(v, d) ==
    \/ v = NoVariable
    \/ v.status = "deleted" /\ d.status = "deleted" /\ v.meta = d.meta
    \/ v.status \in {"declared", "active"} /\ d.status = "deleted" /\ v.meta.version < d.meta.version
    \/ /\ v.status \in {"declared", "active"} /\ d.status \in {"declared", "active"}
       /\ v.meta.version <= d.meta.version
       /\ v.status = "active" =>
             d.status = "active" /\ v.value.version <= d.value.version /\ v.value.epoch <= d.value.epoch

(* No colluding member has signed anything in it. *)
Uncolluded(f) ==
    /\ f.manifest.hash <= 1
    /\ f.variable.status = "active" => f.variable.value.hash = 1

HasValueOf(v, d) == v.status = "active" /\ d.value.version <= v.value.version

(* A value under an epoch below the baseline of values is one that it holds. *)
FloorBelow(f, d) ==
    /\ Uncolluded(f)
    /\ f.pullEpoch <= d.manifest.epoch
    /\ f.observedEpoch <= d.manifest.epoch
    /\ f.manifest.epoch <= d.manifest.epoch
    /\ f.manifest.version <= d.manifest.version
    /\ VariableBelow(f.variable, d)
    /\ d.status = "active" /\ d.value.epoch < f.pullEpoch => HasValueOf(f.variable, d)

(* What a command compares a response with is below it, and was so when the *)
(* response was fetched; a second sync has reached what attests it.         *)
Answered(entries, d, s) ==
    /\ Served(entries, s.response) /\ Later(s.response, d)
    /\ FloorBelow(s.current, s.response)
    /\ s.fetchedAt <= s.view /\ s.fetchedAt <= s.response.snapshot.seq
    /\ s.resynced => s.response.snapshot.seq <= s.view

Begun(s) == s.phase \notin {"new", "refused"}

HonestCommand(entries, d, s) ==
    /\ s.phase # "refused" => s.reason \notin Accusations
    /\ s.current.head.version <= Len(entries)
    /\ Begun(s) => s.view \in 2 .. Len(entries) /\ entries[s.view].op \in {"checkpoint", "delete"}
    /\ s.phase # "fetched" => FloorBelow(s.current, d)
    /\ s.phase = "fetched" => Answered(entries, d, s)

Honest ==
    /\ store.conflicts = {}
    /\ store.floor.head.version <= Now
    /\ FloorBelow(store.floor, distribution)
    /\ \A c \in Commands : HonestCommand(chain, distribution, command[c])

HonestInvariant == lies \in Nat /\ (lies = 0 => Honest)

\* The same of what is served.
LEMMA ServedKept ==
    ASSUME NEW entries, NEW longer, Extends(entries, longer),
           Len(entries) \in Nat, Len(longer) \in Nat, NEW d, Served(entries, d)
    PROVE  Served(longer, d)
BY AttestedKept DEF Served

\* A value that replaced another was encrypted under no earlier epoch than that one, and under
\* none before the manifest that was served when it had not been pushed.
LEMMA EpochsOfValues ==
    ASSUME NEW entries, Len(entries) \in Nat, NEW x, Served(entries, x), NEW y, Served(entries, y),
           Later(x, y), y.status = "active"
    PROVE  /\ x.status = "active" => /\ x.value.version <= y.value.version
                                     /\ x.value.epoch <= y.value.epoch
           /\ \/ x.status = "active" /\ x.value = y.value
              \/ x.manifest.epoch <= y.value.epoch
<1>1. /\ x \in Distributions /\ y \in Distributions
      /\ x.value.version \in Nat /\ y.value.version \in Nat
      /\ x.value.head \in Nat /\ y.value.head \in Nat /\ x.snapshot.seq \in Nat
      /\ x.value.epoch \in Nat
  BY DistributionNumbers DEF Served
<1>2. /\ x.manifest.epoch = EpochIn(entries, x.snapshot.seq)
      /\ y.value.epoch = EpochIn(entries, y.value.head)
      /\ x.status = "active" => x.value.head <= x.snapshot.seq /\ x.value.epoch = EpochIn(entries, x.value.head)
  BY <1>1 DEF Served, Attested
<1>3. CASE x.status = "active" /\ x.value = y.value
  BY <1>1, <1>3
<1>4. CASE /\ x.status = "active" => x.value.version < y.value.version
           /\ x.snapshot.seq <= y.value.head
  <2>1. EpochIn(entries, x.snapshot.seq) <= EpochIn(entries, y.value.head)
    BY <1>1, <1>4, EpochsCounted
  <2>2. ASSUME x.status = "active" PROVE EpochIn(entries, x.value.head) <= EpochIn(entries, y.value.head)
    <3>1. x.value.head <= y.value.head
      BY <1>1, <1>2, <1>4, <2>2
    <3>2. QED
      BY <1>1, <3>1, EpochsCounted
  <2>3. QED
    BY <1>1, <1>2, <1>4, <2>1, <2>2
<1>5. QED
  BY <1>3, <1>4 DEF Later

\* What is below a distribution is below every later one.
LEMMA BelowLater ==
    ASSUME NEW entries, Len(entries) \in Nat, NEW x, Served(entries, x), NEW y, Served(entries, y),
           Later(x, y), NEW f \in EnvironmentFloors, FloorBelow(f, x)
    PROVE  FloorBelow(f, y)
<1>1. /\ x \in Distributions /\ y \in Distributions
      /\ x.manifest.epoch \in Nat /\ y.manifest.epoch \in Nat
      /\ x.manifest.version \in Nat /\ y.manifest.version \in Nat
      /\ x.meta.version \in Nat /\ y.meta.version \in Nat
      /\ x.value.version \in Nat /\ y.value.version \in Nat
      /\ x.value.epoch \in Nat /\ y.value.epoch \in Nat
  BY DistributionNumbers DEF Served
<1>2. x.status \in Statuses /\ y.status \in Statuses
  BY <1>1, DistributionShape
<1>3. PICK v : v = f.variable
  OBVIOUS
<1>4. /\ f.pullEpoch \in Nat /\ f.observedEpoch \in Nat /\ f.manifest \in EpochEvidence
      /\ v \in VariableFloors
  BY <1>3 DEF EnvironmentFloors
<1>5. /\ v.meta.version \in Nat /\ v.value.version \in Nat /\ v.value.epoch \in Nat
      /\ f.manifest.version \in Nat /\ f.manifest.epoch \in Nat
      /\ v.status = "unseen" <=> v = NoVariable
  BY <1>4, VariableShape DEF EpochEvidence, PlainEvidence
<1>6. /\ x.manifest.epoch <= y.manifest.epoch /\ x.manifest.version <= y.manifest.version
  BY <1>1 DEF Later
<1>7. VariableBelow(v, y)
  <2>1. CASE v = NoVariable
    BY <2>1 DEF VariableBelow
  <2>2. CASE v # NoVariable /\ x.status = "deleted"
    BY <1>3, <1>5, <2>2 DEF FloorBelow, VariableBelow, Later
  <2>3. CASE v # NoVariable /\ x.status # "deleted"
    <3>1. /\ v.status \in {"declared", "active"} /\ v.meta.version <= x.meta.version
          /\ v.status = "active" => /\ x.status = "active" /\ v.value.version <= x.value.version
                                    /\ v.value.epoch <= x.value.epoch
      BY <1>3, <2>3 DEF FloorBelow, VariableBelow
    <3>2. CASE y.status = "deleted"
      BY <1>1, <1>5, <2>3, <3>1, <3>2 DEF Later, VariableBelow
    <3>3. CASE y.status # "deleted"
      <4>1. v.meta.version <= y.meta.version /\ (x.status = "active" => y.status = "active")
        BY <1>1, <1>5, <2>3, <3>1, <3>3 DEF Later
      <4>2. v.status = "active" => v.value.version <= y.value.version /\ v.value.epoch <= y.value.epoch
        BY <1>1, <1>5, <3>1, <4>1, EpochsOfValues
      <4>3. QED
        BY <1>2, <3>1, <3>3, <4>1, <4>2 DEF VariableBelow, Statuses
    <3>4. QED
      BY <3>2, <3>3
  <2>4. QED
    BY <2>1, <2>2, <2>3
<1>8. ASSUME y.status = "active", y.value.epoch < f.pullEpoch
      PROVE  HasValueOf(v, y)
  <2>1. f.pullEpoch <= x.manifest.epoch
    BY DEF FloorBelow
  <2>2. x.status = "active" /\ x.value = y.value
    BY <1>1, <1>4, <1>8, <2>1, EpochsOfValues
  <2>3. QED
    BY <1>3, <1>8, <2>2 DEF FloorBelow, HasValueOf
<1>9. f.pullEpoch <= y.manifest.epoch /\ f.observedEpoch <= y.manifest.epoch
  BY <1>1, <1>4, <1>6 DEF FloorBelow
<1>10. f.manifest.epoch <= y.manifest.epoch /\ f.manifest.version <= y.manifest.version
  BY <1>1, <1>5, <1>6 DEF FloorBelow
<1>11. QED
  BY <1>3, <1>7, <1>8, <1>9, <1>10 DEF FloorBelow

\* Evidence that no colluding member signed has no conflict.
LEMMA UncolludedAgree ==
    ASSUME NEW history, Recorded(history), NEW a, NEW b,
           GenuineFloor(history, a), GenuineFloor(history, b), Uncolluded(a), Uncolluded(b)
    PROVE  FloorConflicts(a, b) = {}
<1>1. PICK v, w : v = a.variable /\ w = b.variable
  OBVIOUS
<1>2. /\ v \in VariableFloors /\ w \in VariableFloors
      /\ GenuineVariable(history, v) /\ GenuineVariable(history, w)
      /\ v.status = "active" => v.value.hash = 1
      /\ w.status = "active" => w.value.hash = 1
  BY <1>1, FloorShape DEF GenuineFloor, Uncolluded
<1>3. ~ Disagree(a.manifest, b.manifest)
  <2>1. ASSUME NEW f, GenuineFloor(history, f), Uncolluded(f)
        PROVE  /\ f.manifest.version \in Nat
               /\ f.manifest.hash = IF f.manifest.version = 0 THEN 0 ELSE 1
    <3>1. /\ GenuineManifest(history, f.manifest) /\ f.manifest.hash <= 1
          /\ f.manifest.version \in Nat /\ f.manifest.epoch \in Nat /\ f.manifest.hash \in Nat
      BY <2>1 DEF GenuineFloor, GenuineManifest, Uncolluded, EpochEvidence
    <3>2. \A x \in history : Evidence(x.manifest).hash = 1 /\ Evidence(x.manifest).version > 0
      BY DistributionShape, SignedEvidence DEF Recorded
    <3>3. QED
      BY <3>1, <3>2 DEF GenuineManifest, Colluding, NoEpochEvidence
  <2>2. QED
    BY <2>1 DEF Disagree
<1>4. VariableConflicts(v, w) = {}
  <2>1. CASE v = NoVariable \/ w = NoVariable
    BY <2>1 DEF VariableConflicts, NoVariable
  <2>2. CASE v # NoVariable /\ w # NoVariable
    <3>1. /\ v.meta.version \in Nat /\ v.meta.hash = 1
          /\ w.meta.version \in Nat /\ w.meta.hash = 1
          /\ v.status = "deleted" /\ w.status # "deleted" => w.meta.version < v.meta.version
          /\ v.status # "deleted" /\ w.status = "deleted" => v.meta.version < w.meta.version
      <4>1. /\ v.meta.version \in Nat /\ v.meta = [version |-> v.meta.version, hash |-> 1]
            /\ w.meta.version \in Nat /\ w.meta = [version |-> w.meta.version, hash |-> 1]
        BY <1>2, <2>2, StatementsOrdered
      <4>2. v.meta.hash = 1 /\ w.meta.hash = 1
        BY ONLY <4>1
      <4>3. /\ v.status = "deleted" /\ w.status # "deleted" => w.meta.version < v.meta.version
            /\ v.status # "deleted" /\ w.status = "deleted" => v.meta.version < w.meta.version
        BY <1>2, <2>2, StatementsOrdered
      <4>4. QED
        BY <4>1, <4>2, <4>3
    <3>2. ConflictsAt("variable-meta", v.meta, w.meta) = {}
      BY <3>1 DEF ConflictsAt, Disagree
    <3>3. /\ v.status \in Statuses /\ w.status \in Statuses
          /\ v.status = "active" => v.value.hash = 1 /\ v.value.version > 0
          /\ w.status = "active" => w.value.hash = 1 /\ w.value.version > 0
          /\ v.status = "declared" => v.value.version = 0 /\ v.value.hash = 0
          /\ w.status = "declared" => w.value.version = 0 /\ w.value.hash = 0
      BY <1>2, <2>2 DEF GenuineVariable, GenuineValue, NoEpochEvidence
    <3>4. CASE v.status = "deleted" /\ w.status = "deleted"
      BY <3>2, <3>4 DEF VariableConflicts
    <3>5. CASE v.status = "deleted" /\ w.status \in {"declared", "active"}
      <4>1. VariableConflicts(v, w) = DeletionConflicts(v, w)
        BY <3>5 DEF VariableConflicts
      <4>2. QED
        BY <3>1, <3>5, <4>1 DEF DeletionConflicts
    <3>6. CASE v.status \in {"declared", "active"} /\ w.status = "deleted"
      <4>1. VariableConflicts(v, w) = DeletionConflicts(w, v)
        BY <3>6 DEF VariableConflicts
      <4>2. QED
        BY <3>1, <3>6, <4>1 DEF DeletionConflicts
    <3>7. CASE v.status \in {"declared", "active"} /\ w.status \in {"declared", "active"}
      <4>1. VariableConflicts(v, w) =
               ConflictsAt("variable-meta", v.meta, w.meta) \cup ConflictsAt("value", v.value, w.value)
        BY <3>7 DEF VariableConflicts
      <4>2. ~ Disagree(v.value, w.value)
        BY <3>3, <3>7 DEF Disagree
      <4>3. QED
        BY <3>2, <4>1, <4>2 DEF ConflictsAt
    <3>8. QED
      BY <3>3, <3>4, <3>5, <3>6, <3>7 DEF Statuses
  <2>3. QED
    BY <2>1, <2>2
<1>5. QED
  BY <1>1, <1>3, <1>4, ConflictsOfFloors

\* The join of the floors of two variables is below what both are below.
LEMMA JoinedVariableBelow ==
    ASSUME NEW v \in VariableFloors, NEW w \in VariableFloors, NEW d \in Distributions,
           VariableBelow(v, d), VariableBelow(w, d),
           v.status = "active" => v.value.hash = 1, w.status = "active" => w.value.hash = 1,
           v.status = "declared" => v.value.version = 0, w.status = "declared" => w.value.version = 0,
           w.status = "active" => w.value.version > 0, v.status = "active" => v.value.version > 0
    PROVE  LET j == JoinedVariable(v, w) IN
           /\ VariableBelow(j, d)
           /\ j.status = "active" => j.value.hash = 1
<1>1. PICK j : j = JoinedVariable(v, w)
  OBVIOUS
<1>2. /\ v.meta \in PlainEvidence /\ w.meta \in PlainEvidence
      /\ v.value \in EpochEvidence /\ w.value \in EpochEvidence
      /\ v.status \in {"unseen"} \cup Statuses /\ w.status \in {"unseen"} \cup Statuses
      /\ v.status = "unseen" <=> v = NoVariable
      /\ w.status = "unseen" <=> w = NoVariable
      /\ v = [status |-> v.status, value |-> v.value, meta |-> v.meta]
  BY VariableShape
<1>3. CASE v.status = "unseen" \/ w.status = "unseen"
  <2>1. j \in {v, w}
    BY <1>1, <1>3 DEF JoinedVariable
  <2>2. QED
    BY <1>1, <2>1
<1>4. CASE v.status = "deleted" /\ w.status = "deleted"
  <2>1. v.meta = w.meta
    BY <1>2, <1>4 DEF VariableBelow
  <2>2. j = [v EXCEPT !.meta = Joined(v.meta, w.meta)]
    BY <1>1, <1>4 DEF JoinedVariable
  <2>3. Joined(v.meta, w.meta) = v.meta
    BY <2>1 DEF Joined
  <2>4. j = v
    BY <1>2, <2>2, <2>3
  <2>5. QED
    BY <1>1, <2>4
<1>5. CASE /\ "deleted" \in {v.status, w.status}
           /\ v.status \in {"declared", "active"} \/ w.status \in {"declared", "active"}
  <2>1. j \in {v, w}
    BY <1>1, <1>5 DEF JoinedVariable
  <2>2. QED
    BY <1>1, <2>1
<1>6. CASE v.status \in {"declared", "active"} /\ w.status \in {"declared", "active"}
  <2>1. j = [status |-> IF "active" \in {v.status, w.status} THEN "active" ELSE "declared",
             value |-> Joined(v.value, w.value), meta |-> Joined(v.meta, w.meta)]
    BY <1>1, <1>6 DEF JoinedVariable
  <2>2. /\ j.status \in {"declared", "active"}
        /\ j.status = "active" <=> v.status = "active" \/ w.status = "active"
        /\ j.value = Joined(v.value, w.value) /\ j.meta = Joined(v.meta, w.meta)
    BY <1>6, <2>1
  <2>3. j.meta \in {v.meta, w.meta}
    BY <2>2 DEF Joined
  <2>4. ASSUME j.status = "active"
        PROVE  \/ v.status = "active" /\ j.value = v.value
               \/ w.status = "active" /\ j.value = w.value
    <3>1. v.value.version \in Nat /\ w.value.version \in Nat /\ v.value.hash \in Nat /\ w.value.hash \in Nat
      BY <1>2 DEF EpochEvidence
    <3>2. CASE v.status = "active" /\ w.status = "active"
      BY <2>2, <3>2 DEF Joined
    <3>3. CASE v.status = "active" /\ w.status = "declared"
      BY <2>2, <3>1, <3>3 DEF Joined
    <3>4. CASE v.status = "declared" /\ w.status = "active"
      BY <2>2, <3>1, <3>4 DEF Joined
    <3>5. QED
      BY <1>6, <2>2, <2>4, <3>2, <3>3, <3>4
  <2>5. /\ d.status \in {"declared", "active"} =>
              v.meta.version <= d.meta.version /\ w.meta.version <= d.meta.version
        /\ d.status = "deleted" => v.meta.version < d.meta.version /\ w.meta.version < d.meta.version
        /\ d.status \in {"declared", "active", "deleted"}
    BY <1>2, <1>6, DistributionShape DEF VariableBelow, NoVariable, Statuses
  <2>6. /\ v.status = "active" /\ d.status # "deleted" =>
             d.status = "active" /\ v.value.version <= d.value.version /\ v.value.epoch <= d.value.epoch
        /\ w.status = "active" /\ d.status # "deleted" =>
             d.status = "active" /\ w.value.version <= d.value.version /\ w.value.epoch <= d.value.epoch
    BY <1>2, <1>6 DEF VariableBelow, NoVariable
  <2>7. VariableBelow(j, d)
    BY <2>2, <2>3, <2>4, <2>5, <2>6 DEF VariableBelow
  <2>8. j.status = "active" => j.value.hash = 1
    BY <2>4
  <2>9. QED
    BY <1>1, <2>7, <2>8
<1>7. QED
  BY <1>2, <1>3, <1>4, <1>5, <1>6 DEF Statuses

\* The join of two floors is below what both are below.
LEMMA JoinedBelow ==
    ASSUME NEW history, Recorded(history), NEW a, NEW b, GenuineFloor(history, a),
           GenuineFloor(history, b), NEW d \in Distributions, FloorBelow(a, d), FloorBelow(b, d)
    PROVE  FloorBelow(JoinedFloor(a, b), d)
<1>1. PICK j, v, w : j = JoinedFloor(a, b) /\ v = a.variable /\ w = b.variable
  OBVIOUS
<1>2. /\ j.pullEpoch = MaxOf(a.pullEpoch, b.pullEpoch)
      /\ j.observedEpoch = MaxOf(a.observedEpoch, b.observedEpoch)
      /\ j.manifest = Joined(a.manifest, b.manifest)
      /\ j.variable = JoinedVariable(v, w)
  BY <1>1 DEF JoinedFloor
<1>3. /\ v \in VariableFloors /\ w \in VariableFloors
      /\ GenuineVariable(history, v) /\ GenuineVariable(history, w)
      /\ a.pullEpoch \in Nat /\ b.pullEpoch \in Nat
  BY <1>1, FloorShape DEF GenuineFloor
<1>4. /\ v.status = "declared" => v.value.version = 0
      /\ w.status = "declared" => w.value.version = 0
      /\ v.status = "active" => v.value.version > 0 /\ v.value.hash = 1
      /\ w.status = "active" => w.value.version > 0 /\ w.value.hash = 1
  BY <1>1, <1>3 DEF GenuineVariable, GenuineValue, FloorBelow, Uncolluded, NoVariable, NoEpochEvidence
<1>5. /\ VariableBelow(j.variable, d)
      /\ j.variable.status = "active" => j.variable.value.hash = 1
  BY <1>1, <1>2, <1>3, <1>4, JoinedVariableBelow DEF FloorBelow
<1>6. /\ j.pullEpoch <= d.manifest.epoch /\ j.observedEpoch <= d.manifest.epoch
      /\ j.pullEpoch \in {a.pullEpoch, b.pullEpoch}
  BY <1>2 DEF MaxOf, FloorBelow
<1>7. /\ j.manifest.hash <= 1 /\ j.manifest.epoch <= d.manifest.epoch
      /\ j.manifest.version <= d.manifest.version
  BY <1>2 DEF Joined, FloorBelow, Uncolluded
<1>8. ASSUME d.status = "active", d.value.epoch < j.pullEpoch
      PROVE  HasValueOf(j.variable, d)
  <2>1. FollowsVariable(v, j.variable) /\ FollowsVariable(w, j.variable)
    BY <1>1, <1>2, <1>3, JoinedVariables, ConflictsOfFloors, UncolludedAgree DEF FloorBelow
  <2>2. PICK u \in {v, w} : HasValueOf(u, d)
    BY <1>1, <1>6, <1>8 DEF FloorBelow
  <2>3. j.variable \in VariableFloors
    BY <1>1, <1>2, <1>3, JoinedVariables, ConflictsOfFloors, UncolludedAgree DEF FloorBelow
  <2>4. j.variable.status # "deleted"
    BY <1>5, <1>8 DEF VariableBelow, NoVariable
  <2>5. j.variable.status = "active" /\ Follows(u.value, j.variable.value)
    BY <2>1, <2>2, <2>4 DEF FollowsVariable, HasValueOf, NoVariable
  <2>6. u.value.version <= j.variable.value.version
    BY <1>3, <2>3, <2>5, VariableShape, FollowingEvidence
  <2>7. u.value.version \in Nat /\ j.variable.value.version \in Nat /\ d.value.version \in Nat
    BY <1>3, <2>3, VariableShape, DistributionNumbers DEF EpochEvidence
  <2>8. QED
    BY <2>2, <2>5, <2>6, <2>7 DEF HasValueOf
<1>9. FloorBelow(j, d)
  BY <1>5, <1>6, <1>7, <1>8 DEF FloorBelow, Uncolluded
<1>10. QED
  BY <1>1, <1>9

(***************************************************************************)
(* Why a command that was answered truthfully accuses nobody but in a race. *)
(***************************************************************************)

(* The two races of AccusedOnlyInRaces. *)
Race(c, reason) ==
    \/ reason = "manifest-refused" /\ ~ OfOneMoment(c)
    \/ reason = "checkpoint-refused" /\ ~ LiveAt(command[c].view)

OnlyRaces == \A c \in Commands : Accused(c) => Race(c, command'[c].reason)

\* A distribution passes the check against any floor below it.
LEMMA NoFloorViolated ==
    ASSUME NEW history, Recorded(history), NEW f, GenuineFloor(history, f),
           NEW d \in Distributions, ValueMatchesStatus(d), FloorBelow(f, d), NEW kind
    PROVE  ~ FloorViolated(f, d, kind)
<1>1. PICK v : v = f.variable
  OBVIOUS
<1>2. /\ v \in VariableFloors /\ GenuineVariable(history, v) /\ GenuineManifest(history, f.manifest)
      /\ f.pullEpoch \in Nat /\ f.observedEpoch \in Nat
  BY <1>1, FloorShape DEF GenuineFloor
<1>3. /\ d.status \in Statuses /\ d.meta.version \in Nat /\ d.meta.hash = 1
      /\ d.manifest.version \in Nat /\ d.manifest.epoch \in Nat /\ d.manifest.hash = 1
      /\ d.value.version \in Nat /\ d.value.epoch \in Nat
      /\ d.status = "active" => d.value.version > 0 /\ d.value.hash = 1
  <2>1. d.meta \in SignedMetas /\ d.manifest \in SignedManifests /\ d.status \in Statuses
    BY DistributionShape
  <2>2. d.status = "active" => d.value \in SignedValues
    BY DistributionShape DEF ValueMatchesStatus
  <2>3. QED
    BY <2>1, <2>2, DistributionNumbers DEF SignedMetas, SignedManifests, SignedValues
<1>4. ASSUME v # NoVariable
      PROVE  v.meta.version \in Nat /\ v.meta.hash = 1
  <2>1. v.meta.version \in Nat /\ v.meta = [version |-> v.meta.version, hash |-> 1]
    BY <1>2, <1>4, StatementsOrdered
  <2>2. QED
    BY ONLY <2>1
<1>5. /\ v.status \in {"unseen"} \cup Statuses
      /\ v.status = "unseen" <=> v = NoVariable
      /\ v.value.version \in Nat /\ v.value.epoch \in Nat
      /\ v.status = "active" => v.value.hash = 1
  BY <1>1, <1>2, VariableShape DEF FloorBelow, Uncolluded, EpochEvidence
<1>6. ~ VariableViolated(v, d, kind)
  <2>1. CASE v.status = "unseen"
    BY <2>1 DEF VariableViolated
  <2>2. CASE v.status = "deleted"
    <3>1. d.status = "deleted" /\ v.meta = d.meta
      BY <1>1, <1>5, <2>2 DEF FloorBelow, VariableBelow
    <3>2. QED
      BY <2>2, <3>1 DEF VariableViolated
  <2>3. CASE v.status \in {"declared", "active"}
    <3>1. /\ d.status = "deleted" => v.meta.version < d.meta.version
          /\ d.status # "deleted" => v.meta.version <= d.meta.version
          /\ v.status = "active" /\ d.status # "deleted" =>
                /\ d.status = "active" /\ v.value.version <= d.value.version
                /\ v.value.epoch <= d.value.epoch
      BY <1>1, <1>5, <2>3 DEF FloorBelow, VariableBelow
    <3>2. ~ MetaViolated(v.meta, d.meta)
      BY <1>3, <1>4, <1>5, <2>3, <3>1 DEF MetaViolated
    <3>3. CASE v.status = "declared"
      BY <3>2, <3>3 DEF VariableViolated
    <3>4. CASE v.status = "active"
      <4>1. VariableViolated(v, d, kind) = ActiveViolated(v, d, kind)
        BY <3>4 DEF VariableViolated
      <4>2. CASE d.status = "deleted"
        BY <3>2, <4>1, <4>2 DEF ActiveViolated
      <4>3. CASE d.status # "deleted"
        <5>1. ~ ValueViolated(v.value, d.value)
          BY <1>3, <1>5, <3>1, <3>4, <4>3 DEF ValueViolated
        <5>2. QED
          BY <3>1, <3>2, <3>4, <4>1, <4>3, <5>1 DEF ActiveViolated
      <4>4. QED
        BY <4>2, <4>3
    <3>5. QED
      BY <2>3, <3>3, <3>4
  <2>4. QED
    BY <1>5, <2>1, <2>2, <2>3 DEF Statuses
<1>7. ~ ManifestViolated(f, d.manifest)
  <2>1. /\ f.manifest.version \in Nat /\ f.manifest.epoch \in Nat
        /\ f.manifest.version > 0 => f.manifest.hash = 1
    <3>1. /\ f.manifest.version \in Nat /\ f.manifest.epoch \in Nat /\ f.manifest.hash <= 1
          /\ f.manifest.hash \in Nat
      BY <1>2 DEF GenuineManifest, EpochEvidence, FloorBelow, Uncolluded
    <3>2. \A x \in history : Evidence(x.manifest).hash = 1
      BY DistributionShape, SignedEvidence DEF Recorded
    <3>3. QED
      BY <1>2, <3>1, <3>2 DEF GenuineManifest, Colluding, NoEpochEvidence
  <2>2. /\ f.manifest.version <= d.manifest.version
        /\ ManifestBaseline(f) <= d.manifest.epoch /\ ManifestBaseline(f) \in Nat
    BY <1>2, <2>1 DEF FloorBelow, ManifestBaseline, MaxOf
  <2>3. QED
    BY <1>3, <2>1, <2>2 DEF ManifestViolated, MetaViolated
<1>8. ~ StaleEpoch(f, d)
  <2>1. ASSUME d.status = "active", d.value.epoch < f.pullEpoch
        PROVE  v.status = "active" /\ d.value.version <= v.value.version
    BY <1>1, <2>1 DEF FloorBelow, HasValueOf
  <2>2. QED
    BY <1>1, <1>3, <1>5, <2>1 DEF StaleEpoch
<1>9. QED
  BY <1>1, <1>6, <1>7, <1>8 DEF FloorViolated

\* The last checkpoint of a view that ends in one.
LEMMA ViewIsLatest ==
    ASSUME NEW view \in Nat \ {0}, chain[view].op = "checkpoint"
    PROVE  LatestCheckpoint(view) = view
<1>1. view \in CheckpointsAt(view) /\ \A j \in CheckpointsAt(view) : j \in Nat /\ j <= view
  BY DEF CheckpointsAt, IsCheckpoint
<1>2. \A i \in CheckpointsAt(view) : (\A j \in CheckpointsAt(view) : j <= i) => i = view
  BY <1>1
<1>3. QED
  BY <1>1, <1>2 DEF LatestCheckpoint

\* The verification of a distribution that the chain attests.
LEMMA NoEvidenceAgainst ==
    ASSUME ServerTypes, NEW d, Served(chain, d),
           NEW view \in 2 .. Now, chain[view].op \in {"checkpoint", "delete"},
           NEW fetchedAt \in Nat, fetchedAt <= view, fetchedAt <= d.snapshot.seq, NEW known
    PROVE  /\ ValueOutcome(view, d) \in {"ok", "future"}
           /\ ManifestOutcome(view, d.manifest, known) \in {"ok", "future", "manifest-refused"}
           /\ CheckpointOutcome(view, fetchedAt, d) \in
                 {"ok", "future", "retriable"} \cup (IF LiveAt(view) THEN {} ELSE {"checkpoint-refused"})
           /\ d.snapshot.seq <= view =>
                 /\ ValueOutcome(view, d) # "future"
                 /\ ManifestOutcome(view, d.manifest, known) # "future"
                 /\ CheckpointOutcome(view, fetchedAt, d) # "future"
<1>1. PICK s : s = d.snapshot.seq
  OBVIOUS
<1>2. /\ d \in Distributions /\ s \in Nat /\ view \in Nat \ {0} /\ s \in 1 .. Now
      /\ d.value.head \in Nat /\ d.value.version \in Nat /\ d.value.epoch \in Nat
      /\ d.manifest.head \in Nat /\ d.manifest.head <= s
      /\ Now \in Nat
      /\ chain[s].value = d.snapshot.value /\ chain[s].manifest.epoch = EpochIn(chain, s)
      /\ d.snapshot.value.version \in Nat
      /\ d.snapshot.value.version > 0 => d.status \in {"active", "deleted"}
  <2>1. d \in Distributions /\ d.manifest \in SignedManifests /\ d.snapshot.value \in PlainEvidence
    BY DistributionShape, DistributionNumbers DEF Served
  <2>2. QED
    BY <1>1, <2>1, DistributionNumbers, SignedNow DEF Served, Attested, SignedManifests, PlainEvidence, Now
<1>3. d.status = "active" =>
         /\ d.value.head <= s /\ d.value.epoch = EpochIn(chain, d.value.head)
         /\ \/ d.value.version > d.snapshot.value.version /\ d.value.head = s
            \/ d.value.version = d.snapshot.value.version /\ d.value.hash = d.snapshot.value.hash
  <2>1. d.status = "active" =>
           /\ d.value.head \in 1 .. s /\ d.value.epoch = EpochIn(chain, d.value.head)
           /\ \/ d.value.version > d.snapshot.value.version /\ d.value.head = s
              \/ Enumerated(d.value) = d.snapshot.value
    BY <1>1 DEF Served, Attested
  <2>2. Enumerated(d.value).version = d.value.version /\ Enumerated(d.value).hash = d.value.hash
    BY DEF Enumerated
  <2>3. QED
    BY <1>2, <2>1, <2>2
<1>4. /\ ValueOutcome(view, d) \in {"ok", "future"}
      /\ s <= view => ValueOutcome(view, d) # "future"
  <2>1. EpochAt(d.value.head) = EpochIn(chain, d.value.head)
    BY DEF EpochAt, EpochIn
  <2>2. CASE d.status # "active"
    BY <2>2 DEF ValueOutcome
  <2>3. CASE d.status = "active" /\ d.value.head > view
    BY <1>2, <1>3, <2>3 DEF ValueOutcome
  <2>4. CASE d.status = "active" /\ d.value.head <= view
    BY <1>2, <1>3, <2>1, <2>4 DEF ValueOutcome
  <2>5. QED
    BY <1>2, <2>2, <2>3, <2>4
<1>5. /\ ManifestOutcome(view, d.manifest, known) \in {"ok", "future", "manifest-refused"}
      /\ s <= view => ManifestOutcome(view, d.manifest, known) # "future"
  BY <1>2 DEF ManifestOutcome
<1>6. ASSUME LiveAt(view)
      PROVE  /\ CheckpointOutcome(view, fetchedAt, d) \in {"ok", "future", "retriable"}
             /\ s <= view => CheckpointOutcome(view, fetchedAt, d) # "future"
  <2>1. chain[view].op = "checkpoint"
    BY <1>2, <1>6 DEF LiveAt
  <2>2. LatestCheckpoint(view) = view
    BY <1>2, <2>1, ViewIsLatest
  <2>3. CheckpointOutcome(view, fetchedAt, d) = AttestedOutcome(view, fetchedAt, d)
    BY <1>6 DEF CheckpointOutcome
  <2>4. CASE s > view
    BY <1>1, <1>2, <2>2, <2>3, <2>4 DEF AttestedOutcome
  <2>5. CASE s < view
    <3>1. StaleLocator(s, view, fetchedAt) = "retriable"
      BY <1>1, <1>2, <2>5 DEF StaleLocator
    <3>2. QED
      BY <1>1, <1>2, <2>2, <2>3, <2>5, <3>1 DEF AttestedOutcome
  <2>6. CASE s = view
    <3>1. ~ ContradictsCheckpoint(d, d.snapshot.value, chain[s].manifest.epoch)
      <4>1. CASE d.status = "active"
        <5>1. EpochIn(chain, s) \in Nat
          BY <1>2, EpochsCounted
        <5>2. QED
          BY <1>2, <1>3, <4>1, <5>1 DEF ContradictsCheckpoint
      <4>2. CASE d.status # "active"
        BY <1>2, <4>2 DEF ContradictsCheckpoint
      <4>3. QED
        BY <4>1, <4>2
    <3>2. QED
      BY <1>1, <1>2, <2>2, <2>3, <2>6, <3>1 DEF AttestedOutcome
  <2>7. QED
    BY <1>2, <2>4, <2>5, <2>6
<1>7. ASSUME ~ LiveAt(view)
      PROVE  /\ CheckpointOutcome(view, fetchedAt, d) \in {"future", "checkpoint-refused"}
             /\ s <= view => CheckpointOutcome(view, fetchedAt, d) # "future"
  BY <1>1, <1>2, <1>7 DEF CheckpointOutcome, UnattestedOutcome
<1>8. QED
  BY <1>1, <1>4, <1>5, <1>6, <1>7

\* A manifest is refused only when another checkpoint than that of the response is the latest.
LEMMA ManifestOfOneMoment ==
    ASSUME ServerTypes, Recorded(History), NEW d, Served(chain, d),
           NEW view \in 2 .. Now, chain[view].op \in {"checkpoint", "delete"}, LiveAt(view),
           d.snapshot.seq = LatestCheckpoint(view),
           NEW f, GenuineFloor(History, f), FloorBelow(f, d)
    PROVE  ManifestOutcome(view, d.manifest, f.manifest) # "manifest-refused"
<1>1. PICK m, k : m = d.manifest /\ k = f.manifest
  OBVIOUS
<1>2. /\ view \in Nat \ {0} /\ chain[view].op = "checkpoint"
  BY SignedNow DEF LiveAt
<1>3. d.snapshot.seq = view /\ view \in 1 .. view
  BY <1>2, ViewIsLatest
<1>4. /\ m.version \in Nat /\ m.epoch \in Nat /\ m.prev = 1 /\ m.head \in Nat
  BY <1>1, DistributionShape DEF Served, SignedManifests
<1>5. /\ \A i \in TuplesFor(view, m.version) : chain[i].manifest = Evidence(m)
      /\ \/ EpochAt(m.head) = m.epoch
         \/ \E i \in 1 .. view : chain[i].op = "checkpoint" /\ chain[i].manifest = Evidence(m)
      /\ chain[view].manifest.version < m.version \/ chain[view].manifest = Evidence(m)
      /\ chain[view].manifest.epoch = m.epoch
  <2>1. /\ \A i \in 1 .. view : chain[i].op = "checkpoint" =>
              chain[i].manifest.version < m.version \/ chain[i].manifest = Evidence(m)
        /\ \/ EpochIn(chain, m.head) = m.epoch
           \/ \E i \in 1 .. view : chain[i].op = "checkpoint" /\ chain[i].manifest = Evidence(m)
        /\ chain[view].manifest.epoch = m.epoch
    BY <1>1, <1>3 DEF Served, Attested, ManifestAttested
  <2>2. EpochAt(m.head) = EpochIn(chain, m.head)
    BY DEF EpochAt, EpochIn
  <2>3. \A i \in TuplesFor(view, m.version) :
           i \in 1 .. view /\ chain[i].op = "checkpoint" /\ chain[i].manifest.version = m.version
    BY DEF TuplesFor, CheckpointsAt, IsCheckpoint
  <2>4. QED
    BY <1>2, <1>3, <1>4, <2>1, <2>2, <2>3
<1>6. EpochIntegrity(view, m)
  <2>1. CASE TuplesFor(view, m.version) # {}
    BY <1>5, <2>1 DEF EpochIntegrity
  <2>2. CASE TuplesFor(view, m.version) = {}
    <3>1. \A i \in 1 .. view : chain[i].op = "checkpoint" => chain[i].manifest # Evidence(m)
      BY <2>2 DEF TuplesFor, CheckpointsAt, IsCheckpoint, Evidence
    <3>2. QED
      BY <1>5, <2>2, <3>1 DEF EpochIntegrity
  <2>3. QED
    BY <2>1, <2>2
<1>7. ~ BelowCheckpoint(view, m)
  <2>1. LatestCheckpoint(view) = view
    BY <1>3
  <2>2. Evidence(m).version = m.version
    BY DEF Evidence
  <2>3. chain[view].manifest.version \in Nat
    <3>1. view \in 1 .. Len(chain) /\ chain \in Seq(Entries)
      BY <1>2 DEF ServerTypes, Now
    <3>2. chain[view] \in Entries
      BY <3>1
    <3>3. QED
      BY <1>2, <3>2 DEF Entries, Entry, EpochEvidence
  <2>4. QED
    BY <1>4, <1>5, <2>1, <2>2, <2>3 DEF BelowCheckpoint
<1>8. ~ BreaksManifestChain(m, k)
  <2>1. /\ k \in EpochEvidence /\ k.hash <= 1 /\ k.epoch <= m.epoch
        /\ GenuineManifest(History, k)
    BY <1>1 DEF GenuineFloor, GenuineManifest, FloorBelow, Uncolluded
  <2>2. k.version > 0 => k.hash = 1
    <3>1. \A x \in History : Evidence(x.manifest).hash = 1
      BY DistributionShape, SignedEvidence DEF Recorded
    <3>2. QED
      BY <2>1, <3>1 DEF GenuineManifest, Colluding, NoEpochEvidence, EpochEvidence
  <2>3. k.epoch \in Nat
    BY <2>1 DEF EpochEvidence
  <2>4. QED
    BY <1>4, <2>1, <2>2, <2>3 DEF BreaksManifestChain
<1>9. QED
  BY <1>1, <1>6, <1>7, <1>8 DEF ManifestOutcome

\* What a command makes of a true answer is evidence against the server only in a race.
LEMMA AnswerIsNoEvidence ==
    ASSUME Invariant, Honest, NEW c \in Commands, RefuseFetched(c)
    PROVE  \E reason : (reason \in Accusations => Race(c, reason)) /\ Refuse(c, reason)
<1>1. PICK n, d : n = command[c] /\ d = n.response
  OBVIOUS
<1>2. n.phase = "fetched" /\ Sound(History, accepted, n) /\ HonestCommand(chain, distribution, n)
      /\ ServerTypes /\ Recorded(History)
  BY <1>1 DEF RefuseFetched, Honest, Invariant, FloorInvariant, ServerInvariant
<1>3. /\ Served(chain, d) /\ FloorBelow(n.current, d)
      /\ n.fetchedAt \in Nat /\ n.fetchedAt <= n.view /\ n.fetchedAt <= d.snapshot.seq
      /\ n.resynced => d.snapshot.seq <= n.view
      /\ n.view \in 2 .. Now /\ chain[n.view].op \in {"checkpoint", "delete"}
      /\ GenuineFloor(History, n.current)
  BY <1>1, <1>2 DEF HonestCommand, Answered, Begun, Sound, Now
<1>4. /\ Outcome(c) \in {"ok", "future", "retriable", "manifest-refused", "checkpoint-refused"}
      /\ Outcome(c) = "checkpoint-refused" => ~ LiveAt(n.view)
      /\ Outcome(c) = "manifest-refused" => ~ OfOneMoment(c)
      /\ n.resynced => Outcome(c) # "future"
  <2>1. PICK v, m, k : /\ v = ValueOutcome(n.view, d)
                       /\ m = ManifestOutcome(n.view, d.manifest, n.current.manifest)
                       /\ k = CheckpointOutcome(n.view, n.fetchedAt, d)
    OBVIOUS
  <2>2. Outcome(c) = IF n.kind = "values" THEN FirstOf(v, FirstOf(m, k)) ELSE m
    BY <1>1, <2>1 DEF Outcome
  <2>3. /\ v \in {"ok", "future"} /\ m \in {"ok", "future", "manifest-refused"}
        /\ k \in {"ok", "future", "retriable"} \cup (IF LiveAt(n.view) THEN {} ELSE {"checkpoint-refused"})
        /\ n.resynced => v # "future" /\ m # "future" /\ k # "future"
    BY <1>2, <1>3, <2>1, NoEvidenceAgainst
  <2>4. m = "manifest-refused" => ~ OfOneMoment(c)
    BY <1>1, <1>2, <1>3, <2>1, ManifestOfOneMoment DEF OfOneMoment
  <2>5. QED
    BY <2>2, <2>3, <2>4 DEF FirstOf
<1>5. ~ FloorViolated(n.current, d, n.kind)
  BY <1>2, <1>3, NoFloorViolated DEF Served
<1>6. \/ Outcome(c) \in {"retriable", "manifest-refused", "checkpoint-refused"} /\ Refuse(c, Outcome(c))
      \/ Refuse(c, "not-found")
  BY <1>1, <1>4, <1>5 DEF RefuseFetched
<1>7. "retriable" \notin Accusations /\ "not-found" \notin Accusations
  BY DEF Accusations
<1>8. QED
  BY <1>1, <1>4, <1>6, <1>7 DEF Race

(***************************************************************************)
(* The steps while the server has not lied.                                *)
(***************************************************************************)

\* The facts about the server that the steps of commands use.
LEMMA HonestServer ==
    ASSUME Invariant
    PROVE  /\ Served(chain, distribution) /\ distribution \in Distributions
           /\ Now \in Nat /\ Now >= 2 /\ Now = Len(chain) /\ Len(chain) \in Nat
           /\ LiveAt(Now) => distribution.snapshot.seq = Now
           /\ distribution.snapshot.seq <= Now /\ chain[Now].op \in {"checkpoint", "delete"}
           /\ distribution.manifest.epoch = EpochIn(chain, Now)
           /\ Recorded(History)
BY SignedNow DEF Invariant, ServerInvariant, ServerTypes, Served, Attested, Now

\* A floor that has observed nothing is below every distribution.
LEMMA BottomBelow ==
    ASSUME NEW d \in Distributions
    PROVE  FloorBelow(BottomFloor, d)
BY DistributionNumbers DEF FloorBelow, Uncolluded, VariableBelow, BottomFloor, NoVariable,
   NoEpochEvidence

\* One command moves, and the store stays below what is served.
LEMMA HonestMoves ==
    ASSUME Invariant, Honest, NEW c \in Commands, NEW s, Become(c, s), UNCHANGED serverVars,
           HonestCommand(chain, distribution, s),
           s.phase = "refused" /\ s.reason \in Accusations => Race(c, s.reason),
           store'.conflicts = {}, store'.floor.head.version <= Now,
           FloorBelow(store'.floor, distribution)
    PROVE  Honest' /\ OnlyRaces
<1>1. command' = [command EXCEPT ![c] = s] /\ command = [o \in Commands |-> command[o]]
  BY DEF Become, Invariant, FloorInvariant
<1>2. command' = [o \in Commands |-> IF o = c THEN s ELSE command[o]]
  BY <1>1
<1>3. chain' = chain /\ distribution' = distribution /\ Now' = Now
  BY DEF serverVars, Now
<1>4. \A o \in Commands : HonestCommand(chain', distribution', command'[o])
  BY <1>2, <1>3 DEF Honest
<1>5. Honest'
  BY <1>3, <1>4 DEF Honest
<1>6. ASSUME NEW o \in Commands, Accused(o) PROVE Race(o, command'[o].reason)
  <2>1. CASE o = c
    <3>1. command'[o] = s
      BY <1>2, <2>1
    <3>2. s.phase = "refused" => Race(o, command'[o].reason)
      BY <1>6, <2>1, <3>1 DEF Accused
    <3>3. s.phase # "refused" => s.reason \notin Accusations
      BY DEF HonestCommand
    <3>4. QED
      BY <1>6, <3>1, <3>2, <3>3 DEF Accused
  <2>2. CASE o # c
    <3>1. command'[o] = command[o]
      BY <1>2, <2>2
    <3>2. QED
      BY <1>6, <3>1 DEF Accused, Honest, HonestCommand
  <2>3. QED
    BY <2>1, <2>2
<1>7. QED
  BY <1>5, <1>6 DEF OnlyRaces

\* A refusal.
LEMMA HonestRefuses ==
    ASSUME Invariant, Honest, NEW c \in Commands,
           NEW reason, reason \in Accusations => Race(c, reason),
           Refuse(c, reason), UNCHANGED <<serverVars, store>>
    PROVE  Honest' /\ OnlyRaces
<1>1. PICK n : n = NewCommand
  OBVIOUS
<1>2. PICK s : s = [n EXCEPT !.phase = "refused", !.reason = reason]
  OBVIOUS
<1>3. CommandShape(n) /\ n.current = BottomFloor
  BY <1>1 DEF NewCommand, CommandShape
<1>4. s.phase = "refused" /\ s.reason = reason /\ s.current = BottomFloor
  BY <1>2, <1>3 DEF CommandShape
<1>5. FloorBelow(BottomFloor, distribution) /\ BottomFloor.head.version <= Len(chain)
  BY HonestServer, BottomBelow DEF BottomFloor, NoEvidence
<1>6. HonestCommand(chain, distribution, s)
  BY <1>4, <1>5 DEF HonestCommand, Begun
<1>7. Become(c, s)
  BY <1>1, <1>2 DEF Refuse
<1>8. QED
  BY <1>4, <1>6, <1>7, HonestMoves DEF Honest

\* A true answer to a sync is the whole chain.
LEMMA TrueSync ==
    ASSUME Invariant, NEW c \in Commands, NEW view \in 2 .. Now, Synced(c, view),
           lies = 0, lies' = 0
    PROVE  view = Now /\ view \in 2 .. Len(chain) /\ chain[view].op \in {"checkpoint", "delete"}
BY HonestServer DEF Synced, Answers

\* The first sync of a command.
LEMMA SyncHonest ==
    ASSUME Invariant, Honest, NEW c \in Commands, NEW view \in 2 .. Now, Sync(c, view),
           lies = 0, lies' = 0
    PROVE  Honest' /\ OnlyRaces
<1>1. PICK n : n = command[c]
  OBVIOUS
<1>2. PICK s : s = [n EXCEPT !.phase = "synced", !.view = view, !.promised = accepted]
  OBVIOUS
<1>3. /\ CommandShape(n) /\ n.phase = "new" /\ HonestCommand(chain, distribution, n)
      /\ Become(c, s) /\ UNCHANGED serverVars /\ store' = store /\ Synced(c, view)
  BY <1>1, <1>2 DEF Sync, Synced, Honest, Invariant, FloorInvariant, Sound
<1>4. /\ s.phase = "synced" /\ s.view = view /\ s.current = n.current /\ s.reason = n.reason
  BY <1>2, <1>3 DEF CommandShape
<1>5. HonestCommand(chain, distribution, s)
  BY <1>3, <1>4, TrueSync DEF HonestCommand, Begun
<1>6. QED
  BY <1>3, <1>4, <1>5, HonestMoves DEF Honest

\* The store of an honest run has no conflict to be refused for.
LEMMA LoadHonest ==
    ASSUME Invariant, Honest, NEW c \in Commands, LoadFloor(c)
    PROVE  Honest' /\ OnlyRaces
<1>1. PICK n : n = command[c]
  OBVIOUS
<1>2. PICK phase \in {"shortened", "checked"} :
         phase = IF store.floor.head.version > command[c].view THEN "shortened" ELSE "checked"
  OBVIOUS
<1>3. PICK s : s = [n EXCEPT !.phase = phase, !.current = store.floor]
  OBVIOUS
<1>4. /\ CommandShape(n) /\ n.phase = "synced" /\ HonestCommand(chain, distribution, n)
      /\ Become(c, s) /\ UNCHANGED serverVars /\ store' = store
  BY <1>1, <1>2, <1>3 DEF LoadFloor, Honest, Invariant, FloorInvariant, Sound
<1>5. s.phase = phase /\ s.view = n.view /\ s.current = store.floor /\ s.reason = n.reason
  BY <1>3, <1>4 DEF CommandShape
<1>6. HonestCommand(chain, distribution, s)
  BY <1>2, <1>4, <1>5 DEF HonestCommand, Begun, Honest, Now
<1>7. QED
  BY <1>2, <1>4, <1>5, <1>6, HonestMoves DEF Honest

\* No head of the floor, and no earlier view, is beyond the whole chain.
LEMMA ResyncHonest ==
    ASSUME Invariant, Honest, NEW c \in Commands, NEW view \in 2 .. Now,
           ResyncShortened(c, view) \/ ResyncAhead(c, view), lies = 0, lies' = 0
    PROVE  Honest' /\ OnlyRaces
<1>1. PICK n : n = command[c]
  OBVIOUS
<1>2. /\ Sound(History, accepted, n) /\ HonestCommand(chain, distribution, n)
      /\ UNCHANGED serverVars /\ store' = store /\ Synced(c, view)
      /\ n.phase \in {"shortened", "fetched"}
  BY <1>1 DEF ResyncShortened, ResyncAhead, Synced, Honest, Invariant, FloorInvariant
<1>3. view = Now /\ view \in 2 .. Len(chain) /\ chain[view].op \in {"checkpoint", "delete"}
  BY <1>2, TrueSync
<1>4. n.view <= view /\ n.current.head.version <= view /\ n.view \in Nat
  BY <1>2, <1>3 DEF HonestCommand, Begun, Now, Sound
<1>5. GenuineFloor(History, n.current)
  BY <1>2 DEF Sound
<1>6. ~ (view < n.view) /\ ~ (view < n.current.head.version)
  <2>1. n.current.head.version \in Nat
    BY <1>5 DEF GenuineFloor, Heads, NoEvidence
  <2>2. QED
    BY <1>3, <1>4, <2>1, HonestServer
<1>7. PICK s : Become(c, s) /\ \/ s = [n EXCEPT !.phase = "checked", !.view = view]
                                  /\ n.phase = "shortened"
                               \/ s = [n EXCEPT !.view = view, !.resynced = TRUE]
                                  /\ n.phase = "fetched"
  BY <1>1, <1>6 DEF ResyncShortened, ResyncAhead
<1>8. HonestCommand(chain, distribution, s)
  <2>1. CASE s = [n EXCEPT !.phase = "checked", !.view = view] /\ n.phase = "shortened"
    <3>1. s.phase = "checked" /\ s.view = view /\ s.current = n.current /\ s.reason = n.reason
      BY <1>2, <2>1 DEF Sound, CommandShape
    <3>2. QED
      BY <1>2, <1>3, <2>1, <3>1 DEF HonestCommand, Begun
  <2>2. CASE s = [n EXCEPT !.view = view, !.resynced = TRUE] /\ n.phase = "fetched"
    <3>1. /\ s.phase = "fetched" /\ s.view = view /\ s.current = n.current /\ s.reason = n.reason
          /\ s.response = n.response /\ s.fetchedAt = n.fetchedAt /\ n.fetchedAt \in Nat
      BY <1>2, <2>2 DEF Sound, CommandShape
    <3>2. Answered(chain, distribution, n)
      BY <1>2, <2>2 DEF HonestCommand
    <3>3. s.response.snapshot.seq <= view /\ s.fetchedAt <= view
      <4>1. n.response.snapshot.seq <= Now
        BY <3>2, HonestServer DEF Answered, Served, Attested
      <4>2. n.fetchedAt <= n.view
        BY <3>2 DEF Answered
      <4>3. QED
        BY <1>3, <1>4, <3>1, <4>1, <4>2, HonestServer
    <3>4. Answered(chain, distribution, s)
      BY <3>1, <3>2, <3>3 DEF Answered
    <3>5. QED
      BY <1>2, <1>3, <3>1, <3>4 DEF HonestCommand
  <2>3. QED
    BY <1>7, <2>1, <2>2
<1>9. s.phase # "refused"
  BY <1>2, <1>7 DEF Sound, CommandShape
<1>10. QED
  BY <1>2, <1>7, <1>8, <1>9, HonestMoves DEF Honest

\* The head of the chain says nothing about what a floor is below.
LEMMA AlikeBelow ==
    ASSUME NEW a, NEW b, NEW d, SameButHead(a, b), FloorBelow(b, d)
    PROVE  FloorBelow(a, d)
BY DEF SameButHead, FloorBelow, Uncolluded

\* Of two heads the join takes one.
LEMMA JoinedHeads ==
    ASSUME NEW a, NEW b
    PROVE  JoinedFloor(a, b).head \in {a.head, b.head}
BY DEF JoinedFloor, Joined

\* The head that is committed is one of the chain.
LEMMA CommitHonest ==
    ASSUME Invariant, Honest, NEW c \in Commands, CommitHead(c)
    PROVE  Honest' /\ OnlyRaces
<1>1. PICK n : n = command[c]
  OBVIOUS
<1>2. /\ Sound(History, accepted, n) /\ HonestCommand(chain, distribution, n) /\ n.phase = "checked"
      /\ n.view \in Nat \ {0} /\ n.view <= Now /\ n.view \in 2 .. Len(chain)
      /\ Recorded(History) /\ GenuineFloor(History, store.floor)
  BY <1>1, HonestServer DEF CommitHead, Honest, Invariant, FloorInvariant, Sound, HonestCommand, Begun
<1>3. PICK observed : observed = [BottomFloor EXCEPT !.head = HeadAt(n.view)]
  OBVIOUS
<1>4. observed.head.version = n.view
  <2>1. observed.head = HeadAt(n.view)
    BY <1>3 DEF BottomFloor
  <2>2. QED
    BY <2>1 DEF HeadAt
<1>5. /\ FloorConflicts(store.floor, observed) = {}
      /\ SameButHead(JoinedFloor(store.floor, observed), store.floor)
  BY <1>2, <1>3, HeadIsTaken
<1>6. store'.floor = JoinedFloor(store.floor, observed) /\ store'.conflicts = {}
  <2>1. PICK t : t = store'
    OBVIOUS
  <2>2. store = [floor |-> store.floor, conflicts |-> store.conflicts, intents |-> store.intents]
    BY DEF Invariant, FloorInvariant
  <2>3. t = Applied(store, Observation(observed))
    BY <1>1, <1>3, <2>1 DEF CommitHead
  <2>4. t.floor = JoinedFloor(store.floor, observed)
        /\ t.conflicts = store.conflicts \cup FloorConflicts(store.floor, observed)
    BY <2>2, <2>3, ObservationApplied
  <2>5. QED
    BY <1>5, <2>1, <2>4 DEF Honest
<1>7. store'.floor.head.version <= Now
  BY <1>2, <1>4, <1>6, JoinedHeads DEF Honest
<1>8. FloorBelow(store'.floor, distribution)
  BY <1>5, <1>6, AlikeBelow DEF Honest
<1>9. PICK s : s = [n EXCEPT !.phase = "open"]
  OBVIOUS
<1>10. /\ s.phase = "open" /\ s.view = n.view /\ s.current = n.current /\ s.reason = n.reason
  BY <1>2, <1>9 DEF Sound, CommandShape
<1>11. HonestCommand(chain, distribution, s)
  BY <1>2, <1>10 DEF HonestCommand, Begun
<1>12. Become(c, s) /\ UNCHANGED serverVars
  BY <1>1, <1>6, <1>9 DEF CommitHead
<1>13. QED
  BY <1>6, <1>7, <1>8, <1>10, <1>11, <1>12, HonestMoves

\* A true response is what is served now, and a view is never beyond what attests that.
LEMMA FetchHonest ==
    ASSUME Invariant, Honest, NEW c \in Commands, NEW kind, NEW response, Fetch(c, kind, response),
           lies = 0, lies' = 0
    PROVE  Honest' /\ OnlyRaces
<1>1. PICK n : n = command[c]
  OBVIOUS
<1>2. PICK s : s = [n EXCEPT !.phase = "fetched", !.kind = kind, !.response = response,
                       !.fetchedAt = n.view, !.resynced = FALSE, !.fetches = n.fetches + 1]
  OBVIOUS
<1>3. /\ Sound(History, accepted, n) /\ HonestCommand(chain, distribution, n) /\ n.phase = "open"
      /\ response = distribution /\ LiveAt(Now)
      /\ Become(c, s) /\ UNCHANGED serverVars /\ store' = store
  BY <1>1, <1>2 DEF Fetch, Answers, Honest, Invariant, FloorInvariant
<1>4. /\ s.phase = "fetched" /\ s.view = n.view /\ s.current = n.current /\ s.reason = n.reason
      /\ s.response = distribution /\ s.fetchedAt = n.view /\ s.resynced = FALSE
  BY <1>2, <1>3 DEF Sound, CommandShape
<1>5. n.view \in 2 .. Len(chain) /\ n.view \in Nat /\ n.view <= Now
  BY <1>3, HonestServer DEF HonestCommand, Begun
<1>6. Answered(chain, distribution, s)
  <2>1. Later(distribution, distribution) /\ FloorBelow(n.current, distribution)
    BY <1>3, HonestServer, LaterItself DEF HonestCommand
  <2>2. QED
    BY <1>3, <1>4, <1>5, <2>1, HonestServer DEF Answered
<1>7. HonestCommand(chain, distribution, s)
  BY <1>3, <1>4, <1>6 DEF HonestCommand, Begun
<1>8. QED
  BY <1>3, <1>4, <1>7, HonestMoves DEF Honest

\* What a command commits of a true response is below what is served.
LEMMA ObservedBelow ==
    ASSUME Invariant, Honest, NEW c \in Commands, command[c].phase = "fetched"
    PROVE  FloorBelow(Observed(c), distribution)
<1>1. PICK n, o, d : n = command[c] /\ o = Observed(c) /\ d = n.response
  OBVIOUS
<1>2. /\ Sound(History, accepted, n) /\ HonestCommand(chain, distribution, n) /\ n.phase = "fetched"
      /\ n.kind \in {"values", "metadata"} /\ n.view \in Nat /\ n.fetchedAt \in Nat
  BY <1>1 DEF Honest, Invariant, FloorInvariant, Sound
<1>3. /\ Served(chain, d) /\ Later(d, distribution) /\ n.fetchedAt <= d.snapshot.seq
      /\ n.view <= Now /\ d \in Distributions /\ d.snapshot.seq \in Nat
  BY <1>1, <1>2, HonestServer, DistributionNumbers DEF HonestCommand, Answered, Begun, Served
<1>4. /\ d.manifest.epoch = EpochIn(chain, d.snapshot.seq)
      /\ distribution.manifest.epoch = EpochIn(chain, Now)
      /\ \A m : EpochAt(m) = EpochIn(chain, m)
  BY <1>3, HonestServer DEF Served, Attested, EpochAt, EpochIn
<1>5. PICK m : m = Evidence(d.manifest)
  OBVIOUS
<1>6. m.version = d.manifest.version /\ m.epoch = d.manifest.epoch /\ m.hash = 1
  <2>1. d.manifest \in SignedManifests
    BY <1>3, DistributionShape
  <2>2. QED
    BY <1>5, <2>1, SignedEvidence DEF Evidence
<1>7. /\ d.manifest.version \in Nat /\ d.manifest.epoch \in Nat
      /\ distribution.manifest.version \in Nat /\ distribution.manifest.epoch \in Nat
      /\ distribution.value.epoch \in Nat
      /\ d.value.version \in Nat /\ d.meta.version \in Nat /\ d.value.epoch \in Nat
  BY <1>3, HonestServer, DistributionNumbers
<1>8. CASE n.kind = "values"
  <2>1. PICK v : v = VariableFloor(d)
    OBVIOUS
  <2>2. o = [head |-> HeadAt(n.view), pullEpoch |-> EpochAt(n.fetchedAt),
             observedEpoch |-> EpochAt(n.fetchedAt), meta |-> EnvironmentMeta,
             manifest |-> m, variable |-> v]
    BY <1>1, <1>5, <1>8, <2>1 DEF Observed, PullBaseline
  <2>3. /\ v.status = d.status /\ v.meta = d.meta
        /\ v.value.version = d.value.version /\ v.value.epoch = d.value.epoch
        /\ v.value.hash = d.value.hash
    BY <2>1 DEF VariableFloor, Evidence
  <2>4. d.status \in Statuses /\ (d.status = "active" => d.value.hash = 1)
    <3>1. d.status = "active" => d.value \in SignedValues
      BY <1>3, DistributionShape DEF Served, ValueMatchesStatus
    <3>2. QED
      BY <1>3, <3>1, DistributionShape DEF SignedValues
  <2>5. EpochAt(n.fetchedAt) <= d.manifest.epoch
    BY <1>2, <1>3, <1>4, EpochsCounted
  <2>6. VariableBelow(v, d) /\ (d.status = "active" => HasValueOf(v, d))
    BY <1>7, <2>3, <2>4 DEF VariableBelow, HasValueOf, Statuses
  <2>7. Uncolluded(o)
    BY <1>6, <2>2, <2>3, <2>4 DEF Uncolluded
  <2>8. FloorBelow(o, d)
    BY <1>6, <1>7, <2>2, <2>5, <2>6, <2>7 DEF FloorBelow
  <2>9. o \in EnvironmentFloors
    BY <1>1, <1>2, ObservedIsGenuine DEF GenuineFloor
  <2>10. QED
    BY <1>1, <1>3, <2>8, <2>9, HonestServer, BelowLater
<1>9. CASE n.kind = "metadata"
  <2>1. o = [head |-> HeadAt(n.view), pullEpoch |-> 0, observedEpoch |-> EpochAt(n.view),
             meta |-> EnvironmentMeta, manifest |-> m, variable |-> NoVariable]
    BY <1>1, <1>5, <1>9 DEF Observed, MetadataObservation, BottomFloor
  <2>2. EpochAt(n.view) <= distribution.manifest.epoch
    BY <1>2, <1>3, <1>4, HonestServer, EpochsCounted
  <2>3. /\ d.manifest.version <= distribution.manifest.version
        /\ d.manifest.epoch <= distribution.manifest.epoch
    BY <1>3, <1>7 DEF Later
  <2>4. Uncolluded(o)
    BY <1>6, <2>1 DEF Uncolluded, NoVariable
  <2>5. QED
    BY <1>1, <1>6, <1>7, <2>1, <2>2, <2>3, <2>4 DEF FloorBelow, VariableBelow
<1>10. QED
  BY <1>2, <1>8, <1>9

\* What is accepted has no conflict with the store, and the store stays below what is served.
LEMMA AcceptHonest ==
    ASSUME Invariant, Honest, NEW c \in Commands, Accept(c)
    PROVE  Honest' /\ OnlyRaces
<1>1. PICK n, o : n = command[c] /\ o = Observed(c)
  OBVIOUS
<1>2. /\ Sound(History, accepted, n) /\ HonestCommand(chain, distribution, n) /\ n.phase = "fetched"
      /\ GenuineFloor(History, store.floor) /\ Recorded(History)
      /\ FloorBelow(store.floor, distribution) /\ UNCHANGED serverVars
  BY <1>1, HonestServer DEF Accept, Honest, Invariant, FloorInvariant
<1>3. GenuineFloor(History, o) /\ FloorBelow(o, distribution)
  BY <1>1, <1>2, ObservedIsGenuine, ObservedBelow
<1>4. FloorConflicts(store.floor, o) = {}
  BY <1>2, <1>3, UncolludedAgree DEF FloorBelow
<1>5. store'.floor = JoinedFloor(store.floor, o) /\ store'.conflicts = {}
  <2>1. PICK t : t = store'
    OBVIOUS
  <2>2. store = [floor |-> store.floor, conflicts |-> store.conflicts, intents |-> store.intents]
    BY DEF Invariant, FloorInvariant
  <2>3. t = Applied(store, Observation(o))
    BY <1>1, <2>1 DEF Accept
  <2>4. t.floor = JoinedFloor(store.floor, o) /\ t.conflicts = store.conflicts \cup FloorConflicts(store.floor, o)
    BY <2>2, <2>3, ObservationApplied
  <2>5. QED
    BY <1>4, <2>1, <2>4 DEF Honest
<1>6. FloorBelow(store'.floor, distribution)
  BY <1>2, <1>3, <1>5, HonestServer, JoinedBelow
<1>7. store'.floor.head.version <= Now
  <2>1. o.head.version = n.view
    BY <1>1 DEF Observed, MetadataObservation, BottomFloor, HeadAt
  <2>2. n.view <= Now
    BY <1>2, HonestServer DEF HonestCommand, Begun
  <2>3. QED
    BY <1>5, <2>1, <2>2, JoinedHeads DEF Honest
<1>8. PICK s : s = [n EXCEPT !.phase = "open", !.current = store'.floor, !.kind = "none",
                       !.response = Nothing, !.fetchedAt = 0, !.resynced = FALSE]
  OBVIOUS
<1>9. /\ s.phase = "open" /\ s.view = n.view /\ s.current = store'.floor /\ s.reason = n.reason
  BY <1>2, <1>8 DEF Sound, CommandShape
<1>10. HonestCommand(chain, distribution, s)
  BY <1>2, <1>6, <1>7, <1>9 DEF HonestCommand, Begun, Now
<1>11. Become(c, s)
  BY <1>1, <1>5, <1>8 DEF Accept
<1>12. QED
  BY <1>2, <1>5, <1>6, <1>7, <1>9, <1>10, <1>11, HonestMoves

\* What is written later is above what commands hold.
LEMMA WritesHonest ==
    ASSUME Invariant, Honest, Writes
    PROVE  Honest' /\ OnlyRaces
<1>1. /\ ServerInvariant' /\ Extends(chain, chain') /\ Later(distribution, distribution')
      /\ UNCHANGED <<store, command>> /\ ServerInvariant
  BY ServerStep, WritesMove DEF Invariant, ServerInvariant
<1>2. /\ Served(chain, distribution) /\ Served(chain', distribution')
      /\ Now \in Nat /\ Now' \in Nat /\ Now = Len(chain) /\ Now' = Len(chain') /\ Now <= Now'
      /\ distribution \in Distributions /\ distribution' \in Distributions
  BY <1>1 DEF ServerInvariant, ServerTypes, Served, Now, Extends
<1>3. \A d : Served(chain, d) => Served(chain', d)
  BY <1>1, <1>2, ServedKept
<1>4. \A f \in EnvironmentFloors : FloorBelow(f, distribution) => FloorBelow(f, distribution')
  BY <1>1, <1>2, <1>3, BelowLater
<1>5. FloorBelow(store'.floor, distribution') /\ store'.floor.head.version <= Now'
  <2>1. store.floor \in EnvironmentFloors /\ store.floor.head.version \in Nat
    BY DEF Honest, Invariant, FloorInvariant, GenuineFloor, Heads, NoEvidence
  <2>2. QED
    BY <1>1, <1>2, <1>4, <2>1 DEF Honest
<1>6. ASSUME NEW c \in Commands
      PROVE  HonestCommand(chain', distribution', command[c])
  <2>1. PICK n : n = command[c]
    OBVIOUS
  <2>2. /\ HonestCommand(chain, distribution, n) /\ n.current \in EnvironmentFloors
        /\ n.current.head.version \in Nat /\ n.view \in Nat
    BY <2>1 DEF Honest, Invariant, FloorInvariant, Sound, GenuineFloor, Heads, NoEvidence
  <2>3. n.current.head.version <= Len(chain')
    BY <1>2, <2>2 DEF HonestCommand
  <2>4. Begun(n) => n.view \in 2 .. Len(chain') /\ chain'[n.view].op \in {"checkpoint", "delete"}
    BY <1>1, <1>2, <2>2 DEF HonestCommand, Extends
  <2>5. n.phase # "fetched" => FloorBelow(n.current, distribution')
    BY <1>4, <2>2 DEF HonestCommand
  <2>6. ASSUME n.phase = "fetched" PROVE Answered(chain', distribution', n)
    <3>1. Answered(chain, distribution, n)
      BY <2>2, <2>6 DEF HonestCommand
    <3>2. Served(chain', n.response) /\ Later(n.response, distribution')
      BY <1>1, <1>2, <1>3, <3>1, LaterOrdered DEF Answered, Served
    <3>3. QED
      BY <3>1, <3>2 DEF Answered
  <2>7. QED
    BY <2>1, <2>2, <2>3, <2>4, <2>5, <2>6 DEF HonestCommand
<1>7. OnlyRaces
  BY <1>1 DEF OnlyRaces, Accused, Honest, HonestCommand
<1>8. QED
  BY <1>1, <1>5, <1>6, <1>7 DEF Honest

\* Nothing has been answered yet.
LEMMA HonestInitial ==
    ASSUME Init
    PROVE  HonestInvariant
<1>1. /\ store = EmptyFold /\ command = [c \in Commands |-> NewCommand] /\ lies = 0
      /\ distribution \in Distributions /\ Now \in Nat /\ Len(chain) \in Nat
  BY ServerInitial, SignedNow DEF Init, ServerInvariant, ServerTypes, Now
<1>2. FloorBelow(BottomFloor, distribution) /\ BottomFloor.head.version = 0
  BY <1>1, BottomBelow DEF BottomFloor, NoEvidence
<1>3. store.floor = BottomFloor /\ store.conflicts = {}
  BY <1>1 DEF EmptyFold
<1>4. HonestCommand(chain, distribution, NewCommand)
  BY <1>1, <1>2 DEF NewCommand, HonestCommand, Begun, Accusations
<1>5. QED
  BY <1>1, <1>2, <1>3, <1>4 DEF HonestInvariant, Honest

\* A server that has not lied after a step had not lied before it.
LEMMA HonestStep ==
    ASSUME Invariant, HonestInvariant, [Next]_vars
    PROVE  HonestInvariant' /\ (lies' = 0 => OnlyRaces)
<1>1. lies' \in Nat /\ (lies' = 0 => lies = 0)
  <2>1. lies' = lies \/ lies' = lies + 1
    BY WritesMove DEF Next, vars, Sync, ResyncShortened, ResyncAhead, Synced, LoadFloor, CommitHead,
           Fetch, NotFound, RefuseFetched, Accept, Answers, Invariant, ServerInvariant
  <2>2. QED
    BY <2>1 DEF HonestInvariant
<1>2. ASSUME lies' = 0, UNCHANGED vars PROVE Honest' /\ OnlyRaces
  <2>1. Honest /\ Honest'
    BY <1>1, <1>2 DEF HonestInvariant, Honest, vars, Now
  <2>2. OnlyRaces
    BY <1>2, <2>1 DEF OnlyRaces, Accused, Honest, HonestCommand, vars
  <2>3. QED
    BY <2>1, <2>2
<1>3. ASSUME lies' = 0, Writes PROVE Honest' /\ OnlyRaces
  BY <1>1, <1>3, WritesHonest DEF HonestInvariant
<1>4. ASSUME lies' = 0, NEW c \in Commands,
             \/ \E view \in 2 .. Now :
                   Sync(c, view) \/ ResyncShortened(c, view) \/ ResyncAhead(c, view)
             \/ LoadFloor(c) \/ CommitHead(c)
             \/ \E kind \in {"values", "metadata"}, response \in {distribution} \cup Lies :
                   Fetch(c, kind, response)
             \/ NotFound(c) \/ RefuseFetched(c) \/ Accept(c)
      PROVE  Honest' /\ OnlyRaces
  <2>1. lies = 0 /\ Honest
    BY <1>1, <1>4 DEF HonestInvariant
  <2>2. CASE RefuseFetched(c)
    <3>1. UNCHANGED <<serverVars, store>>
      BY <2>2 DEF RefuseFetched
    <3>2. QED
      BY <2>1, <2>2, <3>1, AnswerIsNoEvidence, HonestRefuses
  <2>3. CASE NotFound(c)
    <3>1. /\ Refuse(c, "not-found") /\ UNCHANGED <<serverVars, store>>
          /\ "not-found" \notin Accusations
      BY <2>3 DEF NotFound, Accusations
    <3>2. QED
      BY <2>1, <3>1, HonestRefuses
  <2>4. QED
    BY <1>4, <2>1, <2>2, <2>3, SyncHonest, ResyncHonest, LoadHonest, CommitHonest, FetchHonest,
       AcceptHonest
<1>5. QED
  BY <1>1, <1>2, <1>3, <1>4 DEF Next, HonestInvariant

\* A server that has not lied is accused over a manifest only when a checkpoint came between the
\* chain and the response a command holds, and over a checkpoint only when the environment was
\* deleted between its fetch and its second sync (loadCheckedFloor, pullWithBoundedResync,
\* locatorOutcome, noBaselineOutcome, enforceFloor).
THEOREM HonestServersAreAccusedOnlyInRaces == Spec => AccusedOnlyInRaces
<1>1. Init => HonestInvariant
  BY HonestInitial
<1>2. Invariant /\ HonestInvariant /\ [Next]_vars => HonestInvariant'
  BY HonestStep
<1>3. Invariant /\ HonestInvariant /\ [Next]_vars =>
         [\A c \in Commands : Accused(c) /\ lies' = 0 =>
             \/ command'[c].reason = "manifest-refused" /\ ~ OfOneMoment(c)
             \/ command'[c].reason = "checkpoint-refused" /\ ~ LiveAt(command[c].view)]_vars
  BY HonestStep DEF OnlyRaces, Race
<1>4. QED
  BY <1>1, <1>2, <1>3, CommandsAreSound, PTL DEF Spec, AccusedOnlyInRaces

=============================================================================
